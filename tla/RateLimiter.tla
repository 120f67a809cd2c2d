---------------------------- MODULE RateLimiter ----------------------------
(***************************************************************************)
(* The per-client token bucket in front of /api (cmd/testmaker/            *)
(* ratelimit.go). allow is one critical section, so one action per verdict. *)
(* Tokens are counted in parts, Unit parts to a token, and refill Rate     *)
(* parts per tick: the code's float64 arithmetic taken as exact.           *)
(*                                                                         *)
(* An operator named ...Bug is a plausible slip in the one it precedes,    *)
(* used only to show which property notices.                               *)
(***************************************************************************)
EXTENDS Integers, FiniteSets

CONSTANTS
    Keys,       \* client addresses
    NoBucket,   \* a key the map does not hold
    MaxBuckets, \* maxRateBuckets
    Burst,      \* limits.burst, in tokens
    Unit,       \* parts per token
    Rate,       \* parts refilled per tick
    Second,     \* ticks per second, the Retry-After of a refusal
    MaxClock    \* bound on the clock, for model checking only

Full == Burst * Unit

Buckets == [tokens : Int, last : Nat]

ASSUME LimitAssumption ==
    /\ IsFiniteSet(Keys) /\ NoBucket \notin Buckets
    /\ MaxBuckets \in Nat /\ MaxClock \in Nat /\ Second \in Nat
    /\ Burst \in Nat \ {0} /\ Unit \in Nat \ {0} /\ Rate \in Nat \ {0}

VARIABLES
    buckets,    \* buckets[k] is the bucket of client k, or NoBucket
    clock,      \* the wall clock
    admitted,   \* observer: requests of each client let through since since[k]
    since,      \* observer: the instant at which the count of client k began
    stepped     \* observer: the wall clock has been set back

limiterVars == <<buckets, clock, admitted, since, stepped>>

LimiterInit ==
    /\ buckets = [k \in Keys |-> NoBucket]
    /\ clock = 0
    /\ admitted = [k \in Keys |-> 0]
    /\ since = [k \in Keys |-> 0]
    /\ stepped = FALSE

-----------------------------------------------------------------------------
Known == {k \in Keys : buckets[k] # NoBucket}

(* sweepIdleLocked compares the tokens as they were stored. *)
Swept == [k \in Keys |-> IF buckets[k] # NoBucket /\ buckets[k].tokens >= Full
                         THEN NoBucket ELSE buckets[k]]

(* The map allow works on: a client not in it gets a full bucket. *)
Opened(k) ==
    IF buckets[k] # NoBucket THEN buckets
    ELSE [(IF Cardinality(Known) >= MaxBuckets THEN Swept ELSE buckets)
             EXCEPT ![k] = [tokens |-> Full, last |-> clock]]

(* The last refill is not remembered by a refused request. *)
RefilledBug(b) ==
    LET tokens == b.tokens + (clock - b.last) * Rate
    IN  [tokens |-> IF tokens > Full THEN Full ELSE tokens,
         last |-> IF tokens < Unit THEN b.last ELSE clock]

(* A clock that was set back refills a negative amount. *)
Refilled(b) ==
    LET tokens == b.tokens + (clock - b.last) * Rate
    IN  [tokens |-> IF tokens > Full THEN Full ELSE tokens, last |-> clock]

Allow(k) ==
    LET b == Refilled(Opened(k)[k]) IN
    /\ b.tokens >= Unit
    /\ buckets' = [Opened(k) EXCEPT ![k] = [tokens |-> b.tokens - Unit, last |-> b.last]]
    /\ admitted' = [admitted EXCEPT ![k] = admitted[k] + 1]
    /\ UNCHANGED <<clock, since, stepped>>

(* A refused request is charged as well. *)
RefuseBug(k) ==
    LET b == Refilled(Opened(k)[k]) IN
    /\ b.tokens < Unit
    /\ buckets' = [Opened(k) EXCEPT ![k] = [tokens |-> b.tokens - Unit, last |-> b.last]]
    /\ UNCHANGED <<clock, admitted, since, stepped>>

Refuse(k) ==
    LET b == Refilled(Opened(k)[k]) IN
    /\ b.tokens < Unit
    /\ buckets' = [Opened(k) EXCEPT ![k] = b]
    /\ UNCHANGED <<clock, admitted, since, stepped>>

ClockTicks ==
    /\ clock < MaxClock
    /\ clock' = clock + 1
    /\ UNCHANGED <<buckets, admitted, since, stepped>>

StepBack ==
    /\ clock > 0
    /\ clock' = clock - 1
    /\ stepped' = TRUE
    /\ UNCHANGED <<buckets, admitted, since>>

(* Not code: the observer starts a new count at any request's instant. *)
Observe(k) ==
    /\ buckets[k] # NoBucket
    /\ since' = [since EXCEPT ![k] = buckets[k].last]
    /\ admitted' = [admitted EXCEPT ![k] = 0]
    /\ UNCHANGED <<buckets, clock, stepped>>

LimiterNext == (\E k \in Keys : Allow(k) \/ Refuse(k) \/ Observe(k)) \/ ClockTicks \/ StepBack

LimiterSpec == LimiterInit /\ [][LimiterNext]_limiterVars

-----------------------------------------------------------------------------
(* A bucket never holds more than a burst, nor less than nothing unless    *)
(* the clock has been set back.                                            *)
LimiterTypeOK ==
    /\ buckets \in [Keys -> Buckets \cup {NoBucket}]
    /\ \A k \in Known : buckets[k].tokens <= Full /\ (~stepped => buckets[k].tokens >= 0)
    /\ clock \in Nat
    /\ admitted \in [Keys -> Nat]
    /\ since \in [Keys -> Nat]
    /\ stepped \in BOOLEAN

(* In no window of time is a client let through more often than one burst  *)
(* plus what the window refills, whether or not its bucket was swept and   *)
(* recreated full inside it ("reclaiming space without evicting an active  *)
(* limiter") and whatever the wall clock did.                              *)
NeverAboveRate ==
    \A k \in Known :
        admitted[k] * Unit + buckets[k].tokens <= Full + Rate * (buckets[k].last - since[k])

(* A refused client that waits the Retry-After it was told is let through: *)
(* its bucket is never deeper in debt than one second repays. Only for     *)
(* rates of a request per second or more and a clock never yet set back.   *)
RetryAfterIsEnough ==
    ~stepped /\ Rate * Second >= Unit =>
        \A k \in Known : buckets[k].tokens + Rate * Second >= Unit

=============================================================================

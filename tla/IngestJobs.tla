----------------------------- MODULE IngestJobs -----------------------------
(***************************************************************************)
(* Asynchronous ingest of cmd/testmaker: the in-memory job registry, the   *)
(* semaphore that sync requests and background runners share, and the      *)
(* runner goroutine of each job, step by step between the points where     *)
(* another goroutine may run. What a run fetches and stores is not modelled *)
(* here, only that it returns, fails or panics.                            *)
(*                                                                         *)
(* An operator named ...Bug is a plausible slip in the one it precedes,    *)
(* used only to show which property notices.                               *)
(***************************************************************************)
EXTENDS Naturals, Sequences, SequencesExt, FiniteSets, Lists

CONSTANTS
    Jobs,       \* job ids ever drawn: the bound on the number of async requests
    Callers,    \* sync ingest requests in flight at once
    Slots,      \* limits.maxConcurrentIngests; 0 leaves the gate out
    MaxJobs     \* the registry's capacity

ASSUME GateAssumption ==
    /\ Slots \in Nat /\ MaxJobs \in Nat
    /\ IsFiniteSet(Jobs) /\ IsFiniteSet(Callers) /\ Jobs \cap Callers = {}

VARIABLES
    jobs,       \* the registry: jobs[j] is the state a poll of j reads, or "absent"
    order,      \* registered ids, oldest first
    runner,     \* where the background goroutine of each job stands
    expired,    \* jobs whose run context has passed its deadline
    caller,     \* sync requests: "idle" or "ingesting"
    used,       \* slots taken in the semaphore's channel
    waiting     \* runners blocked on the full channel, first come first

gate == <<used, waiting>>
vars == <<jobs, order, runner, expired, caller, used, waiting>>

(* "done", "failed", "panic": what the ingest call came back with.         *)
(* "gaveup": acquire returned the context's error. "unwinding": outcome    *)
(* recorded, deferred release pending. "recovering": released by the       *)
(* panic's unwinding, recoverJob pending.                                  *)
Phases == {"none", "spawned", "waiting", "held", "ingesting", "done", "failed", "panic",
           "gaveup", "unwinding", "recovering", "over"}

JobStates == {"absent", "queued", "running", "done", "failed"}

Terminal(state) == state \in {"done", "failed"}

Init ==
    /\ jobs = [j \in Jobs |-> "absent"]
    /\ order = <<>>
    /\ runner = [j \in Jobs |-> "none"]
    /\ expired = {}
    /\ caller = [c \in Callers |-> "idle"]
    /\ used = 0
    /\ waiting = <<>>

-----------------------------------------------------------------------------
(* Registry: each operation is one critical section of jobRegistry.mu. *)

(* pruneLocked starting from the newest. *)
EvictedNewestBug(js, ord) ==
    {ord[k] : k \in {i \in DOMAIN ord :
        /\ Terminal(js[ord[i]])
        /\ Cardinality({l \in i..Len(ord) : Terminal(js[ord[l]])}) + MaxJobs <= Len(ord)}}

(* pruneLocked: the oldest terminal jobs, as many as are over capacity. *)
Evicted(js, ord) ==
    {ord[k] : k \in {i \in DOMAIN ord :
        /\ Terminal(js[ord[i]])
        /\ Cardinality({l \in 1..i : Terminal(js[ord[l]])}) + MaxJobs <= Len(ord)}}

(* What is left of ord without out, in the order it was.                   *)
Without(ord, out) == Picked(ord, {k \in DOMAIN ord : ord[k] \notin out})

(* handleIngest with "async": registers the job, prunes, spawns the runner. *)
Create(j) ==
    LET js  == [jobs EXCEPT ![j] = "queued"]
        ord == Append(order, j)
        out == Evicted(js, ord)
    IN  /\ runner[j] = "none"
        /\ jobs' = [i \in Jobs |-> IF i \in out THEN "absent" ELSE js[i]]
        /\ order' = Without(ord, out)
        /\ runner' = [runner EXCEPT ![j] = "spawned"]
        /\ UNCHANGED <<expired, caller, gate>>

(* start and finish touch the job only if the registry still holds it. *)
Mark(j, state) == jobs' = IF jobs[j] = "absent" THEN jobs ELSE [jobs EXCEPT ![j] = state]

-----------------------------------------------------------------------------
(* Semaphore: a buffered channel. *)

HasRoom == Slots = 0 \/ used < Slots

(* acquire: a slot at once, or a place in the channel's queue of senders.  *)
Acquire(j) ==
    /\ runner[j] = "spawned"
    /\ HasRoom
    /\ used' = used + 1
    /\ runner' = [runner EXCEPT ![j] = "held"]
    /\ UNCHANGED <<jobs, order, expired, caller, waiting>>

Block(j) ==
    /\ runner[j] = "spawned"
    /\ ~HasRoom /\ j \notin expired
    /\ waiting' = Append(waiting, j)
    /\ runner' = [runner EXCEPT ![j] = "waiting"]
    /\ UNCHANGED <<jobs, order, expired, caller, used>>

(* The select prefers neither case: an expired runner may still take a     *)
(* free slot, or give up although one is free.                             *)
GiveUp(j) ==
    /\ j \in expired
    /\ \/ runner[j] = "spawned" /\ UNCHANGED waiting
       \/ \E k \in DOMAIN waiting : waiting[k] = j /\ waiting' = RemoveAt(waiting, k)
    /\ runner' = [runner EXCEPT ![j] = "gaveup"]
    /\ UNCHANGED <<jobs, order, expired, caller, used>>

(* A receive hands its slot to the first blocked sender, if there is one:  *)
(* no tryAcquire can slip in between.                                      *)
Handed == IF waiting = <<>> THEN {} ELSE {Head(waiting)}

FreeSlot ==
    /\ used' = IF waiting = <<>> THEN used - 1 ELSE used
    /\ waiting' = IF waiting = <<>> THEN waiting ELSE Tail(waiting)

(* The release is not deferred: a panic skips it. *)
ReleaseBug(j) ==
    LET next == IF runner[j] = "panic" THEN "recovering" ELSE "over" IN
    /\ runner[j] \in {"unwinding", "panic"}
    /\ IF runner[j] = "panic"
       THEN UNCHANGED gate /\ runner' = [runner EXCEPT ![j] = next]
       ELSE FreeSlot /\ runner' = [i \in Jobs |-> IF i = j THEN next
                                                  ELSE IF i \in Handed THEN "held" ELSE runner[i]]
    /\ UNCHANGED <<jobs, order, expired, caller>>

(* The deferred release: after the outcome is recorded, but before it when *)
(* the run panicked (deferred calls run last in, first out).               *)
Release(j) ==
    LET next == IF runner[j] = "panic" THEN "recovering" ELSE "over" IN
    /\ runner[j] \in {"unwinding", "panic"}
    /\ FreeSlot
    /\ runner' = [i \in Jobs |-> IF i = j THEN next
                                 ELSE IF i \in Handed THEN "held" ELSE runner[i]]
    /\ UNCHANGED <<jobs, order, expired, caller>>

(* The sync path: a full gate is a 429, which changes nothing. *)
SyncIngest(c) ==
    /\ caller[c] = "idle"
    /\ HasRoom
    /\ used' = used + 1
    /\ caller' = [caller EXCEPT ![c] = "ingesting"]
    /\ UNCHANGED <<jobs, order, runner, expired, waiting>>

(* It returns, fails, panics or loses its client: the slot is released. *)
SyncReturn(c) ==
    /\ caller[c] = "ingesting"
    /\ FreeSlot
    /\ runner' = [i \in Jobs |-> IF i \in Handed THEN "held" ELSE runner[i]]
    /\ caller' = [caller EXCEPT ![c] = "idle"]
    /\ UNCHANGED <<jobs, order, expired>>

-----------------------------------------------------------------------------
(* Runner *)

StartJob(j) ==
    /\ runner[j] = "held"
    /\ Mark(j, "running")
    /\ runner' = [runner EXCEPT ![j] = "ingesting"]
    /\ UNCHANGED <<order, expired, caller, gate>>

(* The ingest call ends, whether or not its deadline has passed. *)
IngestEnds(j, outcome) ==
    /\ runner[j] = "ingesting"
    /\ runner' = [runner EXCEPT ![j] = outcome]
    /\ UNCHANGED <<jobs, order, expired, caller, gate>>

(* A recovered panic is not recorded on the job. *)
FinishBug(j) ==
    LET phase == runner[j] IN
    /\ phase \in {"done", "failed", "gaveup", "recovering"}
    /\ IF phase = "recovering" THEN UNCHANGED jobs
       ELSE Mark(j, IF phase = "done" THEN "done" ELSE "failed")
    /\ runner' = [runner EXCEPT ![j] = IF phase \in {"done", "failed"} THEN "unwinding" ELSE "over"]
    /\ UNCHANGED <<order, expired, caller, gate>>

(* A failed run is put back in the queue for the console to retry. *)
FinishRequeueBug(j) ==
    LET phase == runner[j] IN
    /\ phase \in {"done", "failed", "gaveup", "recovering"}
    /\ Mark(j, IF phase = "done" THEN "done" ELSE IF phase = "failed" THEN "queued" ELSE "failed")
    /\ runner' = [runner EXCEPT ![j] = IF phase \in {"done", "failed"} THEN "unwinding" ELSE "over"]
    /\ UNCHANGED <<order, expired, caller, gate>>

(* finish, also called by recoverJob: only a run that returned without an  *)
(* error is done.                                                          *)
Finish(j) ==
    LET phase == runner[j] IN
    /\ phase \in {"done", "failed", "gaveup", "recovering"}
    /\ Mark(j, IF phase = "done" THEN "done" ELSE "failed")
    /\ runner' = [runner EXCEPT ![j] = IF phase \in {"done", "failed"} THEN "unwinding" ELSE "over"]
    /\ UNCHANGED <<order, expired, caller, gate>>

(* limits.ingestTimeoutSeconds counts from the spawn, the wait included. *)
Expire(j) ==
    /\ runner[j] \notin {"none", "over"} /\ j \notin expired
    /\ expired' = expired \cup {j}
    /\ UNCHANGED <<jobs, order, runner, caller, gate>>

Run(j) ==
    \/ Acquire(j) \/ Block(j) \/ GiveUp(j) \/ StartJob(j)
    \/ \E outcome \in {"done", "failed", "panic"} : IngestEnds(j, outcome)
    \/ Finish(j) \/ Release(j)

Next ==
    \/ \E j \in Jobs : Create(j) \/ Run(j) \/ Expire(j)
    \/ \E c \in Callers : SyncIngest(c) \/ SyncReturn(c)

Spec == Init /\ [][Next]_vars

(* Goroutines are scheduled and an ingest call returns (its fetcher's and  *)
(* model's clients time out); nobody has to call, and no deadline has to   *)
(* expire.                                                                 *)
FairSpec ==
    /\ Spec
    /\ \A j \in Jobs : WF_vars(Run(j))
    /\ \A c \in Callers : WF_vars(SyncReturn(c))

-----------------------------------------------------------------------------
(* Values and shapes; the queue of the channel holds each blocked runner   *)
(* once.                                                                   *)
TypeOK ==
    /\ jobs \in [Jobs -> JobStates]
    /\ order \in Seq(Jobs)
    /\ runner \in [Jobs -> Phases]
    /\ expired \subseteq Jobs
    /\ caller \in [Callers -> {"idle", "ingesting"}]
    /\ used \in Nat
    /\ waiting \in Seq(Jobs)

HoldingPhases == {"held", "ingesting", "done", "failed", "panic", "unwinding"}

Holders == {j \in Jobs : runner[j] \in HoldingPhases} \cup {c \in Callers : caller[c] = "ingesting"}

Ingesting == {j \in Jobs : runner[j] = "ingesting"} \cup {c \in Callers : caller[c] = "ingesting"}

(* No slot leaks and none is invented, through give-ups, hand-offs and     *)
(* panics: the channel holds one element per live holder, runners only     *)
(* wait while it is full, and the goroutines parked on it are its queue.   *)
SlotsAccounted ==
    /\ used = Cardinality(Holders)
    /\ waiting # <<>> => ~HasRoom
    /\ {j \in Jobs : runner[j] = "waiting"} = ToSet(waiting)
    /\ IsInjective(waiting)

(* One gate bounds outbound fetches and model spend regardless of the path *)
(* (semaphore.go).                                                         *)
RunsBounded == Slots # 0 => Cardinality(Ingesting) <= Slots

(* Phases in which the runner has not recorded an outcome yet. *)
Unrecorded == {"spawned", "waiting", "held", "ingesting", "done", "failed", "panic",
               "gaveup", "recovering"}

(* Pruning never drops an in-flight job, and its poll never shows an       *)
(* outcome early; once its goroutine is gone a job is never left queued or *)
(* running, even after a panic.                                            *)
PollsAreTruthful ==
    \A j \in Jobs :
        /\ runner[j] \in Unrecorded => jobs[j] \in {"queued", "running"}
        /\ runner[j] \in {"unwinding", "over"} => Terminal(jobs[j]) \/ jobs[j] = "absent"

(* A poller sees a job move forward only: queued, running, one outcome,    *)
(* then at most its eviction.                                              *)
ForwardOnly ==
    [][ \A j \in Jobs : jobs'[j] # jobs[j] =>
          \/ jobs[j] = "absent" /\ jobs'[j] = "queued" /\ runner[j] = "none"
          \/ jobs[j] = "queued" /\ jobs'[j] \in {"running", "failed"}
          \/ jobs[j] = "running" /\ Terminal(jobs'[j])
          \/ Terminal(jobs[j]) /\ jobs'[j] = "absent" ]_vars

(* Only outcomes older than every outcome kept are forgotten, no more than *)
(* the capacity asks for, and the registry exceeds it only when everything *)
(* in it is in flight.                                                     *)
EvictsOldestOutcomes ==
    [][ LET gone == {k \in DOMAIN order : jobs'[order[k]] = "absent"}
            kept == {k \in DOMAIN order : Terminal(jobs[order[k]])} \ gone
        IN  /\ \A g \in gone, k \in kept : g < k
            /\ gone # {} => Len(order') >= MaxJobs
            /\ Len(order') > Len(order) /\ Len(order') > MaxJobs
                   => \A k \in DOMAIN order' : ~Terminal(jobs'[order'[k]]) ]_vars

(* Every async job settles: sync requests that keep coming cannot starve a *)
(* queued one, and neither an expiry nor a panic strands it.               *)
JobsSettle == \A j \in Jobs : runner[j] = "spawned" ~> runner[j] = "over"
=============================================================================

----------------------------- MODULE ServerProofs ----------------------------
(***************************************************************************)
(* The delivery server around its verbs. IngestJobs: slots, polls and the  *)
(* registry, for any number of jobs, callers and slots and any capacity;   *)
(* for slots and polls all that matters of pruning is that it drops        *)
(* outcomes only. Access: for any number of instances, takers, tests,      *)
(* attempts and secrets, takers keep to their own invites and attempts,    *)
(* and a token verifies wherever it is shown unless two first starts       *)
(* overlapped. RateLimiter: for every rate, burst, cap on the map and      *)
(* course of the wall clock, no client is let through above the rate, and  *)
(* a refused one is told the truth.                                        *)
(***************************************************************************)
EXTENDS Access, RateLimiter, IngestJobs, ListProofs

-----------------------------------------------------------------------------
(* IngestJobs                                                              *)

Shapes ==
    /\ jobs \in [Jobs -> JobStates]
    /\ runner \in [Jobs -> Phases]
    /\ caller \in [Callers -> {"idle", "ingesting"}]
    /\ used \in Nat
    /\ waiting \in Seq(Jobs)

(* Only a free slot is ever taken.                                         *)
WithinSlots == Slots # 0 => used <= Slots

Gate == Shapes /\ SlotsAccounted /\ WithinSlots

(* Where the goroutine of a job stands decides what its poll may read.     *)
AwaitPhases == {"spawned", "waiting", "held", "gaveup"}

RunPhases == {"ingesting", "done", "failed", "panic", "recovering"}

Told(where, state) ==
    /\ where = "none" => state = "absent"
    /\ where \in AwaitPhases => state = "queued"
    /\ where \in RunPhases => state = "running"
    /\ where \in {"unwinding", "over"} => Terminal(state) \/ state = "absent"

Polls == \A j \in Jobs : Told(runner[j], jobs[j])

IInv == Gate /\ Polls

-----------------------------------------------------------------------------
(* The channel's queue *)

LEMMA AppendQueue ==
    ASSUME NEW q \in Seq(Jobs), IsInjective(q), NEW j \in Jobs, j \notin ToSet(q)
    PROVE  /\ Append(q, j) \in Seq(Jobs)
           /\ ToSet(Append(q, j)) = ToSet(q) \cup {j}
           /\ IsInjective(Append(q, j))
<1> DEFINE p == Append(q, j)
<1>1. /\ p \in Seq(Jobs) /\ DOMAIN q = 1..Len(q) /\ Len(q) \in Nat
      /\ DOMAIN p = 1..(Len(q) + 1)
      /\ \A k \in 1..Len(q) : p[k] = q[k]
      /\ p[Len(q) + 1] = j
  BY AppendProperties, LenProperties
<1> HIDE DEF p
<1>2. ToSet(p) = ToSet(q) \cup {j}
  BY <1>1 DEF ToSet
<1>3. IsInjective(p)
  <2> SUFFICES ASSUME NEW k \in 1..(Len(q) + 1), NEW l \in 1..(Len(q) + 1), p[k] = p[l]
               PROVE  k = l
    BY <1>1 DEF IsInjective
  <2>1. \A i \in 1..Len(q) : q[i] # j
    BY <1>1 DEF ToSet
  <2>2. CASE k = Len(q) + 1 \/ l = Len(q) + 1
    BY <1>1, <2>1, <2>2
  <2>3. CASE k \in 1..Len(q) /\ l \in 1..Len(q)
    BY <1>1, <2>3 DEF IsInjective
  <2>4. QED
    BY <1>1, <2>2, <2>3
<1>4. QED
  BY <1>1, <1>2, <1>3 DEF p

LEMMA TailQueue ==
    ASSUME NEW q \in Seq(Jobs), IsInjective(q), q # <<>>
    PROVE  /\ Tail(q) \in Seq(Jobs)
           /\ Head(q) \in ToSet(q)
           /\ ToSet(Tail(q)) = ToSet(q) \ {Head(q)}
           /\ IsInjective(Tail(q))
<1> DEFINE p == Tail(q)
<1>1. /\ p \in Seq(Jobs) /\ Len(q) \in Nat \ {0} /\ Len(p) = Len(q) - 1
      /\ DOMAIN q = 1..Len(q) /\ DOMAIN p = 1..(Len(q) - 1)
      /\ \A k \in 1..(Len(q) - 1) : p[k] = q[k + 1]
      /\ Head(q) = q[1]
  BY HeadTailProperties, LenProperties, EmptySeq
<1> HIDE DEF p
<1>2. Head(q) \in ToSet(q)
  BY <1>1 DEF ToSet
<1>3. ToSet(p) = ToSet(q) \ {Head(q)}
  <2>1. ASSUME NEW x \in ToSet(p) PROVE x \in ToSet(q) \ {Head(q)}
    <3>1. PICK k \in 1..(Len(q) - 1) : x = q[k + 1]
      BY <1>1, <2>1 DEF ToSet
    <3>2. k + 1 \in DOMAIN q /\ 1 \in DOMAIN q /\ k + 1 # 1
      BY <1>1
    <3>3. QED
      BY <1>1, <3>1, <3>2 DEF ToSet, IsInjective
  <2>2. ASSUME NEW x \in ToSet(q) \ {Head(q)} PROVE x \in ToSet(p)
    <3>1. PICK k \in 1..Len(q) : x = q[k]
      BY <1>1, <2>2 DEF ToSet
    <3>2. k - 1 \in 1..(Len(q) - 1) /\ (k - 1) + 1 = k
      BY <1>1, <2>2, <3>1
    <3>3. p[k - 1] = x
      BY <1>1, <3>1, <3>2
    <3>4. QED
      BY <1>1, <3>2, <3>3 DEF ToSet
  <2>3. QED
    BY <2>1, <2>2
<1>4. IsInjective(p)
  <2> SUFFICES ASSUME NEW k \in 1..(Len(q) - 1), NEW l \in 1..(Len(q) - 1), p[k] = p[l]
               PROVE  k = l
    BY <1>1 DEF IsInjective
  <2>1. k + 1 \in DOMAIN q /\ l + 1 \in DOMAIN q /\ q[k + 1] = q[l + 1]
    BY <1>1
  <2>2. k + 1 = l + 1
    BY <2>1 DEF IsInjective
  <2>3. QED
    BY <2>2
<1>5. QED
  BY <1>1, <1>2, <1>3, <1>4 DEF p

LEMMA RemoveQueue ==
    ASSUME NEW q \in Seq(Jobs), IsInjective(q), NEW n \in DOMAIN q
    PROVE  /\ RemoveAt(q, n) \in Seq(Jobs)
           /\ ToSet(RemoveAt(q, n)) = ToSet(q) \ {q[n]}
           /\ IsInjective(RemoveAt(q, n))
<1> DEFINE front == SubSeq(q, 1, n - 1)
           back == SubSeq(q, n + 1, Len(q))
           p == front \o back
           Old(k) == IF k < n THEN k ELSE k + 1
<1>1. Len(q) \in Nat /\ DOMAIN q = 1..Len(q) /\ n \in 1..Len(q) /\ \A k \in 1..Len(q) : q[k] \in Jobs
  BY LenProperties, ElementOfSeq
<1>2. front \in Seq(Jobs) /\ Len(front) = n - 1 /\ \A k \in 1..(n - 1) : front[k] = q[k]
  <2>1. 1 \in Int /\ n - 1 \in Int /\ \A k \in 1..(n - 1) : q[k] \in Jobs
    BY <1>1
  <2>2. /\ front \in Seq(Jobs)
        /\ Len(front) = IF 1 <= n - 1 THEN n - 1 - 1 + 1 ELSE 0
        /\ \A k \in 1..(n - 1 - 1 + 1) : front[k] = q[1 + k - 1]
    BY <2>1, SubSeqProperties
  <2>3. QED
    BY <1>1, <2>2
<1>3. back \in Seq(Jobs) /\ Len(back) = Len(q) - n /\ \A k \in 1..(Len(q) - n) : back[k] = q[n + k]
  <2>1. n + 1 \in Int /\ Len(q) \in Int /\ \A k \in (n + 1)..Len(q) : q[k] \in Jobs
    BY <1>1
  <2>2. /\ back \in Seq(Jobs)
        /\ Len(back) = IF n + 1 <= Len(q) THEN Len(q) - (n + 1) + 1 ELSE 0
        /\ \A k \in 1..(Len(q) - (n + 1) + 1) : back[k] = q[n + 1 + k - 1]
    BY <2>1, SubSeqProperties
  <2>3. /\ Len(q) - (n + 1) + 1 = Len(q) - n /\ (n + 1 <= Len(q) \/ Len(q) - n = 0)
        /\ \A k \in 1..(Len(q) - n) : n + 1 + k - 1 = n + k
    BY <1>1
  <2> HIDE DEF back
  <2>4. QED
    BY <1>1, <2>2, <2>3
<1> HIDE DEF front, back
<1>4. /\ p \in Seq(Jobs) /\ Len(p) = Len(front) + Len(back)
      /\ \A k \in 1..(Len(front) + Len(back)) :
            p[k] = IF k <= Len(front) THEN front[k] ELSE back[k - Len(front)]
  BY <1>2, <1>3, ConcatProperties
<1>5. p \in Seq(Jobs) /\ DOMAIN p = 1..(Len(q) - 1)
  <2> HIDE DEF p
  <2>1. p \in Seq(Jobs) /\ Len(p) = Len(q) - 1
    BY <1>1, <1>2, <1>3, <1>4
  <2>2. QED
    BY <2>1, LenProperties
<1>6. ASSUME NEW k \in 1..(Len(q) - 1) PROVE p[k] = q[Old(k)] /\ Old(k) \in 1..Len(q) /\ Old(k) # n
  <2>1. k \in 1..(Len(front) + Len(back))
    BY <1>1, <1>2, <1>3
  <2>2. CASE k < n
    <3>1. k <= Len(front) /\ k \in 1..(n - 1)
      BY <1>1, <1>2, <2>2
    <3>2. QED
      BY <1>1, <1>2, <1>4, <2>1, <2>2, <3>1
  <2>3. CASE ~(k < n)
    <3>1. ~(k <= Len(front)) /\ k - Len(front) \in 1..(Len(q) - n) /\ n + (k - Len(front)) = k + 1
      BY <1>1, <1>2, <2>3
    <3>2. p[k] = back[k - Len(front)]
      BY <1>4, <2>1, <3>1
    <3>3. p[k] = q[k + 1]
      BY <1>3, <3>1, <3>2
    <3>4. QED
      BY <1>1, <2>3, <3>3
  <2>4. QED
    BY <2>2, <2>3
<1> HIDE DEF p
<1>7. ToSet(p) = ToSet(q) \ {q[n]}
  <2>1. ASSUME NEW x \in ToSet(p) PROVE x \in ToSet(q) \ {q[n]}
    <3>1. PICK k \in 1..(Len(q) - 1) : x = p[k]
      BY <1>5, <2>1 DEF ToSet
    <3>2. x = q[Old(k)] /\ Old(k) \in DOMAIN q /\ Old(k) # n
      BY <1>1, <1>6, <3>1
    <3>3. QED
      BY <3>2, Zenon DEF ToSet, IsInjective
  <2>2. ASSUME NEW x \in ToSet(q) \ {q[n]} PROVE x \in ToSet(p)
    <3>1. PICK k \in 1..Len(q) : x = q[k]
      BY <1>1, <2>2 DEF ToSet
    <3>2. k # n
      BY <2>2, <3>1
    <3>3. CASE k < n
      <4>1. k \in 1..(Len(q) - 1) /\ Old(k) = k
        BY <1>1, <3>3
      <4>2. QED
        BY <1>5, <1>6, <3>1, <4>1 DEF ToSet
    <3>4. CASE k > n
      <4>1. k - 1 \in 1..(Len(q) - 1) /\ Old(k - 1) = k
        BY <1>1, <3>4
      <4>2. p[k - 1] = x
        BY <1>6, <3>1, <4>1
      <4>3. QED
        BY <1>5, <4>1, <4>2 DEF ToSet
    <3>5. QED
      BY <1>1, <3>2, <3>3, <3>4
  <2>3. QED
    BY <2>1, <2>2
<1>8. IsInjective(p)
  <2> SUFFICES ASSUME NEW k \in 1..(Len(q) - 1), NEW l \in 1..(Len(q) - 1), p[k] = p[l]
               PROVE  k = l
    BY <1>5 DEF IsInjective
  <2>1. q[Old(k)] = q[Old(l)] /\ Old(k) \in DOMAIN q /\ Old(l) \in DOMAIN q
    BY <1>1, <1>6
  <2> HIDE DEF Old
  <2>2. Old(k) = Old(l)
    BY <2>1 DEF IsInjective
  <2>3. QED
    BY <1>1, <2>2 DEF Old
<1>9. QED
  BY <1>5, <1>7, <1>8 DEF p, RemoveAt, front, back

-----------------------------------------------------------------------------
(* Slots *)

LEMMA HoldersAreFinite == IsFiniteSet(Holders)
<1>1. IsFiniteSet(Jobs \cup Callers)
  BY FS_Union, GateAssumption
<1>2. Holders \in SUBSET (Jobs \cup Callers)
  BY DEF Holders
<1>3. QED
  BY <1>1, <1>2, FS_Subset

(* The facts every step starts from.                                       *)
LEMMA QueueFacts ==
    ASSUME Gate
    PROVE  /\ used = Cardinality(Holders) /\ used \in Nat /\ Slots \in Nat
           /\ waiting \in Seq(Jobs) /\ IsInjective(waiting)
           /\ \A j \in Jobs : runner[j] = "waiting" <=> j \in ToSet(waiting)
           /\ ToSet(waiting) \subseteq Jobs
BY GateAssumption DEF Gate, Shapes, SlotsAccounted

LEMMA TakeSlot ==
    ASSUME Gate, NEW x, x \notin Holders, HasRoom, used' = used + 1,
           Holders' = Holders \cup {x}
    PROVE  used' = Cardinality(Holders') /\ WithinSlots' /\ waiting = <<>>
<1>1. Cardinality(Holders \cup {x}) = Cardinality(Holders) + 1
  BY HoldersAreFinite, FS_AddElement
<1>2. waiting = <<>>
  BY DEF Gate, SlotsAccounted
<1>3. QED
  BY <1>1, <1>2, QueueFacts DEF HasRoom, WithinSlots

(* A slot given back goes to the head of the queue, or is free.            *)
LEMMA GiveBackSlot ==
    ASSUME Gate, NEW x \in Holders, FreeSlot, Holders' = (Holders \ {x}) \cup Handed
    PROVE  /\ used' \in Nat
           /\ used' = Cardinality(Holders')
           /\ WithinSlots'
           /\ waiting' # <<>> => ~HasRoom'
           /\ waiting' \in Seq(Jobs) /\ IsInjective(waiting')
           /\ ToSet(waiting') = ToSet(waiting) \ Handed
           /\ Handed \subseteq ToSet(waiting)
<1>1. /\ IsFiniteSet(Holders \ {x})
      /\ Cardinality(Holders \ {x}) = used - 1 /\ used - 1 \in Nat
  <2>1. IsFiniteSet(Holders \ {x}) /\ Cardinality(Holders \ {x}) = Cardinality(Holders) - 1
    BY HoldersAreFinite, FS_RemoveElement
  <2>2. Cardinality(Holders \ {x}) \in Nat
    BY <2>1, FS_CardinalityType
  <2>3. QED
    BY <2>1, <2>2, QueueFacts
<1>2. CASE waiting = <<>>
  <2>1. Handed = {} /\ used' = used - 1 /\ waiting' = <<>> /\ Holders' = Holders \ {x}
    BY <1>2 DEF Handed, FreeSlot
  <2>2. WithinSlots'
    BY <1>1, <2>1, QueueFacts DEF Gate, WithinSlots
  <2>3. QED
    BY <1>1, <1>2, <2>1, <2>2, QueueFacts
<1>3. CASE waiting # <<>>
  <2> DEFINE h == Head(waiting)
  <2>1. Handed = {h} /\ used' = used /\ waiting' = Tail(waiting)
    BY <1>3 DEF Handed, FreeSlot
  <2>2. /\ waiting' \in Seq(Jobs) /\ IsInjective(waiting')
        /\ ToSet(waiting') = ToSet(waiting) \ {h} /\ h \in ToSet(waiting)
    BY <1>3, <2>1, QueueFacts, TailQueue
  <2>3. h \notin Holders
    <3>1. h \in Jobs /\ runner[h] = "waiting"
      BY <2>2, QueueFacts
    <3>2. QED
      BY <3>1, GateAssumption DEF Holders, HoldingPhases
  <2>4. Cardinality(Holders') = used
    <3>1. Holders' = (Holders \ {x}) \cup {h} /\ h \notin Holders \ {x}
      BY <2>1, <2>3
    <3>2. Cardinality((Holders \ {x}) \cup {h}) = (used - 1) + 1
      BY <1>1, <3>1, FS_AddElement
    <3>3. Cardinality(Holders') = (used - 1) + 1
      BY <3>1, <3>2, Zenon
    <3>4. QED
      BY <3>3, QueueFacts
  <2>5. ~HasRoom' /\ WithinSlots'
    BY <1>3, <2>1, QueueFacts DEF Gate, SlotsAccounted, WithinSlots, HasRoom
  <2>6. QED
    BY <2>1, <2>2, <2>4, <2>5, QueueFacts
<1>4. QED
  BY <1>2, <1>3

(* A runner that moves between phases on one side of the gate changes      *)
(* nothing of it.                                                          *)
LEMMA Unmoved ==
    ASSUME Gate, UNCHANGED <<used, caller, waiting>>, NEW j \in Jobs, NEW p \in Phases,
           runner' = [runner EXCEPT ![j] = p],
           runner[j] # "waiting", p # "waiting",
           runner[j] \in HoldingPhases <=> p \in HoldingPhases,
           jobs' \in [Jobs -> JobStates]
    PROVE  Gate'
<1>1. runner \in [Jobs -> Phases]
  BY DEF Gate, Shapes
<1>2. \A i \in Jobs : runner'[i] = IF i = j THEN p ELSE runner[i]
  BY <1>1
<1>3. Holders' = Holders
  BY <1>2 DEF Holders
<1>4. {i \in Jobs : runner'[i] = "waiting"} = {i \in Jobs : runner[i] = "waiting"}
  BY <1>2
<1>5. Shapes' /\ WithinSlots'
  BY <1>1 DEF Gate, Shapes, WithinSlots
<1>6. HasRoom' <=> HasRoom
  BY DEF HasRoom
<1>7. QED
  BY <1>3, <1>4, <1>5, <1>6 DEF Gate, SlotsAccounted

(* The same of what polls read.                                            *)
LEMMA PollsUnmoved ==
    ASSUME Polls, UNCHANGED jobs,
           \A i \in Jobs : \/ runner'[i] = runner[i]
                           \/ runner[i] \in AwaitPhases /\ runner'[i] \in AwaitPhases
                           \/ runner[i] \in RunPhases /\ runner'[i] \in RunPhases
                           \/ runner[i] = "unwinding" /\ runner'[i] = "over"
    PROVE  Polls'
<1> SUFFICES ASSUME NEW i \in Jobs PROVE Told(runner'[i], jobs[i])
  BY DEF Polls
<1>1. Told(runner[i], jobs[i])
  BY DEF Polls
<1>2. QED
  BY <1>1 DEF Told, AwaitPhases, RunPhases

-----------------------------------------------------------------------------
(* Steps *)

(* Pruning takes outcomes only, so the job just registered is kept too.    *)
LEMMA CreateStep ==
    ASSUME IInv, NEW j \in Jobs, Create(j)
    PROVE  IInv'
<1> DEFINE js == [jobs EXCEPT ![j] = "queued"]
           out == Evicted(js, Append(order, j))
<1>1. /\ jobs' = [i \in Jobs |-> IF i \in out THEN "absent" ELSE js[i]]
      /\ runner[j] = "none" /\ runner' = [runner EXCEPT ![j] = "spawned"]
      /\ UNCHANGED <<caller, used, waiting>>
  BY DEF Create, gate
<1>2. jobs \in [Jobs -> JobStates] /\ runner \in [Jobs -> Phases]
  BY DEF IInv, Gate, Shapes
<1>3. \A i \in out : Terminal(js[i])
  BY DEF Evicted
<1> HIDE DEF out
<1>4. jobs' \in [Jobs -> JobStates]
  BY <1>1, <1>2 DEF JobStates
<1>5. Gate'
  BY <1>1, <1>4, Unmoved DEF IInv, Phases, HoldingPhases
<1>6. Polls'
  <2> SUFFICES ASSUME NEW i \in Jobs PROVE Told(runner'[i], jobs'[i])
    BY DEF Polls
  <2>1. CASE i = j
    <3>1. js[j] = "queued" /\ j \notin out
      BY <1>2, <1>3 DEF Terminal
    <3>2. jobs'[i] = "queued" /\ runner'[i] = "spawned"
      BY <1>1, <1>2, <2>1, <3>1
    <3>3. QED
      BY <3>2 DEF Told, AwaitPhases, RunPhases
  <2>2. CASE i # j
    <3>1. runner'[i] = runner[i] /\ js[i] = jobs[i]
      BY <1>1, <1>2, <2>2
    <3>2. jobs'[i] = jobs[i] \/ (jobs'[i] = "absent" /\ Terminal(jobs[i]))
      BY <1>1, <1>3, <3>1
    <3>3. Told(runner[i], jobs[i])
      BY DEF IInv, Polls
    <3>4. QED
      BY <3>1, <3>2, <3>3 DEF Told, Terminal
  <2>3. QED
    BY <2>1, <2>2
<1>7. QED
  BY <1>5, <1>6 DEF IInv

LEMMA AcquireStep ==
    ASSUME IInv, NEW j \in Jobs, Acquire(j)
    PROVE  IInv'
<1>1. /\ runner[j] = "spawned" /\ HasRoom /\ used' = used + 1
      /\ runner' = [runner EXCEPT ![j] = "held"] /\ UNCHANGED <<jobs, caller, waiting>>
      /\ runner \in [Jobs -> Phases]
  BY DEF Acquire, IInv, Gate, Shapes
<1>2. \A i \in Jobs : runner'[i] = IF i = j THEN "held" ELSE runner[i]
  BY <1>1
<1>3. j \notin Holders /\ Holders' = Holders \cup {j}
  BY <1>1, <1>2, GateAssumption DEF Holders, HoldingPhases
<1>4. used' = Cardinality(Holders') /\ WithinSlots' /\ waiting = <<>>
  BY <1>1, <1>3, TakeSlot DEF IInv
<1>5. {i \in Jobs : runner'[i] = "waiting"} = {i \in Jobs : runner[i] = "waiting"}
  BY <1>1, <1>2
<1>6. Shapes'
  BY <1>1 DEF IInv, Gate, Shapes, Phases
<1>7. SlotsAccounted'
  BY <1>1, <1>4, <1>5 DEF IInv, Gate, SlotsAccounted
<1>8. Polls'
  BY <1>1, <1>2, PollsUnmoved DEF IInv, AwaitPhases, RunPhases
<1>9. QED
  BY <1>4, <1>6, <1>7, <1>8 DEF IInv, Gate

LEMMA BlockStep ==
    ASSUME IInv, NEW j \in Jobs, Block(j)
    PROVE  IInv'
<1>1. /\ runner[j] = "spawned" /\ ~HasRoom /\ waiting' = Append(waiting, j)
      /\ runner' = [runner EXCEPT ![j] = "waiting"] /\ UNCHANGED <<jobs, caller, used>>
      /\ runner \in [Jobs -> Phases]
  BY DEF Block, IInv, Gate, Shapes
<1>2. \A i \in Jobs : runner'[i] = IF i = j THEN "waiting" ELSE runner[i]
  BY <1>1
<1>3. j \notin ToSet(waiting)
  BY <1>1, QueueFacts DEF IInv
<1>4. waiting' \in Seq(Jobs) /\ ToSet(waiting') = ToSet(waiting) \cup {j} /\ IsInjective(waiting')
  BY <1>1, <1>3, QueueFacts, AppendQueue DEF IInv
<1>5. {i \in Jobs : runner'[i] = "waiting"} = ToSet(waiting')
  BY <1>2, <1>4, QueueFacts DEF IInv
<1>6. Holders' = Holders
  BY <1>1, <1>2 DEF Holders, HoldingPhases
<1>7. Shapes' /\ WithinSlots'
  BY <1>1, <1>4 DEF IInv, Gate, Shapes, Phases, WithinSlots
<1>8. ~HasRoom'
  BY <1>1 DEF HasRoom
<1>9. SlotsAccounted'
  BY <1>1, <1>4, <1>5, <1>6, <1>8 DEF IInv, Gate, SlotsAccounted
<1>10. Polls'
  BY <1>1, <1>2, PollsUnmoved DEF IInv, AwaitPhases, RunPhases
<1>11. QED
  BY <1>7, <1>9, <1>10 DEF IInv, Gate

(* Whoever gives up holds no slot; one who was parked leaves the queue.    *)
LEMMA GiveUpStep ==
    ASSUME IInv, NEW j \in Jobs, GiveUp(j)
    PROVE  IInv'
<1>1. /\ runner' = [runner EXCEPT ![j] = "gaveup"] /\ UNCHANGED <<jobs, caller, used>>
      /\ runner \in [Jobs -> Phases]
  BY DEF GiveUp, IInv, Gate, Shapes
<1>2. \A i \in Jobs : runner'[i] = IF i = j THEN "gaveup" ELSE runner[i]
  BY <1>1
<1>3. CASE runner[j] = "spawned" /\ UNCHANGED waiting
  <2>1. Gate'
    BY <1>1, <1>3, Unmoved DEF IInv, Gate, Shapes, Phases, HoldingPhases
  <2>2. Polls'
    BY <1>1, <1>2, <1>3, PollsUnmoved DEF IInv, AwaitPhases, RunPhases
  <2>3. QED
    BY <2>1, <2>2 DEF IInv
<1>4. CASE \E k \in DOMAIN waiting : waiting[k] = j /\ waiting' = RemoveAt(waiting, k)
  <2> PICK k \in DOMAIN waiting : waiting[k] = j /\ waiting' = RemoveAt(waiting, k)
    BY <1>4
  <2>1. waiting' \in Seq(Jobs) /\ ToSet(waiting') = ToSet(waiting) \ {j} /\ IsInjective(waiting')
    BY QueueFacts, RemoveQueue DEF IInv
  <2>2. j \in ToSet(waiting) /\ waiting # <<>>
    BY DEF ToSet
  <2>3. runner[j] = "waiting"
    BY <2>2, QueueFacts DEF IInv
  <2>4. {i \in Jobs : runner'[i] = "waiting"} = ToSet(waiting')
    BY <1>2, <2>1, QueueFacts DEF IInv
  <2>5. Holders' = Holders
    BY <1>1, <1>2, <2>3 DEF Holders, HoldingPhases
  <2>6. Shapes' /\ WithinSlots'
    BY <1>1, <2>1 DEF IInv, Gate, Shapes, Phases, WithinSlots
  <2>7. ~HasRoom'
    BY <1>1, <2>2 DEF IInv, Gate, SlotsAccounted, HasRoom
  <2>8. SlotsAccounted'
    BY <1>1, <2>1, <2>4, <2>5, <2>7 DEF IInv, Gate, SlotsAccounted
  <2>9. Polls'
    BY <1>1, <1>2, <2>3, PollsUnmoved DEF IInv, AwaitPhases, RunPhases
  <2>10. QED
    BY <2>6, <2>8, <2>9 DEF IInv, Gate
<1>5. QED
  BY <1>3, <1>4 DEF GiveUp

(* The slot goes to a runner parked before: it is still queued.            *)
LEMMA HandOver ==
    ASSUME IInv, NEW x \in Holders, FreeSlot, UNCHANGED jobs,
           NEW next \in {"recovering", "over"},
           runner' = [i \in Jobs |-> IF i = x THEN next ELSE IF i \in Handed THEN "held" ELSE runner[i]],
           caller' \in [Callers -> {"idle", "ingesting"}],
           \A c \in Callers : caller'[c] = "ingesting" <=> caller[c] = "ingesting" /\ c # x,
           x \in Jobs => \/ runner[x] = "panic" /\ next = "recovering"
                         \/ runner[x] = "unwinding" /\ next = "over"
    PROVE  IInv'
<1>1. Handed \subseteq ToSet(waiting)
  BY QueueFacts, TailQueue DEF Handed, IInv
<1>2. \A i \in Handed : i \in Jobs /\ runner[i] = "waiting"
  BY <1>1, QueueFacts DEF IInv
<1>3. runner \in [Jobs -> Phases] /\ Jobs \cap Callers = {}
  BY GateAssumption DEF IInv, Gate, Shapes
<1>4. \A i \in Jobs : runner'[i] = IF i = x THEN next ELSE IF i \in Handed THEN "held" ELSE runner[i]
  OBVIOUS
<1>5. x \notin Handed
  BY <1>2, <1>3 DEF Holders, HoldingPhases
<1>6. Holders' = (Holders \ {x}) \cup Handed
  <2>1. \A i \in Jobs : runner'[i] \in HoldingPhases <=> (runner[i] \in HoldingPhases /\ i # x) \/ i \in Handed
    BY <1>2, <1>3, <1>4, <1>5 DEF HoldingPhases
  <2>2. QED
    BY <1>2, <1>3, <2>1 DEF Holders
<1>7. /\ used' \in Nat /\ used' = Cardinality(Holders') /\ WithinSlots'
      /\ waiting' # <<>> => ~HasRoom'
      /\ waiting' \in Seq(Jobs) /\ IsInjective(waiting')
      /\ ToSet(waiting') = ToSet(waiting) \ Handed
  BY <1>6, GiveBackSlot DEF IInv
<1>8. {i \in Jobs : runner'[i] = "waiting"} = ToSet(waiting')
  <2>1. \A i \in Jobs : runner'[i] = "waiting" <=> runner[i] = "waiting" /\ i \notin Handed
    BY <1>4, <1>5
  <2>2. QED
    BY <1>7, <2>1, QueueFacts DEF IInv
<1>9. Shapes'
  BY <1>3, <1>7 DEF IInv, Gate, Shapes, Phases
<1>10. Polls'
  <2>1. \A i \in Jobs : \/ runner'[i] = runner[i]
                        \/ runner[i] \in AwaitPhases /\ runner'[i] \in AwaitPhases
                        \/ runner[i] \in RunPhases /\ runner'[i] \in RunPhases
                        \/ runner[i] = "unwinding" /\ runner'[i] = "over"
    BY <1>2, <1>4 DEF AwaitPhases, RunPhases
  <2>2. QED
    BY <2>1, PollsUnmoved DEF IInv
<1>11. QED
  BY <1>7, <1>8, <1>9, <1>10 DEF IInv, Gate, SlotsAccounted

LEMMA ReleaseStep ==
    ASSUME IInv, NEW j \in Jobs, Release(j)
    PROVE  IInv'
<1> DEFINE next == IF runner[j] = "panic" THEN "recovering" ELSE "over"
<1>1. /\ runner[j] \in {"unwinding", "panic"} /\ FreeSlot /\ UNCHANGED <<jobs, caller>>
      /\ runner' = [i \in Jobs |-> IF i = j THEN next ELSE IF i \in Handed THEN "held" ELSE runner[i]]
  BY DEF Release
<1>2. j \in Holders /\ j \notin Callers
  BY <1>1, GateAssumption DEF Holders, HoldingPhases
<1>3. caller \in [Callers -> {"idle", "ingesting"}]
  BY DEF IInv, Gate, Shapes
<1>4. /\ next \in {"recovering", "over"}
      /\ \A c \in Callers : caller'[c] = "ingesting" <=> caller[c] = "ingesting" /\ c # j
      /\ \/ runner[j] = "panic" /\ next = "recovering"
         \/ runner[j] = "unwinding" /\ next = "over"
  BY <1>1, <1>2
<1>5. caller' \in [Callers -> {"idle", "ingesting"}]
  BY <1>1, <1>3
<1> HIDE DEF next
<1>6. QED
  BY <1>1, <1>2, <1>4, <1>5, HandOver

LEMMA SyncReturnStep ==
    ASSUME IInv, NEW c \in Callers, SyncReturn(c)
    PROVE  IInv'
<1>1. /\ caller[c] = "ingesting" /\ FreeSlot /\ UNCHANGED jobs
      /\ runner' = [i \in Jobs |-> IF i \in Handed THEN "held" ELSE runner[i]]
      /\ caller' = [caller EXCEPT ![c] = "idle"]
      /\ caller \in [Callers -> {"idle", "ingesting"}]
  BY DEF SyncReturn, IInv, Gate, Shapes
<1>2. c \in Holders /\ c \notin Jobs
  BY <1>1, GateAssumption DEF Holders
<1>3. runner' = [i \in Jobs |-> IF i = c THEN "over" ELSE IF i \in Handed THEN "held" ELSE runner[i]]
  BY <1>1, <1>2
<1>4. \A d \in Callers : caller'[d] = "ingesting" <=> caller[d] = "ingesting" /\ d # c
  BY <1>1
<1>5. caller' \in [Callers -> {"idle", "ingesting"}]
  BY <1>1
<1>6. QED
  BY <1>1, <1>2, <1>3, <1>4, <1>5, HandOver

LEMMA SyncIngestStep ==
    ASSUME IInv, NEW c \in Callers, SyncIngest(c)
    PROVE  IInv'
<1>1. /\ caller[c] = "idle" /\ HasRoom /\ used' = used + 1
      /\ caller' = [caller EXCEPT ![c] = "ingesting"] /\ UNCHANGED <<jobs, runner, waiting>>
      /\ caller \in [Callers -> {"idle", "ingesting"}]
  BY DEF SyncIngest, IInv, Gate, Shapes
<1>2. \A d \in Callers : caller'[d] = IF d = c THEN "ingesting" ELSE caller[d]
  BY <1>1
<1>3. c \notin Holders /\ Holders' = Holders \cup {c}
  BY <1>1, <1>2, GateAssumption DEF Holders
<1>4. used' = Cardinality(Holders') /\ WithinSlots' /\ waiting = <<>>
  BY <1>1, <1>3, TakeSlot DEF IInv
<1>5. Shapes' /\ Polls'
  BY <1>1 DEF IInv, Gate, Shapes, Polls
<1>6. SlotsAccounted'
  BY <1>1, <1>4 DEF IInv, Gate, SlotsAccounted
<1>7. QED
  BY <1>4, <1>5, <1>6 DEF IInv, Gate

(* StartJob, the end of the ingest call, and the outcome: the registry is  *)
(* told of every change, since an unfinished job is never evicted.         *)
LEMMA StartJobStep ==
    ASSUME IInv, NEW j \in Jobs, StartJob(j)
    PROVE  IInv'
<1>1. /\ runner[j] = "held" /\ runner' = [runner EXCEPT ![j] = "ingesting"]
      /\ jobs[j] = "queued"
      /\ UNCHANGED <<caller, used, waiting>>
      /\ runner \in [Jobs -> Phases] /\ jobs \in [Jobs -> JobStates]
  BY DEF StartJob, gate, IInv, Gate, Shapes, Polls, Told, AwaitPhases
<1>2. jobs' = [jobs EXCEPT ![j] = "running"]
  BY <1>1 DEF StartJob, Mark
<1>3. Gate'
  BY <1>1, <1>2, Unmoved DEF IInv, Phases, HoldingPhases, JobStates
<1>4. Polls'
  BY <1>1, <1>2 DEF IInv, Polls, Told, AwaitPhases, RunPhases, Terminal
<1>5. QED
  BY <1>3, <1>4 DEF IInv

LEMMA IngestEndsStep ==
    ASSUME IInv, NEW j \in Jobs, NEW outcome \in {"done", "failed", "panic"}, IngestEnds(j, outcome)
    PROVE  IInv'
<1>1. /\ runner[j] = "ingesting" /\ runner' = [runner EXCEPT ![j] = outcome]
      /\ UNCHANGED <<jobs, caller, used, waiting>>
      /\ runner \in [Jobs -> Phases] /\ jobs \in [Jobs -> JobStates]
  BY DEF IngestEnds, gate, IInv, Gate, Shapes
<1>2. Gate'
  BY <1>1, Unmoved DEF IInv, Phases, HoldingPhases
<1>3. Polls'
  BY <1>1, PollsUnmoved DEF IInv, RunPhases
<1>4. QED
  BY <1>2, <1>3 DEF IInv

LEMMA FinishStep ==
    ASSUME IInv, NEW j \in Jobs, Finish(j)
    PROVE  IInv'
<1> DEFINE where == IF runner[j] \in {"done", "failed"} THEN "unwinding" ELSE "over"
           state == IF runner[j] = "done" THEN "done" ELSE "failed"
<1>1. /\ runner[j] \in {"done", "failed", "gaveup", "recovering"}
      /\ runner' = [runner EXCEPT ![j] = where]
      /\ UNCHANGED <<caller, used, waiting>>
      /\ runner \in [Jobs -> Phases] /\ jobs \in [Jobs -> JobStates]
  BY DEF Finish, gate, IInv, Gate, Shapes
<1>2. jobs[j] \in {"queued", "running"}
  BY <1>1 DEF IInv, Polls, Told, AwaitPhases, RunPhases
<1>3. jobs' = [jobs EXCEPT ![j] = state]
  BY <1>1, <1>2 DEF Finish, Mark
<1>4. state \in JobStates /\ Terminal(state) /\ where \in {"unwinding", "over"} /\ where \in Phases
  BY DEF JobStates, Terminal, Phases
<1>5. runner[j] \in HoldingPhases <=> where \in HoldingPhases
  BY <1>1 DEF HoldingPhases
<1> HIDE DEF where, state
<1>6. Gate'
  BY <1>1, <1>3, <1>4, <1>5, Unmoved DEF IInv
<1>7. Polls'
  BY <1>1, <1>3, <1>4 DEF IInv, Polls, Told, AwaitPhases, RunPhases
<1>8. QED
  BY <1>6, <1>7 DEF IInv

LEMMA Initially == Init => IInv
<1> SUFFICES ASSUME Init PROVE IInv
  OBVIOUS
<1>1. Shapes /\ WithinSlots
  BY GateAssumption, EmptySeq DEF Init, Shapes, Phases, JobStates, WithinSlots
<1>2. Holders = {}
  BY DEF Init, Holders, HoldingPhases
<1>3. ToSet(waiting) = {} /\ IsInjective(waiting) /\ {j \in Jobs : runner[j] = "waiting"} = {}
  BY DEF Init, ToSet, IsInjective
<1>4. SlotsAccounted
  BY <1>2, <1>3, FS_EmptySet DEF SlotsAccounted, Init
<1>5. Polls
  BY DEF Init, Polls, Told, AwaitPhases, RunPhases
<1>6. QED
  BY <1>1, <1>4, <1>5 DEF IInv, Gate

LEMMA StepKeepsInvariant ==
    ASSUME IInv, [Next]_vars
    PROVE  IInv'
<1>1. ASSUME NEW j \in Jobs, Create(j) PROVE IInv'
  BY <1>1, CreateStep
<1>2. ASSUME NEW j \in Jobs, Run(j) PROVE IInv'
  BY <1>2, AcquireStep, BlockStep, GiveUpStep, StartJobStep, IngestEndsStep, FinishStep, ReleaseStep DEF Run
<1>3. ASSUME NEW j \in Jobs, Expire(j) PROVE IInv'
  <2>1. UNCHANGED <<jobs, runner, caller, used, waiting>>
    BY <1>3 DEF Expire, gate
  <2>2. QED
    BY <2>1 DEF IInv, Gate, Shapes, SlotsAccounted, WithinSlots, Polls, Holders, HasRoom
<1>4. ASSUME NEW c \in Callers, SyncIngest(c) \/ SyncReturn(c) PROVE IInv'
  BY <1>4, SyncIngestStep, SyncReturnStep
<1>5. CASE UNCHANGED vars
  BY <1>5 DEF vars, IInv, Gate, Shapes, SlotsAccounted, WithinSlots, Polls, Holders, HasRoom
<1>6. QED
  BY <1>1, <1>2, <1>3, <1>4, <1>5 DEF Next

LEMMA Invariance == Spec => []IInv
BY Initially, StepKeepsInvariant, PTL DEF Spec

-----------------------------------------------------------------------------
(* Theorems *)

(* No interleaving of runs, sync requests, give-ups, hand-offs and panics  *)
(* leaks a slot, invents one or loses a parked runner.                     *)
THEOREM SlotsBalance == Spec => []SlotsAccounted
<1>1. IInv => SlotsAccounted
  BY DEF IInv, Gate
<1>2. QED
  BY <1>1, Invariance, PTL

(* maxConcurrentIngests bounds the ingests that run, whatever their path.  *)
THEOREM GateHolds == Spec => []RunsBounded
<1>1. IInv => RunsBounded
  <2> SUFFICES ASSUME IInv, Slots # 0 PROVE Cardinality(Ingesting) <= Slots
    BY DEF RunsBounded
  <2>1. Ingesting \in SUBSET Holders
    BY DEF Ingesting, Holders, HoldingPhases
  <2>2. /\ IsFiniteSet(Ingesting) /\ Cardinality(Ingesting) <= Cardinality(Holders)
    BY <2>1, HoldersAreFinite, FS_Subset
  <2>3. Cardinality(Ingesting) \in Nat
    BY <2>2, FS_CardinalityType
  <2>4. QED
    BY <2>2, <2>3, QueueFacts DEF IInv, Gate, WithinSlots
<1>2. QED
  BY <1>1, Invariance, PTL

(* A poll never shows an outcome early, and a job whose goroutine is gone  *)
(* is never left queued or running.                                        *)
THEOREM PollsNeverLie == Spec => []PollsAreTruthful
<1>1. IInv => PollsAreTruthful
  <2> SUFFICES ASSUME IInv, NEW j \in Jobs
               PROVE  /\ runner[j] \in Unrecorded => jobs[j] \in {"queued", "running"}
                      /\ runner[j] \in {"unwinding", "over"} => Terminal(jobs[j]) \/ jobs[j] = "absent"
    BY DEF PollsAreTruthful
  <2>1. Told(runner[j], jobs[j])
    BY DEF IInv, Polls
  <2>2. QED
    BY <2>1 DEF Told, Unrecorded, AwaitPhases, RunPhases
<1>2. QED
  BY <1>1, Invariance, PTL

(* A poller sees a job go forward only, to one outcome.                    *)
THEOREM JobsOnlyMoveForward == Spec => ForwardOnly
<1> DEFINE Forward(j) == jobs'[j] # jobs[j] =>
               \/ jobs[j] = "absent" /\ jobs'[j] = "queued" /\ runner[j] = "none"
               \/ jobs[j] = "queued" /\ jobs'[j] \in {"running", "failed"}
               \/ jobs[j] = "running" /\ Terminal(jobs'[j])
               \/ Terminal(jobs[j]) /\ jobs'[j] = "absent"
<1>1. ASSUME IInv, [Next]_vars PROVE [\A j \in Jobs : Forward(j)]_vars
  <2> SUFFICES ASSUME NEW j \in Jobs PROVE Forward(j)
    OBVIOUS
  <2>1. jobs \in [Jobs -> JobStates] /\ \A i \in Jobs : Told(runner[i], jobs[i])
    BY <1>1 DEF IInv, Gate, Shapes, Polls
  <2>2. ASSUME NEW i \in Jobs, Create(i) PROVE Forward(j)
    <3> DEFINE js == [jobs EXCEPT ![i] = "queued"]
               out == Evicted(js, Append(order, i))
    <3>1. /\ jobs' = [l \in Jobs |-> IF l \in out THEN "absent" ELSE js[l]]
          /\ runner[i] = "none" /\ jobs[i] = "absent"
      BY <2>1, <2>2 DEF Create, Told
    <3>2. \A l \in out : Terminal(js[l])
      BY DEF Evicted
    <3> HIDE DEF out
    <3>3. js[j] = IF j = i THEN "queued" ELSE jobs[j]
      BY <2>1
    <3>4. QED
      BY <3>1, <3>2, <3>3 DEF Terminal
  <2>3. ASSUME NEW i \in Jobs, StartJob(i) PROVE Forward(j)
    BY <2>1, <2>3 DEF StartJob, Mark, Told, AwaitPhases
  <2>4. ASSUME NEW i \in Jobs, Finish(i) PROVE Forward(j)
    <3>1. /\ runner[i] \in {"done", "failed", "gaveup", "recovering"}
          /\ Mark(i, IF runner[i] = "done" THEN "done" ELSE "failed")
      BY <2>4 DEF Finish
    <3>2. \/ jobs[i] = "running"
          \/ jobs[i] = "queued" /\ runner[i] = "gaveup"
      BY <2>1, <3>1 DEF Told, AwaitPhases, RunPhases
    <3>3. QED
      BY <2>1, <3>1, <3>2 DEF Mark, Terminal
  <2>5. ASSUME UNCHANGED jobs PROVE Forward(j)
    BY <2>5
  <2>6. QED
    BY <1>1, <2>2, <2>3, <2>4, <2>5
       DEF Next, Run, Acquire, Block, GiveUp, Release, IngestEnds, Expire, SyncIngest, SyncReturn, vars
<1>2. QED
  BY <1>1, Invariance, PTL DEF Spec, ForwardOnly

-----------------------------------------------------------------------------
(* The registry *)

(* The places of ord that Without leaves. *)
Staying(ord, out) == {k \in DOMAIN ord : ord[k] \notin out}

LEMMA WithoutFacts ==
    ASSUME NEW ord \in Seq(Jobs), IsInjective(ord), NEW out
    PROVE  /\ Without(ord, out) \in Seq(Jobs) /\ IsInjective(Without(ord, out))
           /\ Len(Without(ord, out)) = Cardinality(Staying(ord, out))
           /\ DOMAIN Without(ord, out) = 1..Cardinality(Staying(ord, out))
           /\ \A n \in DOMAIN Without(ord, out) :
                 \E k \in Staying(ord, out) : Without(ord, out)[n] = ord[k]
<1> DEFINE S == Staying(ord, out)
<1>1. S \in SUBSET (DOMAIN ord) /\ \A k, l \in S : ord[k] = ord[l] => k = l
  BY DEF Staying, IsInjective
<1>2. Without(ord, out) = Picked(ord, S)
  BY DEF Without, Staying
<1> HIDE DEF S
<1>3. /\ Picked(ord, S) \in Seq(Jobs) /\ IsInjective(Picked(ord, S))
      /\ Len(Picked(ord, S)) = Cardinality(S) /\ DOMAIN Picked(ord, S) = 1..Cardinality(S)
      /\ \A n \in 1..Cardinality(S) : Place(S, n) \in S /\ Picked(ord, S)[n] = ord[Place(S, n)]
  BY <1>1, PickedFacts, PickedDiffer
<1>4. QED
  BY <1>2, <1>3 DEF S

(* A job that pruning takes, by its place. *)
OutcomesUpto(js, ord, i) == {l \in 1..i : Terminal(js[ord[l]])}

Due(js, ord, i) ==
    Terminal(js[ord[i]]) /\ Cardinality(OutcomesUpto(js, ord, i)) + MaxJobs <= Len(ord)

LEMMA EvictedAreDue ==
    ASSUME NEW js, NEW ord \in Seq(Jobs), IsInjective(ord), NEW i \in DOMAIN ord
    PROVE  ord[i] \in Evicted(js, ord) <=> Due(js, ord, i)
BY DEF Evicted, Due, OutcomesUpto, IsInjective

LEMMA OutcomesAreFinite ==
    ASSUME NEW js, NEW ord, NEW i \in Nat
    PROVE  /\ IsFiniteSet(OutcomesUpto(js, ord, i))
           /\ Cardinality(OutcomesUpto(js, ord, i)) \in Nat
<1>1. OutcomesUpto(js, ord, i) \in SUBSET (1..i)
  BY DEF OutcomesUpto
<1>2. QED
  BY <1>1, RankedOnce

LEMMA OlderIsDueFirst ==
    ASSUME NEW js, NEW ord \in Seq(Jobs), NEW g \in DOMAIN ord, NEW k \in DOMAIN ord,
           Due(js, ord, g), Terminal(js[ord[k]]), k <= g
    PROVE  Due(js, ord, k)
<1>1. k \in Nat /\ g \in Nat /\ Len(ord) \in Nat
  BY LenProperties
<1>2. OutcomesUpto(js, ord, k) \in SUBSET OutcomesUpto(js, ord, g)
  BY <1>1 DEF OutcomesUpto
<1>3. Cardinality(OutcomesUpto(js, ord, k)) <= Cardinality(OutcomesUpto(js, ord, g))
  BY <1>1, <1>2, OutcomesAreFinite, FS_Subset
<1>4. /\ Cardinality(OutcomesUpto(js, ord, k)) \in Nat
      /\ Cardinality(OutcomesUpto(js, ord, g)) \in Nat
      /\ MaxJobs \in Nat
  BY <1>1, OutcomesAreFinite, GateAssumption
<1>5. QED
  BY <1>1, <1>3, <1>4 DEF Due

(* No more are taken than there are too many. *)
LEMMA EnoughStay ==
    ASSUME NEW js, NEW ord \in Seq(Jobs), IsInjective(ord), NEW d \in DOMAIN ord, Due(js, ord, d)
    PROVE  MaxJobs <= Cardinality(Staying(ord, Evicted(js, ord)))
<1> DEFINE N == Len(ord)
           taken == {k \in 1..N : Due(js, ord, k)}
           kept == Staying(ord, Evicted(js, ord))
<1>1. N \in Nat /\ DOMAIN ord = 1..N /\ MaxJobs \in Nat
  BY LenProperties, GateAssumption
<1>2. kept = (1..N) \ taken
  BY <1>1, EvictedAreDue DEF Staying
<1> HIDE DEF kept
<1>3. PICK last \in taken : \A k \in taken : k <= last
  BY <1>1, LargestIn
<1>4. taken \in SUBSET OutcomesUpto(js, ord, last)
  BY <1>1, <1>3 DEF OutcomesUpto, Due
<1>5. last \in Nat /\ Due(js, ord, last)
  BY <1>1, <1>3
<1>6. taken \in SUBSET (1..N)
  OBVIOUS
<1> HIDE DEF taken, N
<1>7. /\ IsFiniteSet(taken) /\ Cardinality(taken) \in Nat
      /\ Cardinality(taken) <= Cardinality(OutcomesUpto(js, ord, last))
  BY <1>1, <1>4, <1>5, <1>6, RankedOnce, OutcomesAreFinite, FS_Subset
<1>8. Cardinality(OutcomesUpto(js, ord, last)) \in Nat /\ Cardinality(OutcomesUpto(js, ord, last)) + MaxJobs <= N
  BY <1>5, OutcomesAreFinite DEF Due, N
<1>9. Cardinality(kept) \in Nat /\ Cardinality(kept) + Cardinality(taken) = N
  <2>1. kept \in SUBSET (1..N) /\ kept \cup taken = 1..N /\ kept \cap taken = {}
    BY <1>2, <1>6
  <2>2. IsFiniteSet(kept) /\ Cardinality(kept) \in Nat
    BY <1>1, <2>1, RankedOnce
  <2>3. Cardinality(1..N) = Cardinality(kept) + Cardinality(taken) - Cardinality({})
    BY <1>7, <2>1, <2>2, FS_Union
  <2>4. Cardinality(1..N) = N /\ Cardinality({}) = 0
    BY <1>1, FS_Interval, FS_EmptySet
  <2>5. QED
    BY <1>7, <2>2, <2>3, <2>4
<1>10. MaxJobs <= Cardinality(kept)
  BY <1>1, <1>7, <1>8, <1>9
<1>11. QED
  BY <1>10 DEF kept

(* Over capacity, the oldest outcome goes. *)
LEMMA TheOldestGoes ==
    ASSUME NEW js, NEW ord \in Seq(Jobs), MaxJobs < Len(ord),
           NEW i \in DOMAIN ord, Terminal(js[ord[i]])
    PROVE  \E k \in DOMAIN ord : Due(js, ord, k)
<1> DEFINE outcomes == {k \in 1..Len(ord) : Terminal(js[ord[k]])}
<1>1. Len(ord) \in Nat /\ DOMAIN ord = 1..Len(ord) /\ MaxJobs \in Nat
  BY LenProperties, GateAssumption
<1>2. outcomes \in SUBSET Nat /\ i \in outcomes
  BY <1>1
<1>a. PICK first \in outcomes : \A k \in outcomes : first <= k
  <2> HIDE DEF outcomes
  <2>1. QED
    BY <1>2, SmallestIn
<1>3. OutcomesUpto(js, ord, first) = {first}
  BY <1>1, <1>a DEF OutcomesUpto
<1>4. Cardinality(OutcomesUpto(js, ord, first)) = 1
  BY <1>3, FS_Singleton
<1>5. Due(js, ord, first)
  BY <1>1, <1>a, <1>4 DEF Due
<1>6. QED
  BY <1>1, <1>a, <1>5

(* What is registered, and in which order. *)
Registry ==
    /\ order \in Seq(Jobs) /\ IsInjective(order)
    /\ \A k \in DOMAIN order : jobs[order[k]] # "absent"

LEMMA CreateFacts ==
    ASSUME IInv, Registry, NEW j \in Jobs, Create(j)
    PROVE  LET js  == [jobs EXCEPT ![j] = "queued"]
               ord == Append(order, j)
               out == Evicted(js, ord)
           IN  /\ jobs' = [i \in Jobs |-> IF i \in out THEN "absent" ELSE js[i]]
               /\ order' = Without(ord, out)
               /\ ord \in Seq(Jobs) /\ IsInjective(ord) /\ Len(ord) = Len(order) + 1
               /\ DOMAIN order = 1..Len(order) /\ Len(order) \in Nat /\ DOMAIN ord = 1..(Len(order) + 1)
               /\ \A k \in DOMAIN order : ord[k] = order[k] /\ js[ord[k]] = jobs[order[k]]
               /\ \A k \in DOMAIN ord : js[ord[k]] # "absent" /\ ord[k] \in Jobs
<1> DEFINE js  == [jobs EXCEPT ![j] = "queued"]
           ord == Append(order, j)
           out == Evicted(js, ord)
<1>1. /\ jobs' = [i \in Jobs |-> IF i \in out THEN "absent" ELSE js[i]]
      /\ order' = Without(ord, out) /\ runner[j] = "none"
  BY DEF Create
<1>2. jobs \in [Jobs -> JobStates] /\ jobs[j] = "absent"
  BY <1>1 DEF IInv, Gate, Shapes, Polls, Told
<1>3. order \in Seq(Jobs) /\ IsInjective(order) /\ \A k \in DOMAIN order : order[k] # j
  BY <1>2 DEF Registry
<1>4. j \notin ToSet(order)
  BY <1>3 DEF ToSet
<1>5. ord \in Seq(Jobs) /\ IsInjective(ord)
  BY <1>3, <1>4, AppendQueue
<1>6. /\ Len(ord) = Len(order) + 1 /\ Len(order) \in Nat
      /\ DOMAIN order = 1..Len(order) /\ DOMAIN ord = 1..(Len(order) + 1)
      /\ \A k \in DOMAIN order : ord[k] = order[k]
      /\ ord[Len(order) + 1] = j
  BY <1>3, <1>5, AppendProperties, LenProperties
<1> HIDE DEF ord
<1>7. \A k \in DOMAIN ord : ord[k] \in Jobs
  BY <1>5, <1>6, ElementOfSeq
<1>8. \A k \in DOMAIN order : js[ord[k]] = jobs[order[k]]
  <2> SUFFICES ASSUME NEW k \in DOMAIN order PROVE js[ord[k]] = jobs[order[k]]
    OBVIOUS
  <2>1. ord[k] = order[k] /\ order[k] # j
    BY <1>3, <1>6
  <2>2. QED
    BY <1>2, <2>1
<1>9. \A k \in DOMAIN ord : js[ord[k]] # "absent"
  <2> SUFFICES ASSUME NEW k \in DOMAIN ord PROVE js[ord[k]] # "absent"
    OBVIOUS
  <2>1. CASE k = Len(order) + 1
    BY <1>2, <1>6, <2>1
  <2>2. CASE k \in DOMAIN order
    BY <1>8, <2>2 DEF Registry
  <2>3. QED
    BY <1>6, <2>1, <2>2
<1> HIDE DEF js, out
<1>10. QED
  BY <1>1, <1>5, <1>6, <1>7, <1>8, <1>9 DEF js, ord, out

(* Only a Create touches the order, and takes a job out of the registry.   *)
LEMMA OthersKeepTheRegistry ==
    ASSUME [Next]_vars, \A j \in Jobs : ~Create(j)
    PROVE  UNCHANGED order /\ \A i \in Jobs : jobs \in [Jobs -> JobStates] /\ jobs[i] # "absent" => jobs'[i] # "absent"
<1>1. ASSUME NEW j \in Jobs, Run(j) \/ Expire(j)
      PROVE  /\ UNCHANGED order
             /\ UNCHANGED jobs \/ Mark(j, "running") \/ \E state \in {"done", "failed"} : Mark(j, state)
  BY <1>1 DEF Run, Expire, Acquire, Block, GiveUp, StartJob, IngestEnds, Finish, Release
<1>2. ASSUME NEW c \in Callers, SyncIngest(c) \/ SyncReturn(c) PROVE UNCHANGED <<order, jobs>>
  BY <1>2 DEF SyncIngest, SyncReturn
<1>3. ASSUME NEW j \in Jobs, NEW state \in {"running", "done", "failed"}, Mark(j, state),
             jobs \in [Jobs -> JobStates]
      PROVE  \A i \in Jobs : jobs[i] # "absent" => jobs'[i] # "absent"
  BY <1>3 DEF Mark
<1>4. CASE UNCHANGED vars
  BY <1>4 DEF vars
<1>5. QED
  BY <1>1, <1>2, <1>3, <1>4 DEF Next

LEMMA RegistryKept == IInv /\ Registry /\ [Next]_vars => Registry'
<1> SUFFICES ASSUME IInv, Registry, [Next]_vars PROVE Registry'
  OBVIOUS
<1>1. ASSUME NEW j \in Jobs, Create(j) PROVE Registry'
  <2> DEFINE js  == [jobs EXCEPT ![j] = "queued"]
             ord == Append(order, j)
             out == Evicted(js, ord)
             left == Without(ord, out)
  <2>1. /\ jobs' = [i \in Jobs |-> IF i \in out THEN "absent" ELSE js[i]]
        /\ order' = left /\ ord \in Seq(Jobs) /\ IsInjective(ord)
        /\ \A k \in DOMAIN ord : js[ord[k]] # "absent" /\ ord[k] \in Jobs
    BY <1>1, CreateFacts
  <2> HIDE DEF js, ord, out
  <2>2. /\ left \in Seq(Jobs) /\ IsInjective(left)
        /\ \A n \in DOMAIN left : \E k \in Staying(ord, out) : left[n] = ord[k]
    BY <2>1, WithoutFacts
  <2>3. \A n \in DOMAIN left : jobs'[left[n]] # "absent"
    BY <2>1, <2>2 DEF Staying
  <2>4. QED
    BY <2>1, <2>2, <2>3 DEF Registry
<1>2. CASE \A j \in Jobs : ~Create(j)
  <2>1. \A k \in DOMAIN order : order[k] \in Jobs
    BY LenProperties, ElementOfSeq DEF Registry
  <2>2. jobs \in [Jobs -> JobStates]
    BY DEF IInv, Gate, Shapes
  <2>3. QED
    BY <1>2, <2>1, <2>2, OthersKeepTheRegistry DEF Registry
<1>3. QED
  BY <1>1, <1>2

(* Pruning forgets the oldest outcomes, never one younger than an outcome  *)
(* it keeps, no more than the capacity asks for, and leaves the registry   *)
(* above its capacity only with every job in flight.                       *)
THEOREM TheOldestAreForgotten == Spec => EvictsOldestOutcomes
<1> DEFINE gone == {k \in DOMAIN order : jobs'[order[k]] = "absent"}
           kept == {k \in DOMAIN order : Terminal(jobs[order[k]])} \ gone
           Right == /\ \A g \in gone, k \in kept : g < k
                    /\ gone # {} => Len(order') >= MaxJobs
                    /\ Len(order') > Len(order) /\ Len(order') > MaxJobs
                           => \A k \in DOMAIN order' : ~Terminal(jobs'[order'[k]])
<1>1. IInv /\ Registry /\ [Next]_vars => [Right]_vars
  <2> SUFFICES ASSUME IInv, Registry, [Next]_vars PROVE Right
    OBVIOUS
  <2>1. ASSUME NEW j \in Jobs, Create(j) PROVE Right
    <3> DEFINE js  == [jobs EXCEPT ![j] = "queued"]
               ord == Append(order, j)
               out == Evicted(js, ord)
               stay == Staying(ord, out)
               left == Without(ord, out)
    <3>1. /\ jobs' = [i \in Jobs |-> IF i \in out THEN "absent" ELSE js[i]]
          /\ order' = left
          /\ ord \in Seq(Jobs) /\ IsInjective(ord) /\ Len(ord) = Len(order) + 1
          /\ DOMAIN order = 1..Len(order) /\ Len(order) \in Nat /\ DOMAIN ord = 1..(Len(order) + 1)
          /\ \A k \in DOMAIN order : ord[k] = order[k] /\ js[ord[k]] = jobs[order[k]]
          /\ \A k \in DOMAIN ord : js[ord[k]] # "absent" /\ ord[k] \in Jobs
      BY <2>1, CreateFacts
    <3>2. \A k \in DOMAIN ord : ord[k] \in out <=> Due(js, ord, k)
      BY <3>1, EvictedAreDue
    <3> HIDE DEF js, ord
    <3>3. MaxJobs <= Cardinality(stay) \/ \A k \in DOMAIN ord : ~Due(js, ord, k)
      BY <3>1, EnoughStay
    <3>4. /\ Len(left) = Cardinality(stay) /\ DOMAIN left = 1..Cardinality(stay)
          /\ \A n \in DOMAIN left : \E k \in stay : left[n] = ord[k]
      BY <3>1, WithoutFacts
    <3>5. Cardinality(stay) \in Nat /\ Cardinality(stay) <= Len(ord) /\ (Cardinality(stay) = Len(ord) => stay = 1..Len(ord))
      <4>1. stay \in SUBSET (1..Len(ord)) /\ Len(ord) \in Nat
        BY <3>1 DEF Staying
      <4>2. QED
        BY <4>1, RankedOnce
    <3> HIDE DEF out, left, stay
    <3>6. \A k \in DOMAIN order : k \in DOMAIN ord /\ (k \in gone <=> Due(js, ord, k))
      BY <3>1, <3>2
    <3>7. \A g \in gone, k \in kept : g < k
      <4>a. DOMAIN order \subseteq Nat
        BY <3>1
      <4> SUFFICES ASSUME NEW g \in gone, NEW k \in kept, ~(g < k) PROVE FALSE
        OBVIOUS
      <4>b. g \in Nat /\ k \in Nat /\ k <= g
        BY <4>a
      <4>1. g \in DOMAIN ord /\ k \in DOMAIN ord /\ Due(js, ord, g) /\ Terminal(js[ord[k]])
        BY <3>1, <3>6
      <4>2. Due(js, ord, k)
        BY <3>1, <4>1, <4>b, OlderIsDueFirst
      <4>3. QED
        BY <3>6, <4>2
    <3>8. gone # {} => Len(order') >= MaxJobs
      <4>1. gone # {} => MaxJobs <= Cardinality(stay)
        BY <3>3, <3>6
      <4>2. MaxJobs \in Nat
        BY GateAssumption
      <4>3. QED
        BY <3>1, <3>4, <3>5, <4>1, <4>2
    <3>9. ASSUME Len(order') > Len(order), Len(order') > MaxJobs, NEW n \in DOMAIN order',
                 Terminal(jobs'[order'[n]])
          PROVE  FALSE
      <4>1. MaxJobs \in Nat
        BY GateAssumption
      <4>2. Cardinality(stay) = Len(ord) /\ stay = 1..Len(ord) /\ MaxJobs < Len(ord)
        BY <3>1, <3>4, <3>5, <3>9, <4>1
      <4>3. \A k \in DOMAIN ord : ~Due(js, ord, k)
        BY <3>1, <3>2, <4>2 DEF stay, Staying
      <4>4. PICK k \in stay : left[n] = ord[k]
        BY <3>1, <3>4, <3>9
      <4>5. k \in DOMAIN ord /\ ord[k] \notin out
        BY DEF stay, Staying
      <4>6. jobs'[order'[n]] = js[ord[k]]
        BY <3>1, <4>4, <4>5
      <4>7. QED
        BY <3>1, <3>9, <4>2, <4>3, <4>5, <4>6, TheOldestGoes
    <3>10. QED
      BY <3>7, <3>8, <3>9
  <2>2. CASE \A j \in Jobs : ~Create(j)
    <3>1. \A k \in DOMAIN order : order[k] \in Jobs /\ jobs[order[k]] # "absent"
      BY LenProperties, ElementOfSeq DEF Registry
    <3>2. jobs \in [Jobs -> JobStates] /\ Len(order) \in Nat
      BY LenProperties DEF IInv, Gate, Shapes, Registry
    <3>3. UNCHANGED order /\ gone = {}
      BY <2>2, <3>1, <3>2, OthersKeepTheRegistry
    <3>4. QED
      BY <3>2, <3>3
  <2>3. QED
    BY <2>1, <2>2
<1>2. Init => Registry
  BY DEF Init, Registry, IsInjective
<1>3. QED
  BY <1>1, <1>2, Invariance, RegistryKept, PTL DEF Spec, EvictsOldestOutcomes

-----------------------------------------------------------------------------
(* Access                                                                  *)

(* A lifetime never exceeds what was asked, whatever the width of a        *)
(* duration makes of it, nor the default when nothing was asked.           *)
LEMMA LifetimeBounded ==
  ASSUME NEW s \in Nat
  PROVE  /\ Lifetime(s) \in Int
         /\ Lifetime(s) <= IF s > 0 THEN s * Tick ELSE DefaultTTL
<1> DEFINE d == s * Tick
           w == Wrapped(d)
<1>1. d \in Int /\ DefaultTTL \in 1 .. 7
  BY TimeAssumption DEF Tick
<1>2. w \in -8 .. 7 /\ (d >= 0 => w <= d) /\ ((d >= 0 /\ d <= 7) => w = d)
  BY <1>1 DEF Wrapped, Span
<1>3. d = s * 2
  BY DEF Tick
<1>4. CASE s > 0
  <2>1. CASE w <= 0
    <3>1. Lifetime(s) = DefaultTTL
      BY <2>1 DEF Lifetime
    <3>2. d > 7
      BY <1>1, <1>2, <1>3, <1>4, <2>1
    <3> QED  BY <1>1, <1>4, <3>1, <3>2
  <2>2. CASE ~(w <= 0)
    <3>1. Lifetime(s) = w
      BY <2>2 DEF Lifetime
    <3> QED  BY <1>1, <1>2, <1>3, <1>4, <3>1
  <2> QED  BY <2>1, <2>2
<1>5. CASE ~(s > 0)
  <2>1. d = 0
    BY <1>3, <1>5
  <2>2. CASE w <= 0
    BY <1>1, <1>5, <2>2 DEF Lifetime
  <2>3. CASE ~(w <= 0)
    BY <1>1, <1>2, <1>5, <2>1, <2>3 DEF Lifetime
  <2> QED  BY <2>2, <2>3
<1> QED  BY <1>4, <1>5

-----------------------------------------------------------------------------
(* A configuration that loading would not give a secret to.                *)
Complete(cfg) == cfg.secret = NoSecret => ModeOf(cfg) = "none"

LEMMA TypeInit == AccessInit => AccessTypeOK
<1> SUFFICES ASSUME AccessInit PROVE AccessTypeOK
  OBVIOUS
<1>1. file \in Config \cup {Absent}
  BY FilesAssumption DEF AccessInit
<1>2. generated \subseteq Secrets
  BY <1>1, FilesAssumption DEF AccessInit, Config
<1>3. DefaultConfig \in Config
  BY DEF DefaultConfig, Config, Modes
<1>4. mem \in [Instances -> Config] /\ held \in [People -> SUBSET (Invites \cup Sessions)]
  BY <1>3 DEF AccessInit
<1>5. now \in 0 .. MaxTime
  BY TimeAssumption DEF AccessInit
<1> QED  BY <1>1, <1>2, <1>4, <1>5 DEF AccessInit, AccessTypeOK

(* What loading makes of a file: a complete configuration in a set mode,   *)
(* with the secret of the file where it had one.                           *)
LEMMA Loaded ==
  ASSUME AccessTypeOK, NEW read \in Parsed,
         NEW op \in Filled(read, read.op), NEW secret \in Filled(read, read.secret)
  PROVE  /\ Completed(read, op, secret) \in Config
         /\ {op, secret} \ {NoSecret} \subseteq Secrets
         /\ read \in Config
         /\ file \in Config => read = file
         /\ file # Torn
         /\ file = Absent => Completed(read, op, secret) # read
         /\ Complete(Completed(read, op, secret))
         /\ Completed(read, op, secret).secret = secret
         /\ Complete(read) => secret = read.secret
<1>1. DefaultConfig \in Config
  BY DEF DefaultConfig, Config, Modes
<1>2. file # Torn /\ read \in Config /\ (file \in Config => read = file)
      /\ (file = Absent => read = DefaultConfig)
  BY <1>1, FilesAssumption DEF Parsed, AccessTypeOK
<1>3. op \in Secrets \cup {NoSecret} /\ secret \in Secrets \cup {NoSecret}
  BY <1>2 DEF Filled, Config
<1>4. ModeOf(read) \in {"none", "token"}
  BY <1>2 DEF ModeOf, Config, Modes
<1>5. ModeOf(DefaultConfig) = "token" /\ DefaultConfig.mode = ""
  BY DEF ModeOf, DefaultConfig
<1>6. secret = NoSecret => ModeOf(read) = "none"
  BY <1>4, SecretsAssumption DEF Filled
<1>7. Complete(read) => secret = read.secret
  BY DEF Complete, Filled
<1>8. /\ Completed(read, op, secret).mode = ModeOf(read)
      /\ Completed(read, op, secret).secret = secret
  BY DEF Completed
<1>9. Completed(read, op, secret) \in Config
  BY <1>3, <1>4 DEF Completed, Config, Modes
<1>10. file = Absent => Completed(read, op, secret) # read
  BY <1>2, <1>5, <1>8
<1>11. Complete(Completed(read, op, secret))
  BY <1>6, <1>8 DEF Complete, ModeOf
<1> QED  BY <1>2, <1>3, <1>7, <1>8, <1>9, <1>10, <1>11

(* What somebody shows: nothing, what they hold, what needs no secret, or, *)
(* if they read the configuration, what it says.                           *)
LEMMA Shown ==
  ASSUME NEW p \in People, NEW tok \in Presentable(p)
  PROVE  \/ tok \in held[p]
         \/ tok \in Unkeyed
         \/ tok.kind = ""
         \/ tok.kind = "operator" /\ p = Operator
<1>1. NoToken.kind = ""
  BY DEF NoToken, Token
<1>2. ASSUME NEW i \in Instances PROVE Token("operator", mem[i].op, NoSecret, 0).kind = "operator"
  BY DEF Token
<1>3. \/ tok \in held[p] \/ tok = NoToken \/ tok \in Unkeyed
      \/ p = Operator /\ \E i \in Instances : tok = Token("operator", mem[i].op, NoSecret, 0)
  BY DEF Presentable
<1> QED  BY <1>1, <1>2, <1>3

LEMMA NeedsNoSecret ==
  ASSUME NEW tok \in Unkeyed
  PROVE  /\ tok.key = NoSecret
         /\ \/ tok.kind = "invite" /\ tok.about \in Tests
            \/ tok.kind = "session" /\ tok.about \in Attempts
<1>1. \/ \E tid \in Tests : tok = Token("invite", NoSecret, tid, MaxTime + 1)
      \/ \E sid \in Attempts : tok = Token("session", NoSecret, sid, 0)
  BY DEF Unkeyed
<1>2. CASE \E tid \in Tests : tok = Token("invite", NoSecret, tid, MaxTime + 1)
  BY <1>2 DEF Token
<1>3. CASE \E sid \in Attempts : tok = Token("session", NoSecret, sid, 0)
  BY <1>3 DEF Token
<1> QED  BY <1>1, <1>2, <1>3

(* A token somebody shows that is an invite or a session is about a test or*)
(* an attempt, and is one they hold if it was signed with a secret.        *)
LEMMA InviteInHand ==
  ASSUME AccessTypeOK, NEW p \in People, NEW tok \in Presentable(p), tok.kind = "invite"
  PROVE  /\ tok.about \in Tests
         /\ tok.key # NoSecret => tok \in held[p]
<1>1. tok \in held[p] \/ tok \in Unkeyed
  BY Shown
<1>2. CASE tok \in held[p]
  BY <1>2 DEF AccessTypeOK, Invites, Sessions
<1>3. CASE tok \in Unkeyed
  BY <1>3, NeedsNoSecret
<1> QED  BY <1>1, <1>2, <1>3

LEMMA SessionInHand ==
  ASSUME AccessTypeOK, NEW p \in People, NEW tok \in Presentable(p), tok.kind = "session"
  PROVE  tok.key # NoSecret => tok \in held[p]
<1>1. tok \in held[p] \/ tok \in Unkeyed
  BY Shown
<1> QED  BY <1>1, NeedsNoSecret

(* Only who reads the configuration shows an operator's token.             *)
LEMMA OperatorInHand ==
  ASSUME AccessTypeOK, NEW p \in People, NEW tok \in Presentable(p), tok.kind = "operator"
  PROVE  p = Operator
<1>1. \A k \in held[p] : k.kind \in {"invite", "session"}
  BY DEF AccessTypeOK, Invites, Sessions
<1>2. \A k \in Unkeyed : k.kind \in {"invite", "session"}
  BY NeedsNoSecret
<1> QED  BY <1>1, <1>2, Shown

LEMMA TypeStep == AccessTypeOK /\ [AccessNext]_accessVars => AccessTypeOK'
<1> SUFFICES ASSUME AccessTypeOK, [AccessNext]_accessVars PROVE AccessTypeOK'
  OBVIOUS
<1> USE DEF AccessTypeOK
<1>1. ASSUME NEW i \in Instances, LoadOrCreateConfig(i) PROVE AccessTypeOK'
  <2>1. PICK read \in Parsed :
          \E op \in Filled(read, read.op), secret \in Filled(read, read.secret) :
            /\ Start(i, IF Completed(read, op, secret) = read THEN "ready" ELSE "unsaved")
            /\ mem' = [mem EXCEPT ![i] = Completed(read, op, secret)]
            /\ generated' = generated \cup ({op, secret} \ {NoSecret})
            /\ raced' = (raced \/ Overlaps(i, secret))
            /\ UNCHANGED <<file, now, surface>>
    BY <1>1 DEF LoadOrCreateConfig
  <2>2. PICK op \in Filled(read, read.op), secret \in Filled(read, read.secret) :
            /\ Start(i, IF Completed(read, op, secret) = read THEN "ready" ELSE "unsaved")
            /\ mem' = [mem EXCEPT ![i] = Completed(read, op, secret)]
            /\ generated' = generated \cup ({op, secret} \ {NoSecret})
            /\ raced' = (raced \/ Overlaps(i, secret))
            /\ UNCHANGED <<file, now, surface>>
    BY <2>1
  <2>3. Completed(read, op, secret) \in Config /\ {op, secret} \ {NoSecret} \subseteq Secrets
    BY Loaded
  <2>4. mem' \in [Instances -> Config] /\ generated' \subseteq Secrets
    BY <2>2, <2>3
  <2>5. phase' \in [Instances -> {"down", "unsaved", "emptied", "ready", "up"}]
    BY <2>2 DEF Start
  <2>6. raced' \in BOOLEAN
    BY <2>2 DEF Overlaps
  <2> QED  BY <2>2, <2>4, <2>5, <2>6 DEF surface
<1>2. ASSUME NEW i \in Instances, TruncateConfig(i) PROVE AccessTypeOK'
  BY <1>2 DEF TruncateConfig, surface
<1>3. ASSUME NEW i \in Instances, WriteConfig(i) PROVE AccessTypeOK'
  BY <1>3 DEF WriteConfig, surface
<1>4. ASSUME NEW i \in Instances, Serve(i) PROVE AccessTypeOK'
  <2>1. PICK mode \in Overrides \cup {mem[i].mode} : mem' = [mem EXCEPT ![i].mode = mode]
    BY <1>4 DEF Serve
  <2>2. mem[i] \in Config /\ mode \in Modes
    BY <2>1, FilesAssumption DEF Config, Modes
  <2>4. [mem[i] EXCEPT !.mode = mode] \in Config
    BY <2>2 DEF Config
  <2>3. mem' \in [Instances -> Config]
    BY <2>1, <2>4
  <2> QED  BY <1>4, <2>3 DEF Serve, surface
<1>5. ASSUME NEW i \in Instances, Stop(i) PROVE AccessTypeOK'
  <2>1. DefaultConfig \in Config
    BY DEF DefaultConfig, Config, Modes
  <2> QED  BY <1>5, <2>1 DEF Stop, surface
<1>6. ASSUME NEW i \in Instances, NEW tok, NEW tid \in Tests, NEW taker \in Takers,
             NEW s \in Asked, HandleMintInvite(i, tok, tid, taker, s)
      PROVE  AccessTypeOK'
  <2>1. s \in Nat /\ now \in Nat /\ DefaultTTL \in 1 .. 7
    BY TimeAssumption
  <2>2. mem[i].secret \in Secrets
    BY <1>6 DEF HandleMintInvite, Config
  <2>3. Lifetime(s) \in Int
    BY <2>1, LifetimeBounded
  <2>4. InviteFor(i, tid, s) \in Invites
    BY <2>1, <2>2, <2>3 DEF InviteFor, Token, Invites, Tick
  <2>5. held' \in [People -> SUBSET (Invites \cup Sessions)]
    BY <1>6, <2>4 DEF HandleMintInvite, People
  <2>6. (now + IF s > 0 THEN s * Tick ELSE DefaultTTL) \in Int
    BY <2>1 DEF Tick
  <2> QED  BY <1>6, <2>5, <2>6 DEF HandleMintInvite, home
<1>7. ASSUME NEW i \in Instances, NEW p \in People, NEW tid \in Tests, StartAndRespond(i, p, tid)
      PROVE  AccessTypeOK'
  <2>1. PICK sid \in Attempts \ {a.sid : a \in started} :
          /\ started' = started \cup {[sid |-> sid, tid |-> tid, by |-> p, open |-> ~Guarded(i)]}
          /\ held' = IF Guarded(i)
                       THEN [held EXCEPT ![p] = @ \cup {Token("session", mem[i].secret, sid, 0)}]
                       ELSE held
          /\ UNCHANGED <<home, now, asked>>
    BY <1>7 DEF StartAndRespond
  <2>2. Guarded(i) => Token("session", mem[i].secret, sid, 0) \in Sessions
    BY <2>1 DEF Token, Sessions, Config, Guarded
  <2>3. held' \in [People -> SUBSET (Invites \cup Sessions)]
    BY <2>1, <2>2
  <2>4. [sid |-> sid, tid |-> tid, by |-> p, open |-> ~Guarded(i)]
          \in [sid : Attempts, tid : Tests, by : People, open : BOOLEAN]
    BY <2>1 DEF Guarded, Enforced
  <2> QED  BY <2>1, <2>3, <2>4 DEF home
<1>8. ASSUME NEW i \in Instances, NEW p \in People, NEW tok \in Presentable(p),
             HandleInviteStart(i, p, tok)
      PROVE  AccessTypeOK'
  BY <1>7, <1>8, InviteInHand DEF HandleInviteStart, VerifyInvite, Verify
<1>9. ASSUME NEW i \in Instances, Request(i) PROVE AccessTypeOK'
  BY <1>6, <1>7, <1>8, <1>9 DEF Request, HandleStartSession
<1>10. CASE TimePasses
  BY <1>10, TimeAssumption DEF TimePasses, home, surface
<1>11. CASE UNCHANGED accessVars
  BY <1>11 DEF accessVars, home, surface
<1> QED  BY <1>1, <1>2, <1>3, <1>4, <1>5, <1>9, <1>10, <1>11 DEF AccessNext

(* The variables keep their types in every behaviour of the server.        *)
THEOREM Typed == AccessSpec => []AccessTypeOK
<1> QED  BY TypeInit, TypeStep, PTL DEF AccessSpec

-----------------------------------------------------------------------------
(* The strengthening: an invite in somebody's hands was asked for them and *)
(* ends no later than was asked; a session token was given to the one who  *)
(* started the attempt, and an id is given to one attempt only.            *)
InvitesWereAsked ==
  \A p \in People : \A tok \in held[p] : tok.kind = "invite" =>
    \E q \in asked : q.taker = p /\ q.tid = tok.about /\ tok.exp * Tick <= q.until

SessionsWereStarted ==
  \A p \in People : \A tok \in held[p] : tok.kind = "session" =>
    /\ \E a \in started : a.sid = tok.about
    /\ \A a \in started : a.sid = tok.about => a.by = p

Entitled == InvitesWereAsked /\ SessionsWereStarted /\ StartsWereInvited

LEMMA EntitledInit == AccessInit => Entitled
BY DEF AccessInit, Entitled, InvitesWereAsked, SessionsWereStarted, StartsWereInvited

LEMMA EntitledStep == AccessTypeOK /\ Entitled /\ [AccessNext]_accessVars => Entitled'
<1> SUFFICES ASSUME AccessTypeOK, Entitled, [AccessNext]_accessVars PROVE Entitled'
  OBVIOUS
<1> USE DEF Entitled
<1>1. CASE UNCHANGED surface
  BY <1>1 DEF surface, InvitesWereAsked, SessionsWereStarted, StartsWereInvited
<1>2. ASSUME NEW i \in Instances, NEW tok, NEW tid \in Tests, NEW taker \in Takers,
             NEW s \in Asked, HandleMintInvite(i, tok, tid, taker, s)
      PROVE  Entitled'
  <2> DEFINE inv == InviteFor(i, tid, s)
             lasts == IF s > 0 THEN s * Tick ELSE DefaultTTL
             ask == [taker |-> taker, tid |-> tid, until |-> now + lasts]
  <2>1. /\ held' = [held EXCEPT ![taker] = @ \cup {inv}]
        /\ asked' = asked \cup {ask}
        /\ started' = started
    BY <1>2 DEF HandleMintInvite
  <2>2. s \in Nat /\ now \in Int /\ lasts \in Int
    BY TimeAssumption DEF AccessTypeOK, Tick
  <2>3. Lifetime(s) \in Int /\ Lifetime(s) <= lasts
    BY <2>2, LifetimeBounded
  <2>4. inv.kind = "invite" /\ inv.about = tid /\ inv.exp = (now + Lifetime(s)) \div Tick
    BY DEF InviteFor, Token
  <2>5. inv.exp * Tick <= ask.until
    <3> HIDE DEF lasts
    <3>1. ((now + Lifetime(s)) \div 2) * 2 <= now + Lifetime(s)
      BY <2>2, <2>3
    <3> QED  BY <2>2, <2>3, <2>4, <3>1 DEF Tick
  <2>6. InvitesWereAsked'
    <3> SUFFICES ASSUME NEW p \in People, NEW k \in held'[p], k.kind = "invite"
                 PROVE  \E q \in asked' : q.taker = p /\ q.tid = k.about /\ k.exp * Tick <= q.until
      BY DEF InvitesWereAsked
    <3> HIDE DEF inv, ask
    <3>1. taker \in People /\ held \in [People -> SUBSET (Invites \cup Sessions)]
      BY DEF People, AccessTypeOK
    <3>2. k \in held[p] \/ (p = taker /\ k = inv)
      BY <2>1, <3>1
    <3>3. CASE k \in held[p]
      BY <2>1, <3>3 DEF InvitesWereAsked
    <3>4. CASE p = taker /\ k = inv
      BY <2>1, <2>4, <2>5, <3>4 DEF ask
    <3> QED  BY <3>2, <3>3, <3>4
  <2>7. SessionsWereStarted'
    <3> HIDE DEF inv, ask
    <3>1. taker \in People /\ held \in [People -> SUBSET (Invites \cup Sessions)]
      BY DEF People, AccessTypeOK
    <3>2. \A p \in People : \A k \in held'[p] : k.kind = "session" => k \in held[p]
      BY <2>1, <2>4, <3>1
    <3> QED  BY <2>1, <3>2 DEF SessionsWereStarted
  <2>8. StartsWereInvited'
    BY <2>1 DEF StartsWereInvited
  <2> QED  BY <2>6, <2>7, <2>8
<1>3. ASSUME NEW i \in Instances, NEW p \in People, NEW tid \in Tests, StartAndRespond(i, p, tid),
             ~Guarded(i) \/ p = Operator \/ \E q \in asked : q.taker = p /\ q.tid = tid
      PROVE  Entitled'
  <2>1. PICK sid \in Attempts \ {a.sid : a \in started} :
          /\ started' = started \cup {[sid |-> sid, tid |-> tid, by |-> p, open |-> ~Guarded(i)]}
          /\ held' = IF Guarded(i)
                       THEN [held EXCEPT ![p] = @ \cup {Token("session", mem[i].secret, sid, 0)}]
                       ELSE held
          /\ UNCHANGED <<home, now, asked>>
    BY <1>3 DEF StartAndRespond
  <2> DEFINE new == [sid |-> sid, tid |-> tid, by |-> p, open |-> ~Guarded(i)]
             st == Token("session", mem[i].secret, sid, 0)
  <2>2. st.kind = "session" /\ st.about = sid
    BY DEF Token
  <2>3. new.sid = sid /\ new.tid = tid /\ new.by = p /\ (new.open <=> ~Guarded(i))
    OBVIOUS
  <2>4. asked' = asked /\ started' = started \cup {new}
    BY <2>1
  <2>5. \A x \in People : \A k \in held'[x] : k \in held[x] \/ (x = p /\ k = st)
    <3> HIDE DEF st
    <3>1. held \in [People -> SUBSET (Invites \cup Sessions)]
      BY DEF AccessTypeOK
    <3>2. held' = held \/ held' = [held EXCEPT ![p] = @ \cup {st}]
      BY <2>1 DEF st
    <3> QED  BY <3>1, <3>2
  <2> HIDE DEF new, st
  <2>6. InvitesWereAsked'
    BY <2>2, <2>4, <2>5 DEF InvitesWereAsked
  <2>7. SessionsWereStarted'
    <3> SUFFICES ASSUME NEW x \in People, NEW k \in held'[x], k.kind = "session"
                 PROVE  /\ \E a \in started' : a.sid = k.about
                        /\ \A a \in started' : a.sid = k.about => a.by = x
      BY DEF SessionsWereStarted
    <3>1. CASE k \in held[x]
      <4>1. PICK a \in started : a.sid = k.about
        BY <3>1 DEF SessionsWereStarted
      <4>2. k.about # sid
        BY <2>1, <4>1
      <4> QED  BY <2>3, <2>4, <3>1, <4>1, <4>2 DEF SessionsWereStarted
    <3>2. CASE x = p /\ k = st
      <4>1. \A a \in started : a.sid # sid
        BY <2>1
      <4> QED  BY <2>2, <2>3, <2>4, <3>2, <4>1
    <3> QED  BY <2>5, <3>1, <3>2
  <2>8. StartsWereInvited'
    BY <1>3, <2>3, <2>4 DEF StartsWereInvited
  <2> QED  BY <2>6, <2>7, <2>8
<1>4. ASSUME NEW i \in Instances, Request(i) PROVE Entitled'
  <2>0. PICK p \in People : \E tok \in Presentable(p) :
          \/ \E tid \in Tests, taker \in Takers, s \in Asked :
               HandleMintInvite(i, tok, tid, taker, s)
          \/ \E tid \in Tests : HandleStartSession(i, p, tok, tid)
          \/ HandleInviteStart(i, p, tok)
    BY <1>4 DEF Request
  <2>1. PICK tok \in Presentable(p) :
          \/ \E tid \in Tests, taker \in Takers, s \in Asked :
               HandleMintInvite(i, tok, tid, taker, s)
          \/ \E tid \in Tests : HandleStartSession(i, p, tok, tid)
          \/ HandleInviteStart(i, p, tok)
    BY <2>0
  <2>2. CASE \E tid \in Tests, taker \in Takers, s \in Asked : HandleMintInvite(i, tok, tid, taker, s)
    BY <1>2, <2>2
  <2>3. CASE \E tid \in Tests : HandleStartSession(i, p, tok, tid)
    <3>1. PICK tid \in Tests : HandleStartSession(i, p, tok, tid)
      BY <2>3
    <3>2. ~Enforced(i) \/ tok.kind = "operator"
      BY <3>1 DEF HandleStartSession, RequireOperator, VerifyOperator
    <3>3. tok.kind = "operator" => p = Operator
      BY OperatorInHand
    <3> QED  BY <1>3, <3>1, <3>2, <3>3 DEF HandleStartSession, Guarded
  <2>4. CASE HandleInviteStart(i, p, tok)
    <3>1. tok.kind = "invite" /\ tok.key = mem[i].secret /\ StartAndRespond(i, p, tok.about)
      BY <2>4 DEF HandleInviteStart, VerifyInvite, Verify
    <3>2. tok.about \in Tests /\ (tok.key # NoSecret => tok \in held[p])
      BY <3>1, InviteInHand
    <3>3. CASE mem[i].secret = NoSecret
      BY <1>3, <3>1, <3>2, <3>3 DEF Guarded
    <3>4. CASE mem[i].secret # NoSecret
      <4>1. \E q \in asked : q.taker = p /\ q.tid = tok.about
        BY <3>1, <3>2, <3>4 DEF InvitesWereAsked
      <4> QED  BY <1>3, <3>1, <3>2, <4>1
    <3> QED  BY <3>3, <3>4
  <2> QED  BY <2>1, <2>2, <2>3, <2>4
<1>5. ASSUME NEW i \in Instances,
             LoadOrCreateConfig(i) \/ TruncateConfig(i) \/ WriteConfig(i) \/ Serve(i) \/ Stop(i)
      PROVE  Entitled'
  BY <1>1, <1>5 DEF LoadOrCreateConfig, TruncateConfig, WriteConfig, Serve, Stop
<1> QED  BY <1>1, <1>4, <1>5 DEF AccessNext, TimePasses, accessVars

LEMMA EntitledKeep == AccessTypeOK /\ Entitled => TakersKeepToTheirOwn
<1> SUFFICES ASSUME AccessTypeOK, Entitled PROVE TakersKeepToTheirOwn
  OBVIOUS
<1>1. InvitesEndInTime
  <2> SUFFICES ASSUME NEW i \in Instances, NEW p \in Takers, mem[i].secret # NoSecret,
                      NEW tok \in Presentable(p), VerifyInvite(i, tok)
               PROVE  \E q \in asked : q.taker = p /\ q.tid = tok.about /\ now < q.until
    BY DEF InvitesEndInTime
  <2>0. p \in People /\ tok.kind = "invite" /\ tok.key # NoSecret /\ now \div Tick < tok.exp
    BY DEF People, VerifyInvite, Verify
  <2>1. tok \in held[p] /\ p \in People /\ tok.kind = "invite" /\ now \div Tick < tok.exp
    BY <2>0, InviteInHand
  <2>2. PICK q \in asked : q.taker = p /\ q.tid = tok.about /\ tok.exp * Tick <= q.until
    BY <2>1 DEF Entitled, InvitesWereAsked
  <2>3. now \in Int /\ tok.exp \in Int /\ q.until \in Int
    BY <2>1 DEF AccessTypeOK, Invites, Sessions
  <2>4. now < tok.exp * Tick
    BY <2>1, <2>3 DEF Tick
  <2> QED  BY <2>2, <2>3, <2>4 DEF Tick
<1>2. AttemptsAreTheirOwn
  <2> SUFFICES ASSUME NEW i \in Instances, NEW p \in Takers, Guarded(i),
                      NEW tok \in Presentable(p), NEW a \in started, RequireSession(i, tok, a.sid)
               PROVE  a.by = p
    BY DEF AttemptsAreTheirOwn
  <2>1. p \in People /\ p # Operator
    BY PeopleAssumption DEF People
  <2>2. tok.kind # "operator"
    BY <2>1, OperatorInHand
  <2>3. tok.kind = "session" /\ tok.about = a.sid /\ tok.key # NoSecret
    BY <2>2 DEF RequireSession, VerifyOperator, Verify, Guarded
  <2>4. tok \in held[p]
    BY <2>1, <2>3, SessionInHand
  <2> QED  BY <2>1, <2>3, <2>4 DEF Entitled, SessionsWereStarted
<1> QED  BY <1>1, <1>2 DEF TakersKeepToTheirOwn, Entitled

(* For any number of people, instances and tests, and whatever tokens that *)
(* need no secret they show: at an instance that has a secret an invite    *)
(* opens only the test it was asked for and never after the time asked for,*)
(* and no taker drives an attempt that another started.                    *)
THEOREM TakersConfined == AccessSpec => []TakersKeepToTheirOwn
<1>1. AccessInit => AccessTypeOK /\ Entitled
  BY TypeInit, EntitledInit
<1>2. AccessTypeOK /\ Entitled /\ [AccessNext]_accessVars => (AccessTypeOK /\ Entitled)'
  BY TypeStep, EntitledStep
<1> QED  BY <1>1, <1>2, EntitledKeep, PTL DEF AccessSpec

-----------------------------------------------------------------------------
(* The strengthening, as long as no two first starts overlapped: whoever   *)
(* loaded a configuration holds one and the same secret; whoever began to  *)
(* save it, or had no need to, finds that secret in the file unless the    *)
(* file is torn; and every token that was handed out carries it.           *)
Saved(i) == phase[i] \in {"emptied", "ready", "up"}

FileHas(secret) == file = Torn \/ (file \in Config /\ file.secret = secret)

LoadedIsComplete == \A i \in Instances :
  phase[i] \in {"unsaved", "emptied", "ready"} => Complete(mem[i])

OneSecret == \A i, j \in Instances :
  phase[i] # "down" /\ phase[j] # "down" => mem[i].secret = mem[j].secret

SavedSecret == \A i \in Instances : Saved(i) =>
  FileHas(mem[i].secret) /\ (file = Torn \/ Complete(file))

SignedWithIt == \A p \in People : \A tok \in held[p] :
  /\ FileHas(tok.key)
  /\ \A i \in Instances : phase[i] # "down" => mem[i].secret = tok.key

Agreement == LoadedIsComplete /\ (~raced => OneSecret /\ SavedSecret /\ SignedWithIt)

LEMMA AgreementInit == AccessInit => Agreement
BY DEF AccessInit, Agreement, LoadedIsComplete, OneSecret, SavedSecret, Saved, SignedWithIt

(* A step of a request changes neither the file nor any instance; it may   *)
(* hand out a token signed with the secret of the instance that serves it. *)
LEMMA AgreementServed ==
  ASSUME AccessTypeOK, Agreement, NEW i \in Instances, phase[i] = "up", UNCHANGED home,
         \A p \in People : \A tok \in held'[p] : tok \in held[p] \/ tok.key = mem[i].secret
  PROVE  Agreement'
<1>1. LoadedIsComplete'
  BY DEF Agreement, LoadedIsComplete, home, Complete
<1>2. ASSUME ~raced' PROVE OneSecret' /\ SavedSecret' /\ SignedWithIt'
  <2>1. ~raced /\ OneSecret /\ SavedSecret /\ SignedWithIt
    BY <1>2 DEF Agreement, home
  <2>2. OneSecret' /\ SavedSecret'
    BY <2>1 DEF OneSecret, SavedSecret, Saved, FileHas, Complete, home
  <2>3. FileHas(mem[i].secret) /\ \A j \in Instances : phase[j] # "down" => mem[j].secret = mem[i].secret
    BY <2>1 DEF SavedSecret, Saved, OneSecret
  <2>4. SignedWithIt'
    BY <2>1, <2>3 DEF SignedWithIt, FileHas, home
  <2> QED  BY <2>2, <2>4
<1> QED  BY <1>1, <1>2 DEF Agreement

LEMMA AgreementStep == AccessTypeOK /\ Agreement /\ [AccessNext]_accessVars => Agreement'
<1> SUFFICES ASSUME AccessTypeOK, Agreement, [AccessNext]_accessVars PROVE Agreement'
  OBVIOUS
<1>1. ASSUME NEW i \in Instances, LoadOrCreateConfig(i) PROVE Agreement'
  <2>1. PICK read \in Parsed :
          \E op \in Filled(read, read.op), secret \in Filled(read, read.secret) :
            /\ Start(i, IF Completed(read, op, secret) = read THEN "ready" ELSE "unsaved")
            /\ mem' = [mem EXCEPT ![i] = Completed(read, op, secret)]
            /\ raced' = (raced \/ Overlaps(i, secret))
            /\ UNCHANGED <<file, now, surface>>
    BY <1>1 DEF LoadOrCreateConfig
  <2>2. PICK op \in Filled(read, read.op), secret \in Filled(read, read.secret) :
            /\ Start(i, IF Completed(read, op, secret) = read THEN "ready" ELSE "unsaved")
            /\ mem' = [mem EXCEPT ![i] = Completed(read, op, secret)]
            /\ raced' = (raced \/ Overlaps(i, secret))
            /\ UNCHANGED <<file, now, surface>>
    BY <2>1
  <2> DEFINE cfg == Completed(read, op, secret)
  <2>3. /\ cfg \in Config /\ Complete(cfg) /\ cfg.secret = secret
        /\ read \in Config /\ (file \in Config => read = file)
        /\ file # Torn /\ (file = Absent => cfg # read)
        /\ Complete(read) => secret = read.secret
    BY Loaded
  <2> HIDE DEF cfg
  <2>4. /\ phase[i] = "down" /\ phase' \in [Instances -> {"down", "unsaved", "emptied", "ready", "up"}]
        /\ phase'[i] = (IF cfg = read THEN "ready" ELSE "unsaved")
        /\ \A j \in Instances \ {i} : phase'[j] = phase[j]
    BY <2>2 DEF Start, AccessTypeOK, cfg
  <2>5. mem'[i] = cfg /\ \A j \in Instances \ {i} : mem'[j] = mem[j]
    BY <2>2 DEF AccessTypeOK, cfg
  <2>6. file' = file /\ held' = held
    BY <2>2 DEF surface
  <2>7. LoadedIsComplete'
    BY <2>3, <2>4, <2>5 DEF Agreement, LoadedIsComplete, Complete
  <2>8. ASSUME ~raced' PROVE OneSecret' /\ SavedSecret' /\ SignedWithIt'
    <3>1. ~raced /\ ~Overlaps(i, secret) /\ OneSecret /\ SavedSecret /\ SignedWithIt
      BY <2>2, <2>8 DEF Agreement
    <3>2. ASSUME NEW j \in Instances, j # i, phase[j] # "down" PROVE mem[j].secret = secret
      <4>1. CASE phase[j] = "unsaved"
        BY <3>1, <3>2, <4>1 DEF Overlaps
      <4>2. CASE phase[j] # "unsaved"
        <5>1. Saved(j)
          BY <3>2, <4>2 DEF Saved, AccessTypeOK
        <5> QED  BY <2>3, <3>1, <5>1 DEF SavedSecret, FileHas
      <4> QED  BY <4>1, <4>2
    <3>3. OneSecret'
      BY <2>3, <2>4, <2>5, <3>1, <3>2 DEF OneSecret
    <3>4. cfg = read => file \in Config /\ file.secret = secret /\ Complete(file)
      BY <2>3 DEF AccessTypeOK
    <3>5. SavedSecret'
      BY <2>3, <2>4, <2>5, <2>6, <3>1, <3>4 DEF SavedSecret, Saved, FileHas, Complete
    <3>6. ASSUME NEW p \in People, NEW tok \in held[p] PROVE tok.key = secret
      <4>1. tok.key \in Secrets /\ tok.key # NoSecret
        BY <3>6, SecretsAssumption DEF AccessTypeOK, Invites, Sessions
      <4>2. file \in Config /\ file.secret = tok.key
        BY <2>3, <3>1, <3>6 DEF SignedWithIt, FileHas
      <4> QED  BY <2>3, <4>1, <4>2 DEF Complete
    <3>7. SignedWithIt'
      BY <2>3, <2>4, <2>5, <2>6, <3>1, <3>6 DEF SignedWithIt, FileHas
    <3> QED  BY <3>3, <3>5, <3>7
  <2> QED  BY <2>7, <2>8 DEF Agreement
<1>2. ASSUME NEW i \in Instances, TruncateConfig(i) PROVE Agreement'
  BY <1>2 DEF TruncateConfig, surface, Agreement, LoadedIsComplete, Complete, OneSecret,
              SavedSecret, Saved, FileHas, SignedWithIt, AccessTypeOK
<1>3. ASSUME NEW i \in Instances, WriteConfig(i) PROVE Agreement'
  <2>1. /\ phase[i] = "emptied" /\ phase' = [phase EXCEPT ![i] = "ready"]
        /\ file' = mem[i] /\ mem' = mem /\ raced' = raced /\ held' = held
    BY <1>3 DEF WriteConfig, surface
  <2>2. mem[i] \in Config /\ Complete(mem[i])
    BY <2>1 DEF AccessTypeOK, Agreement, LoadedIsComplete
  <2>3. /\ phase'[i] = "ready" /\ \A j \in Instances \ {i} : phase'[j] = phase[j]
    BY <2>1 DEF AccessTypeOK
  <2>4. LoadedIsComplete'
    BY <2>1, <2>2, <2>3 DEF Agreement, LoadedIsComplete, Complete
  <2>5. ASSUME ~raced' PROVE OneSecret' /\ SavedSecret' /\ SignedWithIt'
    <3>1. OneSecret /\ SignedWithIt
      BY <2>1, <2>5 DEF Agreement
    <3>2. \A j \in Instances : phase'[j] # "down" => phase[j] # "down"
      BY <2>1, <2>3
    <3>3. \A j \in Instances : phase[j] # "down" => mem[j].secret = mem[i].secret
      BY <2>1, <3>1 DEF OneSecret
    <3>4. OneSecret'
      BY <2>1, <3>1, <3>2 DEF OneSecret
    <3>5. SavedSecret'
      BY <2>1, <2>2, <3>2, <3>3 DEF SavedSecret, Saved, FileHas, Complete
    <3>6. SignedWithIt'
      BY <2>1, <2>2, <3>1, <3>2, <3>3 DEF SignedWithIt, FileHas
    <3> QED  BY <3>4, <3>5, <3>6
  <2> QED  BY <2>4, <2>5 DEF Agreement
<1>4. ASSUME NEW i \in Instances, Serve(i) PROVE Agreement'
  <2>1. PICK mode \in Overrides \cup {mem[i].mode} : mem' = [mem EXCEPT ![i].mode = mode]
    BY <1>4 DEF Serve
  <2>2. /\ phase[i] = "ready" /\ phase' = [phase EXCEPT ![i] = "up"]
        /\ file' = file /\ raced' = raced /\ held' = held
    BY <1>4 DEF Serve, surface
  <2>3. mem[i] \in Config /\ mem'[i] = [mem[i] EXCEPT !.mode = mode]
        /\ \A j \in Instances \ {i} : mem'[j] = mem[j]
    BY <2>1 DEF AccessTypeOK
  <2>4. \A j \in Instances : mem'[j].secret = mem[j].secret
    BY <2>3 DEF Config
  <2>5. /\ phase'[i] = "up" /\ \A j \in Instances \ {i} : phase'[j] = phase[j]
    BY <2>2 DEF AccessTypeOK
  <2>6. LoadedIsComplete'
    BY <2>3, <2>5 DEF Agreement, LoadedIsComplete, Complete
  <2>7. \A j \in Instances : /\ phase'[j] # "down" => phase[j] # "down"
                             /\ Saved(j)' => Saved(j)
    BY <2>2, <2>5 DEF Saved
  <2> QED  BY <2>2, <2>4, <2>6, <2>7
           DEF Agreement, OneSecret, SavedSecret, FileHas, Complete, SignedWithIt
<1>5. ASSUME NEW i \in Instances, Stop(i) PROVE Agreement'
  <2>1. /\ phase' = [phase EXCEPT ![i] = "down"] /\ mem' = [mem EXCEPT ![i] = DefaultConfig]
        /\ file' = file /\ raced' = raced /\ held' = held
    BY <1>5 DEF Stop, surface
  <2>2. /\ phase'[i] = "down"
        /\ \A j \in Instances \ {i} : phase'[j] = phase[j] /\ mem'[j] = mem[j]
    BY <2>1 DEF AccessTypeOK
  <2> QED  BY <2>1, <2>2 DEF Agreement, LoadedIsComplete, Complete, OneSecret, SavedSecret,
                             Saved, FileHas, SignedWithIt
<1>6. ASSUME NEW i \in Instances, Request(i) PROVE Agreement'
  <2>1. phase[i] = "up"
    BY <1>6 DEF Request
  <2>2. ASSUME NEW tok, NEW tid \in Tests, NEW taker \in Takers, NEW s \in Asked,
               HandleMintInvite(i, tok, tid, taker, s)
        PROVE  Agreement'
    <3>1. InviteFor(i, tid, s).key = mem[i].secret
      BY DEF InviteFor, Token
    <3>2. UNCHANGED home /\ held' = [held EXCEPT ![taker] = @ \cup {InviteFor(i, tid, s)}]
      BY <2>2 DEF HandleMintInvite
    <3>3. \A p \in People : \A k \in held'[p] : k \in held[p] \/ k.key = mem[i].secret
      BY <3>1, <3>2 DEF AccessTypeOK
    <3> QED  BY <2>1, <3>2, <3>3, AgreementServed
  <2>3. ASSUME NEW p \in People, NEW tid, StartAndRespond(i, p, tid) PROVE Agreement'
    <3>1. PICK sid \in Attempts :
            /\ held' = IF Guarded(i)
                         THEN [held EXCEPT ![p] = @ \cup {Token("session", mem[i].secret, sid, 0)}]
                         ELSE held
            /\ UNCHANGED home
      BY <2>3 DEF StartAndRespond
    <3>2. Token("session", mem[i].secret, sid, 0).key = mem[i].secret
      BY DEF Token
    <3>3. \A x \in People : \A k \in held'[x] : k \in held[x] \/ k.key = mem[i].secret
      BY <3>1, <3>2 DEF AccessTypeOK
    <3> QED  BY <2>1, <3>1, <3>3, AgreementServed
  <2> QED  BY <1>6, <2>2, <2>3 DEF Request, HandleStartSession, HandleInviteStart
<1>7. CASE TimePasses \/ UNCHANGED accessVars
  BY <1>7 DEF TimePasses, accessVars, home, surface, Agreement, LoadedIsComplete, Complete, OneSecret,
              SavedSecret, Saved, FileHas, SignedWithIt
<1> QED  BY <1>1, <1>2, <1>3, <1>4, <1>5, <1>6, <1>7 DEF AccessNext

(* For any number of instances, starts, crashes and secrets: unless two    *)
(* first starts overlapped, every token that was handed out verifies on    *)
(* every instance that is up.                                              *)
THEOREM TokensOutliveRestarts == AccessSpec => []TokensVerifyEverywhere
<1>1. AccessInit => AccessTypeOK /\ Agreement
  BY TypeInit, AgreementInit
<1>2. AccessTypeOK /\ Agreement /\ [AccessNext]_accessVars => (AccessTypeOK /\ Agreement)'
  BY TypeStep, AgreementStep
<1>3. Agreement => TokensVerifyEverywhere
  BY DEF Agreement, SignedWithIt, TokensVerifyEverywhere
<1> QED  BY <1>1, <1>2, <1>3, PTL DEF AccessSpec

-----------------------------------------------------------------------------
(* RateLimiter                                                             *)

(* What each bucket owes to its window, and that it is never left full.    *)
(* A client without a bucket has not been seen at all.                     *)
BucketInv(k) ==
    /\ buckets[k] # NoBucket =>
          /\ buckets[k].tokens < Full
          /\ ~stepped => buckets[k].tokens >= 0 /\ buckets[k].last <= clock
          /\ admitted[k] * Unit + buckets[k].tokens <= Full + Rate * (buckets[k].last - since[k])
    /\ buckets[k] = NoBucket => admitted[k] = 0 /\ since[k] = 0

LimiterInv ==
    /\ buckets \in [Keys -> Buckets \cup {NoBucket}]
    /\ clock \in Nat
    /\ admitted \in [Keys -> Nat]
    /\ since \in [Keys -> Nat]
    /\ stepped \in BOOLEAN
    /\ \A k \in Keys : BucketInv(k)

-----------------------------------------------------------------------------
LEMMA FullType == Full \in Nat /\ Full >= Unit /\ Unit \in Nat \ {0} /\ Rate \in Nat \ {0}
<1>1. Burst \in Nat /\ Burst >= 1 /\ Unit \in Nat \ {0} /\ Rate \in Nat \ {0}
  BY LimitAssumption
<1>2. Burst * Unit \in Nat /\ Burst * Unit >= Unit
  BY <1>1
<1>3. QED
  BY <1>1, <1>2 DEF Full

(* No stored bucket is full, so the sweep removes none. *)
LEMMA SweepIsIdle ==
    ASSUME LimiterInv
    PROVE  Swept = buckets
<1>1. \A k \in Keys : buckets[k] # NoBucket => ~(buckets[k].tokens >= Full)
  <2> SUFFICES ASSUME NEW k \in Keys, buckets[k] # NoBucket PROVE ~(buckets[k].tokens >= Full)
    OBVIOUS
  <2>1. buckets[k] \in Buckets /\ BucketInv(k)
    BY DEF LimiterInv
  <2>2. buckets[k].tokens \in Int /\ buckets[k].tokens < Full
    BY <2>1 DEF BucketInv, Buckets
  <2>3. QED
    BY <2>2, FullType
<1>2. QED
  BY <1>1 DEF LimiterInv, Swept

LEMMA OpenedFacts ==
    ASSUME LimiterInv, NEW k \in Keys
    PROVE  Opened(k) = IF buckets[k] # NoBucket THEN buckets
                       ELSE [buckets EXCEPT ![k] = [tokens |-> Full, last |-> clock]]
BY SweepIsIdle DEF Opened

(* A charged or refused bucket still honours its window. *)
LEMMA BucketStep ==
    ASSUME LimiterInv, NEW k \in Keys
    PROVE  LET b == Refilled(Opened(k)[k]) IN
           /\ b \in Buckets /\ b.last = clock
           /\ b.tokens <= Full
           /\ ~stepped => b.tokens >= 0
           /\ admitted[k] * Unit + b.tokens <= Full + Rate * (clock - since[k])
<1> DEFINE o == Opened(k)[k]
           b == Refilled(o)
           grown == o.tokens + (clock - o.last) * Rate
<1>1. clock \in Nat /\ admitted[k] \in Nat /\ since[k] \in Nat /\ buckets \in [Keys -> Buckets \cup {NoBucket}]
  BY DEF LimiterInv
<1>2. admitted[k] * Unit \in Nat
  BY <1>1, FullType
<1>3. b = [tokens |-> IF grown > Full THEN Full ELSE grown, last |-> clock]
  BY DEF Refilled
<1>4. CASE buckets[k] # NoBucket
  <2>1. o = buckets[k] /\ o \in Buckets
    BY <1>1, <1>4, OpenedFacts
  <2>2. o.tokens \in Int /\ o.last \in Nat
    BY <2>1 DEF Buckets
  <2>3. /\ o.tokens < Full
        /\ ~stepped => o.tokens >= 0 /\ o.last <= clock
        /\ admitted[k] * Unit + o.tokens <= Full + Rate * (o.last - since[k])
    BY <1>4, <2>1 DEF LimiterInv, BucketInv
  <2>4. /\ (clock - o.last) * Rate \in Int
        /\ Rate * (clock - since[k]) = Rate * (o.last - since[k]) + (clock - o.last) * Rate
        /\ Rate * (o.last - since[k]) \in Int
    BY <1>1, <2>2, FullType
  <2>5. ~stepped => (clock - o.last) * Rate >= 0
    BY <1>1, <2>2, <2>3, FullType
  <2>6. grown \in Int
    BY <2>2, <2>4
  <2>7. b.tokens \in Int /\ b.tokens <= grown /\ b.tokens <= Full
    BY <1>3, <2>6, FullType
  <2>8. ~stepped => b.tokens >= 0
    BY <1>3, <2>2, <2>3, <2>4, <2>5, FullType
  <2>9. admitted[k] * Unit + b.tokens <= Full + Rate * (clock - since[k])
    <3> DEFINE spent == admitted[k] * Unit
               early == Rate * (o.last - since[k])
               late == (clock - o.last) * Rate
               whole == Rate * (clock - since[k])
    <3>1. /\ spent \in Int /\ early \in Int /\ late \in Int /\ whole = early + late
          /\ b.tokens \in Int /\ b.tokens <= o.tokens + late
          /\ o.tokens \in Int /\ Full \in Int
          /\ spent + o.tokens <= Full + early
      BY <1>2, <2>2, <2>3, <2>4, <2>7, FullType
    <3> HIDE DEF spent, early, late, whole
    <3>2. spent + b.tokens <= Full + whole
      BY <3>1
    <3>3. QED
      BY <3>2 DEF spent, whole
  <2>10. QED
    BY <1>1, <1>3, <2>7, <2>8, <2>9 DEF Buckets
<1>5. CASE buckets[k] = NoBucket
  <2>1. o = [tokens |-> Full, last |-> clock]
    BY <1>1, <1>5, OpenedFacts
  <2>2. grown = Full
    BY <1>1, <2>1, FullType
  <2>3. b.tokens = Full /\ b.last = clock /\ b \in Buckets
    BY <1>1, <1>3, <2>2, FullType DEF Buckets
  <2>4. admitted[k] = 0 /\ since[k] = 0
    BY <1>5 DEF LimiterInv, BucketInv
  <2>5. admitted[k] * Unit = 0 /\ Rate * (clock - since[k]) >= 0 /\ Rate * (clock - since[k]) \in Int
    BY <1>1, <2>4, FullType
  <2>6. QED
    BY <2>3, <2>5, FullType
<1>6. QED
  BY <1>4, <1>5

-----------------------------------------------------------------------------
(* Steps *)

LEMMA AllowStep ==
    ASSUME LimiterInv, NEW k \in Keys, Allow(k)
    PROVE  LimiterInv'
<1> DEFINE b == Refilled(Opened(k)[k])
           c == [tokens |-> b.tokens - Unit, last |-> b.last]
<1>1. /\ buckets \in [Keys -> Buckets \cup {NoBucket}] /\ clock \in Nat
      /\ admitted \in [Keys -> Nat] /\ since \in [Keys -> Nat]
  BY DEF LimiterInv
<1>2. /\ b \in Buckets /\ b.last = clock /\ b.tokens <= Full
      /\ ~stepped => b.tokens >= 0
      /\ admitted[k] * Unit + b.tokens <= Full + Rate * (clock - since[k])
  BY BucketStep
<1>3. b.tokens >= Unit /\ b.tokens \in Int
  BY <1>2 DEF Allow, Buckets
<1>4. c \in Buckets /\ c.last = clock /\ c.tokens = b.tokens - Unit
  BY <1>1, <1>2, <1>3, FullType DEF Buckets
<1>5. /\ buckets' = [buckets EXCEPT ![k] = c]
      /\ admitted' = [admitted EXCEPT ![k] = admitted[k] + 1]
      /\ UNCHANGED <<clock, since, stepped>>
  <2>1. buckets' = [Opened(k) EXCEPT ![k] = c]
    BY DEF Allow
  <2>2. QED
    BY <1>1, <2>1, OpenedFacts DEF Allow
<1>6. ASSUME NEW i \in Keys PROVE BucketInv(i)'
  <2>1. CASE i = k
    <3>1. buckets'[k] = c /\ admitted'[k] = admitted[k] + 1 /\ since'[k] = since[k] /\ UNCHANGED <<clock, stepped>>
      BY <1>1, <1>5
    <3>2. c # NoBucket
      BY <1>4, LimitAssumption
    <3>3. c.tokens < Full /\ (~stepped => c.tokens >= 0 /\ c.last <= clock)
      BY <1>1, <1>2, <1>3, <1>4, FullType
    <3>4. (admitted[k] + 1) * Unit = admitted[k] * Unit + Unit /\ admitted[k] * Unit \in Int
      BY <1>1, FullType
    <3>5. (admitted[k] + 1) * Unit + c.tokens <= Full + Rate * (c.last - since[k])
      <4> DEFINE spent == admitted[k] * Unit
                 more == (admitted[k] + 1) * Unit
                 earned == Rate * (clock - since[k])
      <4>1. spent \in Int /\ more = spent + Unit /\ earned \in Int
        BY <1>1, <3>4, FullType
      <4>2. spent + b.tokens <= Full + earned
        BY <1>2
      <4> HIDE DEF spent, more, earned
      <4>3. more + c.tokens <= Full + earned
        BY <1>3, <1>4, <4>1, <4>2, FullType
      <4>4. QED
        BY <1>4, <4>3 DEF more, earned
    <3>6. QED
      BY <2>1, <3>1, <3>2, <3>3, <3>5 DEF BucketInv
  <2>2. CASE i # k
    <3>1. /\ buckets'[i] = buckets[i] /\ admitted'[i] = admitted[i]
          /\ since'[i] = since[i] /\ UNCHANGED <<clock, stepped>> /\ BucketInv(i)
      BY <1>1, <1>5, <2>2 DEF LimiterInv
    <3>2. QED
      BY <3>1 DEF BucketInv
  <2>3. QED
    BY <2>1, <2>2
<1>7. QED
  BY <1>1, <1>4, <1>5, <1>6 DEF LimiterInv

LEMMA RefuseStep ==
    ASSUME LimiterInv, NEW k \in Keys, Refuse(k)
    PROVE  LimiterInv'
<1> DEFINE b == Refilled(Opened(k)[k])
<1>1. /\ buckets \in [Keys -> Buckets \cup {NoBucket}] /\ clock \in Nat
      /\ admitted \in [Keys -> Nat] /\ since \in [Keys -> Nat]
  BY DEF LimiterInv
<1>2. /\ b \in Buckets /\ b.last = clock
      /\ ~stepped => b.tokens >= 0
      /\ admitted[k] * Unit + b.tokens <= Full + Rate * (clock - since[k])
  BY BucketStep
<1>3. b.tokens < Unit /\ b.tokens \in Int
  BY <1>2 DEF Refuse, Buckets
<1>4. buckets' = [buckets EXCEPT ![k] = b] /\ UNCHANGED <<clock, admitted, since, stepped>>
  <2>1. buckets' = [Opened(k) EXCEPT ![k] = b]
    BY DEF Refuse
  <2>2. QED
    BY <1>1, <2>1, OpenedFacts DEF Refuse
<1>5. ASSUME NEW i \in Keys PROVE BucketInv(i)'
  <2>1. CASE i = k
    <3>1. buckets'[k] = b /\ b # NoBucket
      BY <1>1, <1>2, <1>4, LimitAssumption
    <3>2. b.tokens < Full
      BY <1>3, FullType
    <3>3. b.last <= clock
      BY <1>1, <1>2
    <3>4. QED
      BY <1>2, <1>4, <2>1, <3>1, <3>2, <3>3 DEF BucketInv
  <2>2. CASE i # k
    <3>1. buckets'[i] = buckets[i] /\ BucketInv(i)
      BY <1>1, <1>4, <2>2 DEF LimiterInv
    <3>2. QED
      BY <1>4, <3>1 DEF BucketInv
  <2>3. QED
    BY <2>1, <2>2
<1>6. QED
  BY <1>1, <1>2, <1>4, <1>5 DEF LimiterInv

LEMMA ClockStep ==
    ASSUME LimiterInv, ClockTicks \/ StepBack
    PROVE  LimiterInv'
<1>1. UNCHANGED <<buckets, admitted, since>> /\ clock \in Nat
  BY DEF LimiterInv, ClockTicks, StepBack
<1>2. clock' \in Nat /\ (~stepped' => ~stepped /\ clock <= clock') /\ stepped' \in BOOLEAN
  <2>1. CASE ClockTicks
    <3>1. stepped' = stepped /\ clock' = clock + 1 /\ stepped \in BOOLEAN
      BY <2>1 DEF LimiterInv, ClockTicks
    <3>2. clock' \in Nat /\ clock <= clock'
      BY <1>1, <3>1
    <3>3. QED
      BY <3>1, <3>2, Zenon
  <2>2. CASE StepBack
    <3>1. stepped' = TRUE /\ clock' = clock - 1 /\ clock > 0
      BY <2>2 DEF StepBack
    <3>2. clock' \in Nat
      BY <1>1, <3>1
    <3>3. QED
      BY <3>1, <3>2, Zenon
  <2>3. QED
    BY <2>1, <2>2
<1>3. ASSUME NEW k \in Keys PROVE BucketInv(k)'
  <2>1. BucketInv(k) /\ buckets'[k] = buckets[k]
    BY <1>1 DEF LimiterInv
  <2>2. buckets[k] # NoBucket => buckets[k].last \in Nat
    BY DEF LimiterInv, Buckets
  <2>3. QED
    BY <1>1, <1>2, <2>1, <2>2 DEF BucketInv
<1>4. QED
  BY <1>1, <1>2, <1>3 DEF LimiterInv

(* A new window starts with a count of none and at most a full bucket.     *)
LEMMA ObserveStep ==
    ASSUME LimiterInv, NEW k \in Keys, Observe(k)
    PROVE  LimiterInv'
<1>1. /\ buckets \in [Keys -> Buckets \cup {NoBucket}] /\ clock \in Nat
      /\ admitted \in [Keys -> Nat] /\ since \in [Keys -> Nat]
  BY DEF LimiterInv
<1>2. /\ since' = [since EXCEPT ![k] = buckets[k].last]
      /\ admitted' = [admitted EXCEPT ![k] = 0]
      /\ UNCHANGED <<buckets, clock, stepped>>
      /\ buckets[k] \in Buckets /\ buckets[k] # NoBucket
  BY <1>1 DEF Observe
<1>3. buckets[k].tokens \in Int /\ buckets[k].last \in Nat
  BY <1>2 DEF Buckets
<1>4. ASSUME NEW i \in Keys PROVE BucketInv(i)'
  <2>1. CASE i = k
    <3>1. buckets'[k] = buckets[k] /\ admitted'[k] = 0 /\ since'[k] = buckets[k].last /\ BucketInv(k)
      BY <1>1, <1>2 DEF LimiterInv
    <3>2. 0 * Unit = 0 /\ Rate * (buckets[k].last - buckets[k].last) = 0
      BY <1>3, FullType
    <3>3. buckets[k].tokens < Full
      BY <1>2, <3>1 DEF BucketInv
    <3>4. 0 * Unit + buckets[k].tokens <= Full + Rate * (buckets[k].last - buckets[k].last)
      BY <1>3, <3>2, <3>3, FullType
    <3>5. QED
      BY <1>2, <2>1, <3>1, <3>4 DEF BucketInv
  <2>2. CASE i # k
    <3>1. buckets'[i] = buckets[i] /\ admitted'[i] = admitted[i] /\ since'[i] = since[i] /\ BucketInv(i)
      BY <1>1, <1>2, <2>2 DEF LimiterInv
    <3>2. QED
      BY <1>2, <3>1 DEF BucketInv
  <2>3. QED
    BY <2>1, <2>2
<1>5. QED
  BY <1>1, <1>2, <1>3, <1>4 DEF LimiterInv

LEMMA LimiterInitially == LimiterInit => LimiterInv
<1> SUFFICES ASSUME LimiterInit PROVE LimiterInv
  OBVIOUS
<1>1. stepped \in BOOLEAN
  BY Zenon DEF LimiterInit
<1>2. \A k \in Keys : BucketInv(k)
  BY DEF LimiterInit, BucketInv
<1>3. QED
  BY <1>1, <1>2 DEF LimiterInit, LimiterInv

LEMMA LimiterStep ==
    ASSUME LimiterInv, [LimiterNext]_limiterVars
    PROVE  LimiterInv'
<1>1. CASE \E k \in Keys : Allow(k)
  BY <1>1, AllowStep
<1>2. CASE \E k \in Keys : Refuse(k)
  BY <1>2, RefuseStep
<1>3. CASE \E k \in Keys : Observe(k)
  BY <1>3, ObserveStep
<1>4. CASE ClockTicks \/ StepBack
  BY <1>4, ClockStep
<1>5. CASE UNCHANGED limiterVars
  BY <1>5 DEF limiterVars, LimiterInv, BucketInv
<1>6. QED
  BY <1>1, <1>2, <1>3, <1>4, <1>5 DEF LimiterNext

LEMMA LimiterInvariance == LimiterSpec => []LimiterInv
BY LimiterInitially, LimiterStep, PTL DEF LimiterSpec

-----------------------------------------------------------------------------
(* Theorems *)

(* Buckets stay within a burst and, without clock steps, above nothing.    *)
THEOREM BucketsAreTyped == LimiterSpec => []LimiterTypeOK
<1>1. LimiterInv => LimiterTypeOK
  <2> SUFFICES ASSUME LimiterInv, NEW k \in Known
               PROVE  buckets[k].tokens <= Full /\ (~stepped => buckets[k].tokens >= 0)
    BY DEF LimiterInv, LimiterTypeOK
  <2>1. buckets[k] \in Buckets /\ BucketInv(k) /\ buckets[k] # NoBucket
    BY DEF LimiterInv, Known
  <2>2. buckets[k].tokens \in Int
    BY <2>1 DEF Buckets
  <2>3. QED
    BY <2>1, <2>2, FullType DEF BucketInv
<1>2. QED
  BY <1>1, LimiterInvariance, PTL

(* The limit holds in every window, for every rate, burst and clock.       *)
THEOREM LimitIsKept == LimiterSpec => []NeverAboveRate
<1>1. LimiterInv => NeverAboveRate
  BY DEF LimiterInv, BucketInv, NeverAboveRate, Known
<1>2. QED
  BY <1>1, LimiterInvariance, PTL

(* Retry-After: 1 is enough wherever a second repays a token.              *)
THEOREM RetryAfterSuffices == LimiterSpec => []RetryAfterIsEnough
<1>1. LimiterInv => RetryAfterIsEnough
  <2> SUFFICES ASSUME LimiterInv, ~stepped, Rate * Second >= Unit, NEW k \in Known
               PROVE  buckets[k].tokens + Rate * Second >= Unit
    BY DEF RetryAfterIsEnough
  <2>1. buckets[k] \in Buckets /\ buckets[k].tokens >= 0
    BY DEF LimiterInv, BucketInv, Known
  <2>2. buckets[k].tokens \in Int /\ Rate * Second \in Int
    BY <2>1, LimitAssumption DEF Buckets
  <2>3. QED
    BY <2>1, <2>2, FullType
<1>2. QED
  BY <1>1, LimiterInvariance, PTL

(* Once seen, a client is in the map for ever: the sweep never frees a     *)
(* place, so the cap it is there to enforce cannot hold.                   *)
THEOREM NoBucketIsEverSwept == LimiterSpec => [][\A k \in Keys : buckets[k] # NoBucket => buckets'[k] # NoBucket]_limiterVars
<1> DEFINE Kept == \A k \in Keys : buckets[k] # NoBucket => buckets'[k] # NoBucket
<1>1. ASSUME LimiterInv, [LimiterNext]_limiterVars PROVE [Kept]_limiterVars
  <2>1. CASE \E k \in Keys : Allow(k) \/ Refuse(k)
    <3> PICK k \in Keys : Allow(k) \/ Refuse(k)
      BY <2>1
    <3>1. PICK c \in Buckets : buckets' = [Opened(k) EXCEPT ![k] = c]
      <4> DEFINE b == Refilled(Opened(k)[k])
      <4>1. b \in Buckets /\ b.tokens \in Int
        BY <1>1, BucketStep DEF Buckets
      <4>2. [tokens |-> b.tokens - Unit, last |-> b.last] \in Buckets
        BY <4>1, FullType DEF Buckets
      <4>3. QED
        BY <4>1, <4>2 DEF Allow, Refuse
    <3>2. c # NoBucket
      BY LimitAssumption
    <3>3. buckets' = [buckets EXCEPT ![k] = c]
      BY <1>1, <3>1, OpenedFacts DEF LimiterInv
    <3>4. QED
      BY <1>1, <3>2, <3>3 DEF LimiterInv
  <2>2. CASE ~ \E k \in Keys : Allow(k) \/ Refuse(k)
    <3>1. UNCHANGED buckets
      BY <1>1, <2>2 DEF LimiterNext, ClockTicks, StepBack, Observe, limiterVars
    <3>2. QED
      BY <3>1
  <2>3. QED
    BY <2>1, <2>2
<1>2. QED
  BY <1>1, LimiterInvariance, PTL DEF LimiterSpec
=============================================================================

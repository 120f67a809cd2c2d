------------------------------ MODULE Execution ------------------------------
(***************************************************************************)
(* The execution service (app/execution) over the session repository and   *)
(* the live item bank: requests of one attempt handled concurrently, each  *)
(* as the steps between which the Go code lets other requests in: load the *)
(* row, read the clock, grade against the bank and run the transition in   *)
(* memory, fetch the content of the item to show, save with the version    *)
(* guard. The operator edits the bank and the wall clock moves meanwhile.  *)
(*                                                                         *)
(* Attempts never share a row (RandomIDs), so one attempt is modelled; its *)
(* takers, tabs and retries are the calls in Handlers.                     *)
(*                                                                         *)
(* An operator named ...Bug is a plausible slip in the one it precedes,    *)
(* used only to show which property notices.                               *)
(***************************************************************************)
EXTENDS Session

CONSTANTS
    Handlers,   \* request-handling goroutines (taker tabs, retries)
    Absent,     \* no row in the session repository
    Gone,       \* the bank's value for an item it does not hold
    NoAnswer,   \* the answer field of a request that carries none
    Backend,    \* "memory" or "sqlite": which store SaveSession runs on
    Hazards     \* which of "edit", "drop", "stepback" the environment does

ASSUME ExecutionAssumption ==
    /\ Absent \notin Sessions
    /\ Gone \notin Answers
    /\ NoAnswer \notin Answers
    /\ Backend \in {"memory", "sqlite"}
    /\ Hazards \subseteq {"edit", "drop", "stepback"}
    /\ Time # {}

VARIABLES
    stored,     \* the attempt's row: Absent or a session snapshot
    bank,       \* bank[i] is the answer key of item i, or Gone
    clock,      \* the wall clock
    call        \* call[h] is what handler h is doing

vars == <<stored, bank, clock, call>>

Call == [pc   : {"idle", "loaded", "timed", "fetch", "save"},
         op   : {"none", "answer", "complete"},
         item : Items \cup {NoItem},
         ans  : Answers \cup {NoAnswer},
         sess : Sessions \cup {Absent},
         now  : Nat]

Idle == [pc |-> "idle", op |-> "none", item |-> NoItem, ans |-> NoAnswer,
         sess |-> Absent, now |-> 0]

Init ==
    /\ stored = Absent
    /\ bank \in [Items -> Answers \ NonFinite]
    /\ clock \in Time
    /\ call = [h \in Handlers |-> Idle]

-----------------------------------------------------------------------------
(* The stores' optimistic guard. *)

StoredVersion(row) == IF row = Absent THEN 0 ELSE row.version

(* The saver's own version is expected in a row that exists. *)
MemoryAcceptsOffByOneBug(row, version) == row # Absent => version = row.version

(* memorytestdb: one past the stored version, 0 when absent. *)
MemoryAccepts(row, version) == version = StoredVersion(row) + 1

(* The UPDATE lost its version predicate. *)
SqliteAcceptsBug(row, version) == IF version = 1 THEN row = Absent ELSE row # Absent

(* The UPDATE compares with the new version instead of the preceding one. *)
SqliteAcceptsOffByOneBug(row, version) ==
    IF version = 1 THEN row = Absent ELSE row # Absent /\ row.version = version

(* sqlitetestdb: version 1 is an INSERT ... ON CONFLICT DO NOTHING, any    *)
(* other an UPDATE of the row that still holds the preceding version.      *)
SqliteAccepts(row, version) ==
    IF version = 1 THEN row = Absent
    ELSE row # Absent /\ row.version = version - 1

Accepts(row, version) ==
    IF Backend = "memory" THEN MemoryAccepts(row, version) ELSE SqliteAccepts(row, version)

(* persistAndDeliver and Complete save one version past the one loaded.    *)
ToSave(sess) == [sess EXCEPT !.version = sess.version + 1]

-----------------------------------------------------------------------------
(* Requests *)

Finished(h) == call' = [call EXCEPT ![h] = Idle]

(* A failed request has no effect beyond its own return. *)
Fails(h) == Finished(h) /\ UNCHANGED <<stored, bank, clock>>

(* The transition has run in memory; content is fetched only if an item is *)
(* presented. What the request carried is no longer looked at.             *)
AfterTransition(sess) == IF sess.presented.item = NoItem THEN "save" ELSE "fetch"

Transitioned(h, sess) ==
    /\ call' = [call EXCEPT ![h] = [Idle EXCEPT !.pc = AfterTransition(sess), !.sess = sess]]
    /\ UNCHANGED <<stored, bank, clock>>

(* Start: NewSession and Begin at the clock reading, for an id no other    *)
(* request can hold: while there is no row every other handler is idle.    *)
StartCall(h) ==
    /\ stored = Absent
    /\ \A g \in Handlers : call[g].pc = "idle"
    /\ CanBegin(NewSession)
    /\ Transitioned(h, Begin(NewSession, clock))

(* load of Answer: any item may be targeted, any answer given. *)
AnswerCall(h, item, ans) ==
    /\ call[h].pc = "idle"
    /\ stored # Absent
    /\ call' = [call EXCEPT ![h] = [Idle EXCEPT !.pc = "loaded", !.op = "answer",
                                                !.item = item, !.ans = ans, !.sess = stored]]
    /\ UNCHANGED <<stored, bank, clock>>

(* load of Complete. *)
CompleteCall(h) ==
    /\ call[h].pc = "idle"
    /\ stored # Absent
    /\ call' = [call EXCEPT ![h] = [Idle EXCEPT !.pc = "loaded", !.op = "complete", !.sess = stored]]
    /\ UNCHANGED <<stored, bank, clock>>

ReadClock(h) ==
    /\ call[h].pc = "loaded"
    /\ call' = [call EXCEPT ![h].pc = "timed", ![h].now = clock]
    /\ UNCHANGED <<stored, bank, clock>>

(* The hard stop of Answer and Complete. *)
Late(c) == PastDeadline(c.sess, c.now)

Abandon(h) ==
    /\ call[h].pc = "timed"
    /\ Late(call[h])
    /\ CanFinish(call[h].sess, call[h].now)
    /\ Transitioned(h, Finish(call[h].sess, "abandoned", call[h].now))

(* graded: the taker's answer against the key the bank holds right now. *)
Graded(key, ans) == ans = key

Grade(h) ==
    LET c == call[h] IN
    /\ c.pc = "timed" /\ c.op = "answer"
    /\ ~Late(c)
    /\ bank[c.item] # Gone
    /\ CanRecord(c.sess, c.item, c.ans, c.now)
    /\ Transitioned(h, Record(c.sess, c.ans, Graded(bank[c.item], c.ans), c.now))

Close(h) ==
    /\ call[h].pc = "timed" /\ call[h].op = "complete"
    /\ ~Late(call[h])
    /\ CanFinish(call[h].sess, call[h].now)
    /\ Transitioned(h, Finish(call[h].sess, "completed", call[h].now))

(* Every early error return between the clock reading and the transition:  *)
(* unknown item, wrong item, ended attempt, clock that ran backwards, an   *)
(* answer that is no finite number.                                        *)
Reject(h) ==
    LET c == call[h] IN
    /\ c.pc = "timed"
    /\ \/ Late(c) /\ ~CanFinish(c.sess, c.now)
       \/ ~Late(c) /\ c.op = "answer" /\ (bank[c.item] = Gone \/ ~CanRecord(c.sess, c.item, c.ans, c.now))
       \/ ~Late(c) /\ c.op = "complete" /\ ~CanFinish(c.sess, c.now)
    /\ Fails(h)

(* persistAndDeliver reads the presented item's content before it saves. *)
Fetch(h) ==
    /\ call[h].pc = "fetch"
    /\ bank[call[h].sess.presented.item] # Gone
    /\ call' = [call EXCEPT ![h].pc = "save"]
    /\ UNCHANGED <<stored, bank, clock>>

FetchFails(h) ==
    /\ call[h].pc = "fetch"
    /\ bank[call[h].sess.presented.item] = Gone
    /\ Fails(h)

(* SaveSession: one critical section (memory) or one statement (sqlite). *)
Commit(h) ==
    /\ call[h].pc = "save"
    /\ Accepts(stored, ToSave(call[h].sess).version)
    /\ stored' = ToSave(call[h].sess)
    /\ Finished(h)
    /\ UNCHANGED <<bank, clock>>

Conflict(h) ==
    /\ call[h].pc = "save"
    /\ ~Accepts(stored, ToSave(call[h].sess).version)
    /\ Fails(h)

(* The request dies before its save: client gone, context done, process    *)
(* killed. What it had in memory is lost, the row is untouched.            *)
Drop(h) ==
    /\ "drop" \in Hazards
    /\ call[h].pc # "idle"
    /\ Fails(h)

-----------------------------------------------------------------------------
(* Environment *)

(* SaveItem replaces an item by id, DeleteItem removes it. *)
EditBank(item, key) ==
    /\ "edit" \in Hazards
    /\ bank[item] # key
    /\ bank' = [bank EXCEPT ![item] = key]
    /\ UNCHANGED <<stored, clock, call>>

(* Snapshot strips the monotonic reading, so a wall clock set back shows.  *)
MoveClock(t) ==
    /\ t > clock \/ (t < clock /\ "stepback" \in Hazards)
    /\ clock' = t
    /\ UNCHANGED <<stored, bank, call>>

Serve(h) ==
    \/ ReadClock(h) \/ Abandon(h) \/ Grade(h) \/ Close(h) \/ Reject(h)
    \/ Fetch(h) \/ FetchFails(h) \/ Commit(h) \/ Conflict(h)

Next ==
    \/ \E h \in Handlers :
          \/ StartCall(h)
          \/ \E item \in Items, ans \in Answers : AnswerCall(h, item, ans)
          \/ CompleteCall(h)
          \/ Serve(h)
          \/ Drop(h)
    \/ \E item \in Items, key \in (Answers \ NonFinite) \cup {Gone} : EditBank(item, key)
    \/ \E t \in Time : MoveClock(t)

Spec == Init /\ [][Next]_vars

(* A server that runs keeps executing the requests it accepted, and a      *)
(* taker keeps answering what is in front of them.                         *)
TakerAnswers(h) ==
    /\ stored # Absent /\ stored.presented.item # NoItem
    /\ \E ans \in Answers \ NonFinite : AnswerCall(h, stored.presented.item, ans)

FairSpec == Spec /\ \A h \in Handlers : WF_vars(Serve(h)) /\ SF_vars(TakerAnswers(h))

-----------------------------------------------------------------------------
TypeOK ==
    /\ stored \in Sessions \cup {Absent}
    /\ bank \in [Items -> Answers \cup {Gone}]
    /\ clock \in Time
    /\ call \in [Handlers -> Call]

Atomic == INSTANCE Attempt WITH attempt <- stored

(* Linearizability of optimistic concurrency: whatever the interleaving of *)
(* loads, clock readings, gradings, fetches and saves, the row moves only  *)
(* by whole transitions applied to its current value.                      *)
ImplementsAttempt == Atomic!Spec

(* A conflict is never spurious: the request that is told "conflict" was   *)
(* overtaken by another save after its load, so racing requests cannot     *)
(* reject one another for ever (lock freedom).                             *)
LoserWasOvertaken ==
    [][ \A h \in Handlers : Conflict(h) => StoredVersion(stored) > call[h].sess.version ]_vars

(* The two stores decide every save alike on the rows and versions that    *)
(* occur, although one compares and the other branches on the first        *)
(* version (testdbtest asks for parity).                                   *)
BackendsAgree ==
    \A h \in Handlers : call[h].pc = "save" =>
        LET v == ToSave(call[h].sess).version
        IN  MemoryAccepts(stored, v) <=> SqliteAccepts(stored, v)

(* A taker who keeps answering gets through: the plan is exhausted or the  *)
(* attempt ends, even though tabs race and stale requests are rejected.    *)
TakerGetsThrough == stored # Absent ~> (stored # Absent /\ stored.presented.item = NoItem)

(* persistAndDeliver's comment: content is fetched before the save, so the *)
(* attempt is never "wedged presenting an un-fetchable item".              *)
CommitPresentsFetchable ==
    [][ stored' # stored /\ stored'.presented.item # NoItem
            => bank[stored'.presented.item] # Gone ]_vars
=============================================================================

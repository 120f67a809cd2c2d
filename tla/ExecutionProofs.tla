--------------------------- MODULE ExecutionProofs ---------------------------
(***************************************************************************)
(* The interleaved execution service implements the atomic attempt, for    *)
(* every plan, number of concurrent requests, store backend and hazard.    *)
(*                                                                         *)
(* The argument: a request's in-memory result is a transition of the row   *)
(* it loaded (Justified), and that row is still the stored one exactly as  *)
(* long as the version is (Fresh); the version guard of SaveSession is     *)
(* then what turns a stale result into a conflict instead of a write.      *)
(***************************************************************************)
EXTENDS Execution, SessionProofs

(* The result sess is one transition of row at some instant. *)
Justified(row, sess) ==
    \E t \in Time :
        \/ row = Absent /\ sess = Begin(NewSession, t)
        \/ /\ row # Absent /\ ~PastDeadline(row, t)
           /\ \E item \in Items, ans \in Answers, correct \in BOOLEAN :
                 CanRecord(row, item, ans, t) /\ sess = Record(row, ans, correct, t)
        \/ row # Absent /\ ~PastDeadline(row, t) /\ CanFinish(row, t) /\ sess = Finish(row, "completed", t)
        \/ row # Absent /\ PastDeadline(row, t) /\ CanFinish(row, t) /\ sess = Finish(row, "abandoned", t)

(* A request that has loaded: its copy is the row, or an older version.    *)
Fresh(c) ==
    /\ stored # Absent
    /\ c.sess \in Sessions
    /\ c.sess.version <= StoredVersion(stored)
    /\ c.sess.version = StoredVersion(stored) => c.sess = stored
    /\ c.op \in {"answer", "complete"}
    /\ c.op = "answer" => c.item \in Items /\ c.ans \in Answers

(* A request about to save: its result follows the row, or is outdated.    *)
Pending(c) ==
    /\ c.sess \in Sessions
    /\ c.sess.version <= StoredVersion(stored)
    /\ c.sess.version = StoredVersion(stored) => Justified(stored, c.sess)

CallInv(c) ==
    /\ c.pc \in {"loaded", "timed"} => Fresh(c)
    /\ c.pc = "timed" => c.now \in Time
    /\ c.pc \in {"fetch", "save"} => Pending(c)

Versioned == stored # Absent => stored.version # 0

IInv == TypeOK /\ Versioned /\ \A h \in Handlers : CallInv(call[h])

-----------------------------------------------------------------------------
(* Lemmas *)

LEMMA StoredVersionType ==
    ASSUME TypeOK
    PROVE  StoredVersion(stored) \in Nat
BY DEF TypeOK, StoredVersion, Sessions

(* Both stores implement the same compare-and-swap on the version.         *)
LEMMA AcceptsIsCompareAndSwap ==
    ASSUME TypeOK, Versioned, NEW v \in Nat
    PROVE  /\ MemoryAccepts(stored, v + 1) <=> v = StoredVersion(stored)
           /\ SqliteAccepts(stored, v + 1) <=> v = StoredVersion(stored)
           /\ Accepts(stored, v + 1) <=> v = StoredVersion(stored)
<1>1. StoredVersion(stored) \in Nat
  BY StoredVersionType
<1>2. MemoryAccepts(stored, v + 1) <=> v = StoredVersion(stored)
  BY <1>1 DEF MemoryAccepts
<1>3. SqliteAccepts(stored, v + 1) <=> v = StoredVersion(stored)
  <2>1. stored # Absent => stored.version \in Nat
    BY DEF TypeOK, Sessions
  <2>2. QED
    BY <2>1 DEF SqliteAccepts, StoredVersion, Versioned
<1>4. QED
  BY <1>2, <1>3 DEF Accepts

LEMMA IdleType == Idle \in Call
BY DEF Idle, Call

LEMMA IdleIsConsistent == CallInv(Idle) /\ CallInv(Idle)'
BY DEF CallInv, Idle

LEMMA ToSaveType ==
    ASSUME NEW sess \in Sessions
    PROVE  ToSave(sess) \in Sessions /\ ToSave(sess).version = sess.version + 1
BY DEF ToSave, Sessions

(* A call whose row and record a step leaves alone stays consistent.       *)
LEMMA OthersUnmoved ==
    ASSUME IInv, UNCHANGED stored, NEW h \in Handlers, NEW c,
           call' = [call EXCEPT ![h] = c], c \in Call, CallInv(c)',
           bank' \in [Items -> Answers \cup {Gone}], clock' \in Time
    PROVE  IInv'
<1>1. TypeOK' /\ Versioned'
  BY DEF IInv, TypeOK, Versioned
<1>2. ASSUME NEW g \in Handlers PROVE CallInv(call[g])'
  <2>1. CASE g = h
    BY <2>1 DEF IInv, TypeOK
  <2>2. CASE g # h
    <3>1. call'[g] = call[g]
      BY <2>2 DEF IInv, TypeOK
    <3>2. CallInv(call[g])
      BY DEF IInv
    <3>3. QED
      BY <3>1, <3>2 DEF CallInv, Fresh, Pending, StoredVersion
  <2>3. QED
    BY <2>1, <2>2
<1>3. QED
  BY <1>1, <1>2 DEF IInv

-----------------------------------------------------------------------------
(* Steps of a request *)

(* A request that returns or dies without saving. *)
LEMMA FailsStep ==
    ASSUME IInv, NEW h \in Handlers, Fails(h)
    PROVE  IInv'
<1>1. call' = [call EXCEPT ![h] = Idle] /\ UNCHANGED <<stored, bank, clock>>
  BY DEF Fails, Finished
<1>2. bank' \in [Items -> Answers \cup {Gone}] /\ clock' \in Time
  BY <1>1 DEF IInv, TypeOK
<1>3. QED
  BY <1>1, <1>2, IdleType, IdleIsConsistent, OthersUnmoved

(* The in-memory transition has produced a result the row may be moved to. *)
LEMMA TransitionedStep ==
    ASSUME IInv, NEW h \in Handlers, NEW sess \in Sessions, Pending([Idle EXCEPT !.sess = sess]),
           Transitioned(h, sess)
    PROVE  IInv'
<1> DEFINE c == [Idle EXCEPT !.pc = AfterTransition(sess), !.sess = sess]
<1>1. call' = [call EXCEPT ![h] = c] /\ UNCHANGED <<stored, bank, clock>>
  BY DEF Transitioned
<1>2. c \in Call /\ c.sess = sess /\ c.pc \in {"fetch", "save"}
  BY DEF Idle, Call, AfterTransition
<1>3. Pending(c)'
  BY <1>1, <1>2 DEF Pending, Idle, StoredVersion
<1>4. CallInv(c)'
  BY <1>2, <1>3 DEF CallInv
<1>5. bank' \in [Items -> Answers \cup {Gone}] /\ clock' \in Time
  BY <1>1 DEF IInv, TypeOK
<1>6. QED
  BY <1>1, <1>2, <1>4, <1>5, OthersUnmoved

LEMMA StartStep ==
    ASSUME IInv, NEW h \in Handlers, StartCall(h)
    PROVE  IInv'
<1> DEFINE sess == Begin(NewSession, clock)
<1>1. clock \in Time /\ clock \in Nat
  BY TimingAssumption DEF IInv, TypeOK
<1>2. sess \in Sessions
  BY <1>1, BeginType
<1>3. sess.version = 0 /\ stored = Absent
  BY DEF Begin, NewSession, StartCall
<1>4. Justified(stored, sess)
  BY <1>1, <1>3 DEF Justified
<1>5. Pending([Idle EXCEPT !.sess = sess])
  BY <1>2, <1>3, <1>4 DEF Pending, Idle, StoredVersion
<1>6. QED
  <2>1. PICK v \in Sessions : v = sess
    BY <1>2
  <2>2. Transitioned(h, v) /\ Pending([Idle EXCEPT !.sess = v])
    BY <1>5, <2>1 DEF StartCall
  <2>3. QED
    BY <2>2, TransitionedStep

LEMMA LoadStep ==
    ASSUME IInv, NEW h \in Handlers,
           \/ \E item \in Items, ans \in Answers : AnswerCall(h, item, ans)
           \/ CompleteCall(h)
    PROVE  IInv'
<1>1. PICK c \in Call :
          /\ call' = [call EXCEPT ![h] = c]
          /\ c.pc = "loaded" /\ c.sess = stored /\ c.op \in {"answer", "complete"}
          /\ c.op = "answer" => c.item \in Items /\ c.ans \in Answers
  <2>1. CASE CompleteCall(h)
    <3> DEFINE d == [Idle EXCEPT !.pc = "loaded", !.op = "complete", !.sess = stored]
    <3>1. d \in Call
      BY <2>1 DEF IInv, TypeOK, Call, Idle, CompleteCall
    <3>2. call' = [call EXCEPT ![h] = d]
      BY <2>1 DEF CompleteCall
    <3>3. d.pc = "loaded" /\ d.sess = stored /\ d.op = "complete"
      BY DEF Idle
    <3>4. QED
      BY <3>1, <3>2, <3>3
  <2>2. ASSUME NEW item \in Items, NEW ans \in Answers, AnswerCall(h, item, ans)
        PROVE  \E d \in Call :
                  /\ call' = [call EXCEPT ![h] = d]
                  /\ d.pc = "loaded" /\ d.sess = stored /\ d.op \in {"answer", "complete"}
                  /\ d.op = "answer" => d.item \in Items /\ d.ans \in Answers
    <3> DEFINE d == [Idle EXCEPT !.pc = "loaded", !.op = "answer", !.item = item, !.ans = ans, !.sess = stored]
    <3>1. d \in Call
      BY <2>2 DEF IInv, TypeOK, Call, Idle, AnswerCall
    <3>2. call' = [call EXCEPT ![h] = d]
      BY <2>2 DEF AnswerCall
    <3>3. d.pc = "loaded" /\ d.sess = stored /\ d.op = "answer" /\ d.item = item /\ d.ans = ans
      BY DEF Idle
    <3>4. QED
      BY <3>1, <3>2, <3>3
  <2>3. QED
    BY <2>1, <2>2
<1>2. UNCHANGED <<stored, bank, clock>> /\ stored # Absent
  BY DEF AnswerCall, CompleteCall
<1>3. stored \in Sessions /\ stored.version \in Nat
  BY <1>2 DEF IInv, TypeOK, Sessions
<1>4. Fresh(c)'
  BY <1>1, <1>2, <1>3 DEF Fresh, StoredVersion
<1>5. CallInv(c)'
  BY <1>1, <1>4 DEF CallInv
<1>6. bank' \in [Items -> Answers \cup {Gone}] /\ clock' \in Time
  BY <1>2 DEF IInv, TypeOK
<1>7. QED
  BY <1>1, <1>2, <1>5, <1>6, OthersUnmoved

LEMMA ReadClockStep ==
    ASSUME IInv, NEW h \in Handlers, ReadClock(h)
    PROVE  IInv'
<1>1. call[h] \in Call /\ clock \in Time /\ clock \in Nat /\ Fresh(call[h])
  BY TimingAssumption DEF IInv, TypeOK, ReadClock, CallInv
<1>2. PICK c \in Call :
          /\ call' = [call EXCEPT ![h] = c]
          /\ c = [call[h] EXCEPT !.pc = "timed", !.now = clock]
  BY <1>1 DEF ReadClock, Call
<1>3. /\ c.pc = "timed" /\ c.now \in Time
      /\ c.sess = call[h].sess /\ c.op = call[h].op /\ c.item = call[h].item /\ c.ans = call[h].ans
  BY <1>1, <1>2 DEF Call
<1>4. UNCHANGED <<stored, bank, clock>>
  BY DEF ReadClock
<1>5. Fresh(c)'
  BY <1>1, <1>3, <1>4 DEF Fresh, StoredVersion
<1>6. CallInv(c)'
  BY <1>3, <1>5 DEF CallInv
<1>7. bank' \in [Items -> Answers \cup {Gone}] /\ clock' \in Time
  BY <1>4 DEF IInv, TypeOK
<1>8. QED
  BY <1>2, <1>4, <1>6, <1>7, OthersUnmoved

(* A result that keeps the loaded version and is justified by the loaded   *)
(* copy is pending: if the version still matches, that copy is the row.    *)
LEMMA ResultIsPending ==
    ASSUME NEW c, Fresh(c), NEW sess \in Sessions, sess.version = c.sess.version, Justified(c.sess, sess)
    PROVE  Pending([Idle EXCEPT !.sess = sess])
BY DEF Fresh, Pending, Idle

LEMMA FinishStep ==
    ASSUME IInv, NEW h \in Handlers, Abandon(h) \/ Close(h)
    PROVE  IInv'
<1> DEFINE c == call[h]
<1>1. PICK to \in {"completed", "abandoned"} :
          /\ CanFinish(c.sess, c.now)
          /\ PastDeadline(c.sess, c.now) <=> to = "abandoned"
          /\ Transitioned(h, Finish(c.sess, to, c.now))
  BY DEF Abandon, Close, Late
<1>2. Fresh(c) /\ c.now \in Time /\ c.now \in Nat
  BY TimingAssumption DEF IInv, CallInv, Abandon, Close
<1>3. PICK sess \in Sessions : sess = Finish(c.sess, to, c.now)
  BY <1>2, FinishType DEF Fresh
<1>4. sess.version = c.sess.version
  BY <1>2, <1>3 DEF Finish, Fresh, Sessions
<1>5. c.sess # Absent
  BY <1>2, ExecutionAssumption DEF Fresh
<1>6. Justified(c.sess, sess)
  BY <1>1, <1>2, <1>3, <1>5 DEF Justified
<1>7. Pending([Idle EXCEPT !.sess = sess])
  BY <1>2, <1>4, <1>6, ResultIsPending
<1>8. QED
  BY <1>1, <1>3, <1>7, TransitionedStep

LEMMA GradeStep ==
    ASSUME IInv, NEW h \in Handlers, Grade(h)
    PROVE  IInv'
<1> DEFINE c == call[h]
<1>1. PICK correct \in BOOLEAN : correct = Graded(bank[c.item], c.ans)
  BY DEF Graded
<1>2. /\ CanRecord(c.sess, c.item, c.ans, c.now)
      /\ ~PastDeadline(c.sess, c.now)
      /\ Transitioned(h, Record(c.sess, c.ans, correct, c.now))
  BY <1>1 DEF Grade, Late
<1>3. /\ Fresh(c) /\ c.now \in Time /\ c.now \in Nat
      /\ c.item \in Items /\ c.ans \in Answers
  BY TimingAssumption DEF IInv, CallInv, Grade, Fresh
<1>4. PICK sess \in Sessions : sess = Record(c.sess, c.ans, correct, c.now)
  BY <1>2, <1>3, RecordType DEF Fresh
<1>5. sess.version = c.sess.version
  BY <1>3, <1>4 DEF Record, Fresh, Sessions
<1>6. c.sess # Absent
  BY <1>3, ExecutionAssumption DEF Fresh
<1>7. Justified(c.sess, sess)
  BY <1>2, <1>3, <1>4, <1>6 DEF Justified
<1>8. Pending([Idle EXCEPT !.sess = sess])
  BY <1>3, <1>5, <1>7, ResultIsPending
<1>9. QED
  BY <1>2, <1>4, <1>8, TransitionedStep

LEMMA FetchStep ==
    ASSUME IInv, NEW h \in Handlers, Fetch(h)
    PROVE  IInv'
<1>1. PICK c \in Call : call' = [call EXCEPT ![h] = c] /\ c = [call[h] EXCEPT !.pc = "save"]
  BY DEF IInv, TypeOK, Fetch, Call
<1>2. call[h] \in Call /\ Pending(call[h])
  BY DEF IInv, TypeOK, CallInv, Fetch
<1>3. c.pc = "save" /\ c.sess = call[h].sess
  BY <1>1, <1>2 DEF Call
<1>4. UNCHANGED <<stored, bank, clock>>
  BY DEF Fetch
<1>5. Pending(c)'
  BY <1>2, <1>3, <1>4 DEF Pending, StoredVersion
<1>6. CallInv(c)'
  BY <1>3, <1>5 DEF CallInv
<1>7. bank' \in [Items -> Answers \cup {Gone}] /\ clock' \in Time
  BY <1>4 DEF IInv, TypeOK
<1>8. QED
  BY <1>1, <1>4, <1>6, <1>7, OthersUnmoved

(* A save that the store accepts follows the very row the request loaded,  *)
(* and every other copy in flight is thereby outdated.                     *)
LEMMA CommitFacts ==
    ASSUME IInv, NEW h \in Handlers, Commit(h)
    PROVE  /\ call[h].sess \in Sessions
           /\ stored' = ToSave(call[h].sess)
           /\ Justified(stored, call[h].sess)
           /\ StoredVersion(stored)' = StoredVersion(stored) + 1
           /\ stored' \in Sessions
<1> DEFINE sess == call[h].sess
<1>1. Pending(call[h]) /\ sess \in Sessions /\ sess.version \in Nat
  BY DEF IInv, CallInv, Commit, Pending, Sessions
<1>2. ToSave(sess) \in Sessions /\ ToSave(sess).version = sess.version + 1
  BY <1>1, ToSaveType
<1>3. Accepts(stored, sess.version + 1) /\ stored' = ToSave(sess)
  BY <1>2 DEF Commit
<1>4. sess.version = StoredVersion(stored)
  BY <1>1, <1>3, AcceptsIsCompareAndSwap DEF IInv
<1>5. stored' # Absent
  BY <1>2, <1>3, ExecutionAssumption
<1>6. StoredVersion(stored)' = StoredVersion(stored) + 1
  BY <1>2, <1>3, <1>4, <1>5 DEF StoredVersion
<1>7. QED
  BY <1>1, <1>2, <1>3, <1>4, <1>6 DEF Pending

LEMMA CommitStep ==
    ASSUME IInv, NEW h \in Handlers, Commit(h)
    PROVE  IInv'
<1>1. /\ stored' \in Sessions
      /\ StoredVersion(stored)' = StoredVersion(stored) + 1
      /\ StoredVersion(stored) \in Nat
  BY CommitFacts, StoredVersionType DEF IInv
<1>2. call' = [call EXCEPT ![h] = Idle] /\ UNCHANGED <<bank, clock>>
  BY DEF Commit, Finished
<1>3. TypeOK'
  BY <1>1, <1>2, IdleType DEF IInv, TypeOK
<1>4. stored' # Absent
  BY <1>1, ExecutionAssumption
<1>5. Versioned'
  BY <1>1, <1>4 DEF Versioned, StoredVersion
<1>6. ASSUME NEW g \in Handlers PROVE CallInv(call[g])'
  <2>1. CASE g = h
    <3>1. call'[g] = Idle
      BY <1>2, <2>1 DEF IInv, TypeOK
    <3>2. QED
      BY <3>1 DEF CallInv, Idle
  <2>2. CASE g # h
    <3>1. call'[g] = call[g] /\ call[g] \in Call /\ CallInv(call[g])
      BY <1>2, <2>2 DEF IInv, TypeOK
    <3>2. call[g].sess \in Sessions => call[g].sess.version \in Nat
      BY DEF Sessions
    <3>3. Fresh(call[g]) => Fresh(call[g])'
      BY <1>1, <1>4, <3>1, <3>2 DEF Fresh
    <3>4. Pending(call[g]) => Pending(call[g])'
      BY <1>1, <3>1, <3>2 DEF Pending
    <3>5. QED
      BY <3>1, <3>3, <3>4 DEF CallInv
  <2>3. QED
    BY <2>1, <2>2
<1>7. QED
  BY <1>3, <1>5, <1>6 DEF IInv

LEMMA EnvironmentStep ==
    ASSUME IInv,
           \/ \E item \in Items, key \in (Answers \ NonFinite) \cup {Gone} : EditBank(item, key)
           \/ \E t \in Time : MoveClock(t)
    PROVE  IInv'
<1>1. UNCHANGED <<stored, call>>
  BY DEF EditBank, MoveClock
<1>2. TypeOK'
  BY DEF IInv, TypeOK, EditBank, MoveClock
<1>3. QED
  BY <1>1, <1>2 DEF IInv, Versioned, CallInv, Fresh, Pending, StoredVersion

-----------------------------------------------------------------------------
(* Theorems *)

LEMMA Initially == Init => IInv
<1> SUFFICES ASSUME Init PROVE IInv
  OBVIOUS
<1>1. TypeOK
  BY IdleType DEF Init, TypeOK
<1>2. \A h \in Handlers : CallInv(call[h])
  BY IdleIsConsistent DEF Init
<1>3. QED
  BY <1>1, <1>2 DEF Init, IInv, Versioned

LEMMA StepKeepsInvariant ==
    ASSUME IInv, [Next]_vars
    PROVE  IInv'
<1>1. CASE \E h \in Handlers : StartCall(h)
  BY <1>1, StartStep
<1>2. CASE \E h \in Handlers : \/ \E item \in Items, ans \in Answers : AnswerCall(h, item, ans)
                               \/ CompleteCall(h)
  BY <1>2, LoadStep
<1>3. CASE \E h \in Handlers : Serve(h) \/ Drop(h)
  <2> PICK h \in Handlers : Serve(h) \/ Drop(h)
    BY <1>3
  <2>1. CASE ReadClock(h)
    BY <2>1, ReadClockStep
  <2>2. CASE Abandon(h) \/ Close(h)
    BY <2>2, FinishStep
  <2>3. CASE Grade(h)
    BY <2>3, GradeStep
  <2>4. CASE Fetch(h)
    BY <2>4, FetchStep
  <2>5. CASE Commit(h)
    BY <2>5, CommitStep
  <2>6. CASE Reject(h) \/ FetchFails(h) \/ Conflict(h) \/ Drop(h)
    <3>1. Fails(h)
      BY <2>6 DEF Reject, FetchFails, Conflict, Drop
    <3>2. QED
      BY <3>1, FailsStep
  <2>7. QED
    BY <2>1, <2>2, <2>3, <2>4, <2>5, <2>6 DEF Serve
<1>4. CASE \/ \E item \in Items, key \in (Answers \ NonFinite) \cup {Gone} : EditBank(item, key)
           \/ \E t \in Time : MoveClock(t)
  BY <1>4, EnvironmentStep
<1>5. CASE UNCHANGED vars
  BY <1>5 DEF vars, IInv, TypeOK, Versioned, CallInv, Fresh, Pending, StoredVersion
<1>6. QED
  BY <1>1, <1>2, <1>3, <1>4, <1>5 DEF Next

LEMMA Invariance == Spec => []IInv
BY Initially, StepKeepsInvariant, PTL DEF Spec

(* Rows, requests and bank stay well typed. *)
THEOREM TypeCorrect == Spec => []TypeOK
<1>1. IInv => TypeOK
  BY DEF IInv
<1>2. QED
  BY <1>1, Invariance, PTL

(* The memory and the sqlite store accept exactly the same saves.          *)
THEOREM BackendParity == Spec => []BackendsAgree
<1>1. IInv => BackendsAgree
  <2> SUFFICES ASSUME IInv, NEW h \in Handlers, call[h].pc = "save"
               PROVE  LET v == ToSave(call[h].sess).version
                      IN  MemoryAccepts(stored, v) <=> SqliteAccepts(stored, v)
    BY DEF BackendsAgree
  <2>1. call[h].sess \in Sessions /\ call[h].sess.version \in Nat
    BY DEF IInv, CallInv, Pending, Sessions
  <2>2. ToSave(call[h].sess).version = call[h].sess.version + 1
    BY <2>1, ToSaveType
  <2>3. QED
    BY <2>1, <2>2, AcceptsIsCompareAndSwap DEF IInv
<1>2. QED
  BY <1>1, Invariance, PTL

(* No conflict without another request's progress. *)
THEOREM ConflictsAreNeverSpurious == Spec => LoserWasOvertaken
<1> DEFINE Overtaken == \A h \in Handlers : Conflict(h) => StoredVersion(stored) > call[h].sess.version
<1>1. IInv => Overtaken
  <2> SUFFICES ASSUME IInv, NEW h \in Handlers, Conflict(h)
               PROVE  StoredVersion(stored) > call[h].sess.version
    OBVIOUS
  <2>1. Pending(call[h]) /\ call[h].sess \in Sessions /\ call[h].sess.version \in Nat
    BY DEF IInv, CallInv, Pending, Conflict, Sessions
  <2>2. ~Accepts(stored, call[h].sess.version + 1)
    BY <2>1, ToSaveType DEF Conflict
  <2>3. call[h].sess.version # StoredVersion(stored)
    BY <2>1, <2>2, AcceptsIsCompareAndSwap DEF IInv
  <2>4. StoredVersion(stored) \in Nat
    BY StoredVersionType DEF IInv
  <2>5. QED
    BY <2>1, <2>3, <2>4 DEF Pending
<1>2. IInv /\ [Next]_vars => [Overtaken]_vars
  BY <1>1
<1>3. Spec => [][Overtaken]_vars
  BY <1>2, Invariance, PTL DEF Spec
<1>4. QED
  BY <1>3 DEF LoserWasOvertaken

-----------------------------------------------------------------------------
(* Refinement *)

(* The instance speaks of the same pure transitions.                       *)
LEMMA SameTransitions ==
    ASSUME NEW row, NEW item, NEW ans, NEW correct, NEW to, NEW t
    PROVE  /\ Atomic!Begin(Atomic!NewSession, t) = Begin(NewSession, t)
           /\ Atomic!Record(row, ans, correct, t) = Record(row, ans, correct, t)
           /\ Atomic!Finish(row, to, t) = Finish(row, to, t)
           /\ Atomic!PastDeadline(row, t) <=> PastDeadline(row, t)
           /\ Atomic!CanRecord(row, item, ans, t) <=> CanRecord(row, item, ans, t)
           /\ Atomic!CanFinish(row, t) <=> CanFinish(row, t)
<1>1. ASSUME NEW rs PROVE Atomic!SelectNext(rs, t) = SelectNext(rs, t)
  <2>1. ASSUME NEW S PROVE Atomic!Min(S) = Min(S) /\ Atomic!Max(S) = Max(S)
    BY DEF Min, Atomic!Min, Max, Atomic!Max
  <2>2. ASSUME NEW s PROVE Atomic!Undelivered(s, rs) = Undelivered(s, rs)
    BY DEF Delivered, Atomic!Delivered, Undelivered, Atomic!Undelivered
  <2>3. ASSUME NEW s, NEW i PROVE Atomic!BandAt(s, i) = BandAt(s, i)
    BY DEF BandAt, Atomic!BandAt
  <2>4. ASSUME NEW s PROVE Atomic!Bands(s) = Bands(s)
    BY <2>3 DEF Bands, Atomic!Bands
  <2>5. ASSUME NEW s PROVE Atomic!SectionNet(s, rs) = SectionNet(s, rs)
    <3>1. ASSUME NEW S PROVE Atomic!Cardinality(S) = Cardinality(S)
      BY Zenon DEF Cardinality, Atomic!Cardinality
    <3>2. \A right : Atomic!InSection(s, right, rs) = InSection(s, right, rs)
      BY DEF InSection, Atomic!InSection
    <3>3. /\ Atomic!Cardinality(Atomic!InSection(s, TRUE, rs)) = Cardinality(InSection(s, TRUE, rs))
          /\ Atomic!Cardinality(Atomic!InSection(s, FALSE, rs)) = Cardinality(InSection(s, FALSE, rs))
      BY <3>1, <3>2, Zenon
    <3>4. QED
      BY <3>3, Zenon DEF SectionNet, Atomic!SectionNet
  <2>6. ASSUME NEW s PROVE Atomic!Target(s, rs) = Target(s, rs)
    BY <2>1, <2>4, <2>5 DEF Clamp, Atomic!Clamp, Target, Atomic!Target
  <2>7. ASSUME NEW s PROVE Atomic!PickAdaptive(s, rs) = PickAdaptive(s, rs)
    <3>1. \A i : Atomic!Gap(s, i, rs) = Gap(s, i, rs)
      BY <2>3, <2>6 DEF Distance, Atomic!Distance, Gap, Atomic!Gap
    <3>2. Atomic!Closest(s, rs) = Closest(s, rs)
      BY <2>1, <2>2, <3>1 DEF Closest, Atomic!Closest
    <3>3. Atomic!Lowest(s, rs) = Lowest(s, rs)
      BY <2>1, <2>3, <3>2 DEF Lowest, Atomic!Lowest
    <3>4. QED
      BY <2>1, <3>3 DEF PickAdaptive, Atomic!PickAdaptive
  <2>8. ASSUME NEW s PROVE Atomic!PickInSection(s, rs) = PickInSection(s, rs)
    BY <2>1, <2>2, <2>7 DEF PickInSection, Atomic!PickInSection
  <2>9. Atomic!OpenSections(rs) = OpenSections(rs)
    BY <2>2 DEF OpenSections, Atomic!OpenSections
  <2>10. QED
    BY <2>1, <2>8, <2>9 DEF SelectNext, Atomic!SelectNext, Nothing, Atomic!Nothing
<1>2. Atomic!NewSession = NewSession
  BY DEF NewSession, Atomic!NewSession, Nothing, Atomic!Nothing
<1>3. QED
  BY <1>1, <1>2
  DEF Begin, Atomic!Begin, Record, Atomic!Record, Recorded, Atomic!Recorded, Finish,
      Atomic!Finish, Nothing, Atomic!Nothing, PastDeadline, Atomic!PastDeadline, GlobalDeadline,
      Atomic!GlobalDeadline, CanRecord, Atomic!CanRecord, CanFinish, Atomic!CanFinish

LEMMA CommitIsAtomicStep ==
    ASSUME IInv, NEW h \in Handlers, Commit(h)
    PROVE  Atomic!Next
<1> DEFINE sess == call[h].sess
<1>1. Justified(stored, sess) /\ stored' = ToSave(sess)
  BY CommitFacts
<1>2. stored' = Atomic!Saved(sess)
  BY <1>1 DEF ToSave, Atomic!Saved
<1>3. QED
  BY <1>1, <1>2, SameTransitions DEF Justified, Atomic!Next, Atomic!Start, Atomic!Answer, Atomic!Complete, Atomic!Abandon

(* Every interleaved execution is an execution of the atomic attempt.      *)
THEOREM ExecutionImplementsAttempt == Spec => ImplementsAttempt
<1>1. Init => Atomic!Init
  BY DEF Init, Atomic!Init
<1>2. IInv /\ [Next]_vars => [Atomic!Next]_stored
  <2> SUFFICES ASSUME IInv, [Next]_vars PROVE [Atomic!Next]_stored
    OBVIOUS
  <2>1. CASE \E h \in Handlers : Commit(h)
    BY <2>1, CommitIsAtomicStep
  <2>2. CASE ~ \E h \in Handlers : Commit(h)
    <3>1. UNCHANGED stored
      BY <2>2 DEF Next, vars, Serve, StartCall, AnswerCall, CompleteCall, ReadClock, Abandon, Grade,
                  Close, Reject, Fetch, FetchFails, Conflict, Drop, Fails, Transitioned, EditBank, MoveClock
    <3>2. QED
      BY <3>1
  <2>3. QED
    BY <2>1, <2>2
<1>3. QED
  BY <1>1, <1>2, Invariance, PTL DEF Spec, ImplementsAttempt, Atomic!Spec
=============================================================================

---------------------------- MODULE AttemptProofs ----------------------------
(***************************************************************************)
(* What the atomic attempt guarantees for every plan, budget and set of    *)
(* clock readings. IInv is the inductive invariant: the properties need to *)
(* know that a stored row has really begun (a zero StartedAt would have no *)
(* deadline) and that what is in front of the taker is still unanswered.   *)
(***************************************************************************)
EXTENDS Attempt, SessionProofs

Begun == attempt # Absent => attempt.startedAt # 0 /\ attempt.version # 0

IInv == TypeOK /\ Begun /\ NoItemTwice /\ WithinBudget

LEMMA SavedType ==
    ASSUME NEW sess \in Sessions
    PROVE  /\ Saved(sess) \in Sessions
           /\ Saved(sess).version # 0
           /\ Saved(sess).startedAt = sess.startedAt
           /\ Saved(sess).endedAt = sess.endedAt
           /\ Saved(sess).state = sess.state
           /\ Saved(sess).presented = sess.presented
           /\ Saved(sess).responses = sess.responses
BY DEF Saved, Sessions

(* What an accepted answer does to the row.                                *)
Appended(item, ans, correct, t) ==
    LET old == attempt.responses
        new == attempt'.responses
        r   == new[Len(new)]
    IN  /\ attempt' \in Sessions
        /\ attempt.state = "in-progress" /\ attempt'.state = "in-progress"
        /\ attempt'.startedAt = attempt.startedAt
        /\ item = attempt.presented.item /\ item \in Items
        /\ Len(new) = Len(old) + 1
        /\ \A k \in DOMAIN old : k \in DOMAIN new /\ new[k] = old[k]
        /\ \A k \in DOMAIN new : k \in DOMAIN old \/ k = Len(new)
        /\ r.item = item /\ r.ans = ans /\ r.correct = correct
        /\ r.section = attempt.presented.section
        /\ r.elapsed = t - attempt.presented.at /\ t >= attempt.presented.at
        /\ Delivered(new) = Delivered(old) \cup {item}
        /\ attempt'.presented = SelectNext(new, t)

LEMMA AnswerOutcome ==
    ASSUME TypeOK, NEW t \in Time, NEW item, NEW ans \in Answers, NEW correct \in BOOLEAN,
           Answer(item, ans, correct, t)
    PROVE  Appended(item, ans, correct, t)
<1> DEFINE rs == Recorded(attempt, ans, correct, t)
           sess == Record(attempt, ans, correct, t)
<1>1. t \in Nat
  BY TimingAssumption
<1>2. attempt \in Sessions /\ CanRecord(attempt, item, ans, t)
  BY DEF TypeOK, Answer
<1>3. attempt' = Saved(sess) /\ sess \in Sessions
  BY <1>1, <1>2, RecordType DEF Answer
<1>4. /\ sess.responses = rs /\ sess.presented = SelectNext(rs, t)
      /\ sess.state = attempt.state /\ sess.startedAt = attempt.startedAt
  BY <1>2 DEF Record, Sessions
<1>5. /\ attempt' \in Sessions /\ attempt'.responses = rs /\ attempt'.presented = SelectNext(rs, t)
      /\ attempt'.state = attempt.state /\ attempt'.startedAt = attempt.startedAt
  BY <1>3, <1>4, SavedType
<1>6. /\ rs \in Seq(Response)
      /\ Len(rs) = Len(attempt.responses) + 1
      /\ \A k \in DOMAIN attempt.responses : rs[k] = attempt.responses[k]
      /\ rs[Len(rs)].item = attempt.presented.item
      /\ rs[Len(rs)].section = attempt.presented.section
      /\ rs[Len(rs)].ans = ans
      /\ rs[Len(rs)].elapsed = t - attempt.presented.at
      /\ rs[Len(rs)].correct = correct
      /\ Delivered(rs) = Delivered(attempt.responses) \cup {attempt.presented.item}
  BY <1>1, <1>2, RecordedFacts
<1>7. /\ item = attempt.presented.item /\ item \in Items
      /\ attempt.state = "in-progress" /\ t >= attempt.presented.at
  BY <1>2 DEF CanRecord, Sessions, Presented
<1>8. DOMAIN rs = 1..Len(rs) /\ DOMAIN attempt.responses = 1..Len(attempt.responses)
      /\ Len(attempt.responses) \in Nat
  BY <1>2, <1>6 DEF Sessions
<1>9. /\ \A k \in DOMAIN attempt.responses : k \in DOMAIN rs
      /\ \A k \in DOMAIN rs : k \in DOMAIN attempt.responses \/ k = Len(rs)
  BY <1>6, <1>8
<1> HIDE DEF rs, sess
<1>10. QED
  BY <1>5, <1>6, <1>7, <1>9 DEF Appended

(* What the end of an attempt does to the row.                             *)
LEMMA FinishOutcome ==
    ASSUME TypeOK, NEW t \in Time, Complete(t) \/ Abandon(t)
    PROVE  /\ attempt' \in Sessions
           /\ attempt.state = "in-progress"
           /\ attempt'.state = IF Complete(t) THEN "completed" ELSE "abandoned"
           /\ attempt'.responses = attempt.responses
           /\ attempt'.startedAt = attempt.startedAt
           /\ attempt'.presented = Nothing
<1> DEFINE to == IF Complete(t) THEN "completed" ELSE "abandoned"
           sess == Finish(attempt, to, t)
<1>1. attempt \in Sessions /\ CanFinish(attempt, t) /\ t \in Nat
  BY TimingAssumption DEF TypeOK, Complete, Abandon
<1>2. sess \in Sessions
  BY <1>1, FinishType
<1>3. attempt' = Saved(sess)
  BY DEF Complete, Abandon
<1>4. /\ sess.state = to /\ sess.responses = attempt.responses
      /\ sess.startedAt = attempt.startedAt /\ sess.presented = Nothing
  BY <1>1 DEF Finish, Sessions
<1>5. QED
  BY <1>1, <1>2, <1>3, <1>4, SavedType DEF CanFinish

LEMMA StartStep ==
    ASSUME NEW t \in Time, Start(t)
    PROVE  IInv'
<1> DEFINE sess == Begin(NewSession, t)
<1>1. t \in Nat /\ t # 0
  BY TimingAssumption
<1>2. sess \in Sessions
  BY <1>1, BeginType
<1>3. attempt' = Saved(sess) /\ attempt' \in Sessions /\ attempt'.version # 0
  BY <1>2, SavedType DEF Start
<1>4. /\ attempt'.startedAt = t
      /\ attempt'.responses = <<>>
      /\ attempt'.presented = SelectNext(<<>>, t)
      /\ attempt'.state = "in-progress"
  BY <1>2, <1>3, SavedType DEF Begin, NewSession
<1>5. <<>> \in Seq(Response)
  OBVIOUS
<1>6. SelectNext(<<>>, t).item \notin Delivered(<<>>) /\ SelectNext(<<>>, t).at \in {0, t}
  BY <1>1, <1>5, SelectNextFacts
<1>7. TypeOK' /\ Begun'
  BY <1>1, <1>3, <1>4 DEF TypeOK, Begun
<1>8. NoItemTwice'
  BY <1>4, <1>6 DEF NoItemTwice
<1>9. WithinBudget'
  BY <1>1, <1>4, <1>6, TimingAssumption DEF WithinBudget
<1>10. QED
  BY <1>7, <1>8, <1>9 DEF IInv

LEMMA AnswerStep ==
    ASSUME IInv, NEW t \in Time, NEW item \in Items, NEW ans \in Answers, NEW correct \in BOOLEAN,
           Answer(item, ans, correct, t)
    PROVE  IInv'
<1> DEFINE rs == Recorded(attempt, ans, correct, t)
           sess == Record(attempt, ans, correct, t)
<1>1. t \in Nat /\ Budget \in Nat
  BY TimingAssumption
<1>2. attempt \in Sessions /\ CanRecord(attempt, item, ans, t)
  BY DEF IInv, TypeOK, Answer
<1>3. /\ rs \in Seq(Response)
      /\ Len(rs) = Len(attempt.responses) + 1
      /\ \A k \in DOMAIN attempt.responses : rs[k] = attempt.responses[k]
      /\ rs[Len(rs)].item = attempt.presented.item
      /\ Delivered(rs) = Delivered(attempt.responses) \cup {attempt.presented.item}
  BY <1>1, <1>2, RecordedFacts
<1>4. sess \in Sessions
  BY <1>1, <1>2, RecordType
<1>5. attempt' = Saved(sess) /\ attempt' \in Sessions /\ attempt'.version # 0
  BY <1>4, SavedType DEF Answer
<1>6. /\ attempt'.startedAt = attempt.startedAt
      /\ attempt'.state = "in-progress"
      /\ attempt'.responses = rs
      /\ attempt'.presented = SelectNext(rs, t)
  BY <1>2, <1>4, <1>5, SavedType DEF Record, Sessions, CanRecord
<1>7. SelectNext(rs, t).item \notin Delivered(rs) /\ SelectNext(rs, t).at \in {0, t}
  BY <1>1, <1>3, SelectNextFacts
<1>8. TypeOK' /\ Begun'
  BY <1>5, <1>6 DEF TypeOK, Begun, IInv, Answer
<1>9. NoItemTwice'
  <2>1. /\ attempt.responses \in Seq(Response) /\ Len(attempt.responses) \in Nat
        /\ DOMAIN rs = 1..Len(rs) /\ DOMAIN attempt.responses = 1..Len(attempt.responses)
    BY <1>2, <1>3 DEF Sessions
  <2>2. \A k \in DOMAIN attempt.responses : rs[k].item # rs[Len(rs)].item
    BY <1>3 DEF IInv, NoItemTwice, Answer, Delivered
  <2>3. \A k, l \in DOMAIN attempt.responses : rs[k].item = rs[l].item => k = l
    BY <1>3 DEF IInv, NoItemTwice, Answer
  <2>4. \A k \in DOMAIN rs : k \in DOMAIN attempt.responses \/ k = Len(rs)
    BY <1>3, <2>1
  <2>5. \A k, l \in DOMAIN rs : rs[k].item = rs[l].item => k = l
    BY <2>2, <2>3, <2>4
  <2>6. QED
    BY <1>6, <1>7, <2>5 DEF NoItemTwice
<1>10. WithinBudget'
  <2>1. attempt.startedAt \in Nat /\ attempt.startedAt # 0
    BY <1>2 DEF IInv, Begun, Answer, Sessions
  <2>2. Budget # 0 => t <= attempt.startedAt + Budget
    BY <1>1, <2>1 DEF Answer, PastDeadline, GlobalDeadline
  <2>3. QED
    BY <1>1, <1>6, <1>7, <2>1, <2>2 DEF WithinBudget
<1>11. QED
  BY <1>8, <1>9, <1>10 DEF IInv

(* Complete and Abandon differ in the end state and in the side of the     *)
(* deadline they require.                                                  *)
LEMMA FinishStep ==
    ASSUME IInv, NEW t \in Time, Complete(t) \/ Abandon(t)
    PROVE  IInv'
<1> DEFINE to == IF Complete(t) THEN "completed" ELSE "abandoned"
           sess == Finish(attempt, to, t)
<1>1. t \in Nat /\ Budget \in Nat
  BY TimingAssumption
<1>2. attempt # Absent /\ attempt \in Sessions
  BY DEF IInv, TypeOK, Complete, Abandon
<1>3. sess \in Sessions
  BY <1>1, <1>2, FinishType
<1>4. attempt' = Saved(sess) /\ attempt' \in Sessions /\ attempt'.version # 0
  BY <1>3, SavedType DEF Complete, Abandon
<1>5. /\ attempt'.startedAt = attempt.startedAt
      /\ attempt'.state = to
      /\ attempt'.endedAt = t
      /\ attempt'.responses = attempt.responses
      /\ attempt'.presented = Nothing
  BY <1>2, <1>3, <1>4, SavedType DEF Finish, Sessions
<1>6. TypeOK' /\ Begun'
  BY <1>2, <1>4, <1>5 DEF TypeOK, Begun, IInv
<1>7. NoItemTwice'
  <2>1. attempt.responses \in Seq(Response)
    BY <1>2 DEF Sessions
  <2>2. \A k \in DOMAIN attempt.responses : attempt.responses[k] \in Response
    BY <2>1
  <2>3. \A k \in DOMAIN attempt.responses : attempt.responses[k].item \in Items
    BY <2>2 DEF Response
  <2>4. NoItem \notin Delivered(attempt.responses)
    BY <2>3, PlanAssumption DEF Delivered
  <2>5. QED
    BY <1>2, <1>5, <2>4 DEF IInv, NoItemTwice, Nothing
<1>8. WithinBudget'
  <2>1. attempt.startedAt \in Nat /\ attempt.startedAt # 0
    BY <1>2 DEF IInv, Begun, Sessions
  <2>2. Budget # 0 => (PastDeadline(attempt, t) <=> t > attempt.startedAt + Budget)
    BY <1>1, <2>1 DEF PastDeadline, GlobalDeadline
  <2>3. Budget # 0 => IF Complete(t) THEN t <= attempt.startedAt + Budget
                                     ELSE t > attempt.startedAt + Budget
    BY <1>1, <2>1, <2>2 DEF Complete, Abandon
  <2>4. QED
    BY <1>1, <1>5, <2>1, <2>3 DEF WithinBudget, Nothing
<1>9. QED
  BY <1>6, <1>7, <1>8 DEF IInv

(* The atomic attempt keeps its invariant at every step.                   *)
LEMMA Invariance == Spec => []IInv
<1>1. Init => IInv
  BY AbsentAssumption DEF Init, IInv, TypeOK, Begun, NoItemTwice, WithinBudget
<1>2. IInv /\ [Next]_attempt => IInv'
  <2> SUFFICES ASSUME IInv, [Next]_attempt PROVE IInv'
    OBVIOUS
  <2>1. CASE \E t \in Time : Start(t)
    BY <2>1, StartStep
  <2>2. CASE \E t \in Time, item \in Items, ans \in Answers, correct \in BOOLEAN :
                Answer(item, ans, correct, t)
    BY <2>2, AnswerStep
  <2>3. CASE \E t \in Time : Complete(t) \/ Abandon(t)
    BY <2>3, FinishStep
  <2>4. CASE UNCHANGED attempt
    BY <2>4 DEF IInv, TypeOK, Begun, NoItemTwice, WithinBudget
  <2>5. QED
    BY <2>1, <2>2, <2>3, <2>4 DEF Next
<1>3. QED
  BY <1>1, <1>2, PTL DEF Spec

(* Every stored row is a well-formed session snapshot. *)
THEOREM TypeCorrect == Spec => []TypeOK
<1>1. IInv => TypeOK
  BY DEF IInv
<1>2. QED
  BY <1>1, Invariance, PTL

(* No taker answers an item twice or is shown one already answered. *)
THEOREM NoItemIsAnsweredTwice == Spec => []NoItemTwice
<1>1. IInv => NoItemTwice
  BY DEF IInv
<1>2. QED
  BY <1>1, Invariance, PTL

(* Nothing is delivered or completed after the global budget. *)
THEOREM BudgetIsAHardStop == Spec => []WithinBudget
<1>1. IInv => WithinBudget
  BY DEF IInv
<1>2. QED
  BY <1>1, Invariance, PTL

(* The action inside NeverRewritten. *)
Extends ==
    attempt # Absent =>
        /\ ~Ended(attempt)
        /\ attempt'.version = attempt.version + 1
        /\ attempt'.startedAt = attempt.startedAt
        /\ Len(attempt'.responses) \in {Len(attempt.responses), Len(attempt.responses) + 1}
        /\ \A k \in DOMAIN attempt.responses : attempt'.responses[k] = attempt.responses[k]

LEMMA AnswerExtends ==
    ASSUME TypeOK, NEW t \in Time, NEW item \in Items, NEW ans \in Answers, NEW correct \in BOOLEAN,
           Answer(item, ans, correct, t)
    PROVE  Extends
<1> DEFINE rs == Recorded(attempt, ans, correct, t)
           sess == Record(attempt, ans, correct, t)
<1>1. t \in Nat
  BY TimingAssumption
<1>2. attempt \in Sessions /\ CanRecord(attempt, item, ans, t)
  BY DEF TypeOK, Answer
<1>3. Len(rs) = Len(attempt.responses) + 1 /\ \A k \in DOMAIN attempt.responses : rs[k] = attempt.responses[k]
  BY <1>1, <1>2, RecordedFacts
<1>4. sess.responses = rs /\ sess.startedAt = attempt.startedAt /\ sess.version = attempt.version
  BY <1>2 DEF Record, Sessions
<1>5. attempt' = Saved(sess) /\ sess \in Sessions
  BY <1>1, <1>2, RecordType DEF Answer
<1>6. attempt'.responses = rs /\ attempt'.startedAt = attempt.startedAt /\ attempt'.version = attempt.version + 1
  BY <1>4, <1>5 DEF Saved, Sessions
<1>7. ~Ended(attempt)
  BY <1>2 DEF CanRecord, Ended
<1>8. QED
  BY <1>3, <1>6, <1>7 DEF Extends

LEMMA FinishExtends ==
    ASSUME TypeOK, NEW t \in Time, Complete(t) \/ Abandon(t)
    PROVE  Extends
<1>1. PICK to \in {"completed", "abandoned"} : attempt' = Saved(Finish(attempt, to, t))
  BY DEF Complete, Abandon
<1>2. attempt \in Sessions /\ CanFinish(attempt, t) /\ t \in Nat
  BY TimingAssumption DEF TypeOK, Complete, Abandon
<1>3. Finish(attempt, to, t) \in Sessions
  BY <1>2, FinishType
<1>4. /\ attempt'.responses = attempt.responses
      /\ attempt'.startedAt = attempt.startedAt
      /\ attempt'.version = attempt.version + 1
  BY <1>1, <1>2, <1>3 DEF Finish, Saved, Sessions
<1>5. ~Ended(attempt)
  BY <1>2 DEF CanFinish, Ended
<1>6. QED
  BY <1>4, <1>5 DEF Extends

(* Ended attempts are frozen and captured answers are never rewritten.     *)
THEOREM AnswersAreNeverRewritten == Spec => NeverRewritten
<1>1. TypeOK /\ [Next]_attempt => [Extends]_attempt
  <2> SUFFICES ASSUME TypeOK, Next PROVE Extends
    OBVIOUS
  <2>1. CASE \E t \in Time : Start(t)
    BY <2>1 DEF Start, Extends
  <2>2. CASE \E t \in Time, item \in Items, ans \in Answers, correct \in BOOLEAN :
                Answer(item, ans, correct, t)
    BY <2>2, AnswerExtends
  <2>3. CASE \E t \in Time : Complete(t) \/ Abandon(t)
    BY <2>3, FinishExtends
  <2>4. QED
    BY <2>1, <2>2, <2>3 DEF Next
<1>2. [][Extends]_attempt <=> NeverRewritten
  BY DEF Extends, NeverRewritten
<1>3. QED
  BY <1>1, <1>2, TypeCorrect, PTL DEF Spec

-----------------------------------------------------------------------------
(* Response times *)

LEMMA StartOutcome ==
    ASSUME NEW t \in Time, Start(t)
    PROVE  /\ attempt' \in Sessions /\ attempt'.responses = <<>>
           /\ attempt'.startedAt = t /\ attempt'.presented = SelectNext(<<>>, t)
           /\ attempt'.state = "in-progress"
<1> DEFINE sess == Begin(NewSession, t)
<1>1. sess \in Sessions /\ attempt' = Saved(sess)
  BY BeginType, TimingAssumption DEF Start
<1>2. /\ sess.responses = <<>> /\ sess.startedAt = t /\ sess.presented = SelectNext(<<>>, t)
      /\ sess.state = "in-progress"
  BY DEF Begin, NewSession
<1>3. QED
  BY <1>1, <1>2, SavedType

(* The instants a line of clock readings goes through, for one row.        *)
OnLine(at, row) ==
    /\ at \in [1..Len(row.responses) + 1 -> Time]
    /\ at[1] = row.startedAt
    /\ \A k \in DOMAIN row.responses :
          at[k] <= at[k + 1] /\ row.responses[k].elapsed = at[k + 1] - at[k]
    /\ row.presented.item # NoItem => row.presented.at = at[Len(row.responses) + 1]

LEMMA AccountedByLine ==
    /\ TimeAccounted <=> (attempt # Absent => \E at : OnLine(at, attempt))
    /\ TimeAccounted' <=> (attempt' # Absent => \E at : OnLine(at, attempt'))
BY DEF TimeAccounted, OnLine

LEMMA StartOnLine ==
    ASSUME NEW t \in Time, Start(t)
    PROVE  TimeAccounted'
<1> DEFINE at == [k \in 1..1 |-> t]
<1>1. /\ attempt'.responses = <<>> /\ attempt'.startedAt = t
      /\ attempt'.presented = SelectNext(<<>>, t)
  BY StartOutcome
<1>2. <<>> \in Seq(Response) /\ t \in Nat
  BY TimingAssumption
<1>3. SelectNext(<<>>, t).item # NoItem => SelectNext(<<>>, t).at = t
  BY <1>2, SelectNextFacts
<1>4. Len(<<>>) = 0 /\ DOMAIN <<>> = {}
  OBVIOUS
<1>5. at \in [1..1 -> Time] /\ at[1] = t
  OBVIOUS
<1>6. OnLine(at, attempt')
  BY <1>1, <1>3, <1>4, <1>5 DEF OnLine
<1>7. QED
  BY <1>6, AccountedByLine

(* An answer puts the instant it came at the end of the line. *)
LEMMA AnswerOnLine ==
    ASSUME TypeOK, TimeAccounted, NEW t \in Time, NEW item, NEW ans \in Answers,
           NEW correct \in BOOLEAN, Answer(item, ans, correct, t)
    PROVE  TimeAccounted'
<1> DEFINE old == attempt.responses
           new == attempt'.responses
           n   == Len(old)
<1>1. Appended(item, ans, correct, t) /\ attempt # Absent
  BY AnswerOutcome DEF Answer
<1>2. PICK at : OnLine(at, attempt)
  BY <1>1, AccountedByLine
<1>3. old \in Seq(Response) /\ new \in Seq(Response) /\ attempt' \in Sessions
  BY <1>1 DEF TypeOK, Sessions, Appended
<1>4. /\ n \in Nat /\ DOMAIN old = 1..n /\ Len(new) = n + 1 /\ DOMAIN new = 1..(n + 1)
  BY <1>1, <1>3 DEF Appended
<1> DEFINE next == [k \in 1..(n + 2) |-> IF k = n + 2 THEN t ELSE at[k]]
<1>5. attempt.presented.item # NoItem /\ attempt.presented.at = at[n + 1]
  BY <1>1, <1>2, PlanAssumption DEF Appended, OnLine
<1>6. /\ at \in [1..n + 1 -> Time] /\ at[1] = attempt.startedAt
      /\ \A k \in 1..n : at[k] <= at[k + 1] /\ old[k].elapsed = at[k + 1] - at[k]
  BY <1>2, <1>4 DEF OnLine
<1>7. next \in [1..Len(new) + 1 -> Time] /\ next[1] = attempt'.startedAt
  BY <1>1, <1>4, <1>6 DEF Appended
<1>8. ASSUME NEW k \in DOMAIN new
      PROVE  next[k] <= next[k + 1] /\ new[k].elapsed = next[k + 1] - next[k]
  <2>1. CASE k \in 1..n
    <3>1. next[k] = at[k] /\ next[k + 1] = at[k + 1] /\ new[k] = old[k]
      BY <1>1, <1>4, <2>1 DEF Appended
    <3>2. QED
      BY <1>6, <2>1, <3>1
  <2>2. CASE k = n + 1
    <3>1. next[k] = at[n + 1] /\ next[k + 1] = t
      BY <1>4, <2>2
    <3>2. new[k].elapsed = t - attempt.presented.at /\ t >= attempt.presented.at
      BY <1>1, <1>4, <2>2 DEF Appended
    <3>3. at[n + 1] \in Time /\ t \in Nat /\ Time \subseteq Nat
      BY <1>4, <1>6, TimingAssumption
    <3>4. QED
      BY <1>5, <3>1, <3>2, <3>3
  <2>3. QED
    BY <1>4, <2>1, <2>2
<1>9. attempt'.presented.item # NoItem => attempt'.presented.at = next[Len(new) + 1]
  <2>1. t \in Nat /\ attempt'.presented = SelectNext(new, t)
    BY <1>1, TimingAssumption DEF Appended
  <2>2. next[Len(new) + 1] = t
    BY <1>4
  <2>3. QED
    BY <1>3, <2>1, <2>2, SelectNextFacts
<1> HIDE DEF next
<1>10. OnLine(next, attempt')
  BY <1>7, <1>8, <1>9 DEF OnLine
<1>11. QED
  BY <1>10, AccountedByLine

(* No response time is negative, and between them they account for every   *)
(* instant from the start to the item in front of the taker.               *)
THEOREM EveryInstantIsAccounted == Spec => []TimeAccounted
<1>1. Init => TimeAccounted
  BY DEF Init, TimeAccounted
<1>2. TypeOK /\ TimeAccounted /\ [Next]_attempt => TimeAccounted'
  <2> SUFFICES ASSUME TypeOK, TimeAccounted, [Next]_attempt PROVE TimeAccounted'
    OBVIOUS
  <2>1. CASE \E t \in Time : Start(t)
    BY <2>1, StartOnLine
  <2>2. CASE \E t \in Time, item \in Items, ans \in Answers, correct \in BOOLEAN :
                Answer(item, ans, correct, t)
    BY <2>2, AnswerOnLine
  <2>3. ASSUME NEW t \in Time, Complete(t) \/ Abandon(t) PROVE TimeAccounted'
    <3>1. /\ attempt'.responses = attempt.responses /\ attempt'.startedAt = attempt.startedAt
          /\ attempt'.presented = Nothing /\ attempt # Absent
      BY <2>3, FinishOutcome DEF Complete, Abandon
    <3>2. PICK at : OnLine(at, attempt)
      BY <3>1, AccountedByLine
    <3>3. OnLine(at, attempt')
      BY <3>1, <3>2 DEF OnLine, Nothing
    <3>4. QED
      BY <3>3, AccountedByLine
  <2>4. CASE UNCHANGED attempt
    BY <2>4 DEF TimeAccounted
  <2>5. QED
    BY <2>1, <2>2, <2>3, <2>4 DEF Next
<1>3. QED
  BY <1>1, <1>2, TypeCorrect, PTL DEF Spec

-----------------------------------------------------------------------------
(* The staircase *)

(* What is delivered, and what is about to be, belongs to the plan.        *)
Placed ==
    attempt # Absent =>
        /\ \A k \in DOMAIN attempt.responses : attempt.responses[k].section \in DOMAIN Sections
        /\ attempt.presented.item # NoItem => attempt.presented.section \in DOMAIN Sections

LEMMA PlacedAlways == Spec => []Placed
<1>1. Init => Placed
  BY DEF Init, Placed
<1>2. TypeOK /\ Placed /\ [Next]_attempt => Placed'
  <2> SUFFICES ASSUME TypeOK, Placed, [Next]_attempt PROVE Placed'
    OBVIOUS
  <2>1. ASSUME NEW t \in Time, Start(t) PROVE Placed'
    <3>1. attempt'.responses = <<>> /\ attempt'.presented = SelectNext(<<>>, t)
      BY <2>1, StartOutcome
    <3>2. <<>> \in Seq(Response) /\ t \in Nat /\ DOMAIN <<>> = {}
      BY TimingAssumption
    <3>3. attempt'.presented.item # NoItem => attempt'.presented.section \in DOMAIN Sections
      <4>1. <<>> \in Seq(Response) /\ t \in Nat
        BY <3>2
      <4>2. SelectNext(<<>>, t).item # NoItem => SelectNext(<<>>, t).section \in DOMAIN Sections
        BY <4>1, SelectNextFacts
      <4>3. QED
        BY <3>1, <4>2
    <3>4. \A k \in DOMAIN attempt'.responses : attempt'.responses[k].section \in DOMAIN Sections
      BY <3>1, <3>2
    <3>5. QED
      BY <3>3, <3>4 DEF Placed
  <2>2. ASSUME NEW t \in Time, NEW item \in Items, NEW ans \in Answers, NEW correct \in BOOLEAN,
               Answer(item, ans, correct, t)
        PROVE  Placed'
    <3>1. Appended(item, ans, correct, t) /\ attempt # Absent
      BY <2>2, AnswerOutcome DEF Answer
    <3>2. attempt'.responses \in Seq(Response) /\ t \in Nat
      BY <3>1, TimingAssumption DEF Sessions, Appended
    <3>3. attempt'.presented.item # NoItem => attempt'.presented.section \in DOMAIN Sections
      BY <3>1, <3>2, SelectNextFacts DEF Appended
    <3>4. attempt.presented.section \in DOMAIN Sections
      BY <3>1, PlanAssumption DEF Placed, Appended
    <3>5. QED
      BY <3>1, <3>3, <3>4 DEF Placed, Appended
  <2>3. ASSUME NEW t \in Time, Complete(t) \/ Abandon(t) PROVE Placed'
    <3>1. attempt'.responses = attempt.responses /\ attempt'.presented = Nothing /\ attempt # Absent
      BY <2>3, FinishOutcome DEF Complete, Abandon
    <3>2. QED
      BY <3>1 DEF Placed, Nothing
  <2>4. CASE UNCHANGED attempt
    BY <2>4 DEF Placed
  <2>5. QED
    BY <2>1, <2>2, <2>3, <2>4 DEF Next
<1>3. QED
  BY <1>1, <1>2, TypeCorrect, PTL DEF Spec

(* The next item is never an easier one for having answered right: not by  *)
(* the target, nor its clamping, nor the ties, in any section of any plan. *)
THEOREM StaircaseIsMonotone == Spec => []RightNeverEasier
<1>1. TypeOK /\ Placed => RightNeverEasier
  <2> DEFINE rs == attempt.responses
             n == Len(rs)
             s == rs[n].section
             as(ok) == [rs EXCEPT ![n].correct = ok]
             band(ok) == BandAt(s, PickInSection(s, as(ok)))
  <2> SUFFICES ASSUME TypeOK, Placed, Adaptive, attempt # Absent, rs # <<>>, Undelivered(s, rs) # {}
               PROVE  band(TRUE) >= band(FALSE)
    BY DEF RightNeverEasier
  <2>1. rs \in Seq(Response) /\ n \in Nat /\ DOMAIN rs = 1..n /\ n \in DOMAIN rs
    BY DEF TypeOK, Sessions
  <2>2. s \in DOMAIN Sections
    BY <2>1 DEF Placed
  <2>3. \A ok \in BOOLEAN : /\ as(ok) \in Seq(Response) /\ DOMAIN as(ok) = DOMAIN rs
                            /\ \A k \in DOMAIN rs : /\ as(ok)[k].item = rs[k].item
                                                    /\ as(ok)[k].section = rs[k].section
                                                    /\ as(ok)[k].correct = IF k = n THEN ok ELSE rs[k].correct
    <3> SUFFICES ASSUME NEW ok \in BOOLEAN
                 PROVE  /\ as(ok) \in Seq(Response) /\ DOMAIN as(ok) = DOMAIN rs
                        /\ \A k \in DOMAIN rs : /\ as(ok)[k].item = rs[k].item
                                                /\ as(ok)[k].section = rs[k].section
                                                /\ as(ok)[k].correct = IF k = n THEN ok ELSE rs[k].correct
      OBVIOUS
    <3>1. \A k \in DOMAIN rs : rs[k] \in Response
      BY <2>1
    <3>2. DOMAIN as(ok) = 1..n
      BY <2>1
    <3>3. \A k \in 1..n : as(ok)[k] = IF k = n THEN [rs[n] EXCEPT !.correct = ok] ELSE rs[k]
      BY <2>1
    <3>4. [rs[n] EXCEPT !.correct = ok] \in Response
      BY <2>1, <3>1 DEF Response
    <3>5. as(ok) \in Seq(Response)
      <4>1. as(ok) \in [1..n -> Response]
        BY <2>1, <3>1, <3>2, <3>3, <3>4
      <4>2. QED
        BY <2>1, <4>1
    <3>6. /\ [rs[n] EXCEPT !.correct = ok].item = rs[n].item
          /\ [rs[n] EXCEPT !.correct = ok].section = rs[n].section
          /\ [rs[n] EXCEPT !.correct = ok].correct = ok
      BY <2>1, <3>1 DEF Response
    <3> HIDE DEF as
    <3>7. QED
      BY <2>1, <3>2, <3>3, <3>5, <3>6
  <2> HIDE DEF as
  <2> DEFINE right == as(TRUE)
             wrong == as(FALSE)
  <2>4. /\ right \in Seq(Response) /\ wrong \in Seq(Response) /\ DOMAIN right = DOMAIN wrong
        /\ \A k \in DOMAIN right : /\ right[k].section = wrong[k].section
                                   /\ right[k].correct \in BOOLEAN /\ wrong[k].correct \in BOOLEAN
                                   /\ wrong[k].correct => right[k].correct
    <3>1. \A k \in DOMAIN rs : rs[k] \in Response
      BY <2>1
    <3>2. \A k \in DOMAIN rs : rs[k].correct \in BOOLEAN
      BY <3>1 DEF Response
    <3>3. QED
      BY <2>3, <3>2
  <2>5. Target(s, wrong) <= Target(s, right)
    BY <2>2, <2>4, TargetIsMonotone
  <2>6. Undelivered(s, right) = Undelivered(s, rs) /\ Undelivered(s, wrong) = Undelivered(s, rs)
    <3>1. /\ DOMAIN right = DOMAIN rs /\ \A k \in DOMAIN rs : right[k].item = rs[k].item
          /\ DOMAIN wrong = DOMAIN rs /\ \A k \in DOMAIN rs : wrong[k].item = rs[k].item
      BY <2>3
    <3> HIDE DEF right, wrong
    <3>2. Delivered(right) = Delivered(rs) /\ Delivered(wrong) = Delivered(rs)
      BY <3>1 DEF Delivered
    <3>3. QED
      BY <3>2 DEF Undelivered
  <2>7. /\ PickInSection(s, right) \in Undelivered(s, rs)
        /\ PickInSection(s, wrong) \in Undelivered(s, rs)
    BY <2>2, <2>4, <2>6, PickIsUndelivered
  <2> DEFINE r == PickInSection(s, right)
             w == PickInSection(s, wrong)
             low == Target(s, wrong)
             high == Target(s, right)
  <2>8. low \in Int /\ high \in Int
    BY <2>2, <2>4, NetFacts
  <2>9. /\ BandAt(s, r) \in Nat /\ BandAt(s, w) \in Nat
        /\ Distance(BandAt(s, r), high) <= Gap(s, w, right)
    BY <2>2, <2>4, <2>6, <2>7, PickTracksTarget
  <2>10. /\ Distance(BandAt(s, w), low) <= Gap(s, r, wrong)
         /\ Distance(BandAt(s, w), low) = Gap(s, r, wrong) => BandAt(s, w) <= BandAt(s, r)
    BY <2>2, <2>4, <2>6, <2>7, PickTracksTarget
  <2>11. /\ Gap(s, w, right) = Distance(BandAt(s, w), high)
         /\ Gap(s, r, wrong) = Distance(BandAt(s, r), low)
    BY DEF Gap
  <2> HIDE DEF right, wrong, r, w, low, high
  <2>12. BandAt(s, r) >= BandAt(s, w)
    BY <2>5, <2>8, <2>9, <2>10, <2>11 DEF Distance, low, high
  <2>13. QED
    BY <2>12 DEF r, w, right, wrong
<1>2. QED
  BY <1>1, TypeCorrect, PlacedAlways, PTL
=============================================================================

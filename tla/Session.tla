------------------------------- MODULE Session -------------------------------
(***************************************************************************)
(* The session aggregate of domain/session: one taker's attempt at a       *)
(* composed test, and the pure transitions the executor applies to it.     *)
(* Nothing here has state of its own: an operator takes a session value    *)
(* and a clock reading and returns the next session value, exactly as a    *)
(* Go method mutates the rehydrated aggregate before it is saved.          *)
(*                                                                         *)
(* An operator named ...Bug is a plausible slip in the one it precedes;    *)
(* nothing uses it here. PROJECT.json puts it in that operator's place to  *)
(* show which property notices.                                            *)
(*                                                                         *)
(* Abstracted: item content, families, titles and the advisory per-item    *)
(* caps; the difficulty copied into a response is Band[item].              *)
(***************************************************************************)
EXTENDS Integers, Sequences, FiniteSetsExt

CONSTANTS
    Items,      \* item ids a plan may name
    Answers,    \* what a taker may answer, and what an item's key may be
    NonFinite,  \* those whose number is NaN or infinite; no item's key is
    NoItem,     \* the empty item id of a zero Presented
    Sections,   \* the plan: a sequence of sections, each a sequence of items
    Band,       \* Band[i] is the difficulty band copied from the composed test
    Adaptive,   \* TRUE for the adaptive policy, FALSE for fixed-increasing
    Budget,     \* Timing.Total of the session; 0 is untimed
    Time        \* the instants a clock may read; 0 is the zero time.Time

(* The plan a Start hands over passed validateSpec: at least one section,  *)
(* no empty section, bands of at least 1 and no item twice in the plan.    *)
ASSUME PlanAssumption ==
    /\ Sections \in Seq(Seq(Items)) /\ Sections # <<>>
    /\ \A s \in DOMAIN Sections : Sections[s] # <<>>
    /\ \A s, t \in DOMAIN Sections : \A i \in DOMAIN Sections[s], j \in DOMAIN Sections[t] :
          Sections[s][i] = Sections[t][j] => s = t /\ i = j
    /\ Band \in [Items -> Nat \ {0}]
    /\ NoItem \notin Items

ASSUME NumberAssumption == NonFinite \subseteq Answers

ASSUME TimingAssumption ==
    /\ Budget \in Nat
    /\ Adaptive \in BOOLEAN
    /\ Time \subseteq Nat \ {0}

-----------------------------------------------------------------------------
(* Values *)

Presented == [item : Items \cup {NoItem}, section : Nat, at : Nat]

Response == [item : Items, section : Nat, ans : Answers, elapsed : Nat, correct : BOOLEAN]

SessionState == {"created", "in-progress", "completed", "abandoned"}

Sessions == [state     : SessionState,
             startedAt : Nat,
             endedAt   : Nat,
             presented : Presented,
             responses : Seq(Response),
             version   : Nat]

Nothing == [item |-> NoItem, section |-> 0, at |-> 0]

NewSession == [state |-> "created", startedAt |-> 0, endedAt |-> 0,
               presented |-> Nothing, responses |-> <<>>, version |-> 0]

Ended(sess) == sess.state \in {"completed", "abandoned"}

-----------------------------------------------------------------------------
(* Delivery: the next item, a function of the plan and the responses only. *)

Delivered(rs) == {rs[k].item : k \in DOMAIN rs}

(* Only the item just answered counts as delivered. *)
UndeliveredBug(s, rs) ==
    {i \in DOMAIN Sections[s] : rs = <<>> \/ Sections[s][i] # rs[Len(rs)].item}

Undelivered(s, rs) == {i \in DOMAIN Sections[s] : Sections[s][i] \notin Delivered(rs)}

BandAt(s, i) == Band[Sections[s][i]]

Bands(s) == {BandAt(s, i) : i \in DOMAIN Sections[s]}

Clamp(v, lo, hi) == IF v < lo THEN lo ELSE IF v > hi THEN hi ELSE v

Distance(a, b) == IF a < b THEN b - a ELSE a - b

InSection(s, right, rs) == {k \in DOMAIN rs : rs[k].section = s /\ rs[k].correct = right}

(* The staircase steps the wrong way. *)
SectionNetBug(s, rs) ==
    Cardinality(InSection(s, FALSE, rs)) - Cardinality(InSection(s, TRUE, rs))

SectionNet(s, rs) == Cardinality(InSection(s, TRUE, rs)) - Cardinality(InSection(s, FALSE, rs))

(* The up/down staircase starts at the section's easiest band. *)
Target(s, rs) == Clamp(Min(Bands(s)) + SectionNet(s, rs), Min(Bands(s)), Max(Bands(s)))

(* The undelivered items closest to the target. *)
Gap(s, i, rs) == Distance(BandAt(s, i), Target(s, rs))

Closest(s, rs) ==
    {i \in Undelivered(s, rs) : Gap(s, i, rs) = Min({Gap(s, j, rs) : j \in Undelivered(s, rs)})}

(* Ties go to the lower band, then to the earlier authored position. *)
Lowest(s, rs) ==
    {i \in Closest(s, rs) : BandAt(s, i) = Min({BandAt(s, j) : j \in Closest(s, rs)})}

PickAdaptive(s, rs) == Min(Lowest(s, rs))

PickInSection(s, rs) == IF Adaptive THEN PickAdaptive(s, rs) ELSE Min(Undelivered(s, rs))

OpenSections(rs) == {s \in DOMAIN Sections : Undelivered(s, rs) # {}}

SelectNext(rs, now) ==
    IF OpenSections(rs) = {}
    THEN Nothing
    ELSE LET s == Min(OpenSections(rs))
         IN  [item |-> Sections[s][PickInSection(s, rs)], section |-> s, at |-> now]

-----------------------------------------------------------------------------
(* Timing *)

GlobalDeadline(sess) == IF Budget = 0 \/ sess.startedAt = 0 THEN 0 ELSE sess.startedAt + Budget

(* The budget runs from the item in front of the taker, not from Begin. *)
PastDeadlineBug(sess, now) ==
    GlobalDeadline(sess) # 0 /\ now > sess.presented.at + Budget

(* now.After(gd): the deadline instant itself is still in time. *)
PastDeadline(sess, now) == GlobalDeadline(sess) # 0 /\ now > GlobalDeadline(sess)

-----------------------------------------------------------------------------
(* Transitions: Can... is the method's guard, the other its effect. *)

CanBegin(sess) == sess.state = "created"

Begin(sess, now) ==
    [sess EXCEPT !.state = "in-progress", !.startedAt = now,
                 !.presented = SelectNext(sess.responses, now)]

(* No guard against a clock that ran backwards. *)
CanRecordBug(sess, item, ans, now) ==
    /\ sess.state = "in-progress"
    /\ sess.presented.item # NoItem /\ item = sess.presented.item
    /\ ans \notin NonFinite

CanRecord(sess, item, ans, now) ==
    /\ sess.state = "in-progress"
    /\ sess.presented.item # NoItem
    /\ item = sess.presented.item
    /\ now >= sess.presented.at
    /\ ans \notin NonFinite

Recorded(sess, ans, correct, now) ==
    Append(sess.responses,
           [item |-> sess.presented.item, section |-> sess.presented.section, ans |-> ans,
            elapsed |-> now - sess.presented.at, correct |-> correct])

Record(sess, ans, correct, now) ==
    LET rs == Recorded(sess, ans, correct, now)
    IN  [sess EXCEPT !.responses = rs, !.presented = SelectNext(rs, now)]

(* An ended attempt can be ended again. *)
CanFinishBug(sess, now) == sess.state # "created" /\ now >= sess.startedAt

CanFinish(sess, now) == sess.state = "in-progress" /\ now >= sess.startedAt

Finish(sess, to, now) ==
    [sess EXCEPT !.state = to, !.endedAt = now, !.presented = Nothing]
=============================================================================

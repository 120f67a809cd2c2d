---------------------------- MODULE SessionProofs ----------------------------
(***************************************************************************)
(* Lemmas about the pure transitions of Session, for every plan.           *)
(***************************************************************************)
EXTENDS Session, FiniteSetTheorems, WellFoundedInduction, TLAPS

(* A nonempty set of naturals has a least element, and Min returns it.     *)
LEMMA MinIsLeast ==
    ASSUME NEW S \in SUBSET Nat, S # {}
    PROVE  Min(S) \in S /\ \A n \in S : Min(S) <= n
<1>1. PICK x \in S : \A y \in S : <<y, x>> \notin OpToRel(<, Nat)
  BY NatLessThanWellFounded, WFMin, Zenon
<1>2. \A y \in S : ~(y < x)
  BY <1>1, Zenon DEF OpToRel
<1>3. \A y \in S : x <= y
  BY <1>2
<1>4. QED
  BY <1>3 DEF Min

(* A nonempty finite set of naturals has a greatest element.               *)
LEMMA MaxIsGreatest ==
    ASSUME NEW S \in SUBSET Nat, S # {}, IsFiniteSet(S)
    PROVE  Max(S) \in S /\ \A n \in S : n <= Max(S)
<1> DEFINE Above(v) == {w \in S : v < w}
           T == {Above(v) : v \in S}
<1>1. IsWellFoundedOn(StrictSubsetOrdering(S), SUBSET S)
  BY FS_StrictSubsetOrderingWellFounded, FS_FiniteSubsetsOfFinite
<1>2. T \subseteq SUBSET S /\ T # {}
  OBVIOUS
<1>3. PICK U \in T : \A V \in T : <<V, U>> \notin StrictSubsetOrdering(S)
  BY <1>1, <1>2, WFMin, Zenon
<1>4. PICK x \in S : U = Above(x)
  BY <1>3
<1>5. \A y \in S : ~(x < y)
  <2> SUFFICES ASSUME NEW y \in S, x < y PROVE FALSE
    OBVIOUS
  <2> S \subseteq Nat /\ x \in Nat /\ y \in Nat
    OBVIOUS
  <2>1. \A z \in S : y < z => x < z
    OBVIOUS
  <2>2. ~(y < y)
    OBVIOUS
  <2>3. y \in Above(x) /\ y \notin Above(y)
    BY <2>2
  <2>4. Above(y) \subseteq Above(x)
    BY <2>1
  <2>5. <<Above(y), Above(x)>> \in StrictSubsetOrdering(S)
    BY <2>3, <2>4 DEF StrictSubsetOrdering
  <2>6. QED
    BY <1>3, <1>4, <2>5
<1>6. \A y \in S : y <= x
  BY <1>5
<1>7. QED
  BY <1>6 DEF Max

-----------------------------------------------------------------------------
(* The plan *)

LEMMA SectionFacts ==
    ASSUME NEW s \in DOMAIN Sections
    PROVE  /\ Sections[s] \in Seq(Items)
           /\ DOMAIN Sections[s] = 1..Len(Sections[s])
           /\ 1 \in DOMAIN Sections[s]
           /\ s \in Nat
           /\ \A i \in DOMAIN Sections[s] : Sections[s][i] \in Items /\ BandAt(s, i) \in Nat
<1>1. Sections[s] \in Seq(Items) /\ s \in Nat
  BY PlanAssumption
<1>2. DOMAIN Sections[s] = 1..Len(Sections[s]) /\ Len(Sections[s]) \in Nat
  BY <1>1
<1>3. Sections[s] # <<>>
  BY PlanAssumption
<1>4. 1 \in DOMAIN Sections[s]
  BY <1>1, <1>2, <1>3
<1>5. \A i \in DOMAIN Sections[s] : Sections[s][i] \in Items
  BY <1>1
<1>6. \A i \in DOMAIN Sections[s] : BandAt(s, i) \in Nat
  BY <1>5, PlanAssumption DEF BandAt
<1>7. QED
  BY <1>1, <1>2, <1>4, <1>5, <1>6

LEMMA BandsFacts ==
    ASSUME NEW s \in DOMAIN Sections
    PROVE  Min(Bands(s)) \in Nat /\ Max(Bands(s)) \in Nat /\ Min(Bands(s)) <= Max(Bands(s))
<1>1. Bands(s) \in SUBSET Nat /\ Bands(s) # {}
  BY SectionFacts DEF Bands
<1>2. IsFiniteSet(DOMAIN Sections[s])
  BY SectionFacts, FS_Interval
<1>3. DEFINE f == [i \in DOMAIN Sections[s] |-> BandAt(s, i)]
<1>4. f \in Surjection(DOMAIN Sections[s], Bands(s))
  BY DEF Surjection, Bands
<1>5. IsFiniteSet(Bands(s))
  BY <1>2, <1>4, FS_Surjection
<1>6. QED
  BY <1>1, <1>5, MinIsLeast, MaxIsGreatest

LEMMA NetFacts ==
    ASSUME NEW s \in DOMAIN Sections, NEW rs \in Seq(Response)
    PROVE  SectionNet(s, rs) \in Int /\ Target(s, rs) \in Int
<1>1. IsFiniteSet(DOMAIN rs)
  BY FS_Interval
<1>2. IsFiniteSet(InSection(s, TRUE, rs)) /\ IsFiniteSet(InSection(s, FALSE, rs))
  BY <1>1, FS_Subset DEF InSection
<1>3. Cardinality(InSection(s, TRUE, rs)) \in Nat /\ Cardinality(InSection(s, FALSE, rs)) \in Nat
  BY <1>2, FS_CardinalityType
<1>4. SectionNet(s, rs) \in Int
  <2> DEFINE right == Cardinality(InSection(s, TRUE, rs))
             wrong == Cardinality(InSection(s, FALSE, rs))
  <2>1. SectionNet(s, rs) = right - wrong
    BY Zenon DEF SectionNet
  <2> HIDE DEF right, wrong
  <2>2. right \in Nat /\ wrong \in Nat
    BY <1>3 DEF right, wrong
  <2>3. QED
    BY <2>1, <2>2
<1>5. QED
  BY <1>4, BandsFacts DEF Target, Clamp

-----------------------------------------------------------------------------
(* Delivery *)

(* Either policy picks an item of the section that was not delivered yet.  *)
LEMMA PickIsUndelivered ==
    ASSUME NEW s \in DOMAIN Sections, NEW rs \in Seq(Response), Undelivered(s, rs) # {}
    PROVE  PickInSection(s, rs) \in Undelivered(s, rs)
<1> DEFINE open == Undelivered(s, rs)
           gaps == {Gap(s, j, rs) : j \in open}
           bands == {BandAt(s, j) : j \in Closest(s, rs)}
<1>1. open \in SUBSET Nat /\ open # {} /\ open \subseteq DOMAIN Sections[s]
  BY SectionFacts DEF Undelivered
<1>2. \A i \in open : BandAt(s, i) \in Nat
  BY <1>1, SectionFacts
<1>3. \A i \in open : Gap(s, i, rs) \in Nat
  BY <1>2, NetFacts DEF Gap, Distance
<1>4. gaps \in SUBSET Nat /\ gaps # {}
  BY <1>1, <1>3
<1>5. Min(gaps) \in gaps
  BY <1>4, MinIsLeast
<1>6. Closest(s, rs) # {} /\ Closest(s, rs) \subseteq open
  BY <1>5 DEF Closest
<1>7. bands \in SUBSET Nat /\ bands # {}
  BY <1>2, <1>6
<1>8. Min(bands) \in bands
  BY <1>7, MinIsLeast
<1>9. Lowest(s, rs) # {} /\ Lowest(s, rs) \in SUBSET Nat /\ Lowest(s, rs) \subseteq open
  BY <1>1, <1>6, <1>8 DEF Lowest
<1>10. Min(Lowest(s, rs)) \in open /\ Min(open) \in open
  BY <1>1, <1>9, MinIsLeast
<1>11. QED
  BY <1>10 DEF PickInSection, PickAdaptive

(* The staircase picks the undelivered item closest to its target, and the *)
(* lower band of two that are equally close.                               *)
LEMMA PickTracksTarget ==
    ASSUME Adaptive, NEW s \in DOMAIN Sections, NEW rs \in Seq(Response), NEW j \in Undelivered(s, rs)
    PROVE  LET picked == BandAt(s, PickInSection(s, rs))
           IN  /\ picked \in Nat /\ BandAt(s, j) \in Nat
               /\ Distance(picked, Target(s, rs)) <= Gap(s, j, rs)
               /\ Distance(picked, Target(s, rs)) = Gap(s, j, rs) => picked <= BandAt(s, j)
<1> DEFINE open == Undelivered(s, rs)
           gaps == {Gap(s, i, rs) : i \in open}
           bands == {BandAt(s, i) : i \in Closest(s, rs)}
           p == PickInSection(s, rs)
<1>1. open \in SUBSET Nat /\ open \subseteq DOMAIN Sections[s]
  BY SectionFacts DEF Undelivered
<1>2. \A i \in open : BandAt(s, i) \in Nat /\ Gap(s, i, rs) \in Nat
  BY <1>1, SectionFacts, NetFacts DEF Gap, Distance
<1>3. gaps \in SUBSET Nat /\ gaps # {}
  BY <1>2
<1>4. Min(gaps) \in gaps /\ \A i \in open : Min(gaps) <= Gap(s, i, rs)
  BY <1>3, MinIsLeast
<1>5. Closest(s, rs) = {i \in open : Gap(s, i, rs) = Min(gaps)}
  BY DEF Closest
<1>6. bands \in SUBSET Nat /\ bands # {}
  BY <1>2, <1>4, <1>5
<1>7. Min(bands) \in bands /\ \A i \in Closest(s, rs) : Min(bands) <= BandAt(s, i)
  <2>1. Min(bands) \in bands /\ \A b \in bands : Min(bands) <= b
    <3> HIDE DEF bands
    <3>1. QED
      BY <1>6, MinIsLeast
  <2>2. \A i \in Closest(s, rs) : BandAt(s, i) \in bands
    OBVIOUS
  <2>3. QED
    BY <2>1, <2>2
<1>8. Lowest(s, rs) = {i \in Closest(s, rs) : BandAt(s, i) = Min(bands)}
  BY DEF Lowest
<1>9. Lowest(s, rs) \in SUBSET Nat /\ Lowest(s, rs) # {}
  BY <1>1, <1>5, <1>7, <1>8
<1>10. p \in Lowest(s, rs)
  BY <1>9, MinIsLeast DEF PickInSection, PickAdaptive
<1> HIDE DEF gaps, bands, p
<1>11. /\ p \in open /\ Gap(s, p, rs) = Min(gaps) /\ BandAt(s, p) = Min(bands)
  BY <1>5, <1>8, <1>10
<1>12. Gap(s, p, rs) = Distance(BandAt(s, p), Target(s, rs))
  BY DEF Gap
<1>13. Gap(s, j, rs) = Gap(s, p, rs) => j \in Closest(s, rs)
  BY <1>5, <1>11
<1>14. QED
  BY <1>2, <1>4, <1>7, <1>11, <1>12, <1>13 DEF p

(* Had the last answer been right instead of wrong, the target of the      *)
(* staircase would not have been lower.                                    *)
LEMMA TargetIsMonotone ==
    ASSUME NEW s \in DOMAIN Sections, NEW right \in Seq(Response), NEW wrong \in Seq(Response),
           DOMAIN right = DOMAIN wrong,
           \A k \in DOMAIN right : /\ right[k].section = wrong[k].section
                                   /\ right[k].correct \in BOOLEAN /\ wrong[k].correct \in BOOLEAN
                                   /\ wrong[k].correct => right[k].correct
    PROVE  Target(s, wrong) <= Target(s, right)
<1> DEFINE tt == InSection(s, TRUE, right)
           tf == InSection(s, FALSE, right)
           ft == InSection(s, TRUE, wrong)
           ff == InSection(s, FALSE, wrong)
<1>1. ft \subseteq tt /\ tf \subseteq ff
  BY DEF InSection
<1>2. IsFiniteSet(DOMAIN right) /\ IsFiniteSet(DOMAIN wrong)
  BY FS_Interval
<1>3. IsFiniteSet(tt) /\ IsFiniteSet(ff)
  BY <1>2, FS_Subset DEF InSection
<1>4. /\ IsFiniteSet(ft) /\ Cardinality(ft) <= Cardinality(tt)
      /\ IsFiniteSet(tf) /\ Cardinality(tf) <= Cardinality(ff)
  BY <1>1, <1>3, FS_Subset
<1>5. /\ Cardinality(tt) \in Nat /\ Cardinality(tf) \in Nat
      /\ Cardinality(ft) \in Nat /\ Cardinality(ff) \in Nat
  BY <1>3, <1>4, FS_CardinalityType
<1>6. SectionNet(s, wrong) <= SectionNet(s, right)
  <2> DEFINE a == Cardinality(tt)
             b == Cardinality(tf)
             c == Cardinality(ft)
             d == Cardinality(ff)
  <2>1. SectionNet(s, right) = a - b /\ SectionNet(s, wrong) = c - d
    BY Zenon DEF SectionNet
  <2> HIDE DEF a, b, c, d
  <2>2. a \in Nat /\ b \in Nat /\ c \in Nat /\ d \in Nat /\ c <= a /\ b <= d
    BY <1>4, <1>5, Zenon DEF a, b, c, d
  <2>3. QED
    BY <2>1, <2>2
<1>7. SectionNet(s, wrong) \in Int /\ SectionNet(s, right) \in Int
  BY NetFacts
<1>8. Min(Bands(s)) \in Nat /\ Max(Bands(s)) \in Nat /\ Min(Bands(s)) <= Max(Bands(s))
  BY BandsFacts
<1>9. QED
  BY <1>6, <1>7, <1>8 DEF Target, Clamp

(* What is presented is well typed, and never an item already answered.    *)
LEMMA SelectNextFacts ==
    ASSUME NEW rs \in Seq(Response), NEW now \in Nat
    PROVE  /\ SelectNext(rs, now) \in Presented
           /\ SelectNext(rs, now).item \notin Delivered(rs)
           /\ SelectNext(rs, now).at \in {0, now}
           /\ SelectNext(rs, now).item # NoItem => SelectNext(rs, now).at = now
           /\ SelectNext(rs, now).item # NoItem => SelectNext(rs, now).section \in DOMAIN Sections
           /\ SelectNext(rs, now).item = NoItem <=> OpenSections(rs) = {}
<1>1. CASE OpenSections(rs) = {}
  <2>1. SelectNext(rs, now) = Nothing
    BY <1>1 DEF SelectNext
  <2>2. NoItem \notin Delivered(rs)
    <3>1. \A k \in DOMAIN rs : rs[k] \in Response
      OBVIOUS
    <3>2. \A k \in DOMAIN rs : rs[k].item \in Items
      BY <3>1 DEF Response
    <3>3. QED
      BY <3>2, PlanAssumption DEF Delivered
  <2>3. QED
    BY <1>1, <2>1, <2>2 DEF Nothing, Presented
<1>2. CASE OpenSections(rs) # {}
  <2> DEFINE s == Min(OpenSections(rs))
             i == PickInSection(s, rs)
  <2>1. OpenSections(rs) \in SUBSET Nat
    BY SectionFacts DEF OpenSections
  <2>2. s \in OpenSections(rs)
    BY <1>2, <2>1, MinIsLeast
  <2>3. s \in DOMAIN Sections /\ s \in Nat /\ Undelivered(s, rs) # {}
    BY <2>1, <2>2 DEF OpenSections
  <2>4. i \in Undelivered(s, rs)
    BY <2>3, PickIsUndelivered
  <2>5. Sections[s][i] \in Items /\ Sections[s][i] \notin Delivered(rs)
    BY <2>3, <2>4, SectionFacts DEF Undelivered
  <2>6. SelectNext(rs, now) = [item |-> Sections[s][i], section |-> s, at |-> now]
    BY <1>2 DEF SelectNext
  <2>7. QED
    BY <1>2, <2>3, <2>5, <2>6, PlanAssumption DEF Presented
<1>3. QED
  BY <1>1, <1>2

-----------------------------------------------------------------------------
(* Transitions *)

LEMMA NewSessionType == NewSession \in Sessions
<1>1. <<>> \in Seq(Response)
  OBVIOUS
<1>2. QED
  BY <1>1 DEF NewSession, Sessions, SessionState, Nothing, Presented

LEMMA BeginType ==
    ASSUME NEW now \in Nat
    PROVE  Begin(NewSession, now) \in Sessions
<1>1. <<>> \in Seq(Response)
  OBVIOUS
<1>2. SelectNext(<<>>, now) \in Presented
  BY <1>1, SelectNextFacts
<1>3. QED
  BY <1>2, NewSessionType DEF Begin, NewSession, Sessions, SessionState

(* Record appends one well-typed response for the presented item.          *)
LEMMA RecordedFacts ==
    ASSUME NEW sess \in Sessions, NEW ans \in Answers, NEW correct \in BOOLEAN, NEW now \in Nat,
           NEW item, CanRecord(sess, item, ans, now)
    PROVE  LET rs == Recorded(sess, ans, correct, now)
           IN  /\ rs \in Seq(Response)
               /\ Len(rs) = Len(sess.responses) + 1
               /\ \A k \in DOMAIN sess.responses : rs[k] = sess.responses[k]
               /\ rs[Len(rs)].item = sess.presented.item
               /\ rs[Len(rs)].section = sess.presented.section
               /\ rs[Len(rs)].ans = ans
               /\ rs[Len(rs)].elapsed = now - sess.presented.at
               /\ rs[Len(rs)].correct = correct
               /\ Delivered(rs) = Delivered(sess.responses) \cup {sess.presented.item}
<1> DEFINE r == [item |-> sess.presented.item, section |-> sess.presented.section, ans |-> ans,
                 elapsed |-> now - sess.presented.at, correct |-> correct]
           rs == Recorded(sess, ans, correct, now)
<1>1. sess.presented \in Presented /\ sess.responses \in Seq(Response)
  BY DEF Sessions
<1>2. r \in Response
  BY <1>1 DEF CanRecord, Presented, Response
<1>3. rs = Append(sess.responses, r)
  BY DEF Recorded
<1>4. /\ rs \in Seq(Response)
      /\ Len(rs) = Len(sess.responses) + 1
      /\ \A k \in DOMAIN sess.responses : rs[k] = sess.responses[k]
      /\ rs[Len(rs)] = r
  BY <1>1, <1>2, <1>3
<1>5. DOMAIN rs = DOMAIN sess.responses \cup {Len(rs)}
  <2>1. DOMAIN rs = 1..Len(rs) /\ DOMAIN sess.responses = 1..Len(sess.responses)
    BY <1>1, <1>4
  <2>2. Len(sess.responses) \in Nat
    BY <1>1
  <2>3. QED
    BY <2>1, <2>2, <1>4
<1>6. Delivered(rs) = Delivered(sess.responses) \cup {sess.presented.item}
  BY <1>4, <1>5 DEF Delivered
<1>7. QED
  BY <1>4, <1>6

LEMMA RecordType ==
    ASSUME NEW sess \in Sessions, NEW ans \in Answers, NEW correct \in BOOLEAN, NEW now \in Nat,
           NEW item, CanRecord(sess, item, ans, now)
    PROVE  Record(sess, ans, correct, now) \in Sessions
<1>1. Recorded(sess, ans, correct, now) \in Seq(Response)
  BY RecordedFacts
<1>2. SelectNext(Recorded(sess, ans, correct, now), now) \in Presented
  BY <1>1, SelectNextFacts
<1>3. QED
  BY <1>1, <1>2 DEF Record, Sessions

LEMMA FinishType ==
    ASSUME NEW sess \in Sessions, NEW to \in {"completed", "abandoned"}, NEW now \in Nat
    PROVE  Finish(sess, to, now) \in Sessions
<1>1. Nothing \in Presented
  BY DEF Nothing, Presented
<1>2. QED
  BY <1>1 DEF Finish, Sessions, SessionState
=============================================================================

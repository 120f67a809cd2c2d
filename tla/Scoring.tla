------------------------------- MODULE Scoring -------------------------------
(***************************************************************************)
(* app/scoring and domain/scoring over an attempt: the score comes from    *)
(* the grades frozen while the taker answered, the feedback from the bank  *)
(* as it is afterwards, read one item after the other while an operator    *)
(* may replace and delete items at any time.                               *)
(*                                                                         *)
(* An estimate is a fraction <<numerator, denominator>>, exact where the   *)
(* code's float64 rounds. The normal distribution behind a percentile is   *)
(* left out.                                                               *)
(*                                                                         *)
(* An operator named ...Bug is a plausible slip in the one it precedes,    *)
(* used only to show which property notices.                               *)
(***************************************************************************)
EXTENDS Attempt, Lists, TLC

CONSTANTS
    Norm,       \* what the norm book holds for the test: a mean and an sd
    Contents,   \* item -> what the bank may hold for it, the first at start
    EditsBound  \* bound: how often an operator touches the bank

AnswerFields == [option : STRING, numeric : Int, verdict : STRING]

Content == [format : {"multiple-choice", "open-numeric", "true-false-cannotsay"},
            key : AnswerFields, tolerance : Nat]

VARIABLES
    bank,       \* item -> its format, key and tolerance, while it is held
    stale,      \* items touched after they were answered (a history)
    edits,      \* how often the bank was touched
    report      \* the request for a score, and how far it has come

scoringVars == <<attempt, bank, stale, edits, report>>

-----------------------------------------------------------------------------
(* What is graded, and what is shown, is the field the format names.       *)

Field(content, ans) ==
    CASE content.format = "multiple-choice"      -> ans.option
      [] content.format = "open-numeric"         -> ToString(ans.numeric)
      [] content.format = "true-false-cannotsay" -> ans.verdict

(* The bank holds what NewItem let through, with a key in the field of its *)
(* format; an answer says one thing per field; and strconv writes a number *)
(* as no other number is written.                                          *)
ASSUME ContentAssumption ==
    /\ \A ans \in Answers : ans \in AnswerFields
    /\ DOMAIN Contents = Items
    /\ \A i \in Items : 1 \in DOMAIN Contents[i] /\ \A k \in DOMAIN Contents[i] :
          /\ Contents[i][k] \in Content
          /\ Field(Contents[i][k], Contents[i][k].key) # ""
          /\ \A ans \in Answers :
                ToString(ans.numeric) = ToString(Contents[i][k].key.numeric)
                    => ans.numeric = Contents[i][k].key.numeric
    /\ EditsBound \in Nat

(* A norm is in whole numbers; only one with a positive spread is used.    *)
ASSUME NormAssumption == Norm.mean \in Int /\ Norm.sd \in Int

Grade(content, ans) ==
    IF content.format = "open-numeric"
    THEN Distance(ans.numeric, content.key.numeric) <= content.tolerance
    ELSE Field(content, ans) = Field(content, content.key)

(* Of an item that is gone, whichever field is filled.                     *)
AnyField(ans) ==
    IF ans.option # "" THEN ans.option ELSE IF ans.verdict # "" THEN ans.verdict ELSE ToString(ans.numeric)

(* The format of the item is forgotten. *)
GivenAnswerBug(item, ans) == AnyField(ans)

GivenAnswer(item, ans) == IF item \in DOMAIN bank THEN Field(bank[item], ans) ELSE AnyField(ans)

-----------------------------------------------------------------------------
(* The numbers of a score.                                                 *)

(* Graded again, by the key of today. *)
CountCorrectBug(rs) ==
    Cardinality({k \in DOMAIN rs : rs[k].item \in DOMAIN bank /\ Grade(bank[rs[k].item], rs[k].ans)})

CountCorrect(rs) == Cardinality({k \in DOMAIN rs : rs[k].correct})

InOneSection(rs, s) == Picked(rs, {k \in DOMAIN rs : rs[k].section = s})

(* The sections something was answered in, as they came.                   *)
SectionsOf(rs) ==
    LET firsts == {k \in DOMAIN rs : \A l \in 1..(k - 1) : rs[l].section # rs[k].section}
    IN  [n \in 1..Cardinality(firsts) |-> Picked(rs, firsts)[n].section]

BandsOf(rs) == {Band[rs[k].item] : k \in DOMAIN rs}

(* Changes of direction, in the order of delivery.                         *)
Reversals(rs) == {k \in DOMAIN rs \ {1} : rs[k].correct # rs[k - 1].correct}

AbilityFromStaircase(rs) ==
    LET turns == Picked(rs, Reversals(rs))
    IN  IF Reversals(rs) # {}
        THEN <<Total([n \in 1..Len(turns) |-> Band[turns[n].item]]), Len(turns)>>
        ELSE IF rs[1].correct THEN <<Max(BandsOf(rs)), 1>> ELSE <<Min(BandsOf(rs)), 1>>

(* The sections weigh the same, whatever was answered in them. *)
AbilityOfBug(rs) ==
    LET order == SectionsOf(rs)
        weighted == FractionTotal([n \in 1..Len(order) |-> AbilityFromStaircase(InOneSection(rs, order[n]))])
    IN  <<weighted[1], weighted[2] * Len(order)>>

(* The estimates of the sections, each weighing what was answered in it.   *)
AbilityOf(rs) ==
    LET order    == SectionsOf(rs)
        count(n) == Len(InOneSection(rs, order[n]))
        est(n)   == AbilityFromStaircase(InOneSection(rs, order[n]))
        weighted == FractionTotal([n \in 1..Len(order) |-> <<est(n)[1] * count(n), est(n)[2]>>])
    IN  <<weighted[1], weighted[2] * Total([n \in 1..Len(order) |-> count(n)])>>

(* 100 + 15z to the nearest integer, within the range of the scale.        *)
ScaledIQ(x) ==
    LET unit == x[2] * Norm.sd
        iq   == 100 * unit + 15 * (x[1] - Norm.mean * x[2])
    IN  Clamp((2 * iq + unit) \div (2 * unit), 40, 160)

Classify(iq) ==
    CASE iq >= 130 -> "very-superior" [] iq \in 120..129 -> "superior" [] iq \in 110..119 -> "high-average"
      [] iq \in 90..109 -> "average"  [] iq \in 80..89 -> "low-average" [] iq \in 70..79 -> "borderline"
      [] iq < 70 -> "extremely-low"

Normed == Norm.sd > 0

Speed(rs) ==
    LET total == Total([k \in 1..Len(rs) |-> rs[k].elapsed])
    IN  [total |-> total, mean |-> total \div Len(rs),
         perMinute |-> IF total > 0 THEN <<CountCorrect(rs), total>> ELSE <<0, 1>>]

Score(rs) ==
    LET ability == IF Adaptive THEN AbilityOf(rs) ELSE <<0, 1>>
        normed  == IF Adaptive THEN ability ELSE <<CountCorrect(rs), 1>>
        iq      == IF Normed THEN ScaledIQ(normed) ELSE 0
    IN  [raw |-> CountCorrect(rs), max |-> Len(rs), ability |-> ability, iq |-> iq,
         band |-> IF Normed THEN Classify(iq) ELSE "unnormed", speed |-> Speed(rs)]

-----------------------------------------------------------------------------
NoReport == [phase |-> "none", score |-> <<>>, lines |-> <<>>, degraded |-> 0]

ScoringInit ==
    /\ Init
    /\ bank = [i \in Items |-> Contents[i][1]]
    /\ stale = {} /\ edits = 0
    /\ report = NoReport

(* The attempt goes on, graded by the bank of the moment.                  *)
Take ==
    /\ \E t \in Time :
          \/ Start(t)
          \/ \E i \in DOMAIN bank, ans \in Answers : Answer(i, ans, Grade(bank[i], ans), t)
          \/ Complete(t)
          \/ Abandon(t)
    /\ UNCHANGED <<bank, stale, edits, report>>

(* An operator deletes an item, or an ingest replaces it.                  *)
EditBank(i) ==
    /\ edits < EditsBound
    /\ edits' = edits + 1
    /\ stale' = IF attempt # Absent /\ i \in Delivered(attempt.responses) THEN stale \cup {i} ELSE stale
    /\ \/ bank' = [j \in DOMAIN bank \ {i} |-> bank[j]] /\ i \in DOMAIN bank
       \/ \E k \in DOMAIN Contents[i] :
            bank' = [j \in DOMAIN bank \cup {i} |-> IF j = i THEN Contents[i][k] ELSE bank[j]]
    /\ UNCHANGED <<attempt, report>>

(* GET .../score: the attempt is read, and scored if there is anything.    *)
AskScore ==
    /\ attempt # Absent /\ report.phase # "reading"
    /\ report' = IF attempt.state = "completed" /\ attempt.responses # <<>>
                 THEN [NoReport EXCEPT !.phase = "reading", !.score = <<Score(attempt.responses)>>]
                 ELSE [report EXCEPT !.phase = "refused"]
    /\ UNCHANGED <<attempt, bank, stale, edits>>

(* The feedback on the next response, from the bank as it is now.          *)
ReadItem ==
    LET k    == Len(report.lines) + 1
        r    == attempt.responses[k]
        held == r.item \in DOMAIN bank
        line == [item |-> r.item, correct |-> r.correct, given |-> GivenAnswer(r.item, r.ans),
                 answer |-> IF held THEN Field(bank[r.item], bank[r.item].key) ELSE ""]
    IN  /\ report.phase = "reading" /\ k <= Len(attempt.responses)
        /\ report' = [report EXCEPT !.lines = Append(@, line), !.degraded = IF held THEN @ ELSE @ + 1]
        /\ UNCHANGED <<attempt, bank, stale, edits>>

(* The bank does not answer: there is no score either.                     *)
ReadFails ==
    /\ report.phase = "reading"
    /\ report' = [report EXCEPT !.phase = "refused"]
    /\ UNCHANGED <<attempt, bank, stale, edits>>

Reply ==
    /\ report.phase = "reading" /\ Len(report.lines) = Len(attempt.responses)
    /\ report' = [report EXCEPT !.phase = "done"]
    /\ UNCHANGED <<attempt, bank, stale, edits>>

ScoringNext ==
    \/ Take
    \/ \E i \in Items : EditBank(i)
    \/ AskScore \/ ReadItem \/ ReadFails \/ Reply

ScoringSpec == ScoringInit /\ [][ScoringNext]_scoringVars
-----------------------------------------------------------------------------
(* Properties.                                                             *)

(* Asked again after any change to the bank, an attempt has the same score *)
(* ("reproducible and immune to later bank drift/deletion", service.go).   *)
ScoreIsFrozen ==
    [][report.score # <<>> /\ report'.score # <<>> => report'.score = report.score]_scoringVars

(* A report adds up while the bank changes under it: as many lines as were *)
(* scored, as many of them right as the raw score says, one counted as     *)
(* degraded for each item gone; and unless an item was touched after it    *)
(* was answered, its line shows the answer that was given and the one that *)
(* was right: the same exactly when it was graded right, a tolerance aside.*)
FeedbackIsHonest ==
    LET lines  == report.lines
        honest(k) ==
            /\ lines[k].item \in DOMAIN bank
            /\ lines[k].given = lines[k].answer => lines[k].correct
            /\ lines[k].correct => \/ lines[k].given = lines[k].answer
                                   \/ bank[lines[k].item].tolerance > 0
    IN  /\ \A k \in DOMAIN lines : lines[k].item \notin stale => honest(k)
        /\ report.phase = "done" =>
              /\ report.score[1].max = Len(lines)
              /\ report.score[1].raw = Cardinality({k \in DOMAIN lines : lines[k].correct})
              /\ report.degraded = Cardinality({k \in DOMAIN lines : lines[k].answer = ""})

(* Reversals, monotone runs, single answers and sections of any length:    *)
(* the estimate lies between the easiest and the hardest band delivered;   *)
(* when everything was right it is the mean, over the responses, of the    *)
(* hardest band in the section of each.                                    *)
AbilityWithinDelivered ==
    Adaptive /\ report.score # <<>> =>
        LET score == report.score[1]
            rs    == attempt.responses
            x     == score.ability
            bands == BandsOf(rs)
            best  == [k \in 1..Len(rs) |-> Max(BandsOf(InOneSection(rs, rs[k].section)))]
        IN  /\ Min(bands) * x[2] <= x[1] /\ x[1] <= Max(bands) * x[2]
            /\ Normed => score.iq \in ScaledIQ(<<Min(bands), 1>>)..ScaledIQ(<<Max(bands), 1>>)
            /\ score.raw = score.max => x[1] * Len(rs) = x[2] * Total(best)
=============================================================================

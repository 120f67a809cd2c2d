------------------------------- MODULE Attempt -------------------------------
(***************************************************************************)
(* What app/execution and the session store promise together about one     *)
(* attempt: however many requests race, its persisted row moves as if each *)
(* successful request were one atomic transition of domain/session applied *)
(* to the row as it then stood. No handler, lock or version check appears  *)
(* here; Execution shows the interleaved code implements this.             *)
(***************************************************************************)
EXTENDS Session

CONSTANT Absent     \* no row in the session repository

VARIABLE attempt    \* the persisted row

ASSUME AbsentAssumption == Absent \notin Sessions

(* The row a successful save leaves: one version past the one it follows.  *)
Saved(sess) == [sess EXCEPT !.version = sess.version + 1]

Init == attempt = Absent

(* Execution.Start: the row appears in progress, presenting the first item. *)
Start(t) ==
    /\ attempt = Absent
    /\ attempt' = Saved(Begin(NewSession, t))

(* Execution.Answer within the budget, whatever the grading said. *)
Answer(item, ans, correct, t) ==
    /\ attempt # Absent
    /\ ~PastDeadline(attempt, t)
    /\ CanRecord(attempt, item, ans, t)
    /\ attempt' = Saved(Record(attempt, ans, correct, t))

(* Execution.Complete within the budget. *)
Complete(t) ==
    /\ attempt # Absent
    /\ ~PastDeadline(attempt, t)
    /\ CanFinish(attempt, t)
    /\ attempt' = Saved(Finish(attempt, "completed", t))

(* Answer or Complete past the budget: the attempt is abandoned instead. *)
Abandon(t) ==
    /\ attempt # Absent
    /\ PastDeadline(attempt, t)
    /\ CanFinish(attempt, t)
    /\ attempt' = Saved(Finish(attempt, "abandoned", t))

Next ==
    \E t \in Time :
        \/ Start(t)
        \/ \E item \in Items, ans \in Answers, correct \in BOOLEAN : Answer(item, ans, correct, t)
        \/ Complete(t)
        \/ Abandon(t)

Spec == Init /\ [][Next]_attempt

-----------------------------------------------------------------------------
(* A persisted row is a session that has begun and been saved at least     *)
(* once; only its typing is asserted here.                                 *)
TypeOK == attempt \in Sessions \cup {Absent}

(* A taker never answers the same item twice, and the item in front of     *)
(* them is one they have not answered (validatePlanSection's uniqueness    *)
(* carried through Record and selectNext).                                 *)
NoItemTwice ==
    attempt # Absent =>
        /\ \A k, l \in DOMAIN attempt.responses :
              attempt.responses[k].item = attempt.responses[l].item => k = l
        /\ attempt.presented.item \notin Delivered(attempt.responses)

(* A timed attempt never holds an item delivered after the global budget   *)
(* ran out, and one that ends late ends abandoned, never completed         *)
(* (service.go: "a timed-out attempt cannot be closed as if it finished in *)
(* time").                                                                 *)
WithinBudget ==
    attempt # Absent /\ Budget # 0 =>
        /\ attempt.presented.at <= attempt.startedAt + Budget
        /\ attempt.state = "completed" => attempt.endedAt <= attempt.startedAt + Budget
        /\ attempt.state = "abandoned" => attempt.endedAt > attempt.startedAt + Budget

(* The staircase is monotone: had the last answer been right instead of    *)
(* wrong, the next item of that section would not have been an easier one  *)
(* (pickAdaptive's target, its clamping and both tie-breaks together).     *)
RightNeverEasier ==
    Adaptive /\ attempt # Absent /\ attempt.responses # <<>> =>
        LET rs       == attempt.responses
            s        == rs[Len(rs)].section
            band(ok) == BandAt(s, PickInSection(s, [rs EXCEPT ![Len(rs)].correct = ok]))
        IN  Undelivered(s, rs) # {} => band(TRUE) >= band(FALSE)

(* The recorded response times add up: there is a line of clock readings,  *)
(* the start, one for each answer, the last of them the instant the item   *)
(* in front of the taker was presented, that never goes back and is as far *)
(* from one to the next as the recorded Elapsed. A clock that steps back   *)
(* between two requests must not lose, invent or count time twice.         *)
TimeAccounted ==
    attempt # Absent =>
        LET rs == attempt.responses
        IN  \E at \in [1..Len(rs) + 1 -> Time] :
                /\ at[1] = attempt.startedAt
                /\ \A k \in DOMAIN rs :
                      at[k] <= at[k + 1] /\ rs[k].elapsed = at[k + 1] - at[k]
                /\ attempt.presented.item # NoItem => attempt.presented.at = at[Len(rs) + 1]

(* Answers already captured are never rewritten, dropped or reordered, at  *)
(* most one is added per saved version, and an ended attempt is frozen:    *)
(* "a completed attempt can neither be clobbered nor resurrected"          *)
(* (ports/repositories.go).                                                *)
NeverRewritten ==
    [][ attempt # Absent =>
          /\ ~Ended(attempt)
          /\ attempt'.version = attempt.version + 1
          /\ attempt'.startedAt = attempt.startedAt
          /\ Len(attempt'.responses) \in {Len(attempt.responses), Len(attempt.responses) + 1}
          /\ \A k \in DOMAIN attempt.responses : attempt'.responses[k] = attempt.responses[k]
      ]_attempt
=============================================================================

----------------------------- MODULE TakePlayer -----------------------------
(***************************************************************************)
(* The player page (web/src/player, pages/Take.tsx) taking one attempt     *)
(* over HTTP. The server's side is the atomic attempt, which Execution is  *)
(* shown to implement; the client's side is the useTakeSession hook, the   *)
(* working answer of InTestView and the countdown of the item shown.       *)
(*                                                                         *)
(* One browser tab: a reload or another tab opens an attempt of its own    *)
(* (no session is ever resumed). The countdown of the whole test only      *)
(* displays, so it has no state here.                                      *)
(*                                                                         *)
(* An operator named ...Bug is a plausible slip in the one it precedes,    *)
(* used only to show which property notices.                               *)
(***************************************************************************)
EXTENDS Attempt

CONSTANTS
    Blank,      \* the answer of emptyAnswer: nothing selected
    PerItem,    \* TRUE if items have a deadline of their own
    Attended,   \* TRUE if there is a taker selecting and submitting
    MaxFaults   \* bound on requests that go wrong

ASSUME PlayerAssumption ==
    /\ Blank \in Answers
    /\ NonFinite = {}   \* JSON has no such number
    /\ PerItem \in BOOLEAN /\ Attended \in BOOLEAN
    /\ MaxFaults \in Nat

VARIABLES
    clock,      \* the server's wall clock
    phase,      \* "preview", "in-test" or "complete"
    shown,      \* the session of the delivery on screen
    work,       \* the working answer of the page
    fired,      \* the countdown of the item on screen has fired
    req,        \* the request the page awaits; inFlight unless "none"
    stray,      \* requests given up on that the server may yet serve
    faults,     \* requests that went wrong so far
    chosen      \* observer: what the taker selected, and for which item

screen == <<phase, shown, work, fired>>
takeVars == <<attempt, clock, screen, req, stray, faults, chosen>>

Selection == [item : Items \cup {NoItem}, ans : Answers]

NoWork == [item |-> NoItem, ans |-> Blank]

(* What travels: an answer carries a selection, a complete none. *)
Message == [kind : {"answer", "complete"}, body : Selection]

(* row is the session a reply carries; next is the delivery that a pending *)
(* complete will put on screen.                                            *)
Request == [status : {"none", "sent", "done", "refused"}, msg : Message,
            row : Sessions \cup {Absent}, next : Sessions \cup {Absent}]

Quiet == [status |-> "none", msg |-> [kind |-> "complete", body |-> NoWork],
          row |-> Absent, next |-> Absent]

TakeInit ==
    /\ Init
    /\ clock \in Time
    /\ phase = "preview" /\ shown = Absent /\ work = NoWork /\ fired = FALSE
    /\ req = Quiet /\ stray = {} /\ faults = 0
    /\ chosen = {}

-----------------------------------------------------------------------------
(* Page *)

(* The working answer is reset when the item changes: emptyAnswer(item.ID). *)
Fresh(sess) == [item |-> sess.presented.item, ans |-> Blank]

(* Start and its reply. A start that goes wrong leaves an attempt nobody   *)
(* holds the token of, and the page at its preview.                        *)
StartTest ==
    /\ phase = "preview"
    /\ Start(clock)
    /\ phase' = "in-test" /\ shown' = attempt' /\ work' = Fresh(attempt') /\ fired' = FALSE
    /\ UNCHANGED <<clock, req, stray, faults, chosen>>

Choose(ans) ==
    /\ Attended /\ phase = "in-test"
    /\ ans \notin {Blank, work.ans}
    /\ work' = [item |-> shown.presented.item, ans |-> ans]
    /\ chosen' = chosen \cup {work'}
    /\ UNCHANGED <<attempt, clock, phase, shown, fired, req, stray, faults>>

(* The item id is taken from the delivery on screen, not from the answer.  *)
SentBug(selection, sess) ==
    [Quiet EXCEPT !.status = "sent",
                  !.msg = [kind |-> "answer", body |-> [selection EXCEPT !.item = sess.presented.item]]]

(* submit, past its lock: the answer names its item itself. *)
Sent(selection, sess) ==
    [Quiet EXCEPT !.status = "sent", !.msg = [kind |-> "answer", body |-> selection]]

(* Button or Enter. *)
Submit ==
    /\ Attended /\ phase = "in-test" /\ req.status = "none"
    /\ req' = Sent(work, shown)
    /\ UNCHANGED <<attempt, clock, screen, stray, faults, chosen>>

(* The countdown of the item fires, once per deadline. The lock swallows   *)
(* the submission if another is in flight.                                 *)
Expire ==
    /\ PerItem /\ phase = "in-test" /\ ~fired
    /\ fired' = TRUE
    /\ req' = IF req.status = "none" THEN Sent(work, shown) ELSE req
    /\ UNCHANGED <<attempt, clock, phase, shown, work, stray, faults, chosen>>

(* Every delivery goes straight on screen, the one without an item too.    *)
MovesOnBug(sess) == TRUE

(* A reply that presents no item ends the test instead. *)
MovesOn(sess) == sess.presented.item # NoItem

Answered == req.status = "done" /\ req.msg.kind = "answer"

(* The next item goes on screen. Its deadline may have passed already: the *)
(* countdown's effect then runs before the reset of the working answer is  *)
(* rendered, and submits the answer of the item before.                    *)
ShowNext ==
    /\ Answered /\ MovesOn(req.row)
    /\ shown' = req.row
    /\ work' = Fresh(req.row)
    /\ \/ fired' = FALSE /\ req' = Quiet
       \/ PerItem /\ fired' = TRUE /\ req' = Sent(work, req.row)
    /\ UNCHANGED <<attempt, clock, phase, stray, faults, chosen>>

(* Nothing presented: complete the attempt. *)
AskComplete ==
    /\ Answered /\ ~MovesOn(req.row)
    /\ req' = [Quiet EXCEPT !.status = "sent", !.next = req.row]
    /\ UNCHANGED <<attempt, clock, screen, stray, faults, chosen>>

Completed ==
    /\ req.status = "done" /\ req.msg.kind = "complete"
    /\ phase' = "complete" /\ shown' = req.next
    /\ req' = Quiet
    /\ UNCHANGED <<attempt, clock, work, fired, stray, faults, chosen>>

(* An answer the server refuses is taken for the end of the test. *)
RefusedBug ==
    /\ req.status = "refused"
    /\ req' = IF req.msg.kind = "answer" THEN [Quiet EXCEPT !.status = "sent", !.next = shown] ELSE Quiet
    /\ UNCHANGED <<attempt, clock, screen, stray, faults, chosen>>

(* Any error, 409 or other, is shown and the item stays on screen. *)
Refused ==
    /\ req.status = "refused"
    /\ req' = Quiet
    /\ UNCHANGED <<attempt, clock, screen, stray, faults, chosen>>

-----------------------------------------------------------------------------
(* Server and network *)

(* Any answer to an item already answered gets the current delivery.       *)
ServesBug(msg) ==
    \/ msg.kind = "answer" /\ \E correct \in BOOLEAN :
          Answer(msg.body.item, msg.body.ans, correct, clock)
    \/ msg.kind = "complete" /\ Complete(clock)
    \/ Abandon(clock)
    \/ msg.kind = "answer" /\ msg.body.item \in Delivered(attempt.responses) /\ UNCHANGED attempt

(* handleAnswer and handleComplete; past the budget both abandon. The      *)
(* grade is the bank's affair: a blank number travels as 0, which may be   *)
(* the key.                                                                *)
Serves(msg) ==
    \/ msg.kind = "answer" /\ \E correct \in BOOLEAN :
          Answer(msg.body.item, msg.body.ans, correct, clock)
    \/ msg.kind = "complete" /\ Complete(clock)
    \/ Abandon(clock)

(* What Answer and Complete would accept of the row as it stands.          *)
Acceptable(msg) ==
    IF PastDeadline(attempt, clock) \/ msg.kind = "complete"
    THEN CanFinish(attempt, clock)
    ELSE CanRecord(attempt, msg.body.item, msg.body.ans, clock)

Accept ==
    /\ req.status = "sent"
    /\ Serves(req.msg)
    /\ req' = [req EXCEPT !.status = "done", !.row = attempt']
    /\ UNCHANGED <<clock, screen, stray, faults, chosen>>

Refuse ==
    /\ req.status = "sent"
    /\ ~Acceptable(req.msg)
    /\ req' = [req EXCEPT !.status = "refused"]
    /\ UNCHANGED <<attempt, clock, screen, stray, faults, chosen>>

(* The request fails on the server, or is lost, or its reply is, or it is  *)
(* held up past the page's patience and may still be served later.         *)
Fault ==
    /\ faults < MaxFaults /\ req.status \in {"sent", "done"}
    /\ faults' = faults + 1
    /\ req' = [req EXCEPT !.status = "refused"]
    /\ \/ UNCHANGED stray
       \/ req.status = "sent" /\ stray' = stray \cup {req.msg}
    /\ UNCHANGED <<attempt, clock, screen, chosen>>

(* Late, and nobody reads the reply. *)
ServeStray ==
    /\ \E msg \in stray : Serves(msg) /\ stray' = stray \ {msg}
    /\ UNCHANGED <<clock, screen, req, faults, chosen>>

Advance ==
    /\ \E t \in Time : t > clock /\ clock' = t
    /\ UNCHANGED <<attempt, screen, req, stray, faults, chosen>>

Page == ShowNext \/ AskComplete \/ Completed \/ Refused

TakeNext ==
    \/ StartTest \/ Submit \/ Expire \/ Page
    \/ \E ans \in Answers : Choose(ans)
    \/ Accept \/ Refuse \/ Fault \/ ServeStray \/ Advance

TakeSpec == TakeInit /\ [][TakeNext]_takeVars

(* The server answers, the page runs its callbacks and timers, and a taker *)
(* who is there keeps submitting.                                          *)
FairSpec ==
    /\ TakeSpec
    /\ WF_takeVars(Accept \/ Refuse) /\ WF_takeVars(Page)
    /\ WF_takeVars(Submit) /\ WF_takeVars(Expire)

-----------------------------------------------------------------------------
(* Values and shapes; a test in progress has an item on screen (without    *)
(* one Take.tsx falls back to the preview).                                *)
TakeTypeOK ==
    /\ TypeOK
    /\ clock \in Time
    /\ phase \in {"preview", "in-test", "complete"}
    /\ shown \in Sessions \cup {Absent}
    /\ work \in Selection
    /\ fired \in BOOLEAN
    /\ req \in Request
    /\ stray \subseteq Message
    /\ faults \in 0..MaxFaults
    /\ chosen \subseteq Selection
    /\ phase = "in-test" => shown # Absent /\ shown.presented.item # NoItem

(* No item is ever graded on an answer the taker selected for another: a   *)
(* recorded answer is blank or was selected while that item was on screen, *)
(* however late, stale or repeated the submissions are.                    *)
GradedAsChosen ==
    attempt # Absent =>
        \A k \in DOMAIN attempt.responses :
            LET r == attempt.responses[k]
            IN  r.ans = Blank \/ [item |-> r.item, ans |-> r.ans] \in chosen

(* The page never ends a test early: a completed attempt has answered the  *)
(* whole plan. Scoring relies on it ("the executor's normal flow answers   *)
(* every planned item", app/scoring/service.go).                           *)
CompletedIsExhausted ==
    attempt # Absent /\ attempt.state = "completed" => OpenSections(attempt.responses) = {}

(* An answer the server acknowledged is the one on record for its item,    *)
(* never a retry shadowed by the request it repeats; unless the budget ran *)
(* out and nothing is recorded.                                            *)
AckMeansRecorded ==
    Answered /\ req.row.state = "in-progress" =>
        \E k \in DOMAIN attempt.responses :
            attempt.responses[k].item = req.msg.body.item /\ attempt.responses[k].ans = req.msg.body.ans

(* "advance item-by-item until the plan is exhausted and the attempt       *)
(* completes" (useTakeSession.ts).                                         *)
TakerFinishes == phase = "in-test" ~> phase = "complete"

InTime == attempt # Absent => ~PastDeadline(attempt, clock)

(* What holds of it: a taker who keeps submitting gets to the end of the   *)
(* test, stale auto-submits included, unless a request went wrong or the   *)
(* budget ran out on the way.                                              *)
UndisturbedTakerFinishes ==
    phase = "in-test" ~> phase = "complete" \/ faults > 0 \/ ~InTime
=============================================================================

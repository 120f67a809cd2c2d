--------------------------- MODULE DeliveryProofs ----------------------------
(***************************************************************************)
(* What the two users of an attempt guarantee for every plan and budget:   *)
(* the player page, for every policy, set of answers and number of faults, *)
(* and the score and its feedback, for every bank and sequence of edits.   *)
(*                                                                         *)
(* TakeInv, inductive for the page, follows a selection from the screen    *)
(* through requests given up on to the record, and an empty delivery from  *)
(* the server to the request that ends the test. Under a score, an item    *)
(* that was not touched since it was answered is still the one it was      *)
(* graded by; that is what makes a line of feedback true, read however     *)
(* late.                                                                   *)
(***************************************************************************)
EXTENDS TakePlayer, Scoring, AttemptProofs, ListProofs

-----------------------------------------------------------------------------
(* The player page *)

(* An attempt in progress shows an item for as long as there is one.       *)
ShowsWhatIsLeft ==
    attempt # Absent /\ attempt.state = "in-progress" /\ attempt.presented.item = NoItem =>
        OpenSections(attempt.responses) = {}

(* What is answered was selected, or is blank. *)
Honest(selection) == selection.ans = Blank \/ selection \in chosen

SelectionsAreHonest ==
    /\ Honest(work) /\ Honest(req.msg.body)
    /\ \A msg \in stray : Honest(msg.body)

(* There is nothing left to answer, or no attempt to answer it in.         *)
Over ==
    attempt # Absent /\ (attempt.state = "abandoned" \/ OpenSections(attempt.responses) = {})

(* A completion is asked for when everything is answered. *)
CompletionsAreDue ==
    /\ req.status # "none" /\ req.msg.kind = "complete" => Over
    /\ \A msg \in stray : msg.kind = "complete" => Over

OnRecord(selection) ==
    \E k \in DOMAIN attempt.responses :
        attempt.responses[k].item = selection.item /\ attempt.responses[k].ans = selection.ans

(* A reply in hand is a row the attempt has had, and still speaks true.    *)
RepliesHold ==
    /\ req.status = "done" => attempt # Absent /\ req.row \in Sessions
    /\ Answered /\ req.row.presented.item = NoItem => Over
    /\ Answered /\ req.row.state = "in-progress" => OnRecord(req.msg.body)

TakeInv ==
    /\ TakeTypeOK
    /\ phase = "in-test" => attempt # Absent
    /\ ShowsWhatIsLeft
    /\ SelectionsAreHonest
    /\ CompletionsAreDue
    /\ RepliesHold
    /\ GradedAsChosen
    /\ CompletedIsExhausted

-----------------------------------------------------------------------------
(* The server *)

(* Answering never opens a section again. *)
LEMMA OpenShrinks ==
    ASSUME NEW old, NEW new, Delivered(old) \subseteq Delivered(new), OpenSections(old) = {}
    PROVE  OpenSections(new) = {}
BY DEF OpenSections, Undelivered

(* What serving a request does to the attempt, whenever it is served.      *)
ServedRight(msg) ==
    /\ TypeOK' /\ attempt' # Absent
    /\ ShowsWhatIsLeft' /\ GradedAsChosen' /\ CompletedIsExhausted'
    /\ Over => Over'
    /\ \A selection \in Selection : OnRecord(selection) => OnRecord(selection)'
    /\ attempt'.presented.item = NoItem => Over'
    /\ msg.kind = "answer" /\ attempt'.state = "in-progress" => OnRecord(msg.body)'

LEMMA AnswerServedRight ==
    ASSUME TypeOK, clock \in Time, GradedAsChosen, CompletedIsExhausted, UNCHANGED chosen,
           NEW msg \in Message, Honest(msg.body), NEW correct \in BOOLEAN,
           Answer(msg.body.item, msg.body.ans, correct, clock)
    PROVE  ServedRight(msg)
<1> DEFINE old == attempt.responses
           new == attempt'.responses
<1>1. msg.body \in Selection /\ msg.body.ans \in Answers
  BY DEF Message, Selection
<1>2. /\ attempt' \in Sessions /\ attempt'.state = "in-progress" /\ attempt.state = "in-progress"
      /\ Len(new) = Len(old) + 1
      /\ \A k \in DOMAIN old : k \in DOMAIN new /\ new[k] = old[k]
      /\ \A k \in DOMAIN new : k \in DOMAIN old \/ k = Len(new)
      /\ new[Len(new)].item = msg.body.item /\ new[Len(new)].ans = msg.body.ans
      /\ Delivered(new) = Delivered(old) \cup {msg.body.item}
      /\ attempt'.presented = SelectNext(new, clock)
  <2>1. Appended(msg.body.item, msg.body.ans, correct, clock)
    BY <1>1, AnswerOutcome
  <2>2. QED
    BY <2>1 DEF Appended
<1>3. attempt # Absent /\ attempt' # Absent /\ TypeOK'
  BY <1>2, AbsentAssumption DEF TypeOK, Answer
<1>4. new \in Seq(Response) /\ clock \in Nat /\ old \in Seq(Response)
  BY <1>2, <1>3, TimingAssumption DEF Sessions, TypeOK
<1>5. attempt'.presented.item = NoItem <=> OpenSections(new) = {}
  BY <1>2, <1>4, SelectNextFacts
<1>6. OpenSections(old) = {} => OpenSections(new) = {}
  BY <1>2, OpenShrinks
<1>7. ShowsWhatIsLeft' /\ CompletedIsExhausted'
  BY <1>2, <1>5 DEF ShowsWhatIsLeft, CompletedIsExhausted
<1>8. (attempt'.presented.item = NoItem => Over') /\ (Over => Over')
  BY <1>2, <1>3, <1>5, <1>6 DEF Over
<1>9. GradedAsChosen'
  <2> SUFFICES ASSUME NEW k \in DOMAIN new
               PROVE  new[k].ans = Blank \/ [item |-> new[k].item, ans |-> new[k].ans] \in chosen
    BY DEF GradedAsChosen
  <2>1. CASE k \in DOMAIN old
    BY <1>2, <1>3, <2>1 DEF GradedAsChosen
  <2>2. CASE k = Len(new)
    <3>1. msg.body = [item |-> msg.body.item, ans |-> msg.body.ans]
      BY <1>1 DEF Selection
    <3>2. QED
      BY <1>2, <2>2, <3>1 DEF Honest
  <2>3. QED
    BY <1>2, <2>1, <2>2
<1>10. \A selection \in Selection : OnRecord(selection) => OnRecord(selection)'
  BY <1>2 DEF OnRecord
<1>11. OnRecord(msg.body)'
  <2>1. Len(new) \in DOMAIN new
    BY <1>2, <1>4
  <2>2. QED
    BY <1>2, <2>1 DEF OnRecord
<1>12. QED
  BY <1>3, <1>7, <1>8, <1>9, <1>10, <1>11 DEF ServedRight

LEMMA FinishServedRight ==
    ASSUME TypeOK, clock \in Time, GradedAsChosen, UNCHANGED chosen, NEW msg \in Message,
           Abandon(clock) \/ (Complete(clock) /\ msg.kind = "complete" /\ Over)
    PROVE  ServedRight(msg)
<1>1. /\ attempt' \in Sessions
      /\ attempt.state = "in-progress"
      /\ attempt'.state = IF Complete(clock) THEN "completed" ELSE "abandoned"
      /\ attempt'.responses = attempt.responses
      /\ attempt'.presented = Nothing
  BY FinishOutcome
<1>2. attempt # Absent /\ attempt' # Absent /\ TypeOK'
  BY <1>1, AbsentAssumption DEF TypeOK, Complete, Abandon
<1>3. Complete(clock) => ~Abandon(clock)
  BY DEF Complete, Abandon
<1>4. Complete(clock) => OpenSections(attempt.responses) = {}
  BY <1>1, <1>3 DEF Over
<1>5. Over'
  BY <1>1, <1>2, <1>4 DEF Over
<1>6. ShowsWhatIsLeft' /\ GradedAsChosen' /\ CompletedIsExhausted'
  BY <1>1, <1>2, <1>4 DEF ShowsWhatIsLeft, GradedAsChosen, CompletedIsExhausted
<1>7. \A selection \in Selection : OnRecord(selection) => OnRecord(selection)'
  BY <1>1 DEF OnRecord
<1>8. QED
  BY <1>1, <1>2, <1>5, <1>6, <1>7 DEF ServedRight

LEMMA ServesRight ==
    ASSUME TakeInv, UNCHANGED chosen, NEW msg \in Message, Honest(msg.body),
           msg.kind = "complete" => Over, Serves(msg)
    PROVE  ServedRight(msg)
<1>1. TypeOK /\ clock \in Time /\ GradedAsChosen /\ CompletedIsExhausted
  BY DEF TakeInv, TakeTypeOK
<1>2. ASSUME NEW correct \in BOOLEAN,
             Answer(msg.body.item, msg.body.ans, correct, clock)
      PROVE  ServedRight(msg)
  BY <1>1, <1>2, AnswerServedRight
<1>3. CASE Abandon(clock) \/ (Complete(clock) /\ msg.kind = "complete")
  BY <1>1, <1>3, FinishServedRight
<1>4. QED
  BY <1>2, <1>3 DEF Serves

-----------------------------------------------------------------------------
(* The requests of the page *)

LEMMA QuietFacts ==
    /\ Quiet \in Request /\ Quiet.status = "none"
    /\ Quiet.msg.body = NoWork /\ NoWork.ans = Blank /\ NoWork \in Selection
<1>1. NoWork \in Selection
  BY PlayerAssumption DEF NoWork, Selection
<1>2. QED
  BY <1>1 DEF Quiet, NoWork, Request, Message

LEMMA SentFacts ==
    ASSUME NEW selection \in Selection, NEW sess
    PROVE  /\ Sent(selection, sess) \in Request /\ Sent(selection, sess).status = "sent"
           /\ Sent(selection, sess).msg = [kind |-> "answer", body |-> selection]
BY QuietFacts DEF Sent, Quiet, Request, Message

LEMMA FreshFacts ==
    ASSUME NEW sess \in Sessions
    PROVE  Fresh(sess) \in Selection /\ Fresh(sess).ans = Blank
BY PlayerAssumption DEF Fresh, Selection, Sessions, Presented

(* With the attempt and what was selected untouched, only the page can     *)
(* break the invariant.                                                    *)
LEMMA AttemptUntouched ==
    ASSUME TakeInv, UNCHANGED attempt, chosen \subseteq chosen'
    PROVE  /\ TypeOK' /\ ShowsWhatIsLeft' /\ GradedAsChosen' /\ CompletedIsExhausted'
           /\ Over' = Over
           /\ \A selection : OnRecord(selection)' <=> OnRecord(selection)
           /\ \A selection : Honest(selection) => Honest(selection)'
BY DEF TakeInv, TakeTypeOK, TypeOK, ShowsWhatIsLeft, GradedAsChosen, CompletedIsExhausted, Over, OnRecord, Honest

-----------------------------------------------------------------------------
(* One step per action *)

LEMMA StartTestStep == TakeInv /\ StartTest => TakeInv'
<1> SUFFICES ASSUME TakeInv, StartTest PROVE TakeInv'
  OBVIOUS
<1> DEFINE sess == Begin(NewSession, clock)
<1>1. clock \in Time /\ clock \in Nat /\ attempt = Absent
  BY TimingAssumption DEF TakeInv, TakeTypeOK, StartTest, Start
<1>2. sess \in Sessions /\ attempt' = Saved(sess)
  BY <1>1, BeginType DEF StartTest, Start
<1>3. /\ sess.responses = <<>> /\ sess.state = "in-progress"
      /\ sess.presented = SelectNext(<<>>, clock)
  BY DEF Begin, NewSession
<1>4. /\ attempt' \in Sessions /\ attempt' # Absent
      /\ attempt'.responses = <<>> /\ attempt'.state = "in-progress"
      /\ attempt'.presented = SelectNext(<<>>, clock)
  BY <1>2, <1>3, SavedType, AbsentAssumption
<1>5. attempt'.presented.item # NoItem
  <2>1. 1 \in DOMAIN Sections /\ 1 \in DOMAIN Sections[1]
    BY PlanAssumption, SectionFacts
  <2>2. 1 \in Undelivered(1, <<>>)
    BY <2>1 DEF Undelivered, Delivered
  <2>3. OpenSections(<<>>) # {} /\ <<>> \in Seq(Response)
    BY <2>1, <2>2 DEF OpenSections
  <2>4. QED
    BY <1>1, <1>4, <2>3, SelectNextFacts
<1>6. /\ phase' = "in-test" /\ shown' = attempt' /\ work' = Fresh(attempt') /\ fired' = FALSE
      /\ UNCHANGED <<clock, req, stray, faults, chosen>>
  BY DEF StartTest
<1>7. TakeTypeOK'
  BY <1>4, <1>5, <1>6, FreshFacts DEF TakeInv, TakeTypeOK, TypeOK
<1>8. ShowsWhatIsLeft' /\ GradedAsChosen' /\ CompletedIsExhausted'
  BY <1>4, <1>5 DEF ShowsWhatIsLeft, GradedAsChosen, CompletedIsExhausted
<1>9. SelectionsAreHonest'
  BY <1>4, <1>6, FreshFacts DEF TakeInv, SelectionsAreHonest, Honest
<1>10. CompletionsAreDue' /\ RepliesHold'
  BY <1>1, <1>6 DEF TakeInv, CompletionsAreDue, RepliesHold, Over, Answered
<1>11. QED
  BY <1>4, <1>7, <1>8, <1>9, <1>10 DEF TakeInv

LEMMA ChooseStep ==
    ASSUME TakeInv, NEW ans \in Answers, Choose(ans) PROVE TakeInv'
<1>1. /\ phase = "in-test" /\ work' = [item |-> shown.presented.item, ans |-> ans]
      /\ chosen' = chosen \cup {work'}
      /\ UNCHANGED <<attempt, clock, phase, shown, fired, req, stray, faults>>
  BY DEF Choose
<1>2. shown \in Sessions /\ shown.presented.item \in Items \cup {NoItem}
  BY <1>1 DEF TakeInv, TakeTypeOK, Sessions, Presented
<1>3. work' \in Selection /\ Honest(work)'
  BY <1>1, <1>2 DEF Selection, Honest
<1>4. TakeTypeOK'
  BY <1>1, <1>3, AttemptUntouched DEF TakeInv, TakeTypeOK
<1>5. SelectionsAreHonest'
  BY <1>1, <1>3, AttemptUntouched DEF TakeInv, SelectionsAreHonest
<1>6. CompletionsAreDue' /\ RepliesHold'
  BY <1>1, AttemptUntouched DEF TakeInv, CompletionsAreDue, RepliesHold, Answered
<1>7. QED
  BY <1>1, <1>4, <1>5, <1>6, AttemptUntouched DEF TakeInv

(* What the page sends is what is in its hands. *)
LEMMA SendStep ==
    ASSUME TakeInv, NEW sess, req' = Sent(work, sess),
           UNCHANGED <<attempt, clock, stray, faults, chosen>>,
           phase' = phase,
           shown' \in Sessions \cup {Absent}, fired' \in BOOLEAN,
           work' \in Selection, work'.ans = Blank \/ work' = work,
           phase = "in-test" => shown' # Absent /\ shown'.presented.item # NoItem
    PROVE  TakeInv'
<1>1. /\ req' \in Request /\ req'.status = "sent"
      /\ req'.msg = [kind |-> "answer", body |-> work]
  BY SentFacts DEF TakeInv, TakeTypeOK
<1>2. TakeTypeOK'
  BY <1>1, AttemptUntouched DEF TakeInv, TakeTypeOK
<1>3. SelectionsAreHonest'
  BY <1>1, AttemptUntouched DEF TakeInv, SelectionsAreHonest, Honest
<1>4. CompletionsAreDue' /\ RepliesHold'
  BY <1>1, AttemptUntouched DEF TakeInv, CompletionsAreDue, RepliesHold, Answered
<1>5. QED
  BY <1>2, <1>3, <1>4, AttemptUntouched DEF TakeInv

(* Nothing is sent. *)
LEMMA QuietStep ==
    ASSUME TakeInv, req' = Quiet \/ req' = req,
           UNCHANGED <<attempt, clock, stray, faults, chosen>>,
           phase' \in {phase, "complete"},
           shown' \in Sessions \cup {Absent}, fired' \in BOOLEAN,
           work' \in Selection, work'.ans = Blank \/ work' = work,
           phase' = "in-test" => shown' # Absent /\ shown'.presented.item # NoItem
    PROVE  TakeInv'
<1>1. TakeTypeOK'
  BY QuietFacts, AttemptUntouched DEF TakeInv, TakeTypeOK
<1>2. SelectionsAreHonest'
  BY QuietFacts, AttemptUntouched DEF TakeInv, SelectionsAreHonest, Honest
<1>3. CompletionsAreDue' /\ RepliesHold'
  BY QuietFacts, AttemptUntouched DEF TakeInv, CompletionsAreDue, RepliesHold, Answered
<1>4. QED
  BY <1>1, <1>2, <1>3, AttemptUntouched DEF TakeInv

LEMMA PageStep == TakeInv /\ (Submit \/ Expire \/ ShowNext \/ Completed \/ Refused) => TakeInv'
<1> USE DEF screen
<1>1. ASSUME TakeInv PROVE /\ shown \in Sessions \cup {Absent} /\ fired \in BOOLEAN /\ work \in Selection
                           /\ phase = "in-test" => shown # Absent /\ shown.presented.item # NoItem
                           /\ req.next \in Sessions \cup {Absent}
  BY <1>1 DEF TakeInv, TakeTypeOK, Request
<1>2. ASSUME TakeInv, Submit PROVE TakeInv'
  <2>1. req' = Sent(work, shown) /\ UNCHANGED <<attempt, clock, phase, shown, work, fired, stray, faults, chosen>>
    BY <1>2 DEF Submit
  <2>2. QED
    BY <1>1, <1>2, <2>1, SendStep
<1>3. ASSUME TakeInv, Expire PROVE TakeInv'
  <2>1. /\ req' = IF req.status = "none" THEN Sent(work, shown) ELSE req
        /\ fired' = TRUE /\ UNCHANGED <<attempt, clock, phase, shown, work, stray, faults, chosen>>
    BY <1>3 DEF Expire
  <2>2. CASE req.status = "none"
    BY <1>1, <1>3, <2>1, <2>2, SendStep
  <2>3. CASE req.status # "none"
    BY <1>1, <1>3, <2>1, <2>3, QuietStep
  <2>4. QED
    BY <2>2, <2>3
<1>4. ASSUME TakeInv, ShowNext PROVE TakeInv'
  <2>1. /\ shown' = req.row /\ work' = Fresh(req.row) /\ req.row.presented.item # NoItem
        /\ fired' \in BOOLEAN /\ (req' = Quiet \/ req' = Sent(work, req.row))
        /\ UNCHANGED <<attempt, clock, phase, stray, faults, chosen>>
    BY <1>4 DEF ShowNext, MovesOn
  <2>2. req.row \in Sessions /\ req.row # Absent
    BY <1>4, AbsentAssumption DEF ShowNext, Answered, TakeInv, RepliesHold
  <2>3. work' \in Selection /\ work'.ans = Blank
    BY <2>1, <2>2, FreshFacts
  <2>4. CASE req' = Quiet
    BY <1>4, <2>1, <2>2, <2>3, <2>4, QuietStep
  <2>5. CASE req' = Sent(work, req.row)
    BY <1>4, <2>1, <2>2, <2>3, <2>5, SendStep
  <2>6. QED
    BY <2>1, <2>4, <2>5
<1>5. ASSUME TakeInv, Completed PROVE TakeInv'
  <2>1. /\ req' = Quiet /\ phase' = "complete" /\ shown' = req.next
        /\ UNCHANGED <<attempt, clock, work, fired, stray, faults, chosen>>
    BY <1>5 DEF Completed
  <2>2. QED
    BY <1>1, <1>5, <2>1, QuietStep
<1>6. ASSUME TakeInv, Refused PROVE TakeInv'
  <2>1. req' = Quiet /\ UNCHANGED <<attempt, clock, phase, shown, work, fired, stray, faults, chosen>>
    BY <1>6 DEF Refused
  <2>2. QED
    BY <1>1, <1>6, <2>1, QuietStep
<1>7. QED
  BY <1>2, <1>3, <1>4, <1>5, <1>6

(* The completion is asked for on a reply that left nothing to answer. *)
LEMMA AskCompleteStep == TakeInv /\ AskComplete => TakeInv'
<1> SUFFICES ASSUME TakeInv, AskComplete PROVE TakeInv'
  OBVIOUS
<1>1. /\ Answered /\ req.row.presented.item = NoItem
      /\ req' = [Quiet EXCEPT !.status = "sent", !.next = req.row]
      /\ UNCHANGED <<attempt, clock, phase, shown, work, fired, stray, faults, chosen>>
  BY DEF AskComplete, MovesOn, screen
<1>2. Over /\ req.row \in Sessions
  BY <1>1 DEF TakeInv, RepliesHold, Answered
<1>3. /\ req' \in Request /\ req'.status = "sent" /\ req'.msg.kind = "complete"
      /\ req'.msg.body = NoWork
  BY <1>1, <1>2, QuietFacts DEF Quiet, Request, Message
<1>4. TakeTypeOK'
  BY <1>1, <1>3, AttemptUntouched DEF TakeInv, TakeTypeOK
<1>5. SelectionsAreHonest'
  BY <1>1, <1>3, QuietFacts, AttemptUntouched DEF TakeInv, SelectionsAreHonest, Honest
<1>6. CompletionsAreDue' /\ RepliesHold'
  BY <1>1, <1>2, <1>3, AttemptUntouched DEF TakeInv, CompletionsAreDue, RepliesHold, Answered
<1>7. QED
  BY <1>1, <1>4, <1>5, <1>6, AttemptUntouched DEF TakeInv

LEMMA AcceptStep == TakeInv /\ Accept => TakeInv'
<1> SUFFICES ASSUME TakeInv, Accept PROVE TakeInv'
  OBVIOUS
<1>1. /\ req.status = "sent" /\ Serves(req.msg)
      /\ req' = [req EXCEPT !.status = "done", !.row = attempt']
      /\ UNCHANGED <<clock, phase, shown, work, fired, stray, faults, chosen>>
  BY DEF Accept, screen
<1>2. req \in Request /\ req.msg \in Message /\ req.msg.body \in Selection
  BY DEF TakeInv, TakeTypeOK, Request, Message
<1>3. ServedRight(req.msg)
  BY <1>1, <1>2, ServesRight DEF TakeInv, SelectionsAreHonest, CompletionsAreDue
<1>4. attempt' \in Sessions
  BY <1>3 DEF ServedRight, TypeOK
<1>5. /\ req' \in Request /\ req'.status = "done" /\ req'.msg = req.msg /\ req'.row = attempt'
  BY <1>1, <1>2, <1>4 DEF Request
<1>6. TakeTypeOK'
  BY <1>1, <1>3, <1>5 DEF TakeInv, TakeTypeOK, ServedRight
<1>7. SelectionsAreHonest'
  BY <1>1, <1>5 DEF TakeInv, SelectionsAreHonest, Honest
<1>8. CompletionsAreDue'
  BY <1>1, <1>3, <1>5 DEF TakeInv, CompletionsAreDue, ServedRight
<1>9. RepliesHold'
  BY <1>2, <1>3, <1>4, <1>5 DEF RepliesHold, ServedRight, Answered
<1>10. QED
  BY <1>3, <1>6, <1>7, <1>8, <1>9 DEF TakeInv, ServedRight

LEMMA ServeStrayStep == TakeInv /\ ServeStray => TakeInv'
<1> SUFFICES ASSUME TakeInv, ServeStray PROVE TakeInv'
  OBVIOUS
<1>1. PICK msg \in stray : Serves(msg) /\ stray' = stray \ {msg}
  BY DEF ServeStray
<1>2. UNCHANGED <<clock, phase, shown, work, fired, req, faults, chosen>>
  BY DEF ServeStray, screen
<1>3. msg \in Message /\ req \in Request
  BY DEF TakeInv, TakeTypeOK
<1>4. ServedRight(msg)
  BY <1>1, <1>2, <1>3, ServesRight DEF TakeInv, SelectionsAreHonest, CompletionsAreDue
<1>5. TakeTypeOK'
  BY <1>1, <1>2, <1>4 DEF TakeInv, TakeTypeOK, ServedRight
<1>6. SelectionsAreHonest'
  BY <1>1, <1>2 DEF TakeInv, SelectionsAreHonest, Honest
<1>7. CompletionsAreDue'
  BY <1>1, <1>2, <1>4 DEF TakeInv, CompletionsAreDue, ServedRight
<1>8. RepliesHold'
  <2>1. req.msg.body \in Selection
    BY <1>3 DEF Request, Message
  <2>2. QED
    BY <1>2, <1>4, <2>1 DEF TakeInv, RepliesHold, ServedRight, Answered
<1>9. QED
  BY <1>2, <1>4, <1>5, <1>6, <1>7, <1>8 DEF TakeInv, ServedRight

(* Requests refused, failed, lost or held up, and the passing of time.     *)
LEMMA NetworkStep == TakeInv /\ (Refuse \/ Fault \/ Advance) => TakeInv'
<1> SUFFICES ASSUME TakeInv, Refuse \/ Fault \/ Advance PROVE TakeInv'
  OBVIOUS
<1>1. /\ UNCHANGED <<attempt, phase, shown, work, fired, chosen>>
      /\ clock' \in Time /\ faults' \in 0..MaxFaults
      /\ req' = req \/ (req.status # "none" /\ req' = [req EXCEPT !.status = "refused"])
      /\ stray' = stray \/ (req.status # "none" /\ stray' = stray \cup {req.msg})
  BY PlayerAssumption DEF TakeInv, TakeTypeOK, Refuse, Fault, Advance, screen
<1>2. req \in Request /\ req.msg \in Message
  BY DEF TakeInv, TakeTypeOK, Request
<1>3. /\ req' \in Request /\ req'.msg = req.msg
      /\ req'.status = "done" => req' = req
      /\ req'.status # "none" => req.status # "none"
  BY <1>1, <1>2 DEF Request
<1>4. TakeTypeOK'
  BY <1>1, <1>2, <1>3, AttemptUntouched DEF TakeInv, TakeTypeOK
<1>5. SelectionsAreHonest'
  BY <1>1, <1>3, AttemptUntouched DEF TakeInv, SelectionsAreHonest
<1>6. CompletionsAreDue'
  BY <1>1, <1>3, AttemptUntouched DEF TakeInv, CompletionsAreDue
<1>7. RepliesHold'
  BY <1>1, <1>3, AttemptUntouched DEF TakeInv, RepliesHold, Answered
<1>8. QED
  BY <1>1, <1>4, <1>5, <1>6, <1>7, AttemptUntouched DEF TakeInv

LEMMA TakeInvariance == TakeSpec => []TakeInv
<1>1. TakeInit => TakeInv
  <2> SUFFICES ASSUME TakeInit PROVE TakeInv
    OBVIOUS
  <2>1. attempt = Absent /\ TypeOK /\ req = Quiet /\ work = NoWork
    BY DEF TakeInit, Init, TypeOK
  <2>2. TakeTypeOK
    <3>1. /\ clock \in Time /\ phase = "preview" /\ shown = Absent /\ fired = FALSE
          /\ stray = {} /\ faults = 0 /\ chosen = {}
      BY DEF TakeInit
    <3>2. fired \in BOOLEAN
      BY <3>1, Zenon
    <3>3. MaxFaults \in Nat
      BY PlayerAssumption, Zenon
    <3>4. QED
      BY <2>1, <3>1, <3>2, <3>3, QuietFacts DEF TakeTypeOK
  <2>3. SelectionsAreHonest /\ CompletionsAreDue /\ RepliesHold
    BY <2>1, QuietFacts DEF TakeInit, SelectionsAreHonest, Honest, CompletionsAreDue, RepliesHold, Answered
  <2>4. QED
    BY <2>1, <2>2, <2>3 DEF TakeInit, TakeInv, ShowsWhatIsLeft, GradedAsChosen, CompletedIsExhausted
<1>2. TakeInv /\ [TakeNext]_takeVars => TakeInv'
  <2> SUFFICES ASSUME TakeInv, [TakeNext]_takeVars PROVE TakeInv'
    OBVIOUS
  <2>1. CASE UNCHANGED takeVars
    <3>1. UNCHANGED <<attempt, clock, phase, shown, work, fired, req, stray, faults, chosen>>
      BY <2>1 DEF takeVars, screen
    <3>2. QED
      BY <3>1, QuietStep DEF TakeInv, TakeTypeOK
  <2>2. CASE \E ans \in Answers : Choose(ans)
    BY <2>2, ChooseStep
  <2>3. QED
    BY <2>1, <2>2, StartTestStep, PageStep, AskCompleteStep, AcceptStep, ServeStrayStep, NetworkStep
       DEF TakeNext, Page
<1>3. QED
  BY <1>1, <1>2, PTL DEF TakeSpec

(* Values and shapes; a test in progress has an item on screen. *)
THEOREM PageIsTyped == TakeSpec => []TakeTypeOK
<1>1. TakeInv => TakeTypeOK
  BY DEF TakeInv
<1>2. QED
  BY <1>1, TakeInvariance, PTL

(* No item is graded on an answer selected for another one. *)
THEOREM AnswersKeepTheirItem == TakeSpec => []GradedAsChosen
<1>1. TakeInv => GradedAsChosen
  BY DEF TakeInv
<1>2. QED
  BY <1>1, TakeInvariance, PTL

(* Lost, late and repeated requests never complete a test early. *)
THEOREM NoTestEndsEarly == TakeSpec => []CompletedIsExhausted
<1>1. TakeInv => CompletedIsExhausted
  BY DEF TakeInv
<1>2. QED
  BY <1>1, TakeInvariance, PTL

(* What the server acknowledged is on record. *)
THEOREM AcknowledgedIsRecorded == TakeSpec => []AckMeansRecorded
<1>1. TakeInv => AckMeansRecorded
  BY DEF TakeInv, RepliesHold, OnRecord, AckMeansRecorded
<1>2. QED
  BY <1>1, TakeInvariance, PTL

(* Whatever the page and the network do, the row moves by whole requests:  *)
(* every theorem about the attempt holds of the one a page takes.          *)
THEOREM PageTakesAnAttempt == TakeSpec => Spec
<1>1. TakeInit => Init
  BY DEF TakeInit
<1>2. TakeInv /\ [TakeNext]_takeVars => [Next]_attempt
  <2> SUFFICES ASSUME TakeInv, TakeNext, attempt' # attempt PROVE Next
    BY DEF takeVars
  <2>1. clock \in Time
    BY DEF TakeInv, TakeTypeOK
  <2>2. ASSUME NEW msg \in Message, Serves(msg) PROVE Next
    <3>1. ASSUME NEW correct \in BOOLEAN, Answer(msg.body.item, msg.body.ans, correct, clock)
          PROVE  Next
      <4>1. msg.body.ans \in Answers
        BY DEF Message, Selection
      <4>2. msg.body.item \in Items
        BY <2>1, <3>1, <4>1, AnswerOutcome DEF Appended, TakeInv, TakeTypeOK
      <4>3. QED
        BY <2>1, <3>1, <4>1, <4>2 DEF Next
    <3>2. QED
      BY <2>1, <2>2, <3>1 DEF Serves, Next
  <2>3. CASE StartTest
    BY <2>1, <2>3 DEF StartTest, Next
  <2>4. CASE Accept
    <3>1. req.msg \in Message /\ Serves(req.msg)
      BY <2>4 DEF Accept, TakeInv, TakeTypeOK, Request
    <3>2. QED
      BY <2>2, <3>1
  <2>5. CASE ServeStray
    <3>1. \E msg \in stray : msg \in Message /\ Serves(msg)
      BY <2>5 DEF ServeStray, TakeInv, TakeTypeOK
    <3>2. QED
      BY <2>2, <3>1
  <2>6. QED
    BY <2>3, <2>4, <2>5
       DEF TakeNext, Submit, Expire, Page, ShowNext, AskComplete, Completed, Refused, Choose, Refuse, Fault, Advance
<1>3. QED
  BY <1>1, <1>2, TakeInvariance, PTL DEF TakeSpec, Spec

-----------------------------------------------------------------------------
(* Scores and feedback *)

(* What the bank holds is one of the things it may hold. *)
BankHolds ==
    /\ DOMAIN bank \subseteq Items
    /\ \A i \in DOMAIN bank : \E k \in DOMAIN Contents[i] : bank[i] = Contents[i][k]

(* Unless its item was touched since, a response was graded by the content *)
(* the bank holds now.                                                     *)
GradedByBank ==
    attempt # Absent => \A k \in DOMAIN attempt.responses :
        LET r == attempt.responses[k]
        IN  r.item \notin stale => r.item \in DOMAIN bank /\ r.correct = Grade(bank[r.item], r.ans)

(* A score, and a line of feedback, are of an attempt that is over. *)
ScoresTheCompleted ==
    /\ DOMAIN report = DOMAIN NoReport
    /\ report.phase \in {"none", "reading", "refused", "done"}
    /\ report.phase \in {"reading", "done"} => report.score # <<>>
    /\ report.score = <<>> => report.lines = <<>> /\ report.degraded = 0
    /\ report.score # <<>> =>
          /\ attempt # Absent /\ attempt.state = "completed" /\ attempt.responses # <<>>
          /\ report.score = <<Score(attempt.responses)>>

(* The k-th line is about the k-th response, and unless its item was       *)
(* touched shows it by the content the bank holds.                         *)
LinesAreOfResponses ==
    LET lines == report.lines
        rs    == attempt.responses
        told(k) == /\ lines[k].given = Field(bank[rs[k].item], rs[k].ans)
                    /\ lines[k].answer = Field(bank[rs[k].item], bank[rs[k].item].key)
    IN  report.score # <<>> =>
          /\ lines \in Seq({lines[k] : k \in DOMAIN lines}) /\ Len(lines) <= Len(rs)
          /\ \A k \in DOMAIN lines : /\ lines[k].item = rs[k].item
                                     /\ lines[k].correct = rs[k].correct
                                     /\ rs[k].item \notin stale => told(k)
          /\ report.degraded = Cardinality({k \in DOMAIN lines : lines[k].answer = ""})
          /\ report.phase = "done" => Len(lines) = Len(rs)

ScoringInv == TypeOK /\ BankHolds /\ GradedByBank /\ ScoresTheCompleted /\ LinesAreOfResponses

-----------------------------------------------------------------------------
(* Grading and showing *)

LEMMA BankFacts ==
    ASSUME BankHolds, NEW i \in DOMAIN bank
    PROVE  /\ i \in Items /\ bank[i] \in Content
           /\ Field(bank[i], bank[i].key) # ""
           /\ \A ans \in Answers :
                 /\ ans.numeric \in Int
                 /\ ToString(ans.numeric) = ToString(bank[i].key.numeric)
                        => ans.numeric = bank[i].key.numeric
<1>1. PICK k \in DOMAIN Contents[i] : bank[i] = Contents[i][k]
  BY DEF BankHolds
<1>2. i \in Items
  BY DEF BankHolds
<1> DEFINE content == Contents[i][k]
<1>3. /\ content \in Content
      /\ Field(content, content.key) # ""
      /\ \A ans \in Answers : ToString(ans.numeric) = ToString(content.key.numeric)
                                 => ans.numeric = content.key.numeric
  BY <1>2, ContentAssumption, Zenon
<1>4. \A ans \in Answers : ans.numeric \in Int
  <2>1. \A ans \in AnswerFields : ans.numeric \in Int
    BY DEF AnswerFields
  <2>2. QED
    BY <2>1, ContentAssumption
<1> HIDE DEF content
<1>5. bank[i] = content
  BY <1>1 DEF content
<1>6. QED
  BY <1>2, <1>3, <1>4, <1>5

LEMMA GradeIsBoolean ==
    ASSUME NEW content, NEW ans
    PROVE  Grade(content, ans) \in BOOLEAN
<1>1. (Distance(ans.numeric, content.key.numeric) <= content.tolerance) \in BOOLEAN
  OBVIOUS
<1>2. QED
  BY <1>1 DEF Grade

(* What is shown of an answer agrees with how it was graded. *)
LEMMA ShownAsGraded ==
    ASSUME BankHolds, NEW i \in DOMAIN bank, NEW ans \in Answers
    PROVE  LET given  == Field(bank[i], ans)
               answer == Field(bank[i], bank[i].key)
           IN  /\ given = answer => Grade(bank[i], ans)
               /\ Grade(bank[i], ans) => given = answer \/ bank[i].tolerance > 0
<1> DEFINE content == bank[i]
<1>1. content.tolerance \in Nat /\ content.key.numeric \in Int /\ ans.numeric \in Int
  BY BankFacts DEF Content, AnswerFields
<1>2. CASE content.format = "open-numeric"
  <2>1. Field(content, ans) = ToString(ans.numeric)
    BY <1>2 DEF Field
  <2>2. Field(content, content.key) = ToString(content.key.numeric)
    BY <1>2 DEF Field
  <2>3. ToString(ans.numeric) = ToString(content.key.numeric) => ans.numeric = content.key.numeric
    BY BankFacts
  <2>4. Grade(content, ans) <=> Distance(ans.numeric, content.key.numeric) <= content.tolerance
    BY <1>2 DEF Grade
  <2>5. ans.numeric = content.key.numeric <=> Distance(ans.numeric, content.key.numeric) <= 0
    BY <1>1 DEF Distance
  <2>6. /\ Distance(ans.numeric, content.key.numeric) \in Nat
        /\ content.tolerance = 0 \/ content.tolerance > 0
    BY <1>1 DEF Distance
  <2> HIDE DEF content
  <2>7. QED
    BY <1>1, <2>1, <2>2, <2>3, <2>4, <2>5, <2>6 DEF content
<1>3. CASE content.format # "open-numeric"
  BY <1>3 DEF Grade
<1>4. QED
  BY <1>2, <1>3

-----------------------------------------------------------------------------
(* The attempt goes on under the bank *)

(* Everything Take does is a step of the attempt on its own. *)
LEMMA TakeIsAttempt ==
    ASSUME BankHolds, Take
    PROVE  Next
<1>1. PICK t \in Time :
          \/ Start(t)
          \/ \E i \in DOMAIN bank, ans \in Answers : Answer(i, ans, Grade(bank[i], ans), t)
          \/ Complete(t)
          \/ Abandon(t)
  BY DEF Take
<1>2. CASE \E i \in DOMAIN bank, ans \in Answers : Answer(i, ans, Grade(bank[i], ans), t)
  BY <1>2, GradeIsBoolean DEF BankHolds, Next
<1>3. QED
  BY <1>1, <1>2 DEF Next

(* A completed attempt stays as it is. *)
LEMMA TakeLeavesTheEnded ==
    ASSUME TypeOK, BankHolds, Take
    PROVE  attempt = Absent \/ attempt.state = "in-progress"
<1>1. PICK t \in Time :
          \/ Start(t)
          \/ \E i \in DOMAIN bank, ans \in Answers : Answer(i, ans, Grade(bank[i], ans), t)
          \/ Complete(t)
          \/ Abandon(t)
  BY DEF Take
<1>2. QED
  BY <1>1 DEF Start, Answer, Complete, Abandon, CanRecord, CanFinish

LEMMA TypeOKStep ==
    ASSUME TypeOK, Next
    PROVE  TypeOK'
<1>1. CASE \E t \in Time : Start(t)
  BY <1>1, StartOutcome DEF TypeOK
<1>2. CASE \E t \in Time, item \in Items, ans \in Answers, correct \in BOOLEAN :
              Answer(item, ans, correct, t)
  BY <1>2, AnswerOutcome DEF TypeOK, Appended
<1>3. CASE \E t \in Time : Complete(t) \/ Abandon(t)
  BY <1>3, FinishOutcome DEF TypeOK
<1>4. QED
  BY <1>1, <1>2, <1>3 DEF Next

LEMMA TakeGrades ==
    ASSUME TypeOK, BankHolds, GradedByBank, Take
    PROVE  GradedByBank'
<1>1. PICK t \in Time :
          \/ Start(t)
          \/ \E i \in DOMAIN bank, ans \in Answers : Answer(i, ans, Grade(bank[i], ans), t)
          \/ Complete(t)
          \/ Abandon(t)
  BY DEF Take
<1>2. bank' = bank /\ stale' = stale
  BY DEF Take
<1>3. CASE Start(t)
  <2>1. attempt'.responses = <<>>
    BY <1>3, StartOutcome
  <2>2. DOMAIN attempt'.responses = {}
    BY <2>1
  <2>3. QED
    BY <2>2 DEF GradedByBank
<1>4. ASSUME NEW i \in DOMAIN bank, NEW ans \in Answers, Answer(i, ans, Grade(bank[i], ans), t)
      PROVE  GradedByBank'
  <2> DEFINE old == attempt.responses
             new == attempt'.responses
  <2>1. Appended(i, ans, Grade(bank[i], ans), t) /\ attempt # Absent
    BY <1>4, GradeIsBoolean, AnswerOutcome DEF Answer
  <2>2. \A k \in DOMAIN new : k \in DOMAIN old \/ k = Len(new)
    BY <2>1 DEF Appended
  <2>3. \A k \in DOMAIN old : new[k] = old[k]
    BY <2>1 DEF Appended
  <2>4. /\ new[Len(new)].item = i /\ new[Len(new)].ans = ans
        /\ new[Len(new)].correct = Grade(bank[i], ans)
    BY <2>1 DEF Appended
  <2>5. QED
    BY <1>2, <2>1, <2>2, <2>3, <2>4 DEF GradedByBank
<1>5. CASE Complete(t) \/ Abandon(t)
  <2>1. attempt'.responses = attempt.responses /\ attempt # Absent
    BY <1>5, FinishOutcome DEF Complete, Abandon
  <2>2. QED
    BY <1>2, <2>1 DEF GradedByBank
<1>6. QED
  BY <1>1, <1>3, <1>4, <1>5

LEMMA TakeStep ==
    ASSUME ScoringInv, Take
    PROVE  ScoringInv'
<1>1. UNCHANGED <<bank, stale, report>>
  BY DEF Take
<1>2. TypeOK'
  BY TakeIsAttempt, TypeOKStep DEF ScoringInv
<1>3. BankHolds'
  BY <1>1 DEF BankHolds, ScoringInv
<1>4. GradedByBank'
  BY TakeGrades DEF ScoringInv
<1>5. report.score = <<>>
  <2>1. attempt = Absent \/ attempt.state = "in-progress"
    BY TakeLeavesTheEnded DEF ScoringInv
  <2>2. QED
    BY <2>1 DEF ScoringInv, ScoresTheCompleted
<1>6. ScoresTheCompleted'
  BY <1>1, <1>5 DEF ScoringInv, ScoresTheCompleted
<1>7. LinesAreOfResponses'
  BY <1>1, <1>5 DEF LinesAreOfResponses
<1>8. QED
  BY <1>2, <1>3, <1>4, <1>6, <1>7 DEF ScoringInv

-----------------------------------------------------------------------------
(* The bank changes *)

(* A response whose item is not touched now or before is of an item the    *)
(* edit leaves alone.                                                      *)
LEMMA EditSparesTheRest ==
    ASSUME TypeOK, BankHolds, NEW i \in Items, EditBank(i), attempt # Absent,
           NEW k \in DOMAIN attempt.responses, attempt.responses[k].item \notin stale'
    PROVE  LET item == attempt.responses[k].item
           IN  /\ item \notin stale /\ item # i
               /\ item \in DOMAIN bank => item \in DOMAIN bank' /\ bank'[item] = bank[item]
<1> DEFINE item == attempt.responses[k].item
<1>1. item \in Delivered(attempt.responses)
  BY DEF Delivered
<1>2. stale \subseteq stale' /\ (i \in Delivered(attempt.responses) => i \in stale')
  BY DEF EditBank
<1>3. item \notin stale /\ item # i
  BY <1>1, <1>2
<1>4. \/ bank' = [j \in DOMAIN bank \ {i} |-> bank[j]]
      \/ \E n \in DOMAIN Contents[i] :
            bank' = [j \in DOMAIN bank \cup {i} |-> IF j = i THEN Contents[i][n] ELSE bank[j]]
  BY DEF EditBank
<1>5. QED
  BY <1>3, <1>4

LEMMA EditStep ==
    ASSUME ScoringInv, NEW i \in Items, EditBank(i)
    PROVE  ScoringInv'
<1>1. UNCHANGED <<attempt, report>>
  BY DEF EditBank
<1>2. TypeOK'
  BY <1>1 DEF TypeOK, ScoringInv
<1>3. BankHolds'
  <2>1. CASE bank' = [j \in DOMAIN bank \ {i} |-> bank[j]]
    BY <2>1 DEF BankHolds, ScoringInv
  <2>2. ASSUME NEW n \in DOMAIN Contents[i],
               bank' = [j \in DOMAIN bank \cup {i} |-> IF j = i THEN Contents[i][n] ELSE bank[j]]
        PROVE  BankHolds'
    BY <2>2 DEF BankHolds, ScoringInv
  <2>3. QED
    BY <2>1, <2>2 DEF EditBank
<1>4. GradedByBank'
  <2> SUFFICES ASSUME attempt # Absent, NEW k \in DOMAIN attempt.responses,
                      attempt.responses[k].item \notin stale'
               PROVE  LET r == attempt.responses[k]
                      IN  r.item \in DOMAIN bank' /\ r.correct = Grade(bank'[r.item], r.ans)
    BY <1>1 DEF GradedByBank
  <2>1. LET r == attempt.responses[k]
        IN  r.item \in DOMAIN bank /\ r.correct = Grade(bank[r.item], r.ans)
    BY EditSparesTheRest DEF GradedByBank, ScoringInv
  <2>2. QED
    BY <2>1, EditSparesTheRest DEF ScoringInv
<1>5. ScoresTheCompleted'
  BY <1>1 DEF ScoresTheCompleted, ScoringInv
<1>6. LinesAreOfResponses'
  <2> DEFINE lines == report.lines
             rs == attempt.responses
  <2> SUFFICES ASSUME report.score # <<>>, NEW k \in DOMAIN lines, rs[k].item \notin stale'
               PROVE  /\ lines[k].given = Field(bank'[rs[k].item], rs[k].ans)
                      /\ lines[k].answer = Field(bank'[rs[k].item], bank'[rs[k].item].key)
    BY <1>1 DEF LinesAreOfResponses, ScoringInv
  <2>1. attempt # Absent /\ rs \in Seq(Response) /\ lines \in Seq({lines[n] : n \in DOMAIN lines})
        /\ Len(lines) <= Len(rs)
    BY DEF ScoringInv, ScoresTheCompleted, LinesAreOfResponses, TypeOK, Sessions
  <2>2. k \in DOMAIN rs
    BY <2>1
  <2>3. rs[k].item \notin stale /\ rs[k].item \in DOMAIN bank
    BY <2>1, <2>2, EditSparesTheRest DEF ScoringInv, GradedByBank
  <2>4. bank'[rs[k].item] = bank[rs[k].item]
    BY <2>1, <2>2, <2>3, EditSparesTheRest DEF ScoringInv
  <2>5. /\ lines[k].given = Field(bank[rs[k].item], rs[k].ans)
        /\ lines[k].answer = Field(bank[rs[k].item], bank[rs[k].item].key)
    BY <2>3 DEF ScoringInv, LinesAreOfResponses
  <2>6. QED
    BY <2>4, <2>5
<1>7. QED
  BY <1>2, <1>3, <1>4, <1>5, <1>6 DEF ScoringInv

-----------------------------------------------------------------------------
(* The request for a score *)

(* A sequence of whatever is in it, and one element more. *)
LEMMA OneMore ==
    ASSUME NEW s, NEW e, s \in Seq({s[k] : k \in DOMAIN s})
    PROVE  LET t == Append(s, e)
               n == Len(s)
           IN  /\ n \in Nat /\ DOMAIN s = 1..n
               /\ Len(t) = n + 1 /\ DOMAIN t = 1..(n + 1) /\ t[n + 1] = e
               /\ \A k \in 1..n : t[k] = s[k]
               /\ t \in Seq({t[k] : k \in DOMAIN t})
<1> DEFINE S == {s[k] : k \in DOMAIN s}
           T == S \cup {e}
           t == Append(s, e)
           n == Len(s)
<1>1. s \in Seq(S) /\ S \subseteq T
  OBVIOUS
<1> HIDE DEF S
<1>2. n \in Nat /\ DOMAIN s = 1..n /\ s \in [1..n -> S]
  BY <1>1
<1>3. s \in Seq(T) /\ e \in T
  BY <1>1, <1>2
<1> HIDE DEF T
<1>4. /\ Len(t) = n + 1 /\ DOMAIN t = 1..(n + 1) /\ t[n + 1] = e
      /\ \A k \in 1..n : t[k] = s[k]
      /\ t \in [1..(n + 1) -> T]
  <2>1. Len(t) = n + 1 /\ t \in Seq(T) /\ t[n + 1] = e
    BY <1>3
  <2>2. \A k \in 1..n : t[k] = s[k]
    BY <1>3
  <2> HIDE DEF t, n
  <2>3. DOMAIN t = 1..(n + 1) /\ t \in [1..(n + 1) -> T]
    BY <2>1
  <2>4. QED
    BY <2>1, <2>2, <2>3
<1> DEFINE U == {t[k] : k \in DOMAIN t}
<1>5. t \in [1..(n + 1) -> U]
  <2> HIDE DEF t
  <2>1. \A k \in 1..(n + 1) : t[k] \in U
    BY <1>4
  <2> HIDE DEF U
  <2>2. QED
    BY <1>4, <2>1
<1> HIDE DEF t, U
<1>6. t \in Seq(U)
  BY <1>2, <1>5
<1>7. QED
  BY <1>2, <1>4, <1>6 DEF t, U

(* To ask is to put down the score of the completed attempt, with nothing  *)
(* of the feedback read yet; or to be refused.                             *)
LEMMA AskStep ==
    ASSUME ScoringInv, AskScore
    PROVE  ScoringInv'
<1>1. UNCHANGED <<attempt, bank, stale>>
  BY DEF AskScore
<1>2. TypeOK' /\ BankHolds' /\ GradedByBank'
  BY <1>1 DEF ScoringInv, TypeOK, BankHolds, GradedByBank
<1>3. CASE attempt.state = "completed" /\ attempt.responses # <<>>
  <2>1. report' = [NoReport EXCEPT !.phase = "reading", !.score = <<Score(attempt.responses)>>]
    BY <1>3 DEF AskScore
  <2>2. /\ report'.phase = "reading" /\ report'.score = <<Score(attempt.responses)>>
        /\ report'.lines = <<>> /\ report'.degraded = 0 /\ DOMAIN report' = DOMAIN NoReport
    BY <2>1 DEF NoReport
  <2>3. attempt # Absent /\ <<Score(attempt.responses)>> # <<>>
    BY DEF AskScore
  <2>4. ScoresTheCompleted'
    BY <1>1, <1>3, <2>2, <2>3 DEF ScoresTheCompleted
  <2>5. {k \in DOMAIN <<>> : <<>>[k].answer = ""} = {} /\ Cardinality({}) = 0
    BY FS_EmptySet
  <2>6. attempt.responses \in Seq(Response)
    BY <2>3 DEF ScoringInv, TypeOK, Sessions
  <2>7. /\ <<>> \in Seq({<<>>[k] : k \in DOMAIN <<>>}) /\ Len(<<>>) <= Len(attempt.responses)
        /\ DOMAIN <<>> = {}
    BY <2>6
  <2>8. LinesAreOfResponses'
    BY <1>1, <2>2, <2>5, <2>7 DEF LinesAreOfResponses
  <2>9. QED
    BY <1>2, <2>4, <2>8 DEF ScoringInv
<1>4. CASE ~(attempt.state = "completed" /\ attempt.responses # <<>>)
  <2>1. report' = [report EXCEPT !.phase = "refused"]
    BY <1>4 DEF AskScore
  <2>2. /\ report'.phase = "refused" /\ report'.score = report.score
        /\ report'.lines = report.lines /\ report'.degraded = report.degraded
        /\ DOMAIN report' = DOMAIN NoReport
    BY <2>1 DEF ScoringInv, ScoresTheCompleted, NoReport
  <2>3. ScoresTheCompleted' /\ LinesAreOfResponses'
    BY <1>1, <2>2 DEF ScoringInv, ScoresTheCompleted, LinesAreOfResponses
  <2>4. QED
    BY <1>2, <2>3 DEF ScoringInv
<1>5. QED
  BY <1>3, <1>4

LEMMA ClosingStep ==
    ASSUME ScoringInv, ReadFails \/ Reply
    PROVE  ScoringInv'
<1>1. UNCHANGED <<attempt, bank, stale>>
  BY DEF ReadFails, Reply
<1>2. TypeOK' /\ BankHolds' /\ GradedByBank'
  BY <1>1 DEF ScoringInv, TypeOK, BankHolds, GradedByBank
<1>3. PICK outcome \in {"refused", "done"} :
          /\ report' = [report EXCEPT !.phase = outcome]
          /\ outcome = "done" => Len(report.lines) = Len(attempt.responses)
  BY DEF ReadFails, Reply
<1>4. report.score # <<>>
  BY DEF ReadFails, Reply, ScoringInv, ScoresTheCompleted
<1>5. /\ report'.phase = outcome /\ report'.score = report.score
      /\ report'.lines = report.lines /\ report'.degraded = report.degraded
      /\ DOMAIN report' = DOMAIN NoReport
  BY <1>3 DEF ScoringInv, ScoresTheCompleted, NoReport
<1>6. ScoresTheCompleted' /\ LinesAreOfResponses'
  BY <1>1, <1>3, <1>4, <1>5 DEF ScoringInv, ScoresTheCompleted, LinesAreOfResponses
<1>7. QED
  BY <1>2, <1>6 DEF ScoringInv

(* The lines about an item that is gone. *)
GoneLines(lines) == {k \in DOMAIN lines : lines[k].answer = ""}

LEMMA OneMoreGone ==
    ASSUME NEW s, NEW e, s \in Seq({s[k] : k \in DOMAIN s})
    PROVE  Cardinality(GoneLines(Append(s, e))) =
               IF e.answer = "" THEN Cardinality(GoneLines(s)) + 1 ELSE Cardinality(GoneLines(s))
<1> DEFINE t == Append(s, e)
           n == Len(s)
<1>1. /\ n \in Nat /\ DOMAIN s = 1..n /\ DOMAIN t = 1..(n + 1) /\ t[n + 1] = e
      /\ \A k \in 1..n : t[k] = s[k]
  BY OneMore
<1> HIDE DEF t, n
<1>2. /\ 1..(n + 1) = (1..n) \cup {n + 1} /\ n + 1 \notin 1..n
      /\ IsFiniteSet(1..n)
  <2>1. n \in Nat
    BY <1>1
  <2>2. IsFiniteSet(1..n)
    BY <2>1, FS_Interval
  <2>3. QED
    BY <2>1, <2>2
<1>3. GoneLines(s) \subseteq 1..n /\ IsFiniteSet(GoneLines(s))
  BY <1>1, <1>2, FS_Subset DEF GoneLines
<1>4. CASE e.answer = ""
  <2>1. GoneLines(t) = GoneLines(s) \cup {n + 1}
    BY <1>1, <1>2, <1>4 DEF GoneLines
  <2>2. n + 1 \notin GoneLines(s)
    BY <1>2, <1>3
  <2>3. QED
    BY <1>3, <1>4, <2>1, <2>2, FS_AddElement DEF t
<1>5. CASE e.answer # ""
  <2>1. GoneLines(t) = GoneLines(s)
    BY <1>1, <1>2, <1>5 DEF GoneLines
  <2>2. QED
    BY <1>5, <2>1 DEF t
<1>6. QED
  BY <1>4, <1>5

(* One line more, for the next response, from whatever the bank holds.     *)
LEMMA ReadStep ==
    ASSUME ScoringInv, ReadItem
    PROVE  ScoringInv'
<1> DEFINE lines == report.lines
           rs == attempt.responses
           n == Len(lines)
           r == rs[n + 1]
           held == r.item \in DOMAIN bank
           line == [item |-> r.item, correct |-> r.correct, given |-> GivenAnswer(r.item, r.ans),
                    answer |-> IF held THEN Field(bank[r.item], bank[r.item].key) ELSE ""]
<1>1. UNCHANGED <<attempt, bank, stale>>
  BY DEF ReadItem
<1>2. TypeOK' /\ BankHolds' /\ GradedByBank'
  BY <1>1 DEF ScoringInv, TypeOK, BankHolds, GradedByBank
<1>3. /\ report' = [report EXCEPT !.lines = Append(@, line),
                                  !.degraded = IF held THEN @ ELSE @ + 1]
      /\ report.phase = "reading" /\ n + 1 <= Len(rs)
  BY DEF ReadItem
<1>4. /\ report.score # <<>> /\ attempt # Absent
      /\ lines \in Seq({lines[k] : k \in DOMAIN lines})
      /\ report.degraded = Cardinality(GoneLines(lines))
      /\ DOMAIN report = DOMAIN NoReport
  BY <1>3 DEF ScoringInv, ScoresTheCompleted, LinesAreOfResponses, GoneLines
<1>5. rs \in Seq(Response) /\ n \in Nat /\ DOMAIN lines = 1..n /\ n + 1 \in DOMAIN rs
  <2>1. n \in Nat /\ DOMAIN lines = 1..n
    <3> HIDE DEF lines
    <3>1. QED
      BY <1>4, OneMore
  <2>2. rs \in Seq(Response)
    BY <1>4 DEF ScoringInv, TypeOK, Sessions
  <2>3. QED
    BY <1>3, <2>1, <2>2
<1> DEFINE new == Append(lines, line)
<1>6. /\ Len(new) = n + 1 /\ DOMAIN new = 1..(n + 1) /\ new[n + 1] = line
      /\ \A k \in 1..n : new[k] = lines[k]
      /\ new \in Seq({new[k] : k \in DOMAIN new})
  <2> HIDE DEF line, lines
  <2>1. QED
    BY <1>4, OneMore
<1>7. /\ report'.phase = "reading" /\ report'.score = report.score
      /\ report'.lines = new
      /\ report'.degraded = IF held THEN report.degraded ELSE report.degraded + 1
      /\ DOMAIN report' = DOMAIN NoReport
  BY <1>3, <1>4 DEF NoReport
<1>8. line.answer = "" <=> ~held
  <2>1. line.answer = IF held THEN Field(bank[r.item], bank[r.item].key) ELSE ""
    OBVIOUS
  <2>2. held => Field(bank[r.item], bank[r.item].key) # ""
    BY BankFacts DEF ScoringInv
  <2> HIDE DEF line
  <2>3. QED
    BY <2>1, <2>2
<1>9. line.item = r.item /\ line.correct = r.correct
  OBVIOUS
<1>10. held => /\ line.given = Field(bank[r.item], r.ans)
               /\ line.answer = Field(bank[r.item], bank[r.item].key)
  BY DEF GivenAnswer
<1>11. r.item \notin stale => held
  BY <1>4, <1>5 DEF ScoringInv, GradedByBank
<1> HIDE DEF line
<1>12. report'.degraded = Cardinality(GoneLines(new))
  <2> HIDE DEF lines
  <2>1. Cardinality(GoneLines(new)) = IF line.answer = "" THEN Cardinality(GoneLines(lines)) + 1
                                                      ELSE Cardinality(GoneLines(lines))
    BY <1>4, OneMoreGone
  <2>2. QED
    BY <1>4, <1>7, <1>8, <2>1
<1>13. ScoresTheCompleted'
  BY <1>1, <1>4, <1>7 DEF ScoringInv, ScoresTheCompleted
<1>14. \A k \in DOMAIN new :
          /\ new[k].item = rs[k].item
          /\ new[k].correct = rs[k].correct
          /\ rs[k].item \notin stale =>
                /\ new[k].given = Field(bank[rs[k].item], rs[k].ans)
                /\ new[k].answer = Field(bank[rs[k].item], bank[rs[k].item].key)
  <2> SUFFICES ASSUME NEW k \in DOMAIN new
               PROVE  /\ new[k].item = rs[k].item
                      /\ new[k].correct = rs[k].correct
                      /\ rs[k].item \notin stale =>
                            /\ new[k].given = Field(bank[rs[k].item], rs[k].ans)
                            /\ new[k].answer = Field(bank[rs[k].item], bank[rs[k].item].key)
    OBVIOUS
  <2>1. CASE k \in 1..n
    <3>1. new[k] = lines[k] /\ k \in DOMAIN lines
      BY <1>5, <1>6, <2>1
    <3>2. QED
      BY <1>4, <3>1 DEF ScoringInv, LinesAreOfResponses
  <2>2. CASE k = n + 1
    BY <1>6, <1>9, <1>10, <1>11, <2>2
  <2>3. QED
    BY <1>5, <1>6, <2>1, <2>2
<1>15. LinesAreOfResponses'
  <2> HIDE DEF new
  <2>1. report'.phase # "done" /\ Len(new) <= Len(rs)
    BY <1>3, <1>6, <1>7
  <2>2. QED
    BY <1>1, <1>6, <1>7, <1>12, <1>14, <2>1 DEF LinesAreOfResponses, GoneLines
<1>16. QED
  BY <1>2, <1>13, <1>15 DEF ScoringInv

LEMMA ScoringInvariance == ScoringSpec => []ScoringInv
<1>1. ScoringInit => ScoringInv
  <2> SUFFICES ASSUME ScoringInit PROVE ScoringInv
    OBVIOUS
  <2>1. attempt = Absent /\ bank = [i \in Items |-> Contents[i][1]] /\ report = NoReport
    BY DEF ScoringInit, Init
  <2>2. BankHolds
    BY <2>1, ContentAssumption DEF BankHolds
  <2>3. ScoresTheCompleted
    BY <2>1 DEF ScoresTheCompleted, NoReport
  <2>4. QED
    BY <2>1, <2>2, <2>3 DEF ScoringInv, TypeOK, GradedByBank, LinesAreOfResponses, NoReport
<1>2. ScoringInv /\ [ScoringNext]_scoringVars => ScoringInv'
  <2> SUFFICES ASSUME ScoringInv, [ScoringNext]_scoringVars PROVE ScoringInv'
    OBVIOUS
  <2>1. CASE UNCHANGED scoringVars
    BY <2>1 DEF scoringVars, ScoringInv, TypeOK, BankHolds, GradedByBank, ScoresTheCompleted,
                LinesAreOfResponses
  <2>2. QED
    BY <2>1, TakeStep, EditStep, AskStep, ReadStep, ClosingStep DEF ScoringNext
<1>3. QED
  BY <1>1, <1>2, PTL DEF ScoringSpec

-----------------------------------------------------------------------------
(* The attempt scored is one app/execution could have stored: the bank and *)
(* its grading only choose among the answers Attempt allows.               *)
THEOREM ScoringTakesAnAttempt == ScoringSpec => Spec
<1>1. ScoringInit => Init
  BY DEF ScoringInit
<1>2. BankHolds /\ [ScoringNext]_scoringVars => [Next]_attempt
  <2> SUFFICES ASSUME BankHolds, ScoringNext, attempt' # attempt PROVE Next
    BY DEF scoringVars
  <2>1. Take
    BY DEF ScoringNext, EditBank, AskScore, ReadItem, ReadFails, Reply
  <2>2. QED
    BY <2>1, TakeIsAttempt
<1>3. ScoringInv => BankHolds
  BY DEF ScoringInv
<1>4. QED
  BY <1>1, <1>2, <1>3, ScoringInvariance, PTL DEF ScoringSpec, Spec

(* Whatever was done to the bank in between, and however often it is       *)
(* asked, the score of an attempt is the same ("reproducible and immune to *)
(* later bank drift/deletion", app/scoring/service.go).                    *)
THEOREM ScoreNeverDrifts == ScoringSpec => ScoreIsFrozen
<1> DEFINE Same == report.score # <<>> /\ report'.score # <<>> => report'.score = report.score
<1>1. ScoringInv /\ ScoringInv' /\ [ScoringNext]_scoringVars => Same
  <2> SUFFICES ASSUME ScoringInv, ScoringInv', ScoringNext, report.score # <<>>, report'.score # <<>>
               PROVE  report'.score = report.score
    BY DEF scoringVars
  <2>1. attempt # Absent /\ attempt.state = "completed"
    BY DEF ScoringInv, ScoresTheCompleted
  <2>2. ~Take
    BY <2>1, TakeLeavesTheEnded DEF ScoringInv
  <2>3. attempt' = attempt
    BY <2>2 DEF ScoringNext, EditBank, AskScore, ReadItem, ReadFails, Reply
  <2>4. report.score = <<Score(attempt.responses)>> /\ report'.score = <<Score(attempt'.responses)>>
    BY DEF ScoringInv, ScoresTheCompleted
  <2>5. QED
    BY <2>3, <2>4
<1>2. [][Same]_scoringVars => ScoreIsFrozen
  BY DEF ScoreIsFrozen
<1>3. QED
  BY <1>1, <1>2, ScoringInvariance, PTL DEF ScoringSpec

(* A report adds up, and of an item nobody touched it shows what was given *)
(* and what was right, in agreement with the grade it was scored by.       *)
THEOREM FeedbackAddsUp == ScoringSpec => []FeedbackIsHonest
<1>1. ScoringInv => FeedbackIsHonest
  <2> DEFINE lines == report.lines
             rs == attempt.responses
             honest(k) ==
                 /\ lines[k].item \in DOMAIN bank
                 /\ lines[k].given = lines[k].answer => lines[k].correct
                 /\ lines[k].correct => \/ lines[k].given = lines[k].answer
                                        \/ bank[lines[k].item].tolerance > 0
             AddsUp == /\ report.score[1].max = Len(lines)
                       /\ report.score[1].raw = Cardinality({k \in DOMAIN lines : lines[k].correct})
                       /\ report.degraded = Cardinality({k \in DOMAIN lines : lines[k].answer = ""})
  <2> SUFFICES ASSUME ScoringInv
               PROVE  /\ \A k \in DOMAIN lines : lines[k].item \notin stale => honest(k)
                      /\ report.phase = "done" => AddsUp
    BY DEF FeedbackIsHonest
  <2>1. CASE report.score = <<>>
    <3>1. lines = <<>> /\ report.phase # "done"
      BY <2>1 DEF ScoringInv, ScoresTheCompleted
    <3>2. DOMAIN lines = {}
      BY <3>1
    <3>3. QED
      BY <3>1, <3>2
  <2>2. CASE report.score # <<>>
    <3>1. /\ attempt # Absent /\ rs \in Seq(Response)
          /\ lines \in Seq({lines[k] : k \in DOMAIN lines}) /\ Len(lines) <= Len(rs)
      BY <2>2 DEF ScoringInv, ScoresTheCompleted, LinesAreOfResponses, TypeOK, Sessions
    <3>2. /\ Len(lines) \in Nat /\ DOMAIN lines = 1..Len(lines) /\ DOMAIN rs = 1..Len(rs)
          /\ DOMAIN lines \subseteq DOMAIN rs
      BY <3>1
    <3>3. ASSUME NEW k \in DOMAIN lines, lines[k].item \notin stale
          PROVE  honest(k)
      <4> DEFINE item == rs[k].item
                 ans == rs[k].ans
      <4>1. k \in DOMAIN rs /\ ans \in Answers
        <5>1. k \in DOMAIN rs
          BY <3>2
        <5>2. rs[k] \in Response
          BY <3>1, <5>1
        <5>3. QED
          BY <5>1, <5>2 DEF Response
      <4>2. /\ lines[k].item = item /\ lines[k].correct = rs[k].correct
            /\ lines[k].given = Field(bank[item], ans)
            /\ lines[k].answer = Field(bank[item], bank[item].key)
        BY <2>2, <3>3 DEF ScoringInv, LinesAreOfResponses
      <4>3. item \in DOMAIN bank /\ rs[k].correct = Grade(bank[item], ans)
        BY <3>1, <3>3, <4>1, <4>2 DEF ScoringInv, GradedByBank
      <4>4. /\ Field(bank[item], ans) = Field(bank[item], bank[item].key) => Grade(bank[item], ans)
            /\ Grade(bank[item], ans) => \/ Field(bank[item], ans) = Field(bank[item], bank[item].key)
                                         \/ bank[item].tolerance > 0
        BY <4>1, <4>3, ShownAsGraded DEF ScoringInv
      <4>5. QED
        BY <4>2, <4>3, <4>4
    <3>4. ASSUME report.phase = "done" PROVE AddsUp
      <4>1. Len(lines) = Len(rs) /\ report.degraded = Cardinality({k \in DOMAIN lines : lines[k].answer = ""})
        BY <2>2, <3>4 DEF ScoringInv, LinesAreOfResponses
      <4>2. report.score[1] = Score(rs)
        BY <2>2 DEF ScoringInv, ScoresTheCompleted
      <4>3. Score(rs).raw = CountCorrect(rs) /\ Score(rs).max = Len(rs)
        BY DEF Score
      <4>4. {k \in DOMAIN lines : lines[k].correct} = {k \in DOMAIN rs : rs[k].correct}
        <5>1. \A k \in DOMAIN lines : lines[k].correct = rs[k].correct
          BY <2>2 DEF ScoringInv, LinesAreOfResponses
        <5>2. DOMAIN lines = DOMAIN rs
          BY <3>2, <4>1
        <5>3. QED
          BY <5>1, <5>2
      <4>5. QED
        BY <4>1, <4>2, <4>3, <4>4 DEF CountCorrect
    <3>5. QED
      BY <3>3, <3>4
  <2>3. QED
    BY <2>1, <2>2
<1>2. QED
  BY <1>1, ScoringInvariance, PTL
-----------------------------------------------------------------------------
(* The estimate of an ability *)

LEMMA ResponsesFacts ==
    ASSUME NEW rs \in Seq(Response)
    PROVE  /\ Len(rs) \in Nat /\ DOMAIN rs = 1..Len(rs)
           /\ \A k \in 1..Len(rs) : rs[k] \in Response /\ Band[rs[k].item] \in Nat
           /\ IsFiniteSet(BandsOf(rs)) /\ BandsOf(rs) \subseteq Nat
           /\ rs # <<>> => 1 \in DOMAIN rs /\ BandsOf(rs) # {}
<1>1. Len(rs) \in Nat /\ DOMAIN rs = 1..Len(rs) /\ \A k \in 1..Len(rs) : rs[k] \in Response
  BY LenProperties, ElementOfSeq
<1>2. \A k \in 1..Len(rs) : Band[rs[k].item] \in Nat
  <2>1. \A r \in Response : r.item \in Items
    BY DEF Response
  <2>2. \A i \in Items : Band[i] \in Nat
    BY PlanAssumption
  <2>3. QED
    BY <1>1, <2>1, <2>2
<1>3. IsFiniteSet(BandsOf(rs)) /\ BandsOf(rs) \subseteq Nat
  <2> DEFINE band == [k \in DOMAIN rs |-> Band[rs[k].item]]
  <2>1. IsFiniteSet(DOMAIN rs)
    BY <1>1, FS_Interval
  <2>2. band \in Surjection(DOMAIN rs, BandsOf(rs))
    BY DEF Surjection, BandsOf
  <2>3. IsFiniteSet(BandsOf(rs))
    BY <2>1, <2>2, FS_Surjection
  <2>4. QED
    BY <1>1, <1>2, <2>3 DEF BandsOf
<1>4. rs # <<>> => 1 \in DOMAIN rs /\ BandsOf(rs) # {}
  <2>1. rs # <<>> => 1 \in DOMAIN rs
    BY <1>1
  <2>2. QED
    BY <2>1 DEF BandsOf
<1>5. QED
  BY <1>1, <1>2, <1>3, <1>4

LEMMA BandsBounded ==
    ASSUME NEW rs \in Seq(Response), rs # <<>>
    PROVE  /\ Min(BandsOf(rs)) \in BandsOf(rs) /\ Max(BandsOf(rs)) \in BandsOf(rs)
           /\ Min(BandsOf(rs)) \in Nat /\ Max(BandsOf(rs)) \in Nat
           /\ \A k \in DOMAIN rs : Min(BandsOf(rs)) <= Band[rs[k].item] /\ Band[rs[k].item] <= Max(BandsOf(rs))
<1>1. IsFiniteSet(BandsOf(rs)) /\ BandsOf(rs) \in SUBSET Nat /\ BandsOf(rs) # {}
  BY ResponsesFacts
<1>2. \A k \in DOMAIN rs : Band[rs[k].item] \in BandsOf(rs)
  BY DEF BandsOf
<1>3. /\ Min(BandsOf(rs)) \in BandsOf(rs) /\ Max(BandsOf(rs)) \in BandsOf(rs)
      /\ \A b \in BandsOf(rs) : Min(BandsOf(rs)) <= b /\ b <= Max(BandsOf(rs))
  BY <1>1, MinIsLeast, MaxIsGreatest
<1>4. QED
  BY <1>1, <1>2, <1>3

(* The responses of one section are some of all responses, in their order. *)
AnsweredIn(rs, s) == {k \in DOMAIN rs : rs[k].section = s}

LEMMA SectionResponses ==
    ASSUME NEW rs \in Seq(Response), NEW s
    PROVE  /\ InOneSection(rs, s) \in Seq(Response)
           /\ Len(InOneSection(rs, s)) = Cardinality(AnsweredIn(rs, s))
           /\ Cardinality(AnsweredIn(rs, s)) \in Nat
           /\ \A n \in DOMAIN InOneSection(rs, s) : \E k \in DOMAIN rs : InOneSection(rs, s)[n] = rs[k]
           /\ AnsweredIn(rs, s) # {} => InOneSection(rs, s) # <<>>
<1> DEFINE K == AnsweredIn(rs, s)
<1>1. K \in SUBSET (DOMAIN rs) /\ InOneSection(rs, s) = Picked(rs, K)
  BY DEF InOneSection, AnsweredIn
<1> HIDE DEF K
<1>2. /\ Picked(rs, K) \in Seq(Response) /\ Len(Picked(rs, K)) = Cardinality(K)
      /\ Cardinality(K) \in Nat /\ DOMAIN Picked(rs, K) = 1..Cardinality(K)
      /\ \A n \in 1..Cardinality(K) : Place(K, n) \in K /\ Picked(rs, K)[n] = rs[Place(K, n)]
  BY <1>1, PickedFacts
<1>3. K # {} => Cardinality(K) # 0
  <2>1. IsFiniteSet(K)
    <3>1. IsFiniteSet(DOMAIN rs)
      BY ResponsesFacts, FS_Interval
    <3>2. QED
      BY <1>1, <3>1, FS_Subset
  <2>2. QED
    BY <2>1, FS_EmptySet
<1>4. \A n \in DOMAIN Picked(rs, K) : \E k \in DOMAIN rs : Picked(rs, K)[n] = rs[k]
  BY <1>1, <1>2
<1>5. K # {} => Picked(rs, K) # <<>>
  BY <1>2, <1>3
<1>6. QED
  BY <1>1, <1>2, <1>4, <1>5 DEF K

(* The estimate of one staircase lies within its bands, and at the hardest *)
(* of them when everything was right.                                      *)
LEMMA StaircaseWithinBands ==
    ASSUME NEW rs \in Seq(Response), rs # <<>>,
           NEW lo \in Nat, NEW hi \in Nat,
           \A k \in DOMAIN rs : lo <= Band[rs[k].item] /\ Band[rs[k].item] <= hi
    PROVE  LET est == AbilityFromStaircase(rs)
           IN  /\ est \in Fractions /\ lo * est[2] <= est[1] /\ est[1] <= hi * est[2]
               /\ (\A k \in DOMAIN rs : rs[k].correct) => est = <<Max(BandsOf(rs)), 1>>
<1> DEFINE est == AbilityFromStaircase(rs)
           K == Reversals(rs)
           turns == Picked(rs, K)
           N == Len(turns)
           bands == [n \in 1..N |-> Band[turns[n].item]]
<1>1. K \in SUBSET (DOMAIN rs)
  BY DEF Reversals
<1>2. /\ turns \in Seq(Response) /\ N = Cardinality(K) /\ N \in Nat /\ DOMAIN turns = 1..N
      /\ \A n \in 1..N : \E k \in DOMAIN rs : turns[n] = rs[k]
  <2> HIDE DEF K
  <2>1. QED
    BY <1>1, PickedFacts
<1>3. IsFiniteSet(K)
  <2>1. IsFiniteSet(DOMAIN rs)
    BY ResponsesFacts, FS_Interval
  <2>2. QED
    BY <1>1, <2>1, FS_Subset
<1>4. CASE K # {}
  <2>1. N >= 1
    BY <1>2, <1>3, <1>4, FS_EmptySet
  <2>2. est = <<Total(bands), N>>
    BY <1>4 DEF AbilityFromStaircase
  <2>3. \A n \in 1..N : lo <= Band[turns[n].item] /\ Band[turns[n].item] <= hi /\ Band[turns[n].item] \in Nat
    BY <1>2, ResponsesFacts
  <2> HIDE DEF K, turns, N
  <2>4. /\ bands \in Seq(Int) /\ Len(bands) = N
        /\ \A n \in 1..N : lo <= bands[n] /\ bands[n] <= hi
    <3>1. bands \in [1..N -> Int]
      BY <2>3
    <3>2. bands \in Seq(Int)
      BY <1>2, <3>1, SeqDef
    <3>3. DOMAIN bands = 1..N /\ \A n \in 1..N : bands[n] = Band[turns[n].item]
      OBVIOUS
    <3> HIDE DEF bands
    <3>4. Len(bands) = N
      BY <1>2, <3>2, <3>3, LenProperties
    <3>5. QED
      BY <2>3, <3>2, <3>3, <3>4
  <2> HIDE DEF bands
  <2>5. Total(bands) \in Int /\ lo * N <= Total(bands) /\ Total(bands) <= hi * N
    <3>1. lo \in Int /\ hi \in Int /\ \A n \in 1..Len(bands) : lo <= bands[n] /\ bands[n] <= hi
      BY <2>4
    <3>2. /\ Total(bands) \in Int /\ lo * Len(bands) <= Total(bands)
          /\ Total(bands) <= hi * Len(bands)
      BY <2>4, <3>1, TotalBounds
    <3>3. QED
      BY <2>4, <3>2
  <2>6. ~ \A k \in DOMAIN rs : rs[k].correct
    <3>1. PICK k \in DOMAIN rs \ {1} : rs[k].correct # rs[k - 1].correct
      BY <1>4 DEF K, Reversals
    <3>2. k \in DOMAIN rs /\ k - 1 \in DOMAIN rs
      <4>1. DOMAIN rs = 1..Len(rs) /\ Len(rs) \in Nat
        BY ResponsesFacts
      <4>2. QED
        BY <4>1
    <3>3. rs[k].correct \in BOOLEAN /\ rs[k - 1].correct \in BOOLEAN
      <4>1. rs[k] \in Response /\ rs[k - 1] \in Response
        BY <3>2, ResponsesFacts
      <4>2. QED
        BY <4>1 DEF Response
    <3>4. QED
      BY <3>1, <3>2, <3>3
  <2>7. est \in Fractions /\ est[1] = Total(bands) /\ est[2] = N
    <3> HIDE DEF est
    <3>1. QED
      BY <1>2, <2>1, <2>2, <2>5 DEF Fractions
  <2> HIDE DEF est
  <2>8. QED
    BY <2>5, <2>6, <2>7 DEF est
<1>5. CASE K = {}
  <2> DEFINE most == Max(BandsOf(rs))
             least == Min(BandsOf(rs))
  <2>1. est = IF rs[1].correct THEN <<most, 1>> ELSE <<least, 1>>
    BY <1>5 DEF AbilityFromStaircase
  <2>2. /\ most \in Nat /\ least \in Nat
        /\ lo <= most /\ most <= hi /\ lo <= least /\ least <= hi
    <3>1. most \in BandsOf(rs) /\ least \in BandsOf(rs) /\ most \in Nat /\ least \in Nat
      BY BandsBounded
    <3>2. \A b \in BandsOf(rs) : lo <= b /\ b <= hi
      BY DEF BandsOf
    <3>3. QED
      BY <3>1, <3>2
  <2>3. 1 \in DOMAIN rs
    BY ResponsesFacts
  <2> HIDE DEF most, least, est
  <2>4. PICK b \in Nat : est = <<b, 1>> /\ lo <= b /\ b <= hi
    BY <2>1, <2>2
  <2>5. est \in Fractions /\ est[1] = b /\ est[2] = 1
    BY <2>4 DEF Fractions
  <2>6. lo * 1 = lo /\ hi * 1 = hi
    OBVIOUS
  <2>7. (\A k \in DOMAIN rs : rs[k].correct) => est = <<most, 1>>
    BY <2>1, <2>3
  <2>8. QED
    BY <2>4, <2>5, <2>6, <2>7 DEF est, most
<1>6. QED
  BY <1>4, <1>5

(* The sections of some responses: each once, and all of them.             *)
LEMMA SectionsFacts ==
    ASSUME NEW rs \in Seq(Response)
    PROVE  /\ Len(SectionsOf(rs)) \in Nat /\ DOMAIN SectionsOf(rs) = 1..Len(SectionsOf(rs))
           /\ \A n \in DOMAIN SectionsOf(rs) : \E k \in DOMAIN rs : SectionsOf(rs)[n] = rs[k].section
           /\ \A m, n \in DOMAIN SectionsOf(rs) : SectionsOf(rs)[m] = SectionsOf(rs)[n] => m = n
           /\ \A k \in DOMAIN rs : \E n \in DOMAIN SectionsOf(rs) : SectionsOf(rs)[n] = rs[k].section
           /\ rs # <<>> => Len(SectionsOf(rs)) >= 1
<1> DEFINE K == {k \in DOMAIN rs : \A l \in 1..(k - 1) : rs[l].section # rs[k].section}
           firsts == Picked(rs, K)
           order == [n \in 1..Cardinality(K) |-> firsts[n].section]
<1>1. SectionsOf(rs) = order
  BY DEF SectionsOf
<1>2. DOMAIN rs = 1..Len(rs) /\ Len(rs) \in Nat
  BY ResponsesFacts
<1>3. \A k \in K : k \in DOMAIN rs /\ \A l \in 1..(k - 1) : rs[l].section # rs[k].section
  OBVIOUS
<1>4. \A k \in DOMAIN rs : \E l \in K : rs[l].section = rs[k].section
  <2> SUFFICES ASSUME NEW k \in DOMAIN rs PROVE \E l \in K : rs[l].section = rs[k].section
    OBVIOUS
  <2> DEFINE S == {l \in DOMAIN rs : rs[l].section = rs[k].section}
  <2>1. S \in SUBSET Nat /\ S # {}
    BY <1>2
  <2>2. PICK l \in S : \A m \in S : l <= m
    <3> HIDE DEF S
    <3>1. QED
      BY <2>1, SmallestIn
  <2>3. \A m \in 1..(l - 1) : m \in DOMAIN rs /\ m \notin S
    BY <1>2, <2>2
  <2>4. l \in K
    BY <2>2, <2>3
  <2>5. QED
    BY <2>2, <2>4
<1>5. K \in SUBSET (DOMAIN rs) /\ K \in SUBSET (1..Len(rs))
  BY <1>2
<1> HIDE DEF K
<1>6. /\ Cardinality(K) \in Nat /\ Len(firsts) = Cardinality(K)
      /\ \A n \in 1..Cardinality(K) : Place(K, n) \in K /\ firsts[n] = rs[Place(K, n)]
  BY <1>5, PickedFacts
<1>7. /\ \A m, n \in 1..Cardinality(K) : Place(K, m) = Place(K, n) => m = n
      /\ \A k \in K : \E n \in 1..Cardinality(K) : Place(K, n) = k
  BY <1>2, <1>5, PlaceFacts
<1>8. \A k, l \in K : rs[k].section = rs[l].section => k = l
  <2> SUFFICES ASSUME NEW k \in K, NEW l \in K, rs[k].section = rs[l].section, k # l PROVE FALSE
    OBVIOUS
  <2>1. k \in Nat /\ l \in Nat /\ k >= 1 /\ l >= 1
    BY <1>2, <1>5
  <2>2. k \in 1..(l - 1) \/ l \in 1..(k - 1)
    BY <2>1
  <2>3. QED
    BY <1>3, <2>2
<1>9. \A n \in 1..Cardinality(K) : order[n] = rs[Place(K, n)].section
  BY <1>6
<1>10. DOMAIN order = 1..Cardinality(K) /\ Len(order) = Cardinality(K)
  <2>1. DOMAIN order = 1..Cardinality(K)
    OBVIOUS
  <2>2. order \in [1..Cardinality(K) -> {order[n] : n \in 1..Cardinality(K)}]
    OBVIOUS
  <2> HIDE DEF order
  <2>3. order \in Seq({order[n] : n \in 1..Cardinality(K)})
    BY <1>6, <2>2, SeqDef
  <2>4. QED
    BY <1>6, <2>1, <2>3, LenProperties
<1> HIDE DEF order, firsts
<1>11. \A n \in 1..Cardinality(K) : \E k \in DOMAIN rs : order[n] = rs[k].section
  BY <1>3, <1>6, <1>9
<1>12. \A m, n \in 1..Cardinality(K) : order[m] = order[n] => m = n
  BY <1>6, <1>7, <1>8, <1>9
<1>13. \A k \in DOMAIN rs : \E n \in 1..Cardinality(K) : order[n] = rs[k].section
  <2> SUFFICES ASSUME NEW k \in DOMAIN rs PROVE \E n \in 1..Cardinality(K) : order[n] = rs[k].section
    OBVIOUS
  <2>1. PICK l \in K : rs[l].section = rs[k].section
    BY <1>4
  <2>2. PICK n \in 1..Cardinality(K) : Place(K, n) = l
    BY <1>7
  <2>3. QED
    BY <1>9, <2>1, <2>2
<1>14. rs # <<>> => Cardinality(K) >= 1
  <2>1. rs # <<>> => \E n \in 1..Cardinality(K) : TRUE
    BY <1>13, ResponsesFacts
  <2>2. QED
    BY <1>6, <2>1
<1>15. QED
  BY <1>1, <1>6, <1>10, <1>11, <1>12, <1>13, <1>14

(* To add up over the sections, each as often as it was answered in, is to *)
(* add up over the responses.                                              *)
Weighed(rs, v) ==
    [n \in 1..Len(SectionsOf(rs)) |-> v[SectionsOf(rs)[n]] * Len(InOneSection(rs, SectionsOf(rs)[n]))]

OfEach(rs, v) == [k \in 1..Len(rs) |-> v[rs[k].section]]

LEMMA BySections ==
    ASSUME NEW rs \in Seq(Response), NEW v, \A k \in DOMAIN rs : v[rs[k].section] \in Int
    PROVE  /\ Weighed(rs, v) \in Seq(Int) /\ Len(Weighed(rs, v)) = Len(SectionsOf(rs))
           /\ OfEach(rs, v) \in Seq(Int) /\ Len(OfEach(rs, v)) = Len(rs)
           /\ Total(Weighed(rs, v)) = Total(OfEach(rs, v))
<1> DEFINE order == SectionsOf(rs)
           M == Len(order)
           L == Len(rs)
           count(n) == Len(InOneSection(rs, order[n]))
           weighed == [n \in 1..M |-> v[order[n]] * count(n)]
           each == [k \in 1..L |-> v[rs[k].section]]
           Among(m) == {k \in 1..L : \E n \in 1..m : order[n] = rs[k].section}
           first(m) == [k \in 1..L |-> IF k \in Among(m) THEN v[rs[k].section] ELSE 0]
           there(m) == [k \in 1..L |-> IF rs[k].section = order[m] THEN v[order[m]] ELSE 0]
<1>1. /\ M \in Nat /\ L \in Nat /\ DOMAIN rs = 1..L
      /\ \A n \in 1..M : \E k \in 1..L : order[n] = rs[k].section
      /\ \A m, n \in 1..M : order[m] = order[n] => m = n
      /\ \A k \in 1..L : \E n \in 1..M : order[n] = rs[k].section
  <2>1. L \in Nat /\ DOMAIN rs = 1..L
    BY ResponsesFacts
  <2>2. M \in Nat /\ DOMAIN order = 1..M /\ M = Len(order)
    BY SectionsFacts
  <2>3. /\ \A n \in DOMAIN order : \E k \in DOMAIN rs : order[n] = rs[k].section
        /\ \A m, n \in DOMAIN order : order[m] = order[n] => m = n
        /\ \A k \in DOMAIN rs : \E n \in DOMAIN order : order[n] = rs[k].section
    BY SectionsFacts, Zenon
  <2>4. QED
    BY <2>1, <2>2, <2>3
<1>2. \A n \in 1..M : v[order[n]] \in Int
  BY <1>1
<1>3. \A n \in 1..M : count(n) \in Nat /\ count(n) = Cardinality(AnsweredIn(rs, order[n]))
  BY SectionResponses
<1>a. weighed = Weighed(rs, v) /\ each = OfEach(rs, v)
  BY DEF Weighed, OfEach
<1> HIDE DEF order, count, M
<1>4. \A n \in 1..M : v[order[n]] * count(n) \in Int
  <2>1. \A a \in Int, b \in Nat : a * b \in Int
    OBVIOUS
  <2>2. QED
    BY <1>2, <1>3, <2>1
<1>5. ASSUME NEW f, NEW N \in Nat, f = [k \in 1..N |-> f[k]], \A k \in 1..N : f[k] \in Int
      PROVE  f \in Seq(Int) /\ Len(f) = N
  <2>1. f \in [1..N -> Int] /\ DOMAIN f = 1..N
    BY <1>5
  <2>2. f \in Seq(Int)
    BY <2>1, SeqDef
  <2>3. QED
    BY <2>1, <2>2, LenProperties
<1>6. weighed \in Seq(Int) /\ Len(weighed) = M
  <2>1. weighed = [n \in 1..M |-> weighed[n]] /\ \A n \in 1..M : weighed[n] \in Int
    BY <1>4
  <2> HIDE DEF weighed
  <2>2. QED
    BY <1>1, <1>5, <2>1
<1>7. each \in Seq(Int) /\ Len(each) = L
  <2>1. each = [k \in 1..L |-> each[k]] /\ \A k \in 1..L : each[k] \in Int
    BY <1>1
  <2> HIDE DEF each
  <2>2. QED
    BY <1>1, <1>5, <2>1
<1>8. \A m : first(m) \in Seq(Int) /\ Len(first(m)) = L
  <2> TAKE m
  <2> DEFINE f == first(m)
  <2>1. f = [k \in 1..L |-> f[k]] /\ \A k \in 1..L : f[k] \in Int
    BY <1>1
  <2> HIDE DEF f
  <2>2. f \in Seq(Int) /\ Len(f) = L
    BY <1>1, <1>5, <2>1
  <2>3. QED
    BY <2>2 DEF f
<1>9. \A m \in 1..M : there(m) \in Seq(Int) /\ Len(there(m)) = L
  <2> TAKE m \in 1..M
  <2> DEFINE f == there(m)
  <2>1. f = [k \in 1..L |-> f[k]] /\ \A k \in 1..L : f[k] \in Int
    BY <1>2
  <2> HIDE DEF f
  <2>2. f \in Seq(Int) /\ Len(f) = L
    BY <1>1, <1>5, <2>1
  <2>3. QED
    BY <2>2 DEF f
<1> DEFINE T == {m \in 0..M : Sums(weighed)[m] = Total(first(m))}
<1>10. 0 \in T
  <2> DEFINE f == first(0)
  <2>1. \A k \in 1..L : f[k] = IF k \in {} THEN 0 ELSE 0
    OBVIOUS
  <2>2. f \in Seq(Int) /\ Len(f) = L
    BY <1>8
  <2> HIDE DEF f
  <2>3. {} \in SUBSET (1..Len(f)) /\ (\A k \in 1..Len(f) : f[k] = IF k \in {} THEN 0 ELSE 0) /\ 0 \in Int
    BY <2>1, <2>2
  <2>4. Total(f) = Cardinality({}) * 0
    BY <2>2, <2>3, TotalAtPlaces
  <2>5. Total(f) = 0
    BY <2>4, FS_EmptySet
  <2> HIDE DEF weighed
  <2>6. Sums(weighed)[0] = 0
    BY <1>6, SumsStep
  <2>7. 0 \in 0..M
    BY <1>1
  <2>8. QED
    BY <2>5, <2>6, <2>7 DEF f
<1>11. \A m \in 1..M : m - 1 \in T => m \in T
  <2> SUFFICES ASSUME NEW m \in 1..M, m - 1 \in T PROVE m \in T
    OBVIOUS
  <2> DEFINE f == first(m - 1)
             g == there(m)
             h == first(m)
             K == AnsweredIn(rs, order[m])
  <2>1. \A k \in 1..L : k \in Among(m) <=> k \in Among(m - 1) \/ rs[k].section = order[m]
    <3>1. 1..m = (1..(m - 1)) \cup {m}
      BY <1>1
    <3>2. QED
      BY <3>1
  <2>2. \A k \in 1..L : k \in Among(m - 1) => rs[k].section # order[m]
    <3>1. \A n \in 1..(m - 1) : n \in 1..M /\ n # m
      BY <1>1
    <3>2. QED
      BY <1>1, <3>1
  <2>3. \A k \in 1..L : h[k] = f[k] + g[k]
    <3> SUFFICES ASSUME NEW k \in 1..L PROVE h[k] = f[k] + g[k]
      OBVIOUS
    <3> HIDE DEF Among
    <3>1. v[rs[k].section] \in Int
      BY <1>1
    <3>2. /\ h[k] = IF k \in Among(m) THEN v[rs[k].section] ELSE 0
          /\ f[k] = IF k \in Among(m - 1) THEN v[rs[k].section] ELSE 0
          /\ g[k] = IF rs[k].section = order[m] THEN v[rs[k].section] ELSE 0
      OBVIOUS
    <3> HIDE DEF f, g, h
    <3>3. QED
      BY <2>1, <2>2, <3>1, <3>2
  <2>4. /\ f \in Seq(Int) /\ g \in Seq(Int) /\ h \in Seq(Int)
        /\ Len(f) = L /\ Len(g) = L /\ Len(h) = L
    BY <1>8, <1>9
  <2>5. \A k \in 1..L : g[k] = IF k \in K THEN v[order[m]] ELSE 0
    BY <1>1 DEF AnsweredIn
  <2>6. K \in SUBSET (1..L)
    BY <1>1 DEF AnsweredIn
  <2>7. Sums(weighed)[m - 1] = Total(f) /\ m \in 0..M
    <3>1. m \in 0..M
      BY <1>1
    <3>2. QED
      BY <3>1
  <2>8. weighed[m] = v[order[m]] * count(m)
    OBVIOUS
  <2> HIDE DEF f, g, h, weighed
  <2>9. Total(h) = Total(f) + Total(g)
    BY <2>3, <2>4, TotalsAdd
  <2>10. Total(g) = v[order[m]] * count(m)
    <3>1. v[order[m]] \in Int /\ count(m) \in Nat /\ count(m) = Cardinality(K)
      BY <1>2, <1>3
    <3> HIDE DEF K
    <3>2. Total(g) = Cardinality(K) * v[order[m]]
      BY <2>4, <2>5, <2>6, <3>1, TotalAtPlaces
    <3>3. \A a \in Int, b \in Nat : b * a = a * b
      OBVIOUS
    <3>4. QED
      BY <3>1, <3>2, <3>3
  <2>11. Sums(weighed)[m] = Sums(weighed)[m - 1] + weighed[m]
    BY <1>6, SumsStep
  <2>12. Sums(weighed)[m] = Total(h)
    BY <2>7, <2>8, <2>9, <2>10, <2>11
  <2>13. QED
    BY <2>7, <2>12 DEF h
<1>12. Total(weighed) = Total(first(M))
  <2> HIDE DEF T
  <2>1. \A m \in 0..M : m \in T
    BY <1>1, <1>10, <1>11, Rounds
  <2>2. Sums(weighed)[M] = Total(first(M))
    <3>1. M \in 0..M
      BY <1>1
    <3>2. M \in T
      BY <2>1, <3>1
    <3>3. QED
      BY <3>2 DEF T
  <2> HIDE DEF weighed
  <2>3. Total(weighed) = Sums(weighed)[M]
    BY <1>6, SumsStep
  <2>4. QED
    BY <2>2, <2>3
<1>13. first(M) = each
  <2>1. \A k \in 1..L : k \in Among(M)
    BY <1>1
  <2> HIDE DEF Among
  <2>2. QED
    BY <2>1
<1>14. QED
  <2> HIDE DEF weighed, each
  <2>1. QED
    BY <1>6, <1>7, <1>12, <1>13, <1>a DEF order, M

(* The ability over the sections: a fraction within the bands delivered,   *)
(* and when everything was right the mean of the hardest bands.            *)
LEMMA AbilityFacts ==
    ASSUME NEW rs \in Seq(Response), rs # <<>>
    PROVE  LET x    == AbilityOf(rs)
               best == [k \in 1..Len(rs) |-> Max(BandsOf(InOneSection(rs, rs[k].section)))]
           IN  /\ x[1] \in Int /\ x[2] \in Nat \ {0}
               /\ Min(BandsOf(rs)) * x[2] <= x[1] /\ x[1] <= Max(BandsOf(rs)) * x[2]
               /\ (\A k \in DOMAIN rs : rs[k].correct) => x[1] * Len(rs) = x[2] * Total(best)
<1> DEFINE order == SectionsOf(rs)
           M == Len(order)
           L == Len(rs)
           part(n) == InOneSection(rs, order[n])
           count(n) == Len(part(n))
           est(n) == AbilityFromStaircase(part(n))
           lo == Min(BandsOf(rs))
           hi == Max(BandsOf(rs))
           x == [n \in 1..M |-> <<est(n)[1] * count(n), est(n)[2]>>]
           counts == [n \in 1..M |-> count(n)]
           W == FractionTotal(x)
           C == Total(counts)
<1>1. AbilityOf(rs) = <<W[1], W[2] * C>>
  BY DEF AbilityOf
<1>2. /\ M \in Nat /\ M >= 1 /\ L \in Nat /\ DOMAIN rs = 1..L /\ L >= 1
      /\ \A n \in 1..M : \E k \in DOMAIN rs : order[n] = rs[k].section
  <2>1. L \in Nat /\ DOMAIN rs = 1..L /\ 1 \in DOMAIN rs
    BY ResponsesFacts
  <2>2. M \in Nat /\ DOMAIN order = 1..M /\ M >= 1
    BY SectionsFacts
  <2>3. \A n \in DOMAIN order : \E k \in DOMAIN rs : order[n] = rs[k].section
    BY SectionsFacts, Zenon
  <2>4. QED
    BY <2>1, <2>2, <2>3
<1>3. lo \in Nat /\ hi \in Nat /\ \A k \in DOMAIN rs : lo <= Band[rs[k].item] /\ Band[rs[k].item] <= hi
  BY BandsBounded
<1>4. ASSUME NEW n \in 1..M
      PROVE  /\ part(n) \in Seq(Response) /\ part(n) # <<>> /\ count(n) \in Nat
             /\ \A k \in DOMAIN part(n) : \E l \in DOMAIN rs : part(n)[k] = rs[l]
  <2>1. AnsweredIn(rs, order[n]) # {}
    BY <1>2 DEF AnsweredIn
  <2> HIDE DEF order
  <2>2. QED
    BY <2>1, SectionResponses
<1>5. ASSUME NEW n \in 1..M
      PROVE  /\ est(n) \in Fractions /\ est(n)[1] \in Int /\ est(n)[2] \in Nat
             /\ lo * est(n)[2] <= est(n)[1] /\ est(n)[1] <= hi * est(n)[2]
             /\ (\A k \in DOMAIN rs : rs[k].correct) => est(n) = <<Max(BandsOf(part(n))), 1>>
  <2> DEFINE p == part(n)
  <2>1. /\ p \in Seq(Response) /\ p # <<>>
        /\ \A k \in DOMAIN p : lo <= Band[p[k].item] /\ Band[p[k].item] <= hi
        /\ (\A k \in DOMAIN rs : rs[k].correct) => \A k \in DOMAIN p : p[k].correct
    BY <1>3, <1>4, Zenon
  <2> HIDE DEF p, lo, hi
  <2>2. LET e == AbilityFromStaircase(p)
        IN  /\ e \in Fractions /\ lo * e[2] <= e[1] /\ e[1] <= hi * e[2]
            /\ (\A k \in DOMAIN p : p[k].correct) => e = <<Max(BandsOf(p)), 1>>
    BY <1>3, <2>1, StaircaseWithinBands
  <2>3. \A e \in Fractions : e[1] \in Int /\ e[2] \in Nat
    BY DEF Fractions
  <2>4. QED
    BY <2>1, <2>2, <2>3 DEF p
<1> HIDE DEF lo, hi, order, part, M, L
<1>6. ASSUME NEW n \in 1..M
      PROVE  /\ x[n] \in Fractions /\ x[n][1] = est(n)[1] * count(n) /\ x[n][2] = est(n)[2]
             /\ (lo * count(n)) * x[n][2] <= x[n][1] /\ x[n][1] <= (hi * count(n)) * x[n][2]
  <2> DEFINE e == est(n)
             c == count(n)
  <2>1. /\ e \in Fractions /\ e[1] \in Int /\ e[2] \in Nat \ {0} /\ c \in Nat
        /\ lo * e[2] <= e[1] /\ e[1] <= hi * e[2]
    BY <1>4, <1>5 DEF Fractions
  <2>2. x[n] = <<e[1] * c, e[2]>>
    OBVIOUS
  <2> HIDE DEF e, c, x
  <2>3. \A a \in Int, b \in Nat : a * b \in Int
    OBVIOUS
  <2>4. x[n] \in Fractions /\ x[n][1] = e[1] * c /\ x[n][2] = e[2]
    BY <2>1, <2>2, <2>3 DEF Fractions
  <2>5. \A a, b \in Int, m \in Nat : a <= b => a * m <= b * m
    OBVIOUS
  <2>6. \A a, b, m \in Nat : a * b \in Int /\ (a * b) * m = (a * m) * b
    OBVIOUS
  <2>7. lo * e[2] \in Int /\ hi * e[2] \in Int
    BY <1>3, <2>1, <2>6
  <2>8. (lo * e[2]) * c <= e[1] * c /\ e[1] * c <= (hi * e[2]) * c
    BY <2>1, <2>5, <2>7
  <2>9. (lo * e[2]) * c = (lo * c) * e[2] /\ (hi * e[2]) * c = (hi * c) * e[2]
    BY <1>3, <2>1, <2>6
  <2>10. QED
    BY <2>4, <2>8, <2>9 DEF e, c
<1>7. x \in Seq(Fractions) /\ Len(x) = M
  <2>1. x \in [1..M -> Fractions] /\ DOMAIN x = 1..M
    BY <1>6
  <2> HIDE DEF x
  <2>2. x \in Seq(Fractions)
    BY <1>2, <2>1, SeqDef
  <2>3. QED
    BY <1>2, <2>1, <2>2, LenProperties
<1>8. counts \in Seq(Int) /\ Len(counts) = M /\ \A n \in 1..M : counts[n] = count(n)
  <2>1. counts \in [1..M -> Int] /\ DOMAIN counts = 1..M /\ \A n \in 1..M : counts[n] = count(n)
    BY <1>4
  <2> HIDE DEF counts
  <2>2. counts \in Seq(Int)
    BY <1>2, <2>1, SeqDef
  <2>3. QED
    BY <1>2, <2>1, <2>2, LenProperties
<1>9. C = L
  <2> DEFINE one == [s \in {rs[k].section : k \in DOMAIN rs} |-> 1]
             weighed == [n \in 1..M |-> one[order[n]] * count(n)]
             each == [k \in 1..L |-> one[rs[k].section]]
  <2>1. \A k \in DOMAIN rs : one[rs[k].section] = 1
    OBVIOUS
  <2>2. \A n \in 1..M : one[order[n]] = 1
    BY <1>2, <2>1
  <2> HIDE DEF one
  <2>3. /\ weighed \in Seq(Int) /\ Len(weighed) = M /\ each \in Seq(Int) /\ Len(each) = L
        /\ Total(weighed) = Total(each)
    <3>1. weighed = Weighed(rs, one) /\ each = OfEach(rs, one)
      BY DEF Weighed, OfEach, M, order, L, part
    <3>2. \A k \in DOMAIN rs : one[rs[k].section] \in Int
      BY <2>1
    <3> HIDE DEF weighed, each
    <3>3. QED
      BY <3>1, <3>2, BySections DEF M, order, L
  <2>4. weighed = counts
    <3>1. \A n \in 1..M : one[order[n]] * count(n) = count(n)
      BY <1>4, <2>2
    <3>2. QED
      BY <3>1
  <2>5. Total(each) = L
    <3> DEFINE K == 1..L
    <3>1. \A k \in 1..L : each[k] = IF k \in K THEN 1 ELSE 0
      BY <1>2, <2>1
    <3>2. Cardinality(K) = L /\ K \in SUBSET (1..L)
      <4>1. 1 \in Int /\ L \in Int
        BY <1>2
      <4>2. Cardinality(1..L) = IF 1 > L THEN 0 ELSE L - 1 + 1
        BY <4>1, FS_Interval
      <4>3. QED
        BY <1>2, <4>2
    <3> HIDE DEF K, each
    <3>3. Total(each) = Cardinality(K) * 1
      BY <2>3, <3>1, <3>2, TotalAtPlaces
    <3>4. QED
      BY <1>2, <3>2, <3>3
  <2>6. QED
    BY <2>3, <2>4, <2>5
<1> HIDE DEF count, est
<1>10. W \in Fractions /\ W[1] \in Int /\ W[2] \in Nat \ {0} /\ C \in Int
  <2> HIDE DEF x, counts
  <2>1. W \in Fractions /\ C \in Int
    BY <1>7, <1>8, FractionSumsRun, SumsRun
  <2> HIDE DEF W
  <2>2. QED
    BY <2>1 DEF Fractions
<1>11. ASSUME NEW b \in Nat
       PROVE  /\ (\A n \in 1..M : (b * count(n)) * x[n][2] <= x[n][1]) => (b * C) * W[2] <= W[1]
              /\ (\A n \in 1..M : x[n][1] <= (b * count(n)) * x[n][2]) => W[1] <= (b * C) * W[2]
  <2> DEFINE w == [n \in 1..M |-> b * count(n)]
  <2>1. \A n \in 1..M : b * count(n) \in Int
    <3>1. \A a \in Nat : b * a \in Int
      OBVIOUS
    <3>2. QED
      BY <1>4, <3>1
  <2>2. w \in [1..M -> Int] /\ DOMAIN w = 1..M /\ \A n \in 1..M : w[n] = b * count(n)
    BY <2>1
  <2> HIDE DEF w, x, counts
  <2>3. w \in Seq(Int)
    BY <1>2, <2>2, SeqDef
  <2>4. Len(w) = M
    BY <1>2, <2>2, <2>3, LenProperties
  <2>5. Total(w) = b * C
    <3>1. b \in Int /\ Len(counts) = Len(w) /\ \A n \in 1..Len(counts) : w[n] = b * counts[n]
      BY <1>8, <2>2, <2>4
    <3>2. QED
      BY <1>8, <2>3, <3>1, TotalScales
  <2>6. /\ (\A n \in 1..Len(x) : w[n] * x[n][2] <= x[n][1]) => Total(w) * W[2] <= W[1]
        /\ (\A n \in 1..Len(x) : x[n][1] <= w[n] * x[n][2]) => W[1] <= Total(w) * W[2]
    BY <1>7, <2>3, <2>4, FractionsCompare
  <2>7. QED
    BY <1>7, <2>2, <2>5, <2>6
<1>12. lo * (W[2] * C) <= W[1] /\ W[1] <= hi * (W[2] * C)
  <2>1. (lo * C) * W[2] <= W[1] /\ W[1] <= (hi * C) * W[2]
    BY <1>3, <1>6, <1>11
  <2>2. \A a, b, c \in Int : (a * b) * c = a * (c * b)
    OBVIOUS
  <2> HIDE DEF W, C
  <2>3. lo \in Int /\ hi \in Int /\ W[2] \in Int
    BY <1>3, <1>10
  <2>4. (lo * C) * W[2] = lo * (W[2] * C) /\ (hi * C) * W[2] = hi * (W[2] * C)
    BY <1>10, <2>2, <2>3
  <2>5. QED
    BY <2>1, <2>4
<1>13. W[2] * C \in Nat \ {0}
  <2>1. C \in Nat \ {0}
    BY <1>2, <1>9
  <2>2. \A a, b \in Nat \ {0} : a * b \in Nat \ {0}
    <3>1. \A a, b \in Nat : a * b \in Nat /\ (a >= 1 /\ b >= 1 => a * b # 0)
      OBVIOUS
    <3>2. QED
      BY <3>1
  <2> HIDE DEF W, C
  <2>3. QED
    BY <1>10, <2>1, <2>2
<1> DEFINE best == [k \in 1..L |-> Max(BandsOf(InOneSection(rs, rs[k].section)))]
<1>14. ASSUME \A k \in DOMAIN rs : rs[k].correct
       PROVE  W[1] * L = (W[2] * C) * Total(best)
  <2> DEFINE v == [s \in {rs[k].section : k \in DOMAIN rs} |-> Max(BandsOf(InOneSection(rs, s)))]
             w == [n \in 1..M |-> v[order[n]] * count(n)]
             each == [k \in 1..L |-> v[rs[k].section]]
  <2>1. \A k \in DOMAIN rs : v[rs[k].section] = Max(BandsOf(InOneSection(rs, rs[k].section)))
    OBVIOUS
  <2>2. \A n \in 1..M : v[order[n]] = Max(BandsOf(part(n)))
    BY <1>2 DEF part
  <2>3. each = best
    BY <1>2, <2>1
  <2>4. \A k \in DOMAIN rs : v[rs[k].section] \in Int
    <3> SUFFICES ASSUME NEW k \in DOMAIN rs PROVE v[rs[k].section] \in Int
      OBVIOUS
    <3>1. AnsweredIn(rs, rs[k].section) # {}
      BY DEF AnsweredIn
    <3>2. /\ InOneSection(rs, rs[k].section) \in Seq(Response)
          /\ InOneSection(rs, rs[k].section) # <<>>
      BY <3>1, SectionResponses
    <3>3. Max(BandsOf(InOneSection(rs, rs[k].section))) \in Nat
      BY <3>2, BandsBounded
    <3>4. QED
      BY <2>1, <3>3
  <2>5. \A n \in 1..M : v[order[n]] \in Int
    BY <1>2, <2>4
  <2> HIDE DEF v
  <2>6. /\ w \in Seq(Int) /\ Len(w) = M /\ Total(w) = Total(each)
    <3>1. w = Weighed(rs, v) /\ each = OfEach(rs, v)
      BY DEF Weighed, OfEach, M, order, L, part, count
    <3> HIDE DEF w, each
    <3>2. QED
      BY <2>4, <3>1, BySections DEF M, order, L
  <2>7. \A n \in 1..M : w[n] * x[n][2] = x[n][1] /\ w[n] * x[n][2] \in Int
    <3> SUFFICES ASSUME NEW n \in 1..M PROVE w[n] * x[n][2] = x[n][1] /\ w[n] * x[n][2] \in Int
      OBVIOUS
    <3>1. est(n) = <<v[order[n]], 1>>
      BY <1>5, <1>14, <2>2
    <3>2. x[n][1] = v[order[n]] * count(n) /\ x[n][2] = 1
      BY <1>6, <3>1
    <3>3. w[n] = v[order[n]] * count(n)
      OBVIOUS
    <3>4. v[order[n]] * count(n) \in Int
      <4>1. \A a \in Int, b \in Nat : a * b \in Int
        OBVIOUS
      <4>2. QED
        BY <1>4, <2>5, <4>1
    <3>5. \A a \in Int : a * 1 = a
      OBVIOUS
    <3>6. QED
      BY <3>2, <3>3, <3>4, <3>5
  <2> HIDE DEF w, x, each, best
  <2>8. /\ (\A n \in 1..Len(x) : w[n] * x[n][2] <= x[n][1]) => Total(w) * W[2] <= W[1]
        /\ (\A n \in 1..Len(x) : x[n][1] <= w[n] * x[n][2]) => W[1] <= Total(w) * W[2]
    BY <1>7, <2>6, FractionsCompare
  <2>9. \A a \in Int : a <= a
    OBVIOUS
  <2>10. \A n \in 1..Len(x) : w[n] * x[n][2] <= x[n][1] /\ x[n][1] <= w[n] * x[n][2]
    BY <1>7, <2>7, <2>9
  <2>11. Total(w) * W[2] <= W[1] /\ W[1] <= Total(w) * W[2]
    BY <2>8, <2>10
  <2>12. Total(w) \in Int /\ Total(w) = Total(best)
    BY <2>3, <2>6, SumsRun
  <2> DEFINE t == Total(best)
  <2>13. t \in Int /\ t * W[2] <= W[1] /\ W[1] <= t * W[2]
    BY <2>11, <2>12
  <2> HIDE DEF W, C, t
  <2>14. W[1] = t * W[2]
    <3>1. W[2] \in Int
      BY <1>10
    <3>2. \A a, b \in Int : a * b \in Int
      OBVIOUS
    <3>3. t * W[2] \in Int
      BY <2>13, <3>1, <3>2
    <3>4. \A a, b \in Int : a <= b /\ b <= a => a = b
      OBVIOUS
    <3>5. QED
      BY <1>10, <2>13, <3>3, <3>4
  <2>15. \A a, b, c \in Int : (a * b) * c = (b * c) * a
    OBVIOUS
  <2>16. W[2] \in Int /\ C \in Int /\ C = L
    BY <1>9, <1>10
  <2>17. W[1] * L = (W[2] * C) * t
    BY <2>13, <2>14, <2>15, <2>16
  <2>18. QED
    BY <2>17 DEF t
<1>15. QED
  <2> HIDE DEF W, C, best
  <2> DEFINE y == AbilityOf(rs)
  <2>1. y[1] = W[1] /\ y[2] = W[2] * C
    BY <1>1
  <2> HIDE DEF y
  <2>2. /\ y[1] \in Int /\ y[2] \in Nat \ {0}
        /\ lo * y[2] <= y[1] /\ y[1] <= hi * y[2]
        /\ (\A k \in DOMAIN rs : rs[k].correct) => y[1] * L = y[2] * Total(best)
    BY <1>10, <1>12, <1>13, <1>14, <2>1
  <2>3. QED
    BY <2>2 DEF y, lo, hi, L, best

LEMMA QuotientsCompare ==
    ASSUME NEW a \in Int, NEW b \in Nat \ {0}, NEW c \in Int, NEW d \in Nat \ {0}, a * d <= c * b
    PROVE  a \div b <= c \div d /\ a \div b \in Int
<1> DEFINE q == a \div b
           r == c \div d
<1>1. q \in Int /\ q * b <= a
  OBVIOUS
<1>2. r \in Int /\ c < (r + 1) * d
  OBVIOUS
<1> HIDE DEF q, r
<1>3. \A x, y \in Int, m \in Nat : x <= y => x * m <= y * m
  OBVIOUS
<1>4. \A x, y \in Int, m \in Nat \ {0} : x < y => x * m < y * m
  OBVIOUS
<1>5. \A x, y \in Int : x * y \in Int
  OBVIOUS
<1>6. ASSUME r < q PROVE FALSE
  <2>1. r + 1 <= q /\ r + 1 \in Int /\ b \in Int /\ d \in Int /\ d \in Nat /\ b \in Nat
    BY <1>1, <1>2, <1>6
  <2>2. (r + 1) * d <= q * d /\ (r + 1) * d \in Int /\ q * d \in Int /\ q * b \in Int
    BY <1>1, <1>3, <1>5, <2>1
  <2>3. c < q * d
    BY <1>2, <2>2
  <2>4. c * b < (q * d) * b
    BY <1>4, <2>2, <2>3
  <2>5. (q * b) * d <= a * d
    BY <1>1, <1>3, <2>1, <2>2
  <2>6. (q * d) * b = (q * b) * d
    BY <1>1
  <2> DEFINE A == a * d
             B == (q * b) * d
             C == c * b
  <2>7. A \in Int /\ B \in Int /\ C \in Int /\ C < B /\ B <= A /\ A <= C
    BY <1>5, <2>1, <2>2, <2>4, <2>5, <2>6
  <2> HIDE DEF A, B, C
  <2>8. QED
    BY <2>7
<1>7. QED
  BY <1>1, <1>2, <1>6 DEF q, r

(* A higher estimate never has a lower IQ. *)
LEMMA ScaledIQRises ==
    ASSUME Normed, NEW x \in Fractions, NEW y \in Fractions, x[1] * y[2] <= y[1] * x[2]
    PROVE  ScaledIQ(x) \in Int /\ ScaledIQ(x) <= ScaledIQ(y)
<1> DEFINE sd == Norm.sd
           mean == Norm.mean
           ux == x[2] * sd
           uy == y[2] * sd
           a == 2 * (100 * ux + 15 * (x[1] - mean * x[2])) + ux
           c == 2 * (100 * uy + 15 * (y[1] - mean * y[2])) + uy
<1>1. /\ ScaledIQ(x) = Clamp(a \div (2 * ux), 40, 160)
      /\ ScaledIQ(y) = Clamp(c \div (2 * uy), 40, 160)
  BY DEF ScaledIQ
<1>2. /\ sd \in Nat \ {0} /\ mean \in Int
      /\ x[1] \in Int /\ y[1] \in Int /\ x[2] \in Nat \ {0} /\ y[2] \in Nat \ {0}
  BY NormAssumption DEF Normed, Fractions
<1> DEFINE x1 == x[1]
           x2 == x[2]
           y1 == y[1]
           y2 == y[2]
<1>3. /\ ux = x2 * sd /\ uy = y2 * sd
      /\ a = 2 * (100 * ux + 15 * (x1 - mean * x2)) + ux
      /\ c = 2 * (100 * uy + 15 * (y1 - mean * y2)) + uy
      /\ x1 \in Int /\ y1 \in Int /\ x2 \in Nat \ {0} /\ y2 \in Nat \ {0} /\ x1 * y2 <= y1 * x2
  BY <1>2
<1> HIDE DEF sd, mean, ux, uy, a, c, x1, x2, y1, y2
<1>4. \A m, n \in Int : m * n \in Int
  OBVIOUS
<1>5. \A m, n \in Nat \ {0} : m * n \in Nat \ {0}
  <2>1. \A m, n \in Nat : m * n \in Nat /\ (m >= 1 /\ n >= 1 => m * n # 0)
    OBVIOUS
  <2>2. QED
    BY <2>1
<1>6. ux \in Nat \ {0} /\ uy \in Nat \ {0} /\ 2 * ux \in Nat \ {0} /\ 2 * uy \in Nat \ {0}
  BY <1>2, <1>3, <1>5
<1>7. a \in Int /\ c \in Int
  <2>1. mean * x2 \in Int /\ mean * y2 \in Int
    BY <1>2, <1>3, <1>4
  <2>2. QED
    BY <1>3, <1>6, <2>1
<1>8. a * y2 <= c * x2
  <2> DEFINE p == x1 * y2
             q == y1 * x2
             k == (mean * x2) * y2
             l == (x2 * sd) * y2
  <2>1. p \in Int /\ q \in Int /\ k \in Int /\ l \in Int /\ p <= q
    BY <1>2, <1>3, <1>4
  <2>2. a * y2 = 201 * l + 30 * p - 30 * k
    BY <1>2, <1>3
  <2>3. c * x2 = 201 * l + 30 * q - 30 * k
    BY <1>2, <1>3
  <2> HIDE DEF p, q, k, l
  <2>4. QED
    BY <2>1, <2>2, <2>3
<1>9. a * (2 * uy) <= c * (2 * ux)
  <2> DEFINE e == 2 * sd
  <2>1. e \in Nat /\ e \in Int /\ a * y2 \in Int /\ c * x2 \in Int
    BY <1>2, <1>3, <1>4, <1>7
  <2>2. \A m, n \in Int, k \in Nat : m <= n => m * k <= n * k
    OBVIOUS
  <2>3. (a * y2) * e <= (c * x2) * e
    BY <1>8, <2>1, <2>2
  <2>4. \A m, n \in Int : m * (2 * (n * sd)) = (m * n) * (2 * sd)
    BY <1>2
  <2>5. a * (2 * uy) = (a * y2) * e /\ c * (2 * ux) = (c * x2) * e
    <3>1. y2 \in Int /\ x2 \in Int
      BY <1>3
    <3>2. a * (2 * (y2 * sd)) = (a * y2) * (2 * sd) /\ c * (2 * (x2 * sd)) = (c * x2) * (2 * sd)
      BY <1>7, <2>4, <3>1
    <3>3. QED
      BY <1>3, <3>2
  <2>6. QED
    BY <2>3, <2>5
<1> DEFINE m == a \div (2 * ux)
           n == c \div (2 * uy)
<1>10. m <= n /\ m \in Int
  BY <1>6, <1>7, <1>9, QuotientsCompare
<1>11. n \in Int
  <2>1. c * (2 * uy) <= c * (2 * uy)
    BY <1>4, <1>6, <1>7
  <2>2. QED
    BY <1>6, <1>7, <2>1, QuotientsCompare
<1> HIDE DEF m, n
<1>12. Clamp(m, 40, 160) \in Int /\ Clamp(m, 40, 160) <= Clamp(n, 40, 160)
  BY <1>10, <1>11 DEF Clamp
<1>13. QED
  BY <1>1, <1>12 DEF m, n

(* Whatever was delivered and answered: the estimate lies within the bands *)
(* delivered, its IQ within theirs, and an attempt with everything right   *)
(* has the mean of the hardest bands of its sections.                      *)
THEOREM AbilityIsWithinDelivered == ScoringSpec => []AbilityWithinDelivered
<1>1. ScoringInv => AbilityWithinDelivered
  <2> DEFINE score == report.score[1]
             rs == attempt.responses
             x == score.ability
             lo == Min(BandsOf(rs))
             hi == Max(BandsOf(rs))
             best == [k \in 1..Len(rs) |-> Max(BandsOf(InOneSection(rs, rs[k].section)))]
  <2> SUFFICES ASSUME ScoringInv, Adaptive, report.score # <<>>
               PROVE  /\ lo * x[2] <= x[1] /\ x[1] <= hi * x[2]
                      /\ Normed => score.iq \in ScaledIQ(<<lo, 1>>)..ScaledIQ(<<hi, 1>>)
                      /\ score.raw = score.max => x[1] * Len(rs) = x[2] * Total(best)
    BY DEF AbilityWithinDelivered
  <2>1. /\ attempt # Absent /\ rs \in Seq(Response) /\ rs # <<>> /\ score = Score(rs)
    <3>1. /\ attempt # Absent /\ report.score = <<Score(rs)>> /\ rs # <<>>
      BY DEF ScoringInv, ScoresTheCompleted
    <3>2. rs \in Seq(Response)
      BY <3>1 DEF ScoringInv, TypeOK, Sessions
    <3>3. QED
      BY <3>1, <3>2
  <2>2. /\ score.raw = CountCorrect(rs) /\ score.max = Len(rs) /\ x = AbilityOf(rs)
        /\ Normed => score.iq = ScaledIQ(x)
    BY <2>1 DEF Score
  <2> HIDE DEF rs, score
  <2>3. /\ x[1] \in Int /\ x[2] \in Nat \ {0}
        /\ lo * x[2] <= x[1] /\ x[1] <= hi * x[2]
        /\ (\A k \in DOMAIN rs : rs[k].correct) => x[1] * Len(rs) = x[2] * Total(best)
    BY <2>1, <2>2, AbilityFacts
  <2>4. ASSUME score.raw = score.max PROVE \A k \in DOMAIN rs : rs[k].correct
    <3>1. DOMAIN rs = 1..Len(rs) /\ Len(rs) \in Nat
      BY <2>1, ResponsesFacts
    <3>2. IsFiniteSet(1..Len(rs)) /\ Cardinality(1..Len(rs)) = Len(rs)
      <4>1. 1 \in Int /\ Len(rs) \in Int
        BY <3>1
      <4>2. /\ IsFiniteSet(1..Len(rs))
            /\ Cardinality(1..Len(rs)) = IF 1 > Len(rs) THEN 0 ELSE Len(rs) - 1 + 1
        BY <4>1, FS_Interval
      <4>3. QED
        BY <3>1, <4>2
    <3> DEFINE right == {k \in DOMAIN rs : rs[k].correct}
               all == 1..Len(rs)
    <3>3. right \in SUBSET all /\ Cardinality(right) = Cardinality(all) /\ IsFiniteSet(all)
      BY <2>2, <2>4, <3>1, <3>2 DEF CountCorrect
    <3>4. right = all
      <4> HIDE DEF right, all
      <4>1. QED
        BY <3>3, FS_Subset
    <3>5. QED
      BY <3>1, <3>4
  <2>5. ASSUME Normed PROVE score.iq \in ScaledIQ(<<lo, 1>>)..ScaledIQ(<<hi, 1>>)
    <3>1. lo \in Nat /\ hi \in Nat
      BY <2>1, BandsBounded
    <3> DEFINE y == <<x[1], x[2]>>
               u == <<lo, 1>>
               v == <<hi, 1>>
    <3>2. y \in Fractions /\ u \in Fractions /\ v \in Fractions
      BY <2>3, <3>1 DEF Fractions
    <3>3. /\ u[1] * y[2] <= y[1] * u[2] /\ y[1] * v[2] <= v[1] * y[2]
      <4>1. x[1] * 1 = x[1]
        BY <2>3
      <4>2. QED
        BY <2>3, <4>1
    <3>4. ScaledIQ(y) = ScaledIQ(x)
      BY DEF ScaledIQ
    <3> HIDE DEF y, u, v
    <3>5. /\ ScaledIQ(u) <= ScaledIQ(y) /\ ScaledIQ(y) <= ScaledIQ(v)
          /\ ScaledIQ(u) \in Int /\ ScaledIQ(y) \in Int
      BY <2>5, <3>2, <3>3, ScaledIQRises
    <3>6. ScaledIQ(v) \in Int
      <4>1. v[1] * v[2] <= v[1] * v[2]
        <5>1. \A a \in Int, b \in Nat : a * b <= a * b
          OBVIOUS
        <5>2. v[1] \in Int /\ v[2] \in Nat
          BY <3>2 DEF Fractions
        <5>3. QED
          BY <5>1, <5>2
      <4>2. QED
        BY <2>5, <3>2, <4>1, ScaledIQRises
    <3>7. score.iq \in ScaledIQ(u)..ScaledIQ(v)
      BY <2>2, <2>5, <3>4, <3>5, <3>6
    <3>8. QED
      BY <3>7 DEF u, v
  <2>6. QED
    BY <2>3, <2>4, <2>5
<1>2. QED
  BY <1>1, ScoringInvariance, PTL
=============================================================================

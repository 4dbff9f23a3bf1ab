----------------------------- MODULE PagesProofs -----------------------------
(***************************************************************************)
(* What the pages promise for any number of choices, failures and answers. *)
(* The four forms send one request at a time and have one effect per       *)
(* request: each implements Submission, hence keeps its promise.  A page   *)
(* with a choice shows the last one, an edit in two requests succeeds with *)
(* the second, and forms send what their user saw.  Lists of notices grow  *)
(* without gaps and repetitions, and their totals count resolutions once.  *)
(***************************************************************************)
EXTENDS Pages, FiniteSetTheorems, TLAPS

-----------------------------------------------------------------------------
(* The requests of a form, whichever page it is on.                        *)

\* The form was sent, and executed, but the page has no answer.
Sending == \E c \in calls : c.op = "submit"
Executed == \E c \in calls : c.op = "submit" /\ c.seen

IsCall(c) == c \in [op : {c.op}, arg : {c.arg}, seen : BOOLEAN]

\* At most one request to send the form is under way.
OneRequest ==
    /\ \A c \in calls : IsCall(c)
    /\ \A c, d \in calls : c.op = "submit" /\ d.op = "submit" => c = d

\* A request that begins.
LEMMA NewCall ==
  ASSUME NEW op, NEW arg, NEW s, s = [op |-> op, arg |-> arg, seen |-> FALSE]
  PROVE  IsCall(s) /\ s.op = op /\ ~s.seen
BY ZenonT(20) DEF IsCall

\* The form is not sent: nothing of it is under way.
LEMMA NoRequest ==
  ASSUME NEW x, IsCall(x), x.op # "submit", calls = {x}
  PROVE  OneRequest /\ ~Sending
BY ZenonT(20) DEF OneRequest, Sending

\* Sending the form when nothing of it is under way.
LEMMA FormSent ==
  ASSUME OneRequest, ~Sending, NEW arg, NEW s, s = [op |-> "submit", arg |-> arg, seen |-> FALSE],
         calls' = calls \cup {s}
  PROVE  OneRequest' /\ Sending' /\ ~Executed'
<1>1. IsCall(s) /\ s.op = "submit" /\ ~s.seen
  BY NewCall, ZenonT(20)
<1>2. s \in calls' /\ \A c \in calls' : c = s \/ (c \in calls /\ c.op # "submit")
  BY ZenonT(20) DEF Sending
<1>3. (\A c \in calls' : IsCall(c)) /\ (\A c \in calls' : c.op = "submit" => c = s)
  BY <1>1, <1>2, ZenonT(20) DEF OneRequest
<1>4. QED
  BY <1>1, <1>2, <1>3, ZenonT(20) DEF OneRequest, Sending, Executed

\* The server executes the request that is under way.
LEMMA FormExecuted ==
  ASSUME OneRequest, NEW c \in calls, c.op = "submit", NEW s, s = [c EXCEPT !.seen = TRUE],
         calls' = (calls \ {c}) \cup {s}
  PROVE  OneRequest' /\ Sending' /\ Executed'
<1>1. IsCall(s) /\ s.op = "submit" /\ s.seen
  BY ZenonT(20) DEF OneRequest, IsCall
<1>2. s \in calls' /\ \A d \in calls' : d = s \/ (d \in calls /\ d.op # "submit")
  BY ZenonT(20) DEF OneRequest
<1>3. (\A d \in calls' : IsCall(d)) /\ (\A d \in calls' : d.op = "submit" => d = s)
  BY <1>1, <1>2, ZenonT(20) DEF OneRequest
<1>4. QED
  BY <1>1, <1>2, <1>3, ZenonT(20) DEF OneRequest, Sending, Executed

\* The request is answered; others may begin.
LEMMA FormAnswered ==
  ASSUME OneRequest, NEW c \in calls, c.op = "submit",
         \A d \in calls' : d \in calls \ {c} \/ (IsCall(d) /\ d.op # "submit")
  PROVE  OneRequest' /\ ~Sending'
BY ZenonT(20) DEF OneRequest, Sending

\* Requests that do not send the form.
LEMMA FormUntouched ==
  ASSUME OneRequest,
         \A d \in calls' : d \in calls \/ (IsCall(d) /\ d.op # "submit"),
         \A d \in calls : d.op = "submit" => d \in calls'
  PROVE  OneRequest' /\ (Sending' <=> Sending) /\ (Executed' <=> Executed)
BY ZenonT(20) DEF OneRequest, Sending, Executed

\* For Zenon, which knows no arithmetic.
LEMMA Numbers == 0 \in Nat /\ \A n \in Nat : n + 1 \in Nat
OBVIOUS

\* What the user sees of a form.
FormPhase ==
    IF view.done THEN "done"
    ELSE IF Sending THEN IF Executed THEN "stored" ELSE "sent" ELSE "editing"

Form == INSTANCE Submission WITH phase <- FormPhase, stored <- world.stored, told <- view.told

FormInv ==
    /\ world \in [open : BOOLEAN, stored : Nat]
    /\ OneRequest
    /\ Sending => view.saving /\ ~view.done

\* The user sends the form.
LEMMA Send ==
  ASSUME FormInv, ~view.saving, ~view.done, view'.saving, ~view'.done, view'.told = view.told,
         NEW arg, calls' = calls \cup {[op |-> "submit", arg |-> arg, seen |-> FALSE]},
         world' = world
  PROVE  FormInv' /\ Form!Send
<1>1. ~Sending
  BY ZenonT(20) DEF FormInv
<1>2. OneRequest' /\ Sending' /\ ~Executed'
  BY <1>1, FormSent, ZenonT(20) DEF FormInv
<1>3. QED
  BY <1>1, <1>2, ZenonT(20) DEF FormInv, FormPhase, Form!Send

\* The server executes it.
LEMMA Store ==
  ASSUME FormInv, NEW c \in calls, c.op = "submit", ~c.seen,
         calls' = (calls \ {c}) \cup {[c EXCEPT !.seen = TRUE]},
         world' \in [open : BOOLEAN, stored : Nat], world'.stored = world.stored + 1, view' = view
  PROVE  FormInv' /\ Form!Store
<1>1. OneRequest' /\ Sending' /\ Executed'
  BY FormExecuted, ZenonT(20) DEF FormInv
<1>2. Sending /\ ~Executed
  BY ZenonT(20) DEF FormInv, OneRequest, Sending, Executed
<1>3. QED
  BY <1>1, <1>2, ZenonT(20) DEF FormInv, FormPhase, Form!Store

\* The page hears that it was executed, and may read something else.
LEMMA Succeed ==
  ASSUME FormInv, NEW c \in calls, c.op = "submit", c.seen,
         \A d \in calls' : d \in calls \ {c} \/ (IsCall(d) /\ d.op # "submit"),
         view'.done, view'.told = view.told, world' = world
  PROVE  FormInv' /\ Form!Succeed
<1>1. OneRequest' /\ ~Sending'
  BY FormAnswered, ZenonT(20) DEF FormInv
<1>2. Sending /\ Executed
  BY ZenonT(20) DEF Sending, Executed
<1>3. QED
  BY <1>1, <1>2, ZenonT(20) DEF FormInv, FormPhase, Form!Succeed

\* The page hears that it failed, executed or not.
LEMMA Fail ==
  ASSUME FormInv, NEW c \in calls, c.op = "submit", calls' = calls \ {c},
         view'.done = view.done, view'.told = view.told + 1, world' = world
  PROVE  FormInv' /\ Form!Fail
<1>1. OneRequest' /\ ~Sending'
  BY FormAnswered, ZenonT(20) DEF FormInv
<1>2. Sending
  BY ZenonT(20) DEF Sending
<1>3. ~view.done
  BY <1>2, ZenonT(20) DEF FormInv
<1>4. QED
  BY <1>1, <1>2, <1>3, ZenonT(20) DEF FormInv, FormPhase, Form!Fail

\* Everything else: typing, other reads, other users.
LEMMA Stutter ==
  ASSUME FormInv,
         \A d \in calls' : d \in calls \/ (IsCall(d) /\ d.op # "submit"),
         \A d \in calls : d.op = "submit" => d \in calls',
         view'.saving = view.saving, view'.done = view.done, view'.told = view.told,
         world' \in [open : BOOLEAN, stored : Nat], world'.stored = world.stored
  PROVE  FormInv' /\ UNCHANGED Form!vars
<1>1. OneRequest' /\ (Sending' <=> Sending) /\ (Executed' <=> Executed)
  BY FormUntouched, ZenonT(20) DEF FormInv
<1>2. FormInv'
  BY <1>1, ZenonT(20) DEF FormInv
<1>3. FormPhase' = FormPhase
  BY <1>1, ZenonT(20) DEF FormPhase
<1>4. QED
  BY <1>2, <1>3, ZenonT(20) DEF Form!vars

-----------------------------------------------------------------------------
(* The booking form; this page and the next two extend FormPage.           *)

FormView ==
    [ready : {"loading", "ready", "failed", "unavailable", "closed"},
     valid : BOOLEAN, saving : BOOLEAN, done : BOOLEAN, told : Nat]

\* What its user sees of it.
LEMMA BookingPhase == Booking!Phase = FormPhase
<1>1. Booking!Waiting("submit") <=> Sending
  BY Zenon DEF Booking!Waiting, Booking!Under, Sending
<1>2. (\E c \in Booking!Under("submit") : c.seen) <=> Executed
  BY Zenon DEF Booking!Under, Executed
<1>3. QED
  BY <1>1, <1>2, Zenon DEF Booking!Phase, FormPhase

\* Opened, it is not sent.
LEMMA BookingInit ==
  ASSUME Booking!Init
  PROVE  FormInv /\ view \in FormView
<1> USE DEF Booking!Init, Booking!InitForm, Booking!OpenedForm, Booking!Call
<1>1. OneRequest /\ ~Sending
  <2> DEFINE x == [op |-> "details", arg |-> world.open, seen |-> FALSE]
  <2>1. calls = {x}
    BY ZenonT(20)
  <2>2. IsCall(x) /\ x.op # "submit"
    BY NewCall, ZenonT(20)
  <2> HIDE DEF x
  <2>3. QED
    BY <2>1, <2>2, NoRequest, ZenonT(20)
<1>2. view \in FormView
  BY Numbers, ZenonT(20) DEF FormView
<1>3. world \in [open : BOOLEAN, stored : Nat]
  BY SMT
<1>4. QED
  BY <1>1, <1>2, <1>3, ZenonT(20) DEF FormInv

\* Every step of the page is one of the form, or none of its business.
LEMMA BookingStep ==
  ASSUME FormInv, view \in FormView, Booking!Next
  PROVE  FormInv' /\ view' \in FormView /\ [Form!Next]_(Form!vars)
<1> USE DEF FormView, Booking!Under
<1>1. CASE Booking!Others
  <2>1. world' \in [open : BOOLEAN, stored : Nat] /\ world'.stored = world.stored
    BY <1>1, ZenonT(20) DEF Booking!Others, FormInv
  <2>2. QED
    BY <1>1, <2>1, Stutter, ZenonT(20) DEF Booking!Others
<1>2. CASE Booking!Fill
  <2>1. /\ view' \in FormView /\ view'.saving = view.saving /\ view'.done = view.done
        /\ view'.told = view.told /\ calls' = calls /\ world' = world
    BY <1>2, ZenonT(20) DEF Booking!Fill
  <2>2. QED
    BY <2>1, Stutter, ZenonT(20) DEF FormInv
<1>3. CASE Booking!Submit
  <2>1. /\ view' \in FormView /\ ~view.saving /\ ~view.done
        /\ view'.saving /\ ~view'.done /\ view'.told = view.told /\ world' = world
    BY <1>3, ZenonT(20) DEF Booking!Submit, Booking!Sendable
  <2>2. \E arg : calls' = calls \cup {[op |-> "submit", arg |-> arg, seen |-> FALSE]}
    BY <1>3, ZenonT(20) DEF Booking!Submit, Booking!Subscribe, Booking!Submitted, Booking!Call
  <2>3. QED
    BY <2>1, <2>2, Send, ZenonT(20) DEF Form!Next
<1>4. CASE Booking!CreateBooking
  <2> PICK c \in calls : /\ c.op = "submit" /\ ~c.seen /\ UNCHANGED view
                         /\ calls' = (calls \ {c}) \cup {[c EXCEPT !.seen = TRUE]}
                         /\ world' = [world EXCEPT !.stored = @ + 1]
    BY <1>4, ZenonT(20) DEF Booking!CreateBooking, Booking!Executes
  <2>1. world' \in [open : BOOLEAN, stored : Nat] /\ world'.stored = world.stored + 1
    BY Numbers, ZenonT(20) DEF FormInv
  <2>2. QED
    BY <2>1, Store, ZenonT(20) DEF Form!Next
<1>5. CASE Booking!ReceiveProperty
  <2>1. /\ view' \in FormView /\ view'.saving = view.saving /\ view'.done = view.done
        /\ view'.told = view.told /\ world' = world
    BY <1>5, ZenonT(20) DEF Booking!ReceiveProperty
  <2>2. \E c \in calls : c.op = "details" /\ calls' = calls \ {c}
    BY <1>5, ZenonT(20) DEF Booking!ReceiveProperty, Booking!Ends
  <2>3. QED
    BY <2>1, <2>2, Stutter, ZenonT(20) DEF FormInv
<1>6. CASE Booking!Booked
  <2> PICK c \in calls : /\ c.op = "submit" /\ c.seen
                         /\ view' = [view EXCEPT !.done = TRUE] /\ UNCHANGED world
                         /\ \E isManager \in BOOLEAN :
                               calls' = (calls \ {c}) \cup IF isManager THEN {Booking!Call("count", None)} ELSE {}
    BY <1>6, ZenonT(20) DEF Booking!Booked
  <2>1. \A d \in calls' : d \in calls \ {c} \/ (IsCall(d) /\ d.op # "submit")
    <3>1. \A d \in calls' : d \in calls \ {c} \/ d = [op |-> "count", arg |-> None, seen |-> FALSE]
      BY ZenonT(20) DEF Booking!Call
    <3>2. QED
      BY <3>1, NewCall, ZenonT(20)
  <2>2. view' \in FormView /\ view'.done /\ view'.told = view.told
    BY ZenonT(20)
  <2>3. QED
    BY <2>1, <2>2, Succeed, ZenonT(20) DEF Form!Next
<1>7. CASE Booking!Refused
  <2> PICK c \in calls : /\ c.op = "submit" /\ calls' = calls \ {c} /\ UNCHANGED world
                         /\ view' = [view EXCEPT !.saving = FALSE, !.told = @ + 1]
    BY <1>7, ZenonT(20) DEF Booking!Refused, Booking!Ends
  <2>1. view' \in FormView /\ view'.done = view.done /\ view'.told = view.told + 1
    BY Numbers, ZenonT(20)
  <2>2. QED
    BY <2>1, Fail, ZenonT(20) DEF Form!Next
<1>8. CASE Booking!ReceiveCount
  <2>1. /\ view' = view /\ world' = world
        /\ \E c \in calls : c.op = "count" /\ calls' = calls \ {c}
    BY <1>8, ZenonT(20) DEF Booking!ReceiveCount, Booking!Ends
  <2>2. QED
    BY <2>1, Stutter, ZenonT(20) DEF FormInv
<1>9. QED
  BY <1>1, <1>2, <1>3, <1>4, <1>5, <1>6, <1>7, <1>8, Zenon DEF Booking!Next, Booking!Answer

\* The form under the page's own name.
LEMMA BookingForm == [Form!Next]_(Form!vars) => [Booking!Form!Next]_(Booking!Form!vars)
<1>1. Booking!Phase = FormPhase /\ (Booking!Phase = FormPhase)'
  BY BookingPhase, PTL
<1>2. QED
  BY <1>1, Zenon DEF Form!Next, Form!vars, Form!Send, Form!Store, Form!Succeed, Form!Fail,
     Booking!Form!Next, Booking!Form!vars, Booking!Form!Send, Booking!Form!Store, Booking!Form!Succeed, Booking!Form!Fail

-----------------------------------------------------------------------------
(* The assignment of a tenant.                                             *)

\* What its user sees of it.
LEMMA AssignmentPhase == Assignment!Phase = FormPhase
<1>1. Assignment!Waiting("submit") <=> Sending
  BY Zenon DEF Assignment!Waiting, Assignment!Under, Sending
<1>2. (\E c \in Assignment!Under("submit") : c.seen) <=> Executed
  BY Zenon DEF Assignment!Under, Executed
<1>3. QED
  BY <1>1, <1>2, Zenon DEF Assignment!Phase, FormPhase

\* Opened, it is not sent.
LEMMA AssignmentInit ==
  ASSUME Assignment!Init
  PROVE  FormInv /\ view \in FormView
<1> USE DEF Assignment!Init, Assignment!InitForm, Assignment!OpenedForm, Assignment!Call
<1>1. OneRequest /\ ~Sending
  <2> DEFINE x == [op |-> "details", arg |-> world.open, seen |-> FALSE]
  <2>1. calls = {x}
    BY ZenonT(20)
  <2>2. IsCall(x) /\ x.op # "submit"
    BY NewCall, ZenonT(20)
  <2> HIDE DEF x
  <2>3. QED
    BY <2>1, <2>2, NoRequest, ZenonT(20)
<1>2. view \in FormView
  BY Numbers, ZenonT(20) DEF FormView
<1>3. world \in [open : BOOLEAN, stored : Nat]
  BY SMT
<1>4. QED
  BY <1>1, <1>2, <1>3, ZenonT(20) DEF FormInv

\* Every step of the page is one of the form, or none of its business.
LEMMA AssignmentStep ==
  ASSUME FormInv, view \in FormView, Assignment!Next
  PROVE  FormInv' /\ view' \in FormView /\ [Form!Next]_(Form!vars)
<1> USE DEF FormView, Assignment!Under
<1>1. CASE Assignment!Others
  <2>1. world' \in [open : BOOLEAN, stored : Nat] /\ world'.stored = world.stored
    BY <1>1, ZenonT(20) DEF Assignment!Others, FormInv
  <2>2. QED
    BY <1>1, <2>1, Stutter, ZenonT(20) DEF Assignment!Others
<1>2. CASE Assignment!Fill
  <2>1. /\ view' \in FormView /\ view'.saving = view.saving /\ view'.done = view.done
        /\ view'.told = view.told /\ calls' = calls /\ world' = world
    BY <1>2, ZenonT(20) DEF Assignment!Fill
  <2>2. QED
    BY <2>1, Stutter, ZenonT(20) DEF FormInv
<1>3. CASE Assignment!Assign
  <2>1. /\ view' \in FormView /\ ~view.saving /\ ~view.done
        /\ view'.saving /\ ~view'.done /\ view'.told = view.told /\ world' = world
    BY <1>3, ZenonT(20) DEF Assignment!Assign, Assignment!Sendable
  <2>2. \E arg : calls' = calls \cup {[op |-> "submit", arg |-> arg, seen |-> FALSE]}
    BY <1>3, ZenonT(20) DEF Assignment!Assign, Assignment!Subscribe, Assignment!Submitted, Assignment!Call
  <2>3. QED
    BY <2>1, <2>2, Send, ZenonT(20) DEF Form!Next
<1>4. CASE Assignment!AssignTenant
  <2> PICK c \in calls : /\ c.op = "submit" /\ ~c.seen /\ UNCHANGED view
                         /\ calls' = (calls \ {c}) \cup {[c EXCEPT !.seen = TRUE]}
                         /\ world' = [open |-> FALSE, stored |-> world.stored + 1]
    BY <1>4, ZenonT(20) DEF Assignment!AssignTenant, Assignment!Executes
  <2>1. world' \in [open : BOOLEAN, stored : Nat] /\ world'.stored = world.stored + 1
    BY Numbers, ZenonT(20) DEF FormInv
  <2>2. QED
    BY <2>1, Store, ZenonT(20) DEF Form!Next
<1>5. CASE Assignment!ReceiveProperty
  <2>1. /\ view' \in FormView /\ view'.saving = view.saving /\ view'.done = view.done
        /\ view'.told = view.told /\ world' = world
    BY <1>5, ZenonT(20) DEF Assignment!ReceiveProperty
  <2>2. \E c \in calls : c.op = "details" /\ calls' = calls \ {c}
    BY <1>5, ZenonT(20) DEF Assignment!ReceiveProperty, Assignment!Ends
  <2>3. QED
    BY <2>1, <2>2, Stutter, ZenonT(20) DEF FormInv
<1>6. CASE Assignment!LoseProperty
  <2>1. /\ view' \in FormView /\ view'.saving = view.saving /\ view'.done = view.done
        /\ view'.told = view.told /\ world' = world
    BY <1>6, ZenonT(20) DEF Assignment!LoseProperty
  <2>2. \E c \in calls : c.op = "details" /\ calls' = calls \ {c}
    BY <1>6, ZenonT(20) DEF Assignment!LoseProperty, Assignment!Ends
  <2>3. QED
    BY <2>1, <2>2, Stutter, ZenonT(20) DEF FormInv
<1>7. CASE Assignment!Assigned
  <2> PICK c \in calls : /\ c.op = "submit" /\ c.seen /\ calls' = calls \ {c}
                         /\ view' = [view EXCEPT !.done = TRUE] /\ UNCHANGED world
    BY <1>7, ZenonT(20) DEF Assignment!Assigned, Assignment!Succeeds, Assignment!Ends
  <2>1. view' \in FormView /\ view'.done /\ view'.told = view.told
    BY ZenonT(20)
  <2>2. QED
    BY <2>1, Succeed, ZenonT(20) DEF Form!Next
<1>8. CASE Assignment!Refused
  <2> PICK c \in calls : /\ c.op = "submit" /\ calls' = calls \ {c} /\ UNCHANGED world
                         /\ view' = [view EXCEPT !.saving = FALSE, !.told = @ + 1]
    BY <1>8, ZenonT(20) DEF Assignment!Refused, Assignment!Ends
  <2>1. view' \in FormView /\ view'.done = view.done /\ view'.told = view.told + 1
    BY Numbers, ZenonT(20)
  <2>2. QED
    BY <2>1, Fail, ZenonT(20) DEF Form!Next
<1>9. QED
  BY <1>1, <1>2, <1>3, <1>4, <1>5, <1>6, <1>7, <1>8, Zenon DEF Assignment!Next, Assignment!Answer

\* The form under the page's own name.
LEMMA AssignmentForm == [Form!Next]_(Form!vars) => [Assignment!Form!Next]_(Assignment!Form!vars)
<1>1. Assignment!Phase = FormPhase /\ (Assignment!Phase = FormPhase)'
  BY AssignmentPhase, PTL
<1>2. QED
  BY <1>1, Zenon DEF Form!Next, Form!vars, Form!Send, Form!Store, Form!Succeed, Form!Fail,
     Assignment!Form!Next, Assignment!Form!vars, Assignment!Form!Send, Assignment!Form!Store, Assignment!Form!Succeed, Assignment!Form!Fail

-----------------------------------------------------------------------------
(* The application form.                                                   *)

\* What its user sees of it.
LEMMA JoinUsPhase == JoinUs!Phase = FormPhase
<1>1. JoinUs!Waiting("submit") <=> Sending
  BY Zenon DEF JoinUs!Waiting, JoinUs!Under, Sending
<1>2. (\E c \in JoinUs!Under("submit") : c.seen) <=> Executed
  BY Zenon DEF JoinUs!Under, Executed
<1>3. QED
  BY <1>1, <1>2, Zenon DEF JoinUs!Phase, FormPhase

\* Opened, it is not sent.
LEMMA JoinUsInit ==
  ASSUME JoinUs!Init
  PROVE  FormInv /\ view \in FormView
<1> USE DEF JoinUs!Init, JoinUs!InitForm, JoinUs!OpenedForm, JoinUs!Call
<1>1. OneRequest /\ ~Sending
  <2> DEFINE x == [op |-> "details", arg |-> world.open, seen |-> FALSE]
  <2>1. calls = {x}
    BY ZenonT(20)
  <2>2. IsCall(x) /\ x.op # "submit"
    BY NewCall, ZenonT(20)
  <2> HIDE DEF x
  <2>3. QED
    BY <2>1, <2>2, NoRequest, ZenonT(20)
<1>2. view \in FormView
  BY Numbers, ZenonT(20) DEF FormView
<1>3. world \in [open : BOOLEAN, stored : Nat]
  BY SMT
<1>4. QED
  BY <1>1, <1>2, <1>3, ZenonT(20) DEF FormInv

\* Every step of the page is one of the form, or none of its business.
LEMMA JoinUsStep ==
  ASSUME FormInv, view \in FormView, JoinUs!Next
  PROVE  FormInv' /\ view' \in FormView /\ [Form!Next]_(Form!vars)
<1> USE DEF FormView, JoinUs!Under
<1>1. CASE JoinUs!Others
  <2>1. world' \in [open : BOOLEAN, stored : Nat] /\ world'.stored = world.stored
    BY <1>1, ZenonT(20) DEF JoinUs!Others, FormInv
  <2>2. QED
    BY <1>1, <2>1, Stutter, ZenonT(20) DEF JoinUs!Others
<1>2. CASE JoinUs!Fill
  <2>1. /\ view' \in FormView /\ view'.saving = view.saving /\ view'.done = view.done
        /\ view'.told = view.told /\ calls' = calls /\ world' = world
    BY <1>2, ZenonT(20) DEF JoinUs!Fill
  <2>2. QED
    BY <2>1, Stutter, ZenonT(20) DEF FormInv
<1>3. CASE JoinUs!Submit
  <2>1. /\ view' \in FormView /\ ~view.saving /\ ~view.done
        /\ view'.saving /\ ~view'.done /\ view'.told = view.told /\ world' = world
    BY <1>3, ZenonT(20) DEF JoinUs!Submit, JoinUs!Sendable
  <2>2. \E arg : calls' = calls \cup {[op |-> "submit", arg |-> arg, seen |-> FALSE]}
    BY <1>3, ZenonT(20) DEF JoinUs!Submit, JoinUs!Subscribe, JoinUs!Submitted, JoinUs!Call
  <2>3. QED
    BY <2>1, <2>2, Send, ZenonT(20) DEF Form!Next
<1>4. CASE JoinUs!CreateApplication
  <2> PICK c \in calls : /\ c.op = "submit" /\ ~c.seen /\ UNCHANGED view
                         /\ calls' = (calls \ {c}) \cup {[c EXCEPT !.seen = TRUE]}
                         /\ world' = [world EXCEPT !.stored = @ + 1]
    BY <1>4, ZenonT(20) DEF JoinUs!CreateApplication, JoinUs!Executes
  <2>1. world' \in [open : BOOLEAN, stored : Nat] /\ world'.stored = world.stored + 1
    BY Numbers, ZenonT(20) DEF FormInv
  <2>2. QED
    BY <2>1, Store, ZenonT(20) DEF Form!Next
<1>5. CASE JoinUs!ReceiveSettings
  <2>1. /\ view' \in FormView /\ view'.saving = view.saving /\ view'.done = view.done
        /\ view'.told = view.told /\ world' = world
    BY <1>5, ZenonT(20) DEF JoinUs!ReceiveSettings
  <2>2. \E c \in calls : c.op = "details" /\ calls' = calls \ {c}
    BY <1>5, ZenonT(20) DEF JoinUs!ReceiveSettings, JoinUs!Ends
  <2>3. QED
    BY <2>1, <2>2, Stutter, ZenonT(20) DEF FormInv
<1>6. CASE JoinUs!Received
  <2> PICK c \in calls : /\ c.op = "submit" /\ c.seen /\ calls' = calls \ {c}
                         /\ view' = [view EXCEPT !.saving = FALSE, !.done = TRUE] /\ UNCHANGED world
    BY <1>6, ZenonT(20) DEF JoinUs!Received, JoinUs!Succeeds, JoinUs!Ends
  <2>1. view' \in FormView /\ view'.done /\ view'.told = view.told
    BY ZenonT(20)
  <2>2. QED
    BY <2>1, Succeed, ZenonT(20) DEF Form!Next
<1>7. CASE JoinUs!Refused
  <2> PICK c \in calls : /\ c.op = "submit" /\ calls' = calls \ {c} /\ UNCHANGED world
                         /\ view' = [view EXCEPT !.saving = FALSE, !.told = @ + 1]
    BY <1>7, ZenonT(20) DEF JoinUs!Refused, JoinUs!Ends
  <2>1. view' \in FormView /\ view'.done = view.done /\ view'.told = view.told + 1
    BY Numbers, ZenonT(20)
  <2>2. QED
    BY <2>1, Fail, ZenonT(20) DEF Form!Next
<1>8. QED
  BY <1>1, <1>2, <1>3, <1>4, <1>5, <1>6, <1>7, Zenon DEF JoinUs!Next, JoinUs!Answer

\* The form under the page's own name.
LEMMA JoinUsForm == [Form!Next]_(Form!vars) => [JoinUs!Form!Next]_(JoinUs!Form!vars)
<1>1. JoinUs!Phase = FormPhase /\ (JoinUs!Phase = FormPhase)'
  BY JoinUsPhase, PTL
<1>2. QED
  BY <1>1, Zenon DEF Form!Next, Form!vars, Form!Send, Form!Store, Form!Succeed, Form!Fail,
     JoinUs!Form!Next, JoinUs!Form!vars, JoinUs!Form!Send, JoinUs!Form!Store, JoinUs!Form!Succeed, JoinUs!Form!Fail

-----------------------------------------------------------------------------
(* The public page of a property.                                          *)

IsHouse(v) ==
    v \in [id : {v.id}, property : {v.property}, related : {v.related}, notFound : BOOLEAN,
           valid : BOOLEAN, saving : BOOLEAN, done : BOOLEAN, told : Nat]

\* What its user sees of it.
LEMMA HousePhase == House!Phase = FormPhase
<1>1. House!Waiting("submit") <=> Sending
  BY Zenon DEF House!Waiting, House!Under, Sending
<1>2. (\E c \in House!Under("submit") : c.seen) <=> Executed
  BY Zenon DEF House!Under, Executed
<1>3. QED
  BY <1>1, <1>2, Zenon DEF House!Phase, FormPhase

\* Opened, it is not sent.
LEMMA HouseInit ==
  ASSUME House!Init
  PROVE  FormInv /\ IsHouse(view)
<1> PICK id \in Houses : /\ view = House!Opened(id) /\ calls = {House!Call("details", id)}
                         /\ world \in [open : BOOLEAN, stored : {0}]
  BY ZenonT(20) DEF House!Init
<1>1. OneRequest /\ ~Sending
  <2> DEFINE x == House!Call("details", id)
  <2>1. IsCall(x) /\ x.op # "submit"
    BY NewCall, ZenonT(20) DEF House!Call
  <2> HIDE DEF x
  <2>2. QED
    BY <2>1, NoRequest, ZenonT(20) DEF x
<1>2. IsHouse(view)
  BY Numbers, ZenonT(20) DEF IsHouse, House!Opened
<1>3. world \in [open : BOOLEAN, stored : Nat]
  BY SMT
<1>4. QED
  BY <1>1, <1>2, <1>3, ZenonT(20) DEF FormInv

\* Every step of the page is one of the form, or none of its business.
LEMMA HouseStep ==
  ASSUME FormInv, IsHouse(view), House!Next
  PROVE  FormInv' /\ IsHouse(view') /\ [Form!Next]_(Form!vars)
<1> USE DEF IsHouse, House!Under
<1>1. CASE House!Others
  <2>1. world' \in [open : BOOLEAN, stored : Nat] /\ world'.stored = world.stored
    BY <1>1, ZenonT(20) DEF House!Others, FormInv
  <2>2. QED
    BY <1>1, <2>1, Stutter, ZenonT(20) DEF House!Others
<1>2. CASE House!Enter
  <2>1. /\ IsHouse(view') /\ view'.saving = view.saving /\ view'.done = view.done
        /\ view'.told = view.told /\ calls' = calls /\ world' = world
    BY <1>2, ZenonT(20) DEF House!Enter
  <2>2. QED
    BY <2>1, Stutter, ZenonT(20) DEF FormInv
<1>3. CASE House!Submit
  <2>1. /\ IsHouse(view') /\ ~view.saving /\ ~view.done
        /\ view'.saving /\ ~view'.done /\ view'.told = view.told /\ world' = world
    BY <1>3, ZenonT(20) DEF House!Submit
  <2>2. \E arg : calls' = calls \cup {[op |-> "submit", arg |-> arg, seen |-> FALSE]}
    BY <1>3, ZenonT(20) DEF House!Submit, House!Subscribe, House!Submitted, House!Call
  <2>3. QED
    BY <2>1, <2>2, Send, ZenonT(20) DEF Form!Next
<1>4. CASE House!CreateEnquiry
  <2> PICK c \in calls : /\ c.op = "submit" /\ ~c.seen /\ UNCHANGED view
                         /\ calls' = (calls \ {c}) \cup {[c EXCEPT !.seen = TRUE]}
                         /\ world' = [world EXCEPT !.stored = @ + 1]
    BY <1>4, ZenonT(20) DEF House!CreateEnquiry, House!Executes
  <2>1. world' \in [open : BOOLEAN, stored : Nat] /\ world'.stored = world.stored + 1
    BY Numbers, ZenonT(20) DEF FormInv
  <2>2. QED
    BY <2>1, Store, ZenonT(20) DEF Form!Next
<1>5. CASE House!Enquired
  <2> PICK c \in calls : /\ c.op = "submit" /\ c.seen /\ calls' = calls \ {c}
                         /\ view' = [view EXCEPT !.done = TRUE, !.saving = FALSE] /\ UNCHANGED world
    BY <1>5, ZenonT(20) DEF House!Enquired, House!Succeeds, House!Ends
  <2>1. IsHouse(view') /\ view'.done /\ view'.told = view.told
    BY ZenonT(20)
  <2>2. QED
    BY <2>1, Succeed, ZenonT(20) DEF Form!Next
<1>6. CASE House!Refused
  <2> PICK c \in calls : /\ c.op = "submit" /\ calls' = calls \ {c} /\ UNCHANGED world
                         /\ view' = [view EXCEPT !.saving = FALSE, !.told = @ + 1]
    BY <1>6, ZenonT(20) DEF House!Refused, House!Ends
  <2>1. IsHouse(view') /\ view'.done = view.done /\ view'.told = view.told + 1
    BY Numbers, ZenonT(20)
  <2>2. QED
    BY <2>1, Fail, ZenonT(20) DEF Form!Next
<1>7. CASE House!ReceiveProperty
  <2> PICK c \in calls : /\ c.op = "details" /\ view' = [view EXCEPT !.property = c.arg] /\ UNCHANGED world
                         /\ \E rest \in {{}} \cup IF c.seen THEN {} ELSE {{[c EXCEPT !.seen = TRUE]}} :
                               calls' = (calls \ {c}) \cup rest \cup {House!Call("related", c.arg)}
    BY <1>7, ZenonT(20) DEF House!ReceiveProperty
  <2> DEFINE preview == [c EXCEPT !.seen = TRUE]
             other == House!Call("related", c.arg)
  <2>1. IsCall(preview) /\ preview.op # "submit"
    BY ZenonT(20) DEF FormInv, OneRequest, IsCall
  <2>2. IsCall(other) /\ other.op # "submit"
    BY NewCall, ZenonT(20) DEF House!Call
  <2>3. \E rest : rest \subseteq {preview} /\ calls' = (calls \ {c}) \cup rest \cup {other}
    BY SMT
  <2> HIDE DEF preview, other
  <2>4. \A d \in calls' : d \in calls \/ d = preview \/ d = other
    BY <2>3, ZenonT(20)
  <2>5. \A d \in calls : d.op = "submit" => d \in calls'
    BY <2>3, ZenonT(20)
  <2>6. IsHouse(view') /\ view'.saving = view.saving /\ view'.done = view.done /\ view'.told = view.told
    BY ZenonT(20)
  <2>7. QED
    BY <2>1, <2>2, <2>4, <2>5, <2>6, Stutter, ZenonT(20) DEF FormInv
<1>8. CASE House!LoseProperty
  <2>1. /\ IsHouse(view') /\ view'.saving = view.saving /\ view'.done = view.done
        /\ view'.told = view.told /\ world' = world
    BY <1>8, ZenonT(20) DEF House!LoseProperty
  <2>2. \E c \in calls : c.op = "details" /\ calls' = calls \ {c}
    BY <1>8, ZenonT(20) DEF House!LoseProperty, House!Ends
  <2>3. QED
    BY <2>1, <2>2, Stutter, ZenonT(20) DEF FormInv
<1>9. CASE House!ReceiveRelated
  <2> PICK c \in calls : /\ c.op = "related" /\ UNCHANGED world
                         /\ calls' = calls \ {c} \/ calls' = (calls \ {c}) \cup {[c EXCEPT !.seen = TRUE]}
                         /\ view' = [view EXCEPT !.related = c.arg] \/ view' = view
    BY <1>9, ZenonT(20) DEF House!ReceiveRelated, House!Shows, House!Ends, House!Previews
  <2>1. IsCall([c EXCEPT !.seen = TRUE]) /\ [c EXCEPT !.seen = TRUE].op # "submit"
    BY ZenonT(20) DEF FormInv, OneRequest, IsCall
  <2>2. \A d \in calls' : d \in calls \/ d = [c EXCEPT !.seen = TRUE]
    BY ZenonT(20)
  <2>3. IsHouse(view') /\ view'.saving = view.saving /\ view'.done = view.done /\ view'.told = view.told
    BY ZenonT(20)
  <2>4. \A d \in calls : d.op = "submit" => d \in calls'
    BY ZenonT(20)
  <2>5. QED
    BY <2>1, <2>2, <2>3, <2>4, Stutter, ZenonT(20) DEF FormInv
<1>10. CASE House!Quiet
  <2>1. /\ view' = view /\ world' = world
        /\ \E c \in calls : c.op = "details" /\ calls' = calls \ {c}
    BY <1>10, ZenonT(20) DEF House!Quiet, House!EndsQuietly, House!Ends
  <2>2. QED
    BY <2>1, Stutter, ZenonT(20) DEF FormInv
<1>11. ASSUME NEW id \in Houses, House!GoTo(id) PROVE FormInv' /\ IsHouse(view') /\ [Form!Next]_(Form!vars)
  <2> DEFINE x == House!Call("details", id)
  <2>1. IsCall(x) /\ x.op # "submit"
    BY NewCall, ZenonT(20) DEF House!Call
  <2>2. /\ IsHouse(view') /\ view'.saving = view.saving /\ view'.done = view.done
        /\ view'.told = view.told /\ world' = world
    BY <1>11, ZenonT(20) DEF House!GoTo
  <2>3. x.op = "details"
    BY NewCall, ZenonT(20) DEF House!Call
  <2>4. calls' = calls \/ calls' = (calls \ {c \in calls : c.op = x.op}) \cup {x}
    BY <1>11, ZenonT(20) DEF House!GoTo, House!Switch
  <2> HIDE DEF x
  <2>5. /\ \A d \in calls' : d \in calls \/ d = x
        /\ \A d \in calls : d.op = "submit" => d \in calls'
    BY <2>1, <2>4, ZenonT(20)
  <2>6. QED
    BY <2>1, <2>2, <2>5, Stutter, ZenonT(20) DEF FormInv
<1>12. QED
  BY <1>1, <1>2, <1>3, <1>4, <1>5, <1>6, <1>7, <1>8, <1>9, <1>10, <1>11, Zenon DEF House!Next, House!Answer

\* The form under the page's own name.
LEMMA HouseForm == [Form!Next]_(Form!vars) => [House!Form!Next]_(House!Form!vars)
<1>1. House!Phase = FormPhase /\ (House!Phase = FormPhase)'
  BY HousePhase, PTL
<1>2. QED
  BY <1>1, Zenon DEF Form!Next, Form!vars, Form!Send, Form!Store, Form!Succeed, Form!Fail,
     House!Form!Next, House!Form!vars, House!Form!Send, House!Form!Store, House!Form!Succeed, House!Form!Fail


-----------------------------------------------------------------------------
(* All four: the page that is open stays open.                             *)

\* A form that was executed and not reported as failed is stored or done.
FormCount ==
    world.stored <= IF FormPhase \in {"stored", "done"} THEN view.told + 1 ELSE view.told

PagesInv ==
    /\ page \in {"booking", "assignment", "application"} => FormInv /\ view \in FormView /\ FormCount
    /\ page = "house" => FormInv /\ IsHouse(view) /\ FormCount

\* Opened, a form has no effect yet.
LEMMA CountInit ==
  ASSUME world.stored = 0, view.told = 0
  PROVE  FormCount
BY SMT DEF FormCount

\* Every step of a form keeps the count.
LEMMA CountStep ==
  ASSUME FormCount, world.stored \in Nat, view.told \in Nat, [Form!Next]_(Form!vars)
  PROVE  FormCount'
BY SMT DEF FormCount, Form!Next, Form!vars, Form!Send, Form!Store, Form!Succeed, Form!Fail

\* The invariant holds when a page is opened.
LEMMA PagesInit == Init => PagesInv
<1> SUFFICES ASSUME Init PROVE PagesInv
  OBVIOUS
<1>1. CASE page = "booking"
  <2>1. Booking!Init
    BY <1>1, SMT DEF Init
  <2>2. FormInv /\ view \in FormView
    BY <2>1, BookingInit, Zenon
  <2>3. world.stored = 0 /\ view.told = 0
    BY <2>1, ZenonT(20) DEF Booking!Init, Booking!InitForm, Booking!OpenedForm
  <2>4. FormCount
    BY <2>3, CountInit, Zenon
  <2>5. QED
    BY <1>1, <2>2, <2>4, SMT DEF PagesInv
<1>2. CASE page = "assignment"
  <2>1. Assignment!Init
    BY <1>2, SMT DEF Init
  <2>2. FormInv /\ view \in FormView
    BY <2>1, AssignmentInit, Zenon
  <2>3. world.stored = 0 /\ view.told = 0
    BY <2>1, ZenonT(20) DEF Assignment!Init, Assignment!InitForm, Assignment!OpenedForm
  <2>4. FormCount
    BY <2>3, CountInit, Zenon
  <2>5. QED
    BY <1>2, <2>2, <2>4, SMT DEF PagesInv
<1>3. CASE page = "application"
  <2>1. JoinUs!Init
    BY <1>3, SMT DEF Init
  <2>2. FormInv /\ view \in FormView
    BY <2>1, JoinUsInit, Zenon
  <2>3. world.stored = 0 /\ view.told = 0
    BY <2>1, ZenonT(20) DEF JoinUs!Init, JoinUs!InitForm, JoinUs!OpenedForm
  <2>4. FormCount
    BY <2>3, CountInit, Zenon
  <2>5. QED
    BY <1>3, <2>2, <2>4, SMT DEF PagesInv
<1>4. CASE page = "house"
  <2>1. House!Init
    BY <1>4, SMT DEF Init
  <2>2. FormInv /\ IsHouse(view)
    BY <2>1, HouseInit, Zenon
  <2>3. world.stored = 0 /\ view.told = 0
    <3>1. \E id \in Houses : view = House!Opened(id) /\ world \in [open : BOOLEAN, stored : {0}]
      BY <2>1, Zenon DEF House!Init
    <3>2. world.stored = 0
      BY <3>1, Zenon
    <3>3. \A id : House!Opened(id).told = 0
      BY SMT DEF House!Opened
    <3>4. QED
      BY <3>1, <3>2, <3>3, Zenon
  <2>4. FormCount
    BY <2>3, CountInit, Zenon
  <2>5. QED
    BY <1>4, <2>2, <2>4, SMT DEF PagesInv
<1>5. QED
  BY <1>1, <1>2, <1>3, <1>4, SMT DEF PagesInv

\* Every step keeps the invariant, and is one of the form on the page.
LEMMA PagesStep ==
  ASSUME PagesInv, [Next]_vars
  PROVE  /\ PagesInv'
         /\ page = "booking" => [Booking!Form!Next]_(Booking!Form!vars)
         /\ page = "assignment" => [Assignment!Form!Next]_(Assignment!Form!vars)
         /\ page = "application" => [JoinUs!Form!Next]_(JoinUs!Form!vars)
         /\ page = "house" => [House!Form!Next]_(House!Form!vars)
<1>0. page' = page
  BY SMT DEF Next, vars
<1>1. CASE page = "booking"
  <2>1. FormInv /\ view \in FormView /\ FormCount
    BY <1>1, SMT DEF PagesInv
  <2>2. Booking!Next \/ UNCHANGED <<view, calls, world>>
    BY <1>1, SMT DEF Next, Step, vars
  <2>3. /\ FormInv' /\ view' \in FormView
        /\ [Form!Next]_(Form!vars)
    <3>1. CASE Booking!Next
      BY <2>1, <3>1, BookingStep, Zenon
    <3>2. CASE UNCHANGED <<view, calls, world>>
      BY <2>1, <3>2, ZenonT(20) DEF FormInv, OneRequest, Sending, Executed, FormPhase, Form!vars
    <3>3. QED
      BY <2>2, <3>1, <3>2, Zenon
  <2>4. FormCount'
    <3>1. world.stored \in Nat /\ view.told \in Nat
      BY <2>1, ZenonT(20) DEF FormInv, FormView
    <3>2. QED
      BY <2>1, <2>3, <3>1, CountStep, Zenon
  <2>5. [Booking!Form!Next]_(Booking!Form!vars)
    BY <2>3, BookingForm, Zenon
  <2>6. QED
    BY <1>0, <1>1, <2>3, <2>4, <2>5, SMT DEF PagesInv
<1>2. CASE page = "assignment"
  <2>1. FormInv /\ view \in FormView /\ FormCount
    BY <1>2, SMT DEF PagesInv
  <2>2. Assignment!Next \/ UNCHANGED <<view, calls, world>>
    BY <1>2, SMT DEF Next, Step, vars
  <2>3. /\ FormInv' /\ view' \in FormView
        /\ [Form!Next]_(Form!vars)
    <3>1. CASE Assignment!Next
      BY <2>1, <3>1, AssignmentStep, Zenon
    <3>2. CASE UNCHANGED <<view, calls, world>>
      BY <2>1, <3>2, ZenonT(20) DEF FormInv, OneRequest, Sending, Executed, FormPhase, Form!vars
    <3>3. QED
      BY <2>2, <3>1, <3>2, Zenon
  <2>4. FormCount'
    <3>1. world.stored \in Nat /\ view.told \in Nat
      BY <2>1, ZenonT(20) DEF FormInv, FormView
    <3>2. QED
      BY <2>1, <2>3, <3>1, CountStep, Zenon
  <2>5. [Assignment!Form!Next]_(Assignment!Form!vars)
    BY <2>3, AssignmentForm, Zenon
  <2>6. QED
    BY <1>0, <1>2, <2>3, <2>4, <2>5, SMT DEF PagesInv
<1>3. CASE page = "application"
  <2>1. FormInv /\ view \in FormView /\ FormCount
    BY <1>3, SMT DEF PagesInv
  <2>2. JoinUs!Next \/ UNCHANGED <<view, calls, world>>
    BY <1>3, SMT DEF Next, Step, vars
  <2>3. /\ FormInv' /\ view' \in FormView
        /\ [Form!Next]_(Form!vars)
    <3>1. CASE JoinUs!Next
      BY <2>1, <3>1, JoinUsStep, Zenon
    <3>2. CASE UNCHANGED <<view, calls, world>>
      BY <2>1, <3>2, ZenonT(20) DEF FormInv, OneRequest, Sending, Executed, FormPhase, Form!vars
    <3>3. QED
      BY <2>2, <3>1, <3>2, Zenon
  <2>4. FormCount'
    <3>1. world.stored \in Nat /\ view.told \in Nat
      BY <2>1, ZenonT(20) DEF FormInv, FormView
    <3>2. QED
      BY <2>1, <2>3, <3>1, CountStep, Zenon
  <2>5. [JoinUs!Form!Next]_(JoinUs!Form!vars)
    BY <2>3, JoinUsForm, Zenon
  <2>6. QED
    BY <1>0, <1>3, <2>3, <2>4, <2>5, SMT DEF PagesInv
<1>4. CASE page = "house"
  <2>1. FormInv /\ IsHouse(view) /\ FormCount
    BY <1>4, SMT DEF PagesInv
  <2>2. House!Next \/ UNCHANGED <<view, calls, world>>
    BY <1>4, SMT DEF Next, Step, vars
  <2>3. /\ FormInv' /\ IsHouse(view')
        /\ [Form!Next]_(Form!vars)
    <3>1. CASE House!Next
      BY <2>1, <3>1, HouseStep, Zenon
    <3>2. CASE UNCHANGED <<view, calls, world>>
      BY <2>1, <3>2, ZenonT(20) DEF FormInv, OneRequest, Sending, Executed, FormPhase, Form!vars
    <3>3. QED
      BY <2>2, <3>1, <3>2, Zenon
  <2>4. FormCount'
    <3>1. world.stored \in Nat /\ view.told \in Nat
      BY <2>1, ZenonT(20) DEF FormInv, IsHouse
    <3>2. QED
      BY <2>1, <2>3, <3>1, CountStep, Zenon
  <2>5. [House!Form!Next]_(House!Form!vars)
    BY <2>3, HouseForm, Zenon
  <2>6. QED
    BY <1>0, <1>4, <2>3, <2>4, <2>5, SMT DEF PagesInv
<1>5. QED
  BY <1>0, <1>1, <1>2, <1>3, <1>4, SMT DEF PagesInv

\* The invariant of the forms.
LEMMA PagesAlways == Spec => []PagesInv
<1>1. PagesInv /\ [Next]_vars => PagesInv'
  BY PagesStep, Zenon
<1>2. QED
  BY <1>1, PagesInit, PTL DEF Spec

\* The forms of the booking, the assignment, the application and the enquiry
\* implement Submission, whatever fails, is late or is changed by others: one request
\* at a time, one effect per request, done only after a success.
THEOREM FormsAreSubmittedOnce == Spec => FormsSubmitOnce
<1>1. PagesInv /\ [Next]_vars =>
         [ /\ page = "booking" => [Booking!Form!Next]_(Booking!Form!vars)
           /\ page = "assignment" => [Assignment!Form!Next]_(Assignment!Form!vars)
           /\ page = "application" => [JoinUs!Form!Next]_(JoinUs!Form!vars)
           /\ page = "house" => [House!Form!Next]_(House!Form!vars)
         ]_vars
  BY PagesStep, Zenon
<1>2. QED
  BY <1>1, PagesAlways, PTL DEF Spec, FormsSubmitOnce

\* On those pages the server has executed the form at most once more than its user
\* was told that it failed: no duplicate without a reported failure before it.
THEOREM NoSilentDuplicates ==
  Spec => [](page \in {"booking", "assignment", "application", "house"} => world.stored <= view.told + 1)
<1>1. PagesInv => (page \in {"booking", "assignment", "application", "house"} => world.stored <= view.told + 1)
  <2> SUFFICES ASSUME PagesInv, page \in {"booking", "assignment", "application", "house"}
               PROVE  world.stored <= view.told + 1
    OBVIOUS
  <2>1. /\ FormCount
        /\ world.stored \in Nat /\ view.told \in Nat
    <3>1. CASE page = "house"
      BY <3>1, ZenonT(20) DEF PagesInv, FormInv, IsHouse
    <3>2. CASE page \in {"booking", "assignment", "application"}
      BY <3>2, ZenonT(20) DEF PagesInv, FormInv, FormView
    <3>3. QED
      BY <3>1, <3>2, Zenon
  <2>2. QED
    BY <2>1, SMT DEF FormCount
<1>2. QED
  BY <1>1, PagesAlways, PTL

-----------------------------------------------------------------------------
(* The reads of a page.                                                    *)

\* All requests are proper; those of an operation ask for q, or are one.
Proper == \A c \in calls : IsCall(c)
Asks(op, q) == \A c \in calls : c.op = op => c.arg = q
Single(op) == \A c, d \in calls : c.op = op /\ d.op = op => c = d
Asked(op) == \E c \in calls : c.op = op

\* switchMap: the new question is the only one.
LEMMA Switched ==
  ASSUME Proper, NEW op, NEW q, NEW x, x = [op |-> op, arg |-> q, seen |-> FALSE],
         calls' = (calls \ {c \in calls : c.op = x.op}) \cup {x}
  PROVE  /\ Proper' /\ Asks(op, q)' /\ Single(op)' /\ Asked(op)'
         /\ \A c \in calls' : c.op = op => ~c.seen
<1>1. IsCall(x) /\ x.op = op /\ x.arg = q /\ ~x.seen
  BY ZenonT(20) DEF IsCall
<1>2. x \in calls' /\ \A c \in calls' : c = x \/ (c \in calls /\ c.op # op)
  BY <1>1, ZenonT(20)
<1>3. Proper'
  BY <1>1, <1>2, ZenonT(20) DEF Proper
<1>4. \A c \in calls' : c.op = op => c = x
  BY <1>1, <1>2, ZenonT(20)
<1>5. QED
  BY <1>1, <1>2, <1>3, <1>4, ZenonT(20) DEF Asks, Single, Asked

\* A request ends.
LEMMA Ended ==
  ASSUME Proper, NEW c \in calls, calls' = calls \ {c}
  PROVE  /\ Proper'
         /\ \A op, q : Asks(op, q) => Asks(op, q)'
         /\ \A op : Single(op) => Single(op)' /\ (c.op = op => ~Asked(op)')
         /\ \A op : c.op # op => (Asked(op)' <=> Asked(op))
BY ZenonT(20) DEF Proper, Asks, Single, Asked

\* A display read hands out a preview.
LEMMA Previewed ==
  ASSUME Proper, NEW c \in calls, calls' = (calls \ {c}) \cup {[c EXCEPT !.seen = TRUE]}
  PROVE  /\ Proper'
         /\ \A op, q : Asks(op, q) => Asks(op, q)'
         /\ \A op : Single(op) => Single(op)'
         /\ \A op : Asked(op)' <=> Asked(op)
         /\ \A d \in calls' : d \in calls \/ (d.op = c.op /\ d.arg = c.arg)
<1> DEFINE x == [c EXCEPT !.seen = TRUE]
<1>1. IsCall(x) /\ x.op = c.op /\ x.arg = c.arg /\ x \in calls'
  BY ZenonT(20) DEF Proper, IsCall
<1>2. \A d \in calls' : d = x \/ (d \in calls /\ d # c)
  BY ZenonT(20)
<1>3. \A d \in calls : d = c \/ d \in calls'
  BY ZenonT(20)
<1> HIDE DEF x
<1>4. Proper'
  BY <1>1, <1>2, ZenonT(20) DEF Proper
<1>5. \A op, q : Asks(op, q) => Asks(op, q)'
  BY <1>1, <1>2, ZenonT(20) DEF Asks
<1>6. \A op : Single(op) => Single(op)'
  BY <1>1, <1>2, ZenonT(20) DEF Single
<1>7. \A op : Asked(op)' <=> Asked(op)
  BY <1>1, <1>2, <1>3, ZenonT(20) DEF Asked
<1>8. QED
  BY <1>1, <1>2, <1>4, <1>5, <1>6, <1>7, ZenonT(20)

-----------------------------------------------------------------------------
(* The report on the team.                                                 *)

IsTeam(v) ==
    v \in [period : Periods, report : {v.report}, loading : BOOLEAN, error : BOOLEAN]

TeamInv ==
    /\ IsTeam(view) /\ Proper
    /\ Asks("report", view.period)
    /\ ~view.loading /\ ~view.error => view.report = view.period

\* Opened, the page waits for the report over all time.
LEMMA TeamInit == TeamAnalytics!Init => TeamInv
<1> SUFFICES ASSUME TeamAnalytics!Init PROVE TeamInv
  OBVIOUS
<1>1. IsTeam(view) /\ view.loading /\ view.period = AllTime
  BY AnalyticsAssumption, ZenonT(20) DEF TeamAnalytics!Init, TeamAnalytics!Opened, IsTeam
<1>2. calls = {[op |-> "report", arg |-> AllTime, seen |-> FALSE]}
  BY ZenonT(20) DEF TeamAnalytics!Init, TeamAnalytics!Call
<1>3. Proper /\ Asks("report", AllTime)
  <2> DEFINE x == [op |-> "report", arg |-> AllTime, seen |-> FALSE]
  <2>1. IsCall(x) /\ x.arg = AllTime
    BY ZenonT(20) DEF IsCall
  <2>2. \A c \in calls : c = x
    BY <1>2, ZenonT(20)
  <2> HIDE DEF x
  <2>3. QED
    BY <2>1, <2>2, ZenonT(20) DEF Proper, Asks
<1>4. QED
  BY <1>1, <1>3, ZenonT(20) DEF TeamInv

\* Every report that is under way is of the selected period.
LEMMA TeamStep ==
  ASSUME TeamInv, TeamAnalytics!Next
  PROVE  TeamInv'
<1> USE DEF TeamAnalytics!Under, TeamAnalytics!Ends
<1> PICK q : q = view.period
  OBVIOUS
<1>1. ASSUME NEW p \in Periods, TeamAnalytics!Load(p) PROVE TeamInv'
  <2>1. IsTeam(view') /\ view'.loading /\ view'.period = p
    BY <1>1, ZenonT(20) DEF TeamAnalytics!Load, TeamInv, IsTeam
  <2>2. Proper' /\ Asks("report", p)'
    BY <1>1, Switched, ZenonT(20) DEF TeamAnalytics!Load, TeamAnalytics!Switch, TeamAnalytics!Call, TeamInv
  <2>3. QED
    BY <2>1, <2>2, ZenonT(20) DEF TeamInv, Asks
<1>2. CASE TeamAnalytics!Receive
  <2> PICK c \in calls : /\ c.op = "report"
                         /\ \/ calls' = calls \ {c}
                            \/ calls' = (calls \ {c}) \cup {[c EXCEPT !.seen = TRUE]}
                         /\ view' = [view EXCEPT !.report = c.arg, !.loading = FALSE]
    BY <1>2, ZenonT(20) DEF TeamAnalytics!Receive, TeamAnalytics!Shows, TeamAnalytics!Previews
  <2>1. IsTeam(view') /\ view'.report = view.period /\ view'.period = view.period
    BY ZenonT(20) DEF TeamInv, IsTeam, Asks
  <2>2. Proper' /\ Asks("report", q)'
    BY Ended, Previewed, ZenonT(20) DEF TeamInv
  <2>3. QED
    BY <2>1, <2>2, ZenonT(20) DEF TeamInv, Asks
<1>3. CASE TeamAnalytics!Fail
  <2> PICK c \in calls : /\ calls' = calls \ {c}
                         /\ view' = [view EXCEPT !.loading = FALSE, !.error = TRUE]
    BY <1>3, ZenonT(20) DEF TeamAnalytics!Fail
  <2>1. IsTeam(view') /\ view'.error /\ view'.period = view.period
    BY ZenonT(20) DEF TeamInv, IsTeam
  <2>2. Proper' /\ Asks("report", q)'
    BY Ended, ZenonT(20) DEF TeamInv
  <2>3. QED
    BY <2>1, <2>2, ZenonT(20) DEF TeamInv, Asks
<1>4. CASE TeamAnalytics!Quiet
  <2>1. view' = view /\ \E c \in calls : calls' = calls \ {c}
    BY <1>4, ZenonT(20) DEF TeamAnalytics!Quiet, TeamAnalytics!EndsQuietly
  <2>2. Proper' /\ Asks("report", q)'
    BY <2>1, Ended, ZenonT(20) DEF TeamInv
  <2>3. QED
    BY <2>1, <2>2, ZenonT(20) DEF TeamInv, Asks
<1>5. view.period \in Periods
  BY ZenonT(20) DEF TeamInv, IsTeam
<1>6. QED
  BY <1>1, <1>2, <1>3, <1>4, <1>5, Zenon
     DEF TeamAnalytics!Next, TeamAnalytics!SetPeriod, TeamAnalytics!TryAgain, TeamAnalytics!Answer

\* Hence what is shown is.
LEMMA TeamShows == TeamInv => TeamAnalytics!ShowsSelection
BY AnalyticsAssumption, SMT DEF TeamInv, IsTeam, TeamAnalytics!ShowsSelection, TeamAnalytics!Screen

-----------------------------------------------------------------------------
(* The report on an agent.                                                 *)

IsAgent(v) ==
    v \in [agent : Agents, period : {v.period}, detail : {v.detail},
           limits : [Activities -> Nat], loading : BOOLEAN, error : BOOLEAN]

AgentInv ==
    /\ IsAgent(view) /\ Proper
    /\ Asks("detail", [agent |-> view.agent, period |-> view.period])
    /\ ~view.loading /\ ~view.error =>
          /\ view.detail = [agent |-> view.agent, period |-> view.period]
          /\ \A a \in Activities : view.limits[a] <= Pieces[view.agent]

\* Opened, the page waits for the agent of the address.
LEMMA AgentInit == AgentDetail!Init => AgentInv
<1> SUFFICES ASSUME AgentDetail!Init PROVE AgentInv
  OBVIOUS
<1> PICK agent \in Agents :
        /\ view = AgentDetail!Opened(agent)
        /\ calls = {AgentDetail!Call("detail", AgentDetail!Report(agent, AllTime))}
  BY Zenon DEF AgentDetail!Init
<1> DEFINE q == [agent |-> agent, period |-> AllTime]
<1>1. IsAgent(view) /\ view.loading /\ [agent |-> view.agent, period |-> view.period] = q
  <2>1. AgentDetail!Limits \in [Activities -> Nat]
    BY SMT DEF AgentDetail!Limits
  <2>2. QED
    BY <2>1, ZenonT(20) DEF AgentDetail!Opened, IsAgent
<1>2. Proper /\ Asks("detail", q)
  <2> DEFINE x == [op |-> "detail", arg |-> q, seen |-> FALSE]
  <2>1. calls = {x}
    BY ZenonT(20) DEF AgentDetail!Call, AgentDetail!Report
  <2> HIDE DEF q
  <2>2. IsCall(x) /\ x.arg = q
    BY ZenonT(20) DEF IsCall
  <2> HIDE DEF x
  <2>3. QED
    BY <2>1, <2>2, ZenonT(20) DEF Proper, Asks
<1> HIDE DEF q
<1>3. QED
  BY <1>1, <1>2, ZenonT(20) DEF AgentInv

\* Every report under way is of the agent and the period; lists open one piece at a time.
LEMMA AgentStep ==
  ASSUME AgentInv, AgentDetail!Next
  PROVE  AgentInv'
<1> USE DEF AgentDetail!Under, AgentDetail!Ends
<1> PICK q : q = [agent |-> view.agent, period |-> view.period]
  OBVIOUS
<1>0. view.agent \in Agents /\ Asks("detail", q) /\ Proper /\ IsAgent(view)
  BY ZenonT(20) DEF AgentInv, IsAgent
<1>1. ASSUME NEW agent \in Agents, NEW period, AgentDetail!Load(agent, period) PROVE AgentInv'
  <2> PICK r : r = [agent |-> agent, period |-> period]
    OBVIOUS
  <2>1. IsAgent(view') /\ view'.loading /\ view'.agent = agent /\ view'.period = period
    BY <1>0, <1>1, ZenonT(20) DEF AgentDetail!Load, IsAgent
  <2>2. Proper' /\ Asks("detail", r)'
    <3>1. calls' = (calls \ {c \in calls : c.op = "detail"}) \cup {[op |-> "detail", arg |-> r, seen |-> FALSE]}
      BY <1>1, ZenonT(20) DEF AgentDetail!Load, AgentDetail!Switch, AgentDetail!Call, AgentDetail!Report
    <3> PICK x : x = [op |-> "detail", arg |-> r, seen |-> FALSE]
      OBVIOUS
    <3>2. x.op = "detail"
      BY ZenonT(20)
    <3>3. QED
      BY <1>0, <3>1, <3>2, Switched, ZenonT(20)
  <2>3. QED
    BY <2>1, <2>2, ZenonT(20) DEF AgentInv
<1>2. ASSUME NEW a \in Activities, AgentDetail!LoadMore(a) PROVE AgentInv'
  <2>1. /\ ~view.loading /\ ~view.error /\ view.limits[a] < Pieces[view.detail.agent]
        /\ view' = [view EXCEPT !.limits[a] = @ + 1] /\ calls' = calls
    BY <1>2, ZenonT(20) DEF AgentDetail!LoadMore, AgentDetail!Screen, AgentDetail!HasMore
  <2>2. view.limits[a] < Pieces[view.agent]
    <3>1. view.detail = [agent |-> view.agent, period |-> view.period]
      BY <2>1, ZenonT(20) DEF AgentInv
    <3>2. view.detail.agent = view.agent
      BY <3>1, SMT
    <3>3. QED
      BY <2>1, <3>2, ZenonT(20)
  <2>3. /\ IsAgent(view') /\ view'.agent = view.agent /\ view'.period = view.period
        /\ view'.detail = view.detail
        /\ \A b \in Activities : view'.limits[b] = IF b = a THEN view.limits[a] + 1 ELSE view.limits[b]
    BY <1>0, <2>1, SMT DEF IsAgent
  <2>4. \A b \in Activities : view'.limits[b] <= Pieces[view.agent]
    <3>1. Pieces[view.agent] \in Nat /\ view.limits[a] \in Nat
      BY <1>0, AnalyticsAssumption, SMT DEF IsAgent
    <3>2. \A b \in Activities : view.limits[b] <= Pieces[view.agent]
      BY <2>1, ZenonT(20) DEF AgentInv
    <3>3. QED
      BY <2>2, <2>3, <3>1, <3>2, SMT
  <2>5. view.detail = [agent |-> view.agent, period |-> view.period]
    BY <2>1, ZenonT(20) DEF AgentInv
  <2>6. Proper' /\ Asks("detail", q)'
    BY <1>0, <2>1, ZenonT(20) DEF Proper, Asks
  <2>7. QED
    BY <2>3, <2>4, <2>5, <2>6, ZenonT(20) DEF AgentInv
<1>3. CASE AgentDetail!Receive
  <2> PICK c \in calls : /\ c.op = "detail"
                         /\ \/ calls' = calls \ {c}
                            \/ calls' = (calls \ {c}) \cup {[c EXCEPT !.seen = TRUE]}
                         /\ view' = [view EXCEPT !.limits = AgentDetail!Limits, !.detail = c.arg,
                                                 !.loading = FALSE]
    BY <1>3, ZenonT(20) DEF AgentDetail!Receive, AgentDetail!Shows, AgentDetail!Previews
  <2>1. c.arg = q
    BY <1>0, ZenonT(20) DEF Asks
  <2>2. AgentDetail!Limits \in [Activities -> Nat] /\ \A a \in Activities : AgentDetail!Limits[a] = 1
    BY SMT DEF AgentDetail!Limits
  <2>3. /\ IsAgent(view') /\ view'.detail = q /\ view'.agent = view.agent /\ view'.period = view.period
        /\ view'.limits = AgentDetail!Limits
    BY <1>0, <2>1, <2>2, ZenonT(20) DEF IsAgent
  <2>4. \A a \in Activities : view'.limits[a] <= Pieces[view.agent]
    BY <1>0, <2>2, <2>3, AnalyticsAssumption, SMT
  <2>5. Proper' /\ Asks("detail", q)'
    BY <1>0, Ended, Previewed, ZenonT(20)
  <2>6. QED
    BY <2>3, <2>4, <2>5, ZenonT(20) DEF AgentInv
<1>4. CASE AgentDetail!Fail
  <2> PICK c \in calls : /\ calls' = calls \ {c}
                         /\ view' = [view EXCEPT !.loading = FALSE, !.error = TRUE]
    BY <1>4, ZenonT(20) DEF AgentDetail!Fail
  <2>1. IsAgent(view') /\ view'.error /\ view'.agent = view.agent /\ view'.period = view.period
    BY <1>0, ZenonT(20) DEF IsAgent
  <2>2. Proper' /\ Asks("detail", q)'
    BY <1>0, Ended, ZenonT(20)
  <2>3. QED
    BY <2>1, <2>2, ZenonT(20) DEF AgentInv
<1>5. CASE AgentDetail!Quiet
  <2>1. view' = view /\ \E c \in calls : calls' = calls \ {c}
    BY <1>5, ZenonT(20) DEF AgentDetail!Quiet, AgentDetail!EndsQuietly
  <2>2. Proper' /\ Asks("detail", q)'
    BY <1>0, <2>1, Ended, ZenonT(20)
  <2>3. QED
    BY <2>1, <2>2, ZenonT(20) DEF AgentInv
<1>6. QED
  BY <1>0, <1>1, <1>2, <1>3, <1>4, <1>5, Zenon
     DEF AgentDetail!Next, AgentDetail!OpenAgent, AgentDetail!SetPeriod, AgentDetail!TryAgain, AgentDetail!Answer

\* Hence what is shown is.
LEMMA AgentShows == AgentInv => AgentDetail!ShowsSelection
BY SMT DEF AgentInv, AgentDetail!ShowsSelection, AgentDetail!Screen, AgentDetail!Report

-----------------------------------------------------------------------------
(* The list of properties.                                                 *)

IsList(v) ==
    v \in [form : {v.form}, typing : BOOLEAN, result : {v.result}, loading : BOOLEAN, error : BOOLEAN]

ListInv ==
    /\ IsList(view) /\ Proper /\ Single("list")
    /\ ~view.typing => Asks("list", view.form)
    /\ \A c \in calls : c.op = "list" /\ c.seen => view.result = c.arg
    /\ ~Asked("list") /\ ~view.typing /\ ~view.error => view.result = view.form

\* Opened, the first read is of the form as it is.
LEMMA ListInit == Properties!Init => ListInv
<1> SUFFICES ASSUME Properties!Init PROVE ListInv
  OBVIOUS
<1>1. IsList(view)
  BY ZenonT(20) DEF Properties!Init, Properties!Opened, IsList
<1> PICK x : x = [op |-> "list", arg |-> view.form, seen |-> FALSE]
  OBVIOUS
<1>2. calls = {x}
  BY ZenonT(20) DEF Properties!Init, Properties!Call
<1>3. IsCall(x) /\ x.op = "list" /\ x.arg = view.form /\ ~x.seen
  BY ZenonT(20) DEF IsCall
<1>4. QED
  BY <1>1, <1>2, <1>3, ZenonT(20) DEF ListInv, Proper, Single, Asks, Asked

\* One read at a time, of the form unless it is being changed.
LEMMA ListStep ==
  ASSUME ListInv, Properties!Next
  PROVE  ListInv'
<1> USE DEF Properties!Under, Properties!Ends
<1> PICK q : q = view.form
  OBVIOUS
<1>0. IsList(view) /\ Proper /\ Single("list") /\ (~view.typing => Asks("list", q))
  BY ZenonT(20) DEF ListInv
<1>1. ASSUME NEW form, Properties!Change(form) PROVE ListInv'
  <2>1. IsList(view') /\ view'.typing /\ view'.result = view.result /\ calls' = calls
    BY <1>0, <1>1, ZenonT(20) DEF Properties!Change, IsList
  <2>2. QED
    BY <2>1, ZenonT(20) DEF ListInv, Proper, Single
<1>2. CASE Properties!Debounced
  <2>1. /\ IsList(view') /\ view'.form = view.form
    BY <1>0, <1>2, ZenonT(20) DEF Properties!Debounced, IsList
  <2>2. Proper' /\ Asks("list", q)' /\ Single("list")' /\ Asked("list")'
        /\ \A c \in calls' : c.op = "list" => ~c.seen
    <3> PICK x : x = [op |-> "list", arg |-> q, seen |-> FALSE]
      OBVIOUS
    <3>1. x.op = "list" /\ calls' = (calls \ {c \in calls : c.op = x.op}) \cup {x}
      BY <1>2, ZenonT(20) DEF Properties!Debounced, Properties!Switch, Properties!Call
    <3>2. QED
      BY <1>0, <3>1, Switched, ZenonT(60)
  <2>3. QED
    BY <2>1, <2>2, ZenonT(20) DEF ListInv
<1>3. CASE Properties!Receive
  <2> PICK c \in calls : /\ c.op = "list"
                         /\ \/ calls' = calls \ {c}
                            \/ calls' = (calls \ {c}) \cup {[c EXCEPT !.seen = TRUE]}
                         /\ view' = [view EXCEPT !.result = c.arg, !.loading = FALSE]
    BY <1>3, ZenonT(20) DEF Properties!Receive, Properties!Shows, Properties!Previews
  <2>1. /\ IsList(view') /\ view'.form = view.form /\ view'.typing = view.typing
        /\ view'.result = c.arg
    BY <1>0, ZenonT(20) DEF IsList
  <2>2. Proper' /\ Single("list")' /\ (~view.typing => Asks("list", q)')
    BY <1>0, Ended, Previewed, ZenonT(20)
  <2>3. \A d \in calls' : d.op = "list" => d.arg = c.arg
    <3>1. CASE calls' = calls \ {c}
      BY <1>0, <3>1, ZenonT(20) DEF Single
    <3>2. CASE calls' = (calls \ {c}) \cup {[c EXCEPT !.seen = TRUE]}
      BY <1>0, <3>2, Previewed, ZenonT(20) DEF Single
    <3>3. QED
      BY <3>1, <3>2, Zenon
  <2>4. ~view.typing => c.arg = view.form
    BY <1>0, ZenonT(20) DEF Asks
  <2>5. QED
    BY <2>1, <2>2, <2>3, <2>4, ZenonT(20) DEF ListInv
<1>4. CASE Properties!Fail
  <2> PICK c \in calls : /\ c.op = "list" /\ calls' = calls \ {c}
                         /\ view' = [view EXCEPT !.loading = FALSE, !.error = TRUE]
    BY <1>4, ZenonT(20) DEF Properties!Fail
  <2>1. /\ IsList(view') /\ view'.form = view.form /\ view'.typing = view.typing
        /\ view'.result = view.result /\ view'.error
    BY <1>0, ZenonT(20) DEF IsList
  <2>2. Proper' /\ Single("list")' /\ (~view.typing => Asks("list", q)')
    BY <1>0, Ended, ZenonT(20)
  <2>3. QED
    BY <2>1, <2>2, ZenonT(20) DEF ListInv
<1>5. CASE Properties!Quiet
  <2> PICK c \in calls : c.op = "list" /\ c.seen /\ calls' = calls \ {c} /\ view' = view
    BY <1>5, ZenonT(20) DEF Properties!Quiet, Properties!EndsQuietly
  <2>1. view.result = c.arg /\ (~view.typing => c.arg = view.form)
    BY <1>0, ZenonT(20) DEF ListInv, Asks
  <2>2. Proper' /\ Single("list")' /\ (~view.typing => Asks("list", q)')
    BY <1>0, Ended, ZenonT(20)
  <2>3. QED
    BY <2>1, <2>2, ZenonT(20) DEF ListInv
<1>6. QED
  BY <1>1, <1>2, <1>3, <1>4, <1>5, Zenon
     DEF Properties!Next, Properties!SetFilter, Properties!GoToPage, Properties!Clear, Properties!Reload, Properties!Answer

\* Hence the rows are those of the form.
LEMMA ListShows == ListInv => Properties!ShowsSelection
<1> SUFFICES ASSUME ListInv PROVE Properties!ShowsSelection
  OBVIOUS
<1>1. Properties!Waiting("list") <=> Asked("list")
  BY ZenonT(20) DEF Properties!Waiting, Properties!Under, Asked
<1>2. Properties!Screen # "error" => ~view.error
  BY SMT DEF Properties!Screen, ListInv, IsList
<1>3. QED
  BY <1>1, <1>2, ZenonT(20) DEF Properties!ShowsSelection, ListInv

-----------------------------------------------------------------------------
(* The audit log.                                                          *)

IsAudit(v) ==
    v \in [filter : Filters, typing : BOOLEAN, page : {v.page}, result : {v.result},
           loading : BOOLEAN, error : BOOLEAN, expanded : BOOLEAN, actors : BOOLEAN]

AuditInv ==
    /\ IsAudit(view) /\ Proper /\ Single("logs")
    /\ ~view.typing => Asks("logs", Audit!Query(view.filter, view.page))
    /\ \A c \in calls : c.op = "logs" /\ c.seen => view.result = c.arg
    /\ Asked("logs") => ~view.error
    /\ view.error => view.result = Audit!Empty
    /\ ~Asked("logs") /\ ~view.typing /\ ~view.error => view.result = Audit!Query(view.filter, view.page)

\* Opened, the first page of all entries is read.
LEMMA AuditInit == Audit!Init => AuditInv
<1> SUFFICES ASSUME Audit!Init PROVE AuditInv
  OBVIOUS
<1>1. /\ IsAudit(view) /\ ~view.error
      /\ view.filter = NoFilter /\ view.page = 1
  BY ListsAssumption, ZenonT(20) DEF Audit!Init, Audit!Opened, IsAudit
<1> PICK q : q = Audit!Query(NoFilter, 1)
  OBVIOUS
<1> PICK x, y : /\ x = [op |-> "logs", arg |-> q, seen |-> FALSE]
                /\ y = [op |-> "actors", arg |-> None, seen |-> FALSE]
  OBVIOUS
<1>2. calls = {x, y}
  BY ZenonT(20) DEF Audit!Init, Audit!Call
<1>3. IsCall(x) /\ x.op = "logs" /\ x.arg = q /\ ~x.seen /\ IsCall(y) /\ y.op # "logs"
  BY ZenonT(20) DEF IsCall
<1>4. Proper /\ Single("logs") /\ Asks("logs", q) /\ Asked("logs")
  BY <1>2, <1>3, ZenonT(20) DEF Proper, Single, Asks, Asked
<1>5. \A c \in calls : c.op = "logs" => ~c.seen
  BY <1>2, <1>3, ZenonT(20)
<1>6. QED
  BY <1>1, <1>4, <1>5, ZenonT(20) DEF AuditInv

\* One read at a time, of the filters and the page unless they are being typed.
LEMMA AuditStep ==
  ASSUME AuditInv, Audit!Next
  PROVE  AuditInv'
<1> USE DEF Audit!Under, Audit!Ends
<1> PICK q : q = Audit!Query(view.filter, view.page)
  OBVIOUS
<1>0. IsAudit(view) /\ Proper /\ Single("logs") /\ (~view.typing => Asks("logs", q))
  BY ZenonT(20) DEF AuditInv
<1>1. ASSUME NEW f \in Filters, Audit!SetFilters(f) PROVE AuditInv'
  <2>1. /\ IsAudit(view') /\ view'.typing /\ view'.result = view.result /\ view'.error = view.error
        /\ calls' = calls
    BY <1>0, <1>1, ZenonT(20) DEF Audit!SetFilters, IsAudit
  <2>2. QED
    BY <2>1, ZenonT(20) DEF AuditInv, Proper, Single, Asked
<1>2. ASSUME NEW p, Audit!Switch(Audit!Call("logs", Audit!Query(view.filter, p))),
             view'.filter = view.filter, view'.page = p, ~view'.error, IsAudit(view')
      PROVE  AuditInv'
  <2> PICK r : r = Audit!Query(view.filter, p)
    OBVIOUS
  <2> PICK x : x = [op |-> "logs", arg |-> r, seen |-> FALSE]
    OBVIOUS
  <2>1. x.op = "logs" /\ calls' = (calls \ {c \in calls : c.op = x.op}) \cup {x}
    BY <1>2, ZenonT(20) DEF Audit!Switch, Audit!Call
  <2>2. Proper' /\ Asks("logs", r)' /\ Single("logs")' /\ Asked("logs")'
        /\ \A c \in calls' : c.op = "logs" => ~c.seen
    BY <1>0, <2>1, Switched, ZenonT(20)
  <2>3. r = Audit!Query(view'.filter, view'.page)
    BY <1>2, ZenonT(20)
  <2>4. QED
    BY <1>2, <2>2, <2>3, ZenonT(20) DEF AuditInv
<1>3. ASSUME NEW p, Audit!Load(p) PROVE AuditInv'
  <2>1. view'.filter = view.filter /\ view'.page = p /\ ~view'.error /\ IsAudit(view')
    BY <1>0, <1>3, ZenonT(20) DEF Audit!Load, IsAudit
  <2>2. QED
    BY <1>2, <1>3, <2>1, ZenonT(20) DEF Audit!Load
<1>4. CASE Audit!Debounced
  <2>1. view'.filter = view.filter /\ view'.page = 1 /\ ~view'.error /\ IsAudit(view')
    BY <1>0, <1>4, ZenonT(20) DEF Audit!Debounced, IsAudit
  <2>2. QED
    BY <1>2, <1>4, <2>1, ZenonT(20) DEF Audit!Debounced
<1>5. CASE Audit!Toggle
  <2>1. /\ IsAudit(view') /\ view'.filter = view.filter /\ view'.page = view.page
        /\ view'.typing = view.typing /\ view'.result = view.result /\ view'.error = view.error
        /\ calls' = calls
    BY <1>0, <1>5, ZenonT(20) DEF Audit!Toggle, IsAudit
  <2>2. Audit!Query(view'.filter, view'.page) = q
    BY <2>1, ZenonT(20)
  <2>3. QED
    BY <1>0, <2>1, <2>2, ZenonT(20) DEF AuditInv, Proper, Single, Asked, Asks
<1>6. CASE Audit!Receive
  <2> PICK c \in calls : /\ c.op = "logs"
                         /\ \/ calls' = calls \ {c}
                            \/ calls' = (calls \ {c}) \cup {[c EXCEPT !.seen = TRUE]}
                         /\ view' = [view EXCEPT !.result = c.arg, !.loading = FALSE, !.expanded = FALSE]
    BY <1>6, ZenonT(20) DEF Audit!Receive, Audit!Shows, Audit!Previews
  <2>1. /\ IsAudit(view') /\ view'.filter = view.filter /\ view'.page = view.page
        /\ view'.typing = view.typing /\ view'.error = view.error /\ view'.result = c.arg
    BY <1>0, ZenonT(20) DEF IsAudit
  <2>2. Proper' /\ Single("logs")' /\ (~view.typing => Asks("logs", q)')
    BY <1>0, Ended, Previewed, ZenonT(20)
  <2>3. \A d \in calls' : d.op = "logs" => d.arg = c.arg
    <3>1. CASE calls' = calls \ {c}
      BY <1>0, <3>1, ZenonT(20) DEF Single
    <3>2. CASE calls' = (calls \ {c}) \cup {[c EXCEPT !.seen = TRUE]}
      BY <1>0, <3>2, Previewed, ZenonT(20) DEF Single
    <3>3. QED
      BY <3>1, <3>2, Zenon
  <2>4. (~view.typing => c.arg = q) /\ ~view.error
    BY <1>0, ZenonT(20) DEF Asks, AuditInv, Asked
  <2>5. Audit!Query(view'.filter, view'.page) = q
    BY <2>1, ZenonT(20)
  <2>6. QED
    BY <2>1, <2>2, <2>3, <2>4, <2>5, ZenonT(20) DEF AuditInv
<1>7. CASE Audit!Fail
  <2> PICK c \in calls : /\ c.op = "logs" /\ calls' = calls \ {c}
                         /\ view' = [view EXCEPT !.result = Audit!Empty, !.loading = FALSE,
                                                 !.expanded = FALSE, !.error = TRUE]
    BY <1>7, ZenonT(20) DEF Audit!Fail
  <2>1. /\ IsAudit(view') /\ view'.filter = view.filter /\ view'.page = view.page
        /\ view'.typing = view.typing /\ view'.error /\ view'.result = Audit!Empty
    BY <1>0, ZenonT(20) DEF IsAudit
  <2>2. /\ Proper' /\ Single("logs")' /\ (~view.typing => Asks("logs", q)') /\ ~Asked("logs")'
    BY <1>0, Ended, ZenonT(20)
  <2>3. Audit!Query(view'.filter, view'.page) = q
    BY <2>1, ZenonT(20)
  <2>4. \A d \in calls' : d.op # "logs"
    BY <2>2, ZenonT(20) DEF Asked
  <2>5. QED
    BY <2>1, <2>2, <2>3, <2>4, ZenonT(20) DEF AuditInv
<1>8. CASE Audit!Quiet
  <2> PICK c \in calls : c.op = "logs" /\ c.seen /\ calls' = calls \ {c} /\ view' = view
    BY <1>8, ZenonT(20) DEF Audit!Quiet, Audit!EndsQuietly
  <2>1. view.result = c.arg /\ (~view.typing => c.arg = q) /\ ~view.error
    BY <1>0, ZenonT(20) DEF AuditInv, Asks, Asked
  <2>2. /\ Proper' /\ Single("logs")' /\ (~view.typing => Asks("logs", q)') /\ ~Asked("logs")'
    BY <1>0, Ended, ZenonT(20)
  <2>3. \A d \in calls' : d.op # "logs"
    BY <2>2, ZenonT(20) DEF Asked
  <2>4. QED
    BY <1>0, <2>1, <2>2, <2>3, ZenonT(20) DEF AuditInv
<1>9. CASE Audit!ReceiveActors
  <2> PICK c \in calls : /\ c.op = "actors"
                         /\ \/ calls' = calls \ {c}
                            \/ calls' = (calls \ {c}) \cup {[c EXCEPT !.seen = TRUE]}
                         /\ view' = [view EXCEPT !.actors = TRUE] \/ view' = view
    BY <1>9, ZenonT(20) DEF Audit!ReceiveActors, Audit!Shows, Audit!Previews
  <2>0. c.op # "logs"
    BY ZenonT(20)
  <2>1. /\ IsAudit(view') /\ view'.filter = view.filter /\ view'.page = view.page
        /\ view'.typing = view.typing /\ view'.error = view.error /\ view'.result = view.result
    BY <1>0, ZenonT(20) DEF IsAudit
  <2>2. /\ Proper' /\ Single("logs")' /\ (~view.typing => Asks("logs", q)')
        /\ (Asked("logs")' <=> Asked("logs"))
    BY <1>0, <2>0, Ended, Previewed, ZenonT(20)
  <2>3. \A d \in calls' : d.op = "logs" => d \in calls
    <3>1. CASE calls' = calls \ {c}
      BY <3>1, ZenonT(20)
    <3>2. CASE calls' = (calls \ {c}) \cup {[c EXCEPT !.seen = TRUE]}
      BY <1>0, <2>0, <3>2, Previewed, ZenonT(20)
    <3>3. QED
      BY <3>1, <3>2, Zenon
  <2>4. Audit!Query(view'.filter, view'.page) = q
    BY <2>1, ZenonT(20)
  <2>5. QED
    BY <2>1, <2>2, <2>3, <2>4, ZenonT(20) DEF AuditInv
<1>10. QED
  BY <1>1, <1>3, <1>4, <1>5, <1>6, <1>7, <1>8, <1>9, ListsAssumption, Zenon
     DEF Audit!Next, Audit!ClearFilters, Audit!Refresh, Audit!GoToPage, Audit!Answer

\* Hence the rows are those of the filters, and never absent.
LEMMA AuditShows == AuditInv => Audit!ShowsSelection
<1> SUFFICES ASSUME AuditInv PROVE Audit!ShowsSelection
  OBVIOUS
<1>1. Audit!Waiting("logs") <=> Asked("logs")
  BY ZenonT(20) DEF Audit!Waiting, Audit!Under, Asked
<1>2. (Audit!Screen # "banner" => ~view.error) /\ (Audit!Screen = "nothing" => view.result = Audit!Empty)
  BY SMT DEF Audit!Screen, AuditInv, IsAudit
<1>3. Audit!Query(view.filter, view.page) # Audit!Empty
  <2>1. view.filter # None
    BY ListsAssumption, ZenonT(20) DEF AuditInv, IsAudit
  <2>2. QED
    BY <2>1, SMT DEF Audit!Query, Audit!Empty
<1>4. QED
  BY <1>1, <1>2, <1>3, ZenonT(20) DEF Audit!ShowsSelection, AuditInv

-----------------------------------------------------------------------------
(* The property its address names.                                         *)

HouseInv ==
    /\ IsHouse(view) /\ Proper
    /\ ~view.notFound =>
          /\ Single("details") /\ Asks("details", view.id)
          /\ \A c \in calls : c.op = "details" /\ c.seen => view.property = c.arg
          /\ ~Asked("details") => view.property = view.id

\* Opened, the property of the address is read.
LEMMA HouseOpened == House!Init => HouseInv
<1> SUFFICES ASSUME House!Init PROVE HouseInv
  OBVIOUS
<1> PICK id \in Houses : view = House!Opened(id) /\ calls = {House!Call("details", id)}
  BY ZenonT(20) DEF House!Init
<1> PICK x : x = [op |-> "details", arg |-> id, seen |-> FALSE]
  OBVIOUS
<1>1. IsHouse(view) /\ view.id = id
  BY Numbers, ZenonT(20) DEF IsHouse, House!Opened
<1>2. calls = {x} /\ IsCall(x) /\ x.op = "details" /\ x.arg = id /\ ~x.seen
  BY ZenonT(20) DEF House!Call, IsCall
<1>3. Proper /\ Single("details") /\ Asks("details", id) /\ Asked("details")
      /\ \A c \in calls : ~c.seen
  BY <1>2, ZenonT(20) DEF Proper, Single, Asks, Asked
<1>4. QED
  BY <1>1, <1>3, ZenonT(20) DEF HouseInv

\* Other requests than those for the property leave it alone.
LEMMA HouseUnread ==
  ASSUME HouseInv, Proper', IsHouse(view'),
         view'.id = view.id, view'.property = view.property, view'.notFound = view.notFound,
         \A d \in calls' : d.op = "details" => d \in calls,
         \A d \in calls : d.op = "details" => d \in calls'
  PROVE  HouseInv'
<1> PICK q : q = view.id
  OBVIOUS
<1>1. ASSUME ~view.notFound
      PROVE  Single("details")' /\ Asks("details", q)' /\ (Asked("details")' <=> Asked("details"))
  BY <1>1, ZenonT(20) DEF HouseInv, Single, Asks, Asked
<1>2. QED
  BY <1>1, ZenonT(20) DEF HouseInv

\* One read at a time, of the property of the address, until one fails.
LEMMA HouseReads ==
  ASSUME HouseInv, House!Next
  PROVE  HouseInv'
<1> USE DEF House!Under, House!Ends
<1> PICK q : q = view.id
  OBVIOUS
<1>0. IsHouse(view) /\ Proper /\ (~view.notFound => Single("details") /\ Asks("details", q))
  BY ZenonT(20) DEF HouseInv
<1>1. ASSUME view' = view, calls' = calls PROVE HouseInv'
  BY <1>1, ZenonT(20) DEF HouseInv, Proper, Single, Asks, Asked
<1>2. CASE House!Enter
  <2>1. /\ IsHouse(view') /\ view'.id = view.id /\ view'.property = view.property
        /\ view'.notFound = view.notFound /\ calls' = calls
    BY <1>0, <1>2, ZenonT(20) DEF House!Enter, IsHouse
  <2>2. Proper'
    BY <1>0, <2>1, ZenonT(20) DEF Proper
  <2>3. QED
    BY <2>1, <2>2, HouseUnread, ZenonT(20)
<1>3. CASE House!Submit
  <2> PICK arg : calls' = calls \cup {[op |-> "submit", arg |-> arg, seen |-> FALSE]}
    BY <1>3, ZenonT(20) DEF House!Submit, House!Subscribe, House!Submitted, House!Call
  <2> PICK x : x = [op |-> "submit", arg |-> arg, seen |-> FALSE]
    OBVIOUS
  <2>1. /\ IsHouse(view') /\ view'.id = view.id /\ view'.property = view.property
        /\ view'.notFound = view.notFound
    BY <1>0, <1>3, ZenonT(20) DEF House!Submit, IsHouse
  <2>2. IsCall(x) /\ x.op # "details"
    BY ZenonT(20) DEF IsCall
  <2>3. \A d \in calls' : d = x \/ d \in calls
    BY ZenonT(20)
  <2>4. Proper' /\ (\A d \in calls' : d.op = "details" => d \in calls) /\ \A d \in calls : d \in calls'
    BY <1>0, <2>2, <2>3, ZenonT(20) DEF Proper
  <2>5. QED
    BY <2>1, <2>4, HouseUnread, ZenonT(20)
<1>4. ASSUME NEW c \in calls, c.op # "details", IsHouse(view'), view'.id = view.id,
             view'.property = view.property, view'.notFound = view.notFound,
             \/ calls' = calls \ {c}
             \/ calls' = (calls \ {c}) \cup {[c EXCEPT !.seen = TRUE]}
      PROVE  HouseInv'
  <2>1. Proper' /\ (\A d \in calls : d.op = "details" => d \in calls')
    BY <1>0, <1>4, Ended, Previewed, ZenonT(20)
  <2>2. \A d \in calls' : d.op = "details" => d \in calls
    <3>1. CASE calls' = calls \ {c}
      BY <3>1, ZenonT(20)
    <3>2. CASE calls' = (calls \ {c}) \cup {[c EXCEPT !.seen = TRUE]}
      BY <1>0, <1>4, <3>2, Previewed, ZenonT(20)
    <3>3. QED
      BY <1>4, <3>1, <3>2, Zenon
  <2>3. QED
    BY <1>4, <2>1, <2>2, HouseUnread, ZenonT(20)
<1>5. CASE House!CreateEnquiry
  BY <1>0, <1>4, <1>5, ZenonT(20) DEF House!CreateEnquiry, House!Executes
<1>6. CASE House!Enquired
  <2> PICK c \in calls : c.op = "submit" /\ calls' = calls \ {c}
                         /\ view' = [view EXCEPT !.done = TRUE, !.saving = FALSE]
    BY <1>6, ZenonT(20) DEF House!Enquired, House!Succeeds
  <2>1. /\ IsHouse(view') /\ view'.id = view.id /\ view'.property = view.property
        /\ view'.notFound = view.notFound /\ c.op # "details"
    BY <1>0, ZenonT(20) DEF IsHouse
  <2>2. QED
    BY <1>4, <2>1, ZenonT(20)
<1>7. CASE House!Refused
  <2> PICK c \in calls : c.op = "submit" /\ calls' = calls \ {c}
                         /\ view' = [view EXCEPT !.saving = FALSE, !.told = @ + 1]
    BY <1>7, ZenonT(20) DEF House!Refused
  <2>1. /\ IsHouse(view') /\ view'.id = view.id /\ view'.property = view.property
        /\ view'.notFound = view.notFound /\ c.op # "details"
    BY <1>0, Numbers, ZenonT(20) DEF IsHouse
  <2>2. QED
    BY <1>4, <2>1, ZenonT(20)
<1>8. CASE House!ReceiveRelated
  <2> PICK c \in calls : /\ c.op = "related"
                         /\ calls' = calls \ {c} \/ calls' = (calls \ {c}) \cup {[c EXCEPT !.seen = TRUE]}
                         /\ view' = [view EXCEPT !.related = c.arg] \/ view' = view
    BY <1>8, ZenonT(20) DEF House!ReceiveRelated, House!Shows, House!Previews
  <2>1. /\ IsHouse(view') /\ view'.id = view.id /\ view'.property = view.property
        /\ view'.notFound = view.notFound /\ c.op # "details"
    BY <1>0, ZenonT(20) DEF IsHouse
  <2>2. QED
    BY <1>4, <2>1, ZenonT(20)
<1>9. CASE House!ReceiveProperty
  <2> PICK c \in calls : /\ c.op = "details" /\ view' = [view EXCEPT !.property = c.arg]
                         /\ \E rest \in {{}} \cup IF c.seen THEN {} ELSE {{[c EXCEPT !.seen = TRUE]}} :
                               calls' = (calls \ {c}) \cup rest \cup {House!Call("related", c.arg)}
    BY <1>9, ZenonT(20) DEF House!ReceiveProperty
  <2> PICK x, y : x = [c EXCEPT !.seen = TRUE] /\ y = House!Call("related", c.arg)
    OBVIOUS
  <2>1. /\ IsHouse(view') /\ view'.id = view.id /\ view'.property = c.arg
        /\ view'.notFound = view.notFound
    BY <1>0, ZenonT(20) DEF IsHouse
  <2>2. IsCall(x) /\ x.op = "details" /\ x.arg = c.arg
    BY <1>0, ZenonT(20) DEF Proper, IsCall
  <2>3. IsCall(y) /\ y.op # "details"
    BY ZenonT(20) DEF IsCall, House!Call
  <2>4. \A d \in calls' : (d \in calls /\ d # c) \/ d = x \/ d = y
    BY SMT
  <2>5. Proper'
    BY <1>0, <2>2, <2>3, <2>4, ZenonT(20) DEF Proper
  <2>6. ~view.notFound => c.arg = q /\ \A d \in calls' : d.op = "details" => d = x
    BY <1>0, <2>2, <2>3, <2>4, ZenonT(20) DEF Single, Asks
  <2>7. ~view.notFound => Single("details")' /\ Asks("details", q)'
    BY <2>2, <2>6, ZenonT(20) DEF Single, Asks
  <2>8. QED
    BY <2>1, <2>2, <2>5, <2>6, <2>7, ZenonT(20) DEF HouseInv
<1>10. CASE House!LoseProperty
  <2> PICK c \in calls : /\ calls' = calls \ {c}
                         /\ view' = [view EXCEPT !.property = None, !.notFound = TRUE]
    BY <1>10, ZenonT(20) DEF House!LoseProperty
  <2>1. IsHouse(view') /\ view'.notFound
    BY <1>0, ZenonT(20) DEF IsHouse
  <2>2. Proper'
    BY <1>0, Ended, ZenonT(20)
  <2>3. QED
    BY <2>1, <2>2, ZenonT(20) DEF HouseInv
<1>11. CASE House!Quiet
  <2> PICK c \in calls : c.op = "details" /\ c.seen /\ calls' = calls \ {c} /\ view' = view
    BY <1>11, ZenonT(20) DEF House!Quiet, House!EndsQuietly
  <2>1. Proper' /\ (~view.notFound => Single("details")' /\ Asks("details", q)')
        /\ \A d \in calls' : d \in calls
    BY <1>0, Ended, ZenonT(20)
  <2>2. ~view.notFound => view.property = c.arg /\ c.arg = q
    BY <1>0, ZenonT(20) DEF HouseInv, Asks
  <2>3. QED
    BY <1>0, <2>1, <2>2, ZenonT(20) DEF HouseInv
<1>12. ASSUME NEW id \in Houses, House!GoTo(id) PROVE HouseInv'
  <2>1. IsHouse(view') /\ view'.id = id /\ view'.notFound = view.notFound
    BY <1>0, <1>12, ZenonT(20) DEF House!GoTo, IsHouse
  <2>2. CASE view.notFound
    BY <1>0, <1>12, <2>1, <2>2, ZenonT(20) DEF House!GoTo, HouseInv, Proper
  <2>3. CASE ~view.notFound
    <3> PICK x : x = [op |-> "details", arg |-> id, seen |-> FALSE]
      OBVIOUS
    <3>1. x.op = "details" /\ calls' = (calls \ {c \in calls : c.op = x.op}) \cup {x}
      BY <1>12, <2>3, ZenonT(20) DEF House!GoTo, House!Switch, House!Call
    <3>2. Proper' /\ Asks("details", id)' /\ Single("details")' /\ Asked("details")'
          /\ \A c \in calls' : c.op = "details" => ~c.seen
      BY <1>0, <3>1, Switched, ZenonT(20)
    <3>3. QED
      BY <2>1, <3>2, ZenonT(20) DEF HouseInv
  <2>4. QED
    BY <2>2, <2>3, Zenon
<1>13. CASE House!Others
  BY <1>1, <1>13, ZenonT(20) DEF House!Others
<1>14. QED
  BY <1>2, <1>3, <1>5, <1>6, <1>7, <1>8, <1>9, <1>10, <1>11, <1>12, <1>13, Zenon
     DEF House!Next, House!Answer

\* Hence it is the one shown.
LEMMA HouseShows == HouseInv => House!ShowsSelection
BY ZenonT(20) DEF HouseInv, House!ShowsSelection, House!Waiting, House!Under, Asked

-----------------------------------------------------------------------------
(* The form of a property: one save at a time, of two requests at most.    *)

IsForm(v) ==
    v \in [id : BOOLEAN, property : {v.property}, form : {v.form}, saving : BOOLEAN,
           sent : {v.sent}, done : BOOLEAN, told : {v.told}]

Saves(c) == c.op \in {"create", "update", "tenant"}

SaveInv ==
    /\ IsForm(view) /\ Proper
    /\ \A c \in calls : c.op = "details" \/ (Saves(c) /\ view.saving)
    /\ \A c, d \in calls : c.op # "details" /\ d.op # "details" => c = d
    /\ \A c \in calls : c.op \in {"create", "update"} => c.arg = view.sent

\* Opened, nothing is saved.
LEMMA SaveInit == PropertyForm!Init => SaveInv
<1> SUFFICES ASSUME PropertyForm!Init PROVE SaveInv
  OBVIOUS
<1> PICK editing \in BOOLEAN :
        /\ view = PropertyForm!Opened(editing)
        /\ calls = IF editing THEN {PropertyForm!Call("details", None)} ELSE {}
  BY Zenon DEF PropertyForm!Init
<1>1. IsForm(view)
  BY ZenonT(20) DEF IsForm, PropertyForm!Opened
<1> PICK x : x = [op |-> "details", arg |-> None, seen |-> FALSE]
  OBVIOUS
<1>2. \A c \in calls : c = x
  BY ZenonT(20) DEF PropertyForm!Call
<1>3. IsCall(x) /\ x.op = "details"
  BY ZenonT(20) DEF IsCall
<1>4. "details" \notin {"create", "update"}
  BY ZenonT(20)
<1>5. QED
  BY <1>1, <1>2, <1>3, <1>4, ZenonT(20) DEF SaveInv, Proper

\* Each kind of step keeps the invariant; only the last request ends in success.
LEMMA SaveStep ==
  ASSUME SaveInv, PropertyForm!Next
  PROVE  SaveInv' /\ PropertyForm!SuccessComesLast
<1> USE DEF PropertyForm!Under, PropertyForm!Ends
<1>0. /\ IsForm(view) /\ Proper
      /\ \A c, d \in calls : c.op # "details" /\ d.op # "details" => c = d
  BY ZenonT(20) DEF SaveInv
<1>1. ASSUME IsForm(view'), view'.saving = view.saving, view'.sent = view.sent, view'.done = view.done,
             \A c \in calls' : c \in calls
      PROVE  SaveInv' /\ PropertyForm!SuccessComesLast
  BY <1>1, ZenonT(20) DEF SaveInv, Proper, PropertyForm!SuccessComesLast
<1>2. ASSUME IsForm(view'), ~view'.saving, view'.sent = view.sent,
             NEW c \in calls, c.op # "details", calls' = calls \ {c}
      PROVE  SaveInv'
  <2>1. \A d \in calls' : d \in calls /\ d.op = "details"
    BY <1>0, <1>2, ZenonT(20)
  <2>2. QED
    BY <1>2, <2>1, ZenonT(20) DEF SaveInv, Proper
<1>3. ASSUME NEW c \in calls, c.op # "details", NEW x, IsCall(x), Saves(x), view.saving,
             x.op \in {"create", "update"} => x.arg = view.sent,
             calls' = (calls \ {c}) \cup {x}, view' = view
      PROVE  SaveInv' /\ PropertyForm!SuccessComesLast
  <2>1. \A d \in calls' : d = x \/ (d \in calls /\ d.op = "details")
    BY <1>0, <1>3, ZenonT(20)
  <2>2. Proper'
    BY <1>0, <1>3, <2>1, ZenonT(20) DEF Proper
  <2>3. \A d, e \in calls' : d.op # "details" /\ e.op # "details" => d = e
    BY <2>1, ZenonT(20)
  <2>4. \A d \in calls' : d.op \in {"create", "update"} => d.arg = view.sent
    <3>1. "details" \notin {"create", "update"}
      BY ZenonT(20)
    <3>2. QED
      BY <1>3, <2>1, <3>1, ZenonT(20)
  <2>5. QED
    BY <1>0, <1>3, <2>1, <2>2, <2>3, <2>4, ZenonT(20) DEF SaveInv, PropertyForm!SuccessComesLast
<1>4. CASE PropertyForm!Others
  BY <1>0, <1>1, <1>4, ZenonT(20) DEF PropertyForm!Others
<1>5. CASE PropertyForm!Type
  <2>1. \E form : view' = [view EXCEPT !.form = form]
    BY <1>5, ZenonT(20) DEF PropertyForm!Type
  <2>2. IsForm(view') /\ view'.saving = view.saving /\ view'.sent = view.sent /\ view'.done = view.done
    BY <1>0, <2>1, ZenonT(20) DEF IsForm
  <2>3. calls' = calls
    BY <1>5, ZenonT(20) DEF PropertyForm!Type
  <2>4. QED
    BY <1>1, <2>2, <2>3, ZenonT(20)
<1>6. CASE PropertyForm!Save
  <2> PICK op : op = IF view.id THEN "update" ELSE "create"
    OBVIOUS
  <2>0. op \in {"create", "update"}
    BY ZenonT(20)
  <2> PICK body : /\ view' = [view EXCEPT !.saving = TRUE, !.sent = body]
                  /\ calls' = calls \cup {[op |-> op, arg |-> body, seen |-> FALSE]}
    BY <1>6, ZenonT(20) DEF PropertyForm!Save, PropertyForm!Subscribe, PropertyForm!Call
  <2> PICK x : x = [op |-> op, arg |-> body, seen |-> FALSE]
    OBVIOUS
  <2>1. IsForm(view') /\ view'.saving /\ view'.sent = body /\ view'.done = view.done
    BY <1>0, ZenonT(20) DEF IsForm
  <2>2. IsCall(x) /\ x.op = op /\ x.arg = body /\ Saves(x)
    BY <2>0, ZenonT(20) DEF IsCall, Saves
  <2>3. ~view.saving
    BY <1>6, ZenonT(20) DEF PropertyForm!Save
  <2>4. \A d \in calls' : d = x \/ (d \in calls /\ d.op = "details")
    BY <2>3, ZenonT(20) DEF SaveInv
  <2>5. Proper'
    BY <1>0, <2>2, <2>4, ZenonT(20) DEF Proper
  <2>6. \A d, e \in calls' : d.op # "details" /\ e.op # "details" => d = e
    BY <2>4, ZenonT(20)
  <2>7. \A d \in calls' : d.op \in {"create", "update"} => d.arg = body
    <3>1. "details" \notin {"create", "update"}
      BY ZenonT(20)
    <3>2. QED
      BY <2>2, <2>4, <3>1, ZenonT(20)
  <2>8. QED
    BY <2>1, <2>2, <2>4, <2>5, <2>6, <2>7, ZenonT(20) DEF SaveInv, PropertyForm!SuccessComesLast
<1>7. ASSUME NEW c \in calls, Saves(c), PropertyForm!Executes(c), view' = view
      PROVE  SaveInv' /\ PropertyForm!SuccessComesLast
  <2> PICK x : x = [c EXCEPT !.seen = TRUE]
    OBVIOUS
  <2>1. IsCall(x) /\ x.op = c.op /\ x.arg = c.arg
    BY <1>0, ZenonT(20) DEF Proper, IsCall
  <2>2. c.op # "details" /\ Saves(x)
    BY <1>7, <2>1, ZenonT(20) DEF Saves
  <2>3. view.saving /\ (c.op \in {"create", "update"} => c.arg = view.sent)
    BY <2>2, ZenonT(20) DEF SaveInv
  <2>4. QED
    BY <1>3, <1>7, <2>1, <2>2, <2>3, ZenonT(20) DEF PropertyForm!Executes
<1>8. CASE PropertyForm!UpdateAsync
  BY <1>7, <1>8, ZenonT(20) DEF PropertyForm!UpdateAsync, Saves
<1>9. CASE PropertyForm!UpdateTenantAsync
  BY <1>7, <1>9, ZenonT(20) DEF PropertyForm!UpdateTenantAsync, Saves
<1>10. CASE PropertyForm!ReceiveDetails
  <2>1. \E p, form : view' = [view EXCEPT !.property = p, !.form = form]
    BY <1>10, ZenonT(20) DEF PropertyForm!ReceiveDetails
  <2>2. IsForm(view') /\ view'.saving = view.saving /\ view'.sent = view.sent /\ view'.done = view.done
    BY <1>0, <2>1, ZenonT(20) DEF IsForm
  <2>3. \A c \in calls' : c \in calls
    BY <1>10, ZenonT(20) DEF PropertyForm!ReceiveDetails
  <2>4. QED
    BY <1>1, <2>2, <2>3, ZenonT(20)
<1>11. CASE PropertyForm!LoseDetails
  BY <1>0, <1>1, <1>11, ZenonT(20) DEF PropertyForm!LoseDetails
<1>12. ASSUME NEW c \in calls, Saves(c), PropertyForm!Finish(c)
       PROVE  SaveInv'
  <2>1. IsForm(view') /\ ~view'.saving /\ view'.sent = view.sent
    BY <1>0, <1>12, ZenonT(20) DEF PropertyForm!Finish, IsForm
  <2>2. c.op # "details"
    BY <1>12, ZenonT(20) DEF Saves
  <2>3. QED
    BY <1>2, <1>12, <2>1, <2>2, ZenonT(20) DEF PropertyForm!Finish
<1>13. CASE PropertyForm!Updated
  <2> PICK c \in calls :
          /\ c.op \in {"update", "create"}
          /\ IF c.arg.tenant = None THEN PropertyForm!Finish(c)
             ELSE /\ calls' = (calls \ {c}) \cup {[op |-> "tenant", arg |-> c.arg.tenant, seen |-> FALSE]}
                  /\ view' = view
    BY <1>13, ZenonT(20) DEF PropertyForm!Updated, PropertyForm!Call
  <2>1. Saves(c) /\ c.op # "details" /\ c.arg = view.sent /\ view.saving
    BY ZenonT(20) DEF SaveInv, Saves
  <2>2. CASE c.arg.tenant = None
    BY <1>12, <2>1, <2>2, ZenonT(20) DEF PropertyForm!SuccessComesLast
  <2>3. CASE c.arg.tenant # None
    <3> PICK x : x = [op |-> "tenant", arg |-> c.arg.tenant, seen |-> FALSE]
      OBVIOUS
    <3>1. IsCall(x) /\ Saves(x) /\ x.op \notin {"create", "update"}
      BY ZenonT(20) DEF IsCall, Saves
    <3>2. QED
      BY <1>3, <2>1, <2>3, <3>1, ZenonT(20)
  <2>4. QED
    BY <2>2, <2>3, Zenon
<1>14. CASE PropertyForm!TenantUpdated
  <2> PICK c \in calls : c.op = "tenant" /\ c.seen /\ PropertyForm!Finish(c)
    BY <1>14, ZenonT(20) DEF PropertyForm!TenantUpdated
  <2>1. SaveInv'
    BY <1>12, ZenonT(20) DEF Saves
  <2>2. QED
    BY <2>1, ZenonT(20) DEF PropertyForm!SuccessComesLast
<1>15. CASE PropertyForm!Fail
  <2> PICK c \in calls : /\ c.op # "details" /\ calls' = calls \ {c}
                         /\ view' = [view EXCEPT !.saving = FALSE, !.told = @ + 1]
    BY <1>15, ZenonT(20) DEF PropertyForm!Fail
  <2>1. IsForm(view') /\ ~view'.saving /\ view'.sent = view.sent /\ view'.done = view.done
    BY <1>0, ZenonT(20) DEF IsForm
  <2>2. QED
    BY <1>2, <2>1, ZenonT(20) DEF PropertyForm!SuccessComesLast
<1>16. QED
  BY <1>4, <1>5, <1>6, <1>8, <1>9, <1>10, <1>11, <1>13, <1>14, <1>15, Zenon
     DEF PropertyForm!Next, PropertyForm!Answer

-----------------------------------------------------------------------------
(* The editor of a block.                                                  *)

IsBlocks(v) ==
    v \in [blocks : {v.blocks}, editing : {v.editing}, selected : {v.selected}, form : {v.form},
           saving : {v.saving}, dialog : {v.dialog}, lost : {v.lost}]

BlockInv ==
    /\ IsBlocks(view) /\ Proper
    /\ view.selected = view.form
    /\ BlockList!SavesWhatIsEdited

\* Opened, the editor is closed.
LEMMA BlockInit == BlockList!Init => BlockInv
<1> SUFFICES ASSUME BlockList!Init PROVE BlockInv
  OBVIOUS
<1>1. IsBlocks(view) /\ view.selected = view.form
  BY ZenonT(20) DEF BlockList!Init, BlockList!Opened, IsBlocks
<1> PICK x : x = [op |-> "list", arg |-> None, seen |-> FALSE]
  OBVIOUS
<1>2. calls = {x} /\ IsCall(x) /\ x.op # "save"
  BY ZenonT(20) DEF BlockList!Init, BlockList!Call, IsCall
<1>3. QED
  BY <1>1, <1>2, ZenonT(20) DEF BlockInv, Proper, BlockList!SavesWhatIsEdited, BlockList!Under

\* What is selected is what the form was filled with, and what is sent.
LEMMA BlockStep ==
  ASSUME BlockInv, BlockList!Next
  PROVE  BlockInv'
<1> USE DEF BlockList!Under, BlockList!Ends
<1>0. IsBlocks(view) /\ Proper
  BY ZenonT(20) DEF BlockInv
\* Requests that begin are of what is selected; the others are as they were.
<1>1. ASSUME IsBlocks(view'), view'.selected = view'.form,
             \A d \in calls' : d \in calls \/ (IsCall(d) /\ (d.op = "save" => d.arg.target = d.arg.form))
      PROVE  BlockInv'
  BY <1>0, <1>1, ZenonT(20) DEF BlockInv, Proper, BlockList!SavesWhatIsEdited
<1>2. ASSUME NEW c \in calls, BlockList!Executes(c), view' = view
      PROVE  BlockInv'
  <2> PICK x : x = [c EXCEPT !.seen = TRUE]
    OBVIOUS
  <2>1. IsCall(x) /\ x.op = c.op /\ x.arg = c.arg
    BY <1>0, ZenonT(20) DEF Proper, IsCall
  <2>2. \A d \in calls' : d \in calls \/ d = x
    BY <1>2, ZenonT(20) DEF BlockList!Executes
  <2>3. c.op = "save" => c.arg.target = c.arg.form
    BY ZenonT(20) DEF BlockInv, BlockList!SavesWhatIsEdited
  <2>4. QED
    BY <1>0, <1>1, <1>2, <2>1, <2>2, <2>3, ZenonT(20) DEF BlockInv
<1>3. ASSUME NEW c \in calls, BlockList!Reload(c), IsBlocks(view'), view'.selected = view'.form
      PROVE  BlockInv'
  <2> PICK x : x = [op |-> "list", arg |-> None, seen |-> FALSE]
    OBVIOUS
  <2>1. IsCall(x) /\ x.op # "save"
    BY ZenonT(20) DEF IsCall
  <2>2. \A d \in calls' : d \in calls \/ d = x
    BY <1>3, ZenonT(20) DEF BlockList!Reload, BlockList!Call
  <2>3. QED
    BY <1>1, <1>3, <2>1, <2>2, ZenonT(20)
<1>4. CASE BlockList!OpenNew
  BY <1>0, <1>1, <1>4, ZenonT(20) DEF BlockList!OpenNew, IsBlocks
<1>5. ASSUME NEW b, BlockList!Edit(b) PROVE BlockInv'
  BY <1>0, <1>1, <1>5, ZenonT(20) DEF BlockList!Edit, IsBlocks
\* Nothing of the editor's data changes.
<1>6. ASSUME IsBlocks(view'), view'.selected = view.selected, view'.form = view.form,
             \A d \in calls' : d \in calls
      PROVE  BlockInv'
  BY <1>1, <1>6, ZenonT(20) DEF BlockInv
<1>7. CASE BlockList!Close
  BY <1>0, <1>6, <1>7, ZenonT(20) DEF BlockList!Close, IsBlocks
<1>8. CASE BlockList!Save
  <2> PICK x : x = [op |-> "save", arg |-> [target |-> view.selected, form |-> view.form], seen |-> FALSE]
    OBVIOUS
  <2>1. IsBlocks(view') /\ view'.selected = view.selected /\ view'.form = view.form
    BY <1>0, <1>8, ZenonT(20) DEF BlockList!Save, IsBlocks
  <2>2. IsCall(x) /\ x.arg.target = x.arg.form
    <3>1. x.arg = [target |-> view.selected, form |-> view.form] /\ IsCall(x)
      BY ZenonT(20) DEF IsCall
    <3>2. x.arg.target = view.selected /\ x.arg.form = view.form
      BY <3>1, SMT
    <3>3. QED
      BY <3>1, <3>2, ZenonT(20) DEF BlockInv
  <2>3. \A d \in calls' : d \in calls \/ d = x
    BY <1>8, ZenonT(20) DEF BlockList!Save, BlockList!Subscribe, BlockList!Call
  <2>4. QED
    BY <1>1, <2>1, <2>2, <2>3, ZenonT(20) DEF BlockInv
<1>9. CASE BlockList!StoreBlock
  BY <1>2, <1>9, ZenonT(20) DEF BlockList!StoreBlock
<1>10. CASE BlockList!StoreDelete
  BY <1>2, <1>10, ZenonT(20) DEF BlockList!StoreDelete
<1>11. CASE BlockList!Dismiss
  BY <1>0, <1>6, <1>11, ZenonT(20) DEF BlockList!Dismiss, IsBlocks
<1>12. CASE BlockList!Confirm
  <2> PICK x : x = [op |-> "delete", arg |-> view.dialog, seen |-> FALSE]
    OBVIOUS
  <2>1. IsBlocks(view') /\ view'.selected = view.selected /\ view'.form = view.form
    BY <1>0, <1>12, ZenonT(20) DEF BlockList!Confirm, IsBlocks
  <2>2. IsCall(x) /\ x.op # "save"
    BY ZenonT(20) DEF IsCall
  <2>3. \A d \in calls' : d \in calls \/ d = x
    BY <1>12, ZenonT(20) DEF BlockList!Confirm, BlockList!Subscribe, BlockList!Call
  <2>4. QED
    BY <1>1, <2>1, <2>2, <2>3, ZenonT(20) DEF BlockInv
<1>13. ASSUME NEW b, BlockList!Remove(b) PROVE BlockInv'
  BY <1>0, <1>6, <1>13, ZenonT(20) DEF BlockList!Remove, IsBlocks
<1>14. CASE BlockList!ReceiveList
  <2>1. \E p : view' = [view EXCEPT !.blocks = p]
    BY <1>14, ZenonT(20) DEF BlockList!ReceiveList
  <2>2. QED
    BY <1>0, <1>6, <1>14, <2>1, ZenonT(20) DEF BlockList!ReceiveList, IsBlocks
<1>15. CASE BlockList!FailList
  BY <1>0, <1>6, <1>15, ZenonT(20) DEF BlockList!FailList, IsBlocks
<1>16. CASE BlockList!Saved
  <2> PICK c \in calls : /\ BlockList!Reload(c)
                         /\ view' = [view EXCEPT !.saving = FALSE, !.editing = FALSE]
    BY <1>16, ZenonT(20) DEF BlockList!Saved
  <2>1. IsBlocks(view') /\ view'.selected = view'.form
    BY ZenonT(20) DEF BlockInv, IsBlocks
  <2>2. QED
    BY <1>3, <2>1, ZenonT(20)
<1>17. CASE BlockList!Removed
  <2>1. view' = view /\ \E c \in calls : BlockList!Reload(c)
    BY <1>17, ZenonT(20) DEF BlockList!Removed
  <2>2. IsBlocks(view') /\ view'.selected = view'.form
    BY <2>1, ZenonT(20) DEF BlockInv
  <2>3. QED
    BY <1>3, <2>1, <2>2, ZenonT(20)
<1>18. CASE BlockList!NotSaved
  BY <1>0, <1>6, <1>18, ZenonT(20) DEF BlockList!NotSaved, IsBlocks
<1>19. CASE BlockList!NotRemoved
  BY <1>0, <1>6, <1>19, ZenonT(20) DEF BlockList!NotRemoved, IsBlocks
<1>20. QED
  BY <1>4, <1>5, <1>7, <1>8, <1>9, <1>10, <1>11, <1>12, <1>13, <1>14, <1>15, <1>16, <1>17,
     <1>18, <1>19, Zenon DEF BlockList!Next, BlockList!Answer

-----------------------------------------------------------------------------
(* The form of a settlement and its preview.                               *)

Prices == Commissions!Prices
SplitForm == [price : Prices, none : BOOLEAN, winners : SUBSET Payees, others : SUBSET Payees]
Known(s) == s = None \/ s \in [form : SplitForm, paid : BOOLEAN]

IsCommissions(v) ==
    v \in [overview : {v.overview}, loaded : BOOLEAN, form : SplitForm, preview : {v.preview},
           editing : BOOLEAN, saving : BOOLEAN, loadingSettlement : BOOLEAN, dialog : BOOLEAN,
           crossed : BOOLEAN, lost : BOOLEAN]

\* What is asked: a preview of the form, a save of what was previewed, an edit of a
\* settlement that is or was there.
Fitting(c, form) ==
    /\ IsCall(c)
    /\ c.op = "preview" => c.arg = Commissions!Terms(form)
    /\ c.op = "save" => c.arg.form \in SplitForm /\ c.arg.promised = Commissions!Terms(c.arg.form)
    /\ c.op = "edit" => Known(c.arg)
    /\ c.op = "pay" => c.arg \in BOOLEAN

SplitInv ==
    /\ IsCommissions(view) /\ Known(view.overview)
    /\ world \in [now : {world.now}, settled : {world.settled}] /\ Known(world.now) /\ Known(world.settled)
    /\ view.preview = None \/ view.preview = Commissions!Terms(view.form)
    /\ \A c \in calls : Fitting(c, view.form)

\* The parts of a step: what the page shows and what it asks.
LEMMA SplitView ==
  ASSUME SplitInv, IsCommissions(view'), Known(view'.overview),
         view'.preview = None \/ view'.preview = Commissions!Terms(view'.form),
         world' \in [now : {world'.now}, settled : {world'.settled}], Known(world'.now), Known(world'.settled),
         \A c \in calls' : Fitting(c, view'.form)
  PROVE  SplitInv'
BY ZenonT(20) DEF SplitInv, IsCommissions, Known, Fitting, IsCall

\* Requests that have nothing to do with the form.
LEMMA OtherCalls ==
  ASSUME NEW form
  PROVE  /\ Fitting(Commissions!Call("overview", None), form)
         /\ Fitting(Commissions!Call("delete", None), form)
<1>1. ASSUME NEW x, IsCall(x), x.op \in {"overview", "delete"}
      PROVE  Fitting(x, form)
  <2>1. x.op \notin {"preview", "save", "edit", "pay"}
    BY <1>1, SMT
  <2>2. QED
    BY <1>1, <2>1, ZenonT(20) DEF Fitting
<1> PICK x, y : x = Commissions!Call("overview", None) /\ y = Commissions!Call("delete", None)
  OBVIOUS
<1>2. IsCall(x) /\ x.op \in {"overview", "delete"} /\ IsCall(y) /\ y.op \in {"overview", "delete"}
  BY ZenonT(20) DEF IsCall, Commissions!Call
<1>3. QED
  BY <1>1, <1>2, ZenonT(20)

\* The server executes a request, or it ends: what remains fits.
LEMMA ExecutedFits ==
  ASSUME NEW c, NEW form, Fitting(c, form)
  PROVE  Fitting([c EXCEPT !.seen = TRUE], form)
<1> PICK x : x = [c EXCEPT !.seen = TRUE]
  OBVIOUS
<1>1. IsCall(x) /\ x.op = c.op /\ x.arg = c.arg
  BY ZenonT(20) DEF Fitting, IsCall
<1>2. QED
  BY <1>1, ZenonT(20) DEF Fitting

\* Previews apart, what fits one form fits every form.
LEMMA FitsAny ==
  ASSUME NEW c, NEW form, Fitting(c, form), NEW other, c.op # "preview"
  PROVE  Fitting(c, other)
BY ZenonT(20) DEF Fitting

\* The preview is of the terms alone.
LEMMA SameTerms ==
  ASSUME NEW form \in SplitForm, NEW none \in BOOLEAN
  PROVE  /\ [form EXCEPT !.none = none] \in SplitForm
         /\ Commissions!Terms([form EXCEPT !.none = none]) = Commissions!Terms(form)
<1> PICK f : f = [form EXCEPT !.none = none]
  OBVIOUS
<1>1. f \in SplitForm /\ f.price = form.price /\ f.winners = form.winners /\ f.others = form.others
  BY ZenonT(20) DEF SplitForm
<1>2. QED
  BY <1>1, ZenonT(20) DEF Commissions!Terms

\* Opened, the form is empty and nothing is previewed.
LEMMA SplitInit == Commissions!Init => SplitInv
<1> SUFFICES ASSUME Commissions!Init PROVE SplitInv
  OBVIOUS
<1>1. Commissions!EmptyForm \in SplitForm
  BY SMT DEF SplitForm, Prices, Commissions!Prices, Commissions!EmptyForm
<1>2. IsCommissions(view) /\ view.overview = None /\ view.preview = None
  BY <1>1, ZenonT(20) DEF Commissions!Init, Commissions!Opened, IsCommissions
<1> PICK s \in Commissions!Settlement \cup {None} : world = [now |-> s, settled |-> s]
  BY Zenon DEF Commissions!Init
<1>3. Known(s)
  BY ZenonT(20) DEF Known, Commissions!Settlement, Commissions!Form, SplitForm, Prices
<1>4. world.now = s /\ world.settled = s /\ world \in [now : {s}, settled : {s}]
  BY ZenonT(20)
<1>5. \A c \in calls : Fitting(c, view.form)
  BY OtherCalls, ZenonT(20) DEF Commissions!Init
<1>6. QED
  BY <1>2, <1>3, <1>4, <1>5, ZenonT(20) DEF SplitInv, Known

\* Another form: its preview is asked for again.
LEMMA SplitEnter ==
  ASSUME SplitInv, NEW form \in SplitForm, Commissions!Enter(form)
  PROVE  SplitInv'
<1>1. /\ IsCommissions(view') /\ view'.overview = view.overview /\ view'.preview = None
      /\ view'.form = form /\ world' = world
  BY ZenonT(20) DEF SplitInv, IsCommissions, Commissions!Enter
<1> PICK x : x = Commissions!Call("preview", Commissions!Terms(form))
  OBVIOUS
<1>2. Fitting(x, form)
  <2>1. IsCall(x) /\ x.op = "preview" /\ x.arg = Commissions!Terms(form)
    BY ZenonT(20) DEF IsCall, Commissions!Call
  <2>2. "preview" \notin {"save", "edit", "pay"}
    BY SMT
  <2>3. QED
    BY <2>1, <2>2, ZenonT(20) DEF Fitting
<1>3. \A c \in calls' : c = x \/ (c \in calls /\ c.op # "preview")
  BY ZenonT(20) DEF Commissions!Enter, Commissions!RefreshPreview, Commissions!Under
<1>4. \A c \in calls' : Fitting(c, form)
  BY <1>2, <1>3, FitsAny, ZenonT(20) DEF SplitInv
<1>5. QED
  BY <1>1, <1>4, SplitView, ZenonT(20) DEF SplitInv

\* The form is closed: no preview stays under way.
LEMMA SplitClosed ==
  ASSUME SplitInv, IsCommissions(view'), view'.overview = view.overview, view'.preview = None,
         world' \in [now : {world'.now}, settled : {world'.settled}], Known(world'.now), Known(world'.settled),
         \A c \in calls' : (c \in calls /\ c.op # "preview") \/ c = Commissions!Call("overview", None)
  PROVE  SplitInv'
<1>1. ASSUME NEW c \in calls' PROVE Fitting(c, view'.form)
  <2>1. CASE c \in calls /\ c.op # "preview"
    BY <2>1, FitsAny, ZenonT(20) DEF SplitInv
  <2>2. CASE c = Commissions!Call("overview", None)
    BY <2>2, OtherCalls, ZenonT(20)
  <2>3. QED
    BY <2>1, <2>2, Zenon
<1>2. QED
  BY <1>1, SplitView, ZenonT(20) DEF SplitInv

\* The form stays: other requests come and go.
LEMMA SplitStays ==
  ASSUME SplitInv, IsCommissions(view'), Known(view'.overview), view'.form = view.form,
         view'.preview = None \/ view'.preview = view.preview,
         world' \in [now : {world'.now}, settled : {world'.settled}], Known(world'.now), Known(world'.settled),
         \A c \in calls' : c \in calls \/ Fitting(c, view.form)
  PROVE  SplitInv'
<1>1. \A c \in calls' : Fitting(c, view'.form)
  BY ZenonT(20) DEF SplitInv
<1>2. QED
  BY <1>1, SplitView, ZenonT(20) DEF SplitInv

\* The server executes a request.
LEMMA SplitExecuted ==
  ASSUME SplitInv, NEW c \in calls, Commissions!Executes(c), view' = view,
         NEW s, Known(s), Commissions!Commit(s)
  PROVE  SplitInv'
<1>1. Fitting([c EXCEPT !.seen = TRUE], view.form)
  BY ExecutedFits, ZenonT(20) DEF SplitInv
<1>2. \A d \in calls' : d \in calls \/ Fitting(d, view.form)
  BY <1>1, ZenonT(20) DEF Commissions!Executes
<1>3. world' \in [now : {world'.now}, settled : {world'.settled}] /\ world'.now = s /\ world'.settled = world.settled
  BY ZenonT(20) DEF SplitInv, Commissions!Commit
<1>4. QED
  BY <1>2, <1>3, SplitStays, ZenonT(20) DEF SplitInv

\* An own change was answered.
LEMMA SplitSettled ==
  ASSUME SplitInv, Commissions!Settle
  PROVE  /\ world' \in [now : {world'.now}, settled : {world'.settled}]
         /\ Known(world'.now) /\ Known(world'.settled)
<1>1. world' \in [now : {world'.now}, settled : {world'.settled}] /\ world'.now = world.now /\ world'.settled = world.now
  BY ZenonT(20) DEF SplitInv, Commissions!Settle
<1>2. QED
  BY <1>1, ZenonT(20) DEF SplitInv

\* The preview shown or under way is of the form, whichever answer comes.
LEMMA SplitStep ==
  ASSUME SplitInv, Commissions!Next
  PROVE  SplitInv'
<1> USE DEF Commissions!Under, Commissions!Ends
<1>0. /\ IsCommissions(view) /\ view.form \in SplitForm /\ Known(view.overview)
      /\ world \in [now : {world.now}, settled : {world.settled}] /\ Known(world.now) /\ Known(world.settled)
  BY ZenonT(20) DEF SplitInv, IsCommissions
<1>1. ASSUME NEW price \in Prices, Commissions!EnterPrice(price) PROVE SplitInv'
  <2>1. [view.form EXCEPT !.price = price] \in SplitForm
    BY <1>0, ZenonT(20) DEF SplitForm
  <2>2. QED
    BY <1>1, <2>1, SplitEnter, ZenonT(20) DEF Commissions!EnterPrice
<1>2. ASSUME NEW a \in Payees, Commissions!ToggleWinningAgent(a) PROVE SplitInv'
  <2>1. /\ [view.form EXCEPT !.winners = @ \ {a}] \in SplitForm
        /\ [view.form EXCEPT !.winners = @ \cup {a}, !.others = @ \ {a}] \in SplitForm
    <3>1. view.form.winners \in SUBSET Payees /\ view.form.others \in SUBSET Payees
      BY <1>0, ZenonT(20) DEF SplitForm
    <3>2. /\ view.form.winners \ {a} \in SUBSET Payees /\ view.form.others \ {a} \in SUBSET Payees
          /\ view.form.winners \cup {a} \in SUBSET Payees
      BY <3>1, ZenonT(20)
    <3>3. QED
      BY <1>0, <3>2, ZenonT(20) DEF SplitForm
  <2>2. QED
    BY <1>2, <2>1, SplitEnter, ZenonT(20) DEF Commissions!ToggleWinningAgent
<1>3. ASSUME NEW a \in Payees, Commissions!ToggleOtherAgent(a) PROVE SplitInv'
  <2>1. [view.form EXCEPT !.others = IF a \in @ THEN @ \ {a} ELSE @ \cup {a}] \in SplitForm
    <3> PICK others : others = IF a \in view.form.others THEN view.form.others \ {a}
                               ELSE view.form.others \cup {a}
      OBVIOUS
    <3>1. view.form.others \in SUBSET Payees
      BY <1>0, ZenonT(20) DEF SplitForm
    <3>2. others \in SUBSET Payees
      BY <3>1, ZenonT(20)
    <3>3. [view.form EXCEPT !.others = others] \in SplitForm
      BY <1>0, <3>2, ZenonT(20) DEF SplitForm
    <3>4. QED
      BY <3>3, Zenon
  <2>2. QED
    BY <1>3, <2>1, SplitEnter, ZenonT(20) DEF Commissions!ToggleOtherAgent
<1>4. CASE Commissions!ToggleNoWinningAgents
  <2>1. /\ [view.form EXCEPT !.none = FALSE] \in SplitForm
        /\ [view.form EXCEPT !.none = TRUE, !.winners = {}] \in SplitForm
    <3>1. {} \in SUBSET Payees
      BY ZenonT(20)
    <3>2. QED
      BY <1>0, <3>1, ZenonT(20) DEF SplitForm
  <2>2. QED
    BY <1>4, <2>1, SplitEnter, ZenonT(20) DEF Commissions!ToggleNoWinningAgents
\* What Reset makes of the page.
<1>5. ASSUME NEW v, IsCommissions(v)
      PROVE  /\ IsCommissions(Commissions!Reset(v)) /\ Commissions!Reset(v).overview = v.overview
             /\ Commissions!Reset(v).preview = None
  <2>1. Commissions!EmptyForm \in SplitForm
    BY SMT DEF SplitForm, Prices, Commissions!Prices, Commissions!EmptyForm
  <2>2. QED
    BY <1>5, <2>1, ZenonT(20) DEF IsCommissions, Commissions!Reset
<1>6. CASE Commissions!Cancel
  <2>1. view' = Commissions!Reset(view) /\ world' = world /\ calls' = calls \ {c \in calls : c.op = "preview"}
    BY <1>6, ZenonT(20) DEF Commissions!Cancel
  <2>2. IsCommissions(view') /\ view'.overview = view.overview /\ view'.preview = None
    BY <1>0, <1>5, <2>1, ZenonT(20)
  <2>3. QED
    BY <1>0, <2>1, <2>2, SplitClosed, ZenonT(20)
<1>7. CASE Commissions!CreateSettlement
  <2> PICK body : body = [form |-> view.form, editing |-> view.editing, promised |-> view.preview]
    OBVIOUS
  <2> PICK x : x = [op |-> "save", arg |-> body, seen |-> FALSE]
    OBVIOUS
  <2>1. view.preview = Commissions!Terms(view.form)
    BY <1>7, ZenonT(20) DEF Commissions!CreateSettlement, Commissions!MayCreate, SplitInv
  <2>2. body.form = view.form /\ body.promised = view.preview
    BY SMT
  <2>3. IsCall(x) /\ x.op = "save" /\ x.arg = body
    BY ZenonT(20) DEF IsCall
  <2>4. "save" \notin {"preview", "edit", "pay"}
    BY SMT
  <2>5. Fitting(x, view.form)
    BY <1>0, <2>1, <2>2, <2>3, <2>4, ZenonT(20) DEF Fitting
  <2>6. \A d \in calls' : d \in calls \/ d = x
    BY <1>7, ZenonT(20) DEF Commissions!CreateSettlement, Commissions!Subscribe, Commissions!Call
  <2>7. /\ IsCommissions(view') /\ view'.overview = view.overview /\ view'.form = view.form
        /\ view'.preview = view.preview /\ world' = world
    BY <1>0, <1>7, ZenonT(20) DEF Commissions!CreateSettlement, IsCommissions
  <2>8. QED
    BY <1>0, <2>5, <2>6, <2>7, SplitStays, ZenonT(20)
<1>8. CASE Commissions!StoreSettlement
  <2> PICK c \in calls : /\ c.op = "save" /\ Commissions!Executes(c)
                         /\ Commissions!Commit([form |-> c.arg.form, paid |-> FALSE]) /\ view' = view
    BY <1>8, ZenonT(20) DEF Commissions!StoreSettlement
  <2>1. c.arg.form \in SplitForm
    BY ZenonT(20) DEF SplitInv, Fitting
  <2>2. Known([form |-> c.arg.form, paid |-> FALSE])
    BY <2>1, ZenonT(20) DEF Known
  <2>3. QED
    BY <2>2, SplitExecuted, ZenonT(20)
<1>9. CASE Commissions!RemoveSettlement
  BY <1>9, SplitExecuted, ZenonT(20) DEF Commissions!RemoveSettlement, Known
<1>10. CASE Commissions!StorePaid
  <2> PICK c \in calls : /\ c.op = "pay" /\ Commissions!Executes(c) /\ world.now # None
                         /\ Commissions!Commit([world.now EXCEPT !.paid = c.arg]) /\ view' = view
    BY <1>10, ZenonT(20) DEF Commissions!StorePaid
  <2>1. c.arg \in BOOLEAN
    BY ZenonT(20) DEF SplitInv, Fitting
  <2>2. Known([world.now EXCEPT !.paid = c.arg])
    BY <1>0, <2>1, ZenonT(20) DEF Known
  <2>3. QED
    BY <2>2, SplitExecuted, ZenonT(20)
<1>11. CASE Commissions!EditSettlement
  <2> PICK x : x = [op |-> "edit", arg |-> world.now, seen |-> FALSE]
    OBVIOUS
  <2>1. IsCall(x) /\ x.op = "edit" /\ x.arg = world.now
    BY ZenonT(20) DEF IsCall
  <2>2. "edit" \notin {"preview", "save", "pay"}
    BY SMT
  <2>3. Fitting(x, view.form)
    BY <1>0, <2>1, <2>2, ZenonT(20) DEF Fitting
  <2>4. \A d \in calls' : d \in calls \/ d = x
    BY <1>11, ZenonT(20) DEF Commissions!EditSettlement, Commissions!Subscribe, Commissions!Call
  <2>5. /\ IsCommissions(view') /\ view'.overview = view.overview /\ view'.form = view.form
        /\ view'.preview = view.preview /\ world' = world
    BY <1>0, <1>11, ZenonT(20) DEF Commissions!EditSettlement, IsCommissions
  <2>6. QED
    BY <1>0, <2>3, <2>4, <2>5, SplitStays, ZenonT(20)
<1>12. ASSUME NEW d \in BOOLEAN, view' = [view EXCEPT !.dialog = d], world' = world,
              \A c \in calls' : c \in calls \/ c = Commissions!Call("delete", None)
       PROVE  SplitInv'
  <2>1. /\ IsCommissions(view') /\ view'.overview = view.overview /\ view'.form = view.form
        /\ view'.preview = view.preview
    BY <1>0, <1>12, ZenonT(20) DEF IsCommissions
  <2>2. Fitting(Commissions!Call("delete", None), view.form)
    BY OtherCalls, ZenonT(20)
  <2>3. QED
    BY <1>0, <1>12, <2>1, <2>2, SplitStays, ZenonT(20)
<1>13. CASE Commissions!DeleteSettlement
  BY <1>12, <1>13, ZenonT(20) DEF Commissions!DeleteSettlement
<1>14. CASE Commissions!Dismiss
  BY <1>12, <1>14, ZenonT(20) DEF Commissions!Dismiss
<1>15. CASE Commissions!Confirm
  BY <1>12, <1>15, ZenonT(20) DEF Commissions!Confirm, Commissions!Subscribe
<1>16. CASE Commissions!TogglePaid
  <2> PICK paid : paid = ~view.overview.paid
    OBVIOUS
  <2>0. paid \in BOOLEAN /\ calls' = calls \cup {[op |-> "pay", arg |-> paid, seen |-> FALSE]}
    BY <1>16, ZenonT(20) DEF Commissions!TogglePaid, Commissions!Subscribe, Commissions!Call
  <2> PICK x : x = [op |-> "pay", arg |-> paid, seen |-> FALSE]
    OBVIOUS
  <2>1. IsCall(x) /\ x.op = "pay" /\ x.arg = paid
    BY ZenonT(20) DEF IsCall
  <2>2. "pay" \notin {"preview", "save", "edit"}
    BY SMT
  <2>3. Fitting(x, view.form)
    BY <2>0, <2>1, <2>2, ZenonT(20) DEF Fitting
  <2>4. view' = view /\ world' = world /\ \A d \in calls' : d \in calls \/ d = x
    BY <1>16, <2>0, ZenonT(20) DEF Commissions!TogglePaid
  <2>5. QED
    BY <1>0, <2>3, <2>4, SplitStays, ZenonT(20)
<1>17. CASE Commissions!ReceiveOverview
  <2> PICK s \in {world.now, world.settled} :
          view' = [view EXCEPT !.overview = s, !.loaded = TRUE]
    BY <1>17, ZenonT(20) DEF Commissions!ReceiveOverview, Commissions!Fresh
  <2>1. world' = world /\ \A d \in calls' : d \in calls
    BY <1>17, ZenonT(20) DEF Commissions!ReceiveOverview
  <2>2. IsCommissions(view') /\ view'.overview = s /\ view'.form = view.form /\ view'.preview = view.preview
    BY <1>0, ZenonT(20) DEF IsCommissions
  <2>3. QED
    BY <1>0, <2>1, <2>2, SplitStays, ZenonT(20)
<1>18. CASE Commissions!FailOverview
  <2>1. /\ IsCommissions(view') /\ view'.overview = view.overview /\ view'.form = view.form
        /\ view'.preview = view.preview /\ world' = world /\ \A d \in calls' : d \in calls
    BY <1>0, <1>18, ZenonT(20) DEF Commissions!FailOverview, IsCommissions
  <2>2. QED
    BY <1>0, <2>1, SplitStays, ZenonT(20)
<1>19. CASE Commissions!ReceivePreview
  <2> PICK c \in calls : c.op = "preview" /\ view' = [view EXCEPT !.preview = c.arg]
    BY <1>19, ZenonT(20) DEF Commissions!ReceivePreview
  <2>1. world' = world /\ \A d \in calls' : d \in calls
    BY <1>19, ZenonT(20) DEF Commissions!ReceivePreview
  <2>2. /\ IsCommissions(view') /\ view'.overview = view.overview /\ view'.form = view.form
        /\ view'.preview = c.arg
    BY <1>0, ZenonT(20) DEF IsCommissions
  <2>3. c.arg = Commissions!Terms(view.form)
    BY ZenonT(20) DEF SplitInv, Fitting
  <2>4. \A d \in calls' : Fitting(d, view'.form)
    BY <2>1, <2>2, ZenonT(20) DEF SplitInv
  <2>5. QED
    BY <1>0, <2>1, <2>2, <2>3, <2>4, SplitView, ZenonT(20)
<1>20. CASE Commissions!FailPreview
  <2>1. /\ IsCommissions(view') /\ view'.overview = view.overview /\ view'.form = view.form
        /\ view'.preview = None /\ world' = world /\ \A d \in calls' : d \in calls
    BY <1>0, <1>20, ZenonT(20) DEF Commissions!FailPreview, IsCommissions
  <2>2. QED
    BY <1>0, <2>1, SplitStays, ZenonT(20)
<1>21. CASE Commissions!Saved
  <2> PICK c, v : /\ v = [view EXCEPT !.saving = FALSE] /\ view' = Commissions!Reset(v)
                  /\ calls' = Commissions!Load(calls \ ({c} \cup {d \in calls : d.op = "preview"}))
                  /\ Commissions!Settle
    BY <1>21, ZenonT(20) DEF Commissions!Saved
  <2>1. IsCommissions(v) /\ v.overview = view.overview
    BY <1>0, ZenonT(20) DEF IsCommissions
  <2>2. IsCommissions(view') /\ view'.overview = view.overview /\ view'.preview = None
    BY <1>5, <2>1, ZenonT(20)
  <2>3. \A d \in calls' : (d \in calls /\ d.op # "preview") \/ d = Commissions!Call("overview", None)
    BY ZenonT(20) DEF Commissions!Load
  <2>4. QED
    BY <2>2, <2>3, SplitSettled, SplitClosed, ZenonT(20)
<1>22. CASE Commissions!NotSaved
  <2>1. /\ IsCommissions(view') /\ view'.overview = view.overview /\ view'.form = view.form
        /\ view'.preview = view.preview /\ Commissions!Settle /\ \A d \in calls' : d \in calls
    BY <1>0, <1>22, ZenonT(20) DEF Commissions!NotSaved, IsCommissions
  <2>2. QED
    BY <1>0, <2>1, SplitSettled, SplitStays, ZenonT(20)
<1>23. CASE Commissions!ReceiveEdit
  <2> PICK c, s, known :
          /\ c \in calls /\ c.op = "edit" /\ s \in {c.arg, world.now}
          /\ known = [view EXCEPT !.overview = s, !.loadingSettlement = FALSE]
          /\ IF s = None \/ (s # None /\ s.paid)
             THEN view' = known /\ calls' = calls \ {c}
             ELSE /\ view' = [known EXCEPT !.form = [s.form EXCEPT !.none = s.form.winners = {}],
                                           !.preview = None, !.editing = TRUE]
                  /\ calls' = (calls \ ({c} \cup {d \in calls : d.op = "preview"})) \cup
                                  {Commissions!Call("preview", Commissions!Terms(s.form))}
    BY <1>23, ZenonT(60) DEF Commissions!ReceiveEdit
  <2>1. world' = world
    BY <1>23, ZenonT(20) DEF Commissions!ReceiveEdit
  <2>2. Known(s)
    BY <1>0, ZenonT(20) DEF SplitInv, Fitting
  <2>3. /\ IsCommissions(known) /\ known.overview = s /\ known.form = view.form /\ known.preview = view.preview
    BY <1>0, ZenonT(20) DEF IsCommissions
  <2>4. CASE s = None \/ (s # None /\ s.paid)
    BY <1>0, <2>1, <2>2, <2>3, <2>4, SplitStays, ZenonT(20)
  <2>5. CASE ~(s = None \/ (s # None /\ s.paid))
    <3> PICK f, x : /\ f = [s.form EXCEPT !.none = s.form.winners = {}]
                    /\ x = Commissions!Call("preview", Commissions!Terms(s.form))
      OBVIOUS
    <3>1. s.form \in SplitForm
      BY <2>2, <2>5, ZenonT(20) DEF Known
    <3>2. f \in SplitForm /\ Commissions!Terms(f) = Commissions!Terms(s.form)
      BY <3>1, SameTerms, ZenonT(20)
    <3>3. IsCommissions(view') /\ view'.overview = s /\ view'.form = f /\ view'.preview = None
      BY <2>3, <2>5, <3>2, ZenonT(20) DEF IsCommissions
    <3>4. Fitting(x, f)
      <4>1. IsCall(x) /\ x.op = "preview" /\ x.arg = Commissions!Terms(f)
        BY <3>2, ZenonT(20) DEF IsCall, Commissions!Call
      <4>2. "preview" \notin {"save", "edit", "pay"}
        BY SMT
      <4>3. QED
        BY <4>1, <4>2, ZenonT(20) DEF Fitting
    <3>5. \A d \in calls' : d = x \/ (d \in calls /\ d.op # "preview")
      <4>1. calls' = (calls \ ({c} \cup {d \in calls : d.op = "preview"})) \cup {x}
        BY <2>5, ZenonT(20)
      <4>2. QED
        BY <4>1, ZenonT(20)
    <3>6. \A d \in calls' : Fitting(d, f)
      BY <3>4, <3>5, FitsAny, ZenonT(20) DEF SplitInv
    <3>7. QED
      BY <1>0, <2>1, <2>2, <3>3, <3>6, SplitView, ZenonT(20)
  <2>6. QED
    BY <2>4, <2>5, Zenon
<1>24. CASE Commissions!FailEdit
  <2>1. /\ IsCommissions(view') /\ view'.overview = view.overview /\ view'.form = view.form
        /\ view'.preview = view.preview /\ world' = world /\ \A d \in calls' : d \in calls
    BY <1>0, <1>24, ZenonT(20) DEF Commissions!FailEdit, IsCommissions
  <2>2. QED
    BY <1>0, <2>1, SplitStays, ZenonT(20)
<1>25. PICK w : w = Commissions!Crosses(view)
  OBVIOUS
<1>26. /\ IsCommissions(w) /\ w.overview = view.overview /\ w.form = view.form /\ w.preview = view.preview
  <2> PICK b : b = (view.crossed \/ Commissions!Waiting("edit"))
    OBVIOUS
  <2>1. b \in BOOLEAN /\ w = [view EXCEPT !.crossed = b]
    BY <1>25, ZenonT(20) DEF Commissions!Crosses
  <2>2. QED
    BY <1>0, <2>1, ZenonT(20) DEF IsCommissions
<1>27. CASE Commissions!Deleted
  <2> PICK c \in calls :
          /\ calls' = Commissions!Load(calls \ ({c} \cup IF view.editing THEN {d \in calls : d.op = "preview"} ELSE {}))
          /\ view' = IF view.editing THEN Commissions!Reset(w) ELSE w
          /\ Commissions!Settle
    BY <1>25, <1>27, ZenonT(20) DEF Commissions!Deleted
  <2>1. CASE view.editing
    <3>1. IsCommissions(view') /\ view'.overview = view.overview /\ view'.preview = None
      BY <1>5, <1>26, <2>1, ZenonT(20)
    <3>2. \A d \in calls' : (d \in calls /\ d.op # "preview") \/ d = Commissions!Call("overview", None)
      BY <2>1, ZenonT(20) DEF Commissions!Load
    <3>3. QED
      BY <3>1, <3>2, SplitSettled, SplitClosed, ZenonT(20)
  <2>2. CASE ~view.editing
    <3>1. \A d \in calls' : d \in calls \/ d = Commissions!Call("overview", None)
      BY <2>2, ZenonT(20) DEF Commissions!Load
    <3>2. Fitting(Commissions!Call("overview", None), view.form)
      BY OtherCalls, ZenonT(20)
    <3>3. QED
      BY <1>0, <1>26, <2>2, <3>1, <3>2, SplitSettled, SplitStays, ZenonT(20)
  <2>3. QED
    BY <2>1, <2>2, Zenon
<1>28. CASE Commissions!Paid
  <2>1. view' = w /\ Commissions!Settle
    BY <1>25, <1>28, ZenonT(20) DEF Commissions!Paid
  <2>2. \A d \in calls' : d \in calls \/ d = Commissions!Call("overview", None)
    BY <1>28, ZenonT(20) DEF Commissions!Paid, Commissions!Load
  <2>3. Fitting(Commissions!Call("overview", None), view.form)
    BY OtherCalls, ZenonT(20)
  <2>4. QED
    BY <1>0, <1>26, <2>1, <2>2, <2>3, SplitSettled, SplitStays, ZenonT(20)
<1>29. CASE Commissions!NotChanged
  <2>1. /\ IsCommissions(view') /\ view'.overview = view.overview /\ view'.form = view.form
        /\ view'.preview = view.preview /\ Commissions!Settle /\ \A d \in calls' : d \in calls
    BY <1>0, <1>29, ZenonT(20) DEF Commissions!NotChanged, IsCommissions
  <2>2. QED
    BY <1>0, <2>1, SplitSettled, SplitStays, ZenonT(20)
<1>30. QED
  BY <1>1, <1>2, <1>3, <1>4, <1>6, <1>7, <1>8, <1>9, <1>10, <1>11, <1>13, <1>14, <1>15, <1>16,
     <1>17, <1>18, <1>19, <1>20, <1>21, <1>22, <1>23, <1>24, <1>27, <1>28, <1>29, ZenonT(20)
     DEF Commissions!Next, Commissions!Answer, Prices

\* Hence it is what is saved.
LEMMA SplitPromised == SplitInv => Commissions!SavesAsPreviewed
BY ZenonT(20) DEF SplitInv, Fitting, Commissions!SavesAsPreviewed, Commissions!Under

-----------------------------------------------------------------------------
(* What the pages show and send.                                           *)

ReadsInv ==
    /\ page = "audit" => AuditInv
    /\ page = "team analytics" => TeamInv
    /\ page = "agent" => AgentInv
    /\ page = "properties" => ListInv
    /\ page = "house" => HouseInv
    /\ page = "property form" => SaveInv
    /\ page = "commissions" => SplitInv
    /\ page = "blocks" => BlockInv

\* The invariant holds when a page is opened.
LEMMA ReadsInit == Init => ReadsInv
<1> SUFFICES ASSUME Init PROVE ReadsInv
  OBVIOUS
<1>1. ASSUME page = "audit" PROVE AuditInv
  <2>1. Audit!Init
    BY <1>1, ZenonT(30) DEF Init
  <2>2. QED
    BY <2>1, AuditInit, Zenon
<1>2. ASSUME page = "team analytics" PROVE TeamInv
  <2>1. TeamAnalytics!Init
    BY <1>2, ZenonT(30) DEF Init
  <2>2. QED
    BY <2>1, TeamInit, Zenon
<1>3. ASSUME page = "agent" PROVE AgentInv
  <2>1. AgentDetail!Init
    BY <1>3, ZenonT(30) DEF Init
  <2>2. QED
    BY <2>1, AgentInit, Zenon
<1>4. ASSUME page = "properties" PROVE ListInv
  <2>1. Properties!Init
    BY <1>4, ZenonT(30) DEF Init
  <2>2. QED
    BY <2>1, ListInit, Zenon
<1>5. ASSUME page = "house" PROVE HouseInv
  <2>1. House!Init
    BY <1>5, ZenonT(30) DEF Init
  <2>2. QED
    BY <2>1, HouseOpened, Zenon
<1>6. ASSUME page = "property form" PROVE SaveInv
  <2>1. PropertyForm!Init
    BY <1>6, ZenonT(30) DEF Init
  <2>2. QED
    BY <2>1, SaveInit, Zenon
<1>7. ASSUME page = "commissions" PROVE SplitInv
  <2>1. Commissions!Init
    BY <1>7, ZenonT(30) DEF Init
  <2>2. QED
    BY <2>1, SplitInit, Zenon
<1>8. ASSUME page = "blocks" PROVE BlockInv
  <2>1. BlockList!Init
    BY <1>8, ZenonT(30) DEF Init
  <2>2. QED
    BY <2>1, BlockInit, Zenon
<1>9. QED
  BY <1>1, <1>2, <1>3, <1>4, <1>5, <1>6, <1>7, <1>8, Zenon DEF ReadsInv

\* Every step of the page that is open keeps it.
LEMMA ReadsStep ==
  ASSUME ReadsInv, [Next]_vars
  PROVE  ReadsInv' /\ (page = "property form" => [PropertyForm!SuccessComesLast]_vars)
<1>0. page' = page
  BY SMT DEF Next, vars
<1>1. ASSUME page = "audit" PROVE AuditInv'
  <2>1. AuditInv
    BY <1>1, Zenon DEF ReadsInv
  <2>2. Audit!Next \/ UNCHANGED <<view, calls, world>>
    BY <1>1, ZenonT(30) DEF Next, Step, vars
  <2>3. CASE Audit!Next
    BY <2>1, <2>3, AuditStep, Zenon
  <2>4. CASE UNCHANGED <<view, calls, world>>
    BY <2>1, <2>4, ZenonT(20) DEF AuditInv, IsAudit, Proper, Single, Asks, Asked
  <2>5. QED
    BY <2>2, <2>3, <2>4, Zenon
<1>2. ASSUME page = "team analytics" PROVE TeamInv'
  <2>1. TeamInv
    BY <1>2, Zenon DEF ReadsInv
  <2>2. TeamAnalytics!Next \/ UNCHANGED <<view, calls, world>>
    BY <1>2, ZenonT(30) DEF Next, Step, vars
  <2>3. CASE TeamAnalytics!Next
    BY <2>1, <2>3, TeamStep, Zenon
  <2>4. CASE UNCHANGED <<view, calls, world>>
    BY <2>1, <2>4, ZenonT(20) DEF TeamInv, IsTeam, Proper, Asks
  <2>5. QED
    BY <2>2, <2>3, <2>4, Zenon
<1>3. ASSUME page = "agent" PROVE AgentInv'
  <2>1. AgentInv
    BY <1>3, Zenon DEF ReadsInv
  <2>2. AgentDetail!Next \/ UNCHANGED <<view, calls, world>>
    BY <1>3, ZenonT(30) DEF Next, Step, vars
  <2>3. CASE AgentDetail!Next
    BY <2>1, <2>3, AgentStep, Zenon
  <2>4. CASE UNCHANGED <<view, calls, world>>
    BY <2>1, <2>4, ZenonT(20) DEF AgentInv, IsAgent, Proper, Asks
  <2>5. QED
    BY <2>2, <2>3, <2>4, Zenon
<1>4. ASSUME page = "properties" PROVE ListInv'
  <2>1. ListInv
    BY <1>4, Zenon DEF ReadsInv
  <2>2. Properties!Next \/ UNCHANGED <<view, calls, world>>
    BY <1>4, ZenonT(30) DEF Next, Step, vars
  <2>3. CASE Properties!Next
    BY <2>1, <2>3, ListStep, Zenon
  <2>4. CASE UNCHANGED <<view, calls, world>>
    BY <2>1, <2>4, ZenonT(20) DEF ListInv, IsList, Proper, Single, Asks, Asked
  <2>5. QED
    BY <2>2, <2>3, <2>4, Zenon
<1>5. ASSUME page = "house" PROVE HouseInv'
  <2>1. HouseInv
    BY <1>5, Zenon DEF ReadsInv
  <2>2. House!Next \/ UNCHANGED <<view, calls, world>>
    BY <1>5, ZenonT(30) DEF Next, Step, vars
  <2>3. CASE House!Next
    BY <2>1, <2>3, HouseReads, Zenon
  <2>4. CASE UNCHANGED <<view, calls, world>>
    BY <2>1, <2>4, ZenonT(20) DEF HouseInv, IsHouse, Proper, Single, Asks, Asked
  <2>5. QED
    BY <2>2, <2>3, <2>4, Zenon
<1>6. ASSUME page = "property form" PROVE SaveInv' /\ [PropertyForm!SuccessComesLast]_vars
  <2>1. SaveInv
    BY <1>6, Zenon DEF ReadsInv
  <2>2. PropertyForm!Next \/ UNCHANGED <<view, calls, world>>
    BY <1>6, ZenonT(30) DEF Next, Step, vars
  <2>3. CASE PropertyForm!Next
    BY <2>1, <2>3, SaveStep, Zenon
  <2>4. CASE UNCHANGED <<view, calls, world>>
    <3>1. SaveInv'
      BY <2>1, <2>4, ZenonT(20) DEF SaveInv, IsForm, Proper
    <3>2. UNCHANGED vars
      BY <1>0, <2>4, Zenon DEF vars
    <3>3. QED
      BY <3>1, <3>2, Zenon
  <2>5. QED
    BY <2>2, <2>3, <2>4, Zenon
<1>7. ASSUME page = "commissions" PROVE SplitInv'
  <2>1. SplitInv
    BY <1>7, Zenon DEF ReadsInv
  <2>2. Commissions!Next \/ UNCHANGED <<view, calls, world>>
    BY <1>7, ZenonT(30) DEF Next, Step, vars
  <2>3. CASE Commissions!Next
    BY <2>1, <2>3, SplitStep, Zenon
  <2>4. CASE UNCHANGED <<view, calls, world>>
    BY <2>1, <2>4, ZenonT(20) DEF SplitInv, IsCommissions
  <2>5. QED
    BY <2>2, <2>3, <2>4, Zenon
<1>8. ASSUME page = "blocks" PROVE BlockInv'
  <2>1. BlockInv
    BY <1>8, Zenon DEF ReadsInv
  <2>2. BlockList!Next \/ UNCHANGED <<view, calls, world>>
    BY <1>8, ZenonT(30) DEF Next, Step, vars
  <2>3. CASE BlockList!Next
    BY <2>1, <2>3, BlockStep, Zenon
  <2>4. CASE UNCHANGED <<view, calls, world>>
    BY <2>1, <2>4, ZenonT(20) DEF BlockInv, IsBlocks, Proper, BlockList!SavesWhatIsEdited, BlockList!Under
  <2>5. QED
    BY <2>2, <2>3, <2>4, Zenon
<1>9. QED
  BY <1>0, <1>1, <1>2, <1>3, <1>4, <1>5, <1>6, <1>7, <1>8, Zenon DEF ReadsInv

\* The invariant of what is read, previewed and sent.
LEMMA ReadsAlways == Spec => []ReadsInv
<1>1. ReadsInv /\ [Next]_vars => ReadsInv'
  BY ReadsStep, Zenon
<1>2. QED
  BY <1>1, ReadsInit, PTL DEF Spec

\* The audit log, the analytics of the team and of an agent, the public list and the
\* public page of a property show what was chosen last, for any choices and any order
\* of answers, previews and failures: switchMap leaves one read under way, of the
\* last question, and an answer is taken for nothing else.
THEOREM PagesShowSelection == Spec => []ShowsSelection
<1>1. ReadsInv => ShowsSelection
  BY AuditShows, TeamShows, AgentShows, ListShows, HouseShows, Zenon DEF ReadsInv, ShowsSelection
<1>2. QED
  BY <1>1, ReadsAlways, PTL

\* The manager saves the split that was previewed, and the block that is open.
THEOREM FormsSendWhatIsShown == Spec => []SendsWhatWasShown
<1>1. BlockInv => BlockList!SavesWhatIsEdited
  BY Zenon DEF BlockInv
<1>2. ReadsInv => SendsWhatWasShown
  BY <1>1, SplitPromised, Zenon DEF ReadsInv, SendsWhatWasShown
<1>3. QED
  BY <1>2, ReadsAlways, PTL

\* An edit of an occupied property is reported as done only by the answer to its
\* second request.
THEOREM SavesEndTogether == Spec => SuccessIsOfBoth
<1>1. ReadsInv /\ [Next]_vars => [page = "property form" => PropertyForm!SuccessComesLast]_vars
  BY ReadsStep, Zenon
<1>2. QED
  BY <1>1, ReadsAlways, PTL DEF Spec, SuccessIsOfBoth

-----------------------------------------------------------------------------
(* The rows of an export, page by page.                                    *)

IsRecords(v) ==
    v \in [snapshot : {v.snapshot}, records : {v.records}, nextSkip : {v.nextSkip},
           hasMore : BOOLEAN, pageLoading : BOOLEAN, loadError : BOOLEAN]

\* The beginning of an export, empty only if the export is.
Beginning(v) ==
    /\ v.snapshot \in Exports /\ v.nextSkip \in 0..RowCount[v.snapshot]
    /\ v.records = Records!FirstRows(v.snapshot, v.nextSkip)
    /\ v.nextSkip = 0 => RowCount[v.snapshot] = 0
    /\ v.hasMore <=> v.nextSkip < RowCount[v.snapshot]

\* A request for the first page, or for the one after those that are shown.
AsksRows(c) ==
    \/ c.arg = Records!First
    \/ /\ Beginning(view)
       /\ \E since \in Exports : c.arg = [append |-> TRUE, skip |-> view.nextSkip, since |-> since]

RowsInv ==
    /\ IsRecords(view) /\ Proper /\ Single("records")
    /\ world \in [now : Exports, settled : Exports]
    /\ (view.snapshot = None /\ ~view.hasMore) \/ Beginning(view)
    /\ \A c \in calls : c.op = "records" => AsksRows(c)

\* Exports are numbers.
LEMMA ExportNumbers ==
  /\ Exports \subseteq Int
  /\ \A i, j \in Exports : i..j \subseteq Exports
<1>1. Cardinality(Exports) \in Nat
  BY NoticesAssumption, FS_CardinalityType, Zenon
<1>2. \A n \in Nat : 1..n \subseteq Int /\ \A i, j \in 1..n : i..j \subseteq 1..n
  BY SMT
<1>3. QED
  BY <1>1, <1>2, NoticesAssumption, Zenon

\* The page counts as everybody does.
LEMMA SameCount == \A S : Records!Cardinality(S) = Cardinality(S)
BY Zenon DEF Records!Cardinality, Cardinality

\* One row is a page; merged to those before it there is one more.
LEMMA RowsMerged ==
  ASSUME NEW s \in Exports, NEW n \in 0..RowCount[s], NEW old, NEW new, NEW next,
         n = 0 \/ old = Records!FirstRows(s, n), n = 0 => old = {},
         new = Records!Page(s, n), next = n + Cardinality(new)
  PROVE  /\ next \in 0..RowCount[s]
         /\ Records!Merged(old, new) = Records!FirstRows(s, next)
         /\ next = 0 => RowCount[s] = 0
<1>0. RowCount[s] \in Nat /\ n \in Nat
  BY NoticesAssumption, SMT
<1>1. old = Records!FirstRows(s, n)
  BY <1>0, SMT DEF Records!FirstRows
<1>2. CASE n < RowCount[s]
  <2>1. new = {Records!Row(s, n + 1)}
    BY <1>0, <1>2, SMT DEF Records!Page
  <2>2. Cardinality(new) = 1
    BY <2>1, FS_Singleton, Zenon
  <2>3. next = n + 1
    BY <2>2
  <2>4. Records!Merged(old, new) = Records!FirstRows(s, n + 1)
    <3>1. \A r \in old : r.row # n + 1
      BY <1>0, <1>1, SMT DEF Records!FirstRows, Records!Row
    <3>2. Records!Merged(old, new) = old \cup new
      BY <2>1, <3>1, SMT DEF Records!Merged, Records!Row
    <3>3. 1..(n + 1) = (1..n) \cup {n + 1}
      BY <1>0, SMT
    <3>4. QED
      BY <1>1, <2>1, <3>2, <3>3, ZenonT(20) DEF Records!FirstRows
  <2>5. QED
    BY <1>0, <1>2, <2>3, <2>4, SMT
<1>3. CASE n = RowCount[s]
  <2>1. new = {}
    BY <1>0, <1>3, SMT DEF Records!Page
  <2>2. Cardinality(new) = 0
    BY <2>1, FS_EmptySet, Zenon
  <2>3. next = n
    BY <1>0, <2>2, SMT
  <2>4. Records!Merged(old, new) = old
    BY <2>1, SMT DEF Records!Merged
  <2>5. QED
    BY <1>0, <1>1, <1>3, <2>3, <2>4, SMT
<1>4. QED
  BY <1>0, <1>2, <1>3, SMT

\* The page opens without rows.
LEMMA RowsInit == Records!Init => RowsInv
<1> SUFFICES ASSUME Records!Init PROVE RowsInv
  OBVIOUS
<1>1. IsRecords(view) /\ view.snapshot = None /\ ~view.hasMore
  BY Numbers, ZenonT(20) DEF Records!Init, Records!Opened, IsRecords
<1> PICK x : x = [op |-> "records", arg |-> Records!First, seen |-> FALSE]
  OBVIOUS
<1>2. calls = {x} /\ IsCall(x) /\ x.arg = Records!First
  BY ZenonT(20) DEF Records!Init, Records!Call, IsCall
<1>3. Proper /\ Single("records") /\ \A c \in calls : AsksRows(c)
  BY <1>2, ZenonT(20) DEF Proper, Single, AsksRows
<1>4. world \in [now : Exports, settled : Exports]
  BY NoticesAssumption, ZenonT(20) DEF Records!Init
<1>5. QED
  BY <1>1, <1>3, <1>4, ZenonT(20) DEF RowsInv

\* The rows stay while a request begins that asks for the first page or the next.
LEMMA RowsAsked ==
  ASSUME RowsInv, IsRecords(view'),
         view'.snapshot = view.snapshot, view'.records = view.records,
         view'.nextSkip = view.nextSkip, view'.hasMore = view.hasMore,
         world' \in [now : Exports, settled : Exports],
         Proper', Single("records")',
         \A c \in calls' : c.op = "records" => c \in calls \/ AsksRows(c)
  PROVE  RowsInv'
<1>1. Beginning(view') <=> Beginning(view)
  BY ZenonT(20) DEF Beginning
<1>2. \A c : AsksRows(c)' <=> AsksRows(c)
  BY <1>1, ZenonT(20) DEF AsksRows
<1>3. QED
  BY <1>1, <1>2, ZenonT(20) DEF RowsInv

\* A page comes and is merged.
LEMMA RowsShown ==
  ASSUME RowsInv, NEW c \in calls, c.op = "records", NEW s \in Exports, NEW old,
         \/ c.arg = Records!First /\ old = {}
         \/ c.arg # Records!First /\ old = view.records /\ s = view.snapshot,
         calls' = calls \ {c} \/ (c.arg = Records!First /\ calls' = (calls \ {c}) \cup {[c EXCEPT !.seen = TRUE]}),
         view' = Records!Shown(c, s, old), world' = world
  PROVE  RowsInv'
<1> PICK new : new = Records!Page(s, c.arg.skip)
  OBVIOUS
<1> PICK next : next = c.arg.skip + Cardinality(new)
  OBVIOUS
<1> PICK n : n = c.arg.skip
  OBVIOUS
<1>0. IsRecords(view) /\ Proper /\ Single("records") /\ AsksRows(c)
  BY ZenonT(20) DEF RowsInv
<1>1. /\ IsRecords(view') /\ view'.snapshot = s /\ view'.nextSkip = next
      /\ view'.records = Records!Merged(old, new) /\ view'.hasMore = (next < RowCount[s])
  <2> PICK more, loading : more = (next < RowCount[s]) /\ loading = (\E d \in calls' : d.op = "records")
    OBVIOUS
  <2>1. more \in BOOLEAN /\ loading \in BOOLEAN
    BY SMT
  <2>2. view' = [view EXCEPT !.snapshot = s, !.records = Records!Merged(old, new), !.nextSkip = next,
                             !.hasMore = more, !.pageLoading = loading]
    <3>1. Records!Cardinality(new) = Cardinality(new)
      BY SameCount, Zenon
    <3>2. QED
      BY <3>1, ZenonT(20) DEF Records!Shown
  <2>3. QED
    BY <1>0, <2>1, <2>2, ZenonT(20) DEF IsRecords
<1>2. n \in 0..RowCount[s] /\ (n = 0 \/ old = Records!FirstRows(s, n)) /\ (n = 0 => old = {})
  <2>1. CASE c.arg = Records!First
    <3>1. n = 0 /\ old = {}
      BY <2>1, SMT DEF Records!First
    <3>2. QED
      BY <3>1, NoticesAssumption, SMT
  <2>2. CASE c.arg # Records!First
    <3>1. Beginning(view) /\ old = view.records /\ s = view.snapshot /\ n = view.nextSkip
      <4>1. PICK since \in Exports : c.arg = [append |-> TRUE, skip |-> view.nextSkip, since |-> since]
        BY <1>0, <2>2, Zenon DEF AsksRows
      <4>2. c.arg.skip = view.nextSkip
        BY <4>1, SMT
      <4>3. QED
        BY <1>0, <2>2, <4>2, Zenon DEF AsksRows
    <3>2. n = 0 => old = {}
      BY <3>1, SMT DEF Beginning, Records!FirstRows
    <3>3. QED
      BY <3>1, <3>2, ZenonT(20) DEF Beginning
  <2>3. QED
    BY <2>1, <2>2, Zenon
<1>3. /\ next \in 0..RowCount[s] /\ (next = 0 => RowCount[s] = 0)
      /\ Records!Merged(old, new) = Records!FirstRows(s, next)
  <2>1. new = Records!Page(s, n) /\ next = n + Cardinality(new)
    BY Zenon
  <2>2. QED
    BY <1>2, <2>1, RowsMerged, SMTT(30)
<1>4. Beginning(view')
  BY <1>1, <1>3, ZenonT(20) DEF Beginning
<1>5. Proper' /\ Single("records")'
  BY <1>0, Ended, Previewed, ZenonT(20)
<1>6. \A d \in calls' : d.op = "records" => d.arg = Records!First
  <2>1. CASE calls' = calls \ {c}
    BY <1>0, <2>1, ZenonT(20) DEF Single
  <2>2. CASE c.arg = Records!First /\ calls' = (calls \ {c}) \cup {[c EXCEPT !.seen = TRUE]}
    BY <1>0, <2>2, Previewed, ZenonT(20) DEF Single
  <2>3. QED
    BY <2>1, <2>2, Zenon
<1>7. QED
  BY <1>1, <1>4, <1>5, <1>6, ZenonT(20) DEF RowsInv, AsksRows

\* Every step of the page keeps it.
LEMMA RowsStep ==
  ASSUME RowsInv, Records!Next
  PROVE  RowsInv'
<1> USE DEF Records!Under, Records!Ends
<1>0. /\ IsRecords(view) /\ Proper /\ Single("records") /\ world \in [now : Exports, settled : Exports]
  BY ZenonT(20) DEF RowsInv
<1>1. CASE Records!Sync
  <2>1. world' \in [now : Exports, settled : Exports] /\ view' = view /\ calls' = calls
    BY <1>0, <1>1, ZenonT(20) DEF Records!Sync
  <2>2. Proper' /\ Single("records")'
    BY <1>0, <2>1, ZenonT(20) DEF Proper, Single
  <2>3. QED
    BY <1>0, <2>1, <2>2, RowsAsked, ZenonT(20)
\* Any new request.
<1>2. ASSUME NEW q, q = Records!First \/ (/\ Beginning(view)
                                         /\ \E since \in Exports :
                                               q = [append |-> TRUE, skip |-> view.nextSkip, since |-> since]),
             Records!Switch(Records!Call("records", q)),
             view' = [view EXCEPT !.pageLoading = TRUE, !.loadError = FALSE],
             world' \in [now : Exports, settled : Exports]
      PROVE  RowsInv'
  <2>1. /\ IsRecords(view') /\ view'.snapshot = view.snapshot /\ view'.records = view.records
        /\ view'.nextSkip = view.nextSkip /\ view'.hasMore = view.hasMore
    BY <1>0, <1>2, ZenonT(20) DEF IsRecords
  <2> PICK x : x = [op |-> "records", arg |-> q, seen |-> FALSE]
    OBVIOUS
  <2>2. x.op = "records" /\ calls' = (calls \ {c \in calls : c.op = x.op}) \cup {x}
    BY <1>2, ZenonT(20) DEF Records!Switch, Records!Call
  <2>3. Proper' /\ Asks("records", q)' /\ Single("records")'
    BY <1>0, <2>2, Switched, ZenonT(20)
  <2>4. \A c \in calls' : c.op = "records" => AsksRows(c)
    BY <1>2, <2>3, ZenonT(20) DEF Asks, AsksRows
  <2>5. QED
    BY <1>2, <2>1, <2>3, <2>4, RowsAsked, ZenonT(20)
<1>3. ASSUME NEW append \in BOOLEAN, append => Beginning(view), Records!LoadRecords(append)
      PROVE  RowsInv'
  <2> PICK q : q = IF append THEN [append |-> TRUE, skip |-> view.nextSkip, since |-> world.now] ELSE Records!First
    OBVIOUS
  <2>1. world.now \in Exports
    BY <1>0, ZenonT(20)
  <2>2. q = Records!First \/ (/\ Beginning(view)
                              /\ \E since \in Exports :
                                    q = [append |-> TRUE, skip |-> view.nextSkip, since |-> since])
    BY <1>3, <2>1, ZenonT(20)
  <2>3. QED
    BY <1>0, <1>2, <1>3, <2>2, ZenonT(20) DEF Records!LoadRecords
<1>4. CASE Records!LoadMore
  <2>1. view.hasMore
    BY <1>4, ZenonT(20) DEF Records!LoadMore, Records!MoreOffered
  <2>2. Beginning(view)
    BY <2>1, ZenonT(20) DEF RowsInv
  <2>3. QED
    BY <1>3, <1>4, <2>2, ZenonT(20) DEF Records!LoadMore
<1>5. CASE Records!RetryLoad
  <2>1. view.snapshot # None => Beginning(view)
    BY ZenonT(20) DEF RowsInv
  <2> PICK append : append = (view.snapshot # None)
    OBVIOUS
  <2>2. append \in BOOLEAN /\ (append => Beginning(view))
    BY <2>1, ZenonT(20)
  <2>3. QED
    BY <1>3, <1>5, <2>2, ZenonT(20) DEF Records!RetryLoad
<1>6. CASE Records!ReceiveFirst
  <2> PICK c \in calls, s \in world.settled..world.now :
          /\ c.op = "records" /\ ~c.arg.append
          /\ calls' = calls \ {c} \/ calls' = (calls \ {c}) \cup {[c EXCEPT !.seen = TRUE]}
          /\ view' = Records!Shown(c, s, {}) /\ world' = world
    BY <1>6, ZenonT(20) DEF Records!ReceiveFirst, Records!Continuations, Records!Shows, Records!Previews
  <2>1. s \in Exports
    BY <1>0, ExportNumbers, ZenonT(20)
  <2>2. c.arg = Records!First
    <3>1. AsksRows(c)
      BY ZenonT(20) DEF RowsInv
    <3>2. \A since : [append |-> TRUE, skip |-> view.nextSkip, since |-> since].append
      BY ZenonT(20)
    <3>3. QED
      BY <3>1, <3>2, ZenonT(20) DEF AsksRows
  <2>3. QED
    BY <2>1, <2>2, RowsShown, ZenonT(20)
<1>7. CASE Records!ReceiveMore
  <2> PICK c \in calls :
          /\ c.op = "records" /\ c.arg.append /\ view.snapshot \in c.arg.since..world.now
          /\ calls' = calls \ {c}
          /\ view' = Records!Shown(c, view.snapshot, view.records) /\ world' = world
    BY <1>7, ZenonT(20) DEF Records!ReceiveMore, Records!Continuations
  <2>1. c.arg # Records!First
    BY SMT DEF Records!First
  <2>2. AsksRows(c)
    BY ZenonT(20) DEF RowsInv
  <2>3. view.snapshot \in Exports
    BY <2>1, <2>2, ZenonT(20) DEF AsksRows, Beginning
  <2>4. QED
    BY <2>1, <2>3, RowsShown, ZenonT(20)
<1>8. CASE Records!Restart
  <2>1. world' \in [now : Exports, settled : Exports]
    BY <1>0, <1>8, ZenonT(20) DEF Records!Restart, Records!Settle
  <2>2. QED
    BY <1>2, <1>8, <2>1, ZenonT(20) DEF Records!Restart
<1>9. ASSUME NEW c \in calls, calls' = calls \ {c}, world' = world,
             /\ IsRecords(view') /\ view'.snapshot = view.snapshot /\ view'.records = view.records
             /\ view'.nextSkip = view.nextSkip /\ view'.hasMore = view.hasMore
      PROVE  RowsInv'
  <2>1. Proper' /\ Single("records")' /\ \A d \in calls' : d \in calls
    BY <1>0, <1>9, Ended, ZenonT(20)
  <2>2. QED
    BY <1>0, <1>9, <2>1, RowsAsked, ZenonT(20)
<1>10. CASE Records!Fail
  <2>1. /\ IsRecords(view') /\ view'.snapshot = view.snapshot /\ view'.records = view.records
        /\ view'.nextSkip = view.nextSkip /\ view'.hasMore = view.hasMore
    BY <1>0, <1>10, ZenonT(20) DEF Records!Fail, IsRecords
  <2>2. QED
    BY <1>9, <1>10, <2>1, ZenonT(20) DEF Records!Fail
<1>11. CASE Records!Quiet
  <2>1. /\ IsRecords(view') /\ view'.snapshot = view.snapshot /\ view'.records = view.records
        /\ view'.nextSkip = view.nextSkip /\ view'.hasMore = view.hasMore
    BY <1>0, <1>11, ZenonT(20) DEF Records!Quiet, IsRecords
  <2>2. QED
    BY <1>9, <1>11, <2>1, ZenonT(20) DEF Records!Quiet
<1>12. QED
  BY <1>1, <1>4, <1>5, <1>6, <1>7, <1>8, <1>10, <1>11, Zenon DEF Records!Next, Records!Answer

\* The rows on display are the first of one export.
LEMMA RowsContinuous == RowsInv => Records!RowsOfOneExport
<1> SUFFICES ASSUME RowsInv, view.snapshot # None
             PROVE  /\ view.records = Records!FirstRows(view.snapshot, view.nextSkip)
                    /\ view.hasMore <=> view.nextSkip < RowCount[view.snapshot]
                    /\ Records!Screen = "no rows" => RowCount[view.snapshot] = 0
  BY Zenon DEF Records!RowsOfOneExport
<1>1. Beginning(view)
  BY Zenon DEF RowsInv
<1>2. Records!Screen = "no rows" => view.records = {}
  <2>1. CASE view.records # {}
    <3>1. Records!Screen = "rows"
      BY <2>1, ZenonT(20) DEF Records!Screen
    <3>2. QED
      BY <3>1, Zenon
  <2>2. QED
    BY <2>1, Zenon
<1>3. view.records = {} => view.nextSkip = 0
  <2>1. view.nextSkip \in Nat
    BY <1>1, NoticesAssumption, SMT DEF Beginning
  <2>2. view.nextSkip # 0 => Records!Row(view.snapshot, 1) \in view.records
    BY <1>1, <2>1, SMT DEF Beginning, Records!FirstRows
  <2>3. QED
    BY <2>2, Zenon
<1>4. QED
  BY <1>1, <1>2, <1>3, ZenonT(20) DEF Beginning

-----------------------------------------------------------------------------
(* The feed of notices and its totals.                                     *)

IsFeed(v) ==
    v \in [feed : {v.feed}, summary : {v.summary}, summaryError : BOOLEAN, hasMore : BOOLEAN,
           pageLoading : BOOLEAN, loadError : BOOLEAN, resolvingRow : {v.resolvingRow},
           crossed : BOOLEAN, lost : BOOLEAN]

\* The notices loaded are the newest up to the cutoff.
Loaded(f) ==
    /\ f \in [asOf : 1..Len(world.now), nextSkip : 1..Len(world.now), items : {f.items}]
    /\ f.nextSkip <= f.asOf
    /\ f.items \in [(f.asOf - f.nextSkip + 1)..f.asOf -> BOOLEAN]

\* A request for the first notice, while nothing is resolved, or for the next one.
AsksNotice(c) ==
    \/ c.arg = Feed!First /\ ~Asked("resolve")
    \/ Loaded(view.feed) /\ c.arg = [skip |-> view.feed.nextSkip, asOf |-> view.feed.asOf]

\* The resolution under way is of a notice that is loaded.
Resolves(c) ==
    /\ Loaded(view.feed) /\ view.resolvingRow # None
    /\ c.arg.key \in DOMAIN view.feed.items /\ c.arg.resolved \in BOOLEAN

IsSummary(s) == s = None \/ s \in [pending : Int, upTo : Nat]

FeedShape ==
    /\ IsFeed(view) /\ Proper /\ Single("feed") /\ Single("resolve")
    /\ world \in [now : Seq(BOOLEAN), settled : Seq(BOOLEAN)]
    /\ Len(world.settled) <= Len(world.now) /\ Len(world.now) <= MaxNotices
    /\ \/ view.feed = None /\ ~view.hasMore
       \/ Loaded(view.feed) /\ (view.hasMore <=> view.feed.nextSkip < view.feed.asOf)
    /\ IsSummary(view.summary)
    /\ \A c \in calls : c.op = "feed" => AsksNotice(c) /\ view.pageLoading
    /\ \A c \in calls : c.op = "resolve" => Resolves(c)
    /\ Asked("summary") /\ Asked("resolve") => view.crossed

\* The notices as they were before the resolution under way was executed.
Flipped(j) == \E c \in calls : c.op = "resolve" /\ c.arg.key = j /\ c.seen
Before == [j \in 1..Len(world.now) |-> IF Flipped(j) THEN ~world.now[j] ELSE world.now[j]]

\* What is shown, and what was settled, is as before the resolution under way,
\* which changes it.
FeedTruth ==
    /\ \A j \in 1..Len(world.settled) : world.settled[j] = Before[j]
    /\ view.feed # None => \A k \in DOMAIN view.feed.items : view.feed.items[k] = Before[k]
    /\ \A c \in calls : c.op = "resolve" => c.arg.resolved = ~Before[c.arg.key]
    /\ view.summary # None /\ ~view.crossed =>
          /\ view.summary.upTo <= Len(world.now)
          /\ view.summary.pending = Feed!Unresolved(Before, view.summary.upTo)

FeedInv == FeedShape /\ (~view.lost => FeedTruth)

-----------------------------------------------------------------------------
\* What is loaded is something.
LEMMA LoadedIsSomething ==
  ASSUME NEW f, Loaded(f), world.now \in Seq(BOOLEAN), Len(world.now) <= MaxNotices
  PROVE  /\ f # None
         /\ f.asOf \in Nat /\ f.nextSkip \in Nat /\ f.nextSkip > 0
         /\ f.items = [k \in DOMAIN f.items |-> f.items[k]]
         /\ DOMAIN f.items = (f.asOf - f.nextSkip + 1)..f.asOf
         /\ DOMAIN f.items \subseteq 1..Len(world.now)
         /\ \A k \in DOMAIN f.items : f.items[k] \in BOOLEAN
<1>1. /\ f.asOf \in 1..Len(world.now) /\ f.nextSkip \in 1..Len(world.now) /\ f.nextSkip <= f.asOf
      /\ f.items \in [(f.asOf - f.nextSkip + 1)..f.asOf -> BOOLEAN]
      /\ f \in [asOf : 1..Len(world.now), nextSkip : 1..Len(world.now), items : {f.items}]
  BY ZenonT(20) DEF Loaded
<1> PICK m : m = Len(world.now)
  OBVIOUS
<1>2. m \in Nat /\ MaxNotices \in Nat /\ m <= MaxNotices
  BY NoticesAssumption, SMT
<1> PICK i, j : i = f.asOf - f.nextSkip + 1 /\ j = f.asOf
  OBVIOUS
<1>3. i \in 1..m /\ j \in 1..m
  BY <1>1, <1>2, SMT
<1>4. 1..m \subseteq 1..MaxNotices
  BY <1>2, SMT
<1>5. f \in [asOf : 1..MaxNotices, nextSkip : 1..MaxNotices, items : [i..j -> BOOLEAN]]
  BY <1>1, <1>4, ZenonT(20)
<1>6. f # None
  BY <1>3, <1>4, <1>5, NoticesAssumption, ZenonT(20)
<1>7. f.items = [k \in DOMAIN f.items |-> f.items[k]] /\ DOMAIN f.items = i..j
      /\ \A k \in DOMAIN f.items : f.items[k] \in BOOLEAN
  BY <1>1, ZenonT(20)
<1>8. i..j \subseteq 1..m
  BY <1>2, <1>3, SMT
<1>9. f.asOf \in Nat /\ f.nextSkip \in Nat /\ f.nextSkip > 0
  BY <1>1, <1>2, SMT
<1>10. QED
  BY <1>6, <1>7, <1>8, <1>9, Zenon

\* The totals count what is unresolved; only the notices up to their limit matter.
LEMMA SameUnresolved ==
  ASSUME NEW s, NEW t, NEW n \in Nat, \A k \in 1..n : s[k] = t[k]
  PROVE  Feed!Unresolved(s, n) = Feed!Unresolved(t, n)
<1>1. {k \in 1..n : ~s[k]} = {k \in 1..n : ~t[k]}
  BY ZenonT(20)
<1>2. QED
  BY <1>1, Zenon DEF Feed!Unresolved

\* The feed counts as everybody does.
LEMMA FeedCount == \A S : Feed!Cardinality(S) = Cardinality(S)
BY Zenon DEF Feed!Cardinality, Cardinality

\* A count is a number, and resolving one of the notices lowers it by one.
LEMMA UnresolvedNumber ==
  ASSUME NEW s, NEW n \in Nat
  PROVE  /\ IsFiniteSet({k \in 1..n : ~s[k]})
         /\ Feed!Unresolved(s, n) = Cardinality({k \in 1..n : ~s[k]})
         /\ Feed!Unresolved(s, n) \in Nat
<1>1. IsFiniteSet(1..n)
  BY FS_Interval, SMT
<1>2. IsFiniteSet({k \in 1..n : ~s[k]})
  <2>1. {k \in 1..n : ~s[k]} \subseteq 1..n
    BY Zenon
  <2>2. QED
    BY <1>1, <2>1, FS_Subset, Zenon
<1>3. QED
  BY <1>2, FS_CardinalityType, FeedCount, Zenon DEF Feed!Unresolved

\* Resolving one notice lowers the count by one.
LEMMA UnresolvedLess ==
  ASSUME NEW s, NEW t, NEW n \in Nat, NEW k \in 1..n, ~s[k], t[k],
         \A j \in 1..n : j # k => t[j] = s[j]
  PROVE  Feed!Unresolved(t, n) = Feed!Unresolved(s, n) - 1
<1> PICK S, T : S = {j \in 1..n : ~s[j]} /\ T = {j \in 1..n : ~t[j]}
  OBVIOUS
<1>1. T = S \ {k} /\ k \in S
  BY ZenonT(20)
<1>2. IsFiniteSet(S)
  BY UnresolvedNumber, Zenon
<1>3. Cardinality(T) = Cardinality(S) - 1
  BY <1>1, <1>2, FS_RemoveElement, Zenon
<1>4. QED
  BY <1>3, UnresolvedNumber, Zenon

\* Of n notices only k is another, which is resolved or reopened.
OnlyTicked(s, t, n, k, r) ==
    /\ n \in Nat /\ k \in 1..n /\ r \in BOOLEAN
    /\ s[k] = ~r /\ t[k] = r /\ \A j \in 1..n : j # k => t[j] = s[j]

\* Resolving or reopening one notice corrects the count by one.
LEMMA UnresolvedCorrected ==
  ASSUME NEW s, NEW t, NEW n, NEW k, NEW r, OnlyTicked(s, t, n, k, r)
  PROVE  Feed!Unresolved(t, n) = IF r THEN Feed!Unresolved(s, n) - 1 ELSE Feed!Unresolved(s, n) + 1
<1>0. /\ n \in Nat /\ k \in 1..n /\ r \in BOOLEAN
      /\ s[k] = ~r /\ t[k] = r /\ \A j \in 1..n : j # k => t[j] = s[j]
  BY Zenon DEF OnlyTicked
<1>1. CASE r
  <2>1. ~s[k] /\ t[k]
    BY <1>0, <1>1, ZenonT(20)
  <2>2. QED
    BY <1>0, <1>1, <2>1, UnresolvedLess, ZenonT(20)
<1>2. CASE ~r
  <2>1. ~t[k] /\ s[k] /\ \A j \in 1..n : j # k => s[j] = t[j]
    BY <1>0, <1>2, ZenonT(20)
  <2>2. Feed!Unresolved(s, n) = Feed!Unresolved(t, n) - 1
    BY <1>0, <2>1, UnresolvedLess, ZenonT(20)
  <2>3. Feed!Unresolved(s, n) \in Nat /\ Feed!Unresolved(t, n) \in Nat
    BY <1>0, UnresolvedNumber, Zenon
  <2>4. QED
    BY <1>2, <2>2, <2>3, SMT
<1>3. QED
  BY <1>1, <1>2, Zenon

\* Steps that leave the server and the resolution under way alone.
LEMMA BeforeStays ==
  ASSUME world'.now = world.now, \A c : c.op = "resolve" => (c \in calls' <=> c \in calls)
  PROVE  Before' = Before
<1>1. \A j : Flipped(j)' <=> Flipped(j)
  BY ZenonT(20) DEF Flipped
<1>2. QED
  BY <1>1, ZenonT(20) DEF Before

\* While nothing is resolved the notices are as before.
LEMMA BeforeIsNow ==
  ASSUME ~Asked("resolve")
  PROVE  \A j \in 1..Len(world.now) : Before[j] = world.now[j]
BY ZenonT(20) DEF Asked, Before, Flipped

\* What the page loaded stays, while reads of the feed and of the totals begin
\* and end.
LEMMA FeedKept ==
  ASSUME FeedInv, world' = world, IsFeed(view'), Proper', Single("feed")',
         view'.feed = view.feed, view'.hasMore = view.hasMore,
         view'.resolvingRow = view.resolvingRow, view'.lost = view.lost,
         view.crossed => view'.crossed,
         \A c : c.op = "resolve" => (c \in calls' <=> c \in calls),
         \A c \in calls' : c.op = "feed" => (c \in calls \/ AsksNotice(c)) /\ view'.pageLoading,
         Asked("summary")' /\ Asked("resolve") => Asked("summary") \/ view'.crossed,
         IsSummary(view'.summary),
         \/ view'.summary = view.summary
         \/ ~view.lost /\ ~view'.crossed =>
               /\ view'.summary.upTo <= Len(world.now)
               /\ view'.summary.pending = Feed!Unresolved(Before, view'.summary.upTo)
  PROVE  FeedInv'
<1>1. Before' = Before
  BY BeforeStays, ZenonT(20)
<1>2. Loaded(view.feed)' <=> Loaded(view.feed)
  BY ZenonT(20) DEF Loaded
<1>3. Asked("resolve")' <=> Asked("resolve")
  BY ZenonT(20) DEF Asked
<1>4. /\ \A c : AsksNotice(c)' <=> AsksNotice(c)
      /\ \A c : Resolves(c)' <=> Resolves(c)
  BY <1>2, <1>3, ZenonT(20) DEF AsksNotice, Resolves
<1>5. FeedShape'
  <2>1. Single("resolve")'
    BY ZenonT(20) DEF FeedInv, FeedShape, Single
  <2>2. \A c \in calls' : c.op = "resolve" => Resolves(c)'
    BY <1>4, ZenonT(20) DEF FeedInv, FeedShape
  <2>3. \A c \in calls' : c.op = "feed" => AsksNotice(c)' /\ view'.pageLoading
    BY <1>4, ZenonT(20) DEF FeedInv, FeedShape
  <2>4. Asked("summary")' /\ Asked("resolve")' => view'.crossed
    BY <1>3, ZenonT(20) DEF FeedInv, FeedShape
  <2>5. \/ view'.feed = None /\ ~view'.hasMore
        \/ Loaded(view.feed)' /\ (view'.hasMore <=> view'.feed.nextSkip < view'.feed.asOf)
    BY <1>2, ZenonT(20) DEF FeedInv, FeedShape
  <2>6. QED
    BY <2>1, <2>2, <2>3, <2>4, <2>5, ZenonT(20) DEF FeedInv, FeedShape
<1>6. ASSUME ~view.lost PROVE FeedTruth'
  <2>1. FeedTruth
    BY <1>6, ZenonT(20) DEF FeedInv
  <2>2. \A c \in calls' : c.op = "resolve" => c.arg.resolved = ~Before[c.arg.key]
    BY <2>1, ZenonT(20) DEF FeedTruth
  <2>3. view'.summary # None /\ ~view'.crossed =>
          /\ view'.summary.upTo <= Len(world.now)
          /\ view'.summary.pending = Feed!Unresolved(Before, view'.summary.upTo)
    BY <1>6, <2>1, ZenonT(20) DEF FeedTruth
  <2>4. Feed!Unresolved(Before, view.summary.upTo)' = Feed!Unresolved(Before, view'.summary.upTo)
    BY <1>1, ZenonT(20) DEF Feed!Unresolved
  <2>5. QED
    BY <1>1, <1>2, <2>1, <2>2, <2>3, <2>4, ZenonT(20) DEF FeedTruth
<1>7. QED
  BY <1>5, <1>6, Zenon DEF FeedInv

\* The page opens without notices.
LEMMA FeedInit == Feed!Init => FeedInv
<1> SUFFICES ASSUME Feed!Init PROVE FeedInv
  OBVIOUS
<1> PICK s \in {<<FALSE>>, <<TRUE, FALSE>>} : world = [now |-> s, settled |-> s]
  BY Zenon DEF Feed!Init
<1>1. /\ world \in [now : Seq(BOOLEAN), settled : Seq(BOOLEAN)] /\ world.settled = world.now
      /\ Len(world.settled) <= Len(world.now) /\ Len(world.now) <= MaxNotices
  <2>1. s \in Seq(BOOLEAN) /\ Len(s) <= 2
    <3>1. CASE s = <<FALSE>>
      BY <3>1, SMT
    <3>2. CASE s = <<TRUE, FALSE>>
      BY <3>2, SMT
    <3>3. QED
      BY <3>1, <3>2, Zenon
  <2>2. world \in [now : Seq(BOOLEAN), settled : Seq(BOOLEAN)] /\ world.now = s /\ world.settled = s
    BY <2>1, ZenonT(20)
  <2>3. Len(s) \in Nat /\ 2 <= MaxNotices /\ MaxNotices \in Nat
    BY <2>1, NoticesAssumption, SMT
  <2>4. Len(s) <= Len(s) /\ Len(s) <= MaxNotices
    BY <2>1, <2>3, SMT
  <2>5. QED
    BY <2>2, <2>4, Zenon
<1>2. /\ IsFeed(view) /\ view.feed = None /\ ~view.hasMore /\ view.summary = None /\ view.pageLoading
  BY ZenonT(20) DEF Feed!Init, Feed!Opened, IsFeed
<1> PICK x, y : /\ x = [op |-> "feed", arg |-> Feed!First, seen |-> FALSE]
                /\ y = [op |-> "summary", arg |-> None, seen |-> FALSE]
  OBVIOUS
<1>3. calls = {x, y} /\ IsCall(x) /\ x.op = "feed" /\ x.arg = Feed!First /\ IsCall(y) /\ y.op = "summary"
  BY ZenonT(20) DEF Feed!Init, Feed!Call, IsCall
<1>4. Proper /\ Single("feed") /\ Single("resolve") /\ ~Asked("resolve")
  BY <1>3, ZenonT(20) DEF Proper, Single, Asked
<1>5. \A c \in calls : (c.op = "feed" => AsksNotice(c)) /\ c.op # "resolve"
  BY <1>3, <1>4, ZenonT(20) DEF AsksNotice
<1>7. FeedShape
  BY <1>1, <1>2, <1>4, <1>5, ZenonT(20) DEF FeedShape, IsSummary
<1>8. FeedTruth
  <2>1. \A j \in 1..Len(world.settled) : world.settled[j] = Before[j]
    BY <1>1, <1>4, BeforeIsNow, ZenonT(20)
  <2>2. QED
    BY <1>2, <1>5, <2>1, ZenonT(20) DEF FeedTruth
<1>9. QED
  BY <1>7, <1>8, Zenon DEF FeedInv

\* Reads of the feed or of the totals that end, or hand out a preview.
LEMMA FeedReadEnds ==
  ASSUME FeedInv, NEW c \in calls, c.op \in {"feed", "summary"},
         calls' = calls \ {c} \/ calls' = (calls \ {c}) \cup {[c EXCEPT !.seen = TRUE]}
  PROVE  /\ Proper' /\ Single("feed")'
         /\ \A d : d.op = "resolve" => (d \in calls' <=> d \in calls)
         /\ Asked("summary")' /\ Asked("resolve") => Asked("summary")
         /\ \A d \in calls' : d \in calls \/ (d.op = c.op /\ d.arg = c.arg)
         /\ c.op = "feed" /\ calls' = calls \ {c} => ~Asked("feed")'
<1>1. Proper /\ Single("feed") /\ c.op # "resolve"
  BY ZenonT(20) DEF FeedInv, FeedShape
<1>2. CASE calls' = calls \ {c}
  <2>1. Proper' /\ Single("feed")' /\ (c.op = "feed" => ~Asked("feed")')
    BY <1>1, <1>2, Ended, ZenonT(20)
  <2>2. \A d : d.op = "resolve" => (d \in calls' <=> d \in calls)
    BY <1>1, <1>2, ZenonT(20)
  <2>3. \A d \in calls' : d \in calls
    BY <1>2, ZenonT(20)
  <2>4. QED
    BY <2>1, <2>2, <2>3, ZenonT(20) DEF Asked
<1>4. c.op = "feed" /\ calls' = calls \ {c} => ~Asked("feed")'
  BY <1>1, Ended, ZenonT(20)
<1>3. CASE calls' = (calls \ {c}) \cup {[c EXCEPT !.seen = TRUE]}
  <2>1. /\ Proper' /\ Single("feed")' /\ (Asked("summary")' <=> Asked("summary"))
        /\ \A d \in calls' : d \in calls \/ (d.op = c.op /\ d.arg = c.arg)
    BY <1>1, <1>3, Previewed, ZenonT(20)
  <2> PICK x : x = [c EXCEPT !.seen = TRUE]
    OBVIOUS
  <2>2. x.op = c.op /\ x.seen
    BY <1>1, ZenonT(20) DEF Proper, IsCall
  <2>3. calls' = (calls \ {c}) \cup {x}
    BY <1>3, Zenon
  <2>4. \A d : d.op = "resolve" => d # c /\ d # x
    BY <1>1, <2>2, ZenonT(20)
  <2>5. \A d : d.op = "resolve" => (d \in calls' <=> d \in calls)
    BY <2>3, <2>4, ZenonT(20)
  <2>6. QED
    BY <1>4, <2>1, <2>5, ZenonT(20)
<1>5. QED
  BY <1>2, <1>3, Zenon


\* Reads of the feed begin: the first page, or the next one.
LEMMA FeedAsked ==
  ASSUME FeedInv, NEW append \in BOOLEAN, append <=> view.feed # None, Feed!LoadNoticeFeed(append)
  PROVE  FeedInv'
<1>1. /\ IsFeed(view) /\ Proper
      /\ view.feed = None \/ Loaded(view.feed)
      /\ \A c \in calls : c.op = "resolve" => Resolves(c)
  BY ZenonT(20) DEF FeedInv, FeedShape
<1>2. /\ IsFeed(view') /\ world' = world /\ view'.feed = view.feed /\ view'.hasMore = view.hasMore
      /\ view'.resolvingRow = view.resolvingRow /\ view'.lost = view.lost
      /\ view'.crossed = view.crossed /\ view'.summary = view.summary /\ view'.pageLoading
  BY <1>1, ZenonT(20) DEF Feed!LoadNoticeFeed, IsFeed
<1> PICK q : q = Feed!Asked(append)
  OBVIOUS
<1> PICK x, y : x = [op |-> "feed", arg |-> q, seen |-> FALSE] /\ y = [op |-> "summary", arg |-> None, seen |-> FALSE]
  OBVIOUS
<1>3. IsCall(x) /\ x.op = "feed" /\ x.arg = q /\ IsCall(y) /\ y.op = "summary"
  BY ZenonT(20) DEF IsCall
<1>4. calls' = {c \in calls : c.op # "feed" /\ (append \/ c.op # "summary")}
                    \cup {x} \cup IF append THEN {} ELSE {y}
  BY ZenonT(20) DEF Feed!LoadNoticeFeed, Feed!Call
<1>5. /\ \A c \in calls' : (c \in calls /\ c.op # "feed") \/ c = x \/ (c = y /\ ~append)
      /\ \A c \in calls : c.op = "resolve" => c \in calls'
  BY <1>4, ZenonT(20)
<1>6. Proper' /\ \A c \in calls' : c.op = "feed" => c = x
  BY <1>1, <1>3, <1>5, ZenonT(20) DEF Proper
<1>7. ~append => ~Asked("resolve")
  <2>1. ASSUME ~append, NEW c \in calls, c.op = "resolve" PROVE FALSE
    <3>1. Loaded(view.feed)
      BY <1>1, <2>1, ZenonT(20) DEF FeedInv, FeedShape, Resolves
    <3>2. view.feed # None
      BY <3>1, LoadedIsSomething, ZenonT(20) DEF FeedInv, FeedShape
    <3>3. QED
      BY <2>1, <3>2, Zenon
  <2>2. QED
    BY <2>1, ZenonT(20) DEF Asked
<1>8. AsksNotice(x)
  <2>1. CASE append
    <3>1. Loaded(view.feed) /\ q = [skip |-> view.feed.nextSkip, asOf |-> view.feed.asOf]
      BY <1>1, <2>1, ZenonT(20) DEF Feed!Asked
    <3>2. QED
      BY <1>3, <3>1, Zenon DEF AsksNotice
  <2>2. CASE ~append
    <3>1. q = Feed!First
      BY <2>2, ZenonT(20) DEF Feed!Asked
    <3>2. QED
      BY <1>3, <1>7, <2>2, <3>1, Zenon DEF AsksNotice
  <2>3. QED
    BY <2>1, <2>2, Zenon
<1>9. Asked("summary")' /\ Asked("resolve") => Asked("summary")
  <2>1. append => \A c \in calls' : c.op = "summary" => c \in calls
    BY <1>3, <1>5, ZenonT(20)
  <2>2. QED
    BY <1>7, <2>1, ZenonT(20) DEF Asked
<1>10. \A c : c.op = "resolve" => (c \in calls' <=> c \in calls)
  BY <1>3, <1>5, ZenonT(20)
<1>11. IsSummary(view'.summary)
  BY <1>2, ZenonT(20) DEF FeedInv, FeedShape
<1>12. Single("feed")'
  BY <1>6, ZenonT(20) DEF Single
<1>13. QED
  BY <1>2, <1>6, <1>8, <1>9, <1>10, <1>11, <1>12, FeedKept, ZenonT(20)

\* Totals are asked for.
LEMMA TotalsAsked ==
  ASSUME FeedInv, Feed!LoadNoticeSummary
  PROVE  FeedInv'
<1>1. IsFeed(view) /\ Proper /\ Single("feed") /\ IsSummary(view.summary)
  BY ZenonT(20) DEF FeedInv, FeedShape
<1>2. Feed!Waiting("resolve") <=> Asked("resolve")
  BY ZenonT(20) DEF Feed!Waiting, Feed!Under, Asked
<1> PICK b : b = (view.crossed \/ Feed!Waiting("resolve"))
  OBVIOUS
<1>3. b \in BOOLEAN /\ (view.crossed => b) /\ (Asked("resolve") => b)
  BY <1>2, ZenonT(20)
<1>4. view' = [view EXCEPT !.summaryError = FALSE, !.crossed = b] /\ world' = world
  BY ZenonT(20) DEF Feed!LoadNoticeSummary
<1>5. /\ IsFeed(view') /\ view'.feed = view.feed /\ view'.hasMore = view.hasMore
      /\ view'.resolvingRow = view.resolvingRow /\ view'.lost = view.lost
      /\ view'.crossed = b /\ view'.summary = view.summary /\ view'.pageLoading = view.pageLoading
  BY <1>1, <1>3, <1>4, ZenonT(20) DEF IsFeed
<1> PICK x : x = [op |-> "summary", arg |-> None, seen |-> FALSE]
  OBVIOUS
<1>6. IsCall(x) /\ x.op = "summary"
  BY ZenonT(20) DEF IsCall
<1>7. calls' = (calls \ {c \in calls : c.op = x.op}) \cup {x}
  BY ZenonT(20) DEF Feed!LoadNoticeSummary, Feed!Switch, Feed!Under, Feed!Call
<1>8. Proper'
  BY <1>1, <1>7, Switched, ZenonT(20)
<1>9. \A c : c.op # "summary" => (c \in calls' <=> c \in calls)
  BY <1>6, <1>7, ZenonT(20)
<1>10. Single("feed")' /\ (\A c : c.op = "resolve" => (c \in calls' <=> c \in calls))
  BY <1>1, <1>9, ZenonT(20) DEF Single
<1>11. \A c \in calls' : c.op = "feed" => (c \in calls \/ AsksNotice(c)) /\ view'.pageLoading
  BY <1>5, <1>9, ZenonT(20) DEF FeedInv, FeedShape
<1>12. QED
  BY <1>1, <1>3, <1>4, <1>5, <1>8, <1>10, <1>11, FeedKept, ZenonT(20)

\* Reads that fail, or whose refresh does.
LEMMA FeedFails ==
  ASSUME FeedInv, Feed!FailFeed \/ Feed!QuietFeed \/ Feed!FailSummary \/ Feed!QuietSummary
  PROVE  FeedInv'
<1>1. IsFeed(view) /\ IsSummary(view.summary)
  BY ZenonT(20) DEF FeedInv, FeedShape
<1>2. PICK c \in calls :
         /\ calls' = calls \ {c} /\ world' = world
         /\ \/ c.op = "feed" /\ view' = [view EXCEPT !.pageLoading = FALSE, !.loadError = TRUE]
            \/ c.op = "feed" /\ view' = [view EXCEPT !.pageLoading = FALSE]
            \/ c.op = "summary" /\ view' = [view EXCEPT !.summaryError = TRUE]
            \/ c.op = "summary" /\ view' = view
  BY ZenonT(20) DEF Feed!FailFeed, Feed!QuietFeed, Feed!FailSummary, Feed!QuietSummary, Feed!Under,
                    Feed!Ends, Feed!EndsQuietly
<1>3. /\ IsFeed(view') /\ view'.feed = view.feed /\ view'.hasMore = view.hasMore
      /\ view'.resolvingRow = view.resolvingRow /\ view'.lost = view.lost
      /\ view'.crossed = view.crossed /\ view'.summary = view.summary
      /\ c.op = "summary" => view'.pageLoading = view.pageLoading
  BY <1>1, <1>2, ZenonT(20) DEF IsFeed
<1>4. c.op \in {"feed", "summary"}
  BY <1>2, ZenonT(20)
<1>5. /\ Proper' /\ Single("feed")'
      /\ \A d : d.op = "resolve" => (d \in calls' <=> d \in calls)
      /\ Asked("summary")' /\ Asked("resolve") => Asked("summary")
      /\ c.op = "feed" => ~Asked("feed")'
  BY <1>2, <1>4, FeedReadEnds, ZenonT(20)
<1>6. \A d \in calls' : d.op = "feed" => d \in calls /\ view'.pageLoading
  BY <1>2, <1>3, <1>5, ZenonT(20) DEF Asked, FeedInv, FeedShape
<1>7. QED
  BY <1>1, <1>2, <1>3, <1>5, <1>6, FeedKept, ZenonT(20)

\* The totals come: while no resolution is under way they count what is shown.
LEMMA TotalsShown ==
  ASSUME FeedInv, Feed!ReceiveSummary
  PROVE  FeedInv'
<1>1. /\ IsFeed(view) /\ world \in [now : Seq(BOOLEAN), settled : Seq(BOOLEAN)]
      /\ Len(world.settled) <= Len(world.now)
      /\ Asked("summary") /\ Asked("resolve") => view.crossed
  BY ZenonT(20) DEF FeedInv, FeedShape
<1>2. PICK c \in calls, s \in {world.now, world.settled} :
         /\ c.op = "summary" /\ world' = world
         /\ calls' = calls \ {c} \/ calls' = (calls \ {c}) \cup {[c EXCEPT !.seen = TRUE]}
         /\ view' = [view EXCEPT !.summary = [pending |-> Feed!Unresolved(s, Len(s)), upTo |-> Len(s)]]
  BY ZenonT(20) DEF Feed!ReceiveSummary, Feed!Under, Feed!Fresh, Feed!Shows, Feed!Ends, Feed!Previews
<1>3. s \in Seq(BOOLEAN) /\ Len(s) \in Nat /\ Len(s) <= Len(world.now)
  <2>1. world.now \in Seq(BOOLEAN) /\ world.settled \in Seq(BOOLEAN)
    BY <1>1, ZenonT(20)
  <2>2. s = world.now \/ s = world.settled
    BY Zenon
  <2>3. QED
    BY <1>1, <2>1, <2>2, SMT
<1> PICK n, m : n = Len(s) /\ m = Feed!Unresolved(s, Len(s))
  OBVIOUS
<1>4. n \in Nat /\ m \in Nat /\ m \in Int
  <2>1. n \in Nat /\ m \in Nat
    BY <1>3, UnresolvedNumber, ZenonT(20)
  <2>2. QED
    BY <2>1, SMT
<1>5. /\ IsFeed(view') /\ view'.feed = view.feed /\ view'.hasMore = view.hasMore
      /\ view'.resolvingRow = view.resolvingRow /\ view'.lost = view.lost
      /\ view'.crossed = view.crossed /\ view'.summary = [pending |-> m, upTo |-> n]
      /\ view'.pageLoading = view.pageLoading
  BY <1>1, <1>2, ZenonT(20) DEF IsFeed
<1>6. c.op \in {"feed", "summary"}
  BY <1>2, ZenonT(20)
<1>7. /\ Proper' /\ Single("feed")'
      /\ \A d : d.op = "resolve" => (d \in calls' <=> d \in calls)
      /\ Asked("summary")' /\ Asked("resolve") => Asked("summary")
      /\ \A d \in calls' : d \in calls \/ d.op = c.op
  BY <1>2, <1>6, FeedReadEnds, ZenonT(20)
<1>8. \A d \in calls' : d.op = "feed" => d \in calls /\ view'.pageLoading
  BY <1>2, <1>5, <1>7, ZenonT(20) DEF FeedInv, FeedShape
<1>9. IsSummary(view'.summary)
  <2>1. view'.summary \in [pending : Int, upTo : Nat]
    BY <1>4, <1>5, SMT
  <2>2. QED
    BY <2>1, Zenon DEF IsSummary
<1>10. ASSUME ~view.lost, ~view'.crossed PROVE m = Feed!Unresolved(Before, n)
  <2>1. ~Asked("resolve")
    BY <1>1, <1>2, <1>5, <1>10, ZenonT(20) DEF Asked
  <2>2. \A j \in 1..Len(world.now) : Before[j] = world.now[j]
    BY <2>1, BeforeIsNow, Zenon
  <2>3. FeedTruth
    BY <1>10, Zenon DEF FeedInv
  <2>4. \A j \in 1..Len(s) : s[j] = Before[j]
    <3>1. 1..Len(s) \subseteq 1..Len(world.now)
      <4>1. world.now \in Seq(BOOLEAN)
        BY <1>1, ZenonT(20)
      <4>2. QED
        BY <1>3, <4>1, SMT
    <3>2. CASE s = world.now
      BY <2>2, <3>2, ZenonT(20)
    <3>3. CASE s = world.settled
      BY <2>3, <3>3, ZenonT(20) DEF FeedTruth
    <3>4. QED
      BY <3>2, <3>3, Zenon
  <2>5. QED
    BY <1>3, <2>4, SameUnresolved, ZenonT(20)
<1>11. view'.summary.upTo <= Len(world.now) /\ view'.summary.upTo = n /\ view'.summary.pending = m
  <2>1. n <= Len(world.now)
    BY <1>3, Zenon
  <2>2. view'.summary.upTo = n /\ view'.summary.pending = m
    BY <1>5, SMT
  <2>3. QED
    BY <2>1, <2>2, Zenon
<1>12. QED
  BY <1>2, <1>5, <1>7, <1>8, <1>9, <1>10, <1>11, FeedKept, ZenonT(20)

\* A sync puts a notice before the others: those there were stay as they are.
LEMMA FeedSynced ==
  ASSUME FeedInv, Feed!Sync
  PROVE  FeedInv'
<1> PICK now, settled : now = world.now /\ settled = world.settled
  OBVIOUS
<1>1. /\ world \in [now : Seq(BOOLEAN), settled : Seq(BOOLEAN)]
      /\ now \in Seq(BOOLEAN) /\ settled \in Seq(BOOLEAN)
      /\ Len(settled) <= Len(now) /\ Len(now) < MaxNotices
  BY ZenonT(20) DEF FeedInv, FeedShape, Feed!Sync
<1>2. /\ view' = view /\ calls' = calls
      /\ world' = [world EXCEPT !.now = Append(now, FALSE)]
  BY ZenonT(20) DEF Feed!Sync
<1> PICK n : n = Append(now, FALSE)
  OBVIOUS
<1>3. /\ n \in Seq(BOOLEAN) /\ Len(n) = Len(now) + 1 /\ Len(now) \in Nat /\ Len(settled) \in Nat
      /\ \A j \in 1..Len(now) : n[j] = now[j]
  BY <1>1, SMT
<1>4. /\ world' = [now |-> n, settled |-> settled]
      /\ world'.now = n /\ world'.settled = settled
  BY <1>1, <1>2, ZenonT(20)
<1>5. /\ world' \in [now : Seq(BOOLEAN), settled : Seq(BOOLEAN)]
  BY <1>1, <1>3, <1>4, ZenonT(20)
<1>6. /\ 1..Len(now) \subseteq 1..Len(n) /\ 1..Len(settled) \subseteq 1..Len(now)
      /\ Len(settled) <= Len(n) /\ Len(n) <= MaxNotices
  BY <1>1, <1>3, NoticesAssumption, SMT
<1>7. \A j : Flipped(j)' <=> Flipped(j)
  BY <1>2, ZenonT(20) DEF Flipped
<1>8. \A j \in 1..Len(now) : Before'[j] = Before[j]
  BY <1>3, <1>4, <1>6, <1>7, ZenonT(20) DEF Before
<1>9. \A f : Loaded(f) => Loaded(f)'
  BY <1>4, <1>6, ZenonT(20) DEF Loaded
<1>10. \A op : (Asked(op)' <=> Asked(op)) /\ (Single(op) => Single(op)')
  BY <1>2, ZenonT(20) DEF Asked, Single
<1>11. Loaded(view.feed) => Loaded(view.feed)'
  BY <1>2, <1>9, ZenonT(20)
<1>12. /\ \A c : AsksNotice(c) => AsksNotice(c)'
       /\ \A c : Resolves(c) => Resolves(c)'
  BY <1>2, <1>10, <1>11, ZenonT(20) DEF AsksNotice, Resolves
<1>13. FeedShape'
  <2>1. Proper'
    BY <1>2, ZenonT(20) DEF FeedInv, FeedShape, Proper
  <2>2. IsFeed(view') /\ IsSummary(view'.summary)
    BY <1>2, ZenonT(20) DEF FeedInv, FeedShape
  <2>3. \/ view'.feed = None /\ ~view'.hasMore
        \/ Loaded(view.feed)' /\ (view'.hasMore <=> view'.feed.nextSkip < view'.feed.asOf)
    BY <1>2, <1>11, ZenonT(20) DEF FeedInv, FeedShape
  <2>4. /\ \A c \in calls' : c.op = "feed" => AsksNotice(c)' /\ view'.pageLoading
        /\ \A c \in calls' : c.op = "resolve" => Resolves(c)'
        /\ Asked("summary")' /\ Asked("resolve")' => view'.crossed
        /\ Single("feed")' /\ Single("resolve")'
    BY <1>2, <1>10, <1>12, ZenonT(20) DEF FeedInv, FeedShape
  <2>5. Len(world'.settled) <= Len(world'.now) /\ Len(world'.now) <= MaxNotices
    BY <1>4, <1>6, Zenon
  <2>6. QED
    BY <1>5, <2>1, <2>2, <2>3, <2>4, <2>5, ZenonT(20) DEF FeedShape
<1>14. ASSUME ~view'.lost PROVE FeedTruth'
  <2>1. FeedTruth
    BY <1>2, <1>14, ZenonT(20) DEF FeedInv
  <2>2. \A j \in 1..Len(world'.settled) : world'.settled[j] = Before'[j]
    BY <1>4, <1>6, <1>8, <2>1, ZenonT(20) DEF FeedTruth
  <2>3. view'.feed # None => \A k \in DOMAIN view'.feed.items : view'.feed.items[k] = Before'[k]
    <3>1. ASSUME view.feed # None, NEW k \in DOMAIN view.feed.items PROVE view.feed.items[k] = Before'[k]
      <4>1. Loaded(view.feed)
        BY <3>1, ZenonT(20) DEF FeedInv, FeedShape
      <4>2. k \in 1..Len(now)
        BY <1>1, <4>1, LoadedIsSomething, ZenonT(20) DEF FeedInv, FeedShape
      <4>3. QED
        BY <1>8, <2>1, <3>1, <4>2, ZenonT(20) DEF FeedTruth
    <3>2. QED
      BY <1>2, <3>1, ZenonT(20)
  <2>4. \A c \in calls' : c.op = "resolve" => c.arg.resolved = ~Before'[c.arg.key]
    <3>1. ASSUME NEW c \in calls, c.op = "resolve" PROVE c.arg.resolved = ~Before'[c.arg.key]
      <4>1. Loaded(view.feed) /\ c.arg.key \in DOMAIN view.feed.items
        BY <3>1, ZenonT(20) DEF FeedInv, FeedShape, Resolves
      <4>2. c.arg.key \in 1..Len(now)
        BY <1>1, <4>1, LoadedIsSomething, ZenonT(20) DEF FeedInv, FeedShape
      <4>3. QED
        BY <1>8, <2>1, <3>1, <4>2, ZenonT(20) DEF FeedTruth
    <3>2. QED
      BY <1>2, <3>1, ZenonT(20)
  <2>5. ASSUME view'.summary # None, ~view'.crossed
        PROVE  /\ view'.summary.upTo <= Len(world'.now)
               /\ view'.summary.pending = Feed!Unresolved(Before', view'.summary.upTo)
    <3> PICK u : u = view.summary.upTo
      OBVIOUS
    <3>1. /\ u <= Len(now) /\ view.summary.pending = Feed!Unresolved(Before, u)
      BY <1>2, <2>1, <2>5, ZenonT(20) DEF FeedTruth
    <3>2. u \in Nat
      BY <1>2, <2>5, ZenonT(20) DEF FeedInv, FeedShape, IsSummary
    <3>3. u <= Len(n) /\ 1..u \subseteq 1..Len(now)
      BY <1>3, <3>1, <3>2, SMT
    <3>4. Feed!Unresolved(Before', u) = Feed!Unresolved(Before, u)
      <4> PICK s, t : s = Before /\ t = Before'
        OBVIOUS
      <4>1. \A k \in 1..u : s[k] = t[k]
        BY <1>8, <3>3, ZenonT(20)
      <4>2. Feed!Unresolved(s, u) = Feed!Unresolved(t, u)
        BY <3>2, <4>1, SameUnresolved, Zenon
      <4>3. QED
        BY <4>2, Zenon
    <3>5. QED
      BY <1>2, <1>4, <3>1, <3>3, <3>4, Zenon
  <2>6. Feed!Unresolved(Before, view.summary.upTo)' = Feed!Unresolved(Before', view'.summary.upTo)
    BY Zenon DEF Feed!Unresolved
  <2>7. QED
    BY <2>2, <2>3, <2>4, <2>5, <2>6, ZenonT(20) DEF FeedTruth
<1>15. QED
  BY <1>13, <1>14, Zenon DEF FeedInv

\* The notice after n - 1 others, under the cutoff a, is put on display by c.
NoticeShown(c, a, n, items) ==
    /\ c \in calls /\ c.op = "feed"
    /\ calls' = calls \ {c} \/ calls' = (calls \ {c}) \cup {[c EXCEPT !.seen = TRUE]}
    /\ \/ c.arg = Feed!First /\ ~Asked("resolve")
       \/ calls' = calls \ {c} /\ DOMAIN view.feed.items \subseteq (a - n + 1)..a
    /\ IsFeed(view')
    /\ view'.summary = view.summary /\ view'.crossed = view.crossed /\ view'.lost = view.lost
    /\ view'.resolvingRow = view.resolvingRow
    /\ view'.pageLoading <=> \E d \in calls' : d.op = "feed"
    /\ view'.feed = [asOf |-> a, nextSkip |-> n, items |-> items]
    /\ view'.hasMore <=> n < a
    /\ world' = world
    /\ a \in 1..Len(world.now) /\ n \in 1..Len(world.now) /\ n <= a
    /\ items \in [(a - n + 1)..a -> BOOLEAN]
    /\ ~view.lost => \A k \in (a - n + 1)..a : items[k] = Before[k]

\* What was loaded stays, and nothing of it is repeated.
LEMMA FeedShown ==
  ASSUME FeedInv, NEW c, NEW a, NEW n, NEW items, NoticeShown(c, a, n, items)
  PROVE  FeedInv'
<1>0. /\ c \in calls /\ c.op = "feed"
      /\ calls' = calls \ {c} \/ calls' = (calls \ {c}) \cup {[c EXCEPT !.seen = TRUE]}
      /\ \/ c.arg = Feed!First /\ ~Asked("resolve")
         \/ calls' = calls \ {c} /\ DOMAIN view.feed.items \subseteq (a - n + 1)..a
      /\ IsFeed(view')
      /\ view'.summary = view.summary /\ view'.crossed = view.crossed /\ view'.lost = view.lost
      /\ view'.resolvingRow = view.resolvingRow
      /\ view'.pageLoading <=> \E d \in calls' : d.op = "feed"
      /\ view'.feed = [asOf |-> a, nextSkip |-> n, items |-> items]
      /\ view'.hasMore <=> n < a
      /\ world' = world
      /\ a \in 1..Len(world.now) /\ n \in 1..Len(world.now) /\ n <= a
      /\ items \in [(a - n + 1)..a -> BOOLEAN]
      /\ ~view.lost => \A k \in (a - n + 1)..a : items[k] = Before[k]
  BY Zenon DEF NoticeShown
<1> PICK f : f = [asOf |-> a, nextSkip |-> n, items |-> items]
  OBVIOUS
<1>1. view'.feed = f /\ f.asOf = a /\ f.nextSkip = n /\ f.items = items /\ DOMAIN f.items = (a - n + 1)..a
  BY <1>0, ZenonT(20)
<1>2. /\ Proper' /\ Single("feed")'
      /\ \A d : d.op = "resolve" => (d \in calls' <=> d \in calls)
      /\ Asked("summary")' /\ Asked("resolve") => Asked("summary")
      /\ \A d \in calls' : d \in calls \/ (d.op = c.op /\ d.arg = c.arg)
      /\ calls' = calls \ {c} => ~Asked("feed")'
  BY <1>0, FeedReadEnds, ZenonT(20)
<1>3. Before' = Before /\ (Asked("resolve")' <=> Asked("resolve"))
  <2>1. Before' = Before
    BY <1>0, <1>2, BeforeStays, ZenonT(20)
  <2>2. QED
    BY <1>0, <1>2, <2>1, ZenonT(20) DEF Asked
<1>4. Loaded(view.feed)'
  <2>1. f \in [asOf : 1..Len(world.now), nextSkip : 1..Len(world.now), items : {f.items}]
    BY <1>0, <1>1, ZenonT(20)
  <2>2. QED
    BY <1>0, <1>1, <2>1, ZenonT(20) DEF Loaded
<1>5. \A r \in calls' : r.op = "resolve" => Resolves(r)'
  <2>1. ASSUME NEW r \in calls', r.op = "resolve" PROVE Resolves(r)'
    <3>1. r \in calls /\ Resolves(r)
      BY <1>0, <1>2, <2>1, ZenonT(20) DEF FeedInv, FeedShape
    <3>2. Asked("resolve")
      BY <1>0, <2>1, <3>1, ZenonT(20) DEF Asked
    <3>3. r.arg.key \in DOMAIN f.items /\ view.resolvingRow # None /\ r.arg.resolved \in BOOLEAN
      BY <1>0, <1>1, <3>1, <3>2, ZenonT(20) DEF Resolves
    <3>4. QED
      BY <1>0, <1>1, <1>4, <3>3, ZenonT(20) DEF Resolves
  <2>2. QED
    BY <1>0, <2>1, Zenon
<1>6. \A d \in calls' : d.op = "feed" => AsksNotice(d)' /\ view'.pageLoading
  <2>1. ASSUME NEW d \in calls', d.op = "feed" PROVE AsksNotice(d)' /\ view'.pageLoading
    <3>1. Asked("feed")' /\ view'.pageLoading
      BY <1>0, <2>1, ZenonT(20) DEF Asked
    <3>2. c.arg = Feed!First /\ ~Asked("resolve")
      BY <1>0, <1>2, <3>1, Zenon
    <3>3. d.arg = c.arg
      BY <1>0, <1>2, <2>1, ZenonT(20) DEF FeedInv, FeedShape, Single
    <3>4. QED
      BY <1>0, <1>3, <3>1, <3>2, <3>3, ZenonT(20) DEF AsksNotice
  <2>2. QED
    BY <1>0, <2>1, Zenon
<1>7. FeedShape'
  <2>1. Single("resolve")'
    BY <1>0, <1>2, ZenonT(20) DEF FeedInv, FeedShape, Single
  <2>2. Asked("summary")' /\ Asked("resolve")' => view'.crossed
    BY <1>0, <1>2, <1>3, ZenonT(20) DEF FeedInv, FeedShape
  <2>3. Loaded(view.feed)' /\ (view'.hasMore <=> view'.feed.nextSkip < view'.feed.asOf)
    BY <1>0, <1>1, <1>4, ZenonT(20)
  <2>4. IsSummary(view'.summary)
    BY <1>0, ZenonT(20) DEF FeedInv, FeedShape
  <2>5. QED
    BY <1>0, <1>2, <1>5, <1>6, <2>1, <2>2, <2>3, <2>4, ZenonT(20) DEF FeedInv, FeedShape
<1>8. ASSUME ~view'.lost PROVE FeedTruth'
  <2>1. FeedTruth
    BY <1>0, <1>8, ZenonT(20) DEF FeedInv
  <2>2. \A k \in DOMAIN view'.feed.items : view'.feed.items[k] = Before[k]
    BY <1>0, <1>1, <1>8, ZenonT(20)
  <2>3. \A r \in calls' : r.op = "resolve" => r.arg.resolved = ~Before[r.arg.key]
    BY <1>0, <1>2, <2>1, ZenonT(20) DEF FeedTruth
  <2>4. Feed!Unresolved(Before, view.summary.upTo)' = Feed!Unresolved(Before, view.summary.upTo)
    BY <1>0, <1>3, ZenonT(20) DEF Feed!Unresolved
  <2>5. QED
    BY <1>0, <1>3, <2>1, <2>2, <2>3, <2>4, ZenonT(20) DEF FeedTruth
<1>9. QED
  BY <1>7, <1>8, Zenon DEF FeedInv

\* The next notice is older by one.
LEMMA NextNotice ==
  ASSUME NEW m \in Nat, NEW a \in Nat, NEW b \in Nat, a <= m, b > 0, a - b >= 1
  PROVE  /\ b + 1 \in 1..m /\ b + 1 <= a /\ a - b = a - (b + 1) + 1
         /\ (a - (b + 1) + 1)..a = ((a - b + 1)..a) \cup {a - b} /\ a - b \notin (a - b + 1)..a
<1>1. b + 1 \in 1..m /\ b + 1 <= a /\ a - b = a - (b + 1) + 1 /\ a - b \notin (a - b + 1)..a
  BY SMT
<1>2. (a - b)..a = ((a - b + 1)..a) \cup {a - b}
  BY SMT
<1>3. QED
  BY <1>1, <1>2, Zenon

\* A page of the feed comes.
LEMMA FeedReceived ==
  ASSUME FeedInv, Feed!ReceiveFeed
  PROVE  FeedInv'
<1>1. /\ IsFeed(view) /\ world \in [now : Seq(BOOLEAN), settled : Seq(BOOLEAN)]
      /\ Len(world.settled) <= Len(world.now) /\ Len(world.now) <= MaxNotices
  BY ZenonT(20) DEF FeedInv, FeedShape
<1>2. PICK c \in Feed!Under("feed"), s \in Feed!Fresh :
        LET append == c.arg.skip > 0
            cutoff == IF c.arg.asOf = None THEN Len(s) ELSE c.arg.asOf
            key == cutoff - c.arg.skip
            old == IF append THEN view.feed.items ELSE <<>>
        IN  /\ IF append THEN Feed!Ends(c) ELSE Feed!Shows(c)
            /\ key \in 1..Len(s)
            /\ view' = [view EXCEPT
                  !.feed = [asOf |-> cutoff, nextSkip |-> c.arg.skip + 1,
                            items |-> [k \in DOMAIN old \cup {key} |->
                                          IF k = key THEN s[k] ELSE old[k]]],
                  !.hasMore = c.arg.skip + 1 < cutoff,
                  !.pageLoading = \E d \in calls' : d.op = "feed"]
            /\ UNCHANGED world
  BY Zenon DEF Feed!ReceiveFeed
<1>c. PICK cutoff : cutoff = IF c.arg.asOf = None THEN Len(s) ELSE c.arg.asOf
  OBVIOUS
<1>k. PICK key, n : key = cutoff - c.arg.skip /\ n = c.arg.skip + 1
  OBVIOUS
<1>o. PICK old : old = IF c.arg.skip > 0 THEN view.feed.items ELSE <<>>
  OBVIOUS
<1>i. PICK items : items = [k \in DOMAIN old \cup {key} |-> IF k = key THEN s[k] ELSE old[k]]
  OBVIOUS
<1>m. PICK more, loading : more = (n < cutoff) /\ loading = (\E d \in calls' : d.op = "feed")
  OBVIOUS
<1>0. c \in calls /\ c.op = "feed" /\ s \in {world.now, world.settled} /\ world' = world
  BY <1>2, Zenon DEF Feed!Under, Feed!Fresh
<1>3. /\ c.arg.skip > 0 => calls' = calls \ {c}
      /\ calls' = calls \ {c} \/ calls' = (calls \ {c}) \cup {[c EXCEPT !.seen = TRUE]}
      /\ key \in 1..Len(s)
  BY <1>c, <1>k, <1>2, Zenon DEF Feed!Shows, Feed!Ends, Feed!Previews
<1>f. PICK f : f = [asOf |-> cutoff, nextSkip |-> n, items |-> items]
  OBVIOUS
<1>4. view' = [view EXCEPT !.feed = f, !.hasMore = more, !.pageLoading = loading]
  BY <1>c, <1>k, <1>o, <1>i, <1>f, <1>2, <1>m, ZenonT(60)
<1>5. more \in BOOLEAN /\ loading \in BOOLEAN
  BY <1>m, SMT
<1>6. /\ IsFeed(view') /\ view'.feed = f
      /\ view'.hasMore = more /\ view'.pageLoading = loading
      /\ view'.summary = view.summary /\ view'.crossed = view.crossed /\ view'.lost = view.lost
      /\ view'.resolvingRow = view.resolvingRow
  <2> PICK v, w : v = view /\ w = view'
    OBVIOUS
  <2>1. IsFeed(v) /\ w = [v EXCEPT !.feed = f, !.hasMore = more, !.pageLoading = loading]
    BY <1>1, <1>4, Zenon
  <2>2. /\ IsFeed(w) /\ w.feed = f /\ w.hasMore = more /\ w.pageLoading = loading
        /\ w.summary = v.summary /\ w.crossed = v.crossed /\ w.lost = v.lost
        /\ w.resolvingRow = v.resolvingRow
    BY <1>5, <2>1, ZenonT(20) DEF IsFeed
  <2>3. QED
    BY <2>2, Zenon
<1>7. s \in Seq(BOOLEAN) /\ Len(s) \in Nat /\ 1..Len(s) \subseteq 1..Len(world.now)
  <2>1. world.now \in Seq(BOOLEAN) /\ world.settled \in Seq(BOOLEAN)
    BY <1>1, ZenonT(20)
  <2>2. s = world.now \/ s = world.settled
    BY <1>0, Zenon
  <2>3. QED
    BY <1>1, <2>1, <2>2, SMT
<1>8. key \in 1..Len(world.now) /\ s[key] \in BOOLEAN
  BY <1>3, <1>7, SMT
<1>9. CASE c.arg = Feed!First /\ ~Asked("resolve")
  <2>1. c.arg.skip = 0 /\ c.arg.asOf = None
    BY <1>9, SMT DEF Feed!First
  <2>2. cutoff = Len(s) /\ key = Len(s) /\ n = 1 /\ old = <<>>
    BY <1>c, <1>k, <1>o, <1>7, <2>1, SMT
  <2>3. items = [k \in {key} |-> s[key]]
    <3>1. DOMAIN old = {}
      BY <2>2, SMT
    <3>2. QED
      BY <1>i, <3>1, ZenonT(20)
  <2>4. /\ (key - n + 1)..key = {key} /\ n \in 1..Len(world.now) /\ n <= key
    BY <1>3, <1>7, <1>8, <2>2, SMT
  <2>5. items \in [(key - n + 1)..key -> BOOLEAN]
    BY <1>8, <2>3, <2>4, Zenon
  <2>6. ASSUME ~view.lost, NEW k \in (key - n + 1)..key PROVE items[k] = Before[k]
    <3>1. k = key /\ items[k] = s[key]
      BY <2>3, <2>4, <2>6, ZenonT(20)
    <3>2. Before[key] = world.now[key]
      BY <1>8, <1>9, BeforeIsNow, ZenonT(20)
    <3>3. CASE s = world.now
      BY <3>1, <3>2, <3>3, Zenon
    <3>4. CASE s = world.settled
      <4>1. s[key] = Before[key]
        BY <1>3, <2>6, <3>4, ZenonT(20) DEF FeedInv, FeedTruth
      <4>2. QED
        BY <3>1, <4>1, Zenon
    <3>5. QED
      BY <1>0, <3>3, <3>4, Zenon
  <2>7. /\ view'.feed = [asOf |-> key, nextSkip |-> n, items |-> items] /\ (view'.hasMore <=> n < key)
        /\ view'.pageLoading = (\E d \in calls' : d.op = "feed")
        /\ \/ c.arg = Feed!First /\ ~Asked("resolve")
           \/ calls' = calls \ {c} /\ DOMAIN view.feed.items \subseteq (key - n + 1)..key
        /\ ~view.lost => \A k \in (key - n + 1)..key : items[k] = Before[k]
    BY <1>f, <1>m, <1>6, <1>9, <2>2, <2>6, Zenon
  <2>8. NoticeShown(c, key, n, items)
    BY <1>0, <1>3, <1>6, <1>8, <2>4, <2>5, <2>7, ZenonT(20) DEF NoticeShown
  <2>9. QED
    BY <2>8, FeedShown, Zenon
<1>10. CASE Loaded(view.feed) /\ c.arg = [skip |-> view.feed.nextSkip, asOf |-> view.feed.asOf]
  <2>a. PICK a, b, is : a = view.feed.asOf /\ b = view.feed.nextSkip /\ is = view.feed.items
    OBVIOUS
  <2>1. /\ c.arg.skip = b /\ c.arg.asOf = a
        /\ a \in 1..Len(world.now) /\ b \in 1..Len(world.now) /\ b <= a
        /\ is \in [(a - b + 1)..a -> BOOLEAN]
    <3> PICK g : g = view.feed
      OBVIOUS
    <3>1. /\ g \in [asOf : 1..Len(world.now), nextSkip : 1..Len(world.now), items : {g.items}]
          /\ g.nextSkip <= g.asOf /\ g.items \in [(g.asOf - g.nextSkip + 1)..g.asOf -> BOOLEAN]
      BY <1>10, Zenon DEF Loaded
    <3>2. g.asOf = a /\ g.nextSkip = b /\ g.items = is
      BY <2>a, Zenon
    <3>3. c.arg.skip = b /\ c.arg.asOf = a
      BY <2>a, <1>10, SMT
    <3>4. QED
      BY <3>1, <3>2, <3>3, ZenonT(20)
  <2>2. a \in Nat /\ b \in Nat /\ a # None /\ b > 0 /\ Len(world.now) \in Nat
    <3>1. Len(world.now) \in Nat
      <4>1. world.now \in Seq(BOOLEAN)
        BY <1>1, ZenonT(20)
      <4>2. QED
        BY <4>1, SMT
    <3>2. QED
      BY <2>1, <3>1, NoticesAssumption, SMT
  <2>3. cutoff = a /\ old = is /\ n = b + 1 /\ key = a - b
    BY <1>c, <1>k, <1>o, <2>a, <2>1, <2>2, Zenon
  <2>4. /\ n \in 1..Len(world.now) /\ n <= a /\ key = a - n + 1
        /\ (a - n + 1)..a = ((a - b + 1)..a) \cup {key} /\ key \notin (a - b + 1)..a
    <3>m. PICK m : m = Len(world.now)
      OBVIOUS
    <3>1. n = b + 1 /\ key = a - b /\ m \in Nat /\ a \in Nat /\ b \in Nat /\ b > 0
      BY <3>m, <2>2, <2>3, Zenon
    <3>2. a - b >= 1 /\ a <= m
      <4>1. a - b \in 1..m /\ a \in 1..m
        BY <3>m, <1>8, <2>1, <3>1, Zenon
      <4>2. QED
        BY <4>1, <3>1, SMT
    <3>3. /\ b + 1 \in 1..m /\ b + 1 <= a /\ a - b = a - (b + 1) + 1
          /\ (a - (b + 1) + 1)..a = ((a - b + 1)..a) \cup {a - b} /\ a - b \notin (a - b + 1)..a
      BY <3>1, <3>2, NextNotice, SMT
    <3>4. QED
      BY <3>m, <3>1, <3>3, Zenon
  <2>5. DOMAIN is = (a - b + 1)..a /\ items = [k \in (a - n + 1)..a |-> IF k = key THEN s[key] ELSE is[k]]
    BY <1>i, <2>1, <2>3, <2>4, ZenonT(20)
  <2>6. items \in [(a - n + 1)..a -> BOOLEAN]
    BY <1>8, <2>1, <2>4, <2>5, ZenonT(20)
  <2>7. ASSUME ~view.lost, NEW k \in (a - n + 1)..a PROVE items[k] = Before[k]
    <3>1. FeedTruth /\ view.feed # None
      BY <1>1, <1>10, <2>7, LoadedIsSomething, ZenonT(20) DEF FeedInv
    <3>2. CASE k # key
      <4>1. k \in DOMAIN is /\ items[k] = is[k]
        BY <2>4, <2>5, <2>7, <3>2, ZenonT(20)
      <4>2. QED
        BY <2>a, <3>1, <4>1, ZenonT(20) DEF FeedTruth
    <3>3. CASE k = key
      <4>1. items[k] = s[key]
        BY <2>5, <2>7, <3>3, ZenonT(20)
      <4>2. ~Flipped(key)
        <5>1. ASSUME NEW r \in calls, r.op = "resolve" PROVE r.arg.key \in DOMAIN is
          BY <2>a, <5>1, ZenonT(20) DEF FeedInv, FeedShape, Resolves
        <5>2. key \notin DOMAIN is
          BY <2>4, <2>5, Zenon
        <5>3. QED
          BY <5>1, <5>2, ZenonT(20) DEF Flipped
      <4>3. Before[key] = world.now[key]
        BY <1>8, <4>2, ZenonT(20) DEF Before
      <4>4. CASE s = world.now
        BY <3>3, <4>1, <4>3, <4>4, Zenon
      <4>5. CASE s = world.settled
        <5>1. s[key] = Before[key]
          BY <1>3, <3>1, <4>5, ZenonT(20) DEF FeedTruth
        <5>2. QED
          BY <3>3, <4>1, <5>1, Zenon
      <4>6. QED
        BY <1>0, <4>4, <4>5, Zenon
    <3>4. QED
      BY <3>2, <3>3, Zenon
  <2>8. /\ view'.feed = [asOf |-> a, nextSkip |-> n, items |-> items] /\ (view'.hasMore <=> n < a)
        /\ view'.pageLoading = (\E d \in calls' : d.op = "feed")
        /\ \/ c.arg = Feed!First /\ ~Asked("resolve")
           \/ calls' = calls \ {c} /\ DOMAIN view.feed.items \subseteq (a - n + 1)..a
        /\ ~view.lost => \A k \in (a - n + 1)..a : items[k] = Before[k]
    BY <1>f, <2>a, <1>m, <2>7, <1>3, <1>6, <2>1, <2>2, <2>3, <2>4, <2>5, ZenonT(20)
  <2>9. NoticeShown(c, a, n, items)
    BY <1>0, <1>3, <1>6, <2>1, <2>4, <2>6, <2>8, ZenonT(20) DEF NoticeShown
  <2>10. QED
    BY <2>9, FeedShown, Zenon
<1>11. AsksNotice(c)
  BY <1>0, ZenonT(20) DEF FeedInv, FeedShape
<1>12. QED
  BY <1>9, <1>10, <1>11, Zenon DEF AsksNotice

\* A notice is ticked: no totals are under way any more, and no feed.
LEMMA FeedTicked ==
  ASSUME FeedInv, NEW k \in Feed!Notices, Feed!SetResolution(k)
  PROVE  FeedInv'
<1>1. /\ IsFeed(view) /\ Proper /\ world' = world
      /\ view.feed # None /\ k \in DOMAIN view.feed.items
      /\ view.resolvingRow = None /\ ~view.pageLoading
      /\ view' = [view EXCEPT !.resolvingRow = k]
  BY ZenonT(20) DEF FeedInv, FeedShape, Feed!SetResolution, Feed!MayResolve
<1>2. /\ IsFeed(view') /\ view'.resolvingRow = k
      /\ view'.feed = view.feed /\ view'.hasMore = view.hasMore /\ view'.pageLoading = view.pageLoading
      /\ view'.summary = view.summary /\ view'.crossed = view.crossed /\ view'.lost = view.lost
  BY <1>1, ZenonT(20) DEF IsFeed
<1>3. k # None
  BY NoticesAssumption, SMT DEF Feed!Notices
<1>4. Loaded(view.feed)
  BY <1>1, ZenonT(20) DEF FeedInv, FeedShape
<1>4a. Loaded(view.feed)'
  BY <1>1, <1>2, <1>4, ZenonT(20) DEF Loaded
<1>5. ~Asked("resolve")
  BY <1>1, ZenonT(20) DEF FeedInv, FeedShape, Asked, Resolves
<1>6. ~Asked("feed")
  BY <1>1, ZenonT(20) DEF FeedInv, FeedShape, Asked
<1> PICK r, q : r = ~view.feed.items[k] /\ q = [key |-> k, resolved |-> r]
  OBVIOUS
<1> PICK x : x = [op |-> "resolve", arg |-> q, seen |-> FALSE]
  OBVIOUS
<1>7. IsCall(x) /\ x.op = "resolve" /\ x.arg = q /\ ~x.seen /\ q.key = k /\ q.resolved = r /\ r \in BOOLEAN
  <2>1. r = TRUE \/ r = FALSE
    OBVIOUS
  <2>2. QED
    BY <2>1, ZenonT(20) DEF IsCall
<1>8. calls' = (calls \ {c \in calls : c.op = "summary"}) \cup {x}
  BY ZenonT(20) DEF Feed!SetResolution, Feed!Under, Feed!Call
<1>9. \A c \in calls' : (c \in calls /\ c.op # "summary" /\ c.op # "feed" /\ c.op # "resolve") \/ c = x
  BY <1>5, <1>6, <1>8, ZenonT(20) DEF Asked
<1>10. /\ Proper' /\ \A c \in calls' : c.op = "resolve" => c = x
       /\ ~Asked("feed")' /\ ~Asked("summary")'
  BY <1>1, <1>7, <1>9, ZenonT(20) DEF Proper, Asked
<1>11. Resolves(x)'
  BY <1>1, <1>2, <1>3, <1>4a, <1>7, ZenonT(20) DEF Resolves
<1>12. FeedShape'
  <2>1. Single("feed")' /\ Single("resolve")'
    BY <1>10, ZenonT(20) DEF Single, Asked
  <2>2. /\ \A c \in calls' : c.op = "feed" => AsksNotice(c)' /\ view'.pageLoading
        /\ \A c \in calls' : c.op = "resolve" => Resolves(c)'
    BY <1>10, <1>11, ZenonT(20) DEF Asked
  <2>3. Loaded(view.feed)' /\ (view'.hasMore <=> view'.feed.nextSkip < view'.feed.asOf)
    BY <1>1, <1>2, <1>4a, ZenonT(20) DEF FeedInv, FeedShape
  <2>4. QED
    BY <1>1, <1>2, <1>10, <2>1, <2>2, <2>3, ZenonT(20) DEF FeedInv, FeedShape
<1>13. Before' = Before
  <2>1. \A j : ~Flipped(j)
    BY <1>5, ZenonT(20) DEF Flipped, Asked
  <2>2. \A j : ~Flipped(j)'
    BY <1>7, <1>10, ZenonT(20) DEF Flipped
  <2>3. QED
    BY <1>1, <2>1, <2>2, ZenonT(20) DEF Before
<1>14. ASSUME ~view'.lost PROVE FeedTruth'
  <2>1. FeedTruth
    BY <1>2, <1>14, ZenonT(20) DEF FeedInv
  <2>2. r = ~Before[k]
    BY <1>1, <2>1, ZenonT(20) DEF FeedTruth
  <2>3. \A c \in calls' : c.op = "resolve" => c.arg.resolved = ~Before[c.arg.key]
    BY <1>7, <1>10, <2>2, ZenonT(20)
  <2>4. Feed!Unresolved(Before, view.summary.upTo)' = Feed!Unresolved(Before, view.summary.upTo)
    BY <1>2, <1>13, ZenonT(20) DEF Feed!Unresolved
  <2>5. QED
    BY <1>1, <1>2, <1>13, <2>1, <2>3, <2>4, ZenonT(20) DEF FeedTruth
<1>15. QED
  BY <1>12, <1>14, Zenon DEF FeedInv

\* The server executes the resolution: the notices are as before but for it.
LEMMA FeedExecuted ==
  ASSUME FeedInv, Feed!SetRecordResolution
  PROVE  FeedInv'
<1>1. PICK c \in calls :
         /\ c.op = "resolve" /\ ~c.seen /\ calls' = (calls \ {c}) \cup {[c EXCEPT !.seen = TRUE]}
         /\ world' = [world EXCEPT !.now[c.arg.key] = c.arg.resolved] /\ view' = view
  BY ZenonT(20) DEF Feed!SetRecordResolution, Feed!Under, Feed!Executes
<1> PICK k, r : k = c.arg.key /\ r = c.arg.resolved
  OBVIOUS
<1> PICK now, settled : now = world.now /\ settled = world.settled
  OBVIOUS
<1> PICK m : m = [now EXCEPT ![k] = r]
  OBVIOUS
<1>2. /\ Proper /\ Single("feed") /\ Single("resolve")
      /\ Resolves(c) /\ Loaded(view.feed)
      /\ world \in [now : Seq(BOOLEAN), settled : Seq(BOOLEAN)]
      /\ now \in Seq(BOOLEAN) /\ settled \in Seq(BOOLEAN)
      /\ Len(settled) <= Len(now) /\ Len(now) <= MaxNotices
  BY <1>1, ZenonT(20) DEF FeedInv, FeedShape, Resolves
<1>3. k \in DOMAIN view.feed.items /\ r \in BOOLEAN /\ k \in 1..Len(now)
  <2>1. k \in DOMAIN view.feed.items /\ r \in BOOLEAN
    BY <1>2, ZenonT(20) DEF Resolves
  <2>2. DOMAIN view.feed.items \subseteq 1..Len(now)
    BY <1>2, LoadedIsSomething, ZenonT(20)
  <2>3. QED
    BY <2>1, <2>2, Zenon
<1>4. /\ m \in Seq(BOOLEAN) /\ Len(m) = Len(now) /\ m[k] = r /\ \A j \in 1..Len(now) : j # k => m[j] = now[j]
  BY <1>2, <1>3, SMT
<1>5. /\ world'.now = m /\ world'.settled = settled
      /\ world' \in [now : Seq(BOOLEAN), settled : Seq(BOOLEAN)]
  <2>1. world' = [world EXCEPT !.now = m]
    BY <1>1, ZenonT(20)
  <2>2. QED
    BY <1>2, <1>4, <2>1, ZenonT(20)
<1> PICK x : x = [c EXCEPT !.seen = TRUE]
  OBVIOUS
<1>6. IsCall(x) /\ x.op = "resolve" /\ x.arg = c.arg /\ x.seen
  BY <1>1, <1>2, ZenonT(20) DEF Proper, IsCall
<1>7. calls' = (calls \ {c}) \cup {x}
  BY <1>1, Zenon
<1>8. /\ x \in calls' /\ \A d \in calls' : d.op = "resolve" => d = x
      /\ \A d : d.op # "resolve" => (d \in calls' <=> d \in calls)
      /\ Proper'
  BY <1>1, <1>2, <1>6, <1>7, ZenonT(20) DEF Proper, Single
<1>9. /\ Single("feed")' /\ Single("resolve")' /\ Asked("resolve")' /\ Asked("resolve")
      /\ Asked("summary")' <=> Asked("summary")
  BY <1>1, <1>2, <1>6, <1>8, ZenonT(20) DEF Single, Asked
<1>10. Loaded(view.feed)' /\ \A f : Loaded(f)' <=> Loaded(f)
  BY <1>1, <1>2, <1>4, <1>5, ZenonT(20) DEF Loaded
<1>11. Resolves(x)'
  BY <1>1, <1>2, <1>6, <1>10, ZenonT(20) DEF Resolves
<1>12. \A d \in calls' : d.op = "feed" => AsksNotice(d)' /\ view'.pageLoading
  <2>1. ASSUME NEW d \in calls', d.op = "feed" PROVE AsksNotice(d)' /\ view'.pageLoading
    <3>1. d \in calls /\ AsksNotice(d) /\ view.pageLoading
      BY <1>8, <2>1, ZenonT(20) DEF FeedInv, FeedShape
    <3>2. d.arg = [skip |-> view.feed.nextSkip, asOf |-> view.feed.asOf]
      BY <1>9, <3>1, ZenonT(20) DEF AsksNotice
    <3>3. QED
      BY <1>1, <1>10, <3>1, <3>2, ZenonT(20) DEF AsksNotice
  <2>2. QED
    BY <2>1, Zenon
<1>13. FeedShape'
  <2>1. \A d \in calls' : d.op = "resolve" => Resolves(d)'
    BY <1>8, <1>11, ZenonT(20)
  <2>2. IsFeed(view') /\ IsSummary(view'.summary) /\ (Asked("summary")' /\ Asked("resolve")' => view'.crossed)
    BY <1>1, <1>9, ZenonT(20) DEF FeedInv, FeedShape
  <2>3. Len(world'.settled) <= Len(world'.now) /\ Len(world'.now) <= MaxNotices
    BY <1>2, <1>4, <1>5, Zenon
  <2>4. view'.hasMore <=> view'.feed.nextSkip < view'.feed.asOf
    <3>1. view.feed # None
      BY <1>2, LoadedIsSomething, ZenonT(20)
    <3>2. QED
      BY <1>1, <3>1, ZenonT(20) DEF FeedInv, FeedShape
  <2>5. QED
    BY <1>5, <1>8, <1>9, <1>10, <1>12, <2>1, <2>2, <2>3, <2>4, ZenonT(20) DEF FeedShape
<1>14. ASSUME ~view'.lost PROVE FeedTruth'
  <2>1. FeedTruth
    BY <1>1, <1>14, ZenonT(20) DEF FeedInv
  <2>2. \A j : ~Flipped(j)
    BY <1>1, <1>2, ZenonT(20) DEF Flipped, Single
  <2>3. \A j : Flipped(j)' <=> j = k
    BY <1>6, <1>8, ZenonT(20) DEF Flipped
  <2>4. r = ~Before[k]
    BY <1>1, <2>1, ZenonT(20) DEF FeedTruth
  <2>5. Before = [j \in 1..Len(now) |-> now[j]]
    BY <2>2, ZenonT(20) DEF Before
  <2>6. Before' = [j \in 1..Len(now) |-> IF j = k THEN ~m[j] ELSE m[j]]
    BY <1>4, <1>5, <2>3, ZenonT(20) DEF Before
  <2>7. Before[k] \in BOOLEAN
    <3>1. now[k] \in BOOLEAN
      BY <1>2, <1>3, SMT
    <3>2. QED
      BY <1>3, <2>5, <3>1, ZenonT(20)
  <2>8. (~m[k]) = Before[k]
    BY <1>4, <2>4, <2>7, ZenonT(20)
  <2>9. Before' = Before
    <3>1. Before[k] = now[k]
      BY <1>3, <2>5, Zenon
    <3>2. \A j \in 1..Len(now) : (IF j = k THEN ~m[j] ELSE m[j]) = now[j]
      <4>1. (~m[k]) = now[k]
        BY <2>8, <3>1, Zenon
      <4>2. ASSUME NEW j \in 1..Len(now) PROVE (IF j = k THEN ~m[j] ELSE m[j]) = now[j]
        <5>1. CASE j = k
          BY <4>1, <5>1, Zenon
        <5>2. CASE j # k
          BY <1>4, <5>2, Zenon
        <5>3. QED
          BY <5>1, <5>2, Zenon
      <4>3. QED
        BY <4>2, Zenon
    <3>3. QED
      BY <2>5, <2>6, <3>2, SMT
  <2>10. \A d \in calls' : d.op = "resolve" => d.arg.resolved = ~Before[d.arg.key]
    BY <1>6, <1>8, <2>4, ZenonT(20)
  <2>11. Feed!Unresolved(Before, view.summary.upTo)' = Feed!Unresolved(Before, view.summary.upTo)
    BY <1>1, <2>9, ZenonT(20) DEF Feed!Unresolved
  <2>12. view'.summary # None /\ ~view'.crossed => view'.summary.upTo <= Len(world'.now)
    BY <1>1, <1>4, <1>5, <2>1, ZenonT(20) DEF FeedTruth
  <2>13. QED
    BY <1>1, <1>5, <2>1, <2>9, <2>10, <2>11, <2>12, ZenonT(20) DEF FeedTruth
<1>15. QED
  BY <1>13, <1>14, Zenon DEF FeedInv

\* The resolution is answered and totals may be asked for: nothing is resolved
\* any more, and what is loaded is what was, but for the values.
LEMMA FeedAnswered ==
  ASSUME FeedInv, NEW c \in calls, c.op = "resolve",
         \/ calls' = calls \ {c}
         \/ calls' = (calls \ ({c} \cup {d \in calls : d.op = "summary"})) \cup {Feed!Call("summary", None)},
         IsFeed(view'), view'.hasMore = view.hasMore, view'.pageLoading = view.pageLoading,
         IsSummary(view'.summary),
         NEW items \in [DOMAIN view.feed.items -> BOOLEAN],
         view'.feed = [view.feed EXCEPT !.items = items],
         world' = [world EXCEPT !.settled = world.now]
  PROVE  FeedShape' /\ Before' = [j \in 1..Len(world.now) |-> world.now[j]] /\ ~Asked("resolve")'
<1>1. /\ Proper /\ Single("feed") /\ Single("resolve") /\ Loaded(view.feed)
      /\ world \in [now : Seq(BOOLEAN), settled : Seq(BOOLEAN)]
      /\ Len(world.now) <= MaxNotices /\ view.feed # None
      /\ view.hasMore <=> view.feed.nextSkip < view.feed.asOf
  <2>1. /\ Proper /\ Single("feed") /\ Single("resolve") /\ Loaded(view.feed)
        /\ world \in [now : Seq(BOOLEAN), settled : Seq(BOOLEAN)] /\ Len(world.now) <= MaxNotices
    BY ZenonT(20) DEF FeedInv, FeedShape, Resolves
  <2>2. world.now \in Seq(BOOLEAN)
    BY <2>1, ZenonT(20)
  <2>3. view.feed # None
    BY <2>1, <2>2, LoadedIsSomething, ZenonT(20)
  <2>4. QED
    BY <2>1, <2>3, ZenonT(20) DEF FeedInv, FeedShape
<1>2. /\ world'.now = world.now /\ world'.settled = world.now
      /\ world' \in [now : Seq(BOOLEAN), settled : Seq(BOOLEAN)]
  BY <1>1, ZenonT(20)
<1> PICK y : y = [op |-> "summary", arg |-> None, seen |-> FALSE]
  OBVIOUS
<1>3. IsCall(y) /\ y.op = "summary" /\ y = Feed!Call("summary", None)
  BY ZenonT(20) DEF IsCall, Feed!Call
<1>4. \A d \in calls' : (d \in calls /\ d # c) \/ d = y
  BY <1>3, ZenonT(20)
<1>5. Proper' /\ Single("feed")' /\ Single("resolve")' /\ ~Asked("resolve")'
  BY <1>1, <1>3, <1>4, ZenonT(20) DEF Proper, Single, Asked
<1> PICK f, g : f = view.feed /\ g = [f EXCEPT !.items = items]
  OBVIOUS
<1>6. /\ g.asOf = f.asOf /\ g.nextSkip = f.nextSkip /\ g.items = items
      /\ g \in [asOf : 1..Len(world.now), nextSkip : 1..Len(world.now), items : {g.items}]
      /\ f.nextSkip <= f.asOf /\ DOMAIN f.items = (f.asOf - f.nextSkip + 1)..f.asOf
  <2>1. /\ f \in [asOf : 1..Len(world.now), nextSkip : 1..Len(world.now), items : {f.items}]
        /\ f.nextSkip <= f.asOf /\ f.items \in [(f.asOf - f.nextSkip + 1)..f.asOf -> BOOLEAN]
    BY <1>1, ZenonT(20) DEF Loaded
  <2>2. QED
    BY <2>1, ZenonT(20)
<1>7. Loaded(view.feed)'
  <2>1. view'.feed = g /\ items \in [(g.asOf - g.nextSkip + 1)..g.asOf -> BOOLEAN] /\ g.nextSkip <= g.asOf
    BY <1>6, ZenonT(20)
  <2>2. QED
    BY <1>2, <1>6, <2>1, ZenonT(20) DEF Loaded
<1>8. \A d \in calls' : d.op = "feed" => AsksNotice(d)' /\ view'.pageLoading
  <2>1. ASSUME NEW d \in calls', d.op = "feed" PROVE AsksNotice(d)' /\ view'.pageLoading
    <3>1. d \in calls /\ AsksNotice(d) /\ view.pageLoading
      BY <1>3, <1>4, <2>1, ZenonT(20) DEF FeedInv, FeedShape
    <3>2. d.arg = [skip |-> view.feed.nextSkip, asOf |-> view.feed.asOf]
      BY <3>1, ZenonT(20) DEF AsksNotice, Asked
    <3>3. view'.feed.nextSkip = view.feed.nextSkip /\ view'.feed.asOf = view.feed.asOf
      BY <1>6, Zenon
    <3>4. QED
      BY <1>7, <3>1, <3>2, <3>3, ZenonT(20) DEF AsksNotice
  <2>2. QED
    BY <2>1, Zenon
<1>9. FeedShape'
  <2>1. view'.hasMore <=> view'.feed.nextSkip < view'.feed.asOf
    BY <1>1, <1>6, Zenon
  <2>2. /\ \A d \in calls' : d.op = "resolve" => Resolves(d)'
        /\ Asked("summary")' /\ Asked("resolve")' => view'.crossed
    BY <1>5, ZenonT(20) DEF Asked
  <2>3. Len(world'.settled) <= Len(world'.now) /\ Len(world'.now) <= MaxNotices
    <3>1. Len(world.now) <= Len(world.now)
      <4>1. world.now \in Seq(BOOLEAN)
        BY <1>1, ZenonT(20)
      <4>2. QED
        BY <4>1, SMT
    <3>2. QED
      BY <1>1, <1>2, <3>1, Zenon
  <2>4. QED
    BY <1>2, <1>5, <1>7, <1>8, <2>1, <2>2, <2>3, ZenonT(20) DEF FeedShape
<1>10. \A j : ~Flipped(j)'
  BY <1>5, ZenonT(20) DEF Flipped, Asked
<1>11. Before' = [j \in 1..Len(world.now) |-> world.now[j]]
  BY <1>2, <1>10, ZenonT(20) DEF Before
<1>12. QED
  BY <1>5, <1>9, <1>11, Zenon

\* The resolution failed, or its answer was lost, and the user is told.
LEMMA FeedRefused ==
  ASSUME FeedInv, Feed!NotResolved
  PROVE  FeedInv'
<1> PICK b : b = (view.summaryError /\ view.summary # None)
  OBVIOUS
<1>1. PICK c \in calls :
         /\ c.op = "resolve"
         /\ view' = [view EXCEPT !.summaryError = b, !.resolvingRow = None, !.lost = TRUE]
         /\ \/ calls' = calls \ {c}
            \/ calls' = (calls \ ({c} \cup {d \in calls : d.op = "summary"})) \cup {Feed!Call("summary", None)}
         /\ world' = [world EXCEPT !.settled = world.now]
  BY ZenonT(20) DEF Feed!NotResolved, Feed!Under, Feed!Settle
<1>2. b \in BOOLEAN
  BY SMT
<1>3. IsFeed(view) /\ IsSummary(view.summary) /\ Loaded(view.feed)
  BY <1>1, ZenonT(20) DEF FeedInv, FeedShape, Resolves
<1>4. /\ IsFeed(view') /\ view'.feed = view.feed /\ view'.hasMore = view.hasMore /\ view'.lost
      /\ view'.pageLoading = view.pageLoading /\ view'.summary = view.summary
  BY <1>1, <1>2, <1>3, ZenonT(20) DEF IsFeed
<1> PICK items : items = view.feed.items
  OBVIOUS
<1>5. items \in [DOMAIN view.feed.items -> BOOLEAN] /\ view'.feed = [view.feed EXCEPT !.items = items]
  <2> PICK f : f = view.feed
    OBVIOUS
  <2>1. /\ f \in [asOf : 1..Len(world.now), nextSkip : 1..Len(world.now), items : {f.items}]
        /\ f.items \in [(f.asOf - f.nextSkip + 1)..f.asOf -> BOOLEAN]
    BY <1>3, Zenon DEF Loaded
  <2>2. f.items \in [DOMAIN f.items -> BOOLEAN] /\ f = [f EXCEPT !.items = f.items]
    BY <2>1, ZenonT(20)
  <2>3. QED
    BY <1>4, <2>2, Zenon
<1>6. FeedShape'
  BY <1>1, <1>3, <1>4, <1>5, FeedAnswered, ZenonT(20)
<1>7. QED
  BY <1>4, <1>6, ZenonT(20) DEF FeedInv

\* The resolution succeeded: notice and totals are corrected, none of them twice.
LEMMA FeedCorrected ==
  ASSUME FeedInv, Feed!Resolved
  PROVE  FeedInv'
<1>b. PICK e : e = (view.summaryError /\ view.summary # None)
  OBVIOUS
<1>1. PICK c \in calls :
         /\ c.op = "resolve" /\ c.seen
         /\ view' = [view EXCEPT !.feed.items[c.arg.key] = c.arg.resolved,
                                 !.summary = IF @ = None THEN None ELSE Feed!Corrected(@, c),
                                 !.summaryError = @ /\ view.summary # None,
                                 !.resolvingRow = None,
                                 !.crossed = \/ @
                                             \/ view.summary # None /\ view.summary.upTo < c.arg.key]
         /\ \/ calls' = calls \ {c}
            \/ calls' = (calls \ ({c} \cup {d \in calls : d.op = "summary"})) \cup {Feed!Call("summary", None)}
         /\ world' = [world EXCEPT !.settled = world.now]
  BY ZenonT(20) DEF Feed!Resolved, Feed!Under, Feed!Settle
<1>k. PICK k, r : k = c.arg.key /\ r = c.arg.resolved
  OBVIOUS
<1>f. PICK f, items : f = view.feed /\ items = [view.feed.items EXCEPT ![k] = r]
  OBVIOUS
<1>g. PICK g : g = [f EXCEPT !.items = items]
  OBVIOUS
<1>s. PICK s : s = IF view.summary = None THEN None ELSE Feed!Corrected(view.summary, c)
  OBVIOUS
<1>d. PICK crossed : crossed = (view.crossed \/ (view.summary # None /\ view.summary.upTo < k))
  OBVIOUS
<1>2. crossed \in BOOLEAN /\ e \in BOOLEAN
  BY <1>b, <1>d, SMT
<1>3. view' = [view EXCEPT !.feed = g, !.summary = s, !.summaryError = e, !.resolvingRow = None, !.crossed = crossed]
  BY <1>1, <1>b, <1>k, <1>f, <1>g, <1>s, <1>d, ZenonT(20)
<1>4. /\ IsFeed(view) /\ IsSummary(view.summary) /\ Single("resolve") /\ Resolves(c) /\ Loaded(view.feed)
      /\ world \in [now : Seq(BOOLEAN), settled : Seq(BOOLEAN)] /\ Len(world.now) <= MaxNotices
  BY <1>1, ZenonT(20) DEF FeedInv, FeedShape, Resolves
<1>5. /\ IsFeed(view') /\ view'.feed = g /\ view'.hasMore = view.hasMore /\ view'.lost = view.lost
      /\ view'.pageLoading = view.pageLoading /\ view'.summary = s /\ view'.crossed = crossed
  <2> PICK v, w : v = [view EXCEPT !.feed = g, !.summary = s, !.summaryError = e] /\ w = view'
    OBVIOUS
  <2>1. w = [v EXCEPT !.resolvingRow = None, !.crossed = crossed]
    BY <1>3, Zenon
  <2>2. /\ IsFeed(v) /\ v.feed = g /\ v.hasMore = view.hasMore /\ v.lost = view.lost
        /\ v.pageLoading = view.pageLoading /\ v.summary = s
    BY <1>2, <1>4, ZenonT(20) DEF IsFeed
  <2>3. /\ IsFeed(w) /\ w.feed = g /\ w.hasMore = view.hasMore /\ w.lost = view.lost
        /\ w.pageLoading = view.pageLoading /\ w.summary = s /\ w.crossed = crossed
    BY <1>2, <2>1, <2>2, ZenonT(20) DEF IsFeed
  <2>4. QED
    BY <2>3, Zenon
<1>6. /\ world.now \in Seq(BOOLEAN) /\ f # None
      /\ DOMAIN f.items \subseteq 1..Len(world.now) /\ \A j \in DOMAIN f.items : f.items[j] \in BOOLEAN
      /\ f.items = [j \in DOMAIN f.items |-> f.items[j]]
  <2>1. world.now \in Seq(BOOLEAN)
    BY <1>4, ZenonT(20)
  <2>2. Loaded(f)
    BY <1>4, <1>f, Zenon
  <2>3. QED
    BY <1>4, <2>1, <2>2, LoadedIsSomething, ZenonT(20)
<1>7. k \in DOMAIN f.items /\ r \in BOOLEAN
  BY <1>4, <1>k, <1>f, Zenon DEF Resolves
<1>8. /\ items = [f.items EXCEPT ![k] = r]
      /\ items \in [DOMAIN f.items -> BOOLEAN] /\ DOMAIN items = DOMAIN f.items /\ items[k] = r
      /\ \A j \in DOMAIN f.items : j # k => items[j] = f.items[j]
  <2>1. items = [f.items EXCEPT ![k] = r]
    BY <1>f, Zenon
  <2>2. QED
    BY <1>6, <1>7, <2>1, ZenonT(20)
<1>9. /\ IsSummary(s)
      /\ view.summary # None =>
            /\ s.upTo = view.summary.upTo /\ view.summary.upTo \in Nat /\ view.summary.pending \in Int
            /\ s.pending = IF r THEN view.summary.pending - 1 ELSE view.summary.pending + 1
  <2>1. CASE view.summary = None
    BY <1>s, <2>1, ZenonT(20) DEF IsSummary
  <2>2. CASE view.summary # None
    <3> PICK t : t = view.summary
      OBVIOUS
    <3>1. t \in [pending : Int, upTo : Nat]
      BY <1>4, <2>2, Zenon DEF IsSummary
    <3> PICK p : p = IF r THEN t.pending - 1 ELSE t.pending + 1
      OBVIOUS
    <3>2. t.pending \in Int /\ t.upTo \in Nat /\ p \in Int
      BY <1>7, <3>1, SMT
    <3>3. s = [t EXCEPT !.pending = p]
      BY <1>s, <1>k, <2>2, ZenonT(20) DEF Feed!Corrected
    <3>4. s \in [pending : Int, upTo : Nat] /\ s.pending = p /\ s.upTo = t.upTo
      BY <3>1, <3>2, <3>3, ZenonT(20)
    <3>5. QED
      BY <2>2, <3>2, <3>4, ZenonT(20) DEF IsSummary
  <2>3. QED
    BY <2>1, <2>2, Zenon
<1>10. FeedShape' /\ Before' = [j \in 1..Len(world.now) |-> world.now[j]] /\ ~Asked("resolve")'
  <2>1. items \in [DOMAIN view.feed.items -> BOOLEAN] /\ view'.feed = [view.feed EXCEPT !.items = items]
    BY <1>5, <1>8, <1>f, <1>g, Zenon
  <2>2. IsSummary(view'.summary)
    BY <1>5, <1>9, Zenon
  <2>3. QED
    BY <1>1, <1>5, <2>1, <2>2, FeedAnswered, ZenonT(20)
<1>11. ASSUME ~view'.lost PROVE FeedTruth'
  <2>1. FeedTruth
    BY <1>5, <1>11, ZenonT(20) DEF FeedInv
  <2>2. Flipped(k) /\ \A j : j # k => ~Flipped(j)
    BY <1>1, <1>4, <1>k, ZenonT(20) DEF Flipped, Single
  <2>3. k \in 1..Len(world.now) /\ Before[k] = ~world.now[k]
        /\ \A j \in 1..Len(world.now) : j # k => Before[j] = world.now[j]
    BY <1>6, <1>7, <2>2, ZenonT(20) DEF Before
  <2>4. r = ~Before[k]
    BY <1>1, <1>k, <2>1, ZenonT(20) DEF FeedTruth
  <2>5. world.now[k] \in BOOLEAN
    BY <1>6, <2>3, SMT
  <2>6. r = world.now[k] /\ Before[k] = ~r
    BY <1>7, <2>3, <2>4, <2>5, ZenonT(20)
  <2>7. \A j \in 1..Len(world.now) : Before'[j] = world.now[j]
    BY <1>10, ZenonT(20)
  <2>8. world'.settled = world.now /\ world'.now = world.now
    BY <1>1, <1>4, ZenonT(20)
  <2>9. g.items = items
    <3>1. f \in [asOf : 1..Len(world.now), nextSkip : 1..Len(world.now), items : {f.items}]
      BY <1>4, <1>f, Zenon DEF Loaded
    <3>2. QED
      BY <1>g, <3>1, ZenonT(20)
  <2>10. ASSUME NEW j \in DOMAIN view'.feed.items PROVE view'.feed.items[j] = Before'[j]
    <3>1. j \in DOMAIN f.items /\ view'.feed.items[j] = items[j] /\ j \in 1..Len(world.now)
      BY <1>5, <1>6, <1>8, <2>9, <2>10, Zenon
    <3>2. CASE j = k
      BY <1>8, <2>6, <2>7, <3>1, <3>2, Zenon
    <3>3. CASE j # k
      <4>1. f.items[j] = Before[j]
        BY <1>6, <1>f, <2>1, <3>1, Zenon DEF FeedTruth
      <4>2. QED
        BY <1>8, <2>3, <2>7, <3>1, <3>3, <4>1, Zenon
    <3>4. QED
      BY <3>2, <3>3, Zenon
  <2>11. ASSUME view'.summary # None, ~view'.crossed
         PROVE  /\ view'.summary.upTo <= Len(world'.now)
                /\ view'.summary.pending = Feed!Unresolved(Before', view'.summary.upTo)
    <3> PICK u, n : u = view.summary.upTo /\ n = Len(world.now)
      OBVIOUS
    <3>1. view.summary # None /\ ~view.crossed /\ ~(u < k) /\ u \in Nat
      BY <1>5, <1>9, <1>d, <1>s, <2>11, Zenon
    <3>2. u <= n /\ view.summary.pending = Feed!Unresolved(Before, u)
      BY <2>1, <3>1, Zenon DEF FeedTruth
    <3>3. n \in Nat /\ k \in 1..u /\ 1..u \subseteq 1..n
      <4>1. n \in Nat
        BY <1>6, SMT
      <4>2. k \in 1..n
        BY <2>3, Zenon
      <4>3. QED
        BY <3>1, <3>2, <4>1, <4>2, SMT
    <3>p. PICK p, q : p = Before /\ q = Before'
      OBVIOUS
    <3>4. p[k] = ~r /\ q[k] = r /\ \A j \in 1..u : j # k => q[j] = p[j]
      BY <3>p, <2>3, <2>6, <2>7, <3>3, ZenonT(20)
    <3>5. Feed!Unresolved(q, u) = IF r THEN Feed!Unresolved(p, u) - 1 ELSE Feed!Unresolved(p, u) + 1
      <4>1. OnlyTicked(p, q, u, k, r)
        BY <1>7, <3>1, <3>3, <3>4, Zenon DEF OnlyTicked
      <4>2. QED
        BY <4>1, UnresolvedCorrected, Zenon
    <3>6. s.upTo = u /\ s.pending = Feed!Unresolved(q, u)
      BY <3>p, <1>9, <3>1, <3>2, <3>5, Zenon
    <3>7. QED
      BY <3>p, <1>5, <2>8, <3>2, <3>6, Zenon
  <2>12. Feed!Unresolved(Before, view.summary.upTo)' = Feed!Unresolved(Before', view'.summary.upTo)
    BY Zenon DEF Feed!Unresolved
  <2>13. /\ \A j \in 1..Len(world'.settled) : world'.settled[j] = Before'[j]
         /\ \A d \in calls' : d.op = "resolve" => d.arg.resolved = ~Before'[d.arg.key]
    BY <1>10, <2>7, <2>8, ZenonT(20) DEF Asked
  <2>14. QED
    BY <2>10, <2>11, <2>12, <2>13, ZenonT(20) DEF FeedTruth
<1>12. QED
  BY <1>10, <1>11, Zenon DEF FeedInv

\* Every step of the page keeps the invariant.
LEMMA FeedStep ==
  ASSUME FeedInv, Feed!Next
  PROVE  FeedInv'
<1>1. CASE Feed!Sync
  BY <1>1, FeedSynced, Zenon
<1>2. CASE Feed!LoadMore
  <2>1. view.hasMore /\ Feed!LoadNoticeFeed(TRUE)
    BY <1>2, Zenon DEF Feed!LoadMore, Feed!MoreOffered
  <2>2. world.now \in Seq(BOOLEAN)
    BY ZenonT(20) DEF FeedInv, FeedShape
  <2>3. view.feed # None
    BY <2>1, <2>2, LoadedIsSomething, ZenonT(20) DEF FeedInv, FeedShape
  <2>4. QED
    BY <2>1, <2>3, FeedAsked, Zenon
<1>3. CASE Feed!RetryLoad
  <2> PICK append : append = (view.feed # None)
    OBVIOUS
  <2>1. append \in BOOLEAN /\ (append <=> view.feed # None) /\ Feed!LoadNoticeFeed(append)
    <3>1. append \in BOOLEAN
      BY SMT
    <3>2. QED
      BY <1>3, <3>1, Zenon DEF Feed!RetryLoad
  <2>2. QED
    BY <2>1, FeedAsked, Zenon
<1>4. CASE Feed!LoadNoticeSummary
  BY <1>4, TotalsAsked, Zenon
<1>5. CASE Feed!SetRecordResolution
  BY <1>5, FeedExecuted, Zenon
<1>6. CASE Feed!ReceiveFeed
  BY <1>6, FeedReceived, Zenon
<1>7. CASE Feed!FailFeed \/ Feed!QuietFeed \/ Feed!FailSummary \/ Feed!QuietSummary
  BY <1>7, FeedFails, Zenon
<1>8. CASE Feed!ReceiveSummary
  BY <1>8, TotalsShown, Zenon
<1>9. CASE Feed!Resolved
  BY <1>9, FeedCorrected, Zenon
<1>10. CASE Feed!NotResolved
  BY <1>10, FeedRefused, Zenon
<1>11. CASE \E k \in Feed!Notices : Feed!SetResolution(k)
  BY <1>11, FeedTicked, Zenon
<1>12. QED
  BY <1>1, <1>2, <1>3, <1>4, <1>5, <1>6, <1>7, <1>8, <1>9, <1>10, <1>11, Zenon
     DEF Feed!Next, Feed!Answer

\* Nothing is skipped or loaded twice.
LEMMA FeedContinuous == FeedInv => Feed!FeedHasNoGaps
<1> SUFFICES ASSUME FeedInv, view.feed # None
             PROVE  /\ DOMAIN view.feed.items = (view.feed.asOf - view.feed.nextSkip + 1)..view.feed.asOf
                    /\ view.hasMore <=> view.feed.nextSkip < view.feed.asOf
  BY Zenon DEF Feed!FeedHasNoGaps
<1>1. Loaded(view.feed) /\ (view.hasMore <=> view.feed.nextSkip < view.feed.asOf)
  BY ZenonT(20) DEF FeedInv, FeedShape
<1>2. QED
  BY <1>1, ZenonT(20) DEF Loaded

\* Once everything is answered the notices are as before nothing at all.
LEMMA FeedCounts == FeedInv => Feed!TotalsMatchNotices
<1> SUFFICES ASSUME FeedInv, calls = {}, ~view.lost
             PROVE  /\ view.feed # None =>
                          \A k \in DOMAIN view.feed.items : view.feed.items[k] = world.now[k]
                    /\ view.summary # None /\ ~view.crossed =>
                          view.summary.pending = Feed!Unresolved(world.now, view.summary.upTo)
  BY Zenon DEF Feed!TotalsMatchNotices
<1>1. FeedTruth /\ IsSummary(view.summary) /\ world.now \in Seq(BOOLEAN) /\ Len(world.now) <= MaxNotices
  BY ZenonT(20) DEF FeedInv, FeedShape
<1>2. \A j \in 1..Len(world.now) : Before[j] = world.now[j]
  <2>1. ~Asked("resolve")
    BY ZenonT(20) DEF Asked
  <2>2. QED
    BY <2>1, BeforeIsNow, Zenon
<1>3. ASSUME view.feed # None, NEW k \in DOMAIN view.feed.items
      PROVE  view.feed.items[k] = world.now[k]
  <2>1. Loaded(view.feed)
    BY <1>3, ZenonT(20) DEF FeedInv, FeedShape
  <2>2. k \in 1..Len(world.now)
    BY <1>1, <1>3, <2>1, LoadedIsSomething, ZenonT(20)
  <2>3. QED
    BY <1>1, <1>2, <1>3, <2>2, Zenon DEF FeedTruth
<1>4. ASSUME view.summary # None, ~view.crossed
      PROVE  view.summary.pending = Feed!Unresolved(world.now, view.summary.upTo)
  <2> PICK u, n : u = view.summary.upTo /\ n = Len(world.now)
    OBVIOUS
  <2>1. u <= n /\ view.summary.pending = Feed!Unresolved(Before, u)
    BY <1>1, <1>4, Zenon DEF FeedTruth
  <2>2. u \in Nat
    BY <1>1, <1>4, ZenonT(20) DEF IsSummary
  <2>3. 1..u \subseteq 1..n
    <3>1. n \in Nat
      BY <1>1, SMT
    <3>2. QED
      BY <2>1, <2>2, <3>1, SMT
  <2>4. \A k \in 1..u : Before[k] = world.now[k]
    BY <1>2, <2>3, Zenon
  <2>5. Feed!Unresolved(Before, u) = Feed!Unresolved(world.now, u)
    BY <2>2, <2>4, SameUnresolved, Zenon
  <2>6. QED
    BY <2>1, <2>5, Zenon
<1>5. QED
  BY <1>3, <1>4, Zenon

-----------------------------------------------------------------------------
(* The lists of notices, whichever is open.                                *)

NoticesInv ==
    /\ page = "records" => RowsInv
    /\ page = "feed" => FeedInv

\* The invariant holds when a page is opened.
LEMMA NoticesInit == Init => NoticesInv
<1>1. Init /\ page = "records" => Records!Init
  BY ZenonT(30) DEF Init
<1>2. Init /\ page = "feed" => Feed!Init
  BY ZenonT(30) DEF Init
<1>3. QED
  BY <1>1, <1>2, RowsInit, FeedInit, Zenon DEF NoticesInv

\* Every step keeps it.
LEMMA NoticesStep ==
  ASSUME NoticesInv, [Next]_vars
  PROVE  NoticesInv'
<1>0. page' = page
  BY SMT DEF Next, vars
<1>1. ASSUME page = "records" PROVE RowsInv'
  <2>1. RowsInv
    BY <1>1, Zenon DEF NoticesInv
  <2>2. Records!Next \/ UNCHANGED <<view, calls, world>>
    BY <1>1, ZenonT(30) DEF Next, Step, vars
  <2>3. CASE Records!Next
    BY <2>1, <2>3, RowsStep, Zenon
  <2>4. CASE UNCHANGED <<view, calls, world>>
    BY <2>1, <2>4, ZenonT(20) DEF RowsInv, IsRecords, Proper, Single, AsksRows, Beginning
  <2>5. QED
    BY <2>2, <2>3, <2>4, Zenon
<1>2. ASSUME page = "feed" PROVE FeedInv'
  <2>1. FeedInv
    BY <1>2, Zenon DEF NoticesInv
  <2>2. Feed!Next \/ UNCHANGED <<view, calls, world>>
    BY <1>2, ZenonT(30) DEF Next, Step, vars
  <2>3. CASE Feed!Next
    BY <2>1, <2>3, FeedStep, Zenon
  <2>4. CASE UNCHANGED <<view, calls, world>>
    <3>1. /\ IsFeed(view') /\ Proper' /\ Single("feed")' /\ IsSummary(view'.summary)
          /\ \A c \in calls' : c.op = "feed" => c \in calls /\ view'.pageLoading
      BY <2>1, <2>4, ZenonT(20) DEF FeedInv, FeedShape, Proper, Single
    <3>2. Asked("summary")' => Asked("summary")
      BY <2>4, ZenonT(20) DEF Asked
    <3>3. QED
      BY <2>1, <2>4, <3>1, <3>2, FeedKept, ZenonT(20)
  <2>5. QED
    BY <2>2, <2>3, <2>4, Zenon
<1>3. QED
  BY <1>0, <1>1, <1>2, Zenon DEF NoticesInv

\* The invariant of the lists of notices.
LEMMA NoticesAlways == Spec => []NoticesInv
<1>1. NoticesInv /\ [Next]_vars => NoticesInv'
  BY NoticesStep, Zenon
<1>2. QED
  BY <1>1, NoticesInit, PTL DEF Spec

\* Rows and notices are loaded step by step from the newest on, without gaps and
\* repetitions, for any number of exports, rows and notices: a page is asked for
\* behind what is loaded, and what a sync adds does not shift it.
THEOREM PagingContinues == Spec => []PagingIsContinuous
<1>1. NoticesInv => PagingIsContinuous
  BY RowsContinuous, FeedContinuous, Zenon DEF NoticesInv, PagingIsContinuous
<1>2. QED
  BY <1>1, NoticesAlways, PTL

\* The totals count every resolution exactly once, and the checkboxes show it,
\* whatever syncs, reads and resolutions cross.
THEOREM TotalsCountOnce == Spec => []TotalsMatchNotices
<1>1. NoticesInv => TotalsMatchNotices
  BY FeedCounts, Zenon DEF NoticesInv, TotalsMatchNotices
<1>2. QED
  BY <1>1, NoticesAlways, PTL
=============================================================================

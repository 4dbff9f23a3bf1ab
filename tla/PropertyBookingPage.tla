------------------------ MODULE PropertyBookingPage ------------------------
(* property-booking.component.ts: one booking for one property.            *)
EXTENDS FormPage

\* The template: the form beside the property, the failure, or "loading".
Screens == {"loading", "ready", "failed"}

TypeOK == FormType(Screens)

Init == InitForm("loading", TRUE)

\* canBook decides whether the form is shown; a failed read counts as no.
ReceiveProperty ==
    \E c \in Under("details") :
        /\ Ends(c)
        /\ \E canBook \in Open(c) \cup {FALSE} :
              view' = [view EXCEPT !.ready = IF canBook THEN "ready" ELSE "failed",
                                   !.valid = FALSE]
        /\ UNCHANGED world

\* A variant: the button is not disabled while the request is under way.
SubmitTwice ==
    /\ view.ready = "ready" /\ ~view.done /\ view.valid /\ view.told < MaxFailures
    /\ Cardinality(Under("submit")) < 2
    /\ view' = [view EXCEPT !.saving = TRUE]
    /\ Subscribe(Submitted) /\ UNCHANGED world
Submit ==
    /\ Sendable
    /\ view' = [view EXCEPT !.saving = TRUE]
    /\ Subscribe(Submitted) /\ UNCHANGED world

CreateBooking ==
    \E c \in Under("submit") :
        /\ world.open /\ Executes(c)
        /\ world' = [world EXCEPT !.stored = @ + 1] /\ UNCHANGED view

\* The page is left; a manager's badge is refreshed.
Booked ==
    \E c \in Under("submit") :
        /\ c.seen
        /\ view' = [view EXCEPT !.done = TRUE]
        /\ \E isManager \in BOOLEAN :
              calls' = (calls \ {c}) \cup IF isManager THEN {Call("count", None)} ELSE {}
        /\ UNCHANGED world

Refused ==
    \E c \in Under("submit") :
        /\ Ends(c)
        /\ view' = [view EXCEPT !.saving = FALSE, !.told = @ + 1]
        /\ UNCHANGED world

Answer == ReceiveProperty \/ Booked \/ Refused \/ ReceiveCount
Next == Others \/ Fill \/ Submit \/ CreateBooking \/ Answer

\* What is shown as under way is under way.
SpinnersTurn ==
    /\ view.ready = "loading" => Waiting("details")
    /\ view.saving /\ ~view.done => Waiting("submit")
=============================================================================

------------------------ MODULE TenantAssignmentPage ------------------------
(* tenant-assignment.component.ts: a tenant moves into one property.       *)
EXTENDS FormPage

\* The template: the form beside the property, that it is taken, or "Loading
\* property", which is all there is when the read failed, too.
Screens == {"loading", "failed", "ready", "unavailable"}

TypeOK == FormType(Screens)

Init == InitForm("loading", TRUE)

\* The form shows for an available or booked property only.
ReceiveProperty ==
    \E c \in Under("details"), free \in BOOLEAN :
        /\ free \in Open(c)
        /\ Ends(c)
        /\ view' = [view EXCEPT !.ready = IF free THEN "ready" ELSE "unavailable",
                                !.valid = FALSE]
        /\ UNCHANGED world

\* An error is not handled: "Loading property" stays.
LoseProperty ==
    \E c \in Under("details") :
        /\ Ends(c)
        /\ view' = [view EXCEPT !.ready = "failed"]
        /\ UNCHANGED world

Assign ==
    /\ Sendable
    /\ view' = [view EXCEPT !.saving = TRUE]
    /\ Subscribe(Submitted) /\ UNCHANGED world

\* Property.AssignTenant: occupied from then on.
AssignTenant ==
    \E c \in Under("submit") :
        /\ world.open /\ Executes(c)
        /\ world' = [open |-> FALSE, stored |-> world.stored + 1] /\ UNCHANGED view

Assigned ==
    \E c \in Under("submit") :
        /\ Succeeds(c)
        /\ view' = [view EXCEPT !.done = TRUE]
        /\ UNCHANGED world

Refused ==
    \E c \in Under("submit") :
        /\ Ends(c)
        /\ view' = [view EXCEPT !.saving = FALSE, !.told = @ + 1]
        /\ UNCHANGED world

Answer == ReceiveProperty \/ LoseProperty \/ Assigned \/ Refused
Next == Others \/ Fill \/ Assign \/ AssignTenant \/ Answer

\* What is shown as under way is under way, but the loading of a property that
\* could not be read.
SpinnersTurn ==
    /\ view.ready \in {"loading", "failed"} => Waiting("details") \/ view.ready = "failed"
    /\ view.saving /\ ~view.done => Waiting("submit")
=============================================================================

----------------------------- MODULE JoinUsPage -----------------------------
(* join-us.component.ts: an application to the agency, while it recruits.  *)
EXTENDS FormPage

\* The template: the form or the thanks for it, that recruitment is closed, or
\* "loading".
Screens == {"loading", "ready", "closed"}

TypeOK == FormType(Screens)

Init == InitForm("loading", TRUE)

\* The settings decide whether there is a form; an error counts as closed.
ReceiveSettings ==
    \E c \in Under("details") :
        /\ Ends(c)
        /\ \E enabled \in Open(c) \cup {FALSE} :
              view' = [view EXCEPT !.ready = IF enabled THEN "ready" ELSE "closed"]
        /\ UNCHANGED world

Submit ==
    /\ Sendable
    /\ view' = [view EXCEPT !.saving = TRUE]
    /\ Subscribe(Submitted) /\ UNCHANGED world

\* One application per applicant may be pending.
CreateApplication ==
    \E c \in Under("submit") :
        /\ world.open /\ world.stored = 0 /\ Executes(c)
        /\ world' = [world EXCEPT !.stored = @ + 1] /\ UNCHANGED view

Received ==
    \E c \in Under("submit") :
        /\ Succeeds(c)
        /\ view' = [view EXCEPT !.saving = FALSE, !.done = TRUE]
        /\ UNCHANGED world

Refused ==
    \E c \in Under("submit") :
        /\ Ends(c)
        /\ view' = [view EXCEPT !.saving = FALSE, !.told = @ + 1]
        /\ UNCHANGED world

Answer == ReceiveSettings \/ Received \/ Refused
Next == Others \/ Fill \/ Submit \/ CreateApplication \/ Answer

\* What is shown as under way is under way.
SpinnersTurn ==
    /\ view.ready = "loading" => Waiting("details")
    /\ view.saving => Waiting("submit")
=============================================================================

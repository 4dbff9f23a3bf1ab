------------------------------ MODULE FormPage ------------------------------
(***************************************************************************)
(* What the pages that are one form have in common: details are read, the  *)
(* form is filled in and sent.  The server executes it only while it is    *)
(* open for it, which others change at any time.                           *)
(***************************************************************************)
EXTENDS Page

CONSTANT MaxFailures    \* bound: failures reported to the user in one behaviour

\* ready: "loading", "ready", or what is shown in place of the form; done: the
\* form was left or replaced after a success; told: failures reported.
OpenedForm(ready) ==
    [ready |-> ready, valid |-> FALSE, saving |-> FALSE, done |-> FALSE, told |-> 0]

FormType(readiness) ==
    /\ view \in [ready : readiness, valid : BOOLEAN, saving : BOOLEAN, done : BOOLEAN,
                 told : 0..MaxFailures]
    /\ world \in [open : BOOLEAN, stored : 0..MaxFailures + 1]
    /\ \A c \in calls : c.op \in {"details", "submit", "count"}

InitForm(ready, details) ==
    /\ view = OpenedForm(ready)
    /\ world \in [open : BOOLEAN, stored : {0}]
    /\ calls = IF details THEN {Call("details", world.open)} ELSE {}

\* Others take the property, or recruitment is closed or opened.
Others == world' = [world EXCEPT !.open = ~@] /\ UNCHANGED <<view, calls>>

\* Typing makes the form valid or invalid.
Fill ==
    /\ view.ready = "ready" /\ ~view.done
    /\ view' = [view EXCEPT !.valid = ~@]
    /\ UNCHANGED <<calls, world>>

\* The form may be sent: it is on screen, and the button is not disabled.
Sendable ==
    /\ view.ready = "ready" /\ ~view.done /\ view.valid /\ ~view.saving
    /\ view.told < MaxFailures
Submitted == Call("submit", Cardinality(Under("submit")))

\* What an uncached read that began when the answer was c.arg may say.
Open(c) == {c.arg, world.open}

\* The badge of the menu is read again; nobody waits for it, errors are ignored.
ReceiveCount == \E c \in Under("count") : Ends(c) /\ UNCHANGED <<view, world>>

\* How a form looks to the user: see Submission.
Phase ==
    IF view.done THEN "done"
    ELSE IF Waiting("submit")
         THEN IF \E c \in Under("submit") : c.seen THEN "stored" ELSE "sent"
         ELSE "editing"

Form == INSTANCE Submission WITH phase <- Phase, stored <- world.stored, told <- view.told
=============================================================================

------------------------ MODULE PropertyDetailsPage ------------------------
(***************************************************************************)
(* property-details.component.ts: the public page of a property, with      *)
(* related ones to go on to and an enquiry form.  The first failed read    *)
(* ends the subscription to the address.                                   *)
(***************************************************************************)
EXTENDS FormPage

CONSTANT Houses    \* properties whose page is opened

Opened(id) ==
    [id |-> id, property |-> None, related |-> None, notFound |-> FALSE,
     valid |-> FALSE, saving |-> FALSE, done |-> FALSE, told |-> 0]

TypeOK ==
    /\ view \in [id : Houses, property : Houses \cup {None}, related : Houses \cup {None},
                 notFound : BOOLEAN, valid : BOOLEAN, saving : BOOLEAN, done : BOOLEAN,
                 told : 0..MaxFailures]
    /\ world \in [open : BOOLEAN, stored : 0..MaxFailures + 1]
    /\ \A c \in calls : c.op \in {"details", "related", "submit"}

Init ==
    \E id \in Houses :
        /\ view = Opened(id)
        /\ calls = {Call("details", id)}
        /\ world \in [open : BOOLEAN, stored : {0}]

\* A related property, or the history: the page stays and reads again, unless
\* its subscription has ended.  A variant: the old read goes on.
GoToBeside(id) ==
    /\ id # view.id
    /\ view' = [view EXCEPT !.id = id]
    /\ IF view.notFound THEN UNCHANGED calls ELSE Subscribe(Call("details", id))
    /\ UNCHANGED world
GoTo(id) ==
    /\ id # view.id
    /\ view' = [view EXCEPT !.id = id]
    /\ IF view.notFound THEN UNCHANGED calls ELSE Switch(Call("details", id))
    /\ UNCHANGED world

\* Every result asks for related properties; those reads are never dropped.
ReceiveProperty ==
    \E c \in Under("details") :
        /\ view' = [view EXCEPT !.property = c.arg]
        /\ \E rest \in {{}} \cup IF c.seen THEN {} ELSE {{[c EXCEPT !.seen = TRUE]}} :
              calls' = (calls \ {c}) \cup rest \cup {Call("related", c.arg)}
        /\ UNCHANGED world

LoseProperty ==
    \E c \in Under("details") :
        /\ Ends(c)
        /\ view' = [view EXCEPT !.property = None, !.notFound = TRUE]
        /\ UNCHANGED world

ReceiveRelated ==
    \E c \in Under("related") :
        \/ Shows(c) /\ view' = [view EXCEPT !.related = c.arg] /\ UNCHANGED world
        \/ Ends(c) /\ UNCHANGED <<view, world>>

Quiet == \E c \in Under("details") : EndsQuietly(c)

\* The template: the property with its enquiry form, else what became of it.
Screen ==
    IF view.property # None THEN "property"
    ELSE IF view.notFound THEN "not found" ELSE "loading"

Enter ==
    /\ Screen = "property" /\ ~view.done
    /\ view' = [view EXCEPT !.valid = ~@]
    /\ UNCHANGED <<calls, world>>

Submit ==
    /\ Screen = "property" /\ view.valid /\ ~view.saving /\ ~view.done
    /\ view.told < MaxFailures
    /\ view' = [view EXCEPT !.saving = TRUE]
    /\ Subscribe(Submitted) /\ UNCHANGED world

CreateEnquiry ==
    \E c \in Under("submit") :
        /\ world.open /\ Executes(c)
        /\ world' = [world EXCEPT !.stored = @ + 1] /\ UNCHANGED view

Enquired ==
    \E c \in Under("submit") :
        /\ Succeeds(c)
        /\ view' = [view EXCEPT !.done = TRUE, !.saving = FALSE]
        /\ UNCHANGED world
Refused ==
    \E c \in Under("submit") :
        /\ Ends(c)
        /\ view' = [view EXCEPT !.saving = FALSE, !.told = @ + 1]
        /\ UNCHANGED world

Answer ==
    ReceiveProperty \/ LoseProperty \/ ReceiveRelated \/ Quiet \/ Enquired \/ Refused
Next ==
    \/ Others \/ Enter \/ Submit \/ CreateEnquiry \/ Answer
    \/ \E id \in Houses : GoTo(id)

\* When the reads of the address are over, the page shows the property it
\* names, or says that it found none.
ShowsSelection == ~Waiting("details") => view.notFound \/ view.property = view.id

\* What is shown as under way is under way.
SpinnersTurn ==
    /\ Screen = "loading" => Waiting("details")
    /\ view.saving => Waiting("submit")
=============================================================================

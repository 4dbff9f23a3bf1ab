----------------------------- MODULE SettingsPage -----------------------------
(***************************************************************************)
(* settings.component.ts, the public team: a manager adds, edits and       *)
(* removes members and saves all of them at once.  A member is present or  *)
(* not, with the version of its text.                                      *)
(***************************************************************************)
EXTENDS Page

CONSTANT Members

\* The team: the members in it, and whether their text was edited.
Team == [Members -> {"absent", "as it was", "edited"}]

\* typed: the manager edited after the last save was sent.
Opened ==
    [members |-> [m \in Members |-> "absent"], saving |-> FALSE,
     typed |-> FALSE, lost |-> FALSE]

TypeOK ==
    /\ DOMAIN view = DOMAIN Opened
    /\ {view.members, world.now} \subseteq Team
    /\ \A c \in calls : c.op \in {"team", "save"}

Init ==
    /\ view = Opened
    /\ calls = {Call("team", None)}
    /\ \E t \in [Members -> {"absent", "as it was"}] : world = [now |-> t, settled |-> t]

\* Uncached; what was typed or saved before is replaced.
Receive ==
    \E c \in Under("team"), t \in Fresh :
        /\ Ends(c)
        /\ view' = [view EXCEPT !.members = t, !.typed = FALSE]
        /\ UNCHANGED world

Fail ==
    \E c \in Under("team") :
        /\ Ends(c)
        /\ view' = [view EXCEPT !.lost = TRUE]
        /\ UNCHANGED world

Type(m, text) ==
    /\ view.members[m] # text
    /\ view' = [view EXCEPT !.members[m] = text, !.typed = TRUE]
    /\ UNCHANGED <<calls, world>>
Add(m) == view.members[m] = "absent" /\ Type(m, "edited")
Edit(m) == view.members[m] = "as it was" /\ Type(m, "edited")
Remove(m) == Type(m, "absent")

\* The button is not disabled before the team was read.
Save ==
    /\ ~view.saving
    /\ view' = [view EXCEPT !.saving = TRUE, !.typed = FALSE]
    /\ Subscribe(Call("save", view.members))
    /\ UNCHANGED world

StoreTeam ==
    \E c \in Under("save") :
        /\ Executes(c)
        /\ Commit(c.arg)
        /\ UNCHANGED view

\* The answer replaces what was typed while saving.  A variant keeps the text.
SavedBeside ==
    \E c \in Under("save") :
        /\ Succeeds(c) /\ Settle
        /\ view' = [view EXCEPT !.saving = FALSE, !.typed = FALSE]
Saved ==
    \E c \in Under("save") :
        /\ Succeeds(c) /\ Settle
        /\ view' = [view EXCEPT !.members = c.arg, !.saving = FALSE, !.typed = FALSE]

NotSaved ==
    \E c \in Under("save") :
        /\ Ends(c) /\ Settle
        /\ view' = [view EXCEPT !.saving = FALSE, !.lost = TRUE]

Answer == Receive \/ Fail \/ Saved \/ NotSaved
Next ==
    \/ Save \/ StoreTeam \/ Answer
    \/ \E m \in Members : Add(m) \/ Edit(m) \/ Remove(m)

\* Unless the manager has edits to save, what the page shows is what the public
\* sees, once nothing is under way.
ShowsServer ==
    calls = {} /\ ~view.lost /\ ~view.typed => view.members = world.now

\* What is shown as under way is under way.
SpinnersTurn == view.saving => Waiting("save")
=============================================================================

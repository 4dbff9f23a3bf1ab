---------------------------- MODULE ProfilePage ----------------------------
(***************************************************************************)
(* profile.component.ts and AuthService.updateProfile: a member edits the  *)
(* personal details that the header and other pages show.                  *)
(***************************************************************************)
EXTENDS Page

CONSTANTS
    Details,     \* contents of the form
    MaxFailures  \* bound: failures reported in one behaviour

Opened(details) ==
    [user |-> details, form |-> details, dirty |-> FALSE, editing |-> FALSE,
     saving |-> FALSE, saved |-> FALSE, failed |-> FALSE, told |-> 0]

TypeOK ==
    /\ view \in [user : Details, form : Details, dirty : BOOLEAN, editing : BOOLEAN,
                 saving : BOOLEAN, saved : BOOLEAN, failed : BOOLEAN, told : 0..MaxFailures]
    /\ world \in Details
    /\ \A c \in calls : c.op = "save" /\ c.arg \in Details

Init == \E d \in Details : view = Opened(d) /\ world = d /\ calls = {}

\* The template: the details with "Edit", or the form.
Screen == IF view.editing THEN "form" ELSE "details"

Edit ==
    /\ Screen = "details"
    /\ view' = [view EXCEPT !.form = view.user, !.dirty = FALSE, !.saved = FALSE,
                            !.failed = FALSE, !.editing = TRUE]
    /\ UNCHANGED <<calls, world>>

Type(d) ==
    /\ Screen = "form"
    /\ view' = [view EXCEPT !.form = d, !.dirty = TRUE]
    /\ UNCHANGED <<calls, world>>

\* Possible while saving too: the request goes on.
Cancel ==
    /\ Screen = "form"
    /\ view' = [view EXCEPT !.form = view.user, !.dirty = FALSE, !.failed = FALSE,
                            !.editing = FALSE]
    /\ UNCHANGED <<calls, world>>

Save ==
    /\ Screen = "form" /\ view.dirty /\ ~view.saving
    /\ view.told < MaxFailures
    /\ view' = [view EXCEPT !.saving = TRUE, !.saved = FALSE, !.failed = FALSE]
    /\ Subscribe(Call("save", view.form))
    /\ UNCHANGED world

UpdateProfile ==
    \E c \in Under("save") : Executes(c) /\ world' = c.arg /\ UNCHANGED view

\* The answer is the user as stored; editing ends, whatever was typed since.  A
\* variant: the page takes the form for what was stored.
SavedFromForm ==
    \E c \in Under("save") :
        /\ Succeeds(c)
        /\ view' = [view EXCEPT !.user = view.form, !.dirty = FALSE,
                                !.saving = FALSE, !.saved = TRUE, !.editing = FALSE]
        /\ UNCHANGED world
Saved ==
    \E c \in Under("save") :
        /\ Succeeds(c)
        /\ view' = [view EXCEPT !.user = c.arg, !.form = c.arg, !.dirty = FALSE,
                                !.saving = FALSE, !.saved = TRUE, !.editing = FALSE]
        /\ UNCHANGED world

Failed ==
    \E c \in Under("save") :
        /\ Ends(c)
        /\ view' = [view EXCEPT !.saving = FALSE, !.failed = TRUE, !.told = @ + 1]
        /\ UNCHANGED world

\* 2.2 seconds after a success.
Fade ==
    /\ view.saved
    /\ view' = [view EXCEPT !.saved = FALSE]
    /\ UNCHANGED <<calls, world>>

Answer == Saved \/ Failed
Next ==
    \/ Edit \/ Cancel \/ Save \/ UpdateProfile \/ Fade \/ Answer
    \/ \E d \in Details : Type(d)

\* Unless a failure was reported, the details shown when nothing is edited or
\* under way are those the server has, whatever was typed while saving.
ShowsServer ==
    calls = {} /\ view.told = 0 =>
        /\ view.user = world
        /\ Screen = "details" => view.form = world

\* What is shown as under way is under way.
SpinnersTurn == view.saving => Waiting("save")
=============================================================================

------------------------------ MODULE BlocksPage ------------------------------
(***************************************************************************)
(* block-management.component.ts: the list of blocks and the editor for    *)
(* one, new or existing, which may be closed or opened for another block   *)
(* while a save is under way.  A block is followed by its latest version.  *)
(***************************************************************************)
EXTENDS Page

CONSTANTS
    Blocks,    \* the blocks that may exist
    NewBlock   \* the one the editor creates next

\* How far a block has got.
Versions == {"none", "as it was", "edited"}
Portfolio == [Blocks -> Versions]

\* selected: the block the editor updates, None for a new one; form: the block
\* whose data the form holds; lost: a request failed.
Opened ==
    [blocks |-> [b \in Blocks |-> "none"], editing |-> FALSE, selected |-> None, form |-> None,
     saving |-> FALSE, dialog |-> None, lost |-> FALSE]

TypeOK ==
    /\ DOMAIN view = DOMAIN Opened
    /\ {view.blocks, world.now, world.settled} \subseteq Portfolio
    /\ {view.selected, view.form, view.dialog} \subseteq Blocks \cup {None}
    /\ \A c \in calls : c.op \in {"list", "save", "delete"}

Init ==
    /\ view = Opened
    /\ calls = {Call("list", None)}
    /\ \E p \in [Blocks -> {"none", "as it was"}] :
          p[NewBlock] = "none" /\ world = [now |-> p, settled |-> p]

ReceiveList ==
    \E c \in Under("list"), p \in Fresh :
        /\ Ends(c)
        /\ view' = [view EXCEPT !.blocks = p]
        /\ UNCHANGED world

FailList ==
    \E c \in Under("list") :
        /\ Ends(c)
        /\ view' = [view EXCEPT !.lost = TRUE]
        /\ UNCHANGED world

\* The template: a card for each block, and the editor beside them.
Listed(b) == view.blocks[b] # "none"
MaySave == view.editing /\ ~view.saving

\* A variant: the block edited before stays selected.
OpenNewSelected ==
    /\ view.dialog = None
    /\ view' = [view EXCEPT !.form = None, !.editing = TRUE]
    /\ UNCHANGED <<calls, world>>
OpenNew ==
    /\ view.dialog = None
    /\ view' = [view EXCEPT !.selected = None, !.form = None, !.editing = TRUE]
    /\ UNCHANGED <<calls, world>>

Edit(b) ==
    /\ view.dialog = None /\ Listed(b)
    /\ view' = [view EXCEPT !.selected = b, !.form = b, !.editing = TRUE]
    /\ UNCHANGED <<calls, world>>

Close ==
    /\ view.editing /\ view.dialog = None
    /\ view' = [view EXCEPT !.editing = FALSE]
    /\ UNCHANGED <<calls, world>>

\* form: whose data is sent.
Save ==
    /\ MaySave /\ view.dialog = None
    /\ view' = [view EXCEPT !.saving = TRUE]
    /\ Subscribe(Call("save", [target |-> view.selected, form |-> view.form]))
    /\ UNCHANGED world

\* Block ID and name must be unique, so that a new block is created once.
StoreBlock ==
    \E c \in Under("save") :
        LET b == IF c.arg.target = None THEN NewBlock ELSE c.arg.target IN
        /\ Executes(c)
        /\ (world.now[b] = "none") = (c.arg.target = None)
        /\ Commit([world.now EXCEPT ![b] = "edited"])
        /\ UNCHANGED view

\* Closes the editor that is open now, and reads the list.
Reload(c) ==
    /\ c.seen
    /\ calls' = (calls \ {c}) \cup {Call("list", None)}
    /\ Settle
Saved ==
    \E c \in Under("save") :
        Reload(c) /\ view' = [view EXCEPT !.saving = FALSE, !.editing = FALSE]

Remove(b) ==
    /\ view.dialog = None /\ Listed(b)
    /\ view' = [view EXCEPT !.dialog = b]
    /\ UNCHANGED <<calls, world>>

Dismiss ==
    /\ view.dialog # None
    /\ view' = [view EXCEPT !.dialog = None]
    /\ UNCHANGED <<calls, world>>

Confirm ==
    /\ view.dialog # None
    /\ view' = [view EXCEPT !.dialog = None]
    /\ Subscribe(Call("delete", view.dialog))
    /\ UNCHANGED world

\* DeleteAsync refuses blocks with properties.
StoreDelete ==
    \E c \in Under("delete") :
        /\ world.now[c.arg] # "none"
        /\ Executes(c)
        /\ Commit([world.now EXCEPT ![c.arg] = "none"])
        /\ UNCHANGED view

Removed == \E c \in Under("delete") : Reload(c) /\ UNCHANGED view

NotSaved ==
    \E c \in Under("save") :
        /\ Ends(c) /\ Settle
        /\ view' = [view EXCEPT !.saving = FALSE, !.lost = TRUE]
NotRemoved ==
    \E c \in Under("delete") :
        /\ Ends(c) /\ Settle
        /\ view' = [view EXCEPT !.lost = TRUE]

Answer == ReceiveList \/ FailList \/ Saved \/ Removed \/ NotSaved \/ NotRemoved
Next ==
    \/ OpenNew \/ Close \/ Save \/ StoreBlock \/ Dismiss \/ Confirm \/ StoreDelete \/ Answer
    \/ \E b \in Blocks : Edit(b) \/ Remove(b)

\* What is sent goes to the block whose data the form was filled with, whatever
\* editor a late answer closed in between.
SavesWhatIsEdited == \A c \in Under("save") : c.arg.target = c.arg.form

\* When nothing is under way and nothing failed, the list is the server's.
ListFollowsActions == calls = {} /\ ~view.lost => view.blocks = world.now

\* What is shown as under way is under way.
SpinnersTurn == view.saving => Waiting("save")
=============================================================================

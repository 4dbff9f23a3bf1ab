------------------------ MODULE PortfolioBookingsPage ------------------------
(***************************************************************************)
(* portfolio-bookings.component.ts: the properties with active bookings.   *)
(* A manager marks their announcement as posted, or closes all bookings of *)
(* one; both change the list on screen without reading it again.           *)
(***************************************************************************)
EXTENDS Page

CONSTANT Groups     \* properties with bookings

Announcement == {"pending", "posted"}

\* groups: as shown, "closed" for one that is not listed; lost: some request was
\* answered with an error.
Opened ==
    [groups |-> [g \in Groups |-> "closed"], loading |-> TRUE,
     updatingAnnouncement |-> None, dialog |-> None, closingGroup |-> None, lost |-> FALSE]

TypeOK ==
    /\ view \in [groups : [Groups -> Announcement \cup {"closed"}], loading : BOOLEAN,
                 updatingAnnouncement : Groups \cup {None}, dialog : Groups \cup {None},
                 closingGroup : Groups \cup {None}, lost : BOOLEAN]
    /\ \A data \in {world.now, world.settled} : data \in [Groups -> Announcement \cup {"closed"}]
    /\ \A c \in calls : c.op \in {"groups", "post", "summary", "close", "badge"}

Init ==
    /\ view = Opened
    /\ calls = {Call("groups", None)}
    /\ \E data \in [Groups -> Announcement] : world = [now |-> data, settled |-> data]

ReceiveGroups ==
    \E c \in Under("groups"), data \in Fresh :
        /\ Shows(c)
        /\ view' = [view EXCEPT !.groups = data, !.loading = FALSE]
        /\ UNCHANGED world

FailGroups ==
    \E c \in Under("groups") :
        /\ Ends(c)
        /\ view' = [view EXCEPT !.loading = FALSE, !.lost = TRUE]
        /\ UNCHANGED world

Quiet == \E c \in Under("groups") : EndsQuietly(c)

-----------------------------------------------------------------------------
\* The template: the cards of the properties, once they are loaded.
OnScreen(g) == ~view.loading /\ view.groups[g] # "closed"

\* The checkbox: one announcement at a time.
SetAnnouncementPosted(g) ==
    /\ OnScreen(g) /\ view.updatingAnnouncement = None
    /\ view' = [view EXCEPT !.updatingAnnouncement = g]
    /\ Subscribe(Call("post", [group |-> g,
                     to |-> IF view.groups[g] = "posted" THEN "pending" ELSE "posted"]))
    /\ UNCHANGED world

SetBookingAnnouncement ==
    \E c \in Under("post") :
        /\ world.now[c.arg.group] # "closed"
        /\ Executes(c)
        /\ Commit([world.now EXCEPT ![c.arg.group] = c.arg.to])
        /\ UNCHANGED view

\* The count of the menu is read again before the page hears of the success.
RefreshCount ==
    \E c \in Under("post") :
        /\ c.seen
        /\ calls' = (calls \ {c}) \cup {Call("summary", c.arg)}
        /\ Settle /\ UNCHANGED view

\* The answer replaces the group if it is still listed; a variant brings back
\* one that was closed meanwhile.
PostedAnyway ==
    \E c \in Under("summary") :
        /\ Ends(c)
        /\ view' = [view EXCEPT !.groups[c.arg.group] = c.arg.to, !.updatingAnnouncement = None]
        /\ UNCHANGED world
Posted ==
    \E c \in Under("summary") :
        /\ Ends(c)
        /\ view' = [view EXCEPT !.groups[c.arg.group] = IF @ = "closed" THEN @ ELSE c.arg.to,
                                !.updatingAnnouncement = None]
        /\ UNCHANGED world

\* The change or the count failed: the same message for both.
NotPosted ==
    \E c \in Under("post") \cup Under("summary") :
        /\ Ends(c)
        /\ view' = [view EXCEPT !.updatingAnnouncement = None, !.lost = TRUE]
        /\ world' = [world EXCEPT !.settled = world.now]

-----------------------------------------------------------------------------
CloseAll(g) ==
    /\ OnScreen(g) /\ view.closingGroup = None /\ view.dialog = None
    /\ view' = [view EXCEPT !.dialog = g]
    /\ UNCHANGED <<calls, world>>

Dismiss ==
    /\ view.dialog # None
    /\ view' = [view EXCEPT !.dialog = None]
    /\ UNCHANGED <<calls, world>>

Confirm ==
    /\ view.dialog # None
    /\ view' = [view EXCEPT !.dialog = None, !.closingGroup = view.dialog]
    /\ Subscribe(Call("close", [group |-> view.dialog, to |-> "closed"]))
    /\ UNCHANGED world

CloseAllBookings ==
    \E c \in Under("close") :
        /\ world.now[c.arg.group] # "closed"
        /\ Executes(c)
        /\ Commit([world.now EXCEPT ![c.arg.group] = "closed"])
        /\ UNCHANGED view

Closed ==
    \E c \in Under("close") :
        /\ c.seen
        /\ view' = [view EXCEPT !.groups[c.arg.group] = "closed", !.closingGroup = None]
        /\ calls' = (calls \ {c}) \cup {Call("badge", None)}
        /\ Settle

NotClosed ==
    \E c \in Under("close") :
        /\ Ends(c)
        /\ view' = [view EXCEPT !.closingGroup = None, !.lost = TRUE]
        /\ Settle

\* The count after closing: errors are ignored.
ReceiveBadge == \E c \in Under("badge") : Ends(c) /\ UNCHANGED <<view, world>>

Answer ==
    \/ ReceiveGroups \/ FailGroups \/ Quiet
    \/ RefreshCount \/ Posted \/ NotPosted \/ Closed \/ NotClosed \/ ReceiveBadge
Next ==
    \/ SetBookingAnnouncement \/ Dismiss \/ Confirm \/ CloseAllBookings \/ Answer
    \/ \E g \in Groups : SetAnnouncementPosted(g) \/ CloseAll(g)

\* Unless an error was reported, the list patched on screen is the server's once
\* nothing is under way, however the answers of posting and closing cross.
ListFollowsActions == calls = {} /\ ~view.lost => view.groups = world.now

\* What is shown as under way is under way.
SpinnersTurn ==
    /\ view.loading => Waiting("groups")
    /\ view.updatingAnnouncement # None => Waiting("post") \/ Waiting("summary")
    /\ view.closingGroup # None => Waiting("close")
=============================================================================

------------------------ MODULE PropertyBookingsPage ------------------------
(***************************************************************************)
(* property-bookings.component.ts: the active bookings of one property.    *)
(* Each can be removed, or all closed at once; answers change the list and *)
(* the status shown without reading them again.                            *)
(***************************************************************************)
EXTENDS Page

CONSTANT Bookings   \* the bookings of the property

\* removing: the booking whose button is disabled; lost: an error was reported.
Opened ==
    [status |-> None, bookings |-> {}, loading |-> TRUE, dialog |-> None,
     removing |-> None, closingAll |-> FALSE, lost |-> FALSE]

All == "all"
Status == {"available", "booked", "occupied"}

TypeOK ==
    /\ view.status \in Status \cup {None} /\ view.bookings \subseteq Bookings
    /\ view.removing \in Bookings \cup {None}
    /\ {view.loading, view.closingAll, view.lost} \subseteq BOOLEAN
    /\ view.dialog \in Bookings \cup {All, None}
    /\ world \in [status : Status, bookings : SUBSET Bookings]
    /\ \A c \in calls : c.op \in {"details", "remove", "close", "badge"}

Init ==
    /\ view = Opened
    /\ calls = {Call("details", None)}
    /\ \E s \in {"booked", "occupied"} : world = [status |-> s, bookings |-> Bookings]

\* forkJoin: both answers, or an error and an empty page.  No action is possible
\* before, and nobody else changes the property in this model.
ReceiveDetails ==
    \E c \in Under("details") :
        /\ Ends(c)
        /\ view' = [view EXCEPT !.status = world.status, !.bookings = world.bookings,
                                !.loading = FALSE]
        /\ UNCHANGED world
FailDetails ==
    \E c \in Under("details") :
        /\ Ends(c)
        /\ view' = [view EXCEPT !.loading = FALSE, !.lost = TRUE]
        /\ UNCHANGED world

-----------------------------------------------------------------------------
\* The template: the property, once it was read, with its bookings if there are any.
Screen ==
    CASE view.status = None -> IF view.loading THEN "loading" ELSE "not found"
      [] view.status # None -> IF view.bookings = {} THEN "no bookings" ELSE "bookings"

\* Only the last booking a removal was confirmed for has its button disabled.
Remove(b) ==
    /\ Screen = "bookings" /\ b \in view.bookings /\ view.removing # b /\ view.dialog = None
    /\ view' = [view EXCEPT !.dialog = b]
    /\ UNCHANGED <<calls, world>>

CloseAll ==
    /\ Screen = "bookings" /\ ~view.closingAll /\ view.dialog = None
    /\ view' = [view EXCEPT !.dialog = All]
    /\ UNCHANGED <<calls, world>>

Dismiss ==
    /\ view.dialog # None
    /\ view' = [view EXCEPT !.dialog = None]
    /\ UNCHANGED <<calls, world>>

ConfirmRemove ==
    /\ view.dialog \in Bookings
    /\ Cardinality(Under("remove")) <= Cardinality(Bookings)
    /\ view' = [view EXCEPT !.dialog = None, !.removing = view.dialog]
    /\ Subscribe(Call("remove", [booking |-> view.dialog, nr |-> Cardinality(Under("remove"))]))
    /\ UNCHANGED world

ConfirmClose ==
    /\ view.dialog = All
    /\ view' = [view EXCEPT !.dialog = None, !.closingAll = TRUE]
    /\ Subscribe(Call("close", None))
    /\ UNCHANGED world

\* The last booking frees the property, unless somebody lives there.
Without(data, gone) ==
    LET left == data.bookings \ gone
    IN  [status |-> IF left = {} /\ data.status = "booked" THEN "available" ELSE data.status,
         bookings |-> left]

CancelBooking ==
    \E c \in Under("remove") :
        /\ c.arg.booking \in world.bookings
        /\ Executes(c)
        /\ world' = Without(world, {c.arg.booking})
        /\ UNCHANGED view
CloseAllBookings ==
    \E c \in Under("close") :
        /\ world.bookings # {}
        /\ Executes(c)
        /\ world' = Without(world, Bookings)
        /\ UNCHANGED view

\* The page removes what it asked to remove; the last removal shows the property
\* as available, even when somebody lives there.  A variant of the list empties it.
RemovedAll ==
    \E c \in Under("remove") :
        /\ c.seen
        /\ view' = [view EXCEPT !.bookings = {}, !.removing = None, !.status = "available"]
        /\ calls' = calls \ {c}
        /\ UNCHANGED world
Removed ==
    \E c \in Under("remove"), isManager \in BOOLEAN :
        /\ c.seen
        /\ LET left == view.bookings \ {c.arg.booking}
           IN  view' = [view EXCEPT !.bookings = left, !.removing = None,
                                    !.status = IF left = {} THEN "available" ELSE @]
        /\ calls' = (calls \ {c}) \cup IF isManager THEN {Call("badge", None)} ELSE {}
        /\ UNCHANGED world

NotRemoved ==
    \E c \in Under("remove") :
        /\ Ends(c)
        /\ view' = [view EXCEPT !.removing = None, !.lost = TRUE]
        /\ UNCHANGED world

Closed ==
    \E c \in Under("close") :
        /\ c.seen
        /\ view' = [view EXCEPT !.bookings = {}, !.closingAll = FALSE,
                                !.status = IF @ = "booked" THEN "available" ELSE @]
        /\ calls' = (calls \ {c}) \cup {Call("badge", None)}
        /\ UNCHANGED world

NotClosed ==
    \E c \in Under("close") :
        /\ Ends(c)
        /\ view' = [view EXCEPT !.closingAll = FALSE, !.lost = TRUE]
        /\ UNCHANGED world

ReceiveBadge == \E c \in Under("badge") : Ends(c) /\ UNCHANGED <<view, world>>

Answer ==
    \/ ReceiveDetails \/ FailDetails \/ Removed \/ NotRemoved \/ Closed \/ NotClosed
    \/ ReceiveBadge
Next ==
    \/ CloseAll \/ Dismiss \/ ConfirmRemove \/ ConfirmClose
    \/ CancelBooking \/ CloseAllBookings \/ Answer
    \/ \E b \in Bookings : Remove(b)

\* Unless an error was reported, the bookings shown are the server's once nothing
\* is under way, however removals and "Close all" cross.
ListFollowsActions == calls = {} /\ ~view.lost => view.bookings = world.bookings

\* What is shown as under way is under way.
SpinnersTurn ==
    /\ view.loading \/ Screen = "loading" => Waiting("details")
    /\ view.removing # None => Waiting("remove")
    /\ view.closingAll => Waiting("close")
=============================================================================

---------------------------- MODULE NoticeCycle ----------------------------
(***************************************************************************)
(* What exports and eviction notices of a property amount to: one cycle at *)
(* a time.  A property that turns evictable is due a notice; once that is  *)
(* sent it is in the eviction queue, possibly on hold, until an export     *)
(* shows it in any other state.                                            *)
(***************************************************************************)
EXTENDS Naturals

CONSTANT Properties

VARIABLES
    cycle,      \* Properties -> where the property stands
    exports     \* how many exports are on file

vars == <<cycle, exports>>

\* A property in "open" is due a notice as soon as it is evictable; one in "closed",
\* which an export showed empty, is not.
Cycle == {"open", "closed", "due", "sent", "held"}

Init ==
    /\ cycle = [p \in Properties |-> "open"]
    /\ exports = 0

\* An export lists properties in some state and leaves out others.
Export ==
    /\ exports' = exports + 1
    /\ \E row \in [Properties -> {"none", "paid", "overdue", "evictable", "empty"}] :
        cycle' = [p \in Properties |->
            CASE row[p] = "evictable" -> IF cycle[p] = "open" THEN "due" ELSE cycle[p]
              [] row[p] = "empty" -> "closed"
              [] OTHER -> "open"]

Move(p, from, to) ==
    /\ cycle[p] \in from
    /\ cycle' = [cycle EXCEPT ![p] = to]
    /\ UNCHANGED exports

Send(p) == Move(p, {"due"}, "sent")
Reopen(p) == Move(p, {"sent", "held"}, "due")
Hold(p) == Move(p, {"sent"}, "held")
Release(p) == Move(p, {"held"}, "sent")

\* Deleting an export rewrites the past.
Forget ==
    /\ exports > 0
    /\ exports' = exports - 1
    /\ cycle' \in [Properties -> Cycle]

Next ==
    \/ Export
    \/ \E p \in Properties : Send(p) \/ Reopen(p) \/ Hold(p) \/ Release(p)
    \/ Forget

Spec == Init /\ [][Next]_vars
=============================================================================

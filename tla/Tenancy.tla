------------------------------ MODULE Tenancy ------------------------------
(***************************************************************************)
(* What the lifecycle promises about tenancies, whatever else happens to a *)
(* property: a tenant moves into an empty property, stays until evicted,   *)
(* and an evicted tenant is history and never lives anywhere again.        *)
(***************************************************************************)
CONSTANTS Tenants, Properties, None

VARIABLES
    occupant,   \* Properties -> the current tenant or None
    former      \* the tenants of the past

Lodged == {occupant[p] : p \in Properties} \ {None}

Init ==
    /\ occupant = [p \in Properties |-> None]
    /\ former = {}

MoveIn(p, t) ==
    /\ occupant[p] = None
    /\ t \notin Lodged \cup former
    /\ occupant' = [occupant EXCEPT ![p] = t]
    /\ UNCHANGED former

MoveOut(p) ==
    /\ occupant[p] # None
    /\ former' = former \cup {occupant[p]}
    /\ occupant' = [occupant EXCEPT ![p] = None]

Next == \E p \in Properties : MoveOut(p) \/ \E t \in Tenants : MoveIn(p, t)

Spec == Init /\ [][Next]_<<occupant, former>>
=============================================================================

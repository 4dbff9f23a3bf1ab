----------------------- MODULE PropertyManagementPage -----------------------
(***************************************************************************)
(* property-management.component.ts: the list of all properties and the    *)
(* actions on a row, which the server decides by the rules of              *)
(* PropertyDomain.  An action is confirmed in a dialog about the row as it *)
(* was shown, and a success reads the list again.  Filters work as in      *)
(* PropertiesListPage; one of the properties is followed here.             *)
(***************************************************************************)
EXTENDS Page

CONSTANTS
    Tenants,      \* the tenants of PropertyDomain
    UserRoles     \* roles of the user who looks at the list

INSTANCE PropertyDomain
Access == INSTANCE AccessMap

Properties ==
    {p \in [status : PropertyStatus, tenant : Tenants \cup {None}, life : {"live"},
            active : BOOLEAN, allowOccupied : BOOLEAN, announcement : {"none"}] :
        TenancyMatchesStatus(p)}

\* row: the property as listed, None if it is not there; lost: some action was
\* answered with an error.
Opened(role) ==
    [role |-> role, row |-> None, typing |-> FALSE, loading |-> TRUE, error |-> FALSE,
     dialog |-> None, lost |-> FALSE]

Actions == {"release", "hold", "evict", "remove"}

Deleted(p) == [p EXCEPT !.life = "deleted", !.active = FALSE]

TypeOK ==
    /\ DOMAIN view = DOMAIN Opened("agent")
    /\ view.role \in UserRoles /\ view.dialog \in Actions \cup {None}
    /\ \A p \in {world.now, world.settled} : p \in PropertyDoc
    /\ view.row # None => view.row \in PropertyDoc
    /\ \A c \in calls : c.op \in {"list", "act"}

Init ==
    /\ \E role \in UserRoles : view = Opened(role)
    /\ \E p \in Properties : world = [now |-> p, settled |-> p]
    /\ calls = {Call("list", None)}

-----------------------------------------------------------------------------
(* What a row offers                                                       *)

IsManager == view.role \in {"manager", "owner"}
CanEvict == view.role \in {"seniorAgent", "manager", "owner"}
CanAccess(key) == Access!RoleCanOpen(key, view.role)

CanBook(p) ==
    \/ p.status \in {"Available", "Booked"}
    \/ p.allowOccupied /\ p.tenant # None /\ p.status \in Rental

\* Variants of two buttons: auctions can be sold, and a tenant is no obstacle.
OfferedWithAuction(p, action) ==
    CASE action = "sell" -> CanAccess("portfolio.properties.sell")
                              /\ p.status \in {"Available", "Booked", "Auction"}
      [] action = "hold" -> IsManager /\ p.status # "OnHold"
      [] OTHER -> FALSE
Offered(p, action) ==
    CASE action = "sell" -> CanAccess("portfolio.properties.sell")
                              /\ p.status \in {"Available", "Booked"}
      [] action = "book" -> CanAccess("portfolio.properties.book") /\ CanBook(p)
      [] action = "evict" -> p.tenant # None /\ CanEvict /\ CanAccess("portfolio.properties.evict")
      [] action = "release" ->
            \/ view.role # "stateManager" /\ p.status = "Booked"
            \/ IsManager /\ p.status \in {"Auction", "OnHold"}
      [] action = "hold" -> IsManager /\ p.tenant = None /\ p.status # "OnHold"
      [] action = "remove" -> IsManager

\* The server's rule for the same action (PropertyDomain and its service).
Accepted(p, action) ==
    CASE action = "sell" -> CanAssignTenant(p)
      [] action = "book" -> CanMarkBooked(p)
      [] action = "evict" -> CanEvictTenant(p) /\ CanEvict
      [] action = "release" -> CanMakeAvailable(p) /\ (p.status \in {"Auction", "OnHold"} => IsManager)
      [] action = "hold" -> CanPlaceOnHold(p) /\ IsManager
      [] action = "remove" -> p.life = "live" /\ p.tenant = None /\ IsManager

Effect(p, action) ==
    CASE action = "evict" -> EvictTenant(p)
      [] action = "release" -> ClearBookingAnnouncement(MakeAvailable(p))
      [] action = "hold" -> PlaceOnHold(p)
      [] action = "remove" -> ClearBookingAnnouncement(Deleted(p))

-----------------------------------------------------------------------------
\* Typing in a filter, a page or the order of the list: asked for 220 ms later.
ChangeFilters ==
    /\ view.dialog = None /\ ~view.typing
    /\ view' = [view EXCEPT !.typing = TRUE]
    /\ UNCHANGED <<calls, world>>

Debounced ==
    /\ view.typing
    /\ view' = [view EXCEPT !.typing = FALSE, !.loading = TRUE, !.error = FALSE]
    /\ Switch(Call("list", None))
    /\ UNCHANGED world

Listed(p) == IF p.life = "deleted" THEN None ELSE p

Receive ==
    \E c \in Under("list"), p \in Fresh :
        /\ Shows(c)
        /\ view' = [view EXCEPT !.row = Listed(p), !.loading = FALSE]
        /\ UNCHANGED world

Fail ==
    \E c \in Under("list") :
        /\ Ends(c)
        /\ view' = [view EXCEPT !.loading = FALSE, !.error = TRUE]
        /\ UNCHANGED world

Quiet == \E c \in Under("list") : EndsQuietly(c)

\* The template: rows stay while others are read and under an error.
Screen ==
    IF view.row # None THEN "rows"
    ELSE IF view.loading \/ view.error THEN "empty table" ELSE "nothing found"

OpenDialog(action) ==
    /\ view.dialog = None /\ Screen = "rows"
    /\ Offered(view.row, action)
    /\ view' = [view EXCEPT !.dialog = action]
    /\ UNCHANGED <<calls, world>>

Dismiss ==
    /\ view.dialog # None
    /\ view' = [view EXCEPT !.dialog = None]
    /\ UNCHANGED <<calls, world>>

\* No busy flag: the same action may be confirmed again before its answer.
Confirm ==
    /\ view.dialog # None /\ Cardinality(Under("act")) < 2
    /\ view' = [view EXCEPT !.dialog = None]
    /\ Subscribe(Call("act", [action |-> view.dialog, nr |-> Cardinality(Under("act"))]))
    /\ UNCHANGED world

Execute ==
    \E c \in Under("act") :
        /\ Executes(c)
        /\ Accepted(world.now, c.arg.action)
        /\ Commit(Effect(world.now, c.arg.action))
        /\ UNCHANGED view

\* refresh: through the debounce.  A variant: an eviction forgets it.
SucceedWithoutRefresh ==
    \E c \in Under("act") :
        /\ Succeeds(c) /\ Settle
        /\ view' = [view EXCEPT !.typing = @ \/ c.arg.action # "evict"]
Succeed ==
    \E c \in Under("act") :
        /\ Succeeds(c) /\ Settle
        /\ view' = [view EXCEPT !.typing = TRUE]

\* Nobody handles the error; the server may have acted all the same.
Lose ==
    \E c \in Under("act") :
        /\ Ends(c)
        /\ view' = [view EXCEPT !.lost = TRUE]
        /\ world' = [world EXCEPT !.settled = world.now]

Answer == Receive \/ Fail \/ Quiet \/ Succeed \/ Lose
Next ==
    \/ ChangeFilters \/ Debounced \/ Dismiss \/ Confirm \/ Execute \/ Answer
    \/ \E a \in Actions : OpenDialog(a)

\* When nothing is under way the row shows what the user's own actions made of
\* the property, unless an error was reported.
RowFollowsActions ==
    calls = {} /\ ~view.typing /\ ~view.error /\ ~view.lost =>
        /\ view.row = Listed(world.now)
        /\ Screen = "nothing found" <=> world.now.life = "deleted"

\* What a row offers for an active property the server accepts, if the row is up
\* to date: buttons and domain rules are two tables.  Removing an occupied
\* property is the exception.
OffersAreAccepted ==
    \A action \in Actions \cup {"sell", "book"} :
        /\ view.row # None /\ view.row = world.now /\ view.row.active
        /\ Offered(view.row, action)
        /\ action = "remove" => view.row.tenant = None
        => Accepted(world.now, action)

\* What is shown as under way is under way.
SpinnersTurn == view.loading => Waiting("list")
=============================================================================

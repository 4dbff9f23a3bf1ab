------------------------- MODULE PropertyLifecycle -------------------------
(***************************************************************************)
(* Every request that writes a property, its tenants or its bookings:      *)
(* PropertyService.cs, PropertyLifecycleStore.cs, the repositories under   *)
(* them, and the part of a rent sync that touches one property             *)
(* (RentSyncService.cs).                                                   *)
(*                                                                         *)
(* A handler reads whole documents, changes its own copies in memory and   *)
(* replaces whole documents (RepositoryHelpers.ReplaceAsync): no version   *)
(* is checked.  A request in flight is a record that holds those copies;   *)
(* an action is what the handler does up to and including its next call of *)
(* the database.  A request that is rejected before its first write        *)
(* changes nothing and is not a step; one rejected later ends in Idle.     *)
(***************************************************************************)
EXTENDS PropertyDomain, TLC

CONSTANTS
    Properties,     \* ids of property documents
    Bookings,       \* ids of booking documents
    Requests,       \* slots for requests in flight; a singleton serialises them
    Ops,            \* the kinds of request clients send in this instance
    Transactional,  \* MongoDB runs as a replica set: the store has transactions
    MayFail         \* a request may die between two of its database calls

AllOps == {"create", "update", "deactivate", "changeStatus", "assign", "updateTenant",
           "evict", "book", "announce", "cancel", "closeAll", "delete", "sync", "import"}

ASSUME LifecycleAssumption ==
    /\ None \notin Properties \cup Bookings
    /\ Ops \subseteq AllOps
    /\ {Transactional, MayFail} \subseteq BOOLEAN

VARIABLES
    property,   \* Properties -> property document
    tenant,     \* Tenants -> tenant document
    booking,    \* Bookings -> booking document
    history,    \* Properties -> NewStatus of the latest status-history entry
    request     \* Requests -> the request in flight

db == <<property, tenant, booking, history>>
vars == <<property, tenant, booking, history, request>>

TenantDoc ==
    [status: {"absent", "Active", "Evicted"}, home: Properties \cup {None}]
BookingDoc ==
    [status: {"absent", "Active", "Cancelled", "Converted"}, home: Properties \cup {None}]

NoTenants == [t \in Tenants |-> [status |-> "absent", home |-> None]]

(***************************************************************************)
(* pc names the next database call.  doc is the request's copy of the      *)
(* property, tid/tstatus the tenant document it will write, bid a booking  *)
(* it names, seen the tenants a sync read, log whether the property write  *)
(* is followed by a status-history entry, manager the role of the caller.  *)
(***************************************************************************)
Calls == {"idle", "readTenant", "store", "count", "insert", "readBooking", "writeBooking",
          "close", "write", "log", "readTenants", "readProperty", "row", "tenant"}

Request ==
    [op: AllOps \cup {"none"},
     pc: Calls,
     prop: Properties \cup {None},
     doc: PropertyDoc,
     tid: Tenants \cup {None},
     tstatus: {"Active", "Evicted"},
     bid: Bookings \cup {None},
     seen: [Tenants -> TenantDoc],
     log: BOOLEAN,
     manager: BOOLEAN]

Idle ==
    [op |-> "none", pc |-> "idle", prop |-> None, doc |-> NoProperty, tid |-> None,
     tstatus |-> "Active", bid |-> None, seen |-> NoTenants, log |-> FALSE, manager |-> FALSE]

TypeOK ==
    /\ property \in [Properties -> PropertyDoc]
    /\ tenant \in [Tenants -> TenantDoc]
    /\ booking \in [Bookings -> BookingDoc]
    /\ history \in [Properties -> PropertyStatus]
    /\ request \in [Requests -> Request]

Init ==
    /\ property = [p \in Properties |-> NoProperty]
    /\ tenant = NoTenants
    /\ booking = [b \in Bookings |-> [status |-> "absent", home |-> None]]
    /\ history = [p \in Properties |-> "Available"]
    /\ request = [r \in Requests |-> Idle]

-----------------------------------------------------------------------------
(* Bookkeeping of requests *)

\* r goes on as q: it becomes Idle again when nothing is left to do.
Continue(r, q) ==
    request' = [request EXCEPT ![r] = IF q.pc = "idle" THEN Idle ELSE q]

\* A free slot takes a request about p, which GetByIdAsync finds.
Begin(r, op, p) ==
    /\ op \in Ops
    /\ request[r].pc = "idle"
    /\ property[p].life = "live"

New(op, p, pc, doc) == [Idle EXCEPT !.op = op, !.prop = p, !.pc = pc, !.doc = doc]

\* Guid.NewGuid: an id no document has and no other request has drawn.
FreshTenant(t) ==
    /\ tenant[t].status = "absent"
    /\ \A r \in Requests : request[r].tid # t

ActiveBookings(p) == {b \in Bookings : booking[b] = [status |-> "Active", home |-> p]}

\* What is left after the status-history entry, and after the property write.
AfterLog(q) ==
    CASE q.op = "assign" -> "close"
      [] q.op = "sync" /\ q.tid # None -> "tenant"
      [] OTHER -> "idle"

\* A property write that is never followed by a history entry.
AfterWriteUnlogged(q) == AfterLog(q)

AfterWrite(q) == IF q.log THEN "log" ELSE AfterLog(q)

-----------------------------------------------------------------------------
(* Property records *)

CreateAsync(p, active, allow) ==
    /\ "create" \in Ops
    /\ property[p].life = "absent"
    /\ property' = [property EXCEPT ![p] =
            [NoProperty EXCEPT !.life = "live", !.active = active, !.allowOccupied = allow]]
    /\ UNCHANGED <<tenant, booking, history, request>>

UpdateAsync(r, p, active, allow) ==
    /\ Begin(r, IF active THEN "update" ELSE "deactivate", p)
    /\ Continue(r, New("update", p, "write",
            [property[p] EXCEPT !.active = active, !.allowOccupied = allow]))
    /\ UNCHANGED db

\* A status change open to anyone, as a variant of CanChangeStatus.
CanChangeStatusByAnyone(p, target, manager) ==
    CASE target = "Available" -> CanMakeAvailable(p)
      [] target = "Auction" -> CanMarkForAuction(p)
      [] target = "OnHold"  -> CanPlaceOnHold(p)

CanChangeStatus(p, target, manager) ==
    CASE target = "Available" ->
            CanMakeAvailable(p) /\ (p.status \in {"Auction", "OnHold"} => manager)
      [] target = "Auction" -> CanMarkForAuction(p) /\ manager
      [] target = "OnHold"  -> CanPlaceOnHold(p) /\ manager

ChangedStatus(p, target) ==
    CASE target = "Available" -> MakeAvailable(p)
      [] target = "Auction" -> MarkForAuction(p)
      [] target = "OnHold"  -> PlaceOnHold(p)

\* A booked property loses its bookings first.
ChangeStatusAsync(r, p, target, manager) ==
    LET booked == property[p].status = "Booked"
        moved == ChangedStatus(property[p], target)
    IN  /\ Begin(r, "changeStatus", p)
        /\ CanChangeStatus(property[p], target, manager)
        /\ Continue(r, [New("changeStatus", p,
                            IF booked THEN "close" ELSE "write",
                            IF booked THEN ClearBookingAnnouncement(moved) ELSE moved)
                            EXCEPT !.log = TRUE, !.manager = manager])
        /\ UNCHANGED db

DeleteAsync(r, p) ==
    /\ Begin(r, "delete", p)
    /\ property[p].tenant = None
    /\ Continue(r, New("delete", p, "close",
            [ClearBookingAnnouncement(property[p]) EXCEPT !.life = "deleted", !.active = FALSE]))
    /\ UNCHANGED db

-----------------------------------------------------------------------------
(* Tenancies *)

AssignTenantAsync(r, p, t) ==
    /\ Begin(r, "assign", p)
    /\ CanAssignTenant(property[p])
    /\ FreshTenant(t)
    /\ Continue(r, [New("assign", p, "store",
                        ClearBookingAnnouncement(AssignTenant(property[p], t)))
                        EXCEPT !.tid = t, !.log = TRUE])
    /\ UNCHANGED db

UpdateTenantAsync(r, p) ==
    /\ Begin(r, "updateTenant", p)
    /\ property[p].tenant # None
    /\ Continue(r, [New("updateTenant", p, "readTenant", property[p])
                        EXCEPT !.tid = property[p].tenant])
    /\ UNCHANGED db

EvictAsync(r, p) ==
    /\ Begin(r, "evict", p)
    /\ CanEvictTenant(property[p])
    /\ Continue(r, [New("evict", p, "readTenant", EvictTenant(property[p]))
                        EXCEPT !.tid = property[p].tenant, !.tstatus = "Evicted", !.log = TRUE])
    /\ UNCHANGED db

\* An update that takes any tenant on file, as a variant of CanWriteTenant.
CanWriteAnyTenant(q) == tenant[q.tid].status # "absent"

\* Only an update insists that the tenant is still the active one of this property.
CanWriteTenant(q) ==
    /\ tenant[q.tid].status # "absent"
    /\ q.op = "updateTenant" => tenant[q.tid] = [status |-> "Active", home |-> q.prop]

ReadTenant(r) ==
    LET q == request[r]
    IN  /\ q.pc = "readTenant"
        /\ Continue(r, [q EXCEPT !.pc = IF CanWriteTenant(q) THEN "store" ELSE "idle"])
        /\ UNCHANGED db

TenantWritten(q) ==
    tenant' = [tenant EXCEPT ![q.tid] = [status |-> q.tstatus, home |-> q.prop]]

\* RunAsync on a replica set: tenant, property and history in one transaction.
StoreTransaction(r) ==
    LET q == request[r]
    IN  /\ Transactional
        /\ q.pc = "store"
        /\ TenantWritten(q)
        /\ property' = [property EXCEPT ![q.prop] = q.doc]
        /\ history' = IF q.log THEN [history EXCEPT ![q.prop] = q.doc.status] ELSE history
        /\ Continue(r, [q EXCEPT !.pc = AfterLog(q)])
        /\ UNCHANGED booking

\* The fallback with the property replaced before its tenant is written.
StorePropertyFirst(r) ==
    LET q == request[r]
    IN  /\ ~Transactional
        /\ q.pc = "store"
        /\ property' = [property EXCEPT ![q.prop] = q.doc]
        /\ Continue(r, [q EXCEPT !.pc = "tenant"])
        /\ UNCHANGED <<tenant, booking, history>>

\* RunAsync on a standalone server: the sequential fallback writes the tenant,
\* then the property and the history by the steps WriteProperty, WriteHistory.
StoreTenant(r) ==
    LET q == request[r]
    IN  /\ ~Transactional
        /\ q.pc = "store"
        /\ TenantWritten(q)
        /\ Continue(r, [q EXCEPT !.pc = "write"])
        /\ UNCHANGED <<property, booking, history>>

-----------------------------------------------------------------------------
(* Bookings *)

CreateBookingAsync(r, p) ==
    LET doc == MarkBooked(property[p])
    IN  /\ Begin(r, "book", p)
        /\ CanMarkBooked(property[p])
        /\ Continue(r, [New("book", p, "count", doc)
                            EXCEPT !.log = doc.status # property[p].status])
        /\ UNCHANGED db

SetBookingAnnouncementAsync(r, p, isPosted) ==
    /\ Begin(r, "announce", p)
    /\ Continue(r, New("announce", p, "count",
                        SetBookingAnnouncementPosted(property[p], isPosted)))
    /\ UNCHANGED db

CancelBookingAsync(r, p, b) ==
    /\ Begin(r, "cancel", p)
    /\ Continue(r, [New("cancel", p, "readBooking", property[p]) EXCEPT !.bid = b])
    /\ UNCHANGED db

CloseAllBookingsAsync(r, p) ==
    /\ Begin(r, "closeAll", p)
    /\ Continue(r, New("closeAll", p, "count", property[p]))
    /\ UNCHANGED db

\* A release that keeps the announcement, as a variant of Released.
ReleasedKeepingAnnouncement(q) ==
    [q EXCEPT !.pc = "write", !.log = TRUE, !.doc = MakeAvailable(q.doc)]

\* How cancel and closeAll treat the property once no booking is left.  The
\* bookings are already closed when MakeAvailable refuses.
Released(q) ==
    LET free == q.doc.status = "Booked"
        doc == IF free THEN MakeAvailable(q.doc) ELSE q.doc
    IN  IF free => CanMakeAvailable(q.doc)
        THEN [q EXCEPT !.pc = "write", !.log = free, !.doc = ClearBookingAnnouncement(doc)]
        ELSE [q EXCEPT !.pc = "idle"]

\* CountActiveByPropertyAsync and what each caller makes of the count.
Counted(q, none) ==
    CASE q.op = "book" ->
            [q EXCEPT !.pc = "insert",
                      !.doc = IF none THEN StartBookingAnnouncement(@) ELSE @]
      [] q.op = "announce" -> [q EXCEPT !.pc = IF none THEN "idle" ELSE "write"]
      [] q.op = "closeAll" -> [q EXCEPT !.pc = IF none THEN "idle" ELSE "close"]
      [] q.op = "cancel" -> IF none THEN Released(q) ELSE [q EXCEPT !.pc = "idle"]

CountBookings(r) ==
    LET q == request[r]
    IN  /\ q.pc = "count"
        /\ Continue(r, Counted(q, ActiveBookings(q.prop) = {}))
        /\ UNCHANGED db

InsertBooking(r, b) ==
    LET q == request[r]
    IN  /\ q.pc = "insert"
        /\ booking[b].status = "absent"
        /\ booking' = [booking EXCEPT ![b] = [status |-> "Active", home |-> q.prop]]
        /\ Continue(r, [q EXCEPT !.pc = "write"])
        /\ UNCHANGED <<property, tenant, history>>

ReadBooking(r) ==
    LET q == request[r]
    IN  /\ q.pc = "readBooking"
        /\ Continue(r, [q EXCEPT !.pc =
                IF q.bid \in ActiveBookings(q.prop) THEN "writeBooking" ELSE "idle"])
        /\ UNCHANGED db

\* The whole booking is replaced, whatever became of it since it was read.
WriteBooking(r) ==
    LET q == request[r]
    IN  /\ q.pc = "writeBooking"
        /\ booking' = [booking EXCEPT ![q.bid] = [status |-> "Cancelled", home |-> q.prop]]
        /\ Continue(r, [q EXCEPT !.pc = "count"])
        /\ UNCHANGED <<property, tenant, history>>

\* CloseActiveAsync: a single updateMany over the active bookings.
CloseBookings(r) ==
    LET q == request[r]
        outcome == IF q.op = "assign" THEN "Converted" ELSE "Cancelled"
    IN  /\ q.pc = "close"
        /\ booking' = [b \in Bookings |->
                IF b \in ActiveBookings(q.prop) THEN [booking[b] EXCEPT !.status = outcome]
                ELSE booking[b]]
        /\ Continue(r, CASE q.op = "assign" -> [q EXCEPT !.pc = "idle"]
                          [] q.op = "closeAll" -> Released(q)
                          [] OTHER -> [q EXCEPT !.pc = "write"])
        /\ UNCHANGED <<property, tenant, history>>

-----------------------------------------------------------------------------
(* Writes shared by the handlers *)

\* properties.UpdateAsync: the whole document, whatever became of it since it was read.
WriteProperty(r) ==
    LET q == request[r]
    IN  /\ q.pc = "write"
        /\ property' = [property EXCEPT ![q.prop] = q.doc]
        /\ Continue(r, [q EXCEPT !.pc = AfterWrite(q)])
        /\ UNCHANGED <<tenant, booking, history>>

WriteHistory(r) ==
    LET q == request[r]
    IN  /\ q.pc = "log"
        /\ history' = [history EXCEPT ![q.prop] = q.doc.status]
        /\ Continue(r, [q EXCEPT !.pc = AfterLog(q)])
        /\ UNCHANGED <<property, tenant, booking>>

-----------------------------------------------------------------------------
(* A rent sync, as far as one property and its row are concerned *)

\* SyncAsync starts its reads of tenants and of properties together.
SyncAsync(r, p) ==
    /\ Begin(r, "sync", p)
    /\ \/ Continue(r, New("sync", p, "readTenants", property[p]))
       \/ Continue(r, [New("sync", p, "readProperty", NoProperty) EXCEPT !.seen = tenant])
    /\ UNCHANGED db

SyncReadTenants(r) ==
    LET q == request[r]
    IN  /\ q.pc = "readTenants"
        /\ Continue(r, [q EXCEPT !.pc = "row", !.seen = tenant])
        /\ UNCHANGED db

SyncReadProperty(r) ==
    LET q == request[r]
    IN  /\ q.pc = "readProperty"
        /\ Continue(r, [q EXCEPT !.pc = IF property[q.prop].life = "live" THEN "row" ELSE "idle",
                                 !.doc = property[q.prop]])
        /\ UNCHANGED db

\* TargetStatus for a row that names a renter; a property overdue for seven days
\* may or may not have reached them.
TargetStatuses(p, row) ==
    CASE row = "paid" -> {"Paid"}
      [] row = "evictable" -> {"Evictable"}
      [] row = "overdue" -> IF p.status = "Overdue" THEN {"Overdue", "Evictable"} ELSE {"Overdue"}

RowTargets(p) == UNION {TargetStatuses(p, row) : row \in {"paid", "overdue", "evictable"}}

\* An "empty" row frees a property without a tenant.
EmptyRow(q) ==
    IF CanMakeAvailable(q.doc) /\ q.doc.status # "Available"
    THEN [q EXCEPT !.pc = "write", !.log = TRUE, !.doc = MakeAvailable(@)]
    ELSE [q EXCEPT !.pc = "idle"]

\* A row that names the current tenant: a property write if the status, the rent
\* or the link changed, then a tenant write if the row changes the tenant.
TenantRow(q, t, status, target, force, tenantChanged) ==
    LET doc == ApplyRentStatus(SetTenantForPersistence(q.doc, t), target)
        moved == target # q.doc.status
        next == [q EXCEPT !.doc = doc, !.log = moved, !.tstatus = status,
                          !.tid = IF tenantChanged THEN t ELSE None]
    IN  [next EXCEPT !.pc = IF moved \/ force THEN "write" ELSE AfterLog(next)]

ImportRow(q, t, target) ==
    [q EXCEPT !.op = "import", !.pc = "store", !.log = TRUE, !.tid = t,
              !.doc = SetStatusForPersistence(SetTenantForPersistence(@, t), target)]

\* The current tenant as the sync read it, or read now if it read none.
SyncedTenant(q, t) == IF q.seen[t].status # "absent" THEN q.seen[t] ELSE tenant[t]

\* The rows of an export are input, so any outcome the code allows may be taken:
\* no row, a hold, missing data or a conflicting CID leave the property alone.
SyncRow(r) ==
    LET q == request[r]
        rentable == q.doc.status # "OnHold"
    IN  /\ q.pc = "row"
        /\ \/ Continue(r, [q EXCEPT !.pc = "idle"])
           \/ rentable /\ Continue(r, EmptyRow(q))
           \/ /\ rentable /\ CanApplyRentStatus(q.doc)
              /\ SyncedTenant(q, q.doc.tenant).status # "absent"
              /\ \E target \in RowTargets(q.doc), force, tenantChanged \in BOOLEAN :
                    Continue(r, TenantRow(q, q.doc.tenant, SyncedTenant(q, q.doc.tenant).status,
                                          target, force, tenantChanged))
           \/ /\ rentable /\ q.doc.tenant = None /\ EnsureActive(q.doc)
              /\ \E t \in Tenants, target \in RowTargets(q.doc), tenantChanged \in BOOLEAN :
                    /\ q.seen[t] = [status |-> "Active", home |-> q.prop]
                    /\ Continue(r, TenantRow(q, t, "Active", target, TRUE, tenantChanged))
           \/ /\ rentable /\ q.doc.tenant = None
              /\ \E t \in Tenants, target \in RowTargets(q.doc) :
                    FreshTenant(t) /\ Continue(r, ImportRow(q, t, target))
        /\ UNCHANGED db

\* tenants.UpdateAsync: the whole tenant, whatever became of it since it was read.
WriteTenant(r) ==
    LET q == request[r]
    IN  /\ q.pc = "tenant"
        /\ TenantWritten(q)
        /\ Continue(r, [q EXCEPT !.pc = "idle"])
        /\ UNCHANGED <<property, booking, history>>

-----------------------------------------------------------------------------

\* The client hangs up (the cancellation token is the request's), a database call
\* fails or the process dies: the rest of the handler never happens.
Abort(r) ==
    /\ MayFail
    /\ request[r].pc # "idle"
    /\ Continue(r, [request[r] EXCEPT !.pc = "idle"])
    /\ UNCHANGED db

Arrive(r, p) ==
    \/ \E active, allow \in BOOLEAN : UpdateAsync(r, p, active, allow)
    \/ \E target \in {"Available", "Auction", "OnHold"}, manager \in BOOLEAN :
            ChangeStatusAsync(r, p, target, manager)
    \/ DeleteAsync(r, p)
    \/ \E t \in Tenants : AssignTenantAsync(r, p, t)
    \/ UpdateTenantAsync(r, p)
    \/ EvictAsync(r, p)
    \/ CreateBookingAsync(r, p)
    \/ \E isPosted \in BOOLEAN : SetBookingAnnouncementAsync(r, p, isPosted)
    \/ \E b \in Bookings : CancelBookingAsync(r, p, b)
    \/ CloseAllBookingsAsync(r, p)
    \/ SyncAsync(r, p)

Proceed(r) ==
    \/ ReadTenant(r)
    \/ StoreTransaction(r)
    \/ StoreTenant(r)
    \/ CountBookings(r)
    \/ \E b \in Bookings : InsertBooking(r, b)
    \/ ReadBooking(r)
    \/ WriteBooking(r)
    \/ CloseBookings(r)
    \/ WriteProperty(r)
    \/ WriteHistory(r)
    \/ SyncReadTenants(r)
    \/ SyncReadProperty(r)
    \/ SyncRow(r)
    \/ WriteTenant(r)

Next ==
    \/ \E p \in Properties, active, allow \in BOOLEAN : CreateAsync(p, active, allow)
    \/ \E r \in Requests : Proceed(r) \/ Abort(r) \/ \E p \in Properties : Arrive(r, p)

Spec == Init /\ [][Next]_vars

-----------------------------------------------------------------------------
(* Properties.  The first two hold whatever requests interleave and wherever *)
(* they die; the others when requests come one at a time.                    *)

\* No interleaving of stale whole-document replaces stores a property whose status
\* and tenant disagree: each writes a copy some domain method left consistent.
DocumentsConsistent == \A p \in Properties : TenancyMatchesStatus(property[p])

\* A property never refers to a tenant that is not on file or lives elsewhere: the
\* store inserts the tenant before it replaces the property, in the fallback too.
CurrentTenantOnFile ==
    \A p \in Properties :
        LET t == property[p].tenant
        IN  t # None => tenant[t].status # "absent" /\ tenant[t].home = p

\* The active tenants are exactly the current ones, even between the steps of a
\* handler and after it dies: assignment and eviction are single transactions.
OccupantsActive ==
    \A t \in Tenants, p \in Properties :
        tenant[t] = [status |-> "Active", home |-> p] <=> property[p].tenant = t

Quiet == \A r \in Requests : request[r].pc = "idle"

\* Between requests, a booked or announced property has an open booking to show
\* for it, and a deleted one has none left.
BookingsMatchProperty ==
    Quiet => \A p \in Properties :
        IF property[p].life = "live"
        THEN property[p].status = "Booked" \/ property[p].announcement # "none"
             => ActiveBookings(p) # {}
        ELSE ActiveBookings(p) = {}

\* Between requests, the latest status-history entry is the status: every handler
\* that moves the status records it.
HistoryMatchesStatus ==
    Quiet => \A p \in Properties :
        property[p].life # "absent" => history[p] = property[p].status

\* The request that takes the step.
Steps(r) == request'[r] # request[r]

\* An evicted tenant stays history: no later write makes the tenant active again.
EvictionIsFinal ==
    [][\A t \in Tenants : tenant[t].status = "Evicted" => tenant'[t].status = "Evicted"]_vars

\* A hold ends only by a status change of a manager.
HoldReleasedByManager ==
    [][\A p \in Properties :
          property[p].status = "OnHold" /\ property'[p].status # "OnHold"
          => \E r \in Requests : Steps(r) /\ request[r].manager]_vars

Lodging == INSTANCE Tenancy WITH
    occupant <- [p \in Properties |-> property[p].tenant],
    former <- {t \in Tenants : tenant[t].status = "Evicted"}

\* One request at a time on a replica set, dying anywhere, implements Tenancy.
TenancyImplemented == Lodging!Spec

-----------------------------------------------------------------------------
(* For TLC. *)

\* Requests, tenants and bookings are interchangeable.
Symmetry == Permutations(Requests) \cup Permutations(Tenants) \cup Permutations(Bookings)

\* No guard reads history and no invariant of a run with this view mentions it.
StateWithoutHistory == <<property, tenant, booking, request>>
=============================================================================

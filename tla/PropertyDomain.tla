--------------------------- MODULE PropertyDomain ---------------------------
(***************************************************************************)
(* The domain methods of the Property entity (Property.cs) as operators on *)
(* a property document.  CanX is the guard of method X: where the source   *)
(* throws a DomainRuleException, CanX is false.                            *)
(*                                                                         *)
(* A document keeps what the lifecycle rules tell apart.  life stands for  *)
(* the document's existence and its IsDeleted flag; announcement folds     *)
(* BookingAnnouncementPending and BookingAnnouncementPostedAt into one     *)
(* value; timestamps, prices and descriptive fields are left out.          *)
(***************************************************************************)
CONSTANTS
    Tenants,    \* ids of tenant documents
    None        \* the null reference

ASSUME NoneIsNoTenant == None \notin Tenants

Rental == {"Paid", "Overdue", "Evictable"}

PropertyStatus == {"Available", "Booked", "OnHold", "Auction"} \cup Rental

PropertyDoc ==
    [status: PropertyStatus,
     tenant: Tenants \cup {None},
     life: {"absent", "live", "deleted"},
     active: BOOLEAN,
     allowOccupied: BOOLEAN,
     announcement: {"none", "pending", "posted"}]

\* The document before CreateAsync inserts it.
NoProperty ==
    [status |-> "Available", tenant |-> None, life |-> "absent", active |-> FALSE,
     allowOccupied |-> FALSE, announcement |-> "none"]

EnsureActive(p) == p.active /\ p.life = "live"

IsOccupied(p) == p.tenant # None /\ p.status \in Rental

CanMarkBooked(p) ==
    /\ EnsureActive(p)
    /\ \/ p.status \in {"Available", "Booked"}
       \/ IsOccupied(p) /\ p.allowOccupied

MarkBooked(p) == [p EXCEPT !.status = IF IsOccupied(p) THEN @ ELSE "Booked"]

\* An assignment that forgets to look at the status, as a variant of CanAssignTenant.
CanAssignTenantAnyStatus(p) == EnsureActive(p)

CanAssignTenant(p) == EnsureActive(p) /\ p.status \in {"Available", "Booked"}

AssignTenant(p, t) == [p EXCEPT !.status = "Paid", !.tenant = t]

StartBookingAnnouncement(p) == [p EXCEPT !.announcement = "pending"]

SetBookingAnnouncementPosted(p, isPosted) ==
    [p EXCEPT !.announcement = IF isPosted THEN "posted" ELSE "pending"]

ClearBookingAnnouncement(p) == [p EXCEPT !.announcement = "none"]

CanMarkForAuction(p) == EnsureActive(p) /\ p.status \in {"Available", "Booked"}

MarkForAuction(p) == [p EXCEPT !.status = "Auction"]

CanPlaceOnHold(p) == EnsureActive(p) /\ p.tenant = None /\ p.status \notin Rental

PlaceOnHold(p) == [p EXCEPT !.status = "OnHold"]

CanApplyRentStatus(p) == EnsureActive(p) /\ p.tenant # None

ApplyRentStatus(p, status) == [p EXCEPT !.status = status]

\* A release that forgets the tenancy check, as a variant of CanMakeAvailable.
CanMakeAvailableOccupied(p) == EnsureActive(p)

CanMakeAvailable(p) == EnsureActive(p) /\ p.tenant = None

MakeAvailable(p) == [p EXCEPT !.status = "Available"]

CanEvictTenant(p) == EnsureActive(p) /\ p.status \in Rental /\ p.tenant # None

\* An eviction that frees the property and keeps the tenant reference.
EvictTenantKeepingLink(p) == [p EXCEPT !.status = "Available"]

\* An eviction that blanks the tenant reference where it should be null.
EvictTenantToBlank(p) == [p EXCEPT !.status = "Available", !.tenant = ""]

EvictTenant(p) == [p EXCEPT !.status = "Available", !.tenant = None]

\* What a rent sync does to a document without asking the rules.
SetStatusForPersistence(p, status) == [p EXCEPT !.status = status]

SetTenantForPersistence(p, t) == [p EXCEPT !.tenant = t]

-----------------------------------------------------------------------------

\* The lifecycle invariant the domain methods are written to keep: exactly the
\* properties with a rental status have a current tenant.
TenancyMatchesStatus(p) == p.tenant # None <=> p.status \in Rental
=============================================================================

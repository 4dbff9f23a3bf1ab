----------------------- MODULE PropertyLifecycleProofs -----------------------
(***************************************************************************)
(* For every set of properties, tenants, bookings and concurrent requests, *)
(* with or without transactions and wherever requests die:                 *)
(*     Spec => [](TypeOK /\ DocumentsConsistent /\ CurrentTenantOnFile)     *)
(*                                                                         *)
(* The inductive invariant has to speak of the copies requests hold: a     *)
(* stale copy is harmless to a single document because it was consistent   *)
(* when it was read and a domain method keeps it so, and harmless to the   *)
(* tenant reference because a tenant document, once inserted, stays on     *)
(* file under the same property.                                           *)
(***************************************************************************)
EXTENDS PropertyLifecycle, TLAPS

\* Tenant t of the documents tn is stored, and belongs to p.
OnFile(tn, t, p) == tn[t].status # "absent" /\ tn[t].home = p

\* The request is about to insert the tenant it made up.
Inserting(q) == q.pc = "store" /\ q.op \in {"assign", "import"}

\* What a request in flight may rely on, given the tenant documents tn.
GoodRequest(q, tn) ==
    /\ q \in Request
    /\ q.pc # "idle" => q.prop \in Properties
    /\ q.pc \in {"readTenant", "store", "tenant"} => q.tid # None
    /\ q.pc = "readTenant" => q.op \in {"updateTenant", "evict"}
    /\ q.pc = "count" => q.op \in {"book", "announce", "cancel", "closeAll"}
    /\ q.pc \in {"readBooking", "writeBooking"} => q.op = "cancel"
    /\ TenancyMatchesStatus(q.doc)
    /\ q.doc.tenant # None
       => OnFile(tn, q.doc.tenant, q.prop) \/ (Inserting(q) /\ q.doc.tenant = q.tid)
    /\ q.tid # None
       => IF Inserting(q) THEN tn[q.tid].status = "absent" ELSE OnFile(tn, q.tid, q.prop)
    /\ \A t \in Tenants : q.seen[t].status # "absent" => OnFile(tn, t, q.seen[t].home)

\* No two requests are about to insert the same tenant.
InsertsDistinct ==
    \A r1, r2 \in Requests :
        r1 # r2 /\ Inserting(request[r1]) /\ Inserting(request[r2]) /\ request[r1].tid # None
        => request[r1].tid # request[r2].tid

IInv ==
    /\ TypeOK
    /\ DocumentsConsistent
    /\ CurrentTenantOnFile
    /\ \A r \in Requests : GoodRequest(request[r], tenant)
    /\ InsertsDistinct

USE NoneIsNoTenant DEF NoneIsNoTenant

-----------------------------------------------------------------------------
(* The domain methods *)

\* A domain method whose guard holds turns a well-formed, consistent document into
\* a well-formed, consistent one.
LEMMA DomainMethods ==
    ASSUME NEW p \in PropertyDoc, TenancyMatchesStatus(p)
    PROVE  /\ CanMarkBooked(p) => /\ MarkBooked(p) \in PropertyDoc
                                  /\ TenancyMatchesStatus(MarkBooked(p))
                                  /\ MarkBooked(p).tenant = p.tenant
           /\ CanMarkForAuction(p) => /\ MarkForAuction(p) \in PropertyDoc
                                      /\ TenancyMatchesStatus(MarkForAuction(p))
                                      /\ MarkForAuction(p).tenant = p.tenant
           /\ CanPlaceOnHold(p) => /\ PlaceOnHold(p) \in PropertyDoc
                                   /\ TenancyMatchesStatus(PlaceOnHold(p))
                                   /\ PlaceOnHold(p).tenant = p.tenant
           /\ CanMakeAvailable(p) => /\ MakeAvailable(p) \in PropertyDoc
                                     /\ TenancyMatchesStatus(MakeAvailable(p))
                                     /\ MakeAvailable(p).tenant = p.tenant
  BY SMT DEF PropertyDoc, PropertyStatus, Rental, TenancyMatchesStatus, CanMarkBooked, MarkBooked,
     IsOccupied, CanMarkForAuction, MarkForAuction, CanPlaceOnHold, PlaceOnHold,
     CanMakeAvailable, MakeAvailable

\* Announcements do not touch the tenancy.
LEMMA Announcements ==
    ASSUME NEW p \in PropertyDoc, NEW isPosted \in BOOLEAN
    PROVE  /\ ClearBookingAnnouncement(p) \in PropertyDoc
           /\ StartBookingAnnouncement(p) \in PropertyDoc
           /\ SetBookingAnnouncementPosted(p, isPosted) \in PropertyDoc
           /\ \A d \in {ClearBookingAnnouncement(p), StartBookingAnnouncement(p),
                        SetBookingAnnouncementPosted(p, isPosted)} :
                 d.tenant = p.tenant /\ (TenancyMatchesStatus(p) => TenancyMatchesStatus(d))
  BY SMT DEF PropertyDoc, TenancyMatchesStatus, ClearBookingAnnouncement,
     StartBookingAnnouncement, SetBookingAnnouncementPosted

\* Tenants come with a rental status and leave it with an eviction.
LEMMA TenancyMethods ==
    ASSUME NEW p \in PropertyDoc, NEW t \in Tenants, NEW status \in Rental
    PROVE  /\ AssignTenant(p, t) \in PropertyDoc
           /\ TenancyMatchesStatus(AssignTenant(p, t)) /\ AssignTenant(p, t).tenant = t
           /\ EvictTenant(p) \in PropertyDoc
           /\ TenancyMatchesStatus(EvictTenant(p)) /\ EvictTenant(p).tenant = None
<1>1. AssignTenant(p, t) \in PropertyDoc /\ EvictTenant(p) \in PropertyDoc
  BY Zenon DEF AssignTenant, EvictTenant, PropertyDoc, PropertyStatus, Rental
<1>2. /\ TenancyMatchesStatus(AssignTenant(p, t)) /\ AssignTenant(p, t).tenant = t
      /\ TenancyMatchesStatus(EvictTenant(p)) /\ EvictTenant(p).tenant = None
  BY SMT DEF AssignTenant, EvictTenant, TenancyMatchesStatus, PropertyDoc, Rental
<1> QED
  BY <1>1, <1>2

\* A rent sync sets tenant and status past the rules, and sets both.
LEMMA SyncMethods ==
    ASSUME NEW p \in PropertyDoc, NEW t \in Tenants, NEW status \in Rental
    PROVE  LET q == SetTenantForPersistence(p, t)
           IN  \A doc \in {SetStatusForPersistence(q, status), ApplyRentStatus(q, status)} :
                 doc \in PropertyDoc /\ TenancyMatchesStatus(doc) /\ doc.tenant = t
<1> DEFINE q == SetTenantForPersistence(p, t)
           doc == [q EXCEPT !.status = status]
<1>1. q \in PropertyDoc
  BY Zenon DEF PropertyDoc, SetTenantForPersistence
<1>2. q.tenant = t
  BY SMT DEF PropertyDoc, SetTenantForPersistence
<1> HIDE DEF q
<1>3. doc \in PropertyDoc
  BY <1>1, Zenon DEF PropertyDoc, PropertyStatus
<1>4. doc.tenant = t /\ doc.status = status
  BY <1>1, <1>2, SMT DEF PropertyDoc
<1>5. TenancyMatchesStatus(doc)
  BY <1>4 DEF TenancyMatchesStatus
<1> QED
  BY <1>3, <1>4, <1>5 DEF q, SetStatusForPersistence, ApplyRentStatus

-----------------------------------------------------------------------------
(* Requests *)

LEMMA NoTenantsType == NoTenants \in [Tenants -> TenantDoc]
  BY Zenon DEF NoTenants, TenantDoc

LEMMA NobodySeen == \A t \in Tenants : NoTenants[t].status = "absent"
  BY SMT DEF NoTenants

LEMMA NoPropertyType == NoProperty \in PropertyDoc /\ TenancyMatchesStatus(NoProperty)
<1>1. NoProperty \in PropertyDoc
  BY Zenon DEF NoProperty, PropertyDoc, PropertyStatus
<1>2. TenancyMatchesStatus(NoProperty)
  BY SMT DEF NoProperty, TenancyMatchesStatus, Rental
<1> QED
  BY <1>1, <1>2

LEMMA IdleType == Idle \in Request
  BY NoTenantsType, NoPropertyType, Zenon DEF Idle, Request, AllOps, Calls

\* A free slot relies on nothing.
LEMMA IdleGood == ASSUME NEW tn PROVE GoodRequest(Idle, tn)
<1>1. /\ Idle.pc = "idle" /\ Idle.doc = NoProperty /\ Idle.tid = None /\ Idle.seen = NoTenants
      /\ NoProperty.tenant = None
  BY SMT DEF Idle, NoProperty
<1> QED
  BY <1>1, IdleType, NoPropertyType, NobodySeen DEF GoodRequest

\* A new request about a property has the fields it is made of.
LEMMA NewRequest ==
    ASSUME NEW op \in AllOps, NEW p \in Properties, NEW pc \in Calls, NEW doc \in PropertyDoc
    PROVE  /\ New(op, p, pc, doc) \in Request
           /\ New(op, p, pc, doc).op = op /\ New(op, p, pc, doc).prop = p
           /\ New(op, p, pc, doc).pc = pc /\ New(op, p, pc, doc).doc = doc
           /\ New(op, p, pc, doc).tid = None /\ New(op, p, pc, doc).seen = NoTenants
<1>1. New(op, p, pc, doc) \in Request
  BY IdleType, Zenon DEF New, Request
<1>2. /\ New(op, p, pc, doc).op = op /\ New(op, p, pc, doc).prop = p
      /\ New(op, p, pc, doc).pc = pc /\ New(op, p, pc, doc).doc = doc
      /\ New(op, p, pc, doc).tid = None /\ New(op, p, pc, doc).seen = NoTenants
  BY SMT DEF New, Idle
<1> QED
  BY <1>1, <1>2

\* A step of r that leaves r relying on nothing false, and draws no tenant id another
\* request has drawn, keeps all requests good.
LEMMA RequestsAfter ==
    ASSUME NEW r \in Requests, NEW q, NEW tn,
           request \in [Requests -> Request],
           \A s \in Requests : s # r => GoodRequest(request[s], tn),
           InsertsDistinct,
           Continue(r, q),
           q.pc # "idle" => GoodRequest(q, tn),
           Inserting(q) => \A s \in Requests : s # r => request[s].tid # q.tid
    PROVE  /\ request' \in [Requests -> Request]
           /\ \A s \in Requests : GoodRequest(request'[s], tn)
           /\ InsertsDistinct'
<1> DEFINE n == IF q.pc = "idle" THEN Idle ELSE q
<1>1. GoodRequest(n, tn) /\ n \in Request
  BY IdleGood, IdleType DEF GoodRequest
<1>2. request' = [request EXCEPT ![r] = n]
  BY DEF Continue
<1>3. Inserting(n) => n = q
  BY SMT DEF Inserting, Idle
<1> HIDE DEF n
<1>4. request' \in [Requests -> Request]
  BY <1>1, <1>2
<1>5. \A s \in Requests : request'[s] = IF s = r THEN n ELSE request[s]
  BY <1>2
<1>6. \A s \in Requests : GoodRequest(request'[s], tn)
  BY <1>1, <1>5
<1>7. InsertsDistinct'
  BY <1>3, <1>5 DEF InsertsDistinct
<1> QED
  BY <1>4, <1>6, <1>7

\* A step that only moves the request r on to q, as good a request.
LEMMA RequestStep ==
    ASSUME IInv, NEW r \in Requests, NEW q, UNCHANGED db, Continue(r, q),
           q.pc # "idle" => GoodRequest(q, tenant),
           Inserting(q) => \A s \in Requests : s # r => request[s].tid # q.tid
    PROVE  IInv'
<1>1. /\ request' \in [Requests -> Request] /\ InsertsDistinct'
      /\ \A s \in Requests : GoodRequest(request'[s], tenant)
  BY RequestsAfter DEF IInv, TypeOK
<1>2. UNCHANGED <<property, tenant, booking, history>>
  BY DEF db
<1>3. \A s \in Requests : GoodRequest(request'[s], tenant')
  BY <1>1, <1>2
<1>4. TypeOK' /\ DocumentsConsistent' /\ CurrentTenantOnFile'
  BY <1>1, <1>2 DEF IInv, TypeOK, DocumentsConsistent, CurrentTenantOnFile
<1> QED
  BY <1>1, <1>3, <1>4 DEF IInv

\* The next database call of r may be named freely, as far as its copies bear it.
LEMMA Advance ==
    ASSUME NEW tn, NEW q, GoodRequest(q, tn), q.pc # "idle", ~Inserting(q),
           NEW pc \in Calls, pc # "readTenant",
           pc \in {"store", "tenant"} => q.tid # None,
           pc = "store" => q.op \notin {"assign", "import"},
           pc = "count" => q.op \in {"book", "announce", "cancel", "closeAll"},
           pc \in {"readBooking", "writeBooking"} => q.op = "cancel"
    PROVE  /\ GoodRequest([q EXCEPT !.pc = pc], tn)
           /\ ~Inserting([q EXCEPT !.pc = pc])
<1> DEFINE n == [q EXCEPT !.pc = pc]
<1>1. q \in Request
  BY DEF GoodRequest
<1>2. n \in Request
  BY <1>1, Zenon DEF Request
<1>3. /\ n.pc = pc /\ n.op = q.op /\ n.prop = q.prop /\ n.doc = q.doc
      /\ n.tid = q.tid /\ n.seen = q.seen
  BY <1>1, SMT DEF Request
<1> HIDE DEF n
<1>4. ~Inserting(n)
  BY <1>3 DEF Inserting
<1>5. GoodRequest(n, tn)
  BY <1>2, <1>3, <1>4, SMT DEF GoodRequest
<1> QED
  BY <1>4, <1>5 DEF n

\* The same for a request that changes its copy of the property on the way.
LEMMA AdvanceWith ==
    ASSUME NEW tn, NEW q, GoodRequest(q, tn), q.pc # "idle", ~Inserting(q),
           NEW n \in Request,
           n.op = q.op, n.prop = q.prop, n.tid = q.tid, n.seen = q.seen,
           n.pc \in {"write", "insert", "row", "idle"},
           TenancyMatchesStatus(n.doc),
           n.doc.tenant # None => OnFile(tn, n.doc.tenant, q.prop)
    PROVE  GoodRequest(n, tn) /\ ~Inserting(n)
<1>1. ~Inserting(n)
  BY DEF Inserting
<1> QED
  BY <1>1, SMT DEF GoodRequest

\* What a handler reads of a property is fit to start a request with.
LEMMA ReadProperty ==
    ASSUME IInv, NEW p \in Properties
    PROVE  /\ property[p] \in PropertyDoc /\ TenancyMatchesStatus(property[p])
           /\ property[p].tenant # None => OnFile(tenant, property[p].tenant, p)
  BY DEF IInv, TypeOK, DocumentsConsistent, CurrentTenantOnFile, OnFile

\* A new request is good if its copy is, whatever else it notes down.
LEMMA NewGood ==
    ASSUME NEW tn, NEW op \in AllOps, NEW p \in Properties, NEW n \in Request,
           n.op = op, n.prop = p, n.seen = NoTenants, n.tid = None,
           n.pc \in Calls \ {"readTenant", "store", "tenant"},
           n.pc = "count" => op \in {"book", "announce", "cancel", "closeAll"},
           n.pc \in {"readBooking", "writeBooking"} => op = "cancel",
           TenancyMatchesStatus(n.doc),
           n.doc.tenant # None => OnFile(tn, n.doc.tenant, p)
    PROVE  GoodRequest(n, tn) /\ ~Inserting(n)
<1>1. ~Inserting(n)
  BY DEF Inserting
<1> QED
  BY <1>1, NobodySeen, SMT DEF GoodRequest

-----------------------------------------------------------------------------
(* Requests that arrive *)

LEMMA UpdateStep ==
    ASSUME IInv, NEW r \in Requests, NEW p \in Properties,
           NEW active \in BOOLEAN, NEW allow \in BOOLEAN, UpdateAsync(r, p, active, allow)
    PROVE  IInv'
<1> DEFINE doc == [property[p] EXCEPT !.active = active, !.allowOccupied = allow]
           q == New("update", p, "write", doc)
<1>1. property[p] \in PropertyDoc /\ TenancyMatchesStatus(property[p])
  BY ReadProperty
<1>2. doc \in PropertyDoc
  BY <1>1, Zenon DEF PropertyDoc
<1>3. doc.tenant = property[p].tenant /\ doc.status = property[p].status
  BY <1>1, SMT DEF PropertyDoc
<1>4. GoodRequest(q, tenant) /\ ~Inserting(q)
  <2>1. /\ q \in Request /\ q.op = "update" /\ q.prop = p /\ q.pc = "write" /\ q.doc = doc
        /\ q.tid = None /\ q.seen = NoTenants
    BY <1>2, NewRequest DEF AllOps, Calls
  <2>2. TenancyMatchesStatus(doc) /\ (doc.tenant # None => OnFile(tenant, doc.tenant, p))
    BY <1>1, <1>3, ReadProperty DEF TenancyMatchesStatus
  <2> HIDE DEF q, doc
  <2> QED
    BY <2>1, <2>2, NewGood DEF AllOps, Calls
<1>5. Continue(r, q) /\ UNCHANGED db
  BY DEF UpdateAsync
<1> QED
  BY <1>4, <1>5, RequestStep

LEMMA ChangeStatusStep ==
    ASSUME IInv, NEW r \in Requests, NEW p \in Properties, NEW manager \in BOOLEAN,
           NEW target \in {"Available", "Auction", "OnHold"},
           ChangeStatusAsync(r, p, target, manager)
    PROVE  IInv'
<1> DEFINE old == property[p]
           moved == ChangedStatus(old, target)
           doc == IF old.status = "Booked" THEN ClearBookingAnnouncement(moved) ELSE moved
           pc == IF old.status = "Booked" THEN "close" ELSE "write"
           n == New("changeStatus", p, pc, doc)
           q == [n EXCEPT !.log = TRUE, !.manager = manager]
<1>1. CanChangeStatus(old, target, manager) /\ Continue(r, q) /\ UNCHANGED db
  BY DEF ChangeStatusAsync
<1>2. old \in PropertyDoc /\ TenancyMatchesStatus(old)
  BY ReadProperty
<1>3. moved \in PropertyDoc /\ TenancyMatchesStatus(moved) /\ moved.tenant = old.tenant
  <2> HIDE DEF old
  <2> QED
    BY <1>1, <1>2, DomainMethods DEF CanChangeStatus, ChangedStatus
<1>4. doc \in PropertyDoc /\ TenancyMatchesStatus(doc) /\ doc.tenant = old.tenant
  <2> HIDE DEF moved
  <2> QED
    BY <1>3, Announcements
<1>5. GoodRequest(q, tenant) /\ ~Inserting(q)
  <2>1. doc.tenant # None => OnFile(tenant, doc.tenant, p)
    BY <1>4, ReadProperty
  <2> HIDE DEF doc, old
  <2>2. /\ n \in Request /\ n.op = "changeStatus" /\ n.prop = p /\ n.doc = doc
        /\ n.pc \in {"close", "write"} /\ n.tid = None /\ n.seen = NoTenants
    BY <1>4, NewRequest DEF AllOps, Calls
  <2> HIDE DEF n
  <2>3. q \in Request
    BY <2>2, Zenon DEF Request
  <2>4. /\ q.op = "changeStatus" /\ q.prop = p /\ q.doc = doc
        /\ q.pc \in {"close", "write"} /\ q.tid = None /\ q.seen = NoTenants
    BY <2>2, SMT DEF Request
  <2> HIDE DEF q
  <2> QED
    BY <1>4, <2>1, <2>3, <2>4, NewGood DEF AllOps, Calls
<1> HIDE DEF q
<1> QED
  BY <1>1, <1>5, RequestStep

LEMMA DeleteStep ==
    ASSUME IInv, NEW r \in Requests, NEW p \in Properties, DeleteAsync(r, p)
    PROVE  IInv'
<1> DEFINE old == ClearBookingAnnouncement(property[p])
           doc == [old EXCEPT !.life = "deleted", !.active = FALSE]
           q == New("delete", p, "close", doc)
<1>1. property[p] \in PropertyDoc /\ TenancyMatchesStatus(property[p])
  BY ReadProperty
<1>2. old \in PropertyDoc /\ TenancyMatchesStatus(old) /\ old.tenant = property[p].tenant
  BY <1>1, Announcements
<1>3. Continue(r, q) /\ UNCHANGED db
  BY DEF DeleteAsync
<1> HIDE DEF old
<1>4. doc \in PropertyDoc
  BY <1>2, Zenon DEF PropertyDoc
<1>5. doc.tenant = old.tenant /\ doc.status = old.status
  BY <1>2, SMT DEF PropertyDoc
<1>6. TenancyMatchesStatus(doc) /\ (doc.tenant # None => OnFile(tenant, doc.tenant, p))
  BY <1>2, <1>5, ReadProperty DEF TenancyMatchesStatus
<1>7. /\ q \in Request /\ q.op = "delete" /\ q.prop = p /\ q.pc = "close" /\ q.doc = doc
      /\ q.tid = None /\ q.seen = NoTenants
  BY <1>4, NewRequest DEF AllOps, Calls
<1> HIDE DEF q, doc
<1>8. GoodRequest(q, tenant) /\ ~Inserting(q)
  BY <1>6, <1>7, NewGood DEF AllOps, Calls
<1> QED
  BY <1>3, <1>8, RequestStep

\* The one request that relies on a document that is not on file yet: the tenant is
\* its own, drawn by nobody else.
LEMMA AssignTenantStep ==
    ASSUME IInv, NEW r \in Requests, NEW p \in Properties, NEW t \in Tenants,
           AssignTenantAsync(r, p, t)
    PROVE  IInv'
<1> DEFINE assigned == AssignTenant(property[p], t)
           doc == ClearBookingAnnouncement(assigned)
           n == New("assign", p, "store", doc)
           q == [n EXCEPT !.tid = t, !.log = TRUE]
<1>1. property[p] \in PropertyDoc
  BY ReadProperty
<1>2. assigned \in PropertyDoc /\ TenancyMatchesStatus(assigned) /\ assigned.tenant = t
  BY <1>1, TenancyMethods DEF Rental
<1>3. Continue(r, q) /\ FreshTenant(t) /\ UNCHANGED db
  BY DEF AssignTenantAsync
<1> HIDE DEF assigned
<1>4. doc \in PropertyDoc /\ TenancyMatchesStatus(doc) /\ doc.tenant = t
  BY <1>2, Announcements
<1> HIDE DEF doc
<1>5. /\ n \in Request /\ n.op = "assign" /\ n.prop = p /\ n.doc = doc
      /\ n.pc = "store" /\ n.seen = NoTenants
  BY <1>4, NewRequest DEF AllOps, Calls
<1> HIDE DEF n
<1>6. q \in Request
  BY <1>5, Zenon DEF Request
<1>7. /\ q.op = "assign" /\ q.prop = p /\ q.doc = doc
      /\ q.pc = "store" /\ q.tid = t /\ q.seen = NoTenants
  BY <1>5, SMT DEF Request
<1> HIDE DEF q
<1>8. GoodRequest(q, tenant)
  BY <1>3, <1>4, <1>6, <1>7, NobodySeen, SMT DEF GoodRequest, Inserting, FreshTenant
<1>9. \A s \in Requests : request[s].tid # q.tid
  BY <1>3, <1>7 DEF FreshTenant
<1> QED
  BY <1>3, <1>8, <1>9, RequestStep

\* A request that is about to read the current tenant of the property.
LEMMA TenantNamed ==
    ASSUME IInv, NEW p \in Properties, property[p].tenant # None,
           NEW op \in {"updateTenant", "evict"}, NEW q \in Request,
           q.op = op, q.prop = p, q.pc = "readTenant", q.seen = NoTenants,
           q.tid = property[p].tenant,
           TenancyMatchesStatus(q.doc), q.doc.tenant \in {None, property[p].tenant}
    PROVE  GoodRequest(q, tenant) /\ ~Inserting(q)
<1>1. OnFile(tenant, property[p].tenant, p)
  BY ReadProperty
<1>2. ~Inserting(q)
  BY DEF Inserting
<1> QED
  BY <1>1, <1>2, NobodySeen, SMT DEF GoodRequest

LEMMA UpdateTenantStep ==
    ASSUME IInv, NEW r \in Requests, NEW p \in Properties, UpdateTenantAsync(r, p)
    PROVE  IInv'
<1> DEFINE old == property[p]
           n == New("updateTenant", p, "readTenant", old)
           q == [n EXCEPT !.tid = old.tenant]
<1>1. Continue(r, q) /\ old.tenant # None /\ UNCHANGED db
  BY DEF UpdateTenantAsync
<1>2. old \in PropertyDoc /\ TenancyMatchesStatus(old) /\ old.tenant \in Tenants
  BY <1>1, ReadProperty DEF PropertyDoc
<1>3. /\ n \in Request /\ n.op = "updateTenant" /\ n.prop = p /\ n.doc = old
      /\ n.pc = "readTenant" /\ n.seen = NoTenants
  BY <1>2, NewRequest DEF AllOps, Calls
<1> HIDE DEF n
<1>4. q \in Request
  BY <1>2, <1>3, Zenon DEF Request
<1>5. /\ q.op = "updateTenant" /\ q.prop = p /\ q.doc = old
      /\ q.pc = "readTenant" /\ q.tid = old.tenant /\ q.seen = NoTenants
  BY <1>3, SMT DEF Request
<1> HIDE DEF q
<1>6. GoodRequest(q, tenant) /\ ~Inserting(q)
  BY <1>1, <1>2, <1>4, <1>5, TenantNamed
<1> QED
  BY <1>1, <1>6, RequestStep

LEMMA EvictStep ==
    ASSUME IInv, NEW r \in Requests, NEW p \in Properties, EvictAsync(r, p)
    PROVE  IInv'
<1> DEFINE old == property[p]
           doc == EvictTenant(old)
           n == New("evict", p, "readTenant", doc)
           q == [n EXCEPT !.tid = old.tenant, !.tstatus = "Evicted", !.log = TRUE]
<1>1. Continue(r, q) /\ old.tenant # None /\ UNCHANGED db
  BY DEF EvictAsync, CanEvictTenant
<1>2. old \in PropertyDoc /\ old.tenant \in Tenants
  BY <1>1, ReadProperty DEF PropertyDoc
<1>3. doc \in PropertyDoc /\ TenancyMatchesStatus(doc) /\ doc.tenant = None
  BY <1>2, TenancyMethods DEF Rental
<1> HIDE DEF doc
<1>4. /\ n \in Request /\ n.op = "evict" /\ n.prop = p /\ n.doc = doc
      /\ n.pc = "readTenant" /\ n.seen = NoTenants
  BY <1>3, NewRequest DEF AllOps, Calls
<1> HIDE DEF n
<1>5. q \in Request
  BY <1>2, <1>4, Zenon DEF Request
<1>6. /\ q.op = "evict" /\ q.prop = p /\ q.doc = doc
      /\ q.pc = "readTenant" /\ q.tid = old.tenant /\ q.seen = NoTenants
  BY <1>4, SMT DEF Request
<1> HIDE DEF q
<1>7. GoodRequest(q, tenant) /\ ~Inserting(q)
  BY <1>1, <1>3, <1>5, <1>6, TenantNamed
<1> QED
  BY <1>1, <1>7, RequestStep

LEMMA CreateBookingStep ==
    ASSUME IInv, NEW r \in Requests, NEW p \in Properties, CreateBookingAsync(r, p)
    PROVE  IInv'
<1> DEFINE old == property[p]
           doc == MarkBooked(old)
           log == doc.status # old.status
           n == New("book", p, "count", doc)
           q == [n EXCEPT !.log = log]
<1>1. Continue(r, q) /\ CanMarkBooked(old) /\ UNCHANGED db
  BY DEF CreateBookingAsync
<1>2. /\ doc \in PropertyDoc /\ TenancyMatchesStatus(doc)
      /\ doc.tenant # None => OnFile(tenant, doc.tenant, p)
  BY <1>1, ReadProperty, DomainMethods
<1>3. log \in BOOLEAN
  OBVIOUS
<1> HIDE DEF doc, log
<1>4. /\ n \in Request /\ n.op = "book" /\ n.prop = p /\ n.doc = doc
      /\ n.pc = "count" /\ n.tid = None /\ n.seen = NoTenants
  BY <1>2, NewRequest DEF AllOps, Calls
<1> HIDE DEF n
<1>5. q \in Request
  BY <1>3, <1>4, Zenon DEF Request
<1>6. /\ q.op = "book" /\ q.prop = p /\ q.doc = doc
      /\ q.pc = "count" /\ q.tid = None /\ q.seen = NoTenants
  BY <1>4, SMT DEF Request
<1> HIDE DEF q
<1>7. GoodRequest(q, tenant) /\ ~Inserting(q)
  BY <1>2, <1>5, <1>6, NewGood DEF AllOps, Calls
<1> QED
  BY <1>1, <1>7, RequestStep

LEMMA SetBookingAnnouncementStep ==
    ASSUME IInv, NEW r \in Requests, NEW p \in Properties, NEW isPosted \in BOOLEAN,
           SetBookingAnnouncementAsync(r, p, isPosted)
    PROVE  IInv'
<1> DEFINE doc == SetBookingAnnouncementPosted(property[p], isPosted)
           q == New("announce", p, "count", doc)
<1>1. Continue(r, q) /\ UNCHANGED db
  BY DEF SetBookingAnnouncementAsync
<1>2. /\ doc \in PropertyDoc /\ TenancyMatchesStatus(doc)
      /\ doc.tenant # None => OnFile(tenant, doc.tenant, p)
  BY ReadProperty, Announcements
<1> HIDE DEF doc
<1>3. /\ q \in Request /\ q.op = "announce" /\ q.prop = p /\ q.doc = doc
      /\ q.pc = "count" /\ q.tid = None /\ q.seen = NoTenants
  BY <1>2, NewRequest DEF AllOps, Calls
<1> HIDE DEF q
<1>4. GoodRequest(q, tenant) /\ ~Inserting(q)
  BY <1>2, <1>3, NewGood DEF AllOps, Calls
<1> QED
  BY <1>1, <1>4, RequestStep

LEMMA CancelBookingStep ==
    ASSUME IInv, NEW r \in Requests, NEW p \in Properties, NEW b \in Bookings,
           CancelBookingAsync(r, p, b)
    PROVE  IInv'
<1> DEFINE doc == property[p]
           n == New("cancel", p, "readBooking", doc)
           q == [n EXCEPT !.bid = b]
<1>1. Continue(r, q) /\ UNCHANGED db
  BY DEF CancelBookingAsync
<1>2. /\ doc \in PropertyDoc /\ TenancyMatchesStatus(doc)
      /\ doc.tenant # None => OnFile(tenant, doc.tenant, p)
  BY ReadProperty
<1> HIDE DEF doc
<1>3. /\ n \in Request /\ n.op = "cancel" /\ n.prop = p /\ n.doc = doc
      /\ n.pc = "readBooking" /\ n.tid = None /\ n.seen = NoTenants
  BY <1>2, NewRequest DEF AllOps, Calls
<1> HIDE DEF n
<1>4. q \in Request
  BY <1>3, Zenon DEF Request
<1>5. /\ q.op = "cancel" /\ q.prop = p /\ q.doc = doc
      /\ q.pc = "readBooking" /\ q.tid = None /\ q.seen = NoTenants
  BY <1>3, SMT DEF Request
<1> HIDE DEF q
<1>6. GoodRequest(q, tenant) /\ ~Inserting(q)
  BY <1>2, <1>4, <1>5, NewGood DEF AllOps, Calls
<1> QED
  BY <1>1, <1>6, RequestStep

LEMMA CloseAllBookingsStep ==
    ASSUME IInv, NEW r \in Requests, NEW p \in Properties, CloseAllBookingsAsync(r, p)
    PROVE  IInv'
<1> DEFINE doc == property[p]
           q == New("closeAll", p, "count", doc)
<1>1. Continue(r, q) /\ UNCHANGED db
  BY DEF CloseAllBookingsAsync
<1>2. /\ doc \in PropertyDoc /\ TenancyMatchesStatus(doc)
      /\ doc.tenant # None => OnFile(tenant, doc.tenant, p)
  BY ReadProperty
<1> HIDE DEF doc
<1>3. /\ q \in Request /\ q.op = "closeAll" /\ q.prop = p /\ q.doc = doc
      /\ q.pc = "count" /\ q.tid = None /\ q.seen = NoTenants
  BY <1>2, NewRequest DEF AllOps, Calls
<1> HIDE DEF q
<1>4. GoodRequest(q, tenant) /\ ~Inserting(q)
  BY <1>2, <1>3, NewGood DEF AllOps, Calls
<1> QED
  BY <1>1, <1>4, RequestStep

\* What a sync reads of the tenants is on file.
LEMMA SyncStep ==
    ASSUME IInv, NEW r \in Requests, NEW p \in Properties, SyncAsync(r, p)
    PROVE  IInv'
<1> DEFINE doc == property[p]
           q1 == New("sync", p, "readTenants", doc)
           n == New("sync", p, "readProperty", NoProperty)
           q2 == [n EXCEPT !.seen = tenant]
<1>1. (Continue(r, q1) \/ Continue(r, q2)) /\ UNCHANGED db
  BY DEF SyncAsync
<1>2. /\ doc \in PropertyDoc /\ TenancyMatchesStatus(doc)
      /\ doc.tenant # None => OnFile(tenant, doc.tenant, p)
  BY ReadProperty
<1> HIDE DEF doc
<1>3. GoodRequest(q1, tenant) /\ ~Inserting(q1)
  <2>1. /\ q1 \in Request /\ q1.op = "sync" /\ q1.prop = p /\ q1.doc = doc
        /\ q1.pc = "readTenants" /\ q1.tid = None /\ q1.seen = NoTenants
    BY <1>2, NewRequest DEF AllOps, Calls
  <2> HIDE DEF q1
  <2> QED
    BY <1>2, <2>1, NewGood DEF AllOps, Calls
<1>4. GoodRequest(q2, tenant) /\ ~Inserting(q2)
  <2>1. /\ n \in Request /\ n.op = "sync" /\ n.prop = p /\ n.doc = NoProperty
        /\ n.pc = "readProperty" /\ n.tid = None
    BY NoPropertyType, NewRequest DEF AllOps, Calls
  <2> HIDE DEF n
  <2>2. q2 \in Request
    BY <2>1, Zenon DEF Request, IInv, TypeOK
  <2>3. /\ q2.op = "sync" /\ q2.prop = p /\ q2.doc = NoProperty
        /\ q2.pc = "readProperty" /\ q2.tid = None /\ q2.seen = tenant
    BY <2>1, SMT DEF Request
  <2> HIDE DEF q2
  <2>4. NoProperty.tenant = None
    BY DEF NoProperty
  <2>5. \A t \in Tenants : tenant[t].status # "absent" => OnFile(tenant, t, tenant[t].home)
    BY DEF OnFile
  <2>6. ~Inserting(q2)
    BY <2>3 DEF Inserting
  <2> QED
    BY <2>2, <2>3, <2>4, <2>5, <2>6, NoPropertyType, SMT DEF GoodRequest
<1> HIDE DEF q1, q2
<1> QED
  BY <1>1, <1>3, <1>4, RequestStep

LEMMA ArriveStep ==
    ASSUME IInv, NEW r \in Requests, NEW p \in Properties, Arrive(r, p)
    PROVE  IInv'
  BY UpdateStep, ChangeStatusStep, DeleteStep, AssignTenantStep, UpdateTenantStep, EvictStep,
     CreateBookingStep, SetBookingAnnouncementStep, CancelBookingStep, CloseAllBookingsStep,
     SyncStep DEF Arrive

-----------------------------------------------------------------------------
(* Requests that read on *)

LEMMA AbortStep ==
    ASSUME IInv, NEW r \in Requests, Abort(r)
    PROVE  IInv'
<1> DEFINE q == [request[r] EXCEPT !.pc = "idle"]
<1>1. Continue(r, q) /\ UNCHANGED db /\ request[r] \in Request
  BY DEF Abort, IInv, TypeOK
<1>2. q.pc = "idle"
  BY <1>1, SMT DEF Request
<1>3. ~Inserting(q)
  BY <1>2 DEF Inserting
<1> HIDE DEF q
<1> QED
  BY <1>1, <1>2, <1>3, RequestStep

LEMMA ReadTenantStep ==
    ASSUME IInv, NEW r \in Requests, ReadTenant(r)
    PROVE  IInv'
<1> DEFINE q == request[r]
           pc == IF CanWriteTenant(q) THEN "store" ELSE "idle"
           n == [q EXCEPT !.pc = pc]
<1>1. Continue(r, n) /\ UNCHANGED db /\ q.pc = "readTenant" /\ GoodRequest(q, tenant)
  BY DEF ReadTenant, IInv
<1>2. q.tid # None /\ q.op \notin {"assign", "import"} /\ ~Inserting(q)
  BY <1>1 DEF GoodRequest, Inserting
<1>3. pc \in Calls /\ pc \in {"store", "idle"}
  BY DEF Calls
<1> HIDE DEF pc, q
<1>4. GoodRequest(n, tenant) /\ ~Inserting(n)
  <2>1. GoodRequest(n, tenant)
    BY <1>1, <1>2, <1>3, Advance
  <2>2. n.op = q.op
    BY <1>1, SMT DEF GoodRequest, Request
  <2> QED
    BY <1>2, <2>1, <2>2 DEF Inserting
<1> HIDE DEF n
<1> QED
  BY <1>1, <1>4, RequestStep

LEMMA ReadBookingStep ==
    ASSUME IInv, NEW r \in Requests, ReadBooking(r)
    PROVE  IInv'
<1> DEFINE q == request[r]
           pc == IF q.bid \in ActiveBookings(q.prop) THEN "writeBooking" ELSE "idle"
           n == [q EXCEPT !.pc = pc]
<1>1. Continue(r, n) /\ UNCHANGED db /\ q.pc = "readBooking" /\ GoodRequest(q, tenant)
  BY DEF ReadBooking, IInv
<1>2. ~Inserting(q) /\ q.op = "cancel"
  BY <1>1 DEF Inserting, GoodRequest
<1>3. pc \in Calls /\ pc \in {"writeBooking", "idle"}
  BY DEF Calls
<1> HIDE DEF pc, q
<1>4. GoodRequest(n, tenant) /\ ~Inserting(n)
  BY <1>1, <1>2, <1>3, Advance
<1> HIDE DEF n
<1> QED
  BY <1>1, <1>4, RequestStep

LEMMA ReleasedGood ==
    ASSUME NEW tn, NEW q, GoodRequest(q, tn), q.pc # "idle", ~Inserting(q)
    PROVE  GoodRequest(Released(q), tn) /\ ~Inserting(Released(q))
<1> DEFINE free == q.doc.status = "Booked"
           kept == IF free THEN MakeAvailable(q.doc) ELSE q.doc
           doc == ClearBookingAnnouncement(kept)
           n == [q EXCEPT !.pc = "write", !.log = free, !.doc = doc]
<1>1. q \in Request /\ q.doc \in PropertyDoc /\ TenancyMatchesStatus(q.doc)
  BY DEF GoodRequest, Request
<1>2. CASE free => CanMakeAvailable(q.doc)
  <2>1. kept \in PropertyDoc /\ TenancyMatchesStatus(kept) /\ kept.tenant = q.doc.tenant
    BY <1>1, <1>2, DomainMethods
  <2> HIDE DEF kept
  <2>2. doc \in PropertyDoc /\ TenancyMatchesStatus(doc) /\ doc.tenant = q.doc.tenant
    BY <2>1, Announcements
  <2>3. doc.tenant # None => OnFile(tn, doc.tenant, q.prop)
    BY <2>2 DEF GoodRequest
  <2>4. free \in BOOLEAN
    OBVIOUS
  <2>5. Released(q) = n
    BY <1>2 DEF Released, kept
  <2> HIDE DEF doc, free
  <2>6. n \in Request
    BY <1>1, <2>2, <2>4, Zenon DEF Request, Calls
  <2>7. /\ n.op = q.op /\ n.prop = q.prop /\ n.tid = q.tid /\ n.seen = q.seen
        /\ n.pc = "write" /\ n.doc = doc
    BY <1>1, SMT DEF Request
  <2> HIDE DEF n
  <2> QED
    BY <2>2, <2>3, <2>5, <2>6, <2>7, AdvanceWith
<1>3. CASE ~(free => CanMakeAvailable(q.doc))
  <2>1. Released(q) = [q EXCEPT !.pc = "idle"]
    BY <1>3 DEF Released
  <2> QED
    BY <2>1, Advance DEF Calls
<1> QED
  BY <1>2, <1>3

LEMMA CountBookingsStep ==
    ASSUME IInv, NEW r \in Requests, CountBookings(r)
    PROVE  IInv'
<1> DEFINE q == request[r]
           none == ActiveBookings(q.prop) = {}
           n == Counted(q, none)
<1>1. Continue(r, n) /\ UNCHANGED db /\ q.pc = "count" /\ GoodRequest(q, tenant)
  BY DEF CountBookings, IInv
<1> HIDE DEF q, none
<1>2. /\ ~Inserting(q) /\ q \in Request /\ q.doc \in PropertyDoc
      /\ q.op \in {"book", "announce", "cancel", "closeAll"}
      /\ TenancyMatchesStatus(q.doc)
      /\ q.doc.tenant # None => OnFile(tenant, q.doc.tenant, q.prop)
  BY <1>1 DEF Inserting, GoodRequest, Request
<1>3. GoodRequest(n, tenant) /\ ~Inserting(n)
  <2>1. CASE q.op = "book"
    <3> DEFINE doc == IF none THEN StartBookingAnnouncement(q.doc) ELSE q.doc
               m == [q EXCEPT !.pc = "insert", !.doc = doc]
    <3>1. doc \in PropertyDoc /\ TenancyMatchesStatus(doc) /\ doc.tenant = q.doc.tenant
      BY <1>2, Announcements
    <3>2. n = m
      BY <2>1, <1>2, SMT DEF Counted, Request
    <3> HIDE DEF doc
    <3>3. m \in Request
      BY <1>2, <3>1, Zenon DEF Request, Calls
    <3>4. /\ m.op = q.op /\ m.prop = q.prop /\ m.tid = q.tid /\ m.seen = q.seen
          /\ m.pc = "insert" /\ m.doc = doc
      BY <1>2, SMT DEF Request
    <3> HIDE DEF m, n
    <3> QED
      BY <1>1, <1>2, <3>1, <3>2, <3>3, <3>4, AdvanceWith
  <2>2. CASE q.op = "announce"
    <3>1. n = [q EXCEPT !.pc = IF none THEN "idle" ELSE "write"]
      BY <2>2 DEF Counted
    <3> HIDE DEF n
    <3> QED
      BY <1>1, <1>2, <3>1, Advance DEF Calls
  <2>3. CASE q.op = "closeAll"
    <3>1. n = [q EXCEPT !.pc = IF none THEN "idle" ELSE "close"]
      BY <2>3 DEF Counted
    <3> HIDE DEF n
    <3> QED
      BY <1>1, <1>2, <3>1, Advance DEF Calls
  <2>4. CASE q.op = "cancel"
    <3>1. n = IF none THEN Released(q) ELSE [q EXCEPT !.pc = "idle"]
      BY <2>4 DEF Counted
    <3> HIDE DEF n
    <3> QED
      BY <1>1, <1>2, <3>1, Advance, ReleasedGood DEF Calls
  <2> QED
    BY <1>2, <2>1, <2>2, <2>3, <2>4
<1> HIDE DEF n
<1> QED
  BY <1>1, <1>3, RequestStep

-----------------------------------------------------------------------------
(* A rent sync *)

LEMMA SyncReadTenantsStep ==
    ASSUME IInv, NEW r \in Requests, SyncReadTenants(r)
    PROVE  IInv'
<1> DEFINE q == request[r]
           n == [q EXCEPT !.pc = "row", !.seen = tenant]
<1>1. Continue(r, n) /\ UNCHANGED db /\ q.pc = "readTenants" /\ GoodRequest(q, tenant)
  BY DEF SyncReadTenants, IInv
<1>2. q \in Request /\ tenant \in [Tenants -> TenantDoc]
  BY DEF IInv, TypeOK
<1> HIDE DEF q
<1>3. n \in Request
  BY <1>2, Zenon DEF Request, Calls
<1>4. /\ n.op = q.op /\ n.prop = q.prop /\ n.tid = q.tid /\ n.doc = q.doc
      /\ n.pc = "row" /\ n.seen = tenant
  BY <1>2, SMT DEF Request
<1> HIDE DEF n
<1>5. ~Inserting(q) /\ ~Inserting(n)
  BY <1>1, <1>4 DEF Inserting
<1>6. \A t \in Tenants : tenant[t].status # "absent" => OnFile(tenant, t, tenant[t].home)
  BY DEF OnFile
<1>7. GoodRequest(n, tenant)
  BY <1>1, <1>3, <1>4, <1>5, <1>6, SMT DEF GoodRequest
<1> QED
  BY <1>1, <1>5, <1>7, RequestStep

LEMMA SyncReadPropertyStep ==
    ASSUME IInv, NEW r \in Requests, SyncReadProperty(r)
    PROVE  IInv'
<1> DEFINE q == request[r]
           doc == property[q.prop]
           pc == IF doc.life = "live" THEN "row" ELSE "idle"
           n == [q EXCEPT !.pc = pc, !.doc = doc]
<1>1. Continue(r, n) /\ UNCHANGED db /\ q.pc = "readProperty" /\ GoodRequest(q, tenant)
  BY DEF SyncReadProperty, IInv
<1>2. q \in Request /\ q.prop \in Properties /\ ~Inserting(q)
  BY <1>1 DEF GoodRequest, Inserting
<1>3. /\ doc \in PropertyDoc /\ TenancyMatchesStatus(doc)
      /\ doc.tenant # None => OnFile(tenant, doc.tenant, q.prop)
  BY <1>2, ReadProperty
<1>4. pc \in {"row", "idle"}
  OBVIOUS
<1> HIDE DEF q, doc, pc
<1>5. n \in Request
  BY <1>2, <1>3, <1>4, Zenon DEF Request, Calls
<1>6. /\ n.op = q.op /\ n.prop = q.prop /\ n.tid = q.tid /\ n.seen = q.seen
      /\ n.pc = pc /\ n.doc = doc
  BY <1>2, SMT DEF Request
<1> HIDE DEF n
<1>7. GoodRequest(n, tenant) /\ ~Inserting(n)
  BY <1>1, <1>2, <1>3, <1>4, <1>5, <1>6, AdvanceWith
<1> QED
  BY <1>1, <1>7, RequestStep

LEMMA EmptyRowGood ==
    ASSUME NEW tn, NEW q, GoodRequest(q, tn), q.pc = "row"
    PROVE  GoodRequest(EmptyRow(q), tn) /\ ~Inserting(EmptyRow(q))
<1> DEFINE doc == MakeAvailable(q.doc)
           n == [q EXCEPT !.pc = "write", !.log = TRUE, !.doc = doc]
<1>1. /\ q \in Request /\ q.doc \in PropertyDoc /\ TenancyMatchesStatus(q.doc)
      /\ ~Inserting(q)
      /\ q.doc.tenant # None => OnFile(tn, q.doc.tenant, q.prop)
  BY DEF GoodRequest, Request, Inserting
<1>2. CASE CanMakeAvailable(q.doc) /\ q.doc.status # "Available"
  <2>1. doc \in PropertyDoc /\ TenancyMatchesStatus(doc) /\ doc.tenant = q.doc.tenant
    BY <1>1, <1>2, DomainMethods
  <2>2. EmptyRow(q) = n
    BY <1>1, <1>2, SMT DEF EmptyRow, Request
  <2> HIDE DEF doc
  <2>3. n \in Request
    BY <1>1, <2>1, Zenon DEF Request, Calls
  <2>4. /\ n.op = q.op /\ n.prop = q.prop /\ n.tid = q.tid /\ n.seen = q.seen
        /\ n.pc = "write" /\ n.doc = doc
    BY <1>1, SMT DEF Request
  <2> HIDE DEF n
  <2> QED
    BY <1>1, <2>1, <2>2, <2>3, <2>4, AdvanceWith
<1>3. CASE ~(CanMakeAvailable(q.doc) /\ q.doc.status # "Available")
  <2>1. EmptyRow(q) = [q EXCEPT !.pc = "idle"]
    BY <1>3 DEF EmptyRow
  <2>2. q.pc # "idle" /\ "idle" \in Calls
    BY DEF Calls
  <2> HIDE DEF n
  <2> QED
    BY <1>1, <2>1, <2>2, Advance
<1> QED
  BY <1>2, <1>3

\* A row that names the tenant on file of the property.
LEMMA TenantRowGood ==
    ASSUME NEW tn, NEW q, GoodRequest(q, tn), q.pc = "row",
           NEW t \in Tenants, OnFile(tn, t, q.prop),
           NEW status \in {"Active", "Evicted"}, NEW target \in Rental,
           NEW force \in BOOLEAN, NEW tenantChanged \in BOOLEAN
    PROVE  LET n == TenantRow(q, t, status, target, force, tenantChanged)
           IN  GoodRequest(n, tn) /\ ~Inserting(n)
<1> DEFINE doc == ApplyRentStatus(SetTenantForPersistence(q.doc, t), target)
           moved == target # q.doc.status
           tid == IF tenantChanged THEN t ELSE None
           next == [q EXCEPT !.doc = doc, !.log = moved, !.tstatus = status, !.tid = tid]
           pc == IF moved \/ force THEN "write" ELSE AfterLog(next)
           n == [next EXCEPT !.pc = pc]
<1>1. q \in Request /\ q.doc \in PropertyDoc /\ ~Inserting(q)
  BY DEF GoodRequest, Request, Inserting
<1>2. doc \in PropertyDoc /\ TenancyMatchesStatus(doc) /\ doc.tenant = t
  BY <1>1, SyncMethods
<1>3. moved \in BOOLEAN /\ tid \in Tenants \cup {None} /\ tid \in {t, None}
  OBVIOUS
<1>4. TenantRow(q, t, status, target, force, tenantChanged) = n
  BY DEF TenantRow
<1> HIDE DEF doc, moved, tid
<1>5. next \in Request
  BY <1>1, <1>2, <1>3, Zenon DEF Request
<1>6. /\ next.op = q.op /\ next.prop = q.prop /\ next.seen = q.seen
      /\ next.doc = doc /\ next.tid = tid
  BY <1>1, SMT DEF Request
<1> HIDE DEF next
<1>7. pc \in {"write", "close", "tenant", "idle"} /\ (pc = "tenant" => tid # None)
  BY <1>6 DEF AfterLog
<1> HIDE DEF pc
<1>8. n \in Request
  BY <1>5, <1>7, Zenon DEF Request, Calls
<1>9. /\ n.op = q.op /\ n.prop = q.prop /\ n.seen = q.seen
      /\ n.doc = doc /\ n.tid = tid /\ n.pc = pc
  BY <1>5, <1>6, SMT DEF Request
<1> HIDE DEF n
<1>10. ~Inserting(n)
  BY <1>7, <1>9 DEF Inserting
<1>11. GoodRequest(n, tn)
  BY <1>1, <1>2, <1>3, <1>7, <1>8, <1>9, <1>10, SMT DEF GoodRequest
<1> QED
  BY <1>4, <1>10, <1>11

\* A row that makes up a tenant: the property will refer to it once it is inserted.
LEMMA ImportRowGood ==
    ASSUME NEW tn, NEW q, GoodRequest(q, tn), q.pc = "row",
           NEW t \in Tenants, tn[t].status = "absent", NEW target \in Rental
    PROVE  LET n == ImportRow(q, t, target)
           IN  GoodRequest(n, tn) /\ n.tid = t
<1> DEFINE doc == SetStatusForPersistence(SetTenantForPersistence(q.doc, t), target)
           n == [q EXCEPT !.op = "import", !.pc = "store", !.log = TRUE, !.tid = t, !.doc = doc]
<1>1. q \in Request /\ q.doc \in PropertyDoc
  BY DEF GoodRequest, Request
<1>2. doc \in PropertyDoc /\ TenancyMatchesStatus(doc) /\ doc.tenant = t
  BY <1>1, SyncMethods
<1>3. ImportRow(q, t, target) = n
  BY <1>1, SMT DEF ImportRow, Request
<1> HIDE DEF doc
<1>4. n \in Request
  BY <1>1, <1>2, Zenon DEF Request, Calls, AllOps
<1>5. /\ n.op = "import" /\ n.prop = q.prop /\ n.seen = q.seen
      /\ n.doc = doc /\ n.tid = t /\ n.pc = "store"
  BY <1>1, SMT DEF Request
<1> HIDE DEF n
<1>6. Inserting(n)
  BY <1>5 DEF Inserting
<1>7. GoodRequest(n, tn)
  BY <1>2, <1>4, <1>5, <1>6, SMT DEF GoodRequest
<1> QED
  BY <1>3, <1>5, <1>7

LEMMA SyncRowStep ==
    ASSUME IInv, NEW r \in Requests, SyncRow(r)
    PROVE  IInv'
<1> DEFINE q == request[r]
<1>1. q.pc = "row" /\ UNCHANGED db /\ GoodRequest(q, tenant) /\ ~Inserting(q)
  BY DEF SyncRow, IInv, Inserting
<1>2. /\ q \in Request /\ q.doc \in PropertyDoc
      /\ q.doc.tenant # None => OnFile(tenant, q.doc.tenant, q.prop)
      /\ \A t \in Tenants : q.seen[t] \in TenantDoc /\ tenant[t] \in TenantDoc
      /\ \A t \in Tenants : q.seen[t].status # "absent" => OnFile(tenant, t, q.seen[t].home)
  BY <1>1 DEF GoodRequest, Request, IInv, TypeOK
<1>3. RowTargets(q.doc) \subseteq Rental
  BY SMT DEF RowTargets, TargetStatuses, Rental
<1>4. CASE Continue(r, [q EXCEPT !.pc = "idle"])
  BY <1>1, <1>4, Advance, RequestStep DEF Calls
<1>5. CASE Continue(r, EmptyRow(q))
  BY <1>1, <1>5, EmptyRowGood, RequestStep
<1>6. ASSUME CanApplyRentStatus(q.doc), SyncedTenant(q, q.doc.tenant).status # "absent",
             NEW target \in RowTargets(q.doc), NEW force \in BOOLEAN,
             NEW tenantChanged \in BOOLEAN,
             Continue(r, TenantRow(q, q.doc.tenant, SyncedTenant(q, q.doc.tenant).status,
                                   target, force, tenantChanged))
      PROVE  IInv'
  <2> DEFINE t == q.doc.tenant
             status == SyncedTenant(q, t).status
  <2>1. t \in Tenants /\ OnFile(tenant, t, q.prop)
    BY <1>2, <1>6 DEF CanApplyRentStatus, PropertyDoc
  <2>2. status \in {"Active", "Evicted"}
    BY <1>2, <1>6, <2>1 DEF SyncedTenant, TenantDoc
  <2>3. target \in Rental
    BY <1>3, <1>6
  <2> DEFINE n == TenantRow(q, t, status, target, force, tenantChanged)
  <2>4. GoodRequest(n, tenant) /\ ~Inserting(n)
    <3> HIDE DEF t, status, q
    <3> QED
      BY <1>1, <1>6, <2>1, <2>2, <2>3, TenantRowGood
  <2>5. Continue(r, n)
    BY <1>6
  <2> HIDE DEF n
  <2> QED
    BY <1>1, <2>4, <2>5, RequestStep
<1>7. ASSUME NEW t \in Tenants, NEW target \in RowTargets(q.doc), NEW tenantChanged \in BOOLEAN,
             q.seen[t] = [status |-> "Active", home |-> q.prop],
             Continue(r, TenantRow(q, t, "Active", target, TRUE, tenantChanged))
      PROVE  IInv'
  <2> DEFINE n == TenantRow(q, t, "Active", target, TRUE, tenantChanged)
  <2>1. OnFile(tenant, t, q.prop)
    BY <1>2, <1>7
  <2>2. target \in Rental
    BY <1>3, <1>7
  <2>3. GoodRequest(n, tenant) /\ ~Inserting(n)
    <3> HIDE DEF q
    <3> QED
      BY <1>1, <1>7, <2>1, <2>2, TenantRowGood
  <2>4. Continue(r, n)
    BY <1>7
  <2> HIDE DEF n
  <2> QED
    BY <1>1, <2>3, <2>4, RequestStep
<1>8. ASSUME NEW t \in Tenants, NEW target \in RowTargets(q.doc), FreshTenant(t),
             Continue(r, ImportRow(q, t, target))
      PROVE  IInv'
  <2> DEFINE n == ImportRow(q, t, target)
  <2>1. tenant[t].status = "absent" /\ \A s \in Requests : request[s].tid # t
    BY <1>8 DEF FreshTenant
  <2>2. target \in Rental
    BY <1>3, <1>8
  <2>3. GoodRequest(n, tenant) /\ n.tid = t
    <3> HIDE DEF q
    <3> QED
      BY <1>1, <1>8, <2>1, <2>2, ImportRowGood
  <2>4. Continue(r, n)
    BY <1>8
  <2> HIDE DEF n
  <2> QED
    BY <1>1, <2>1, <2>3, <2>4, RequestStep
<1> HIDE DEF q
<1> QED
  BY <1>4, <1>5, <1>6, <1>7, <1>8 DEF SyncRow, q

-----------------------------------------------------------------------------
(* Requests that write *)

\* Nothing a request relies on is about bookings or history.
LEMMA RecordStep ==
    ASSUME IInv, NEW r \in Requests, NEW q, UNCHANGED <<property, tenant>>,
           booking' \in [Bookings -> BookingDoc], history' \in [Properties -> PropertyStatus],
           Continue(r, q), GoodRequest(q, tenant), ~Inserting(q)
    PROVE  IInv'
<1>1. /\ request' \in [Requests -> Request] /\ InsertsDistinct'
      /\ \A s \in Requests : GoodRequest(request'[s], tenant)
  BY RequestsAfter DEF IInv, TypeOK
<1>2. \A s \in Requests : GoodRequest(request'[s], tenant')
  BY <1>1
<1>3. TypeOK' /\ DocumentsConsistent' /\ CurrentTenantOnFile'
  BY <1>1 DEF IInv, TypeOK, DocumentsConsistent, CurrentTenantOnFile
<1> QED
  BY <1>1, <1>2, <1>3 DEF IInv

LEMMA InsertBookingStep ==
    ASSUME IInv, NEW r \in Requests, NEW b \in Bookings, InsertBooking(r, b)
    PROVE  IInv'
<1> DEFINE q == request[r]
           n == [q EXCEPT !.pc = "write"]
           new == [status |-> "Active", home |-> q.prop]
<1>1. /\ Continue(r, n) /\ q.pc = "insert" /\ GoodRequest(q, tenant)
      /\ booking' = [booking EXCEPT ![b] = new] /\ UNCHANGED <<property, tenant, history>>
  BY DEF InsertBooking, IInv
<1>2. ~Inserting(q) /\ q.pc # "idle" /\ "write" \in Calls /\ q.prop \in Properties
  BY <1>1 DEF Inserting, Calls, GoodRequest
<1> HIDE DEF q
<1>3. GoodRequest(n, tenant) /\ ~Inserting(n)
  BY <1>1, <1>2, Advance
<1>4. new \in BookingDoc
  BY <1>2 DEF BookingDoc
<1> HIDE DEF n, new
<1>5. booking' \in [Bookings -> BookingDoc] /\ history' \in [Properties -> PropertyStatus]
  BY <1>1, <1>4 DEF IInv, TypeOK
<1> QED
  BY <1>1, <1>3, <1>5, RecordStep

LEMMA WriteBookingStep ==
    ASSUME IInv, NEW r \in Requests, WriteBooking(r)
    PROVE  IInv'
<1> DEFINE q == request[r]
           n == [q EXCEPT !.pc = "count"]
           new == [status |-> "Cancelled", home |-> q.prop]
<1>1. /\ Continue(r, n) /\ q.pc = "writeBooking" /\ GoodRequest(q, tenant)
      /\ booking' = [booking EXCEPT ![q.bid] = new] /\ UNCHANGED <<property, tenant, history>>
  BY DEF WriteBooking, IInv
<1>2. /\ ~Inserting(q) /\ q.pc # "idle" /\ "count" \in Calls /\ q.prop \in Properties
      /\ q.op = "cancel"
  BY <1>1 DEF Inserting, Calls, GoodRequest
<1> HIDE DEF q
<1>3. GoodRequest(n, tenant) /\ ~Inserting(n)
  BY <1>1, <1>2, Advance
<1>4. new \in BookingDoc
  BY <1>2 DEF BookingDoc
<1> HIDE DEF n, new
<1>5. booking' \in [Bookings -> BookingDoc] /\ history' \in [Properties -> PropertyStatus]
  BY <1>1, <1>4 DEF IInv, TypeOK
<1> QED
  BY <1>1, <1>3, <1>5, RecordStep

LEMMA CloseBookingsStep ==
    ASSUME IInv, NEW r \in Requests, CloseBookings(r)
    PROVE  IInv'
<1> DEFINE q == request[r]
           n == CASE q.op = "assign" -> [q EXCEPT !.pc = "idle"]
                  [] q.op = "closeAll" -> Released(q)
                  [] OTHER -> [q EXCEPT !.pc = "write"]
           outcome == IF q.op = "assign" THEN "Converted" ELSE "Cancelled"
<1>1. /\ Continue(r, n) /\ q.pc = "close" /\ GoodRequest(q, tenant)
      /\ booking' = [b \in Bookings |->
                IF b \in ActiveBookings(q.prop) THEN [booking[b] EXCEPT !.status = outcome]
                ELSE booking[b]]
      /\ UNCHANGED <<property, tenant, history>>
  BY DEF CloseBookings, IInv
<1>2. ~Inserting(q) /\ q.pc # "idle" /\ {"idle", "write"} \subseteq Calls
  BY <1>1 DEF Inserting, Calls
<1> HIDE DEF q
<1>3. GoodRequest(n, tenant) /\ ~Inserting(n)
  BY <1>1, <1>2, Advance, ReleasedGood
<1>4. outcome \in {"Converted", "Cancelled"}
  OBVIOUS
<1> HIDE DEF n, outcome
<1>5. \A b \in Bookings : [booking[b] EXCEPT !.status = outcome] \in BookingDoc
  BY <1>4, Zenon DEF IInv, TypeOK, BookingDoc
<1>6. booking' \in [Bookings -> BookingDoc] /\ history' \in [Properties -> PropertyStatus]
  BY <1>1, <1>5 DEF IInv, TypeOK
<1> QED
  BY <1>1, <1>3, <1>6, RecordStep

LEMMA AfterLogCalls ==
    ASSUME NEW q
    PROVE  /\ AfterLog(q) \in {"close", "tenant", "idle"} /\ AfterWrite(q) \in {"log", "close", "tenant", "idle"}
           /\ "tenant" \in {AfterLog(q), AfterWrite(q)} => q.tid # None
           /\ {AfterLog(q), AfterWrite(q)} \subseteq Calls
  BY DEF AfterLog, AfterWrite, Calls

LEMMA WriteHistoryStep ==
    ASSUME IInv, NEW r \in Requests, WriteHistory(r)
    PROVE  IInv'
<1> DEFINE q == request[r]
           n == [q EXCEPT !.pc = AfterLog(q)]
<1>1. /\ Continue(r, n) /\ q.pc = "log" /\ GoodRequest(q, tenant)
      /\ history' = [history EXCEPT ![q.prop] = q.doc.status]
      /\ UNCHANGED <<property, tenant, booking>>
  BY DEF WriteHistory, IInv
<1>2. ~Inserting(q) /\ q.pc # "idle" /\ q.doc.status \in PropertyStatus
  BY <1>1 DEF Inserting, GoodRequest, Request, PropertyDoc
<1> HIDE DEF q
<1>3. GoodRequest(n, tenant) /\ ~Inserting(n)
  BY <1>1, <1>2, AfterLogCalls, Advance
<1> HIDE DEF n
<1>4. booking' \in [Bookings -> BookingDoc] /\ history' \in [Properties -> PropertyStatus]
  BY <1>1, <1>2 DEF IInv, TypeOK
<1> QED
  BY <1>1, <1>3, <1>4, RecordStep

\* A stale copy may replace a newer document, but never makes an inconsistent one.
LEMMA PropertyWritten ==
    ASSUME IInv, NEW p \in Properties, NEW doc \in PropertyDoc, TenancyMatchesStatus(doc),
           doc.tenant # None => OnFile(tenant', doc.tenant, p),
           \A t \in Tenants, h \in Properties : OnFile(tenant, t, h) => OnFile(tenant', t, h),
           property' = [property EXCEPT ![p] = doc]
    PROVE  /\ property' \in [Properties -> PropertyDoc]
           /\ DocumentsConsistent' /\ CurrentTenantOnFile'
<1>1. property \in [Properties -> PropertyDoc]
  BY DEF IInv, TypeOK
<1>2. \A h \in Properties : property'[h] = IF h = p THEN doc ELSE property[h]
  BY <1>1
<1>3. property' \in [Properties -> PropertyDoc]
  BY <1>1
<1>4. DocumentsConsistent'
  BY <1>2, ReadProperty DEF DocumentsConsistent, TenancyMatchesStatus
<1>5. ASSUME NEW h \in Properties, property'[h].tenant # None
      PROVE  OnFile(tenant', property'[h].tenant, h)
  <2>1. property[h].tenant \in Tenants \cup {None}
    BY <1>1 DEF PropertyDoc
  <2> QED
    BY <1>2, <1>5, <2>1, ReadProperty
<1>6. CurrentTenantOnFile'
  BY <1>5 DEF CurrentTenantOnFile, OnFile
<1> QED
  BY <1>3, <1>4, <1>6

LEMMA WritePropertyStep ==
    ASSUME IInv, NEW r \in Requests, WriteProperty(r)
    PROVE  IInv'
<1> DEFINE q == request[r]
           n == [q EXCEPT !.pc = AfterWrite(q)]
<1>1. /\ Continue(r, n) /\ q.pc = "write" /\ GoodRequest(q, tenant)
      /\ property' = [property EXCEPT ![q.prop] = q.doc]
      /\ UNCHANGED <<tenant, booking, history>>
  BY DEF WriteProperty, IInv
<1>2. /\ ~Inserting(q) /\ q.pc # "idle" /\ q.prop \in Properties
      /\ q.doc \in PropertyDoc /\ TenancyMatchesStatus(q.doc)
      /\ q.doc.tenant # None => OnFile(tenant, q.doc.tenant, q.prop)
  BY <1>1 DEF Inserting, GoodRequest, Request
<1> HIDE DEF q
<1>3. GoodRequest(n, tenant) /\ ~Inserting(n)
  BY <1>1, <1>2, AfterLogCalls, Advance
<1> HIDE DEF n
<1>4. /\ property' \in [Properties -> PropertyDoc]
      /\ DocumentsConsistent' /\ CurrentTenantOnFile'
  BY <1>1, <1>2, PropertyWritten
<1>5. /\ request' \in [Requests -> Request] /\ InsertsDistinct'
      /\ \A s \in Requests : GoodRequest(request'[s], tenant)
  BY <1>1, <1>3, RequestsAfter DEF IInv, TypeOK
<1>6. \A s \in Requests : GoodRequest(request'[s], tenant')
  BY <1>1, <1>5
<1>7. TypeOK'
  BY <1>1, <1>4, <1>5 DEF IInv, TypeOK
<1> QED
  BY <1>4, <1>5, <1>6, <1>7 DEF IInv

LEMMA CreateStep ==
    ASSUME IInv, NEW p \in Properties, NEW active \in BOOLEAN, NEW allow \in BOOLEAN,
           CreateAsync(p, active, allow)
    PROVE  IInv'
<1> DEFINE doc == [NoProperty EXCEPT !.life = "live", !.active = active, !.allowOccupied = allow]
<1>1. property' = [property EXCEPT ![p] = doc] /\ UNCHANGED <<tenant, booking, history, request>>
  BY DEF CreateAsync
<1>2. doc \in PropertyDoc
  BY NoPropertyType, Zenon DEF PropertyDoc
<1>3. doc.tenant = None /\ TenancyMatchesStatus(doc)
  BY SMT DEF NoProperty, TenancyMatchesStatus, Rental
<1> HIDE DEF doc
<1>4. /\ property' \in [Properties -> PropertyDoc]
      /\ DocumentsConsistent' /\ CurrentTenantOnFile'
  BY <1>1, <1>2, <1>3, PropertyWritten
<1> QED
  BY <1>1, <1>4 DEF IInv, TypeOK, InsertsDistinct

\* A tenant written by its request: whoever is on file stays on file where it was.
LEMMA TenantStored ==
    ASSUME IInv, NEW r \in Requests, NEW q, q = request[r], q.pc \in {"store", "tenant"},
           TenantWritten(q)
    PROVE  /\ tenant' \in [Tenants -> TenantDoc]
           /\ \A t \in Tenants : \A h : OnFile(tenant, t, h) => OnFile(tenant', t, h)
           /\ q.tid \in Tenants /\ OnFile(tenant', q.tid, q.prop)
           /\ q.doc.tenant # None => OnFile(tenant', q.doc.tenant, q.prop)
           /\ \A s \in Requests : s # r => GoodRequest(request[s], tenant')
<1>1. /\ GoodRequest(q, tenant) /\ q \in Request /\ q.tid \in Tenants /\ q.prop \in Properties
      /\ q.doc.tenant \in Tenants \cup {None} /\ q.tstatus \in {"Active", "Evicted"}
  BY DEF IInv, GoodRequest, Request, PropertyDoc
<1> DEFINE new == [status |-> q.tstatus, home |-> q.prop]
<1>2. tenant' = [tenant EXCEPT ![q.tid] = new] /\ new \in TenantDoc
      /\ new.status # "absent" /\ new.home = q.prop
  BY <1>1 DEF TenantWritten, TenantDoc
<1> HIDE DEF new
<1>3. tenant \in [Tenants -> TenantDoc]
  BY DEF IInv, TypeOK
<1>4. tenant' \in [Tenants -> TenantDoc]
  BY <1>2, <1>3
<1>5. \A t \in Tenants : tenant'[t] = IF t = q.tid THEN new ELSE tenant[t]
  BY <1>2, <1>3
<1>6. OnFile(tenant', q.tid, q.prop)
  BY <1>1, <1>2, <1>5 DEF OnFile
<1>7. ASSUME NEW t \in Tenants, NEW h, OnFile(tenant, t, h)
      PROVE  OnFile(tenant', t, h)
  <2>1. CASE t = q.tid
    <3>1. OnFile(tenant, t, q.prop)
      BY <1>1, <1>7, <2>1 DEF GoodRequest, OnFile
    <3> QED
      BY <1>6, <1>7, <2>1, <3>1 DEF OnFile
  <2>2. CASE t # q.tid
    BY <1>5, <1>7, <2>2 DEF OnFile
  <2> QED
    BY <2>1, <2>2
<1>8. q.doc.tenant # None => OnFile(tenant', q.doc.tenant, q.prop)
  BY <1>1, <1>6, <1>7 DEF GoodRequest
<1>9. ASSUME NEW s \in Requests, s # r
      PROVE  GoodRequest(request[s], tenant')
  <2> DEFINE p == request[s]
  <2>1. /\ GoodRequest(p, tenant) /\ p.tid \in Tenants \cup {None}
        /\ p.doc.tenant \in Tenants \cup {None}
    BY DEF IInv, GoodRequest, Request, PropertyDoc
  <2>2. Inserting(p) /\ p.tid # None => p.tid # q.tid
    <3>1. CASE Inserting(q)
      BY <1>9, <3>1 DEF IInv, InsertsDistinct
    <3>2. CASE ~Inserting(q)
      <4>1. tenant[q.tid].status # "absent"
        BY <1>1, <3>2 DEF GoodRequest, OnFile
      <4> QED
        BY <2>1, <4>1 DEF GoodRequest
    <3> QED
      BY <3>1, <3>2
  <2> HIDE DEF p
  <2>3. Inserting(p) /\ p.tid # None => tenant'[p.tid].status = "absent"
    BY <1>5, <2>1, <2>2 DEF GoodRequest
  <2>4. p.doc.tenant # None
        => OnFile(tenant', p.doc.tenant, p.prop) \/ (Inserting(p) /\ p.doc.tenant = p.tid)
    BY <1>7, <2>1 DEF GoodRequest
  <2>5. p.tid # None /\ ~Inserting(p) => OnFile(tenant', p.tid, p.prop)
    BY <1>7, <2>1 DEF GoodRequest
  <2>6. \A t \in Tenants : p.seen[t].status # "absent" => OnFile(tenant', t, p.seen[t].home)
    BY <1>7, <2>1 DEF GoodRequest
  <2>7. GoodRequest(p, tenant')
    BY <2>1, <2>3, <2>4, <2>5, <2>6 DEF GoodRequest
  <2> QED
    BY <2>7 DEF p
<1> QED
  BY <1>1, <1>4, <1>6, <1>7, <1>8, <1>9

\* The request goes on once its tenant is written: now it relies on a tenant on file.
LEMMA StoredGood ==
    ASSUME IInv, NEW r \in Requests, NEW q, q = request[r], q.pc \in {"store", "tenant"},
           TenantWritten(q), NEW pc \in {"write", "close", "tenant", "idle"}
    PROVE  GoodRequest([q EXCEPT !.pc = pc], tenant') /\ ~Inserting([q EXCEPT !.pc = pc])
<1> DEFINE n == [q EXCEPT !.pc = pc]
<1>1. GoodRequest(q, tenant) /\ q \in Request /\ q.prop \in Properties
  BY DEF IInv, GoodRequest
<1>2. n \in Request
  BY <1>1, Zenon DEF Request, Calls
<1>3. /\ n.pc = pc /\ n.op = q.op /\ n.prop = q.prop /\ n.doc = q.doc
      /\ n.tid = q.tid /\ n.seen = q.seen
  BY <1>1, SMT DEF Request
<1> HIDE DEF n
<1>4. /\ \A t \in Tenants : \A h : OnFile(tenant, t, h) => OnFile(tenant', t, h)
      /\ OnFile(tenant', q.tid, q.prop) /\ q.tid \in Tenants
      /\ q.doc.tenant # None => OnFile(tenant', q.doc.tenant, q.prop)
  BY TenantStored
<1>5. \A t \in Tenants : q.seen[t].status # "absent" => OnFile(tenant', t, q.seen[t].home)
  BY <1>1, <1>4 DEF GoodRequest
<1>6. ~Inserting(n)
  BY <1>3 DEF Inserting
<1>7. TenancyMatchesStatus(n.doc)
  BY <1>1, <1>3 DEF GoodRequest
<1>8. GoodRequest(n, tenant')
  BY <1>1, <1>2, <1>3, <1>4, <1>5, <1>6, <1>7 DEF GoodRequest
<1> QED
  BY <1>6, <1>8 DEF n

LEMMA StoreTransactionStep ==
    ASSUME IInv, NEW r \in Requests, StoreTransaction(r)
    PROVE  IInv'
<1> DEFINE q == request[r]
           n == [q EXCEPT !.pc = AfterLog(q)]
           tn == tenant'
<1>1. /\ Continue(r, n) /\ q.pc = "store" /\ TenantWritten(q) /\ GoodRequest(q, tenant)
      /\ property' = [property EXCEPT ![q.prop] = q.doc] /\ UNCHANGED booking
      /\ history' = IF q.log THEN [history EXCEPT ![q.prop] = q.doc.status] ELSE history
  BY DEF StoreTransaction, IInv
<1>2. /\ q.prop \in Properties /\ q.doc \in PropertyDoc /\ TenancyMatchesStatus(q.doc)
      /\ q.doc.status \in PropertyStatus
  BY <1>1 DEF GoodRequest, Request, PropertyDoc
<1>3. /\ tn \in [Tenants -> TenantDoc]
      /\ \A t \in Tenants : \A h : OnFile(tenant, t, h) => OnFile(tn, t, h)
      /\ q.doc.tenant # None => OnFile(tn, q.doc.tenant, q.prop)
      /\ \A s \in Requests : s # r => GoodRequest(request[s], tn)
  BY <1>1, TenantStored
<1>4. GoodRequest(n, tn) /\ ~Inserting(n)
  BY <1>1, StoredGood, AfterLogCalls
<1> HIDE DEF q, n
<1>5. /\ property' \in [Properties -> PropertyDoc]
      /\ DocumentsConsistent' /\ CurrentTenantOnFile'
  BY <1>1, <1>2, <1>3, PropertyWritten
<1>6. history' \in [Properties -> PropertyStatus]
  BY <1>1, <1>2 DEF IInv, TypeOK
<1>7. /\ request' \in [Requests -> Request] /\ InsertsDistinct'
      /\ \A s \in Requests : GoodRequest(request'[s], tn)
  <2> HIDE DEF tn
  <2> QED
    BY <1>1, <1>3, <1>4, RequestsAfter DEF IInv, TypeOK
<1>8. TypeOK'
  BY <1>1, <1>3, <1>5, <1>6, <1>7 DEF IInv, TypeOK
<1> QED
  BY <1>5, <1>7, <1>8 DEF IInv

\* A step that writes nothing but a tenant and moves its request on.
LEMMA TenantOnlyStep ==
    ASSUME IInv, NEW r \in Requests, NEW q, q = request[r], q.pc \in {"store", "tenant"},
           TenantWritten(q), NEW pc \in {"write", "close", "tenant", "idle"},
           Continue(r, [q EXCEPT !.pc = pc]), UNCHANGED <<property, booking, history>>
    PROVE  IInv'
<1> DEFINE n == [q EXCEPT !.pc = pc]
           tn == tenant'
<1>1. /\ tn \in [Tenants -> TenantDoc]
      /\ \A t \in Tenants : \A h : OnFile(tenant, t, h) => OnFile(tn, t, h)
      /\ \A s \in Requests : s # r => GoodRequest(request[s], tn)
  BY TenantStored
<1>2. GoodRequest(n, tn) /\ ~Inserting(n) /\ Continue(r, n)
  BY StoredGood
<1> HIDE DEF n
<1>3. /\ request' \in [Requests -> Request] /\ InsertsDistinct'
      /\ \A s \in Requests : GoodRequest(request'[s], tn)
  <2> HIDE DEF tn
  <2> QED
    BY <1>1, <1>2, RequestsAfter DEF IInv, TypeOK
<1>4. TypeOK' /\ DocumentsConsistent'
  BY <1>1, <1>3 DEF IInv, TypeOK, DocumentsConsistent
<1>5. ASSUME NEW p \in Properties, property[p].tenant # None
      PROVE  OnFile(tn, property[p].tenant, p)
  <2>1. property[p].tenant \in Tenants
    BY <1>5, ReadProperty DEF PropertyDoc
  <2> QED
    BY <1>1, <1>5, <2>1, ReadProperty
<1>6. CurrentTenantOnFile'
  BY <1>5 DEF CurrentTenantOnFile, OnFile
<1> QED
  BY <1>3, <1>4, <1>6 DEF IInv

LEMMA ProceedStep ==
    ASSUME IInv, NEW r \in Requests, Proceed(r)
    PROVE  IInv'
<1>1. CASE StoreTenant(r)
  BY <1>1, TenantOnlyStep DEF StoreTenant
<1>2. CASE WriteTenant(r)
  BY <1>2, TenantOnlyStep DEF WriteTenant
<1> QED
  BY <1>1, <1>2, ReadTenantStep, StoreTransactionStep, CountBookingsStep, InsertBookingStep,
     ReadBookingStep, WriteBookingStep, CloseBookingsStep, WritePropertyStep, WriteHistoryStep,
     SyncReadTenantsStep, SyncReadPropertyStep, SyncRowStep DEF Proceed

-----------------------------------------------------------------------------
(* The theorems *)

LEMMA Initially == Init => IInv
<1> SUFFICES ASSUME Init PROVE IInv
  OBVIOUS
<1>1. \A r \in Requests : GoodRequest(request[r], tenant)
  BY IdleGood DEF Init
<1>2. TypeOK
  <2>1. [status |-> "absent", home |-> None] \in BookingDoc /\ "Available" \in PropertyStatus
    BY DEF BookingDoc, PropertyStatus
  <2> QED
    BY <2>1, IdleType, NoPropertyType, NoTenantsType DEF Init, TypeOK
<1>3. NoProperty.tenant = None /\ TenancyMatchesStatus(NoProperty)
  BY NoPropertyType DEF NoProperty
<1>4. DocumentsConsistent /\ CurrentTenantOnFile
  BY <1>3 DEF Init, DocumentsConsistent, CurrentTenantOnFile
<1>5. ~Inserting(Idle)
  BY SMT DEF Idle, Inserting
<1>6. InsertsDistinct
  BY <1>5 DEF Init, InsertsDistinct
<1> QED
  BY <1>1, <1>2, <1>4, <1>6 DEF IInv

\* IInv is inductive.
THEOREM Inductive == Spec => []IInv
<1>1. IInv /\ [Next]_vars => IInv'
  <2> SUFFICES ASSUME IInv, [Next]_vars PROVE IInv'
    OBVIOUS
  <2>1. CASE UNCHANGED vars
    BY <2>1 DEF vars, IInv, TypeOK, DocumentsConsistent, CurrentTenantOnFile, InsertsDistinct
  <2> QED
    BY <2>1, CreateStep, ProceedStep, AbortStep, ArriveStep DEF Next
<1> QED
  BY Initially, <1>1, PTL DEF Spec

\* Every document and every request in flight is well formed.
THEOREM TypeCorrect == Spec => []TypeOK
<1>1. IInv => TypeOK
  BY DEF IInv
<1> QED
  BY Inductive, <1>1, PTL

\* No interleaving of whole-document replaces, no crash and no half-done fallback
\* stores a property whose status and tenant disagree.
THEOREM StatusAgreesWithTenant == Spec => []DocumentsConsistent
<1>1. IInv => DocumentsConsistent
  BY DEF IInv
<1> QED
  BY Inductive, <1>1, PTL

\* A property refers only to tenants on file that belong to it, with transactions
\* or without.
THEOREM NoDanglingTenant == Spec => []CurrentTenantOnFile
<1>1. IInv => CurrentTenantOnFile
  BY DEF IInv
<1> QED
  BY Inductive, <1>1, PTL

-----------------------------------------------------------------------------
(***************************************************************************)
(* What holds of requests that come one at a time (OneAtATime), wherever   *)
(* they die: the invariants that concurrent requests break, two action     *)
(* properties, and the refinement of Tenancy.                              *)
(*                                                                         *)
(* With one request in flight, the copies it holds are what is stored but  *)
(* for what its own handler has changed.  Flight says so for each handler, *)
(* and SInv adds it to IInv: there is a lemma per action, SerialStep       *)
(* combines them.  Some of SInv holds only on a replica set, only without  *)
(* failures, or only without deactivations.                                *)
(***************************************************************************)

USE NoneIsNoTenant DEF NoneIsNoTenant

\* The active bookings of p among bk.
Active(bk, p) == {b \in Bookings : bk[b] = [status |-> "Active", home |-> p]}

\* The database calls a request of each kind comes to, and which kinds never move a
\* status or always do.
OnRoute(q) ==
    /\ q.op = "update" => q.pc = "write" /\ ~q.log
    /\ q.op = "changeStatus" => q.pc \in {"close", "write", "log"}
    /\ q.op = "delete" => q.pc \in {"close", "write"} /\ ~q.log
    /\ q.op = "assign" => q.pc \in {"store", "write", "log", "close"} /\ q.log
    /\ q.op = "updateTenant" => q.pc \in {"readTenant", "store", "write"} /\ ~q.log
    /\ q.op = "evict" => q.pc \in {"readTenant", "store", "write", "log"}
    /\ q.op = "book" => q.pc \in {"count", "insert", "write", "log"}
    /\ q.op = "announce" => q.pc \in {"count", "write"} /\ ~q.log
    /\ q.op = "cancel" => q.pc \in {"readBooking", "writeBooking", "count", "write", "log"}
    /\ q.op = "closeAll" => q.pc \in {"count", "close", "write", "log"}
    /\ q.op = "sync" => q.pc \in {"readTenants", "readProperty", "row", "write", "log", "tenant"}
    /\ q.pc \in {"readTenants", "readProperty", "row"} => q.tid = None /\ q.tstatus = "Active"
    /\ q.op = "import" => q.pc \in {"store", "write", "log"}
    /\ q.op \notin {"none", "create", "deactivate"}
    /\ q.op \in {"assign", "updateTenant", "evict", "import"} /\ Transactional
       => q.pc \notin {"write", "log"}

(***************************************************************************)
(* Below, d is the document of the property q is about, A its active       *)
(* bookings and tn the tenant documents.                                   *)
(***************************************************************************)

\* A request is about a live property; only a deletion holds a copy that is not live.
AboutLive(q, d) ==
    /\ d.life = "live"
    /\ q.pc # "readProperty" => q.doc.life = IF q.op = "delete" THEN "deleted" ELSE "live"

\* A copy that is not changed yet, or is written already, is what is stored.
Accurate(q, d, A, tn) ==
    /\ q.pc \in {"readTenants", "row"} => q.doc = d
    /\ q.pc \in {"readProperty", "row"} => q.seen = tn
    /\ q.op \in {"cancel", "closeAll"} /\ q.pc \notin {"write", "log"} => q.doc = d /\ ~q.log
    /\ q.pc = "log" \/ (q.op = "assign" /\ q.pc = "close") => q.doc = d
    /\ q.pc = "writeBooking" => q.bid \in A

\* A tenant that is on file as evicted is written back as evicted.
KeepsEviction(q, tn) ==
    /\ q.op = "evict" => q.tstatus = "Evicted"
    /\ q.pc = "store" /\ q.tstatus = "Active" => tn[q.tid].status # "Evicted"
    /\ q.op = "sync" /\ q.pc \in {"write", "log", "tenant"} /\ q.tid # None
       => q.tstatus = tn[q.tid].status

\* A hold is in the copy that will be written, or a manager ends it.
KeepsHold(q, d) ==
    q.pc # "readProperty" /\ d.status = "OnHold" => q.doc.status = "OnHold" \/ q.manager

\* A copy that moves the status will be recorded.
WillRecord(q, d) ==
    q.pc \notin {"readProperty", "log"} /\ q.doc.status # d.status => q.log

\* What a request means to do with the occupant of its property.
KeepsOccupant(q, d) ==
    /\ q.op \in {"assign", "import"} /\ q.pc = "store"
       => d.tenant = None /\ q.doc.tenant = q.tid /\ q.tstatus = "Active"
    /\ q.op = "evict" => d.tenant = q.tid /\ q.tid # None /\ q.doc.tenant = None
    /\ q.op = "updateTenant"
       => d.tenant = q.tid /\ q.doc.tenant = d.tenant /\ q.tstatus = "Active"
    /\ q.op \notin {"assign", "import", "evict", "updateTenant"} /\ q.pc # "readProperty"
       => q.doc.tenant = d.tenant
    /\ q.op = "sync" /\ q.tid # None => q.tid = d.tenant /\ q.tstatus = "Active"

\* A live document that is booked or announced has active bookings, one that is not
\* live has none.
BookingsBack(d, A) ==
    IF d.life = "live" THEN d.status = "Booked" \/ d.announcement # "none" => A # {} ELSE A = {}

BookedIsActive(d) == d.life = "live" /\ d.status = "Booked" => d.active

\* The request has closed bookings and not written the property yet.
Releasing(q) ==
    \/ q.pc = "write" /\ q.op \in {"cancel", "closeAll", "changeStatus", "delete"}
    \/ q.pc = "count" /\ q.op = "cancel"

\* The copy that will be written agrees with the bookings.
KeepsBookings(q, A) ==
    /\ BookedIsActive(q.doc)
    /\ q.pc \in {"write", "store", "readTenant"} => BookingsBack(q.doc, A)
    /\ q.op = "assign" \/ (q.op = "changeStatus" /\ q.pc = "close")
       => q.doc.status # "Booked" /\ q.doc.announcement = "none"

NeverFails == ~MayFail

NeverDeactivates == ~MayFail /\ "deactivate" \notin Ops

\* What a request in flight may rely on when no other request is.
Flight(q, d, A, tn) ==
    /\ OnRoute(q)
    /\ AboutLive(q, d)
    /\ Accurate(q, d, A, tn)
    /\ KeepsEviction(q, tn)
    /\ KeepsHold(q, d)
    /\ NeverFails => WillRecord(q, d)
    /\ Transactional => KeepsOccupant(q, d)
    /\ NeverDeactivates => KeepsBookings(q, A)

AbsentIsBlank ==
    \A p \in Properties :
        property[p].life = "absent" => property[p] = NoProperty /\ history[p] = "Available"

\* The latest entry of the history is the status, unless it is just being written.
Recorded ==
    \A p \in Properties :
        \/ property[p].life = "absent"
        \/ history[p] = property[p].status
        \/ \E r \in Requests : request[r].pc = "log" /\ request[r].prop = p

\* The document agrees with the bookings, unless it is just being released.
Backed ==
    \A p \in Properties :
        /\ BookedIsActive(property[p])
        /\ \/ BookingsBack(property[p], Active(booking, p))
           \/ \E r \in Requests : Releasing(request[r]) /\ request[r].prop = p

InFlight ==
    \A r \in Requests :
        LET q == request[r]
        IN  q.pc # "idle" => Flight(q, property[q.prop], Active(booking, q.prop), tenant)

SInv ==
    /\ InFlight
    /\ AbsentIsBlank
    /\ NeverFails => Recorded
    /\ Transactional => OccupantsActive
    /\ NeverDeactivates => Backed

-----------------------------------------------------------------------------
(* One step *)

LEMMA InvTypes ==
    ASSUME IInv, NEW r \in Requests
    PROVE  /\ request[r] \in Request /\ GoodRequest(request[r], tenant)
           /\ request \in [Requests -> Request] /\ property \in [Properties -> PropertyDoc]
           /\ history \in [Properties -> PropertyStatus]
           /\ request[r].pc # "idle" => request[r].prop \in Properties
  BY DEF IInv, TypeOK, GoodRequest

\* The only request goes on as n, about p, and touches no other property.
LEMMA Onward ==
    ASSUME IInv, SInv, NEW r, Requests = {r}, NEW n, NEW p \in Properties,
           request[r].pc # "idle" => request[r].prop = p,
           Continue(r, n),
           n.pc # "idle"
           => n.prop = p /\ Flight(n, property'[p], Active(booking', p), tenant'),
           \A x \in Properties : x # p => /\ property'[x] = property[x]
                                          /\ history'[x] = history[x]
                                          /\ Active(booking', x) = Active(booking, x),
           property'[p].life # "absent",
           NeverFails => history'[p] = property'[p].status \/ n.pc = "log",
           NeverDeactivates => /\ BookedIsActive(property'[p])
                               /\ \/ BookingsBack(property'[p], Active(booking', p))
                                  \/ Releasing(n),
           Transactional => OccupantsActive'
    PROVE  SInv'
<1> DEFINE m == IF n.pc = "idle" THEN Idle ELSE n
<1>1. request'[r] = m /\ Idle.pc = "idle"
  BY InvTypes, SMT DEF Continue, Idle
<1>2. /\ m.pc = "log" <=> n.pc = "log"
      /\ Releasing(n) => m = n
      /\ m.pc # "idle" => m = n /\ n.pc # "idle"
  BY <1>1, SMT DEF Releasing
<1> HIDE DEF m
<1>3. InFlight'
  BY <1>1, <1>2, SMT DEF InFlight
<1>4. AbsentIsBlank'
  BY SMT DEF AbsentIsBlank, SInv
<1>5. NeverFails => Recorded'
  <2> SUFFICES ASSUME NeverFails, NEW x \in Properties
               PROVE  \/ property'[x].life = "absent"
                      \/ history'[x] = property'[x].status
                      \/ request'[r].pc = "log" /\ request'[r].prop = x
    BY Zenon DEF Recorded
  <2>1. CASE x = p
    BY <1>1, <1>2, <2>1, SMT
  <2>2. CASE x # p
    BY <2>2, SMT DEF SInv, Recorded
  <2> QED
    BY <2>1, <2>2
<1>6. NeverDeactivates => Backed'
  <2> SUFFICES ASSUME NeverDeactivates, NEW x \in Properties
               PROVE  /\ BookedIsActive(property'[x])
                      /\ \/ BookingsBack(property'[x], Active(booking', x))
                         \/ Releasing(request'[r]) /\ request'[r].prop = x
    BY Zenon DEF Backed
  <2>1. CASE x = p
    BY <1>1, <1>2, <2>1, SMT DEF Releasing
  <2>2. CASE x # p
    <3>1. Releasing(request[r]) => request[r].pc # "idle"
      BY SMT DEF Releasing
    <3> QED
      BY <2>2, <3>1, SMT DEF SInv, Backed
  <2> QED
    BY <2>1, <2>2
<1> QED
  BY <1>3, <1>4, <1>5, <1>6 DEF SInv

LEMMA OccupantsStay ==
    ASSUME UNCHANGED <<property, tenant>>, OccupantsActive
    PROVE  OccupantsActive'
  BY DEF OccupantsActive

LEMMA SameOccupants ==
    ASSUME \A x \in Properties : property'[x].tenant = property[x].tenant,
           \A t \in Tenants : tenant'[t] = tenant[t], OccupantsActive
    PROVE  OccupantsActive'
<1>1. \A t \in Tenants, p \in Properties :
        tenant'[t] = [status |-> "Active", home |-> p] <=> property'[p].tenant = t
  <2> TAKE t \in Tenants, p \in Properties
  <2>1. tenant[t] = [status |-> "Active", home |-> p] <=> property[p].tenant = t
    BY DEF OccupantsActive
  <2>2. tenant'[t] = tenant[t] /\ property'[p].tenant = property[p].tenant
    OBVIOUS
  <2> QED
    BY <2>1, <2>2, Zenon
<1> QED
  BY <1>1, Zenon DEF OccupantsActive

\* The same for a step that only moves the request.
LEMMA Moves ==
    ASSUME IInv, SInv, NEW r, Requests = {r}, NEW n, NEW p \in Properties,
           request[r].pc # "idle" => request[r].prop = p,
           Continue(r, n), UNCHANGED db,
           n.pc # "idle"
           => n.prop = p /\ Flight(n, property[p], Active(booking, p), tenant),
           property[p].life # "absent",
           NeverFails => request[r].pc # "log",
           NeverDeactivates /\ Releasing(request[r])
           => BookingsBack(property[p], Active(booking, p)) \/ Releasing(n)
    PROVE  SInv'
<1>1. UNCHANGED <<property, tenant, booking, history>>
  BY DEF db
<1>2. NeverFails => history'[p] = property'[p].status \/ n.pc = "log"
  BY <1>1, SMT DEF SInv, Recorded
<1>3. NeverDeactivates => /\ BookedIsActive(property'[p])
                          /\ \/ BookingsBack(property'[p], Active(booking', p))
                             \/ Releasing(n)
  BY <1>1, SMT DEF SInv, Backed
<1>4. Transactional => OccupantsActive'
  BY <1>1, OccupantsStay DEF SInv
<1> QED
  BY <1>1, <1>2, <1>3, <1>4, Onward, SMT

\* The whole contents of a new request.
LEMMA NewFields ==
    ASSUME NEW op \in AllOps, NEW p \in Properties, NEW pc \in Calls, NEW doc \in PropertyDoc
    PROVE  LET n == New(op, p, pc, doc)
           IN  /\ n \in Request
               /\ n.op = op /\ n.prop = p /\ n.pc = pc /\ n.doc = doc /\ n.tid = None
               /\ n.tstatus = "Active" /\ n.bid = None /\ n.seen = NoTenants
               /\ ~n.log /\ ~n.manager
<1>1. New(op, p, pc, doc).tstatus = "Active" /\ New(op, p, pc, doc).bid = None
  BY SMT DEF New, Idle
<1>2. ~New(op, p, pc, doc).log /\ ~New(op, p, pc, doc).manager
  BY SMT DEF New, Idle
<1> QED
  BY <1>1, <1>2, NewRequest

\* What a request finds that begins with a live property.
LEMMA Found ==
    ASSUME IInv, SInv, NEW r, Requests = {r}, NEW p \in Properties, NEW op, Begin(r, op, p)
    PROVE  /\ request[r].pc = "idle" /\ op \in Ops
           /\ property[p] \in PropertyDoc /\ TenancyMatchesStatus(property[p])
           /\ property[p].life = "live"
           /\ NeverDeactivates => /\ BookedIsActive(property[p])
                                  /\ BookingsBack(property[p], Active(booking, p))
<1>1. request[r].pc = "idle" /\ property[p].life = "live" /\ op \in Ops
  BY DEF Begin
<1>2. NeverDeactivates => /\ BookedIsActive(property[p])
                          /\ BookingsBack(property[p], Active(booking, p))
  BY <1>1, SMT DEF SInv, Backed, Releasing
<1> QED
  BY <1>1, <1>2, ReadProperty

\* A request that begins with what it may rely on.
LEMMA Arrives ==
    ASSUME IInv, SInv, NEW r, Requests = {r}, NEW p \in Properties, NEW op, Begin(r, op, p),
           NEW n, n.prop = p, Continue(r, n), UNCHANGED db,
           Flight(n, property[p], Active(booking, p), tenant)
    PROVE  SInv'
<1>1. /\ request[r].pc = "idle" /\ property[p].life # "absent"
      /\ ~Releasing(request[r])
  BY Found, SMT DEF Releasing
<1> QED
  BY <1>1, Moves, SMT

-----------------------------------------------------------------------------
(* Requests that arrive *)

LEMMA SerialUpdate ==
    ASSUME IInv, SInv, NEW r, Requests = {r}, NEW p \in Properties,
           NEW active \in BOOLEAN, NEW allow \in BOOLEAN, UpdateAsync(r, p, active, allow)
    PROVE  SInv'
<1> DEFINE d == property[p]
           doc == [d EXCEPT !.active = active, !.allowOccupied = allow]
           n == New("update", p, "write", doc)
           op == IF active THEN "update" ELSE "deactivate"
<1>1. Begin(r, op, p) /\ Continue(r, n) /\ UNCHANGED db
  BY DEF UpdateAsync
<1>2. /\ d \in PropertyDoc /\ d.life = "live" /\ (NeverDeactivates => active)
      /\ NeverDeactivates => BookedIsActive(d) /\ BookingsBack(d, Active(booking, p))
  BY <1>1, Found, SMT DEF NeverDeactivates
<1> HIDE DEF d, op
<1>3. doc \in PropertyDoc
  BY <1>2, Zenon DEF PropertyDoc
<1>4. /\ doc.status = d.status /\ doc.tenant = d.tenant /\ doc.life = d.life
      /\ doc.announcement = d.announcement /\ doc.active = active
  BY <1>2, SMT DEF PropertyDoc
<1> HIDE DEF doc
<1>5. /\ n.op = "update" /\ n.prop = p /\ n.pc = "write" /\ n.doc = doc /\ n.tid = None
      /\ n.tstatus = "Active" /\ ~n.log
  BY <1>3, NewFields, SMT DEF AllOps, Calls
<1> HIDE DEF n
<1>6. Flight(n, d, Active(booking, p), tenant)
  BY <1>2, <1>4, <1>5, SMT DEF Flight, OnRoute, AboutLive, Accurate, KeepsEviction, KeepsHold,
     WillRecord, KeepsOccupant, KeepsBookings, BookedIsActive, BookingsBack
<1> QED
  BY <1>1, <1>5, <1>6, Arrives DEF d

LEMMA SerialChangeStatus ==
    ASSUME IInv, SInv, NEW r, Requests = {r}, NEW p \in Properties, NEW manager \in BOOLEAN,
           NEW target \in {"Available", "Auction", "OnHold"},
           ChangeStatusAsync(r, p, target, manager)
    PROVE  SInv'
<1> DEFINE d == property[p]
           moved == ChangedStatus(d, target)
           doc == IF d.status = "Booked" THEN ClearBookingAnnouncement(moved) ELSE moved
           pc == IF d.status = "Booked" THEN "close" ELSE "write"
           m == New("changeStatus", p, pc, doc)
           n == [m EXCEPT !.log = TRUE, !.manager = manager]
<1>1. /\ Begin(r, "changeStatus", p) /\ CanChangeStatus(d, target, manager)
      /\ Continue(r, n) /\ UNCHANGED db
  BY DEF ChangeStatusAsync
<1>2. /\ d \in PropertyDoc /\ d.life = "live" /\ TenancyMatchesStatus(d)
      /\ NeverDeactivates => BookedIsActive(d) /\ BookingsBack(d, Active(booking, p))
  BY <1>1, Found
<1> HIDE DEF d
<1>3. /\ moved \in PropertyDoc /\ moved.status = target
      /\ moved.life = d.life /\ moved.tenant = d.tenant
      /\ moved.announcement = d.announcement
  <2>1. moved = [d EXCEPT !.status = target]
    BY Zenon DEF ChangedStatus, MakeAvailable, MarkForAuction, PlaceOnHold
  <2>2. moved \in PropertyDoc
    BY <1>2, <2>1, Zenon DEF PropertyDoc, PropertyStatus
  <2> HIDE DEF moved
  <2> QED
    BY <1>2, <2>1, <2>2, SMT DEF PropertyDoc
<1>4. target = "Available" => (d.status = "OnHold" => manager)
  BY <1>1, SMT DEF CanChangeStatus
<1>5. target = "Auction" => d.status # "OnHold"
  BY <1>1, SMT DEF CanChangeStatus, CanMarkForAuction
<1> HIDE DEF moved
<1>6. /\ doc \in PropertyDoc /\ doc.status = target /\ doc.life = "live" /\ doc.tenant = d.tenant
      /\ d.status = "Booked" => doc.announcement = "none"
      /\ d.status # "Booked" => doc.announcement = d.announcement
  BY <1>2, <1>3, Announcements, SMT DEF ClearBookingAnnouncement, PropertyDoc
<1> HIDE DEF doc
<1>7. /\ m \in Request /\ m.op = "changeStatus" /\ m.prop = p /\ m.pc = pc /\ m.doc = doc
      /\ m.tid = None /\ m.tstatus = "Active"
  BY <1>6, NewFields, SMT DEF AllOps, Calls
<1> HIDE DEF m
<1>8. /\ n.op = "changeStatus" /\ n.prop = p /\ n.pc = pc /\ n.doc = doc
      /\ n.tid = None /\ n.tstatus = "Active" /\ n.log /\ n.manager = manager
  BY <1>7, SMT DEF Request
<1> HIDE DEF n
<1>9. Flight(n, d, Active(booking, p), tenant)
  BY <1>2, <1>4, <1>5, <1>6, <1>8, SMT DEF Flight, OnRoute, AboutLive, Accurate,
     KeepsEviction, KeepsHold, WillRecord, KeepsOccupant, KeepsBookings, BookedIsActive,
     BookingsBack
<1> QED
  BY <1>1, <1>8, <1>9, Arrives DEF d

LEMMA SerialDelete ==
    ASSUME IInv, SInv, NEW r, Requests = {r}, NEW p \in Properties, DeleteAsync(r, p)
    PROVE  SInv'
<1> DEFINE d == property[p]
           cleared == ClearBookingAnnouncement(d)
           doc == [cleared EXCEPT !.life = "deleted", !.active = FALSE]
           n == New("delete", p, "close", doc)
<1>1. Begin(r, "delete", p) /\ Continue(r, n) /\ UNCHANGED db
  BY DEF DeleteAsync
<1>2. d \in PropertyDoc /\ d.life = "live"
  BY <1>1, Found
<1> HIDE DEF d
<1>3. cleared \in PropertyDoc /\ cleared.status = d.status /\ cleared.tenant = d.tenant
  BY <1>2, Announcements, SMT DEF ClearBookingAnnouncement, PropertyDoc
<1> HIDE DEF cleared
<1>4. doc \in PropertyDoc
  BY <1>3, Zenon DEF PropertyDoc
<1>5. doc.status = d.status /\ doc.tenant = d.tenant /\ doc.life = "deleted"
  BY <1>3, SMT DEF PropertyDoc
<1> HIDE DEF doc
<1>6. /\ n.op = "delete" /\ n.prop = p /\ n.pc = "close" /\ n.doc = doc
      /\ n.tid = None /\ n.tstatus = "Active" /\ ~n.log
  BY <1>4, NewFields, SMT DEF AllOps, Calls
<1> HIDE DEF n
<1>7. Flight(n, d, Active(booking, p), tenant)
  BY <1>2, <1>5, <1>6, SMT DEF Flight, OnRoute, AboutLive, Accurate, KeepsEviction, KeepsHold,
     WillRecord, KeepsOccupant, KeepsBookings, BookedIsActive
<1> QED
  BY <1>1, <1>6, <1>7, Arrives DEF d

LEMMA SerialAssign ==
    ASSUME IInv, SInv, NEW r, Requests = {r}, NEW p \in Properties, NEW t \in Tenants,
           AssignTenantAsync(r, p, t)
    PROVE  SInv'
<1> DEFINE d == property[p]
           assigned == AssignTenant(d, t)
           doc == ClearBookingAnnouncement(assigned)
           m == New("assign", p, "store", doc)
           n == [m EXCEPT !.tid = t, !.log = TRUE]
<1>1. /\ Begin(r, "assign", p) /\ CanAssignTenant(d) /\ FreshTenant(t)
      /\ Continue(r, n) /\ UNCHANGED db
  BY DEF AssignTenantAsync
<1>2. d \in PropertyDoc /\ d.life = "live" /\ TenancyMatchesStatus(d)
  BY <1>1, Found
<1>3. tenant[t].status = "absent"
  BY <1>1 DEF FreshTenant
<1> HIDE DEF d
<1>4. d.tenant = None /\ d.status # "OnHold"
  BY <1>1, <1>2, SMT DEF CanAssignTenant, TenancyMatchesStatus, Rental
<1>5. assigned \in PropertyDoc
  BY <1>2, Zenon DEF AssignTenant, PropertyDoc, PropertyStatus, Rental
<1>6. assigned.tenant = t /\ assigned.status = "Paid" /\ assigned.life = "live"
  BY <1>2, SMT DEF AssignTenant, PropertyDoc
<1> HIDE DEF assigned
<1>7. /\ doc \in PropertyDoc /\ doc.tenant = t /\ doc.status = "Paid" /\ doc.life = "live"
      /\ doc.announcement = "none"
  BY <1>5, <1>6, Announcements, SMT DEF ClearBookingAnnouncement, PropertyDoc
<1> HIDE DEF doc
<1>8. /\ m \in Request /\ m.op = "assign" /\ m.prop = p /\ m.pc = "store" /\ m.doc = doc
      /\ m.tstatus = "Active"
  BY <1>7, NewFields, SMT DEF AllOps, Calls
<1> HIDE DEF m
<1>9. /\ n.op = "assign" /\ n.prop = p /\ n.pc = "store" /\ n.doc = doc /\ n.tid = t
      /\ n.tstatus = "Active" /\ n.log
  BY <1>8, SMT DEF Request
<1> HIDE DEF n
<1>10. Flight(n, d, Active(booking, p), tenant)
  BY <1>2, <1>3, <1>4, <1>7, <1>9, SMT DEF Flight, OnRoute, AboutLive, Accurate,
     KeepsEviction, KeepsHold, WillRecord, KeepsOccupant, KeepsBookings, BookedIsActive,
     BookingsBack
<1> QED
  BY <1>1, <1>9, <1>10, Arrives DEF d

LEMMA SerialUpdateTenant ==
    ASSUME IInv, SInv, NEW r, Requests = {r}, NEW p \in Properties, UpdateTenantAsync(r, p)
    PROVE  SInv'
<1> DEFINE d == property[p]
           t == d.tenant
           m == New("updateTenant", p, "readTenant", d)
           n == [m EXCEPT !.tid = t]
<1>1. Begin(r, "updateTenant", p) /\ Continue(r, n) /\ UNCHANGED db
  BY DEF UpdateTenantAsync
<1>2. /\ d \in PropertyDoc /\ d.life = "live"
      /\ NeverDeactivates => BookedIsActive(d) /\ BookingsBack(d, Active(booking, p))
  BY <1>1, Found
<1> HIDE DEF d
<1>3. /\ m \in Request /\ m.op = "updateTenant" /\ m.prop = p /\ m.pc = "readTenant"
      /\ m.doc = d /\ m.tstatus = "Active" /\ ~m.log
  BY <1>2, NewFields, SMT DEF AllOps, Calls
<1> HIDE DEF m, t
<1>4. /\ n.op = "updateTenant" /\ n.prop = p /\ n.pc = "readTenant" /\ n.doc = d
      /\ n.tid = t /\ n.tstatus = "Active" /\ ~n.log
  BY <1>3, SMT DEF Request
<1> HIDE DEF n
<1>5. Flight(n, d, Active(booking, p), tenant)
  BY <1>2, <1>4, SMT DEF Flight, OnRoute, AboutLive, Accurate, KeepsEviction, KeepsHold,
     WillRecord, KeepsOccupant, KeepsBookings, t
<1> QED
  BY <1>1, <1>4, <1>5, Arrives DEF d

LEMMA SerialEvict ==
    ASSUME IInv, SInv, NEW r, Requests = {r}, NEW p \in Properties, EvictAsync(r, p)
    PROVE  SInv'
<1> DEFINE d == property[p]
           doc == EvictTenant(d)
           m == New("evict", p, "readTenant", doc)
           n == [m EXCEPT !.tid = d.tenant, !.tstatus = "Evicted", !.log = TRUE]
<1>1. Begin(r, "evict", p) /\ CanEvictTenant(d) /\ Continue(r, n) /\ UNCHANGED db
  BY DEF EvictAsync
<1>2. /\ d \in PropertyDoc /\ d.life = "live"
      /\ NeverDeactivates => BookedIsActive(d) /\ BookingsBack(d, Active(booking, p))
  BY <1>1, Found
<1> HIDE DEF d
<1>3. d.tenant # None /\ d.status # "OnHold"
  BY <1>1, SMT DEF CanEvictTenant, Rental
<1>4. doc \in PropertyDoc
  BY <1>2, Zenon DEF EvictTenant, PropertyDoc, PropertyStatus
<1>5. /\ doc.tenant = None /\ doc.status = "Available" /\ doc.life = "live"
      /\ doc.announcement = d.announcement
  BY <1>2, SMT DEF EvictTenant, PropertyDoc
<1> HIDE DEF doc
<1>6. /\ m \in Request /\ m.op = "evict" /\ m.prop = p /\ m.pc = "readTenant" /\ m.doc = doc
  BY <1>4, NewFields, SMT DEF AllOps, Calls
<1> HIDE DEF m
<1>7. /\ n.op = "evict" /\ n.prop = p /\ n.pc = "readTenant" /\ n.doc = doc
      /\ n.tid = d.tenant /\ n.tstatus = "Evicted" /\ n.log
  BY <1>6, SMT DEF Request
<1> HIDE DEF n
<1>8. Flight(n, d, Active(booking, p), tenant)
  BY <1>2, <1>3, <1>5, <1>7, SMT DEF Flight, OnRoute, AboutLive, Accurate, KeepsEviction,
     KeepsHold, WillRecord, KeepsOccupant, KeepsBookings, BookedIsActive, BookingsBack
<1> QED
  BY <1>1, <1>7, <1>8, Arrives DEF d

LEMMA SerialBook ==
    ASSUME IInv, SInv, NEW r, Requests = {r}, NEW p \in Properties, CreateBookingAsync(r, p)
    PROVE  SInv'
<1> DEFINE d == property[p]
           doc == MarkBooked(d)
           m == New("book", p, "count", doc)
           moved == doc.status # d.status
           n == [m EXCEPT !.log = moved]
<1>1. Begin(r, "book", p) /\ CanMarkBooked(d) /\ Continue(r, n) /\ UNCHANGED db
  BY DEF CreateBookingAsync
<1>2. d \in PropertyDoc /\ d.life = "live" /\ TenancyMatchesStatus(d)
  BY <1>1, Found
<1> HIDE DEF d
<1>3. doc \in PropertyDoc /\ doc.tenant = d.tenant
  BY <1>1, <1>2, DomainMethods
<1>4. d.active /\ d.status # "OnHold"
  BY <1>1, SMT DEF CanMarkBooked, EnsureActive, IsOccupied, Rental
<1>5. doc.life = "live" /\ doc.active
  BY <1>2, <1>4, SMT DEF MarkBooked, PropertyDoc
<1> HIDE DEF doc
<1>6. /\ m \in Request /\ m.op = "book" /\ m.prop = p /\ m.pc = "count" /\ m.doc = doc
      /\ m.tid = None
  BY <1>3, NewFields, SMT DEF AllOps, Calls
<1> HIDE DEF m, moved
<1>7. /\ n.op = "book" /\ n.prop = p /\ n.pc = "count" /\ n.doc = doc /\ n.tid = None
      /\ moved => n.log
  BY <1>6, SMT DEF Request
<1> HIDE DEF n
<1>8. Flight(n, d, Active(booking, p), tenant)
  BY <1>2, <1>3, <1>4, <1>5, <1>7, SMT DEF Flight, OnRoute, AboutLive, Accurate,
     KeepsEviction, KeepsHold, WillRecord, KeepsOccupant, KeepsBookings, BookedIsActive, moved
<1> QED
  BY <1>1, <1>7, <1>8, Arrives DEF d

LEMMA SerialAnnounce ==
    ASSUME IInv, SInv, NEW r, Requests = {r}, NEW p \in Properties, NEW isPosted \in BOOLEAN,
           SetBookingAnnouncementAsync(r, p, isPosted)
    PROVE  SInv'
<1> DEFINE d == property[p]
           doc == SetBookingAnnouncementPosted(d, isPosted)
           n == New("announce", p, "count", doc)
<1>1. Begin(r, "announce", p) /\ Continue(r, n) /\ UNCHANGED db
  BY DEF SetBookingAnnouncementAsync
<1>2. d \in PropertyDoc /\ d.life = "live" /\ (NeverDeactivates => BookedIsActive(d))
  BY <1>1, Found
<1> HIDE DEF d
<1>3. doc \in PropertyDoc /\ doc.tenant = d.tenant
  BY <1>2, Announcements
<1>4. doc.life = "live" /\ doc.active = d.active /\ doc.status = d.status
  BY <1>2, SMT DEF SetBookingAnnouncementPosted, PropertyDoc
<1> HIDE DEF doc
<1>5. /\ n.op = "announce" /\ n.prop = p /\ n.pc = "count" /\ n.doc = doc
      /\ n.tid = None /\ ~n.log
  BY <1>3, NewFields, SMT DEF AllOps, Calls
<1> HIDE DEF n
<1>6. Flight(n, d, Active(booking, p), tenant)
  BY <1>2, <1>3, <1>4, <1>5, SMT DEF Flight, OnRoute, AboutLive, Accurate, KeepsEviction,
     KeepsHold, WillRecord, KeepsOccupant, KeepsBookings, BookedIsActive
<1> QED
  BY <1>1, <1>5, <1>6, Arrives DEF d

LEMMA SerialCancel ==
    ASSUME IInv, SInv, NEW r, Requests = {r}, NEW p \in Properties, NEW b \in Bookings,
           CancelBookingAsync(r, p, b)
    PROVE  SInv'
<1> DEFINE d == property[p]
           m == New("cancel", p, "readBooking", d)
           n == [m EXCEPT !.bid = b]
<1>1. Begin(r, "cancel", p) /\ Continue(r, n) /\ UNCHANGED db
  BY DEF CancelBookingAsync
<1>2. d \in PropertyDoc /\ d.life = "live" /\ (NeverDeactivates => BookedIsActive(d))
  BY <1>1, Found
<1> HIDE DEF d
<1>3. /\ m \in Request /\ m.op = "cancel" /\ m.prop = p /\ m.pc = "readBooking" /\ m.doc = d
      /\ m.tid = None /\ ~m.log
  BY <1>2, NewFields, SMT DEF AllOps, Calls
<1> HIDE DEF m
<1>4. /\ n.op = "cancel" /\ n.prop = p /\ n.pc = "readBooking" /\ n.doc = d
      /\ n.tid = None /\ ~n.log
  BY <1>3, SMT DEF Request
<1> HIDE DEF n
<1>5. Flight(n, d, Active(booking, p), tenant)
  BY <1>2, <1>4, SMT DEF Flight, OnRoute, AboutLive, Accurate, KeepsEviction, KeepsHold,
     WillRecord, KeepsOccupant, KeepsBookings
<1> QED
  BY <1>1, <1>4, <1>5, Arrives DEF d

LEMMA SerialCloseAll ==
    ASSUME IInv, SInv, NEW r, Requests = {r}, NEW p \in Properties, CloseAllBookingsAsync(r, p)
    PROVE  SInv'
<1> DEFINE d == property[p]
           n == New("closeAll", p, "count", d)
<1>1. Begin(r, "closeAll", p) /\ Continue(r, n) /\ UNCHANGED db
  BY DEF CloseAllBookingsAsync
<1>2. d \in PropertyDoc /\ d.life = "live" /\ (NeverDeactivates => BookedIsActive(d))
  BY <1>1, Found
<1> HIDE DEF d
<1>3. /\ n.op = "closeAll" /\ n.prop = p /\ n.pc = "count" /\ n.doc = d
      /\ n.tid = None /\ ~n.log
  BY <1>2, NewFields, SMT DEF AllOps, Calls
<1> HIDE DEF n
<1>4. Flight(n, d, Active(booking, p), tenant)
  BY <1>2, <1>3, SMT DEF Flight, OnRoute, AboutLive, Accurate, KeepsEviction, KeepsHold,
     WillRecord, KeepsOccupant, KeepsBookings
<1> QED
  BY <1>1, <1>3, <1>4, Arrives DEF d

LEMMA SerialSync ==
    ASSUME IInv, SInv, NEW r, Requests = {r}, NEW p \in Properties, SyncAsync(r, p)
    PROVE  SInv'
<1> DEFINE d == property[p]
           n1 == New("sync", p, "readTenants", d)
           m == New("sync", p, "readProperty", NoProperty)
           n2 == [m EXCEPT !.seen = tenant]
<1>1. Begin(r, "sync", p) /\ (Continue(r, n1) \/ Continue(r, n2)) /\ UNCHANGED db
  BY DEF SyncAsync
<1>2. /\ d \in PropertyDoc /\ d.life = "live" /\ (NeverDeactivates => BookedIsActive(d))
      /\ BookedIsActive(NoProperty)
  BY <1>1, Found, SMT DEF NoProperty, BookedIsActive
<1> HIDE DEF d
<1>3. /\ n1.op = "sync" /\ n1.prop = p /\ n1.pc = "readTenants" /\ n1.doc = d
      /\ n1.tid = None /\ n1.tstatus = "Active" /\ ~n1.log
  BY <1>2, NewFields, SMT DEF AllOps, Calls
<1>4. /\ m \in Request /\ m.op = "sync" /\ m.prop = p /\ m.pc = "readProperty"
      /\ m.doc = NoProperty /\ m.tid = None /\ m.tstatus = "Active" /\ ~m.log
  BY <1>2, NoPropertyType, NewFields, SMT DEF AllOps, Calls
<1> HIDE DEF n1, m
<1>5. /\ n2.op = "sync" /\ n2.prop = p /\ n2.pc = "readProperty" /\ n2.doc = NoProperty
      /\ n2.tid = None /\ n2.tstatus = "Active" /\ ~n2.log /\ n2.seen = tenant
  BY <1>4, SMT DEF Request
<1> HIDE DEF n2
<1>6. Flight(n1, d, Active(booking, p), tenant) /\ Flight(n2, d, Active(booking, p), tenant)
  BY <1>2, <1>3, <1>5, SMT DEF Flight, OnRoute, AboutLive, Accurate, KeepsEviction, KeepsHold,
     WillRecord, KeepsOccupant, KeepsBookings
<1> QED
  BY <1>1, <1>3, <1>5, <1>6, Arrives DEF d

-----------------------------------------------------------------------------
(* Requests that go on *)

\* n differs from q in its next call at most.
SameButCall(n, q) ==
    /\ n.op = q.op /\ n.prop = q.prop /\ n.doc = q.doc /\ n.tid = q.tid
    /\ n.tstatus = q.tstatus /\ n.bid = q.bid /\ n.seen = q.seen
    /\ n.log <=> q.log
    /\ n.manager <=> q.manager

LEMMA SetCall ==
    ASSUME NEW q \in Request, NEW pc \in Calls
    PROVE  [q EXCEPT !.pc = pc].pc = pc /\ SameButCall([q EXCEPT !.pc = pc], q)
<1> DEFINE n == [q EXCEPT !.pc = pc]
<1>1. /\ n.pc = pc /\ n.op = q.op /\ n.prop = q.prop /\ n.doc = q.doc /\ n.tid = q.tid
      /\ n.tstatus = q.tstatus /\ n.bid = q.bid /\ n.seen = q.seen
  BY SMT DEF Request
<1>2. n.log = q.log /\ n.manager = q.manager
  BY Zenon DEF Request
<1> QED
  BY <1>1, <1>2, Zenon DEF SameButCall

\* What the only request in flight may rely on.
LEMMA Flying ==
    ASSUME IInv, SInv, NEW r, Requests = {r}, request[r].pc # "idle"
    PROVE  LET q == request[r]
               d == property[q.prop]
               A == Active(booking, q.prop)
           IN  /\ q \in Request /\ GoodRequest(q, tenant) /\ q.prop \in Properties
               /\ d \in PropertyDoc /\ TenancyMatchesStatus(d) /\ d.life = "live"
               /\ Flight(q, d, A, tenant)
               /\ NeverFails => history[q.prop] = d.status \/ q.pc = "log"
               /\ NeverDeactivates => BookedIsActive(d) /\ (BookingsBack(d, A) \/ Releasing(q))
<1> DEFINE q == request[r]
           d == property[q.prop]
           A == Active(booking, q.prop)
<1>1. q \in Request /\ GoodRequest(q, tenant) /\ q.prop \in Properties
  BY InvTypes
<1>2. d \in PropertyDoc /\ TenancyMatchesStatus(d)
  BY <1>1, ReadProperty
<1>3. Flight(q, d, A, tenant)
  BY DEF SInv, InFlight
<1>4. d.life = "live"
  BY <1>3 DEF Flight, AboutLive
<1>5. NeverFails => history[q.prop] = d.status \/ q.pc = "log"
  BY <1>1, <1>4, SMT DEF SInv, Recorded
<1>6. NeverDeactivates => BookedIsActive(d) /\ (BookingsBack(d, A) \/ Releasing(q))
  BY <1>1, SMT DEF SInv, Backed
<1> QED
  BY <1>1, <1>2, <1>3, <1>4, <1>5, <1>6

\* The only request in flight makes a call that changes nothing and goes on as n.
LEMMA GoesOn ==
    ASSUME IInv, SInv, NEW r, Requests = {r}, request[r].pc \notin {"idle", "log"},
           NEW n, Continue(r, n), UNCHANGED db,
           n.pc # "idle"
           => /\ n.prop = request[r].prop
              /\ Flight(n, property[request[r].prop], Active(booking, request[r].prop), tenant),
           NeverDeactivates /\ Releasing(request[r])
           => \/ BookingsBack(property[request[r].prop], Active(booking, request[r].prop))
              \/ Releasing(n)
    PROVE  SInv'
<1>1. request[r].prop \in Properties /\ property[request[r].prop].life # "absent"
  BY Flying, SMT
<1> QED
  BY <1>1, Moves, SMT

LEMMA SerialReadTenant ==
    ASSUME IInv, SInv, NEW r, Requests = {r}, ReadTenant(r)
    PROVE  SInv'
<1> DEFINE q == request[r]
           d == property[q.prop]
           A == Active(booking, q.prop)
           pc == IF CanWriteTenant(q) THEN "store" ELSE "idle"
           n == [q EXCEPT !.pc = pc]
<1>1. q.pc = "readTenant" /\ Continue(r, n) /\ UNCHANGED db
  BY DEF ReadTenant
<1>2. q \in Request /\ GoodRequest(q, tenant) /\ Flight(q, d, A, tenant)
  BY <1>1, Flying
<1>3. ~Releasing(q)
  BY <1>1, SMT DEF Releasing
<1>4. pc = "store" /\ q.op = "updateTenant" => tenant[q.tid].status # "Evicted"
  BY SMT DEF CanWriteTenant
<1>5. q.op \in {"updateTenant", "evict"}
  BY <1>1, <1>2 DEF GoodRequest
<1>6. pc \in {"store", "idle"} /\ pc \in Calls
  BY DEF Calls
<1> HIDE DEF pc
<1>7. n.pc = pc /\ SameButCall(n, q)
  BY <1>2, <1>6, SetCall
<1> HIDE DEF q, d, A, n
<1>8. n.pc # "idle" => Flight(n, d, A, tenant)
  BY <1>1, <1>2, <1>4, <1>5, <1>6, <1>7, SMT DEF Flight, OnRoute, AboutLive, Accurate,
     KeepsEviction, KeepsHold, WillRecord, KeepsOccupant, KeepsBookings, SameButCall
<1>9. n.prop = q.prop
  BY <1>7 DEF SameButCall
<1> QED
  BY <1>1, <1>3, <1>8, <1>9, GoesOn DEF q, d, A

\* What a release makes of the request.
LEMMA ReleasedFields ==
    ASSUME NEW q \in Request
    PROVE  LET n == Released(q)
           IN  /\ n.pc = "idle" <=> q.doc.status = "Booked" /\ ~CanMakeAvailable(q.doc)
               /\ n.pc \in {"idle", "write"}
               /\ n.op = q.op /\ n.prop = q.prop /\ n.tid = q.tid
               /\ n.pc = "write"
                  => /\ n.doc.status # "Booked" /\ n.doc.announcement = "none"
                     /\ n.doc.status # q.doc.status => n.log
                     /\ q.doc.status # "Booked" => n.doc.status = q.doc.status
                     /\ n.doc.life = q.doc.life /\ n.doc.tenant = q.doc.tenant
<1> DEFINE free == q.doc.status = "Booked"
           doc == IF free THEN MakeAvailable(q.doc) ELSE q.doc
           cleared == ClearBookingAnnouncement(doc)
           done == [q EXCEPT !.pc = "write", !.log = free, !.doc = cleared]
           refused == [q EXCEPT !.pc = "idle"]
<1>1. q.doc \in PropertyDoc
  BY SMT DEF Request
<1>2. doc \in PropertyDoc
  BY <1>1, Zenon DEF MakeAvailable, PropertyDoc, PropertyStatus
<1>3. /\ doc.status = IF free THEN "Available" ELSE q.doc.status
      /\ doc.life = q.doc.life /\ doc.tenant = q.doc.tenant
  BY <1>1, SMT DEF MakeAvailable, PropertyDoc
<1>4. /\ cleared.status = doc.status /\ cleared.life = doc.life /\ cleared.tenant = doc.tenant
      /\ cleared.announcement = "none"
  <2> HIDE DEF doc
  <2> QED
    BY <1>2, SMT DEF ClearBookingAnnouncement, PropertyDoc
<1>5. Released(q) = IF free => CanMakeAvailable(q.doc) THEN done ELSE refused
  BY Zenon DEF Released
<1>6. refused.pc = "idle" /\ refused.op = q.op /\ refused.prop = q.prop /\ refused.tid = q.tid
  BY SMT DEF Request
<1> HIDE DEF cleared, doc, refused
<1>7. /\ done.pc = "write" /\ done.op = q.op /\ done.prop = q.prop /\ done.tid = q.tid
      /\ done.doc = cleared
  BY SMT DEF Request
<1>8. free => done.log
  BY Zenon DEF Request
<1> HIDE DEF done
<1> QED
  BY <1>3, <1>4, <1>5, <1>6, <1>7, <1>8, SMT

LEMMA SerialCount ==
    ASSUME IInv, SInv, NEW r, Requests = {r}, CountBookings(r)
    PROVE  SInv'
<1> DEFINE q == request[r]
           d == property[q.prop]
           A == Active(booking, q.prop)
           none == A = {}
           n == Counted(q, none)
<1>1. q.pc = "count" /\ Continue(r, n) /\ UNCHANGED db
  BY Zenon DEF CountBookings, Active, ActiveBookings
<1>2. /\ q \in Request /\ Flight(q, d, A, tenant) /\ TenancyMatchesStatus(d)
      /\ NeverDeactivates => BookedIsActive(d) /\ (BookingsBack(d, A) \/ Releasing(q))
      /\ d.life = "live"
  BY <1>1, Flying
<1>3. q.op \in {"book", "announce", "cancel", "closeAll"}
  BY <1>1, Flying DEF GoodRequest
<1> HIDE DEF q, d, A, none
<1>4. CASE q.op = "book"
  <2> DEFINE doc == IF none THEN StartBookingAnnouncement(q.doc) ELSE q.doc
             m == [q EXCEPT !.pc = "insert", !.doc = doc]
  <2>1. n = m
    BY <1>4, SMT DEF Counted
  <2>2. /\ doc.status = q.doc.status /\ doc.life = q.doc.life /\ doc.tenant = q.doc.tenant
        /\ doc.active = q.doc.active
    BY <1>2, SMT DEF StartBookingAnnouncement, Request, PropertyDoc
  <2> HIDE DEF doc, n
  <2>3. /\ m.pc = "insert" /\ m.op = "book" /\ m.prop = q.prop /\ m.doc = doc
        /\ m.tid = q.tid
    BY <1>2, <1>4, SMT DEF Request
  <2>4. q.log => m.log
    BY <1>2, Zenon DEF Request
  <2>5. q.manager => m.manager
    BY <1>2, Zenon DEF Request
  <2> HIDE DEF m
  <2>6. Flight(m, d, A, tenant)
    BY <1>1, <1>2, <1>4, <2>2, <2>3, <2>4, <2>5, SMT DEF Flight, OnRoute, AboutLive, Accurate,
       KeepsEviction, KeepsHold, WillRecord, KeepsOccupant, KeepsBookings, BookedIsActive
  <2> QED
    BY <1>1, <1>4, <2>1, <2>3, <2>6, GoesOn DEF q, d, A, Releasing
<1>5. CASE q.op \in {"announce", "closeAll"}
  <2> DEFINE pc == IF none THEN "idle" ELSE IF q.op = "announce" THEN "write" ELSE "close"
             m == [q EXCEPT !.pc = pc]
  <2>1. n = m
    BY <1>5, SMT DEF Counted
  <2>2. pc \in Calls /\ pc \in {"idle", "write", "close"}
    BY DEF Calls
  <2>3. pc # "idle" => ~none /\ (pc = "write" <=> q.op = "announce")
    OBVIOUS
  <2> HIDE DEF pc, n
  <2>4. m.pc = pc /\ SameButCall(m, q)
    BY <1>2, <2>2, SetCall
  <2> HIDE DEF m
  <2>5. pc # "idle" => Flight(m, d, A, tenant)
    BY <1>1, <1>2, <1>5, <2>2, <2>3, <2>4, SMT DEF Flight, OnRoute, AboutLive, Accurate,
       KeepsEviction, KeepsHold, WillRecord, KeepsOccupant, KeepsBookings, BookedIsActive,
       BookingsBack, SameButCall, none
  <2>6. ~Releasing(q) /\ m.prop = q.prop
    BY <1>1, <1>5, <2>4, SMT DEF Releasing, SameButCall
  <2> QED
    BY <1>1, <2>1, <2>4, <2>5, <2>6, GoesOn DEF q, d, A
<1>6. CASE q.op = "cancel"
  <2> DEFINE m == IF none THEN Released(q) ELSE [q EXCEPT !.pc = "idle"]
  <2>1. n = m
    BY <1>6, SMT DEF Counted
  <2>2. q.doc = d /\ ~q.log
    BY <1>1, <1>2, <1>6, SMT DEF Flight, Accurate
  <2>3. CASE none
    <3>1. m = Released(q)
      BY <2>3
    <3> HIDE DEF m, n
    <3>2. NeverDeactivates /\ d.status = "Booked" => CanMakeAvailable(d)
      BY <1>2, <2>2, SMT DEF BookedIsActive, CanMakeAvailable, EnsureActive,
         TenancyMatchesStatus, Rental
    <3>3. m.pc \in {"idle", "write"}
      BY <1>2, <3>1, ReleasedFields
    <3>4. m.pc = "write" => Flight(m, d, A, tenant) /\ m.prop = q.prop
      BY <1>1, <1>2, <1>6, <2>2, <3>1, ReleasedFields, SMT DEF Flight, OnRoute, AboutLive, Accurate,
         KeepsEviction, KeepsHold, WillRecord, KeepsOccupant, KeepsBookings, BookedIsActive,
         BookingsBack
    <3>5. NeverDeactivates => Releasing(m)
      BY <1>2, <1>6, <2>2, <3>1, <3>2, <3>3, ReleasedFields, SMT DEF Releasing
    <3> QED
      BY <1>1, <2>1, <3>3, <3>4, <3>5, GoesOn, SMT DEF q, d, A
  <2>4. CASE ~none
    <3>1. m.pc = "idle"
      BY <1>2, <2>4, SetCall DEF Calls
    <3>2. NeverDeactivates => BookingsBack(d, A)
      BY <1>2, <2>4, SMT DEF BookingsBack, none
    <3> HIDE DEF m, n
    <3> QED
      BY <1>1, <2>1, <3>1, <3>2, GoesOn, SMT DEF q, d, A
  <2> QED
    BY <2>3, <2>4
<1> QED
  BY <1>3, <1>4, <1>5, <1>6

LEMMA SerialReadBooking ==
    ASSUME IInv, SInv, NEW r, Requests = {r}, ReadBooking(r)
    PROVE  SInv'
<1> DEFINE q == request[r]
           d == property[q.prop]
           A == Active(booking, q.prop)
           pc == IF q.bid \in A THEN "writeBooking" ELSE "idle"
           n == [q EXCEPT !.pc = pc]
<1>1. q.pc = "readBooking" /\ Continue(r, n) /\ UNCHANGED db
  BY Zenon DEF ReadBooking, Active, ActiveBookings
<1>2. q \in Request /\ Flight(q, d, A, tenant) /\ q.op = "cancel"
  BY <1>1, Flying DEF GoodRequest
<1>3. ~Releasing(q)
  BY <1>1, SMT DEF Releasing
<1>4. pc \in Calls /\ pc \in {"writeBooking", "idle"} /\ (pc # "idle" => q.bid \in A)
  BY DEF Calls
<1> HIDE DEF pc
<1>5. n.pc = pc /\ SameButCall(n, q)
  BY <1>2, <1>4, SetCall
<1> HIDE DEF q, d, A, n
<1>6. n.pc # "idle" => Flight(n, d, A, tenant)
  BY <1>1, <1>2, <1>4, <1>5, SMT DEF Flight, OnRoute, AboutLive, Accurate,
     KeepsEviction, KeepsHold, WillRecord, KeepsOccupant, KeepsBookings, SameButCall
<1>7. n.prop = q.prop
  BY <1>5 DEF SameButCall
<1> QED
  BY <1>1, <1>3, <1>6, <1>7, GoesOn DEF q, d, A

\* Only a rent sync reads tenants and properties ahead of its rows.
LEMMA Syncing ==
    ASSUME NEW q \in Request, OnRoute(q),
           q.pc \in {"readTenants", "readProperty", "row", "tenant"}
    PROVE  q.op = "sync"
<1>1. q.op \in AllOps \cup {"none"}
  BY SMT DEF Request
<1> QED
  BY <1>1, SMT DEF OnRoute, AllOps

LEMMA SerialSyncReadTenants ==
    ASSUME IInv, SInv, NEW r, Requests = {r}, SyncReadTenants(r)
    PROVE  SInv'
<1> DEFINE q == request[r]
           d == property[q.prop]
           A == Active(booking, q.prop)
           n == [q EXCEPT !.pc = "row", !.seen = tenant]
<1>1. q.pc = "readTenants" /\ Continue(r, n) /\ UNCHANGED db
  BY DEF SyncReadTenants
<1>2. q \in Request /\ Flight(q, d, A, tenant)
  BY <1>1, Flying
<1>3. q.op = "sync"
  BY <1>1, <1>2, Syncing DEF Flight
<1>4. ~Releasing(q)
  BY <1>1, SMT DEF Releasing
<1> HIDE DEF q, d, A
<1>5. /\ n.pc = "row" /\ n.op = q.op /\ n.prop = q.prop /\ n.doc = q.doc /\ n.tid = q.tid
      /\ n.tstatus = q.tstatus /\ n.seen = tenant
  BY <1>2, SMT DEF Request
<1>6. n.log = q.log /\ n.manager = q.manager
  BY <1>2, Zenon DEF Request
<1> HIDE DEF n
<1>7. Flight(n, d, A, tenant)
  BY <1>1, <1>2, <1>3, <1>5, <1>6, SMT DEF Flight, OnRoute, AboutLive, Accurate,
     KeepsEviction, KeepsHold, WillRecord, KeepsOccupant, KeepsBookings
<1> QED
  BY <1>1, <1>4, <1>5, <1>7, GoesOn DEF q, d, A

LEMMA SerialSyncReadProperty ==
    ASSUME IInv, SInv, NEW r, Requests = {r}, SyncReadProperty(r)
    PROVE  SInv'
<1> DEFINE q == request[r]
           d == property[q.prop]
           A == Active(booking, q.prop)
           pc == IF d.life = "live" THEN "row" ELSE "idle"
           n == [q EXCEPT !.pc = pc, !.doc = d]
<1>1. q.pc = "readProperty" /\ Continue(r, n) /\ UNCHANGED db
  BY DEF SyncReadProperty
<1>2. /\ q \in Request /\ Flight(q, d, A, tenant) /\ d.life = "live"
      /\ NeverDeactivates => BookedIsActive(d)
  BY <1>1, Flying
<1>3. q.op = "sync"
  BY <1>1, <1>2, Syncing DEF Flight
<1>4. ~Releasing(q)
  BY <1>1, SMT DEF Releasing
<1>5. pc = "row"
  BY <1>2
<1> HIDE DEF q, d, A, pc
<1>6. /\ n.pc = "row" /\ n.op = q.op /\ n.prop = q.prop /\ n.doc = d /\ n.tid = q.tid
      /\ n.tstatus = q.tstatus /\ n.seen = q.seen
  BY <1>2, <1>5, SMT DEF Request
<1> HIDE DEF n
<1>7. Flight(n, d, A, tenant)
  BY <1>1, <1>2, <1>3, <1>6, SMT DEF Flight, OnRoute, AboutLive, Accurate,
     KeepsEviction, KeepsHold, WillRecord, KeepsOccupant, KeepsBookings
<1> QED
  BY <1>1, <1>4, <1>6, <1>7, GoesOn DEF q, d, A

\* The row of a tenant: the status, the link and the tenant document it writes.
LEMMA TenantRowFields ==
    ASSUME NEW q \in Request, q.op = "sync", NEW t \in Tenants, NEW status,
           NEW target \in Rental, NEW force \in BOOLEAN, NEW tenantChanged \in BOOLEAN
    PROVE  LET n == TenantRow(q, t, status, target, force, tenantChanged)
           IN  /\ n.pc \in {"write", "tenant", "idle"}
               /\ n.pc \in {"tenant", "idle"} => target = q.doc.status
               /\ n.op = "sync" /\ n.prop = q.prop /\ n.seen = q.seen
               /\ n.tid \in {t, None} /\ n.tstatus = status
               /\ target # q.doc.status => n.log
               /\ n.manager <=> q.manager
               /\ n.doc.status = target /\ n.doc.tenant = t /\ n.doc.life = q.doc.life
               /\ n.doc.active = q.doc.active /\ n.doc.announcement = q.doc.announcement
<1> DEFINE linked == SetTenantForPersistence(q.doc, t)
           doc == ApplyRentStatus(linked, target)
           moved == target # q.doc.status
           tid == IF tenantChanged THEN t ELSE None
           next == [q EXCEPT !.doc = doc, !.log = moved, !.tstatus = status, !.tid = tid]
           pc == IF moved \/ force THEN "write" ELSE AfterLog(next)
           n == [next EXCEPT !.pc = pc]
<1>1. TenantRow(q, t, status, target, force, tenantChanged) = n
  BY Zenon DEF TenantRow
<1>2. q.doc \in PropertyDoc
  BY SMT DEF Request
<1>3. linked \in PropertyDoc
  BY <1>2, Zenon DEF SetTenantForPersistence, PropertyDoc
<1>4. /\ linked.tenant = t /\ linked.life = q.doc.life /\ linked.active = q.doc.active
      /\ linked.announcement = q.doc.announcement
  BY <1>2, SMT DEF SetTenantForPersistence, PropertyDoc
<1> HIDE DEF linked
<1>5. /\ doc.status = target /\ doc.tenant = t /\ doc.life = q.doc.life
      /\ doc.active = q.doc.active /\ doc.announcement = q.doc.announcement
  BY <1>3, <1>4, SMT DEF ApplyRentStatus, PropertyDoc
<1> HIDE DEF doc
<1>6. tid \in {t, None}
  OBVIOUS
<1> HIDE DEF tid
<1>7. /\ next.op = "sync" /\ next.prop = q.prop /\ next.seen = q.seen /\ next.tid = tid
      /\ next.tstatus = status /\ next.doc = doc
      /\ n.op = next.op /\ n.prop = next.prop /\ n.seen = next.seen /\ n.tid = next.tid
      /\ n.tstatus = next.tstatus /\ n.doc = next.doc /\ n.pc = pc
  BY SMT DEF Request
<1>8. n.log = moved /\ n.manager = q.manager
  BY Zenon DEF Request
<1>9. pc \in {"write", "tenant", "idle"} /\ (pc \in {"tenant", "idle"} => ~moved)
  BY <1>7, SMT DEF AfterLog
<1> HIDE DEF next, n, pc
<1> QED
  BY <1>1, <1>5, <1>6, <1>7, <1>8, <1>9

\* A row about the current tenant keeps what the sync relies on.
LEMMA TenantRowFlies ==
    ASSUME NEW q \in Request, q.op = "sync", NEW d, q.doc = d, NEW A, NEW tn,
           d.life = "live", d.status # "OnHold", NEW t \in Tenants, NEW status,
           NEW target \in Rental, NEW force \in BOOLEAN, NEW tenantChanged \in BOOLEAN,
           status = tn[t].status,
           Transactional => d.tenant = t /\ status = "Active",
           NeverDeactivates => BookingsBack(d, A)
    PROVE  LET n == TenantRow(q, t, status, target, force, tenantChanged)
           IN  n.prop = q.prop /\ (n.pc # "idle" => Flight(n, d, A, tn))
<1> DEFINE n == TenantRow(q, t, status, target, force, tenantChanged)
<1>1. /\ n.pc \in {"write", "tenant", "idle"}
      /\ n.op = "sync" /\ n.prop = q.prop
      /\ n.tid \in {t, None} /\ n.tstatus = status
      /\ target # d.status => n.log
      /\ n.doc.status = target /\ n.doc.tenant = t /\ n.doc.life = d.life
      /\ n.doc.active = d.active /\ n.doc.announcement = d.announcement
  BY TenantRowFields
<1>2. target \notin {"Booked", "OnHold"}
  BY DEF Rental
<1> HIDE DEF n
<1>3. ASSUME n.pc # "idle"
      PROVE  Flight(n, d, A, tn)
  <2>1. OnRoute(n) /\ AboutLive(n, d) /\ Accurate(n, d, A, tn)
    BY <1>1, <1>3, SMT DEF OnRoute, AboutLive, Accurate
  <2>2. KeepsEviction(n, tn) /\ KeepsHold(n, d) /\ WillRecord(n, d)
    BY <1>1, <1>3, SMT DEF KeepsEviction, KeepsHold, WillRecord
  <2>3. Transactional => KeepsOccupant(n, d)
    BY <1>1, <1>3, SMT DEF KeepsOccupant
  <2>4. NeverDeactivates => KeepsBookings(n, A)
    BY <1>1, <1>2, <1>3, SMT DEF KeepsBookings, BookedIsActive, BookingsBack
  <2> QED
    BY <2>1, <2>2, <2>3, <2>4 DEF Flight
<1> QED
  BY <1>1, <1>3 DEF n

LEMMA SerialSyncRow ==
    ASSUME IInv, SInv, NEW r, Requests = {r}, SyncRow(r)
    PROVE  SInv'
<1> DEFINE q == request[r]
           d == property[q.prop]
           A == Active(booking, q.prop)
<1>1. q.pc = "row" /\ UNCHANGED db
  BY DEF SyncRow
<1>2. /\ q \in Request /\ q.prop \in Properties /\ Flight(q, d, A, tenant) /\ d.life = "live"
      /\ d \in PropertyDoc /\ TenancyMatchesStatus(d)
      /\ NeverDeactivates => BookedIsActive(d) /\ (BookingsBack(d, A) \/ Releasing(q))
  BY <1>1, Flying
<1>3. q.op = "sync" /\ q.tid = None /\ q.tstatus = "Active" /\ q.doc = d /\ q.seen = tenant
  BY <1>1, <1>2, Syncing, SMT DEF Flight, OnRoute, Accurate
<1>4. ~Releasing(q)
  BY <1>1, SMT DEF Releasing
<1>5. ASSUME NEW n, Continue(r, n), n.pc # "idle" => n.prop = q.prop /\ Flight(n, d, A, tenant)
      PROVE  SInv'
  BY <1>1, <1>4, <1>5, GoesOn
<1>6. CASE Continue(r, [q EXCEPT !.pc = "idle"])
  <2>1. [q EXCEPT !.pc = "idle"].pc = "idle"
    BY <1>2, SetCall DEF Calls
  <2> QED
    BY <1>5, <1>6, <2>1
<1>7. CASE q.doc.status # "OnHold" /\ Continue(r, EmptyRow(q))
  <2> DEFINE free == CanMakeAvailable(q.doc) /\ q.doc.status # "Available"
             doc == MakeAvailable(q.doc)
             done == [q EXCEPT !.pc = "write", !.log = TRUE, !.doc = doc]
             n == EmptyRow(q)
  <2>1. CASE ~free
    <3>1. n.pc = "idle"
      BY <1>2, <2>1, SetCall DEF EmptyRow, Calls
    <3> QED
      BY <1>5, <1>7, <3>1
  <2>2. CASE free
    <3>1. n = done
      BY <2>2, Zenon DEF EmptyRow
    <3>2. /\ doc.status = "Available" /\ doc.life = d.life /\ doc.tenant = d.tenant
          /\ doc.announcement = d.announcement
      BY <1>2, <1>3, SMT DEF MakeAvailable, PropertyDoc
    <3> HIDE DEF doc, d, A
    <3>3. /\ done.pc = "write" /\ done.op = "sync" /\ done.prop = q.prop /\ done.doc = doc
          /\ done.tid = q.tid /\ done.tstatus = q.tstatus /\ done.log
      BY <1>2, <1>3, SMT DEF Request
    <3> HIDE DEF done, n, q
    <3>4. d.status # "OnHold"
      BY <1>3, <1>7
    <3>5. NeverDeactivates => BookingsBack(d, A)
      BY <1>2, <1>4
    <3>6. Flight(done, d, A, tenant)
      BY <1>1, <1>2, <1>3, <3>2, <3>3, <3>4, <3>5, SMT DEF Flight, OnRoute, AboutLive,
         Accurate, KeepsEviction, KeepsHold, WillRecord, KeepsOccupant, KeepsBookings,
         BookedIsActive, BookingsBack
    <3> QED
      BY <1>5, <1>7, <3>1, <3>3, <3>6 DEF n
  <2> QED
    BY <2>1, <2>2
<1>8. RowTargets(q.doc) \subseteq Rental
  BY SMT DEF RowTargets, TargetStatuses, Rental
<1>9. NeverDeactivates => BookingsBack(d, A)
  BY <1>2, <1>4
<1>10. ASSUME q.doc.status # "OnHold", CanApplyRentStatus(q.doc),
              SyncedTenant(q, q.doc.tenant).status # "absent",
              NEW target \in RowTargets(q.doc), NEW force \in BOOLEAN,
              NEW tenantChanged \in BOOLEAN,
              Continue(r, TenantRow(q, q.doc.tenant, SyncedTenant(q, q.doc.tenant).status,
                                    target, force, tenantChanged))
       PROVE  SInv'
  <2> DEFINE t == q.doc.tenant
             status == SyncedTenant(q, t).status
             n == TenantRow(q, t, status, target, force, tenantChanged)
  <2>1. t \in Tenants /\ t = d.tenant
    BY <1>2, <1>3, <1>10 DEF CanApplyRentStatus, PropertyDoc
  <2>2. status = tenant[t].status
    BY <1>3 DEF SyncedTenant
  <2>3. Transactional => status = "Active"
    <3>1. Transactional => tenant[t] = [status |-> "Active", home |-> q.prop]
      BY <1>2, <2>1 DEF SInv, OccupantsActive
    <3> HIDE DEF t, status
    <3> QED
      BY <2>2, <3>1, SMT
  <2>4. target \in Rental
    BY <1>8
  <2> HIDE DEF status
  <2>5. n.prop = q.prop /\ (n.pc # "idle" => Flight(n, d, A, tenant))
    <3> HIDE DEF t, d, A, q
    <3> QED
      BY <1>2, <1>3, <1>9, <1>10, <2>1, <2>2, <2>3, <2>4, TenantRowFlies
  <2>6. Continue(r, n)
    BY <1>10 DEF status
  <2> HIDE DEF n
  <2> QED
    BY <1>5, <2>5, <2>6
<1>11. ASSUME q.doc.status # "OnHold", q.doc.tenant = None, EnsureActive(q.doc),
              NEW t \in Tenants, NEW target \in RowTargets(q.doc), NEW tenantChanged \in BOOLEAN,
              q.seen[t] = [status |-> "Active", home |-> q.prop],
              Continue(r, TenantRow(q, t, "Active", target, TRUE, tenantChanged))
       PROVE  SInv'
  <2> DEFINE status == "Active"
             force == TRUE
             n == TenantRow(q, t, status, target, force, tenantChanged)
  <2>1. tenant[t] = [status |-> "Active", home |-> q.prop]
    BY <1>3, <1>11
  <2>2. status = tenant[t].status /\ force \in BOOLEAN
    BY <2>1, SMT
  <2>3. ~Transactional
    BY <1>2, <1>3, <1>11, <2>1 DEF SInv, OccupantsActive
  <2>4. target \in Rental
    BY <1>8
  <2>5. Continue(r, n)
    BY <1>11
  <2> HIDE DEF status, force
  <2>6. d.status # "OnHold"
    BY <1>3, <1>11
  <2>7. n.prop = q.prop /\ (n.pc # "idle" => Flight(n, d, A, tenant))
    <3> HIDE DEF d, A, q
    <3> QED
      BY <1>2, <1>3, <1>9, <2>2, <2>3, <2>4, <2>6, TenantRowFlies
  <2> HIDE DEF n
  <2> QED
    BY <1>5, <2>5, <2>7
<1>12. ASSUME q.doc.status # "OnHold", q.doc.tenant = None,
              NEW t \in Tenants, NEW target \in RowTargets(q.doc),
              FreshTenant(t), Continue(r, ImportRow(q, t, target))
       PROVE  SInv'
  <2> DEFINE linked == SetTenantForPersistence(d, t)
             doc == SetStatusForPersistence(linked, target)
             n == [q EXCEPT !.op = "import", !.pc = "store", !.log = TRUE, !.tid = t, !.doc = doc]
  <2>1. ImportRow(q, t, target) = n
    BY <1>3, Zenon DEF ImportRow
  <2>2. linked \in PropertyDoc
    BY <1>2, Zenon DEF SetTenantForPersistence, PropertyDoc
  <2>3. linked.tenant = t /\ linked.life = d.life /\ linked.announcement = d.announcement
    BY <1>2, SMT DEF SetTenantForPersistence, PropertyDoc
  <2> HIDE DEF linked
  <2>4. /\ doc.status = target /\ doc.tenant = t /\ doc.life = d.life
        /\ doc.announcement = d.announcement
    BY <2>2, <2>3, SMT DEF SetStatusForPersistence, PropertyDoc
  <2> HIDE DEF doc
  <2>5. /\ n.op = "import" /\ n.pc = "store" /\ n.tid = t /\ n.doc = doc
        /\ n.prop = q.prop /\ n.tstatus = q.tstatus
    BY <1>2, SMT DEF Request
  <2>6. n.log
    BY <1>2, Zenon DEF Request
  <2>7. tenant[t].status = "absent" /\ target \notin {"Booked", "OnHold"}
    BY <1>8, <1>12 DEF FreshTenant, Rental
  <2> HIDE DEF n
  <2>8. Flight(n, d, A, tenant)
    <3> HIDE DEF d, A, q
    <3>1. OnRoute(n) /\ AboutLive(n, d) /\ Accurate(n, d, A, tenant)
      BY <1>2, <2>4, <2>5, <2>6, SMT DEF OnRoute, AboutLive, Accurate
    <3>2. KeepsEviction(n, tenant) /\ KeepsHold(n, d) /\ WillRecord(n, d)
      BY <1>3, <1>12, <2>4, <2>5, <2>6, <2>7, SMT DEF KeepsEviction, KeepsHold, WillRecord
    <3>3. Transactional => KeepsOccupant(n, d)
      BY <1>3, <1>12, <2>4, <2>5, SMT DEF KeepsOccupant
    <3>4. NeverDeactivates => KeepsBookings(n, A)
      BY <1>2, <1>9, <2>4, <2>5, <2>7, SMT DEF KeepsBookings, BookedIsActive, BookingsBack
    <3> QED
      BY <3>1, <3>2, <3>3, <3>4 DEF Flight
  <2> QED
    BY <1>5, <1>12, <2>1, <2>5, <2>8
<1> QED
  BY <1>6, <1>7, <1>10, <1>11, <1>12, Zenon DEF SyncRow

-----------------------------------------------------------------------------
(* Requests that write bookings *)

\* Between r's reading and r's writing of them, the bookings of other properties stay.
BookingsElsewhere(p) ==
    \A x \in Properties : x # p => Active(booking', x) = Active(booking, x)

\* A step of the only request in flight that writes bookings of its property only.
LEMMA BookingsWritten ==
    ASSUME IInv, SInv, NEW r, Requests = {r}, request[r].pc \notin {"idle", "log"},
           NEW n, Continue(r, n), UNCHANGED <<property, tenant, history>>,
           BookingsElsewhere(request[r].prop),
           n.pc # "idle"
           => /\ n.prop = request[r].prop
              /\ Flight(n, property[request[r].prop], Active(booking', request[r].prop), tenant),
           NeverDeactivates
           => \/ BookingsBack(property[request[r].prop], Active(booking', request[r].prop))
              \/ Releasing(n)
    PROVE  SInv'
<1> DEFINE p == request[r].prop
<1>1. /\ p \in Properties /\ property[p].life = "live"
      /\ NeverFails => history[p] = property[p].status
      /\ NeverDeactivates => BookedIsActive(property[p])
  BY Flying
<1>2. property' = property /\ tenant' = tenant /\ history' = history
  OBVIOUS
<1>3. Transactional => OccupantsActive'
  BY OccupantsStay DEF SInv
<1> HIDE DEF p
<1>4. n.pc # "idle" => n.prop = p /\ Flight(n, property'[p], Active(booking', p), tenant')
  BY <1>2 DEF p
<1>5. \A x \in Properties : x # p => /\ property'[x] = property[x]
                                     /\ history'[x] = history[x]
                                     /\ Active(booking', x) = Active(booking, x)
  BY <1>2 DEF p, BookingsElsewhere
<1>6. NeverDeactivates => /\ BookedIsActive(property'[p])
                          /\ \/ BookingsBack(property'[p], Active(booking', p))
                             \/ Releasing(n)
  BY <1>1, <1>2 DEF p
<1>7. property'[p].life # "absent" /\ (NeverFails => history'[p] = property'[p].status)
  BY <1>1, <1>2
<1> QED
  BY <1>1, <1>3, <1>4, <1>5, <1>6, <1>7, Onward DEF p

LEMMA SerialInsertBooking ==
    ASSUME IInv, SInv, NEW r, Requests = {r}, NEW b \in Bookings, InsertBooking(r, b)
    PROVE  SInv'
<1> DEFINE q == request[r]
           d == property[q.prop]
           A == Active(booking, q.prop)
           B == Active(booking', q.prop)
           n == [q EXCEPT !.pc = "write"]
           doc == [status |-> "Active", home |-> q.prop]
<1>1. /\ q.pc = "insert" /\ booking[b].status = "absent"
      /\ booking' = [booking EXCEPT ![b] = doc]
      /\ Continue(r, n) /\ UNCHANGED <<property, tenant, history>>
  BY DEF InsertBooking
<1>2. /\ q \in Request /\ Flight(q, d, A, tenant) /\ d.life = "live"
  BY <1>1, Flying
<1>3. n.pc = "write" /\ SameButCall(n, q)
  BY <1>2, SetCall DEF Calls
<1>4. \A x \in Bookings : booking'[x] = IF x = b THEN doc ELSE booking[x]
  BY <1>1, SMT DEF IInv, TypeOK
<1>5. b \in B
  BY <1>4 DEF Active
<1>6. BookingsElsewhere(q.prop)
  <2> SUFFICES ASSUME NEW x \in Properties, x # q.prop
               PROVE  Active(booking', x) = Active(booking, x)
    BY DEF BookingsElsewhere
  <2>1. doc.home # x
    BY SMT
  <2>2. doc # [status |-> "Active", home |-> x]
    BY <2>1, SMT
  <2>3. booking[b] # [status |-> "Active", home |-> x]
    BY <1>1, SMT
  <2> HIDE DEF doc
  <2> QED
    BY <1>4, <2>2, <2>3 DEF Active
<1>7. q.op = "book"
  <2>1. q.op \in AllOps \cup {"none"}
    BY <1>2, SMT DEF Request
  <2> QED
    BY <1>1, <1>2, <2>1, SMT DEF Flight, OnRoute, AllOps
<1> HIDE DEF q, d, A, B, n
<1>8. Flight(n, d, B, tenant)
  BY <1>1, <1>2, <1>3, <1>5, <1>7, SMT DEF Flight, OnRoute, AboutLive, Accurate,
     KeepsEviction, KeepsHold, WillRecord, KeepsOccupant, KeepsBookings, BookingsBack,
     BookedIsActive, SameButCall
<1>9. BookingsBack(d, B)
  BY <1>2, <1>5 DEF BookingsBack
<1>10. n.prop = q.prop
  BY <1>3 DEF SameButCall
<1> QED
  BY <1>1, <1>6, <1>8, <1>9, <1>10, BookingsWritten DEF q, d, B

\* A cancelled booking was active and leaves the others alone.
LEMMA SerialWriteBooking ==
    ASSUME IInv, SInv, NEW r, Requests = {r}, WriteBooking(r)
    PROVE  SInv'
<1> DEFINE q == request[r]
           d == property[q.prop]
           A == Active(booking, q.prop)
           B == Active(booking', q.prop)
           n == [q EXCEPT !.pc = "count"]
           doc == [status |-> "Cancelled", home |-> q.prop]
<1>1. /\ q.pc = "writeBooking" /\ booking' = [booking EXCEPT ![q.bid] = doc]
      /\ Continue(r, n) /\ UNCHANGED <<property, tenant, history>>
  BY DEF WriteBooking
<1>2. q \in Request /\ Flight(q, d, A, tenant) /\ q.op = "cancel"
  BY <1>1, Flying DEF GoodRequest
<1>3. n.pc = "count" /\ SameButCall(n, q)
  BY <1>2, SetCall DEF Calls
<1>4. \A x \in Bookings : booking'[x] = IF x = q.bid THEN doc ELSE booking[x]
  BY <1>1, SMT DEF IInv, TypeOK
<1>5. q.bid \in A
  BY <1>1, <1>2 DEF Flight, Accurate
<1>6. BookingsElsewhere(q.prop)
  <2> SUFFICES ASSUME NEW x \in Properties, x # q.prop
               PROVE  Active(booking', x) = Active(booking, x)
    BY DEF BookingsElsewhere
  <2>1. doc # [status |-> "Active", home |-> x]
    BY SMT
  <2>2. booking[q.bid] = [status |-> "Active", home |-> q.prop]
    BY <1>5 DEF Active
  <2>3. [status |-> "Active", home |-> q.prop] # [status |-> "Active", home |-> x]
    BY SMT
  <2> HIDE DEF doc, q
  <2> QED
    BY <1>4, <2>1, <2>2, <2>3 DEF Active
<1> HIDE DEF q, d, A, B, n, doc
<1>7. Flight(n, d, B, tenant)
  BY <1>1, <1>2, <1>3, SMT DEF Flight, OnRoute, AboutLive, Accurate,
     KeepsEviction, KeepsHold, WillRecord, KeepsOccupant, KeepsBookings, SameButCall
<1>8. Releasing(n) /\ n.prop = q.prop
  BY <1>2, <1>3 DEF Releasing, SameButCall
<1> QED
  BY <1>1, <1>6, <1>7, <1>8, BookingsWritten DEF q, d, B

\* After updateMany no booking of the property is active.
LEMMA BookingsClosed ==
    ASSUME IInv, NEW r \in Requests, request[r].pc # "idle", CloseBookings(r)
    PROVE  Active(booking', request[r].prop) = {} /\ BookingsElsewhere(request[r].prop)
<1> DEFINE q == request[r]
           outcome == IF q.op = "assign" THEN "Converted" ELSE "Cancelled"
<1>1. \A x \in Bookings :
        booking'[x] = IF x \in Active(booking, q.prop)
                      THEN [booking[x] EXCEPT !.status = outcome] ELSE booking[x]
  BY Zenon DEF CloseBookings, Active, ActiveBookings
<1>2. \A x \in Bookings : booking[x] \in BookingDoc
  BY DEF IInv, TypeOK
<1>3. outcome # "Active"
  OBVIOUS
<1> HIDE DEF outcome
<1>4. ASSUME NEW x \in Bookings, x \in Active(booking, q.prop)
      PROVE  booking'[x].status # "Active"
  <2> DEFINE y == booking[x]
  <2>1. booking'[x] = [y EXCEPT !.status = outcome] /\ y \in BookingDoc
    BY <1>1, <1>2, <1>4
  <2> HIDE DEF y
  <2> QED
    BY <1>3, <2>1, SMT DEF BookingDoc
<1> HIDE DEF q
<1>5. ASSUME NEW x \in Bookings, NEW p, booking'[x] = [status |-> "Active", home |-> p]
      PROVE  x \notin Active(booking, q.prop) /\ booking'[x] = booking[x]
  <2>1. booking'[x].status = "Active"
    BY <1>5, SMT
  <2> QED
    BY <1>1, <1>4, <2>1
<1>6. Active(booking', q.prop) = {}
  BY <1>5, Zenon DEF Active
<1>7. BookingsElsewhere(q.prop)
  <2> SUFFICES ASSUME NEW x \in Properties, x # q.prop
               PROVE  Active(booking', x) = Active(booking, x)
    BY DEF BookingsElsewhere
  <2>1. Active(booking', x) \subseteq Active(booking, x)
    BY <1>5, Zenon DEF Active
  <2>2. ASSUME NEW b \in Active(booking, x)
        PROVE  b \in Active(booking', x)
    <3>1. [status |-> "Active", home |-> q.prop] # [status |-> "Active", home |-> x]
      BY SMT
    <3>2. b \notin Active(booking, q.prop) /\ b \in Bookings
      BY <3>1, Zenon DEF Active
    <3> QED
      BY <1>1, <3>2 DEF Active
  <2> QED
    BY <2>1, <2>2
<1> QED
  BY <1>6, <1>7 DEF q

LEMMA SerialCloseBookings ==
    ASSUME IInv, SInv, NEW r, Requests = {r}, CloseBookings(r)
    PROVE  SInv'
<1> DEFINE q == request[r]
           d == property[q.prop]
           A == Active(booking, q.prop)
           B == Active(booking', q.prop)
<1>1. q.pc = "close" /\ UNCHANGED <<property, tenant, history>>
  BY DEF CloseBookings
<1>2. /\ q \in Request /\ Flight(q, d, A, tenant) /\ d.life = "live" /\ TenancyMatchesStatus(d)
      /\ NeverDeactivates => BookedIsActive(d)
  BY <1>1, Flying
<1>3. B = {} /\ BookingsElsewhere(q.prop)
  BY <1>1, BookingsClosed
<1>4. q.op \in {"assign", "closeAll", "changeStatus", "delete"}
  <2>1. q.op \in AllOps \cup {"none"}
    BY <1>2, SMT DEF Request
  <2> QED
    BY <1>1, <1>2, <2>1, SMT DEF Flight, OnRoute, AllOps
<1>5. CASE q.op = "assign"
  <2> DEFINE n == [q EXCEPT !.pc = "idle"]
  <2>1. Continue(r, n)
    BY <1>5, SMT DEF CloseBookings
  <2>2. n.pc = "idle"
    BY <1>2, SetCall DEF Calls
  <2> HIDE DEF n, q, d, A, B
  <2>3. NeverDeactivates => BookingsBack(d, B)
    BY <1>1, <1>2, <1>5, SMT DEF Flight, Accurate, KeepsBookings, BookingsBack
  <2> QED
    BY <1>1, <1>3, <2>1, <2>2, <2>3, BookingsWritten DEF q, d, B
<1>6. CASE q.op = "closeAll"
  <2> DEFINE n == Released(q)
  <2>1. Continue(r, n)
    BY <1>6, SMT DEF CloseBookings
  <2>2. q.doc = d /\ ~q.log
    BY <1>1, <1>2, <1>6, SMT DEF Flight, Accurate
  <2> HIDE DEF q, d, A, B
  <2>3. NeverDeactivates /\ d.status = "Booked" => CanMakeAvailable(d)
    BY <1>2, SMT DEF BookedIsActive, CanMakeAvailable, EnsureActive, TenancyMatchesStatus, Rental
  <2>4. /\ n.pc = "idle" <=> d.status = "Booked" /\ ~CanMakeAvailable(d)
        /\ n.pc \in {"idle", "write"}
        /\ n.op = q.op /\ n.prop = q.prop /\ n.tid = q.tid
        /\ n.pc = "write"
           => /\ n.doc.status # "Booked" /\ n.doc.announcement = "none"
              /\ n.doc.status # d.status => n.log
              /\ d.status # "Booked" => n.doc.status = d.status
              /\ n.doc.life = d.life /\ n.doc.tenant = d.tenant
    BY <1>2, <2>2, ReleasedFields
  <2> HIDE DEF n
  <2>5. n.pc = "write" => Flight(n, d, B, tenant)
    BY <1>1, <1>2, <1>6, <2>2, <2>4, SMT DEF Flight, OnRoute, AboutLive, Accurate,
       KeepsEviction, KeepsHold, WillRecord, KeepsOccupant, KeepsBookings, BookedIsActive,
       BookingsBack
  <2>6. NeverDeactivates => Releasing(n)
    BY <1>6, <2>3, <2>4 DEF Releasing
  <2> QED
    BY <1>1, <1>3, <2>1, <2>4, <2>5, <2>6, BookingsWritten DEF q, d, B
<1>7. CASE q.op \in {"changeStatus", "delete"}
  <2> DEFINE n == [q EXCEPT !.pc = "write"]
  <2>1. Continue(r, n)
    BY <1>7, SMT DEF CloseBookings
  <2>2. n.pc = "write" /\ SameButCall(n, q)
    BY <1>2, SetCall DEF Calls
  <2> HIDE DEF n, q, d, A, B
  <2>3. Flight(n, d, B, tenant)
    BY <1>1, <1>2, <1>3, <1>7, <2>2, SMT DEF Flight, OnRoute, AboutLive, Accurate,
       KeepsEviction, KeepsHold, WillRecord, KeepsOccupant, KeepsBookings, BookedIsActive,
       BookingsBack, SameButCall
  <2>4. Releasing(n) /\ n.prop = q.prop
    BY <1>7, <2>2 DEF Releasing, SameButCall
  <2> QED
    BY <1>1, <1>3, <2>1, <2>2, <2>3, <2>4, BookingsWritten DEF q, d, B
<1> QED
  BY <1>4, <1>5, <1>6, <1>7

-----------------------------------------------------------------------------
(* Requests that write properties, histories and tenants *)

\* What is left after a property write, a history entry or a transaction.
LEMMA WhatIsLeft ==
    ASSUME NEW q \in Request
    PROVE  /\ AfterLog(q) \in {"close", "tenant", "idle"} /\ AfterLog(q) \in Calls
           /\ AfterLog(q) = "close" <=> q.op = "assign"
           /\ AfterLog(q) = "tenant" <=> q.op = "sync" /\ q.tid # None
           /\ AfterWrite(q) \in {"log", AfterLog(q)} /\ AfterWrite(q) \in Calls
           /\ AfterWrite(q) = "log" <=> q.log
  BY SMT DEF AfterLog, AfterWrite, Calls

LEMMA SerialWriteProperty ==
    ASSUME IInv, SInv, NEW r, Requests = {r}, WriteProperty(r)
    PROVE  SInv'
<1> DEFINE q == request[r]
           p == q.prop
           d == property[p]
           doc == q.doc
           A == Active(booking, p)
           pc == AfterWrite(q)
           n == [q EXCEPT !.pc = pc]
<1>1. /\ q.pc = "write" /\ property' = [property EXCEPT ![p] = doc]
      /\ Continue(r, n) /\ UNCHANGED <<tenant, booking, history>>
  BY DEF WriteProperty
<1>2. /\ q \in Request /\ p \in Properties /\ Flight(q, d, A, tenant)
      /\ NeverFails => history[p] = d.status
  BY <1>1, Flying
<1>3. /\ property'[p] = doc
      /\ \A x \in Properties : x # p => property'[x] = property[x]
  BY <1>1, <1>2 DEF IInv, TypeOK
<1>4. n.pc = pc /\ SameButCall(n, q)
  BY <1>2, WhatIsLeft, SetCall
<1>5. q.op \in AllOps \cup {"none"}
  BY <1>2, SMT DEF Request
<1>6. Transactional => doc.tenant = d.tenant
  <2> HIDE DEF q, p, d, A
  <2> QED
    BY <1>1, <1>2, <1>5, SMT DEF Flight, OnRoute, KeepsOccupant
<1>7. Transactional => OccupantsActive'
  <2> HIDE DEF doc
  <2>1. ASSUME Transactional
        PROVE  \A x \in Properties : property'[x].tenant = property[x].tenant
    BY <1>3, <1>6, <2>1
  <2> HIDE DEF p, q
  <2> QED
    BY <1>1, <2>1, SameOccupants DEF SInv
<1>8. /\ pc \in {"log", "close", "tenant", "idle"} /\ (pc = "log" <=> q.log)
      /\ pc = "tenant" => q.op = "sync" /\ q.tid # None
      /\ pc = "close" => q.op = "assign"
  BY <1>2, WhatIsLeft
<1> HIDE DEF q, p, d, A, pc, n
<1>9. /\ doc.life # "absent"
      /\ NeverFails => history[p] = doc.status \/ pc = "log"
      /\ NeverDeactivates => BookedIsActive(doc) /\ BookingsBack(doc, A)
  BY <1>1, <1>2, <1>8, SMT DEF Flight, AboutLive, WillRecord, KeepsBookings
<1>10. pc # "idle" => Flight(n, doc, A, tenant)
  BY <1>1, <1>2, <1>4, <1>6, <1>8, SMT DEF Flight, OnRoute, AboutLive, Accurate,
     KeepsEviction, KeepsHold, WillRecord, KeepsOccupant, KeepsBookings, SameButCall
<1>11. n.prop = p
  BY <1>4 DEF SameButCall, p
<1> HIDE DEF doc
<1> QED
  BY <1>1, <1>2, <1>3, <1>4, <1>7, <1>9, <1>10, <1>11, Onward DEF q, p, A, d

LEMMA SerialWriteHistory ==
    ASSUME IInv, SInv, NEW r, Requests = {r}, WriteHistory(r)
    PROVE  SInv'
<1> DEFINE q == request[r]
           p == q.prop
           d == property[p]
           A == Active(booking, p)
           pc == AfterLog(q)
           n == [q EXCEPT !.pc = pc]
<1>1. /\ q.pc = "log" /\ history' = [history EXCEPT ![p] = q.doc.status]
      /\ Continue(r, n) /\ UNCHANGED <<property, tenant, booking>>
  BY DEF WriteHistory
<1>2. /\ q \in Request /\ p \in Properties /\ Flight(q, d, A, tenant) /\ d.life = "live"
      /\ NeverDeactivates => BookedIsActive(d) /\ (BookingsBack(d, A) \/ Releasing(q))
  BY <1>1, Flying
<1>3. /\ history'[p] = q.doc.status
      /\ \A x \in Properties : x # p => history'[x] = history[x]
  BY <1>1, <1>2 DEF IInv, TypeOK
<1>4. n.pc = pc /\ SameButCall(n, q)
  BY <1>2, WhatIsLeft, SetCall
<1>5. Transactional => OccupantsActive'
  BY <1>1, OccupantsStay DEF SInv
<1>6. /\ pc \in {"close", "tenant", "idle"}
      /\ pc = "tenant" => q.op = "sync" /\ q.tid # None
      /\ pc = "close" => q.op = "assign"
  BY <1>2, WhatIsLeft
<1>7. ~Releasing(q)
  BY <1>1, SMT DEF Releasing
<1> HIDE DEF q, p, d, A, pc, n
<1>8. q.doc = d
  BY <1>1, <1>2 DEF Flight, Accurate
<1>9. pc # "idle" => Flight(n, d, A, tenant)
  BY <1>1, <1>2, <1>4, <1>6, <1>8, SMT DEF Flight, OnRoute, AboutLive, Accurate,
     KeepsEviction, KeepsHold, WillRecord, KeepsOccupant, KeepsBookings, SameButCall
<1>10. n.prop = p
  BY <1>4 DEF SameButCall, p
<1> QED
  BY <1>1, <1>2, <1>3, <1>4, <1>5, <1>7, <1>8, <1>9, <1>10, Onward DEF q, p, A, d

\* The tenant document of a request, and the others.
LEMMA TenantsAfter ==
    ASSUME IInv, NEW q \in Request, q.tid # None, TenantWritten(q)
    PROVE  /\ q.tid \in Tenants
           /\ tenant'[q.tid] = [status |-> q.tstatus, home |-> q.prop]
           /\ \A t \in Tenants : t # q.tid => tenant'[t] = tenant[t]
<1>1. q.tid \in Tenants
  BY SMT DEF Request
<1> QED
  BY <1>1 DEF TenantWritten, IInv, TypeOK

LEMMA SerialStoreTenant ==
    ASSUME IInv, SInv, NEW r, Requests = {r}, StoreTenant(r)
    PROVE  SInv'
<1> DEFINE q == request[r]
           p == q.prop
           d == property[p]
           A == Active(booking, p)
           n == [q EXCEPT !.pc = "write"]
<1>1. /\ ~Transactional /\ q.pc = "store" /\ TenantWritten(q)
      /\ Continue(r, n) /\ UNCHANGED <<property, booking, history>>
  BY DEF StoreTenant
<1>2. /\ q \in Request /\ GoodRequest(q, tenant) /\ p \in Properties
      /\ Flight(q, d, A, tenant) /\ d.life = "live"
      /\ NeverFails => history[p] = d.status
      /\ NeverDeactivates => BookedIsActive(d) /\ (BookingsBack(d, A) \/ Releasing(q))
  BY <1>1, Flying
<1>3. n.pc = "write" /\ SameButCall(n, q)
  BY <1>2, SetCall DEF Calls
<1>4. ~Releasing(q)
  BY <1>1, SMT DEF Releasing
<1>5. q.op \in {"assign", "updateTenant", "evict", "import"}
  <2>1. q.op \in AllOps \cup {"none"}
    BY <1>2, SMT DEF Request
  <2> QED
    BY <1>1, <1>2, <2>1, SMT DEF Flight, OnRoute, AllOps
<1> HIDE DEF q, p, d, A, n
<1>6. Flight(n, d, A, tenant')
  BY <1>1, <1>2, <1>3, <1>5, SMT DEF Flight, OnRoute, AboutLive, Accurate,
     KeepsEviction, KeepsHold, WillRecord, KeepsOccupant, KeepsBookings, SameButCall
<1>7. n.prop = p
  BY <1>3 DEF SameButCall, p
<1> QED
  BY <1>1, <1>2, <1>3, <1>4, <1>6, <1>7, Onward DEF q, p, A, d

\* A transaction keeps the active tenants the current ones.
LEMMA TransactionKeepsOccupants ==
    ASSUME IInv, OccupantsActive, NEW q \in Request, NEW p \in Properties, q.prop = p, q.tid # None,
           GoodRequest(q, tenant), KeepsOccupant(q, property[p]), q.pc = "store",
           q.op \in {"assign", "updateTenant", "evict", "import"},
           q.op = "evict" => q.tstatus = "Evicted",
           TenantWritten(q), property' = [property EXCEPT ![p] = q.doc]
    PROVE  OccupantsActive'
<1> DEFINE t == q.tid
           d == property[p]
           Home(x) == [status |-> "Active", home |-> x]
<1>1. /\ t \in Tenants /\ tenant'[t] = [status |-> q.tstatus, home |-> p]
      /\ \A s \in Tenants : s # t => tenant'[s] = tenant[s]
  BY TenantsAfter
<1>2. property'[p] = q.doc /\ \A x \in Properties : x # p => property'[x] = property[x]
  BY DEF IInv, TypeOK
<1>3. \A s \in Tenants, x \in Properties : tenant[s] = Home(x) <=> property[x].tenant = s
  BY DEF OccupantsActive
<1>4. \A x, y : Home(x) = Home(y) => x = y
  BY SMT
<1>5. \A x : Home(x).status = "Active"
  BY SMT
<1>6. [status |-> q.tstatus, home |-> p].status = q.tstatus
  BY SMT
<1>7. q.tstatus = "Active" => tenant'[t] = Home(p)
  BY <1>1
<1> HIDE DEF Home
<1>8. CASE q.op \in {"assign", "import"}
  <2>1. tenant[t].status = "absent" /\ d.tenant = None /\ q.doc.tenant = t /\ q.tstatus = "Active"
    BY <1>8 DEF GoodRequest, Inserting, KeepsOccupant
  <2>2. \A x \in Properties : property[x].tenant # t
    BY <1>1, <1>3, <1>5, <2>1
  <2> HIDE DEF t
  <2>3. \A s \in Tenants, x \in Properties : tenant'[s] = Home(x) <=> property'[x].tenant = s
    BY <1>1, <1>2, <1>3, <1>4, <1>7, <2>1, <2>2
  <2> QED
    BY <2>3, Zenon DEF OccupantsActive, Home
<1>9. CASE q.op = "evict"
  <2>1. d.tenant = t /\ q.doc.tenant = None /\ q.tstatus = "Evicted"
    BY <1>9 DEF KeepsOccupant
  <2>2. \A x \in Properties : tenant'[t] # Home(x)
    BY <1>1, <1>5, <1>6, <2>1
  <2>3. tenant[t] = Home(p)
    BY <1>1, <1>3, <2>1
  <2>4. \A x \in Properties : x # p => property[x].tenant # t
    BY <1>1, <1>3, <1>4, <2>3
  <2> HIDE DEF t
  <2>5. \A s \in Tenants, x \in Properties : tenant'[s] = Home(x) <=> property'[x].tenant = s
    BY <1>1, <1>2, <1>3, <2>1, <2>2, <2>4
  <2> QED
    BY <2>5, Zenon DEF OccupantsActive, Home
<1>10. CASE q.op = "updateTenant"
  <2>1. d.tenant = t /\ q.doc.tenant = t /\ q.tstatus = "Active"
    BY <1>10 DEF KeepsOccupant
  <2>2. tenant'[t] = tenant[t]
    BY <1>1, <1>3, <1>7, <2>1
  <2> QED
    BY <1>1, <1>2, <2>1, <2>2, SameOccupants
<1> QED
  BY <1>8, <1>9, <1>10

LEMMA SerialStoreTransaction ==
    ASSUME IInv, SInv, NEW r, Requests = {r}, StoreTransaction(r)
    PROVE  SInv'
<1> DEFINE q == request[r]
           p == q.prop
           d == property[p]
           doc == q.doc
           A == Active(booking, p)
           pc == AfterLog(q)
           n == [q EXCEPT !.pc = pc]
<1>1. /\ Transactional /\ q.pc = "store" /\ TenantWritten(q)
      /\ property' = [property EXCEPT ![p] = doc]
      /\ history' = IF q.log THEN [history EXCEPT ![p] = doc.status] ELSE history
      /\ Continue(r, n) /\ booking' = booking
  BY Zenon DEF StoreTransaction
<1>2. /\ q \in Request /\ GoodRequest(q, tenant) /\ p \in Properties
      /\ Flight(q, d, A, tenant)
      /\ NeverFails => history[p] = d.status
  BY <1>1, Flying
<1>3. /\ property'[p] = doc
      /\ \A x \in Properties : x # p => property'[x] = property[x]
      /\ history'[p] = IF q.log THEN doc.status ELSE history[p]
      /\ \A x \in Properties : x # p => history'[x] = history[x]
  BY <1>1, <1>2 DEF IInv, TypeOK
<1>4. n.pc = pc /\ SameButCall(n, q)
  BY <1>2, WhatIsLeft, SetCall
<1>5. q.op \in {"assign", "updateTenant", "evict", "import"}
  <2>1. q.op \in AllOps \cup {"none"}
    BY <1>2, SMT DEF Request
  <2> QED
    BY <1>1, <1>2, <2>1, SMT DEF Flight, OnRoute, AllOps
<1>6. OccupantsActive'
  BY <1>1, <1>2, <1>5, TransactionKeepsOccupants DEF SInv, Flight, KeepsEviction, GoodRequest
<1>7. pc \in {"close", "idle"} /\ (pc = "close" => q.op = "assign")
  BY <1>2, <1>5, WhatIsLeft
<1> HIDE DEF q, p, d, A, pc, n
<1>8. /\ doc.life # "absent"
      /\ NeverFails => (IF q.log THEN doc.status ELSE history[p]) = doc.status
      /\ NeverDeactivates => BookedIsActive(doc) /\ BookingsBack(doc, A)
  BY <1>1, <1>2, <1>5, SMT DEF Flight, AboutLive, WillRecord, KeepsBookings
<1>9. pc # "idle" => Flight(n, doc, A, tenant')
  BY <1>1, <1>2, <1>4, <1>7, SMT DEF Flight, OnRoute, AboutLive, Accurate,
     KeepsEviction, KeepsHold, WillRecord, KeepsOccupant, KeepsBookings, SameButCall
<1>10. n.prop = p
  BY <1>4 DEF SameButCall, p
<1> HIDE DEF doc
<1> QED
  BY <1>1, <1>2, <1>3, <1>4, <1>6, <1>8, <1>9, <1>10, Onward DEF q, p, A, d

\* A rent sync writes back the tenant as it is.
LEMMA SerialWriteTenant ==
    ASSUME IInv, SInv, NEW r, Requests = {r}, WriteTenant(r)
    PROVE  SInv'
<1> DEFINE q == request[r]
           p == q.prop
           d == property[p]
           A == Active(booking, p)
           n == [q EXCEPT !.pc = "idle"]
<1>1. /\ q.pc = "tenant" /\ TenantWritten(q)
      /\ Continue(r, n) /\ UNCHANGED <<property, booking, history>>
  BY DEF WriteTenant
<1>2. /\ q \in Request /\ GoodRequest(q, tenant) /\ p \in Properties
      /\ Flight(q, d, A, tenant) /\ d.life = "live"
      /\ NeverFails => history[p] = d.status
      /\ NeverDeactivates => BookedIsActive(d) /\ (BookingsBack(d, A) \/ Releasing(q))
  BY <1>1, Flying
<1>3. n.pc = "idle" /\ q.op = "sync" /\ q.tid # None
  BY <1>1, <1>2, SetCall, Syncing DEF Calls, Flight, GoodRequest
<1>4. ~Releasing(q)
  BY <1>1, SMT DEF Releasing
<1>5. /\ q.tid \in Tenants /\ tenant'[q.tid] = [status |-> q.tstatus, home |-> p]
      /\ \A s \in Tenants : s # q.tid => tenant'[s] = tenant[s]
  BY <1>1, <1>2, <1>3, TenantsAfter
<1>6. ASSUME Transactional
      PROVE  OccupantsActive'
  <2>1. q.tid = d.tenant /\ q.tstatus = "Active" /\ OccupantsActive
    BY <1>2, <1>3, <1>6 DEF Flight, KeepsOccupant, SInv
  <2>2. tenant[q.tid] = [status |-> "Active", home |-> p]
    BY <1>2, <1>5, <2>1 DEF OccupantsActive
  <2>3. tenant'[q.tid] = tenant[q.tid]
    BY <1>5, <2>1, <2>2
  <2> HIDE DEF q
  <2> QED
    BY <1>1, <1>5, <2>1, <2>3, SameOccupants
<1> HIDE DEF q, p, d, A, n
<1> QED
  BY <1>1, <1>2, <1>3, <1>4, <1>6, Onward DEF q, p, A, d

-----------------------------------------------------------------------------
(* The invariant and what it says *)

LEMMA SerialAbort ==
    ASSUME IInv, SInv, NEW r, Requests = {r}, Abort(r)
    PROVE  SInv'
<1> DEFINE q == request[r]
           n == [q EXCEPT !.pc = "idle"]
<1>1. q.pc # "idle" /\ Continue(r, n) /\ UNCHANGED db /\ ~NeverFails /\ ~NeverDeactivates
  BY DEF Abort, NeverFails, NeverDeactivates
<1>2. q \in Request /\ q.prop \in Properties /\ property[q.prop].life # "absent"
  BY <1>1, Flying, SMT
<1>3. n.pc = "idle"
  BY <1>2, SetCall DEF Calls
<1> HIDE DEF q, n
<1> QED
  BY <1>1, <1>2, <1>3, Moves DEF q

LEMMA SerialCreate ==
    ASSUME IInv, SInv, NEW r, Requests = {r}, NEW p \in Properties,
           NEW active \in BOOLEAN, NEW allow \in BOOLEAN, CreateAsync(p, active, allow)
    PROVE  SInv'
<1> DEFINE new == [NoProperty EXCEPT !.life = "live", !.active = active, !.allowOccupied = allow]
           q == request[r]
<1>1. /\ property[p].life = "absent" /\ property' = [property EXCEPT ![p] = new]
      /\ tenant' = tenant /\ booking' = booking /\ history' = history /\ request' = request
  BY DEF CreateAsync
<1>2. /\ property'[p] = new
      /\ \A x \in Properties : x # p => property'[x] = property[x]
  BY <1>1 DEF IInv, TypeOK
<1>3. /\ new.status = "Available" /\ new.tenant = None /\ new.life = "live"
      /\ new.announcement = "none"
  BY SMT DEF NoProperty
<1>4. property[p] = NoProperty /\ history[p] = "Available" /\ NoProperty.tenant = None
  <2>1. NoProperty.tenant = None
    BY SMT DEF NoProperty
  <2> QED
    BY <1>1, <2>1 DEF SInv, AbsentIsBlank
<1> HIDE DEF new
<1>5. q.pc # "idle" => q.prop \in Properties /\ q.prop # p
  BY <1>1, Flying, SMT
<1>6. InFlight'
  BY <1>1, <1>2, <1>5, SMT DEF SInv, InFlight
<1>7. AbsentIsBlank'
  BY <1>1, <1>2, <1>3, SMT DEF SInv, AbsentIsBlank
<1>8. NeverFails => Recorded'
  <2> SUFFICES ASSUME NeverFails, NEW x \in Properties
               PROVE  \/ property'[x].life = "absent"
                      \/ history'[x] = property'[x].status
                      \/ request'[r].pc = "log" /\ request'[r].prop = x
    BY Zenon DEF Recorded
  <2>1. CASE x = p
    BY <1>1, <1>2, <1>3, <1>4, <2>1
  <2>2. CASE x # p
    BY <1>1, <1>2, <2>2, SMT DEF SInv, Recorded
  <2> QED
    BY <2>1, <2>2
<1>9. Transactional => OccupantsActive'
  <2>1. \A x \in Properties : property'[x].tenant = property[x].tenant
    BY <1>2, <1>3, <1>4
  <2> QED
    BY <1>1, <2>1, SameOccupants DEF SInv
<1>10. NeverDeactivates => Backed'
  <2> SUFFICES ASSUME NeverDeactivates, NEW x \in Properties
               PROVE  /\ BookedIsActive(property'[x])
                      /\ \/ BookingsBack(property'[x], Active(booking', x))
                         \/ Releasing(request'[r]) /\ request'[r].prop = x
    BY Zenon DEF Backed
  <2>1. CASE x = p
    BY <1>2, <1>3, <2>1, SMT DEF BookedIsActive, BookingsBack
  <2>2. CASE x # p
    BY <1>1, <1>2, <2>2, SMT DEF SInv, Backed
  <2> QED
    BY <2>1, <2>2
<1> QED
  BY <1>6, <1>7, <1>8, <1>9, <1>10 DEF SInv

LEMMA SerialStep ==
    ASSUME IInv, SInv, NEW r, Requests = {r}, [Next]_vars
    PROVE  SInv'
<1>1. CASE UNCHANGED vars
  BY <1>1 DEF vars, SInv, InFlight, AbsentIsBlank, Recorded, OccupantsActive, Backed
<1>2. ASSUME NEW p \in Properties, Arrive(r, p)
      PROVE  SInv'
  BY <1>2, SerialUpdate, SerialChangeStatus, SerialDelete, SerialAssign, SerialUpdateTenant,
     SerialEvict, SerialBook, SerialAnnounce, SerialCancel, SerialCloseAll, SerialSync DEF Arrive
<1>3. CASE Proceed(r)
  BY <1>3, SerialReadTenant, SerialStoreTransaction, SerialStoreTenant, SerialCount,
     SerialInsertBooking, SerialReadBooking, SerialWriteBooking, SerialCloseBookings,
     SerialWriteProperty, SerialWriteHistory, SerialSyncReadTenants, SerialSyncReadProperty,
     SerialSyncRow, SerialWriteTenant DEF Proceed
<1> QED
  BY <1>1, <1>2, <1>3, SerialAbort, SerialCreate DEF Next

LEMMA SerialInit ==
    ASSUME Init
    PROVE  SInv
<1>1. /\ \A p \in Properties : property[p] = NoProperty /\ history[p] = "Available"
      /\ \A r \in Requests : request[r] = Idle
      /\ \A t \in Tenants : tenant[t] = [status |-> "absent", home |-> None]
      /\ \A b \in Bookings : booking[b] = [status |-> "absent", home |-> None]
  BY DEF Init, NoTenants
<1>2. /\ NoProperty.life = "absent" /\ NoProperty.tenant = None /\ NoProperty.status = "Available"
      /\ Idle.pc = "idle"
  BY SMT DEF NoProperty, Idle
<1>3. \A p : [status |-> "absent", home |-> None] # [status |-> "Active", home |-> p]
  BY SMT
<1>4. \A p \in Properties : Active(booking, p) = {}
  BY <1>1, <1>3 DEF Active
<1>5. InFlight /\ AbsentIsBlank /\ Recorded
  BY <1>1, <1>2 DEF InFlight, AbsentIsBlank, Recorded
<1>6. OccupantsActive
  BY <1>1, <1>2, <1>3, Zenon DEF OccupantsActive
<1>7. Backed
  BY <1>1, <1>2, <1>4, SMT DEF Backed, BookedIsActive, BookingsBack
<1> QED
  BY <1>5, <1>6, <1>7 DEF SInv

\* Requests come one at a time.
OneAtATime == \E r : Requests = {r}

\* With one request at a time, what requests in flight rely on holds wherever they
\* die, with transactions or without.
THEOREM SerialInductive ==
    ASSUME OneAtATime
    PROVE  Spec => []SInv
<1>1. PICK r : Requests = {r}
  BY DEF OneAtATime
<1>2. Init => SInv
  BY SerialInit
<1>3. IInv /\ SInv /\ [Next]_vars => SInv'
  BY <1>1, SerialStep
<1> QED
  BY <1>2, <1>3, Inductive, PTL DEF Spec

\* On a replica set the active tenants are the current ones, even between the
\* database calls of a request and after it died.
THEOREM ActiveTenantsAreCurrent ==
    ASSUME OneAtATime, Transactional
    PROVE  Spec => []OccupantsActive
<1>1. SInv => OccupantsActive
  BY DEF SInv
<1> QED
  BY <1>1, SerialInductive, PTL

\* Requests that come to their end leave a property whose status is its latest
\* history entry.
THEOREM StatusIsRecorded ==
    ASSUME OneAtATime, ~MayFail
    PROVE  Spec => []HistoryMatchesStatus
<1>1. SInv => HistoryMatchesStatus
  <2> SUFFICES ASSUME SInv, Quiet, NEW p \in Properties, property[p].life # "absent"
               PROVE  history[p] = property[p].status
    BY DEF HistoryMatchesStatus
  <2>1. Recorded
    BY DEF SInv, NeverFails
  <2>2. \A r \in Requests : request[r].pc # "log"
    BY SMT DEF Quiet
  <2> QED
    BY <2>1, <2>2 DEF Recorded
<1> QED
  BY <1>1, SerialInductive, PTL

\* Requests that come to their end, and deactivate no property, leave every property
\* in agreement with its bookings.
THEOREM BookingsAgree ==
    ASSUME OneAtATime, ~MayFail, "deactivate" \notin Ops
    PROVE  Spec => []BookingsMatchProperty
<1>1. SInv => BookingsMatchProperty
  <2> SUFFICES ASSUME SInv, Quiet, NEW p \in Properties
               PROVE  BookingsBack(property[p], ActiveBookings(p))
    BY DEF BookingsMatchProperty, BookingsBack
  <2>1. Backed
    BY DEF SInv, NeverDeactivates
  <2>2. \A r \in Requests : ~Releasing(request[r])
    BY SMT DEF Quiet, Releasing
  <2> QED
    BY <2>1, <2>2 DEF Backed, Active, ActiveBookings
<1> QED
  BY <1>1, SerialInductive, PTL

-----------------------------------------------------------------------------
(* Steps *)

\* The steps that write tenants, and those that write properties.
LEMMA Writers ==
    ASSUME NEW r, Requests = {r}, [Next]_vars
    PROVE  /\ UNCHANGED tenant \/ StoreTransaction(r) \/ StoreTenant(r) \/ WriteTenant(r)
           /\ \/ UNCHANGED property \/ StoreTransaction(r) \/ WriteProperty(r)
              \/ \E p \in Properties, active, allow \in BOOLEAN : CreateAsync(p, active, allow)
<1>1. CASE UNCHANGED vars
  BY <1>1 DEF vars
<1>2. ASSUME NEW p \in Properties, Arrive(r, p)
      PROVE  UNCHANGED <<property, tenant>>
  BY <1>2, Zenon DEF Arrive, db, UpdateAsync, ChangeStatusAsync, DeleteAsync, AssignTenantAsync,
     UpdateTenantAsync, EvictAsync, CreateBookingAsync, SetBookingAnnouncementAsync,
     CancelBookingAsync, CloseAllBookingsAsync, SyncAsync
<1>3. CASE Proceed(r)
  <2>1. UNCHANGED tenant \/ StoreTransaction(r) \/ StoreTenant(r) \/ WriteTenant(r)
    BY <1>3, Zenon DEF Proceed, db, ReadTenant, CountBookings, InsertBooking, ReadBooking,
       WriteBooking, CloseBookings, WriteProperty, WriteHistory, SyncReadTenants,
       SyncReadProperty, SyncRow
  <2>2. UNCHANGED property \/ StoreTransaction(r) \/ WriteProperty(r)
    BY <1>3, Zenon DEF Proceed, db, ReadTenant, StoreTenant, CountBookings, InsertBooking,
       ReadBooking, WriteBooking, CloseBookings, WriteHistory, SyncReadTenants,
       SyncReadProperty, SyncRow, WriteTenant
  <2> QED
    BY <2>1, <2>2
<1>4. CASE Abort(r)
  BY <1>4, Zenon DEF Abort, db
<1>5. ASSUME NEW p \in Properties, NEW active \in BOOLEAN, NEW allow \in BOOLEAN,
             CreateAsync(p, active, allow)
      PROVE  UNCHANGED tenant
  BY <1>5, Zenon DEF CreateAsync
<1> QED
  BY <1>1, <1>2, <1>3, <1>4, <1>5, Zenon DEF Next

\* A tenant on file as evicted is written as evicted.
LEMMA EvictionStep ==
    ASSUME IInv, SInv, NEW r, Requests = {r}, [Next]_vars,
           NEW t \in Tenants, tenant[t].status = "Evicted"
    PROVE  tenant'[t].status = "Evicted"
<1> DEFINE q == request[r]
<1>1. CASE UNCHANGED tenant
  BY <1>1
<1>2. ASSUME TenantWritten(q), q.pc \in {"store", "tenant"}
      PROVE  tenant'[t].status = "Evicted"
  <2>1. /\ q \in Request /\ GoodRequest(q, tenant)
        /\ OnRoute(q) /\ KeepsEviction(q, tenant)
    BY <1>2, Flying, SMT DEF Flight
  <2>2. q.tid # None
    BY <1>2, <2>1 DEF GoodRequest
  <2>3. /\ tenant'[q.tid] = [status |-> q.tstatus, home |-> q.prop]
        /\ \A s \in Tenants : s # q.tid => tenant'[s] = tenant[s]
    BY <1>2, <2>1, <2>2, TenantsAfter
  <2>4. q.tstatus \in {"Active", "Evicted"}
    BY <2>1, SMT DEF Request
  <2>5. tenant'[q.tid].status = q.tstatus
    BY <2>3, SMT
  <2>6. CASE q.pc = "store"
    BY <2>1, <2>3, <2>4, <2>5, <2>6 DEF KeepsEviction
  <2>7. CASE q.pc = "tenant"
    <3>1. q.op = "sync"
      BY <2>1, <2>7, Syncing
    <3> QED
      BY <2>1, <2>2, <2>3, <2>5, <2>7, <3>1 DEF KeepsEviction
  <2> QED
    BY <1>2, <2>6, <2>7
<1> QED
  BY <1>1, <1>2, Writers, Zenon DEF StoreTransaction, StoreTenant, WriteTenant

\* No write, however late and in whatever fallback, brings an evicted tenant back.
THEOREM EvictionsAreFinal ==
    ASSUME OneAtATime
    PROVE  Spec => EvictionIsFinal
<1>1. PICK r : Requests = {r}
  BY DEF OneAtATime
<1>2. IInv /\ SInv /\ [Next]_vars
      => [\A t \in Tenants : tenant[t].status = "Evicted" => tenant'[t].status = "Evicted"]_vars
  BY <1>1, EvictionStep
<1> QED
  BY <1>2, Inductive, SerialInductive, PTL DEF Spec, EvictionIsFinal

\* A request that is not over has moved on.
LEMMA MovedOn ==
    ASSUME IInv, NEW r \in Requests, NEW pc \in Calls,
           request[r].pc \notin {"idle", pc}, Continue(r, [request[r] EXCEPT !.pc = pc])
    PROVE  Steps(r)
<1> DEFINE q == request[r]
           n == [q EXCEPT !.pc = pc]
<1>1. n.pc = pc /\ Idle.pc = "idle"
  BY InvTypes, SetCall, SMT DEF Idle
<1>2. request'[r] = IF n.pc = "idle" THEN Idle ELSE n
  BY InvTypes DEF Continue
<1> HIDE DEF n
<1> QED
  BY <1>1, <1>2 DEF Steps

LEMMA HoldStep ==
    ASSUME IInv, SInv, NEW r, Requests = {r}, [Next]_vars, NEW p \in Properties,
           property[p].status = "OnHold", property'[p].status # "OnHold"
    PROVE  Steps(r) /\ request[r].manager
<1> DEFINE q == request[r]
<1>1. ASSUME NEW x \in Properties, NEW active \in BOOLEAN, NEW allow \in BOOLEAN,
             CreateAsync(x, active, allow)
      PROVE  FALSE
  <2>1. property[x].status = "Available"
    BY <1>1, SMT DEF CreateAsync, SInv, AbsentIsBlank, NoProperty
  <2> QED
    BY <1>1, <2>1 DEF CreateAsync, IInv, TypeOK
<1>2. ASSUME q.pc \in {"store", "write"}, property' = [property EXCEPT ![q.prop] = q.doc]
      PROVE  q.manager
  <2>1. property'[p] = IF p = q.prop THEN q.doc ELSE property[p]
    BY <1>2 DEF IInv, TypeOK
  <2>2. KeepsHold(q, property[q.prop])
    BY <1>2, Flying, SMT DEF Flight
  <2> QED
    BY <1>2, <2>1, <2>2 DEF KeepsHold
<1>3. ASSUME q.pc \in {"store", "write"},
             \/ Continue(r, [q EXCEPT !.pc = AfterLog(q)])
             \/ Continue(r, [q EXCEPT !.pc = AfterWrite(q)])
      PROVE  Steps(r)
  <2>1. /\ AfterLog(q) \in Calls \ {"store", "write"}
        /\ AfterWrite(q) \in Calls \ {"store", "write"}
    BY InvTypes, WhatIsLeft
  <2> QED
    BY <1>3, <2>1, MovedOn
<1> QED
  BY <1>1, <1>2, <1>3, Writers, Zenon DEF StoreTransaction, WriteProperty

\* Whatever is written, and wherever requests die, a hold ends only by a manager.
THEOREM HoldsAreReleasedByManagers ==
    ASSUME OneAtATime
    PROVE  Spec => HoldReleasedByManager
<1>1. PICK s : Requests = {s}
  BY DEF OneAtATime
<1>2. IInv /\ SInv /\ [Next]_vars
      => [\A p \in Properties :
            property[p].status = "OnHold" /\ property'[p].status # "OnHold"
            => \E r \in Requests : request'[r] # request[r] /\ request[r].manager]_vars
  BY <1>1, HoldStep DEF Steps
<1> QED
  BY <1>2, Inductive, SerialInductive, PTL DEF Spec, HoldReleasedByManager, Steps

-----------------------------------------------------------------------------
(* Tenancy is implemented *)

Occupants == [p \in Properties |-> property[p].tenant]
FormerTenants == {t \in Tenants : tenant[t].status = "Evicted"}

\* A step that keeps the tenant of every property and the document of every tenant.
LEMMA LodgingStutters ==
    ASSUME \A p \in Properties : property'[p].tenant = property[p].tenant,
           \A t \in Tenants : tenant'[t] = tenant[t]
    PROVE  UNCHANGED <<Occupants, FormerTenants>>
  BY Zenon DEF Occupants, FormerTenants

\* Only a transaction moves tenants in or out.
LEMMA OnlyTransactionsLodge ==
    ASSUME IInv, SInv, Transactional, NEW r, Requests = {r}, [Next]_vars, ~StoreTransaction(r)
    PROVE  UNCHANGED <<Occupants, FormerTenants>>
<1> DEFINE q == request[r]
           d == property[q.prop]
           SameTenants == \A p \in Properties : property'[p].tenant = property[p].tenant
<1>1. ASSUME NEW x \in Properties, NEW active \in BOOLEAN, NEW allow \in BOOLEAN,
             CreateAsync(x, active, allow)
      PROVE  SameTenants
  <2> DEFINE new ==
               [NoProperty EXCEPT !.life = "live", !.active = active, !.allowOccupied = allow]
  <2>1. property[x].life = "absent" /\ property' = [property EXCEPT ![x] = new]
    BY <1>1 DEF CreateAsync
  <2>2. new.tenant = None /\ NoProperty.tenant = None
    BY SMT DEF NoProperty
  <2>3. property[x].tenant = None
    BY <2>1, <2>2 DEF SInv, AbsentIsBlank
  <2> HIDE DEF new
  <2>4. \A p \in Properties : property'[p] = IF p = x THEN new ELSE property[p]
    BY <2>1 DEF IInv, TypeOK
  <2> QED
    BY <2>2, <2>3, <2>4
<1>2. ASSUME WriteProperty(r)
      PROVE  SameTenants
  <2>1. q.pc = "write" /\ property' = [property EXCEPT ![q.prop] = q.doc]
    BY <1>2 DEF WriteProperty
  <2>2. q \in Request /\ Flight(q, d, Active(booking, q.prop), tenant)
    BY <2>1, Flying
  <2>3. q.op \in AllOps \cup {"none"}
    BY <2>2, SMT DEF Request
  <2>4. \A p \in Properties : property'[p] = IF p = q.prop THEN q.doc ELSE property[p]
    BY <2>1 DEF IInv, TypeOK
  <2> HIDE DEF q, d, SameTenants
  <2>5. q.doc.tenant = d.tenant
    BY <2>1, <2>2, <2>3, SMT DEF Flight, OnRoute, KeepsOccupant
  <2> QED
    BY <2>4, <2>5 DEF d, SameTenants
<1>3. SameTenants
  <2>1. CASE UNCHANGED property
    BY <2>1
  <2> HIDE DEF SameTenants
  <2> QED
    BY <1>1, <1>2, <2>1, Writers
<1>4. CASE WriteTenant(r)
  <2>1. q.pc = "tenant" /\ TenantWritten(q)
    BY <1>4 DEF WriteTenant
  <2>2. /\ q \in Request /\ GoodRequest(q, tenant) /\ q.prop \in Properties
        /\ OnRoute(q) /\ KeepsOccupant(q, d)
    BY <2>1, Flying DEF Flight
  <2>3. q.op = "sync" /\ q.tid # None
    BY <2>1, <2>2, Syncing DEF GoodRequest
  <2>4. /\ q.tid \in Tenants /\ tenant'[q.tid] = [status |-> q.tstatus, home |-> q.prop]
        /\ \A s \in Tenants : s # q.tid => tenant'[s] = tenant[s]
    BY <2>1, <2>2, <2>3, TenantsAfter
  <2>5. q.tid = d.tenant /\ q.tstatus = "Active"
    BY <2>2, <2>3 DEF KeepsOccupant
  <2>6. tenant[q.tid] = [status |-> "Active", home |-> q.prop]
    BY <2>2, <2>4, <2>5 DEF SInv, OccupantsActive
  <2> HIDE DEF q
  <2>7. \A t \in Tenants : tenant'[t] = tenant[t]
    BY <2>4, <2>5, <2>6
  <2> QED
    BY <1>3, <2>7, LodgingStutters
<1>5. ~StoreTenant(r)
  BY DEF StoreTenant
<1>6. CASE UNCHANGED tenant
  BY <1>3, <1>6, LodgingStutters
<1> QED
  BY <1>4, <1>5, <1>6, Writers

\* A transaction moves a tenant into an empty property, moves the occupant of a
\* property out, or changes neither.
LEMMA TransactionLodges ==
    ASSUME IInv, SInv, NEW r, Requests = {r}, StoreTransaction(r)
    PROVE  Lodging!Next \/ UNCHANGED <<Occupants, FormerTenants>>
<1> DEFINE q == request[r]
<1>p. PICK p : p = q.prop
  OBVIOUS
<1>t. PICK t : t = q.tid
  OBVIOUS
<1> DEFINE d == property[p]
<1>1. /\ Transactional /\ q.pc = "store" /\ TenantWritten(q)
      /\ property' = [property EXCEPT ![p] = q.doc]
  BY <1>p DEF StoreTransaction
<1>2. /\ q \in Request /\ GoodRequest(q, tenant) /\ p \in Properties /\ t # None
      /\ OnRoute(q) /\ KeepsOccupant(q, d)
      /\ q.op = "evict" => q.tstatus = "Evicted"
      /\ OccupantsActive
  BY <1>1, <1>p, <1>t, Flying DEF Flight, KeepsEviction, SInv, GoodRequest
<1>3. q.op \in {"assign", "updateTenant", "evict", "import"}
  <2>1. q.op \in AllOps \cup {"none"}
    BY <1>2, SMT DEF Request
  <2> QED
    BY <1>1, <1>2, <2>1, SMT DEF OnRoute, AllOps
<1>4. /\ t \in Tenants /\ tenant'[t] = [status |-> q.tstatus, home |-> p]
      /\ \A s \in Tenants : s # t => tenant'[s] = tenant[s]
  BY <1>1, <1>2, <1>p, <1>t, TenantsAfter
<1>5. \A x \in Properties : property'[x] = IF x = p THEN q.doc ELSE property[x]
  BY <1>1, <1>2 DEF IInv, TypeOK
<1>6. tenant'[t].status = q.tstatus
  BY <1>4, SMT
<1>7. Occupants' = [Occupants EXCEPT ![p] = q.doc.tenant]
  <2> HIDE DEF q
  <2> QED
    BY <1>2, <1>5 DEF Occupants
<1>8. Occupants[p] = d.tenant
  BY <1>2 DEF Occupants
<1>9. CASE q.op \in {"assign", "import"}
  <2>1. tenant[t].status = "absent" /\ d.tenant = None /\ q.doc.tenant = t /\ q.tstatus = "Active"
    BY <1>1, <1>2, <1>9, <1>t DEF GoodRequest, Inserting, KeepsOccupant
  <2>2. t \notin FormerTenants /\ FormerTenants' = FormerTenants
    <3> HIDE DEF q
    <3> QED
      BY <1>4, <1>6, <2>1 DEF FormerTenants
  <2>3. \A x \in Properties : property[x].tenant # t
    <3> HIDE DEF q, d
    <3> SUFFICES ASSUME NEW x \in Properties, property[x].tenant = t
                 PROVE  FALSE
      OBVIOUS
    <3>1. tenant[t] = [status |-> "Active", home |-> x]
      BY <1>2, <1>4 DEF OccupantsActive
    <3>2. tenant[t].status = "Active"
      BY <3>1, SMT
    <3> QED
      BY <2>1, <3>2, SMT
  <2>4. Lodging!MoveIn(p, t)
    BY <1>7, <1>8, <2>1, <2>2, <2>3
       DEF Lodging!MoveIn, Lodging!Lodged, Occupants, FormerTenants
  <2> QED
    BY <1>2, <1>4, <2>4 DEF Lodging!Next
<1>10. CASE q.op = "evict"
  <2>1. d.tenant = t /\ q.doc.tenant = None /\ q.tstatus = "Evicted"
    BY <1>2, <1>10, <1>t DEF KeepsOccupant
  <2>2. FormerTenants' = FormerTenants \cup {d.tenant}
    <3> HIDE DEF q, d
    <3> QED
      BY <1>4, <1>6, <2>1 DEF FormerTenants
  <2>3. Lodging!MoveOut(p)
    BY <1>2, <1>7, <1>8, <2>1, <2>2 DEF Lodging!MoveOut, Occupants, FormerTenants
  <2> QED
    BY <1>2, <2>3 DEF Lodging!Next
<1>11. CASE q.op = "updateTenant"
  <2>1. d.tenant = t /\ q.doc.tenant = t /\ q.tstatus = "Active"
    BY <1>2, <1>11, <1>t DEF KeepsOccupant
  <2>2. tenant'[t] = tenant[t]
    BY <1>2, <1>4, <2>1 DEF OccupantsActive
  <2> QED
    BY <1>4, <1>5, <2>1, <2>2, LodgingStutters
<1> QED
  BY <1>3, <1>9, <1>10, <1>11

\* Assignment, import and eviction are what the lifecycle promises about tenancies.
THEOREM TenancyRefined ==
    ASSUME OneAtATime, Transactional
    PROVE  Spec => TenancyImplemented
<1>1. PICK r : Requests = {r}
  BY DEF OneAtATime
<1>2. Init => Lodging!Init
  <2> SUFFICES ASSUME Init
               PROVE  /\ \A p \in Properties : property[p].tenant = None
                      /\ \A t \in Tenants : tenant[t].status # "Evicted"
    BY DEF Lodging!Init
  <2>1. NoProperty.tenant = None
    BY SMT DEF NoProperty
  <2>2. \A t \in Tenants : tenant[t] = [status |-> "absent", home |-> None]
    BY DEF Init, NoTenants
  <2> QED
    BY <2>1, <2>2, SMT DEF Init
<1>3. IInv /\ SInv /\ [Next]_vars => [Lodging!Next]_<<Occupants, FormerTenants>>
  BY <1>1, OnlyTransactionsLodge, TransactionLodges
<1>4. IInv /\ SInv /\ [Next]_vars
      => [Lodging!Next]_<<[p \in Properties |-> property[p].tenant],
                          {t \in Tenants : tenant[t].status = "Evicted"}>>
  BY <1>3 DEF Occupants, FormerTenants
<1> QED
  BY <1>2, <1>4, Inductive, SerialInductive, PTL DEF Spec, TenancyImplemented, Lodging!Spec

=============================================================================

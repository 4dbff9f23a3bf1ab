# Imperial Estates in TLA+

TLA+ models of the Imperial Estates property management system (an ASP.NET
Core API over MongoDB with an Angular front end), TLC configurations that check
them on small instances, and TLAPS proofs.

`src/` below is the repository; paths of C# files are relative to
`src/backend/src/`, those of TypeScript files to `src/frontend/src/app/`.

## The system

| Component | State | Operations | Source |
|---|---|---|---|
| Property lifecycle | `properties`, `tenants`, `property_bookings`, `property_status_history` | create, update, status change, book, announce, cancel, close all, assign, update tenant, evict, delete | `Domain/Entities/Property.cs`, `PropertyService.cs`, `PropertyLifecycleStore.cs`, `PropertyBookingRepository.cs` |
| Rent sync | properties and tenants (as above) | for every row of an export: free, import, or update status, rent and tenant | `RentSyncService.cs` 277-331, 412-650 |
| Rent notices | `rent_sync_snapshots` | save a snapshot with its notices, resolve, reopen, hold, release, delete, publish, eviction queue | `RentSyncService.cs` 80-275, 333-410, 753-790, `RentSyncRepository.cs` |
| Auction settlements | `commissions` | create, edit, delete a settlement, pay and unpay a payout, compute shares | `CommissionService.cs` |
| Team access | `users` | sign in, approve, reject, change role, promote, demote, revoke, restore, delete, edit profile | `UserManagementService.cs`, `AuthAndDashboardServices.cs`, `LiveUserAuthorization.cs` |
| Page access | `application_settings` | set grants, check a request against role and grants | `AccessPermissions.cs`, `StateManagerAccessMiddleware.cs`, `AccessManagementController.cs` |
| Blocks | `blocks` | create, update, delete | `BlockService.cs` |
| Enquiries, recruitment | `enquiries`, `recruitment_applications`, a setting | create, review | `EnquiryService.cs`, `RecruitmentService.cs` |
| Front-end data models | saved models, pending reads, versions (memory of a tab) | read, mutate, invalidate, reset | `core/services/data-model.service.ts`, `core/services/api.service.ts` |
| Google Sheets | rows of one sheet | publish | `GoogleSheetsSyncService.cs` |
| Session, guards | the user, the grants, the navigation under way (memory of a tab) | sign in and out, check status, navigate, load and toggle grants | `core/services/auth.service.ts`, `page-access.service.ts`, `core/guards/auth.guard.ts`, `app.routes.ts`, `layouts/` |
| Pages | the signals, forms and subscriptions of the page that is open | read, preview, filter, page, submit, act on a row, poll | `features/` |
| Audit log, analytics, dashboard | none of their own | reports | `AuditLogService.cs`, `AgentAnalyticsService.cs` and their pages |
| HTTP layer | none of its own | routing, validation, mapping | `ImperialEstates.Api` |

How they interact. A request runs one handler of one service; a handler is a
sequence of awaited database calls with plain computation between them.
Handlers share nothing in memory and meet only in the database, where single
document operations are atomic. Entities are read whole, changed in memory and
written back whole (`RepositoryHelpers.ReplaceAsync`), without a version check.
The rent sync calls the same lifecycle store and repositories as
`PropertyService`; eviction consumes what the notices produce; the front end
caches what the API answered.

What is hard. Handlers that interleave on one document overwrite each other
with stale copies; a handler may stop between any two calls, because the
cancellation token of its calls is the request's, because a call may fail, or
because the process stops; on a standalone MongoDB the lifecycle store has no
transactions and falls back to one write after another; a sync works for its
whole duration on properties it read at its start.

What makes each component correct:

* lifecycle: status, tenant, bookings and history of a property agree; a
  current tenant is on file and lives there; only an eviction ends a tenancy,
  for good; holds are the managers';
* notices: a resolution or hold once stored is not lost; a property is in the
  queue only 24 hours after the notice of its current cycle was sent;
* settlements: a live settlement is one complete set of payouts whose sum is
  the agreed distribution; paid payouts are neither lost nor duplicated;
* team access: the owner cannot be demoted or locked out; a revocation stays
  in force until somebody restores the user;
* blocks, intake: a property's block exists; one pending application each;
* data models: a page never shows an answer older than the last write of its
  session, and memory stays bounded;
* session: the menu, the guards and the stored grants agree for every role, and
  a redirect leads somewhere;
* pages: what is on screen belongs to what was selected last, follows the
  user's own actions, and nothing stays "loading" or disabled for ever; a form
  is executed once.

## Plan

1. `PropertyDomain`, `PropertyLifecycle`, `Tenancy` and their proofs, for
   concurrent requests and for requests one at a time: built.
2. `RentNotices`: snapshots, resolutions, holds, publication and the eviction
   queue, implementing `NoticeCycle`, and their proofs: built.
3. `Settlements` (the edit and payout protocol with crashes),
   `SettlementShares` (the arithmetic in cents) and the proofs of both: built.
4. `DisplayReads` and `DataModels`, the read layer of the front end with the
   abstract promise it implements, its liveness and its proofs: built.
5. `AccessMap` and `Session`, the tables of the page access and the tab that
   uses them, and their proofs: built.
6. `Page`, `FormPage`, `Submission`, a module for every page with state of its
   own, and `Pages`, which composes them; `PagesProofs` and `PagesActionsProofs`:
   built.

What would come next: the handlers of `UserManagementService` split at their
database calls (`UserManagementPage` has them in one step), the intake handlers
(recruitment, enquiries, blocks) against concurrent requests, and the table of
endpoints of `StateManagerAccessMiddleware`.

The project keeps to a dozen runs, so that checking all of it stays a matter of
minutes. `TypeOK` of `Settlements`, `SettlementShares`, `DataModels` and `Session`
is proved and no run checks it.

Every safety property the runs check is proved but for the type invariant of the
pages; the liveness properties stay with TLC (see the proofs of the front end).

## Property lifecycle

### Modules

* `PropertyDomain`: the methods of `Property.cs` as operators on a property
  document. `CanX` is the guard of method `X` (false where the source throws),
  `X` its effect. A document is a record: `status`, `tenant` (CurrentTenantId),
  `life` (absent, live, or IsDeleted), `active`, `allowOccupied`,
  `announcement` (BookingAnnouncementPending and -PostedAt in one).
* `PropertyLifecycle`: the handlers. The database is `property`, `tenant`,
  `booking` and `history` (the latest status-history entry of each property);
  `request` maps each slot to the request in flight: the copies it holds and
  `pc`, its next database call. An action is the handler's computation up to
  and including one database call, so that requests interleave exactly at their
  awaits. `Abort` is a request that stops there. `Transactional` says whether
  `PropertyLifecycleStore.RunAsync` gets a transaction (`StoreTransaction`) or
  falls back to the sequence `StoreTenant`, `WriteProperty`, `WriteHistory`.
* `Tenancy`: the abstract specification, in which a tenant moves into an empty
  property, stays until evicted and is history afterwards.
* `PropertyLifecycleProofs`: the theorems about concurrent requests, then those
  about requests one at a time.

The definitions named `...Keeping...`, `...Unlogged`, `...ByAnyone` and the
like, each commented as a variant of its neighbour, are plausible mistakes; a
property is worth stating only if one of them breaks it.

| Action | Code |
|---|---|
| `CreateAsync`, `UpdateAsync`, `ChangeStatusAsync`, `DeleteAsync` | `PropertyService.cs` 75-150, 422-435 |
| `AssignTenantAsync`, `UpdateTenantAsync`, `EvictAsync`, `ReadTenant` | `PropertyService.cs` 152-214, 385-414 |
| `StoreTransaction`, `StoreTenant` | `PropertyLifecycleStore.cs` 10-78 |
| `CreateBookingAsync`, `SetBookingAnnouncementAsync`, `CancelBookingAsync`, `CloseAllBookingsAsync`, `CountBookings`, `InsertBooking`, `ReadBooking`, `WriteBooking`, `CloseBookings` | `PropertyService.cs` 279-383, `PropertyBookingRepository.cs` |
| `WriteProperty`, `WriteHistory` | `RepositoryHelpers.cs` 16-17, `PropertyService.cs` 437-444 |
| `SyncAsync`, `SyncReadTenants`, `SyncReadProperty`, `SyncRow`, `WriteTenant` | `RentSyncService.cs` 277-331, 412-650 |

Abstractions. A rejected request that has written nothing is not a step. Audit
entries are left out (nothing reads them), and so are queries, prices, names
and timestamps; "overdue for at least seven days" is a choice. A sync is
modelled for one property and at most one row, which may be of any kind: rows
of different properties touch different documents, and a row of an import may
pick any id no document has. Ids of new tenants and bookings are drawn
from `Tenants` and `Bookings`, never reused; when they run out the instance
stops, so deadlock is not checked.

### Runs

No fairness is assumed: every property of this component is a safety property.
A client may give up, so nothing here must eventually happen.

| Run | Instance | Shows |
|---|---|---|
| `lifecycle_concurrent` | 2 concurrent requests, 1 property, 2 tenants, standalone, failures | `DocumentsConsistent`, `CurrentTenantOnFile` |
| `lifecycle_serial` | 1 request at a time, all operations but deactivation, 2 tenants, 2 bookings | `TypeOK`, `BookingsMatchProperty`, `HistoryMatchesStatus` |
| `lifecycle_crash_replica` | 1 request at a time, failures, transactions, 2 properties, 3 tenants | `OccupantsActive`, `TenancyImplemented` |
| `lifecycle_crash_standalone` | 1 request at a time, failures, no transactions | `EvictionIsFinal`, `HoldReleasedByManager` |

Bounds. Two requests are enough for a stale replace (one reads, the other
writes, the first writes), and one property is enough for the concurrent runs
because handlers touch one property. Two tenants let a tenancy follow an
eviction and let two assignments race; three tenants and two properties let a
tenancy be confused with one elsewhere. Two bookings tell "the last one" from
"not the last one". `VIEW StateWithoutHistory` drops a variable that no guard
reads, only in runs whose properties do not mention it.

Requests one at a time (a single slot) is what several invariants need, because
the code takes no lock and checks no version. What survives concurrency is
`DocumentsConsistent` and `CurrentTenantOnFile`.

### What is not claimed

The model has these behaviours, so no property says otherwise:

* `SyncAsync` reads all properties at its start. A hold placed before it comes
  to the row is overwritten, although the comment at `RentSyncService.cs` 303
  says rent data must not release it.
* `ChangeStatusAsync` checks that there is no tenant on the copy it read; an
  assignment that completes before it writes is lost, and its tenant stays
  Active without a property.
* `CancelBookingAsync` and `CloseAllBookingsAsync` close bookings before
  `MakeAvailable` finds the property inactive; the request is refused, the
  bookings are gone and the property stays Booked. This is why
  `lifecycle_serial` leaves deactivation out.

### Proofs

`PropertyLifecycleProofs` proves, for all values of the constants (with and
without transactions and failures, any number of concurrent requests):

* `TypeCorrect`: `Spec => []TypeOK`;
* `StatusAgreesWithTenant`: `Spec => []DocumentsConsistent`;
* `NoDanglingTenant`: `Spec => []CurrentTenantOnFile`;
* `Inductive`: `Spec => []IInv`, from which they follow.

The argument. None of the two invariants is inductive, because a request writes
a copy that was read in another state. `IInv` adds what a request carries from
one call to the next: whatever document a request is about to write is
consistent by itself, and the tenant it refers to is on file at that property
(`OnFile`), or is the very tenant the request inserts in the same transaction
or has inserted before (`Inserting`, `GoodRequest`). A tenant on file never
leaves its property, so this survives the steps of other requests; that two
requests never insert the same id (`InsertsDistinct`, from fresh Guids) keeps
one from overwriting another's tenant. There is one lemma per action, and
`Inductive` combines them. TLC checked `IInv` as an invariant of
`lifecycle_concurrent` before it was proved. The only assumptions are the
named ones of the modules: `None` is not a tenant, property or booking, `Ops`
names known operations, the two switches are Booleans.

Of requests one at a time (`OneAtATime`, a single slot) it proves, over any sets
of properties, tenants and bookings:

| Theorem | States | Also assumes |
|---|---|---|
| `ActiveTenantsAreCurrent` | `Spec => []OccupantsActive` | transactions |
| `StatusIsRecorded` | `Spec => []HistoryMatchesStatus` | requests do not fail |
| `BookingsAgree` | `Spec => []BookingsMatchProperty` | no failures, no deactivation |
| `EvictionsAreFinal` | `Spec => EvictionIsFinal` | |
| `HoldsAreReleasedByManagers` | `Spec => HoldReleasedByManager` | |
| `TenancyRefined` | `Spec => TenancyImplemented` | transactions |

The argument. With one request in flight nothing else writes, so the copies it
holds are what is stored but for what its own handler has changed. `Flight`
says so per handler: which calls it comes to (`OnRoute`), which of its copies
are accurate by then (`Accurate`), and what the copy it will write keeps of the
stored document: an eviction, a hold, the occupant, the bookings. `SInv` adds
`Flight` to `IInv`, and to it the invariants themselves in the form they have
while a request is on its way: the history may lag behind by the entry just
being written (`Recorded`), bookings may be closed that the property still
shows (`Backed`). Every further hypothesis is used: without transactions a
request that dies between the tenant and the property leaves a tenant without a
home, a request that dies before `WriteHistory` leaves its status unrecorded,
and a deactivated property keeps its status when its bookings are gone (see
above). `SInv` has these parts only under their hypotheses, so that
`EvictionsAreFinal` and `HoldsAreReleasedByManagers` need none of them. The
refinement maps each write of the transaction to `MoveIn` or `MoveOut` and
everything else to a stutter. TLC checked `SInv` as an invariant on small
instances before it was proved.

## Rent notices and the eviction queue

### Modules

* `RentNotices`: `snapshot` holds the stored exports in the order of their
  `UpdatedAt`, which only an insert sets; a snapshot has a row per property
  with its status, whether a notice was generated (`NoticeGenerated`), marked
  as sent (`IsResolved`) and put on hold (`IsEvictionOnHold`). `request` is as
  above. `EvictionQueue` is `GetEvictionQueueAsync`: `Settling(p)` is the row
  at which its backward scan ends for property p.
* `NoticeCycle`: the abstract specification, a small state machine per property:
  open, due, sent, held, closed.
* `RentNoticesProofs`: its theorems.

| Action | Code (`RentSyncService.cs`) |
|---|---|
| `SyncAsync`, `SaveCurrent` | 277-344 (what it does to properties is in `PropertyLifecycle`), 753-785 |
| `PublishToGoogleSheetAsync`, then `UpdateAsync` | 377-400 |
| `RetryGoogleSheetSyncAsync`, then `UpdateAsync` and the publication | 365-375 |
| `SetResolutionAsync`, `SetEvictionHoldAsync`, then `UpdateAsync` | 191-221, 233-262 |
| `DeleteAsync` | 161-172 |

A handler reads a snapshot and replaces all of it one or two calls later;
nothing is inserted when it was deleted in the meantime. An export is any
choice of a state, or of no row, for each property. Left out: the status of
the publication (nothing reads it but the pages), times (that an entry becomes
ready after 24 hours compares two of them), the queue's filter by the
property's own status and tenant, rows without a property, and rows of old
databases without `NoticeGenerated`.

### Runs

| Run | Instance | Shows |
|---|---|---|
| `notices_cycles` | 1 request at a time, failures, 4 exports, 1 property | `TypeOK`, `HoldUntilReleased`, `CyclesImplemented` |
| `notices_hold_lost` | a sync and two other requests, 1 export | violation of `HoldUntilReleased` |

Bounds. Four exports make a cycle, its end and another cycle with one to
spare, and leave room for a deletion in between. One property is enough, since
rows of different properties only meet when one request overwrites another's,
which takes two requests at a time. No fairness is assumed: a client may give
up and Google may never answer.

`CyclesImplemented` is the point of this component: the queue is not stored
anywhere but recomputed from all snapshots, and the refinement shows that this
gives the cycle one would expect, when syncs die before they save or before
they publish, notices are reopened and older exports deleted. A deletion
rewrites the past, so the abstract `Forget` allows any result of it. The
abstract state "closed" is real: a property that was empty gets no notice when
it turns evictable next, because `MarkNoticeTransitions` counts only rows that
were absent, paid or overdue before; until it is paid, overdue or left out of
an export it cannot enter the queue.

`notices_hold_lost`: the publication replaces the snapshot by the copy saved
before Google was called. A notice sent and a hold set in the meantime are
gone, although nobody released the hold (the test at
`RentSyncServiceTests.cs` 379 says it blocks the eviction until released).

### Proofs

`RentNoticesProofs` proves `TypeCorrect`, `Spec => []TypeOK`, for any number of
properties, snapshots and concurrent requests. `TypeOK` includes `SoundRow`: a
hold is only on a generated and sent eviction notice. Stale replaces lose
holds and resolutions but never store a row that is not sound, because the
copies in flight are sound too, which is what `IInv` adds.

For requests one at a time, each of which may die anywhere (`OneAtATime`: there
is one slot), it proves for any properties, any number of exports and either
setting of Google and of failures:

* `SerialInductive`: what a request in flight holds is what is stored. The
  export a sync is about to save is the one after the latest (`Follows`), the
  snapshot it is about to publish is stored as it holds it (`Copies`), and the
  one a manager's request is about to replace differs from the stored one in the
  row of that request only (`Changes`). With two requests this is false, which
  is how `notices_hold_lost` goes wrong.
* `HoldsStay`: `HoldUntilReleased`.
* `CyclesRefined`: `CyclesImplemented`, the refinement of `NoticeCycle`.

`StageIn(s, p)` is where p stands by the stored exports s alone, and `Standing`
says that it agrees with `OnHold` and `CycleOf`. Three lemmas carry the two
theorems. By `SerialStep` a step saves the next export, rewrites one row,
deletes an export or stores nothing. By `ExportMoves` saving an export moves
each property as `Export` of the abstract cycle says: an eviction notice is
generated exactly for a property that was open. By `RewriteMoves` a rewritten row
moves its own property only, if it is the row the queue's scan ends at, and
otherwise nothing, so marking a notice of an earlier cycle does not bring the
property into the queue. The scan ends at the greatest of a set of numbers; there
is one because the numbers that bound the set have a least (`GreatestId`). TLC
checked the invariant of `SerialInductive` on the instance of `notices_cycles`
before it was proved.

## Auction settlements

### Modules

* `Settlements`: one settlement and its payout records, in `record`; every
  query of `CommissionRepository` filters by settlement id, so settlements do
  not meet. An edition is what one call of `BuildSettlementRecordsAsync` makes,
  a record for each agent of its roster; a record is named by its edition and
  its agent, and `total` is its `TotalAgentCount`. `request` is as above.
* `SettlementShares`: one run of `Calculate` and of the two loops that hand
  out the shares, in whole cents. Prices are assumed to be whole cents; the
  request type is a decimal and does not say so.
* `SettlementsProofs`, `SettlementSharesProofs`: their theorems.

| Action | Code (`CommissionService.cs`) |
|---|---|
| `CreateSettlementAsync`, `UpdateSettlementAsync`, `DeleteSettlementAsync` | 70-102, 122-126, up to the call after the reads |
| `SoftDeleteRecordsAsync` | 364-376, one record per step |
| `InsertRecords`, `InsertFails`, `RestoreRecords` | 103-117 and `CommissionRepository.CreateManyAsync` |
| `SetPaidAsync`, `WritePaid` | 204-220 |
| `AddWinner`, `AddOther` | 303-329, 331-351, one agent per step |

The database inserts the records of an edition one after another, so a failing
`InsertFails` leaves any subset of them. `Abort` is a request that stops between two
calls; because the calls of the catch block use the same cancellation token, it
stops a restoration too. Records are copied from what was read: an edit writes
unpaid copies back, `WritePaid` a live one. The role of the actor, the search
for agents, the overview queries and the audit entries are left out.

### Runs

| Run | Instance | Shows |
|---|---|---|
| `settlement_crash` | 1 request at a time, failures, 3 agents | `PaidStaysOnRecord`, `EditLeavesItsEdition`, `FailedEditRestores` |
| `shares` | small prices and those around the ends of the slabs | `PayoutsBalance`, `CompanyNeverPays`, `PoolAsAgreed`, `RoundingBounded` |

Bounds. Two editions make an edit, three an edit of what an earlier edit that
died left behind; with several agents a deletion, an insert or a restoration
can stop in the middle. Prices are those below a few cents, where rounding
matters most, and those next to the ends of the slabs and to the cap, where the
rate changes; agents are enough for the rounding errors to exceed a cent.
No fairness is assumed: there is no liveness to state, since a client may
give up.

Nothing keeps two requests on one settlement apart. `EditLeavesItsEdition` is a
property of requests one at a time: two edits that both read the old records
leave two editions, and a payment that read a record before an edit brings it
back. Between the check for paid payouts (line 357) and the deletion, a payment
may be recorded that the deletion then removes.
`RoundingBounded` allows the last winner to owe a cent, and that happens: of
two cents four winners get one, one, one and minus one.

### Proofs

`SettlementsProofs` proves, for any editions and any finite set of agents,
`TypeCorrect` (`Spec => []TypeOK`, for any number of concurrent requests) and,
for requests one at a time, wherever they die and inserts fail,

* `PaidPayoutsAreKept`: `Spec => PaidStaysOnRecord`;
* `EditsLeaveOneEdition`: `Spec => EditLeavesItsEdition`;
* `FailedEditsAreUndone`: `Spec => FailedEditRestores`;
* `SettlementsAreWhole`: when nothing fails either, whatever sequence of
  creations, edits, deletions and payments leaves one complete edition or none.

The argument. What an edit relies on between two of its calls is `Flight`: while
it deletes, the live records are the ones it has still to delete, and unpaid;
when it inserts, there are none; while it restores, the live ones are unpaid and
include all it has restored. An edit that died leaves records behind, and the
next one finds them among what it reads, so `Flight` holds from any state a
failure leaves. TLC checked it before it was proved.

`SettlementSharesProofs` proves, for all prices and any number of agents,

* `TypeCorrect`: `Spec => []TypeOK`;
* `PoolFollowsRates`: `Spec => []PoolAsAgreed`, the slab by slab calculation is
  the agreed table of marginal rates;
* `PayoutsAddUp`: `Spec => []PayoutsBalance`, to the cent;
* `CompanyShareNotNegative`: `Spec => []CompanyNeverPays`;
* `RoundingStaysBounded`: `Spec => []RoundingBounded`.

The first of the lemmas, `RoundMoneyBounds`, says that rounding moves a
quotient by half a cent at most. `PoolsBounded` follows from it: the pool stays
within the premium and the winners' part within the pool, hence the company's
share is not negative. The inductive invariant `IInv` says that the running
totals are multiples of the rounded share as long as the last agent is to come
(`TotalsOfRounds`), so that the last share is the pool less all the others
(`FairRecord`, `LastShareNear`), and that the totals are the sum of the payouts
so far. That a sum grows by what is appended (`TotalOfAppend`) is an induction
over the length of a sequence. The library states induction for an operator,
which no installed prover can instantiate; `Induction` states it for a set of
numbers instead, which is proved from the order of the naturals and applied to
the set of lengths at which the equation holds. `DataModelsProofs` has the same
lemmas for the bytes of saved models. The assumption is that prices are natural numbers.

## Front-end data models

### Modules

* `DisplayReads`: what the read layer promises to a page. A display read
  (`ApiService.read`) shows one result, or a preview and then one result; an
  uncached read (`get`) shows one; and no result shows a state of the server
  older than an own write that had been answered.
* `DataModels`: `DataModelService` behind `ApiService`. `models` is the bounded
  map of saved models, least recently used first; `pendingReads` and `requests`
  are the shared requests; `reading` has a subscription per reader; `writes`
  the mutations. A model is known by the server state it was computed from.
* `DataModelsProofs`: its theorems.

`clearSavedData` moves `ApiService.generation` and `DataModelService.version`
together and nothing else moves either; "the version I captured is still the
current one" is therefore the flag `current` of a request. The age of a model
is under ten seconds, under two minutes or older (`Age` moves time on).

### Runs

| Run | Instance | Shows |
|---|---|---|
| `read_models` | 2 readers, 2 keys, 1 mutation, other clients' writes | `StoreWithinBounds`, `ModelsSeeOwnWrites`, `RequestsAreShared`, `ReadsKeepPromise` |
| `read_models_live` | 2 readers, 1 key | `ReadsEnd`, `BannerGoes` |

Bounds. Two readers share a request and may leave it one by one; a read that
began before a mutation and one that comes after it need two as well. With two
keys, a byte bound of 3 and answers of size 2 or 3, models are refused for their
size and evicted for the bytes of others. One commit of the server tells an
answer from before it from one after it, and `settled` moves with it; two
commits (800,250 states) give nothing else and take a run close to its time.

Fairness (`FairSpec`): the browser ends every request, with an answer or an
error, because it gives up on a connection that stays silent; an
answer that arrived is handed over. Users, other clients and time owe nothing.
`ReadsEnd` holds unless writes or manual refreshes go on for ever: each of them
restarts the reads under way.

### Proofs

`DataModelsProofs` proves, for any keys, writers, sizes and bounds and any finite
number of readers,

* `TypeCorrect`: `Spec => []TypeOK`;
* `StoreKeepsItsBounds`: `Spec => []StoreWithinBounds`;
* `OwnWritesAreSeen`: `Spec => []ModelsSeeOwnWrites`;
* `RequestsStayShared`: `Spec => []RequestsAreShared`;
* `KeepsPromise`: `Spec => ReadsKeepPromise`, the read layer implements
  `DisplayReads`.

The argument. `IInv` has three parts. `StoreInv` is about the saved models: one
per key, none larger than allowed, none newer than the server or older than
`settled`, their sizes add up to `bytes`. Each operation of the store
(`Touched`, `Without`, `Remember`, `Age`) has a lemma that it keeps `Stored`;
`Remember` is the longest, because it drops models from the front until two
bounds hold, and that some number of evictions does is part of the proof (all of
them do: an answer of at most `MaxModelBytes` fits into an empty store). `NetInv` is
about requests: `RequestsAreShared`; what travels is no newer than the server
and, if it may be saved, no older than `settled` (`AnswersInv`); and no uncached
read waits for an answer older than its floor (`FloorsInv`). A read joins a
request only while it is on offer, hence current, and whatever raises `settled`
takes all requests off offer; that is why the parts need each other.
That a new request finds a free id is the pigeonhole principle, the
reason why readers must be finite. `Typed` is the rest.

For the refinement, `IsWrite` and `IsMove` say when a step of `DataModels` is a
step of `DisplayReads`: if it shows nothing and changes no subscription, or if it
lets each reader wait, begin, see a result that is new enough, or end
(`Waits`, `Starts`, `Sees`, `Stops`). A delivery is the interesting case: what
it hands over is new enough by `AnswersInv` for display reads, by `FloorsInv` for
uncached ones, and by `StoreInv` when an outdated answer is replaced by a saved
model.

Model-checked only: `ReadsEnd` and `BannerGoes`, which are liveness.

## Session and page access

### Modules

* `AccessMap`: the constant tables. Grants (resource and role), the tiers and
  levels of `access-resource.constants.ts`, the normalization by the server, the
  routes with their keys, the destinations in their order, and the links of the
  sidebar and the header. Four files of the code have to agree about them.
* `Session`: one tab. `account` and `grants` are the server's; `user`,
  `settings` and `loaded` are the copies in `AuthService` and
  `PageAccessService`; `me` and `fetch` their requests; `nav` a navigation and
  the guard it waits in; `saves` the owner's PUTs. Requests that a newer one
  replaces go on: `me.old`, of "Check status", with the guard that may wait for
  it (`formerAuth`), and `astray`, of a State Manager's next navigation. `shared`
  says whether `ApiService` still hands out `fetch` to others. `crossed` and
  `granted` are history variables, which no action reads but to keep them. The
  accounts, grants and addresses of the run are defined at its end.
* `SessionProofs`: their theorems.

### Run

| Run | Instance | Shows |
|---|---|---|
| `session` | 7 accounts, settings that hide the overview, a grant and a section that change, 1 change by others, 1 save | `MenuMatchesGuards`, `DashboardNeedsStanding`, `StateManagerPagesAreGranted`, `NavigationEnds` |

Bounds. The accounts are those the guards tell apart: an agent who waits for
approval and one who is approved, the owner, and a manager and a State Manager
with and without standing. `MenuMatchesGuards` compares all links, routes and
grants in every state. The settings (`InitialGrants`) hide the overview from
agents, and from managers all that comes before the first page for the
management, so that redirects lead on from the overview and into `managerGuard`;
that page is all a State Manager has, and the grant that changes. Everybody asks
for a page or two (`Targets`), managers for the pending page, too. One change by
others, at any time, is enough to make any one copy stale. "Check status"
replaces one request at a time, and of the reads a State Manager replaces the
last is followed; two such make every order of two answers.

Fairness: the router goes on and requests end; `NavigationEnds` is stated for
the time after the last action of users and others.

Not claimed:

* That a user whom a current answer calls revoked never enters. `authGuard`
  decides before the settings are read, and `pageAccessGuard` asks for role and
  grants only (`auth.guard.ts:48`). An approved user opens the pending page by
  its address and follows a link to the dashboard; while the settings are read
  he presses "Check status" and is answered "revoked"; then the settings arrive
  and the dashboard opens. `DashboardNeedsStanding` excludes this (`crossed`),
  and the answer to a request that "Check status" replaced, which may come last
  and is taken for the newer one (`auth.service.ts:64`).
* That every navigation ends. Somebody inside the dashboard who is known not to be
  approved, which takes one of these two crossings, is refused by `managerGuard`
  (`auth.guard.ts:33`), which sends him to the overview; if the overview is
  hidden and the first page granted to his role is one for the management,
  `pageAccessGuard` (`auth.guard.ts:50`) sends him back to it, and so on for ever.
  For a manager this takes settings without overview, team and analytics.
  `NavigationEnds` names the exception (`SentRound`). The router may ignore a
  redirect to the page on display, in which case the round ends.
* That a change of the account reaches the tab: the user is asked for once
  (`auth.service.ts:32`). The server refuses what he may no longer do.
* That a toggle of a grant changes only that grant. The page sends all settings
  of its copy, which another toggle, or a read that failed and left the defaults,
  has made stale (`access-management.component.ts` 271-279).

### Proofs

`SessionProofs` proves, for any accounts, grants, targets and PUTs and any
number of changes by others:

* `TypeCorrect`: `Spec => []TypeOK`; with it, that every redirect leads to a page
  there is (`FirstIsPath`);
* `MenuLeadsToPages`: `Spec => []MenuMatchesGuards`;
* `DashboardIsForApproved`: `Spec => []DashboardNeedsStanding`;
* `StateManagersSeeWhatIsGranted`: `Spec => StateManagerPagesAreGranted`;
* `Inductive`: `Spec => []IInv`, from which the last two and the types follow.

The menu needs no invariant: that it agrees with the guards is a matter of the
tables alone, whoever is signed in and whatever the settings are. `KeysAreUnique`
says that a path has one key, `LinksAgree` that a link carries the key of its
route, that its section asks for that key too, and that the link or its section
is for the management exactly if the route has the `managerGuard`.

`IInv` follows what the client believes back to where it came from. By
`StandingInv` nobody who is known is asked for again, so that no answer can
change the user under an open page of the dashboard, and a navigation that waits
for the settings has passed the guard of the dashboard; this is what fails after
requests for the user crossed (`crossed`), until the guard admits somebody again
with no request under way. By `GrantedInv` the settings under way
hold no grant that was not there since they were asked for. An owner's own PUT
may break this, hence `OwnerInv`: the owner of the tab is never taken for a
State Manager, and an account becomes or ceases to be the owner's only by a
sign-in, which loads the application anew. TLC checked `IInv` as an invariant of
`session` before it was proved. The assumptions are those on the constants: the
marks for "none" and "unknown" are no accounts, requests or addresses, and
initial and toggled grants, sections and targets are in the tables.

Model-checked only: `NavigationEnds`, which is liveness.

## Pages

### Modules

A page is a component with signals and subscriptions. The router destroys it
when it is left, so that pages do not meet; each is a module of its own over
the same three variables: `view` (its signals and form values), `calls` (the
requests it subscribes to) and `world` (what the server holds, where the page
changes it).

* `Page`: requests and answers. A display read may hand out a preview first
  (`Shows`), and may end unseen after it (`EndsQuietly`), as `DisplayReads`
  says; a mutation is executed (`seen`) and answered, or ends without an answer
  although it may have been executed.
* `Submission`: what a form promises: one request at a time, one effect per
  request, done only after a success. `FormPage` is what pages that are one form
  have in common, and instantiates it (`Form`).
* `Pages`: the tab with one page open, and the properties they share. The small
  sets of its run are defined at its end.

| Module | Page | What is special about it |
|---|---|---|
| `AuditLogsPage`, `PropertiesListPage` | audit log, public list | debounced filters and page numbers over one `switchMap` |
| `TeamAnalyticsPage`, `AgentDetailPage`, `OverviewPage` | analytics, dashboard | periods, an agent from the address, lists that grow |
| `PropertyBookingPage`, `TenantAssignmentPage`, `JoinUsPage` | forms | `FormPage` |
| `PropertyDetailsPage` | public page of a property | an address that changes under it, and a form |
| `PropertyFormPage` | create or edit | two requests in sequence |
| `ProfilePage`, `SettingsPage` | profile, public team | edits over what the server answers |
| `PropertyManagementPage` | all properties | buttons that repeat the rules of `PropertyDomain` |
| `PortfolioBookingsPage`, `PropertyBookingsPage` | bookings | lists patched on screen |
| `RecordListPage`, `NoticeFeedPage`, `EvictionQueuePage`, `DataSyncPage` | notices | four modes of one component, which the route chooses between |
| `UserManagementPage` | team | `UserManagementService` as rules on accounts, and the buttons that offer their use |
| `RecruitmentPage`, `CommissionsPage`, `BlocksPage` | administration | lists with actions, editors, a preview by the server |

Definitions commented as variants (`...Beside`, `...Silently`, `...Anyway`)
are plausible mistakes, as in the other modules.

### Run

| Run | Instance | Shows |
|---|---|---|
| `pages` | all pages over sets of one to three | `TypeOK`, `SpinnersTurn`, `ShowsSelection`, `FollowsActions`, `PagingIsContinuous`, `TotalsMatchNotices`, `OffersAreAccepted`, `SendsWhatWasShown`, `FormsSubmitOnce`, `SuccessIsOfBoth`, `SnapshotCatchesUp` |

The state space is the union of the pages' own. Bounds: two filters, periods,
agents or houses are enough for answers to cross, three pages or exports for
one to be skipped; two failures (`MaxFailures`) are one more than a retry needs; rows of
other items do not interact, and one or two are followed. Pages may be left at
any time and forms be done, so deadlock is not checked.

Fairness (`PollFairness`) is assumed for the sync page only: its timer of a
minute keeps firing, its requests end, a publication ends. Two things keep the
page quiet in the code, a hidden document and requests of its own;
`SnapshotCatchesUp` concerns a page that is looked at.

### What is not claimed

The pages behave as follows in the model, so that no property says otherwise;
the first three are the exceptions that some invariants name.

* `lost`: after a failure that was reported, or was not (previews, badges), a
  list may be behind; marking an announcement is reported as failed when only
  the badge's count failed.
* `crossed`: the tabs of the team share one list and cancel nothing; the answer
  for the former tab may come last.
* `guessed`: the recruitment switch is on screen, as if open, before its
  setting is known.
* The page for a tenant and the ledger of commissions stay on "Loading" for ever
  when their first read fails, which nobody handles
  (`tenant-assignment.component.ts:355`, `commissions.component.ts:309`);
  `SpinnersTurn` names both exceptions.
* The property form can be saved before its details arrived; its second request
  changes whoever is the tenant by then.
* The settings page can save the empty team it starts with over the public one.
* A filter of the public list keeps the page number, which the new result may
  not have; removing the last booking shows an occupied property as available.
* An eviction can be confirmed while the hold of the same entry is on its way,
  and a snapshot whose publication died stays "pending", without a Retry.
* What is typed while a settlement is being saved is dropped by its success.

### Proofs

`PagesProofs` proves, for all constants, hence any number of failures and houses:

* `FormsAreSubmittedOnce`: `Spec => FormsSubmitOnce`, the four forms implement
  `Submission`;
* `NoSilentDuplicates`: on their pages `world.stored <= view.told + 1`.

The argument. `FormPhase` is the phase of the abstract form, computed from the
requests under way. It changes as `Submission` allows because at most one request
that sends the form is under way (`OneRequest`), and none unless the button is
disabled (`FormInv`). The lemmas `Send`, `Store`, `Succeed`, `Fail` and `Stutter`
say this once for all pages in terms of what a step does to `calls`, `view` and
`world`; for each page there is a lemma that sorts its actions among them, and
one that identifies the page's own `Phase` with `FormPhase`.

* `PagesShowSelection`: `Spec => []ShowsSelection`, for the audit log, the
  analytics of the team and of an agent, and the public list and page of
  properties;
* `FormsSendWhatIsShown`: `Spec => []SendsWhatWasShown`;
* `SavesEndTogether`: `Spec => SuccessIsOfBoth`;
* `PagingContinues`: `Spec => []PagingIsContinuous`;
* `TotalsCountOnce`: `Spec => []TotalsMatchNotices`.

None of these invariants is inductive. What has to be added is what is true of
the requests under way, and each page has an invariant of its own for it.

`ReadsInv` is for the pages with a choice and the forms that show what they will
send. The lemmas `Switched`, `Ended` and `Previewed` say what `switchMap`, an
answer and a preview leave of the requests: there is one read under way
(`Single`), and it asks what the selection is now (`Asks`), unless a debounced
filter or a navigation is still to come, which each page's invariant names. So
the answer that is taken is that of the selection. `SplitInv` says that the
preview on display, and the one under way, are of the terms in the form or the
form cannot be saved; `BlockInv`, that the dialog shows the block it was opened
for; `SaveInv`, that one request saves at a time, with the values the user
sent, and that the button is disabled meanwhile.

`RowsInv` and `FeedInv` are for the lists that are loaded step by step. A request
is for the first page or for the one behind what is loaded, pinned to the
export or the cutoff that is on display; that is enough for the rows. For the
notices there is also a resolution, which is executed before it is answered.
`Before` is what the notices were before the resolution under way, and by
`FeedTruth` the checkboxes, the totals and the change that is asked for agree with
it: executing the resolution leaves `Before` alone, the answer replaces it by what
the server has, and the totals are corrected by exactly the difference of two
counts (`UnresolvedCorrected`). Two guards are needed: no feed begins from the
start while a resolution is under way, and no totals are under way with it unless
`crossed` says so.

`PagesActionsProofs` goes on from there:

* `PagesFollowActions`: `Spec => []FollowsActions`;
* `PagesOfferWhatIsAccepted`: `Spec => []OffersAreAccepted`;
* `PagesSpinForRequests`: `Spec => []SpinnersTurn`, with its two exceptions.

These need an invariant for each page, and there is one step lemma per page,
with a case per action. `ActionsInv` is for the ten pages whose user changes what
they show. `FollowsActions` speaks of a page with nothing under way; the invariant
says what is still to come when something is. On most pages it has one form:
either an action was executed and is not answered (`Seen`), and its answer reads
again or patches the list, or the server's data are those of the last answer and
the page shows them or a read is under way. `settled` is what makes this
inductive: a preview may be older than the action, but not older than the
last answer. What differs is the exception each page needs:

* bookings of all properties (`GroupsInv`): three kinds of requests patch a list
  that a read may replace, and a property that is closed stays closed.
  `Behind(data, ops)` is the difference between the server and what is on
  display, or was at the last answer: each difference has a request that was
  executed and will remove it;
* bookings of one property (`VisitsInv`): the list only shrinks, and what it has
  too many is named by a request under way;
* team (`UsersInv`): the row and the count of those pending are two reads, of
  which a role change repeats one; `UsersEffect` says which actions leave the
  count alone. One action at a time is under way, hence what a dialog offers
  stays possible;
* recruitment (`RecruitmentInv`): list and switch are separate data with separate
  reads, and the switch follows its setting unless `guessed`;
* commissions (`LedgerInv`, on top of `SplitInv`): a settlement read for editing
  is the one on record or a change of it is not answered yet, unless `crossed`;
  by `LedgerLoads` a page without its ledger waits for it or lost it;
* properties (`ManagementInv`): documents on record satisfy `TenancyMatchesStatus`,
  which every accepted action keeps (`ManagementEffect`). That is what
  `OffersAreAccepted` rests on, since the buttons ask for the status and the
  domain for the tenant.

`TurnsInv` is for what the other thirteen pages show as under way. A spinner is
not simply a request: a preview ends a skeleton before the answer comes, a form
that is done is left, totals are "calculating" while a resolution is under
way that will read them. So the invariants distinguish requests that have handed
out nothing (`Pending`) from those that are under way (`Asked`), and `HouseTurns`
says that a page without its property, at whatever address, waits for one. These lemmas use the
invariants above (`FormInv`, `HouseInv`, `SaveInv`, `RowsInv`, `FeedInv` and those
of the pages with a choice). TLC checked all of them as invariants on the instance
of `pages`, over every state of it, before they were proved.

The assumptions are that `None` is none of the choices, numbers, totals, feeds,
tenants, houses, properties and blocks, that exports are numbered, and that there
may be two notices, with which the page can open. `None` stands for null and
undefined, which the code tells from all of these.

Model-checked only: `TypeOK`, the type invariant of all pages (each proof states
the part of it that it needs). `SnapshotCatchesUp`, `NavigationEnds`, `ReadsEnd`
and `BannerGoes` are liveness under fairness, which is out of the prover's reach.

## Not modelled

* Queries of the server: audit, analytics and dashboard reports, overviews,
  filters. They read and change nothing.
* Field validation, DTO mapping, error formatting, the HTTP layer (stateless),
  the table of endpoints a State Manager may call and the live check of
  every request.
* MongoDB configuration, indexes and seed data, uploads, Discord OAuth and the
  calls to Google Sheets (pure I/O). That single-document operations and
  transactions are atomic is assumed.
* Team management, blocks, recruitment and enquiries on the server, beyond what
  their pages see: the handlers are short and hold a copy between a read and a
  replace, as those of `PropertyService` do, but are taken as one step.
* Of the front end: the public landing and team pages, personal analytics (one read
  each), dialogs but for what they confirm, notifications, icons and styles.

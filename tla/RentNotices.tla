---------------------------- MODULE RentNotices ----------------------------
(***************************************************************************)
(* The notices of rent syncs and the eviction queue (RentSyncService.cs,   *)
(* RentSyncRepository.cs).                                                 *)
(*                                                                         *)
(* Every sync stores a snapshot with a row per exported property; a row    *)
(* that enters a notice status carries a generated notice.  Marking a      *)
(* notice as sent, holding its eviction and publishing to Google each read *)
(* a whole snapshot and replace it later.  What a sync does to properties  *)
(* is in PropertyLifecycle.  A request is a record with the copy it holds; *)
(* an action is the handler up to and including its next call.             *)
(***************************************************************************)
EXTENDS FiniteSetsExt, Integers

CONSTANTS
    Properties,         \* the properties exports list
    Requests,           \* slots for requests in flight; a singleton serialises them
    MaxSnapshots,       \* a bound on the snapshots ever stored
    GoogleConfigured,   \* whether syncs are published to Google Sheets
    MayFail             \* a request may die between two calls

ASSUME NoticesAssumption ==
    /\ MaxSnapshots \in Nat
    /\ {GoogleConfigured, MayFail} \subseteq BOOLEAN

VARIABLES
    snapshot,   \* Ids -> the stored snapshot; ids grow with UpdatedAt
    request     \* Requests -> the request in flight

vars == <<snapshot, request>>

Ids == 1..MaxSnapshots

NoticeStatus == {"overdue", "evictable"}

\* A row as an export brings it, "none" where it lists no such property.
ExportRow == {"none", "paid", "empty"} \cup NoticeStatus

\* resolved is "marked as sent", with the time in ResolvedAt.
Row == [status: ExportRow, generated: BOOLEAN, resolved: BOOLEAN, held: BOOLEAN]

\* What the handlers maintain: notices are of notice rows, holds of sent notices.
SoundRow(x) ==
    /\ x.generated \/ x.resolved => x.status \in NoticeStatus
    /\ x.held => x.resolved /\ x.generated /\ x.status = "evictable"

NoRows == [p \in Properties |->
            [status |-> "none", generated |-> FALSE, resolved |-> FALSE, held |-> FALSE]]

Request ==
    [op: {"none", "sync", "retry", "resolve", "hold"},
     pc: {"idle", "save", "retry", "publish", "write"},
     id: Ids \cup {0},
     rows: [Properties -> Row],
     prop: SUBSET Properties,   \* the property whose row is to change, if any
     flag: BOOLEAN]             \* isResolved or isOnHold

Idle ==
    [op |-> "none", pc |-> "idle", id |-> 0, rows |-> NoRows, prop |-> {}, flag |-> FALSE]

TypeOK ==
    /\ snapshot \in [Ids -> [life: {"absent", "live", "deleted"}, rows: [Properties -> Row]]]
    /\ request \in [Requests -> Request]
    /\ \A i \in Ids, p \in Properties : SoundRow(snapshot[i].rows[p])

Init ==
    /\ snapshot = [i \in Ids |-> [life |-> "absent", rows |-> NoRows]]
    /\ request = [r \in Requests |-> Idle]

Continue(r, q) ==
    request' = [request EXCEPT ![r] = IF q.pc = "idle" THEN Idle ELSE q]

Live == {i \in Ids : snapshot[i].life = "live"}

\* The snapshot of the latest sync on file.
IsCurrent(i) == i \in Live /\ \A j \in Live : j <= i

CurrentRows == IF Live = {} THEN NoRows ELSE snapshot[Max(Live)].rows

-----------------------------------------------------------------------------
(* SyncAsync and the publication *)

\* A notice for every evictable row, whether it was evictable before or not.
NoticeGeneratedAlways(now, previous) ==
    \/ now = "overdue" /\ previous \in {"none", "paid", "evictable"}
    \/ now = "evictable"

\* A row enters a notice status; coming from an empty property it does not count.
NoticeGenerated(now, previous) ==
    \/ now = "overdue" /\ previous \in {"none", "paid", "evictable"}
    \/ now = "evictable" /\ previous \in {"none", "paid", "overdue"}

MarkNoticeTransitions(export, previous) ==
    [p \in Properties |->
        [status |-> export[p], generated |-> NoticeGenerated(export[p], previous[p].status),
         resolved |-> FALSE, held |-> FALSE]]

\* The previous snapshot is read before the properties are processed.
SyncAsync(r, export) ==
    /\ request[r].pc = "idle"
    /\ Continue(r, [Idle EXCEPT !.op = "sync", !.pc = "save",
                                !.rows = MarkNoticeTransitions(export, CurrentRows)])
    /\ UNCHANGED snapshot

SaveCurrent(r) ==
    /\ request[r].pc = "save"
    /\ \E i \in Ids :
        /\ \A j \in Ids : snapshot[j].life = "absent" <=> j >= i
        /\ snapshot' = [snapshot EXCEPT ![i] = [life |-> "live", rows |-> request[r].rows]]
        /\ Continue(r, [request[r] EXCEPT !.id = i,
                                          !.pc = IF GoogleConfigured THEN "publish" ELSE "idle"])

RetryGoogleSheetSyncAsync(r) ==
    /\ request[r].pc = "idle"
    /\ \E i \in Ids :
        /\ IsCurrent(i)
        /\ Continue(r, [Idle EXCEPT !.op = "retry", !.pc = "retry", !.id = i,
                                    !.rows = snapshot[i].rows])
    /\ UNCHANGED snapshot

\* Google accepts the rows or refuses them; only the sheet status differs.
PublishToGoogleSheetAsync(r) ==
    /\ request[r].pc = "publish"
    /\ Continue(r, [request[r] EXCEPT !.pc = "write"])
    /\ UNCHANGED snapshot

-----------------------------------------------------------------------------
(* Resolutions and holds *)

\* A reopened notice whose eviction stays on hold.
MarkedKeepingHold(x, isResolved) == [x EXCEPT !.resolved = isResolved]

\* Reopening a notice releases its hold.
Marked(x, isResolved) == [x EXCEPT !.resolved = isResolved, !.held = @ /\ isResolved]

SetResolutionAsync(r, i, p, isResolved) ==
    LET x == snapshot[i].rows[p]
    IN  /\ request[r].pc = "idle"
        /\ i \in Live
        /\ x.status \in NoticeStatus
        /\ Continue(r, [op |-> "resolve", pc |-> "write", id |-> i, prop |-> {p},
                        flag |-> isResolved,
                        rows |-> [snapshot[i].rows EXCEPT ![p] = Marked(x, isResolved)]])
        /\ UNCHANGED snapshot

SetEvictionHoldAsync(r, i, p, isOnHold) ==
    LET x == snapshot[i].rows[p]
    IN  /\ request[r].pc = "idle"
        /\ i \in Live
        /\ x.status = "evictable" /\ x.generated /\ x.resolved
        /\ Continue(r, [op |-> "hold", pc |-> "write", id |-> i, prop |-> {p},
                        flag |-> isOnHold,
                        rows |-> [snapshot[i].rows EXCEPT ![p].held = isOnHold]])
        /\ UNCHANGED snapshot

\* The whole snapshot is replaced, unless it was deleted in the meantime.
UpdateAsync(r) ==
    LET q == request[r]
    IN  /\ q.pc \in {"retry", "write"}
        /\ snapshot' = IF q.id \in Live THEN [snapshot EXCEPT ![q.id].rows = q.rows]
                       ELSE snapshot
        /\ Continue(r, [q EXCEPT !.pc =
                IF q.pc = "retry" /\ GoogleConfigured THEN "publish" ELSE "idle"])

\* A single call, but a request like any other.
DeleteAsync(r, i) ==
    /\ request[r].pc = "idle"
    /\ i \in Live
    /\ snapshot' = [snapshot EXCEPT ![i] = [life |-> "deleted", rows |-> NoRows]]
    /\ UNCHANGED request

Abort(r) ==
    /\ MayFail
    /\ request[r].pc # "idle"
    /\ Continue(r, [request[r] EXCEPT !.pc = "idle"])
    /\ UNCHANGED snapshot

-----------------------------------------------------------------------------

Step(r) ==
    \/ \E export \in [Properties -> ExportRow] : SyncAsync(r, export)
    \/ SaveCurrent(r)
    \/ RetryGoogleSheetSyncAsync(r)
    \/ PublishToGoogleSheetAsync(r)
    \/ \E i \in Ids, p \in Properties, flag \in BOOLEAN :
            SetResolutionAsync(r, i, p, flag) \/ SetEvictionHoldAsync(r, i, p, flag)
    \/ UpdateAsync(r)
    \/ \E i \in Ids : DeleteAsync(r, i)
    \/ Abort(r)

Next == \E r \in Requests : Step(r)

Spec == Init /\ [][Next]_vars

-----------------------------------------------------------------------------
(* GetEvictionQueueAsync *)

\* Rows that settle the cycle of p: the newest is its notice or a boundary.
DecisiveEvenEmpty(p) ==
    {i \in Live : LET x == snapshot[i].rows[p]
                  IN  x.status \in {"paid", "overdue"} \/ x.generated}

Decisive(p) ==
    {i \in Live : LET x == snapshot[i].rows[p]
                  IN  x.status # "none" /\ (x.status = "evictable" => x.generated)}

\* The row the scan for p ends at; NoRows when it finds none.
Settling(p) == IF Decisive(p) = {} THEN NoRows[p] ELSE snapshot[Max(Decisive(p))].rows[p]

EvictionQueue ==
    {p \in Properties : /\ CurrentRows[p].status = "evictable"
                        /\ Settling(p).status = "evictable"
                        /\ Settling(p).resolved}

\* The properties in the queue that are not ready, however long they wait.
OnHold == {p \in EvictionQueue : Settling(p).held}

-----------------------------------------------------------------------------
(* Properties.  They hold for requests one at a time, which may die anywhere. *)

\* A hold blocks the eviction until somebody releases it or reopens the notice, or
\* the cycle ends: an export shows the property in another state, or is deleted.
HoldUntilReleased ==
    [][\A p \in Properties :
          p \in OnHold /\ p \notin OnHold'
          => \/ \E r \in Requests : request'[r] # request[r] /\ request[r].prop = {p}
                                    /\ ~request[r].flag
             \/ \E i \in Live' \ Live : snapshot'[i].rows[p].status # "evictable"
             \/ ~(Live \subseteq Live')]_vars

CycleOf(p) ==
    CASE CurrentRows[p].status = "empty" -> "closed"
      [] CurrentRows[p].status \in {"none", "paid", "overdue"} -> "open"
      [] CurrentRows[p].status = "evictable" ->
            CASE p \in OnHold -> "held"
              [] p \in EvictionQueue \ OnHold -> "sent"
              [] p \notin EvictionQueue /\ Settling(p).status = "evictable" -> "due"
              [] Settling(p).status # "evictable" -> "closed"

NoticeCycles == INSTANCE NoticeCycle WITH
    cycle <- [p \in Properties |-> CycleOf(p)],
    exports <- Cardinality(Live)

\* Scanning the stored snapshots backwards finds where the cycle of every property
\* stands, whatever was resolved, reopened, retried and lost on the way: nobody enters
\* the queue but by a notice sent in the current cycle.
CyclesImplemented == NoticeCycles!Spec
=============================================================================

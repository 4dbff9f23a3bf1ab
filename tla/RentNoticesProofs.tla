------------------------- MODULE RentNoticesProofs -------------------------
(***************************************************************************)
(* Theorems about RentNotices, for any number of properties, snapshots and *)
(* concurrent requests.  Stale replaces lose resolutions and holds, but    *)
(* never store a row no handler would have made: IInv adds to TypeOK that  *)
(* the copies requests hold are sound as well.                             *)
(* With requests one at a time, each of which may die anywhere, what a     *)
(* request holds is also what is stored, but for its own change (SInv).    *)
(* From it follow that holds stay until released, and that the stored      *)
(* exports implement NoticeCycle.                                          *)
(***************************************************************************)
EXTENDS RentNotices, FiniteSetTheorems, WellFoundedInduction, TLAPS

\* Whole tables of rows that are sound.
SoundRows == {rows \in [Properties -> Row] : \A p \in Properties : SoundRow(rows[p])}

Snapshot == [life: {"absent", "live", "deleted"}, rows: SoundRows]

GoodRequest(q) == q \in Request /\ q.rows \in SoundRows

IInv ==
    /\ snapshot \in [Ids -> Snapshot]
    /\ request \in [Requests -> Request]
    /\ \A r \in Requests : GoodRequest(request[r])

LEMMA IdleGood == GoodRequest(Idle)
BY DEF GoodRequest, Idle, Request, SoundRows, SoundRow, NoRows, Row, ExportRow, NoticeStatus

\* Whatever a good request goes on with, all requests stay good.
LEMMA ContinueGood ==
    ASSUME IInv, NEW r \in Requests, NEW q, GoodRequest(q), Continue(r, q)
    PROVE  /\ request' \in [Requests -> Request]
           /\ \A s \in Requests : GoodRequest(request'[s])
<1>1. PICK next : GoodRequest(next) /\ request' = [request EXCEPT ![r] = next]
  BY IdleGood DEF Continue
<1> QED BY <1>1 DEF IInv, GoodRequest

\* The rows of an export are sound before anybody sends a notice.
LEMMA ExportSound ==
    ASSUME NEW export \in [Properties -> ExportRow], NEW previous
    PROVE  MarkNoticeTransitions(export, previous) \in SoundRows
<1> DEFINE rows == MarkNoticeTransitions(export, previous)
<1>1. ASSUME NEW p \in Properties
      PROVE  rows[p] \in Row /\ SoundRow(rows[p])
  <2>1. rows[p] = [status |-> export[p],
                   generated |-> NoticeGenerated(export[p], previous[p].status),
                   resolved |-> FALSE, held |-> FALSE]
    BY DEF MarkNoticeTransitions
  <2>2. NoticeGenerated(export[p], previous[p].status) \in BOOLEAN
    BY DEF NoticeGenerated
  <2>3. NoticeGenerated(export[p], previous[p].status) => export[p] \in NoticeStatus
    BY DEF NoticeGenerated, NoticeStatus
  <2> QED BY <2>1, <2>2, <2>3 DEF Row, SoundRow
<1>2. rows = [p \in Properties |-> rows[p]]
  BY DEF MarkNoticeTransitions
<1> HIDE DEF rows
<1> QED BY <1>1, <1>2 DEF SoundRows, rows

\* Replacing one row by a sound one keeps a table sound.
LEMMA OneRowChanged ==
    ASSUME NEW rows \in SoundRows, NEW p \in Properties, NEW x \in Row, SoundRow(x)
    PROVE  [rows EXCEPT ![p] = x] \in SoundRows
BY DEF SoundRows

\* Marking a notice and holding an eviction keep their rows sound.
LEMMA ChangesSound ==
    ASSUME NEW x \in Row, SoundRow(x), NEW flag \in BOOLEAN
    PROVE  /\ x.status \in NoticeStatus => Marked(x, flag) \in Row /\ SoundRow(Marked(x, flag))
           /\ x.status = "evictable" /\ x.generated /\ x.resolved
              => [x EXCEPT !.held = flag] \in Row /\ SoundRow([x EXCEPT !.held = flag])
BY DEF Row, SoundRow, Marked, NoticeStatus

\* A snapshot that gets sound rows stays a snapshot.
LEMMA SnapshotReplaced ==
    ASSUME IInv, NEW i \in Ids, NEW rows \in SoundRows,
           NEW life \in {"absent", "live", "deleted"}
    PROVE  /\ [snapshot EXCEPT ![i] = [life |-> life, rows |-> rows]] \in [Ids -> Snapshot]
           /\ [snapshot EXCEPT ![i].rows = rows] \in [Ids -> Snapshot]
BY DEF IInv, Snapshot

-----------------------------------------------------------------------------

LEMMA StepKeeps ==
    ASSUME IInv, NEW r \in Requests, Step(r)
    PROVE  IInv'
<1>0. /\ request[r] \in Request /\ request[r].rows \in SoundRows
      /\ \A i \in Ids : snapshot[i] \in Snapshot /\ snapshot[i].rows \in SoundRows
  BY DEF IInv, GoodRequest, Snapshot
<1>1. ASSUME NEW export \in [Properties -> ExportRow], SyncAsync(r, export)
      PROVE  IInv'
  <2> DEFINE q == [Idle EXCEPT !.op = "sync", !.pc = "save",
                               !.rows = MarkNoticeTransitions(export, CurrentRows)]
  <2>1. GoodRequest(q)
    BY ExportSound, IdleGood DEF GoodRequest, Idle, Request, SoundRows
  <2>2. Continue(r, q) /\ UNCHANGED snapshot
    BY <1>1 DEF SyncAsync
  <2> HIDE DEF q
  <2> QED BY <2>1, <2>2, ContinueGood DEF IInv
<1>2. CASE SaveCurrent(r)
  <2>1. PICK i \in Ids :
          /\ snapshot' = [snapshot EXCEPT ![i] = [life |-> "live", rows |-> request[r].rows]]
          /\ Continue(r, [request[r] EXCEPT !.id = i,
                                            !.pc = IF GoogleConfigured THEN "publish" ELSE "idle"])
    BY <1>2 DEF SaveCurrent
  <2>2. GoodRequest([request[r] EXCEPT !.id = i,
                                       !.pc = IF GoogleConfigured THEN "publish" ELSE "idle"])
    BY <1>0 DEF GoodRequest, Request
  <2>3. snapshot' \in [Ids -> Snapshot]
    BY <1>0, <2>1, SnapshotReplaced
  <2> QED BY <2>1, <2>2, <2>3, ContinueGood DEF IInv
<1>3. CASE RetryGoogleSheetSyncAsync(r)
  <2>1. PICK i \in Ids : Continue(r, [Idle EXCEPT !.op = "retry", !.pc = "retry", !.id = i,
                                                  !.rows = snapshot[i].rows])
    BY <1>3 DEF RetryGoogleSheetSyncAsync
  <2>2. GoodRequest([Idle EXCEPT !.op = "retry", !.pc = "retry", !.id = i,
                                 !.rows = snapshot[i].rows])
    BY <1>0, IdleGood DEF GoodRequest, Idle, Request, SoundRows
  <2>3. UNCHANGED snapshot
    BY <1>3 DEF RetryGoogleSheetSyncAsync
  <2> QED BY <2>1, <2>2, <2>3, ContinueGood DEF IInv
<1>4. CASE PublishToGoogleSheetAsync(r)
  <2>1. GoodRequest([request[r] EXCEPT !.pc = "write"])
    BY <1>0 DEF GoodRequest, Request
  <2> QED BY <1>4, <2>1, ContinueGood DEF PublishToGoogleSheetAsync, IInv
<1>5. ASSUME NEW i \in Ids, NEW p \in Properties, NEW flag \in BOOLEAN,
             SetResolutionAsync(r, i, p, flag)
      PROVE  IInv'
  <2> DEFINE x == snapshot[i].rows[p]
             rows == [snapshot[i].rows EXCEPT ![p] = Marked(x, flag)]
             q == [op |-> "resolve", pc |-> "write", id |-> i, prop |-> {p},
                   flag |-> flag, rows |-> rows]
  <2>1. x \in Row /\ SoundRow(x)
    BY <1>0 DEF SoundRows
  <2>2. rows \in SoundRows
    <3>1. x.status \in NoticeStatus
      BY <1>5 DEF SetResolutionAsync
    <3>2. Marked(x, flag) \in Row /\ SoundRow(Marked(x, flag))
      BY <2>1, <3>1, ChangesSound
    <3> QED BY <1>0, <3>2, OneRowChanged
  <2>3. Continue(r, q) /\ UNCHANGED snapshot
    BY <1>5 DEF SetResolutionAsync
  <2>4. GoodRequest(q)
    <3> HIDE DEF rows
    <3> QED BY <2>2 DEF GoodRequest, Request, SoundRows
  <2> HIDE DEF q
  <2> QED BY <2>3, <2>4, ContinueGood DEF IInv
<1>6. ASSUME NEW i \in Ids, NEW p \in Properties, NEW flag \in BOOLEAN,
             SetEvictionHoldAsync(r, i, p, flag)
      PROVE  IInv'
  <2> DEFINE x == snapshot[i].rows[p]
             rows == [snapshot[i].rows EXCEPT ![p].held = flag]
             q == [op |-> "hold", pc |-> "write", id |-> i, prop |-> {p},
                   flag |-> flag, rows |-> rows]
  <2>1. x \in Row /\ SoundRow(x)
    BY <1>0 DEF SoundRows
  <2>2. rows \in SoundRows
    <3>1. x.status = "evictable" /\ x.generated /\ x.resolved
      BY <1>6 DEF SetEvictionHoldAsync
    <3>2. [x EXCEPT !.held = flag] \in Row /\ SoundRow([x EXCEPT !.held = flag])
      BY <2>1, <3>1, ChangesSound
    <3>3. rows = [snapshot[i].rows EXCEPT ![p] = [x EXCEPT !.held = flag]]
      OBVIOUS
    <3> QED BY <1>0, <3>2, <3>3, OneRowChanged
  <2>3. Continue(r, q) /\ UNCHANGED snapshot
    BY <1>6 DEF SetEvictionHoldAsync
  <2>4. GoodRequest(q)
    <3> HIDE DEF rows
    <3> QED BY <2>2 DEF GoodRequest, Request, SoundRows
  <2> HIDE DEF q
  <2> QED BY <2>3, <2>4, ContinueGood DEF IInv
<1>7. CASE UpdateAsync(r)
  <2> DEFINE q == [request[r] EXCEPT !.pc =
                    IF request[r].pc = "retry" /\ GoogleConfigured THEN "publish" ELSE "idle"]
  <2>1. GoodRequest(q)
    BY <1>0 DEF GoodRequest, Request
  <2>2. Continue(r, q)
    BY <1>7 DEF UpdateAsync
  <2>3. snapshot' \in [Ids -> Snapshot]
    <3>1. CASE request[r].id \in Live
      BY <1>0, <1>7, <3>1, SnapshotReplaced DEF UpdateAsync, Live
    <3>2. CASE request[r].id \notin Live
      BY <1>7, <3>2 DEF UpdateAsync, IInv
    <3> QED BY <3>1, <3>2
  <2> HIDE DEF q
  <2> QED BY <2>1, <2>2, <2>3, ContinueGood DEF IInv
<1>8. ASSUME NEW i \in Ids, DeleteAsync(r, i) PROVE IInv'
  <2>1. NoRows \in SoundRows
    BY IdleGood DEF GoodRequest, Idle
  <2>2. snapshot' \in [Ids -> Snapshot]
    BY <1>8, <2>1, SnapshotReplaced DEF DeleteAsync
  <2> QED BY <1>8, <2>2 DEF DeleteAsync, IInv
<1>9. CASE Abort(r)
  <2>1. GoodRequest([request[r] EXCEPT !.pc = "idle"])
    BY <1>0 DEF GoodRequest, Request
  <2> QED BY <1>9, <2>1, ContinueGood DEF Abort, IInv
<1> QED BY <1>1, <1>2, <1>3, <1>4, <1>5, <1>6, <1>7, <1>8, <1>9 DEF Step

\* The copies in flight and the stored snapshots are sound in every reachable state.
THEOREM Inductive == Spec => []IInv
<1>1. Init => IInv
  <2> SUFFICES ASSUME Init PROVE IInv
    OBVIOUS
  <2>1. NoRows \in SoundRows
    BY IdleGood DEF GoodRequest, Idle
  <2> QED BY <2>1, IdleGood DEF Init, IInv, Snapshot, GoodRequest
<1>2. IInv /\ [Next]_vars => IInv'
  <2> SUFFICES ASSUME IInv, [Next]_vars PROVE IInv'
    OBVIOUS
  <2>1. CASE Next
    BY <2>1, StepKeeps DEF Next
  <2>2. CASE UNCHANGED vars
    BY <2>2 DEF vars, IInv
  <2> QED BY <2>1, <2>2
<1> QED BY <1>1, <1>2, PTL DEF Spec

\* However requests interleave and wherever they die, a stored hold is on a notice
\* that was generated and sent, and a stored resolution on a notice row.
THEOREM TypeCorrect == Spec => []TypeOK
<1>1. IInv => TypeOK
  BY DEF IInv, TypeOK, Snapshot, SoundRows
<1> QED BY <1>1, Inductive, PTL

-----------------------------------------------------------------------------
(* Where a cycle stands, as an operator on the stored snapshots *)

LiveIn(s) == {i \in Ids : s[i].life = "live"}
CurrentIn(s) == IF LiveIn(s) = {} THEN NoRows ELSE s[Max(LiveIn(s))].rows
Settles(x) == x.status # "none" /\ (x.status = "evictable" => x.generated)
DecisiveIn(s, p) == {i \in LiveIn(s) : Settles(s[i].rows[p])}
SettlingIn(s, p) ==
    IF DecisiveIn(s, p) = {} THEN NoRows[p] ELSE s[Max(DecisiveIn(s, p))].rows[p]

\* Where a property stands that the latest export shows in status now and whose cycle
\* the row x settles.
Stage(now, x) ==
    IF now = "empty" THEN "closed"
    ELSE IF now # "evictable" THEN "open"
    ELSE IF x.status # "evictable" THEN "closed"
    ELSE IF ~x.resolved THEN "due"
    ELSE IF x.held THEN "held" ELSE "sent"

StageIn(s, p) == Stage(CurrentIn(s)[p].status, SettlingIn(s, p))

LEMMA GreatestId ==
    ASSUME NEW S \in SUBSET Ids, S # {}
    PROVE  Max(S) \in S /\ \A y \in S : Max(S) >= y
<1> DEFINE Bounds == {n \in Nat : \A y \in S : n >= y}
           Less == {x \in Nat \X Nat : x[1] < x[2]}
<1>1. IsWellFoundedOn(Less, Nat)
  BY NatLessThanWellFounded DEF OpToRel
<1>2. MaxSnapshots \in Bounds
  BY NoticesAssumption DEF Ids
<1>3. PICK m \in Bounds : \A n \in Bounds : ~(<<n, m>> \in Less)
  <2>1. Bounds \subseteq Nat
    OBVIOUS
  <2> HIDE DEF Bounds, Less
  <2> QED
    BY <1>1, <1>2, <2>1, WFMin
<1>4. m \in S
  <2> SUFFICES ASSUME m \notin S PROVE FALSE
    OBVIOUS
  <2>1. m \in Nat /\ \A y \in S : y \in Nat /\ y >= 1 /\ m >= y /\ m # y
    BY <1>3 DEF Ids
  <2>2. m - 1 \in Nat /\ \A y \in S : m - 1 >= y
    BY <2>1
  <2>3. m - 1 \in Bounds
    BY <2>2
  <2>4. <<m - 1, m>> \in Less
    BY <2>1, <2>2
  <2> HIDE DEF Bounds, Less
  <2> QED
    BY <1>3, <2>3, <2>4
<1>5. \E x \in S : \A y \in S : x >= y
  BY <1>3, <1>4
<1> QED
  BY <1>5, Zenon DEF Max

LEMMA GreatestIs ==
    ASSUME NEW S \in SUBSET Ids, NEW m \in S, \A y \in S : m >= y
    PROVE  Max(S) = m
<1>1. PICK x : x = Max(S)
  OBVIOUS
<1>2. x \in S /\ x >= m
  BY <1>1, GreatestId
<1>3. m >= x /\ x \in Int /\ m \in Int
  BY <1>2 DEF Ids
<1> QED
  BY <1>1, <1>2, <1>3

LEMMA NoRowsSound == NoRows \in SoundRows
BY IdleGood DEF GoodRequest, Idle

LEMMA RowsIn ==
    ASSUME NEW s \in [Ids -> Snapshot], NEW p \in Properties
    PROVE  /\ LiveIn(s) \in SUBSET Ids /\ DecisiveIn(s, p) \in SUBSET Ids
           /\ CurrentIn(s)[p] \in Row
           /\ SettlingIn(s, p) \in Row /\ SoundRow(SettlingIn(s, p))
<1>1. LiveIn(s) \in SUBSET Ids /\ DecisiveIn(s, p) \in SUBSET Ids
  BY DEF LiveIn, DecisiveIn
<1>2. \A i \in Ids : s[i].rows \in SoundRows
  BY DEF Snapshot
<1>3. CurrentIn(s) \in SoundRows
  BY <1>1, <1>2, GreatestId, NoRowsSound DEF CurrentIn
<1>4. SettlingIn(s, p) \in Row /\ SoundRow(SettlingIn(s, p))
  BY <1>1, <1>2, GreatestId, NoRowsSound DEF SettlingIn, SoundRows
<1> QED
  BY <1>1, <1>3, <1>4 DEF SoundRows

LEMMA StageIsCycle ==
    ASSUME NEW s \in [Ids -> Snapshot], NEW p \in Properties
    PROVE  StageIn(s, p) \in {"open", "closed", "due", "sent", "held"}
BY DEF StageIn, Stage

\* The definitions of RentNotices in these terms, in a state and in the next.
LEMMA Standing ==
    ASSUME IInv, IInv', NEW p \in Properties
    PROVE  /\ CycleOf(p) = StageIn(snapshot, p) /\ CycleOf(p)' = StageIn(snapshot', p)
           /\ p \in OnHold <=> StageIn(snapshot, p) = "held"
           /\ p \in OnHold' <=> StageIn(snapshot', p) = "held"
<1>1. /\ Live = LiveIn(snapshot) /\ CurrentRows = CurrentIn(snapshot)
      /\ Settling(p) = SettlingIn(snapshot, p)
  <2>1. Live = LiveIn(snapshot)
    BY DEF Live, LiveIn
  <2>2. Decisive(p) = DecisiveIn(snapshot, p)
    BY <2>1 DEF Decisive, DecisiveIn, Settles
  <2> QED
    BY <2>1, <2>2 DEF CurrentRows, CurrentIn, Settling, SettlingIn
<1>2. /\ Live' = LiveIn(snapshot') /\ CurrentRows' = CurrentIn(snapshot')
      /\ Settling(p)' = SettlingIn(snapshot', p)
  <2>1. Live' = LiveIn(snapshot')
    BY DEF Live, LiveIn
  <2>2. Decisive(p)' = DecisiveIn(snapshot', p)
    BY <2>1 DEF Decisive, DecisiveIn, Settles
  <2> QED
    BY <2>1, <2>2 DEF CurrentRows, CurrentIn, Settling, SettlingIn
<1>3. PICK s, t : s = snapshot /\ t = snapshot'
  OBVIOUS
<1>4. s \in [Ids -> Snapshot] /\ t \in [Ids -> Snapshot]
  BY <1>3 DEF IInv
<1>5. /\ CurrentIn(s)[p].status \in ExportRow /\ CurrentIn(t)[p].status \in ExportRow
      /\ SettlingIn(s, p).resolved \in BOOLEAN /\ SettlingIn(t, p).resolved \in BOOLEAN
      /\ SettlingIn(s, p).held \in BOOLEAN /\ SettlingIn(t, p).held \in BOOLEAN
  BY <1>4, RowsIn DEF Row
<1>6. p \in OnHold <=> StageIn(s, p) = "held"
  BY <1>1, <1>3, <1>5 DEF OnHold, EvictionQueue, StageIn, Stage
<1>7. p \in OnHold' <=> StageIn(t, p) = "held"
  BY <1>2, <1>3, <1>5 DEF OnHold, EvictionQueue, StageIn, Stage
<1>8. CycleOf(p) = StageIn(s, p)
  <2>1. p \in EvictionQueue <=> StageIn(s, p) \in {"held", "sent"}
    BY <1>1, <1>3, <1>5 DEF EvictionQueue, StageIn, Stage
  <2> QED
    BY <1>1, <1>3, <1>5, <1>6, <2>1 DEF CycleOf, StageIn, Stage, ExportRow, NoticeStatus
<1>9. CycleOf(p)' = StageIn(t, p)
  <2>1. p \in EvictionQueue' <=> StageIn(t, p) \in {"held", "sent"}
    BY <1>2, <1>3, <1>5 DEF EvictionQueue, StageIn, Stage
  <2> QED
    BY <1>2, <1>3, <1>5, <1>7, <2>1 DEF CycleOf, StageIn, Stage, ExportRow, NoticeStatus
<1> QED
  BY <1>3, <1>6, <1>7, <1>8, <1>9

\* The row of an export that shows status now after the row previous.
Fresh(now, previous) ==
    [status |-> now, generated |-> NoticeGenerated(now, previous.status),
     resolved |-> FALSE, held |-> FALSE]

\* The snapshots with a new one, and with one row changed.
Saved(s, n, rows) == [s EXCEPT ![n] = [life |-> "live", rows |-> rows]]
Rewritten(s, i, p, y) == [s EXCEPT ![i].rows = [s[i].rows EXCEPT ![p] = y]]

\* Saving an export moves every cycle as NoticeCycle says.
LEMMA ExportMoves ==
    ASSUME NEW s \in [Ids -> Snapshot], NEW n \in Ids, \A j \in LiveIn(s) : j < n,
           NEW rows \in SoundRows, NEW t, t = Saved(s, n, rows),
           NEW p \in Properties, NEW now \in ExportRow,
           rows[p] = Fresh(now, CurrentIn(s)[p])
    PROVE  StageIn(t, p) = CASE now = "evictable" ->
                                    IF StageIn(s, p) = "open" THEN "due" ELSE StageIn(s, p)
                             [] now = "empty" -> "closed"
                             [] OTHER -> "open"
<1>1. n \notin LiveIn(s)
  BY DEF Ids
<1>2. /\ t[n].life = "live" /\ t[n].rows = rows
      /\ \A j \in Ids : j # n => t[j] = s[j]
  BY DEF Saved
<1>3. LiveIn(t) = LiveIn(s) \cup {n}
  BY <1>2 DEF LiveIn
<1>4. LiveIn(s) \in SUBSET Ids /\ LiveIn(t) \in SUBSET Ids
  BY DEF LiveIn
<1>5. \A j \in LiveIn(t) : n >= j
  BY <1>3, <1>4 DEF Ids
<1>6. Max(LiveIn(t)) = n /\ LiveIn(t) # {}
  BY <1>3, <1>4, <1>5, GreatestIs
<1>7. CurrentIn(t)[p] = rows[p]
  BY <1>2, <1>6 DEF CurrentIn
<1>8. PICK x, c : x = rows[p] /\ c = CurrentIn(s)[p]
  OBVIOUS
<1>9. /\ x.status = now /\ x.generated = NoticeGenerated(now, c.status)
      /\ x.resolved = FALSE /\ x.held = FALSE
  BY <1>8 DEF Fresh
<1>10. c.status \in ExportRow
  BY <1>8, RowsIn DEF Row
<1>11. DecisiveIn(t, p) = IF Settles(x) THEN DecisiveIn(s, p) \cup {n} ELSE DecisiveIn(s, p)
  <2>1. \A j \in LiveIn(s) : t[j] = s[j]
    BY <1>1, <1>2, <1>4
  <2>2. t[n].rows[p] = x
    BY <1>2, <1>8
  <2> QED
    BY <1>3, <2>1, <2>2 DEF DecisiveIn
<1>12. CASE now # "evictable"
  BY <1>7, <1>8, <1>9, <1>12 DEF StageIn, Stage
<1>13. CASE now = "evictable" /\ c.status \in {"none", "paid", "overdue"}
  <2>1. StageIn(s, p) = "open"
    BY <1>8, <1>13 DEF StageIn, Stage
  <2>2. Settles(x) /\ x.status = "evictable"
    BY <1>9, <1>13 DEF Settles, NoticeGenerated
  <2>3. n \in DecisiveIn(t, p) /\ DecisiveIn(t, p) \in SUBSET Ids
        /\ \A j \in DecisiveIn(t, p) : n >= j
    BY <1>4, <1>5, <1>11, <2>2 DEF DecisiveIn
  <2>4. Max(DecisiveIn(t, p)) = n
    BY <2>3, GreatestIs
  <2>5. SettlingIn(t, p) = x
    BY <1>2, <1>8, <2>3, <2>4 DEF SettlingIn
  <2>6. StageIn(t, p) = "due"
    BY <1>7, <1>8, <1>9, <1>13, <2>2, <2>5 DEF StageIn, Stage
  <2> QED
    BY <1>13, <2>1, <2>6
<1>14. CASE now = "evictable" /\ c.status \in {"empty", "evictable"}
  <2>1. ~Settles(x)
    BY <1>9, <1>14 DEF Settles, NoticeGenerated
  <2>2. DecisiveIn(t, p) = DecisiveIn(s, p)
    BY <1>11, <2>1
  <2>3. SettlingIn(t, p) = SettlingIn(s, p)
    <3>1. CASE DecisiveIn(s, p) = {}
      BY <2>2, <3>1 DEF SettlingIn
    <3>2. CASE DecisiveIn(s, p) # {}
      <4>1. PICK m : m = Max(DecisiveIn(s, p))
        OBVIOUS
      <4>2. m \in LiveIn(s)
        BY <3>2, <4>1, RowsIn, GreatestId DEF DecisiveIn
      <4>3. t[m] = s[m]
        BY <1>1, <1>2, <1>4, <4>2
      <4>4. SettlingIn(s, p) = s[m].rows[p]
        BY <3>2, <4>1 DEF SettlingIn
      <4>5. SettlingIn(t, p) = t[m].rows[p]
        BY <2>2, <3>2, <4>1 DEF SettlingIn
      <4> QED
        BY <4>3, <4>4, <4>5
    <3> QED
      BY <3>1, <3>2
  <2>4. CASE c.status = "evictable"
    <3>1. StageIn(t, p) = StageIn(s, p)
      BY <1>7, <1>8, <1>9, <1>14, <2>3, <2>4 DEF StageIn
    <3>2. StageIn(s, p) # "open"
      BY <1>8, <2>4 DEF StageIn, Stage
    <3> QED
      BY <1>14, <3>1, <3>2
  <2>5. CASE c.status = "empty"
    <3>1. LiveIn(s) # {}
      BY <1>8, <2>5 DEF CurrentIn, NoRows
    <3>2. PICK m : m = Max(LiveIn(s))
      OBVIOUS
    <3>3. m \in LiveIn(s) /\ \A j \in LiveIn(s) : m >= j
      BY <1>4, <3>1, <3>2, GreatestId
    <3>4. s[m].rows[p] = c
      BY <1>8, <3>1, <3>2 DEF CurrentIn
    <3>5. m \in DecisiveIn(s, p)
      BY <2>5, <3>3, <3>4 DEF DecisiveIn, Settles
    <3>6. DecisiveIn(s, p) \in SUBSET Ids /\ \A j \in DecisiveIn(s, p) : m >= j
      BY <1>4, <3>3 DEF DecisiveIn
    <3>7. Max(DecisiveIn(s, p)) = m
      BY <3>5, <3>6, GreatestIs
    <3>8. SettlingIn(s, p) = c
      BY <3>4, <3>5, <3>7 DEF SettlingIn
    <3>9. StageIn(s, p) = "closed"
      BY <1>8, <2>5 DEF StageIn, Stage
    <3>10. StageIn(t, p) = "closed"
      BY <1>7, <1>8, <1>9, <1>14, <2>3, <2>5, <3>8 DEF StageIn, Stage
    <3> QED
      BY <1>14, <3>9, <3>10
  <2> QED
    BY <1>14, <2>4, <2>5
<1> QED
  BY <1>10, <1>12, <1>13, <1>14 DEF ExportRow, NoticeStatus

\* Marking or holding one notice changes at most the cycle of its property, and that
\* only if the row settles it.
LEMMA ChangeMoves ==
    ASSUME NEW s \in [Ids -> Snapshot], NEW i \in LiveIn(s), NEW p \in Properties, NEW y \in Row,
           y.status = s[i].rows[p].status, y.generated = s[i].rows[p].generated,
           NEW t, t = Rewritten(s, i, p, y)
    PROVE  /\ LiveIn(t) = LiveIn(s)
           /\ \A q \in Properties : q # p => StageIn(t, q) = StageIn(s, q)
           /\ \/ StageIn(t, p) = StageIn(s, p)
              \/ /\ StageIn(s, p) = Stage(CurrentIn(s)[p].status, s[i].rows[p])
                 /\ StageIn(t, p) = Stage(CurrentIn(s)[p].status, y)
<1>1. i \in Ids /\ s[i] \in Snapshot /\ s[i].rows \in [Properties -> Row]
  BY DEF LiveIn, Snapshot, SoundRows
<1>2. /\ t[i].life = s[i].life /\ \A j \in Ids : j # i => t[j] = s[j]
      /\ t[i].rows = [s[i].rows EXCEPT ![p] = y]
  <2>1. PICK d \in Snapshot : d = s[i]
    BY <1>1
  <2>2. PICK e : e = [d EXCEPT !.rows = [s[i].rows EXCEPT ![p] = y]]
    OBVIOUS
  <2>3. e.life = d.life /\ e.rows = [s[i].rows EXCEPT ![p] = y]
    BY <2>2, Zenon DEF Snapshot
  <2>4. t = [s EXCEPT ![i] = e]
    BY <2>1, <2>2 DEF Rewritten
  <2> QED
    BY <1>1, <2>1, <2>3, <2>4
<1>3. LiveIn(t) = LiveIn(s)
  BY <1>2 DEF LiveIn
<1>4. \A j \in Ids, q \in Properties :
         /\ t[j].rows[q].status = s[j].rows[q].status
         /\ t[j].rows[q].generated = s[j].rows[q].generated
         /\ q # p \/ j # i => t[j].rows[q] = s[j].rows[q]
  BY <1>1, <1>2
<1>5. t[i].rows[p] = y
  BY <1>1, <1>2
<1>6. \A q \in Properties : DecisiveIn(t, q) = DecisiveIn(s, q)
  BY <1>3, <1>4 DEF DecisiveIn, Settles, LiveIn
<1>7. \A q \in Properties : DecisiveIn(s, q) # {} => Max(DecisiveIn(s, q)) \in Ids
  BY RowsIn, GreatestId
<1>8. \A q \in Properties : CurrentIn(t)[q].status = CurrentIn(s)[q].status
  <2>1. PICK m : m = Max(LiveIn(s))
    OBVIOUS
  <2>2. LiveIn(s) \in SUBSET Ids /\ i \in LiveIn(s)
    BY DEF LiveIn
  <2>3. m \in Ids
    BY <2>1, <2>2, GreatestId
  <2>4. CurrentIn(s) = s[m].rows /\ CurrentIn(t) = t[m].rows
    BY <1>3, <2>1, <2>2 DEF CurrentIn
  <2>5. \A q \in Properties : t[m].rows[q].status = s[m].rows[q].status
    BY <1>4, <2>3
  <2> QED
    BY <2>4, <2>5, Zenon
<1>9. ASSUME NEW q \in Properties, q # p \/ Max(DecisiveIn(s, q)) # i \/ DecisiveIn(s, q) = {}
      PROVE  StageIn(t, q) = StageIn(s, q)
  <2>1. SettlingIn(t, q) = SettlingIn(s, q)
    <3>1. CASE DecisiveIn(s, q) = {}
      BY <1>6, <3>1 DEF SettlingIn
    <3>2. CASE DecisiveIn(s, q) # {}
      <4>1. PICK m : m = Max(DecisiveIn(s, q))
        OBVIOUS
      <4>2. m \in Ids /\ (q # p \/ m # i)
        BY <1>7, <1>9, <3>2, <4>1
      <4>3. SettlingIn(s, q) = s[m].rows[q]
        BY <3>2, <4>1 DEF SettlingIn
      <4>4. SettlingIn(t, q) = t[m].rows[q]
        BY <1>6, <3>2, <4>1 DEF SettlingIn
      <4> QED
        BY <1>4, <4>2, <4>3, <4>4
    <3> QED
      BY <3>1, <3>2
  <2> QED
    BY <1>8, <2>1 DEF StageIn
<1>10. CASE DecisiveIn(s, p) # {} /\ Max(DecisiveIn(s, p)) = i
  <2>1. SettlingIn(s, p) = s[i].rows[p]
    BY <1>10 DEF SettlingIn
  <2>2. SettlingIn(t, p) = y
    BY <1>5, <1>6, <1>10 DEF SettlingIn
  <2>3. /\ StageIn(s, p) = Stage(CurrentIn(s)[p].status, s[i].rows[p])
        /\ StageIn(t, p) = Stage(CurrentIn(s)[p].status, y)
    BY <1>8, <2>1, <2>2 DEF StageIn
  <2> QED
    BY <1>3, <1>9, <2>3
<1> QED
  BY <1>3, <1>9, <1>10

-----------------------------------------------------------------------------
(* Requests one at a time *)

OneAtATime == \E r : Requests = {r}

\* The notice row x may be changed by op, and what becomes of it.
Eligible(op, x) ==
    /\ x.status \in NoticeStatus
    /\ op = "hold" => x.status = "evictable" /\ x.generated /\ x.resolved
Changed(op, flag, x) == IF op = "resolve" THEN Marked(x, flag) ELSE [x EXCEPT !.held = flag]

\* The copy of a request in flight is what is stored in s.
Copies(q, s) == q.id \in LiveIn(s) /\ q.rows = s[q.id].rows

\* It is what is stored but for the row the request is about.
Changes(q, s) ==
    /\ q.op \in {"resolve", "hold"}
    /\ q.id \in LiveIn(s)
    /\ \E p \in Properties :
          /\ q.prop = {p}
          /\ Eligible(q.op, s[q.id].rows[p])
          /\ q.rows = [s[q.id].rows EXCEPT ![p] = Changed(q.op, q.flag, s[q.id].rows[p])]

\* It is the export after the latest one.
Follows(q, s) == \A p \in Properties : q.rows[p] = Fresh(q.rows[p].status, CurrentIn(s)[p])

\* What a request in flight may rely on when no other request is.
Flight(q, s) ==
    /\ q.pc = "save" => q.op = "sync" /\ Follows(q, s)
    /\ q.pc \in {"retry", "publish"} => q.op \in {"sync", "retry"} /\ Copies(q, s)
    /\ q.pc = "write" => \/ q.op \in {"sync", "retry"} /\ Copies(q, s)
                       \/ Changes(q, s)

SInv == \A r \in Requests : Flight(request[r], snapshot)

\* What a step does to the snapshots.
Saves(q) ==
    \E n \in Ids :
        /\ \A j \in LiveIn(snapshot) : j < n
        /\ q.rows \in SoundRows /\ Follows(q, snapshot)
        /\ snapshot' = Saved(snapshot, n, q.rows)
Rewrites(q) ==
    /\ q.op \in {"resolve", "hold"} /\ q.flag \in BOOLEAN
    /\ q.id \in LiveIn(snapshot)
    /\ \E p \in Properties :
          /\ q.prop = {p}
          /\ Eligible(q.op, snapshot[q.id].rows[p])
          /\ snapshot' = Rewritten(snapshot, q.id, p,
                                   Changed(q.op, q.flag, snapshot[q.id].rows[p]))
Deletes ==
    \E i \in LiveIn(snapshot) :
        snapshot' = [snapshot EXCEPT ![i] = [life |-> "deleted", rows |-> NoRows]]

LEMMA IdleFlies ==
    ASSUME NEW s
    PROVE  Idle.pc = "idle" /\ Flight(Idle, s)
BY DEF Idle, Flight

\* The request goes on with q, and nothing is stored.
LEMMA FlightGoesOn ==
    ASSUME NEW r, Requests = {r}, IInv, NEW q, NEW s, Continue(r, q), q.pc # "idle" => Flight(q, s)
    PROVE  Flight(request'[r], s)
<1>1. request'[r] = IF q.pc = "idle" THEN Idle ELSE q
  BY DEF Continue, IInv
<1> QED
  BY <1>1, IdleFlies

LEMMA SerialStep ==
    ASSUME NEW r, Requests = {r}, IInv, SInv, Step(r)
    PROVE  /\ Flight(request'[r], snapshot')
           /\ \/ snapshot' = snapshot
              \/ Saves(request[r])
              \/ Rewrites(request[r]) /\ request'[r] # request[r]
              \/ Deletes
<1>1. PICK q, s : q = request[r] /\ s = snapshot
  OBVIOUS
<1>2. /\ r \in Requests /\ q \in Request /\ q.rows \in SoundRows /\ Flight(q, s)
      /\ s \in [Ids -> Snapshot]
  BY <1>1 DEF IInv, GoodRequest, SInv
<1>3. Live = LiveIn(s) /\ CurrentRows = CurrentIn(s)
  BY <1>1 DEF Live, LiveIn, CurrentRows, CurrentIn
<1>4. ASSUME NEW export \in [Properties -> ExportRow], SyncAsync(r, export)
      PROVE  snapshot' = s /\ Flight(request'[r], s)
  <2>1. PICK rows : rows = MarkNoticeTransitions(export, CurrentRows)
    OBVIOUS
  <2>2. PICK n : n = [Idle EXCEPT !.op = "sync", !.pc = "save", !.rows = rows]
    OBVIOUS
  <2>3. n.op = "sync" /\ n.pc = "save" /\ n.rows = rows
    BY <2>2 DEF Idle
  <2>4. \A p \in Properties : rows[p] = Fresh(rows[p].status, CurrentIn(s)[p])
    BY <1>3, <2>1 DEF MarkNoticeTransitions, Fresh
  <2>5. Flight(n, s)
    BY <2>3, <2>4 DEF Flight, Follows
  <2>6. Continue(r, n) /\ snapshot' = s
    BY <1>1, <1>4, <2>1, <2>2 DEF SyncAsync
  <2> QED
    BY <2>5, <2>6, FlightGoesOn
<1>5. CASE SaveCurrent(r)
  <2>1. PICK i \in Ids :
          /\ q.pc = "save"
          /\ \A j \in Ids : s[j].life = "absent" <=> j >= i
          /\ snapshot' = [s EXCEPT ![i] = [life |-> "live", rows |-> q.rows]]
          /\ Continue(r, [q EXCEPT !.id = i,
                                   !.pc = IF GoogleConfigured THEN "publish" ELSE "idle"])
    BY <1>1, <1>5 DEF SaveCurrent
  <2>2. q.op = "sync" /\ Follows(q, s)
    BY <1>2, <2>1 DEF Flight
  <2>3. \A j \in LiveIn(s) : j < i
    BY <2>1 DEF LiveIn, Ids
  <2>4. Saves(q)
    BY <1>1, <1>2, <2>1, <2>2, <2>3 DEF Saves, Saved
  <2>5. PICK n : n = [q EXCEPT !.id = i, !.pc = IF GoogleConfigured THEN "publish" ELSE "idle"]
    OBVIOUS
  <2>6. /\ n.op = "sync" /\ n.id = i /\ n.rows = q.rows
        /\ n.pc = IF GoogleConfigured THEN "publish" ELSE "idle"
    BY <1>2, <2>2, <2>5, Zenon DEF Request
  <2>7. PICK t : t = snapshot'
    OBVIOUS
  <2>8. i \in LiveIn(t) /\ t[i].rows = q.rows
    BY <1>2, <2>1, <2>7 DEF LiveIn
  <2>9. n.pc # "idle" => Flight(n, t)
    BY <2>6, <2>8 DEF Flight, Copies
  <2>10. Flight(request'[r], t)
    BY <2>1, <2>5, <2>9, FlightGoesOn
  <2> QED
    BY <1>1, <2>4, <2>7, <2>10
<1>6. CASE RetryGoogleSheetSyncAsync(r)
  <2>1. PICK i \in Ids :
          /\ i \in Live /\ snapshot' = s
          /\ Continue(r, [Idle EXCEPT !.op = "retry", !.pc = "retry", !.id = i, !.rows = s[i].rows])
    BY <1>1, <1>6 DEF RetryGoogleSheetSyncAsync, IsCurrent
  <2>2. PICK n : n = [Idle EXCEPT !.op = "retry", !.pc = "retry", !.id = i, !.rows = s[i].rows]
    OBVIOUS
  <2>3. n.op = "retry" /\ n.pc = "retry" /\ n.id = i /\ n.rows = s[i].rows
    BY <2>2 DEF Idle
  <2>4. Flight(n, s)
    BY <1>3, <2>1, <2>3 DEF Flight, Copies
  <2> QED
    BY <1>1, <2>1, <2>2, <2>4, FlightGoesOn
<1>7. CASE PublishToGoogleSheetAsync(r)
  <2>1. q.pc = "publish" /\ snapshot' = s /\ Continue(r, [q EXCEPT !.pc = "write"])
    BY <1>1, <1>7 DEF PublishToGoogleSheetAsync
  <2>2. PICK n : n = [q EXCEPT !.pc = "write"]
    OBVIOUS
  <2>3. n.pc = "write" /\ n.op = q.op /\ n.id = q.id /\ n.rows = q.rows
    BY <1>2, <2>2, Zenon DEF Request
  <2>4. Flight(n, s)
    BY <1>2, <2>1, <2>3 DEF Flight, Copies
  <2> QED
    BY <1>1, <2>1, <2>2, <2>4, FlightGoesOn
<1>8. ASSUME NEW i \in Ids, NEW p \in Properties, NEW flag \in BOOLEAN,
             SetResolutionAsync(r, i, p, flag) \/ SetEvictionHoldAsync(r, i, p, flag)
      PROVE  snapshot' = s /\ Flight(request'[r], s)
  <2>1. PICK x : x = s[i].rows[p]
    OBVIOUS
  <2>2. PICK op \in {"resolve", "hold"} :
          /\ i \in Live /\ Eligible(op, x) /\ snapshot' = s
          /\ Continue(r, [op |-> op, pc |-> "write", id |-> i, prop |-> {p}, flag |-> flag,
                          rows |-> [s[i].rows EXCEPT ![p] = Changed(op, flag, x)]])
    <3>1. CASE SetResolutionAsync(r, i, p, flag)
      BY <1>1, <2>1, <3>1 DEF SetResolutionAsync, Eligible, Changed
    <3>2. CASE SetEvictionHoldAsync(r, i, p, flag)
      <4>1. Eligible("hold", x)
        BY <1>1, <2>1, <3>2 DEF SetEvictionHoldAsync, Eligible, NoticeStatus
      <4>2. [s[i].rows EXCEPT ![p].held = flag] = [s[i].rows EXCEPT ![p] = Changed("hold", flag, x)]
        BY <2>1 DEF Changed
      <4> QED
        BY <1>1, <3>2, <4>1, <4>2 DEF SetEvictionHoldAsync
    <3> QED
      BY <1>8, <3>1, <3>2
  <2>3. PICK n : n = [op |-> op, pc |-> "write", id |-> i, prop |-> {p}, flag |-> flag,
                      rows |-> [s[i].rows EXCEPT ![p] = Changed(op, flag, x)]]
    OBVIOUS
  <2>4. /\ n.op = op /\ n.pc = "write" /\ n.id = i /\ n.prop = {p} /\ n.flag = flag
        /\ n.rows = [s[i].rows EXCEPT ![p] = Changed(op, flag, x)]
    BY <2>3
  <2>5. Changes(n, s)
    BY <1>3, <2>1, <2>2, <2>4 DEF Changes
  <2>6. Flight(n, s)
    BY <2>4, <2>5 DEF Flight
  <2> QED
    BY <2>2, <2>3, <2>6, FlightGoesOn
<1>9. CASE UpdateAsync(r)
  <2>1. PICK n : n = [q EXCEPT !.pc = IF q.pc = "retry" /\ GoogleConfigured THEN "publish" ELSE "idle"]
    OBVIOUS
  <2>2. /\ n.op = q.op /\ n.id = q.id /\ n.rows = q.rows
        /\ n.pc = IF q.pc = "retry" /\ GoogleConfigured THEN "publish" ELSE "idle"
    BY <1>2, <2>1, Zenon DEF Request
  <2>3. q.pc \in {"retry", "write"} /\ Continue(r, n)
    BY <1>1, <1>9, <2>1 DEF UpdateAsync
  <2>4. q.id \in LiveIn(s)
    BY <1>2, <2>3 DEF Flight, Copies, Changes
  <2>5. snapshot' = [s EXCEPT ![q.id].rows = q.rows]
    BY <1>1, <1>3, <1>9, <2>4 DEF UpdateAsync
  <2>6. CASE Copies(q, s) /\ q.op \in {"sync", "retry"}
    <3>1. [s[q.id] EXCEPT !.rows = q.rows] = s[q.id]
      <4>1. PICK d \in Snapshot : d = s[q.id]
        BY <1>2, <2>4 DEF LiveIn
      <4>2. [d EXCEPT !.rows = d.rows] = d
        BY Zenon DEF Snapshot
      <4> QED
        BY <2>6, <4>1, <4>2 DEF Copies
    <3>2. snapshot' = s
      BY <1>2, <2>5, <3>1
    <3>3. n.pc # "idle" => Flight(n, s)
      BY <2>2, <2>6 DEF Flight, Copies
    <3> QED
      BY <1>1, <2>3, <3>2, <3>3, FlightGoesOn
  <2>7. CASE Changes(q, s) /\ q.pc = "write"
    <3>1. q.flag \in BOOLEAN
      BY <1>2 DEF Request
    <3>2. Rewrites(q)
      <4>1. PICK p \in Properties :
              /\ q.prop = {p} /\ Eligible(q.op, s[q.id].rows[p])
              /\ q.rows = [s[q.id].rows EXCEPT ![p] = Changed(q.op, q.flag, s[q.id].rows[p])]
        BY <2>7 DEF Changes
      <4> QED
        BY <1>1, <2>5, <2>7, <3>1, <4>1 DEF Rewrites, Rewritten, Changes
    <3>3. n.pc = "idle"
      BY <2>2, <2>7
    <3>4. request'[r] = Idle
      BY <1>2, <2>3, <3>3 DEF Continue, IInv
    <3>5. request'[r] # q
      BY <2>7, <3>4, IdleFlies
    <3> QED
      BY <1>1, <3>2, <3>4, <3>5, IdleFlies
  <2> QED
    BY <1>2, <2>3, <2>6, <2>7 DEF Flight
<1>10. ASSUME NEW i \in Ids, DeleteAsync(r, i)
       PROVE  Deletes /\ Flight(request'[r], snapshot')
  <2>1. Deletes
    BY <1>1, <1>3, <1>10 DEF DeleteAsync, Deletes
  <2>2. request'[r].pc = "idle"
    BY <1>10 DEF DeleteAsync
  <2> QED
    BY <2>1, <2>2 DEF Flight
<1>11. CASE Abort(r)
  <2>1. PICK n : n = [q EXCEPT !.pc = "idle"]
    OBVIOUS
  <2>2. n.pc = "idle"
    BY <1>2, <2>1, Zenon DEF Request
  <2>3. Continue(r, n) /\ snapshot' = s
    BY <1>1, <1>11, <2>1 DEF Abort
  <2> QED
    BY <1>1, <2>2, <2>3, FlightGoesOn
<1> QED
  BY <1>1, <1>4, <1>5, <1>6, <1>7, <1>8, <1>9, <1>10, <1>11 DEF Step

\* With one request at a time, what it holds follows from what is stored.
LEMMA SerialInv ==
    ASSUME OneAtATime
    PROVE  /\ Init => SInv
           /\ IInv /\ SInv /\ [Next]_vars => SInv'
<1>1. Init => SInv
  <2>1. PICK s : s = snapshot
    OBVIOUS
  <2> QED
    BY <2>1, IdleFlies DEF Init, SInv
<1>2. ASSUME IInv, SInv, [Next]_vars PROVE SInv'
  <2>1. PICK r : Requests = {r}
    BY DEF OneAtATime
  <2>2. CASE Step(r)
    BY <1>2, <2>1, <2>2, SerialStep DEF SInv
  <2>3. CASE UNCHANGED vars
    BY <1>2, <2>3 DEF vars, SInv
  <2> QED
    BY <1>2, <2>1, <2>2, <2>3 DEF Next
<1> QED
  BY <1>1, <1>2

\* With one request at a time, the copy it holds is what is stored but for its own change.
THEOREM SerialInductive ==
    ASSUME OneAtATime
    PROVE  Spec => []SInv
<1>1. Init => SInv
  BY SerialInv
<1>2. IInv /\ SInv /\ [Next]_vars => SInv'
  BY SerialInv
<1> QED
  BY <1>1, <1>2, Inductive, PTL DEF Spec

\* What marking or holding does to the notice.
LEMMA RowChange ==
    ASSUME NEW x \in Row, SoundRow(x), NEW op \in {"resolve", "hold"}, NEW flag \in BOOLEAN,
           Eligible(op, x), NEW now
    PROVE  /\ Changed(op, flag, x) \in Row
           /\ Changed(op, flag, x).status = x.status
           /\ Changed(op, flag, x).generated = x.generated
           /\ LET a == Stage(now, x)
                  b == Stage(now, Changed(op, flag, x))
              IN  /\ \/ a = b
                     \/ a = "due" /\ b = "sent"
                     \/ a \in {"sent", "held"} /\ b = "due"
                     \/ a = "sent" /\ b = "held"
                     \/ a = "held" /\ b = "sent"
                  /\ a = "held" /\ flag => b = "held"
<1>1. PICK y : y = Changed(op, flag, x)
  OBVIOUS
<1>2. /\ x.resolved \in BOOLEAN /\ x.held \in BOOLEAN /\ x.generated \in BOOLEAN
      /\ x.status \in ExportRow
  BY DEF Row
<1>3. /\ y \in Row /\ y.status = x.status /\ y.generated = x.generated
      /\ y.resolved = IF op = "resolve" THEN flag ELSE x.resolved
      /\ y.held = IF op = "resolve" THEN x.held /\ flag ELSE flag
  <2>1. CASE op = "resolve"
    BY <1>1, <1>2, <2>1 DEF Changed, Marked, Row
  <2>2. CASE op = "hold"
    BY <1>1, <1>2, <2>2 DEF Changed, Row
  <2> QED
    BY <2>1, <2>2
<1>4. x.held => x.resolved
  BY DEF SoundRow
<1>5. op = "hold" => x.resolved
  BY DEF Eligible
<1> QED
  BY <1>1, <1>2, <1>3, <1>4, <1>5 DEF Stage

LEMMA RewriteMoves ==
    ASSUME NEW s \in [Ids -> Snapshot], NEW i \in LiveIn(s), NEW p \in Properties,
           NEW op \in {"resolve", "hold"}, NEW flag \in BOOLEAN, Eligible(op, s[i].rows[p]),
           NEW t, t = Rewritten(s, i, p, Changed(op, flag, s[i].rows[p]))
    PROVE  /\ LiveIn(t) = LiveIn(s)
           /\ \A q \in Properties : q # p => StageIn(t, q) = StageIn(s, q)
           /\ LET a == StageIn(s, p)
                  b == StageIn(t, p)
              IN  /\ \/ a = b
                     \/ a = "due" /\ b = "sent"
                     \/ a \in {"sent", "held"} /\ b = "due"
                     \/ a = "sent" /\ b = "held"
                     \/ a = "held" /\ b = "sent"
                  /\ a = "held" /\ flag => b = "held"
<1>1. PICK x : x = s[i].rows[p]
  OBVIOUS
<1>2. x \in Row /\ SoundRow(x)
  BY <1>1 DEF LiveIn, Snapshot, SoundRows
<1>3. PICK y : y = Changed(op, flag, x)
  OBVIOUS
<1>4. y \in Row /\ y.status = x.status /\ y.generated = x.generated
  BY <1>1, <1>2, <1>3, RowChange
<1>5. /\ LiveIn(t) = LiveIn(s)
      /\ \A q \in Properties : q # p => StageIn(t, q) = StageIn(s, q)
      /\ \/ StageIn(t, p) = StageIn(s, p)
         \/ /\ StageIn(s, p) = Stage(CurrentIn(s)[p].status, x)
            /\ StageIn(t, p) = Stage(CurrentIn(s)[p].status, y)
  BY <1>1, <1>3, <1>4, ChangeMoves
<1>6. PICK now : now = CurrentIn(s)[p].status
  OBVIOUS
<1>7. LET a == Stage(now, x)
          b == Stage(now, y)
      IN  /\ \/ a = b
             \/ a = "due" /\ b = "sent"
             \/ a \in {"sent", "held"} /\ b = "due"
             \/ a = "sent" /\ b = "held"
             \/ a = "held" /\ b = "sent"
          /\ a = "held" /\ flag => b = "held"
  BY <1>1, <1>2, <1>3, RowChange
<1> QED
  BY <1>5, <1>6, <1>7

\* Snapshots on file are counted.
LEMMA LiveCount ==
    ASSUME NEW s \in [Ids -> Snapshot]
    PROVE  /\ IsFiniteSet(LiveIn(s)) /\ Cardinality(LiveIn(s)) \in Nat
           /\ \A n \in Ids : n \notin LiveIn(s)
                 => Cardinality(LiveIn(s) \cup {n}) = Cardinality(LiveIn(s)) + 1
           /\ \A n \in LiveIn(s) : /\ Cardinality(LiveIn(s)) > 0
                                   /\ Cardinality(LiveIn(s) \ {n}) = Cardinality(LiveIn(s)) - 1
<1>1. IsFiniteSet(Ids)
  BY NoticesAssumption, FS_Interval DEF Ids
<1>2. LiveIn(s) \in SUBSET Ids
  BY DEF LiveIn
<1>3. IsFiniteSet(LiveIn(s))
  BY <1>1, <1>2, FS_Subset
<1>4. Cardinality(LiveIn(s)) \in Nat
  BY <1>3, FS_CardinalityType
<1>5. ASSUME NEW n \in LiveIn(s)
      PROVE  /\ Cardinality(LiveIn(s)) > 0
             /\ Cardinality(LiveIn(s) \ {n}) = Cardinality(LiveIn(s)) - 1
  <2>1. Cardinality(LiveIn(s) \ {n}) = Cardinality(LiveIn(s)) - 1 /\ IsFiniteSet(LiveIn(s) \ {n})
    BY <1>3, FS_RemoveElement
  <2>2. Cardinality(LiveIn(s) \ {n}) \in Nat
    BY <2>1, FS_CardinalityType
  <2> QED
    BY <1>4, <2>1, <2>2
<1>6. \A n \in Ids : n \notin LiveIn(s)
         => Cardinality(LiveIn(s) \cup {n}) = Cardinality(LiveIn(s)) + 1
  BY <1>3, FS_AddElement
<1> QED
  BY <1>3, <1>4, <1>5, <1>6

-----------------------------------------------------------------------------
(* The two properties *)

\* With requests one at a time, wherever they die, a hold blocks the eviction until
\* somebody releases it or reopens the notice, an export shows another state, or an
\* export is deleted (SetEvictionHoldAsync, GetEvictionQueueAsync).
THEOREM HoldsStay ==
    ASSUME OneAtATime
    PROVE  Spec => HoldUntilReleased
<1>1. PICK z : Requests = {z}
  BY DEF OneAtATime
<1>2. ASSUME IInv, IInv', SInv, Step(z), NEW p \in Properties, p \in OnHold, p \notin OnHold'
      PROVE  \/ \E r \in Requests : request'[r] # request[r] /\ request[r].prop = {p}
                                    /\ ~request[r].flag
             \/ \E i \in Live' \ Live : snapshot'[i].rows[p].status # "evictable"
             \/ ~(Live \subseteq Live')
  <2>1. PICK q, s, t : q = request[z] /\ s = snapshot /\ t = snapshot'
    OBVIOUS
  <2>2. s \in [Ids -> Snapshot] /\ t \in [Ids -> Snapshot] /\ z \in Requests
    BY <1>1, <1>2, <2>1 DEF IInv
  <2>3. StageIn(s, p) = "held" /\ StageIn(t, p) # "held"
    BY <1>2, <2>1, Standing
  <2>4. Live = LiveIn(s) /\ Live' = LiveIn(t)
    BY <2>1 DEF Live, LiveIn
  <2>5. \/ t = s \/ Saves(q) \/ (Rewrites(q) /\ request'[z] # q) \/ Deletes
    BY <1>1, <1>2, <2>1, SerialStep
  <2>6. CASE t = s
    BY <2>3, <2>6
  <2>7. CASE Saves(q)
    <3>1. PICK n \in Ids :
            /\ \A j \in LiveIn(s) : j < n
            /\ q.rows \in SoundRows /\ Follows(q, s)
            /\ t = Saved(s, n, q.rows)
      BY <2>1, <2>7 DEF Saves
    <3>2. PICK now : now = q.rows[p].status
      OBVIOUS
    <3>3. now \in ExportRow /\ q.rows[p] = Fresh(now, CurrentIn(s)[p])
      BY <3>1, <3>2 DEF Follows, SoundRows, Row
    <3>4. now # "evictable"
      BY <2>2, <2>3, <3>1, <3>3, ExportMoves
    <3>5. n \in LiveIn(t) /\ n \notin LiveIn(s) /\ t[n].rows = q.rows
      BY <2>2, <3>1 DEF LiveIn, Ids, Saved
    <3> QED
      BY <2>1, <2>4, <3>2, <3>4, <3>5
  <2>8. CASE Rewrites(q) /\ request'[z] # q
    <3>1. PICK o \in Properties :
            /\ q.op \in {"resolve", "hold"} /\ q.flag \in BOOLEAN /\ q.id \in LiveIn(s)
            /\ q.prop = {o} /\ Eligible(q.op, s[q.id].rows[o])
            /\ t = Rewritten(s, q.id, o, Changed(q.op, q.flag, s[q.id].rows[o]))
      BY <2>1, <2>8 DEF Rewrites
    <3>2. PICK i, op, flag : i = q.id /\ op = q.op /\ flag = q.flag
      OBVIOUS
    <3>3. /\ \A u \in Properties : u # o => StageIn(t, u) = StageIn(s, u)
          /\ StageIn(s, o) = "held" /\ flag => StageIn(t, o) = "held"
      BY <2>2, <3>1, <3>2, RewriteMoves
    <3>4. p = o /\ ~q.flag
      BY <2>3, <3>1, <3>2, <3>3
    <3> QED
      BY <2>1, <2>2, <2>8, <3>1, <3>4
  <2>9. CASE Deletes
    <3>1. PICK i \in LiveIn(s) : t = [s EXCEPT ![i] = [life |-> "deleted", rows |-> NoRows]]
      BY <2>1, <2>9 DEF Deletes
    <3>2. i \notin LiveIn(t)
      BY <2>2, <3>1 DEF LiveIn
    <3> QED
      BY <2>4, <3>2
  <2> QED
    BY <2>5, <2>6, <2>7, <2>8, <2>9
<1> DEFINE Kept ==
             \A p \in Properties :
               p \in OnHold /\ p \notin OnHold'
               => \/ \E r \in Requests : request'[r] # request[r] /\ request[r].prop = {p}
                                         /\ ~request[r].flag
                  \/ \E i \in Live' \ Live : snapshot'[i].rows[p].status # "evictable"
                  \/ ~(Live \subseteq Live')
<1>3. IInv /\ IInv' /\ SInv /\ [Next]_vars => [Kept]_vars
  BY <1>1, <1>2 DEF Next
<1> HIDE DEF Kept
<1>4. Spec => [][Kept]_vars
  BY <1>3, Inductive, SerialInductive, PTL DEF Spec
<1>5. HoldUntilReleased <=> [][Kept]_vars
  BY DEF HoldUntilReleased, Kept
<1> QED
  BY <1>4, <1>5

\* With requests one at a time, wherever they die, the stored exports tell for every
\* property the stage NoticeCycle gives it: it gets into the eviction queue only by a
\* notice sent in its current cycle (GetEvictionQueueAsync, MarkNoticeTransitions).
THEOREM CyclesRefined ==
    ASSUME OneAtATime
    PROVE  Spec => CyclesImplemented
<1>1. PICK r : Requests = {r}
  BY DEF OneAtATime
<1>2. Init => NoticeCycles!Init
  <2> SUFFICES ASSUME Init PROVE NoticeCycles!Init
    OBVIOUS
  <2>1. Live = {}
    BY DEF Init, Live
  <2>2. \A p \in Properties : CurrentRows[p].status = "none"
    BY <2>1 DEF CurrentRows, NoRows
  <2>3. \A p \in Properties : CycleOf(p) = "open"
    BY <2>2 DEF CycleOf
  <2>4. Cardinality(Live) = 0
    BY <2>1, FS_EmptySet
  <2> QED
    BY <2>3, <2>4 DEF NoticeCycles!Init
<1>3. ASSUME IInv, IInv', SInv, [Next]_vars
      PROVE  [NoticeCycles!Next]_(NoticeCycles!vars)
  <2>1. PICK q, s, t : q = request[r] /\ s = snapshot /\ t = snapshot'
    OBVIOUS
  <2>2. s \in [Ids -> Snapshot] /\ t \in [Ids -> Snapshot] /\ r \in Requests
    BY <1>1, <1>3, <2>1 DEF IInv
  <2>3. Live = LiveIn(s) /\ Live' = LiveIn(t)
    BY <2>1 DEF Live, LiveIn
  <2>4. PICK c, d : /\ c = [p \in Properties |-> StageIn(s, p)]
                    /\ d = [p \in Properties |-> StageIn(t, p)]
    OBVIOUS
  <2>5. /\ c = [p \in Properties |-> CycleOf(p)]
        /\ d = [p \in Properties |-> CycleOf(p)]'
    <3>1. \A p \in Properties : CycleOf(p) = StageIn(s, p) /\ CycleOf(p)' = StageIn(t, p)
      BY <1>3, <2>1, Standing
    <3> QED
      BY <2>4, <3>1
  <2>6. PICK e, f : e = Cardinality(LiveIn(s)) /\ f = Cardinality(LiveIn(t))
    OBVIOUS
  <2>7. e = Cardinality(Live) /\ f = Cardinality(Live)'
    BY <2>3, <2>6
  <2>8. t = s \/ Saves(q) \/ Rewrites(q) \/ Deletes
    <3>1. CASE Step(r)
      BY <1>1, <1>3, <2>1, <3>1, SerialStep
    <3>2. CASE UNCHANGED vars
      BY <2>1, <3>2 DEF vars
    <3> QED
      BY <1>1, <1>3, <3>1, <3>2 DEF Next
  <2>9. CASE t = s
    BY <2>4, <2>5, <2>6, <2>7, <2>9 DEF NoticeCycles!vars
  <2>10. CASE Saves(q)
    <3>1. PICK n \in Ids :
            /\ \A j \in LiveIn(s) : j < n
            /\ q.rows \in SoundRows /\ Follows(q, s)
            /\ t = Saved(s, n, q.rows)
      BY <2>1, <2>10 DEF Saves
    <3>2. PICK row : row = [p \in Properties |-> q.rows[p].status]
      OBVIOUS
    <3>3. \A p \in Properties : /\ row[p] \in ExportRow
                                /\ q.rows[p] = Fresh(row[p], CurrentIn(s)[p])
      BY <3>1, <3>2 DEF Follows, SoundRows, Row
    <3>4. \A p \in Properties :
            d[p] = CASE row[p] = "evictable" -> IF c[p] = "open" THEN "due" ELSE c[p]
                     [] row[p] = "empty" -> "closed"
                     [] OTHER -> "open"
      <4> SUFFICES ASSUME NEW p \in Properties
                   PROVE  d[p] = CASE row[p] = "evictable" -> IF c[p] = "open" THEN "due" ELSE c[p]
                                   [] row[p] = "empty" -> "closed"
                                   [] OTHER -> "open"
        OBVIOUS
      <4>1. PICK now \in ExportRow : now = row[p] /\ q.rows[p] = Fresh(now, CurrentIn(s)[p])
        BY <3>3
      <4>2. PICK rows : rows = q.rows
        OBVIOUS
      <4>3. StageIn(t, p) = CASE now = "evictable" ->
                                   IF StageIn(s, p) = "open" THEN "due" ELSE StageIn(s, p)
                              [] now = "empty" -> "closed"
                              [] OTHER -> "open"
        BY <2>2, <3>1, <4>1, <4>2, ExportMoves
      <4> QED
        BY <2>4, <4>1, <4>3
    <3>5. row \in [Properties -> {"none", "paid", "overdue", "evictable", "empty"}]
      BY <3>2, <3>3 DEF ExportRow, NoticeStatus
    <3>6. LiveIn(t) = LiveIn(s) \cup {n} /\ n \notin LiveIn(s)
      BY <2>2, <3>1 DEF LiveIn, Ids, Saved
    <3>7. f = e + 1
      BY <2>2, <2>6, <3>6, LiveCount
    <3>8. d = [p \in Properties |->
                 CASE row[p] = "evictable" -> IF c[p] = "open" THEN "due" ELSE c[p]
                   [] row[p] = "empty" -> "closed"
                   [] OTHER -> "open"]
      BY <2>4, <3>4
    <3> QED
      BY <2>5, <2>7, <3>5, <3>7, <3>8 DEF NoticeCycles!Next, NoticeCycles!Export
  <2>11. CASE Rewrites(q)
    <3>1. PICK o \in Properties :
            /\ q.op \in {"resolve", "hold"} /\ q.flag \in BOOLEAN /\ q.id \in LiveIn(s)
            /\ q.prop = {o} /\ Eligible(q.op, s[q.id].rows[o])
            /\ t = Rewritten(s, q.id, o, Changed(q.op, q.flag, s[q.id].rows[o]))
      BY <2>1, <2>11 DEF Rewrites
    <3>2. PICK i, op, flag : i = q.id /\ op = q.op /\ flag = q.flag
      OBVIOUS
    <3>3. /\ LiveIn(t) = LiveIn(s)
          /\ \A u \in Properties : u # o => StageIn(t, u) = StageIn(s, u)
          /\ \/ StageIn(s, o) = StageIn(t, o)
             \/ StageIn(s, o) = "due" /\ StageIn(t, o) = "sent"
             \/ StageIn(s, o) \in {"sent", "held"} /\ StageIn(t, o) = "due"
             \/ StageIn(s, o) = "sent" /\ StageIn(t, o) = "held"
             \/ StageIn(s, o) = "held" /\ StageIn(t, o) = "sent"
      BY <2>2, <3>1, <3>2, RewriteMoves
    <3>4. f = e /\ d = [c EXCEPT ![o] = d[o]]
      BY <2>4, <2>6, <3>3
    <3>5. \/ d = c
          \/ c[o] \in {"due"} /\ d = [c EXCEPT ![o] = "sent"]
          \/ c[o] \in {"sent", "held"} /\ d = [c EXCEPT ![o] = "due"]
          \/ c[o] \in {"sent"} /\ d = [c EXCEPT ![o] = "held"]
          \/ c[o] \in {"held"} /\ d = [c EXCEPT ![o] = "sent"]
      BY <2>4, <3>3, <3>4
    <3> QED
      BY <2>5, <2>7, <3>4, <3>5
         DEF NoticeCycles!Next, NoticeCycles!vars, NoticeCycles!Send, NoticeCycles!Reopen,
             NoticeCycles!Hold, NoticeCycles!Release, NoticeCycles!Move
  <2>12. CASE Deletes
    <3>1. PICK i \in LiveIn(s) : t = [s EXCEPT ![i] = [life |-> "deleted", rows |-> NoRows]]
      BY <2>1, <2>12 DEF Deletes
    <3>2. LiveIn(t) = LiveIn(s) \ {i}
      BY <2>2, <3>1 DEF LiveIn
    <3>3. e > 0 /\ f = e - 1
      BY <2>2, <2>6, <3>2, LiveCount
    <3>4. d \in [Properties -> {"open", "closed", "due", "sent", "held"}]
      BY <2>2, <2>4, StageIsCycle
    <3> QED
      BY <2>5, <2>7, <3>3, <3>4 DEF NoticeCycles!Next, NoticeCycles!Forget, NoticeCycles!Cycle
  <2> QED
    BY <2>8, <2>9, <2>10, <2>11, <2>12
<1>4. IInv /\ IInv' /\ SInv /\ [Next]_vars => [NoticeCycles!Next]_(NoticeCycles!vars)
  BY <1>3
<1> QED
  BY <1>2, <1>4, Inductive, SerialInductive, PTL DEF Spec, CyclesImplemented, NoticeCycles!Spec
=============================================================================

-------------------------- MODULE SettlementsProofs --------------------------
(***************************************************************************)
(* For every set of agents and editions, wherever requests die and inserts *)
(* fail: Spec => []TypeOK, and, for requests that come one at a time, the  *)
(* three properties of a settlement under edits and payments.              *)
(*                                                                         *)
(* The inductive invariant is what a request relies on between two of its  *)
(* calls (Flight): while an edit deletes, what is live is what it has yet  *)
(* to delete and unpaid, then nothing is live, and what is live while it   *)
(* restores is unpaid and holds all it has restored.                       *)
(***************************************************************************)
EXTENDS Settlements, FiniteSetTheorems, TLAPS

\* Requests come one at a time.
OneAtATime == \E r : Requests = {r}

Unpaid(S) == \A x \in S : ~record[x].paid

\* What a request in flight may rely on when no other request is.
Flight(q) ==
    /\ q.pc # "idle" /\ q.op \in {"create", "update"} => q.edition # None
    /\ q.pc = "insert" => q.op \in {"create", "update"}
    /\ q.pc = "softDelete" => q.todo = Live /\ Unpaid(Live)
    /\ q.pc = "insert" => Live = {}
    /\ q.pc = "restore" => Unpaid(Live) /\ q.existing \ q.todo \subseteq Live
    /\ q.pc = "write" => q.op = "setPaid"

SInv == \A r \in Requests : Flight(request[r])

-----------------------------------------------------------------------------
(* Requests and records keep their types. *)

LEMMA IdleType == Idle \in Request
  BY Zenon DEF Idle, Request

LEMMA IdlePc == Idle.pc = "idle"
  BY SMT DEF Idle

LEMMA RequestFields ==
    ASSUME NEW q \in Request
    PROVE  /\ q.existing \subseteq Records
           /\ q.todo \subseteq Records
           /\ q.edition \in Editions \cup {None}
           /\ q.roster \subseteq Agents
           /\ q.target \in Records \cup {None}
           /\ q.paid \in BOOLEAN
  BY Zenon DEF Request

LEMMA NoRecordType == NoRecord \in RecordDoc
  <1>1. 0 \in 0..Cardinality(Agents)
    BY FS_CardinalityType, SettlementAssumption, SMT
  <1> QED
    BY <1>1, Zenon DEF NoRecord, RecordDoc

LEMMA CopyType ==
    ASSUME NEW d \in RecordDoc, NEW l \in {"live", "deleted"}, NEW p \in BOOLEAN
    PROVE  /\ [d EXCEPT !.life = l, !.paid = p] \in RecordDoc
           /\ [d EXCEPT !.life = l, !.paid = p].life = l
           /\ [d EXCEPT !.life = l, !.paid = p].paid = p
           /\ [d EXCEPT !.life = l, !.paid = p].total = d.total
  BY Zenon DEF RecordDoc

LEMMA InsertedType ==
    ASSUME TypeOK, NEW r \in Requests, NEW agents, Inserted(r, agents)
    PROVE  record' \in [Records -> RecordDoc]
  <1> DEFINE doc == [life |-> "live", paid |-> FALSE, total |-> Cardinality(request[r].roster)]
  <1>1. request[r].roster \subseteq Agents
    BY RequestFields DEF TypeOK
  <1>2. Cardinality(request[r].roster) \in 0..Cardinality(Agents)
    BY <1>1, FS_Subset, FS_CardinalityType, SettlementAssumption, SMT
  <1>3. doc \in RecordDoc
    BY <1>2, Zenon DEF RecordDoc
  <1> HIDE DEF doc
  <1>4. record' = [x \in Records |-> IF x \in {request[r].edition} \X agents THEN doc ELSE record[x]]
    BY Zenon DEF Inserted, doc
  <1> QED
    BY <1>3, <1>4 DEF TypeOK

LEMMA ContinueType ==
    ASSUME TypeOK, NEW r \in Requests, NEW q \in Request, Continue(r, q)
    PROVE  request' \in [Requests -> Request]
  BY IdleType DEF Continue, TypeOK

\* What each write does to the records, per record.
LEMMA ReplaceNextType ==
    ASSUME TypeOK, NEW r \in Requests, NEW l \in {"live", "deleted"}, NEW then \in {"insert", "idle"},
           ReplaceNext(r, l, then)
    PROVE  TypeOK'
<1> DEFINE q == request[r]
<1>1. q \in Request
  BY DEF TypeOK
<1>2. PICK x \in q.todo :
        /\ record' = [record EXCEPT ![x] = [@ EXCEPT !.life = l, !.paid = FALSE]]
        /\ Continue(r, [q EXCEPT !.todo = q.todo \ {x},
                                 !.pc = IF q.todo \ {x} = {} THEN then ELSE @])
  BY Zenon DEF ReplaceNext
<1>3. x \in Records /\ record[x] \in RecordDoc
  BY <1>1, <1>2, RequestFields DEF TypeOK
<1>4. [record[x] EXCEPT !.life = l, !.paid = FALSE] \in RecordDoc
  BY <1>3, CopyType
<1>5. record' \in [Records -> RecordDoc]
  BY <1>2, <1>4 DEF TypeOK
<1>6. [q EXCEPT !.todo = q.todo \ {x}, !.pc = IF q.todo \ {x} = {} THEN then ELSE @] \in Request
  <2> HIDE DEF q
  <2> QED
    BY <1>1, Zenon DEF Request
<1> QED
  BY <1>2, <1>5, <1>6, ContinueType DEF TypeOK

LEMMA TypeStep ==
    ASSUME TypeOK, NEW r \in Requests, Step(r)
    PROVE  TypeOK'
<1> DEFINE q == request[r]
<1>q. q \in Request
  BY DEF TypeOK
<1>i. ASSUME NEW pc \in {"idle", "softDelete", "insert", "restore", "write"}, NEW todo \in SUBSET Records
      PROVE  [q EXCEPT !.pc = pc] \in Request /\ [q EXCEPT !.pc = pc, !.todo = todo] \in Request
  <2> HIDE DEF q
  <2> QED
    BY <1>q, Zenon DEF Request
<1>l. Live \subseteq Records
  BY DEF Live
<1>1. ASSUME NEW e \in Editions, NEW roster \in SUBSET Agents \ {{}}, CreateSettlementAsync(r, e, roster)
      PROVE  TypeOK'
  <2>1. [Idle EXCEPT !.op = "create", !.pc = "insert", !.edition = e, !.roster = roster] \in Request
    BY IdleType, Zenon DEF Request
  <2> QED
    BY <1>1, <2>1, ContinueType DEF CreateSettlementAsync, TypeOK
<1>2. ASSUME NEW e \in Editions, NEW roster \in SUBSET Agents \ {{}}, UpdateSettlementAsync(r, e, roster)
      PROVE  TypeOK'
  <2>1. [Idle EXCEPT !.op = "update", !.pc = "softDelete", !.existing = Live,
                     !.todo = Live, !.edition = e, !.roster = roster] \in Request
    BY <1>l, IdleType, Zenon DEF Request
  <2> QED
    BY <1>2, <2>1, ContinueType DEF UpdateSettlementAsync, TypeOK
<1>3. CASE DeleteSettlementAsync(r)
  <2>1. [Idle EXCEPT !.op = "delete", !.pc = "softDelete", !.existing = Live, !.todo = Live] \in Request
    BY <1>l, IdleType, Zenon DEF Request
  <2> QED
    BY <1>3, <2>1, ContinueType DEF DeleteSettlementAsync, TypeOK
<1>4. CASE SoftDeleteRecordsAsync(r)
  <2> DEFINE then == IF q.op = "update" THEN "insert" ELSE "idle"
  <2>1. then \in {"insert", "idle"} /\ ReplaceNext(r, "deleted", then)
    BY <1>4 DEF SoftDeleteRecordsAsync
  <2> HIDE DEF then
  <2> QED
    BY <2>1, ReplaceNextType
<1>5. CASE InsertRecords(r)
  BY <1>5, <1>i, InsertedType, ContinueType DEF InsertRecords, TypeOK
<1>6. CASE InsertFails(r)
  <2>1. PICK agents \in SUBSET q.roster : Inserted(r, agents)
    BY <1>6 DEF InsertFails
  <2> DEFINE pc == IF q.op = "update" THEN "restore" ELSE "idle"
  <2>2. Continue(r, [q EXCEPT !.pc = pc, !.todo = q.existing])
    BY <1>6 DEF InsertFails
  <2>3. pc \in {"idle", "softDelete", "insert", "restore", "write"} /\ q.existing \in SUBSET Records
    BY <1>q, RequestFields
  <2> HIDE DEF pc
  <2>4. [q EXCEPT !.pc = pc, !.todo = q.existing] \in Request
    BY <1>i, <2>3
  <2> HIDE DEF q
  <2>5. record' \in [Records -> RecordDoc]
    BY <2>1, InsertedType
  <2> QED
    BY <2>2, <2>4, <2>5, ContinueType DEF TypeOK
<1>7. CASE RestoreRecords(r)
  BY <1>7, ReplaceNextType DEF RestoreRecords
<1>8. ASSUME NEW x \in Records, NEW isPaid \in BOOLEAN, SetPaidAsync(r, x, isPaid)
      PROVE  TypeOK'
  <2>1. [Idle EXCEPT !.op = "setPaid", !.pc = "write", !.target = x, !.paid = isPaid] \in Request
    BY IdleType, Zenon DEF Request
  <2> QED
    BY <1>8, <2>1, ContinueType DEF SetPaidAsync, TypeOK
<1>9. CASE WritePaid(r)
  <2>1. /\ record' = [record EXCEPT ![q.target] = [@ EXCEPT !.life = "live", !.paid = q.paid]]
        /\ Continue(r, [q EXCEPT !.pc = "idle"])
    BY <1>9 DEF WritePaid
  <2>2. q.paid \in BOOLEAN
    BY <1>q, RequestFields
  <2>3. q.target \in Records => [record[q.target] EXCEPT !.life = "live", !.paid = q.paid] \in RecordDoc
    BY <2>2, CopyType DEF TypeOK
  <2>4. record' \in [Records -> RecordDoc]
    BY <2>1, <2>3 DEF TypeOK
  <2> QED
    BY <1>i, <2>1, <2>4, ContinueType DEF TypeOK
<1>10. CASE Abort(r)
  BY <1>10, <1>i, ContinueType DEF Abort, TypeOK
<1> QED
  BY <1>1, <1>2, <1>3, <1>4, <1>5, <1>6, <1>7, <1>8, <1>9, <1>10, Zenon DEF Step

\* Documents and requests in flight keep their types, however requests interleave.
THEOREM TypeCorrect == Spec => []TypeOK
<1>1. Init => TypeOK
  BY NoRecordType, IdleType DEF Init, TypeOK
<1>2. TypeOK /\ [Next]_vars => TypeOK'
  BY TypeStep DEF Next, vars, TypeOK
<1> QED
  BY <1>1, <1>2, PTL DEF Spec

-----------------------------------------------------------------------------
(* One request at a time. *)

\* The request after a step.
LEMMA Continued ==
    ASSUME TypeOK, NEW r \in Requests, NEW q \in Request, Continue(r, q)
    PROVE  request'[r] = IF q.pc = "idle" THEN Idle ELSE q
  BY DEF Continue, TypeOK

\* What has to be shown of a step is what the request relies on after it.
LEMMA FlightAfter ==
    ASSUME NEW r, Requests = {r}, NEW n, request'[r] = n, n.pc # "idle" => Flight(n)'
    PROVE  SInv'
  BY DEF SInv, Flight

LEMMA FlightAtRest ==
    ASSUME NEW r, Requests = {r}, request'[r] = Idle
    PROVE  SInv'
  BY IdlePc, FlightAfter, Zenon

\* A step of ReplaceNext by its effect on the live records.
LEMMA Replaced ==
    ASSUME TypeOK, NEW r \in Requests, NEW l \in {"live", "deleted"}, NEW then \in {"insert", "idle"},
           ReplaceNext(r, l, then)
    PROVE  \E x \in request[r].todo :
              /\ x \in Records
              /\ Live' = IF l = "live" THEN Live \cup {x} ELSE Live \ {x}
              /\ ~record'[x].paid
              /\ \A y \in Records : y # x => record'[y] = record[y]
              /\ request'[r].pc = IF request[r].todo = {x} THEN then ELSE request[r].pc
              /\ IF request'[r].pc = "idle"
                 THEN request'[r] = Idle
                 ELSE /\ request'[r].todo = request[r].todo \ {x}
                      /\ request'[r].existing = request[r].existing
                      /\ request'[r].op = request[r].op
                      /\ request'[r].edition = request[r].edition
<1> DEFINE q == request[r]
<1>1. q \in Request
  BY DEF TypeOK
<1>2. PICK x \in q.todo :
        /\ record' = [record EXCEPT ![x] = [@ EXCEPT !.life = l, !.paid = FALSE]]
        /\ Continue(r, [q EXCEPT !.todo = q.todo \ {x},
                                 !.pc = IF q.todo \ {x} = {} THEN then ELSE @])
  BY Zenon DEF ReplaceNext
<1>3. x \in Records /\ record[x] \in RecordDoc
  BY <1>1, <1>2, RequestFields DEF TypeOK
<1>4. record'[x].life = l /\ record'[x].paid = FALSE
  <2>1. record'[x] = [record[x] EXCEPT !.life = l, !.paid = FALSE]
    BY <1>2, <1>3 DEF TypeOK
  <2>2. [record[x] EXCEPT !.life = l, !.paid = FALSE].life = l
    BY <1>3, Zenon DEF RecordDoc
  <2>3. [record[x] EXCEPT !.life = l, !.paid = FALSE].paid = FALSE
    BY <1>3, Zenon DEF RecordDoc
  <2> QED
    BY <2>1, <2>2, <2>3
<1>5. \A y \in Records : y # x => record'[y] = record[y]
  BY <1>2 DEF TypeOK
<1>6. Live' = IF l = "live" THEN Live \cup {x} ELSE Live \ {x}
  BY <1>3, <1>4, <1>5 DEF Live
<1> DEFINE n == [q EXCEPT !.todo = q.todo \ {x}, !.pc = IF q.todo \ {x} = {} THEN then ELSE @]
<1>7. /\ n \in Request
      /\ n.todo = q.todo \ {x}
      /\ n.pc = IF q.todo \ {x} = {} THEN then ELSE q.pc
      /\ n.existing = q.existing
      /\ n.op = q.op
      /\ n.edition = q.edition
  <2> HIDE DEF q
  <2> QED
    BY <1>1, Zenon DEF Request
<1>8. q.todo \ {x} = {} <=> q.todo = {x}
  BY <1>2
<1> HIDE DEF n
<1>9. request'[r] = IF n.pc = "idle" THEN Idle ELSE n
  BY <1>2, <1>7, Continued DEF n
<1> QED
  BY <1>2, <1>3, <1>4, <1>5, <1>6, <1>7, <1>8, <1>9, IdlePc

LEMMA Inserting ==
    ASSUME TypeOK, NEW r \in Requests, NEW agents \in SUBSET Agents, Inserted(r, agents),
           request[r].edition \in Editions
    PROVE  LET new == {request[r].edition} \X agents
           IN  /\ Live' = Live \cup new
               /\ \A x \in new : /\ ~record'[x].paid
                                 /\ record'[x].total = Cardinality(request[r].roster)
               /\ \A x \in Records \ new : record'[x] = record[x]
<1> DEFINE doc == [life |-> "live", paid |-> FALSE, total |-> Cardinality(request[r].roster)]
<1> DEFINE new == {request[r].edition} \X agents
<1>1. doc.life = "live" /\ ~doc.paid /\ doc.total = Cardinality(request[r].roster)
  BY SMT
<1> HIDE DEF doc
<1>2. record' = [x \in Records |-> IF x \in new THEN doc ELSE record[x]]
  BY Zenon DEF Inserted, doc
<1>3. new \subseteq Records
  BY DEF Records
<1> HIDE DEF new
<1>4. /\ \A x \in new : record'[x] = doc
      /\ \A x \in Records \ new : record'[x] = record[x]
  BY <1>2, <1>3
<1>5. Live' = Live \cup new
  BY <1>1, <1>3, <1>4 DEF Live
<1> QED
  BY <1>1, <1>4, <1>5 DEF new

LEMMA SerialStep ==
    ASSUME TypeOK, SInv, NEW r, Requests = {r}, Step(r)
    PROVE  SInv'
<1> DEFINE q == request[r]
<1>q. r \in Requests /\ q \in Request /\ Flight(q)
  BY DEF TypeOK, SInv
<1>1. ASSUME NEW e \in Editions, NEW roster \in SUBSET Agents \ {{}}, CreateSettlementAsync(r, e, roster)
      PROVE  SInv'
  <2>1. PICK n : n = [Idle EXCEPT !.op = "create", !.pc = "insert", !.edition = e, !.roster = roster]
    OBVIOUS
  <2>2. n \in Request /\ n.pc = "insert" /\ n.op = "create" /\ n.edition = e
    BY <2>1, IdleType, Zenon DEF Request
  <2>3. Continue(r, n) /\ Live = {} /\ UNCHANGED record
    BY <1>1, <2>1 DEF CreateSettlementAsync, Live
  <2>4. request'[r] = n
    BY <1>q, <2>2, <2>3, Continued
  <2>5. Flight(n)'
    BY <2>2, <2>3, SettlementAssumption DEF SettlementAssumption, Flight, Live
  <2> QED
    BY <2>4, <2>5, FlightAfter
<1>2. ASSUME NEW e \in Editions, NEW roster \in SUBSET Agents \ {{}}, UpdateSettlementAsync(r, e, roster)
      PROVE  SInv'
  <2>1. PICK n : n = [Idle EXCEPT !.op = "update", !.pc = "softDelete", !.existing = Live,
                                  !.todo = Live, !.edition = e, !.roster = roster]
    OBVIOUS
  <2>2. n \in Request /\ n.pc = "softDelete" /\ n.todo = Live /\ n.op = "update" /\ n.edition = e
    BY <2>1, IdleType, Zenon DEF Request, Live
  <2>3. Continue(r, n) /\ Unpaid(Live) /\ UNCHANGED record
    BY <1>2, <2>1 DEF UpdateSettlementAsync, GetEditableSettlement, Unpaid
  <2>4. request'[r] = n
    BY <1>q, <2>2, <2>3, Continued
  <2>5. Flight(n)'
    BY <2>2, <2>3, SettlementAssumption DEF SettlementAssumption, Flight, Live, Unpaid
  <2> QED
    BY <2>4, <2>5, FlightAfter
<1>3. CASE DeleteSettlementAsync(r)
  <2>1. PICK n : n = [Idle EXCEPT !.op = "delete", !.pc = "softDelete", !.existing = Live, !.todo = Live]
    OBVIOUS
  <2>2. n \in Request /\ n.pc = "softDelete" /\ n.todo = Live /\ n.op = "delete"
    BY <2>1, IdleType, Zenon DEF Request, Live
  <2>3. Continue(r, n) /\ Unpaid(Live) /\ UNCHANGED record
    BY <1>3, <2>1 DEF DeleteSettlementAsync, GetEditableSettlement, Unpaid
  <2>4. request'[r] = n
    BY <1>q, <2>2, <2>3, Continued
  <2>5. Flight(n)'
    BY <2>2, <2>3 DEF Flight, Live, Unpaid
  <2> QED
    BY <2>4, <2>5, FlightAfter
<1>4. CASE SoftDeleteRecordsAsync(r)
  <2> DEFINE then == IF q.op = "update" THEN "insert" ELSE "idle"
  <2>1. then \in {"insert", "idle"} /\ ReplaceNext(r, "deleted", then) /\ q.pc = "softDelete"
    BY <1>4 DEF SoftDeleteRecordsAsync
  <2> HIDE DEF then
  <2>2. q.todo = Live /\ Unpaid(Live)
    BY <1>q, <2>1 DEF Flight
  <2>3. PICK x \in q.todo :
          /\ Live' = Live \ {x}
          /\ ~record'[x].paid
          /\ \A y \in Records : y # x => record'[y] = record[y]
          /\ request'[r].pc = IF q.todo = {x} THEN then ELSE q.pc
          /\ request'[r].pc # "idle" => /\ request'[r].todo = q.todo \ {x}
                                        /\ request'[r].op = q.op
                                        /\ request'[r].edition = q.edition
    BY <1>q, <2>1, Replaced, Zenon
  <2>4. PICK n : n = request'[r]
    OBVIOUS
  <2>5. n.pc = "softDelete" => n.todo = Live' /\ Unpaid(Live)'
    BY <2>2, <2>3, <2>4 DEF Unpaid, Live
  <2>6. n.pc = "insert" => Live' = {}
    BY <2>1, <2>2, <2>3, <2>4
  <2>7. n.pc \notin {"restore", "write"}
    BY <2>1, <2>3, <2>4
  <2>8. n.pc # "idle" /\ n.op \in {"create", "update"} => n.edition # None
    BY <1>q, <2>1, <2>3, <2>4 DEF Flight
  <2>9. n.pc = "insert" => n.op \in {"create", "update"}
    BY <2>1, <2>3, <2>4 DEF then
  <2> QED
    BY <2>4, <2>5, <2>6, <2>7, <2>8, <2>9, FlightAfter DEF Flight
<1>5. CASE InsertRecords(r)
  <2>1. PICK n : n = [q EXCEPT !.pc = "idle"]
    OBVIOUS
  <2>2. n \in Request /\ n.pc = "idle" /\ Continue(r, n)
    BY <1>5, <1>q, <2>1, Zenon DEF InsertRecords, Request
  <2> QED
    BY <1>q, <2>2, Continued, FlightAtRest
<1>6. CASE InsertFails(r)
  <2>1. PICK agents \in SUBSET q.roster : Inserted(r, agents)
    BY <1>6 DEF InsertFails
  <2>2. PICK n : n = [q EXCEPT !.pc = IF q.op = "update" THEN "restore" ELSE "idle", !.todo = q.existing]
    OBVIOUS
  <2>3. Continue(r, n) /\ q.pc = "insert"
    BY <1>6, <2>2 DEF InsertFails
  <2>4. q.pc = "insert" /\ q.edition \in Editions /\ agents \subseteq Agents /\ Live = {}
    BY <1>q, <2>1, <2>3, RequestFields DEF Flight
  <2>5. /\ n \in Request /\ n.pc \in {"restore", "idle"}
        /\ n.op = q.op /\ n.edition = q.edition /\ n.todo = q.existing /\ n.existing = q.existing
    <3>1. q.existing \in SUBSET Records
      BY <1>q, RequestFields
    <3> DEFINE pc == IF q.op = "update" THEN "restore" ELSE "idle"
    <3>2. pc \in {"restore", "idle"}
      OBVIOUS
    <3>3. n = [q EXCEPT !.pc = pc, !.todo = q.existing]
      BY <2>2
    <3> HIDE DEF q, pc
    <3> QED
      BY <1>q, <3>1, <3>2, <3>3, Zenon DEF Request
  <2>6. request'[r] = IF n.pc = "idle" THEN Idle ELSE n
    BY <1>q, <2>3, <2>5, Continued
  <2>7. Unpaid(Live)'
    <3> HIDE DEF q
    <3>1. Live' = {q.edition} \X agents /\ \A x \in {q.edition} \X agents : ~record'[x].paid
      BY <1>q, <2>1, <2>4, Inserting DEF q
    <3> QED
      BY <3>1 DEF Unpaid, Live
  <2>8. n.pc = "restore" => Flight(n)'
    BY <2>4, <2>5, <2>7, SettlementAssumption DEF Flight, SettlementAssumption
  <2> QED
    BY <2>5, <2>6, <2>8, FlightAfter, FlightAtRest
<1>7. CASE RestoreRecords(r)
  <2>1. ReplaceNext(r, "live", "idle") /\ q.pc = "restore"
    BY <1>7 DEF RestoreRecords
  <2>2. Unpaid(Live) /\ q.existing \ q.todo \subseteq Live
    BY <1>q, <2>1 DEF Flight
  <2>3. PICK x \in q.todo :
          /\ Live' = Live \cup {x}
          /\ ~record'[x].paid
          /\ \A y \in Records : y # x => record'[y] = record[y]
          /\ request'[r].pc = IF q.todo = {x} THEN "idle" ELSE q.pc
          /\ request'[r].pc # "idle" => /\ request'[r].todo = q.todo \ {x}
                                        /\ request'[r].existing = q.existing
                                        /\ request'[r].op = q.op
                                        /\ request'[r].edition = q.edition
    BY <1>q, <2>1, Replaced, Zenon
  <2>4. PICK n : n = request'[r]
    OBVIOUS
  <2>5. Unpaid(Live)'
    BY <2>2, <2>3 DEF Unpaid, Live
  <2>6. n.pc = "restore" => n.existing \ n.todo \subseteq Live'
    BY <2>2, <2>3, <2>4
  <2>7. n.pc \notin {"softDelete", "insert", "write"}
    BY <2>1, <2>3, <2>4
  <2>8. n.pc # "idle" /\ n.op \in {"create", "update"} => n.edition # None
    BY <1>q, <2>1, <2>3, <2>4 DEF Flight
  <2> QED
    BY <2>4, <2>5, <2>6, <2>7, <2>8, FlightAfter DEF Flight
<1>8. ASSUME NEW x \in Records, NEW isPaid \in BOOLEAN, SetPaidAsync(r, x, isPaid)
      PROVE  SInv'
  <2>1. PICK n : n = [Idle EXCEPT !.op = "setPaid", !.pc = "write", !.target = x, !.paid = isPaid]
    OBVIOUS
  <2>2. n \in Request /\ n.pc = "write" /\ n.op = "setPaid"
    BY <2>1, IdleType, Zenon DEF Request
  <2>3. Continue(r, n)
    BY <1>8, <2>1 DEF SetPaidAsync
  <2>4. request'[r] = n
    BY <1>q, <2>2, <2>3, Continued
  <2>5. Flight(n)'
    BY <2>2, <2>3 DEF Flight
  <2> QED
    BY <2>4, <2>5, FlightAfter
<1>9. CASE WritePaid(r) \/ Abort(r)
  <2>1. PICK n : n = [q EXCEPT !.pc = "idle"]
    OBVIOUS
  <2>2. n \in Request /\ n.pc = "idle" /\ Continue(r, n)
    BY <1>9, <1>q, <2>1, Zenon DEF WritePaid, Abort, Request
  <2> QED
    BY <1>q, <2>2, Continued, FlightAtRest
<1> QED
  BY <1>1, <1>2, <1>3, <1>4, <1>5, <1>6, <1>7, <1>8, <1>9, Zenon DEF Step

-----------------------------------------------------------------------------
(* What holds of a settlement. *)

\* With one request at a time, what a request relies on holds between its calls.
THEOREM SerialInductive ==
    ASSUME OneAtATime
    PROVE  Spec => [](TypeOK /\ SInv)
<1> PICK r : Requests = {r}
  BY DEF OneAtATime
<1>1. Init => SInv
  <2>1. Flight(Idle)
    BY IdlePc DEF Flight
  <2> QED
    BY <2>1 DEF Init, SInv
<1>2. TypeOK /\ SInv /\ [Next]_vars => SInv'
  <2>1. CASE Next
    BY <2>1, SerialStep DEF Next
  <2>2. CASE UNCHANGED vars
    BY <2>2 DEF vars, SInv, Flight, Unpaid, Live
  <2> QED
    BY <2>1, <2>2
<1> QED
  BY <1>1, <1>2, TypeCorrect, PTL DEF Spec

\* A step that writes a record that is live and paid is an update of a payment.
LEMMA PaidIsKept ==
    ASSUME TypeOK, SInv, NEW r, Requests = {r}, Step(r),
           NEW x \in Records, record[x].life = "live", record[x].paid
    PROVE  /\ record'[x].life = "live"
           /\ record'[x].paid \/ (request[r].op = "setPaid" /\ request'[r] # request[r])
<1> DEFINE q == request[r]
<1>q. r \in Requests /\ q \in Request /\ Flight(q) /\ x \in Live /\ ~Unpaid(Live)
  BY DEF TypeOK, SInv, Live, Unpaid
<1>1. CASE UNCHANGED record
  BY <1>1
<1>2. CASE SoftDeleteRecordsAsync(r) \/ InsertRecords(r) \/ InsertFails(r) \/ RestoreRecords(r)
  BY <1>2, <1>q DEF Flight, SoftDeleteRecordsAsync, InsertRecords, InsertFails, RestoreRecords
<1>3. CASE WritePaid(r)
  <2>1. /\ q.pc = "write"
        /\ record' = [record EXCEPT ![q.target] = [@ EXCEPT !.life = "live", !.paid = q.paid]]
        /\ Continue(r, [q EXCEPT !.pc = "idle"])
    BY <1>3 DEF WritePaid
  <2>2. record[x] \in RecordDoc /\ q.paid \in BOOLEAN
    BY <1>q, RequestFields DEF TypeOK
  <2>3. record'[x].life = "live"
    <3>1. record'[x] = IF x = q.target THEN [record[x] EXCEPT !.life = "live", !.paid = q.paid]
                                       ELSE record[x]
      BY <2>1 DEF TypeOK
    <3>2. [record[x] EXCEPT !.life = "live", !.paid = q.paid].life = "live"
      BY <2>2, Zenon DEF RecordDoc
    <3> QED
      BY <3>1, <3>2
  <2>4. q.op = "setPaid"
    BY <1>q, <2>1 DEF Flight
  <2>5. request'[r] # q
    <3>1. [q EXCEPT !.pc = "idle"] \in Request /\ [q EXCEPT !.pc = "idle"].pc = "idle"
      <4> HIDE DEF q
      <4> QED
        BY <1>q, Zenon DEF Request
    <3>2. request'[r] = Idle
      BY <1>q, <2>1, <3>1, Continued
    <3> QED
      BY <2>1, <3>2, IdlePc
  <2> QED
    BY <2>3, <2>4, <2>5
<1> QED
  BY <1>1, <1>2, <1>3, Zenon
     DEF Step, CreateSettlementAsync, UpdateSettlementAsync, DeleteSettlementAsync,
         SetPaidAsync, Abort

\* However edits, deletions and failures follow each other, a paid payout stays on
\* record and paid until somebody changes the payment.
THEOREM PaidPayoutsAreKept ==
    ASSUME OneAtATime
    PROVE  Spec => PaidStaysOnRecord
<1>1. TypeOK /\ SInv /\ [Next]_vars =>
        [\A x \in Records :
          record[x].life = "live" /\ record[x].paid
          => /\ record'[x].life = "live"
             /\ record'[x].paid \/ \E r \in Requests :
                    request[r].op = "setPaid" /\ request'[r] # request[r]]_vars
  <2> PICK s : Requests = {s}
    BY DEF OneAtATime
  <2> QED
    BY PaidIsKept DEF Next
<1> QED
  BY <1>1, SerialInductive, PTL DEF Spec, PaidStaysOnRecord

\* An edit that goes through leaves exactly its own edition, with as many payouts as
\* each of them counts, whatever earlier requests left behind when they died.
THEOREM EditsLeaveOneEdition ==
    ASSUME OneAtATime
    PROVE  Spec => EditLeavesItsEdition
<1>1. ASSUME TypeOK, SInv, NEW s \in Requests, request[s].op = "update", request[s].pc = "insert",
             Inserted(s, request[s].roster)
      PROVE  /\ Live' = {request[s].edition} \X request[s].roster
             /\ \A x \in Live' : record'[x].total = Cardinality(Live')
  <2> DEFINE roster == request[s].roster
  <2> DEFINE new == {request[s].edition} \X roster
  <2>1. roster \in SUBSET Agents /\ request[s].edition \in Editions /\ Live = {}
    BY <1>1, RequestFields DEF TypeOK, SInv, Flight
  <2>2. Live' = new /\ \A x \in new : record'[x].total = Cardinality(roster)
    BY <1>1, <2>1, Inserting
  <2>3. IsFiniteSet(roster) /\ Cardinality(roster) \in Nat
    BY <2>1, SettlementAssumption, FS_Subset, FS_CardinalityType DEF SettlementAssumption
  <2>4. IsFiniteSet({request[s].edition}) /\ Cardinality({request[s].edition}) = 1
    BY FS_Singleton
  <2>5. Cardinality(new) = 1 * Cardinality(roster)
    BY <2>3, <2>4, FS_Product
  <2> QED
    BY <2>2, <2>3, <2>5
<1>2. TypeOK /\ SInv =>
        [\A r \in Requests :
          request[r].op = "update" /\ request[r].pc = "insert"
          /\ Inserted(r, request[r].roster) /\ request'[r] = Idle
          => /\ Live' = {request[r].edition} \X request[r].roster
             /\ \A x \in Live' : record'[x].total = Cardinality(Live')]_vars
  BY <1>1
<1> QED
  BY <1>2, SerialInductive, PTL DEF EditLeavesItsEdition

\* An edit whose insert failed, and whose restoration was not cut short, has brought
\* back every record it had deleted.
THEOREM FailedEditsAreUndone ==
    ASSUME OneAtATime
    PROVE  Spec => FailedEditRestores
<1>1. ASSUME NEW r, Requests = {r},
             TypeOK, SInv, Step(r), request[r].pc = "restore", request'[r] = Idle, record' # record
      PROVE  request[r].existing \subseteq Live'
  <2>1. ReplaceNext(r, "live", "idle")
    BY <1>1, Zenon
       DEF Step, CreateSettlementAsync, UpdateSettlementAsync, DeleteSettlementAsync,
           SoftDeleteRecordsAsync, InsertRecords, InsertFails, RestoreRecords, SetPaidAsync,
           WritePaid, Abort
  <2>2. PICK x \in request[r].todo :
          /\ Live' = Live \cup {x}
          /\ request'[r].pc = IF request[r].todo = {x} THEN "idle" ELSE request[r].pc
    <3>1. r \in Requests
      BY <1>1
    <3> QED
      BY <1>1, <2>1, <3>1, Replaced, Zenon
  <2>3. request[r].todo = {x}
    BY <1>1, <2>2, IdlePc
  <2>4. request[r].existing \ request[r].todo \subseteq Live
    BY <1>1 DEF SInv, Flight
  <2> QED
    BY <2>2, <2>3, <2>4
<1>2. TypeOK /\ SInv /\ [Next]_vars =>
        [\A r \in Requests :
          request[r].pc = "restore" /\ request'[r] = Idle /\ record' # record
          => request[r].existing \subseteq Live']_vars
  <2> PICK s : Requests = {s}
    BY DEF OneAtATime
  <2> QED
    BY <1>1 DEF Next
<1> QED
  BY <1>2, SerialInductive, PTL DEF Spec, FailedEditRestores

-----------------------------------------------------------------------------
(* Requests that do not fail. *)

\* The live records are one edition, with as many payouts as each of them counts.
WholeEdition ==
    \/ Live = {}
    \/ \E e \in Editions, roster \in SUBSET Agents :
          /\ Live = {e} \X roster
          /\ \A x \in Live : record[x].total = Cardinality(roster)

\* Only an edit or a deletion under way takes the edition apart, and puts one together.
Between(q) ==
    /\ q.pc # "restore"
    /\ q.pc \in {"idle", "write"} => WholeEdition
    /\ q.pc = "write" => q.target \in Live
    /\ q.pc = "softDelete" => q.op \in {"update", "delete"}

WInv == \A r \in Requests : Between(request[r])

LEMMA WholeStep ==
    ASSUME ~MayFail, TypeOK, SInv, WInv, NEW r, Requests = {r}, Step(r)
    PROVE  WInv'
<1> DEFINE q == request[r]
<1>q. r \in Requests /\ q \in Request /\ Flight(q) /\ Between(q)
  BY DEF TypeOK, SInv, WInv
<1> SUFFICES ASSUME NEW n, n = request'[r]
             PROVE  Between(n)'
  <2>1. PICK n : n = request'[r]
    OBVIOUS
  <2> QED
    BY <2>1 DEF WInv, Between, WholeEdition, Live
<1>1. ASSUME NEW e \in Editions, NEW roster \in SUBSET Agents \ {{}},
             CreateSettlementAsync(r, e, roster) \/ UpdateSettlementAsync(r, e, roster)
      PROVE  n.pc \in {"insert", "softDelete"} /\ (n.pc = "softDelete" => n.op = "update")
  <2>1. ASSUME CreateSettlementAsync(r, e, roster) PROVE n.pc = "insert"
    <3>1. PICK m : m = [Idle EXCEPT !.op = "create", !.pc = "insert", !.edition = e, !.roster = roster]
      OBVIOUS
    <3>2. m \in Request /\ m.pc = "insert"
      BY <3>1, IdleType, Zenon DEF Request
    <3> QED
      BY <1>q, <2>1, <3>1, <3>2, Continued DEF CreateSettlementAsync
  <2>2. ASSUME UpdateSettlementAsync(r, e, roster) PROVE n.pc = "softDelete" /\ n.op = "update"
    <3>1. PICK m : m = [Idle EXCEPT !.op = "update", !.pc = "softDelete", !.existing = Live,
                                    !.todo = Live, !.edition = e, !.roster = roster]
      OBVIOUS
    <3>2. m \in Request /\ m.pc = "softDelete" /\ m.op = "update"
      BY <3>1, IdleType, Zenon DEF Request, Live
    <3> QED
      BY <1>q, <2>2, <3>1, <3>2, Continued DEF UpdateSettlementAsync
  <2> QED
    BY <1>1, <2>1, <2>2
<1>2. CASE DeleteSettlementAsync(r)
  <2>1. PICK m : m = [Idle EXCEPT !.op = "delete", !.pc = "softDelete", !.existing = Live, !.todo = Live]
    OBVIOUS
  <2>2. m \in Request /\ m.pc = "softDelete" /\ m.op = "delete"
    BY <2>1, IdleType, Zenon DEF Request, Live
  <2>3. n = m
    BY <1>2, <1>q, <2>1, <2>2, Continued DEF DeleteSettlementAsync
  <2> QED
    BY <2>2, <2>3 DEF Between
<1>3. CASE SoftDeleteRecordsAsync(r)
  <2> DEFINE then == IF q.op = "update" THEN "insert" ELSE "idle"
  <2>1. then \in {"insert", "idle"} /\ ReplaceNext(r, "deleted", then) /\ q.pc = "softDelete"
    BY <1>3 DEF SoftDeleteRecordsAsync
  <2> HIDE DEF then
  <2>2. q.todo = Live
    BY <1>q, <2>1 DEF Flight
  <2>3. PICK x \in q.todo :
          /\ Live' = Live \ {x}
          /\ n.pc = IF q.todo = {x} THEN then ELSE q.pc
          /\ n.pc # "idle" => n.op = q.op
    BY <1>q, <2>1, Replaced, Zenon
  <2>4. n.pc \in {"insert", "softDelete", "idle"} /\ (n.pc = "idle" => Live' = {})
    BY <2>1, <2>2, <2>3
  <2>5. n.pc = "softDelete" => n.op \in {"update", "delete"}
    BY <1>q, <2>1, <2>3 DEF Between
  <2> QED
    BY <2>4, <2>5 DEF Between, WholeEdition
<1>4. CASE InsertRecords(r)
  <2>1. /\ q.roster \in SUBSET Agents /\ q.edition \in Editions /\ Live = {}
        /\ Inserted(r, q.roster)
    BY <1>4, <1>q, RequestFields DEF InsertRecords, Flight
  <2>2. Live' = {q.edition} \X q.roster /\ \A x \in Live' : record'[x].total = Cardinality(q.roster)
    BY <1>q, <2>1, Inserting
  <2>3. WholeEdition'
    <3> HIDE DEF q
    <3>1. PICK e, roster : e = q.edition /\ roster = q.roster
      OBVIOUS
    <3> QED
      BY <2>1, <2>2, <3>1 DEF WholeEdition
  <2>4. n.pc = "idle"
    <3>1. [q EXCEPT !.pc = "idle"] \in Request /\ [q EXCEPT !.pc = "idle"].pc = "idle"
      <4> HIDE DEF q
      <4> QED
        BY <1>q, Zenon DEF Request
    <3> QED
      BY <1>4, <1>q, <3>1, Continued, IdlePc DEF InsertRecords
  <2> QED
    BY <2>3, <2>4 DEF Between
<1>5. ASSUME NEW x \in Records, NEW isPaid \in BOOLEAN, SetPaidAsync(r, x, isPaid)
      PROVE  Between(n)'
  <2>1. PICK m : m = [Idle EXCEPT !.op = "setPaid", !.pc = "write", !.target = x, !.paid = isPaid]
    OBVIOUS
  <2>2. m \in Request /\ m.pc = "write" /\ m.target = x
    BY <2>1, IdleType, Zenon DEF Request
  <2>3. n = m /\ q.pc = "idle" /\ x \in Live /\ UNCHANGED record
    BY <1>5, <1>q, <2>1, <2>2, Continued DEF SetPaidAsync
  <2> QED
    BY <1>q, <2>2, <2>3 DEF Between, WholeEdition, Live
<1>6. CASE WritePaid(r)
  <2>1. /\ q.pc = "write"
        /\ record' = [record EXCEPT ![q.target] = [@ EXCEPT !.life = "live", !.paid = q.paid]]
        /\ Continue(r, [q EXCEPT !.pc = "idle"])
    BY <1>6 DEF WritePaid
  <2>2. q.target \in Live /\ q.target \in Records /\ WholeEdition /\ q.paid \in BOOLEAN
    BY <1>q, <2>1, RequestFields DEF Between, Live
  <2>3. PICK y : y = q.target
    OBVIOUS
  <2>4. record'[y] = [record[y] EXCEPT !.life = "live", !.paid = q.paid] /\ record[y] \in RecordDoc
    BY <2>1, <2>2, <2>3 DEF TypeOK
  <2>5. record'[y].life = "live" /\ record'[y].total = record[y].total
    <3> HIDE DEF q
    <3>1. /\ [record[y] EXCEPT !.life = "live", !.paid = q.paid].life = "live"
          /\ [record[y] EXCEPT !.life = "live", !.paid = q.paid].total = record[y].total
      BY <2>4, Zenon DEF RecordDoc
    <3> QED
      BY <2>4, <3>1
  <2>6. \A x \in Records : x # y => record'[x] = record[x]
    BY <2>1, <2>3 DEF TypeOK
  <2>7. Live' = Live /\ \A x \in Live : record'[x].total = record[x].total
    BY <2>2, <2>3, <2>5, <2>6 DEF Live
  <2>8. WholeEdition'
    BY <2>2, <2>7 DEF WholeEdition
  <2>9. n.pc = "idle"
    <3>1. [q EXCEPT !.pc = "idle"] \in Request /\ [q EXCEPT !.pc = "idle"].pc = "idle"
      <4> HIDE DEF q
      <4> QED
        BY <1>q, Zenon DEF Request
    <3> QED
      BY <1>q, <2>1, <3>1, Continued, IdlePc
  <2> QED
    BY <2>8, <2>9 DEF Between
<1>7. ~RestoreRecords(r) /\ ~InsertFails(r) /\ ~Abort(r)
  BY <1>q DEF Between, RestoreRecords, InsertFails, Abort
<1>8. (n.pc \in {"insert", "softDelete"} /\ (n.pc = "softDelete" => n.op = "update")) => Between(n)'
  BY DEF Between
<1> QED
  BY <1>1, <1>2, <1>3, <1>4, <1>5, <1>6, <1>7, <1>8, Zenon DEF Step

\* Requests that come to their end, one at a time, leave a settlement as one complete
\* set of payouts, or none: creations, edits, deletions and payments together.
THEOREM SettlementsAreWhole ==
    ASSUME OneAtATime, ~MayFail
    PROVE  Spec => []((\A r \in Requests : request[r].pc = "idle") => WholeEdition)
<1>1. Init => WInv
  <2>1. Init => Live = {}
    BY DEF Init, Live, NoRecord
  <2> QED
    BY <2>1, IdlePc DEF Init, WInv, Between, WholeEdition
<1>2. TypeOK /\ SInv /\ WInv /\ [Next]_vars => WInv'
  <2>1. CASE Next
    BY <2>1, WholeStep DEF Next, OneAtATime
  <2>2. CASE UNCHANGED vars
    BY <2>2 DEF vars, WInv, Between, WholeEdition, Live
  <2> QED
    BY <2>1, <2>2
<1>3. WInv => ((\A r \in Requests : request[r].pc = "idle") => WholeEdition)
  BY DEF WInv, Between, OneAtATime
<1> QED
  BY <1>1, <1>2, <1>3, SerialInductive, PTL DEF Spec
=============================================================================

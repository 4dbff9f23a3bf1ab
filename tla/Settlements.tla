---------------------------- MODULE Settlements ----------------------------
(***************************************************************************)
(* One auction settlement and its payout records (CommissionService.cs).   *)
(* Every query filters by settlement id, so settlements are independent.   *)
(*                                                                         *)
(* An edition is what one BuildSettlementRecordsAsync makes: a record for  *)
(* each agent of its roster.  An edit replaces the live records by a new   *)
(* edition, one database call after another and without a transaction.  A  *)
(* request is a record with the copies it read; an action is the handler   *)
(* up to and including its next call of the database.                      *)
(***************************************************************************)
EXTENDS Integers, FiniteSets, TLC

CONSTANTS
    Agents,     \* ids of agents
    Editions,   \* the editions that may be drawn up, a bound
    Requests,   \* slots for requests in flight; a singleton serialises them
    MayFail,    \* a database call may fail, and a request may die anywhere
    None

ASSUME SettlementAssumption ==
    /\ IsFiniteSet(Agents)
    /\ MayFail \in BOOLEAN
    /\ None \notin Editions

VARIABLES
    record,     \* Records -> payout record
    request     \* Requests -> the request in flight

vars == <<record, request>>

Records == Editions \X Agents

\* total is TotalAgentCount, the size of the roster the record belongs to.
RecordDoc ==
    [life: {"absent", "live", "deleted"}, paid: BOOLEAN, total: 0..Cardinality(Agents)]

NoRecord == [life |-> "absent", paid |-> FALSE, total |-> 0]

(***************************************************************************)
(* existing holds the records an edit or a deletion read, todo the ones it *)
(* has not come to yet; target and paid are those of SetPaidAsync.  A      *)
(* record that is read for an edit or a deletion is unpaid, and total is   *)
(* the only other part of its copy that is written back.                   *)
(***************************************************************************)
Request ==
    [op: {"none", "create", "update", "delete", "setPaid"},
     pc: {"idle", "softDelete", "insert", "restore", "write"},
     existing: SUBSET Records,
     todo: SUBSET Records,
     edition: Editions \cup {None},
     roster: SUBSET Agents,
     target: Records \cup {None},
     paid: BOOLEAN]

Idle ==
    [op |-> "none", pc |-> "idle", existing |-> {}, todo |-> {}, edition |-> None,
     roster |-> {}, target |-> None, paid |-> FALSE]

TypeOK ==
    /\ record \in [Records -> RecordDoc]
    /\ request \in [Requests -> Request]

Init ==
    /\ record = [x \in Records |-> NoRecord]
    /\ request = [r \in Requests |-> Idle]

Continue(r, q) ==
    request' = [request EXCEPT ![r] = IF q.pc = "idle" THEN Idle ELSE q]

\* GetBySettlementIdAsync, and the ids GetByIdAsync finds.
Live == {x \in Records : record[x].life = "live"}

\* An edition nobody has drawn up: its record ids are new.
FreshEdition(e) ==
    /\ \A a \in Agents : record[<<e, a>>].life = "absent"
    /\ \A r \in Requests : request[r].edition # e

\* An edit that forgets to look at payments, as a variant of GetEditableSettlement.
GetAnySettlement == Live # {}

GetEditableSettlement ==
    /\ Live # {}
    /\ \A x \in Live : ~record[x].paid

-----------------------------------------------------------------------------

\* The settlement id is drawn here, so nobody else has records of it.
CreateSettlementAsync(r, e, roster) ==
    /\ request[r].pc = "idle"
    /\ \A x \in Records : record[x].life = "absent"
    /\ \A s \in Requests : request[s].op # "create"
    /\ FreshEdition(e)
    /\ Continue(r, [Idle EXCEPT !.op = "create", !.pc = "insert", !.edition = e, !.roster = roster])
    /\ UNCHANGED record

UpdateSettlementAsync(r, e, roster) ==
    /\ request[r].pc = "idle"
    /\ GetEditableSettlement
    /\ FreshEdition(e)
    /\ Continue(r, [Idle EXCEPT !.op = "update", !.pc = "softDelete", !.existing = Live,
                                !.todo = Live, !.edition = e, !.roster = roster])
    /\ UNCHANGED record

DeleteSettlementAsync(r) ==
    /\ request[r].pc = "idle"
    /\ GetEditableSettlement
    /\ Continue(r, [Idle EXCEPT !.op = "delete", !.pc = "softDelete",
                                !.existing = Live, !.todo = Live])
    /\ UNCHANGED record

\* The next of the records the request read is replaced with its copy, unpaid.
ReplaceNext(r, life, then) ==
    \E x \in request[r].todo :
        LET left == request[r].todo \ {x}
        IN  /\ record' = [record EXCEPT ![x] = [@ EXCEPT !.life = life, !.paid = FALSE]]
            /\ Continue(r, [request[r] EXCEPT !.todo = left,
                                              !.pc = IF left = {} THEN then ELSE @])

\* A deletion that stops at the first record.
SoftDeleteFirstRecord(r) ==
    /\ request[r].pc = "softDelete"
    /\ \E x \in request[r].todo :
        /\ record' = [record EXCEPT ![x] = [@ EXCEPT !.life = "deleted", !.paid = FALSE]]
        /\ Continue(r, [request[r] EXCEPT !.pc = IF request[r].op = "update" THEN "insert" ELSE "idle"])

SoftDeleteRecordsAsync(r) ==
    /\ request[r].pc = "softDelete"
    /\ ReplaceNext(r, "deleted", IF request[r].op = "update" THEN "insert" ELSE "idle")

Inserted(r, agents) ==
    record' = [x \in Records |->
        IF x \in {request[r].edition} \X agents
        THEN [life |-> "live", paid |-> FALSE, total |-> Cardinality(request[r].roster)]
        ELSE record[x]]

\* CreateManyAsync goes through: the edition is on file and the request is done.
InsertRecords(r) ==
    /\ request[r].pc = "insert"
    /\ Inserted(r, request[r].roster)
    /\ Continue(r, [request[r] EXCEPT !.pc = "idle"])

\* CreateManyAsync throws after inserting some of the records.  An edit then
\* restores what it deleted; a creation has nothing to restore.
InsertFails(r) ==
    /\ MayFail
    /\ request[r].pc = "insert"
    /\ \E agents \in SUBSET request[r].roster : Inserted(r, agents)
    /\ Continue(r, [request[r] EXCEPT !.pc = IF request[r].op = "update" THEN "restore" ELSE "idle",
                                      !.todo = request[r].existing])

\* A restoration that stops at the first record.
RestoreFirstRecord(r) ==
    /\ request[r].pc = "restore"
    /\ \E x \in request[r].todo :
        /\ record' = [record EXCEPT ![x] = [@ EXCEPT !.life = "live", !.paid = FALSE]]
        /\ Continue(r, [request[r] EXCEPT !.pc = "idle"])

\* The catch block of UpdateSettlementAsync.
RestoreRecords(r) ==
    /\ request[r].pc = "restore"
    /\ ReplaceNext(r, "live", "idle")

-----------------------------------------------------------------------------

SetPaidAsync(r, x, isPaid) ==
    /\ request[r].pc = "idle"
    /\ x \in Live
    /\ Continue(r, [Idle EXCEPT !.op = "setPaid", !.pc = "write", !.target = x, !.paid = isPaid])
    /\ UNCHANGED record

\* The whole record is replaced with a live copy, whatever became of it.
WritePaid(r) ==
    LET q == request[r]
    IN  /\ q.pc = "write"
        /\ record' = [record EXCEPT ![q.target] = [@ EXCEPT !.life = "live", !.paid = q.paid]]
        /\ Continue(r, [q EXCEPT !.pc = "idle"])

\* The process dies or the request is cancelled: the restoring calls of the catch
\* block use the request's token too and do not run.
Abort(r) ==
    /\ MayFail
    /\ request[r].pc # "idle"
    /\ Continue(r, [request[r] EXCEPT !.pc = "idle"])
    /\ UNCHANGED record

-----------------------------------------------------------------------------

Step(r) ==
    \/ \E e \in Editions, roster \in SUBSET Agents \ {{}} :
            CreateSettlementAsync(r, e, roster) \/ UpdateSettlementAsync(r, e, roster)
    \/ DeleteSettlementAsync(r)
    \/ SoftDeleteRecordsAsync(r)
    \/ InsertRecords(r)
    \/ InsertFails(r)
    \/ RestoreRecords(r)
    \/ \E x \in Records, isPaid \in BOOLEAN : SetPaidAsync(r, x, isPaid)
    \/ WritePaid(r)
    \/ Abort(r)

Next == \E r \in Requests : Step(r)

Spec == Init /\ [][Next]_vars

-----------------------------------------------------------------------------
(* Properties of requests that come one at a time. *)

\* A payout on record as paid stays on record: only an explicit payment update may
\* make it unpaid, and no edit, deletion or restoration takes it away.
PaidStaysOnRecord ==
    [][\A x \in Records :
          record[x].life = "live" /\ record[x].paid
          => /\ record'[x].life = "live"
             /\ record'[x].paid \/ \E r \in Requests :
                    request[r].op = "setPaid" /\ request'[r] # request[r]]_vars

\* Whatever earlier requests that died left behind, an edit that goes through leaves
\* one whole edition, its own: as many live records as their TotalAgentCount says, so
\* that the payouts sum up to what was agreed.
EditLeavesItsEdition ==
    [][\A r \in Requests :
          request[r].op = "update" /\ request[r].pc = "insert"
          /\ Inserted(r, request[r].roster) /\ request'[r] = Idle
          => /\ Live' = {request[r].edition} \X request[r].roster
             /\ \A x \in Live' : record'[x].total = Cardinality(Live')]_vars

\* An edit whose insert failed and whose restoration came to its end has brought
\* back everything it had deleted.
FailedEditRestores ==
    [][\A r \in Requests :
          request[r].pc = "restore" /\ request'[r] = Idle /\ record' # record
          => request[r].existing \subseteq Live']_vars

\* Requests, agents and editions are interchangeable, in every action and property.
Symmetry == Permutations(Requests) \cup Permutations(Agents) \cup Permutations(Editions)
=============================================================================

---------------------------- MODULE DataSyncPage ----------------------------
(***************************************************************************)
(* notices.component.ts, Data Sync: an export is sent, its publication to  *)
(* Google Sheets can be tried again, and every minute the page reads which *)
(* snapshot is the latest and how its publication went.                    *)
(***************************************************************************)
EXTENDS Page

CONSTANT MaxSyncs   \* bound: snapshots in one behaviour

SheetStatus == {"pending", "synced", "failed"}
Snapshot(id, sheet) == [id |-> id, sheet |-> sheet]
Snapshots == [id : 1..MaxSyncs, sheet : SheetStatus]
NoSnapshot == Snapshot(0, "notConfigured")    \* shown after a failed read

Opened ==
    [snapshot |-> None, syncing |-> FALSE, sheetRetrying |-> FALSE,
     error |-> FALSE, success |-> FALSE]

TypeOK ==
    /\ view \in [snapshot : Snapshots \cup {None, NoSnapshot}, syncing : BOOLEAN,
                 sheetRetrying : BOOLEAN, error : BOOLEAN, success : BOOLEAN]
    /\ world \in Snapshots
    /\ \A c \in calls : c.op \in {"snapshot", "sync", "retry"}

Init ==
    /\ view = Opened
    /\ world = Snapshot(1, "synced")
    /\ calls = {Call("snapshot", world)}

\* Another manager's sync.
Others ==
    /\ world.id < MaxSyncs
    /\ world' = Snapshot(world.id + 1, "synced")
    /\ UNCHANGED <<view, calls>>

\* A minute has passed, and the tab is visible; a variant reads only once.
PollsOnce == ~view.syncing /\ ~view.sheetRetrying /\ view.snapshot = None
Polls == ~view.syncing /\ ~view.sheetRetrying
Poll ==
    /\ Polls
    /\ Switch(Call("snapshot", world))
    /\ UNCHANGED <<view, world>>

\* The server answers with what it read at some time since it was asked.
ReceiveSnapshot ==
    \E c \in Under("snapshot") : \E s \in {c.arg, world} :
        /\ Ends(c)
        /\ view' = [view EXCEPT !.snapshot = s]
        /\ UNCHANGED world

FailSnapshot ==
    \E c \in Under("snapshot") :
        /\ Ends(c)
        /\ view' = [view EXCEPT !.snapshot = NoSnapshot]
        /\ UNCHANGED world

-----------------------------------------------------------------------------
\* The snapshot is stored, and then published; a server that dies in between
\* leaves it pending.
StoreSnapshot ==
    \E c \in Under("sync") :
        /\ ~c.seen /\ c.arg = NoSnapshot /\ world.id < MaxSyncs
        /\ world' = Snapshot(world.id + 1, "pending")
        /\ calls' = (calls \ {c}) \cup {[c EXCEPT !.arg = world']}
        /\ UNCHANGED view

Publish ==
    \E c \in Under("sync"), sheet \in {"synced", "failed"} :
        /\ ~c.seen /\ c.arg # NoSnapshot
        /\ calls' = (calls \ {c}) \cup {[c EXCEPT !.arg.sheet = sheet, !.seen = TRUE]}
        /\ world' = IF world.id = c.arg.id THEN [world EXCEPT !.sheet = sheet] ELSE world
        /\ UNCHANGED view

\* "Sync now", "Publish now", "Retry": not while the state shown is pending.
SheetSyncState ==
    IF view.syncing \/ view.sheetRetrying THEN "pending"
    ELSE IF view.snapshot = None THEN "notConfigured" ELSE view.snapshot.sheet
\* The buttons of the template that can be pressed.
Buttons ==
    (IF view.syncing THEN {} ELSE {"sync"})
        \cup IF SheetSyncState \in {"failed", "synced"} /\ view.snapshot.id # 0
             THEN {"retry"} ELSE {}

Sync ==
    /\ "sync" \in Buttons
    /\ view' = [view EXCEPT !.syncing = TRUE, !.error = FALSE, !.success = FALSE]
    /\ Subscribe(Call("sync", NoSnapshot))
    /\ UNCHANGED world

RetryGoogleSheet ==
    /\ "retry" \in Buttons
    /\ view' = [view EXCEPT !.sheetRetrying = TRUE, !.error = FALSE]
    /\ Subscribe(Call("retry", NoSnapshot))
    /\ UNCHANGED world

PublishLatest ==
    \E c \in Under("retry"), sheet \in {"synced", "failed"} :
        /\ ~c.seen
        /\ world' = [world EXCEPT !.sheet = sheet]
        /\ calls' = (calls \ {c}) \cup {[c EXCEPT !.arg = world', !.seen = TRUE]}
        /\ UNCHANGED view

Synced ==
    \E c \in Under("sync") :
        /\ Succeeds(c)
        /\ view' = [view EXCEPT !.snapshot = c.arg, !.syncing = FALSE, !.success = TRUE]
        /\ UNCHANGED world

Retried ==
    \E c \in Under("retry") :
        /\ Succeeds(c)
        /\ view' = [view EXCEPT !.snapshot = c.arg, !.sheetRetrying = FALSE,
                                !.success = @ \/ c.arg.sheet = "synced",
                                !.error = @ \/ c.arg.sheet # "synced"]
        /\ UNCHANGED world

Fail ==
    \E c \in Under("sync") \cup Under("retry") :
        /\ Ends(c)
        /\ view' = [view EXCEPT !.error = TRUE,
                                !.syncing = @ /\ c.op # "sync",
                                !.sheetRetrying = @ /\ c.op # "retry"]
        /\ UNCHANGED world

AnswerSnapshot == ReceiveSnapshot \/ FailSnapshot
AnswerOwn == Synced \/ Retried \/ Fail
Answer == AnswerSnapshot \/ AnswerOwn
Next ==
    \/ Others \/ Poll \/ Sync \/ StoreSnapshot \/ Publish
    \/ RetryGoogleSheet \/ PublishLatest \/ Answer

\* What is shown as under way is under way.
SpinnersTurn ==
    /\ view.syncing => Waiting("sync")
    /\ view.sheetRetrying => Waiting("retry")

\* Late answers may put an older snapshot on screen than the one just synced, but
\* not for good: again and again the page shows the latest, that a read failed, or
\* a request of the user's is under way.
CatchesUp ==
    view.snapshot \in {world, NoSnapshot} \/ view.syncing \/ view.sheetRetrying
=============================================================================

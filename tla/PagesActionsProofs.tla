------------------------- MODULE PagesActionsProofs -------------------------
(***************************************************************************)
(* What a page shows follows its user's actions, what it offers is         *)
(* accepted, and what is shown as under way is under way: for every page,  *)
(* and any number of choices, failures and answers.                        *)
(*                                                                         *)
(* ActionsInv relates what a page holds, and what the requests under way   *)
(* will bring, to the server; TurnsInv each spinner to the request it      *)
(* waits for.  Each page has a part of either, which its own actions keep; *)
(* the last sections put the parts together.                               *)
(***************************************************************************)
EXTENDS PagesProofs

-----------------------------------------------------------------------------
(* What requests leave of each other, one by one.                          *)

\* A request of these kinds was executed or handed out a preview, one of a kind
\* waits for the server.
Seen(ops) == \E c \in calls : c.op \in ops /\ c.seen
Pending(op) == \E c \in calls : c.op = op /\ ~c.seen

\* A request with its question, as it begins.
Asking(x, op, q) == IsCall(x) /\ x.op = op /\ x.arg = q /\ ~x.seen

\* It begins beside those under way.
LEMMA Begins ==
  ASSUME Proper, NEW op, NEW q, calls' = calls \cup {[op |-> op, arg |-> q, seen |-> FALSE]}
  PROVE  /\ Proper'
         /\ \E x \in calls' : /\ Asking(x, op, q)
                              /\ \A d \in calls' : d = x \/ d \in calls
         /\ \A d \in calls : d \in calls'
<1> PICK x : x = [op |-> op, arg |-> q, seen |-> FALSE]
  OBVIOUS
<1>1. Asking(x, op, q)
  BY ZenonT(20) DEF Asking, IsCall
<1>2. x \in calls' /\ (\A d \in calls' : d = x \/ d \in calls) /\ (\A d \in calls : d \in calls')
  BY ZenonT(20)
<1>3. QED
  BY <1>1, <1>2, ZenonT(20) DEF Proper, Asking

\* It takes the place of one that ends.
LEMMA Follows ==
  ASSUME Proper, NEW c \in calls, NEW op, NEW q,
         calls' = (calls \ {c}) \cup {[op |-> op, arg |-> q, seen |-> FALSE]}
  PROVE  /\ Proper'
         /\ \E x \in calls' : /\ Asking(x, op, q)
                              /\ \A d \in calls' : d = x \/ (d \in calls /\ d # c)
         /\ \A d \in calls : d = c \/ d \in calls'
<1> PICK x : x = [op |-> op, arg |-> q, seen |-> FALSE]
  OBVIOUS
<1>1. Asking(x, op, q)
  BY ZenonT(20) DEF Asking, IsCall
<1>2. /\ x \in calls' /\ \A d \in calls' : d = x \/ (d \in calls /\ d # c)
      /\ \A d \in calls : d = c \/ d \in calls'
  BY ZenonT(20)
<1>3. QED
  BY <1>1, <1>2, ZenonT(20) DEF Proper, Asking

\* It is executed, or hands out a preview.
LEMMA Marked ==
  ASSUME Proper, NEW c \in calls, calls' = (calls \ {c}) \cup {[c EXCEPT !.seen = TRUE]}
  PROVE  /\ Proper'
         /\ \E x \in calls' : /\ x.op = c.op /\ x.arg = c.arg /\ x.seen
                              /\ \A d \in calls' : d = x \/ (d \in calls /\ d # c)
         /\ \A d \in calls : d = c \/ d \in calls'
<1> PICK x : x = [c EXCEPT !.seen = TRUE]
  OBVIOUS
<1>1. IsCall(x) /\ x.op = c.op /\ x.arg = c.arg /\ x.seen
  BY ZenonT(20) DEF Proper, IsCall
<1>2. /\ x \in calls' /\ \A d \in calls' : d = x \/ (d \in calls /\ d # c)
      /\ \A d \in calls : d = c \/ d \in calls'
  BY ZenonT(20)
<1>3. QED
  BY <1>1, <1>2, ZenonT(20) DEF Proper

\* The data of the server and those of the last write that was answered.
IsWorld(w) == w \in [now : {w.now}, settled : {w.settled}]

\* The server commits a write, and it is answered.
LEMMA Committed ==
  ASSUME IsWorld(world), NEW data, world' = [world EXCEPT !.now = data]
  PROVE  IsWorld(world') /\ world'.now = data /\ world'.settled = world.settled
BY ZenonT(20) DEF IsWorld

\* The page takes note that its write was answered.
LEMMA Settled ==
  ASSUME IsWorld(world), world' = [world EXCEPT !.settled = world.now]
  PROVE  IsWorld(world') /\ world'.now = world.now /\ world'.settled = world.now
BY ZenonT(20) DEF IsWorld

\* A page that opens with one read.
LEMMA OpensWith ==
  ASSUME NEW op, NEW q, calls = {[op |-> op, arg |-> q, seen |-> FALSE]}
  PROVE  Proper /\ \E x \in calls : Asking(x, op, q) /\ \A d \in calls : d = x
<1> PICK x : x = [op |-> op, arg |-> q, seen |-> FALSE]
  OBVIOUS
<1>1. Asking(x, op, q)
  BY ZenonT(20) DEF Asking, IsCall
<1>2. QED
  BY <1>1, ZenonT(20) DEF Proper, Asking

-----------------------------------------------------------------------------
(* The list of blocks.                                                     *)

\* A change that was executed and not yet answered is followed by a read.
BlocksInv ==
    /\ IsBlocks(view) /\ Proper /\ IsWorld(world)
    /\ view.saving => Asked("save")
    /\ ~view.lost =>
          \/ Seen({"save", "delete"})
          \/ world.settled = world.now /\ (Asked("list") \/ view.blocks = world.now)

\* Opened, the page waits for the list.
LEMMA BlocksInit == BlockList!Init => BlocksInv
<1> SUFFICES ASSUME BlockList!Init PROVE BlocksInv
  OBVIOUS
<1>1. IsBlocks(view) /\ ~view.saving
  BY ZenonT(20) DEF BlockList!Init, BlockList!Opened, IsBlocks
<1>2. IsWorld(world) /\ world.settled = world.now
  <2>1. PICK p : world = [now |-> p, settled |-> p]
    BY ZenonT(20) DEF BlockList!Init
  <2>2. QED
    BY <2>1, ZenonT(20) DEF IsWorld
<1>3. Proper /\ Asked("list")
  BY OpensWith, ZenonT(20) DEF BlockList!Init, BlockList!Call, Asking, Asked
<1>4. QED
  BY <1>1, <1>2, <1>3, ZenonT(20) DEF BlocksInv

\* Every success reads the list, and a failure is reported.
LEMMA BlocksStep ==
  ASSUME BlocksInv, BlockList!Next
  PROVE  BlocksInv'
<1> USE DEF BlockList!Under, BlockList!Ends
<1>0. IsBlocks(view) /\ Proper /\ IsWorld(world)
  BY Zenon DEF BlocksInv
\* The editor and the dialog; a request may begin.
<1>1. ASSUME IsBlocks(view'), view'.blocks = view.blocks, view'.lost = view.lost, Proper',
             world' = world, view'.saving => view.saving \/ Asked("save")', \A c \in calls : c \in calls'
      PROVE  BlocksInv'
  BY <1>0, <1>1, ZenonT(20) DEF BlocksInv, Asked, Seen
<1>2. ASSUME IsBlocks(view'), view'.blocks = view.blocks, view'.lost = view.lost,
             world' = world, view'.saving = view.saving, calls' = calls
      PROVE  BlocksInv'
  BY <1>0, <1>1, <1>2, ZenonT(20) DEF Proper
\* The server executes a change.
<1>3. ASSUME NEW c \in calls, c.op \in {"save", "delete"}, BlockList!Executes(c), view' = view,
             NEW p, BlockList!Commit(p)
      PROVE  BlocksInv'
  <2>1. PICK x \in calls' : x.op = c.op /\ x.seen /\ \A d \in calls' : d = x \/ (d \in calls /\ d # c)
    BY <1>0, <1>3, Marked, ZenonT(20) DEF BlockList!Executes
  <2>2. Proper' /\ \A d \in calls : d = c \/ d \in calls'
    BY <1>0, <1>3, Marked, ZenonT(20) DEF BlockList!Executes
  <2>3. IsWorld(world')
    BY <1>0, <1>3, Committed, ZenonT(20) DEF BlockList!Commit
  <2>4. Seen({"save", "delete"})' /\ (Asked("save") => Asked("save")')
    BY <1>3, <2>1, <2>2, ZenonT(20) DEF Seen, Asked
  <2>5. QED
    BY <1>3, <2>2, <2>3, <2>4, ZenonT(20) DEF BlocksInv
\* It is answered.
<1>4. ASSUME NEW c \in calls, BlockList!Reload(c), IsBlocks(view'),
             view'.saving => view.saving /\ c.op # "save"
      PROVE  BlocksInv'
  <2>1. Proper' /\ Asked("list")' /\ \A d \in calls : d = c \/ d \in calls'
    <3>1. calls' = (calls \ {c}) \cup {[op |-> "list", arg |-> None, seen |-> FALSE]}
      BY <1>4, ZenonT(20) DEF BlockList!Reload, BlockList!Call
    <3>2. Proper' /\ (\E x \in calls' : Asking(x, "list", None)) /\ \A d \in calls : d = c \/ d \in calls'
      BY <1>0, <3>1, Follows, ZenonT(20)
    <3>3. QED
      BY <3>2, ZenonT(20) DEF Asking, Asked
  <2>2. IsWorld(world') /\ world'.settled = world'.now
    BY <1>0, <1>4, Settled, ZenonT(20) DEF BlockList!Reload, BlockList!Settle
  <2>3. view'.saving => Asked("save")'
    BY <1>4, <2>1, ZenonT(20) DEF BlocksInv, Asked
  <2>4. QED
    BY <1>4, <2>1, <2>2, <2>3, ZenonT(20) DEF BlocksInv
\* A request fails.
<1>5. ASSUME NEW c \in calls, calls' = calls \ {c}, IsBlocks(view'), view'.lost, IsWorld(world'),
             view'.saving => view.saving /\ c.op # "save"
      PROVE  BlocksInv'
  <2>1. Proper' /\ (c.op # "save" => (Asked("save")' <=> Asked("save")))
    BY <1>0, <1>5, Ended, ZenonT(20)
  <2>2. QED
    BY <1>5, <2>1, ZenonT(20) DEF BlocksInv
<1>6. CASE BlockList!OpenNew \/ BlockList!Close \/ BlockList!Dismiss
  BY <1>0, <1>2, <1>6, ZenonT(20) DEF BlockList!OpenNew, BlockList!Close, BlockList!Dismiss, IsBlocks
<1>7. ASSUME NEW b, BlockList!Edit(b) \/ BlockList!Remove(b) PROVE BlocksInv'
  BY <1>0, <1>2, <1>7, ZenonT(20) DEF BlockList!Edit, BlockList!Remove, IsBlocks
<1>8. CASE BlockList!Save
  <2>1. IsBlocks(view') /\ view'.blocks = view.blocks /\ view'.lost = view.lost /\ world' = world
    BY <1>0, <1>8, ZenonT(20) DEF BlockList!Save, IsBlocks
  <2>2. Proper' /\ Asked("save")' /\ \A d \in calls : d \in calls'
    BY <1>0, <1>8, Begins, ZenonT(20) DEF BlockList!Save, BlockList!Subscribe, BlockList!Call, Asking, Asked
  <2>3. QED
    BY <1>1, <2>1, <2>2, ZenonT(20)
<1>9. CASE BlockList!Confirm
  <2>1. /\ IsBlocks(view') /\ view'.blocks = view.blocks /\ view'.lost = view.lost /\ world' = world
        /\ view'.saving = view.saving
    BY <1>0, <1>9, ZenonT(20) DEF BlockList!Confirm, IsBlocks
  <2>2. Proper' /\ \A d \in calls : d \in calls'
    BY <1>0, <1>9, Begins, ZenonT(20) DEF BlockList!Confirm, BlockList!Subscribe, BlockList!Call
  <2>3. QED
    BY <1>1, <2>1, <2>2, ZenonT(20)
<1>10. CASE BlockList!StoreBlock
  BY <1>3, <1>10, ZenonT(20) DEF BlockList!StoreBlock
<1>11. CASE BlockList!StoreDelete
  BY <1>3, <1>11, ZenonT(20) DEF BlockList!StoreDelete
<1>12. CASE BlockList!ReceiveList
  <2> PICK c \in calls, p \in {world.now, world.settled} :
           /\ c.op = "list" /\ calls' = calls \ {c} /\ world' = world
           /\ view' = [view EXCEPT !.blocks = p]
    BY <1>12, ZenonT(20) DEF BlockList!ReceiveList, BlockList!Fresh
  <2>1. IsBlocks(view') /\ view'.saving = view.saving /\ view'.lost = view.lost /\ view'.blocks = p
    BY <1>0, ZenonT(20) DEF IsBlocks
  <2>2. Proper' /\ \A d \in calls : d.op = "list" \/ d \in calls'
    BY <1>0, Ended, ZenonT(20)
  <2>3. (Asked("save") => Asked("save")') /\ (Seen({"save", "delete"}) => Seen({"save", "delete"})')
    BY <2>2, ZenonT(20) DEF Asked, Seen
  <2>4. QED
    BY <1>0, <2>1, <2>2, <2>3, ZenonT(20) DEF BlocksInv
<1>13. CASE BlockList!FailList
  BY <1>0, <1>5, <1>13, ZenonT(20) DEF BlockList!FailList, IsBlocks
<1>14. CASE BlockList!Saved
  <2> PICK c \in calls : /\ c.op = "save" /\ BlockList!Reload(c)
                         /\ view' = [view EXCEPT !.saving = FALSE, !.editing = FALSE]
    BY <1>14, ZenonT(20) DEF BlockList!Saved
  <2>1. IsBlocks(view') /\ ~view'.saving
    BY <1>0, ZenonT(20) DEF IsBlocks
  <2>2. QED
    BY <1>4, <2>1, ZenonT(20)
<1>15. CASE BlockList!Removed
  BY <1>0, <1>4, <1>15, ZenonT(20) DEF BlockList!Removed
<1>16. CASE BlockList!NotSaved \/ BlockList!NotRemoved
  <2> PICK c \in calls : /\ calls' = calls \ {c} /\ BlockList!Settle
                         /\ \/ c.op = "save" /\ view' = [view EXCEPT !.saving = FALSE, !.lost = TRUE]
                            \/ c.op = "delete" /\ view' = [view EXCEPT !.lost = TRUE]
    BY <1>16, ZenonT(20) DEF BlockList!NotSaved, BlockList!NotRemoved
  <2>1. IsBlocks(view') /\ view'.lost /\ (view'.saving => view.saving /\ c.op # "save")
    BY <1>0, ZenonT(20) DEF IsBlocks
  <2>2. IsWorld(world')
    BY <1>0, Settled, ZenonT(20) DEF BlockList!Settle
  <2>3. QED
    BY <1>5, <2>1, <2>2, ZenonT(20)
<1>17. QED
  BY <1>6, <1>7, <1>8, <1>9, <1>10, <1>11, <1>12, <1>13, <1>14, <1>15, <1>16, Zenon
     DEF BlockList!Next, BlockList!Answer

\* Hence the list follows the changes.
LEMMA BlocksFollow == BlocksInv => BlockList!ListFollowsActions /\ BlockList!SpinnersTurn
BY ZenonT(20)
   DEF BlocksInv, BlockList!ListFollowsActions, BlockList!SpinnersTurn, BlockList!Waiting, BlockList!Under,
       Asked, Seen

-----------------------------------------------------------------------------
(* The eviction queue.                                                     *)

IsQueue(v) ==
    v \in [queue : {v.queue}, queueLoading : BOOLEAN, loadError : BOOLEAN, holding : {v.holding},
           dialog : {v.dialog}, evicting : {v.evicting}, lost : BOOLEAN]

\* A hold or an eviction that was executed and not yet answered is followed by a
\* read.
QueueInv ==
    /\ IsQueue(view) /\ Proper /\ IsWorld(world)
    /\ view.queueLoading => Asked("queue")
    /\ view.holding # None => Asked("hold")
    /\ view.evicting # None => Asked("evict")
    /\ ~view.lost =>
          \/ Seen({"hold", "evict"})
          \/ /\ world.settled = world.now
             /\ Asked("queue") \/ view.loadError \/ view.queue = world.now

\* Opened, the page waits for the queue.
LEMMA QueueInit == Queue!Init => QueueInv
<1> SUFFICES ASSUME Queue!Init PROVE QueueInv
  OBVIOUS
<1>1. IsQueue(view) /\ view.holding = None /\ view.evicting = None
  BY ZenonT(20) DEF Queue!Init, Queue!Opened, IsQueue
<1>2. IsWorld(world) /\ world.settled = world.now
  <2>1. PICK q : world = [now |-> q, settled |-> q]
    BY ZenonT(20) DEF Queue!Init
  <2>2. QED
    BY <2>1, ZenonT(20) DEF IsWorld
<1>3. Proper /\ Asked("queue")
  BY OpensWith, ZenonT(20) DEF Queue!Init, Queue!Call, Asking, Asked
<1>4. QED
  BY <1>1, <1>2, <1>3, ZenonT(20) DEF QueueInv

\* Every success reads the queue, and a failure is reported.
LEMMA QueueStep ==
  ASSUME QueueInv, Queue!Next
  PROVE  QueueInv'
<1> USE DEF Queue!Under, Queue!Ends
<1>0. IsQueue(view) /\ Proper /\ IsWorld(world)
  BY Zenon DEF QueueInv
\* A request may begin.
<1>1. ASSUME IsQueue(view'), view'.queue = view.queue, view'.lost = view.lost, Proper',
             view'.queueLoading = view.queueLoading, view'.loadError = view.loadError, world' = world,
             view'.holding # None => view.holding # None \/ Asked("hold")',
             view'.evicting # None => view.evicting # None \/ Asked("evict")',
             \A c \in calls : c \in calls'
      PROVE  QueueInv'
  BY <1>0, <1>1, ZenonT(20) DEF QueueInv, Asked, Seen
\* The server executes a hold or an eviction.
<1>2. ASSUME NEW c \in calls, c.op \in {"hold", "evict"}, Queue!Executes(c), view' = view,
             NEW p, Queue!Commit(p)
      PROVE  QueueInv'
  <2>1. calls' = (calls \ {c}) \cup {[c EXCEPT !.seen = TRUE]}
    BY <1>2, ZenonT(20) DEF Queue!Executes
  <2>2. PICK x \in calls' : x.op = c.op /\ x.seen /\ \A d \in calls' : d = x \/ (d \in calls /\ d # c)
    BY <1>0, <2>1, Marked, ZenonT(20)
  <2>3. Proper' /\ \A d \in calls : d = c \/ d \in calls'
    BY <1>0, <2>1, Marked, ZenonT(20)
  <2>4. IsWorld(world')
    BY <1>0, <1>2, Committed, ZenonT(20) DEF Queue!Commit
  <2>5. Seen({"hold", "evict"})' /\ \A op : Asked(op) => Asked(op)'
    BY <1>2, <2>2, <2>3, ZenonT(20) DEF Seen, Asked
  <2>6. QED
    BY <1>2, <2>3, <2>4, <2>5, ZenonT(20) DEF QueueInv
\* It is answered.
<1>3. ASSUME NEW c \in calls, Queue!Reload(c), IsQueue(view'),
             view'.holding # None => view.holding # None /\ c.op # "hold",
             view'.evicting # None => view.evicting # None /\ c.op # "evict"
      PROVE  QueueInv'
  <2> PICK x : x = [op |-> "queue", arg |-> None, seen |-> FALSE]
    OBVIOUS
  <2>1. IsCall(x) /\ x.op = "queue"
    BY ZenonT(20) DEF IsCall
  <2>2. /\ x \in calls' /\ \A d \in calls' : d = x \/ d \in calls
        /\ \A d \in calls : d = c \/ d.op = "queue" \/ d \in calls'
    BY <1>3, ZenonT(20) DEF Queue!Reload, Queue!Call
  <2>3. Proper' /\ Asked("queue")'
    BY <1>0, <2>1, <2>2, ZenonT(20) DEF Proper, Asked
  <2>4. /\ view'.holding # None => Asked("hold")'
        /\ view'.evicting # None => Asked("evict")'
    BY <1>3, <2>2, ZenonT(20) DEF QueueInv, Asked
  <2>5. IsWorld(world') /\ world'.settled = world'.now
    BY <1>0, <1>3, Settled, ZenonT(20) DEF Queue!Reload, Queue!Settle
  <2>6. QED
    BY <1>3, <2>3, <2>4, <2>5, ZenonT(20) DEF QueueInv
\* It fails.
<1>4. ASSUME NEW c \in calls, calls' = calls \ {c}, IsQueue(view'), view'.lost, IsWorld(world'),
             view'.queueLoading => view.queueLoading /\ c.op # "queue",
             view'.holding # None => view.holding # None /\ c.op # "hold",
             view'.evicting # None => view.evicting # None /\ c.op # "evict"
      PROVE  QueueInv'
  <2>1. Proper' /\ \A op : c.op # op => (Asked(op)' <=> Asked(op))
    BY <1>0, <1>4, Ended, ZenonT(20)
  <2>2. QED
    BY <1>4, <2>1, ZenonT(20) DEF QueueInv
<1>5. ASSUME NEW i, Queue!Tick(i) PROVE QueueInv'
  <2>1. PICK now, settled : world' = [now |-> now, settled |-> settled] /\ now = Queue!Become(world.now, i)
                            /\ settled = Queue!Become(world.settled, i)
    BY <1>5, ZenonT(20) DEF Queue!Tick
  <2>2. IsWorld(world') /\ world'.now = Queue!Become(world.now, i) /\ world'.settled = Queue!Become(world.settled, i)
    BY <2>1, ZenonT(20) DEF IsWorld
  <2>3. /\ IsQueue(view') /\ view'.queue = Queue!Become(view.queue, i) /\ view'.lost = view.lost
        /\ view'.queueLoading = view.queueLoading /\ view'.loadError = view.loadError
        /\ view'.holding = view.holding /\ view'.evicting = view.evicting
    BY <1>0, <1>5, ZenonT(20) DEF Queue!Tick, IsQueue
  <2>4. calls' = calls
    BY <1>5, ZenonT(20) DEF Queue!Tick
  <2>5. QED
    BY <1>0, <2>2, <2>3, <2>4, ZenonT(20) DEF QueueInv, Asked, Seen, Proper
<1>6. CASE Queue!RetryLoad
  <2>1. /\ IsQueue(view') /\ view'.lost = view.lost /\ world' = world
        /\ view'.holding = view.holding /\ view'.evicting = view.evicting
    BY <1>0, <1>6, ZenonT(20) DEF Queue!RetryLoad, IsQueue
  <2> PICK x : x = [op |-> "queue", arg |-> None, seen |-> FALSE]
    OBVIOUS
  <2>2. IsCall(x) /\ x.op = "queue"
    BY ZenonT(20) DEF IsCall
  <2>3. calls' = (calls \ {d \in calls : d.op = x.op}) \cup {x}
    BY <1>6, ZenonT(20) DEF Queue!RetryLoad, Queue!Switch, Queue!Call
  <2>4. x \in calls' /\ (\A d \in calls' : d = x \/ d \in calls) /\ \A d \in calls : d.op = "queue" \/ d \in calls'
    BY <2>2, <2>3, ZenonT(20)
  <2>5. Proper' /\ Asked("queue")'
    BY <1>0, <2>2, <2>4, ZenonT(20) DEF Proper, Asked
  <2>6. /\ Asked("hold") => Asked("hold")'
        /\ Asked("evict") => Asked("evict")'
        /\ Seen({"hold", "evict"}) => Seen({"hold", "evict"})'
    BY <2>4, ZenonT(20) DEF Asked, Seen
  <2>7. QED
    BY <1>0, <2>1, <2>5, <2>6, ZenonT(20) DEF QueueInv
<1>7. CASE Queue!ReceiveQueue
  <2> PICK c \in calls, q \in {world.now, world.settled} :
           /\ c.op = "queue" /\ calls' = calls \ {c} /\ world' = world
           /\ view' = [view EXCEPT !.queue = q, !.queueLoading = FALSE]
    BY <1>7, ZenonT(20) DEF Queue!ReceiveQueue, Queue!Fresh
  <2>1. /\ IsQueue(view') /\ ~view'.queueLoading /\ view'.lost = view.lost /\ view'.queue = q
        /\ view'.holding = view.holding /\ view'.evicting = view.evicting
    BY <1>0, ZenonT(20) DEF IsQueue
  <2>2. Proper' /\ \A d \in calls : d.op = "queue" \/ d \in calls'
    BY <1>0, Ended, ZenonT(20)
  <2>3. /\ Asked("hold") => Asked("hold")'
        /\ Asked("evict") => Asked("evict")'
        /\ Seen({"hold", "evict"}) => Seen({"hold", "evict"})'
    BY <2>2, ZenonT(20) DEF Asked, Seen
  <2>4. QED
    BY <1>0, <2>1, <2>2, <2>3, ZenonT(20) DEF QueueInv
<1>8. CASE Queue!FailQueue
  <2> PICK c \in calls : /\ c.op = "queue" /\ calls' = calls \ {c} /\ world' = world
                         /\ view' = [view EXCEPT !.queueLoading = FALSE, !.loadError = TRUE]
    BY <1>8, ZenonT(20) DEF Queue!FailQueue
  <2>1. /\ IsQueue(view') /\ ~view'.queueLoading /\ view'.lost = view.lost /\ view'.loadError
        /\ view'.holding = view.holding /\ view'.evicting = view.evicting
    BY <1>0, ZenonT(20) DEF IsQueue
  <2>2. Proper' /\ \A d \in calls : d.op = "queue" \/ d \in calls'
    BY <1>0, Ended, ZenonT(20)
  <2>3. /\ Asked("hold") => Asked("hold")'
        /\ Asked("evict") => Asked("evict")'
        /\ Seen({"hold", "evict"}) => Seen({"hold", "evict"})'
    BY <2>2, ZenonT(20) DEF Asked, Seen
  <2>4. QED
    BY <1>0, <2>1, <2>2, <2>3, ZenonT(20) DEF QueueInv
<1>9. ASSUME NEW i, Queue!SetEvictionHold(i) PROVE QueueInv'
  <2>1. /\ IsQueue(view') /\ view'.queue = view.queue /\ view'.lost = view.lost /\ world' = world
        /\ view'.queueLoading = view.queueLoading /\ view'.loadError = view.loadError
        /\ view'.evicting = view.evicting
    BY <1>0, <1>9, ZenonT(20) DEF Queue!SetEvictionHold, IsQueue
  <2>2. PICK q : calls' = calls \cup {[op |-> "hold", arg |-> q, seen |-> FALSE]}
    BY <1>9, ZenonT(20) DEF Queue!SetEvictionHold, Queue!Subscribe, Queue!Call
  <2>3. Proper' /\ (\E x \in calls' : Asking(x, "hold", q)) /\ \A d \in calls : d \in calls'
    BY <1>0, <2>2, Begins, ZenonT(20)
  <2>4. QED
    BY <1>1, <2>1, <2>3, ZenonT(20) DEF Asking, Asked
<1>10. CASE Queue!Confirm
  <2>1. /\ IsQueue(view') /\ view'.queue = view.queue /\ view'.lost = view.lost /\ world' = world
        /\ view'.queueLoading = view.queueLoading /\ view'.loadError = view.loadError
        /\ view'.holding = view.holding
    BY <1>0, <1>10, ZenonT(20) DEF Queue!Confirm, IsQueue
  <2>2. PICK q : calls' = calls \cup {[op |-> "evict", arg |-> q, seen |-> FALSE]}
    BY <1>10, ZenonT(20) DEF Queue!Confirm, Queue!Subscribe, Queue!Call
  <2>3. Proper' /\ (\E x \in calls' : Asking(x, "evict", q)) /\ \A d \in calls : d \in calls'
    BY <1>0, <2>2, Begins, ZenonT(20)
  <2>4. QED
    BY <1>1, <2>1, <2>3, ZenonT(20) DEF Asking, Asked
<1>11. ASSUME NEW i, Queue!Evict(i) \/ Queue!Dismiss PROVE QueueInv'
  <2>1. /\ IsQueue(view') /\ view'.queue = view.queue /\ view'.lost = view.lost /\ world' = world
        /\ view'.queueLoading = view.queueLoading /\ view'.loadError = view.loadError
        /\ view'.holding = view.holding /\ view'.evicting = view.evicting
    BY <1>0, <1>11, ZenonT(20) DEF Queue!Evict, Queue!Dismiss, IsQueue
  <2>2. calls' = calls
    BY <1>11, ZenonT(20) DEF Queue!Evict, Queue!Dismiss
  <2>3. QED
    BY <1>0, <1>1, <2>1, <2>2, ZenonT(20) DEF Proper
<1>12. CASE Queue!StoreHold
  BY <1>2, <1>12, ZenonT(20) DEF Queue!StoreHold
<1>13. CASE Queue!EvictTenant
  BY <1>2, <1>13, ZenonT(20) DEF Queue!EvictTenant
<1>14. CASE Queue!Held
  <2> PICK c \in calls : /\ c.op = "hold" /\ Queue!Reload(c)
                         /\ view' = [view EXCEPT !.holding = None, !.loadError = FALSE, !.queueLoading = TRUE]
    BY <1>14, ZenonT(20) DEF Queue!Held
  <2>1. IsQueue(view') /\ view'.holding = None /\ view'.evicting = view.evicting
    BY <1>0, ZenonT(20) DEF IsQueue
  <2>2. QED
    BY <1>3, <2>1, ZenonT(20)
<1>15. CASE Queue!Evicted
  <2> PICK c \in calls : /\ c.op = "evict" /\ Queue!Reload(c)
                         /\ view' = [view EXCEPT !.evicting = None, !.loadError = FALSE, !.queueLoading = TRUE]
    BY <1>15, ZenonT(20) DEF Queue!Evicted
  <2>1. IsQueue(view') /\ view'.evicting = None /\ view'.holding = view.holding
    BY <1>0, ZenonT(20) DEF IsQueue
  <2>2. QED
    BY <1>3, <2>1, ZenonT(20)
<1>16. CASE Queue!NotHeld \/ Queue!NotEvicted
  <2> PICK c \in calls : /\ calls' = calls \ {c} /\ Queue!Settle
                         /\ \/ c.op = "hold" /\ view' = [view EXCEPT !.holding = None, !.lost = TRUE]
                            \/ c.op = "evict" /\ view' = [view EXCEPT !.evicting = None, !.lost = TRUE]
    BY <1>16, ZenonT(20) DEF Queue!NotHeld, Queue!NotEvicted
  <2>1. /\ IsQueue(view') /\ view'.lost /\ view'.queueLoading = view.queueLoading
        /\ c.op = "hold" => view'.holding = None /\ view'.evicting = view.evicting
        /\ c.op = "evict" => view'.evicting = None /\ view'.holding = view.holding
        /\ c.op \in {"hold", "evict"}
    BY <1>0, ZenonT(20) DEF IsQueue
  <2>2. IsWorld(world')
    BY <1>0, Settled, ZenonT(20) DEF Queue!Settle
  <2>3. QED
    BY <1>4, <2>1, <2>2, ZenonT(20)
<1>17. QED
  BY <1>5, <1>6, <1>7, <1>8, <1>9, <1>10, <1>11, <1>12, <1>13, <1>14, <1>15, <1>16, Zenon
     DEF Queue!Next, Queue!Answer

\* Hence the queue follows the holds and evictions.
LEMMA QueueFollows == QueueInv => Queue!QueueFollowsActions /\ Queue!SpinnersTurn
BY ZenonT(20)
   DEF QueueInv, Queue!QueueFollowsActions, Queue!SpinnersTurn, Queue!Waiting, Queue!Under, Asked, Seen

-----------------------------------------------------------------------------
(* The applications and the switch that opens recruitment.                 *)

IsRecruitment(v) ==
    v \in [status : {v.status}, listed : {v.listed}, recruitmentEnabled : {v.recruitmentEnabled},
           savingSettings : BOOLEAN, dialog : {v.dialog}, known : {v.known}, guessed : BOOLEAN,
           lost : BOOLEAN]
IsSetting(r) == r \in [status : {r.status}, enabled : {r.enabled}]

RecruitmentShape ==
    /\ IsRecruitment(view) /\ Proper /\ IsWorld(world)
    /\ IsSetting(world.now) /\ IsSetting(world.settled)
    /\ Single("toggle") /\ (view.savingSettings <=> Asked("toggle"))

\* A review that was executed and not yet answered is followed by a read.
ReviewsInv ==
    \/ Seen({"review"})
    \/ /\ world.settled.status = world.now.status
       /\ Asked("list") \/ view.listed = (world.now.status = view.status)

\* The answer to the switch brings what the server follows, and without one the
\* read of the settings does, unless both were under way.
SwitchInv ==
    /\ \A c \in calls : c.op = "toggle" /\ c.seen => world.now.enabled = c.arg
    /\ Seen({"toggle"}) \/ world.settled.enabled = world.now.enabled
    /\ ~view.guessed =>
          /\ ~(Asked("settings") /\ Asked("toggle"))
          /\ Asked("toggle") \/ Asked("settings") \/ view.recruitmentEnabled = world.now.enabled

RecruitmentInv == RecruitmentShape /\ (~view.lost => ReviewsInv /\ SwitchInv)

\* Opened, the page waits for both.
LEMMA RecruitmentInit == Recruitment!Init => RecruitmentInv
<1> SUFFICES ASSUME Recruitment!Init PROVE RecruitmentInv
  OBVIOUS
<1>1. IsRecruitment(view) /\ ~view.savingSettings
  <2>1. PICK status : view = Recruitment!Opened(status)
    BY ZenonT(20) DEF Recruitment!Init
  <2>2. QED
    BY <2>1, ZenonT(20) DEF Recruitment!Opened, IsRecruitment
<1>2. IsWorld(world) /\ world.settled = world.now /\ IsSetting(world.now)
  <2>1. PICK r \in Recruitment!Recruitment : world = [now |-> r, settled |-> r]
    BY ZenonT(20) DEF Recruitment!Init
  <2>2. IsSetting(r)
    BY ZenonT(20) DEF Recruitment!Recruitment, IsSetting
  <2>3. QED
    BY <2>1, <2>2, ZenonT(20) DEF IsWorld
<1> PICK x, y : x = Recruitment!Call("list", None) /\ y = Recruitment!Call("settings", None)
  OBVIOUS
<1>3. calls = {x, y}
  BY ZenonT(20) DEF Recruitment!Init
<1>4. IsCall(x) /\ x.op = "list" /\ ~x.seen /\ IsCall(y) /\ y.op = "settings" /\ ~y.seen
  BY ZenonT(20) DEF Recruitment!Call, IsCall
<1>5. Proper /\ Asked("list") /\ Asked("settings") /\ (\A c \in calls : c.op # "toggle" /\ ~c.seen)
  BY <1>3, <1>4, ZenonT(20) DEF Proper, Asked
<1>6. QED
  BY <1>1, <1>2, <1>5, ZenonT(20) DEF RecruitmentInv, RecruitmentShape, ReviewsInv, SwitchInv, Single, Asked

\* The dialog: nothing that matters changes.
LEMMA RecruitmentKept ==
  ASSUME RecruitmentInv, IsRecruitment(view'), view'.status = view.status, view'.listed = view.listed,
         view'.recruitmentEnabled = view.recruitmentEnabled, view'.savingSettings = view.savingSettings,
         view'.guessed = view.guessed, view'.lost = view.lost, world' = world, Proper',
         \A c \in calls : c \in calls',
         \A c \in calls' : c \in calls \/ c.op = "review"
  PROVE  RecruitmentInv'
<1>1. (\A op : op # "review" => (Asked(op)' <=> Asked(op))) /\ (\A op : op # "review" => (Single(op) => Single(op)'))
  BY ZenonT(20) DEF Asked, Single
<1>2. \A ops : Seen(ops) => Seen(ops)'
  BY ZenonT(20) DEF Seen
<1>3. RecruitmentShape'
  BY <1>1, ZenonT(20) DEF RecruitmentInv, RecruitmentShape
<1>4. ReviewsInv => ReviewsInv'
  BY <1>1, <1>2, ZenonT(20) DEF ReviewsInv
<1>5. SwitchInv => SwitchInv'
  BY <1>1, <1>2, ZenonT(20) DEF SwitchInv
<1>6. QED
  BY <1>3, <1>4, <1>5, Zenon DEF RecruitmentInv

\* The answers bring what the server has, and a failure is reported.
LEMMA RecruitmentStep ==
  ASSUME RecruitmentInv, Recruitment!Next
  PROVE  RecruitmentInv'
<1> USE DEF Recruitment!Under, Recruitment!Ends
<1>0. /\ IsRecruitment(view) /\ Proper /\ IsWorld(world) /\ Single("toggle")
      /\ IsSetting(world.now) /\ IsSetting(world.settled) /\ (view.savingSettings <=> Asked("toggle"))
  BY Zenon DEF RecruitmentInv, RecruitmentShape
\* A request fails.
<1>1. ASSUME NEW c \in calls, calls' = calls \ {c}, IsRecruitment(view'), view'.lost,
             world' = world \/ Recruitment!Settle,
             view'.savingSettings <=> view.savingSettings /\ c.op # "toggle"
      PROVE  RecruitmentInv'
  <2>1. /\ Proper' /\ Single("toggle")' /\ (c.op = "toggle" => ~Asked("toggle")')
        /\ (c.op # "toggle" => (Asked("toggle")' <=> Asked("toggle")))
    BY <1>0, <1>1, Ended, ZenonT(20)
  <2>2. IsWorld(world') /\ IsSetting(world'.now) /\ IsSetting(world'.settled)
    BY <1>0, <1>1, Settled, ZenonT(20) DEF Recruitment!Settle
  <2>3. QED
    BY <1>0, <1>1, <2>1, <2>2, ZenonT(20) DEF RecruitmentInv, RecruitmentShape
\* A read is answered.
<1>2. ASSUME NEW c \in calls, calls' = calls \ {c}, c.op \in {"list", "settings"}, world' = world,
             IsRecruitment(view'), view'.savingSettings = view.savingSettings
      PROVE  /\ RecruitmentShape'
             /\ \A op : op # c.op => (Asked(op)' <=> Asked(op))
             /\ \A ops : c.op \notin ops => (Seen(ops)' <=> Seen(ops))
             /\ \A d \in calls' : d \in calls
  <2>1. /\ Proper' /\ Single("toggle")' /\ \A op : op # c.op => (Asked(op)' <=> Asked(op))
    BY <1>0, <1>2, Ended, ZenonT(20)
  <2>2. (\A ops : c.op \notin ops => (Seen(ops)' <=> Seen(ops))) /\ (\A d \in calls' : d \in calls)
    BY <1>2, ZenonT(20) DEF Seen
  <2>3. c.op # "toggle"
    BY <1>2, ZenonT(20)
  <2>4. RecruitmentShape'
    BY <1>0, <1>2, <2>1, <2>3, ZenonT(20) DEF RecruitmentShape
  <2>5. QED
    BY <2>1, <2>2, <2>4, Zenon
<1>3. CASE Recruitment!ReceiveList
  <2> PICK c \in calls, r \in {world.now, world.settled} :
           /\ c.op = "list" /\ calls' = calls \ {c} /\ world' = world
           /\ view' = [view EXCEPT !.listed = r.status = view.status]
    BY <1>3, ZenonT(20) DEF Recruitment!ReceiveList, Recruitment!Fresh
  <2>1. /\ IsRecruitment(view') /\ view'.savingSettings = view.savingSettings /\ view'.lost = view.lost
        /\ view'.recruitmentEnabled = view.recruitmentEnabled /\ view'.guessed = view.guessed
        /\ view'.status = view.status /\ view'.listed = (r.status = view.status)
    BY <1>0, ZenonT(20) DEF IsRecruitment
  <2>2. /\ RecruitmentShape'
        /\ \A op : op # c.op => (Asked(op)' <=> Asked(op))
        /\ \A ops : c.op \notin ops => (Seen(ops)' <=> Seen(ops))
        /\ \A d \in calls' : d \in calls
    BY <1>2, <2>1, ZenonT(20)
  <2>3. /\ Asked("settings")' <=> Asked("settings")
        /\ Asked("toggle")' <=> Asked("toggle")
        /\ Seen({"review"})' <=> Seen({"review"})
        /\ Seen({"toggle"})' <=> Seen({"toggle"})
    BY <2>2, ZenonT(20)
  <2>4. ReviewsInv => ReviewsInv'
    BY <2>1, <2>3, ZenonT(20) DEF ReviewsInv
  <2>5. SwitchInv => SwitchInv'
    BY <2>1, <2>2, <2>3, ZenonT(20) DEF SwitchInv
  <2>6. QED
    BY <2>1, <2>2, <2>4, <2>5, Zenon DEF RecruitmentInv
<1>4. CASE Recruitment!ReceiveSettings
  <2> PICK c \in calls, r \in {world.now, world.settled} :
           /\ c.op = "settings" /\ calls' = calls \ {c} /\ world' = world
           /\ view' = [view EXCEPT !.recruitmentEnabled = r.enabled, !.known = TRUE]
    BY <1>4, ZenonT(20) DEF Recruitment!ReceiveSettings, Recruitment!Fresh
  <2>1. /\ IsRecruitment(view') /\ view'.savingSettings = view.savingSettings /\ view'.lost = view.lost
        /\ view'.recruitmentEnabled = r.enabled /\ view'.guessed = view.guessed
        /\ view'.status = view.status /\ view'.listed = view.listed
    BY <1>0, ZenonT(20) DEF IsRecruitment
  <2>2. /\ RecruitmentShape'
        /\ \A op : op # c.op => (Asked(op)' <=> Asked(op))
        /\ \A ops : c.op \notin ops => (Seen(ops)' <=> Seen(ops))
        /\ \A d \in calls' : d \in calls
    BY <1>2, <2>1, ZenonT(20)
  <2>3. /\ Asked("list")' <=> Asked("list")
        /\ Asked("toggle")' <=> Asked("toggle")
        /\ Seen({"review"})' <=> Seen({"review"})
        /\ Seen({"toggle"})' <=> Seen({"toggle"})
        /\ Asked("settings")' => Asked("settings")
        /\ Asked("settings")
        /\ Seen({"toggle"}) => Asked("toggle")
    BY <2>2, ZenonT(20) DEF Asked, Seen
  <2>4. ReviewsInv => ReviewsInv'
    BY <2>1, <2>3, ZenonT(20) DEF ReviewsInv
  <2>5. SwitchInv => SwitchInv'
    BY <2>1, <2>2, <2>3, ZenonT(20) DEF SwitchInv
  <2>6. QED
    BY <2>1, <2>2, <2>4, <2>5, Zenon DEF RecruitmentInv
<1>5. CASE Recruitment!FailRead
  <2> PICK c \in calls : /\ c.op \in {"list", "settings"} /\ calls' = calls \ {c} /\ world' = world
                         /\ view' = [view EXCEPT !.lost = TRUE]
    BY <1>5, ZenonT(20) DEF Recruitment!FailRead
  <2>1. IsRecruitment(view') /\ view'.lost /\ view'.savingSettings = view.savingSettings /\ c.op # "toggle"
    BY <1>0, ZenonT(20) DEF IsRecruitment
  <2>2. QED
    BY <1>1, <2>1, ZenonT(20)
<1>6. CASE Recruitment!ToggleRecruitment
  <2>1. /\ IsRecruitment(view') /\ view'.savingSettings /\ ~view.savingSettings /\ view'.lost = view.lost
        /\ view'.status = view.status /\ view'.listed = view.listed /\ world' = world
        /\ view'.guessed = (view.guessed \/ Recruitment!Waiting("settings"))
    BY <1>0, <1>6, ZenonT(20) DEF Recruitment!ToggleRecruitment, IsRecruitment
  <2>2. calls' = calls \cup {[op |-> "toggle", arg |-> ~view.recruitmentEnabled, seen |-> FALSE]}
    BY <1>6, ZenonT(20) DEF Recruitment!ToggleRecruitment, Recruitment!Subscribe, Recruitment!Call
  <2>3. PICK x \in calls' : Asking(x, "toggle", ~view.recruitmentEnabled) /\ \A d \in calls' : d = x \/ d \in calls
    BY <1>0, <2>2, Begins, ZenonT(20)
  <2>4. Proper' /\ \A d \in calls : d \in calls'
    BY <1>0, <2>2, Begins, ZenonT(20)
  <2>5. \A d \in calls : d.op # "toggle"
    BY <1>0, <2>1, ZenonT(20) DEF Asked
  <2>6. /\ Single("toggle")' /\ Asked("toggle")'
        /\ Asked("settings")' <=> Asked("settings")
        /\ Asked("list")' <=> Asked("list")
        /\ \A ops : Seen(ops)' <=> Seen(ops)
        /\ ~Seen({"toggle"})
    BY <2>3, <2>4, <2>5, ZenonT(20) DEF Asking, Single, Asked, Seen
  <2>7. Asked("settings") => view'.guessed
    BY <2>1, ZenonT(20) DEF Recruitment!Waiting, Asked
  <2>8. RecruitmentShape'
    BY <1>0, <2>1, <2>4, <2>6, ZenonT(20) DEF RecruitmentShape
  <2>9. ReviewsInv => ReviewsInv'
    BY <2>1, <2>6, ZenonT(20) DEF ReviewsInv
  <2>10. SwitchInv => SwitchInv'
    BY <2>1, <2>3, <2>5, <2>6, <2>7, ZenonT(20) DEF SwitchInv, Asking
  <2>11. QED
    BY <2>1, <2>8, <2>9, <2>10, Zenon DEF RecruitmentInv
<1>7. CASE Recruitment!StoreToggle
  <2> PICK c \in calls : /\ c.op = "toggle" /\ Recruitment!Executes(c) /\ view' = view
                         /\ Recruitment!Commit([world.now EXCEPT !.enabled = c.arg])
    BY <1>7, ZenonT(20) DEF Recruitment!StoreToggle
  <2> PICK r : r = [world.now EXCEPT !.enabled = c.arg]
    OBVIOUS
  <2>1. IsSetting(r) /\ r.enabled = c.arg /\ r.status = world.now.status
    BY <1>0, ZenonT(20) DEF IsSetting
  <2>2. IsWorld(world') /\ world'.now = r /\ world'.settled = world.settled
    BY <1>0, Committed, ZenonT(20) DEF Recruitment!Commit
  <2>3. calls' = (calls \ {c}) \cup {[c EXCEPT !.seen = TRUE]}
    BY ZenonT(20) DEF Recruitment!Executes
  <2>4. PICK x \in calls' : /\ x.op = c.op /\ x.arg = c.arg /\ x.seen
                            /\ \A d \in calls' : d = x \/ (d \in calls /\ d # c)
    BY <1>0, <2>3, Marked, ZenonT(20)
  <2>5. Proper' /\ \A d \in calls : d = c \/ d \in calls'
    BY <1>0, <2>3, Marked, ZenonT(20)
  <2>6. \A d \in calls' : d.op = "toggle" => d = x
    BY <1>0, <2>4, ZenonT(20) DEF Single
  <2>7. /\ Single("toggle")' /\ Asked("toggle") /\ Asked("toggle")' /\ Seen({"toggle"})'
        /\ Asked("settings")' <=> Asked("settings")
        /\ Asked("list")' <=> Asked("list")
        /\ Seen({"review"})' <=> Seen({"review"})
    BY <2>4, <2>5, <2>6, ZenonT(20) DEF Single, Asked, Seen
  <2>8. RecruitmentShape'
    BY <1>0, <2>1, <2>2, <2>5, <2>7, ZenonT(20) DEF RecruitmentShape
  <2>9. ReviewsInv => ReviewsInv'
    BY <2>1, <2>2, <2>7, ZenonT(20) DEF ReviewsInv
  <2>10. SwitchInv => SwitchInv'
    BY <2>1, <2>2, <2>4, <2>6, <2>7, ZenonT(20) DEF SwitchInv
  <2>11. QED
    BY <2>8, <2>9, <2>10, Zenon DEF RecruitmentInv
<1>8. CASE Recruitment!Toggled
  <2> PICK c \in calls : /\ c.op = "toggle" /\ c.seen /\ calls' = calls \ {c} /\ Recruitment!Settle
                         /\ view' = [view EXCEPT !.recruitmentEnabled = c.arg, !.savingSettings = FALSE]
    BY <1>8, ZenonT(20) DEF Recruitment!Toggled, Recruitment!Succeeds
  <2>1. /\ IsRecruitment(view') /\ ~view'.savingSettings /\ view'.lost = view.lost
        /\ view'.status = view.status /\ view'.listed = view.listed /\ view'.guessed = view.guessed
        /\ view'.recruitmentEnabled = c.arg
    BY <1>0, ZenonT(20) DEF IsRecruitment
  <2>2. IsWorld(world') /\ world'.now = world.now /\ world'.settled = world.now
    BY <1>0, Settled, ZenonT(20) DEF Recruitment!Settle
  <2>3. /\ Proper' /\ Single("toggle")' /\ ~Asked("toggle")'
        /\ \A op : op # "toggle" => (Asked(op)' <=> Asked(op))
    BY <1>0, Ended, ZenonT(20)
  <2>4. (Seen({"review"})' <=> Seen({"review"})) /\ (\A d \in calls' : d \in calls)
    BY ZenonT(20) DEF Seen
  <2>5. (Asked("list")' <=> Asked("list")) /\ (\A d \in calls' : d.op # "toggle")
    BY <2>3, ZenonT(20) DEF Asked
  <2>6. RecruitmentShape'
    BY <1>0, <2>1, <2>2, <2>3, ZenonT(20) DEF RecruitmentShape
  <2>7. ReviewsInv => ReviewsInv'
    BY <2>1, <2>2, <2>4, <2>5, ZenonT(20) DEF ReviewsInv
  <2>8. SwitchInv => SwitchInv'
    BY <2>1, <2>2, <2>3, <2>5, ZenonT(20) DEF SwitchInv
  <2>9. QED
    BY <2>1, <2>6, <2>7, <2>8, Zenon DEF RecruitmentInv
<1>9. CASE Recruitment!NotToggled \/ Recruitment!NotReviewed
  <2> PICK c \in calls : /\ calls' = calls \ {c} /\ Recruitment!Settle
                         /\ \/ c.op = "toggle" /\ view' = [view EXCEPT !.savingSettings = FALSE, !.lost = TRUE]
                            \/ c.op = "review" /\ view' = [view EXCEPT !.lost = TRUE]
    BY <1>9, ZenonT(20) DEF Recruitment!NotToggled, Recruitment!NotReviewed
  <2>1. IsRecruitment(view') /\ view'.lost /\ (view'.savingSettings <=> view.savingSettings /\ c.op # "toggle")
    BY <1>0, ZenonT(20) DEF IsRecruitment
  <2>2. QED
    BY <1>1, <2>1, ZenonT(20)
<1>10. ASSUME NEW status, Recruitment!Review(status) \/ Recruitment!Dismiss PROVE RecruitmentInv'
  <2>1. /\ IsRecruitment(view') /\ view'.savingSettings = view.savingSettings /\ view'.lost = view.lost
        /\ view'.recruitmentEnabled = view.recruitmentEnabled /\ view'.guessed = view.guessed
        /\ view'.status = view.status /\ view'.listed = view.listed /\ world' = world
    BY <1>0, <1>10, ZenonT(20) DEF Recruitment!Review, Recruitment!Dismiss, IsRecruitment
  <2>2. calls' = calls
    BY <1>10, ZenonT(20) DEF Recruitment!Review, Recruitment!Dismiss
  <2>3. Proper'
    BY <1>0, <2>2, ZenonT(20) DEF Proper
  <2>4. QED
    BY <2>1, <2>2, <2>3, RecruitmentKept, ZenonT(20)
<1>11. CASE Recruitment!Confirm
  <2>1. /\ IsRecruitment(view') /\ view'.savingSettings = view.savingSettings /\ view'.lost = view.lost
        /\ view'.recruitmentEnabled = view.recruitmentEnabled /\ view'.guessed = view.guessed
        /\ view'.status = view.status /\ view'.listed = view.listed /\ world' = world
    BY <1>0, <1>11, ZenonT(20) DEF Recruitment!Confirm, IsRecruitment
  <2>2. calls' = calls \cup {[op |-> "review", arg |-> view.dialog, seen |-> FALSE]}
    BY <1>11, ZenonT(20) DEF Recruitment!Confirm, Recruitment!Subscribe, Recruitment!Call
  <2>3. /\ Proper' /\ \A d \in calls : d \in calls'
        /\ \E x \in calls' : Asking(x, "review", view.dialog) /\ \A d \in calls' : d = x \/ d \in calls
    BY <1>0, <2>2, Begins, ZenonT(20)
  <2>4. \A d \in calls' : d \in calls \/ d.op = "review"
    BY <2>3, ZenonT(20) DEF Asking
  <2>5. QED
    BY <2>1, <2>3, <2>4, RecruitmentKept, ZenonT(20)
<1>12. CASE Recruitment!StoreReview
  <2> PICK c \in calls : /\ c.op = "review" /\ Recruitment!Executes(c) /\ view' = view
                         /\ Recruitment!Commit([world.now EXCEPT !.status = c.arg])
    BY <1>12, ZenonT(20) DEF Recruitment!StoreReview
  <2> PICK r : r = [world.now EXCEPT !.status = c.arg]
    OBVIOUS
  <2>1. IsSetting(r) /\ r.enabled = world.now.enabled
    BY <1>0, ZenonT(20) DEF IsSetting
  <2>2. IsWorld(world') /\ world'.now = r /\ world'.settled = world.settled
    BY <1>0, Committed, ZenonT(20) DEF Recruitment!Commit
  <2>3. calls' = (calls \ {c}) \cup {[c EXCEPT !.seen = TRUE]}
    BY ZenonT(20) DEF Recruitment!Executes
  <2>4. PICK x \in calls' : /\ x.op = c.op /\ x.arg = c.arg /\ x.seen
                            /\ \A d \in calls' : d = x \/ (d \in calls /\ d # c)
    BY <1>0, <2>3, Marked, ZenonT(20)
  <2>5. Proper' /\ \A d \in calls : d = c \/ d \in calls'
    BY <1>0, <2>3, Marked, ZenonT(20)
  <2>6. /\ Single("toggle")' /\ Seen({"review"})'
        /\ Asked("toggle")' <=> Asked("toggle")
        /\ Asked("settings")' <=> Asked("settings")
        /\ Seen({"toggle"})' <=> Seen({"toggle"})
        /\ \A d \in calls' : d.op = "toggle" => d \in calls
    BY <1>0, <2>4, <2>5, ZenonT(20) DEF Single, Asked, Seen
  <2>7. RecruitmentShape'
    BY <1>0, <2>1, <2>2, <2>5, <2>6, ZenonT(20) DEF RecruitmentShape
  <2>8. ReviewsInv'
    BY <2>6, Zenon DEF ReviewsInv
  <2>9. SwitchInv => SwitchInv'
    BY <2>1, <2>2, <2>6, ZenonT(20) DEF SwitchInv
  <2>10. QED
    BY <2>7, <2>8, <2>9, Zenon DEF RecruitmentInv
<1>13. CASE Recruitment!Reviewed
  <2> PICK c \in calls : /\ c.op = "review" /\ Recruitment!Settle /\ view' = view
                         /\ calls' = (calls \ {c}) \cup {[op |-> "list", arg |-> None, seen |-> FALSE]}
    BY <1>13, ZenonT(20) DEF Recruitment!Reviewed, Recruitment!Call
  <2>1. IsWorld(world') /\ world'.now = world.now /\ world'.settled = world.now
    BY <1>0, Settled, ZenonT(20) DEF Recruitment!Settle
  <2>2. PICK x \in calls' : Asking(x, "list", None) /\ \A d \in calls' : d = x \/ (d \in calls /\ d # c)
    BY <1>0, Follows, ZenonT(20)
  <2>3. Proper' /\ \A d \in calls : d = c \/ d \in calls'
    BY <1>0, Follows, ZenonT(20)
  <2>4. /\ Single("toggle")' /\ Asked("list")'
        /\ Asked("toggle")' <=> Asked("toggle")
        /\ Asked("settings")' <=> Asked("settings")
        /\ Seen({"toggle"})' <=> Seen({"toggle"})
        /\ \A d \in calls' : d.op = "toggle" => d \in calls
    BY <1>0, <2>2, <2>3, ZenonT(20) DEF Single, Asked, Seen, Asking
  <2>5. RecruitmentShape'
    BY <1>0, <2>1, <2>3, <2>4, ZenonT(20) DEF RecruitmentShape
  <2>6. ReviewsInv'
    BY <2>1, <2>4, ZenonT(20) DEF ReviewsInv
  <2>7. SwitchInv => SwitchInv'
    BY <2>1, <2>4, ZenonT(20) DEF SwitchInv
  <2>8. QED
    BY <2>5, <2>6, <2>7, Zenon DEF RecruitmentInv
<1>14. QED
  BY <1>3, <1>4, <1>5, <1>6, <1>7, <1>8, <1>9, <1>10, <1>11, <1>12, <1>13, Zenon
     DEF Recruitment!Next, Recruitment!Answer

\* Hence list and switch follow the manager.
LEMMA RecruitmentFollows ==
  RecruitmentInv => Recruitment!ListFollowsActions /\ Recruitment!SpinnersTurn
BY ZenonT(20)
   DEF RecruitmentInv, RecruitmentShape, ReviewsInv, SwitchInv, Recruitment!ListFollowsActions,
       Recruitment!SpinnersTurn, Recruitment!Waiting, Recruitment!Under, Asked, Seen

-----------------------------------------------------------------------------
(* The team.                                                               *)

IsTeamList(v) ==
    v \in [role : {v.role}, self : BOOLEAN, tab : {v.tab}, row : {v.row}, pending : {v.pending},
           changingRole : BOOLEAN, dialog : {v.dialog}, crossed : BOOLEAN, lost : BOOLEAN]

UsersShape ==
    /\ IsTeamList(view) /\ Proper /\ IsWorld(world)
    /\ world.now \in Users!Account /\ world.settled \in Users!Account

\* An owner who looks at the own account sees that of an owner; deleted accounts are
\* not listed.
UsersRow ==
    /\ view.role \in {"stateManager", "manager", "owner"}
    /\ view.self /\ view.role = "owner" => world.now.role = "owner"
    /\ view.row # None => ~view.row.deleted

\* One action is under way at a time.
UsersTurn ==
    /\ view.dialog \in Users!Asked \cup {None}
    /\ \A c \in calls : c.op = "act" => c.arg \in Users!Asked
    /\ Single("act") /\ (view.dialog # None => ~Asked("act"))
    /\ view.changingRole => \E c \in calls : c.op = "act" /\ c.arg \in Users!AssignableRoles

\* The list is that of the tab, and follows an action once it is answered.
UsersList ==
    /\ Asks("list", view.tab)
    /\ \/ Seen({"act"})
       \/ /\ world.settled = world.now
          /\ Asked("list") \/ view.row = Users!Listed(view.tab, world.now)

\* So does the count, after the actions that read it again.
Counting == Users!AccountActions \ {"delete"}
Recounts == \E c \in calls : c.op = "act" /\ c.seen /\ c.arg \in Counting
UsersCount ==
    \/ Recounts
    \/ /\ Users!Filter("pending", world.settled) = Users!Filter("pending", world.now)
       /\ Asked("count") \/ view.pending = Users!Filter("pending", world.now)

UsersInv ==
    /\ UsersShape /\ UsersRow /\ UsersTurn
    /\ ~view.lost /\ ~view.crossed => UsersList
    /\ ~view.lost /\ ~world.now.deleted => UsersCount

\* An account stays an account, whatever is done to it.
LEMMA UsersEffect ==
  ASSUME NEW user \in Users!Account, NEW asked \in Users!Asked
  PROVE  /\ Users!Effect(user, asked) \in Users!Account
         /\ asked \notin Counting /\ ~Users!Effect(user, asked).deleted =>
               Users!Filter("pending", Users!Effect(user, asked)) = Users!Filter("pending", user)
<1> USE DEF Users!Account
<1>1. CASE asked \in Users!AssignableRoles
  <2>1. asked \notin Users!AccountActions /\ asked \in Users!TeamRoles
    BY <1>1, SMT DEF Users!AssignableRoles, Users!TeamRoles, Users!AccountActions
  <2> PICK e : e = [user EXCEPT !.role = asked]
    OBVIOUS
  <2>2. Users!Effect(user, asked) = e
    BY <2>1, ZenonT(20) DEF Users!Effect
  <2>3. e \in Users!Account /\ e.deleted = user.deleted /\ e.approval = user.approval
    BY <2>1, SMT
  <2>4. Users!Filter("pending", e) = Users!Filter("pending", user)
    BY <2>3, SMT DEF Users!Filter
  <2>5. QED
    BY <2>2, <2>3, <2>4, Zenon
<1>2. CASE asked \in Users!AccountActions
  <2> PICK e : e = Users!Outcome(user, asked)
    OBVIOUS
  <2>1. Users!Effect(user, asked) = e
    BY <1>2, ZenonT(20) DEF Users!Effect
  <2> DEFINE Deletion == [user EXCEPT !.deleted = TRUE, !.access = "revoked"]
  <2>6. asked = "delete" => e = Deletion
    BY ZenonT(20) DEF Users!Outcome
  <2>7. Deletion \in Users!Account /\ Deletion.deleted
    BY ZenonT(20)
  <2>2. e \in Users!Account
    <3>1. \A r : Users!Promoted(r) \in Users!TeamRoles /\ Users!Demoted(r) \in Users!TeamRoles
      BY SMT DEF Users!Promoted, Users!Demoted, Users!TeamRoles
    <3>2. CASE asked = "approve"
      <4>1. e = [user EXCEPT !.approval = "approved", !.access = "active"]
        BY <3>2, ZenonT(20) DEF Users!Outcome
      <4>2. QED
        BY <4>1, ZenonT(20)
    <3>3. CASE asked = "reject"
      <4>1. e = [user EXCEPT !.approval = "rejected", !.access = "revoked"]
        BY <3>3, ZenonT(20) DEF Users!Outcome
      <4>2. QED
        BY <4>1, ZenonT(20)
    <3>4. CASE asked = "promote"
      <4>1. e = [user EXCEPT !.role = Users!Promoted(user.role)]
        BY <3>4, ZenonT(20) DEF Users!Outcome
      <4>2. QED
        BY <3>1, <4>1, ZenonT(20)
    <3>5. CASE asked = "demote"
      <4>1. e = [user EXCEPT !.role = Users!Demoted(user.role)]
        BY <3>5, ZenonT(20) DEF Users!Outcome
      <4>2. QED
        BY <3>1, <4>1, ZenonT(20)
    <3>6. CASE asked = "revoke"
      <4>1. e = [user EXCEPT !.access = "revoked"]
        BY <3>6, ZenonT(20) DEF Users!Outcome
      <4>2. QED
        BY <4>1, ZenonT(20)
    <3>7. CASE asked = "restore"
      <4>1. e = [user EXCEPT !.access = "active"]
        BY <3>7, ZenonT(20) DEF Users!Outcome
      <4>2. QED
        BY <4>1, ZenonT(20)
    <3>8. CASE asked = "delete"
      BY <2>6, <2>7, <3>8, ZenonT(20)
    <3>9. QED
      BY <1>2, <3>2, <3>3, <3>4, <3>5, <3>6, <3>7, <3>8, ZenonT(20) DEF Users!AccountActions
  <2>3. asked \notin Counting => asked = "delete"
    BY <1>2, ZenonT(20) DEF Counting
  <2>4. asked = "delete" => e.deleted
    BY <2>6, <2>7, Zenon
  <2>5. QED
    BY <2>1, <2>2, <2>3, <2>4, Zenon
<1>3. QED
  BY <1>1, <1>2, Zenon DEF Users!Asked

\* Nobody acts on an owner, and an owner not on the own account.
LEMMA UsersSpared ==
  ASSUME NEW user, NEW asked \in Users!Asked, Users!Accepted(user, asked), view.self
  PROVE  user.role # "owner"
<1>1. CASE asked \notin Users!AccountActions
  BY <1>1, ZenonT(20) DEF Users!Accepted, Users!PermitsRole
<1>2. CASE asked \in Users!AccountActions
  <2>1. Users!Permits(Users!Actor(view.role), user, view.self, asked)
    BY <1>2, ZenonT(20) DEF Users!Accepted
  <2>2. asked \in {"approve", "reject", "restore"}
    BY <1>2, <2>1, ZenonT(30) DEF Users!Permits, Users!AccountActions
  <2>3. Users!EnsureCanManageAccess(Users!Actor(view.role), user)
    BY <2>1, <2>2, ZenonT(30) DEF Users!Permits
  <2>4. QED
    BY <2>3, Zenon DEF Users!EnsureCanManageAccess, Users!ProtectOwner
<1>3. QED
  BY <1>1, <1>2, Zenon

\* What a tab lists is an account that is not deleted.
LEMMA UsersListed ==
  ASSUME NEW tab, NEW a
  PROVE  Users!Listed(tab, a) # None => ~Users!Listed(tab, a).deleted
<1>1. CASE Users!Filter(tab, a)
  <2>1. Users!Listed(tab, a) = a
    BY <1>1, ZenonT(20) DEF Users!Listed
  <2>2. ~a.deleted
    BY <1>1, ZenonT(20) DEF Users!Filter
  <2>3. QED
    BY <2>1, <2>2, Zenon
<1>2. CASE ~Users!Filter(tab, a)
  BY <1>2, ZenonT(20) DEF Users!Listed
<1>3. QED
  BY <1>1, <1>2, Zenon

\* Opened, the page waits for the list and the count.
LEMMA UsersInit == Users!Init => UsersInv
<1> SUFFICES ASSUME Users!Init PROVE UsersInv
  OBVIOUS
<1>1. PICK role \in {"stateManager", "manager", "owner"}, self \in BOOLEAN, a \in Users!ReachableAccounts :
           /\ ~a.deleted /\ (self => a = Users!Actor(role))
           /\ view = Users!Opened(role, self)
           /\ world = [now |-> a, settled |-> a]
  BY ZenonT(20) DEF Users!Init
<1>2. calls = {[op |-> "count", arg |-> None, seen |-> FALSE], [op |-> "list", arg |-> "pending", seen |-> FALSE]}
  BY ZenonT(20) DEF Users!Init, Users!Call
<1>3. /\ IsTeamList(view) /\ view.role = role /\ view.self = self /\ view.row = None /\ view.dialog = None
      /\ ~view.changingRole /\ view.tab = "pending"
  BY <1>1, ZenonT(20) DEF Users!Opened, IsTeamList
<1>4. IsWorld(world) /\ world.now = a /\ world.settled = a /\ a \in Users!Account
  BY <1>1, ZenonT(20) DEF IsWorld, Users!ReachableAccounts
<1>5. self /\ role = "owner" => a.role = "owner"
  <2>1. Users!Actor(role).role = role
    BY ZenonT(20) DEF Users!Actor
  <2>2. QED
    BY <1>1, <2>1, Zenon
<1>6. /\ Proper /\ Asked("count") /\ Asked("list") /\ Asks("list", "pending")
      /\ \A c \in calls : c.op # "act"
  <2> PICK x, y : /\ x = [op |-> "count", arg |-> None, seen |-> FALSE]
                  /\ y = [op |-> "list", arg |-> "pending", seen |-> FALSE]
    OBVIOUS
  <2>1. Asking(x, "count", None) /\ Asking(y, "list", "pending")
    BY ZenonT(20) DEF Asking, IsCall
  <2>2. x \in calls /\ y \in calls /\ \A c \in calls : c = x \/ c = y
    BY <1>2, ZenonT(20)
  <2>3. QED
    BY <2>1, <2>2, ZenonT(20) DEF Asking, Proper, Asked, Asks
<1>7. UsersShape /\ UsersRow
  BY <1>3, <1>4, <1>5, <1>6, ZenonT(20) DEF UsersShape, UsersRow
<1>8. UsersTurn
  BY <1>3, <1>6, ZenonT(20) DEF UsersTurn, Single, Asked
<1>9. UsersList /\ UsersCount
  BY <1>3, <1>4, <1>6, ZenonT(20) DEF UsersList, UsersCount
<1>10. QED
  BY <1>7, <1>8, <1>9, Zenon DEF UsersInv

\* Every success reads again what it changed.
LEMMA UsersStep ==
  ASSUME UsersInv, Users!Next
  PROVE  UsersInv'
<1> USE DEF Users!Under, Users!Ends, Users!Fresh
<1>0. /\ UsersShape /\ UsersRow /\ UsersTurn /\ IsTeamList(view) /\ Proper /\ IsWorld(world)
      /\ (~view.lost /\ ~view.crossed => UsersList)
      /\ (~view.lost /\ ~world.now.deleted => UsersCount)
  BY Zenon DEF UsersInv, UsersShape
\* What only a dialog changes, keeps the rest.
<1>1. ASSUME IsTeamList(view'), calls' = calls, world' = world, view'.role = view.role, view'.self = view.self,
             view'.tab = view.tab, view'.row = view.row, view'.pending = view.pending,
             view'.changingRole = view.changingRole, view'.crossed = view.crossed, view'.lost = view.lost,
             view'.dialog \in Users!Asked \cup {None}, view'.dialog # None => ~Asked("act")
      PROVE  UsersInv'
  <2>1. UsersShape' /\ UsersRow'
    BY <1>0, <1>1, ZenonT(20) DEF UsersShape, UsersRow, Proper
  <2>2. UsersTurn'
    BY <1>0, <1>1, ZenonT(20) DEF UsersTurn, Single, Asked
  <2>3. (UsersList => UsersList') /\ (UsersCount => UsersCount')
    BY <1>1, ZenonT(20) DEF UsersList, UsersCount, Asks, Asked, Seen, Recounts
  <2>4. QED
    BY <1>0, <1>1, <2>1, <2>2, <2>3, ZenonT(20) DEF UsersInv
<1>2. ASSUME NEW asked \in Users!Asked, Users!OpenDialog(asked)
      PROVE  UsersInv'
  <2>1. /\ IsTeamList(view') /\ view'.role = view.role /\ view'.self = view.self /\ view'.tab = view.tab
        /\ view'.row = view.row /\ view'.pending = view.pending /\ view'.changingRole = view.changingRole
        /\ view'.crossed = view.crossed /\ view'.lost = view.lost /\ view'.dialog = asked
    BY <1>0, <1>2, ZenonT(20) DEF Users!OpenDialog, IsTeamList
  <2>2. calls' = calls /\ world' = world /\ ~Asked("act")
    BY <1>2, ZenonT(20) DEF Users!OpenDialog, Users!Waiting, Asked
  <2>3. QED
    BY <1>1, <2>1, <2>2, ZenonT(20)
<1>3. CASE Users!Dismiss
  <2>1. /\ IsTeamList(view') /\ view'.role = view.role /\ view'.self = view.self /\ view'.tab = view.tab
        /\ view'.row = view.row /\ view'.pending = view.pending /\ view'.changingRole = view.changingRole
        /\ view'.crossed = view.crossed /\ view'.lost = view.lost /\ view'.dialog = None
    BY <1>0, <1>3, ZenonT(20) DEF Users!Dismiss, IsTeamList
  <2>2. calls' = calls /\ world' = world
    BY <1>3, ZenonT(20) DEF Users!Dismiss
  <2>3. QED
    BY <1>1, <2>1, <2>2, ZenonT(20)
\* A read ends.
<1>4. ASSUME NEW c \in calls, c.op \in {"list", "count"}, calls' = calls \ {c}
      PROVE  /\ Proper' /\ \A op, q : Asks(op, q) => Asks(op, q)'
             /\ \A op : c.op # op => (Asked(op)' <=> Asked(op))
             /\ (UsersTurn /\ view'.dialog = view.dialog /\ view'.changingRole = view.changingRole => UsersTurn')
             /\ (Seen({"act"}) => Seen({"act"})') /\ (Recounts => Recounts')
  <2>1. /\ Proper' /\ \A op, q : Asks(op, q) => Asks(op, q)'
        /\ \A op : c.op # op => (Asked(op)' <=> Asked(op))
        /\ Single("act") => Single("act")'
    BY <1>0, <1>4, Ended, ZenonT(20)
  <2>2. /\ \A d \in calls : d.op = "act" => d \in calls'
        /\ \A d \in calls' : d \in calls
    BY <1>4, ZenonT(20)
  <2>3. (Seen({"act"}) => Seen({"act"})') /\ (Recounts => Recounts')
    BY <2>2, ZenonT(20) DEF Seen, Recounts
  <2>4. Asked("act")' <=> Asked("act")
    BY <1>4, <2>1, ZenonT(20)
  <2>5. UsersTurn /\ view'.dialog = view.dialog /\ view'.changingRole = view.changingRole => UsersTurn'
    BY <2>1, <2>2, <2>4, ZenonT(20) DEF UsersTurn
  <2>6. QED
    BY <2>1, <2>3, <2>5, Zenon
<1>5. CASE Users!ReceiveList
  <2> PICK c \in calls, a \in {world.now, world.settled} :
           /\ c.op = "list" /\ calls' = calls \ {c} /\ world' = world
           /\ view' = [view EXCEPT !.row = Users!Listed(c.arg, a)]
    BY <1>5, ZenonT(20) DEF Users!ReceiveList
  <2>1. /\ IsTeamList(view') /\ view'.role = view.role /\ view'.self = view.self /\ view'.tab = view.tab
        /\ view'.row = Users!Listed(c.arg, a) /\ view'.pending = view.pending
        /\ view'.changingRole = view.changingRole /\ view'.dialog = view.dialog
        /\ view'.crossed = view.crossed /\ view'.lost = view.lost
    BY <1>0, ZenonT(20) DEF IsTeamList
  <2>2. /\ Proper' /\ \A op, q : Asks(op, q) => Asks(op, q)'
        /\ \A op : c.op # op => (Asked(op)' <=> Asked(op))
        /\ (UsersTurn /\ view'.dialog = view.dialog /\ view'.changingRole = view.changingRole => UsersTurn')
        /\ (Seen({"act"}) => Seen({"act"})') /\ (Recounts => Recounts')
    BY <1>4, ZenonT(20)
  <2>3. UsersShape' /\ UsersRow' /\ UsersTurn'
    BY <1>0, <2>1, <2>2, UsersListed, ZenonT(20) DEF UsersShape, UsersRow
  <2>4. UsersList => UsersList'
    <3>1. UsersList => c.arg = view.tab
      BY ZenonT(20) DEF UsersList, Asks
    <3>2. UsersList /\ ~Seen({"act"}) => world.settled = world.now /\ a = world.now
      BY ZenonT(20) DEF UsersList
    <3>3. QED
      BY <2>1, <2>2, <3>1, <3>2, ZenonT(20) DEF UsersList
  <2>5. UsersCount => UsersCount'
    BY <2>1, <2>2, ZenonT(20) DEF UsersCount
  <2>6. QED
    BY <1>0, <2>1, <2>3, <2>4, <2>5, ZenonT(20) DEF UsersInv
<1>6. CASE Users!ReceiveCount
  <2> PICK c \in calls, a \in {world.now, world.settled} :
           /\ c.op = "count" /\ calls' = calls \ {c} /\ world' = world
           /\ view' = [view EXCEPT !.pending = Users!Filter("pending", a)]
    BY <1>6, ZenonT(20) DEF Users!ReceiveCount
  <2>1. /\ IsTeamList(view') /\ view'.role = view.role /\ view'.self = view.self /\ view'.tab = view.tab
        /\ view'.row = view.row /\ view'.pending = Users!Filter("pending", a)
        /\ view'.changingRole = view.changingRole /\ view'.dialog = view.dialog
        /\ view'.crossed = view.crossed /\ view'.lost = view.lost
    BY <1>0, ZenonT(20) DEF IsTeamList
  <2>2. /\ Proper' /\ \A op, q : Asks(op, q) => Asks(op, q)'
        /\ \A op : c.op # op => (Asked(op)' <=> Asked(op))
        /\ (UsersTurn /\ view'.dialog = view.dialog /\ view'.changingRole = view.changingRole => UsersTurn')
        /\ (Seen({"act"}) => Seen({"act"})') /\ (Recounts => Recounts')
    BY <1>4, ZenonT(20)
  <2>3. UsersShape' /\ UsersRow' /\ UsersTurn'
    BY <1>0, <2>1, <2>2, ZenonT(20) DEF UsersShape, UsersRow
  <2>4. UsersList => UsersList'
    BY <2>1, <2>2, ZenonT(20) DEF UsersList
  <2>5. UsersCount => UsersCount'
    <3>1. CASE a = world.now
      BY <2>1, <2>2, <3>1, ZenonT(20) DEF UsersCount
    <3>2. CASE a = world.settled
      BY <2>1, <2>2, <3>2, ZenonT(20) DEF UsersCount
    <3>3. QED
      BY <3>1, <3>2, Zenon
  <2>6. QED
    BY <1>0, <2>1, <2>3, <2>4, <2>5, ZenonT(20) DEF UsersInv
<1>7. CASE Users!FailRead
  <2> PICK c \in calls : /\ c.op \in {"list", "count"} /\ calls' = calls \ {c} /\ world' = world
                         /\ view' = [view EXCEPT !.lost = TRUE]
    BY <1>7, ZenonT(20) DEF Users!FailRead
  <2>1. /\ IsTeamList(view') /\ view'.role = view.role /\ view'.self = view.self
        /\ view'.row = view.row /\ view'.changingRole = view.changingRole /\ view'.dialog = view.dialog
        /\ view'.lost
    BY <1>0, ZenonT(20) DEF IsTeamList
  <2>2. Proper' /\ (UsersTurn /\ view'.dialog = view.dialog /\ view'.changingRole = view.changingRole => UsersTurn')
    BY <1>4, ZenonT(20)
  <2>3. UsersShape' /\ UsersRow' /\ UsersTurn'
    BY <1>0, <2>1, <2>2, ZenonT(20) DEF UsersShape, UsersRow
  <2>4. QED
    BY <2>1, <2>3, ZenonT(20) DEF UsersInv
<1>8. ASSUME NEW tab \in Tabs, Users!OpenTab(tab)
      PROVE  UsersInv'
  <2>1. /\ IsTeamList(view') /\ view'.role = view.role /\ view'.self = view.self /\ view'.tab = tab
        /\ view'.row = view.row /\ view'.pending = view.pending
        /\ view'.changingRole = view.changingRole /\ view'.dialog = view.dialog
        /\ (view'.crossed <=> view.crossed \/ Asked("list")) /\ view'.lost = view.lost
    <3> PICK b : b = (view.crossed \/ Users!Waiting("list"))
      OBVIOUS
    <3>1. view' = [view EXCEPT !.tab = tab, !.crossed = b]
      BY <1>8, ZenonT(20) DEF Users!OpenTab
    <3>2. b \in BOOLEAN /\ (b <=> view.crossed \/ Asked("list"))
      BY ZenonT(20) DEF Users!Waiting, Asked
    <3>3. QED
      BY <1>0, <3>1, <3>2, ZenonT(20) DEF IsTeamList
  <2>2. world' = world /\ calls' = calls \cup {[op |-> "list", arg |-> tab, seen |-> FALSE]}
    BY <1>8, ZenonT(20) DEF Users!OpenTab, Users!Subscribe, Users!Call
  <2>3. PICK x \in calls' : Asking(x, "list", tab) /\ \A d \in calls' : d = x \/ d \in calls
    BY <1>0, <2>2, Begins, ZenonT(20)
  <2>4. Proper' /\ \A d \in calls : d \in calls'
    BY <1>0, <2>2, Begins, ZenonT(20)
  <2>5. x.op = "list" /\ x.arg = tab /\ ~x.seen
    BY <2>3, ZenonT(20) DEF Asking
  <2>6. UsersShape' /\ UsersRow'
    BY <1>0, <2>1, <2>2, <2>4, ZenonT(20) DEF UsersShape, UsersRow
  <2>7. UsersTurn'
    BY <1>0, <2>1, <2>3, <2>4, <2>5, ZenonT(20) DEF UsersTurn, Single, Asked
  <2>8. /\ (Seen({"act"}) => Seen({"act"})') /\ (Recounts => Recounts') /\ Asked("list")'
        /\ Asked("count") => Asked("count")'
    BY <2>4, <2>5, ZenonT(20) DEF Seen, Recounts, Asked
  <2>9. ~view'.crossed => Asks("list", tab)'
    BY <2>1, <2>3, <2>5, ZenonT(20) DEF Asked, Asks
  <2>10. UsersList /\ ~view'.crossed => UsersList'
    BY <2>1, <2>2, <2>8, <2>9, ZenonT(20) DEF UsersList
  <2>11. UsersCount => UsersCount'
    BY <2>1, <2>2, <2>8, ZenonT(20) DEF UsersCount
  <2>12. QED
    BY <1>0, <2>1, <2>2, <2>6, <2>7, <2>10, <2>11, ZenonT(20) DEF UsersInv
<1>9. CASE Users!Confirm
  <2>1. view.dialog # None /\ view.dialog \in Users!Asked /\ ~Asked("act")
    BY <1>0, <1>9, ZenonT(20) DEF Users!Confirm, UsersTurn
  <2>2. /\ IsTeamList(view') /\ view'.role = view.role /\ view'.self = view.self /\ view'.tab = view.tab
        /\ view'.row = view.row /\ view'.pending = view.pending /\ view'.dialog = None
        /\ (view'.changingRole => view.changingRole \/ view.dialog \in Users!AssignableRoles)
        /\ view'.crossed = view.crossed /\ view'.lost = view.lost
    <3> PICK b : b = (view.changingRole \/ view.dialog \in Users!AssignableRoles)
      OBVIOUS
    <3>1. view' = [view EXCEPT !.dialog = None, !.changingRole = b]
      BY <1>9, ZenonT(20) DEF Users!Confirm
    <3>2. b \in BOOLEAN
      BY ZenonT(20)
    <3>3. QED
      BY <1>0, <3>1, <3>2, ZenonT(20) DEF IsTeamList
  <2>3. world' = world /\ calls' = calls \cup {[op |-> "act", arg |-> view.dialog, seen |-> FALSE]}
    BY <1>9, ZenonT(20) DEF Users!Confirm, Users!Subscribe, Users!Call
  <2>4. PICK x \in calls' : Asking(x, "act", view.dialog) /\ \A d \in calls' : d = x \/ d \in calls
    BY <1>0, <2>3, Begins, ZenonT(20)
  <2>5. Proper' /\ \A d \in calls : d \in calls'
    BY <1>0, <2>3, Begins, ZenonT(20)
  <2>6. x.op = "act" /\ x.arg = view.dialog /\ ~x.seen
    BY <2>4, ZenonT(20) DEF Asking
  <2>7. UsersShape' /\ UsersRow'
    BY <1>0, <2>2, <2>3, <2>5, ZenonT(20) DEF UsersShape, UsersRow
  <2>8. UsersTurn'
    <3>1. ~view.changingRole
      BY <1>0, <2>1, ZenonT(20) DEF UsersTurn, Asked
    <3>2. Single("act")' /\ \A d \in calls' : d.op = "act" => d = x
      BY <2>1, <2>4, ZenonT(20) DEF Single, Asked
    <3>3. QED
      BY <2>1, <2>2, <2>6, <3>1, <3>2, ZenonT(20) DEF UsersTurn
  <2>9. /\ (Seen({"act"}) => Seen({"act"})') /\ (Recounts => Recounts')
        /\ (Asked("list") => Asked("list")') /\ (Asked("count") => Asked("count")')
        /\ (Asks("list", view.tab) => Asks("list", view.tab)')
    BY <2>2, <2>4, <2>5, <2>6, ZenonT(20) DEF Seen, Recounts, Asked, Asks
  <2>10. (UsersList => UsersList') /\ (UsersCount => UsersCount')
    BY <2>2, <2>3, <2>9, ZenonT(20) DEF UsersList, UsersCount
  <2>11. QED
    BY <1>0, <2>2, <2>3, <2>7, <2>8, <2>10, ZenonT(20) DEF UsersInv
<1>10. CASE Users!Execute
  <2> PICK c \in calls : /\ c.op = "act" /\ Users!Executes(c) /\ Users!Accepted(world.now, c.arg)
                         /\ world' = [world EXCEPT !.now = Users!Effect(world.now, c.arg)] /\ view' = view
    BY <1>10, ZenonT(20) DEF Users!Execute, Users!Commit
  <2>1. /\ IsWorld(world') /\ world'.now = Users!Effect(world.now, c.arg) /\ world'.settled = world.settled
    BY <1>0, Committed, ZenonT(20)
  <2>2. c.arg \in Users!Asked /\ world.now \in Users!Account
    BY <1>0, ZenonT(20) DEF UsersTurn, UsersShape
  <2>3. /\ world'.now \in Users!Account
        /\ c.arg \notin Counting /\ ~world'.now.deleted =>
               Users!Filter("pending", world'.now) = Users!Filter("pending", world.now)
    BY <2>1, <2>2, UsersEffect, ZenonT(20)
  <2>4. ~c.seen /\ calls' = (calls \ {c}) \cup {[c EXCEPT !.seen = TRUE]}
    BY ZenonT(20) DEF Users!Executes
  <2>5. PICK x \in calls' : /\ x.op = c.op /\ x.arg = c.arg /\ x.seen
                            /\ \A d \in calls' : d = x \/ (d \in calls /\ d # c)
    BY <1>0, <2>4, Marked, ZenonT(20)
  <2>6. Proper' /\ \A d \in calls : d = c \/ d \in calls'
    BY <1>0, <2>4, Marked, ZenonT(20)
  <2>7. UsersShape'
    BY <1>0, <2>1, <2>3, <2>6, ZenonT(20) DEF UsersShape
  <2>8. UsersRow'
    <3>1. view.self => world.now.role # "owner"
      BY <2>2, UsersSpared, ZenonT(20)
    <3>2. QED
      BY <1>0, <3>1, ZenonT(20) DEF UsersRow
  <2>9. UsersTurn'
    BY <1>0, <2>2, <2>5, <2>6, ZenonT(20) DEF UsersTurn, Single, Asked
  <2>10. /\ Seen({"act"})' /\ (c.arg \in Counting => Recounts')
         /\ (Asked("count") => Asked("count")')
         /\ (Asks("list", view.tab) => Asks("list", view.tab)')
    BY <2>5, <2>6, ZenonT(20) DEF Seen, Recounts, Asked, Asks
  <2>11. UsersList => UsersList'
    BY <2>10, ZenonT(20) DEF UsersList
  <2>12. ASSUME ~view'.lost, ~world'.now.deleted PROVE UsersCount'
    <3>1. CASE c.arg \in Counting
      BY <2>10, <3>1, Zenon DEF UsersCount
    <3>2. CASE c.arg \notin Counting
      <4>1. ~Recounts
        BY <1>0, <2>4, ZenonT(20) DEF Recounts, UsersTurn, Single
      <4>2. Users!Accepted(world.now, c.arg) => ~world.now.deleted
        BY ZenonT(20) DEF Users!Accepted, Users!Permits, Users!PermitsRole
      <4>3. UsersCount
        BY <1>0, <2>12, <4>2, Zenon
      <4>4. QED
        BY <2>1, <2>3, <2>10, <2>12, <3>2, <4>1, <4>3, ZenonT(20) DEF UsersCount
    <3>3. QED
      BY <3>1, <3>2, Zenon
  <2>13. QED
    BY <1>0, <2>7, <2>8, <2>9, <2>11, <2>12, ZenonT(20) DEF UsersInv
<1>11. CASE Users!Succeed
  <2> PICK c \in calls :
        /\ c.op = "act" /\ c.seen
        /\ calls' = (calls \ {c}) \cup {[op |-> "list", arg |-> view.tab, seen |-> FALSE]} \cup
              IF c.arg \in Users!AssignableRoles \cup {"delete"} THEN {}
              ELSE {[op |-> "count", arg |-> None, seen |-> FALSE]}
        /\ view' = [view EXCEPT !.changingRole = @ /\ c.arg \notin Users!AssignableRoles]
        /\ world' = [world EXCEPT !.settled = world.now]
    BY <1>11, ZenonT(20) DEF Users!Succeed, Users!Settle, Users!Call
  <2>1. IsWorld(world') /\ world'.now = world.now /\ world'.settled = world.now
    BY <1>0, Settled, ZenonT(20)
  <2>2. /\ IsTeamList(view') /\ view'.role = view.role /\ view'.self = view.self /\ view'.tab = view.tab
        /\ view'.row = view.row /\ view'.pending = view.pending /\ view'.dialog = view.dialog
        /\ (view'.changingRole <=> view.changingRole /\ c.arg \notin Users!AssignableRoles)
        /\ view'.crossed = view.crossed /\ view'.lost = view.lost
    <3> PICK b : b = (view.changingRole /\ c.arg \notin Users!AssignableRoles)
      OBVIOUS
    <3>1. view' = [view EXCEPT !.changingRole = b]
      BY ZenonT(20)
    <3>2. b \in BOOLEAN /\ (b <=> view.changingRole /\ c.arg \notin Users!AssignableRoles)
      BY ZenonT(20)
    <3>3. QED
      BY <1>0, <3>1, <3>2, ZenonT(20) DEF IsTeamList
  <2>3. PICK x : x = [op |-> "list", arg |-> view.tab, seen |-> FALSE]
    OBVIOUS
  <2>4. PICK y : y = [op |-> "count", arg |-> None, seen |-> FALSE]
    OBVIOUS
  <2>5. Asking(x, "list", view.tab) /\ Asking(y, "count", None)
    BY <2>3, <2>4, ZenonT(20) DEF Asking, IsCall
  <2>6. /\ x \in calls' /\ (c.arg \in Counting => y \in calls')
        /\ \A d \in calls' : d = x \/ d = y \/ (d \in calls /\ d # c)
        /\ \A d \in calls : d = c \/ d \in calls'
    <3>1. c.arg \in Counting => c.arg \notin Users!AssignableRoles \cup {"delete"}
      BY SMT DEF Counting, Users!AccountActions, Users!AssignableRoles, Users!TeamRoles
    <3>2. CASE c.arg \in Users!AssignableRoles \cup {"delete"}
      BY <2>3, <3>1, <3>2, ZenonT(20)
    <3>3. CASE c.arg \notin Users!AssignableRoles \cup {"delete"}
      BY <2>3, <2>4, <3>3, ZenonT(20)
    <3>4. QED
      BY <3>2, <3>3, Zenon
  <2>7. /\ x.op = "list" /\ x.arg = view.tab /\ ~x.seen /\ y.op = "count" /\ ~y.seen
        /\ IsCall(x) /\ IsCall(y)
    BY <2>5, ZenonT(20) DEF Asking
  <2>8. UsersShape' /\ UsersRow'
    <3>1. Proper'
      BY <1>0, <2>6, <2>7, ZenonT(20) DEF Proper
    <3>2. QED
      BY <1>0, <2>1, <2>2, <3>1, ZenonT(20) DEF UsersShape, UsersRow
  <2>9. ~Asked("act")'
    BY <1>0, <2>6, <2>7, ZenonT(20) DEF UsersTurn, Single, Asked
  <2>10. UsersTurn'
    <3>1. ~view'.changingRole
      BY <1>0, <2>2, ZenonT(20) DEF UsersTurn, Single
    <3>2. QED
      BY <1>0, <2>2, <2>9, <3>1, ZenonT(20) DEF UsersTurn, Single, Asked
  <2>11. /\ Asked("list")' /\ (c.arg \in Counting => Asked("count")')
         /\ (Asked("count") => Asked("count")')
         /\ (Asks("list", view.tab) => Asks("list", view.tab)')
    BY <2>2, <2>6, <2>7, ZenonT(20) DEF Asked, Asks
  <2>12. UsersList => UsersList'
    BY <2>1, <2>2, <2>11, ZenonT(20) DEF UsersList
  <2>13. UsersCount => UsersCount'
    <3>1. CASE c.arg \in Counting
      BY <2>1, <2>11, <3>1, ZenonT(20) DEF UsersCount
    <3>2. CASE c.arg \notin Counting
      <4>1. ~Recounts
        BY <1>0, <3>2, ZenonT(20) DEF Recounts, UsersTurn, Single
      <4>2. QED
        BY <2>1, <2>2, <2>11, <4>1, ZenonT(20) DEF UsersCount
    <3>3. QED
      BY <3>1, <3>2, Zenon
  <2>14. QED
    BY <1>0, <2>1, <2>2, <2>8, <2>10, <2>12, <2>13, ZenonT(20) DEF UsersInv
<1>12. CASE Users!Lose
  <2> PICK c \in calls :
        /\ c.op = "act" /\ calls' = calls \ {c}
        /\ view' = [view EXCEPT !.lost = TRUE, !.changingRole = @ /\ c.arg \notin Users!AssignableRoles]
        /\ world' = [world EXCEPT !.settled = world.now]
    BY <1>12, ZenonT(20) DEF Users!Lose, Users!Settle
  <2>1. IsWorld(world') /\ world'.now = world.now /\ world'.settled = world.now
    BY <1>0, Settled, ZenonT(20)
  <2>2. /\ IsTeamList(view') /\ view'.role = view.role /\ view'.self = view.self
        /\ view'.row = view.row /\ view'.dialog = view.dialog /\ view'.lost
        /\ (view'.changingRole <=> view.changingRole /\ c.arg \notin Users!AssignableRoles)
    <3> PICK b : b = (view.changingRole /\ c.arg \notin Users!AssignableRoles)
      OBVIOUS
    <3>1. view' = [view EXCEPT !.lost = TRUE, !.changingRole = b]
      BY ZenonT(20)
    <3>2. b \in BOOLEAN /\ (b <=> view.changingRole /\ c.arg \notin Users!AssignableRoles)
      BY ZenonT(20)
    <3>3. QED
      BY <1>0, <3>1, <3>2, ZenonT(20) DEF IsTeamList
  <2>3. Proper' /\ Single("act")' /\ ~Asked("act")'
    BY <1>0, Ended, ZenonT(20) DEF UsersTurn
  <2>4. UsersShape' /\ UsersRow'
    BY <1>0, <2>1, <2>2, <2>3, ZenonT(20) DEF UsersShape, UsersRow
  <2>5. UsersTurn'
    <3>1. ~view'.changingRole
      BY <1>0, <2>2, ZenonT(20) DEF UsersTurn, Single
    <3>2. QED
      BY <1>0, <2>2, <2>3, <3>1, ZenonT(20) DEF UsersTurn, Asked
  <2>6. QED
    BY <2>2, <2>4, <2>5, Zenon DEF UsersInv
<1>13. QED
  BY <1>2, <1>3, <1>5, <1>6, <1>7, <1>8, <1>9, <1>10, <1>11, <1>12, Zenon DEF Users!Next, Users!Answer

\* Hence list and count follow, and what a row offers is accepted.
LEMMA UsersFollow ==
  UsersInv => Users!ListFollowsActions /\ Users!OffersAreAccepted /\ Users!SpinnersTurn
<1> SUFFICES ASSUME UsersInv
             PROVE  Users!ListFollowsActions /\ Users!OffersAreAccepted /\ Users!SpinnersTurn
  OBVIOUS
<1> USE DEF Users!Waiting, Users!Under
<1>0. UsersShape /\ UsersRow /\ UsersTurn
  BY Zenon DEF UsersInv
<1>1. Users!SpinnersTurn
  BY <1>0, ZenonT(20) DEF UsersTurn, Users!SpinnersTurn
<1>2. Users!ListFollowsActions
  <2>1. calls = {} => ~Seen({"act"}) /\ ~Recounts /\ ~Asked("list") /\ ~Asked("count")
    BY ZenonT(20) DEF Seen, Recounts, Asked
  <2>2. calls = {} /\ ~view.lost /\ ~view.crossed => view.row = Users!Listed(view.tab, world.now)
    BY <2>1, ZenonT(20) DEF UsersInv, UsersList
  <2>3. calls = {} /\ ~view.lost /\ ~world.now.deleted => view.pending = Users!Filter("pending", world.now)
    BY <2>1, ZenonT(20) DEF UsersInv, UsersCount
  <2>4. QED
    BY <2>2, <2>3, ZenonT(20) DEF Users!ListFollowsActions
<1>3. Users!OffersAreAccepted
  <2> SUFFICES ASSUME view.row # None, view.row = world.now, NEW asked \in Users!Asked,
                      Users!Offers(view.row, asked)
               PROVE  Users!Accepted(view.row, asked)
    BY ZenonT(20) DEF Users!OffersAreAccepted
  <2> PICK user : user = view.row
    OBVIOUS
  <2>1. ~user.deleted /\ user.role \in Users!TeamRoles /\ (view.self /\ view.role = "owner" => user.role = "owner")
    BY <1>0, ZenonT(20) DEF UsersRow, UsersShape, Users!Account
  <2>2. PICK actor : actor = Users!Actor(view.role)
    OBVIOUS
  <2>3. /\ actor.role = view.role
        /\ Users!IsOwner => Users!RequireOwner(actor)
    BY <2>2, ZenonT(20) DEF Users!Actor, Users!RequireOwner, Users!IsOwner
  <2>4. Users!CanChangeAccess(user) => Users!EnsureCanManageAccess(actor, user) /\ ~view.self
    <3>1. Users!CanChangeAccess(user) => actor.role \in {"manager", "owner"} /\ user.role # "owner" /\ ~view.self
      BY <2>3, ZenonT(20) DEF Users!CanChangeAccess, Users!IsManager
    <3>2. Users!CanChangeAccess(user) /\ user.role \in {"manager", "stateManager"} => actor.role = "owner"
      BY <2>3, ZenonT(20) DEF Users!CanChangeAccess, Users!IsOwner
    <3>3. QED
      BY <3>1, <3>2, ZenonT(20) DEF Users!EnsureCanManageAccess, Users!ProtectOwner
  <2>5. CASE asked \in Users!AccountActions
    <3>1. Users!Offered(user, asked)
      BY <2>5, ZenonT(20) DEF Users!Offers
    <3>2. CASE asked \in {"approve", "reject"}
      <4>1. Users!CanChangeAccess(user)
        BY <3>1, <3>2, ZenonT(20) DEF Users!Offered
      <4>2. Users!Permits(actor, user, view.self, asked)
        BY <2>1, <2>4, <3>2, <4>1, ZenonT(20) DEF Users!Permits
      <4>3. QED
        BY <2>2, <2>5, <4>2, ZenonT(20) DEF Users!Accepted
    <3>3. CASE asked = "promote"
      <4>1. /\ user.approval = "approved" /\ user.access = "active"
            /\ user.role \in {"agent", "seniorAgent"} /\ Users!IsOwner
        BY <3>1, <3>3, ZenonT(20) DEF Users!Offered
      <4>2. Users!RequireOwner(actor) /\ ~view.self
        BY <2>1, <2>3, <4>1, ZenonT(20) DEF Users!IsOwner
      <4>3. Users!Permits(actor, user, view.self, asked)
        BY <2>1, <3>3, <4>1, <4>2, ZenonT(20) DEF Users!Permits
      <4>4. QED
        BY <2>2, <2>5, <4>3, ZenonT(20) DEF Users!Accepted
    <3>4. CASE asked = "demote"
      <4>1. user.role \in {"manager", "seniorAgent"} /\ Users!IsOwner
        BY <3>1, <3>4, ZenonT(20) DEF Users!Offered
      <4>2. Users!RequireOwner(actor) /\ ~view.self
        BY <2>1, <2>3, <4>1, ZenonT(20) DEF Users!IsOwner
      <4>3. Users!Permits(actor, user, view.self, asked)
        BY <2>1, <3>4, <4>1, <4>2, ZenonT(20) DEF Users!Permits
      <4>4. QED
        BY <2>2, <2>5, <4>3, ZenonT(20) DEF Users!Accepted
    <3>5. CASE asked \in {"revoke", "delete"}
      <4>1. Users!CanChangeAccess(user)
        BY <3>1, <3>5, ZenonT(20) DEF Users!Offered
      <4>2. Users!Permits(actor, user, view.self, asked)
        BY <2>1, <2>4, <3>5, <4>1, ZenonT(20) DEF Users!Permits
      <4>3. QED
        BY <2>2, <2>5, <4>2, ZenonT(20) DEF Users!Accepted
    <3>6. CASE asked = "restore"
      <4>1. Users!CanChangeAccess(user) /\ user.approval = "approved"
        BY <3>1, <3>6, ZenonT(20) DEF Users!Offered
      <4>2. Users!Permits(actor, user, view.self, asked)
        BY <2>1, <2>4, <3>6, <4>1, ZenonT(20) DEF Users!Permits
      <4>3. QED
        BY <2>2, <2>5, <4>2, ZenonT(20) DEF Users!Accepted
    <3>7. QED
      BY <2>5, <3>2, <3>3, <3>4, <3>5, <3>6, ZenonT(20) DEF Users!AccountActions
  <2>6. CASE asked \notin Users!AccountActions
    <3>1. Users!OfferedRole(user, asked) /\ asked \in Users!AssignableRoles
      BY <2>6, ZenonT(20) DEF Users!Offers, Users!Asked
    <3>2. Users!PermitsRole(actor, user, view.self, asked)
      BY <2>1, <2>3, <3>1, ZenonT(20) DEF Users!OfferedRole, Users!PermitsRole, Users!ProtectOwner
    <3>3. QED
      BY <2>2, <2>6, <3>2, ZenonT(20) DEF Users!Accepted
  <2>7. QED
    BY <2>5, <2>6, Zenon
<1>4. QED
  BY <1>1, <1>2, <1>3, Zenon

-----------------------------------------------------------------------------
(* The list of all properties.                                             *)

IsManagement(v) ==
    v \in [role : {v.role}, row : {v.row}, typing : BOOLEAN, loading : BOOLEAN, error : BOOLEAN,
           dialog : {v.dialog}, lost : BOOLEAN]

\* What the domain keeps of a property that was created.
Kept(p) ==
    p \in Management!PropertyDoc /\ p.life \in {"live", "deleted"} /\ Management!TenancyMatchesStatus(p)

ManagementShape ==
    /\ IsManagement(view) /\ Proper /\ IsWorld(world)
    /\ Kept(world.now) /\ Kept(world.settled)
    /\ view.row # None => Kept(view.row) /\ view.row.life = "live"
    /\ view.dialog \in Management!Actions \cup {None}
    /\ \A c \in calls : c.op = "act" => c.arg.action \in Management!Actions

\* After an action was answered the row is up to date, or is going to be.
RowFollows ==
    \/ Seen({"act"})
    \/ /\ world.settled = world.now
       /\ view.typing \/ view.error \/ Pending("list") \/ view.row = Management!Listed(world.now)

ManagementInv ==
    /\ ManagementShape
    /\ view.loading => Pending("list")
    /\ ~view.lost => RowFollows

\* The domain's rules keep tenancy and status together.
LEMMA ManagementEffect ==
  ASSUME NEW p, Kept(p), NEW action \in Management!Actions, Management!Accepted(p, action)
  PROVE  Kept(Management!Effect(p, action))
<1> USE DEF Management!PropertyDoc
<1> PICK e : e = Management!Effect(p, action)
  OBVIOUS
<1>0. /\ p \in Management!PropertyDoc /\ p.life \in {"live", "deleted"}
      /\ p.tenant # None <=> p.status \in Management!Rental
  BY ZenonT(20) DEF Kept, Management!TenancyMatchesStatus
<1>1. /\ "Available" \in Management!PropertyStatus \ Management!Rental
      /\ "OnHold" \in Management!PropertyStatus \ Management!Rental
  BY ZenonT(20) DEF Management!PropertyStatus, Management!Rental
<1>2. CASE action = "evict"
  <2>1. e = [p EXCEPT !.status = "Available", !.tenant = None]
    BY <1>2, ZenonT(20) DEF Management!Effect, Management!EvictTenant
  <2>2. e \in Management!PropertyDoc /\ e.life = p.life /\ e.status = "Available" /\ e.tenant = None
    BY <1>0, <1>1, <2>1, ZenonT(20)
  <2>3. QED
    BY <1>0, <1>1, <2>2, ZenonT(20) DEF Kept, Management!TenancyMatchesStatus
<1>3. CASE action = "release"
  <2> PICK q : q = Management!MakeAvailable(p)
    OBVIOUS
  <2>1. e = [q EXCEPT !.announcement = "none"]
    BY <1>3, ZenonT(20) DEF Management!Effect, Management!ClearBookingAnnouncement
  <2>2. /\ q \in Management!PropertyDoc /\ q.life = p.life /\ q.status = "Available" /\ q.tenant = p.tenant
    BY <1>0, <1>1, ZenonT(20) DEF Management!MakeAvailable
  <2>3. /\ e \in Management!PropertyDoc /\ e.life = p.life /\ e.status = "Available" /\ e.tenant = p.tenant
    BY <2>1, <2>2, ZenonT(20)
  <2>4. p.tenant = None
    BY <1>3, ZenonT(20) DEF Management!Accepted, Management!CanMakeAvailable
  <2>5. QED
    BY <1>0, <1>1, <2>3, <2>4, ZenonT(20) DEF Kept, Management!TenancyMatchesStatus
<1>4. CASE action = "hold"
  <2>1. e = [p EXCEPT !.status = "OnHold"]
    BY <1>4, ZenonT(20) DEF Management!Effect, Management!PlaceOnHold
  <2>2. e \in Management!PropertyDoc /\ e.life = p.life /\ e.status = "OnHold" /\ e.tenant = p.tenant
    BY <1>0, <1>1, <2>1, ZenonT(20)
  <2>3. p.tenant = None
    BY <1>4, ZenonT(20) DEF Management!Accepted, Management!CanPlaceOnHold
  <2>4. QED
    BY <1>0, <1>1, <2>2, <2>3, ZenonT(20) DEF Kept, Management!TenancyMatchesStatus
<1>5. CASE action = "remove"
  <2> PICK q : q = Management!Deleted(p)
    OBVIOUS
  <2>1. e = [q EXCEPT !.announcement = "none"]
    BY <1>5, ZenonT(20) DEF Management!Effect, Management!ClearBookingAnnouncement
  <2>2. q \in Management!PropertyDoc /\ q.life = "deleted" /\ q.status = p.status /\ q.tenant = p.tenant
    BY <1>0, ZenonT(20) DEF Management!Deleted
  <2>3. e \in Management!PropertyDoc /\ e.life = "deleted" /\ e.status = p.status /\ e.tenant = p.tenant
    BY <2>1, <2>2, ZenonT(20)
  <2>4. QED
    BY <1>0, <2>3, ZenonT(20) DEF Kept, Management!TenancyMatchesStatus
<1>6. QED
  BY <1>2, <1>3, <1>4, <1>5, ZenonT(20) DEF Management!Actions

\* Only what was not removed is listed.
LEMMA ManagementListed ==
  ASSUME NEW p, Kept(p)
  PROVE  Management!Listed(p) # None => Kept(Management!Listed(p)) /\ Management!Listed(p).life = "live"
<1>1. CASE p.life = "deleted"
  BY <1>1, ZenonT(20) DEF Management!Listed
<1>2. CASE p.life # "deleted"
  <2>1. Management!Listed(p) = p
    BY <1>2, ZenonT(20) DEF Management!Listed
  <2>2. QED
    BY <1>2, <2>1, ZenonT(20) DEF Kept
<1>3. QED
  BY <1>1, <1>2, Zenon

\* Opened, the page waits for the list.
LEMMA ManagementInit == Management!Init => ManagementInv
<1> SUFFICES ASSUME Management!Init PROVE ManagementInv
  OBVIOUS
<1>1. PICK role : view = Management!Opened(role)
  BY ZenonT(20) DEF Management!Init
<1>2. IsManagement(view) /\ view.row = None /\ view.dialog = None
  BY <1>1, ZenonT(20) DEF Management!Opened, IsManagement
<1>3. PICK p \in Management!Properties : world = [now |-> p, settled |-> p]
  BY ZenonT(20) DEF Management!Init
<1>4. IsWorld(world) /\ world.now = p /\ world.settled = p
  BY <1>3, ZenonT(20) DEF IsWorld
<1>5. Kept(p)
  BY ZenonT(20) DEF Kept, Management!Properties, Management!PropertyDoc
<1>6. Proper /\ \E x \in calls : Asking(x, "list", None) /\ \A d \in calls : d = x
  BY OpensWith, ZenonT(20) DEF Management!Init, Management!Call
<1>7. Pending("list") /\ \A c \in calls : c.op # "act"
  BY <1>6, ZenonT(20) DEF Asking, Pending
<1>8. ManagementShape
  BY <1>2, <1>4, <1>5, <1>6, <1>7, ZenonT(20) DEF ManagementShape
<1>9. QED
  BY <1>4, <1>7, <1>8, ZenonT(20) DEF ManagementInv, RowFollows

\* An answered action reads the list again.
LEMMA ManagementStep ==
  ASSUME ManagementInv, Management!Next
  PROVE  ManagementInv'
<1> USE DEF Management!Under, Management!Ends, Management!Fresh
<1>0. /\ ManagementShape /\ IsManagement(view) /\ Proper /\ IsWorld(world) /\ Kept(world.now) /\ Kept(world.settled)
      /\ (view.loading => Pending("list")) /\ (~view.lost => RowFollows)
  BY Zenon DEF ManagementInv, ManagementShape
\* What only dialog and filters change, keeps the rest.
<1>1. ASSUME IsManagement(view'), calls' = calls, world' = world, view'.row = view.row,
             view'.typing \/ ~view.typing, view'.loading = view.loading, view'.error = view.error,
             view'.lost = view.lost, view'.dialog \in Management!Actions \cup {None}
      PROVE  ManagementInv'
  <2>1. ManagementShape'
    BY <1>0, <1>1, ZenonT(20) DEF ManagementShape, Proper
  <2>2. Pending("list")' = Pending("list") /\ Seen({"act"})' = Seen({"act"})
    BY <1>1, ZenonT(20) DEF Pending, Seen
  <2>3. RowFollows => RowFollows'
    BY <1>1, <2>2, ZenonT(20) DEF RowFollows
  <2>4. QED
    BY <1>0, <1>1, <2>1, <2>2, <2>3, ZenonT(20) DEF ManagementInv
<1>2. CASE Management!ChangeFilters
  <2>1. /\ IsManagement(view') /\ view'.row = view.row /\ view'.typing /\ view'.loading = view.loading
        /\ view'.error = view.error /\ view'.lost = view.lost /\ view'.dialog = view.dialog
    BY <1>0, <1>2, ZenonT(20) DEF Management!ChangeFilters, IsManagement
  <2>2. calls' = calls /\ world' = world
    BY <1>2, ZenonT(20) DEF Management!ChangeFilters
  <2>3. QED
    BY <1>0, <1>1, <2>1, <2>2, ZenonT(20) DEF ManagementShape
<1>3. ASSUME NEW d \in Management!Actions \cup {None}, view' = [view EXCEPT !.dialog = d],
             calls' = calls, world' = world
      PROVE  ManagementInv'
  <2>1. /\ IsManagement(view') /\ view'.row = view.row /\ view'.typing = view.typing
        /\ view'.loading = view.loading
        /\ view'.error = view.error /\ view'.lost = view.lost /\ view'.dialog = d
    BY <1>0, <1>3, ZenonT(20) DEF IsManagement
  <2>2. QED
    BY <1>1, <1>3, <2>1, ZenonT(20)
<1>4. CASE Management!Debounced
  <2> PICK x : x = [op |-> "list", arg |-> None, seen |-> FALSE]
    OBVIOUS
  <2>1. world' = world /\ calls' = (calls \ {c \in calls : c.op = "list"}) \cup {x}
    BY <1>4, ZenonT(20) DEF Management!Debounced, Management!Switch, Management!Call
  <2>2. Asking(x, "list", None)
    BY ZenonT(20) DEF Asking, IsCall
  <2>3. /\ IsManagement(view') /\ view'.row = view.row /\ view'.lost = view.lost /\ view'.dialog = view.dialog
    BY <1>0, <1>4, ZenonT(20) DEF Management!Debounced, IsManagement
  <2>4. x \in calls' /\ (\A d \in calls' : d = x \/ d \in calls) /\ \A d \in calls : d.op = "list" \/ d \in calls'
    BY <2>1, ZenonT(20)
  <2>5. Proper' /\ Pending("list")' /\ (Seen({"act"}) => Seen({"act"})')
    BY <1>0, <2>2, <2>4, ZenonT(20) DEF Asking, Proper, Pending, Seen
  <2>6. ManagementShape'
    BY <1>0, <2>1, <2>2, <2>3, <2>4, <2>5, ZenonT(20) DEF ManagementShape, Asking
  <2>7. RowFollows => RowFollows'
    BY <2>1, <2>5, ZenonT(20) DEF RowFollows
  <2>8. QED
    BY <1>0, <2>3, <2>5, <2>6, <2>7, ZenonT(20) DEF ManagementInv
\* A read shows a row, or a row after a preview.
<1>5. ASSUME NEW c \in calls, c.op = "list", Management!Shows(c)
      PROVE  /\ Proper'
             /\ \A d \in calls' : d \in calls \/ d.op = "list"
             /\ \A d \in calls : d.op = "list" \/ d \in calls'
  <2>1. CASE calls' = calls \ {c}
    BY <1>0, <1>5, <2>1, ZenonT(20) DEF Proper
  <2>2. CASE calls' = (calls \ {c}) \cup {[c EXCEPT !.seen = TRUE]}
    <3>1. PICK x \in calls' : /\ x.op = c.op /\ x.arg = c.arg /\ x.seen
                              /\ \A d \in calls' : d = x \/ (d \in calls /\ d # c)
      BY <1>0, <2>2, Marked, ZenonT(20)
    <3>2. Proper' /\ \A d \in calls : d = c \/ d \in calls'
      BY <1>0, <2>2, Marked, ZenonT(20)
    <3>3. QED
      BY <1>5, <3>1, <3>2, ZenonT(20)
  <2>3. QED
    BY <1>5, <2>1, <2>2, ZenonT(20) DEF Management!Shows, Management!Previews
<1>6. CASE Management!Receive
  <2> PICK c \in calls, p \in {world.now, world.settled} :
           /\ c.op = "list" /\ Management!Shows(c) /\ world' = world
           /\ view' = [view EXCEPT !.row = Management!Listed(p), !.loading = FALSE]
    BY <1>6, ZenonT(20) DEF Management!Receive
  <2>1. /\ IsManagement(view') /\ view'.row = Management!Listed(p) /\ ~view'.loading
        /\ view'.lost = view.lost /\ view'.dialog = view.dialog
    BY <1>0, ZenonT(20) DEF IsManagement
  <2>2. /\ Proper'
        /\ \A d \in calls' : d \in calls \/ d.op = "list"
        /\ \A d \in calls : d.op = "list" \/ d \in calls'
    BY <1>5, ZenonT(20)
  <2>3. Kept(p)
    BY <1>0, ZenonT(20)
  <2>4. ManagementShape'
    BY <1>0, <2>1, <2>2, <2>3, ManagementListed, ZenonT(20) DEF ManagementShape
  <2>5. Seen({"act"}) => Seen({"act"})'
    BY <2>2, ZenonT(20) DEF Seen
  <2>6. RowFollows => RowFollows'
    BY <2>1, <2>5, ZenonT(20) DEF RowFollows
  <2>7. QED
    BY <1>0, <2>1, <2>4, <2>6, ZenonT(20) DEF ManagementInv
<1>7. CASE Management!Fail
  <2> PICK c \in calls : /\ c.op = "list" /\ calls' = calls \ {c} /\ world' = world
                         /\ view' = [view EXCEPT !.loading = FALSE, !.error = TRUE]
    BY <1>7, ZenonT(20) DEF Management!Fail
  <2>1. /\ IsManagement(view') /\ view'.row = view.row /\ ~view'.loading /\ view'.error
        /\ view'.lost = view.lost /\ view'.dialog = view.dialog
    BY <1>0, ZenonT(20) DEF IsManagement
  <2>2. /\ Proper' /\ (\A d \in calls' : d \in calls) /\ \A d \in calls : d.op = "list" \/ d \in calls'
    BY <1>0, ZenonT(20) DEF Proper
  <2>3. ManagementShape'
    BY <1>0, <2>1, <2>2, ZenonT(20) DEF ManagementShape
  <2>4. Seen({"act"}) => Seen({"act"})'
    BY <2>2, ZenonT(20) DEF Seen
  <2>5. RowFollows => RowFollows'
    BY <2>1, <2>4, ZenonT(20) DEF RowFollows
  <2>6. QED
    BY <1>0, <2>1, <2>3, <2>5, ZenonT(20) DEF ManagementInv
<1>8. CASE Management!Quiet
  <2> PICK c \in calls : /\ c.op = "list" /\ c.seen /\ calls' = calls \ {c} /\ view' = view /\ world' = world
    BY <1>8, ZenonT(20) DEF Management!Quiet, Management!EndsQuietly
  <2>1. /\ Proper' /\ (\A d \in calls' : d \in calls) /\ \A d \in calls : d = c \/ d \in calls'
    BY <1>0, ZenonT(20) DEF Proper
  <2>2. (Seen({"act"}) => Seen({"act"})') /\ (Pending("list") => Pending("list")')
    BY <2>1, ZenonT(20) DEF Seen, Pending
  <2>3. ManagementShape'
    BY <1>0, <2>1, ZenonT(20) DEF ManagementShape
  <2>4. RowFollows => RowFollows'
    BY <2>2, ZenonT(20) DEF RowFollows
  <2>5. QED
    BY <1>0, <2>2, <2>3, <2>4, ZenonT(20) DEF ManagementInv
<1>9. CASE Management!Confirm
  <2>1. view.dialog \in Management!Actions
    BY <1>0, <1>9, ZenonT(20) DEF Management!Confirm, ManagementShape
  <2>2. /\ IsManagement(view') /\ view'.row = view.row /\ view'.typing = view.typing
        /\ view'.loading = view.loading
        /\ view'.error = view.error /\ view'.lost = view.lost /\ view'.dialog = None
    BY <1>0, <1>9, ZenonT(20) DEF Management!Confirm, IsManagement
  <2>3. PICK nr, q : /\ q = [action |-> view.dialog, nr |-> nr] /\ world' = world
                     /\ calls' = calls \cup {[op |-> "act", arg |-> q, seen |-> FALSE]}
    BY <1>9, ZenonT(20) DEF Management!Confirm, Management!Subscribe, Management!Call
  <2>4. PICK x \in calls' : Asking(x, "act", q) /\ \A d \in calls' : d = x \/ d \in calls
    BY <1>0, <2>3, Begins, ZenonT(20)
  <2>5. Proper' /\ \A d \in calls : d \in calls'
    BY <1>0, <2>3, Begins, ZenonT(20)
  <2>6. q.action = view.dialog
    BY <2>3, ZenonT(20)
  <2>7. ManagementShape'
    BY <1>0, <2>1, <2>2, <2>3, <2>4, <2>5, <2>6, ZenonT(20) DEF ManagementShape, Asking
  <2>8. (Seen({"act"}) => Seen({"act"})') /\ (Pending("list") => Pending("list")')
    BY <2>5, ZenonT(20) DEF Seen, Pending
  <2>9. RowFollows => RowFollows'
    BY <2>2, <2>3, <2>8, ZenonT(20) DEF RowFollows
  <2>10. QED
    BY <1>0, <2>2, <2>7, <2>8, <2>9, ZenonT(20) DEF ManagementInv
<1>10. CASE Management!Execute
  <2> PICK c \in calls :
        /\ c.op = "act" /\ Management!Executes(c) /\ Management!Accepted(world.now, c.arg.action)
        /\ world' = [world EXCEPT !.now = Management!Effect(world.now, c.arg.action)] /\ view' = view
    BY <1>10, ZenonT(20) DEF Management!Execute, Management!Commit
  <2>1. /\ IsWorld(world') /\ world'.now = Management!Effect(world.now, c.arg.action)
        /\ world'.settled = world.settled
    BY <1>0, Committed, ZenonT(20)
  <2>2. Kept(world'.now)
    BY <1>0, <2>1, ManagementEffect, ZenonT(20) DEF ManagementShape
  <2>3. calls' = (calls \ {c}) \cup {[c EXCEPT !.seen = TRUE]}
    BY ZenonT(20) DEF Management!Executes
  <2>4. PICK x \in calls' : /\ x.op = c.op /\ x.arg = c.arg /\ x.seen
                            /\ \A d \in calls' : d = x \/ (d \in calls /\ d # c)
    BY <1>0, <2>3, Marked, ZenonT(20)
  <2>5. Proper' /\ \A d \in calls : d = c \/ d \in calls'
    BY <1>0, <2>3, Marked, ZenonT(20)
  <2>6. ManagementShape'
    BY <1>0, <2>1, <2>2, <2>4, <2>5, ZenonT(20) DEF ManagementShape
  <2>7. Seen({"act"})' /\ (Pending("list") => Pending("list")')
    BY <2>4, <2>5, ZenonT(20) DEF Seen, Pending
  <2>8. QED
    BY <1>0, <2>6, <2>7, ZenonT(20) DEF ManagementInv, RowFollows
\* An action was answered, with a success or an error.
<1>11. ASSUME NEW c \in calls, c.op = "act", calls' = calls \ {c}, IsManagement(view'),
              world' = [world EXCEPT !.settled = world.now], view'.row = view.row,
              view'.loading = view.loading, view'.dialog = view.dialog,
              view'.typing \/ view'.lost
       PROVE  ManagementInv'
  <2>1. IsWorld(world') /\ world'.now = world.now /\ world'.settled = world.now
    BY <1>0, <1>11, Settled, ZenonT(20)
  <2>2. /\ Proper' /\ (\A d \in calls' : d \in calls) /\ \A d \in calls : d = c \/ d \in calls'
    BY <1>0, <1>11, ZenonT(20) DEF Proper
  <2>3. Pending("list") => Pending("list")'
    BY <1>11, <2>2, ZenonT(20) DEF Pending
  <2>4. ManagementShape'
    BY <1>0, <1>11, <2>1, <2>2, ZenonT(20) DEF ManagementShape
  <2>5. QED
    BY <1>0, <1>11, <2>1, <2>3, <2>4, ZenonT(20) DEF ManagementInv, RowFollows
<1>12. CASE Management!Succeed
  <2> PICK c \in calls : /\ c.op = "act" /\ calls' = calls \ {c} /\ view' = [view EXCEPT !.typing = TRUE]
                         /\ world' = [world EXCEPT !.settled = world.now]
    BY <1>12, ZenonT(20) DEF Management!Succeed, Management!Succeeds, Management!Settle
  <2>1. /\ IsManagement(view') /\ view'.row = view.row /\ view'.typing /\ view'.loading = view.loading
        /\ view'.dialog = view.dialog
    BY <1>0, ZenonT(20) DEF IsManagement
  <2>2. QED
    BY <1>11, <2>1, ZenonT(20)
<1>13. CASE Management!Lose
  <2> PICK c \in calls : /\ c.op = "act" /\ calls' = calls \ {c} /\ view' = [view EXCEPT !.lost = TRUE]
                         /\ world' = [world EXCEPT !.settled = world.now]
    BY <1>13, ZenonT(20) DEF Management!Lose
  <2>1. /\ IsManagement(view') /\ view'.row = view.row /\ view'.lost /\ view'.loading = view.loading
        /\ view'.dialog = view.dialog
    BY <1>0, ZenonT(20) DEF IsManagement
  <2>2. QED
    BY <1>11, <2>1, ZenonT(20)
<1>14. ASSUME NEW a \in Management!Actions, Management!OpenDialog(a) PROVE ManagementInv'
  <2>1. view' = [view EXCEPT !.dialog = a] /\ calls' = calls /\ world' = world
    BY <1>14, ZenonT(20) DEF Management!OpenDialog
  <2>2. QED
    BY <1>3, <2>1, ZenonT(20)
<1>15. CASE Management!Dismiss
  <2>1. view' = [view EXCEPT !.dialog = None] /\ calls' = calls /\ world' = world
    BY <1>15, ZenonT(20) DEF Management!Dismiss
  <2>2. QED
    BY <1>3, <2>1, ZenonT(20)
<1>16. QED
  BY <1>2, <1>4, <1>6, <1>7, <1>8, <1>9, <1>10, <1>12, <1>13, <1>14, <1>15, Zenon
     DEF Management!Next, Management!Answer

\* Hence the row follows the actions, and what it offers is accepted.
LEMMA ManagementFollows ==
  ManagementInv => Management!RowFollowsActions /\ Management!OffersAreAccepted /\ Management!SpinnersTurn
<1> SUFFICES ASSUME ManagementInv
             PROVE  Management!RowFollowsActions /\ Management!OffersAreAccepted /\ Management!SpinnersTurn
  OBVIOUS
<1> USE DEF Management!Waiting, Management!Under
<1>0. ManagementShape
  BY Zenon DEF ManagementInv
<1>1. Management!SpinnersTurn
  BY ZenonT(20) DEF ManagementInv, Pending, Management!SpinnersTurn
<1>2. Management!RowFollowsActions
  <2> SUFFICES ASSUME calls = {}, ~view.typing, ~view.error, ~view.lost
               PROVE  /\ view.row = Management!Listed(world.now)
                      /\ Management!Screen = "nothing found" <=> world.now.life = "deleted"
    BY ZenonT(20) DEF Management!RowFollowsActions
  <2>1. ~Seen({"act"}) /\ ~Pending("list")
    BY ZenonT(20) DEF Seen, Pending
  <2>2. view.row = Management!Listed(world.now) /\ ~view.loading
    BY <2>1, ZenonT(20) DEF ManagementInv, RowFollows
  <2>3. world.now # None
    BY <1>0, ManagementAssumption, ZenonT(20) DEF ManagementShape, Kept
  <2>4. CASE world.now.life = "deleted"
    <3>1. view.row = None
      BY <2>2, <2>4, ZenonT(20) DEF Management!Listed
    <3>2. Management!Screen = "nothing found"
      BY <2>2, <3>1, ZenonT(20) DEF Management!Screen
    <3>3. QED
      BY <2>2, <2>4, <3>2, Zenon
  <2>5. CASE world.now.life # "deleted"
    <3>1. view.row # None
      BY <2>2, <2>3, <2>5, ZenonT(20) DEF Management!Listed
    <3>2. Management!Screen # "nothing found"
      BY <3>1, ZenonT(20) DEF Management!Screen
    <3>3. QED
      BY <2>2, <2>5, <3>2, Zenon
  <2>6. QED
    BY <2>4, <2>5, Zenon
<1>3. Management!OffersAreAccepted
  <2> SUFFICES ASSUME NEW action \in Management!Actions \cup {"sell", "book"},
                      view.row # None, view.row.active, Management!Offered(view.row, action),
                      action = "remove" => view.row.tenant = None
               PROVE  Management!Accepted(view.row, action)
    BY ZenonT(20) DEF Management!OffersAreAccepted
  <2> PICK p : p = view.row
    OBVIOUS
  <2>1. Kept(p) /\ p.life = "live" /\ Management!EnsureActive(p) /\ Management!Offered(p, action)
    BY <1>0, ZenonT(20) DEF ManagementShape, Management!EnsureActive
  <2>2. p.tenant # None <=> p.status \in Management!Rental
    BY <2>1, ZenonT(20) DEF Kept, Management!TenancyMatchesStatus
  <2>3. CASE action = "sell"
    <3>1. p.status \in {"Available", "Booked"}
      BY <2>1, <2>3, ZenonT(20) DEF Management!Offered
    <3>2. QED
      BY <2>1, <2>3, <3>1, ZenonT(20) DEF Management!Accepted, Management!CanAssignTenant
  <2>4. CASE action = "book"
    <3>1. Management!CanBook(p)
      BY <2>1, <2>4, ZenonT(20) DEF Management!Offered
    <3>2. Management!CanMarkBooked(p)
      BY <2>1, <3>1, ZenonT(20) DEF Management!CanBook, Management!CanMarkBooked, Management!IsOccupied
    <3>3. QED
      BY <2>4, <3>2, ZenonT(20) DEF Management!Accepted
  <2>5. CASE action = "evict"
    <3>1. p.tenant # None /\ Management!CanEvict
      BY <2>1, <2>5, ZenonT(20) DEF Management!Offered
    <3>2. QED
      BY <2>1, <2>2, <2>5, <3>1, ZenonT(20) DEF Management!Accepted, Management!CanEvictTenant
  <2>6. CASE action = "release"
    <3>1. \/ p.status = "Booked"
          \/ Management!IsManager /\ p.status \in {"Auction", "OnHold"}
      BY <2>1, <2>6, ZenonT(20) DEF Management!Offered
    <3>2. p.tenant = None /\ (p.status \in {"Auction", "OnHold"} => Management!IsManager)
      BY <2>2, <3>1, ZenonT(20) DEF Management!Rental
    <3>3. QED
      BY <2>1, <2>6, <3>2, ZenonT(20) DEF Management!Accepted, Management!CanMakeAvailable
  <2>7. CASE action = "hold"
    <3>1. Management!IsManager /\ p.tenant = None
      BY <2>1, <2>7, ZenonT(20) DEF Management!Offered
    <3>2. QED
      BY <2>1, <2>2, <2>7, <3>1, ZenonT(20) DEF Management!Accepted, Management!CanPlaceOnHold
  <2>8. CASE action = "remove"
    <3>1. Management!IsManager
      BY <2>1, <2>8, ZenonT(20) DEF Management!Offered
    <3>2. QED
      BY <2>1, <2>8, <3>1, ZenonT(20) DEF Management!Accepted
  <2>9. QED
    BY <2>3, <2>4, <2>5, <2>6, <2>7, <2>8, ZenonT(20) DEF Management!Actions
<1>4. QED
  BY <1>1, <1>2, <1>3, Zenon

-----------------------------------------------------------------------------
(* The properties with bookings.                                           *)

IsGroups(v) ==
    v \in [groups : {v.groups}, loading : BOOLEAN, updatingAnnouncement : {v.updatingAnnouncement},
           dialog : {v.dialog}, closingGroup : {v.closingGroup}, lost : BOOLEAN]
GroupStates == {"pending", "posted", "closed"}
Posts(c) == c.op \in {"post", "summary"}

GroupsShape ==
    /\ IsGroups(view) /\ Proper /\ IsWorld(world)
    /\ view.groups \in [Groups -> GroupStates]
    /\ world.now \in [Groups -> GroupStates] /\ world.settled \in [Groups -> GroupStates]
    /\ \A c \in calls : Posts(c) => c.arg.group \in Groups /\ c.arg.to \in {"pending", "posted"}
    /\ \A c \in calls : c.op = "close" => c.arg.group \in Groups

\* One announcement and one closing are under way at a time.
GroupsTurn ==
    /\ \A c, d \in calls : Posts(c) /\ Posts(d) => c = d
    /\ Single("close")
    /\ view.updatingAnnouncement # None <=> \E c \in calls : Posts(c)
    /\ view.closingGroup # None <=> Asked("close")
    /\ view.dialog # None => view.dialog \in Groups /\ view.closingGroup = None
    /\ view.loading => Pending("groups")

\* What was executed is on the server; a group that was closed stays closed.
GroupsStored ==
    \A c \in calls :
        /\ c.op = "summary" \/ (c.op = "post" /\ c.seen) =>
              world.now[c.arg.group] = c.arg.to \/ world.now[c.arg.group] = "closed"
        /\ c.op = "close" /\ c.seen => world.now[c.arg.group] = "closed"

\* A change of group g whose answer is still to come.
Closes(g) == \E c \in calls : c.op = "close" /\ c.seen /\ c.arg.group = g
Reaches(g, ops) == \E c \in calls : c.op \in ops /\ (c.seen \/ c.op = "summary") /\ c.arg.group = g
Answered == {"post", "close"}
OnScreen == {"post", "close", "summary"}

\* A list differs from the server's in what is about to be answered, and shows no
\* group as closed that is not.
Behind(data, ops) ==
    \A g \in Groups :
        /\ data[g] = "closed" => world.now[g] = "closed"
        /\ data[g] # "closed" /\ world.now[g] = "closed" => Closes(g)
        /\ data[g] = world.now[g] \/ Reaches(g, ops)

GroupsBehind ==
    /\ Behind(world.settled, Answered)
    /\ ~view.loading => Behind(view.groups, OnScreen)

GroupsInv == GroupsShape /\ GroupsTurn /\ (~view.lost => GroupsStored /\ GroupsBehind)

\* Opened, the page waits for the list.
LEMMA GroupsInit == GroupBookings!Init => GroupsInv
<1> SUFFICES ASSUME GroupBookings!Init PROVE GroupsInv
  OBVIOUS
<1>1. /\ IsGroups(view) /\ view.loading /\ view.updatingAnnouncement = None /\ view.closingGroup = None
      /\ view.dialog = None /\ view.groups = [g \in Groups |-> "closed"]
  BY ZenonT(20) DEF GroupBookings!Init, GroupBookings!Opened, IsGroups
<1>2. view.groups \in [Groups -> GroupStates]
  BY <1>1, ZenonT(20) DEF GroupStates
<1>3. IsWorld(world) /\ world.settled = world.now /\ world.now \in [Groups -> GroupStates]
  <2>1. PICK data \in [Groups -> GroupBookings!Announcement] : world = [now |-> data, settled |-> data]
    BY ZenonT(20) DEF GroupBookings!Init
  <2>2. data \in [Groups -> GroupStates]
    BY SMT DEF GroupStates, GroupBookings!Announcement
  <2>3. QED
    BY <2>1, <2>2, ZenonT(20) DEF IsWorld
<1>4. Proper /\ \E x \in calls : Asking(x, "groups", None) /\ \A d \in calls : d = x
  BY OpensWith, ZenonT(20) DEF GroupBookings!Init, GroupBookings!Call
<1>5. Pending("groups") /\ \A c \in calls : c.op # "post" /\ c.op # "summary" /\ c.op # "close"
  BY <1>4, ZenonT(20) DEF Asking, Pending
<1>6. GroupsShape
  BY <1>1, <1>2, <1>3, <1>4, <1>5, ZenonT(20) DEF GroupsShape, Posts
<1>7. GroupsTurn
  BY <1>1, <1>5, ZenonT(20) DEF GroupsTurn, Posts, Single, Asked
<1>8. GroupsStored
  BY <1>5, ZenonT(20) DEF GroupsStored
<1>9. GroupsBehind
  BY <1>1, <1>3, ZenonT(20) DEF GroupsBehind, Behind
<1>10. QED
  BY <1>6, <1>7, <1>8, <1>9, Zenon DEF GroupsInv

\* Requests that neither post nor close come and go.
LEMMA GroupsRead ==
  ASSUME GroupsShape, GroupsTurn,
         IsGroups(view'), view'.groups \in [Groups -> GroupStates], world' = world, Proper',
         view'.updatingAnnouncement = view.updatingAnnouncement, view'.closingGroup = view.closingGroup,
         view'.dialog # None => view'.dialog = view.dialog \/ (view'.dialog \in Groups /\ view.closingGroup = None),
         view'.loading => Pending("groups")',
         \A c \in calls' : c \in calls \/ c.op \in {"groups", "badge"},
         \A c \in calls : c.op \in {"groups", "badge"} \/ c \in calls'
  PROVE  /\ GroupsShape' /\ GroupsTurn' /\ (GroupsStored => GroupsStored')
         /\ \A g : Closes(g)' <=> Closes(g)
         /\ \A g : Reaches(g, Answered)' <=> Reaches(g, Answered)
         /\ \A g : Reaches(g, OnScreen)' <=> Reaches(g, OnScreen)
<1>1. \A op : op \notin {"groups", "badge"} => (Asked(op)' <=> Asked(op)) /\ (Single(op) => Single(op)')
  BY ZenonT(20) DEF Asked, Single
<1>2. (\A c \in calls' : Posts(c) \/ c.op = "close" => c \in calls) /\ (\A c \in calls : Posts(c) \/ c.op = "close" => c \in calls')
  BY ZenonT(20) DEF Posts
<1>3. GroupsShape'
  BY <1>2, ZenonT(20) DEF GroupsShape
<1>4. Asked("close")' <=> Asked("close")
  BY <1>1, ZenonT(20)
<1>5. Single("close")'
  BY <1>1, ZenonT(20) DEF GroupsTurn
<1>6. GroupsTurn'
  BY <1>2, <1>4, <1>5, ZenonT(20) DEF GroupsTurn
<1>7. GroupsStored => GroupsStored'
  BY <1>2, ZenonT(20) DEF GroupsStored, Posts
<1>8. \A g : Closes(g)' <=> Closes(g)
  BY <1>2, ZenonT(20) DEF Closes
<1>9. /\ \A g : Reaches(g, Answered)' <=> Reaches(g, Answered)
      /\ \A g : Reaches(g, OnScreen)' <=> Reaches(g, OnScreen)
  BY <1>2, ZenonT(20) DEF Reaches, Posts, Answered, OnScreen
<1>10. QED
  BY <1>3, <1>6, <1>7, <1>8, <1>9, Zenon

\* What is on screen stays as it was.
LEMMA GroupsKept ==
  ASSUME GroupsInv, IsGroups(view'), view'.groups = view.groups, world' = world, Proper',
         view'.updatingAnnouncement = view.updatingAnnouncement, view'.closingGroup = view.closingGroup,
         view'.dialog # None => view'.dialog = view.dialog \/ (view'.dialog \in Groups /\ view.closingGroup = None),
         view'.loading = view.loading, view'.lost = view.lost, Pending("groups") => Pending("groups")',
         \A c \in calls' : c \in calls \/ c.op \in {"groups", "badge"},
         \A c \in calls : c.op \in {"groups", "badge"} \/ c \in calls'
  PROVE  GroupsInv'
<1>1. GroupsShape /\ GroupsTurn
  BY Zenon DEF GroupsInv
<1>2. /\ GroupsShape' /\ GroupsTurn' /\ (GroupsStored => GroupsStored')
      /\ \A g : Closes(g)' <=> Closes(g)
      /\ \A g : Reaches(g, Answered)' <=> Reaches(g, Answered)
      /\ \A g : Reaches(g, OnScreen)' <=> Reaches(g, OnScreen)
  <2>1. view'.groups \in [Groups -> GroupStates] /\ (view'.loading => Pending("groups")')
    BY <1>1, ZenonT(20) DEF GroupsShape, GroupsTurn
  <2>2. QED
    BY <1>1, <2>1, GroupsRead, ZenonT(20)
<1>3. GroupsBehind => GroupsBehind'
  BY <1>2, ZenonT(20) DEF GroupsBehind, Behind
<1>4. QED
  BY <1>2, <1>3, Zenon DEF GroupsInv

\* One entry of the list changes.
LEMMA GroupPatched ==
  ASSUME NEW f \in [Groups -> GroupStates], NEW g \in Groups, NEW t \in GroupStates,
         NEW h, h = [f EXCEPT ![g] = t]
  PROVE  /\ h \in [Groups -> GroupStates] /\ h[g] = t
         /\ \A k \in Groups : k # g => h[k] = f[k]
BY ZenonT(20)

\* Every answer moves the list to where the server is.
LEMMA GroupsStep ==
  ASSUME GroupsInv, GroupBookings!Next
  PROVE  GroupsInv'
<1> USE DEF GroupBookings!Under, GroupBookings!Ends
<1>0. /\ GroupsShape /\ GroupsTurn /\ IsGroups(view) /\ Proper /\ IsWorld(world)
      /\ (~view.lost => GroupsStored /\ GroupsBehind)
  BY Zenon DEF GroupsInv, GroupsShape
\* A read shows a list, or the list after a preview.
<1>1. ASSUME NEW c \in calls, c.op \in {"groups", "badge"}, GroupBookings!Shows(c)
      PROVE  /\ Proper'
             /\ \A d \in calls' : d \in calls \/ d.op \in {"groups", "badge"}
             /\ \A d \in calls : d.op \in {"groups", "badge"} \/ d \in calls'
  <2>1. CASE calls' = calls \ {c}
    BY <1>0, <1>1, <2>1, ZenonT(20) DEF Proper
  <2>2. CASE calls' = (calls \ {c}) \cup {[c EXCEPT !.seen = TRUE]}
    <3>1. PICK x \in calls' : /\ x.op = c.op /\ x.arg = c.arg /\ x.seen
                              /\ \A d \in calls' : d = x \/ (d \in calls /\ d # c)
      BY <1>0, <2>2, Marked, ZenonT(20)
    <3>2. Proper' /\ \A d \in calls : d = c \/ d \in calls'
      BY <1>0, <2>2, Marked, ZenonT(20)
    <3>3. QED
      BY <1>1, <3>1, <3>2, ZenonT(20)
  <2>3. QED
    BY <1>1, <2>1, <2>2, ZenonT(20) DEF GroupBookings!Shows, GroupBookings!Previews
<1>2. CASE GroupBookings!ReceiveGroups
  <2> PICK c \in calls, data \in {world.now, world.settled} :
           /\ c.op = "groups" /\ GroupBookings!Shows(c) /\ world' = world
           /\ view' = [view EXCEPT !.groups = data, !.loading = FALSE]
    BY <1>2, ZenonT(20) DEF GroupBookings!ReceiveGroups, GroupBookings!Fresh
  <2>1. /\ IsGroups(view') /\ view'.groups = data /\ ~view'.loading /\ view'.lost = view.lost
        /\ view'.updatingAnnouncement = view.updatingAnnouncement
        /\ view'.closingGroup = view.closingGroup /\ view'.dialog = view.dialog
    BY <1>0, ZenonT(20) DEF IsGroups
  <2>2. data \in [Groups -> GroupStates]
    BY <1>0, ZenonT(20) DEF GroupsShape
  <2>3. /\ Proper'
        /\ \A d \in calls' : d \in calls \/ d.op \in {"groups", "badge"}
        /\ \A d \in calls : d.op \in {"groups", "badge"} \/ d \in calls'
    BY <1>1, ZenonT(20)
  <2>4. /\ GroupsShape' /\ GroupsTurn' /\ (GroupsStored => GroupsStored')
        /\ \A g : Closes(g)' <=> Closes(g)
        /\ \A g : Reaches(g, Answered)' <=> Reaches(g, Answered)
        /\ \A g : Reaches(g, OnScreen)' <=> Reaches(g, OnScreen)
    BY <1>0, <2>1, <2>2, <2>3, GroupsRead, ZenonT(20)
  <2>5. \A g : Reaches(g, Answered) => Reaches(g, OnScreen)
    BY ZenonT(20) DEF Reaches, Answered, OnScreen
  <2>6. GroupsBehind => GroupsBehind'
    <3>1. CASE data = world.now
      BY <2>1, <2>4, <3>1, ZenonT(20) DEF GroupsBehind, Behind
    <3>2. CASE data = world.settled
      BY <2>1, <2>4, <2>5, <3>2, ZenonT(20) DEF GroupsBehind, Behind
    <3>3. QED
      BY <3>1, <3>2, Zenon
  <2>7. QED
    BY <1>0, <2>1, <2>4, <2>6, Zenon DEF GroupsInv
<1>3. CASE GroupBookings!FailGroups
  <2> PICK c \in calls : /\ c.op = "groups" /\ calls' = calls \ {c} /\ world' = world
                         /\ view' = [view EXCEPT !.loading = FALSE, !.lost = TRUE]
    BY <1>3, ZenonT(20) DEF GroupBookings!FailGroups
  <2>1. /\ IsGroups(view') /\ view'.groups = view.groups /\ ~view'.loading /\ view'.lost
        /\ view'.updatingAnnouncement = view.updatingAnnouncement
        /\ view'.closingGroup = view.closingGroup /\ view'.dialog = view.dialog
    BY <1>0, ZenonT(20) DEF IsGroups
  <2>2. view'.groups \in [Groups -> GroupStates]
    BY <1>0, <2>1, ZenonT(20) DEF GroupsShape
  <2>3. /\ Proper'
        /\ \A d \in calls' : d \in calls \/ d.op \in {"groups", "badge"}
        /\ \A d \in calls : d.op \in {"groups", "badge"} \/ d \in calls'
    BY <1>1, ZenonT(20) DEF GroupBookings!Shows
  <2>4. GroupsShape' /\ GroupsTurn'
    BY <1>0, <2>1, <2>2, <2>3, GroupsRead, ZenonT(20)
  <2>5. QED
    BY <2>1, <2>4, Zenon DEF GroupsInv
<1>4. ASSUME NEW c \in calls, calls' = calls \ {c}, view' = view, world' = world,
             c.op = "badge" \/ (c.op = "groups" /\ c.seen)
      PROVE  GroupsInv'
  <2>1. /\ Proper'
        /\ \A d \in calls' : d \in calls \/ d.op \in {"groups", "badge"}
        /\ \A d \in calls : d.op \in {"groups", "badge"} \/ d \in calls'
    BY <1>1, <1>4, ZenonT(20) DEF GroupBookings!Shows
  <2>2. Pending("groups") => Pending("groups")'
    BY <1>4, ZenonT(20) DEF Pending
  <2>3. IsGroups(view')
    BY <1>0, <1>4, Zenon
  <2>4. QED
    BY <1>4, <2>1, <2>2, <2>3, GroupsKept, ZenonT(20)
<1>5. CASE GroupBookings!Quiet
  <2> PICK c \in calls : c.op = "groups" /\ c.seen /\ calls' = calls \ {c} /\ view' = view /\ world' = world
    BY <1>5, ZenonT(20) DEF GroupBookings!Quiet, GroupBookings!EndsQuietly
  <2>1. QED
    BY <1>4, ZenonT(20)
<1>6. CASE GroupBookings!ReceiveBadge
  <2> PICK c \in calls : c.op = "badge" /\ calls' = calls \ {c} /\ view' = view /\ world' = world
    BY <1>6, ZenonT(20) DEF GroupBookings!ReceiveBadge
  <2>1. QED
    BY <1>4, ZenonT(20)
\* Requests begin: nothing on screen or at the server changes.
<1>7. ASSUME IsGroups(view'), view'.groups = view.groups, view'.loading = view.loading,
             view'.lost = view.lost, world' = world, Proper', GroupsTurn',
             \A c \in calls : c \in calls',
             \A c \in calls' : c \in calls \/ (~c.seen /\ c.op \in {"post", "close"}
                                               /\ c.arg.group \in Groups
                                               /\ (c.op = "post" => c.arg.to \in {"pending", "posted"}))
      PROVE  GroupsInv'
  <2>1. GroupsShape'
    BY <1>0, <1>7, ZenonT(20) DEF GroupsShape, Posts
  <2>2. GroupsStored => GroupsStored'
    BY <1>7, ZenonT(20) DEF GroupsStored
  <2>3. /\ \A g : Closes(g) => Closes(g)'
        /\ \A g, ops : Reaches(g, ops) => Reaches(g, ops)'
    BY <1>7, ZenonT(20) DEF Closes, Reaches
  <2>4. GroupsBehind => GroupsBehind'
    BY <1>7, <2>3, ZenonT(20) DEF GroupsBehind, Behind
  <2>5. QED
    BY <1>0, <1>7, <2>1, <2>2, <2>4, Zenon DEF GroupsInv
<1>8. ASSUME NEW g \in Groups, GroupBookings!SetAnnouncementPosted(g)
      PROVE  GroupsInv'
  <2>1. /\ IsGroups(view') /\ view'.groups = view.groups /\ view'.loading = view.loading
        /\ view'.lost = view.lost /\ view'.closingGroup = view.closingGroup /\ view'.dialog = view.dialog
        /\ view'.updatingAnnouncement = g
    BY <1>0, <1>8, ZenonT(20) DEF GroupBookings!SetAnnouncementPosted, IsGroups
  <2>2. world' = world /\ view.updatingAnnouncement = None
    BY <1>8, ZenonT(20) DEF GroupBookings!SetAnnouncementPosted
  <2>3. PICK t \in {"pending", "posted"} :
             calls' = calls \cup {[op |-> "post", arg |-> [group |-> g, to |-> t], seen |-> FALSE]}
    <3>1. PICK t : /\ t = IF view.groups[g] = "posted" THEN "pending" ELSE "posted"
                   /\ calls' = calls \cup {[op |-> "post", arg |-> [group |-> g, to |-> t], seen |-> FALSE]}
      BY <1>8, ZenonT(20) DEF GroupBookings!SetAnnouncementPosted, GroupBookings!Subscribe, GroupBookings!Call
    <3>2. t \in {"pending", "posted"}
      BY <3>1, SMT
    <3>3. QED
      BY <3>1, <3>2, ZenonT(20)
  <2> PICK q : q = [group |-> g, to |-> t]
    OBVIOUS
  <2>q. q.group = g /\ q.to = t
    BY ZenonT(20)
  <2>4. PICK x \in calls' : Asking(x, "post", q) /\ \A d \in calls' : d = x \/ d \in calls
    BY <1>0, <2>3, Begins, ZenonT(20)
  <2>5. Proper' /\ \A d \in calls : d \in calls'
    BY <1>0, <2>3, Begins, ZenonT(20)
  <2>6. ~x.seen /\ x.op = "post" /\ x.arg.group = g /\ x.arg.to = t
    BY <2>4, <2>q, ZenonT(20) DEF Asking
  <2>7. g # None
    BY PortfolioAssumption, ZenonT(20)
  <2>8. GroupsTurn'
    <3>1. \A c \in calls : ~Posts(c)
      BY <1>0, <2>2, ZenonT(20) DEF GroupsTurn
    <3>2. Posts(x) /\ \A c, d \in calls' : Posts(c) /\ Posts(d) => c = d
      BY <2>4, <2>6, <3>1, ZenonT(20) DEF Posts
    <3>3. Single("close") => Single("close")'
      BY <2>4, <2>6, ZenonT(20) DEF Single
    <3>4. (Asked("close")' <=> Asked("close")) /\ (Pending("groups") => Pending("groups")')
      BY <2>4, <2>5, <2>6, ZenonT(20) DEF Asked, Pending
    <3>5. QED
      BY <1>0, <2>1, <2>4, <2>7, <3>2, <3>3, <3>4, ZenonT(20) DEF GroupsTurn
  <2>9. QED
    BY <1>7, <2>1, <2>2, <2>4, <2>5, <2>6, <2>8, ZenonT(20)
<1>9. CASE GroupBookings!Confirm
  <2>1. /\ IsGroups(view') /\ view'.groups = view.groups /\ view'.loading = view.loading
        /\ view'.lost = view.lost /\ view'.closingGroup = view.dialog /\ view'.dialog = None
        /\ view'.updatingAnnouncement = view.updatingAnnouncement
    BY <1>0, <1>9, ZenonT(20) DEF GroupBookings!Confirm, IsGroups
  <2>2. world' = world /\ view.dialog # None /\ view.dialog \in Groups /\ ~Asked("close")
    BY <1>0, <1>9, ZenonT(20) DEF GroupBookings!Confirm, GroupsTurn
  <2>3. calls' = calls \cup {[op |-> "close", arg |-> [group |-> view.dialog, to |-> "closed"], seen |-> FALSE]}
    BY <1>9, ZenonT(20) DEF GroupBookings!Confirm, GroupBookings!Subscribe, GroupBookings!Call
  <2> PICK q : q = [group |-> view.dialog, to |-> "closed"]
    OBVIOUS
  <2>q. q.group = view.dialog
    BY ZenonT(20)
  <2>4. PICK x \in calls' : Asking(x, "close", q) /\ \A d \in calls' : d = x \/ d \in calls
    BY <1>0, <2>3, Begins, ZenonT(20)
  <2>5. Proper' /\ \A d \in calls : d \in calls'
    BY <1>0, <2>3, Begins, ZenonT(20)
  <2>6. ~x.seen /\ x.op = "close" /\ x.arg.group = view.dialog
    BY <2>4, <2>q, ZenonT(20) DEF Asking
  <2>7. GroupsTurn'
    <3>1. \A c \in calls' : Posts(c) => c \in calls
      BY <2>4, <2>6, ZenonT(20) DEF Posts
    <3>2. Single("close")' /\ Asked("close")' /\ (Pending("groups") => Pending("groups")')
      BY <2>2, <2>4, <2>5, <2>6, ZenonT(20) DEF Single, Asked, Pending
    <3>3. QED
      BY <1>0, <2>1, <2>2, <2>5, <3>1, <3>2, ZenonT(20) DEF GroupsTurn
  <2>8. QED
    BY <1>7, <2>1, <2>2, <2>4, <2>5, <2>6, <2>7, ZenonT(20)
<1>10. ASSUME NEW g \in Groups, GroupBookings!CloseAll(g) PROVE GroupsInv'
  <2>1. /\ IsGroups(view') /\ view'.groups = view.groups /\ view'.loading = view.loading
        /\ view'.lost = view.lost /\ view'.closingGroup = view.closingGroup /\ view'.dialog = g
        /\ view'.updatingAnnouncement = view.updatingAnnouncement
    BY <1>0, <1>10, ZenonT(20) DEF GroupBookings!CloseAll, IsGroups
  <2>2. world' = world /\ calls' = calls /\ view.closingGroup = None
    BY <1>10, ZenonT(20) DEF GroupBookings!CloseAll
  <2>3. Proper' /\ Pending("groups")' = Pending("groups")
    BY <1>0, <2>2, ZenonT(20) DEF Proper, Pending
  <2>4. QED
    BY <2>1, <2>2, <2>3, GroupsKept, ZenonT(20)
<1>11. CASE GroupBookings!Dismiss
  <2>1. /\ IsGroups(view') /\ view'.groups = view.groups /\ view'.loading = view.loading
        /\ view'.lost = view.lost /\ view'.closingGroup = view.closingGroup /\ view'.dialog = None
        /\ view'.updatingAnnouncement = view.updatingAnnouncement
    BY <1>0, <1>11, ZenonT(20) DEF GroupBookings!Dismiss, IsGroups
  <2>2. world' = world /\ calls' = calls
    BY <1>11, ZenonT(20) DEF GroupBookings!Dismiss
  <2>3. Proper' /\ Pending("groups")' = Pending("groups")
    BY <1>0, <2>2, ZenonT(20) DEF Proper, Pending
  <2>4. QED
    BY <2>1, <2>2, <2>3, GroupsKept, ZenonT(20)
\* A request is executed: its group is where the request wants it.
<1>12. ASSUME NEW c \in calls, c.op \in Answered, NEW g \in Groups, g = c.arg.group, NEW t \in GroupStates,
              c.op = "post" => t = c.arg.to /\ t # "closed", c.op = "close" => t = "closed",
              world.now[g] # "closed", GroupBookings!Executes(c), view' = view,
              world' = [world EXCEPT !.now = [world.now EXCEPT ![g] = t]]
       PROVE  GroupsInv'
  <2>1. /\ IsWorld(world') /\ world'.now = [world.now EXCEPT ![g] = t] /\ world'.settled = world.settled
    BY <1>0, <1>12, Committed, ZenonT(20)
  <2>2. /\ world'.now \in [Groups -> GroupStates] /\ world'.now[g] = t
        /\ \A h \in Groups : h # g => world'.now[h] = world.now[h]
    BY <1>0, <2>1, ZenonT(20) DEF GroupsShape
  <2>3. ~c.seen /\ calls' = (calls \ {c}) \cup {[c EXCEPT !.seen = TRUE]}
    BY <1>12, ZenonT(20) DEF GroupBookings!Executes
  <2>4. PICK x \in calls' : /\ x.op = c.op /\ x.arg = c.arg /\ x.seen
                            /\ \A d \in calls' : d = x \/ (d \in calls /\ d # c)
    BY <1>0, <2>3, Marked, ZenonT(20)
  <2>5. Proper' /\ \A d \in calls : d = c \/ d \in calls'
    BY <1>0, <2>3, Marked, ZenonT(20)
  <2>6. c.op # "groups" /\ c.op # "summary"
    BY <1>12, ZenonT(20) DEF Answered
  <2>7. GroupsShape'
    <3>1. /\ \A d \in calls' : Posts(d) => d.arg.group \in Groups /\ d.arg.to \in {"pending", "posted"}
          /\ \A d \in calls' : d.op = "close" => d.arg.group \in Groups
      BY <1>0, <2>4, ZenonT(20) DEF GroupsShape, Posts
    <3>2. IsGroups(view') /\ view'.groups \in [Groups -> GroupStates] /\ world'.settled \in [Groups -> GroupStates]
      BY <1>0, <1>12, <2>1, ZenonT(20) DEF GroupsShape
    <3>3. QED
      BY <2>1, <2>2, <2>5, <3>1, <3>2, Zenon DEF GroupsShape
  <2>8. GroupsTurn'
    <3>1. (\E d \in calls' : Posts(d)) <=> \E d \in calls : Posts(d)
      BY <2>4, <2>5, ZenonT(20) DEF Posts
    <3>2. /\ Single("close")' /\ (Asked("close")' <=> Asked("close"))
          /\ Pending("groups") => Pending("groups")'
      BY <1>0, <2>4, <2>5, <2>6, ZenonT(20) DEF GroupsTurn, Single, Asked, Pending
    <3>3. \A d, e \in calls' : Posts(d) /\ Posts(e) => d = e
      BY <1>0, <2>4, ZenonT(20) DEF GroupsTurn, Posts
    <3>4. QED
      BY <1>0, <1>12, <3>1, <3>2, <3>3, ZenonT(20) DEF GroupsTurn
  <2>9. GroupsStored => GroupsStored'
    <3>1. SUFFICES ASSUME GroupsStored, NEW d \in calls'
                   PROVE  /\ d.op = "summary" \/ (d.op = "post" /\ d.seen) =>
                                world'.now[d.arg.group] = d.arg.to \/ world'.now[d.arg.group] = "closed"
                          /\ d.op = "close" /\ d.seen => world'.now[d.arg.group] = "closed"
      BY ZenonT(20) DEF GroupsStored
    <3>2. CASE d = x
      BY <1>12, <2>2, <2>4, <2>6, <3>2, ZenonT(20)
    <3>3. CASE d \in calls /\ d # c
      <4>1. /\ d.op = "summary" \/ (d.op = "post" /\ d.seen) =>
                  world.now[d.arg.group] = d.arg.to \/ world.now[d.arg.group] = "closed"
            /\ d.op = "close" /\ d.seen => world.now[d.arg.group] = "closed"
        BY <3>1, <3>3, ZenonT(20) DEF GroupsStored
      <4>2. Posts(d) \/ d.op = "close" => d.arg.group \in Groups
        BY <1>0, <3>3, ZenonT(20) DEF GroupsShape
      <4>3. d.op = "summary" \/ d.op = "post" => c.op = "close"
        BY <1>0, <1>12, <3>3, ZenonT(20) DEF GroupsTurn, Posts, Answered
      <4>4. d.arg.group = g => world'.now[d.arg.group] = t
        BY <2>2, ZenonT(20)
      <4>5. Posts(d) \/ d.op = "close" => d.arg.group = g \/ world'.now[d.arg.group] = world.now[d.arg.group]
        BY <2>2, <4>2, ZenonT(20)
      <4>6. d.op = "close" /\ d.seen => d.arg.group # g
        BY <1>12, <4>1, ZenonT(20)
      <4>7. QED
        BY <1>12, <4>1, <4>3, <4>4, <4>5, <4>6, ZenonT(20) DEF Posts
    <3>4. QED
      BY <2>4, <3>2, <3>3, Zenon
  <2>10. ASSUME NEW data, NEW ops, Answered \subseteq ops, Behind(data, ops)
         PROVE  Behind(data, ops)'
    <3>1. SUFFICES ASSUME NEW h \in Groups
                   PROVE  /\ data[h] = "closed" => world'.now[h] = "closed"
                          /\ data[h] # "closed" /\ world'.now[h] = "closed" => Closes(h)'
                          /\ data[h] = world'.now[h] \/ Reaches(h, ops)'
      BY ZenonT(20) DEF Behind
    <3>2. CASE h = g
      <4>1. Reaches(h, ops)'
        BY <1>12, <2>4, <2>10, <3>2, ZenonT(20) DEF Reaches
      <4>2. t = "closed" => Closes(h)'
        BY <1>12, <2>4, <3>2, ZenonT(20) DEF Closes, Answered
      <4>3. data[h] # "closed"
        BY <1>12, <2>10, <3>2, ZenonT(20) DEF Behind
      <4>4. QED
        BY <2>2, <3>2, <4>1, <4>2, <4>3, ZenonT(20)
    <3>3. CASE h # g
      <4>1. /\ Closes(h) => Closes(h)'
            /\ Reaches(h, ops) => Reaches(h, ops)'
        BY <1>12, <2>5, <3>3, ZenonT(20) DEF Closes, Reaches
      <4>2. QED
        BY <2>2, <2>10, <3>3, <4>1, ZenonT(20) DEF Behind
    <3>4. QED
      BY <3>2, <3>3, Zenon
  <2>11. GroupsBehind => GroupsBehind'
    <3>1. Answered \subseteq OnScreen
      BY ZenonT(20) DEF Answered, OnScreen
    <3>2. PICK s, v : s = world.settled /\ v = view.groups
      OBVIOUS
    <3>3. s = world'.settled /\ v = view'.groups
      BY <1>12, <2>1, <3>2, Zenon
    <3>4. Behind(s, Answered) => Behind(s, Answered)'
      BY <2>10, Zenon
    <3>5. Behind(v, OnScreen) => Behind(v, OnScreen)'
      BY <2>10, <3>1, Zenon
    <3>6. /\ Behind(world.settled, Answered) <=> Behind(s, Answered)
          /\ Behind(world.settled, Answered)' <=> Behind(s, Answered)'
      BY <3>2, <3>3, ZenonT(20) DEF Behind
    <3>7. /\ Behind(view.groups, OnScreen) <=> Behind(v, OnScreen)
          /\ Behind(view.groups, OnScreen)' <=> Behind(v, OnScreen)'
      BY <3>2, <3>3, ZenonT(20) DEF Behind
    <3>8. QED
      BY <1>12, <3>4, <3>5, <3>6, <3>7, ZenonT(20) DEF GroupsBehind
  <2>12. QED
    BY <1>0, <1>12, <2>7, <2>8, <2>9, <2>11, ZenonT(20) DEF GroupsInv
<1>13. CASE GroupBookings!SetBookingAnnouncement
  <2> PICK c \in calls : /\ c.op = "post" /\ world.now[c.arg.group] # "closed"
                         /\ GroupBookings!Executes(c) /\ view' = view
                         /\ world' = [world EXCEPT !.now = [world.now EXCEPT ![c.arg.group] = c.arg.to]]
    BY <1>13, ZenonT(20) DEF GroupBookings!SetBookingAnnouncement, GroupBookings!Commit
  <2>1. c.arg.group \in Groups /\ c.arg.to \in {"pending", "posted"}
    BY <1>0, ZenonT(20) DEF GroupsShape, Posts
  <2>2. c.op \in Answered /\ c.arg.to \in GroupStates /\ c.arg.to # "closed" /\ c.op # "close"
    BY <2>1, ZenonT(20) DEF Answered, GroupStates
  <2>3. QED
    BY <1>12, <2>1, <2>2, ZenonT(20)
<1>14. CASE GroupBookings!CloseAllBookings
  <2> PICK c \in calls : /\ c.op = "close" /\ world.now[c.arg.group] # "closed"
                         /\ GroupBookings!Executes(c) /\ view' = view
                         /\ world' = [world EXCEPT !.now = [world.now EXCEPT ![c.arg.group] = "closed"]]
    BY <1>14, ZenonT(20) DEF GroupBookings!CloseAllBookings, GroupBookings!Commit
  <2>1. c.arg.group \in Groups 
    BY <1>0, ZenonT(20) DEF GroupsShape
  <2>2. c.op \in Answered /\ "closed" \in GroupStates /\ c.op # "post"
    BY ZenonT(20) DEF Answered, GroupStates
  <2>3. QED
    BY <1>12, <2>1, <2>2, ZenonT(20)
<1>15. CASE GroupBookings!RefreshCount
  <2> PICK c \in calls : /\ c.op = "post" /\ c.seen /\ view' = view
                         /\ calls' = (calls \ {c}) \cup {[op |-> "summary", arg |-> c.arg, seen |-> FALSE]}
                         /\ world' = [world EXCEPT !.settled = world.now]
    BY <1>15, ZenonT(20) DEF GroupBookings!RefreshCount, GroupBookings!Settle, GroupBookings!Call
  <2>1. IsWorld(world') /\ world'.now = world.now /\ world'.settled = world.now
    BY <1>0, Settled, ZenonT(20)
  <2>2. PICK x \in calls' : Asking(x, "summary", c.arg) /\ \A d \in calls' : d = x \/ (d \in calls /\ d # c)
    BY <1>0, Follows, ZenonT(20)
  <2>3. Proper' /\ \A d \in calls : d = c \/ d \in calls'
    BY <1>0, Follows, ZenonT(20)
  <2>4. x.op = "summary" /\ x.arg = c.arg /\ ~x.seen
    BY <2>2, ZenonT(20) DEF Asking
  <2>5. GroupsShape'
    BY <1>0, <2>1, <2>2, <2>3, <2>4, ZenonT(20) DEF GroupsShape, Posts
  <2>6. GroupsTurn'
    <3>1. \E d \in calls' : Posts(d)
      BY <2>2, <2>4, ZenonT(20) DEF Posts
    <3>2. /\ Single("close")' /\ (Asked("close")' <=> Asked("close"))
          /\ Pending("groups") => Pending("groups")'
      BY <1>0, <2>2, <2>3, <2>4, ZenonT(20) DEF GroupsTurn, Single, Asked, Pending
    <3>3. \A d, e \in calls' : Posts(d) /\ Posts(e) => d = e
      BY <1>0, <2>2, <2>4, ZenonT(20) DEF GroupsTurn, Posts
    <3>4. view.updatingAnnouncement # None
      BY <1>0, ZenonT(20) DEF GroupsTurn, Posts
    <3>5. QED
      BY <1>0, <3>1, <3>2, <3>3, <3>4, ZenonT(20) DEF GroupsTurn
  <2>7. GroupsStored => GroupsStored'
    BY <2>1, <2>2, <2>4, ZenonT(20) DEF GroupsStored
  <2>8. /\ \A g : Closes(g) => Closes(g)'
        /\ \A g : Reaches(g, OnScreen) => Reaches(g, OnScreen)'
    BY <2>2, <2>3, <2>4, ZenonT(20) DEF Closes, Reaches, OnScreen
  <2>9. GroupsBehind => GroupsBehind'
    BY <2>1, <2>8, ZenonT(20) DEF GroupsBehind, Behind
  <2>10. QED
    BY <1>0, <2>5, <2>6, <2>7, <2>9, ZenonT(20) DEF GroupsInv
<1>16. CASE GroupBookings!Posted
  <2> PICK c \in calls : /\ c.op = "summary" /\ calls' = calls \ {c} /\ world' = world
                         /\ view' = [view EXCEPT !.groups = [view.groups EXCEPT ![c.arg.group] =
                                                                IF @ = "closed" THEN @ ELSE c.arg.to],
                                                 !.updatingAnnouncement = None]
    BY <1>16, ZenonT(20) DEF GroupBookings!Posted
  <2>1. c.arg.group \in Groups /\ c.arg.to \in {"pending", "posted"}
    BY <1>0, ZenonT(20) DEF GroupsShape, Posts
  <2>2. PICK t : t = IF view.groups[c.arg.group] = "closed" THEN "closed" ELSE c.arg.to
    OBVIOUS
  <2>3. /\ IsGroups(view') /\ view'.groups = [view.groups EXCEPT ![c.arg.group] = t]
        /\ view'.loading = view.loading /\ view'.lost = view.lost /\ view'.updatingAnnouncement = None
        /\ view'.closingGroup = view.closingGroup /\ view'.dialog = view.dialog
    BY <1>0, <2>2, ZenonT(20) DEF IsGroups
  <2>4. /\ t \in GroupStates
        /\ view.groups[c.arg.group] = "closed" => t = "closed"
        /\ view.groups[c.arg.group] # "closed" => t = c.arg.to /\ t # "closed"
    BY <2>1, <2>2, SMT DEF GroupStates
  <2>5. /\ view'.groups \in [Groups -> GroupStates] /\ view'.groups[c.arg.group] = t
        /\ \A h \in Groups : h # c.arg.group => view'.groups[h] = view.groups[h]
    <3>1. PICK f, h : f = view.groups /\ h = view'.groups
      OBVIOUS
    <3>2. f \in [Groups -> GroupStates] /\ h = [f EXCEPT ![c.arg.group] = t]
      BY <1>0, <2>3, <3>1, Zenon DEF GroupsShape
    <3>3. /\ h \in [Groups -> GroupStates] /\ h[c.arg.group] = t
          /\ \A k \in Groups : k # c.arg.group => h[k] = f[k]
      BY <2>1, <2>4, <3>2, GroupPatched, ZenonT(20)
    <3>4. QED
      BY <3>1, <3>3, ZenonT(20)
  <2>6. Proper' /\ (\A d \in calls' : d \in calls /\ d # c) /\ \A d \in calls : d = c \/ d \in calls'
    BY <1>0, ZenonT(20) DEF Proper
  <2>7. GroupsShape'
    BY <1>0, <2>3, <2>5, <2>6, ZenonT(20) DEF GroupsShape
  <2>8. GroupsTurn'
    <3>1. \A d \in calls' : ~Posts(d)
      BY <1>0, <2>6, ZenonT(20) DEF GroupsTurn, Posts
    <3>2. /\ Single("close")' /\ (Asked("close")' <=> Asked("close"))
          /\ Pending("groups") => Pending("groups")'
      BY <1>0, <2>6, ZenonT(20) DEF GroupsTurn, Single, Asked, Pending
    <3>3. QED
      BY <1>0, <2>3, <3>1, <3>2, ZenonT(20) DEF GroupsTurn
  <2>9. GroupsStored => GroupsStored'
    BY <2>6, ZenonT(20) DEF GroupsStored
  <2>10. /\ \A h : Closes(h) => Closes(h)'
         /\ \A h : Reaches(h, Answered) => Reaches(h, Answered)'
         /\ \A h : h # c.arg.group => (Reaches(h, OnScreen) => Reaches(h, OnScreen)')
         /\ \A h : Closes(h)' => Reaches(h, OnScreen)'
    BY <2>6, ZenonT(20) DEF Closes, Reaches, Answered, OnScreen
  <2>11. GroupsStored /\ GroupsBehind => GroupsBehind'
    <3>1. ASSUME GroupsBehind PROVE Behind(world.settled, Answered)'
      BY <2>10, <3>1, ZenonT(20) DEF GroupsBehind, Behind
    <3>2. ASSUME GroupsStored, GroupsBehind, ~view'.loading, NEW h \in Groups
          PROVE  /\ view'.groups[h] = "closed" => world.now[h] = "closed"
                 /\ view'.groups[h] # "closed" /\ world.now[h] = "closed" => Closes(h)'
                 /\ view'.groups[h] = world.now[h] \/ Reaches(h, OnScreen)'
      <4>1. /\ view.groups[h] = "closed" => world.now[h] = "closed"
            /\ view.groups[h] # "closed" /\ world.now[h] = "closed" => Closes(h)
            /\ view.groups[h] = world.now[h] \/ Reaches(h, OnScreen)
        BY <2>3, <3>2, ZenonT(20) DEF GroupsBehind, Behind
      <4>2. CASE h # c.arg.group
        BY <2>5, <2>10, <4>1, <4>2, ZenonT(20)
      <4>3. CASE h = c.arg.group
        <5>1. world.now[h] = c.arg.to \/ world.now[h] = "closed"
          BY <3>2, <4>3, ZenonT(20) DEF GroupsStored
        <5>2. CASE view.groups[h] = "closed"
          BY <2>4, <2>5, <4>1, <4>3, <5>2, ZenonT(20)
        <5>3. CASE view.groups[h] # "closed"
          BY <2>4, <2>5, <2>10, <4>1, <4>3, <5>1, <5>3, ZenonT(20)
        <5>4. QED
          BY <5>2, <5>3, Zenon
      <4>4. QED
        BY <4>2, <4>3, Zenon
    <3>3. GroupsStored /\ GroupsBehind /\ ~view'.loading => Behind(view.groups, OnScreen)'
      BY <3>2, ZenonT(20) DEF Behind
    <3>4. QED
      BY <3>1, <3>3, ZenonT(20) DEF GroupsBehind
  <2>12. QED
    BY <1>0, <2>3, <2>7, <2>8, <2>9, <2>11, ZenonT(20) DEF GroupsInv
<1>17. CASE GroupBookings!NotPosted
  <2> PICK c \in calls : /\ Posts(c) /\ calls' = calls \ {c}
                         /\ world' = [world EXCEPT !.settled = world.now]
                         /\ view' = [view EXCEPT !.updatingAnnouncement = None, !.lost = TRUE]
    BY <1>17, ZenonT(20) DEF GroupBookings!NotPosted, Posts
  <2>1. IsWorld(world') /\ world'.now = world.now /\ world'.settled = world.now
    BY <1>0, Settled, ZenonT(20)
  <2>2. /\ IsGroups(view') /\ view'.groups = view.groups
        /\ view'.loading = view.loading /\ view'.lost /\ view'.updatingAnnouncement = None
        /\ view'.closingGroup = view.closingGroup /\ view'.dialog = view.dialog
    BY <1>0, ZenonT(20) DEF IsGroups
  <2>3. Proper' /\ (\A d \in calls' : d \in calls /\ d # c) /\ \A d \in calls : d = c \/ d \in calls'
    BY <1>0, ZenonT(20) DEF Proper
  <2>4. GroupsShape'
    BY <1>0, <2>1, <2>2, <2>3, ZenonT(20) DEF GroupsShape
  <2>5. GroupsTurn'
    <3>1. \A d \in calls' : ~Posts(d)
      BY <1>0, <2>3, ZenonT(20) DEF GroupsTurn
    <3>2. /\ Single("close")' /\ (Asked("close")' <=> Asked("close"))
          /\ Pending("groups") => Pending("groups")'
      BY <1>0, <2>3, ZenonT(20) DEF GroupsTurn, Single, Asked, Pending, Posts
    <3>3. QED
      BY <1>0, <2>2, <3>1, <3>2, ZenonT(20) DEF GroupsTurn
  <2>6. QED
    BY <2>2, <2>4, <2>5, Zenon DEF GroupsInv
<1>18. CASE GroupBookings!Closed
  <2> PICK c \in calls : /\ c.op = "close" /\ c.seen
                         /\ calls' = (calls \ {c}) \cup {[op |-> "badge", arg |-> None, seen |-> FALSE]}
                         /\ world' = [world EXCEPT !.settled = world.now]
                         /\ view' = [view EXCEPT !.groups = [view.groups EXCEPT ![c.arg.group] = "closed"],
                                                 !.closingGroup = None]
    BY <1>18, ZenonT(20) DEF GroupBookings!Closed, GroupBookings!Settle, GroupBookings!Call
  <2>1. IsWorld(world') /\ world'.now = world.now /\ world'.settled = world.now
    BY <1>0, Settled, ZenonT(20)
  <2>2. c.arg.group \in Groups /\ "closed" \in GroupStates
    BY <1>0, ZenonT(20) DEF GroupsShape, GroupStates
  <2>3. /\ IsGroups(view') /\ view'.groups = [view.groups EXCEPT ![c.arg.group] = "closed"]
        /\ view'.loading = view.loading /\ view'.lost = view.lost /\ view'.closingGroup = None
        /\ view'.updatingAnnouncement = view.updatingAnnouncement /\ view'.dialog = view.dialog
    BY <1>0, ZenonT(20) DEF IsGroups
  <2>4. /\ view'.groups \in [Groups -> GroupStates] /\ view'.groups[c.arg.group] = "closed"
        /\ \A h \in Groups : h # c.arg.group => view'.groups[h] = view.groups[h]
    <3>1. PICK f, h : f = view.groups /\ h = view'.groups
      OBVIOUS
    <3>2. f \in [Groups -> GroupStates] /\ h = [f EXCEPT ![c.arg.group] = "closed"]
      BY <1>0, <2>3, <3>1, Zenon DEF GroupsShape
    <3>3. /\ h \in [Groups -> GroupStates] /\ h[c.arg.group] = "closed"
          /\ \A k \in Groups : k # c.arg.group => h[k] = f[k]
      BY <2>2, <3>2, GroupPatched, ZenonT(20)
    <3>4. QED
      BY <3>1, <3>3, ZenonT(20)
  <2>5. PICK x \in calls' : Asking(x, "badge", None) /\ \A d \in calls' : d = x \/ (d \in calls /\ d # c)
    BY <1>0, Follows, ZenonT(20)
  <2>6. Proper' /\ \A d \in calls : d = c \/ d \in calls'
    BY <1>0, Follows, ZenonT(20)
  <2>7. x.op = "badge"
    BY <2>5, ZenonT(20) DEF Asking
  <2>8. GroupsShape'
    BY <1>0, <2>1, <2>3, <2>4, <2>5, <2>6, <2>7, ZenonT(20) DEF GroupsShape, Posts
  <2>9. GroupsTurn'
    <3>1. /\ (\E d \in calls' : Posts(d)) <=> \E d \in calls : Posts(d)
          /\ \A d \in calls' : Posts(d) => d \in calls
      BY <2>5, <2>6, <2>7, ZenonT(20) DEF Posts
    <3>2. /\ Single("close")' /\ ~Asked("close")' /\ (Pending("groups") => Pending("groups")')
      BY <1>0, <2>5, <2>6, <2>7, ZenonT(20) DEF GroupsTurn, Single, Asked, Pending
    <3>3. QED
      BY <1>0, <2>3, <3>1, <3>2, ZenonT(20) DEF GroupsTurn
  <2>10. GroupsStored => GroupsStored'
    BY <2>1, <2>5, <2>7, ZenonT(20) DEF GroupsStored
  <2>11. /\ \A h : h # c.arg.group => (Closes(h) => Closes(h)')
         /\ \A h : h # c.arg.group => (Reaches(h, OnScreen) => Reaches(h, OnScreen)')
    BY <2>6, ZenonT(20) DEF Closes, Reaches
  <2>12. GroupsStored /\ GroupsBehind => GroupsBehind'
    <3>1. Behind(world.settled, Answered)'
      BY <2>1, ZenonT(20) DEF Behind
    <3>2. GroupsStored => world.now[c.arg.group] = "closed"
      BY ZenonT(20) DEF GroupsStored
    <3>3. ASSUME GroupsStored, GroupsBehind, ~view'.loading, NEW h \in Groups
          PROVE  /\ view'.groups[h] = "closed" => world'.now[h] = "closed"
                 /\ view'.groups[h] # "closed" /\ world'.now[h] = "closed" => Closes(h)'
                 /\ view'.groups[h] = world'.now[h] \/ Reaches(h, OnScreen)'
      <4>1. /\ view.groups[h] = "closed" => world.now[h] = "closed"
            /\ view.groups[h] # "closed" /\ world.now[h] = "closed" => Closes(h)
            /\ view.groups[h] = world.now[h] \/ Reaches(h, OnScreen)
        BY <2>3, <3>3, ZenonT(20) DEF GroupsBehind, Behind
      <4>2. CASE h # c.arg.group
        BY <2>1, <2>4, <2>11, <4>1, <4>2, ZenonT(20)
      <4>3. CASE h = c.arg.group
        BY <2>1, <2>4, <3>2, <3>3, <4>3, ZenonT(20)
      <4>4. QED
        BY <4>2, <4>3, Zenon
    <3>5. GroupsStored /\ GroupsBehind /\ ~view'.loading => Behind(view.groups, OnScreen)'
      BY <3>3, ZenonT(20) DEF Behind
    <3>4. QED
      BY <3>1, <3>5, ZenonT(20) DEF GroupsBehind
  <2>13. QED
    BY <1>0, <2>3, <2>8, <2>9, <2>10, <2>12, ZenonT(20) DEF GroupsInv
<1>19. CASE GroupBookings!NotClosed
  <2> PICK c \in calls : /\ c.op = "close" /\ calls' = calls \ {c}
                         /\ world' = [world EXCEPT !.settled = world.now]
                         /\ view' = [view EXCEPT !.closingGroup = None, !.lost = TRUE]
    BY <1>19, ZenonT(20) DEF GroupBookings!NotClosed, GroupBookings!Settle
  <2>1. IsWorld(world') /\ world'.now = world.now /\ world'.settled = world.now
    BY <1>0, Settled, ZenonT(20)
  <2>2. /\ IsGroups(view') /\ view'.groups = view.groups
        /\ view'.loading = view.loading /\ view'.lost /\ view'.closingGroup = None
        /\ view'.updatingAnnouncement = view.updatingAnnouncement /\ view'.dialog = view.dialog
    BY <1>0, ZenonT(20) DEF IsGroups
  <2>3. Proper' /\ (\A d \in calls' : d \in calls /\ d # c) /\ \A d \in calls : d = c \/ d \in calls'
    BY <1>0, ZenonT(20) DEF Proper
  <2>4. GroupsShape'
    BY <1>0, <2>1, <2>2, <2>3, ZenonT(20) DEF GroupsShape
  <2>5. GroupsTurn'
    <3>1. /\ (\E d \in calls' : Posts(d)) <=> \E d \in calls : Posts(d)
      BY <2>3, ZenonT(20) DEF Posts
    <3>2. /\ Single("close")' /\ ~Asked("close")' /\ (Pending("groups") => Pending("groups")')
      BY <1>0, <2>3, ZenonT(20) DEF GroupsTurn, Single, Asked, Pending
    <3>3. QED
      BY <1>0, <2>2, <2>3, <3>1, <3>2, ZenonT(20) DEF GroupsTurn
  <2>6. QED
    BY <2>2, <2>4, <2>5, Zenon DEF GroupsInv
<1>20. QED
  BY <1>2, <1>3, <1>5, <1>6, <1>8, <1>9, <1>10, <1>11, <1>13, <1>14, <1>15, <1>16, <1>17, <1>18, <1>19, Zenon
     DEF GroupBookings!Next, GroupBookings!Answer

\* Hence the list is the server's once nothing is under way.
LEMMA GroupsFollow == GroupsInv => GroupBookings!ListFollowsActions /\ GroupBookings!SpinnersTurn
<1> SUFFICES ASSUME GroupsInv PROVE GroupBookings!ListFollowsActions /\ GroupBookings!SpinnersTurn
  OBVIOUS
<1> USE DEF GroupBookings!Waiting, GroupBookings!Under
<1>1. GroupsShape /\ GroupsTurn
  BY Zenon DEF GroupsInv
<1>2. GroupBookings!SpinnersTurn
  BY <1>1, ZenonT(20) DEF GroupsTurn, GroupBookings!SpinnersTurn, Pending, Asked, Posts
<1>3. ASSUME calls = {}, ~view.lost PROVE view.groups = world.now
  <2>1. ~view.loading /\ \A g, ops : ~Reaches(g, ops)
    BY <1>1, <1>3, ZenonT(20) DEF GroupsTurn, Pending, Reaches
  <2>2. Behind(view.groups, OnScreen)
    BY <1>3, <2>1, Zenon DEF GroupsInv, GroupsBehind
  <2>3. \A g \in Groups : view.groups[g] = world.now[g]
    BY <2>1, <2>2, ZenonT(20) DEF Behind
  <2>4. QED
    <3>1. PICK f, h : f = view.groups /\ h = world.now
      OBVIOUS
    <3>2. f \in [Groups -> GroupStates] /\ h \in [Groups -> GroupStates] /\ \A g \in Groups : f[g] = h[g]
      BY <1>1, <2>3, <3>1, ZenonT(20) DEF GroupsShape
    <3>3. f = h
      BY <3>2, SMT
    <3>4. QED
      BY <3>1, <3>3, Zenon
<1>4. QED
  BY <1>2, <1>3, Zenon DEF GroupBookings!ListFollowsActions

-----------------------------------------------------------------------------
(* The bookings of one property.                                           *)

IsVisits(v) ==
    v \in [status : {v.status}, bookings : {v.bookings}, loading : BOOLEAN, dialog : {v.dialog},
           removing : {v.removing}, closingAll : BOOLEAN, lost : BOOLEAN]
IsHouseState(w) == w \in [status : {w.status}, bookings : {w.bookings}]

VisitsShape ==
    /\ IsVisits(view) /\ Proper /\ IsHouseState(world) /\ world.bookings \subseteq Bookings
    /\ Single("details") /\ (view.loading <=> Asked("details"))
    /\ view.removing # None => Asked("remove")
    /\ view.closingAll => Asked("close")

\* What was executed has left the server.
VisitsGone ==
    /\ \A c \in calls : c.op = "remove" /\ c.seen => c.arg.booking \notin world.bookings
    /\ \A c \in calls : c.op = "close" /\ c.seen => world.bookings = {}

\* The page shows what the server has, and what leaves it with an answer under way.
VisitsShown ==
    /\ world.bookings \subseteq view.bookings
    /\ \A b \in view.bookings : b \notin world.bookings =>
          \E c \in calls : c.seen /\ (c.op = "close" \/ (c.op = "remove" /\ c.arg.booking = b))

VisitsInv == VisitsShape /\ VisitsGone /\ (~view.lost /\ ~view.loading => VisitsShown)

\* Opened, the page waits for the property.
LEMMA VisitsInit == HouseBookings!Init => VisitsInv
<1> SUFFICES ASSUME HouseBookings!Init PROVE VisitsInv
  OBVIOUS
<1>1. IsVisits(view) /\ view.loading /\ view.removing = None /\ ~view.closingAll
  BY ZenonT(20) DEF HouseBookings!Init, HouseBookings!Opened, IsVisits
<1>2. IsHouseState(world) /\ world.bookings = Bookings
  <2>1. PICK s : world = [status |-> s, bookings |-> Bookings]
    BY ZenonT(20) DEF HouseBookings!Init
  <2>2. QED
    BY <2>1, ZenonT(20) DEF IsHouseState
<1>3. Proper /\ \E x \in calls : Asking(x, "details", None) /\ \A d \in calls : d = x
  BY OpensWith, ZenonT(20) DEF HouseBookings!Init, HouseBookings!Call
<1>4. QED
  BY <1>1, <1>2, <1>3, ZenonT(20) DEF VisitsInv, VisitsShape, VisitsGone, Asking, Single, Asked

\* Nothing but a dialog changes, or a request begins that is not yet executed.
LEMMA VisitsKept ==
  ASSUME VisitsInv, IsVisits(view'), view'.bookings = view.bookings, view'.loading = view.loading,
         view'.lost = view.lost, world' = world, Proper',
         \A c \in calls : c \in calls',
         \A c \in calls' : c \in calls \/ (~c.seen /\ c.op # "details"),
         view'.removing # None => view.removing # None \/ Asked("remove")',
         view'.closingAll => view.closingAll \/ Asked("close")'
  PROVE  VisitsInv'
<1>1. VisitsShape'
  BY ZenonT(20) DEF VisitsInv, VisitsShape, Single, Asked
<1>2. VisitsGone'
  BY ZenonT(20) DEF VisitsInv, VisitsGone
<1>3. VisitsShown => VisitsShown'
  BY ZenonT(20) DEF VisitsShown
<1>4. QED
  BY <1>1, <1>2, <1>3, Zenon DEF VisitsInv

\* Every success takes away what the server took away.
LEMMA VisitsStep ==
  ASSUME VisitsInv, HouseBookings!Next
  PROVE  VisitsInv'
<1> USE DEF HouseBookings!Under, HouseBookings!Ends
<1>0. /\ IsVisits(view) /\ Proper /\ IsHouseState(world) /\ world.bookings \subseteq Bookings
      /\ Single("details") /\ (view.loading <=> Asked("details")) /\ VisitsGone
  BY Zenon DEF VisitsInv, VisitsShape
\* A request ends.
<1>1. ASSUME NEW c \in calls, calls' = calls \ {c}, world' = world, IsVisits(view'),
             view'.loading <=> view.loading /\ c.op # "details",
             view'.removing # None => view.removing # None /\ c.op # "remove",
             view'.closingAll => view.closingAll /\ c.op # "close",
             ~view'.lost /\ ~view'.loading => VisitsShown'
      PROVE  VisitsInv'
  <2>1. /\ Proper' /\ Single("details")' /\ (c.op = "details" => ~Asked("details")')
        /\ \A op : c.op # op => (Asked(op)' <=> Asked(op))
    BY <1>0, <1>1, Ended, ZenonT(20)
  <2>2. VisitsShape'
    BY <1>0, <1>1, <2>1, ZenonT(20) DEF VisitsInv, VisitsShape
  <2>3. VisitsGone'
    BY <1>0, <1>1, ZenonT(20) DEF VisitsGone
  <2>4. QED
    BY <1>1, <2>2, <2>3, Zenon DEF VisitsInv
\* It is executed.
<1>2. ASSUME NEW c \in calls, c.op \in {"remove", "close"}, HouseBookings!Executes(c), view' = view,
             IsHouseState(world'), world'.bookings \subseteq world.bookings,
             \A b \in world.bookings : b \notin world'.bookings =>
                 c.op = "close" \/ c.arg.booking = b,
             c.op = "close" => world'.bookings = {},
             c.op = "remove" => c.arg.booking \notin world'.bookings
      PROVE  VisitsInv'
  <2>1. calls' = (calls \ {c}) \cup {[c EXCEPT !.seen = TRUE]}
    BY <1>2, ZenonT(20) DEF HouseBookings!Executes
  <2>2. PICK x \in calls' : /\ x.op = c.op /\ x.arg = c.arg /\ x.seen
                            /\ \A d \in calls' : d = x \/ (d \in calls /\ d # c)
    BY <1>0, <2>1, Marked, ZenonT(20)
  <2>3. Proper' /\ \A d \in calls : d = c \/ d \in calls'
    BY <1>0, <2>1, Marked, ZenonT(20)
  <2>4. ~c.seen
    BY <1>2, ZenonT(20) DEF HouseBookings!Executes
  <2>5. Single("details")' /\ \A op : Asked(op)' <=> Asked(op)
    BY <1>0, <1>2, <2>2, <2>3, ZenonT(20) DEF Single, Asked
  <2>6. world'.bookings \subseteq Bookings
    BY <1>0, <1>2, Zenon
  <2>7. VisitsShape'
    BY <1>0, <1>2, <2>3, <2>5, <2>6, ZenonT(20) DEF VisitsInv, VisitsShape
  <2>8. VisitsGone'
    BY <1>0, <1>2, <2>2, ZenonT(20) DEF VisitsGone
  <2>9. VisitsShown => VisitsShown'
    <3>1. SUFFICES ASSUME VisitsShown, NEW b \in view'.bookings, b \notin world'.bookings
                   PROVE  \E d \in calls' : d.seen /\ (d.op = "close" \/ (d.op = "remove" /\ d.arg.booking = b))
      BY <1>2, ZenonT(20) DEF VisitsShown
    <3>2. CASE b \in world.bookings
      BY <1>2, <2>2, <3>1, <3>2, ZenonT(20)
    <3>3. CASE b \notin world.bookings
      BY <1>2, <2>3, <2>4, <3>1, <3>3, ZenonT(20) DEF VisitsShown
    <3>4. QED
      BY <3>2, <3>3, Zenon
  <2>10. QED
    BY <1>2, <2>7, <2>8, <2>9, Zenon DEF VisitsInv
\* A success, and the count of the menu.
<1>3. ASSUME NEW c \in calls, c.op # "details", world' = world, IsVisits(view'), view'.loading = view.loading,
             view'.removing # None => view.removing # None /\ c.op # "remove",
             view'.closingAll => view.closingAll /\ c.op # "close",
             \/ calls' = calls \ {c}
             \/ calls' = (calls \ {c}) \cup {[op |-> "badge", arg |-> None, seen |-> FALSE]},
             ~view'.lost /\ ~view'.loading => VisitsShown'
      PROVE  VisitsInv'
  <2>1. CASE calls' = calls \ {c}
    BY <1>1, <1>3, <2>1, ZenonT(20)
  <2>2. CASE calls' = (calls \ {c}) \cup {[op |-> "badge", arg |-> None, seen |-> FALSE]}
    <3>1. PICK x \in calls' : Asking(x, "badge", None) /\ \A d \in calls' : d = x \/ (d \in calls /\ d # c)
      BY <1>0, <2>2, Follows, ZenonT(20)
    <3>2. Proper' /\ \A d \in calls : d = c \/ d \in calls'
      BY <1>0, <2>2, Follows, ZenonT(20)
    <3>3. /\ Single("details")' /\ (Asked("details")' <=> Asked("details"))
          /\ c.op # "remove" => (Asked("remove") => Asked("remove")')
          /\ c.op # "close" => (Asked("close") => Asked("close")')
      BY <1>0, <1>3, <3>1, <3>2, ZenonT(20) DEF Single, Asked, Asking
    <3>4. VisitsShape'
      BY <1>0, <1>3, <3>2, <3>3, ZenonT(20) DEF VisitsInv, VisitsShape
    <3>5. VisitsGone'
      BY <1>0, <1>3, <3>1, ZenonT(20) DEF VisitsGone, Asking
    <3>6. QED
      BY <1>3, <3>4, <3>5, Zenon DEF VisitsInv
  <2>3. QED
    BY <1>3, <2>1, <2>2, Zenon
<1>4. CASE HouseBookings!ReceiveDetails
  <2> PICK c \in calls : /\ c.op = "details" /\ calls' = calls \ {c} /\ world' = world
                         /\ view' = [view EXCEPT !.status = world.status, !.bookings = world.bookings,
                                                 !.loading = FALSE]
    BY <1>4, ZenonT(20) DEF HouseBookings!ReceiveDetails
  <2>1. /\ IsVisits(view') /\ ~view'.loading /\ view'.bookings = world.bookings
        /\ view'.removing = view.removing /\ view'.closingAll = view.closingAll
    BY <1>0, ZenonT(20) DEF IsVisits
  <2>2. VisitsShown'
    BY <2>1, ZenonT(20) DEF VisitsShown
  <2>3. QED
    BY <1>1, <2>1, <2>2, ZenonT(20)
<1>5. CASE HouseBookings!FailDetails
  <2> PICK c \in calls : /\ c.op = "details" /\ calls' = calls \ {c} /\ world' = world
                         /\ view' = [view EXCEPT !.loading = FALSE, !.lost = TRUE]
    BY <1>5, ZenonT(20) DEF HouseBookings!FailDetails
  <2>1. /\ IsVisits(view') /\ ~view'.loading /\ view'.lost
        /\ view'.removing = view.removing /\ view'.closingAll = view.closingAll
    BY <1>0, ZenonT(20) DEF IsVisits
  <2>2. QED
    BY <1>1, <2>1, ZenonT(20)
<1>6. ASSUME NEW b, HouseBookings!Remove(b) \/ HouseBookings!CloseAll \/ HouseBookings!Dismiss
      PROVE  VisitsInv'
  <2>1. /\ IsVisits(view') /\ view'.bookings = view.bookings /\ view'.loading = view.loading
        /\ view'.lost = view.lost /\ view'.removing = view.removing /\ view'.closingAll = view.closingAll
    BY <1>0, <1>6, ZenonT(20) DEF HouseBookings!Remove, HouseBookings!CloseAll, HouseBookings!Dismiss, IsVisits
  <2>2. calls' = calls /\ world' = world
    BY <1>6, ZenonT(20) DEF HouseBookings!Remove, HouseBookings!CloseAll, HouseBookings!Dismiss
  <2>3. Proper'
    BY <1>0, <2>2, ZenonT(20) DEF Proper
  <2>4. QED
    BY <2>1, <2>2, <2>3, VisitsKept, ZenonT(20)
<1>7. CASE HouseBookings!ConfirmRemove
  <2>1. /\ IsVisits(view') /\ view'.bookings = view.bookings /\ view'.loading = view.loading
        /\ view'.lost = view.lost /\ view'.closingAll = view.closingAll /\ world' = world
    BY <1>0, <1>7, ZenonT(20) DEF HouseBookings!ConfirmRemove, IsVisits
  <2>2. PICK q : calls' = calls \cup {[op |-> "remove", arg |-> q, seen |-> FALSE]}
    BY <1>7, ZenonT(20) DEF HouseBookings!ConfirmRemove, HouseBookings!Subscribe, HouseBookings!Call
  <2>3. PICK x \in calls' : Asking(x, "remove", q) /\ \A d \in calls' : d = x \/ d \in calls
    BY <1>0, <2>2, Begins, ZenonT(20)
  <2>4. Proper' /\ \A d \in calls : d \in calls'
    BY <1>0, <2>2, Begins, ZenonT(20)
  <2>5. Asked("remove")' /\ \A d \in calls' : d \in calls \/ (~d.seen /\ d.op # "details")
    BY <2>3, ZenonT(20) DEF Asked, Asking
  <2>6. QED
    BY <2>1, <2>4, <2>5, VisitsKept, ZenonT(20)
<1>8. CASE HouseBookings!ConfirmClose
  <2>1. /\ IsVisits(view') /\ view'.bookings = view.bookings /\ view'.loading = view.loading
        /\ view'.lost = view.lost /\ view'.removing = view.removing /\ world' = world
    BY <1>0, <1>8, ZenonT(20) DEF HouseBookings!ConfirmClose, IsVisits
  <2>2. calls' = calls \cup {[op |-> "close", arg |-> None, seen |-> FALSE]}
    BY <1>8, ZenonT(20) DEF HouseBookings!ConfirmClose, HouseBookings!Subscribe, HouseBookings!Call
  <2>3. PICK x \in calls' : Asking(x, "close", None) /\ \A d \in calls' : d = x \/ d \in calls
    BY <1>0, <2>2, Begins, ZenonT(20)
  <2>4. Proper' /\ \A d \in calls : d \in calls'
    BY <1>0, <2>2, Begins, ZenonT(20)
  <2>5. Asked("close")' /\ \A d \in calls' : d \in calls \/ (~d.seen /\ d.op # "details")
    BY <2>3, ZenonT(20) DEF Asked, Asking
  <2>6. QED
    BY <2>1, <2>4, <2>5, VisitsKept, ZenonT(20)
<1>9. ASSUME NEW gone, NEW w, w = HouseBookings!Without(world, gone)
      PROVE  IsHouseState(w) /\ w.bookings = world.bookings \ gone
  <2>1. PICK s : w = [status |-> s, bookings |-> world.bookings \ gone]
    BY <1>9, ZenonT(20) DEF HouseBookings!Without
  <2>2. QED
    BY <2>1, ZenonT(20) DEF IsHouseState
<1>10. CASE HouseBookings!CancelBooking
  <2> PICK c \in calls : /\ c.op = "remove" /\ HouseBookings!Executes(c) /\ view' = view
                         /\ world' = HouseBookings!Without(world, {c.arg.booking})
    BY <1>10, ZenonT(20) DEF HouseBookings!CancelBooking
  <2>1. IsHouseState(world') /\ world'.bookings = world.bookings \ {c.arg.booking}
    BY <1>9, ZenonT(20)
  <2>2. QED
    BY <1>2, <2>1, ZenonT(20)
<1>11. CASE HouseBookings!CloseAllBookings
  <2> PICK c \in calls : /\ c.op = "close" /\ HouseBookings!Executes(c) /\ view' = view
                         /\ world' = HouseBookings!Without(world, Bookings)
    BY <1>11, ZenonT(20) DEF HouseBookings!CloseAllBookings
  <2>1. IsHouseState(world') /\ world'.bookings = world.bookings \ Bookings
    BY <1>9, ZenonT(20)
  <2>2. world'.bookings = {} /\ world'.bookings \subseteq world.bookings
    BY <1>0, <2>1, ZenonT(20)
  <2>3. QED
    BY <1>2, <2>1, <2>2, ZenonT(20)
<1>12. CASE HouseBookings!Removed
  <2> PICK c, isManager, left :
           /\ c \in calls /\ isManager \in BOOLEAN
           /\ c.op = "remove" /\ c.seen /\ world' = world /\ left = view.bookings \ {c.arg.booking}
           /\ view' = [view EXCEPT !.bookings = left, !.removing = None,
                                   !.status = IF left = {} THEN "available" ELSE @]
           /\ calls' = (calls \ {c}) \cup IF isManager THEN {HouseBookings!Call("badge", None)} ELSE {}
    BY <1>12, ZenonT(20) DEF HouseBookings!Removed
  <2>1. /\ IsVisits(view') /\ view'.bookings = left /\ view'.loading = view.loading /\ view'.lost = view.lost
        /\ view'.removing = None /\ view'.closingAll = view.closingAll
    BY <1>0, ZenonT(20) DEF IsVisits
  <2>2. \/ calls' = calls \ {c}
        \/ calls' = (calls \ {c}) \cup {[op |-> "badge", arg |-> None, seen |-> FALSE]}
    <3>1. CASE isManager
      BY <3>1, ZenonT(20) DEF HouseBookings!Call
    <3>2. CASE ~isManager
      BY <3>2, ZenonT(20)
    <3>3. QED
      BY <3>1, <3>2, Zenon
  <2>3. \A d \in calls : d = c \/ d \in calls'
    BY <2>2, ZenonT(20)
  <2>4. VisitsShown => VisitsShown'
    BY <1>0, <2>1, <2>3, ZenonT(20) DEF VisitsShown, VisitsGone
  <2>5. QED
    BY <1>3, <2>1, <2>2, <2>4, ZenonT(20) DEF VisitsInv
<1>13. CASE HouseBookings!NotRemoved
  <2> PICK c \in calls : /\ c.op = "remove" /\ calls' = calls \ {c} /\ world' = world
                         /\ view' = [view EXCEPT !.removing = None, !.lost = TRUE]
    BY <1>13, ZenonT(20) DEF HouseBookings!NotRemoved
  <2>1. /\ IsVisits(view') /\ view'.loading = view.loading /\ view'.lost
        /\ view'.removing = None /\ view'.closingAll = view.closingAll
    BY <1>0, ZenonT(20) DEF IsVisits
  <2>2. QED
    BY <1>3, <2>1, ZenonT(20)
<1>14. CASE HouseBookings!Closed
  <2> PICK c \in calls : /\ c.op = "close" /\ c.seen /\ world' = world
                         /\ view' = [view EXCEPT !.bookings = {}, !.closingAll = FALSE,
                                                 !.status = IF @ = "booked" THEN "available" ELSE @]
                         /\ calls' = (calls \ {c}) \cup {[op |-> "badge", arg |-> None, seen |-> FALSE]}
    BY <1>14, ZenonT(20) DEF HouseBookings!Closed, HouseBookings!Call
  <2>1. /\ IsVisits(view') /\ view'.bookings = {} /\ view'.loading = view.loading /\ view'.lost = view.lost
        /\ view'.removing = view.removing /\ ~view'.closingAll
    BY <1>0, ZenonT(20) DEF IsVisits
  <2>2. VisitsShown'
    BY <1>0, <2>1, ZenonT(20) DEF VisitsShown, VisitsGone
  <2>3. QED
    BY <1>3, <2>1, <2>2, ZenonT(20)
<1>15. CASE HouseBookings!NotClosed
  <2> PICK c \in calls : /\ c.op = "close" /\ calls' = calls \ {c} /\ world' = world
                         /\ view' = [view EXCEPT !.closingAll = FALSE, !.lost = TRUE]
    BY <1>15, ZenonT(20) DEF HouseBookings!NotClosed
  <2>1. /\ IsVisits(view') /\ view'.loading = view.loading /\ view'.lost
        /\ view'.removing = view.removing /\ ~view'.closingAll
    BY <1>0, ZenonT(20) DEF IsVisits
  <2>2. QED
    BY <1>3, <2>1, ZenonT(20)
<1>16. CASE HouseBookings!ReceiveBadge
  <2> PICK c \in calls : c.op = "badge" /\ calls' = calls \ {c} /\ world' = world /\ view' = view
    BY <1>16, ZenonT(20) DEF HouseBookings!ReceiveBadge
  <2>1. VisitsShown => VisitsShown'
    BY ZenonT(20) DEF VisitsShown
  <2>2. QED
    BY <1>0, <1>3, <2>1, ZenonT(20) DEF VisitsInv
<1>17. QED
  BY <1>4, <1>5, <1>6, <1>7, <1>8, <1>10, <1>11, <1>12, <1>13, <1>14, <1>15, <1>16, Zenon
     DEF HouseBookings!Next, HouseBookings!Answer

\* Hence the page shows what the server has once nothing is under way.
LEMMA VisitsFollow == VisitsInv => HouseBookings!ListFollowsActions /\ HouseBookings!SpinnersTurn
<1> SUFFICES ASSUME VisitsInv PROVE HouseBookings!ListFollowsActions /\ HouseBookings!SpinnersTurn
  OBVIOUS
<1> USE DEF HouseBookings!Waiting, HouseBookings!Under
<1>1. HouseBookings!SpinnersTurn
  <2>1. HouseBookings!Screen = "loading" => view.loading
    BY SMT DEF HouseBookings!Screen
  <2>2. QED
    BY <2>1, ZenonT(20) DEF VisitsInv, VisitsShape, HouseBookings!SpinnersTurn, Asked
<1>2. ASSUME calls = {}, ~view.lost PROVE view.bookings = world.bookings
  <2>1. ~view.loading
    BY <1>2, ZenonT(20) DEF VisitsInv, VisitsShape, Asked
  <2>2. VisitsShown
    BY <1>2, <2>1, Zenon DEF VisitsInv
  <2>3. QED
    BY <1>2, <2>2, ZenonT(20) DEF VisitsShown
<1>3. QED
  BY <1>1, <1>2, Zenon DEF HouseBookings!ListFollowsActions

-----------------------------------------------------------------------------
(* The ledger.                                                             *)

\* One settlement is saved, or read for editing, at a time.
LedgerTurn ==
    /\ Single("save") /\ (view.saving <=> Asked("save"))
    /\ Single("edit") /\ (view.loadingSettlement <=> Asked("edit"))
    /\ ~(view.saving /\ view.loadingSettlement)

\* After a change was answered the ledger is up to date, or is read again.
LedgerFollows ==
    \/ Seen({"save", "delete", "pay"})
    \/ world.settled = world.now /\ (Asked("overview") \/ view.overview = world.now)

\* A read for editing finds what is there, unless a change is about to be answered.
LedgerRead == \A c \in calls : c.op = "edit" => c.arg = world.now \/ Seen({"delete", "pay"})

LedgerInv == LedgerTurn /\ (~view.lost /\ ~view.crossed => LedgerFollows /\ LedgerRead)

\* Opened, the page waits for the ledger.
LEMMA LedgerInit == Commissions!Init => LedgerInv
<1> SUFFICES ASSUME Commissions!Init PROVE LedgerInv
  OBVIOUS
<1>1. ~view.saving /\ ~view.loadingSettlement
  BY ZenonT(20) DEF Commissions!Init, Commissions!Opened
<1>2. world.settled = world.now
  <2>1. PICK s : world = [now |-> s, settled |-> s]
    BY ZenonT(20) DEF Commissions!Init
  <2>2. QED
    BY <2>1, ZenonT(20)
<1>3. \E x \in calls : Asking(x, "overview", None) /\ \A d \in calls : d = x
  BY OpensWith, ZenonT(20) DEF Commissions!Init, Commissions!Call
<1>4. Asked("overview") /\ \A c \in calls : c.op = "overview"
  BY <1>3, ZenonT(20) DEF Asking, Asked
<1>5. LedgerTurn
  BY <1>1, <1>4, ZenonT(20) DEF LedgerTurn, Single, Asked
<1>6. LedgerFollows /\ LedgerRead
  BY <1>2, <1>4, ZenonT(20) DEF LedgerFollows, LedgerRead
<1>7. QED
  BY <1>5, <1>6, Zenon DEF LedgerInv

\* Every answer of a change reads the ledger again.
LEMMA LedgerStep ==
  ASSUME SplitInv, LedgerInv, Commissions!Next
  PROVE  LedgerInv'
<1> USE DEF Commissions!Under, Commissions!Ends
<1>0. /\ IsCommissions(view) /\ Proper /\ IsWorld(world) /\ LedgerTurn
      /\ (~view.lost /\ ~view.crossed => LedgerFollows /\ LedgerRead)
  BY ZenonT(20) DEF SplitInv, LedgerInv, Fitting, Proper, IsWorld
\* What concerns the form alone, and changes that begin.
<1>1. ASSUME world' = world, view'.overview = view.overview, view'.saving = view.saving,
             view'.loadingSettlement = view.loadingSettlement,
             view'.crossed = view.crossed, view'.lost = view.lost,
             \A d \in calls' : d \in calls \/ (d.op \in {"preview", "delete", "pay"} /\ ~d.seen),
             \A d \in calls : d \in calls' \/ d.op = "preview"
      PROVE  LedgerInv'
  <2>1. /\ \A op \in {"save", "edit"} : (Single(op) => Single(op)') /\ (Asked(op)' <=> Asked(op))
        /\ Asked("overview") => Asked("overview")'
        /\ Seen({"save", "delete", "pay"}) => Seen({"save", "delete", "pay"})'
        /\ Seen({"delete", "pay"}) => Seen({"delete", "pay"})'
    BY <1>1, ZenonT(20) DEF Single, Asked, Seen
  <2>2. LedgerTurn'
    BY <1>0, <1>1, <2>1, ZenonT(20) DEF LedgerTurn
  <2>3. (LedgerFollows => LedgerFollows') /\ (LedgerRead => LedgerRead')
    BY <1>1, <2>1, ZenonT(20) DEF LedgerFollows, LedgerRead
  <2>4. QED
    BY <1>0, <1>1, <2>2, <2>3, ZenonT(20) DEF LedgerInv
<1>2. ASSUME NEW form, Commissions!Enter(form) PROVE LedgerInv'
  <2>1. /\ view'.overview = view.overview /\ view'.saving = view.saving
        /\ view'.loadingSettlement = view.loadingSettlement
        /\ view'.crossed = view.crossed /\ view'.lost = view.lost /\ world' = world
    BY <1>0, <1>2, ZenonT(20) DEF Commissions!Enter, IsCommissions
  <2> PICK x : x = [op |-> "preview", arg |-> Commissions!Terms(form), seen |-> FALSE]
    OBVIOUS
  <2>2. Asking(x, "preview", Commissions!Terms(form))
    BY ZenonT(20) DEF Asking, IsCall
  <2>3. /\ \A d \in calls' : d \in calls \/ d = x
        /\ \A d \in calls : d \in calls' \/ d.op = "preview"
    BY <1>2, ZenonT(20) DEF Commissions!Enter, Commissions!RefreshPreview, Commissions!Call
  <2>4. QED
    BY <1>1, <2>1, <2>2, <2>3, ZenonT(20) DEF Asking
<1>3. ASSUME NEW price, Commissions!EnterPrice(price) PROVE LedgerInv'
  BY <1>2, <1>3, ZenonT(20) DEF Commissions!EnterPrice
<1>4. ASSUME NEW a, Commissions!ToggleWinningAgent(a) \/ Commissions!ToggleOtherAgent(a) PROVE LedgerInv'
  <2>1. \E form : Commissions!Enter(form)
    BY <1>4, ZenonT(20) DEF Commissions!ToggleWinningAgent, Commissions!ToggleOtherAgent
  <2>2. QED
    BY <1>2, <2>1, Zenon
<1>5. CASE Commissions!ToggleNoWinningAgents
  BY <1>2, <1>5, ZenonT(20) DEF Commissions!ToggleNoWinningAgents
\* A form that is emptied.
<1>6. ASSUME NEW v, IsCommissions(v), view' = Commissions!Reset(v)
      PROVE  /\ view'.overview = v.overview /\ view'.saving = v.saving
             /\ view'.loadingSettlement = v.loadingSettlement
             /\ view'.crossed = v.crossed /\ view'.lost = v.lost
  BY <1>6, ZenonT(20) DEF Commissions!Reset, IsCommissions
<1>7. CASE Commissions!Cancel
  <2>1. view' = Commissions!Reset(view) /\ world' = world /\ calls' = calls \ {c \in calls : c.op = "preview"}
    BY <1>7, ZenonT(20) DEF Commissions!Cancel
  <2>2. (\A d \in calls' : d \in calls) /\ \A d \in calls : d \in calls' \/ d.op = "preview"
    BY <2>1, ZenonT(20)
  <2>3. QED
    BY <1>0, <1>1, <1>6, <2>1, <2>2, ZenonT(20)
<1>8. CASE Commissions!ReceivePreview \/ Commissions!FailPreview
  <2>1. /\ view'.overview = view.overview /\ view'.saving = view.saving
        /\ view'.loadingSettlement = view.loadingSettlement
        /\ view'.crossed = view.crossed /\ view'.lost = view.lost /\ world' = world
    BY <1>0, <1>8, ZenonT(20) DEF Commissions!ReceivePreview, Commissions!FailPreview, IsCommissions
  <2>2. PICK c \in calls : c.op = "preview" /\ calls' = calls \ {c}
    BY <1>8, ZenonT(20) DEF Commissions!ReceivePreview, Commissions!FailPreview
  <2>3. (\A d \in calls' : d \in calls) /\ \A d \in calls : d \in calls' \/ d.op = "preview"
    BY <2>2, ZenonT(20)
  <2>4. QED
    BY <1>1, <2>1, <2>3, ZenonT(20)
<1>9. CASE Commissions!DeleteSettlement \/ Commissions!Dismiss
  <2>1. /\ view'.overview = view.overview /\ view'.saving = view.saving
        /\ view'.loadingSettlement = view.loadingSettlement
        /\ view'.crossed = view.crossed /\ view'.lost = view.lost /\ world' = world /\ calls' = calls
    BY <1>0, <1>9, ZenonT(20) DEF Commissions!DeleteSettlement, Commissions!Dismiss, IsCommissions
  <2>2. QED
    BY <1>1, <2>1, ZenonT(20)
<1>10. CASE Commissions!Confirm \/ Commissions!TogglePaid
  <2>1. /\ view'.overview = view.overview /\ view'.saving = view.saving
        /\ view'.loadingSettlement = view.loadingSettlement
        /\ view'.crossed = view.crossed /\ view'.lost = view.lost /\ world' = world
    BY <1>0, <1>10, ZenonT(20) DEF Commissions!Confirm, Commissions!TogglePaid, IsCommissions
  <2>2. PICK op, q : /\ op = "delete" \/ op = "pay"
                     /\ calls' = calls \cup {[op |-> op, arg |-> q, seen |-> FALSE]}
    BY <1>10, ZenonT(20) DEF Commissions!Confirm, Commissions!TogglePaid, Commissions!Subscribe, Commissions!Call
  <2>3. PICK x \in calls' : Asking(x, op, q) /\ \A d \in calls' : d = x \/ d \in calls
    BY <1>0, <2>2, Begins, ZenonT(20)
  <2>4. \A d \in calls : d \in calls'
    BY <2>2, ZenonT(20)
  <2>5. x.op \in {"preview", "delete", "pay"} /\ ~x.seen
    BY <2>2, <2>3, ZenonT(20) DEF Asking
  <2>6. QED
    BY <1>1, <2>1, <2>3, <2>4, <2>5, ZenonT(20)
<1>11. CASE Commissions!CreateSettlement
  <2>1. /\ view'.overview = view.overview /\ view'.saving /\ ~view.saving
        /\ view'.loadingSettlement = view.loadingSettlement /\ ~view.loadingSettlement
        /\ view'.crossed = view.crossed /\ view'.lost = view.lost /\ world' = world
    BY <1>0, <1>11, ZenonT(20) DEF Commissions!CreateSettlement, Commissions!MayCreate, IsCommissions
  <2>2. PICK q : calls' = calls \cup {[op |-> "save", arg |-> q, seen |-> FALSE]}
    BY <1>11, ZenonT(20) DEF Commissions!CreateSettlement, Commissions!Subscribe, Commissions!Call
  <2>3. PICK x \in calls' : Asking(x, "save", q) /\ \A d \in calls' : d = x \/ d \in calls
    BY <1>0, <2>2, Begins, ZenonT(20)
  <2>4. (\A d \in calls : d \in calls') /\ x.op = "save" /\ ~x.seen
    BY <2>2, <2>3, ZenonT(20) DEF Asking
  <2>5. ~Asked("save") /\ ~Asked("edit")
    BY <1>0, <2>1, ZenonT(20) DEF LedgerTurn
  <2>6. /\ Single("save")' /\ Asked("save")' /\ Single("edit")' /\ ~Asked("edit")'
    BY <2>3, <2>4, <2>5, ZenonT(20) DEF Single, Asked
  <2>7. LedgerTurn'
    BY <2>1, <2>6, ZenonT(20) DEF LedgerTurn
  <2>8. LedgerFollows => LedgerFollows'
    BY <2>1, <2>4, ZenonT(20) DEF LedgerFollows, Seen, Asked
  <2>9. LedgerRead'
    BY <2>6, ZenonT(20) DEF LedgerRead, Asked
  <2>10. QED
    BY <1>0, <2>1, <2>7, <2>8, <2>9, ZenonT(20) DEF LedgerInv
<1>12. CASE Commissions!EditSettlement
  <2>1. /\ view'.overview = view.overview /\ view'.saving = view.saving /\ ~view.saving
        /\ view'.loadingSettlement /\ ~view.loadingSettlement
        /\ view'.crossed = view.crossed /\ view'.lost = view.lost /\ world' = world
    BY <1>0, <1>12, ZenonT(20) DEF Commissions!EditSettlement, IsCommissions
  <2>2. calls' = calls \cup {[op |-> "edit", arg |-> world.now, seen |-> FALSE]}
    BY <1>12, ZenonT(20) DEF Commissions!EditSettlement, Commissions!Subscribe, Commissions!Call
  <2>3. PICK x \in calls' : Asking(x, "edit", world.now) /\ \A d \in calls' : d = x \/ d \in calls
    BY <1>0, <2>2, Begins, ZenonT(20)
  <2>4. (\A d \in calls : d \in calls') /\ x.op = "edit" /\ x.arg = world.now /\ ~x.seen
    BY <2>2, <2>3, ZenonT(20) DEF Asking
  <2>5. ~Asked("save") /\ ~Asked("edit")
    BY <1>0, <2>1, ZenonT(20) DEF LedgerTurn
  <2>6. /\ Single("edit")' /\ Asked("edit")' /\ Single("save")' /\ ~Asked("save")'
    BY <2>3, <2>4, <2>5, ZenonT(20) DEF Single, Asked
  <2>7. LedgerTurn'
    BY <2>1, <2>6, ZenonT(20) DEF LedgerTurn
  <2>8. LedgerFollows => LedgerFollows'
    BY <2>1, <2>4, ZenonT(20) DEF LedgerFollows, Seen, Asked
  <2>9. LedgerRead'
    BY <2>1, <2>3, <2>4, <2>5, ZenonT(20) DEF LedgerRead, Asked
  <2>10. QED
    BY <1>0, <2>1, <2>7, <2>8, <2>9, ZenonT(20) DEF LedgerInv
\* The server executes a change.
<1>13. ASSUME NEW c \in calls, c.op \in {"save", "delete", "pay"}, Commissions!Executes(c), view' = view
       PROVE  LedgerInv'
  <2>1. calls' = (calls \ {c}) \cup {[c EXCEPT !.seen = TRUE]}
    BY <1>13, ZenonT(20) DEF Commissions!Executes
  <2>2. PICK x \in calls' : /\ x.op = c.op /\ x.arg = c.arg /\ x.seen
                            /\ \A d \in calls' : d = x \/ (d \in calls /\ d # c)
    BY <1>0, <2>1, Marked, ZenonT(20)
  <2>3. \A d \in calls : d = c \/ d \in calls'
    BY <2>1, ZenonT(20)
  <2>4. \A op : (Single(op) => Single(op)') /\ (Asked(op)' <=> Asked(op))
    BY <2>2, <2>3, ZenonT(20) DEF Single, Asked
  <2>5. LedgerTurn'
    BY <1>0, <1>13, <2>4, ZenonT(20) DEF LedgerTurn
  <2>6. LedgerFollows'
    BY <1>13, <2>2, ZenonT(20) DEF LedgerFollows, Seen
  <2>7. LedgerRead'
    <3>1. CASE c.op = "save"
      <4>1. ~Asked("edit")'
        BY <1>0, <2>4, <3>1, ZenonT(20) DEF LedgerTurn, Asked
      <4>2. QED
        BY <4>1, ZenonT(20) DEF LedgerRead, Asked
    <3>2. CASE c.op # "save"
      BY <1>13, <2>2, <3>2, ZenonT(20) DEF LedgerRead, Seen
    <3>3. QED
      BY <3>1, <3>2, Zenon
  <2>8. QED
    BY <2>5, <2>6, <2>7, Zenon DEF LedgerInv
<1>14. CASE Commissions!StoreSettlement \/ Commissions!RemoveSettlement \/ Commissions!StorePaid
  <2>1. \E c \in calls : c.op \in {"save", "delete", "pay"} /\ Commissions!Executes(c) /\ view' = view
    BY <1>14, ZenonT(20) DEF Commissions!StoreSettlement, Commissions!RemoveSettlement, Commissions!StorePaid
  <2>2. QED
    BY <1>13, <2>1, Zenon
\* The change is answered, and the ledger is read again.
<1>15. ASSUME NEW c \in calls, c.op \in {"save", "delete", "pay"}, Commissions!Settle,
              NEW gone, \A d \in calls : d \in gone => d.op = "preview" \/ d = c, c \in gone,
              calls' = (calls \ gone) \cup {[op |-> "overview", arg |-> None, seen |-> FALSE]},
              view'.saving <=> view.saving /\ c.op # "save",
              view'.loadingSettlement = view.loadingSettlement, view'.lost = view.lost,
              view'.crossed <=> view.crossed \/ (c.op # "save" /\ Asked("edit"))
       PROVE  LedgerInv'
  <2>1. IsWorld(world') /\ world'.now = world.now /\ world'.settled = world.now
    BY <1>0, <1>15, Settled, ZenonT(20) DEF Commissions!Settle
  <2> PICK x : x = [op |-> "overview", arg |-> None, seen |-> FALSE]
    OBVIOUS
  <2>2. Asking(x, "overview", None)
    BY ZenonT(20) DEF Asking, IsCall
  <2>3. /\ x \in calls' /\ x.op = "overview"
        /\ \A d \in calls' : d = x \/ (d \in calls /\ d # c)
        /\ \A d \in calls : d \in calls' \/ d = c \/ d.op = "preview"
    BY <1>15, <2>2, ZenonT(20) DEF Asking
  <2>4. /\ \A op \in {"save", "edit"} :
             /\ Single(op) => Single(op)'
             /\ c.op # op => (Asked(op)' <=> Asked(op))
             /\ Single(op) /\ c.op = op => ~Asked(op)'
        /\ Asked("overview")'
    BY <2>3, ZenonT(20) DEF Single, Asked
  <2>5. LedgerTurn'
    BY <1>0, <1>15, <2>4, ZenonT(20) DEF LedgerTurn
  <2>6. LedgerFollows'
    BY <2>1, <2>4, ZenonT(20) DEF LedgerFollows
  <2>7. ~view'.crossed => LedgerRead'
    <3>1. c.op = "save" => ~Asked("edit")
      BY <1>0, ZenonT(20) DEF LedgerTurn, Asked
    <3>2. ~view'.crossed => ~Asked("edit")'
      BY <1>15, <2>4, <3>1, ZenonT(20)
    <3>3. QED
      BY <3>2, ZenonT(20) DEF LedgerRead, Asked
  <2>8. QED
    BY <2>5, <2>6, <2>7, Zenon DEF LedgerInv
<1>16. CASE Commissions!Saved
  <2> PICK c, v, gone :
          /\ c \in calls
          /\ c.op = "save" /\ v = [view EXCEPT !.saving = FALSE] /\ view' = Commissions!Reset(v)
          /\ gone = {c} \cup {d \in calls : d.op = "preview"}
          /\ calls' = (calls \ gone) \cup {[op |-> "overview", arg |-> None, seen |-> FALSE]}
          /\ Commissions!Settle
    BY <1>16, ZenonT(20) DEF Commissions!Saved, Commissions!Load, Commissions!Call
  <2>1. /\ IsCommissions(v) /\ ~v.saving /\ v.loadingSettlement = view.loadingSettlement
        /\ v.lost = view.lost /\ v.crossed = view.crossed
    BY <1>0, ZenonT(20) DEF IsCommissions
  <2>2. /\ ~view'.saving /\ view'.loadingSettlement = view.loadingSettlement
        /\ view'.lost = view.lost /\ view'.crossed = view.crossed
    BY <1>6, <2>1, ZenonT(20)
  <2>3. c \in gone /\ \A d \in calls : d \in gone => d.op = "preview" \/ d = c
    BY ZenonT(20)
  <2>4. QED
    BY <1>15, <2>2, <2>3, ZenonT(20)
<1>17. PICK w : w = Commissions!Crosses(view)
  OBVIOUS
<1>18. /\ IsCommissions(w) /\ w.saving = view.saving /\ w.loadingSettlement = view.loadingSettlement
       /\ w.lost = view.lost /\ (w.crossed <=> view.crossed \/ Asked("edit"))
  <2> PICK b : b = (view.crossed \/ Commissions!Waiting("edit"))
    OBVIOUS
  <2>1. b \in BOOLEAN /\ w = [view EXCEPT !.crossed = b]
    BY <1>17, ZenonT(20) DEF Commissions!Crosses
  <2>2. b <=> view.crossed \/ Asked("edit")
    BY ZenonT(20) DEF Commissions!Waiting, Asked
  <2>3. QED
    BY <1>0, <2>1, <2>2, ZenonT(20) DEF IsCommissions
<1>19. CASE Commissions!Deleted
  <2> PICK c, gone :
          /\ c \in calls
          /\ c.op = "delete"
          /\ gone = {c} \cup (IF view.editing THEN {d \in calls : d.op = "preview"} ELSE {})
          /\ calls' = (calls \ gone) \cup {[op |-> "overview", arg |-> None, seen |-> FALSE]}
          /\ view' = IF view.editing THEN Commissions!Reset(w) ELSE w
          /\ Commissions!Settle
    BY <1>17, <1>19, ZenonT(20) DEF Commissions!Deleted, Commissions!Load, Commissions!Call
  <2>1. /\ view'.saving = view.saving /\ view'.loadingSettlement = view.loadingSettlement
        /\ view'.lost = view.lost /\ (view'.crossed <=> view.crossed \/ Asked("edit"))
    <3>1. CASE view.editing
      <4>1. view' = Commissions!Reset(w)
        BY <3>1, Zenon
      <4>2. view'.saving = w.saving /\ view'.loadingSettlement = w.loadingSettlement
            /\ view'.lost = w.lost /\ view'.crossed = w.crossed
        BY <1>6, <1>18, <4>1, ZenonT(20)
      <4>3. QED
        BY <1>18, <4>2, ZenonT(20)
    <3>2. CASE ~view.editing
      BY <1>18, <3>2, ZenonT(20)
    <3>3. QED
      BY <3>1, <3>2, Zenon
  <2>2. c \in gone /\ \A d \in calls : d \in gone => d.op = "preview" \/ d = c
    BY ZenonT(20)
  <2>3. QED
    BY <1>15, <2>1, <2>2, ZenonT(20)
<1>20. CASE Commissions!Paid
  <2> PICK c \in calls :
          /\ c.op = "pay"
          /\ calls' = (calls \ {c}) \cup {[op |-> "overview", arg |-> None, seen |-> FALSE]}
          /\ view' = w /\ Commissions!Settle
    BY <1>17, <1>20, ZenonT(20) DEF Commissions!Paid, Commissions!Load, Commissions!Call
  <2> PICK gone : gone = {c}
    OBVIOUS
  <2>1. c \in gone /\ \A d \in calls : d \in gone => d.op = "preview" \/ d = c
    BY ZenonT(20)
  <2>2. QED
    BY <1>15, <1>18, <2>1, ZenonT(20)
\* A request fails.
<1>21. ASSUME NEW c \in calls, c.op # "edit", calls' = calls \ {c},
              view'.saving <=> view.saving /\ c.op # "save",
              view'.loadingSettlement = view.loadingSettlement, view'.lost
       PROVE  LedgerInv'
  <2>1. /\ \A op : Single(op) => Single(op)' /\ (c.op = op => ~Asked(op)')
        /\ \A op : c.op # op => (Asked(op)' <=> Asked(op))
    BY <1>0, <1>21, Ended, ZenonT(20)
  <2>2. LedgerTurn'
    BY <1>0, <1>21, <2>1, ZenonT(20) DEF LedgerTurn
  <2>3. QED
    BY <1>21, <2>2, Zenon DEF LedgerInv
<1>22. CASE Commissions!NotSaved
  <2> PICK c \in calls : /\ c.op = "save" /\ calls' = calls \ {c}
                         /\ view' = [view EXCEPT !.saving = FALSE, !.lost = TRUE]
    BY <1>22, ZenonT(20) DEF Commissions!NotSaved
  <2>1. ~view'.saving /\ view'.loadingSettlement = view.loadingSettlement /\ view'.lost
    BY <1>0, ZenonT(20) DEF IsCommissions
  <2>2. QED
    BY <1>21, <2>1, ZenonT(20)
<1>23. CASE Commissions!NotChanged \/ Commissions!FailOverview
  <2> PICK c \in calls : /\ c.op \in {"delete", "pay", "overview"} /\ calls' = calls \ {c}
                         /\ view' = [view EXCEPT !.lost = TRUE]
    BY <1>23, ZenonT(20) DEF Commissions!NotChanged, Commissions!FailOverview
  <2>1. view'.saving = view.saving /\ view'.loadingSettlement = view.loadingSettlement /\ view'.lost
    BY <1>0, ZenonT(20) DEF IsCommissions
  <2>2. QED
    BY <1>21, <2>1, ZenonT(20)
<1>24. CASE Commissions!ReceiveOverview
  <2> PICK c \in calls, s \in {world.now, world.settled} :
          /\ c.op = "overview" /\ calls' = calls \ {c} /\ world' = world
          /\ view' = [view EXCEPT !.overview = s, !.loaded = TRUE]
    BY <1>24, ZenonT(20) DEF Commissions!ReceiveOverview, Commissions!Fresh
  <2>1. /\ view'.overview = s /\ view'.saving = view.saving
        /\ view'.loadingSettlement = view.loadingSettlement
        /\ view'.crossed = view.crossed /\ view'.lost = view.lost
    BY <1>0, ZenonT(20) DEF IsCommissions
  <2>2. /\ \A op : Single(op) => Single(op)' /\ (c.op = op => ~Asked(op)')
        /\ \A op : c.op # op => (Asked(op)' <=> Asked(op))
    BY <1>0, Ended, ZenonT(20)
  <2>3. (\A d \in calls : d = c \/ d \in calls') /\ \A d \in calls' : d \in calls
    BY ZenonT(20)
  <2>4. LedgerTurn'
    BY <1>0, <2>1, <2>2, ZenonT(20) DEF LedgerTurn
  <2>5. LedgerFollows => LedgerFollows'
    BY <2>1, <2>3, ZenonT(20) DEF LedgerFollows, Seen
  <2>6. LedgerRead => LedgerRead'
    BY <2>3, ZenonT(20) DEF LedgerRead, Seen
  <2>7. QED
    BY <1>0, <2>1, <2>4, <2>5, <2>6, ZenonT(20) DEF LedgerInv
\* The read for editing ends; the preview it asks for is one of the form.
<1>25. ASSUME NEW c \in calls, c.op = "edit", world' = world, NEW s \in {c.arg, world.now, view.overview},
              s = view.overview => view'.overview = view.overview,
              view'.overview = s, view'.saving = view.saving, ~view'.loadingSettlement,
              view'.crossed = view.crossed, view'.lost = view.lost,
              \A d \in calls' : (d \in calls /\ d # c) \/ d.op = "preview",
              \A d \in calls : d = c \/ d \in calls' \/ d.op = "preview"
       PROVE  LedgerInv'
  <2>1. /\ Single("save") => Single("save")' /\ (Asked("save")' <=> Asked("save"))
        /\ Single("edit") => Single("edit")' /\ ~Asked("edit")'
        /\ Asked("overview") => Asked("overview")'
    BY <1>25, ZenonT(20) DEF Single, Asked
  <2>2. /\ Seen({"save", "delete", "pay"}) => Seen({"save", "delete", "pay"})'
        /\ Seen({"delete", "pay"}) => Seen({"save", "delete", "pay"})
    BY <1>25, ZenonT(20) DEF Seen
  <2>3. LedgerTurn'
    BY <1>0, <1>25, <2>1, ZenonT(20) DEF LedgerTurn
  <2>4. LedgerFollows /\ LedgerRead => LedgerFollows'
    BY <1>25, <2>1, <2>2, ZenonT(20) DEF LedgerFollows, LedgerRead
  <2>5. LedgerRead'
    BY <1>0, <2>1, ZenonT(20) DEF LedgerTurn, LedgerRead, Asked
  <2>6. QED
    BY <1>0, <1>25, <2>3, <2>4, <2>5, ZenonT(20) DEF LedgerInv
<1>26. CASE Commissions!FailEdit
  <2> PICK c \in calls : /\ c.op = "edit" /\ calls' = calls \ {c} /\ world' = world
                         /\ view' = [view EXCEPT !.loadingSettlement = FALSE]
    BY <1>26, ZenonT(20) DEF Commissions!FailEdit
  <2>1. /\ view'.overview = view.overview /\ view'.saving = view.saving /\ ~view'.loadingSettlement
        /\ view'.crossed = view.crossed /\ view'.lost = view.lost
    BY <1>0, ZenonT(20) DEF IsCommissions
  <2>2. (\A d \in calls : d = c \/ d \in calls') /\ \A d \in calls' : d \in calls /\ d # c
    BY ZenonT(20)
  <2>3. QED
    BY <1>25, <2>1, <2>2, ZenonT(20)
<1>27. CASE Commissions!ReceiveEdit
  <2> PICK c, s, known :
          /\ c \in calls /\ c.op = "edit" /\ s \in {c.arg, world.now}
          /\ known = [view EXCEPT !.overview = s, !.loadingSettlement = FALSE]
          /\ IF s = None \/ (s # None /\ s.paid)
             THEN view' = known /\ calls' = calls \ {c}
             ELSE /\ view' = [known EXCEPT !.form = [s.form EXCEPT !.none = s.form.winners = {}],
                                           !.preview = None, !.editing = TRUE]
                  /\ calls' = (calls \ ({c} \cup {d \in calls : d.op = "preview"})) \cup
                                  {Commissions!Call("preview", Commissions!Terms(s.form))}
    BY <1>27, ZenonT(60) DEF Commissions!ReceiveEdit
  <2> PICK x : x = Commissions!Call("preview", Commissions!Terms(s.form))
    OBVIOUS
  <2>1. world' = world
    BY <1>27, ZenonT(20) DEF Commissions!ReceiveEdit
  <2>2. /\ IsCommissions(known) /\ known.overview = s /\ ~known.loadingSettlement
        /\ known.saving = view.saving /\ known.crossed = view.crossed /\ known.lost = view.lost
    BY <1>0, ZenonT(20) DEF IsCommissions
  <2>3. x.op = "preview"
    BY ZenonT(20) DEF Commissions!Call
  <2>4. /\ view'.overview = s /\ ~view'.loadingSettlement
        /\ view'.saving = view.saving /\ view'.crossed = view.crossed /\ view'.lost = view.lost
    <3>1. CASE s = None \/ (s # None /\ s.paid)
      BY <2>2, <3>1, ZenonT(20)
    <3>2. CASE ~(s = None \/ (s # None /\ s.paid))
      <4>1. PICK f : view' = [known EXCEPT !.form = f, !.preview = None, !.editing = TRUE]
        BY <3>2, ZenonT(20)
      <4>2. QED
        BY <2>2, <4>1, ZenonT(20) DEF IsCommissions
    <3>3. QED
      BY <3>1, <3>2, Zenon
  <2>5. /\ \A d \in calls' : (d \in calls /\ d # c) \/ d.op = "preview"
        /\ \A d \in calls : d = c \/ d \in calls' \/ d.op = "preview"
    <3>1. CASE s = None \/ (s # None /\ s.paid)
      BY <3>1, ZenonT(20)
    <3>2. CASE ~(s = None \/ (s # None /\ s.paid))
      <4>1. calls' = (calls \ ({c} \cup {d \in calls : d.op = "preview"})) \cup {x}
        BY <3>2, ZenonT(20)
      <4>2. QED
        BY <2>3, <4>1, ZenonT(20)
    <3>3. QED
      BY <3>1, <3>2, Zenon
  <2>6. QED
    BY <1>25, <2>1, <2>4, <2>5, ZenonT(20)
<1>28. QED
  BY <1>3, <1>4, <1>5, <1>7, <1>8, <1>9, <1>10, <1>11, <1>12, <1>14, <1>16, <1>19, <1>20, <1>22, <1>23,
     <1>24, <1>26, <1>27, Zenon DEF Commissions!Next, Commissions!Answer

\* Until the ledger was read once it is being read, or a request failed.
LedgerLoads == view.loaded \/ view.lost \/ Asked("overview")

\* Opened, the page asks for it; nothing but its answer or its failure ends the wait.
LEMMA LedgerLoadsInit == Commissions!Init => LedgerLoads
<1> SUFFICES ASSUME Commissions!Init PROVE LedgerLoads
  OBVIOUS
<1>1. \E x \in calls : Asking(x, "overview", None) /\ \A d \in calls : d = x
  BY OpensWith, ZenonT(20) DEF Commissions!Init, Commissions!Call
<1>2. QED
  BY <1>1, ZenonT(20) DEF LedgerLoads, Asking, Asked

LEMMA LedgerLoadsStep ==
  ASSUME SplitInv, LedgerLoads, Commissions!Next
  PROVE  LedgerLoads'
<1> USE DEF Commissions!Under, Commissions!Ends
<1>0. IsCommissions(view)
  BY ZenonT(20) DEF SplitInv
\* No read of the ledger ends.
<1>1. ASSUME view'.loaded = view.loaded, view.lost => view'.lost,
             \A d \in calls : d.op = "overview" => d \in calls'
      PROVE  LedgerLoads'
  BY <1>1, ZenonT(20) DEF LedgerLoads, Asked
\* Every answer of a change reads it again.
<1>2. ASSUME \E d \in calls' : d.op = "overview" PROVE LedgerLoads'
  BY <1>2, ZenonT(20) DEF LedgerLoads, Asked
\* What concerns the form and its preview.
<1>3. ASSUME NEW form, Commissions!Enter(form) PROVE LedgerLoads'
  <2>1. view'.loaded = view.loaded /\ view'.lost = view.lost
    BY <1>0, <1>3, ZenonT(20) DEF Commissions!Enter, IsCommissions
  <2>2. \A d \in calls : d.op = "overview" => d \in calls'
    BY <1>3, ZenonT(20) DEF Commissions!Enter, Commissions!RefreshPreview
  <2>3. QED
    BY <1>1, <2>1, <2>2, Zenon
<1>4. ASSUME \/ \E price \in Commissions!Prices : Commissions!EnterPrice(price)
             \/ \E a \in Payees : Commissions!ToggleWinningAgent(a) \/ Commissions!ToggleOtherAgent(a)
             \/ Commissions!ToggleNoWinningAgents
      PROVE  LedgerLoads'
  <2>1. \E form : Commissions!Enter(form)
    BY <1>4, ZenonT(20) DEF Commissions!EnterPrice, Commissions!ToggleWinningAgent,
       Commissions!ToggleOtherAgent, Commissions!ToggleNoWinningAgents
  <2>2. QED
    BY <1>3, <2>1, Zenon
<1>5. CASE Commissions!Cancel
  <2>1. view' = Commissions!Reset(view) /\ calls' = calls \ {c \in calls : c.op = "preview"}
    BY <1>5, ZenonT(20) DEF Commissions!Cancel
  <2>2. view'.loaded = view.loaded /\ view'.lost = view.lost
    BY <1>0, <2>1, ZenonT(20) DEF Commissions!Reset, IsCommissions
  <2>3. QED
    BY <1>1, <2>1, <2>2, ZenonT(20)
\* Changes begin, or are executed.
<1>6. CASE \/ Commissions!CreateSettlement \/ Commissions!EditSettlement
           \/ Commissions!DeleteSettlement \/ Commissions!Dismiss \/ Commissions!Confirm
           \/ Commissions!TogglePaid
  <2>1. view'.loaded = view.loaded /\ view'.lost = view.lost
    BY <1>0, <1>6, ZenonT(20) DEF Commissions!CreateSettlement, Commissions!EditSettlement,
       Commissions!DeleteSettlement, Commissions!Dismiss, Commissions!Confirm,
       Commissions!TogglePaid, IsCommissions
  <2>2. calls \subseteq calls'
    BY <1>6, ZenonT(20) DEF Commissions!CreateSettlement, Commissions!EditSettlement,
       Commissions!DeleteSettlement, Commissions!Dismiss, Commissions!Confirm,
       Commissions!TogglePaid, Commissions!Subscribe
  <2>3. QED
    BY <1>1, <2>1, <2>2, ZenonT(20)
<1>7. CASE Commissions!StoreSettlement \/ Commissions!RemoveSettlement \/ Commissions!StorePaid
  <2>1. PICK c \in calls : c.op # "overview" /\ Commissions!Executes(c) /\ view' = view
    BY <1>7, ZenonT(20) DEF Commissions!StoreSettlement, Commissions!RemoveSettlement, Commissions!StorePaid
  <2>2. \A d \in calls : d = c \/ d \in calls'
    BY <2>1, ZenonT(20) DEF Commissions!Executes
  <2>3. QED
    BY <1>1, <2>1, <2>2, ZenonT(20)
\* Answers.
<1>8. CASE Commissions!Saved \/ Commissions!Deleted \/ Commissions!Paid
  <2>1. \E others : calls' = others \cup {[op |-> "overview", arg |-> None, seen |-> FALSE]}
    BY <1>8, ZenonT(20) DEF Commissions!Saved, Commissions!Deleted, Commissions!Paid,
       Commissions!Load, Commissions!Call
  <2> PICK x : x = [op |-> "overview", arg |-> None, seen |-> FALSE]
    OBVIOUS
  <2>2. x.op = "overview" /\ x \in calls'
    BY <2>1, ZenonT(20)
  <2>3. QED
    BY <1>2, <2>2, Zenon
<1>9. CASE Commissions!ReceiveOverview \/ Commissions!FailOverview
  <2>1. view'.loaded \/ view'.lost
    BY <1>0, <1>9, ZenonT(20) DEF Commissions!ReceiveOverview, Commissions!FailOverview, IsCommissions
  <2>2. QED
    BY <2>1, ZenonT(20) DEF LedgerLoads
<1>10. CASE \/ Commissions!ReceivePreview \/ Commissions!FailPreview \/ Commissions!NotSaved
            \/ Commissions!FailEdit \/ Commissions!NotChanged
  <2>1. view'.loaded = view.loaded /\ (view.lost => view'.lost)
    BY <1>0, <1>10, ZenonT(20) DEF Commissions!ReceivePreview, Commissions!FailPreview,
       Commissions!NotSaved, Commissions!FailEdit, Commissions!NotChanged, IsCommissions
  <2>2. \E c \in calls : c.op # "overview" /\ calls' = calls \ {c}
    BY <1>10, ZenonT(20) DEF Commissions!ReceivePreview, Commissions!FailPreview,
       Commissions!NotSaved, Commissions!FailEdit, Commissions!NotChanged
  <2>3. QED
    BY <1>1, <2>1, <2>2, ZenonT(20)
<1>11. CASE Commissions!ReceiveEdit
  <2>1. PICK s, known :
           /\ known = [view EXCEPT !.overview = s, !.loadingSettlement = FALSE]
           /\ IF s = None \/ (s # None /\ s.paid)
              THEN view' = known
              ELSE view' = [known EXCEPT !.form = [s.form EXCEPT !.none = s.form.winners = {}],
                                         !.preview = None, !.editing = TRUE]
    BY <1>11, ZenonT(60) DEF Commissions!ReceiveEdit
  <2>2. known.loaded = view.loaded /\ known.lost = view.lost /\ IsCommissions(known)
    BY <1>0, <2>1, ZenonT(20) DEF IsCommissions
  <2>3. view'.loaded = view.loaded /\ view'.lost = view.lost
    <3>1. CASE s = None \/ (s # None /\ s.paid)
      BY <2>1, <2>2, <3>1, ZenonT(20)
    <3>2. CASE ~(s = None \/ (s # None /\ s.paid))
      <4>1. PICK f : view' = [known EXCEPT !.form = f, !.preview = None, !.editing = TRUE]
        BY <2>1, <3>2, ZenonT(20)
      <4>2. QED
        BY <2>2, <4>1, ZenonT(20) DEF IsCommissions
    <3>3. QED
      BY <3>1, <3>2, Zenon
  <2>4. PICK c \in calls : c.op = "edit" /\ \A d \in calls : d = c \/ d.op = "preview" \/ d \in calls'
    BY <1>11, ZenonT(60) DEF Commissions!ReceiveEdit
  <2>5. QED
    BY <1>1, <2>3, <2>4, ZenonT(20)
<1>12. QED
  BY <1>4, <1>5, <1>6, <1>7, <1>8, <1>9, <1>10, <1>11, Zenon DEF Commissions!Next, Commissions!Answer

\* Hence the ledger shows what the server has once nothing is under way.
LEMMA LedgerShown ==
  LedgerInv /\ LedgerLoads => Commissions!LedgerFollowsActions /\ Commissions!SpinnersTurn
<1> USE DEF Commissions!Waiting, Commissions!Under
<1>1. LedgerInv /\ LedgerLoads => Commissions!SpinnersTurn
  BY ZenonT(20) DEF LedgerInv, LedgerTurn, LedgerLoads, Asked, Commissions!SpinnersTurn
<1>2. ASSUME LedgerInv, calls = {}, ~view.lost, ~view.crossed PROVE view.overview = world.now
  <2>1. ~Seen({"save", "delete", "pay"}) /\ ~Asked("overview")
    BY <1>2, ZenonT(20) DEF Seen, Asked
  <2>2. QED
    BY <1>2, <2>1, ZenonT(20) DEF LedgerInv, LedgerFollows
<1>3. QED
  BY <1>1, <1>2, Zenon DEF Commissions!LedgerFollowsActions

-----------------------------------------------------------------------------
(* The profile.                                                            *)

IsProfile(v) ==
    v \in [user : {v.user}, form : {v.form}, dirty : BOOLEAN, editing : BOOLEAN,
           saving : BOOLEAN, saved : BOOLEAN, failed : BOOLEAN, told : Nat]

\* The save under way, if there is one, brings the page what the server has.
ProfileInv ==
    /\ IsProfile(view) /\ Proper
    /\ \A c, d \in calls : c.op = "save" /\ c = d
    /\ view.saving <=> Asked("save")
    /\ view.told = 0 =>
          /\ \A c \in calls : c.seen => world = c.arg
          /\ (\A c \in calls : ~c.seen) => view.user = world
          /\ ~view.editing => view.form = view.user

\* Opened, the page shows the details as they are.
LEMMA ProfileInit == Profile!Init => ProfileInv
<1> SUFFICES ASSUME Profile!Init PROVE ProfileInv
  OBVIOUS
<1>1. PICK d \in Details : view = Profile!Opened(d) /\ world = d /\ calls = {}
  BY ZenonT(20) DEF Profile!Init
<1>2. IsProfile(view) /\ ~view.saving /\ view.user = world /\ view.form = view.user
  BY <1>1, Numbers, ZenonT(20) DEF Profile!Opened, IsProfile
<1>3. QED
  BY <1>1, <1>2, ZenonT(20) DEF ProfileInv, Proper, Asked

\* Every step of the page keeps it.
LEMMA ProfileStep ==
  ASSUME ProfileInv, Profile!Next
  PROVE  ProfileInv'
<1> USE DEF Profile!Under, Profile!Ends
<1>0. IsProfile(view) /\ Proper
  BY Zenon DEF ProfileInv
<1>1. CASE Profile!Edit \/ Profile!Cancel
  <2>1. /\ IsProfile(view') /\ view'.saving = view.saving /\ view'.told = view.told
        /\ view'.user = view.user /\ view'.form = view.user
    BY <1>0, <1>1, ZenonT(20) DEF Profile!Edit, Profile!Cancel, IsProfile
  <2>2. calls' = calls /\ world' = world
    BY <1>1, ZenonT(20) DEF Profile!Edit, Profile!Cancel
  <2>3. QED
    BY <2>1, <2>2, ZenonT(20) DEF ProfileInv, Proper, Asked
<1>2. ASSUME NEW d \in Details, Profile!Type(d) PROVE ProfileInv'
  <2>1. /\ IsProfile(view') /\ view'.saving = view.saving /\ view'.told = view.told
        /\ view'.user = view.user /\ view'.editing
    BY <1>0, <1>2, ZenonT(20) DEF Profile!Type, Profile!Screen, IsProfile
  <2>2. calls' = calls /\ world' = world
    BY <1>2, ZenonT(20) DEF Profile!Type
  <2>3. QED
    BY <2>1, <2>2, ZenonT(20) DEF ProfileInv, Proper, Asked
<1>3. CASE Profile!Save
  <2>1. /\ IsProfile(view') /\ view'.saving /\ ~view.saving /\ view'.told = view.told
        /\ view'.user = view.user /\ view'.form = view.form /\ view'.editing = view.editing
    BY <1>0, <1>3, ZenonT(20) DEF Profile!Save, IsProfile
  <2>2. calls' = calls \cup {[op |-> "save", arg |-> view.form, seen |-> FALSE]} /\ world' = world
    BY <1>3, ZenonT(20) DEF Profile!Save, Profile!Subscribe, Profile!Call
  <2>3. PICK x \in calls' : x.op = "save" /\ ~x.seen /\ \A d \in calls' : d = x \/ d \in calls
    BY <1>0, <2>2, Begins, ZenonT(20) DEF Asking
  <2>4. Proper' /\ calls = {}
    BY <1>0, <2>1, <2>2, Begins, ZenonT(20) DEF ProfileInv, Asked
  <2>5. QED
    BY <2>1, <2>2, <2>3, <2>4, ZenonT(20) DEF ProfileInv, Asked
<1>4. CASE Profile!UpdateProfile
  <2> PICK c \in calls : /\ calls' = (calls \ {c}) \cup {[c EXCEPT !.seen = TRUE]}
                         /\ world' = c.arg /\ view' = view
    BY <1>4, ZenonT(20) DEF Profile!UpdateProfile, Profile!Executes
  <2>1. PICK x \in calls' : /\ x.op = c.op /\ x.arg = c.arg /\ x.seen
                            /\ \A d \in calls' : d = x \/ (d \in calls /\ d # c)
    BY <1>0, Marked, ZenonT(20)
  <2>2. Proper'
    BY <1>0, Marked, ZenonT(20)
  <2>3. QED
    BY <2>1, <2>2, ZenonT(20) DEF ProfileInv, Asked
<1>5. CASE Profile!Saved
  <2> PICK c \in calls : /\ c.seen /\ calls' = calls \ {c} /\ world' = world
                         /\ view' = [view EXCEPT !.user = c.arg, !.form = c.arg, !.dirty = FALSE,
                                       !.saving = FALSE, !.saved = TRUE, !.editing = FALSE]
    BY <1>5, ZenonT(20) DEF Profile!Saved, Profile!Succeeds
  <2>1. /\ IsProfile(view') /\ ~view'.saving /\ view'.told = view.told
        /\ view'.user = c.arg /\ view'.form = c.arg
    BY <1>0, ZenonT(20) DEF IsProfile
  <2>2. calls' = {}
    BY ZenonT(20) DEF ProfileInv
  <2>3. QED
    BY <2>1, <2>2, ZenonT(20) DEF ProfileInv, Proper, Asked
<1>6. CASE Profile!Failed
  <2> PICK c \in calls : /\ calls' = calls \ {c} /\ world' = world
                         /\ view' = [view EXCEPT !.saving = FALSE, !.failed = TRUE, !.told = @ + 1]
    BY <1>6, ZenonT(20) DEF Profile!Failed
  <2>1. view.told \in Nat /\ view.told + 1 \in Nat /\ view.told + 1 # 0
    BY <1>0, SMT DEF IsProfile
  <2>2. IsProfile(view') /\ ~view'.saving /\ view'.told # 0
    BY <1>0, <2>1, ZenonT(20) DEF IsProfile
  <2>3. calls' = {}
    BY ZenonT(20) DEF ProfileInv
  <2>4. QED
    BY <2>2, <2>3, ZenonT(20) DEF ProfileInv, Proper, Asked
<1>7. CASE Profile!Fade
  <2>1. /\ IsProfile(view') /\ view'.saving = view.saving /\ view'.told = view.told
        /\ view'.user = view.user /\ view'.form = view.form /\ view'.editing = view.editing
    BY <1>0, <1>7, ZenonT(20) DEF Profile!Fade, IsProfile
  <2>2. calls' = calls /\ world' = world
    BY <1>7, ZenonT(20) DEF Profile!Fade
  <2>3. QED
    BY <2>1, <2>2, ZenonT(20) DEF ProfileInv, Proper, Asked
<1>8. QED
  BY <1>1, <1>2, <1>3, <1>4, <1>5, <1>6, <1>7, Zenon DEF Profile!Next, Profile!Answer

\* Hence the page shows them once nothing is under way.
LEMMA ProfileFollows == ProfileInv => Profile!ShowsServer /\ Profile!SpinnersTurn
BY ZenonT(20)
   DEF ProfileInv, Profile!ShowsServer, Profile!SpinnersTurn, Profile!Screen, Profile!Waiting, Profile!Under, Asked

-----------------------------------------------------------------------------
(* The public team.                                                        *)

IsSettings(v) ==
    v \in [members : {v.members}, saving : BOOLEAN, typed : BOOLEAN, lost : BOOLEAN]

\* The save under way brings what the server has, and without one a read does.
SettingsInv ==
    /\ IsSettings(view) /\ Proper /\ IsWorld(world) /\ Single("save")
    /\ view.saving <=> Asked("save")
    /\ ~view.lost =>
          /\ \A c \in calls : c.op = "save" /\ c.seen => world.now = c.arg
          /\ (\A c \in calls : c.op = "save" => ~c.seen) => world.settled = world.now
          /\ view.typed \/ Asked("save") \/ Asked("team") \/ view.members = world.now

\* Opened, the page waits for the team.
LEMMA SettingsInit == Settings!Init => SettingsInv
<1> SUFFICES ASSUME Settings!Init PROVE SettingsInv
  OBVIOUS
<1>1. IsSettings(view) /\ ~view.saving
  BY ZenonT(20) DEF Settings!Init, Settings!Opened, IsSettings
<1>2. IsWorld(world) /\ world.settled = world.now
  <2>1. PICK t : world = [now |-> t, settled |-> t]
    BY ZenonT(20) DEF Settings!Init
  <2>2. QED
    BY <2>1, ZenonT(20) DEF IsWorld
<1>3. Proper /\ \E x \in calls : Asking(x, "team", None) /\ \A d \in calls : d = x
  BY OpensWith, ZenonT(20) DEF Settings!Init, Settings!Call
<1>4. Single("save") /\ Asked("team") /\ ~Asked("save")
  BY <1>3, ZenonT(20) DEF Asking, Single, Asked
<1>5. QED
  BY <1>1, <1>2, <1>3, <1>4, ZenonT(20) DEF SettingsInv, Asked

\* Every answer brings what the server has.
LEMMA SettingsStep ==
  ASSUME SettingsInv, Settings!Next
  PROVE  SettingsInv'
<1> USE DEF Settings!Under, Settings!Ends
<1>0. IsSettings(view) /\ Proper /\ IsWorld(world) /\ Single("save")
  BY Zenon DEF SettingsInv
<1>1. CASE Settings!Receive
  <2> PICK c \in calls, t \in {world.now, world.settled} :
           /\ c.op = "team" /\ calls' = calls \ {c} /\ world' = world
           /\ view' = [view EXCEPT !.members = t, !.typed = FALSE]
    BY <1>1, ZenonT(20) DEF Settings!Receive, Settings!Fresh
  <2>1. /\ IsSettings(view') /\ view'.saving = view.saving /\ view'.lost = view.lost
        /\ view'.members = t
    BY <1>0, ZenonT(20) DEF IsSettings
  <2>2. Proper' /\ Single("save")' /\ \A d \in calls : d.op = "save" => d \in calls'
    BY <1>0, Ended, ZenonT(20)
  <2>3. QED
    BY <2>1, <2>2, ZenonT(20) DEF SettingsInv, Asked
<1>2. CASE Settings!Fail \/ Settings!NotSaved
  <2>1. IsSettings(view') /\ view'.lost /\ IsWorld(world')
    BY <1>0, <1>2, Settled, ZenonT(20)
       DEF Settings!Fail, Settings!NotSaved, Settings!Settle, IsSettings
  <2>2. PICK c \in calls : calls' = calls \ {c} /\ (IF c.op = "save" THEN ~view'.saving ELSE view'.saving = view.saving)
    <3>1. CASE Settings!Fail
      BY <1>0, <3>1, ZenonT(20) DEF Settings!Fail, IsSettings
    <3>2. CASE Settings!NotSaved
      BY <1>0, <3>2, ZenonT(20) DEF Settings!NotSaved, IsSettings
    <3>3. QED
      BY <1>2, <3>1, <3>2, Zenon
  <2>3. Proper' /\ Single("save")' /\ (c.op = "save" => ~Asked("save")') /\ (c.op # "save" => (Asked("save")' <=> Asked("save")))
    BY <1>0, <2>2, Ended, ZenonT(20)
  <2>4. QED
    BY <2>1, <2>2, <2>3, ZenonT(20) DEF SettingsInv
<1>3. ASSUME NEW m, NEW text, Settings!Type(m, text) PROVE SettingsInv'
  <2>1. /\ IsSettings(view') /\ view'.saving = view.saving /\ view'.lost = view.lost /\ view'.typed
        /\ calls' = calls /\ world' = world
    BY <1>0, <1>3, ZenonT(20) DEF Settings!Type, IsSettings
  <2>2. QED
    BY <2>1, ZenonT(20) DEF SettingsInv, Proper, Single, Asked
<1>4. CASE Settings!Save
  <2>1. /\ IsSettings(view') /\ view'.saving /\ view'.lost = view.lost /\ ~view.saving /\ world' = world
    BY <1>0, <1>4, ZenonT(20) DEF Settings!Save, IsSettings
  <2>2. PICK x \in calls' : Asking(x, "save", view.members) /\ \A d \in calls' : d = x \/ d \in calls
    BY <1>0, <1>4, Begins, ZenonT(20) DEF Settings!Save, Settings!Subscribe, Settings!Call
  <2>3. Proper'
    BY <1>0, <1>4, Begins, ZenonT(20) DEF Settings!Save, Settings!Subscribe, Settings!Call
  <2>4. \A c \in calls : c.op # "save"
    BY <2>1, ZenonT(20) DEF SettingsInv, Asked
  <2>5. Single("save")' /\ Asked("save")' /\ (\A c \in calls' : c.op = "save" => ~c.seen)
    BY <2>2, <2>4, ZenonT(20) DEF Single, Asked, Asking
  <2>6. QED
    BY <2>1, <2>3, <2>4, <2>5, ZenonT(20) DEF SettingsInv
<1>5. CASE Settings!StoreTeam
  <2> PICK c \in calls : /\ c.op = "save" /\ calls' = (calls \ {c}) \cup {[c EXCEPT !.seen = TRUE]}
                         /\ world' = [world EXCEPT !.now = c.arg] /\ view' = view
    BY <1>5, ZenonT(20) DEF Settings!StoreTeam, Settings!Executes, Settings!Commit
  <2>1. IsWorld(world') /\ world'.now = c.arg
    BY <1>0, Committed, ZenonT(20)
  <2>2. PICK x \in calls' : /\ x.op = c.op /\ x.arg = c.arg /\ x.seen
                            /\ \A d \in calls' : d = x \/ (d \in calls /\ d # c)
    BY <1>0, Marked, ZenonT(20)
  <2>3. Proper'
    BY <1>0, Marked, ZenonT(20)
  <2>4. Single("save")' /\ Asked("save")' /\ \A d \in calls' : d.op = "save" => d = x
    BY <1>0, <2>2, ZenonT(20) DEF Single, Asked
  <2>5. QED
    BY <2>1, <2>2, <2>3, <2>4, ZenonT(20) DEF SettingsInv, Asked
<1>6. CASE Settings!Saved
  <2> PICK c \in calls : /\ c.op = "save" /\ c.seen /\ calls' = calls \ {c}
                         /\ world' = [world EXCEPT !.settled = world.now]
                         /\ view' = [view EXCEPT !.members = c.arg, !.saving = FALSE, !.typed = FALSE]
    BY <1>6, ZenonT(20) DEF Settings!Saved, Settings!Succeeds, Settings!Settle
  <2>1. /\ IsSettings(view') /\ ~view'.saving /\ view'.lost = view.lost /\ view'.members = c.arg
    BY <1>0, ZenonT(20) DEF IsSettings
  <2>2. IsWorld(world') /\ world'.now = world.now /\ world'.settled = world.now
    BY <1>0, Settled, ZenonT(20)
  <2>3. Proper' /\ Single("save")' /\ ~Asked("save")'
    BY <1>0, Ended, ZenonT(20)
  <2>4. QED
    BY <2>1, <2>2, <2>3, ZenonT(20) DEF SettingsInv, Asked
<1>7. QED
  BY <1>1, <1>2, <1>3, <1>4, <1>5, <1>6, Zenon
     DEF Settings!Next, Settings!Answer, Settings!Add, Settings!Edit, Settings!Remove

\* Hence the page shows what the public sees.
LEMMA SettingsFollow == SettingsInv => Settings!ShowsServer /\ Settings!SpinnersTurn
BY ZenonT(20) DEF SettingsInv, Settings!ShowsServer, Settings!SpinnersTurn, Settings!Waiting, Settings!Under, Asked

-----------------------------------------------------------------------------
(* What is shown as under way.                                             *)

\* A question that was just asked is unanswered.
LEMMA JustAsked ==
  ASSUME NEW op, NEW q, NEW x, x = [op |-> op, arg |-> q, seen |-> FALSE], x \in calls'
  PROVE  Pending(op)' /\ Asked(op)'
<1>1. x.op = op /\ ~x.seen
  BY ZenonT(20)
<1>2. QED
  BY <1>1, ZenonT(20) DEF Pending, Asked

\* What becomes of other requests, and of answered ones, leaves it so.
LEMMA StillPending ==
  ASSUME NEW op, NEW c \in calls, c.seen \/ c.op # op,
         \/ calls' = calls \ {c}
         \/ calls' = (calls \ {c}) \cup {[c EXCEPT !.seen = TRUE]}
  PROVE  Pending(op) => Pending(op)'
<1>1. \A d \in calls : d = c \/ d \in calls'
  BY ZenonT(20)
<1>2. QED
  BY <1>1, ZenonT(20) DEF Pending

\* Audit log: while it is loading a read is without an answer.
AuditTurns == view.loading => Pending("logs")

\* Opened, the log is read.
LEMMA AuditTurnsInit == Audit!Init => AuditTurns
<1> SUFFICES ASSUME Audit!Init PROVE AuditTurns
  OBVIOUS
<1> PICK x, y : /\ x = [op |-> "logs", arg |-> Audit!Query(NoFilter, 1), seen |-> FALSE]
                /\ y = [op |-> "actors", arg |-> None, seen |-> FALSE]
  OBVIOUS
<1>1. x \in calls
  BY ZenonT(20) DEF Audit!Init, Audit!Call
<1>2. x.op = "logs" /\ ~x.seen
  BY ZenonT(20)
<1>3. QED
  BY <1>1, <1>2, ZenonT(20) DEF AuditTurns, Pending

\* An answer or a failure ends the loading, a new question begins it.
LEMMA AuditTurnsStep ==
  ASSUME AuditInv, AuditTurns, Audit!Next
  PROVE  AuditTurns'
<1> USE DEF Audit!Under, Audit!Ends
<1>0. IsAudit(view)
  BY ZenonT(20) DEF AuditInv
<1>1. ASSUME NEW f, Audit!SetFilters(f) PROVE AuditTurns'
  <2>1. view'.loading = view.loading /\ calls' = calls
    BY <1>0, <1>1, ZenonT(20) DEF Audit!SetFilters, IsAudit
  <2>2. QED
    BY <2>1, ZenonT(20) DEF AuditTurns, Pending
<1>2. ASSUME NEW q, Audit!Switch(Audit!Call("logs", q)) PROVE AuditTurns'
  <2> PICK x : x = [op |-> "logs", arg |-> q, seen |-> FALSE]
    OBVIOUS
  <2>1. x \in calls'
    BY <1>2, ZenonT(20) DEF Audit!Switch, Audit!Call
  <2>2. QED
    BY <2>1, JustAsked, ZenonT(20) DEF AuditTurns
<1>3. ASSUME NEW p, Audit!Load(p) PROVE AuditTurns'
  BY <1>2, <1>3, ZenonT(20) DEF Audit!Load
<1>4. CASE Audit!Debounced
  BY <1>2, <1>4, ZenonT(20) DEF Audit!Debounced
<1>5. CASE Audit!Toggle
  <2>1. view'.loading = view.loading /\ calls' = calls
    BY <1>0, <1>5, ZenonT(20) DEF Audit!Toggle, IsAudit
  <2>2. QED
    BY <2>1, ZenonT(20) DEF AuditTurns, Pending
<1>6. CASE Audit!Receive \/ Audit!Fail
  <2>1. ~view'.loading
    BY <1>0, <1>6, ZenonT(20) DEF Audit!Receive, Audit!Fail, IsAudit
  <2>2. QED
    BY <2>1, ZenonT(20) DEF AuditTurns
<1>7. CASE Audit!Quiet
  <2> PICK c \in calls : c.seen /\ calls' = calls \ {c} /\ view' = view
    BY <1>7, ZenonT(20) DEF Audit!Quiet, Audit!EndsQuietly
  <2>1. Pending("logs") => Pending("logs")'
    BY StillPending, ZenonT(20)
  <2>2. QED
    BY <2>1, ZenonT(20) DEF AuditTurns
<1>8. CASE Audit!ReceiveActors
  <2> PICK c \in calls : /\ c.op = "actors"
                         /\ \/ calls' = calls \ {c}
                            \/ calls' = (calls \ {c}) \cup {[c EXCEPT !.seen = TRUE]}
                         /\ view' = view \/ view' = [view EXCEPT !.actors = TRUE]
    BY <1>8, ZenonT(20) DEF Audit!ReceiveActors, Audit!Shows, Audit!Previews
  <2>1. Pending("logs") => Pending("logs")'
    BY StillPending, ZenonT(20)
  <2>2. view'.loading = view.loading
    BY <1>0, ZenonT(20) DEF IsAudit
  <2>3. QED
    BY <2>1, <2>2, ZenonT(20) DEF AuditTurns
<1>9. QED
  BY <1>1, <1>3, <1>4, <1>5, <1>6, <1>7, <1>8, Zenon
     DEF Audit!Next, Audit!ClearFilters, Audit!Refresh, Audit!GoToPage, Audit!Answer

\* Team report: while it is loading a read is without an answer.
TeamTurns == view.loading => Pending("report")

\* Opened, the report is read.
LEMMA TeamTurnsInit == TeamAnalytics!Init => TeamTurns
<1> SUFFICES ASSUME TeamAnalytics!Init PROVE TeamTurns
  OBVIOUS
<1>1. \E x \in calls : Asking(x, "report", AllTime) /\ \A d \in calls : d = x
  BY OpensWith, ZenonT(20) DEF TeamAnalytics!Init, TeamAnalytics!Call
<1>2. QED
  BY <1>1, ZenonT(20) DEF TeamTurns, Pending, Asking

\* An answer or a failure ends the loading, a new question begins it.
LEMMA TeamTurnsStep ==
  ASSUME TeamInv, TeamTurns, TeamAnalytics!Next
  PROVE  TeamTurns'
<1> USE DEF TeamAnalytics!Under, TeamAnalytics!Ends
<1>0. IsTeam(view)
  BY ZenonT(20) DEF TeamInv
<1>1. ASSUME NEW q, TeamAnalytics!Load(q) PROVE TeamTurns'
  <2> PICK x : x = [op |-> "report", arg |-> q, seen |-> FALSE]
    OBVIOUS
  <2>1. x \in calls'
    BY <1>1, ZenonT(20) DEF TeamAnalytics!Load, TeamAnalytics!Switch, TeamAnalytics!Call
  <2>2. QED
    BY <2>1, JustAsked, ZenonT(20) DEF TeamTurns
<1>2. CASE TeamAnalytics!Receive \/ TeamAnalytics!Fail
  <2>1. ~view'.loading
    BY <1>0, <1>2, ZenonT(20) DEF TeamAnalytics!Receive, TeamAnalytics!Fail, IsTeam
  <2>2. QED
    BY <2>1, ZenonT(20) DEF TeamTurns
<1>3. CASE TeamAnalytics!Quiet
  <2> PICK c \in calls : c.seen /\ calls' = calls \ {c} /\ view' = view
    BY <1>3, ZenonT(20) DEF TeamAnalytics!Quiet, TeamAnalytics!EndsQuietly
  <2>1. Pending("report") => Pending("report")'
    BY StillPending, ZenonT(20)
  <2>2. QED
    BY <2>1, ZenonT(20) DEF TeamTurns
<1>4. QED
  BY <1>1, <1>2, <1>3, Zenon
     DEF TeamAnalytics!Next, TeamAnalytics!SetPeriod, TeamAnalytics!TryAgain, TeamAnalytics!Answer

\* An agent's page: while it is loading a read is without an answer.
AgentTurns == view.loading => Pending("detail")

\* Opened, the agent is read.
LEMMA AgentTurnsInit == AgentDetail!Init => AgentTurns
<1> SUFFICES ASSUME AgentDetail!Init PROVE AgentTurns
  OBVIOUS
<1> PICK q : calls = {[op |-> "detail", arg |-> q, seen |-> FALSE]}
  BY ZenonT(20) DEF AgentDetail!Init, AgentDetail!Call
<1>1. \E x \in calls : Asking(x, "detail", q) /\ \A d \in calls : d = x
  BY OpensWith, ZenonT(20)
<1>2. QED
  BY <1>1, ZenonT(20) DEF AgentTurns, Pending, Asking

\* An answer or a failure ends the loading, a new question begins it.
LEMMA AgentTurnsStep ==
  ASSUME AgentInv, AgentTurns, AgentDetail!Next
  PROVE  AgentTurns'
<1> USE DEF AgentDetail!Under, AgentDetail!Ends
<1>0. IsAgent(view)
  BY ZenonT(20) DEF AgentInv
<1>1. ASSUME NEW a, NEW p, AgentDetail!Load(a, p) PROVE AgentTurns'
  <2> PICK x : x = [op |-> "detail", arg |-> AgentDetail!Report(a, p), seen |-> FALSE]
    OBVIOUS
  <2>1. x \in calls'
    BY <1>1, ZenonT(20) DEF AgentDetail!Load, AgentDetail!Switch, AgentDetail!Call
  <2>2. QED
    BY <2>1, JustAsked, ZenonT(20) DEF AgentTurns
<1>2. CASE AgentDetail!Receive \/ AgentDetail!Fail
  <2>1. ~view'.loading
    BY <1>0, <1>2, ZenonT(20) DEF AgentDetail!Receive, AgentDetail!Fail, IsAgent
  <2>2. QED
    BY <2>1, ZenonT(20) DEF AgentTurns
<1>3. CASE AgentDetail!Quiet
  <2> PICK c \in calls : c.seen /\ calls' = calls \ {c} /\ view' = view
    BY <1>3, ZenonT(20) DEF AgentDetail!Quiet, AgentDetail!EndsQuietly
  <2>1. Pending("detail") => Pending("detail")'
    BY StillPending, ZenonT(20)
  <2>2. QED
    BY <2>1, ZenonT(20) DEF AgentTurns
<1>4. ASSUME NEW a, AgentDetail!LoadMore(a) PROVE AgentTurns'
  <2>1. PICK limits : view' = [view EXCEPT !.limits = limits]
    BY <1>4, ZenonT(20) DEF AgentDetail!LoadMore
  <2>2. view'.loading = view.loading /\ calls' = calls
    BY <1>0, <1>4, <2>1, ZenonT(20) DEF AgentDetail!LoadMore, IsAgent
  <2>3. QED
    BY <2>2, ZenonT(20) DEF AgentTurns, Pending
<1>5. QED
  BY <1>1, <1>2, <1>3, <1>4, Zenon
     DEF AgentDetail!Next, AgentDetail!OpenAgent, AgentDetail!SetPeriod, AgentDetail!TryAgain,
         AgentDetail!Answer

\* Overview: placeholders are shown while a read is without an answer.
IsOverview(v) == v \in [summary : BOOLEAN, error : BOOLEAN]
OverviewInv == IsOverview(view) /\ (view.summary \/ view.error \/ Pending("summary"))

\* Opened, the figures are read.
LEMMA OverviewInit == Overview!Init => OverviewInv
<1> SUFFICES ASSUME Overview!Init PROVE OverviewInv
  OBVIOUS
<1>1. IsOverview(view)
  BY ZenonT(20) DEF Overview!Init, Overview!Opened, IsOverview
<1>2. \E x \in calls : Asking(x, "summary", None) /\ \A d \in calls : d = x
  BY OpensWith, ZenonT(20) DEF Overview!Init, Overview!Call
<1>3. QED
  BY <1>1, <1>2, ZenonT(20) DEF OverviewInv, Pending, Asking

\* Every answer leaves figures or an error.
LEMMA OverviewStep ==
  ASSUME OverviewInv, Overview!Next
  PROVE  OverviewInv'
<1> USE DEF Overview!Under, Overview!Ends
<1>0. IsOverview(view)
  BY ZenonT(20) DEF OverviewInv
<1>1. CASE Overview!Reload
  <2> PICK x : x = [op |-> "summary", arg |-> None, seen |-> FALSE]
    OBVIOUS
  <2>1. x \in calls'
    BY <1>1, ZenonT(20) DEF Overview!Reload, Overview!Switch, Overview!Call
  <2>2. IsOverview(view')
    BY <1>0, <1>1, ZenonT(20) DEF Overview!Reload, IsOverview
  <2>3. QED
    BY <2>1, <2>2, JustAsked, ZenonT(20) DEF OverviewInv
<1>2. CASE Overview!Receive \/ Overview!Fail
  <2>1. IsOverview(view') /\ (view'.summary \/ view'.error)
    BY <1>0, <1>2, ZenonT(20) DEF Overview!Receive, Overview!Fail, IsOverview
  <2>2. QED
    BY <2>1, ZenonT(20) DEF OverviewInv
<1>3. CASE Overview!Quiet
  <2> PICK c \in calls : c.seen /\ calls' = calls \ {c} /\ view' = view
    BY <1>3, ZenonT(20) DEF Overview!Quiet, Overview!EndsQuietly
  <2>1. Pending("summary") => Pending("summary")'
    BY StillPending, ZenonT(20)
  <2>2. QED
    BY <2>1, ZenonT(20) DEF OverviewInv
<1>4. QED
  BY <1>1, <1>2, <1>3, Zenon DEF Overview!Next, Overview!Answer

\* List of properties: while it is loading a read is without an answer.
ListTurns == view.loading => Pending("list")

\* Opened, the list is read.
LEMMA ListTurnsInit == Properties!Init => ListTurns
<1> SUFFICES ASSUME Properties!Init PROVE ListTurns
  OBVIOUS
<1> PICK q : calls = {[op |-> "list", arg |-> q, seen |-> FALSE]}
  BY ZenonT(20) DEF Properties!Init, Properties!Call
<1>1. \E x \in calls : Asking(x, "list", q) /\ \A d \in calls : d = x
  BY OpensWith, ZenonT(20)
<1>2. QED
  BY <1>1, ZenonT(20) DEF ListTurns, Pending, Asking

\* An answer or a failure ends the loading, a new question begins it.
LEMMA ListTurnsStep ==
  ASSUME ListInv, ListTurns, Properties!Next
  PROVE  ListTurns'
<1> USE DEF Properties!Under, Properties!Ends
<1>0. IsList(view)
  BY ZenonT(20) DEF ListInv
<1>1. ASSUME NEW form, Properties!Change(form) PROVE ListTurns'
  <2>1. view'.loading = view.loading /\ calls' = calls
    BY <1>0, <1>1, ZenonT(20) DEF Properties!Change, IsList
  <2>2. QED
    BY <2>1, ZenonT(20) DEF ListTurns, Pending
<1>2. CASE Properties!Debounced
  <2> PICK x : x = [op |-> "list", arg |-> view.form, seen |-> FALSE]
    OBVIOUS
  <2>1. x \in calls'
    BY <1>2, ZenonT(20) DEF Properties!Debounced, Properties!Switch, Properties!Call
  <2>2. QED
    BY <2>1, JustAsked, ZenonT(20) DEF ListTurns
<1>3. CASE Properties!Receive \/ Properties!Fail
  <2>1. ~view'.loading
    BY <1>0, <1>3, ZenonT(20) DEF Properties!Receive, Properties!Fail, IsList
  <2>2. QED
    BY <2>1, ZenonT(20) DEF ListTurns
<1>4. CASE Properties!Quiet
  <2> PICK c \in calls : c.seen /\ calls' = calls \ {c} /\ view' = view
    BY <1>4, ZenonT(20) DEF Properties!Quiet, Properties!EndsQuietly
  <2>1. Pending("list") => Pending("list")'
    BY StillPending, ZenonT(20)
  <2>2. QED
    BY <2>1, ZenonT(20) DEF ListTurns
<1>5. ASSUME NEW f, Properties!SetFilter(f) PROVE ListTurns'
  BY <1>1, <1>5, ZenonT(20) DEF Properties!SetFilter
<1>6. ASSUME NEW p, Properties!GoToPage(p) PROVE ListTurns'
  BY <1>1, <1>6, ZenonT(20) DEF Properties!GoToPage
<1>7. QED
  BY <1>1, <1>2, <1>3, <1>4, <1>5, <1>6, Zenon
     DEF Properties!Next, Properties!Clear, Properties!Reload, Properties!Answer

\* Hence the spinners of these pages turn for a request.
LEMMA ReadersTurn ==
  /\ AuditTurns => Audit!SpinnersTurn
  /\ TeamTurns => TeamAnalytics!SpinnersTurn
  /\ AgentTurns => AgentDetail!SpinnersTurn
  /\ OverviewInv => Overview!SpinnersTurn
  /\ ListTurns => Properties!SpinnersTurn
<1>1. \A op : Pending(op) => {c \in calls : c.op = op} # {}
  BY ZenonT(20) DEF Pending
<1>2. OverviewInv => Overview!SpinnersTurn
  BY <1>1, SMT DEF OverviewInv, IsOverview, Overview!SpinnersTurn, Overview!Screen, Overview!Waiting, Overview!Under
<1>3. QED
  BY <1>1, <1>2, ZenonT(20)
     DEF AuditTurns, TeamTurns, AgentTurns, ListTurns,
         Audit!SpinnersTurn, Audit!Waiting, Audit!Under,
         TeamAnalytics!SpinnersTurn, TeamAnalytics!Waiting, TeamAnalytics!Under,
         AgentDetail!SpinnersTurn, AgentDetail!Waiting, AgentDetail!Under,
         Properties!SpinnersTurn, Properties!Waiting, Properties!Under

-----------------------------------------------------------------------------
(* Forms: what is shown as loading or saving is.                           *)

FormReads == view.ready = "loading" => Asked("details")
FormSends == view.saving /\ ~view.done => Asked("submit")

\* The requests of a form are proper ones.
LEMMA FormProper == FormInv => Proper
BY ZenonT(20) DEF FormInv, OneRequest, Proper

\* A form that opens with a read.
LEMMA FormOpens ==
  ASSUME view.ready = "loading", ~view.saving, NEW q, calls = {[op |-> "details", arg |-> q, seen |-> FALSE]}
  PROVE  FormReads /\ FormSends
<1>1. \E x \in calls : Asking(x, "details", q) /\ \A d \in calls : d = x
  BY OpensWith, ZenonT(20)
<1>2. QED
  BY <1>1, ZenonT(20) DEF FormReads, FormSends, Asking, Asked

\* What is executed is under way still.
LEMMA FormWaits ==
  ASSUME Proper, FormReads, FormSends, view' = view,
         NEW c \in calls, calls' = (calls \ {c}) \cup {[c EXCEPT !.seen = TRUE]}
  PROVE  FormReads' /\ FormSends'
<1>1. \A op : Asked(op)' <=> Asked(op)
  BY Previewed, ZenonT(20)
<1>2. QED
  BY <1>1, ZenonT(20) DEF FormReads, FormSends

\* The form is sent.
LEMMA FormSaves ==
  ASSUME Proper, FormReads, view'.ready = view.ready, NEW q,
         calls' = calls \cup {[op |-> "submit", arg |-> q, seen |-> FALSE]}
  PROVE  FormReads' /\ FormSends'
<1>1. /\ \E x \in calls' : Asking(x, "submit", q) /\ \A d \in calls' : d = x \/ d \in calls
      /\ \A d \in calls : d \in calls'
  BY Begins, ZenonT(20)
<1>2. Asked("submit")' /\ (Asked("details") => Asked("details")')
  BY <1>1, ZenonT(20) DEF Asking, Asked
<1>3. QED
  BY <1>2, ZenonT(20) DEF FormReads, FormSends

\* The read ends, and with it the loading.
LEMMA FormRead ==
  ASSUME Proper, FormSends, view'.ready # "loading", view'.saving = view.saving, view'.done = view.done,
         NEW c \in calls, c.op = "details", calls' = calls \ {c}
  PROVE  FormReads' /\ FormSends'
<1>1. Asked("submit")' <=> Asked("submit")
  BY Ended, ZenonT(20)
<1>2. QED
  BY <1>1, ZenonT(20) DEF FormReads, FormSends

\* The form is answered, or refused.
LEMMA FormEnds ==
  ASSUME FormReads, view'.ready = view.ready, ~view'.saving \/ view'.done,
         \A d \in calls : d.op = "details" => d \in calls'
  PROVE  FormReads' /\ FormSends'
BY ZenonT(20) DEF FormReads, FormSends, Asked

\* The booking form.
BookingTurns == FormReads /\ FormSends

\* Opened, the property is read.
LEMMA BookingTurnsInit == Booking!Init => BookingTurns
<1> SUFFICES ASSUME Booking!Init PROVE BookingTurns
  OBVIOUS
<1>1. view.ready = "loading" /\ ~view.saving
  BY ZenonT(20) DEF Booking!Init, Booking!InitForm, Booking!OpenedForm
<1>2. calls = {[op |-> "details", arg |-> world.open, seen |-> FALSE]}
  BY ZenonT(20) DEF Booking!Init, Booking!InitForm, Booking!Call
<1>3. QED
  BY <1>1, <1>2, FormOpens, Zenon DEF BookingTurns

\* Every step keeps the request with what is shown for it.
LEMMA BookingTurnsStep ==
  ASSUME FormInv, view \in FormView, BookingTurns, Booking!Next
  PROVE  BookingTurns'
<1> USE DEF Booking!Under, Booking!Ends
<1>0. view \in FormView /\ Proper /\ FormReads /\ FormSends
  BY FormProper, Zenon DEF BookingTurns
<1>1. CASE Booking!Others \/ Booking!Fill
  <2>1. /\ view'.ready = view.ready /\ view'.saving = view.saving /\ view'.done = view.done
        /\ calls' = calls
    BY <1>0, <1>1, ZenonT(20) DEF Booking!Others, Booking!Fill, FormView
  <2>2. QED
    BY <1>0, <2>1, ZenonT(20) DEF BookingTurns, FormReads, FormSends, Asked
<1>2. CASE Booking!Submit
  <2>1. view'.ready = view.ready
    BY <1>0, <1>2, ZenonT(20) DEF Booking!Submit, FormView
  <2>2. PICK q : calls' = calls \cup {[op |-> "submit", arg |-> q, seen |-> FALSE]}
    BY <1>2, ZenonT(20) DEF Booking!Submit, Booking!Subscribe, Booking!Submitted, Booking!Call
  <2>3. QED
    BY <1>0, <2>1, <2>2, FormSaves, Zenon DEF BookingTurns
<1>3. CASE Booking!CreateBooking
  <2>1. view' = view /\ \E c \in calls : calls' = (calls \ {c}) \cup {[c EXCEPT !.seen = TRUE]}
    BY <1>3, ZenonT(20) DEF Booking!CreateBooking, Booking!Executes
  <2>2. QED
    BY <1>0, <2>1, FormWaits, Zenon DEF BookingTurns
<1>4. CASE Booking!ReceiveProperty
  <2> PICK c, canBook :
          /\ c \in calls
          /\ c.op = "details" /\ calls' = calls \ {c}
          /\ view' = [view EXCEPT !.ready = IF canBook THEN "ready" ELSE "failed", !.valid = FALSE]
    BY <1>4, ZenonT(20) DEF Booking!ReceiveProperty
  <2> PICK r : r = IF canBook THEN "ready" ELSE "failed"
    OBVIOUS
  <2>1. r # "loading"
    BY ZenonT(20)
  <2>2. view'.ready = r /\ view'.saving = view.saving /\ view'.done = view.done
    BY <1>0, ZenonT(20) DEF FormView
  <2>3. QED
    BY <1>0, <2>1, <2>2, FormRead, ZenonT(20) DEF BookingTurns
<1>5. CASE Booking!Booked \/ Booking!Refused
  <2> PICK c, more :
          /\ c \in calls
          /\ c.op = "submit" /\ calls' = (calls \ {c}) \cup more
          /\ \/ view' = [view EXCEPT !.done = TRUE]
             \/ view' = [view EXCEPT !.saving = FALSE, !.told = @ + 1]
    <3>1. CASE Booking!Booked
      BY <3>1, ZenonT(20) DEF Booking!Booked
    <3>2. CASE Booking!Refused
      <4> PICK c \in calls : /\ c.op = "submit" /\ calls' = calls \ {c}
                             /\ view' = [view EXCEPT !.saving = FALSE, !.told = @ + 1]
        BY <3>2, ZenonT(20) DEF Booking!Refused
      <4>1. calls' = (calls \ {c}) \cup {}
        BY ZenonT(20)
      <4>2. QED
        BY <4>1, ZenonT(20)
    <3>3. QED
      BY <1>5, <3>1, <3>2, Zenon
  <2>1. view'.ready = view.ready /\ (~view'.saving \/ view'.done)
    BY <1>0, ZenonT(20) DEF FormView
  <2>2. \A d \in calls : d.op = "details" => d \in calls'
    BY ZenonT(20)
  <2>3. QED
    BY <1>0, <2>1, <2>2, FormEnds, Zenon DEF BookingTurns
<1>6. CASE Booking!ReceiveCount
  <2> PICK c \in calls : c.op = "count" /\ calls' = calls \ {c} /\ view' = view
    BY <1>6, ZenonT(20) DEF Booking!ReceiveCount
  <2>1. (Asked("details")' <=> Asked("details")) /\ (Asked("submit")' <=> Asked("submit"))
    BY <1>0, Ended, ZenonT(20)
  <2>2. QED
    BY <1>0, <2>1, ZenonT(20) DEF BookingTurns, FormReads, FormSends
<1>7. QED
  BY <1>1, <1>2, <1>3, <1>4, <1>5, <1>6, Zenon DEF Booking!Next, Booking!Answer

\* The form for a tenant who moves in.
AssignmentTurns == FormReads /\ FormSends

\* Opened, the property is read.
LEMMA AssignmentTurnsInit == Assignment!Init => AssignmentTurns
<1> SUFFICES ASSUME Assignment!Init PROVE AssignmentTurns
  OBVIOUS
<1>1. view.ready = "loading" /\ ~view.saving
  BY ZenonT(20) DEF Assignment!Init, Assignment!InitForm, Assignment!OpenedForm
<1>2. calls = {[op |-> "details", arg |-> world.open, seen |-> FALSE]}
  BY ZenonT(20) DEF Assignment!Init, Assignment!InitForm, Assignment!Call
<1>3. QED
  BY <1>1, <1>2, FormOpens, Zenon DEF AssignmentTurns

\* Every step keeps the request with what is shown for it.
LEMMA AssignmentTurnsStep ==
  ASSUME FormInv, view \in FormView, AssignmentTurns, Assignment!Next
  PROVE  AssignmentTurns'
<1> USE DEF Assignment!Under, Assignment!Ends
<1>0. view \in FormView /\ Proper /\ FormReads /\ FormSends
  BY FormProper, Zenon DEF AssignmentTurns
<1>1. CASE Assignment!Others \/ Assignment!Fill
  <2>1. /\ view'.ready = view.ready /\ view'.saving = view.saving /\ view'.done = view.done
        /\ calls' = calls
    BY <1>0, <1>1, ZenonT(20) DEF Assignment!Others, Assignment!Fill, FormView
  <2>2. QED
    BY <1>0, <2>1, ZenonT(20) DEF AssignmentTurns, FormReads, FormSends, Asked
<1>2. CASE Assignment!Assign
  <2> PICK q : /\ view' = [view EXCEPT !.saving = TRUE]
               /\ calls' = calls \cup {[op |-> "submit", arg |-> q, seen |-> FALSE]}
    BY <1>2, ZenonT(20) DEF Assignment!Assign, Assignment!Subscribe, Assignment!Submitted, Assignment!Call
  <2>1. view'.ready = view.ready
    BY <1>0, ZenonT(20) DEF FormView
  <2>2. QED
    BY <1>0, <2>1, FormSaves, ZenonT(20) DEF AssignmentTurns
<1>3. CASE Assignment!AssignTenant
  <2>1. \E c \in calls : view' = view /\ calls' = (calls \ {c}) \cup {[c EXCEPT !.seen = TRUE]}
    BY <1>3, ZenonT(20) DEF Assignment!AssignTenant, Assignment!Executes
  <2>2. QED
    BY <1>0, <2>1, FormWaits, Zenon DEF AssignmentTurns
<1>4. CASE Assignment!ReceiveProperty \/ Assignment!LoseProperty
  <2>1. view'.ready # "loading" /\ view'.saving = view.saving /\ view'.done = view.done
    BY <1>0, <1>4, ZenonT(20) DEF Assignment!ReceiveProperty, Assignment!LoseProperty, FormView
  <2> PICK c \in calls : c.op = "details" /\ calls' = calls \ {c}
    BY <1>4, ZenonT(20) DEF Assignment!ReceiveProperty, Assignment!LoseProperty
  <2>2. QED
    BY <1>0, <2>1, FormRead, ZenonT(20) DEF AssignmentTurns
<1>5. CASE Assignment!Assigned \/ Assignment!Refused
  <2>1. view'.ready = view.ready /\ (~view'.saving \/ view'.done)
    BY <1>0, <1>5, ZenonT(20) DEF Assignment!Assigned, Assignment!Refused, FormView
  <2>2. \A d \in calls : d.op = "details" => d \in calls'
    BY <1>5, ZenonT(20) DEF Assignment!Assigned, Assignment!Refused, Assignment!Succeeds
  <2>3. QED
    BY <1>0, <2>1, <2>2, FormEnds, ZenonT(20) DEF AssignmentTurns
<1>6. QED
  BY <1>1, <1>2, <1>3, <1>4, <1>5, Zenon DEF Assignment!Next, Assignment!Answer

\* The application; its button is put out when it was received.
JoinUsTurns == FormReads /\ FormSends /\ ~(view.saving /\ view.done)

\* Opened, the settings are read.
LEMMA JoinUsTurnsInit == JoinUs!Init => JoinUsTurns
<1> SUFFICES ASSUME JoinUs!Init PROVE JoinUsTurns
  OBVIOUS
<1>1. view.ready = "loading" /\ ~view.saving
  BY ZenonT(20) DEF JoinUs!Init, JoinUs!InitForm, JoinUs!OpenedForm
<1>2. calls = {[op |-> "details", arg |-> world.open, seen |-> FALSE]}
  BY ZenonT(20) DEF JoinUs!Init, JoinUs!InitForm, JoinUs!Call
<1>3. QED
  BY <1>1, <1>2, FormOpens, Zenon DEF JoinUsTurns

\* Every step keeps the request with what is shown for it.
LEMMA JoinUsTurnsStep ==
  ASSUME FormInv, view \in FormView, JoinUsTurns, JoinUs!Next
  PROVE  JoinUsTurns'
<1> USE DEF JoinUs!Under, JoinUs!Ends
<1>0. view \in FormView /\ Proper /\ FormReads /\ FormSends /\ ~(view.saving /\ view.done)
  BY FormProper, Zenon DEF JoinUsTurns
<1>1. CASE JoinUs!Others \/ JoinUs!Fill
  <2>1. /\ view'.ready = view.ready /\ view'.saving = view.saving /\ view'.done = view.done
        /\ calls' = calls
    BY <1>0, <1>1, ZenonT(20) DEF JoinUs!Others, JoinUs!Fill, FormView
  <2>2. QED
    BY <1>0, <2>1, ZenonT(20) DEF JoinUsTurns, FormReads, FormSends, Asked
<1>2. CASE JoinUs!Submit
  <2>1. view'.ready = view.ready /\ ~view'.done
    BY <1>0, <1>2, ZenonT(20) DEF JoinUs!Submit, JoinUs!Sendable, FormView
  <2>2. PICK q : calls' = calls \cup {[op |-> "submit", arg |-> q, seen |-> FALSE]}
    BY <1>2, ZenonT(20) DEF JoinUs!Submit, JoinUs!Subscribe, JoinUs!Submitted, JoinUs!Call
  <2>3. QED
    BY <1>0, <2>1, <2>2, FormSaves, Zenon DEF JoinUsTurns
<1>3. CASE JoinUs!CreateApplication
  <2>1. view' = view /\ \E c \in calls : calls' = (calls \ {c}) \cup {[c EXCEPT !.seen = TRUE]}
    BY <1>3, ZenonT(20) DEF JoinUs!CreateApplication, JoinUs!Executes
  <2>2. QED
    BY <1>0, <2>1, FormWaits, Zenon DEF JoinUsTurns
<1>4. CASE JoinUs!ReceiveSettings
  <2> PICK c, enabled :
          /\ c \in calls
          /\ c.op = "details" /\ calls' = calls \ {c}
          /\ view' = [view EXCEPT !.ready = IF enabled THEN "ready" ELSE "closed"]
    BY <1>4, ZenonT(20) DEF JoinUs!ReceiveSettings
  <2> PICK r : r = IF enabled THEN "ready" ELSE "closed"
    OBVIOUS
  <2>1. r # "loading"
    BY ZenonT(20)
  <2>2. view'.ready = r /\ view'.saving = view.saving /\ view'.done = view.done
    BY <1>0, ZenonT(20) DEF FormView
  <2>3. QED
    BY <1>0, <2>1, <2>2, FormRead, ZenonT(20) DEF JoinUsTurns
<1>5. CASE JoinUs!Received \/ JoinUs!Refused
  <2> PICK c \in calls : c.op = "submit" /\ calls' = calls \ {c}
    BY <1>5, ZenonT(20) DEF JoinUs!Received, JoinUs!Refused, JoinUs!Succeeds
  <2>1. view'.ready = view.ready /\ ~view'.saving
    BY <1>0, <1>5, ZenonT(20) DEF JoinUs!Received, JoinUs!Refused, FormView
  <2>2. \A d \in calls : d.op = "details" => d \in calls'
    BY ZenonT(20)
  <2>3. QED
    BY <1>0, <2>1, <2>2, FormEnds, Zenon DEF JoinUsTurns
<1>6. QED
  BY <1>1, <1>2, <1>3, <1>4, <1>5, Zenon DEF JoinUs!Next, JoinUs!Answer

\* The form of a property: one of its requests, or a second one, is under way.
PropertyFormTurns == view.saving => \E c \in calls : c.op # "details"

\* Opened, nothing is saved.
LEMMA PropertyFormTurnsInit == PropertyForm!Init => PropertyFormTurns
<1> SUFFICES ASSUME PropertyForm!Init PROVE PropertyFormTurns
  OBVIOUS
<1> PICK editing \in BOOLEAN : view = PropertyForm!Opened(editing)
  BY Zenon DEF PropertyForm!Init
<1>1. ~view.saving
  BY ZenonT(20) DEF PropertyForm!Opened
<1>2. QED
  BY <1>1, Zenon DEF PropertyFormTurns

\* Every step keeps the request with what is shown for it.
LEMMA PropertyFormTurnsStep ==
  ASSUME SaveInv, PropertyFormTurns, PropertyForm!Next
  PROVE  PropertyFormTurns'
<1> USE DEF PropertyForm!Under, PropertyForm!Ends
<1>0. IsForm(view) /\ Proper
  BY ZenonT(20) DEF SaveInv
<1>1. ASSUME view'.saving = view.saving, \A c \in calls : c.op # "details" => c \in calls'
      PROVE  PropertyFormTurns'
  BY <1>1, ZenonT(20) DEF PropertyFormTurns
<1>2. CASE PropertyForm!Others
  BY <1>1, <1>2, ZenonT(20) DEF PropertyForm!Others
<1>3. CASE PropertyForm!Type
  <2>1. PICK form : view' = [view EXCEPT !.form = form]
    BY <1>3, ZenonT(20) DEF PropertyForm!Type
  <2>2. view'.saving = view.saving /\ calls' = calls
    BY <1>0, <1>3, <2>1, ZenonT(20) DEF PropertyForm!Type, IsForm
  <2>3. QED
    BY <1>1, <2>2, ZenonT(20)
<1>4. CASE PropertyForm!Save
  <2> PICK op : op = IF view.id THEN "update" ELSE "create"
    OBVIOUS
  <2>1. op # "details"
    BY ZenonT(20)
  <2> PICK body, x : x = [op |-> op, arg |-> body, seen |-> FALSE] /\ calls' = calls \cup {x}
    BY <1>4, ZenonT(20) DEF PropertyForm!Save, PropertyForm!Subscribe, PropertyForm!Call
  <2>2. x.op = op /\ x \in calls'
    BY ZenonT(20)
  <2>3. QED
    BY <2>1, <2>2, ZenonT(20) DEF PropertyFormTurns
<1>5. CASE PropertyForm!UpdateAsync \/ PropertyForm!UpdateTenantAsync
  <2> PICK c \in calls : /\ view' = view /\ c.op # "details"
                         /\ calls' = (calls \ {c}) \cup {[c EXCEPT !.seen = TRUE]}
    BY <1>5, ZenonT(20) DEF PropertyForm!UpdateAsync, PropertyForm!UpdateTenantAsync, PropertyForm!Executes
  <2>1. Asked(c.op)
    BY ZenonT(20) DEF Asked
  <2> PICK op : op = c.op
    OBVIOUS
  <2>2. Asked(op)'
    BY <1>0, <2>1, Previewed, ZenonT(20)
  <2>3. QED
    BY <2>2, ZenonT(20) DEF PropertyFormTurns, Asked
<1>6. CASE PropertyForm!ReceiveDetails \/ PropertyForm!LoseDetails
  <2> PICK c \in calls : c.op = "details" /\ calls' = calls \ {c}
    BY <1>6, ZenonT(20) DEF PropertyForm!ReceiveDetails, PropertyForm!LoseDetails
  <2>1. PICK p, form : view' = [view EXCEPT !.property = p, !.form = form] \/ view' = view
    BY <1>6, ZenonT(20) DEF PropertyForm!ReceiveDetails, PropertyForm!LoseDetails
  <2>2. view'.saving = view.saving
    BY <1>0, <2>1, ZenonT(20) DEF IsForm
  <2>3. \A d \in calls : d.op # "details" => d \in calls'
    BY ZenonT(20)
  <2>4. QED
    BY <1>1, <2>2, <2>3, Zenon
<1>7. ASSUME NEW c \in calls, PropertyForm!Finish(c) PROVE PropertyFormTurns'
  <2>1. ~view'.saving
    BY <1>0, <1>7, ZenonT(20) DEF PropertyForm!Finish, IsForm
  <2>2. QED
    BY <2>1, Zenon DEF PropertyFormTurns
<1>8. CASE PropertyForm!Updated
  <2> PICK c \in calls :
          \/ PropertyForm!Finish(c)
          \/ calls' = (calls \ {c}) \cup {[op |-> "tenant", arg |-> c.arg.tenant, seen |-> FALSE]}
    BY <1>8, ZenonT(20) DEF PropertyForm!Updated, PropertyForm!Call
  <2>1. CASE PropertyForm!Finish(c)
    BY <1>7, <2>1, Zenon
  <2>2. CASE calls' = (calls \ {c}) \cup {[op |-> "tenant", arg |-> c.arg.tenant, seen |-> FALSE]}
    <3> PICK x : x = [op |-> "tenant", arg |-> c.arg.tenant, seen |-> FALSE]
      OBVIOUS
    <3>1. x \in calls' /\ x.op = "tenant"
      BY <2>2, ZenonT(20)
    <3>2. QED
      BY <3>1, ZenonT(20) DEF PropertyFormTurns
  <2>3. QED
    BY <2>1, <2>2, Zenon
<1>9. CASE PropertyForm!TenantUpdated
  <2>1. \E c \in calls : PropertyForm!Finish(c)
    BY <1>9, ZenonT(20) DEF PropertyForm!TenantUpdated
  <2>2. QED
    BY <1>7, <2>1, Zenon
<1>10. CASE PropertyForm!Fail
  <2>1. ~view'.saving
    BY <1>0, <1>10, ZenonT(20) DEF PropertyForm!Fail, IsForm
  <2>2. QED
    BY <2>1, Zenon DEF PropertyFormTurns
<1>11. QED
  BY <1>2, <1>3, <1>4, <1>5, <1>6, <1>8, <1>9, <1>10, Zenon DEF PropertyForm!Next, PropertyForm!Answer

\* The public page of a property: unless one is shown, or was not found, it is read.
HouseTurns ==
    /\ view.id \in Houses /\ \A c \in calls : c.op = "details" => c.arg \in Houses
    /\ view.property = None /\ ~view.notFound => Pending("details")
    /\ view.saving => Asked("submit")

\* Opened, the property is read.
LEMMA HouseTurnsInit == House!Init => HouseTurns
<1> SUFFICES ASSUME House!Init PROVE HouseTurns
  OBVIOUS
<1> PICK id \in Houses : view = House!Opened(id) /\ calls = {House!Call("details", id)}
  BY ZenonT(20) DEF House!Init
<1>1. view.id = id /\ ~view.saving
  BY ZenonT(20) DEF House!Opened
<1>2. \E x \in calls : Asking(x, "details", id) /\ \A d \in calls : d = x
  BY OpensWith, ZenonT(20) DEF House!Call
<1>3. QED
  BY <1>1, <1>2, ZenonT(20) DEF HouseTurns, Pending, Asking

\* Every step keeps the request with what is shown for it.
LEMMA HouseTurnsStep ==
  ASSUME HouseInv, HouseTurns, House!Next
  PROVE  HouseTurns'
<1> USE DEF House!Under, House!Ends
<1>0. IsHouse(view) /\ Proper
  BY ZenonT(20) DEF HouseInv
\* What does not concern the property, and what does not concern the form.
<1>1. ASSUME view'.id = view.id, view'.property = view.property, view'.notFound = view.notFound,
             view'.saving => Asked("submit")',
             \A d \in calls' : d.op = "details" => d \in calls,
             \A d \in calls : d.op = "details" => d \in calls'
      PROVE  HouseTurns'
  BY <1>1, ZenonT(20) DEF HouseTurns, Pending
<1>2. ASSUME view'.id \in Houses, view'.saving = view.saving,
             view'.property = None /\ ~view'.notFound => Pending("details")',
             \A d \in calls' : d.op = "details" => d.arg \in Houses,
             \A d \in calls : d.op = "submit" => d \in calls'
      PROVE  HouseTurns'
  BY <1>2, ZenonT(20) DEF HouseTurns, Asked
<1>3. CASE House!Others \/ House!Enter
  <2>1. /\ view'.id = view.id /\ view'.property = view.property /\ view'.notFound = view.notFound
        /\ view'.saving = view.saving /\ calls' = calls
    BY <1>0, <1>3, ZenonT(20) DEF House!Others, House!Enter, IsHouse
  <2>2. view'.saving => Asked("submit")'
    BY <2>1, ZenonT(20) DEF HouseTurns, Asked
  <2>3. QED
    BY <1>1, <2>1, <2>2, ZenonT(20)
<1>4. CASE House!Submit
  <2>1. view'.id = view.id /\ view'.property = view.property /\ view'.notFound = view.notFound
    BY <1>0, <1>4, ZenonT(20) DEF House!Submit, IsHouse
  <2> PICK q : calls' = calls \cup {[op |-> "submit", arg |-> q, seen |-> FALSE]}
    BY <1>4, ZenonT(20) DEF House!Submit, House!Subscribe, House!Submitted, House!Call
  <2>2. PICK x \in calls' : Asking(x, "submit", q) /\ \A d \in calls' : d = x \/ d \in calls
    BY <1>0, Begins, ZenonT(20)
  <2>3. \A d \in calls : d \in calls'
    BY ZenonT(20)
  <2>4. x.op = "submit"
    BY <2>2, ZenonT(20) DEF Asking
  <2>5. Asked("submit")' /\ \A d \in calls' : d.op = "details" => d \in calls
    BY <2>2, <2>4, ZenonT(20) DEF Asked
  <2>6. QED
    BY <1>1, <2>1, <2>3, <2>5, ZenonT(20)
<1>5. CASE House!CreateEnquiry
  <2> PICK c \in calls : /\ c.op = "submit" /\ view' = view
                         /\ calls' = (calls \ {c}) \cup {[c EXCEPT !.seen = TRUE]}
    BY <1>5, ZenonT(20) DEF House!CreateEnquiry, House!Executes
  <2>1. PICK x \in calls' : x.op = c.op /\ \A d \in calls' : d = x \/ (d \in calls /\ d # c)
    BY <1>0, Marked, ZenonT(20)
  <2>2. \A d \in calls : d = c \/ d \in calls'
    BY ZenonT(20)
  <2>3. Asked("submit")'
    BY <2>1, ZenonT(20) DEF Asked
  <2>4. /\ \A d \in calls' : d.op = "details" => d \in calls
        /\ \A d \in calls : d.op = "details" => d \in calls'
    BY <2>1, <2>2, ZenonT(20)
  <2>5. QED
    BY <1>1, <2>3, <2>4, ZenonT(20)
<1>6. CASE House!Enquired \/ House!Refused
  <2> PICK c \in calls : c.op = "submit" /\ calls' = calls \ {c}
    BY <1>6, ZenonT(20) DEF House!Enquired, House!Refused, House!Succeeds
  <2>1. /\ view'.id = view.id /\ view'.property = view.property /\ view'.notFound = view.notFound
        /\ ~view'.saving
    BY <1>0, <1>6, ZenonT(20) DEF House!Enquired, House!Refused, IsHouse
  <2>2. /\ \A d \in calls' : d.op = "details" => d \in calls
        /\ \A d \in calls : d.op = "details" => d \in calls'
    BY ZenonT(20)
  <2>3. QED
    BY <1>1, <2>1, <2>2, ZenonT(20)
<1>7. CASE House!ReceiveProperty
  <2> PICK c \in calls : /\ c.op = "details" /\ view' = [view EXCEPT !.property = c.arg]
                         /\ \E rest \in {{}} \cup IF c.seen THEN {} ELSE {{[c EXCEPT !.seen = TRUE]}} :
                               calls' = (calls \ {c}) \cup rest \cup {House!Call("related", c.arg)}
    BY <1>7, ZenonT(20) DEF House!ReceiveProperty
  <2> DEFINE preview == [c EXCEPT !.seen = TRUE]
             other == House!Call("related", c.arg)
  <2>1. preview.arg = c.arg
    BY <1>0, ZenonT(20) DEF Proper, IsCall
  <2>2. other.op # "details"
    BY ZenonT(20) DEF House!Call
  <2>3. \E rest : rest \subseteq {preview} /\ calls' = (calls \ {c}) \cup rest \cup {other}
    BY SMT
  <2> HIDE DEF preview, other
  <2>4. \A d \in calls' : d \in calls \/ d = preview \/ d = other
    BY <2>3, ZenonT(20)
  <2>5. \A d \in calls : d.op = "submit" => d \in calls'
    BY <2>3, ZenonT(20)
  <2>6. /\ view'.id = view.id /\ view'.saving = view.saving /\ view'.property = c.arg
        /\ c.arg \in Houses /\ view.id \in Houses
    BY <1>0, ZenonT(20) DEF IsHouse, HouseTurns
  <2>7. view'.property # None
    BY <2>6, PortfolioAssumption, ZenonT(20)
  <2>8. \A d \in calls' : d.op = "details" => d.arg \in Houses
    BY <2>1, <2>2, <2>4, <2>6, ZenonT(20) DEF HouseTurns
  <2>9. QED
    BY <1>2, <2>5, <2>6, <2>7, <2>8, ZenonT(20)
<1>8. CASE House!LoseProperty
  <2> PICK c \in calls : c.op = "details" /\ calls' = calls \ {c}
    BY <1>8, ZenonT(20) DEF House!LoseProperty
  <2>1. view'.id = view.id /\ view'.saving = view.saving /\ view'.notFound
    BY <1>0, <1>8, ZenonT(20) DEF House!LoseProperty, IsHouse
  <2>2. /\ view.id \in Houses /\ \A d \in calls' : d.op = "details" => d.arg \in Houses
        /\ \A d \in calls : d.op = "submit" => d \in calls'
    BY ZenonT(20) DEF HouseTurns
  <2>3. QED
    BY <1>2, <2>1, <2>2, ZenonT(20)
<1>9. CASE House!ReceiveRelated
  <2> PICK c \in calls : /\ c.op = "related"
                         /\ calls' = calls \ {c} \/ calls' = (calls \ {c}) \cup {[c EXCEPT !.seen = TRUE]}
                         /\ view' = [view EXCEPT !.related = c.arg] \/ view' = view
    BY <1>9, ZenonT(20) DEF House!ReceiveRelated, House!Shows, House!Previews
  <2> PICK x : x = [c EXCEPT !.seen = TRUE]
    OBVIOUS
  <2>1. x.op = "related"
    BY <1>0, ZenonT(20) DEF Proper, IsCall
  <2>2. /\ \A d \in calls' : d.op = "details" => d \in calls
        /\ \A d \in calls : d.op \in {"details", "submit"} => d \in calls'
    BY <2>1, ZenonT(20)
  <2>3. /\ view'.id = view.id /\ view'.property = view.property /\ view'.notFound = view.notFound
        /\ view'.saving = view.saving
    BY <1>0, ZenonT(20) DEF IsHouse
  <2>4. view'.saving => Asked("submit")'
    BY <2>2, <2>3, ZenonT(20) DEF HouseTurns, Asked
  <2>5. QED
    BY <1>1, <2>2, <2>3, <2>4, ZenonT(20)
<1>10. CASE House!Quiet
  <2> PICK c \in calls : c.op = "details" /\ c.seen /\ calls' = calls \ {c} /\ view' = view
    BY <1>10, ZenonT(20) DEF House!Quiet, House!EndsQuietly
  <2>1. Pending("details") => Pending("details")'
    BY StillPending, ZenonT(20)
  <2>2. /\ \A d \in calls' : d.op = "details" => d \in calls
        /\ \A d \in calls : d.op = "submit" => d \in calls'
    BY ZenonT(20)
  <2>3. QED
    BY <1>2, <2>1, <2>2, ZenonT(20) DEF HouseTurns
<1>11. ASSUME NEW id \in Houses, House!GoTo(id) PROVE HouseTurns'
  <2> PICK x : x = [op |-> "details", arg |-> id, seen |-> FALSE]
    OBVIOUS
  <2>1. Asking(x, "details", id)
    BY ZenonT(20) DEF Asking, IsCall
  <2>2. /\ view'.id = id /\ view'.property = view.property /\ view'.notFound = view.notFound
        /\ view'.saving = view.saving
    BY <1>0, <1>11, ZenonT(20) DEF House!GoTo, IsHouse
  <2>3. IF view.notFound THEN calls' = calls ELSE calls' = (calls \ {c \in calls : c.op = "details"}) \cup {x}
    <3>1. House!Call("details", id) = x
      BY ZenonT(20) DEF House!Call
    <3>2. x.op = "details"
      BY ZenonT(20)
    <3>3. QED
      BY <1>11, <3>1, <3>2, ZenonT(20) DEF House!GoTo, House!Switch
  <2>4. /\ \A d \in calls' : d.op = "details" => d = x \/ d \in calls
        /\ \A d \in calls : d.op = "submit" => d \in calls'
        /\ ~view.notFound => x \in calls'
    BY <2>3, ZenonT(20)
  <2>5. \A d \in calls' : d.op = "details" => d.arg \in Houses
    BY <2>1, <2>4, ZenonT(20) DEF Asking, HouseTurns
  <2>6. ~view'.notFound => Pending("details")'
    BY <2>1, <2>2, <2>4, ZenonT(20) DEF Asking, Pending
  <2>7. QED
    BY <1>2, <2>2, <2>4, <2>5, <2>6, ZenonT(20)
<1>12. QED
  BY <1>3, <1>4, <1>5, <1>6, <1>7, <1>8, <1>9, <1>10, <1>11, Zenon DEF House!Next, House!Answer

\* Hence the spinners of these pages turn for a request.
LEMMA FormsTurn ==
  /\ BookingTurns => Booking!SpinnersTurn
  /\ AssignmentTurns => Assignment!SpinnersTurn
  /\ JoinUsTurns => JoinUs!SpinnersTurn
  /\ PropertyFormTurns => PropertyForm!SpinnersTurn
  /\ HouseTurns => House!SpinnersTurn
<1>1. \A op : Pending(op) \/ Asked(op) => {c \in calls : c.op = op} # {}
  BY ZenonT(20) DEF Pending, Asked
<1>2. HouseTurns => House!SpinnersTurn
  <2>1. House!Screen = "loading" => view.property = None /\ ~view.notFound
    BY SMT DEF House!Screen
  <2>2. QED
    BY <1>1, <2>1, ZenonT(20) DEF HouseTurns, House!SpinnersTurn, House!Waiting, House!Under
<1>3. PropertyFormTurns => PropertyForm!SpinnersTurn
  BY ZenonT(20) DEF PropertyFormTurns, PropertyForm!SpinnersTurn, PropertyForm!Under
<1>4. QED
  BY <1>1, <1>2, <1>3, ZenonT(20)
     DEF BookingTurns, AssignmentTurns, JoinUsTurns, FormReads, FormSends,
         Booking!SpinnersTurn, Booking!Waiting, Booking!Under,
         Assignment!SpinnersTurn, Assignment!Waiting, Assignment!Under,
         JoinUs!SpinnersTurn, JoinUs!Waiting, JoinUs!Under

-----------------------------------------------------------------------------
(* Lists of notices and the sync page: what is shown as under way is.      *)

\* The list of records: a list that is missing is read, or said to be.
RecordsTurn ==
    /\ view.pageLoading => Asked("records")
    /\ view.snapshot = None => view.pageLoading \/ view.loadError
    /\ \A c \in calls : c.seen => view.snapshot # None

\* Opened, the first page is read.
LEMMA RecordsTurnInit == Records!Init => RecordsTurn
<1> SUFFICES ASSUME Records!Init PROVE RecordsTurn
  OBVIOUS
<1>1. view.pageLoading
  BY ZenonT(20) DEF Records!Init, Records!Opened
<1>2. \E x \in calls : Asking(x, "records", Records!First) /\ \A d \in calls : d = x
  BY OpensWith, ZenonT(20) DEF Records!Init, Records!Call
<1>3. QED
  BY <1>1, <1>2, ZenonT(20) DEF RecordsTurn, Asked, Asking

\* Every answer shows a page, or says that there is none.
LEMMA RecordsTurnStep ==
  ASSUME RowsInv, RecordsTurn, Records!Next
  PROVE  RecordsTurn'
<1> USE DEF Records!Under, Records!Ends
<1>0. IsRecords(view) /\ Proper /\ world \in [now : Exports, settled : Exports]
  BY ZenonT(20) DEF RowsInv
<1>1. \A s \in Exports : s # None
  <2>1. \A n \in Nat : \A i \in 1..n : i \in Nat
    BY SMT
  <2>2. Cardinality(Exports) \in Nat
    BY NoticesAssumption, FS_CardinalityType, Zenon
  <2>3. QED
    BY <2>1, <2>2, NoticesAssumption, Zenon
<1>2. CASE Records!Sync
  BY <1>2, ZenonT(20) DEF Records!Sync, RecordsTurn, Asked
<1>3. ASSUME NEW q, Records!Switch(Records!Call("records", q)),
             view' = [view EXCEPT !.pageLoading = TRUE, !.loadError = FALSE]
      PROVE  RecordsTurn'
  <2>1. view'.pageLoading /\ view'.snapshot = view.snapshot
    BY <1>0, <1>3, ZenonT(20) DEF IsRecords
  <2> PICK x : x = [op |-> "records", arg |-> q, seen |-> FALSE]
    OBVIOUS
  <2>2. x \in calls' /\ \A d \in calls' : d = x \/ d \in calls
    BY <1>3, ZenonT(20) DEF Records!Switch, Records!Call
  <2>3. Asked("records")' /\ ~x.seen
    BY <2>2, JustAsked, ZenonT(20)
  <2>4. QED
    BY <2>1, <2>2, <2>3, ZenonT(20) DEF RecordsTurn
<1>4. ASSUME NEW append, Records!LoadRecords(append) PROVE RecordsTurn'
  BY <1>3, <1>4, ZenonT(20) DEF Records!LoadRecords
<1>5. ASSUME NEW c \in calls, NEW s, s # None, NEW old, view' = Records!Shown(c, s, old)
      PROVE  RecordsTurn'
  <2> PICK rows, next, more, loading :
          /\ loading = (\E d \in calls' : d.op = "records")
          /\ view' = [view EXCEPT !.snapshot = s, !.records = rows, !.nextSkip = next,
                                  !.hasMore = more, !.pageLoading = loading]
    BY <1>5, ZenonT(20) DEF Records!Shown
  <2>1. view'.snapshot = s /\ view'.pageLoading = loading
    BY <1>0, ZenonT(20) DEF IsRecords
  <2>2. view'.pageLoading => Asked("records")'
    BY <2>1, ZenonT(20) DEF Asked
  <2>3. QED
    BY <1>5, <2>1, <2>2, ZenonT(20) DEF RecordsTurn
<1>6. CASE Records!ReceiveFirst
  <2> PICK c \in calls, s \in world.settled..world.now : view' = Records!Shown(c, s, {})
    BY <1>6, ZenonT(20) DEF Records!ReceiveFirst
  <2>1. s # None
    BY <1>0, <1>1, ExportNumbers, ZenonT(20)
  <2>2. QED
    BY <1>5, <2>1, Zenon
<1>7. CASE Records!ReceiveMore
  <2> PICK c \in calls : /\ c.op = "records" /\ c.arg.append
                         /\ view' = Records!Shown(c, view.snapshot, view.records)
    BY <1>7, ZenonT(20) DEF Records!ReceiveMore, Records!Continuations
  <2>1. c.arg # Records!First
    BY SMT DEF Records!First
  <2>2. AsksRows(c)
    BY ZenonT(20) DEF RowsInv
  <2>3. view.snapshot \in Exports
    BY <2>1, <2>2, ZenonT(20) DEF AsksRows, Beginning
  <2>4. QED
    BY <1>1, <1>5, <2>3, Zenon
<1>8. CASE Records!Restart
  BY <1>3, <1>8, ZenonT(20) DEF Records!Restart
<1>9. CASE Records!Fail
  <2> PICK c \in calls : calls' = calls \ {c}
    BY <1>9, ZenonT(20) DEF Records!Fail
  <2>1. ~view'.pageLoading /\ view'.loadError /\ view'.snapshot = view.snapshot
    BY <1>0, <1>9, ZenonT(20) DEF Records!Fail, IsRecords
  <2>2. QED
    BY <2>1, ZenonT(20) DEF RecordsTurn
<1>10. CASE Records!Quiet
  <2> PICK c \in calls : c.seen /\ calls' = calls \ {c}
    BY <1>10, ZenonT(20) DEF Records!Quiet
  <2>1. ~view'.pageLoading /\ view'.snapshot = view.snapshot
    BY <1>0, <1>10, ZenonT(20) DEF Records!Quiet, IsRecords
  <2>2. view'.snapshot # None
    BY <2>1, ZenonT(20) DEF RecordsTurn
  <2>3. QED
    BY <2>1, <2>2, ZenonT(20) DEF RecordsTurn
<1>11. QED
  BY <1>2, <1>4, <1>6, <1>7, <1>8, <1>9, <1>10, Zenon
     DEF Records!Next, Records!LoadMore, Records!RetryLoad, Records!Answer

\* The feed: pages, totals and resolutions that are shown as under way are.
FeedTurns ==
    /\ view.pageLoading => Asked("feed")
    /\ view.summary = None /\ ~view.summaryError => Pending("summary") \/ Asked("resolve")
    /\ view.resolvingRow # None => Asked("resolve")

\* Opened, the first page and the totals are read.
LEMMA FeedTurnsInit == Feed!Init => FeedTurns
<1> SUFFICES ASSUME Feed!Init PROVE FeedTurns
  OBVIOUS
<1>1. view.resolvingRow = None
  BY ZenonT(20) DEF Feed!Init, Feed!Opened
<1> PICK x, y : /\ x = [op |-> "feed", arg |-> Feed!First, seen |-> FALSE]
                /\ y = [op |-> "summary", arg |-> None, seen |-> FALSE]
  OBVIOUS
<1>2. {x, y} \subseteq calls
  BY ZenonT(20) DEF Feed!Init, Feed!Call
<1>3. x.op = "feed" /\ y.op = "summary" /\ ~y.seen
  BY ZenonT(20)
<1>4. QED
  BY <1>1, <1>2, <1>3, ZenonT(20) DEF FeedTurns, Asked, Pending

\* Every step of the feed keeps the request with what is shown for it.
LEMMA FeedTurnsStep ==
  ASSUME FeedInv, FeedTurns, Feed!Next
  PROVE  FeedTurns'
<1> USE DEF Feed!Under, Feed!Ends
<1>0. IsFeed(view) /\ Proper /\ IsSummary(view.summary)
  BY ZenonT(20) DEF FeedInv, FeedShape
\* What concerns the pages alone.
<1>1. ASSUME NEW c \in calls, c.op = "feed", view'.summary = view.summary,
             view'.summaryError = view.summaryError, view'.resolvingRow = view.resolvingRow,
             view'.pageLoading => Asked("feed")',
             \/ calls' = calls \ {c}
             \/ calls' = (calls \ {c}) \cup {[c EXCEPT !.seen = TRUE]}
      PROVE  FeedTurns'
  <2>1. Pending("summary") => Pending("summary")'
    BY <1>1, StillPending, ZenonT(20)
  <2>2. \A d \in calls : d = c \/ d \in calls'
    BY <1>1, ZenonT(20)
  <2>3. Asked("resolve") => Asked("resolve")'
    BY <1>1, <2>2, ZenonT(20) DEF Asked
  <2>4. QED
    BY <1>1, <2>1, <2>3, ZenonT(20) DEF FeedTurns
\* What concerns the totals alone.
<1>2. ASSUME view'.pageLoading = view.pageLoading, view'.resolvingRow = view.resolvingRow,
             view'.summary = None /\ ~view'.summaryError => Pending("summary")' \/ Asked("resolve"),
             \A d \in calls : d.op \in {"feed", "resolve"} => d \in calls'
      PROVE  FeedTurns'
  <2>1. /\ Asked("feed") => Asked("feed")'
        /\ Asked("resolve") => Asked("resolve")'
    BY <1>2, ZenonT(20) DEF Asked
  <2>2. QED
    BY <1>2, <2>1, ZenonT(20) DEF FeedTurns
<1>3. CASE Feed!Sync
  BY <1>3, ZenonT(20) DEF Feed!Sync, FeedTurns, Asked, Pending
<1>4. ASSUME NEW append \in BOOLEAN, Feed!LoadNoticeFeed(append) PROVE FeedTurns'
  <2> PICK b : b = (view.summaryError /\ append)
    OBVIOUS
  <2>1. b \in BOOLEAN /\ (append => (b <=> view.summaryError))
    BY ZenonT(20)
  <2>2. /\ view'.pageLoading /\ view'.summary = view.summary /\ view'.summaryError = b
        /\ view'.resolvingRow = view.resolvingRow
    BY <1>0, <1>4, ZenonT(20) DEF Feed!LoadNoticeFeed, IsFeed
  <2> PICK q : q = Feed!Asked(append)
    OBVIOUS
  <2> PICK x, y : x = [op |-> "feed", arg |-> q, seen |-> FALSE] /\ y = [op |-> "summary", arg |-> None, seen |-> FALSE]
    OBVIOUS
  <2>3. calls' = {c \in calls : c.op # "feed" /\ (append \/ c.op # "summary")}
                      \cup {x} \cup IF append THEN {} ELSE {y}
    BY <1>4, ZenonT(20) DEF Feed!LoadNoticeFeed, Feed!Call
  <2>4. /\ x \in calls' /\ (append \/ y \in calls')
        /\ \A c \in calls : c.op # "feed" /\ (append \/ c.op # "summary") => c \in calls'
    BY <2>3, ZenonT(20)
  <2>5. Asked("feed")' /\ (append \/ Pending("summary")')
    BY <2>4, JustAsked, ZenonT(20)
  <2>6. /\ append /\ Pending("summary") => Pending("summary")'
        /\ Asked("resolve") => Asked("resolve")'
    BY <2>4, ZenonT(20) DEF Pending, Asked
  <2>7. QED
    BY <2>1, <2>2, <2>5, <2>6, ZenonT(20) DEF FeedTurns
<1>5. CASE Feed!LoadMore
  BY <1>4, <1>5, ZenonT(20) DEF Feed!LoadMore
<1>6. CASE Feed!RetryLoad
  <2> PICK append : append = (view.feed # None)
    OBVIOUS
  <2>1. append \in BOOLEAN
    BY SMT
  <2>2. QED
    BY <1>4, <1>6, <2>1, Zenon DEF Feed!RetryLoad
<1>7. CASE Feed!LoadNoticeSummary
  <2> PICK b : view' = [view EXCEPT !.summaryError = FALSE, !.crossed = b]
    BY <1>7, ZenonT(20) DEF Feed!LoadNoticeSummary
  <2>1. view'.pageLoading = view.pageLoading /\ view'.resolvingRow = view.resolvingRow
    BY <1>0, ZenonT(20) DEF IsFeed
  <2> PICK x : x = [op |-> "summary", arg |-> None, seen |-> FALSE]
    OBVIOUS
  <2>2. x.op = "summary" /\ calls' = (calls \ {c \in calls : c.op = x.op}) \cup {x}
    BY <1>7, ZenonT(20) DEF Feed!LoadNoticeSummary, Feed!Switch, Feed!Call
  <2>3. x \in calls' /\ \A d \in calls : d.op \in {"feed", "resolve"} => d \in calls'
    BY <2>2, ZenonT(20)
  <2>4. Pending("summary")'
    BY <2>3, JustAsked, ZenonT(20)
  <2>5. QED
    BY <1>2, <2>1, <2>3, <2>4, ZenonT(20)
<1>8. CASE Feed!ReceiveFeed
  <2> PICK loading : loading = (\E d \in calls' : d.op = "feed")
    OBVIOUS
  <2>a. \E feed, more : view' = [view EXCEPT !.feed = feed, !.hasMore = more,
                                            !.pageLoading = \E d \in calls' : d.op = "feed"]
    BY <1>8, ZenonT(20) DEF Feed!ReceiveFeed
  <2> PICK feed, more : view' = [view EXCEPT !.feed = feed, !.hasMore = more, !.pageLoading = loading]
    BY <2>a, ZenonT(20)
  <2>1. /\ view'.summary = view.summary /\ view'.summaryError = view.summaryError
        /\ view'.resolvingRow = view.resolvingRow /\ view'.pageLoading = loading
    BY <1>0, ZenonT(20) DEF IsFeed
  <2>2. view'.pageLoading => Asked("feed")'
    BY <2>1, ZenonT(20) DEF Asked
  <2>3. PICK c \in calls : /\ c.op = "feed"
                           /\ \/ calls' = calls \ {c}
                              \/ calls' = (calls \ {c}) \cup {[c EXCEPT !.seen = TRUE]}
    <3>1. PICK c \in Feed!Under("feed") : Feed!Ends(c) \/ Feed!Shows(c)
      BY <1>8, ZenonT(20) DEF Feed!ReceiveFeed
    <3>2. QED
      BY <3>1, ZenonT(20) DEF Feed!Shows, Feed!Previews
  <2>4. QED
    BY <1>1, <2>1, <2>2, <2>3, ZenonT(20)
<1>9. CASE Feed!FailFeed \/ Feed!QuietFeed
  <2>1. /\ view'.summary = view.summary /\ view'.summaryError = view.summaryError
        /\ view'.resolvingRow = view.resolvingRow /\ ~view'.pageLoading
    BY <1>0, <1>9, ZenonT(20) DEF Feed!FailFeed, Feed!QuietFeed, IsFeed
  <2>2. \E c \in calls : c.op = "feed" /\ calls' = calls \ {c}
    BY <1>9, ZenonT(20) DEF Feed!FailFeed, Feed!QuietFeed
  <2>3. QED
    BY <1>1, <2>1, <2>2, ZenonT(20)
\* Totals are something.
<1>10. ASSUME NEW m \in Int, NEW n \in Nat PROVE [pending |-> m, upTo |-> n] # None
  <2>1. [pending |-> m, upTo |-> n] \in [pending : Int, upTo : Nat]
    BY SMT
  <2>2. QED
    BY <2>1, NoticesAssumption, Zenon
<1>11. CASE Feed!ReceiveSummary
  <2> PICK c \in calls, s \in {world.now, world.settled} :
         /\ c.op = "summary"
         /\ calls' = calls \ {c} \/ calls' = (calls \ {c}) \cup {[c EXCEPT !.seen = TRUE]}
         /\ view' = [view EXCEPT !.summary = [pending |-> Feed!Unresolved(s, Len(s)), upTo |-> Len(s)]]
    BY <1>11, ZenonT(20) DEF Feed!ReceiveSummary, Feed!Fresh, Feed!Shows, Feed!Previews
  <2>1. Len(s) \in Nat
    <3>1. world.now \in Seq(BOOLEAN) /\ world.settled \in Seq(BOOLEAN)
      BY ZenonT(20) DEF FeedInv, FeedShape
    <3>2. QED
      BY <3>1, SMT
  <2> PICK n, m : n = Len(s) /\ m = Feed!Unresolved(s, Len(s))
    OBVIOUS
  <2>2. n \in Nat /\ m \in Int
    <3>1. n \in Nat /\ m \in Nat
      BY <2>1, UnresolvedNumber, ZenonT(20)
    <3>2. QED
      BY <3>1, SMT
  <2>3. /\ view'.pageLoading = view.pageLoading /\ view'.resolvingRow = view.resolvingRow
        /\ view'.summary = [pending |-> m, upTo |-> n]
    BY <1>0, ZenonT(20) DEF IsFeed
  <2>4. view'.summary # None
    BY <1>10, <2>2, <2>3, ZenonT(20)
  <2>5. \A d \in calls : d.op \in {"feed", "resolve"} => d \in calls'
    BY ZenonT(20)
  <2>6. QED
    BY <1>2, <2>3, <2>4, <2>5, ZenonT(20)
<1>12. CASE Feed!FailSummary
  <2> PICK c \in calls : c.op = "summary" /\ calls' = calls \ {c}
    BY <1>12, ZenonT(20) DEF Feed!FailSummary
  <2>1. /\ view'.pageLoading = view.pageLoading /\ view'.resolvingRow = view.resolvingRow
        /\ view'.summaryError
    BY <1>0, <1>12, ZenonT(20) DEF Feed!FailSummary, IsFeed
  <2>2. \A d \in calls : d.op \in {"feed", "resolve"} => d \in calls'
    BY ZenonT(20)
  <2>3. QED
    BY <1>2, <2>1, <2>2, ZenonT(20)
<1>13. CASE Feed!QuietSummary
  <2> PICK c \in calls : c.op = "summary" /\ c.seen /\ calls' = calls \ {c} /\ view' = view
    BY <1>13, ZenonT(20) DEF Feed!QuietSummary, Feed!EndsQuietly
  <2>1. Pending("summary") => Pending("summary")'
    BY StillPending, ZenonT(20)
  <2>2. \A d \in calls : d.op \in {"feed", "resolve"} => d \in calls'
    BY ZenonT(20)
  <2>3. QED
    BY <1>2, <2>1, <2>2, ZenonT(20) DEF FeedTurns
<1>14. ASSUME NEW k, Feed!SetResolution(k) PROVE FeedTurns'
  <2>1. view'.pageLoading = view.pageLoading
    BY <1>0, <1>14, ZenonT(20) DEF Feed!SetResolution, IsFeed
  <2> PICK q, x : /\ x = [op |-> "resolve", arg |-> q, seen |-> FALSE]
                  /\ calls' = (calls \ {c \in calls : c.op = "summary"}) \cup {x}
    BY <1>14, ZenonT(20) DEF Feed!SetResolution, Feed!Call
  <2>2. x \in calls' /\ \A d \in calls : d.op = "feed" => d \in calls'
    BY ZenonT(20)
  <2>3. Asked("resolve")' /\ (Asked("feed") => Asked("feed")')
    <3>1. Asked("resolve")'
      BY <2>2, JustAsked, ZenonT(20)
    <3>2. QED
      BY <2>2, <3>1, ZenonT(20) DEF Asked
  <2>4. QED
    BY <2>1, <2>3, ZenonT(20) DEF FeedTurns
<1>15. CASE Feed!SetRecordResolution
  <2> PICK c \in calls : /\ c.op = "resolve" /\ view' = view
                         /\ calls' = (calls \ {c}) \cup {[c EXCEPT !.seen = TRUE]}
    BY <1>15, ZenonT(20) DEF Feed!SetRecordResolution, Feed!Executes
  <2>1. Pending("summary") => Pending("summary")'
    BY StillPending, ZenonT(20)
  <2>2. \A op : Asked(op)' <=> Asked(op)
    BY <1>0, Previewed, ZenonT(20)
  <2>3. QED
    BY <2>1, <2>2, ZenonT(20) DEF FeedTurns
\* The resolution is answered: without totals they are read.
<1>16. ASSUME NEW c \in calls, c.op = "resolve", view'.resolvingRow = None,
              view'.pageLoading = view.pageLoading, view.summary # None => view'.summary # None,
              calls' = IF view.summary # None THEN calls \ {c}
                       ELSE (calls \ ({c} \cup {d \in calls : d.op = "summary"})) \cup {Feed!Call("summary", None)}
       PROVE  FeedTurns'
  <2> PICK x : x = [op |-> "summary", arg |-> None, seen |-> FALSE]
    OBVIOUS
  <2>1. Feed!Call("summary", None) = x
    BY ZenonT(20) DEF Feed!Call
  <2>2. /\ \A d \in calls : d.op = "feed" => d \in calls'
        /\ view.summary = None => x \in calls'
    BY <1>16, <2>1, ZenonT(20)
  <2>3. /\ Asked("feed") => Asked("feed")'
        /\ view.summary = None => Pending("summary")'
    <3>1. view.summary = None => Pending("summary")'
      BY <2>2, JustAsked, ZenonT(20)
    <3>2. QED
      BY <2>2, <3>1, ZenonT(20) DEF Asked
  <2>4. QED
    BY <1>16, <2>3, ZenonT(20) DEF FeedTurns
<1>17. CASE Feed!Resolved
  <2>a. PICK c \in calls :
       /\ c.op = "resolve"
       /\ view' = [view EXCEPT !.feed.items[c.arg.key] = c.arg.resolved,
                               !.summary = IF @ = None THEN None ELSE Feed!Corrected(@, c),
                               !.summaryError = @ /\ view.summary # None,
                               !.resolvingRow = None,
                               !.crossed = \/ @
                                           \/ view.summary # None /\ view.summary.upTo < c.arg.key]
       /\ calls' = IF view.summary # None THEN calls \ {c}
                   ELSE (calls \ ({c} \cup {d \in calls : d.op = "summary"})) \cup {Feed!Call("summary", None)}
    BY <1>17, ZenonT(20) DEF Feed!Resolved
  <2>e. PICK e : e = (view.summaryError /\ view.summary # None)
    OBVIOUS
  <2>s. PICK s : s = IF view.summary = None THEN None ELSE Feed!Corrected(view.summary, c)
    OBVIOUS
  <2>b. PICK b : b = (view.crossed \/ (view.summary # None /\ view.summary.upTo < c.arg.key))
    OBVIOUS
  <2>f. PICK f, k, r, items : /\ f = view.feed /\ k = c.arg.key /\ r = c.arg.resolved
                              /\ items = [view.feed.items EXCEPT ![k] = r]
    OBVIOUS
  <2>g. PICK g : g = [f EXCEPT !.items = items]
    OBVIOUS
  <2>v. view' = [view EXCEPT !.feed = g, !.summary = s, !.summaryError = e,
                             !.resolvingRow = None, !.crossed = b]
    BY <2>a, <2>e, <2>s, <2>b, <2>f, <2>g, ZenonT(20)
  <2>1. /\ view'.summary = s /\ view'.resolvingRow = None /\ view'.pageLoading = view.pageLoading
    BY <1>0, <2>v, ZenonT(20) DEF IsFeed
  <2>2. view.summary # None => view'.summary # None
    <3>1. ASSUME view.summary # None PROVE s # None
      <4>1. view.summary \in [pending : Int, upTo : Nat]
        BY <1>0, <3>1, Zenon DEF IsSummary
      <4>2. s \in [pending : Int, upTo : Nat]
        BY <2>s, <3>1, <4>1, SMT DEF Feed!Corrected
      <4>3. QED
        BY <4>2, NoticesAssumption, Zenon
    <3>2. QED
      BY <2>1, <3>1, Zenon
  <2>3. QED
    BY <1>16, <2>a, <2>1, <2>2, Zenon
<1>18. CASE Feed!NotResolved
  <2> PICK c, e :
         /\ c \in calls
         /\ c.op = "resolve"
         /\ view' = [view EXCEPT !.summaryError = e, !.resolvingRow = None, !.lost = TRUE]
         /\ calls' = IF view.summary # None THEN calls \ {c}
                     ELSE (calls \ ({c} \cup {d \in calls : d.op = "summary"})) \cup {Feed!Call("summary", None)}
    BY <1>18, ZenonT(20) DEF Feed!NotResolved
  <2>1. /\ view'.summary = view.summary /\ view'.resolvingRow = None
        /\ view'.pageLoading = view.pageLoading
    BY <1>0, ZenonT(20) DEF IsFeed
  <2>2. QED
    BY <1>16, <2>1, Zenon
<1>19. QED
  BY <1>3, <1>5, <1>6, <1>7, <1>8, <1>9, <1>11, <1>12, <1>13, <1>14, <1>15, <1>17, <1>18, Zenon
     DEF Feed!Next, Feed!Answer

\* The sync page: a sync and a publication that are shown as under way are.
IsSync(v) ==
    v \in [snapshot : {v.snapshot}, syncing : BOOLEAN, sheetRetrying : BOOLEAN,
           error : {v.error}, success : {v.success}]

SyncInv ==
    /\ IsSync(view) /\ Proper
    /\ view.syncing => Asked("sync")
    /\ view.sheetRetrying => Asked("retry")

\* Opened, nothing is sent.
LEMMA SyncInit == Sync!Init => SyncInv
<1> SUFFICES ASSUME Sync!Init PROVE SyncInv
  OBVIOUS
<1>1. IsSync(view) /\ ~view.syncing /\ ~view.sheetRetrying
  BY ZenonT(20) DEF Sync!Init, Sync!Opened, IsSync
<1>2. Proper
  BY OpensWith, ZenonT(20) DEF Sync!Init, Sync!Call
<1>3. QED
  BY <1>1, <1>2, ZenonT(20) DEF SyncInv

\* An answer puts out the spinner of its own request.
LEMMA SyncStep ==
  ASSUME SyncInv, Sync!Next
  PROVE  SyncInv'
<1> USE DEF Sync!Under, Sync!Ends
<1>0. IsSync(view) /\ Proper /\ (view.syncing => Asked("sync")) /\ (view.sheetRetrying => Asked("retry"))
  BY ZenonT(20) DEF SyncInv
<1>1. CASE Sync!Others
  BY <1>0, <1>1, ZenonT(20) DEF Sync!Others, SyncInv, Proper, Asked
<1>2. CASE Sync!Poll
  <2> PICK x : x = [op |-> "snapshot", arg |-> world, seen |-> FALSE]
    OBVIOUS
  <2>1. x.op = "snapshot" /\ calls' = (calls \ {c \in calls : c.op = x.op}) \cup {x} /\ view' = view
    BY <1>2, ZenonT(20) DEF Sync!Poll, Sync!Switch, Sync!Call
  <2>2. Proper'
    BY <1>0, <2>1, Switched, ZenonT(20)
  <2>3. \A d \in calls : d.op # "snapshot" => d \in calls'
    BY <2>1, ZenonT(20)
  <2>4. (Asked("sync") => Asked("sync")') /\ (Asked("retry") => Asked("retry")')
    BY <2>3, ZenonT(20) DEF Asked
  <2>5. QED
    BY <1>0, <2>1, <2>2, <2>4, ZenonT(20) DEF SyncInv
<1>3. CASE Sync!ReceiveSnapshot \/ Sync!FailSnapshot
  <2> PICK c, s :
                            /\ c \in calls
                            /\ c.op = "snapshot" /\ calls' = calls \ {c}
                            /\ view' = [view EXCEPT !.snapshot = s]
    BY <1>3, ZenonT(20) DEF Sync!ReceiveSnapshot, Sync!FailSnapshot
  <2>1. IsSync(view') /\ view'.syncing = view.syncing /\ view'.sheetRetrying = view.sheetRetrying
    BY <1>0, ZenonT(20) DEF IsSync
  <2>2. Proper' /\ (Asked("sync")' <=> Asked("sync")) /\ (Asked("retry")' <=> Asked("retry"))
    BY <1>0, Ended, ZenonT(20)
  <2>3. QED
    BY <1>0, <2>1, <2>2, ZenonT(20) DEF SyncInv
\* The server stores a snapshot and publishes it.
<1>4. ASSUME NEW c \in calls, NEW x, IsCall(x), x.op = c.op, calls' = (calls \ {c}) \cup {x}, view' = view
      PROVE  SyncInv'
  <2>1. /\ x \in calls' /\ \A d \in calls' : d = x \/ d \in calls
        /\ \A d \in calls : d = c \/ d \in calls'
    BY <1>4, ZenonT(20)
  <2>2. Proper' /\ \A op : Asked(op) => Asked(op)'
    BY <1>0, <1>4, <2>1, ZenonT(20) DEF Proper, Asked
  <2>3. QED
    BY <1>0, <1>4, <2>2, ZenonT(20) DEF SyncInv
<1>5. ASSUME NEW c \in calls, NEW arg, NEW seen \in BOOLEAN, NEW x,
             x = [c EXCEPT !.arg = arg, !.seen = seen] \/ x = [c EXCEPT !.arg = arg]
      PROVE  IsCall(x) /\ x.op = c.op
  BY <1>0, <1>5, ZenonT(20) DEF Proper, IsCall
<1>6. CASE Sync!StoreSnapshot
  <2> PICK c, arg, x :
                                 /\ c \in calls
                                 /\ x = [c EXCEPT !.arg = arg]
                                 /\ calls' = (calls \ {c}) \cup {x} /\ view' = view
    BY <1>6, ZenonT(20) DEF Sync!StoreSnapshot
  <2>1. TRUE \in BOOLEAN
    OBVIOUS
  <2>2. IsCall(x) /\ x.op = c.op
    BY <1>5, <2>1, Zenon
  <2>3. QED
    BY <1>4, <2>2, Zenon
<1>7. CASE Sync!Publish
  <2> PICK c, sheet :
                                /\ c \in calls
                                /\ calls' = (calls \ {c}) \cup {[c EXCEPT !.arg.sheet = sheet, !.seen = TRUE]}
                                /\ view' = view
    BY <1>7, ZenonT(20) DEF Sync!Publish
  <2> PICK arg : arg = [c.arg EXCEPT !.sheet = sheet]
    OBVIOUS
  <2> PICK x : x = [c EXCEPT !.arg = arg, !.seen = TRUE]
    OBVIOUS
  <2>1. calls' = (calls \ {c}) \cup {x}
    BY ZenonT(20)
  <2>2. TRUE \in BOOLEAN
    OBVIOUS
  <2>3. IsCall(x) /\ x.op = c.op
    BY <1>5, <2>2, Zenon
  <2>4. QED
    BY <1>4, <2>1, <2>3, Zenon
<1>8. CASE Sync!PublishLatest
  <2> PICK c, arg, x :
                                 /\ c \in calls
                                 /\ x = [c EXCEPT !.arg = arg, !.seen = TRUE]
                                 /\ calls' = (calls \ {c}) \cup {x} /\ view' = view
    BY <1>8, ZenonT(20) DEF Sync!PublishLatest
  <2>1. TRUE \in BOOLEAN
    OBVIOUS
  <2>2. IsCall(x) /\ x.op = c.op
    BY <1>5, <2>1, Zenon
  <2>3. QED
    BY <1>4, <2>2, Zenon
<1>9. CASE Sync!Sync \/ Sync!RetryGoogleSheet
  <2> PICK op, q : /\ calls' = calls \cup {[op |-> op, arg |-> q, seen |-> FALSE]}
                   /\ \/ /\ op = "sync"
                         /\ view' = [view EXCEPT !.syncing = TRUE, !.error = FALSE, !.success = FALSE]
                      \/ /\ op = "retry"
                         /\ view' = [view EXCEPT !.sheetRetrying = TRUE, !.error = FALSE]
    BY <1>9, ZenonT(20) DEF Sync!Sync, Sync!RetryGoogleSheet, Sync!Subscribe, Sync!Call
  <2>1. /\ IsSync(view')
        /\ view'.syncing => op = "sync" \/ view.syncing
        /\ view'.sheetRetrying => op = "retry" \/ view.sheetRetrying
    BY <1>0, ZenonT(20) DEF IsSync
  <2>2. /\ Proper'
        /\ \E x \in calls' : Asking(x, op, q)
        /\ \A d \in calls : d \in calls'
    BY <1>0, Begins, ZenonT(20)
  <2>3. Asked(op)' /\ (Asked("sync") => Asked("sync")') /\ (Asked("retry") => Asked("retry")')
    BY <2>2, ZenonT(20) DEF Asked, Asking
  <2>4. QED
    BY <1>0, <2>1, <2>2, <2>3, ZenonT(20) DEF SyncInv
\* A request of the page's own ends.
<1>10. ASSUME NEW c \in calls, calls' = calls \ {c}, IsSync(view'),
              view'.syncing => view.syncing /\ c.op # "sync",
              view'.sheetRetrying => view.sheetRetrying /\ c.op # "retry"
       PROVE  SyncInv'
  <2>1. Proper' /\ \A op : c.op # op => (Asked(op)' <=> Asked(op))
    BY <1>0, <1>10, Ended, ZenonT(20)
  <2>2. QED
    BY <1>0, <1>10, <2>1, ZenonT(20) DEF SyncInv
<1>11. CASE Sync!Synced
  <2> PICK c \in calls : /\ c.op = "sync" /\ calls' = calls \ {c}
                         /\ view' = [view EXCEPT !.snapshot = c.arg, !.syncing = FALSE, !.success = TRUE]
    BY <1>11, ZenonT(20) DEF Sync!Synced, Sync!Succeeds
  <2>1. IsSync(view') /\ ~view'.syncing /\ view'.sheetRetrying = view.sheetRetrying
    BY <1>0, ZenonT(20) DEF IsSync
  <2>2. QED
    BY <1>10, <2>1, ZenonT(20)
<1>12. CASE Sync!Retried
  <2>a. PICK c \in calls :
          /\ c.op = "retry" /\ calls' = calls \ {c}
          /\ view' = [view EXCEPT !.snapshot = c.arg, !.sheetRetrying = FALSE,
                                  !.success = @ \/ c.arg.sheet = "synced",
                                  !.error = @ \/ c.arg.sheet # "synced"]
    BY <1>12, ZenonT(20) DEF Sync!Retried, Sync!Succeeds
  <2>b. PICK success, error : /\ success = (view.success \/ c.arg.sheet = "synced")
                              /\ error = (view.error \/ c.arg.sheet # "synced")
    OBVIOUS
  <2>c. view' = [view EXCEPT !.snapshot = c.arg, !.sheetRetrying = FALSE,
                             !.success = success, !.error = error]
    BY <2>a, <2>b, ZenonT(20)
  <2>1. IsSync(view') /\ view'.syncing = view.syncing /\ ~view'.sheetRetrying
    BY <1>0, <2>c, ZenonT(20) DEF IsSync
  <2>2. QED
    BY <1>10, <2>a, <2>1, ZenonT(20)
<1>13. CASE Sync!Fail
  <2>a. PICK c \in calls :
          /\ calls' = calls \ {c}
          /\ view' = [view EXCEPT !.error = TRUE, !.syncing = @ /\ c.op # "sync",
                                  !.sheetRetrying = @ /\ c.op # "retry"]
    BY <1>13, ZenonT(20) DEF Sync!Fail
  <2>b. PICK a, b : a = (view.syncing /\ c.op # "sync") /\ b = (view.sheetRetrying /\ c.op # "retry")
    OBVIOUS
  <2>c. view' = [view EXCEPT !.error = TRUE, !.syncing = a, !.sheetRetrying = b]
    BY <2>a, <2>b, ZenonT(20)
  <2>1. a \in BOOLEAN /\ b \in BOOLEAN
    BY <2>b, SMT
  <2>2. IsSync(view') /\ view'.syncing = a /\ view'.sheetRetrying = b
    BY <1>0, <2>c, <2>1, ZenonT(20) DEF IsSync
  <2>3. QED
    BY <1>10, <2>a, <2>b, <2>2, ZenonT(20)
<1>14. QED
  BY <1>1, <1>2, <1>3, <1>6, <1>7, <1>8, <1>9, <1>11, <1>12, <1>13, Zenon
     DEF Sync!Next, Sync!Answer, Sync!AnswerSnapshot, Sync!AnswerOwn

\* Hence the spinners of these pages turn for a request.
LEMMA ListsTurn ==
  /\ RecordsTurn => Records!SpinnersTurn
  /\ FeedTurns => Feed!SpinnersTurn
  /\ SyncInv => Sync!SpinnersTurn
<1>1. \A op : Pending(op) \/ Asked(op) => {c \in calls : c.op = op} # {}
  BY ZenonT(20) DEF Pending, Asked
<1>2. RecordsTurn => Records!SpinnersTurn
  <2>1. Records!Screen = "error" => (view.snapshot = None /\ ~view.pageLoading) \/ view.loadError
    BY SMT DEF Records!Screen
  <2>2. QED
    BY <1>1, <2>1, ZenonT(20) DEF RecordsTurn, Records!SpinnersTurn, Records!Waiting, Records!Under
<1>3. FeedTurns => Feed!SpinnersTurn
  <2>1. "calculating" \in Feed!Totals => view.summary = None /\ ~view.summaryError
    BY SMT DEF Feed!Totals
  <2>2. QED
    BY <1>1, <2>1, ZenonT(20) DEF FeedTurns, Feed!SpinnersTurn, Feed!Waiting, Feed!Under
<1>4. QED
  BY <1>1, <1>2, <1>3, ZenonT(20) DEF SyncInv, Sync!SpinnersTurn, Sync!Waiting, Sync!Under

-----------------------------------------------------------------------------
(* All pages: what they show of actions, offer and show as under way.      *)

\* The pages with actions of their own.
ActionsInv ==
    /\ page = "blocks" => BlocksInv
    /\ page = "queue" => QueueInv
    /\ page = "recruitment" => RecruitmentInv
    /\ page = "users" => UsersInv
    /\ page = "management" => ManagementInv
    /\ page = "group bookings" => GroupsInv
    /\ page = "house bookings" => VisitsInv
    /\ page = "commissions" => LedgerInv /\ LedgerLoads
    /\ page = "profile" => ProfileInv
    /\ page = "settings" => SettingsInv

\* The invariant holds when a page is opened.
LEMMA ActionsInit == Init => ActionsInv
<1>1. Init /\ page = "blocks" => BlockList!Init
  BY ZenonT(30) DEF Init
<1>2. Init /\ page = "queue" => Queue!Init
  BY ZenonT(30) DEF Init
<1>3. Init /\ page = "recruitment" => Recruitment!Init
  BY ZenonT(30) DEF Init
<1>4. Init /\ page = "users" => Users!Init
  BY ZenonT(30) DEF Init
<1>5. Init /\ page = "management" => Management!Init
  BY ZenonT(30) DEF Init
<1>6. Init /\ page = "group bookings" => GroupBookings!Init
  BY ZenonT(30) DEF Init
<1>7. Init /\ page = "house bookings" => HouseBookings!Init
  BY ZenonT(30) DEF Init
<1>8. Init /\ page = "commissions" => Commissions!Init
  BY ZenonT(30) DEF Init
<1>9. Init /\ page = "profile" => Profile!Init
  BY ZenonT(30) DEF Init
<1>10. Init /\ page = "settings" => Settings!Init
  BY ZenonT(30) DEF Init
<1>11. QED
  BY <1>1, <1>2, <1>3, <1>4, <1>5, <1>6, <1>7, <1>8, <1>9, <1>10, BlocksInit, QueueInit,
     RecruitmentInit, UsersInit, ManagementInit, GroupsInit, VisitsInit, LedgerInit, LedgerLoadsInit, ProfileInit,
     SettingsInit, ZenonT(20) DEF ActionsInv

\* Every step of the page that is open keeps it.
LEMMA ActionsStep ==
  ASSUME ReadsInv, ActionsInv, [Next]_vars
  PROVE  ActionsInv'
<1>0. page' = page
  BY SMT DEF Next, vars
<1>1. ASSUME page = "blocks" PROVE BlocksInv'
  <2>1. BlocksInv
    BY <1>1, Zenon DEF ActionsInv
  <2>2. BlockList!Next \/ UNCHANGED <<view, calls, world>>
    BY <1>1, ZenonT(30) DEF Next, Step, vars
  <2>3. CASE BlockList!Next
    BY <2>1, <2>3, BlocksStep, Zenon
  <2>4. CASE UNCHANGED <<view, calls, world>>
    BY <2>1, <2>4, ZenonT(20) DEF BlocksInv, IsBlocks, Proper, IsWorld, Asked, Seen
  <2>5. QED
    BY <2>2, <2>3, <2>4, Zenon
<1>2. ASSUME page = "queue" PROVE QueueInv'
  <2>1. QueueInv
    BY <1>2, Zenon DEF ActionsInv
  <2>2. Queue!Next \/ UNCHANGED <<view, calls, world>>
    BY <1>2, ZenonT(30) DEF Next, Step, vars
  <2>3. CASE Queue!Next
    BY <2>1, <2>3, QueueStep, Zenon
  <2>4. CASE UNCHANGED <<view, calls, world>>
    BY <2>1, <2>4, ZenonT(20) DEF QueueInv, IsQueue, Proper, IsWorld, Asked, Seen
  <2>5. QED
    BY <2>2, <2>3, <2>4, Zenon
<1>3. ASSUME page = "recruitment" PROVE RecruitmentInv'
  <2>1. RecruitmentInv
    BY <1>3, Zenon DEF ActionsInv
  <2>2. Recruitment!Next \/ UNCHANGED <<view, calls, world>>
    BY <1>3, ZenonT(30) DEF Next, Step, vars
  <2>3. CASE Recruitment!Next
    BY <2>1, <2>3, RecruitmentStep, Zenon
  <2>4. CASE UNCHANGED <<view, calls, world>>
    BY <2>1, <2>4, ZenonT(20) DEF RecruitmentInv, RecruitmentShape, ReviewsInv, SwitchInv,
       IsRecruitment, IsSetting, Proper, IsWorld, Single, Asked, Seen
  <2>5. QED
    BY <2>2, <2>3, <2>4, Zenon
<1>4. ASSUME page = "users" PROVE UsersInv'
  <2>1. UsersInv
    BY <1>4, Zenon DEF ActionsInv
  <2>2. Users!Next \/ UNCHANGED <<view, calls, world>>
    BY <1>4, ZenonT(30) DEF Next, Step, vars
  <2>3. CASE Users!Next
    BY <2>1, <2>3, UsersStep, Zenon
  <2>4. CASE UNCHANGED <<view, calls, world>>
    BY <2>1, <2>4, ZenonT(20) DEF UsersInv, UsersShape, UsersRow, UsersTurn, UsersList, UsersCount,
       IsTeamList, Proper, IsWorld, Single, Asks, Asked, Seen, Recounts
  <2>5. QED
    BY <2>2, <2>3, <2>4, Zenon
<1>5. ASSUME page = "management" PROVE ManagementInv'
  <2>1. ManagementInv
    BY <1>5, Zenon DEF ActionsInv
  <2>2. Management!Next \/ UNCHANGED <<view, calls, world>>
    BY <1>5, ZenonT(30) DEF Next, Step, vars
  <2>3. CASE Management!Next
    BY <2>1, <2>3, ManagementStep, Zenon
  <2>4. CASE UNCHANGED <<view, calls, world>>
    BY <2>1, <2>4, ZenonT(20) DEF ManagementInv, ManagementShape, RowFollows, IsManagement, Proper,
       IsWorld, Kept, Seen, Pending
  <2>5. QED
    BY <2>2, <2>3, <2>4, Zenon
<1>6. ASSUME page = "group bookings" PROVE GroupsInv'
  <2>1. GroupsInv
    BY <1>6, Zenon DEF ActionsInv
  <2>2. GroupBookings!Next \/ UNCHANGED <<view, calls, world>>
    BY <1>6, ZenonT(30) DEF Next, Step, vars
  <2>3. CASE GroupBookings!Next
    BY <2>1, <2>3, GroupsStep, Zenon
  <2>4. CASE UNCHANGED <<view, calls, world>>
    <3>1. GroupsShape'
      BY <2>1, <2>4, ZenonT(20) DEF GroupsInv, GroupsShape, IsGroups, Proper, IsWorld, Posts
    <3>2. GroupsTurn'
      BY <2>1, <2>4, ZenonT(20) DEF GroupsInv, GroupsTurn, Single, Asked, Pending, Posts
    <3>3. GroupsStored => GroupsStored'
      BY <2>4, ZenonT(20) DEF GroupsStored
    <3>4. GroupsBehind => GroupsBehind'
      BY <2>4, ZenonT(20) DEF GroupsBehind, Behind, Closes, Reaches, Answered, OnScreen
    <3>5. QED
      BY <2>1, <2>4, <3>1, <3>2, <3>3, <3>4, ZenonT(20) DEF GroupsInv
  <2>5. QED
    BY <2>2, <2>3, <2>4, Zenon
<1>7. ASSUME page = "house bookings" PROVE VisitsInv'
  <2>1. VisitsInv
    BY <1>7, Zenon DEF ActionsInv
  <2>2. HouseBookings!Next \/ UNCHANGED <<view, calls, world>>
    BY <1>7, ZenonT(30) DEF Next, Step, vars
  <2>3. CASE HouseBookings!Next
    BY <2>1, <2>3, VisitsStep, Zenon
  <2>4. CASE UNCHANGED <<view, calls, world>>
    BY <2>1, <2>4, ZenonT(20) DEF VisitsInv, VisitsShape, VisitsGone, VisitsShown, IsVisits,
       IsHouseState, Proper, Single, Asked
  <2>5. QED
    BY <2>2, <2>3, <2>4, Zenon
<1>8. ASSUME page = "commissions" PROVE LedgerInv' /\ LedgerLoads'
  <2>1. LedgerInv /\ LedgerLoads /\ SplitInv
    BY <1>8, Zenon DEF ActionsInv, ReadsInv
  <2>2. Commissions!Next \/ UNCHANGED <<view, calls, world>>
    BY <1>8, ZenonT(30) DEF Next, Step, vars
  <2>3. CASE Commissions!Next
    BY <2>1, <2>3, LedgerStep, LedgerLoadsStep, Zenon
  <2>4. CASE UNCHANGED <<view, calls, world>>
    BY <2>1, <2>4, ZenonT(20) DEF LedgerInv, LedgerTurn, LedgerFollows, LedgerRead, LedgerLoads,
       Single, Asked, Seen
  <2>5. QED
    BY <2>2, <2>3, <2>4, Zenon
<1>9. ASSUME page = "profile" PROVE ProfileInv'
  <2>1. ProfileInv
    BY <1>9, Zenon DEF ActionsInv
  <2>2. Profile!Next \/ UNCHANGED <<view, calls, world>>
    BY <1>9, ZenonT(30) DEF Next, Step, vars
  <2>3. CASE Profile!Next
    BY <2>1, <2>3, ProfileStep, Zenon
  <2>4. CASE UNCHANGED <<view, calls, world>>
    BY <2>1, <2>4, ZenonT(20) DEF ProfileInv, IsProfile, Proper, Asked
  <2>5. QED
    BY <2>2, <2>3, <2>4, Zenon
<1>10. ASSUME page = "settings" PROVE SettingsInv'
  <2>1. SettingsInv
    BY <1>10, Zenon DEF ActionsInv
  <2>2. Settings!Next \/ UNCHANGED <<view, calls, world>>
    BY <1>10, ZenonT(30) DEF Next, Step, vars
  <2>3. CASE Settings!Next
    BY <2>1, <2>3, SettingsStep, Zenon
  <2>4. CASE UNCHANGED <<view, calls, world>>
    BY <2>1, <2>4, ZenonT(20) DEF SettingsInv, IsSettings, Proper, IsWorld, Single, Asked
  <2>5. QED
    BY <2>2, <2>3, <2>4, Zenon
<1>11. QED
  BY <1>0, <1>1, <1>2, <1>3, <1>4, <1>5, <1>6, <1>7, <1>8, <1>9, <1>10, ZenonT(20) DEF ActionsInv

\* The invariant of the pages with actions.
LEMMA ActionsAlways == Spec => []ActionsInv
<1>1. ReadsInv /\ ActionsInv /\ [Next]_vars => ActionsInv'
  BY ActionsStep, Zenon
<1>2. QED
  BY <1>1, ActionsInit, ReadsAlways, PTL DEF Spec

\* The other pages: what they show as under way.
TurnsInv ==
    /\ page = "audit" => AuditTurns
    /\ page = "team analytics" => TeamTurns
    /\ page = "agent" => AgentTurns
    /\ page = "overview" => OverviewInv
    /\ page = "properties" => ListTurns
    /\ page = "booking" => BookingTurns
    /\ page = "assignment" => AssignmentTurns
    /\ page = "application" => JoinUsTurns
    /\ page = "property form" => PropertyFormTurns
    /\ page = "house" => HouseTurns
    /\ page = "records" => RecordsTurn
    /\ page = "feed" => FeedTurns
    /\ page = "sync" => SyncInv

\* The invariant holds when a page is opened.
LEMMA TurnsInit == Init => TurnsInv
<1>1. Init /\ page = "audit" => Audit!Init
  BY ZenonT(30) DEF Init
<1>2. Init /\ page = "team analytics" => TeamAnalytics!Init
  BY ZenonT(30) DEF Init
<1>3. Init /\ page = "agent" => AgentDetail!Init
  BY ZenonT(30) DEF Init
<1>4. Init /\ page = "overview" => Overview!Init
  BY ZenonT(30) DEF Init
<1>5. Init /\ page = "properties" => Properties!Init
  BY ZenonT(30) DEF Init
<1>6. Init /\ page = "booking" => Booking!Init
  BY ZenonT(30) DEF Init
<1>7. Init /\ page = "assignment" => Assignment!Init
  BY ZenonT(30) DEF Init
<1>8. Init /\ page = "application" => JoinUs!Init
  BY ZenonT(30) DEF Init
<1>9. Init /\ page = "property form" => PropertyForm!Init
  BY ZenonT(30) DEF Init
<1>10. Init /\ page = "house" => House!Init
  BY ZenonT(30) DEF Init
<1>11. Init /\ page = "records" => Records!Init
  BY ZenonT(30) DEF Init
<1>12. Init /\ page = "feed" => Feed!Init
  BY ZenonT(30) DEF Init
<1>13. Init /\ page = "sync" => Sync!Init
  BY ZenonT(30) DEF Init
<1>14. QED
  BY <1>1, <1>2, <1>3, <1>4, <1>5, <1>6, <1>7, <1>8, <1>9, <1>10, <1>11, <1>12, <1>13,
     AuditTurnsInit, TeamTurnsInit, AgentTurnsInit, OverviewInit, ListTurnsInit, BookingTurnsInit,
     AssignmentTurnsInit, JoinUsTurnsInit, PropertyFormTurnsInit, HouseTurnsInit, RecordsTurnInit,
     FeedTurnsInit, SyncInit, ZenonT(20) DEF TurnsInv

\* Every step of the page that is open keeps it.
LEMMA TurnsStep ==
  ASSUME PagesInv, ReadsInv, NoticesInv, TurnsInv, [Next]_vars
  PROVE  TurnsInv'
<1>0. page' = page
  BY SMT DEF Next, vars
<1>1. ASSUME page = "audit" PROVE AuditTurns'
  <2>1. AuditTurns /\ AuditInv
    BY <1>1, Zenon DEF TurnsInv, ReadsInv
  <2>2. Audit!Next \/ UNCHANGED <<view, calls, world>>
    BY <1>1, ZenonT(30) DEF Next, Step, vars
  <2>3. CASE Audit!Next
    BY <2>1, <2>3, AuditTurnsStep, Zenon
  <2>4. CASE UNCHANGED <<view, calls, world>>
    BY <2>1, <2>4, ZenonT(20) DEF AuditTurns, Pending
  <2>5. QED
    BY <2>2, <2>3, <2>4, Zenon
<1>2. ASSUME page = "team analytics" PROVE TeamTurns'
  <2>1. TeamTurns /\ TeamInv
    BY <1>2, Zenon DEF TurnsInv, ReadsInv
  <2>2. TeamAnalytics!Next \/ UNCHANGED <<view, calls, world>>
    BY <1>2, ZenonT(30) DEF Next, Step, vars
  <2>3. CASE TeamAnalytics!Next
    BY <2>1, <2>3, TeamTurnsStep, Zenon
  <2>4. CASE UNCHANGED <<view, calls, world>>
    BY <2>1, <2>4, ZenonT(20) DEF TeamTurns, Pending
  <2>5. QED
    BY <2>2, <2>3, <2>4, Zenon
<1>3. ASSUME page = "agent" PROVE AgentTurns'
  <2>1. AgentTurns /\ AgentInv
    BY <1>3, Zenon DEF TurnsInv, ReadsInv
  <2>2. AgentDetail!Next \/ UNCHANGED <<view, calls, world>>
    BY <1>3, ZenonT(30) DEF Next, Step, vars
  <2>3. CASE AgentDetail!Next
    BY <2>1, <2>3, AgentTurnsStep, Zenon
  <2>4. CASE UNCHANGED <<view, calls, world>>
    BY <2>1, <2>4, ZenonT(20) DEF AgentTurns, Pending
  <2>5. QED
    BY <2>2, <2>3, <2>4, Zenon
<1>4. ASSUME page = "overview" PROVE OverviewInv'
  <2>1. OverviewInv
    BY <1>4, Zenon DEF TurnsInv
  <2>2. Overview!Next \/ UNCHANGED <<view, calls, world>>
    BY <1>4, ZenonT(30) DEF Next, Step, vars
  <2>3. CASE Overview!Next
    BY <2>1, <2>3, OverviewStep, Zenon
  <2>4. CASE UNCHANGED <<view, calls, world>>
    BY <2>1, <2>4, ZenonT(20) DEF OverviewInv, IsOverview, Pending
  <2>5. QED
    BY <2>2, <2>3, <2>4, Zenon
<1>5. ASSUME page = "properties" PROVE ListTurns'
  <2>1. ListTurns /\ ListInv
    BY <1>5, Zenon DEF TurnsInv, ReadsInv
  <2>2. Properties!Next \/ UNCHANGED <<view, calls, world>>
    BY <1>5, ZenonT(30) DEF Next, Step, vars
  <2>3. CASE Properties!Next
    BY <2>1, <2>3, ListTurnsStep, Zenon
  <2>4. CASE UNCHANGED <<view, calls, world>>
    BY <2>1, <2>4, ZenonT(20) DEF ListTurns, Pending
  <2>5. QED
    BY <2>2, <2>3, <2>4, Zenon
<1>6. ASSUME page = "booking" PROVE BookingTurns'
  <2>1. BookingTurns /\ FormInv /\ view \in FormView
    BY <1>6, ZenonT(20) DEF TurnsInv, PagesInv
  <2>2. Booking!Next \/ UNCHANGED <<view, calls, world>>
    BY <1>6, ZenonT(30) DEF Next, Step, vars
  <2>3. CASE Booking!Next
    BY <2>1, <2>3, BookingTurnsStep, Zenon
  <2>4. CASE UNCHANGED <<view, calls, world>>
    BY <2>1, <2>4, ZenonT(20) DEF BookingTurns, FormReads, FormSends, Asked
  <2>5. QED
    BY <2>2, <2>3, <2>4, Zenon
<1>7. ASSUME page = "assignment" PROVE AssignmentTurns'
  <2>1. AssignmentTurns /\ FormInv /\ view \in FormView
    BY <1>7, ZenonT(20) DEF TurnsInv, PagesInv
  <2>2. Assignment!Next \/ UNCHANGED <<view, calls, world>>
    BY <1>7, ZenonT(30) DEF Next, Step, vars
  <2>3. CASE Assignment!Next
    BY <2>1, <2>3, AssignmentTurnsStep, Zenon
  <2>4. CASE UNCHANGED <<view, calls, world>>
    BY <2>1, <2>4, ZenonT(20) DEF AssignmentTurns, FormReads, FormSends, Asked
  <2>5. QED
    BY <2>2, <2>3, <2>4, Zenon
<1>8. ASSUME page = "application" PROVE JoinUsTurns'
  <2>1. JoinUsTurns /\ FormInv /\ view \in FormView
    BY <1>8, ZenonT(20) DEF TurnsInv, PagesInv
  <2>2. JoinUs!Next \/ UNCHANGED <<view, calls, world>>
    BY <1>8, ZenonT(30) DEF Next, Step, vars
  <2>3. CASE JoinUs!Next
    BY <2>1, <2>3, JoinUsTurnsStep, Zenon
  <2>4. CASE UNCHANGED <<view, calls, world>>
    BY <2>1, <2>4, ZenonT(20) DEF JoinUsTurns, FormReads, FormSends, Asked
  <2>5. QED
    BY <2>2, <2>3, <2>4, Zenon
<1>9. ASSUME page = "property form" PROVE PropertyFormTurns'
  <2>1. PropertyFormTurns /\ SaveInv
    BY <1>9, Zenon DEF TurnsInv, ReadsInv
  <2>2. PropertyForm!Next \/ UNCHANGED <<view, calls, world>>
    BY <1>9, ZenonT(30) DEF Next, Step, vars
  <2>3. CASE PropertyForm!Next
    BY <2>1, <2>3, PropertyFormTurnsStep, Zenon
  <2>4. CASE UNCHANGED <<view, calls, world>>
    BY <2>1, <2>4, ZenonT(20) DEF PropertyFormTurns
  <2>5. QED
    BY <2>2, <2>3, <2>4, Zenon
<1>10. ASSUME page = "house" PROVE HouseTurns'
  <2>1. HouseTurns /\ HouseInv
    BY <1>10, Zenon DEF TurnsInv, ReadsInv
  <2>2. House!Next \/ UNCHANGED <<view, calls, world>>
    BY <1>10, ZenonT(30) DEF Next, Step, vars
  <2>3. CASE House!Next
    BY <2>1, <2>3, HouseTurnsStep, Zenon
  <2>4. CASE UNCHANGED <<view, calls, world>>
    BY <2>1, <2>4, ZenonT(20) DEF HouseTurns, Asked, Pending
  <2>5. QED
    BY <2>2, <2>3, <2>4, Zenon
<1>11. ASSUME page = "records" PROVE RecordsTurn'
  <2>1. RecordsTurn /\ RowsInv
    BY <1>11, Zenon DEF TurnsInv, NoticesInv
  <2>2. Records!Next \/ UNCHANGED <<view, calls, world>>
    BY <1>11, ZenonT(30) DEF Next, Step, vars
  <2>3. CASE Records!Next
    BY <2>1, <2>3, RecordsTurnStep, Zenon
  <2>4. CASE UNCHANGED <<view, calls, world>>
    BY <2>1, <2>4, ZenonT(20) DEF RecordsTurn, Asked
  <2>5. QED
    BY <2>2, <2>3, <2>4, Zenon
<1>12. ASSUME page = "feed" PROVE FeedTurns'
  <2>1. FeedTurns /\ FeedInv
    BY <1>12, Zenon DEF TurnsInv, NoticesInv
  <2>2. Feed!Next \/ UNCHANGED <<view, calls, world>>
    BY <1>12, ZenonT(30) DEF Next, Step, vars
  <2>3. CASE Feed!Next
    BY <2>1, <2>3, FeedTurnsStep, Zenon
  <2>4. CASE UNCHANGED <<view, calls, world>>
    BY <2>1, <2>4, ZenonT(20) DEF FeedTurns, Asked, Pending
  <2>5. QED
    BY <2>2, <2>3, <2>4, Zenon
<1>13. ASSUME page = "sync" PROVE SyncInv'
  <2>1. SyncInv
    BY <1>13, Zenon DEF TurnsInv
  <2>2. Sync!Next \/ UNCHANGED <<view, calls, world>>
    BY <1>13, ZenonT(30) DEF Next, Step, vars
  <2>3. CASE Sync!Next
    BY <2>1, <2>3, SyncStep, Zenon
  <2>4. CASE UNCHANGED <<view, calls, world>>
    BY <2>1, <2>4, ZenonT(20) DEF SyncInv, IsSync, Proper, Asked
  <2>5. QED
    BY <2>2, <2>3, <2>4, Zenon
<1>14. QED
  BY <1>0, <1>1, <1>2, <1>3, <1>4, <1>5, <1>6, <1>7, <1>8, <1>9, <1>10, <1>11, <1>12, <1>13,
     ZenonT(20) DEF TurnsInv

\* The invariant of what is under way.
LEMMA TurnsAlways == Spec => []TurnsInv
<1>1. PagesInv /\ ReadsInv /\ NoticesInv /\ TurnsInv /\ [Next]_vars => TurnsInv'
  BY TurnsStep, Zenon
<1>2. QED
  BY <1>1, TurnsInit, PagesAlways, ReadsAlways, NoticesAlways, PTL DEF Spec

\* After a user's own actions every list, row and form shows what the server made of
\* them, once all is answered and nothing was reported as failed: for any number of
\* users, properties, bookings, blocks and tenants, and whatever order previews,
\* older reads and late answers come in.  The invariant says what is still to come:
\* an action that was executed and not answered, or a read that follows it.
THEOREM PagesFollowActions == Spec => []FollowsActions
<1>1. ActionsInv => FollowsActions
  BY BlocksFollow, QueueFollows, RecruitmentFollows, UsersFollow, ManagementFollows, GroupsFollow,
     VisitsFollow, LedgerShown, ProfileFollows, SettingsFollow, ZenonT(20) DEF ActionsInv, FollowsActions
<1>2. QED
  BY <1>1, ActionsAlways, PTL

\* What the list of properties and the team page offer in a row that is up to date
\* the server accepts, but for the removal of an occupied property: for every role,
\* status, tenancy and account.
THEOREM PagesOfferWhatIsAccepted == Spec => []OffersAreAccepted
<1>1. ActionsInv => OffersAreAccepted
  BY UsersFollow, ManagementFollows, Zenon DEF ActionsInv, OffersAreAccepted
<1>2. QED
  BY <1>1, ActionsAlways, PTL

\* On all twenty-three pages a spinner that turns and a button that is disabled wait
\* for a request of theirs that is under way: no dropped, late, saved or failed
\* answer leaves one behind, but a failed first read of the ledger and of the
\* page for a tenant, after which "Loading" stays for ever.
THEOREM PagesSpinForRequests == Spec => []SpinnersTurn
<1>1. ActionsInv /\ TurnsInv => SpinnersTurn
  <2>1. ActionsInv =>
          /\ page = "management" => Management!SpinnersTurn
          /\ page = "group bookings" => GroupBookings!SpinnersTurn
          /\ page = "house bookings" => HouseBookings!SpinnersTurn
          /\ page = "queue" => Queue!SpinnersTurn
          /\ page = "users" => Users!SpinnersTurn
          /\ page = "recruitment" => Recruitment!SpinnersTurn
          /\ page = "commissions" => Commissions!SpinnersTurn
          /\ page = "blocks" => BlockList!SpinnersTurn
          /\ page = "profile" => Profile!SpinnersTurn
          /\ page = "settings" => Settings!SpinnersTurn
    BY BlocksFollow, QueueFollows, RecruitmentFollows, UsersFollow, ManagementFollows, GroupsFollow,
       VisitsFollow, LedgerShown, ProfileFollows, SettingsFollow, ZenonT(20) DEF ActionsInv
  <2>2. TurnsInv =>
          /\ page = "audit" => Audit!SpinnersTurn
          /\ page = "team analytics" => TeamAnalytics!SpinnersTurn
          /\ page = "agent" => AgentDetail!SpinnersTurn
          /\ page = "overview" => Overview!SpinnersTurn
          /\ page = "booking" => Booking!SpinnersTurn
          /\ page = "assignment" => Assignment!SpinnersTurn
          /\ page = "application" => JoinUs!SpinnersTurn
          /\ page = "property form" => PropertyForm!SpinnersTurn
          /\ page = "house" => House!SpinnersTurn
          /\ page = "properties" => Properties!SpinnersTurn
          /\ page = "records" => Records!SpinnersTurn
          /\ page = "feed" => Feed!SpinnersTurn
          /\ page = "sync" => Sync!SpinnersTurn
    BY ReadersTurn, FormsTurn, ListsTurn, ZenonT(20) DEF TurnsInv
  <2>3. QED
    BY <2>1, <2>2, ZenonT(30) DEF SpinnersTurn
<1>2. QED
  BY <1>1, ActionsAlways, TurnsAlways, PTL
=============================================================================

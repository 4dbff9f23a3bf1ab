-------------------------- MODULE EvictionQueuePage --------------------------
(***************************************************************************)
(* notices.component.ts, the eviction queue: tenants whose notice is out.  *)
(* A manager holds or releases one, and one whose waiting period is over   *)
(* is evicted after a dialog.  Every success reads the queue again.        *)
(***************************************************************************)
EXTENDS Page

CONSTANT Items      \* the properties of the queue

\* The queue as an entry for each property, None if it is not in it; due: the
\* waiting period is over, by the clock of the page as well as the server's.
Entry == [held : BOOLEAN, due : BOOLEAN]
Queue == [Items -> Entry \cup {None}]

Opened ==
    [queue |-> [i \in Items |-> None], queueLoading |-> TRUE, loadError |-> FALSE,
     holding |-> None, dialog |-> None, evicting |-> None, lost |-> FALSE]

TypeOK ==
    /\ DOMAIN view = DOMAIN Opened
    /\ {view.queue, world.now, world.settled} \subseteq Queue
    /\ {view.queueLoading, view.loadError, view.lost} \subseteq BOOLEAN
    /\ {view.holding, view.dialog, view.evicting} \subseteq Items \cup {None}
    /\ \A c \in calls : c.op \in {"queue", "hold", "evict"}

Init ==
    /\ view = Opened
    /\ calls = {Call("queue", None)}
    /\ \E q \in [Items -> Entry] : world = [now |-> q, settled |-> q]

\* The clock, which the page reads every second.
Become(queue, i) == IF queue[i] = None THEN queue ELSE [queue EXCEPT ![i].due = TRUE]
Tick(i) ==
    /\ world.now[i] # None /\ ~world.now[i].due
    /\ view' = [view EXCEPT !.queue = Become(@, i)]
    /\ world' = [now |-> Become(world.now, i), settled |-> Become(world.settled, i)]
    /\ UNCHANGED calls

RetryLoad ==
    /\ view.loadError
    /\ view' = [view EXCEPT !.loadError = FALSE, !.queueLoading = TRUE]
    /\ Switch(Call("queue", None))
    /\ UNCHANGED world

\* Uncached, and no write was answered since it began: that would have begun
\* another read.
ReceiveQueue ==
    \E c \in Under("queue"), q \in Fresh :
        /\ Ends(c)
        /\ view' = [view EXCEPT !.queue = q, !.queueLoading = FALSE]
        /\ UNCHANGED world

FailQueue ==
    \E c \in Under("queue") :
        /\ Ends(c)
        /\ view' = [view EXCEPT !.queueLoading = FALSE, !.loadError = TRUE]
        /\ UNCHANGED world

\* While the queue is read its entries are not on screen.
OnScreen(i) == ~view.queueLoading /\ view.queue[i] # None

SetEvictionHold(i) ==
    /\ OnScreen(i) /\ view.holding = None /\ view.dialog = None
    /\ view' = [view EXCEPT !.holding = i]
    /\ Subscribe(Call("hold", [item |-> i, held |-> ~view.queue[i].held]))
    /\ UNCHANGED world

StoreHold ==
    \E c \in Under("hold") :
        /\ world.now[c.arg.item] # None
        /\ Executes(c)
        /\ Commit([world.now EXCEPT ![c.arg.item].held = c.arg.held])
        /\ UNCHANGED view

IsEvictionReady(entry) == entry # None /\ ~entry.held /\ entry.due
Evict(i) ==
    /\ OnScreen(i) /\ IsEvictionReady(view.queue[i])
    /\ view.evicting = None /\ view.dialog = None
    /\ view' = [view EXCEPT !.dialog = i]
    /\ UNCHANGED <<calls, world>>

Dismiss ==
    /\ view.dialog # None
    /\ view' = [view EXCEPT !.dialog = None]
    /\ UNCHANGED <<calls, world>>

Confirm ==
    /\ view.dialog # None
    /\ view' = [view EXCEPT !.dialog = None, !.evicting = view.dialog]
    /\ Subscribe(Call("evict", [item |-> view.dialog, held |-> FALSE]))
    /\ UNCHANGED world

\* The server does not look at the hold.
EvictTenant ==
    \E c \in Under("evict") :
        /\ world.now[c.arg.item] # None
        /\ Executes(c)
        /\ Commit([world.now EXCEPT ![c.arg.item] = None])
        /\ UNCHANGED view

\* loadEvictionQueue: the newest read replaces the one under way.
Reload(c) ==
    /\ calls' = {d \in calls : d # c /\ d.op # "queue"} \cup {Call("queue", None)}
    /\ Settle

\* A variant: a hold does not read the queue again.
HeldWithoutReload ==
    \E c \in Under("hold") :
        /\ Succeeds(c)
        /\ Settle
        /\ view' = [view EXCEPT !.holding = None]
Held ==
    \E c \in Under("hold") :
        /\ c.seen
        /\ Reload(c)
        /\ view' = [view EXCEPT !.holding = None, !.loadError = FALSE, !.queueLoading = TRUE]
Evicted ==
    \E c \in Under("evict") :
        /\ c.seen
        /\ Reload(c)
        /\ view' = [view EXCEPT !.evicting = None, !.loadError = FALSE, !.queueLoading = TRUE]

NotHeld ==
    \E c \in Under("hold") :
        /\ Ends(c)
        /\ view' = [view EXCEPT !.holding = None, !.lost = TRUE]
        /\ Settle
NotEvicted ==
    \E c \in Under("evict") :
        /\ Ends(c)
        /\ view' = [view EXCEPT !.evicting = None, !.lost = TRUE]
        /\ Settle

Answer == ReceiveQueue \/ FailQueue \/ Held \/ Evicted \/ NotHeld \/ NotEvicted
Next ==
    \/ RetryLoad \/ StoreHold \/ Dismiss \/ Confirm \/ EvictTenant \/ Answer
    \/ \E i \in Items : Tick(i) \/ SetEvictionHold(i) \/ Evict(i)

\* Unless an error was reported, the queue shown is the server's once nothing is
\* under way, whatever read the last hold or eviction met.
QueueFollowsActions ==
    calls = {} /\ ~view.lost /\ ~view.loadError => view.queue = world.now

\* What is shown as under way is under way.
SpinnersTurn ==
    /\ view.queueLoading => Waiting("queue")
    /\ view.holding # None => Waiting("hold")
    /\ view.evicting # None => Waiting("evict")
=============================================================================

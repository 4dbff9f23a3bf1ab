---------------------------- MODULE DisplayReads ----------------------------
(***************************************************************************)
(* What the browser's read layer promises to a page: a display read shows  *)
(* one result or two (a saved preview, then the refreshed model), an       *)
(* uncached read shows one, and none of them shows a state of the server   *)
(* older than a write of this browser that had already been answered.      *)
(* DataModels implements this; the page modules rely on it.                *)
(***************************************************************************)
EXTENDS Integers

CONSTANTS
    Readers,     \* subscriptions that pages may hold at the same time
    None         \* nothing is shown

VARIABLES
    server,      \* how many writes the server has committed
    settled,     \* the server's state when the last answered own write committed
    reading,     \* reading[r]: what the subscription waits for
    handed       \* handed[r]: the server state of the result this step shows it

vars == <<server, settled, reading, handed>>

Idle == [kind |-> "idle", floor |-> 0]
Nothing == [r \in Readers |-> None]

Init ==
    /\ server = 0
    /\ settled = 0
    /\ reading = [r \in Readers |-> Idle]
    /\ handed = Nothing

\* The server commits a write, and a write of this browser is answered.
Write ==
    /\ server' >= server
    /\ settled' >= settled
    /\ settled' <= server'
    /\ UNCHANGED reading
    /\ handed' = Nothing

\* A reader subscribes; an uncached read must see every write answered before.
Begins(r) ==
    /\ reading[r] = Idle
    /\ reading'[r] \in {[kind |-> "get", floor |-> settled], [kind |-> "read", floor |-> 0]}
    /\ handed'[r] \in {None} \cup settled..server

\* The oldest state a result shown now may have.
Floor(r) == IF reading[r].kind = "get" THEN reading[r].floor ELSE settled

\* A result is shown: the last one, or a preview after which the reader waits on.
Shows(r) ==
    /\ handed'[r] \in Floor(r)..server
    /\ \/ reading'[r] = Idle
       \/ reading[r].kind = "read" /\ reading'[r] = reading[r]

\* A read ends without a result: it failed, was left, or the session changed.
Ends(r) ==
    /\ reading'[r] = Idle
    /\ handed'[r] = None

\* One answer reaches every subscriber that shares it in one step.
Move ==
    /\ UNCHANGED server
    /\ settled' >= settled /\ settled' <= server
    /\ DOMAIN reading' = Readers /\ DOMAIN handed' = Readers
    /\ \A r \in Readers :
          \/ reading'[r] = reading[r] /\ handed'[r] = None
          \/ Begins(r) \/ Shows(r) \/ Ends(r)

Next == Write \/ Move

Spec == Init /\ [][Next]_vars

=============================================================================

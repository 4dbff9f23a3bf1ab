-------------------------------- MODULE Page --------------------------------
(***************************************************************************)
(* What the page components have in common.  A page keeps signals and form *)
(* values (view) and subscribes to requests (calls); world is what the     *)
(* server holds, where the page changes it.  A display read (ApiService    *)
(* .read) may hand out a saved preview before its answer; DisplayReads     *)
(* says what the answers may be, and DataModels that the code keeps it.    *)
(* Equal reads under way share one request, so that a set can hold them.   *)
(***************************************************************************)
EXTENDS Integers, FiniteSets

CONSTANT None

VARIABLES
    view,     \* the signals of the page that is open
    calls,    \* the requests it waits for: [op, arg, seen]
    world     \* [now, settled]: the server's data, now and as of the last
              \* own write that was answered; None if the page changes nothing

pageVars == <<view, calls, world>>

Call(op, arg) == [op |-> op, arg |-> arg, seen |-> FALSE]
Under(op) == {c \in calls : c.op = op}
Waiting(op) == Under(op) # {}

Subscribe(c) == calls' = calls \cup {c}
\* switchMap: the newest question drops the subscription to the one before.
Switch(c) == calls' = (calls \ Under(c.op)) \cup {c}

Ends(c) == calls' = calls \ {c}
Previews(c) == ~c.seen /\ calls' = (calls \ {c}) \cup {[c EXCEPT !.seen = TRUE]}

\* A display read hands out a result: the last one, or a preview of it.
Shows(c) == Ends(c) \/ Previews(c)

\* The refresh behind a preview failed for a reason that may pass: the preview
\* stays and the page is told nothing.
EndsQuietly(c) == c.seen /\ Ends(c) /\ UNCHANGED <<view, world>>

\* A mutation: seen says that the server has executed it, answered or not.
Executes(c) == ~c.seen /\ calls' = (calls \ {c}) \cup {[c EXCEPT !.seen = TRUE]}
Succeeds(c) == c.seen /\ Ends(c)

\* What a display read may show, and an uncached read that began at c.arg.
Fresh == {world.now, world.settled}

\* The server commits an own write; it is visible to every read after its answer.
Commit(data) == world' = [world EXCEPT !.now = data]
Settle == world' = [world EXCEPT !.settled = world.now]
=============================================================================

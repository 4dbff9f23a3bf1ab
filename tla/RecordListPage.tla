--------------------------- MODULE RecordListPage ---------------------------
(***************************************************************************)
(* notices.component.ts, the overdue and the active list: the rows of the  *)
(* latest export, page by page.  An export may be replaced between two     *)
(* pages; its snapshot number says of which export a page is.              *)
(***************************************************************************)
EXTENDS Page

CONSTANTS
    Exports,    \* snapshot numbers, 1..n in the order of the syncs
    RowCount    \* RowCount[s]: rows of this list in snapshot s; pages hold one

Row(s, r) == [snap |-> s, row |-> r]
FirstRows(s, n) == {Row(s, r) : r \in 1..n}
MostRows == CHOOSE n \in {RowCount[s] : s \in Exports} : \A s \in Exports : RowCount[s] <= n

\* nextSkip: rows to leave out of the next page.
Opened ==
    [snapshot |-> None, records |-> {}, nextSkip |-> 0, hasMore |-> FALSE,
     pageLoading |-> TRUE, loadError |-> FALSE]

First == [append |-> FALSE, skip |-> 0, since |-> None]

TypeOK ==
    /\ view \in [snapshot : Exports \cup {None},
                 records : SUBSET [snap : Exports, row : 1..MostRows], nextSkip : 0..MostRows,
                 hasMore : BOOLEAN, pageLoading : BOOLEAN, loadError : BOOLEAN]
    /\ world \in [now : Exports, settled : Exports]
    /\ \A c \in calls : c.op = "records"

Init ==
    /\ view = Opened
    /\ calls = {Call("records", First)}
    /\ world = [now |-> 1, settled |-> 1]

Sync ==
    /\ world.now + 1 \in Exports
    /\ world' = [world EXCEPT !.now = @ + 1]
    /\ UNCHANGED <<view, calls>>

\* The first page may be saved data, the pages after it come from the server.
LoadRecords(append) ==
    /\ view' = [view EXCEPT !.pageLoading = TRUE, !.loadError = FALSE]
    /\ Switch(Call("records",
                   IF append THEN [append |-> TRUE, skip |-> view.nextSkip, since |-> world.now]
                   ELSE First))
    /\ UNCHANGED world

\* The template: rows as soon as there are some, else why there are none.
Screen ==
    CASE view.records # {} -> "rows"
      [] view.records = {} /\ view.snapshot # None -> "no rows"
      [] view.snapshot = None -> IF view.pageLoading THEN "loading" ELSE "error"

\* Below the rows, "Load more".
MoreOffered == view.hasMore /\ ~view.pageLoading
LoadMore == MoreOffered /\ LoadRecords(TRUE)
RetryLoad == view.loadError /\ LoadRecords(view.snapshot # None)

Page(s, skip) == {Row(s, r) : r \in {skip + 1} \cap 1..RowCount[s]}

\* The page is merged by row number; a variant does so whatever export it is of.
Merged(old, new) == {r \in old : \A n \in new : n.row # r.row} \cup new
Shown(c, s, old) ==
    LET new == Page(s, c.arg.skip)
        next == c.arg.skip + Cardinality(new)
    IN  [view EXCEPT !.snapshot = s, !.records = Merged(old, new), !.nextSkip = next,
                     !.hasMore = next < RowCount[s],
                     !.pageLoading = \E d \in calls' : d.op = "records"]

Continuations == {c \in Under("records") : c.arg.append}

ReceiveFirst ==
    \E c \in Under("records") \ Continuations, s \in world.settled..world.now :
        /\ Shows(c)
        /\ view' = Shown(c, s, {})
        /\ UNCHANGED world

ReceiveMore ==
    \E c \in Continuations :
        /\ view.snapshot \in c.arg.since..world.now
        /\ Ends(c)
        /\ view' = Shown(c, view.snapshot, view.records)
        /\ UNCHANGED world

\* A page of a newer export: saved data is cleared and the list starts again.
RestartMixing ==
    \E c \in Continuations : \E s \in c.arg.since..world.now :
        /\ s # view.snapshot
        /\ Ends(c)
        /\ view' = Shown(c, s, view.records)
        /\ UNCHANGED world
Restart ==
    \E c \in Continuations : \E s \in c.arg.since..world.now :
        /\ s # view.snapshot
        /\ Settle
        /\ view' = [view EXCEPT !.pageLoading = TRUE, !.loadError = FALSE]
        /\ Switch(Call("records", First))

Fail ==
    \E c \in Under("records") :
        /\ Ends(c)
        /\ view' = [view EXCEPT !.pageLoading = FALSE, !.loadError = TRUE]
        /\ UNCHANGED world

\* finalize: the refresh behind a saved first page is over.
Quiet ==
    \E c \in Under("records") :
        /\ c.seen /\ Ends(c)
        /\ view' = [view EXCEPT !.pageLoading = FALSE]
        /\ UNCHANGED world

Answer == ReceiveFirst \/ ReceiveMore \/ Restart \/ Fail \/ Quiet
Next == Sync \/ LoadMore \/ RetryLoad \/ Answer

\* The list is the beginning of one export, without gaps and without rows of
\* another, and complete when no more are offered.
RowsOfOneExport ==
    view.snapshot # None =>
        /\ view.records = FirstRows(view.snapshot, view.nextSkip)
        /\ view.hasMore <=> view.nextSkip < RowCount[view.snapshot]
        /\ Screen = "no rows" => RowCount[view.snapshot] = 0

\* What is shown as under way is under way.
SpinnersTurn ==
    /\ view.pageLoading => Waiting("records")
    /\ Screen = "error" => view.loadError
=============================================================================

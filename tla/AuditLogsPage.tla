--------------------------- MODULE AuditLogsPage ---------------------------
(***************************************************************************)
(* audit-logs.component.ts: a filtered, paged list.  Typing is debounced,  *)
(* every page number sent to page$ replaces the read under way, and the    *)
(* query takes whatever the filters hold when the number arrives.          *)
(***************************************************************************)
EXTENDS Page

CONSTANTS
    Filters,    \* contents of the filter form
    NoFilter,   \* the form as "Clear filters" leaves it
    LastPage    \* pages that match, whatever the filter

Query(f, p) == [filter |-> f, page |-> p]
Empty == Query(None, 1)

Opened ==
    [filter |-> NoFilter, typing |-> FALSE, page |-> 1, result |-> Empty,
     loading |-> TRUE, error |-> FALSE, expanded |-> FALSE, actors |-> FALSE]

TypeOK ==
    /\ view \in [filter : Filters, typing : BOOLEAN, page : 1..LastPage,
                 result : [filter : Filters \cup {None}, page : 1..LastPage],
                 loading : BOOLEAN, error : BOOLEAN, expanded : BOOLEAN, actors : BOOLEAN]
    /\ \A c \in calls : c.op \in {"logs", "actors"}

Init ==
    /\ view = Opened
    /\ calls = {Call("logs", Query(NoFilter, 1)), Call("actors", None)}
    /\ world = None

\* Any change of the form restarts the debounce.
HasFilters == view.filter # NoFilter
SetFilters(f) ==
    /\ f # view.filter
    /\ view' = [view EXCEPT !.filter = f, !.typing = TRUE]
    /\ UNCHANGED <<calls, world>>
ClearFilters == HasFilters /\ SetFilters(NoFilter)

\* page$.next(p).  Dropping the old read runs its finalize after the tap: the
\* spinner goes out although the new read is under way.  A variant keeps the
\* old read (mergeMap).
LoadBeside(p) ==
    /\ view' = [view EXCEPT !.page = p, !.loading = TRUE, !.error = FALSE]
    /\ Subscribe(Call("logs", Query(view.filter, p)))
    /\ UNCHANGED world
Load(p) ==
    /\ view' = [view EXCEPT !.page = p, !.loading = ~Waiting("logs"), !.error = FALSE]
    /\ Switch(Call("logs", Query(view.filter, p)))
    /\ UNCHANGED world

Debounced ==
    /\ view.typing
    /\ view' = [view EXCEPT !.typing = FALSE, !.page = 1,
                            !.loading = ~Waiting("logs"), !.error = FALSE]
    /\ Switch(Call("logs", Query(view.filter, 1)))
    /\ UNCHANGED world

\* "Refresh" is disabled while loading, "Try again" is not.
Refresh == (~view.loading \/ view.error) /\ Load(view.result.page)

\* The template: the banner above an empty list, the rows of a page with the
\* details of one of them, or the statement that nothing matches.
Screen ==
    CASE view.error -> "banner"
      [] ~view.error /\ view.result = Empty -> "nothing"
      [] ~view.error /\ view.result # Empty -> IF view.expanded THEN "details" ELSE "rows"

\* The list has further pages unless it is EMPTY_RESULT.
Pages == IF view.result = Empty THEN {} ELSE 1..LastPage
GoToPage(p) ==
    /\ ~view.loading
    /\ p \in Pages \cap {view.result.page - 1, view.result.page + 1}
    /\ Load(p)

Toggle ==
    /\ Screen \in {"rows", "details"}
    /\ view' = [view EXCEPT !.expanded = ~@]
    /\ UNCHANGED <<calls, world>>

Receive ==
    \E c \in Under("logs") :
        /\ Shows(c)
        /\ view' = [view EXCEPT !.result = c.arg, !.loading = FALSE, !.expanded = FALSE]
        /\ UNCHANGED world

\* catchError shows the empty list, finalize puts the spinner out.
Fail ==
    \E c \in Under("logs") :
        /\ Ends(c)
        /\ view' = [view EXCEPT !.result = Empty, !.loading = FALSE, !.expanded = FALSE,
                                !.error = TRUE]
        /\ UNCHANGED world

Quiet == \E c \in Under("logs") : EndsQuietly(c)

\* The users of the "Performed by" filter; an error leaves the filter empty.
ReceiveActors ==
    \E c \in Under("actors") :
        \/ Shows(c) /\ view' = [view EXCEPT !.actors = TRUE] /\ UNCHANGED world
        \/ Ends(c) /\ UNCHANGED <<view, world>>

Answer == Receive \/ Fail \/ Quiet \/ ReceiveActors
Next ==
    \/ \E f \in Filters : SetFilters(f)
    \/ ClearFilters \/ Debounced \/ Refresh \/ Toggle
    \/ \E p \in 1..LastPage : GoToPage(p)
    \/ Answer

\* The rows and the page number shown are those of the filters in the form,
\* once typing and reading are over; no old row shows under the banner.
ShowsSelection ==
    /\ view.error => view.result = Empty
    /\ ~Waiting("logs") /\ ~view.typing /\ Screen # "banner" =>
          Screen # "nothing" /\ view.result = Query(view.filter, view.page)

\* What is shown as under way is under way.
SpinnersTurn == view.loading => Waiting("logs")
=============================================================================

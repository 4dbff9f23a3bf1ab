------------------------- MODULE PropertiesListPage -------------------------
(***************************************************************************)
(* properties-list.component.ts: the public list.  Filters and page number *)
(* are one form, whose changes are debounced; the first read starts at     *)
(* once.  A new filter keeps the page number.                              *)
(***************************************************************************)
EXTENDS Page

CONSTANTS
    Filters, NoFilter,  \* contents of the form but for the page number
    LastPage            \* LastPage[filter]: pages that match, 0 if nothing does

Query(f, p) == [filter |-> f, page |-> p]
PageNumbers == 1..(CHOOSE n \in {LastPage[f] : f \in Filters} :
                       \A f \in Filters : LastPage[f] <= n)
Empty == Query(None, 1)

Opened ==
    [form |-> Query(NoFilter, 1), typing |-> FALSE, result |-> Empty,
     loading |-> TRUE, error |-> FALSE]

TypeOK ==
    /\ view \in [form : [filter : Filters, page : PageNumbers], typing : BOOLEAN,
                 result : [filter : Filters \cup {None}, page : PageNumbers],
                 loading : BOOLEAN, error : BOOLEAN]
    /\ \A c \in calls : c.op = "list"

Init == view = Opened /\ calls = {Call("list", view.form)} /\ world = None

\* valueChanges: every change of the form restarts the debounce.
Change(form) ==
    /\ view' = [view EXCEPT !.form = form, !.typing = TRUE]
    /\ UNCHANGED <<calls, world>>

SetFilter(f) == f # view.form.filter /\ Change([view.form EXCEPT !.filter = f])
Clear == Change(Query(NoFilter, 1))

\* Previous and Next, as the result shown allows.
HasPrevious == view.result.page > 1
HasNext == view.result.filter # None /\ view.result.page < LastPage[view.result.filter]
GoToPage(p) ==
    /\ \/ HasPrevious /\ p = view.result.page - 1
       \/ HasNext /\ p = view.result.page + 1
    /\ Change([view.form EXCEPT !.page = p])

\* "Try again": the same values, through the debounce.
Reload == view.error /\ Change(view.form)

\* The old read is dropped before the new one sets the spinner.  A variant:
\* what the list shows now is asked for again.
DebouncedOnResult ==
    /\ view.typing
    /\ view' = [view EXCEPT !.typing = FALSE, !.loading = TRUE, !.error = FALSE]
    /\ Switch(Call("list", IF view.result = Empty THEN view.form
                           ELSE [view.form EXCEPT !.page = view.result.page]))
    /\ UNCHANGED world
Debounced ==
    /\ view.typing
    /\ view' = [view EXCEPT !.typing = FALSE, !.loading = TRUE, !.error = FALSE]
    /\ Switch(Call("list", view.form))
    /\ UNCHANGED world

Receive ==
    \E c \in Under("list") :
        /\ Shows(c)
        /\ view' = [view EXCEPT !.result = c.arg, !.loading = FALSE]
        /\ UNCHANGED world

\* The rows stay; the template shows the error in their place.
Fail ==
    \E c \in Under("list") :
        /\ Ends(c)
        /\ view' = [view EXCEPT !.loading = FALSE, !.error = TRUE]
        /\ UNCHANGED world

Quiet == \E c \in Under("list") : EndsQuietly(c)

\* The template: error, "nothing found", or the rows.
Rows == view.result.filter # None /\ view.result.page <= LastPage[view.result.filter]
Screen ==
    CASE view.error -> "error"
      [] ~view.error /\ ~view.loading /\ ~Rows -> "nothing found"
      [] OTHER -> "rows"

Answer == Receive \/ Fail \/ Quiet
Next ==
    \/ \E f \in Filters : SetFilter(f)
    \/ \E p \in PageNumbers : GoToPage(p)
    \/ Clear \/ Reload \/ Debounced \/ Answer

\* Rows, or the statement that there are none, are the answer to the form as it
\* is, page number included, once typing and reading are over.
ShowsSelection ==
    ~Waiting("list") /\ ~view.typing /\ Screen # "error" => view.result = view.form

\* What is shown as under way is under way.
SpinnersTurn == view.loading => Waiting("list")
=============================================================================

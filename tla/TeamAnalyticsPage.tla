------------------------- MODULE TeamAnalyticsPage -------------------------
(***************************************************************************)
(* agent-analytics.component.ts: the performance of all agents over a      *)
(* period.  Search, role and order only choose among the rows shown and    *)
(* are left out.                                                           *)
(***************************************************************************)
EXTENDS Page

CONSTANTS
    Periods,    \* periods to choose from
    AllTime     \* the period the page opens with

Opened == [period |-> AllTime, report |-> None, loading |-> TRUE, error |-> FALSE]

TypeOK ==
    /\ view \in [period : Periods, report : Periods \cup {None},
                 loading : BOOLEAN, error : BOOLEAN]
    /\ \A c \in calls : c.op = "report" /\ c.arg \in Periods

Init == view = Opened /\ calls = {Call("report", AllTime)} /\ world = None

\* reload$: the report of the period selected now.  A variant: the old request
\* stays subscribed.
LoadBeside(period) ==
    /\ view' = [view EXCEPT !.period = period, !.loading = TRUE, !.error = FALSE]
    /\ Subscribe(Call("report", period))
    /\ UNCHANGED world
Load(period) ==
    /\ view' = [view EXCEPT !.period = period, !.loading = TRUE, !.error = FALSE]
    /\ Switch(Call("report", period))
    /\ UNCHANGED world

SetPeriod(period) == period # view.period /\ Load(period)

\* What the template shows: the report with or without "Updating".
Screen ==
    CASE view.loading -> IF view.report = None THEN "loading" ELSE "updating"
      [] ~view.loading /\ view.error -> "error"
      [] ~view.loading /\ ~view.error -> IF view.report = None THEN "nothing" ELSE "report"

TryAgain == Screen = "error" /\ Load(view.period)

Receive ==
    \E c \in Under("report") :
        /\ Shows(c)
        /\ view' = [view EXCEPT !.report = c.arg, !.loading = FALSE]
        /\ UNCHANGED world

\* The report on screen stays behind the error.
Fail ==
    \E c \in Under("report") :
        /\ Ends(c)
        /\ view' = [view EXCEPT !.loading = FALSE, !.error = TRUE]
        /\ UNCHANGED world

Quiet == \E c \in Under("report") : EndsQuietly(c)

Answer == Receive \/ Fail \/ Quiet
Next == (\E p \in Periods : SetPeriod(p)) \/ TryAgain \/ Answer

\* Figures without the "Updating" label are those of the period marked as
\* selected, however answers and changes of mind cross; the page is never blank.
ShowsSelection ==
    /\ Screen = "report" => view.report = view.period
    /\ Screen # "nothing"

\* What is shown as under way is under way.
SpinnersTurn == view.loading => Waiting("report")
=============================================================================

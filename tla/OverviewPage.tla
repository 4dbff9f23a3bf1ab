---------------------------- MODULE OverviewPage ----------------------------
(***************************************************************************)
(* dashboard-overview.component.ts: the figures of the portfolio.          *)
(***************************************************************************)
EXTENDS Page

Opened == [summary |-> FALSE, error |-> FALSE]

TypeOK ==
    /\ view \in [summary : BOOLEAN, error : BOOLEAN]
    /\ \A c \in calls : c.op = "summary"

Init == view = Opened /\ calls = {Call("summary", None)} /\ world = None

\* The template: figures, else the error with "Try again", else placeholders.
Screen == IF view.summary THEN "figures" ELSE IF view.error THEN "error" ELSE "placeholders"

Reload ==
    /\ Screen = "error"
    /\ view' = [view EXCEPT !.error = FALSE]
    /\ Switch(Call("summary", None))
    /\ UNCHANGED world

Receive ==
    \E c \in Under("summary") :
        /\ Shows(c)
        /\ view' = [view EXCEPT !.summary = TRUE]
        /\ UNCHANGED world

\* The figures of a preview go when its refresh is refused.  A variant: the
\* failure is swallowed.
FailSilently ==
    \E c \in Under("summary") :
        /\ Ends(c)
        /\ view' = [view EXCEPT !.summary = FALSE]
        /\ UNCHANGED world
Fail ==
    \E c \in Under("summary") :
        /\ Ends(c)
        /\ view' = [view EXCEPT !.summary = FALSE, !.error = TRUE]
        /\ UNCHANGED world

Quiet == \E c \in Under("summary") : EndsQuietly(c)

Answer == Receive \/ Fail \/ Quiet
Next == Reload \/ Answer

\* What is shown as under way is under way.
SpinnersTurn == Screen = "placeholders" => Waiting("summary")
=============================================================================

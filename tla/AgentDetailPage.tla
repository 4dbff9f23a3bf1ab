-------------------------- MODULE AgentDetailPage --------------------------
(***************************************************************************)
(* agent-analytics-detail.component.ts: one agent's activity over a period,*)
(* five lists of which the first 50 entries show until more are asked for. *)
(* The agent comes from the address and may change under the open page.    *)
(***************************************************************************)
EXTENDS Page

CONSTANTS
    Agents,     \* agents whose page is opened
    Periods, AllTime,
    Activities, \* the lists of the report
    Pieces      \* Pieces[agent]: how many steps of 50 each list has

Report(agent, period) == [agent |-> agent, period |-> period]
Limits == [a \in Activities |-> 1]

Opened(agent) ==
    [agent |-> agent, period |-> AllTime, detail |-> None, limits |-> Limits,
     loading |-> TRUE, error |-> FALSE]

MostPieces == CHOOSE n \in {Pieces[a] : a \in Agents} : \A a \in Agents : Pieces[a] <= n

TypeOK ==
    /\ view \in [agent : Agents, period : Periods,
                 detail : [agent : Agents, period : Periods] \cup {None},
                 limits : [Activities -> 1..MostPieces], loading : BOOLEAN, error : BOOLEAN]
    /\ \A c \in calls : c.op = "detail"

Init ==
    \E agent \in Agents :
        /\ view = Opened(agent)
        /\ calls = {Call("detail", Report(agent, AllTime))}
        /\ world = None

\* combineLatest: another agent in the address or another period asks anew.
Load(agent, period) ==
    /\ view' = [view EXCEPT !.agent = agent, !.period = period,
                            !.loading = TRUE, !.error = FALSE]
    /\ Switch(Call("detail", Report(agent, period)))
    /\ UNCHANGED world

\* The template; the periods to choose from are part of the report.
Screen == IF view.loading THEN "loading" ELSE IF view.error THEN "error" ELSE "report"

OpenAgent(agent) == agent # view.agent /\ Load(agent, view.period)
SetPeriod(period) ==
    /\ Screen = "report" /\ period # view.period
    /\ Load(view.agent, period)
TryAgain == Screen = "error" /\ Load(view.agent, view.period)

\* "Show more" is there while a list has more entries than are shown; in the
\* variant one step longer.
HasMoreOrEqual(a) == view.limits[a] <= Pieces[view.detail.agent]
HasMore(a) == view.limits[a] < Pieces[view.detail.agent]
LoadMore(a) ==
    /\ Screen = "report" /\ HasMore(a)
    /\ view' = [view EXCEPT !.limits[a] = @ + 1]
    /\ UNCHANGED <<calls, world>>

\* Every report, a refreshed one too, starts with the first entries again.  A
\* variant: what was opened stays open.
ReceiveKeepingLimits ==
    \E c \in Under("detail") :
        /\ Shows(c)
        /\ view' = [view EXCEPT !.detail = c.arg, !.loading = FALSE]
        /\ UNCHANGED world
Receive ==
    \E c \in Under("detail") :
        /\ Shows(c)
        /\ view' = [view EXCEPT !.limits = Limits, !.detail = c.arg, !.loading = FALSE]
        /\ UNCHANGED world

Fail ==
    \E c \in Under("detail") :
        /\ Ends(c)
        /\ view' = [view EXCEPT !.loading = FALSE, !.error = TRUE]
        /\ UNCHANGED world

Quiet == \E c \in Under("detail") : EndsQuietly(c)

Answer == Receive \/ Fail \/ Quiet
Next ==
    \/ \E a \in Agents : OpenAgent(a)
    \/ \E p \in Periods : SetPeriod(p)
    \/ TryAgain
    \/ \E a \in Activities : LoadMore(a)
    \/ Answer

\* While the report shows, it is of the agent in the address and the selected
\* period, and no list is opened further than it reaches.
ShowsSelection ==
    Screen = "report" =>
        /\ view.detail = Report(view.agent, view.period)
        /\ \A a \in Activities : view.limits[a] <= Pieces[view.agent]

\* What is shown as under way is under way.
SpinnersTurn == view.loading => Waiting("detail")
=============================================================================

--------------------------- MODULE RecruitmentPage ---------------------------
(***************************************************************************)
(* recruitment-applications.component.ts for a manager: the applications   *)
(* of one status, their review, and the switch that opens recruitment.     *)
(* One application is followed.  Nobody handles a failed read or review.   *)
(* Previews of the list are left out.                                      *)
(***************************************************************************)
EXTENDS Page

Statuses == {"pending", "accepted", "rejected"}
Recruitment == [status : Statuses, enabled : BOOLEAN]

\* listed: the application is on the page; known: the settings were read;
\* guessed: the switch was used before; lost: a request failed.
Opened(status) ==
    [status |-> status, listed |-> FALSE, recruitmentEnabled |-> TRUE, savingSettings |-> FALSE,
     dialog |-> None, known |-> FALSE, guessed |-> FALSE, lost |-> FALSE]

TypeOK ==
    /\ DOMAIN view = DOMAIN Opened("pending")
    /\ view.status \in Statuses /\ view.dialog \in Statuses \cup {None}
    /\ {world.now, world.settled} \subseteq Recruitment
    /\ \A c \in calls : c.op \in {"list", "settings", "toggle", "review"}

Init ==
    /\ \E status \in Statuses : view = Opened(status)
    /\ calls = {Call("list", None), Call("settings", None)}
    /\ \E r \in Recruitment : world = [now |-> r, settled |-> r]

ReceiveList ==
    \E c \in Under("list"), r \in Fresh :
        /\ Ends(c)
        /\ view' = [view EXCEPT !.listed = r.status = view.status]
        /\ UNCHANGED world

\* An uncached read: of the setting before or after the user's own change.
ReceiveSettings ==
    \E c \in Under("settings"), r \in Fresh :
        /\ Ends(c)
        /\ view' = [view EXCEPT !.recruitmentEnabled = r.enabled, !.known = TRUE]
        /\ UNCHANGED world

FailRead ==
    \E c \in Under("list") \cup Under("settings") :
        /\ Ends(c)
        /\ view' = [view EXCEPT !.lost = TRUE]
        /\ UNCHANGED world

\* The switch is usable before the setting is known.
ToggleRecruitment ==
    /\ ~view.savingSettings /\ view.dialog = None
    /\ view' = [view EXCEPT !.savingSettings = TRUE, !.guessed = @ \/ Waiting("settings")]
    /\ Subscribe(Call("toggle", ~view.recruitmentEnabled))
    /\ UNCHANGED world

StoreToggle ==
    \E c \in Under("toggle") :
        /\ Executes(c)
        /\ Commit([world.now EXCEPT !.enabled = c.arg])
        /\ UNCHANGED view

\* The switch shows what the server stored; in the variant what was asked for.
ToggledFromView ==
    \E c \in Under("toggle") :
        /\ Succeeds(c) /\ Settle
        /\ view' = [view EXCEPT !.savingSettings = FALSE]
Toggled ==
    \E c \in Under("toggle") :
        /\ Succeeds(c) /\ Settle
        /\ view' = [view EXCEPT !.recruitmentEnabled = c.arg, !.savingSettings = FALSE]

NotToggled ==
    \E c \in Under("toggle") :
        /\ Ends(c) /\ Settle
        /\ view' = [view EXCEPT !.savingSettings = FALSE, !.lost = TRUE]

\* A decision is offered for pending applications, and to reopen the others.
Decisions == IF view.status = "pending" THEN {"accepted", "rejected"} ELSE {"pending"}
Review(status) ==
    /\ view.listed /\ view.dialog = None /\ status \in Decisions
    /\ view' = [view EXCEPT !.dialog = status]
    /\ UNCHANGED <<calls, world>>

Dismiss ==
    /\ view.dialog # None
    /\ view' = [view EXCEPT !.dialog = None]
    /\ UNCHANGED <<calls, world>>

Confirm ==
    /\ view.dialog # None
    /\ view' = [view EXCEPT !.dialog = None]
    /\ Subscribe(Call("review", view.dialog))
    /\ UNCHANGED world

\* ReviewAsync: whatever was decided before.
StoreReview ==
    \E c \in Under("review") :
        /\ Executes(c)
        /\ Commit([world.now EXCEPT !.status = c.arg])
        /\ UNCHANGED view

Reviewed ==
    \E c \in Under("review") :
        /\ c.seen
        /\ calls' = (calls \ {c}) \cup {Call("list", None)}
        /\ Settle
        /\ UNCHANGED view

NotReviewed ==
    \E c \in Under("review") :
        /\ Ends(c) /\ Settle
        /\ view' = [view EXCEPT !.lost = TRUE]

Answer ==
    \/ ReceiveList \/ ReceiveSettings \/ FailRead
    \/ Toggled \/ NotToggled \/ Reviewed \/ NotReviewed
Next ==
    \/ ToggleRecruitment \/ StoreToggle \/ Dismiss \/ Confirm \/ StoreReview \/ Answer
    \/ \E status \in Statuses : Review(status)

\* When nothing is under way and no request failed, the list shows what was decided
\* and the switch what the server follows, unless it was used before it was known.
ListFollowsActions ==
    calls = {} /\ ~view.lost =>
        /\ view.listed = (world.now.status = view.status)
        /\ ~view.guessed => view.recruitmentEnabled = world.now.enabled

\* What is shown as under way is under way.
SpinnersTurn == view.savingSettings => Waiting("toggle")
=============================================================================

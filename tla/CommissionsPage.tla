--------------------------- MODULE CommissionsPage ---------------------------
(***************************************************************************)
(* commissions.component.ts as a manager uses it: the form for a           *)
(* settlement with its preview, which the server calculates, and the       *)
(* ledger.  One settlement is followed.  Prices are abstracted to whether  *)
(* the sale reaches the base price; previews of the ledger are left out.   *)
(***************************************************************************)
EXTENDS Page

CONSTANT Agents    \* the agents of the overview

Prices == {"enough", "below"}
Form == [price : Prices, none : BOOLEAN, winners : SUBSET Agents, others : SUBSET Agents]
EmptyForm == [price |-> "enough", none |-> FALSE, winners |-> {}, others |-> {}]

\* What a preview is calculated from.
Terms(form) ==
    [price |-> form.price, winners |-> Cardinality(form.winners),
     agents |-> Cardinality(form.winners) + Cardinality(form.others)]

\* A settlement of the ledger: the form it was saved from, and whether some
\* payout of it is marked paid.
Settlement == [form : Form, paid : BOOLEAN]

\* overview: the settlement as listed; crossed: a change was answered while the
\* settlement was read for editing; lost: a request failed.
Opened ==
    [overview |-> None, loaded |-> FALSE, form |-> EmptyForm, preview |-> None,
     editing |-> FALSE, saving |-> FALSE, loadingSettlement |-> FALSE, dialog |-> FALSE,
     crossed |-> FALSE, lost |-> FALSE]

TypeOK ==
    /\ DOMAIN view = DOMAIN Opened
    /\ {view.overview, world.now, world.settled} \subseteq Settlement \cup {None}
    /\ view.form \in Form
    /\ \A c \in calls : c.op \in {"overview", "edit", "preview", "save", "delete", "pay"}

HasValidParticipants(form) ==
    IF form.none THEN form.winners = {} /\ form.others # {} ELSE form.winners # {}
Calculable(form) == form.price # "below" /\ HasValidParticipants(form)

Init ==
    /\ view = Opened
    /\ calls = {Call("overview", None)}
    /\ \E s \in {t \in Settlement : Calculable(t.form) /\ t.form.winners \cap t.form.others = {}} \cup {None} :
          world = [now |-> s, settled |-> s]

Load(others) == others \cup {Call("overview", None)}

ReceiveOverview ==
    \E c \in Under("overview"), s \in Fresh :
        /\ Ends(c)
        /\ view' = [view EXCEPT !.overview = s, !.loaded = TRUE]
        /\ UNCHANGED world

\* Nobody handles the error: a page without a ledger goes on with "Loading".
FailOverview ==
    \E c \in Under("overview") :
        /\ Ends(c)
        /\ view' = [view EXCEPT !.lost = TRUE]
        /\ UNCHANGED world

-----------------------------------------------------------------------------
(* The form and its preview                                                *)

\* refreshPreview; in the variant an old request goes on.
RefreshBeside(form) ==
    calls' = calls \cup (IF Calculable(form) THEN {Call("preview", Terms(form))} ELSE {})
RefreshPreview(form) ==
    calls' = (calls \ Under("preview")) \cup
                 (IF Calculable(form) THEN {Call("preview", Terms(form))} ELSE {})

Enter(form) ==
    /\ view.loaded /\ ~view.dialog
    /\ view' = [view EXCEPT !.form = form, !.preview = None]
    /\ RefreshPreview(form)
    /\ UNCHANGED world

EnterPrice(price) == price # view.form.price /\ Enter([view.form EXCEPT !.price = price])

ToggleWinningAgent(a) ==
    /\ ~view.form.none
    /\ Enter(IF a \in view.form.winners
             THEN [view.form EXCEPT !.winners = @ \ {a}]
             ELSE [view.form EXCEPT !.winners = @ \cup {a}, !.others = @ \ {a}])

ToggleOtherAgent(a) ==
    /\ a \notin view.form.winners
    /\ Enter([view.form EXCEPT !.others = IF a \in @ THEN @ \ {a} ELSE @ \cup {a}])

ToggleNoWinningAgents ==
    Enter(IF view.form.none THEN [view.form EXCEPT !.none = FALSE]
          ELSE [view.form EXCEPT !.none = TRUE, !.winners = {}])

ReceivePreview ==
    \E c \in Under("preview") :
        /\ Ends(c)
        /\ view' = [view EXCEPT !.preview = c.arg]
        /\ UNCHANGED world

FailPreview ==
    \E c \in Under("preview") :
        /\ Ends(c)
        /\ view' = [view EXCEPT !.preview = None]
        /\ UNCHANGED world

Reset(v) == [v EXCEPT !.form = EmptyForm, !.preview = None, !.editing = FALSE]
Cancel ==
    /\ view.editing /\ ~view.dialog
    /\ view' = Reset(view)
    /\ calls' = calls \ Under("preview")
    /\ UNCHANGED world

-----------------------------------------------------------------------------
(* Settlements                                                             *)

\* The template: the button of the form, and those of a settlement.
MayCreate ==
    /\ ~view.saving /\ ~view.loadingSettlement
    /\ HasValidParticipants(view.form) /\ view.preview # None
MayChange == view.overview # None /\ ~view.overview.paid

CreateSettlement ==
    /\ ~view.dialog /\ MayCreate
    /\ view' = [view EXCEPT !.saving = TRUE]
    /\ Subscribe(Call("save", [form |-> view.form, editing |-> view.editing,
                               promised |-> view.preview]))
    /\ UNCHANGED world

\* The server's checks are those of Settlements.  Bound: one settlement.
StoreSettlement ==
    \E c \in Under("save") :
        /\ Executes(c)
        /\ IF c.arg.editing THEN world.now # None /\ ~world.now.paid ELSE world.now = None
        /\ Commit([form |-> c.arg.form, paid |-> FALSE])
        /\ UNCHANGED view

Crosses(v) == [v EXCEPT !.crossed = @ \/ Waiting("edit")]

Saved ==
    \E c \in Under("save") :
        /\ c.seen
        /\ calls' = Load(calls \ ({c} \cup Under("preview")))
        /\ view' = Reset([view EXCEPT !.saving = FALSE])
        /\ Settle

NotSaved ==
    \E c \in Under("save") :
        /\ Ends(c)
        /\ view' = [view EXCEPT !.saving = FALSE, !.lost = TRUE]
        /\ Settle

\* editSettlement: from an uncached read.
EditSettlement ==
    /\ MayChange /\ ~view.dialog
    /\ ~view.loadingSettlement /\ ~view.saving
    /\ view' = [view EXCEPT !.loadingSettlement = TRUE]
    /\ Subscribe(Call("edit", world.now))
    /\ UNCHANGED world

ReceiveEdit ==
    \E c \in Under("edit") : \E s \in {c.arg, world.now} :
        LET known == [view EXCEPT !.overview = s, !.loadingSettlement = FALSE] IN
        IF s = None \/ (s # None /\ s.paid)
        THEN view' = known /\ Ends(c) /\ UNCHANGED world
        ELSE /\ view' = [known EXCEPT !.form = [s.form EXCEPT !.none = s.form.winners = {}],
                                      !.preview = None, !.editing = TRUE]
             /\ calls' = (calls \ ({c} \cup Under("preview"))) \cup {Call("preview", Terms(s.form))}
             /\ UNCHANGED world

FailEdit ==
    \E c \in Under("edit") :
        /\ Ends(c)
        /\ view' = [view EXCEPT !.loadingSettlement = FALSE]
        /\ UNCHANGED world

\* Bound: a payout is not marked while the settlement is being deleted.
Changing == Waiting("delete") \/ Waiting("pay")
DeleteSettlement ==
    /\ MayChange /\ ~view.dialog /\ ~Changing
    /\ view' = [view EXCEPT !.dialog = TRUE]
    /\ UNCHANGED <<calls, world>>

Dismiss ==
    /\ view.dialog
    /\ view' = [view EXCEPT !.dialog = FALSE]
    /\ UNCHANGED <<calls, world>>

Confirm ==
    /\ view.dialog
    /\ view' = [view EXCEPT !.dialog = FALSE]
    /\ Subscribe(Call("delete", None))
    /\ UNCHANGED world

RemoveSettlement ==
    \E c \in Under("delete") :
        /\ Executes(c)
        /\ world.now # None /\ ~world.now.paid
        /\ Commit(None)
        /\ UNCHANGED view

Deleted ==
    \E c \in Under("delete") :
        /\ c.seen
        /\ calls' = Load(calls \ ({c} \cup IF view.editing THEN Under("preview") ELSE {}))
        /\ view' = LET v == Crosses(view) IN IF view.editing THEN Reset(v) ELSE v
        /\ Settle

TogglePaid ==
    /\ view.overview # None /\ ~view.dialog /\ ~Changing
    /\ Subscribe(Call("pay", ~view.overview.paid))
    /\ UNCHANGED <<view, world>>

StorePaid ==
    \E c \in Under("pay") :
        /\ Executes(c)
        /\ world.now # None
        /\ Commit([world.now EXCEPT !.paid = c.arg])
        /\ UNCHANGED view

Paid ==
    \E c \in Under("pay") :
        /\ c.seen
        /\ calls' = Load(calls \ {c})
        /\ view' = Crosses(view)
        /\ Settle

NotChanged ==
    \E c \in Under("delete") \cup Under("pay") :
        /\ Ends(c)
        /\ view' = [view EXCEPT !.lost = TRUE]
        /\ Settle

Answer ==
    \/ ReceiveOverview \/ FailOverview \/ ReceivePreview \/ FailPreview
    \/ Saved \/ NotSaved \/ ReceiveEdit \/ FailEdit \/ Deleted \/ Paid \/ NotChanged
Next ==
    \/ ToggleNoWinningAgents \/ Cancel \/ CreateSettlement \/ StoreSettlement
    \/ EditSettlement \/ DeleteSettlement \/ Dismiss \/ Confirm \/ RemoveSettlement
    \/ TogglePaid \/ StorePaid \/ Answer
    \/ \E price \in Prices : EnterPrice(price)
    \/ \E a \in Agents : ToggleWinningAgent(a) \/ ToggleOtherAgent(a)

\* A settlement is saved with the split the manager saw: the preview belongs to
\* the form that is sent, however fast it was changed and whatever answer was late.
SavesAsPreviewed == \A c \in Under("save") : c.arg.promised = Terms(c.arg.form)

\* When nothing is under way the ledger shows what the manager's own actions made
\* of it, unless a request failed or the read for editing crossed one of them.
LedgerFollowsActions ==
    calls = {} /\ ~view.lost /\ ~view.crossed => view.overview = world.now

\* What is shown as under way is under way, but the loading of a ledger that could
\* not be read.
SpinnersTurn ==
    /\ ~view.loaded => Waiting("overview") \/ view.lost
    /\ view.saving => Waiting("save")
    /\ view.loadingSettlement => Waiting("edit")
=============================================================================

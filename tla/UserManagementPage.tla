-------------------------- MODULE UserManagementPage --------------------------
(***************************************************************************)
(* user-management.component.ts: the team by tabs, and what may be done to *)
(* an account, which the server decides by rules of its own.  One account  *)
(* is followed; an action is confirmed in a dialog.  Lists are not         *)
(* cancelled by another tab, and no list or count reports an error.        *)
(* Previews of the reads are left out.                                     *)
(***************************************************************************)
EXTENDS Page

CONSTANT Tabs    \* the tabs the user opens

-----------------------------------------------------------------------------
(* UserManagementService.cs: who may do what to whom, and what it makes of *)
(* the account.  Each handler replaces the whole account document it read; *)
(* reasons are left out, since the dialog asks for one wherever the        *)
(* service does.                                                           *)

TeamRoles == {"agent", "seniorAgent", "manager", "stateManager", "owner"}

Account ==
    [role : TeamRoles, approval : {"pending", "approved", "rejected"},
     access : {"pending", "active", "revoked"}, deleted : BOOLEAN]

\* What accounts can be: approval and access change together.
ReachableAccounts ==
    {a \in Account :
        /\ a.approval = "pending" => a.access \in {"pending", "revoked"}
        /\ a.approval = "rejected" => a.access = "revoked"
        /\ a.approval = "approved" => a.access # "pending"
        /\ a.deleted => a.access = "revoked"
        /\ a.role = "owner" => a.approval = "approved" /\ a.access = "active" /\ ~a.deleted}

AccountActions == {"approve", "reject", "promote", "demote", "revoke", "restore", "delete"}
AssignableRoles == TeamRoles \ {"owner"}

ProtectOwner(target) == target.role # "owner"
RequireOwner(actor) ==
    actor.role = "owner" /\ ~actor.deleted /\ actor.approval = "approved" /\ actor.access = "active"

\* Whose access a manager may change.
EnsureCanManageAccess(actor, target) ==
    /\ actor.role \in {"manager", "owner"}
    /\ ProtectOwner(target)
    /\ target.role \in {"manager", "stateManager"} => actor.role = "owner"

\* Deleted accounts are not found.
Permits(actor, target, self, action) ==
    /\ ~target.deleted
    /\ CASE action \in {"approve", "reject"} -> EnsureCanManageAccess(actor, target)
         [] action = "promote" ->
               /\ RequireOwner(actor) /\ ~self
               /\ target.role \in {"agent", "seniorAgent"}
               /\ target.approval = "approved" /\ target.access = "active"
         [] action = "demote" ->
               /\ RequireOwner(actor) /\ ~self
               /\ target.role \in {"manager", "seniorAgent"}
         [] action = "revoke" -> ~self /\ EnsureCanManageAccess(actor, target)
         [] action = "restore" ->
               EnsureCanManageAccess(actor, target) /\ target.approval = "approved"
         [] action = "delete" -> ~self /\ EnsureCanManageAccess(actor, target)

PermitsRole(actor, target, self, role) ==
    /\ RequireOwner(actor) /\ ~self
    /\ ProtectOwner(target) /\ ~target.deleted
    /\ role \in AssignableRoles

Promoted(role) == IF role = "agent" THEN "seniorAgent" ELSE "manager"
Demoted(role) == IF role = "manager" THEN "seniorAgent" ELSE "agent"

Outcome(target, action) ==
    CASE action = "approve" -> [target EXCEPT !.approval = "approved", !.access = "active"]
      [] action = "reject" -> [target EXCEPT !.approval = "rejected", !.access = "revoked"]
      [] action = "promote" -> [target EXCEPT !.role = Promoted(@)]
      [] action = "demote" -> [target EXCEPT !.role = Demoted(@)]
      [] action = "revoke" -> [target EXCEPT !.access = "revoked"]
      [] action = "restore" -> [target EXCEPT !.access = "active"]
      [] action = "delete" -> [target EXCEPT !.deleted = TRUE, !.access = "revoked"]

-----------------------------------------------------------------------------
(* The page                                                                *)

\* row: the account as listed, None if the tab does not show it; crossed: a tab
\* was opened while another list was under way; lost: a request failed.
Opened(role, self) ==
    [role |-> role, self |-> self, tab |-> "pending", row |-> None, pending |-> FALSE,
     changingRole |-> FALSE, dialog |-> None, crossed |-> FALSE, lost |-> FALSE]

Actor(role) == [role |-> role, approval |-> "approved", access |-> "active", deleted |-> FALSE]
Asked == AccountActions \cup AssignableRoles

TypeOK ==
    /\ DOMAIN view = DOMAIN Opened("owner", TRUE)
    /\ view.tab \in Tabs /\ view.row \in Account \cup {None}
    /\ view.dialog \in Asked \cup {None}
    /\ {world.now, world.settled} \subseteq ReachableAccounts
    /\ \A c \in calls : c.op \in {"list", "count", "act"}

Init ==
    /\ \E role \in {"stateManager", "manager", "owner"}, self \in BOOLEAN, a \in ReachableAccounts :
          /\ ~a.deleted /\ (self => a = Actor(role))
          /\ view = Opened(role, self)
          /\ world = [now |-> a, settled |-> a]
    /\ calls = {Call("count", None), Call("list", "pending")}

-----------------------------------------------------------------------------
(* What a tab lists and what a row offers                                  *)

Filter(tab, a) ==
    /\ ~a.deleted
    /\ CASE tab = "pending" -> a.approval = "pending"
         [] tab = "agents" -> a.approval = "approved" /\ a.access = "active" /\ a.role = "agent"
         [] tab = "seniorAgents" ->
               a.approval = "approved" /\ a.access = "active" /\ a.role = "seniorAgent"
         [] tab = "managers" -> a.approval = "approved" /\ a.role = "manager"
         [] tab = "stateManagers" -> a.approval = "approved" /\ a.role = "stateManager"
         [] tab = "owners" -> a.approval = "approved" /\ a.role = "owner"
         [] tab = "revoked" -> a.access = "revoked"
         [] tab = "rejected" -> a.approval = "rejected"
Listed(tab, a) == IF Filter(tab, a) THEN a ELSE None

IsManager == view.role \in {"manager", "owner"}
IsOwner == view.role = "owner"

CanChangeAccess(user) ==
    /\ IsManager
    /\ user.role # "owner" /\ ~view.self
    /\ IsOwner \/ user.role \in {"agent", "seniorAgent"}

Offered(user, action) ==
    CASE action \in {"approve", "reject"} -> user.approval = "pending" /\ CanChangeAccess(user)
      [] action = "promote" ->
            /\ user.approval = "approved" /\ user.access = "active"
            /\ user.role \in {"agent", "seniorAgent"} /\ IsOwner
      [] action = "demote" -> user.role \in {"manager", "seniorAgent"} /\ IsOwner
      [] action = "revoke" -> user.access = "active" /\ CanChangeAccess(user)
      [] action = "restore" ->
            user.access = "revoked" /\ user.approval = "approved" /\ CanChangeAccess(user)
      [] action = "delete" -> CanChangeAccess(user)
OfferedRole(user, role) ==
    /\ IsOwner /\ user.role # "owner" /\ ~view.self /\ ~view.changingRole
    /\ role # user.role
Offers(user, asked) ==
    IF asked \in AccountActions THEN Offered(user, asked) ELSE OfferedRole(user, asked)

\* What the server makes of it.
Accepted(user, asked) ==
    IF asked \in AccountActions THEN Permits(Actor(view.role), user, view.self, asked)
    ELSE PermitsRole(Actor(view.role), user, view.self, asked)
Effect(user, asked) ==
    IF asked \in AccountActions THEN Outcome(user, asked) ELSE [user EXCEPT !.role = asked]

-----------------------------------------------------------------------------
OpenTab(tab) ==
    /\ view.dialog = None /\ tab # view.tab
    /\ view' = [view EXCEPT !.tab = tab, !.crossed = @ \/ Waiting("list")]
    /\ Subscribe(Call("list", tab))
    /\ UNCHANGED world

ReceiveList ==
    \E c \in Under("list"), a \in Fresh :
        /\ Ends(c)
        /\ view' = [view EXCEPT !.row = Listed(c.arg, a)]
        /\ UNCHANGED world

ReceiveCount ==
    \E c \in Under("count"), a \in Fresh :
        /\ Ends(c)
        /\ view' = [view EXCEPT !.pending = Filter("pending", a)]
        /\ UNCHANGED world

FailRead ==
    \E c \in Under("list") \cup Under("count") :
        /\ Ends(c)
        /\ view' = [view EXCEPT !.lost = TRUE]
        /\ UNCHANGED world

\* Bound: the next action is begun when the last one was answered.
OpenDialog(asked) ==
    /\ view.dialog = None /\ view.row # None /\ ~Waiting("act")
    /\ Offers(view.row, asked)
    /\ view' = [view EXCEPT !.dialog = asked]
    /\ UNCHANGED <<calls, world>>

Dismiss ==
    /\ view.dialog # None
    /\ view' = [view EXCEPT !.dialog = None]
    /\ UNCHANGED <<calls, world>>

\* confirm, remove and changeRole, of which only the last is disabled meanwhile.
Confirm ==
    /\ view.dialog # None
    /\ view' = [view EXCEPT !.dialog = None, !.changingRole = @ \/ view.dialog \in AssignableRoles]
    /\ Subscribe(Call("act", view.dialog))
    /\ UNCHANGED world

Execute ==
    \E c \in Under("act") :
        /\ Executes(c)
        /\ Accepted(world.now, c.arg)
        /\ Commit(Effect(world.now, c.arg))
        /\ UNCHANGED view

\* Whatever was decided, the list is read again; the count after everything but
\* a new role and a deletion.
Succeed ==
    \E c \in Under("act") :
        /\ c.seen
        /\ calls' = (calls \ {c}) \cup {Call("list", view.tab)} \cup
              IF c.arg \in AssignableRoles \cup {"delete"} THEN {} ELSE {Call("count", None)}
        /\ view' = [view EXCEPT !.changingRole = @ /\ c.arg \notin AssignableRoles]
        /\ Settle

Lose ==
    \E c \in Under("act") :
        /\ Ends(c)
        /\ view' = [view EXCEPT !.lost = TRUE, !.changingRole = @ /\ c.arg \notin AssignableRoles]
        /\ Settle

Answer == ReceiveList \/ ReceiveCount \/ FailRead \/ Succeed \/ Lose
Next ==
    \/ Dismiss \/ Confirm \/ Execute \/ Answer
    \/ \E tab \in Tabs : OpenTab(tab)
    \/ \E asked \in Asked : OpenDialog(asked)

\* What a row offers the server accepts if the row is up to date: the buttons
\* and the service's rules are two tables.
OffersAreAccepted ==
    view.row # None /\ view.row = world.now =>
        \A asked \in Asked : Offers(view.row, asked) => Accepted(world.now, asked)

\* Unless a request failed or a tab was opened too early, list and count show
\* what the actions made of the account; the count of deleted ones lags behind.
ListFollowsActions ==
    /\ calls = {} /\ ~view.lost /\ ~view.crossed => view.row = Listed(view.tab, world.now)
    /\ calls = {} /\ ~view.lost =>
          world.now.deleted \/ view.pending = Filter("pending", world.now)

\* What is shown as under way is under way.
SpinnersTurn == view.changingRole => Waiting("act")
=============================================================================

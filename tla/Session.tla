------------------------------ MODULE Session ------------------------------
(***************************************************************************)
(* One browser tab: who the client believes to be signed in (AuthService),  *)
(* what it believes that role may open (PageAccessService), the guards of   *)
(* the router and the pages they admit.  On the other side are the account  *)
(* and the grants on the server, which others change at any time.           *)
(***************************************************************************)
EXTENDS AccessMap, FiniteSets

CONSTANTS
    None,
    Unknown,      \* AuthService.state before /auth/me was answered
    Sent,         \* a request under way
    Accounts,     \* what the account may become: role and standing
    InitialGrants, \* settings that may be stored at first
    Toggled,      \* grants that somebody toggles
    Sections,     \* sections of the access page the owner toggles, with a role
    Saves,        \* PUTs of the settings under way at the same time
    Targets,      \* pages asked for by users of each role, and by nobody known (None)
    MaxChanges    \* bound: changes made by others in one behaviour

ASSUME ToggledAssumption == Toggled \subseteq Resources \X Roles
ASSUME SectionsAssumption == Sections \subseteq (SUBSET Resources) \X Roles
ASSUME InitialAssumption == InitialGrants \subseteq SUBSET (Resources \X Roles)
ASSUME TargetsAssumption == Targets \in [Roles \cup {None} -> SUBSET (DashboardPaths \cup OutsidePaths)]
ASSUME AccountsAssumption ==
    Accounts \subseteq [role : Roles, standing : {"pending", "approved", "revoked"}]
ASSUME BoundAssumption == MaxChanges \in Nat
ASSUME NamesAssumption ==
    /\ None # Sent /\ None \notin OutsidePaths
    /\ {None, Unknown} \cap Accounts = {}

VARIABLES
    account,   \* the user on the server: role and standing, or None: signed out
    grants,    \* the stored access settings
    changes,   \* changes made by others so far
    user,      \* AuthService.state: Unknown, None or a copy of the account
    me,        \* /auth/me requests: the current one and one it replaced
    crossed,   \* history: requests for the user crossed (DashboardNeedsStanding)
    settings,  \* PageAccessService.state
    loaded,
    fetch,     \* the shared GET of the settings: None, Sent or its answer
    astray,    \* such a GET that a newer one has replaced
    shared,    \* fetch is among ApiService.pendingReads
    granted,   \* history: granted to State Managers since the guard asked
    page,      \* what the router shows
    nav,       \* the navigation under way, or None
    saves      \* saves[i]: the owner's PUT of the settings, or None

server == <<account, grants, changes>>
auth   == <<user, me, crossed>>
copies == <<settings, loaded, fetch, astray, granted>>
access == <<copies, shared>>
router == <<page, nav>>
vars   == <<server, auth, access, router, saves>>

NoRequest == [current |-> None, old |-> None]
Stages    == {"start", "auth", "formerAuth", "page"}
Paths     == DashboardPaths \cup OutsidePaths

StateManagerKeys(g) == {key \in Resources : <<key, "stateManager">> \in g}
SetToggle(g, pair) == IF pair \in g THEN g \ {pair} ELSE g \cup {pair}

-----------------------------------------------------------------------------
(* What the client decides from its copies                                 *)

SignedIn == user \notin {None, Unknown}
IsApproved == SignedIn /\ user.standing = "approved"
IsManager == IsApproved /\ user.role \in {"manager", "owner"}
IsOwner == IsApproved /\ user.role = "owner"
IsReadOnly == SignedIn /\ user.role = "stateManager"
CanViewManagement == IsApproved /\ (IsManager \/ IsReadOnly)

\* PageAccessService.canAccess with the settings s
CanAccess(s, key) ==
    SignedIn /\ RoleCanOpen(key, user.role) /\ <<key, user.role>> \in s

\* firstAccessibleUrl.  A variant: the overview, whatever is stored.
FirstIsOverview(s) == "overview"
FirstAccessibleUrl(s) ==
    LET open == {n \in DOMAIN Destinations : CanAccess(s, Destinations[n][1])}
    IN  IF open = {} THEN "/"
        ELSE Destinations[CHOOSE n \in open : \A k \in open : n <= k][2]

\* authGuard: a page to go to instead, or None.  A variant: the server is left
\* to notice a revocation.
AuthGuardOfPending ==
    IF ~SignedIn THEN "/" ELSE IF user.standing = "pending" THEN "/pending-approval" ELSE None
AuthGuard ==
    CASE ~SignedIn -> "/"
      [] SignedIn /\ user.standing = "pending" -> "/pending-approval"
      [] SignedIn /\ user.standing = "revoked" -> "/access-revoked"
      [] OTHER -> None

ManagerGuard == IsApproved /\ user.role \in {"manager", "owner", "stateManager"}

\* pageAccessGuard, once the settings are there
PageAccessGuard(s, path) == \A key \in KeysOf(path) : CanAccess(s, key)

\* What the sidebar and the header show.
HasAny(keys) == \E key \in keys : CanAccess(settings, key)
SectionShown(s) == HasAny(s.any) /\ (s.management => CanViewManagement)
LinkShown(path) ==
    \E s \in NavSections : SectionShown(s) /\ \E l \in s.links :
        /\ l.path = path
        /\ CanAccess(settings, l.key)
        /\ l.management => CanViewManagement

-----------------------------------------------------------------------------
\* The application loaded anew at an address.
FreshTab(path) ==
    /\ user' = Unknown /\ me' = NoRequest /\ crossed' = FALSE
    /\ settings' = DefaultGrants /\ loaded' = FALSE /\ granted' = {}
    /\ fetch' = None /\ astray' = None /\ shared' = FALSE
    /\ saves' = [i \in Saves |-> None]
    /\ page' = "/"
    /\ nav' = IF path = "/" THEN None ELSE [to |-> path, stage |-> "start"]

Init ==
    /\ account \in Accounts \cup {None}
    /\ grants \in InitialGrants
    /\ changes = 0
    /\ user = Unknown /\ me = NoRequest /\ crossed = FALSE
    /\ settings = DefaultGrants /\ loaded = FALSE /\ granted = {}
    /\ fetch = None /\ astray = None /\ shared = FALSE
    /\ saves = [i \in Saves |-> None]
    /\ page = "/" /\ nav = None

\* From the address bar, a bookmark, a reload.
OpenSite(path) == FreshTab(path) /\ UNCHANGED server

\* A link, a button or the history: a navigation that is under way is dropped.
Navigate(path) ==
    /\ path # page
    /\ nav' = [to |-> path, stage |-> "start"]
    /\ UNCHANGED <<server, auth, access, page, saves>>

Opens(path) == page' = path /\ nav' = None
\* A redirect to the page on display may be ignored, as any link to it is.
Redirects(path) ==
    /\ nav' = [to |-> path, stage |-> "start"] \/ (path = page /\ nav' = None)
    /\ UNCHANGED page

\* ApiService.clearSavedData: further reads do not join those under way.
ForgetsReads == shared' = FALSE /\ UNCHANGED copies

\* PageAccessService.load: State Managers always have the settings read again.
\* Others join the request there is, and State Managers one that ApiService still
\* shares.  One that they replace is followed by nobody but still sets the
\* settings; of several, only the last (a bound).  A variant: what is loaded is
\* good for everybody.
ForceNever == FALSE
Forced == IsReadOnly
Joins == IF Forced THEN shared ELSE fetch # None
Load ==
    /\ loaded' = (loaded /\ ~Forced)
    /\ IF loaded' \/ Joins THEN UNCHANGED <<fetch, astray, shared>>
       ELSE /\ fetch' = Sent /\ shared' = TRUE
            /\ astray' = IF fetch = None THEN astray ELSE fetch
    /\ granted' = IF Joins THEN granted ELSE StateManagerKeys(grants)
    /\ UNCHANGED settings

\* The guards of one route run together, and managerGuard has the last word.
RunPageGuards(path) ==
    /\ Load
    /\ CASE path \in ManagedPaths /\ ~ManagerGuard -> Redirects("overview")
         [] ~(path \in ManagedPaths /\ ~ManagerGuard) /\ ~loaded' ->
                nav' = [to |-> path, stage |-> "page"] /\ UNCHANGED page
         [] OTHER -> IF PageAccessGuard(settings, path) THEN Opens(path)
                     ELSE Redirects(FirstAccessibleUrl(settings))
    /\ UNCHANGED <<server, user, me, saves>>

\* The guard of the dashboard itself, then those of its page.  Whoever it admits
\* while no newer answer is expected has the standing he is known by.
RunGuards(path) ==
    IF AuthGuard = None
    THEN RunPageGuards(path) /\ crossed' = (crossed /\ me.current # None)
    ELSE Redirects(AuthGuard) /\ UNCHANGED <<server, auth, access, saves>>

\* The router takes up a navigation.  The guard of the dashboard runs when it
\* is entered, not between its pages; it waits until the user is known.
Start ==
    /\ nav # None /\ nav.stage = "start"
    /\ \/ /\ nav.to \in OutsidePaths
          /\ Opens(nav.to)
          /\ UNCHANGED <<server, auth, access, saves>>
       \/ /\ nav.to \in DashboardPaths /\ page \in DashboardPaths
          /\ RunPageGuards(nav.to) /\ UNCHANGED crossed
       \/ /\ nav.to \in DashboardPaths /\ page \notin DashboardPaths /\ user # Unknown
          /\ RunGuards(nav.to)
       \/ /\ nav.to \in DashboardPaths /\ page \notin DashboardPaths /\ user = Unknown
          /\ nav' = [nav EXCEPT !.stage = "auth"]
          /\ me' = IF me.current = None THEN [me EXCEPT !.current = Sent] ELSE me
          /\ UNCHANGED <<server, user, crossed, access, page, saves>>

\* The request that the guard waits for has ended.
GuardDue ==
    /\ nav # None /\ user # Unknown
    /\ \/ nav.stage = "auth" /\ me.current = None
       \/ nav.stage = "formerAuth" /\ me.old = None
EnterDashboard == GuardDue /\ RunGuards(nav.to)

-----------------------------------------------------------------------------
(* loadCurrentUser: GET /auth/me.  Any failure counts as signed out.       *)

AnswerMe(n) ==
    /\ me[n] = Sent
    /\ me' = [me EXCEPT ![n] = [is |-> account]]
    /\ UNCHANGED <<server, user, crossed, access, router, saves>>

ReceiveMe(n) ==
    /\ me[n] \notin {None, Sent}
    /\ user' = me[n].is
    /\ me' = [me EXCEPT ![n] = None]
    /\ crossed' = (crossed \/ n = "old")
    /\ UNCHANGED <<server, access, router, saves>>

FailMe(n) ==
    /\ me[n] # None
    /\ user' = None
    /\ me' = [me EXCEPT ![n] = None]
    /\ crossed' = (crossed \/ n = "old")
    /\ ForgetsReads
    /\ UNCHANGED <<server, router, saves>>

\* "Check status" on the pending page, whatever else is under way: an answer to
\* the previous request may still arrive, even later, and a guard that waits for
\* it goes on waiting for it.  One request is replaced at a time (a bound); a
\* guard whose answer is there is asked before the next click.
Refresh ==
    /\ page = "/pending-approval"
    /\ me.old = None /\ ~GuardDue
    /\ user' = Unknown
    /\ me' = [current |-> Sent, old |-> me.current]
    /\ nav' = IF nav # None /\ nav.stage = "auth" THEN [nav EXCEPT !.stage = "formerAuth"]
              ELSE nav
    /\ crossed' = (crossed \/ (nav # None /\ nav.stage = "page"))
    /\ ForgetsReads
    /\ UNCHANGED <<server, page, saves>>

\* 700 ms after it: into the workspace, with the application loaded anew.
CheckStatus ==
    /\ page = "/pending-approval" /\ IsApproved
    /\ FreshTab("overview") /\ UNCHANGED server

\* My Profile: the answer to an edit is the user as the server has it now.
UpdateProfile ==
    /\ page = "profile" /\ SignedIn /\ ~IsReadOnly
    /\ account # None /\ account.standing = "approved" /\ account.role # "stateManager"
    /\ user' = account
    /\ ForgetsReads
    /\ UNCHANGED <<server, me, crossed, router, saves>>

Logout ==
    /\ SignedIn
    /\ account' = None
    /\ FreshTab("/")
    /\ UNCHANGED <<grants, changes>>

-----------------------------------------------------------------------------
(* The settings                                                            *)

AnswerFetch ==
    /\ fetch = Sent
    /\ fetch' = [is |-> grants]
    /\ UNCHANGED <<server, auth, settings, loaded, astray, shared, granted, router, saves>>

\* A navigation that waits for the settings is decided when they are there.
Settles(s) ==
    /\ settings' = s
    /\ loaded' = TRUE /\ fetch' = None /\ shared' = FALSE
    /\ IF nav = None \/ nav.stage # "page" THEN UNCHANGED router
       ELSE IF PageAccessGuard(s, nav.to) THEN Opens(nav.to)
       ELSE Redirects(FirstAccessibleUrl(s))
    /\ UNCHANGED <<server, auth, astray, granted, saves>>

ReceiveFetch == fetch \notin {None, Sent} /\ Settles(fetch.is)

\* A State Manager falls back to nothing, others to what they had.  A variant:
\* everybody keeps what there was.
FallbackToLast == settings
Fallback == IF IsReadOnly THEN DefaultGrants ELSE settings
FailFetch == fetch # None /\ Settles(Fallback)

\* A replaced read ends: no guard waits for it.
AnswerAstray ==
    /\ astray = Sent
    /\ astray' = [is |-> grants]
    /\ UNCHANGED <<server, auth, settings, loaded, fetch, shared, granted, router, saves>>
EndAstray ==
    /\ astray # None
    /\ settings' = Fallback \/ (astray # Sent /\ settings' = astray.is)
    /\ loaded' = TRUE /\ astray' = None
    /\ UNCHANGED <<server, auth, fetch, shared, granted, router, saves>>

\* Access Management: the owner sends all settings, one of them changed, or
\* those of a section.
Configurable(g) ==
    IsOwner /\ RoleCanOpen(g[1], g[2]) /\ g # <<"administration.accessManagement", "owner">>
Send(i, body) ==
    /\ page = "access-management" /\ saves[i] = None
    /\ saves' = [saves EXCEPT ![i] = [body |-> body, stored |-> FALSE]]
    /\ ForgetsReads
    /\ UNCHANGED <<server, auth, router>>
Toggle(i, g) == Configurable(g) /\ Send(i, SetToggle(settings, g))
ToggleSection(i, section, allowed) ==
    LET some == {g \in section[1] \X {section[2]} : Configurable(g)}
    IN  /\ some # {}
        /\ Send(i, IF allowed THEN settings \cup some ELSE settings \ some)

\* The server stores them, or refuses: the owner is none any more.
StoreSave(i) ==
    /\ saves[i] # None /\ ~saves[i].stored
    /\ account # None /\ account.role = "owner" /\ account.standing = "approved"
    /\ grants' = Normalize(saves[i].body)
    /\ saves' = [saves EXCEPT ![i] = [body |-> grants', stored |-> TRUE]]
    /\ UNCHANGED <<account, changes, auth, access, router>>

ReceiveSave(i) ==
    /\ saves[i] # None /\ saves[i].stored
    /\ settings' = saves[i].body
    /\ saves' = [saves EXCEPT ![i] = None]
    /\ shared' = FALSE
    /\ UNCHANGED <<server, auth, loaded, fetch, astray, granted, router>>

FailSave(i) ==
    /\ saves[i] # None
    /\ saves' = [saves EXCEPT ![i] = None]
    /\ ForgetsReads
    /\ UNCHANGED <<server, auth, router>>

-----------------------------------------------------------------------------
(* Others: the account changes, the owner's never does (ProtectOwner), the   *)
(* owner changes the settings elsewhere;                                     *)
(* the user signs in, which ends with the application loaded anew.          *)

ChangeAccount ==
    /\ changes < MaxChanges
    /\ account # None /\ account.role # "owner"
    /\ account' \in Accounts /\ account'.role # "owner"
    /\ changes' = changes + 1
    /\ UNCHANGED <<grants, auth, access, router, saves>>

ChangeGrants ==
    /\ changes < MaxChanges /\ changes' = changes + 1
    /\ \E g \in Toggled : grants' = Normalize(SetToggle(grants, g))
    /\ granted' = IF fetch = None THEN granted ELSE granted \cup StateManagerKeys(grants')
    /\ UNCHANGED <<account, auth, settings, loaded, fetch, astray, shared, router, saves>>

SignIn ==
    /\ account = None
    /\ account' \in Accounts
    /\ FreshTab("overview")
    /\ UNCHANGED <<grants, changes>>

-----------------------------------------------------------------------------
Asker == IF account = None THEN None ELSE account.role

UserActs ==
    \/ \E path \in Targets[Asker] : OpenSite(path) \/ Navigate(path)
    \/ Refresh \/ CheckStatus \/ UpdateProfile \/ Logout \/ SignIn
    \/ \E i \in Saves, g \in Toggled : Toggle(i, g)
    \/ \E i \in Saves, s \in Sections, allowed \in BOOLEAN : ToggleSection(i, s, allowed)
OthersAct == ChangeAccount \/ ChangeGrants

Next ==
    \/ UserActs \/ OthersAct
    \/ Start \/ EnterDashboard
    \/ \E n \in {"current", "old"} : AnswerMe(n) \/ ReceiveMe(n) \/ FailMe(n)
    \/ AnswerFetch \/ ReceiveFetch \/ FailFetch \/ AnswerAstray \/ EndAstray
    \/ \E i \in Saves : StoreSave(i) \/ ReceiveSave(i) \/ FailSave(i)

Spec == Init /\ [][Next]_vars

\* The router goes on, and every request ends.
Fairness ==
    /\ WF_vars(Start) /\ WF_vars(EnterDashboard)
    /\ \A n \in {"current", "old"} : WF_vars(AnswerMe(n) \/ ReceiveMe(n) \/ FailMe(n))
    /\ WF_vars(AnswerFetch \/ ReceiveFetch \/ FailFetch)
FairSpec == Spec /\ Fairness

-----------------------------------------------------------------------------
TypeOK ==
    /\ account \in Accounts \cup {None} /\ grants \subseteq Resources \X Roles
    /\ changes \in 0..MaxChanges
    /\ user \in Accounts \cup {None, Unknown} /\ crossed \in BOOLEAN
    /\ me \in [{"current", "old"} -> {None, Sent} \cup [is : Accounts \cup {None}]]
    /\ settings \subseteq Resources \X Roles /\ loaded \in BOOLEAN
    /\ granted \subseteq Resources /\ shared \in BOOLEAN
    /\ fetch \in {None, Sent} \/ fetch.is \subseteq Resources \X Roles
    /\ astray \in {None, Sent} \/ astray.is \subseteq Resources \X Roles
    /\ page \in Paths
    /\ nav = None \/ (nav.to \in Paths /\ nav.stage \in Stages)
    /\ \A i \in Saves : saves[i] = None \/ saves[i].body \subseteq Resources \X Roles

\* Four tables and three guards decide what is in the menu and what opens: the
\* routes with their keys, the tiers, the links with their sections, and the
\* stored grants.  Whatever the grants are, the menu has a link exactly to the
\* pages its guards would open: nothing leads to a redirect, and no granted
\* page is out of reach (dashboard-layout.component.ts, app.routes.ts).
MenuMatchesGuards ==
    page \in DashboardPaths /\ SignedIn =>
        \A path \in LinkedPaths :
            LinkShown(path) <=>
                PageAccessGuard(settings, path) /\ (path \in ManagedPaths => ManagerGuard)

\* Whatever the order of navigations, answers of /auth/me and profile edits,
\* a page of the dashboard is on display only to a user whose last known
\* standing is approved and active (authGuard), unless two requests for the
\* user crossed on the way there: the answer to one that "Check status" had
\* replaced was taken for the truth, or "Check status" was pressed while a
\* navigation that had passed authGuard waited for the settings.  The latter
\* opens its page even if the new answer is "revoked", as pageAccessGuard asks
\* for role and grants only (auth.guard.ts:48).
DashboardNeedsStanding == page \in DashboardPaths /\ ~crossed => IsApproved

\* A page opens for a State Manager only if the server granted all it needs
\* at some time since this navigation came to it, or since the request that it
\* shares with an earlier one was sent: never from a copy that was there before,
\* nor when the settings cannot be read (docs/state-manager.md:6).
StateManagerPagesAreGranted ==
    [][page' \in DashboardPaths /\ page' # page /\ IsReadOnly
           => KeysOf(page') \subseteq granted']_vars

\* The exception of NavigationEnds: a user known not to be approved is inside
\* the dashboard, and the first page granted to his role is one that
\* managerGuard closes to him.  managerGuard sends him to the overview, whose
\* pageAccessGuard, if it is hidden, sends him back to that page.
SentRound ==
    /\ page \in DashboardPaths /\ SignedIn /\ ~IsApproved
    /\ FirstAccessibleUrl(settings) \in ManagedPaths

\* Once the user and the others leave it alone, every navigation ends with
\* some page: the redirects of the three guards never chase each other, but for
\* a user who is inside without standing (SentRound).
NavigationEnds ==
    (<>[][~UserActs /\ ~OthersAct]_vars) => (nav # None ~> nav = None \/ SentRound)

-----------------------------------------------------------------------------
(* For TLC: accounts with and without standing; settings that hide from     *)
(* managers what comes before the first page for the management, and grant  *)
(* a State Manager such a page only; the grants that change; and pages to   *)
(* ask for.  The pending page may be opened by its address.                 *)

Account(role, standing) == [role |-> role, standing |-> standing]
SomeAccounts ==
    {Account("agent", "pending"), Account("agent", "approved"), Account("owner", "approved"),
     Account("manager", "approved"), Account("manager", "revoked"),
     Account("stateManager", "approved"), Account("stateManager", "revoked")}
Hidden == {<<"overview", "agent">>, <<"overview", "manager">>, <<"team", "manager">>,
           <<"analytics", "manager">>}
SomeGrants == {(DefaultGrants \ Hidden) \cup {<<"agentAnalytics", "stateManager">>}}
SomeToggled == {<<"agentAnalytics", "stateManager">>}
SomeSections == {<<{"agentAnalytics"}, "stateManager">>}
SomeTargets ==
    [who \in Roles \cup {None} |->
        CASE who = "owner" -> {"access-management"}
          [] who = "manager" -> {"profile", "/pending-approval"}
          [] OTHER -> {"profile"}]
=============================================================================

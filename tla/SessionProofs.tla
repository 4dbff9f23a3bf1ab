---------------------------- MODULE SessionProofs ----------------------------
(***************************************************************************)
(* Theorems about Session, for any accounts, grants, targets and number of *)
(* changes by others.  The menu agrees with the guards because the tables  *)
(* do (LinksAgree).  What the client shows to whom depends on what it read *)
(* when: IInv follows the answers of /auth/me and of the settings from the *)
(* server into the copies that the guards decide by.                       *)
(***************************************************************************)
EXTENDS Session, WellFoundedInduction, TLAPS

Grants == SUBSET (Resources \X Roles)

-----------------------------------------------------------------------------
(* The tables                                                              *)

\* A path has one key.
LEMMA KeysAreUnique == \A r \in Routes : KeyOf(r[1]) = r[2]
<1>1. \A r, s \in Routes : r[1] = s[1] => r[2] = s[2]
  BY DEF Routes, WorkspaceRoutes, AgentAnalyticsRoutes, ListRoutes, PropertyRoutes,
         PortfolioRoutes, NoticeRoutes, AdministrationRoutes, RecruitmentRoutes
<1>2. SUFFICES ASSUME NEW r \in Routes PROVE KeyOf(r[1]) = r[2]
  OBVIOUS
<1>3. PICK s : s = CHOOSE x \in Routes : x[1] = r[1]
  OBVIOUS
<1>4. s \in Routes /\ s[1] = r[1]
  BY <1>2, <1>3
<1> QED
  BY <1>1, <1>3, <1>4 DEF KeyOf

\* A link carries the key of its route, which is one that its section asks for, and
\* is for the management exactly if the route is.
LEMMA LinksAgree ==
    ASSUME NEW s \in NavSections, NEW l \in s.links
    PROVE  /\ l.key \in s.any
           /\ <<l.path, l.key>> \in Routes
           /\ \A r \in PropertyRoutes : r[1] # l.path
           /\ s.management \/ l.management <=> l.path \in ManagedPaths
BY DEF NavSections, NavSection, NavLink, ManagementLink, PerformanceSection, FinanceSection,
       AuctionSection, PortfolioSection, NoticesSection, RecruitmentSection,
       AdministrationSection, HeaderLinks, Routes, WorkspaceRoutes, AgentAnalyticsRoutes,
       ListRoutes, PropertyRoutes, PortfolioRoutes, NoticeRoutes, AdministrationRoutes,
       RecruitmentRoutes, ManagedPaths, NoticeResources, RecruitmentResources,
       AdministrationResources

LEMMA OutsideIsOutside == OutsidePaths \cap DashboardPaths = {}
BY DEF OutsidePaths, DashboardPaths, Routes, WorkspaceRoutes, AgentAnalyticsRoutes, ListRoutes,
       PropertyRoutes, PortfolioRoutes, NoticeRoutes, AdministrationRoutes, RecruitmentRoutes

LEMMA RedirectsArePaths == {"overview", "/", "/pending-approval", "/access-revoked"} \subseteq Paths
<1>1. PICK r : r = <<"overview", "overview">>
  OBVIOUS
<1>2. r \in Routes /\ r[1] = "overview"
  BY <1>1 DEF Routes, WorkspaceRoutes
<1> QED
  BY <1>2 DEF OutsidePaths, DashboardPaths, Paths

LEMMA DestinationsArePaths ==
    /\ DOMAIN Destinations = 1..26
    /\ \A n \in 1..26 : Destinations[n][2] \in DashboardPaths
BY DEF Destinations, DashboardPaths, Routes, WorkspaceRoutes, AgentAnalyticsRoutes, ListRoutes,
       PropertyRoutes, PortfolioRoutes, NoticeRoutes, AdministrationRoutes, RecruitmentRoutes

LEMMA FirstIsPath == ASSUME NEW s PROVE FirstAccessibleUrl(s) \in Paths
<1> DEFINE open == {n \in DOMAIN Destinations : CanAccess(s, Destinations[n][1])}
<1>1. CASE open = {}
  BY <1>1, RedirectsArePaths DEF FirstAccessibleUrl
<1>2. CASE open # {}
  <2>1. open \in SUBSET Nat
    BY DestinationsArePaths
  <2>2. \E n \in open : \A k \in open : n <= k
    <3> DEFINE Less == {x \in Nat \X Nat : x[1] < x[2]}
    <3>1. IsWellFoundedOn(Less, Nat)
      BY NatLessThanWellFounded DEF OpToRel
    <3>2. PICK n \in open : \A k \in open : ~(<<k, n>> \in Less)
      <4> HIDE DEF open, Less
      <4> QED
        BY <1>2, <2>1, <3>1, WFMin
    <3> HIDE DEF open
    <3>3. ASSUME NEW k \in open PROVE n <= k
      <4>1. n \in Nat /\ k \in Nat /\ ~(<<k, n>> \in Less)
        BY <2>1, <3>2
      <4> HIDE DEF open
      <4> QED
        BY <4>1
    <3> QED
      BY <3>3
  <2>3. PICK m : m = CHOOSE n \in open : \A k \in open : n <= k
    OBVIOUS
  <2>4. m \in open
    BY <2>2, <2>3
  <2>5. FirstAccessibleUrl(s) = Destinations[m][2]
    BY <1>2, <2>3 DEF FirstAccessibleUrl
  <2> QED
    BY <2>4, <2>5, DestinationsArePaths DEF Paths
<1> QED
  BY <1>1, <1>2

LEMMA GrantsTyped ==
    /\ DefaultGrants \in Grants
    /\ \A g \in Grants : Normalize(g) \in Grants
    /\ \A g \in Grants, t \in Toggled : SetToggle(g, t) \in Grants
<1>1. <<"administration.accessManagement", "owner">> \in Resources \X Roles
  BY DEF Resources, OwnerResources, Roles
<1>2. DefaultGrants \in Grants
  BY DEF DefaultGrants, Grants
<1>3. \A g \in Grants : Normalize(g) \in Grants
  BY <1>1, Zenon DEF Normalize, Stored, Grants
<1>4. \A g \in Grants, t \in Toggled : SetToggle(g, t) \in Grants
  BY ToggledAssumption DEF SetToggle, Grants
<1> QED
  BY <1>2, <1>3, <1>4

-----------------------------------------------------------------------------
(* The menu                                                                *)

\* Whoever is signed in, and whatever the settings are, a link is shown exactly to
\* a page that would open.
LEMMA MenuAgrees == MenuMatchesGuards
<1> SUFFICES ASSUME NEW path \in LinkedPaths
             PROVE  LinkShown(path) <=> /\ PageAccessGuard(settings, path)
                                        /\ path \in ManagedPaths => ManagerGuard
  BY DEF MenuMatchesGuards
<1>1. CanViewManagement <=> ManagerGuard
  BY Zenon DEF CanViewManagement, ManagerGuard, IsManager, IsReadOnly, IsApproved
<1>2. ASSUME NEW s \in NavSections, NEW l \in s.links, l.path = path
      PROVE  /\ SectionShown(s) /\ CanAccess(settings, l.key)
                /\ (l.management => CanViewManagement)
                <=> CanAccess(settings, l.key) /\ (path \in ManagedPaths => ManagerGuard)
             /\ KeysOf(path) = {l.key}
  <2>1. KeyOf(path) = l.key
    <3>1. PICK r : r = <<path, l.key>>
      OBVIOUS
    <3>2. r \in Routes /\ r[1] = path /\ r[2] = l.key
      BY <1>2, <3>1, LinksAgree
    <3> QED
      BY <3>2, KeysAreUnique
  <2>2. KeysOf(path) = {l.key}
    BY <1>2, <2>1, LinksAgree, Zenon DEF KeysOf
  <2>3. SectionShown(s) <=> HasAny(s.any) /\ (s.management => CanViewManagement)
    BY DEF SectionShown
  <2>4. CanAccess(settings, l.key) => HasAny(s.any)
    BY <1>2, LinksAgree, Zenon DEF HasAny
  <2>5. s.management \/ l.management <=> path \in ManagedPaths
    BY <1>2, LinksAgree
  <2> QED
    BY <1>1, <2>2, <2>3, <2>4, <2>5, Zenon
<1>3. PICK s \in NavSections : \E l \in s.links : l.path = path
  BY DEF LinkedPaths
<1> QED
  BY <1>2, <1>3, Zenon DEF LinkShown, PageAccessGuard

-----------------------------------------------------------------------------
(* What the copies of the client rest on                                   *)

Answer == [is : Accounts \cup {None}]
Save == [body : Grants, stored : BOOLEAN]

Typed ==
    /\ TypeOK
    /\ nav \in {None} \cup [to : Paths, stage : Stages]
    /\ saves \in [Saves -> {None} \cup Save]

\* The owner of the site is signed in; nobody becomes or ceases to be the owner but
\* by signing in.
Owned == account # None /\ account.role = "owner"
NoStateManager(u) == u \in {None, Unknown} \/ u.role # "stateManager"

\* Unless requests for the user crossed, he is not asked for again once he is known,
\* and was approved when the router let him in.
StandingInv ==
    ~crossed => /\ user # Unknown => me.current = None
                /\ page \in DashboardPaths => IsApproved
                /\ nav # None /\ nav.stage = "page" => IsApproved

\* An owner is not taken for a State Manager.
OwnerInv ==
    Owned => /\ NoStateManager(user)
             /\ \A n \in {"current", "old"} : me[n] \in {None, Sent} \/ NoStateManager(me[n].is)

\* The settings that a request of a State Manager brings were granted since it was sent.
GrantedInv ==
    ~Owned => /\ fetch = Sent => StateManagerKeys(grants) \subseteq granted
              /\ fetch \notin {None, Sent} => StateManagerKeys(fetch.is) \subseteq granted

IInv == Typed /\ StandingInv /\ OwnerInv /\ GrantedInv

FreshInv ==
    /\ user = Unknown /\ me = NoRequest /\ crossed = FALSE
    /\ settings = DefaultGrants /\ loaded = FALSE /\ granted = {}
    /\ fetch = None /\ astray = None /\ shared = FALSE
    /\ saves = [i \in Saves |-> None]
    /\ page = "/"
    /\ nav = None \/ \E path \in Paths : nav = [to |-> path, stage |-> "start"]

ServerTyped == account \in Accounts \cup {None} /\ grants \in Grants /\ changes \in 0..MaxChanges

\* The application just loaded.
LEMMA FreshKeeps == FreshInv /\ ServerTyped => IInv
<1> SUFFICES ASSUME FreshInv, ServerTyped PROVE IInv
  OBVIOUS
<1>1. /\ me \in [{"current", "old"} -> {None, Sent} \cup Answer] /\ me.current = None
      /\ \A n \in {"current", "old"} : me[n] = None
  BY DEF FreshInv, NoRequest
<1>2. page \in Paths /\ page \notin DashboardPaths
  BY OutsideIsOutside, RedirectsArePaths DEF FreshInv, OutsidePaths
<1>3. nav \in {None} \cup [to : Paths, stage : Stages]
  BY DEF FreshInv, Stages
<1>4. Typed
  <2>1. DefaultGrants \subseteq Resources \X Roles
    BY GrantsTyped DEF Grants
  <2>2. saves \in [Saves -> {None} \cup Save] /\ \A i \in Saves : saves[i] = None
    BY DEF FreshInv
  <2>3. /\ user \in Accounts \cup {None, Unknown} /\ crossed \in BOOLEAN /\ fetch \in {None, Sent}
        /\ astray \in {None, Sent} /\ shared \in BOOLEAN
        /\ loaded \in BOOLEAN /\ granted \subseteq Resources /\ settings = DefaultGrants
    BY DEF FreshInv
  <2> QED
    BY <1>1, <1>2, <1>3, <2>1, <2>2, <2>3 DEF Typed, TypeOK, Grants, Answer, Stages, ServerTyped
<1>5. StandingInv
  BY <1>1, <1>2 DEF FreshInv, StandingInv
<1>6. OwnerInv
  BY <1>1 DEF FreshInv, OwnerInv, NoStateManager
<1>7. GrantedInv
  BY NamesAssumption DEF FreshInv, GrantedInv
<1> QED
  BY <1>4, <1>5, <1>6, <1>7 DEF IInv

LEMMA FreshTabKeeps ==
    ASSUME NEW path \in Paths, FreshTab(path), ServerTyped'
    PROVE  IInv'
<1>1. FreshInv'
  BY DEF FreshTab, FreshInv
<1>2. (FreshInv /\ ServerTyped)' => IInv'
  BY FreshKeeps, PTL
<1> QED
  BY <1>1, <1>2

LEMMA InitKeeps == Init => IInv
<1> SUFFICES ASSUME Init PROVE IInv
  OBVIOUS
<1>1. FreshInv
  BY DEF Init, FreshInv
<1>2. grants \in Grants
  BY InitialAssumption DEF Init, Grants
<1> QED
  BY <1>1, <1>2, FreshKeeps, BoundAssumption DEF Init, ServerTyped

-----------------------------------------------------------------------------
(* The router                                                              *)

\* Whoever enters is approved, with no newer answer expected, unless requests crossed.
Entering(c) == ~c => IsApproved /\ me.current = None

\* Reading the settings keeps the invariant.
LEMMA LoadKeeps ==
    ASSUME IInv, Load, UNCHANGED server
    PROVE  /\ fetch' \in {None, Sent} \/ fetch'.is \subseteq Resources \X Roles
           /\ astray' \in {None, Sent} \/ astray'.is \subseteq Resources \X Roles
           /\ loaded' \in BOOLEAN /\ granted' \subseteq Resources /\ shared' \in BOOLEAN
           /\ settings' = settings
           /\ GrantedInv'
           /\ IsReadOnly => ~loaded'
<1>1. loaded' \in BOOLEAN /\ settings' = settings /\ (IsReadOnly => ~loaded')
  <2>1. settings' = settings
    BY DEF Load
  <2>2. loaded' = (loaded /\ ~Forced)
    BY Zenon DEF Load
  <2>3. loaded' = TRUE \/ loaded' = FALSE
    BY <2>2, Zenon
  <2>4. Forced => ~loaded'
    BY <2>2, Zenon
  <2> QED
    BY <2>1, <2>3, <2>4, Zenon DEF Forced
<1>2. \/ fetch' = fetch /\ astray' = astray /\ shared' = shared
      \/ fetch' = Sent /\ shared' = TRUE /\ astray' \in {astray, fetch}
  BY Zenon DEF Load
<1>3. /\ fetch' \in {None, Sent} \/ fetch'.is \subseteq Resources \X Roles
      /\ astray' \in {None, Sent} \/ astray'.is \subseteq Resources \X Roles
      /\ shared' \in BOOLEAN
  BY <1>2 DEF IInv, Typed, TypeOK
<1>4. CASE ~Joins
  <2>1. granted' = StateManagerKeys(grants) /\ grants' = grants
    BY <1>4, Zenon DEF Load, server
  <2>2. StateManagerKeys(grants) \subseteq Resources
    BY DEF StateManagerKeys
  <2>3. fetch' \in {None, Sent} \/ (fetch' = fetch /\ loaded')
    BY <1>4, Zenon DEF Load
  <2>4. fetch' = fetch /\ loaded' => fetch = None
    <3>1. loaded' => ~Forced
      BY <1>1, Zenon DEF Forced
    <3> QED
      BY <1>4, <3>1, Zenon DEF Joins
  <2> QED
    BY <1>1, <1>3, <2>1, <2>2, <2>3, <2>4 DEF GrantedInv
<1>5. CASE Joins
  <2>1. fetch' = fetch /\ granted' = granted /\ grants' = grants /\ account' = account
    BY <1>5, Zenon DEF Load, server
  <2> QED
    BY <1>1, <1>3, <2>1 DEF GrantedInv, Owned, IInv, Typed, TypeOK
<1> QED
  BY <1>4, <1>5

\* What the guards of a page decide: it opens, waits, or sends elsewhere.
LEMMA PageGuardsDecide ==
    ASSUME NEW path \in Paths, RunPageGuards(path)
    PROVE  \/ /\ page' = page
              /\ \E q \in Paths : nav' = [to |-> q, stage |-> "start"]
           \/ page' = page /\ nav' = None
           \/ ~loaded' /\ nav' = [to |-> path, stage |-> "page"] /\ page' = page
           \/ loaded' /\ page' = path /\ nav' = None
BY RedirectsArePaths, FirstIsPath DEF RunPageGuards, Redirects, Opens

LEMMA PageGuardsKeep ==
    ASSUME IInv, crossed' \in BOOLEAN, Entering(crossed'), NEW path \in Paths, RunPageGuards(path)
    PROVE  IInv' /\ (IsReadOnly => page' = page)
<1>1. Load /\ UNCHANGED <<server, user, me, saves>>
  BY DEF RunPageGuards
<1>2. /\ fetch' \in {None, Sent} \/ fetch'.is \subseteq Resources \X Roles
      /\ astray' \in {None, Sent} \/ astray'.is \subseteq Resources \X Roles
      /\ loaded' \in BOOLEAN /\ granted' \subseteq Resources /\ shared' \in BOOLEAN
      /\ settings' = settings
      /\ GrantedInv'
      /\ IsReadOnly => ~loaded'
  BY <1>1, LoadKeeps
<1>3. /\ page' = page \/ (page' = path /\ loaded' /\ nav' = None)
      /\ nav' \in {None} \cup [to : Paths, stage : Stages]
  BY PageGuardsDecide DEF Stages
<1>4. Typed'
  BY <1>1, <1>2, <1>3 DEF IInv, Typed, TypeOK, server, Stages
<1>5. StandingInv'
  BY <1>1 DEF StandingInv, Entering, IsApproved, SignedIn
<1>6. OwnerInv'
  BY <1>1 DEF IInv, OwnerInv, Owned, NoStateManager, server
<1> QED
  BY <1>2, <1>3, <1>4, <1>5, <1>6 DEF IInv

\* A redirect, to a place that is entered by other guards.
LEMMA RedirectKeeps ==
    ASSUME IInv, NEW path \in Paths, Redirects(path), UNCHANGED <<server, auth, access, saves>>
    PROVE  IInv' /\ page' = page
<1>1. Typed'
  BY DEF IInv, Typed, TypeOK, server, auth, access, copies, Stages, Redirects
<1>2. StandingInv'
  BY DEF IInv, StandingInv, IsApproved, SignedIn, auth, Redirects
<1>3. OwnerInv'
  BY DEF IInv, OwnerInv, Owned, NoStateManager, server, auth
<1>4. GrantedInv'
  BY DEF IInv, GrantedInv, Owned, server, access, copies
<1> QED
  BY <1>1, <1>2, <1>3, <1>4 DEF IInv, Redirects

\* The guard of the dashboard lets in whoever is approved.
LEMMA GuardsKeep ==
    ASSUME IInv, user # Unknown, NEW path \in Paths, RunGuards(path)
    PROVE  IInv' /\ (IsReadOnly => page' = page)
<1>1. CASE AuthGuard = None
  <2>1. SignedIn => user \in Accounts /\ user.standing \in {"pending", "approved", "revoked"}
    BY AccountsAssumption DEF SignedIn, IInv, Typed, TypeOK
  <2>2. IsApproved \/ None \in {"/", "/pending-approval", "/access-revoked"}
    BY <1>1, <2>1 DEF AuthGuard, IsApproved
  <2>3. IsApproved
    BY <2>2, NamesAssumption DEF OutsidePaths
  <2>4. RunPageGuards(path) /\ crossed' = (crossed /\ me.current # None)
    BY <1>1, Zenon DEF RunGuards
  <2>5. crossed' \in BOOLEAN
    BY <2>4, Zenon
  <2>6. Entering(crossed')
    <3>1. crossed \/ me.current = None
      BY <2>3 DEF IInv, StandingInv, IsApproved, SignedIn
    <3> QED
      BY <2>3, <2>4, <3>1, Zenon DEF Entering
  <2> QED
    BY <2>4, <2>5, <2>6, PageGuardsKeep
<1>2. CASE AuthGuard # None
  <2>1. AuthGuard \in Paths
    BY <1>2, RedirectsArePaths DEF AuthGuard
  <2> QED
    BY <1>2, <2>1, RedirectKeeps DEF RunGuards
<1> QED
  BY <1>1, <1>2

\* A navigation is taken up.
LEMMA StartKeeps ==
    ASSUME IInv, Start
    PROVE  IInv' /\ (IsReadOnly /\ page' \in DashboardPaths => page' = page)
<1>1. nav # None /\ nav.stage = "start" /\ nav.to \in Paths
  BY DEF Start, IInv, Typed, TypeOK
<1>2. CASE /\ nav.to \in OutsidePaths
           /\ Opens(nav.to)
           /\ UNCHANGED <<server, auth, access, saves>>
  <2>1. page' = nav.to /\ page' \notin DashboardPaths /\ nav' = None
    BY <1>2, OutsideIsOutside DEF Opens
  <2>2. Typed'
    BY <1>1, <1>2, <2>1 DEF IInv, Typed, TypeOK, server, auth, access, copies
  <2>3. StandingInv'
    BY <1>2, <2>1 DEF IInv, StandingInv, auth
  <2>4. OwnerInv'
    BY <1>2 DEF IInv, OwnerInv, Owned, NoStateManager, server, auth
  <2>5. GrantedInv'
    BY <1>2 DEF IInv, GrantedInv, Owned, server, access, copies
  <2> QED
    BY <2>1, <2>2, <2>3, <2>4, <2>5 DEF IInv
<1>3. CASE page \in DashboardPaths /\ RunPageGuards(nav.to) /\ UNCHANGED crossed
  <2>1. crossed' \in BOOLEAN
    BY <1>3 DEF IInv, Typed, TypeOK
  <2>2. Entering(crossed')
    BY <1>3 DEF Entering, IInv, StandingInv, IsApproved, SignedIn
  <2> QED
    BY <1>1, <1>3, <2>1, <2>2, PageGuardsKeep
<1>4. CASE user # Unknown /\ RunGuards(nav.to)
  BY <1>1, <1>4, GuardsKeep
<1>5. CASE /\ page \notin DashboardPaths /\ user = Unknown
           /\ nav' = [nav EXCEPT !.stage = "auth"]
           /\ me' = IF me.current = None THEN [me EXCEPT !.current = Sent] ELSE me
           /\ UNCHANGED <<server, user, crossed, access, page, saves>>
  <2>1. nav' \in [to : Paths, stage : Stages] /\ nav'.stage = "auth"
    BY <1>1, <1>5, NamesAssumption DEF IInv, Typed, Stages
  <2>2. me' \in [{"current", "old"} -> {None, Sent} \cup Answer]
    BY <1>5 DEF IInv, Typed, TypeOK, Answer
  <2>3. Typed'
    BY <1>5, <2>1, <2>2 DEF IInv, Typed, TypeOK, server, access, copies, Answer
  <2>4. StandingInv'
    BY <1>5, <2>1 DEF IInv, StandingInv
  <2>5. OwnerInv'
    BY <1>5 DEF IInv, OwnerInv, Owned, NoStateManager, Typed, TypeOK, server
  <2>6. GrantedInv'
    BY <1>5 DEF IInv, GrantedInv, Owned, server, access, copies
  <2> QED
    BY <1>5, <2>3, <2>4, <2>5, <2>6 DEF IInv
<1> QED
  BY <1>1, <1>2, <1>3, <1>4, <1>5 DEF Start

\* The user is known, and the guard of the dashboard goes on.
LEMMA EnterDashboardKeeps ==
    ASSUME IInv, EnterDashboard
    PROVE  IInv' /\ (IsReadOnly => page' = page)
<1>1. nav.to \in Paths /\ user # Unknown /\ RunGuards(nav.to)
  BY DEF EnterDashboard, GuardDue, IInv, Typed, TypeOK
<1> QED
  BY <1>1, GuardsKeep

\* The settings are there: a navigation that waits for them is decided.
LEMMA SettlesKeeps ==
    ASSUME IInv, NEW s \in Grants, Settles(s),
           IsReadOnly => StateManagerKeys(s) \subseteq granted
    PROVE  /\ IInv'
           /\ page' # page /\ IsReadOnly => KeysOf(page') \subseteq granted'
<1>1. /\ settings' = s /\ loaded' = TRUE /\ fetch' = None /\ granted' = granted
      /\ shared' = FALSE
      /\ UNCHANGED <<server, auth, astray, saves>>
  BY DEF Settles
<1>2. \/ nav' = nav /\ page' = page
      \/ /\ nav # None /\ nav.stage = "page" /\ PageAccessGuard(s, nav.to)
         /\ page' = nav.to /\ nav' = None
      \/ page' = page /\ nav' = None
      \/ page' = page /\ \E q \in Paths : nav' = [to |-> q, stage |-> "start"]
  BY FirstIsPath DEF Settles, router, Opens, Redirects
<1>3. Typed'
  <2>1. page' \in Paths /\ nav' \in {None} \cup [to : Paths, stage : Stages]
    <3>1. page \in Paths /\ nav \in {None} \cup [to : Paths, stage : Stages] /\ "start" \in Stages
      BY DEF IInv, Typed, TypeOK, Stages
    <3> QED
      BY <1>2, <3>1
  <2>2. nav' = None \/ (nav'.to \in Paths /\ nav'.stage \in Stages)
    BY <2>1
  <2> HIDE DEF Stages
  <2> QED
    BY <1>1, <2>1, <2>2 DEF IInv, Typed, TypeOK, server, auth, Grants
<1>4. StandingInv'
  BY <1>1, <1>2 DEF IInv, StandingInv, IsApproved, SignedIn, auth
<1>5. OwnerInv'
  BY <1>1 DEF IInv, OwnerInv, Owned, NoStateManager, server, auth
<1>6. GrantedInv'
  BY <1>1, NamesAssumption DEF GrantedInv
<1>7. ASSUME page' # page, IsReadOnly PROVE KeysOf(page') \subseteq granted'
  <2>1. PageAccessGuard(s, page')
    BY <1>2, <1>7
  <2>2. \A key \in KeysOf(page') : <<key, "stateManager">> \in s
    BY <1>7, <2>1 DEF PageAccessGuard, CanAccess, IsReadOnly
  <2>3. \A key \in KeysOf(page') : key \in StateManagerKeys(s)
    BY <2>2 DEF Grants, StateManagerKeys
  <2> QED
    BY <1>1, <1>7, <2>3
<1> QED
  BY <1>3, <1>4, <1>5, <1>6, <1>7 DEF IInv

\* Whoever is taken for a State Manager is not the owner.
LEMMA ReceiveFetchKeeps ==
    ASSUME IInv, ReceiveFetch
    PROVE  /\ IInv'
           /\ page' # page /\ IsReadOnly => KeysOf(page') \subseteq granted'
<1>1. fetch \notin {None, Sent} /\ fetch.is \in Grants /\ Settles(fetch.is)
  BY DEF ReceiveFetch, IInv, Typed, TypeOK, Grants
<1>2. IsReadOnly => ~Owned
  BY DEF IInv, OwnerInv, NoStateManager, IsReadOnly, SignedIn
<1>3. IsReadOnly => StateManagerKeys(fetch.is) \subseteq granted
  BY <1>1, <1>2 DEF IInv, GrantedInv
<1> QED
  BY <1>1, <1>3, SettlesKeeps

\* By default a State Manager may open nothing.
LEMMA FailFetchKeeps ==
    ASSUME IInv, FailFetch
    PROVE  /\ IInv'
           /\ page' # page /\ IsReadOnly => KeysOf(page') \subseteq granted'
<1>1. Fallback \in Grants /\ Settles(Fallback)
  BY GrantsTyped DEF FailFetch, Fallback, IInv, Typed, TypeOK, Grants
<1>2. IsReadOnly => StateManagerKeys(Fallback) = {}
  BY DEF Fallback, StateManagerKeys, DefaultGrants
<1> QED
  BY <1>1, <1>2, SettlesKeeps

-----------------------------------------------------------------------------
(* Requests, and what others do                                            *)

\* A link or a button.
LEMMA NavigateKeeps ==
    ASSUME IInv, NEW path \in Paths, Navigate(path)
    PROVE  IInv'
<1>1. Typed'
  BY DEF Navigate, server, auth, access, copies, IInv, Typed, TypeOK, Stages
<1>2. StandingInv'
  BY DEF Navigate, auth, IInv, StandingInv, IsApproved, SignedIn
<1>3. OwnerInv'
  BY DEF Navigate, server, auth, IInv, OwnerInv, Owned
<1>4. GrantedInv'
  BY DEF Navigate, server, access, copies, IInv, GrantedInv, Owned
<1> QED
  BY <1>1, <1>2, <1>3, <1>4 DEF IInv

\* The server answers with the account as it is.
LEMMA AnswerMeKeeps ==
    ASSUME IInv, NEW n \in {"current", "old"}, AnswerMe(n)
    PROVE  IInv'
<1>1. Typed'
  BY DEF AnswerMe, server, access, copies, router, IInv, Typed, TypeOK
<1>2. StandingInv'
  BY NamesAssumption DEF AnswerMe, router, IInv, StandingInv, IsApproved, SignedIn
<1>3. OwnerInv'
  BY DEF AnswerMe, server, IInv, OwnerInv, Owned, NoStateManager
<1>4. GrantedInv'
  BY DEF AnswerMe, server, access, copies, IInv, GrantedInv, Owned
<1> QED
  BY <1>1, <1>2, <1>3, <1>4 DEF IInv

\* The current request ends when the user is still unknown.
LEMMA ReceiveMeKeeps ==
    ASSUME IInv, NEW n \in {"current", "old"}, ReceiveMe(n)
    PROVE  IInv'
<1>1. Typed'
  BY DEF ReceiveMe, server, access, copies, router, IInv, Typed, TypeOK
<1>2. StandingInv'
  BY DEF ReceiveMe, router, IInv, StandingInv, IsApproved, SignedIn, Typed, TypeOK
<1>3. OwnerInv'
  BY DEF ReceiveMe, server, IInv, OwnerInv, Owned
<1>4. GrantedInv'
  BY DEF ReceiveMe, server, access, copies, IInv, GrantedInv, Owned
<1> QED
  BY <1>1, <1>2, <1>3, <1>4 DEF IInv

\* A failure signs the user out, wherever he is.
LEMMA FailMeKeeps ==
    ASSUME IInv, NEW n \in {"current", "old"}, FailMe(n)
    PROVE  IInv'
<1>1. Typed'
  BY DEF FailMe, ForgetsReads, copies, server, access, router, IInv, Typed, TypeOK
<1>2. StandingInv'
  BY DEF FailMe, router, IInv, StandingInv, IsApproved, SignedIn, Typed, TypeOK
<1>3. OwnerInv'
  BY DEF FailMe, server, IInv, OwnerInv, Owned, NoStateManager
<1>4. GrantedInv'
  BY DEF FailMe, ForgetsReads, copies, server, access, IInv, GrantedInv, Owned
<1> QED
  BY <1>1, <1>2, <1>3, <1>4 DEF IInv

\* Asked for outside of the dashboard only; a navigation that waits for the settings
\* then counts as crossed.
LEMMA RefreshKeeps ==
    ASSUME IInv, Refresh
    PROVE  IInv' /\ page' = page
<1>1. /\ page = "/pending-approval" /\ me' = [current |-> Sent, old |-> me.current]
      /\ user' = Unknown /\ shared' = FALSE
      /\ UNCHANGED <<server, copies, page, saves>>
  BY DEF Refresh, ForgetsReads
<1>2. /\ nav' = nav \/ (nav' = [nav EXCEPT !.stage = "formerAuth"] /\ nav # None)
      /\ nav' # None /\ nav'.stage = "page" => nav # None /\ nav.stage = "page"
  <2>1. CASE nav # None /\ nav.stage = "auth"
    <3>1. nav' = [nav EXCEPT !.stage = "formerAuth"] /\ nav # None
      BY <2>1, Zenon DEF Refresh
    <3>2. nav \in [to : Paths, stage : Stages]
      BY <2>1 DEF IInv, Typed
    <3>3. nav'.stage = "formerAuth"
      BY <3>1, <3>2
    <3> QED
      BY <3>1, <3>3
  <2>2. CASE ~(nav # None /\ nav.stage = "auth")
    <3>1. nav' = nav
      BY <2>2, Zenon DEF Refresh
    <3> QED
      BY <3>1
  <2> QED
    BY <2>1, <2>2
<1>3. crossed' \in BOOLEAN /\ (~crossed' => ~(nav # None /\ nav.stage = "page"))
  <2>1. crossed' = (crossed \/ (nav # None /\ nav.stage = "page"))
    BY Zenon DEF Refresh
  <2> QED
    BY <2>1, Zenon
<1>4. nav' \in {None} \cup [to : Paths, stage : Stages]
  BY <1>2 DEF IInv, Typed, Stages
<1>5. Typed'
  <2>1. me' \in [{"current", "old"} -> {None, Sent} \cup Answer]
    BY <1>1 DEF IInv, Typed, TypeOK, Answer
  <2>2. nav' = None \/ (nav'.to \in Paths /\ nav'.stage \in Stages)
    BY <1>4
  <2> QED
    BY <1>1, <1>3, <1>4, <2>1, <2>2 DEF server, copies, IInv, Typed, TypeOK, Answer
<1>6. StandingInv'
  BY <1>1, <1>2, <1>3, OutsideIsOutside DEF StandingInv, OutsidePaths
<1>7. OwnerInv'
  BY <1>1 DEF server, IInv, OwnerInv, Owned, NoStateManager
<1>8. GrantedInv'
  BY <1>1 DEF server, copies, IInv, GrantedInv, Owned
<1> QED
  BY <1>1, <1>5, <1>6, <1>7, <1>8 DEF IInv

\* An edit is accepted only from an approved user.
LEMMA UpdateProfileKeeps ==
    ASSUME IInv, UpdateProfile
    PROVE  IInv'
<1>1. Typed'
  BY DEF UpdateProfile, ForgetsReads, copies, server, access, router, IInv, Typed, TypeOK
<1>2. StandingInv'
  BY NamesAssumption DEF UpdateProfile, IInv, StandingInv, IsApproved, SignedIn, Typed, TypeOK
<1>3. OwnerInv'
  BY DEF UpdateProfile, server, IInv, OwnerInv, Owned, NoStateManager
<1>4. GrantedInv'
  BY DEF UpdateProfile, ForgetsReads, copies, server, access, IInv, GrantedInv, Owned
<1> QED
  BY <1>1, <1>2, <1>3, <1>4 DEF IInv

\* The settings as they are were granted since the request was sent.
LEMMA AnswerFetchKeeps ==
    ASSUME IInv, AnswerFetch
    PROVE  IInv'
<1>1. Typed'
  BY DEF AnswerFetch, server, auth, router, IInv, Typed, TypeOK
<1>2. StandingInv'
  BY DEF AnswerFetch, auth, router, IInv, StandingInv, IsApproved, SignedIn
<1>3. OwnerInv'
  BY DEF AnswerFetch, server, auth, IInv, OwnerInv, Owned
<1>4. GrantedInv'
  BY DEF AnswerFetch, server, IInv, GrantedInv, Owned
<1> QED
  BY <1>1, <1>2, <1>3, <1>4 DEF IInv

\* The owner sends settings.
LEMMA SendKeeps ==
    ASSUME IInv, NEW i \in Saves, NEW body \in Grants, Send(i, body)
    PROVE  IInv'
<1>1. Typed'
  BY DEF Send, ForgetsReads, copies, server, auth, access, router, IInv, Typed, TypeOK, Grants, Save
<1>2. StandingInv'
  BY DEF Send, auth, router, IInv, StandingInv, IsApproved, SignedIn
<1>3. OwnerInv'
  BY DEF Send, server, auth, IInv, OwnerInv, Owned
<1>4. GrantedInv'
  BY DEF Send, ForgetsReads, copies, server, access, IInv, GrantedInv, Owned
<1> QED
  BY <1>1, <1>2, <1>3, <1>4 DEF IInv

\* Only an owner's are stored, for whom GrantedInv says nothing.
LEMMA StoreSaveKeeps ==
    ASSUME IInv, NEW i \in Saves, StoreSave(i)
    PROVE  IInv'
<1>1. Typed'
  <2>1. saves[i].body \in Grants
    BY DEF StoreSave, IInv, Typed, Save
  <2>2. grants' \in Grants
    BY <2>1, GrantsTyped DEF StoreSave
  <2>3. saves' \in [Saves -> {None} \cup Save]
    BY <2>2 DEF StoreSave, IInv, Typed, Save
  <2> QED
    BY <2>2, <2>3 DEF StoreSave, auth, access, copies, router, IInv, Typed, TypeOK, Grants, Save
<1>2. StandingInv'
  BY DEF StoreSave, auth, router, IInv, StandingInv, IsApproved, SignedIn
<1>3. OwnerInv'
  BY DEF StoreSave, auth, IInv, OwnerInv, Owned
<1>4. GrantedInv'
  BY DEF StoreSave, IInv, GrantedInv, Owned
<1> QED
  BY <1>1, <1>2, <1>3, <1>4 DEF IInv

\* A replaced read ends, and no page opens with it.
LEMMA AnswerAstrayKeeps ==
    ASSUME IInv, AnswerAstray
    PROVE  IInv'
<1>1. Typed'
  BY DEF AnswerAstray, server, auth, router, IInv, Typed, TypeOK
<1>2. StandingInv'
  BY DEF AnswerAstray, auth, router, IInv, StandingInv, IsApproved, SignedIn
<1>3. OwnerInv'
  BY DEF AnswerAstray, server, auth, IInv, OwnerInv, Owned
<1>4. GrantedInv'
  BY DEF AnswerAstray, server, IInv, GrantedInv, Owned
<1> QED
  BY <1>1, <1>2, <1>3, <1>4 DEF IInv

LEMMA EndAstrayKeeps ==
    ASSUME IInv, EndAstray
    PROVE  IInv'
<1>1. settings' \in Grants
  <2>1. Fallback \in Grants
    BY GrantsTyped DEF Fallback, IInv, Typed, TypeOK, Grants
  <2>2. astray # Sent => astray.is \in Grants
    BY DEF EndAstray, IInv, Typed, TypeOK, Grants
  <2> QED
    BY <2>1, <2>2 DEF EndAstray
<1>2. Typed'
  BY <1>1 DEF EndAstray, server, auth, router, IInv, Typed, TypeOK, Grants
<1>3. StandingInv'
  BY DEF EndAstray, auth, router, IInv, StandingInv, IsApproved, SignedIn
<1>4. OwnerInv'
  BY DEF EndAstray, server, auth, IInv, OwnerInv, Owned
<1>5. GrantedInv'
  BY DEF EndAstray, server, IInv, GrantedInv, Owned
<1> QED
  BY <1>2, <1>3, <1>4, <1>5 DEF IInv

LEMMA ReceiveSaveKeeps ==
    ASSUME IInv, NEW i \in Saves, ReceiveSave(i)
    PROVE  IInv'
<1>1. Typed'
  BY DEF ReceiveSave, server, auth, router, IInv, Typed, TypeOK
<1>2. StandingInv'
  BY DEF ReceiveSave, auth, router, IInv, StandingInv, IsApproved, SignedIn
<1>3. OwnerInv'
  BY DEF ReceiveSave, server, auth, IInv, OwnerInv, Owned
<1>4. GrantedInv'
  BY DEF ReceiveSave, server, IInv, GrantedInv, Owned
<1> QED
  BY <1>1, <1>2, <1>3, <1>4 DEF IInv

LEMMA FailSaveKeeps ==
    ASSUME IInv, NEW i \in Saves, FailSave(i)
    PROVE  IInv'
<1>1. Typed'
  BY DEF FailSave, ForgetsReads, copies, server, auth, access, router, IInv, Typed, TypeOK
<1>2. StandingInv'
  BY DEF FailSave, auth, router, IInv, StandingInv, IsApproved, SignedIn
<1>3. OwnerInv'
  BY DEF FailSave, server, auth, IInv, OwnerInv, Owned
<1>4. GrantedInv'
  BY DEF FailSave, ForgetsReads, copies, server, access, IInv, GrantedInv, Owned
<1> QED
  BY <1>1, <1>2, <1>3, <1>4 DEF IInv

\* Nobody is made the owner.
LEMMA ChangeAccountKeeps ==
    ASSUME IInv, ChangeAccount
    PROVE  IInv'
<1>1. Typed'
  BY BoundAssumption DEF ChangeAccount, auth, access, copies, router, IInv, Typed, TypeOK
<1>2. StandingInv'
  BY DEF ChangeAccount, auth, router, IInv, StandingInv, IsApproved, SignedIn
<1>3. OwnerInv'
  BY DEF ChangeAccount, IInv, OwnerInv, Owned
<1>4. GrantedInv'
  BY DEF ChangeAccount, access, copies, IInv, GrantedInv, Owned
<1> QED
  BY <1>1, <1>2, <1>3, <1>4 DEF IInv

\* What others grant is counted in.
LEMMA ChangeGrantsKeeps ==
    ASSUME IInv, ChangeGrants
    PROVE  IInv'
<1>1. Typed'
  <2>1. PICK g \in Toggled : grants' = Normalize(SetToggle(grants, g))
    BY DEF ChangeGrants
  <2>2. grants' \in Grants /\ StateManagerKeys(grants') \subseteq Resources
    BY <2>1, GrantsTyped DEF IInv, Typed, TypeOK, Grants, StateManagerKeys
  <2>3. changes' \in 0..MaxChanges /\ granted' \subseteq Resources
    BY <2>2, BoundAssumption DEF ChangeGrants, IInv, Typed, TypeOK
  <2> QED
    BY <2>2, <2>3 DEF ChangeGrants, auth, router, IInv, Typed, TypeOK, Grants
<1>2. StandingInv'
  BY DEF ChangeGrants, auth, router, IInv, StandingInv, IsApproved, SignedIn
<1>3. OwnerInv'
  BY DEF ChangeGrants, auth, IInv, OwnerInv, Owned
<1>4. GrantedInv'
  BY NamesAssumption DEF ChangeGrants, IInv, GrantedInv, Owned
<1> QED
  BY <1>1, <1>2, <1>3, <1>4 DEF IInv

LEMMA StutterKeeps ==
    ASSUME IInv, UNCHANGED vars
    PROVE  IInv'
<1>1. Typed'
  BY DEF vars, server, auth, access, copies, router, IInv, Typed, TypeOK
<1>2. StandingInv'
  BY DEF vars, auth, router, IInv, StandingInv, IsApproved, SignedIn
<1>3. OwnerInv'
  BY DEF vars, server, auth, IInv, OwnerInv, Owned
<1>4. GrantedInv'
  BY DEF vars, server, access, copies, IInv, GrantedInv, Owned
<1> QED
  BY <1>1, <1>2, <1>3, <1>4 DEF IInv

-----------------------------------------------------------------------------
(* The theorems                                                            *)

LEMMA UserActsKeep ==
    ASSUME IInv, UserActs
    PROVE  IInv' /\ (page' \in DashboardPaths => page' = page)
<1>1. /\ account \in Accounts \cup {None} /\ grants \in Grants /\ changes \in 0..MaxChanges
      /\ settings \in Grants
  BY DEF IInv, Typed, TypeOK, Grants
<1>2. "/" \notin DashboardPaths /\ "/" \in Paths /\ "overview" \in Paths
  BY OutsideIsOutside, RedirectsArePaths DEF OutsidePaths
<1>3. ASSUME NEW path \in Paths, FreshTab(path), ServerTyped'
      PROVE  IInv' /\ (page' \in DashboardPaths => page' = page)
  BY <1>2, <1>3, FreshTabKeeps DEF FreshTab
<1>4. ASSUME NEW path \in Targets[Asker], OpenSite(path) \/ Navigate(path)
      PROVE  IInv' /\ (page' \in DashboardPaths => page' = page)
  <2>1. path \in Paths
    <3>1. Asker \in Roles \cup {None}
      BY <1>1, AccountsAssumption DEF Asker
    <3> QED
      BY <3>1, TargetsAssumption DEF Paths
  <2>2. CASE OpenSite(path)
    BY <1>1, <1>3, <2>1, <2>2 DEF OpenSite, server, ServerTyped
  <2>3. CASE Navigate(path)
    BY <2>1, <2>3, NavigateKeeps DEF Navigate
  <2> QED
    BY <1>4, <2>2, <2>3
<1>5. CASE Refresh
  BY <1>5, RefreshKeeps
<1>6. CASE CheckStatus
  BY <1>1, <1>2, <1>3, <1>6 DEF CheckStatus, server, ServerTyped
<1>7. CASE UpdateProfile
  BY <1>7, UpdateProfileKeeps DEF UpdateProfile, router
<1>8. CASE Logout
  BY <1>1, <1>2, <1>3, <1>8 DEF Logout, ServerTyped
<1>9. CASE SignIn
  BY <1>1, <1>2, <1>3, <1>9 DEF SignIn, ServerTyped
<1>10. ASSUME NEW i \in Saves, NEW body \in Grants, Send(i, body)
       PROVE  IInv' /\ page' = page
  BY <1>10, SendKeeps DEF Send, router
<1>11. ASSUME NEW i \in Saves, NEW g \in Toggled, Toggle(i, g)
       PROVE  IInv' /\ page' = page
  BY <1>1, <1>10, <1>11, GrantsTyped DEF Toggle
<1>12. ASSUME NEW i \in Saves, NEW s \in Sections, NEW allowed \in BOOLEAN,
              ToggleSection(i, s, allowed)
       PROVE  IInv' /\ page' = page
  <2>1. PICK some : /\ some = {g \in s[1] \X {s[2]} : Configurable(g)}
                    /\ Send(i, IF allowed THEN settings \cup some ELSE settings \ some)
    BY <1>12 DEF ToggleSection
  <2>2. s[1] \subseteq Resources /\ s[2] \in Roles
    BY SectionsAssumption
  <2>3. some \in Grants
    BY <2>1, <2>2 DEF Grants
  <2>4. settings \cup some \in Grants /\ settings \ some \in Grants
    BY <1>1, <2>3 DEF Grants
  <2> QED
    BY <1>10, <2>1, <2>4
<1> QED
  BY <1>4, <1>5, <1>6, <1>7, <1>8, <1>9, <1>11, <1>12 DEF UserActs

\* Every step keeps IInv, and opens pages for State Managers as granted.
LEMMA StepKeeps ==
    ASSUME IInv, [Next]_vars
    PROVE  /\ IInv'
           /\ page' \in DashboardPaths /\ page' # page /\ IsReadOnly => KeysOf(page') \subseteq granted'
<1>1. CASE UserActs
  BY <1>1, UserActsKeep
<1>2. CASE OthersAct
  BY <1>2, ChangeAccountKeeps, ChangeGrantsKeeps
     DEF OthersAct, ChangeAccount, ChangeGrants, router
<1>3. CASE Start \/ EnterDashboard
  BY <1>3, StartKeeps, EnterDashboardKeeps
<1>4. ASSUME NEW n \in {"current", "old"}, AnswerMe(n) \/ ReceiveMe(n) \/ FailMe(n)
      PROVE  IInv' /\ page' = page
  BY <1>4, AnswerMeKeeps, ReceiveMeKeeps, FailMeKeeps DEF AnswerMe, ReceiveMe, FailMe, router
<1>5. CASE AnswerFetch
  BY <1>5, AnswerFetchKeeps DEF AnswerFetch, router
<1>6. CASE ReceiveFetch \/ FailFetch
  BY <1>6, ReceiveFetchKeeps, FailFetchKeeps
<1>7. ASSUME NEW i \in Saves, StoreSave(i) \/ ReceiveSave(i) \/ FailSave(i)
      PROVE  IInv' /\ page' = page
  BY <1>7, StoreSaveKeeps, ReceiveSaveKeeps, FailSaveKeeps
     DEF StoreSave, ReceiveSave, FailSave, router
<1>8. CASE UNCHANGED vars
  BY <1>8, StutterKeeps DEF vars, router
<1>9. CASE AnswerAstray \/ EndAstray
  BY <1>9, AnswerAstrayKeeps, EndAstrayKeeps DEF AnswerAstray, EndAstray, router
<1> QED
  BY <1>1, <1>2, <1>3, <1>4, <1>5, <1>6, <1>7, <1>8, <1>9 DEF Next

\* What the client holds agrees with what the server said when it was asked.
THEOREM Inductive == Spec => []IInv
<1>1. IInv /\ [Next]_vars => IInv'
  BY StepKeeps
<1> QED
  BY InitKeeps, <1>1, PTL DEF Spec

\* Accounts, grants, requests and pages keep their types, and every redirect leads
\* to a page there is.
THEOREM TypeCorrect == Spec => []TypeOK
<1>1. IInv => TypeOK
  BY DEF IInv, Typed
<1> QED
  BY <1>1, Inductive, PTL

\* Whatever is granted, to whatever account, the menu has a link exactly to the
\* pages that the guards of their routes would open.
THEOREM MenuLeadsToPages == Spec => []MenuMatchesGuards
BY MenuAgrees, PTL

\* Whatever the order of navigations and answers, a page of the dashboard is shown
\* only to a user known to be approved (authGuard), unless the answer to a replaced
\* request was taken for the truth on his way there, or "Check status" was pressed
\* while a navigation that had passed authGuard waited for the settings.
THEOREM DashboardIsForApproved == Spec => []DashboardNeedsStanding
<1>1. IInv => DashboardNeedsStanding
  BY DEF IInv, StandingInv, DashboardNeedsStanding
<1> QED
  BY <1>1, Inductive, PTL

\* A page opens for a State Manager only by what the server granted since this
\* navigation, or the one whose request it shares, asked for it.
THEOREM StateManagersSeeWhatIsGranted == Spec => StateManagerPagesAreGranted
<1>1. IInv /\ [Next]_vars
      => [page' \in DashboardPaths /\ page' # page /\ IsReadOnly
             => KeysOf(page') \subseteq granted']_vars
  BY StepKeeps
<1> QED
  BY <1>1, Inductive, PTL DEF Spec, StateManagerPagesAreGranted
=============================================================================

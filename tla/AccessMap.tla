----------------------------- MODULE AccessMap -----------------------------
(***************************************************************************)
(* Which page belongs to which grant: the tables of the front end that have *)
(* to agree with each other.  A grant is a pair <<resource, role>>; a path  *)
(* is what follows /dashboard/ in the address, "overview" if nothing does.  *)
(***************************************************************************)
EXTENDS Integers, Sequences

Roles == {"stateManager", "agent", "seniorAgent", "manager", "owner"}

\* ROLE_LEVEL, TIER_LEVEL
RoleLevel == [stateManager |-> -1, agent |-> 0, seniorAgent |-> 1, manager |-> 2, owner |-> 3]
TierLevel == [all |-> 0, seniorAgent |-> 1, manager |-> 2, owner |-> 3]

\* ACCESS_SECTIONS: what every role of the team may open by default ...
WorkspaceResources == {"overview", "team", "profile", "analytics", "commissions"}
AuctionResources == {"auction.createListing", "auction.listings"}
PortfolioResources == {"portfolio.properties", "portfolio.blocks", "portfolio.tenants", "portfolio.bookings"}
NoticeResources == {"notices.overdue", "notices.eviction", "notices.overdueList",
    "notices.evictionQueue", "notices.evictionHistory", "notices.syncedDataRecords"}
RecruitmentResources == {"recruitment.pending", "recruitment.accepted", "recruitment.rejected"}
AdministrationResources == {"administration.users", "administration.auditLogs",
    "administration.settings", "administration.accessManagement"}

\* ... the actions on one property ...
ChildResources == {"portfolio.properties.add", "portfolio.properties.edit",
    "portfolio.properties.sell", "portfolio.properties.book", "portfolio.properties.evict"}

\* ... and what takes a higher role.
SeniorResources == {"portfolio.properties.evict"}
ManagerResources == {"agentAnalytics", "portfolio.properties.add", "portfolio.properties.edit",
    "notices.sync"} \cup RecruitmentResources
    \cup (AdministrationResources \ {"administration.accessManagement"})
OwnerResources == {"administration.accessManagement"}

Resources == WorkspaceResources \cup AuctionResources \cup PortfolioResources
    \cup NoticeResources \cup ChildResources \cup ManagerResources \cup OwnerResources

Tier(resource) ==
    CASE resource \in OwnerResources -> "owner"
      [] resource \in ManagerResources -> "manager"
      [] resource \in SeniorResources -> "seniorAgent"
      [] OTHER -> "all"

\* roleCanOpen
RoleCanOpen(resource, role) ==
    IF role = "stateManager"
    THEN resource \notin ChildResources /\ resource # "auction.createListing"
    ELSE RoleLevel[role] >= TierLevel[Tier(resource)]

\* defaultAccessSettings
DefaultGrants ==
    {g \in Resources \X Roles : g[2] # "stateManager" /\ RoleCanOpen(g[1], g[2])}

\* The server's CanStateManagerView and Normalize: the owner's grant to the page
\* of the grants is always stored.
CanStateManagerView(resource) == resource \in Resources \ (ChildResources \cup {"auction.createListing"})
Stored(grants) ==
    {g \in grants : IF g[2] = "stateManager" THEN CanStateManagerView(g[1]) ELSE g \in DefaultGrants}
Normalize(grants) == Stored(grants) \cup {<<"administration.accessManagement", "owner">>}

-----------------------------------------------------------------------------
(* Routes                                                                  *)

\* path and accessKey, in the order of app.routes.ts
WorkspaceRoutes == {<<"overview", "overview">>, <<"team", "team">>, <<"analytics", "analytics">>}
AgentAnalyticsRoutes == {
    <<"agent-analytics", "agentAnalytics">>, <<"agent-analytics/:id", "agentAnalytics">>}
ListRoutes == {<<"commissions", "commissions">>, <<"properties", "portfolio.properties">>}
PropertyRoutes == {   \* their parentAccessKey is portfolio.properties
    <<"properties/new", "portfolio.properties.add">>,
    <<"properties/:id/edit", "portfolio.properties.edit">>,
    <<"properties/:id/assign", "portfolio.properties.sell">>,
    <<"properties/:id/book", "portfolio.properties.book">>,
    <<"properties/:id/bookings", "portfolio.properties.book">>}
PortfolioRoutes == {
    <<"blocks", "portfolio.blocks">>, <<"bookings", "portfolio.bookings">>,
    <<"tenants", "portfolio.tenants">>,
    <<"auction/create-listing", "auction.createListing">>, <<"auction/listings", "auction.listings">>}
NoticeRoutes == {
    <<"notices/overdue", "notices.overdue">>, <<"notices/eviction", "notices.eviction">>,
    <<"notices/overdue-list", "notices.overdueList">>,
    <<"notices/eviction-queue", "notices.evictionQueue">>,
    <<"notices/eviction-history", "notices.evictionHistory">>,
    <<"notices/sync", "notices.sync">>,
    <<"notices/synced-data-records", "notices.syncedDataRecords">>}
AdministrationRoutes == {
    <<"users", "administration.users">>, <<"audit-logs", "administration.auditLogs">>,
    <<"profile", "profile">>, <<"settings", "administration.settings">>,
    <<"access-management", "administration.accessManagement">>}
RecruitmentRoutes == {
    <<"recruitment/pending", "recruitment.pending">>,
    <<"recruitment/accepted", "recruitment.accepted">>,
    <<"recruitment/rejected", "recruitment.rejected">>}

Routes == WorkspaceRoutes \cup AgentAnalyticsRoutes \cup ListRoutes \cup PropertyRoutes
    \cup PortfolioRoutes \cup NoticeRoutes \cup AdministrationRoutes \cup RecruitmentRoutes
DashboardPaths == {r[1] : r \in Routes}
KeyOf(path) == (CHOOSE r \in Routes : r[1] = path)[2]

\* Routes behind managerGuard as well.
ManagedPaths == {"properties/new", "properties/:id/edit", "notices/sync"}
    \cup ({r[1] : r \in AgentAnalyticsRoutes \cup RecruitmentRoutes \cup AdministrationRoutes} \ {"profile"})

\* Every grant a route asks for.
KeysOf(path) ==
    {KeyOf(path)} \cup (IF \E r \in PropertyRoutes : r[1] = path THEN {"portfolio.properties"} ELSE {})

\* Pages outside the dashboard; the rest of the public site is one of them.
OutsidePaths == {"/", "/pending-approval", "/access-revoked"}

-----------------------------------------------------------------------------
(* The order in which firstAccessibleUrl looks for a page.                 *)
Destinations == <<
    <<"overview", "overview">>, <<"team", "team">>, <<"analytics", "analytics">>,
    <<"agentAnalytics", "agent-analytics">>, <<"commissions", "commissions">>,
    <<"auction.createListing", "auction/create-listing">>,
    <<"auction.listings", "auction/listings">>,
    <<"portfolio.properties", "properties">>, <<"portfolio.bookings", "bookings">>,
    <<"portfolio.blocks", "blocks">>, <<"portfolio.tenants", "tenants">>,
    <<"notices.overdue", "notices/overdue">>, <<"notices.eviction", "notices/eviction">>,
    <<"notices.overdueList", "notices/overdue-list">>,
    <<"notices.evictionQueue", "notices/eviction-queue">>,
    <<"notices.evictionHistory", "notices/eviction-history">>,
    <<"notices.sync", "notices/sync">>,
    <<"notices.syncedDataRecords", "notices/synced-data-records">>,
    <<"recruitment.pending", "recruitment/pending">>,
    <<"recruitment.accepted", "recruitment/accepted">>,
    <<"recruitment.rejected", "recruitment/rejected">>,
    <<"administration.users", "users">>, <<"administration.auditLogs", "audit-logs">>,
    <<"administration.settings", "settings">>,
    <<"administration.accessManagement", "access-management">>, <<"profile", "profile">>>>

-----------------------------------------------------------------------------
(* The navigation of the dashboard: a section has the grants its heading    *)
(* asks for (hasAny), may be for the management only, and has links, each   *)
(* with its own grant; a link may be for the management only as well.       *)
NavSection(any, management, links) == [any |-> any, management |-> management, links |-> links]
NavLink(path, key) == [path |-> path, key |-> key, management |-> FALSE]
ManagementLink(path, key) == [path |-> path, key |-> key, management |-> TRUE]

PerformanceSection == NavSection({"analytics", "agentAnalytics"}, FALSE,
    {NavLink("analytics", "analytics"), ManagementLink("agent-analytics", "agentAnalytics")})
\* A variant: the link asks for the grant of its neighbour.
FinanceSectionOfAnalytics == NavSection({"commissions"}, FALSE, {NavLink("commissions", "analytics")})
FinanceSection == NavSection({"commissions"}, FALSE, {NavLink("commissions", "commissions")})
AuctionSection == NavSection({"auction.createListing", "auction.listings"}, FALSE,
    {NavLink("auction/create-listing", "auction.createListing"),
     NavLink("auction/listings", "auction.listings")})
PortfolioSection ==
    NavSection({"portfolio.properties", "portfolio.blocks", "portfolio.tenants", "portfolio.bookings"}, FALSE,
    {NavLink("properties", "portfolio.properties"), NavLink("bookings", "portfolio.bookings"),
     NavLink("blocks", "portfolio.blocks"), NavLink("tenants", "portfolio.tenants")})
NoticesSection == NavSection(NoticeResources \cup {"notices.sync"}, FALSE,
    {NavLink("notices/overdue", "notices.overdue"), NavLink("notices/eviction", "notices.eviction"),
     NavLink("notices/overdue-list", "notices.overdueList"),
     NavLink("notices/eviction-queue", "notices.evictionQueue"),
     NavLink("notices/eviction-history", "notices.evictionHistory"),
     ManagementLink("notices/sync", "notices.sync"),
     NavLink("notices/synced-data-records", "notices.syncedDataRecords")})
RecruitmentSection == NavSection(RecruitmentResources, TRUE,
    {NavLink("recruitment/pending", "recruitment.pending"),
     NavLink("recruitment/accepted", "recruitment.accepted"),
     NavLink("recruitment/rejected", "recruitment.rejected")})
AdministrationSection == NavSection(AdministrationResources, TRUE,
    {NavLink("users", "administration.users"), NavLink("audit-logs", "administration.auditLogs"),
     NavLink("settings", "administration.settings"),
     NavLink("access-management", "administration.accessManagement")})
\* The header above every page: breadcrumb and account.
HeaderLinks == NavSection({"overview", "team", "profile"}, FALSE,
    {NavLink("overview", "overview"), NavLink("team", "team"), NavLink("profile", "profile")})

NavSections == {PerformanceSection, FinanceSection, AuctionSection, PortfolioSection,
    NoticesSection, RecruitmentSection, AdministrationSection, HeaderLinks}
LinkedPaths == {l.path : l \in UNION {s.links : s \in NavSections}}

=============================================================================

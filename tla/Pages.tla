-------------------------------- MODULE Pages --------------------------------
(***************************************************************************)
(* One tab with one of the pages open, each with its own state of the      *)
(* server.  The router destroys a page's component when it is left, and    *)
(* with it the subscriptions, so that pages do not meet; what they promise *)
(* together is stated here.                                                *)
(***************************************************************************)
EXTENDS Page, Sequences

CONSTANTS
    Filters, NoFilter, LastPage, MatchingPages,        \* audit log and property list
    Agents, Periods, AllTime, Activities, Pieces,      \* analytics
    Payees,                                            \* agents of an auction
    Details, Houses, MaxFailures,                      \* forms
    Tenants, UserRoles, Groups, Bookings, Blocks, NewBlock,    \* portfolio
    Exports, RowCount, MaxNotices, Items, MaxSyncs,    \* notices
    Tabs, Members                                      \* administration

ASSUME AnalyticsAssumption ==
    /\ AllTime \in Periods /\ None \notin Periods
    /\ Pieces \in [Agents -> Nat \ {0}]
ASSUME ListsAssumption ==
    /\ NoFilter \in Filters /\ None \notin Filters /\ LastPage \in Nat \ {0}
    /\ MatchingPages \in [Filters -> Nat]
ASSUME NoticesAssumption ==
    /\ IsFiniteSet(Exports) /\ Exports = 1..Cardinality(Exports) /\ 1 \in Exports
    /\ RowCount \in [Exports -> Nat] /\ None \notin Nat
    /\ None \notin [pending : Int, upTo : Nat]
    /\ {MaxSyncs, MaxFailures} \subseteq Nat /\ MaxNotices \in Nat \ {0, 1}
    /\ \A i, j \in 1..MaxNotices :
          None \notin [asOf : 1..MaxNotices, nextSkip : 1..MaxNotices, items : [i..j -> BOOLEAN]]
ASSUME PortfolioAssumption ==
    /\ NewBlock \in Blocks
    /\ None \notin Blocks \cup Tenants \cup Groups \cup Houses

VARIABLE page    \* the page that is open

vars == <<page, view, calls, world>>

Audit == INSTANCE AuditLogsPage
TeamAnalytics == INSTANCE TeamAnalyticsPage
AgentDetail == INSTANCE AgentDetailPage
Overview == INSTANCE OverviewPage
Booking == INSTANCE PropertyBookingPage
Assignment == INSTANCE TenantAssignmentPage
JoinUs == INSTANCE JoinUsPage
Profile == INSTANCE ProfilePage
PropertyForm == INSTANCE PropertyFormPage
House == INSTANCE PropertyDetailsPage
Properties == INSTANCE PropertiesListPage WITH LastPage <- MatchingPages
Management == INSTANCE PropertyManagementPage
GroupBookings == INSTANCE PortfolioBookingsPage
HouseBookings == INSTANCE PropertyBookingsPage
Records == INSTANCE RecordListPage
Feed == INSTANCE NoticeFeedPage
Queue == INSTANCE EvictionQueuePage
Sync == INSTANCE DataSyncPage
Users == INSTANCE UserManagementPage
Recruitment == INSTANCE RecruitmentPage
Commissions == INSTANCE CommissionsPage WITH Agents <- Payees
BlockList == INSTANCE BlocksPage
Settings == INSTANCE SettingsPage

ASSUME ManagementAssumption == None \notin Management!PropertyDoc

PageNames ==
    {"audit", "team analytics", "agent", "overview", "booking", "assignment", "application",
     "profile", "property form", "house", "properties", "management", "group bookings",
     "house bookings", "records", "feed", "queue", "sync", "users", "recruitment",
     "commissions", "blocks", "settings"}

Init ==
    \/ page = "audit" /\ Audit!Init
    \/ page = "team analytics" /\ TeamAnalytics!Init
    \/ page = "agent" /\ AgentDetail!Init
    \/ page = "overview" /\ Overview!Init
    \/ page = "booking" /\ Booking!Init
    \/ page = "assignment" /\ Assignment!Init
    \/ page = "application" /\ JoinUs!Init
    \/ page = "profile" /\ Profile!Init
    \/ page = "property form" /\ PropertyForm!Init
    \/ page = "house" /\ House!Init
    \/ page = "properties" /\ Properties!Init
    \/ page = "management" /\ Management!Init
    \/ page = "group bookings" /\ GroupBookings!Init
    \/ page = "house bookings" /\ HouseBookings!Init
    \/ page = "records" /\ Records!Init
    \/ page = "feed" /\ Feed!Init
    \/ page = "queue" /\ Queue!Init
    \/ page = "sync" /\ Sync!Init
    \/ page = "users" /\ Users!Init
    \/ page = "recruitment" /\ Recruitment!Init
    \/ page = "commissions" /\ Commissions!Init
    \/ page = "blocks" /\ BlockList!Init
    \/ page = "settings" /\ Settings!Init

Step ==
    \/ page = "audit" /\ Audit!Next
    \/ page = "team analytics" /\ TeamAnalytics!Next
    \/ page = "agent" /\ AgentDetail!Next
    \/ page = "overview" /\ Overview!Next
    \/ page = "booking" /\ Booking!Next
    \/ page = "assignment" /\ Assignment!Next
    \/ page = "application" /\ JoinUs!Next
    \/ page = "profile" /\ Profile!Next
    \/ page = "property form" /\ PropertyForm!Next
    \/ page = "house" /\ House!Next
    \/ page = "properties" /\ Properties!Next
    \/ page = "management" /\ Management!Next
    \/ page = "group bookings" /\ GroupBookings!Next
    \/ page = "house bookings" /\ HouseBookings!Next
    \/ page = "records" /\ Records!Next
    \/ page = "feed" /\ Feed!Next
    \/ page = "queue" /\ Queue!Next
    \/ page = "sync" /\ Sync!Next
    \/ page = "users" /\ Users!Next
    \/ page = "recruitment" /\ Recruitment!Next
    \/ page = "commissions" /\ Commissions!Next
    \/ page = "blocks" /\ BlockList!Next
    \/ page = "settings" /\ Settings!Next

Next == Step /\ UNCHANGED page

\* The timer of the sync page keeps polling, and requests are answered: the server
\* executes them and the browser's time limit ends the others.
PollFairness ==
    /\ WF_vars(page = "sync" /\ Sync!Poll /\ UNCHANGED page)
    /\ WF_vars(page = "sync" /\ Sync!AnswerSnapshot /\ UNCHANGED page)
    /\ WF_vars(page = "sync" /\ Sync!AnswerOwn /\ UNCHANGED page)
    /\ WF_vars(page = "sync" /\ Sync!Publish /\ UNCHANGED page)
    /\ WF_vars(page = "sync" /\ Sync!StoreSnapshot /\ UNCHANGED page)

Spec == Init /\ [][Next]_vars /\ PollFairness

-----------------------------------------------------------------------------
TypeOK ==
    /\ page \in PageNames
    /\ page = "audit" => Audit!TypeOK
    /\ page = "team analytics" => TeamAnalytics!TypeOK
    /\ page = "agent" => AgentDetail!TypeOK
    /\ page = "overview" => Overview!TypeOK
    /\ page = "booking" => Booking!TypeOK
    /\ page = "assignment" => Assignment!TypeOK
    /\ page = "application" => JoinUs!TypeOK
    /\ page = "profile" => Profile!TypeOK
    /\ page = "property form" => PropertyForm!TypeOK
    /\ page = "house" => House!TypeOK
    /\ page = "properties" => Properties!TypeOK
    /\ page = "management" => Management!TypeOK
    /\ page = "group bookings" => GroupBookings!TypeOK
    /\ page = "house bookings" => HouseBookings!TypeOK
    /\ page = "records" => Records!TypeOK
    /\ page = "feed" => Feed!TypeOK
    /\ page = "queue" => Queue!TypeOK
    /\ page = "sync" => Sync!TypeOK
    /\ page = "users" => Users!TypeOK
    /\ page = "recruitment" => Recruitment!TypeOK
    /\ page = "commissions" => Commissions!TypeOK
    /\ page = "blocks" => BlockList!TypeOK
    /\ page = "settings" => Settings!TypeOK

\* No spinner turns for ever, and no button stays disabled, because its request was
\* dropped or answered unseen: what is shown as under way is under way, whatever
\* answer is late, saved, repeated or an error.  Two pages are the exception, whose
\* first read has no handler of errors: when it failed, the ledger of commissions
\* (commissions.component.ts:261, 309) and the page for a tenant
\* (tenant-assignment.component.ts:173, 355) go on with "Loading" for ever.
SpinnersTurn ==
    /\ page = "audit" => Audit!SpinnersTurn
    /\ page = "team analytics" => TeamAnalytics!SpinnersTurn
    /\ page = "agent" => AgentDetail!SpinnersTurn
    /\ page = "overview" => Overview!SpinnersTurn
    /\ page = "booking" => Booking!SpinnersTurn
    /\ page = "assignment" => Assignment!SpinnersTurn
    /\ page = "application" => JoinUs!SpinnersTurn
    /\ page = "profile" => Profile!SpinnersTurn
    /\ page = "property form" => PropertyForm!SpinnersTurn
    /\ page = "house" => House!SpinnersTurn
    /\ page = "properties" => Properties!SpinnersTurn
    /\ page = "management" => Management!SpinnersTurn
    /\ page = "group bookings" => GroupBookings!SpinnersTurn
    /\ page = "house bookings" => HouseBookings!SpinnersTurn
    /\ page = "records" => Records!SpinnersTurn
    /\ page = "feed" => Feed!SpinnersTurn
    /\ page = "queue" => Queue!SpinnersTurn
    /\ page = "sync" => Sync!SpinnersTurn
    /\ page = "users" => Users!SpinnersTurn
    /\ page = "recruitment" => Recruitment!SpinnersTurn
    /\ page = "commissions" => Commissions!SpinnersTurn
    /\ page = "blocks" => BlockList!SpinnersTurn
    /\ page = "settings" => Settings!SpinnersTurn

\* Five pages that show one of several choices (filters, a page number, a period, an
\* agent, a house) show the one the user made last, however answers cross.
ShowsSelection ==
    /\ page = "audit" => Audit!ShowsSelection
    /\ page = "team analytics" => TeamAnalytics!ShowsSelection
    /\ page = "agent" => AgentDetail!ShowsSelection
    /\ page = "properties" => Properties!ShowsSelection
    /\ page = "house" => House!ShowsSelection

\* After a user's own actions a list, a row or a form shows what the server made of
\* them, although a preview or an older read was under way, once all is answered
\* and nothing was reported as failed.
FollowsActions ==
    /\ page = "management" => Management!RowFollowsActions
    /\ page = "group bookings" => GroupBookings!ListFollowsActions
    /\ page = "house bookings" => HouseBookings!ListFollowsActions
    /\ page = "queue" => Queue!QueueFollowsActions
    /\ page = "users" => Users!ListFollowsActions
    /\ page = "recruitment" => Recruitment!ListFollowsActions
    /\ page = "commissions" => Commissions!LedgerFollowsActions
    /\ page = "blocks" => BlockList!ListFollowsActions
    /\ page = "profile" => Profile!ShowsServer
    /\ page = "settings" => Settings!ShowsServer

\* A list read in steps is without gaps and repetitions although the server's data
\* changes between the steps.
PagingIsContinuous ==
    /\ page = "records" => Records!RowsOfOneExport
    /\ page = "feed" => Feed!FeedHasNoGaps

\* The totals above the notices count every resolution exactly once.
TotalsMatchNotices == page = "feed" => Feed!TotalsMatchNotices

\* What a page offers to its user the server's rules accept.
OffersAreAccepted ==
    /\ page = "management" => Management!OffersAreAccepted
    /\ page = "users" => Users!OffersAreAccepted

\* A form is sent with what its user saw: the preview of the split, the block that
\* was opened.
SendsWhatWasShown ==
    /\ page = "commissions" => Commissions!SavesAsPreviewed
    /\ page = "blocks" => BlockList!SavesWhatIsEdited

\* Every form sends one request at a time, which has one effect, and is done after
\* a success: they implement Submission, and none is executed twice unnoticed.
FormsSubmitOnce ==
    [][ /\ page = "booking" => [Booking!Form!Next]_(Booking!Form!vars)
        /\ page = "assignment" => [Assignment!Form!Next]_(Assignment!Form!vars)
        /\ page = "application" => [JoinUs!Form!Next]_(JoinUs!Form!vars)
        /\ page = "house" => [House!Form!Next]_(House!Form!vars)
      ]_vars

\* The form of an occupied property says "updated" only after both of its requests,
\* for the property and for the tenant, were stored.
SuccessIsOfBoth == [][page = "property form" => PropertyForm!SuccessComesLast]_vars

\* However polls and own answers cross, the sync page shows the latest snapshot
\* again and again, says that a read failed, or has a request under way.
SnapshotCatchesUp == []<>(page = "sync" => Sync!CatchesUp)

-----------------------------------------------------------------------------
(* For TLC: a filter without matches, an agent without a second piece, and  *)
(* an export with more notices than the one before and the one after it.    *)

SomeMatchingPages == [f \in Filters |-> IF f = NoFilter THEN 2 ELSE 0]
SomePieces == [a \in Agents |-> IF a \in Payees THEN 2 ELSE 1]
SomeRowCount == <<2, 3, 1>>
=============================================================================

--------------------------- MODULE NoticeFeedPage ---------------------------
(***************************************************************************)
(* notices.component.ts, overdue and eviction notices: a feed of notices,  *)
(* newest first, page by page, and their totals, which are read apart.     *)
(* Every sync adds a notice; notices are numbered in that order, and one   *)
(* is resolved or reopened with its checkbox.                              *)
(***************************************************************************)
EXTENDS Page, Sequences

CONSTANT MaxNotices     \* bound: notices there can be

Notices == 1..MaxNotices

\* feed: None, or the notices loaded with the cutoff and the length of the pages;
\* crossed: totals were asked for while a resolution was under way, or a notice
\* was resolved that is newer than the totals.
Opened ==
    [feed |-> None, summary |-> None, summaryError |-> FALSE, hasMore |-> FALSE,
     pageLoading |-> TRUE, loadError |-> FALSE, resolvingRow |-> None,
     crossed |-> FALSE, lost |-> FALSE]

First == [skip |-> 0, asOf |-> None]

TypeOK ==
    /\ DOMAIN view = DOMAIN Opened
    /\ view.feed # None =>
          /\ view.feed.asOf \in Notices /\ view.feed.nextSkip \in Notices
          /\ DOMAIN view.feed.items \subseteq Notices
    /\ view.summary # None => view.summary.pending \in Int /\ view.summary.upTo \in Notices
    /\ view.resolvingRow \in Notices \cup {None}
    /\ \A s \in {world.now, world.settled} : s \in Seq(BOOLEAN) /\ Len(s) <= MaxNotices
    /\ \A c \in calls : c.op \in {"feed", "summary", "resolve"}

\* now[k]: whether notice k is resolved.
Init ==
    /\ view = Opened
    /\ calls = {Call("feed", First), Call("summary", None)}
    /\ \E s \in {<<FALSE>>, <<TRUE, FALSE>>} : world = [now |-> s, settled |-> s]

Sync ==
    /\ Len(world.now) < MaxNotices
    /\ world' = [world EXCEPT !.now = Append(@, FALSE)]
    /\ UNCHANGED <<view, calls>>

\* Later pages are pinned to the cutoff of the first; a variant forgets it.
AskedUnpinned(append) ==
    IF append THEN [skip |-> view.feed.nextSkip, asOf |-> None] ELSE First
Asked(append) ==
    IF append THEN [skip |-> view.feed.nextSkip, asOf |-> view.feed.asOf] ELSE First

LoadNoticeFeed(append) ==
    /\ view' = [view EXCEPT !.pageLoading = TRUE, !.loadError = FALSE,
                            !.summaryError = @ /\ append]
    /\ calls' = {c \in calls : c.op # "feed" /\ (append \/ c.op # "summary")}
                    \cup {Call("feed", Asked(append))}
                    \cup IF append THEN {} ELSE {Call("summary", None)}
    /\ UNCHANGED world

\* Below the notices, "Load more".
MoreOffered == view.hasMore /\ ~view.pageLoading /\ view.resolvingRow = None
LoadMore == MoreOffered /\ LoadNoticeFeed(TRUE)
RetryLoad == view.loadError /\ LoadNoticeFeed(view.feed # None)

\* Above the notices: the totals, or that they are calculated or failed; the
\* failure is shown beside totals too.
Totals ==
    (IF view.summary # None THEN {"totals"} ELSE IF view.summaryError THEN {} ELSE {"calculating"})
        \cup IF view.summaryError THEN {"retry"} ELSE {}

LoadNoticeSummary ==
    /\ "retry" \in Totals
    /\ view' = [view EXCEPT !.summaryError = FALSE, !.crossed = @ \/ Waiting("resolve")]
    /\ Switch(Call("summary", None))
    /\ UNCHANGED world

\* One notice per page.
ReceiveFeed ==
    \E c \in Under("feed"), s \in Fresh :
        LET append == c.arg.skip > 0
            cutoff == IF c.arg.asOf = None THEN Len(s) ELSE c.arg.asOf
            key == cutoff - c.arg.skip
            old == IF append THEN view.feed.items ELSE <<>>
        IN  /\ IF append THEN Ends(c) ELSE Shows(c)
            /\ key \in 1..Len(s)
            /\ view' = [view EXCEPT
                  !.feed = [asOf |-> cutoff, nextSkip |-> c.arg.skip + 1,
                            items |-> [k \in DOMAIN old \cup {key} |->
                                          IF k = key THEN s[k] ELSE old[k]]],
                  !.hasMore = c.arg.skip + 1 < cutoff,
                  !.pageLoading = \E d \in calls' : d.op = "feed"]
            /\ UNCHANGED world

FailFeed ==
    \E c \in Under("feed") :
        /\ Ends(c)
        /\ view' = [view EXCEPT !.pageLoading = FALSE, !.loadError = TRUE]
        /\ UNCHANGED world

QuietFeed ==
    \E c \in Under("feed") :
        /\ c.seen /\ Ends(c)
        /\ view' = [view EXCEPT !.pageLoading = FALSE]
        /\ UNCHANGED world

Unresolved(s, n) == Cardinality({k \in 1..n : ~s[k]})

ReceiveSummary ==
    \E c \in Under("summary"), s \in Fresh :
        /\ Shows(c)
        /\ view' = [view EXCEPT !.summary = [pending |-> Unresolved(s, Len(s)), upTo |-> Len(s)]]
        /\ UNCHANGED world

FailSummary ==
    \E c \in Under("summary") :
        /\ Ends(c)
        /\ view' = [view EXCEPT !.summaryError = TRUE]
        /\ UNCHANGED world

QuietSummary == \E c \in Under("summary") : EndsQuietly(c)

-----------------------------------------------------------------------------
\* The template: every notice loaded has its checkbox, one of them at a time.
MayResolve(k) ==
    /\ view.feed # None /\ k \in DOMAIN view.feed.items
    /\ view.resolvingRow = None /\ ~view.pageLoading

\* The checkbox of a notice.  Totals under way are dropped: whether they count
\* the change cannot be told.  A variant lets them come.
SetResolutionBeside(k) ==
    /\ MayResolve(k)
    /\ view' = [view EXCEPT !.resolvingRow = k]
    /\ Subscribe(Call("resolve", [key |-> k, resolved |-> ~view.feed.items[k]]))
    /\ UNCHANGED world
SetResolution(k) ==
    /\ MayResolve(k)
    /\ view' = [view EXCEPT !.resolvingRow = k]
    /\ calls' = (calls \ Under("summary"))
                    \cup {Call("resolve", [key |-> k, resolved |-> ~view.feed.items[k]])}
    /\ UNCHANGED world

SetRecordResolution ==
    \E c \in Under("resolve") :
        /\ Executes(c)
        /\ world' = [world EXCEPT !.now[c.arg.key] = c.arg.resolved]
        /\ UNCHANGED view

\* The totals are corrected by the difference, or read if there are none.
Corrected(summary, c) ==
    [summary EXCEPT !.pending = IF c.arg.resolved THEN @ - 1 ELSE @ + 1]
Resolved ==
    \E c \in Under("resolve") :
        /\ c.seen
        /\ view' = [view EXCEPT !.feed.items[c.arg.key] = c.arg.resolved,
                                !.summary = IF @ = None THEN None ELSE Corrected(@, c),
                                !.summaryError = @ /\ view.summary # None,
                                !.resolvingRow = None,
                                !.crossed = \/ @
                                            \/ view.summary # None /\ view.summary.upTo < c.arg.key]
        /\ calls' = IF view.summary # None THEN calls \ {c}
                    ELSE (calls \ ({c} \cup Under("summary"))) \cup {Call("summary", None)}
        /\ Settle

NotResolved ==
    \E c \in Under("resolve") :
        /\ view' = [view EXCEPT !.summaryError = @ /\ view.summary # None,
                                !.resolvingRow = None, !.lost = TRUE]
        /\ calls' = IF view.summary # None THEN calls \ {c}
                    ELSE (calls \ ({c} \cup Under("summary"))) \cup {Call("summary", None)}
        /\ Settle

Answer ==
    \/ ReceiveFeed \/ FailFeed \/ QuietFeed
    \/ ReceiveSummary \/ FailSummary \/ QuietSummary \/ Resolved \/ NotResolved
Next ==
    \/ Sync \/ LoadMore \/ RetryLoad \/ LoadNoticeSummary \/ SetRecordResolution \/ Answer
    \/ \E k \in Notices : SetResolution(k)

-----------------------------------------------------------------------------
\* The notices loaded are the newest up to the cutoff, none skipped and none
\* twice, although syncs put newer ones before them.
FeedHasNoGaps ==
    view.feed # None =>
        /\ DOMAIN view.feed.items =
              (view.feed.asOf - view.feed.nextSkip + 1)..view.feed.asOf
        /\ view.hasMore <=> view.feed.nextSkip < view.feed.asOf

\* Unless a failure was reported, checkboxes and totals are those of the server
\* once nothing is under way: no resolution is counted twice or not at all.  The
\* exception is crossed.
TotalsMatchNotices ==
    calls = {} /\ ~view.lost =>
        /\ view.feed # None =>
              \A k \in DOMAIN view.feed.items : view.feed.items[k] = world.now[k]
        /\ view.summary # None /\ ~view.crossed =>
              view.summary.pending = Unresolved(world.now, view.summary.upTo)

\* What is shown as under way is under way.
SpinnersTurn ==
    /\ view.pageLoading => Waiting("feed")
    /\ "calculating" \in Totals => Waiting("summary") \/ Waiting("resolve")
    /\ view.resolvingRow # None => Waiting("resolve")
=============================================================================

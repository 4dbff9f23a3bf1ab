----------------------------- MODULE DataModels -----------------------------
(***************************************************************************)
(* The browser's read layer: DataModelService (bounded, short-lived        *)
(* display models) behind ApiService (shared requests, invalidation around *)
(* every mutation).  A model is known by the server state it was computed  *)
(* from; what it contains is left out.                                     *)
(*                                                                         *)
(* clearSavedData moves ApiService.generation and DataModelService.version *)
(* together and nothing else moves either, so "the version I captured is   *)
(* still the current one" is one flag of the request a reader waits for.   *)
(***************************************************************************)
EXTENDS Integers, Sequences, SequencesExt, FiniteSets, TLC

CONSTANTS
    Keys,            \* urls with their query
    Readers,         \* subscriptions alive at the same time
    Writers,         \* mutations under way at the same time
    None,
    Sizes,           \* Sizes[k]: the sizes an answer for k may have
    MaxEntries,      \* 80 in the code
    MaxBytes,        \* 8 MiB
    MaxModelBytes,   \* 1 MiB
    MaxServer        \* bound: commits of the server in one behaviour

ASSUME SizesAssumption == Sizes \in [Keys -> SUBSET Nat]
ASSUME BoundsAssumption ==
    /\ MaxEntries \in Nat \ {0}
    /\ MaxModelBytes \in Nat /\ MaxBytes \in Nat /\ MaxModelBytes <= MaxBytes
    /\ MaxServer \in Nat
ASSUME ReadersAssumption == IsFiniteSet(Readers)

VARIABLES
    server,           \* commits of the server (the data every answer shows)
    settled,          \* history: the server when the last own write was answered
    models,           \* Map of saved models, least recently used first
    bytes,
    failures,         \* keys whose background refresh failed
    pendingRefreshes, \* readers that show a preview and refresh it
    refreshing,       \* the two signals of the status banner
    refreshFailed,
    pendingReads,     \* pendingReads[<<k, quiet>>]: the request to share, or None
    requests,         \* requests[i]: an HTTP GET
    reading,          \* reading[r]: a subscription of a page
    handed,           \* handed[r]: what the last step handed to it, or None
    writes            \* writes[w]: a mutation

store == <<models, bytes, failures, refreshFailed>>
flags == <<pendingRefreshes, refreshing>>
net   == <<pendingReads, requests>>
subs  == <<reading, handed>>
vars  == <<server, settled, store, flags, net, subs, writes>>

Ids   == 1..Cardinality(Readers)
Modes == Keys \X BOOLEAN
Ages  == {"new", "mid", "old"}     \* under 10 s, under two minutes, older

SavedModel == [key : Keys, value : Nat, age : Ages, bytes : Nat]
Answers    == [value : Nat, bytes : Nat]
Request    == [mode : Modes, current : BOOLEAN, answer : Answers \cup {None}]
Reading    == [kind : {"read", "get"}, floor : Nat, req : Ids]

ASSUME NoneAssumption == None \notin Nat /\ None \notin Answers /\ None \notin Request

Idle       == [kind |-> "idle", floor |-> 0]
Nothing    == [r \in Readers |-> None]

-----------------------------------------------------------------------------
(* DataModelService                                                        *)

Sum(s) == FoldLeft(LAMBDA total, n : total + n, 0, [i \in DOMAIN s |-> s[i].bytes])
KeysOf(s) == {s[i].key : i \in DOMAIN s}
IndexOf(s, k) == CHOOSE i \in DOMAIN s : s[i].key = k
EntryOf(s, k) == s[IndexOf(s, k)]
Without(s, k) == IF k \in KeysOf(s) THEN RemoveAt(s, IndexOf(s, k)) ELSE s
HasSaved(s, k) == k \in KeysOf(s) /\ EntryOf(s, k).age # "old"

\* read: a model younger than ten seconds whose last refresh did not fail.
Reusable(s, f, k) == HasSaved(s, k) /\ EntryOf(s, k).age = "new" /\ k \notin f

\* A saved model moves to the recent end; an expired one is removed.
Touched(s, k) ==
    IF HasSaved(s, k) THEN Append(Without(s, k), EntryOf(s, k)) ELSE Without(s, k)

BytesWithout(s, b, k) == IF k \in KeysOf(s) THEN b - EntryOf(s, k).bytes ELSE b

\* A variant of RemoveModel: the bytes of the removed model stay counted.
RemoveModelKeepingBytes(k) ==
    /\ models' = Without(models, k)
    /\ bytes' = bytes
    /\ failures' = failures \ {k}
    /\ refreshFailed' = (failures' # {})

\* remove(key)
RemoveModel(k) ==
    /\ models' = Without(models, k)
    /\ bytes' = BytesWithout(models, bytes, k)
    /\ failures' = failures \ {k}
    /\ refreshFailed' = (failures' # {})

\* remember: how many of the least recently used models have to go.
Evicted(s, b, new) ==
    CHOOSE n \in 0..Len(s) :
        LET Fits(i) == /\ Len(s) - i < MaxEntries
                       /\ b - Sum(SubSeq(s, 1, i)) + new <= MaxBytes
        IN  Fits(n) /\ \A i \in 0..(n - 1) : ~Fits(i)

\* remember(key, value), and the failures read clears with it.
Remember(k, answer) ==
    LET rest == Without(models, k)
        left == BytesWithout(models, bytes, k)
        n    == Evicted(rest, left, answer.bytes)
        gone == KeysOf(SubSeq(rest, 1, n))
    IN  IF answer.bytes > MaxModelBytes
        THEN RemoveModel(k)
        ELSE /\ models' = Append(SubSeq(rest, n + 1, Len(rest)),
                                 [key |-> k, value |-> answer.value,
                                  age |-> "new", bytes |-> answer.bytes])
             /\ bytes' = left - Sum(SubSeq(rest, 1, n)) + answer.bytes
             /\ failures' = failures \ (gone \cup {k})
             /\ refreshFailed' = (failures' # {})

\* A variant of Invalidate: only the failures are forgotten.
InvalidateFailures == failures' = {} /\ refreshFailed' = FALSE /\ UNCHANGED <<models, bytes>>

\* invalidate
Invalidate ==
    /\ models' = <<>>
    /\ bytes' = 0
    /\ failures' = {}
    /\ refreshFailed' = FALSE

\* A variant of Finalize: the tokens stay.
FinalizeKeepingTokens(rs) ==
    /\ pendingRefreshes' = pendingRefreshes
    /\ refreshing' = (pendingRefreshes' # {})

\* finalize of a refresh: the readers' tokens go, the signal follows.
Finalize(rs) ==
    /\ pendingRefreshes' = pendingRefreshes \ rs
    /\ refreshing' = (pendingRefreshes' # {})

-----------------------------------------------------------------------------
(* ApiService                                                              *)

Subscribers(i) == {r \in Readers : reading[r] # Idle /\ reading[r].req = i}
FreeId == CHOOSE i \in Ids : requests[i] = None

\* A variant of Outdated: the version is not compared.
OutdatedNever(reqs) == reqs

\* Nothing that is under way when the version moves may be published.
Outdated(reqs) == [i \in Ids |-> IF reqs[i] = None THEN None ELSE [reqs[i] EXCEPT !.current = FALSE]]

\* clearSavedData: and nothing that is under way may be shared.
ClearSavedData ==
    /\ Invalidate
    /\ pendingReads' = [m \in Modes |-> None]
    /\ requests' = Outdated(requests)

\* A variant of Renewed: a read that starts over keeps the version it captured first.
RenewedKeepingVersion(m) == [mode |-> m, current |-> FALSE, answer |-> None]

\* network: the pending request for this key and mode, or a new one.
NewRequest(m) == [mode |-> m, current |-> TRUE, answer |-> None]
Renewed(m) == NewRequest(m)
RequestFor(m) == IF pendingReads[m] # None THEN pendingReads[m] ELSE FreeId
Network(m) ==
    /\ requests' = IF requests[RequestFor(m)] # None THEN requests
                   ELSE [requests EXCEPT ![FreeId] = NewRequest(m)]
    /\ pendingReads' = [pendingReads EXCEPT ![m] = RequestFor(m)]

\* A variant of Dropped: an ended request stays on offer.
DroppedNever(i) == pendingReads

\* The request ends: it is shared no more.
Dropped(i) == [m \in Modes |-> IF pendingReads[m] = i THEN None ELSE pendingReads[m]]

-----------------------------------------------------------------------------
Init ==
    /\ server = 0 /\ settled = 0
    /\ models = <<>> /\ bytes = 0
    /\ failures = {} /\ refreshFailed = FALSE
    /\ pendingRefreshes = {} /\ refreshing = FALSE
    /\ pendingReads = [m \in Modes |-> None]
    /\ requests = [i \in Ids |-> None]
    /\ reading = [r \in Readers |-> Idle]
    /\ handed = Nothing
    /\ writes = [w \in Writers |-> "idle"]

\* A page subscribes to a display read and finds a model it may reuse.
ReadSaved(r, k) ==
    /\ reading[r] = Idle
    /\ Reusable(models, failures, k)
    /\ handed' = [Nothing EXCEPT ![r] = EntryOf(models, k).value]
    /\ models' = Touched(models, k)
    /\ UNCHANGED <<server, settled, bytes, failures, refreshFailed, flags, net, reading, writes>>

\* It finds a model worth a preview: shown at once, refreshed in the background.
ReadPreview(r, k) ==
    /\ reading[r] = Idle
    /\ HasSaved(models, k) /\ ~Reusable(models, failures, k)
    /\ handed' = [Nothing EXCEPT ![r] = EntryOf(models, k).value]
    /\ models' = Touched(models, k)
    /\ pendingRefreshes' = pendingRefreshes \cup {r}
    /\ refreshing' = TRUE
    /\ Network(<<k, TRUE>>)
    /\ reading' = [reading EXCEPT ![r] =
                      [kind |-> "read", floor |-> 0, req |-> RequestFor(<<k, TRUE>>)]]
    /\ UNCHANGED <<server, settled, bytes, failures, refreshFailed, writes>>

\* It finds nothing it may show and waits for the server.
ReadFresh(r, k) ==
    /\ reading[r] = Idle
    /\ ~HasSaved(models, k)
    /\ RemoveModel(k)
    /\ Network(<<k, FALSE>>)
    /\ reading' = [reading EXCEPT ![r] =
                      [kind |-> "read", floor |-> 0, req |-> RequestFor(<<k, FALSE>>)]]
    /\ handed' = Nothing
    /\ UNCHANGED <<server, settled, flags, writes>>

\* An uncached read: forms, permissions and eviction eligibility.
Get(r, k) ==
    /\ reading[r] = Idle
    /\ Network(<<k, FALSE>>)
    /\ reading' = [reading EXCEPT ![r] =
                      [kind |-> "get", floor |-> settled, req |-> RequestFor(<<k, FALSE>>)]]
    /\ handed' = Nothing
    /\ UNCHANGED <<server, settled, store, flags, writes>>

\* The server computes the answer; it travels while other things happen.
Answer(i) ==
    /\ requests[i] # None /\ requests[i].answer = None
    /\ \E b \in Sizes[requests[i].mode[1]] :
          requests' = [requests EXCEPT ![i].answer = [value |-> server, bytes |-> b]]
    /\ handed' = Nothing
    /\ UNCHANGED <<server, settled, store, flags, pendingReads, reading, writes>>

\* The answer arrives and no write finished meanwhile: every subscriber gets
\* it and the model is saved for the display reads among them.
DeliverCurrent(i) ==
    /\ requests[i] # None /\ requests[i].answer # None /\ requests[i].current
    /\ LET all   == Subscribers(i)
           reads == {r \in all : reading[r].kind = "read"}
       IN  /\ IF reads = {} THEN UNCHANGED store
              ELSE Remember(requests[i].mode[1], requests[i].answer)
           /\ handed' = [r \in Readers |-> IF r \in all THEN requests[i].answer.value ELSE None]
           /\ reading' = [r \in Readers |-> IF r \in all THEN Idle ELSE reading[r]]
           /\ Finalize(reads)
    /\ requests' = [requests EXCEPT ![i] = None]
    /\ pendingReads' = Dropped(i)
    /\ UNCHANGED <<server, settled, writes>>

\* The answer arrives after an invalidation.  Uncached reads still get it;
\* display reads start over, with whatever was saved meanwhile.
DeliverOutdated(i) ==
    /\ requests[i] # None /\ requests[i].answer # None /\ ~requests[i].current
    /\ LET k     == requests[i].mode[1]
           all   == Subscribers(i)
           reads == {r \in all : reading[r].kind = "read"}
           gets  == all \ reads
           m     == <<k, HasSaved(models, k)>>
           free  == [requests EXCEPT ![i] = None]
           next  == IF pendingReads[m] # None THEN pendingReads[m] ELSE i
       IN  /\ handed' = [r \in Readers |->
                 IF r \in gets THEN requests[i].answer.value
                 ELSE IF r \in reads /\ HasSaved(models, k) THEN EntryOf(models, k).value
                 ELSE None]
           /\ \/ /\ reads = {}
                 /\ reading' = [r \in Readers |-> IF r \in all THEN Idle ELSE reading[r]]
                 /\ requests' = free
                 /\ UNCHANGED <<store, flags, pendingReads>>
              \/ /\ reads # {} /\ Reusable(models, failures, k)
                 /\ models' = Touched(models, k)
                 /\ reading' = [r \in Readers |-> IF r \in all THEN Idle ELSE reading[r]]
                 /\ requests' = free
                 /\ Finalize(reads)
                 /\ UNCHANGED <<bytes, failures, refreshFailed, pendingReads>>
              \/ /\ reads # {} /\ ~Reusable(models, failures, k)
                 /\ reading' = [r \in Readers |->
                       IF r \in gets THEN Idle
                       ELSE IF r \in reads THEN [reading[r] EXCEPT !.req = next]
                       ELSE reading[r]]
                 /\ requests' = IF next = i
                                THEN [requests EXCEPT ![i] = Renewed(m)]
                                ELSE free
                 /\ pendingReads' = [pendingReads EXCEPT ![m] = next]
                 /\ IF HasSaved(models, k)
                    THEN /\ models' = Touched(models, k)
                         /\ pendingRefreshes' = pendingRefreshes \cup reads
                         /\ refreshing' = TRUE
                         /\ UNCHANGED <<bytes, failures, refreshFailed>>
                    ELSE RemoveModel(k) /\ UNCHANGED flags
    /\ UNCHANGED <<server, settled, writes>>

\* The request fails: unreachable or 5xx ("down"), 401 or 403 ("denied"), or
\* any other answer the client takes for an error.
Fail(i, error) ==
    /\ requests[i] # None
    /\ LET k     == requests[i].mode[1]
           all   == Subscribers(i)
           reads == {r \in all : reading[r].kind = "read"}
           current == requests[i].current
       IN  /\ \/ /\ error = "denied" /\ current
                 /\ Invalidate
                 /\ pendingReads' = [m \in Modes |-> None]
                 /\ requests' = [Outdated(requests) EXCEPT ![i] = None]
              \/ /\ error # "denied" \/ ~current
                 /\ requests' = [requests EXCEPT ![i] = None]
                 /\ pendingReads' = Dropped(i)
                 /\ IF reads = {} \/ ~current THEN UNCHANGED store
                    ELSE IF requests[i].mode[2] /\ error = "down"
                    THEN /\ failures' = failures \cup {k}
                         /\ refreshFailed' = TRUE
                         /\ UNCHANGED <<models, bytes>>
                    ELSE RemoveModel(k)
           /\ reading' = [r \in Readers |-> IF r \in all THEN Idle ELSE reading[r]]
           /\ Finalize(reads)
    /\ handed' = Nothing
    /\ UNCHANGED <<server, settled, writes>>

\* The page goes away; its request is cancelled with its last subscriber.
Leave(r) ==
    /\ reading[r] # Idle
    /\ LET i == reading[r].req
           last == Subscribers(i) = {r}
       IN  /\ requests' = IF last THEN [requests EXCEPT ![i] = None] ELSE requests
           /\ pendingReads' = IF last THEN Dropped(i) ELSE pendingReads
    /\ reading' = [reading EXCEPT ![r] = Idle]
    /\ Finalize({r})
    /\ handed' = Nothing
    /\ UNCHANGED <<server, settled, store, writes>>

-----------------------------------------------------------------------------
\* mutate: models are cleared before the request is sent ...
BeginWrite(w) ==
    /\ writes[w] = "idle"
    /\ writes' = [writes EXCEPT ![w] = "sent"]
    /\ ClearSavedData
    /\ handed' = Nothing
    /\ UNCHANGED <<server, settled, flags, reading>>

\* ... the server commits it, or a lost one that it received after all ...
Commit(w) ==
    /\ writes[w] \in {"sent", "lost"}
    /\ server < MaxServer
    /\ server' = server + 1
    /\ writes' = [writes EXCEPT ![w] = IF writes[w] = "lost" THEN "idle" ELSE "committed"]
    /\ handed' = Nothing
    /\ UNCHANGED <<settled, store, flags, net, reading>>

\* ... and cleared again when it ends: answered or failed after the commit,
EndWrite(w) ==
    /\ writes[w] = "committed"
    /\ writes' = [writes EXCEPT ![w] = "idle"]
    /\ settled' = server
    /\ ClearSavedData
    /\ handed' = Nothing
    /\ UNCHANGED <<server, flags, reading>>

\* refused by the server,
RefuseWrite(w) ==
    /\ writes[w] = "sent"
    /\ writes' = [writes EXCEPT ![w] = "idle"]
    /\ ClearSavedData
    /\ handed' = Nothing
    /\ UNCHANGED <<server, settled, flags, reading>>

\* or timed out or left by its page while the server may still commit it.
LoseWrite(w) ==
    /\ writes[w] = "sent"
    /\ writes' = [writes EXCEPT ![w] = "lost"]
    /\ ClearSavedData
    /\ handed' = Nothing
    /\ UNCHANGED <<server, settled, flags, reading>>

\* Another user, or the sync, writes.
OtherWrite ==
    /\ server < MaxServer
    /\ server' = server + 1
    /\ handed' = Nothing
    /\ UNCHANGED <<settled, store, flags, net, reading, writes>>

\* A Refresh button (AuditService.refresh, NoticeService.refresh).
Refresh ==
    /\ ClearSavedData
    /\ handed' = Nothing
    /\ UNCHANGED <<server, settled, flags, reading, writes>>

\* Sign-in, logout, auth refresh: display reads are cut off, other requests stay.
ResetSession ==
    /\ Invalidate
    /\ pendingReads' = [m \in Modes |-> None]
    /\ LET reads == {r \in Readers : reading[r].kind = "read"}
           kept  == {i \in Ids : Subscribers(i) \ reads # {}}
       IN  /\ reading' = [r \in Readers |-> IF r \in reads THEN Idle ELSE reading[r]]
           /\ requests' = [i \in Ids |-> IF i \in kept THEN Outdated(requests)[i] ELSE None]
           /\ Finalize(reads)
    /\ handed' = Nothing
    /\ UNCHANGED <<server, settled, writes>>

\* Time passes for a saved model.
Age(n) ==
    /\ n \in DOMAIN models /\ models[n].age # "old"
    /\ models' = [models EXCEPT ![n].age = IF @ = "new" THEN "mid" ELSE "old"]
    /\ handed' = Nothing
    /\ UNCHANGED <<server, settled, bytes, failures, refreshFailed, flags, net, reading, writes>>

-----------------------------------------------------------------------------
Read(r, k) == ReadSaved(r, k) \/ ReadPreview(r, k) \/ ReadFresh(r, k)
Deliver(i) == DeliverCurrent(i) \/ DeliverOutdated(i)
Errors == {"down", "denied", "other"}

\* The steps after which a read under way has to start over.
Clears ==
    \/ \E w \in Writers : BeginWrite(w) \/ EndWrite(w) \/ RefuseWrite(w) \/ LoseWrite(w)
    \/ Refresh \/ ResetSession
    \/ \E i \in Ids : Fail(i, "denied")

Next ==
    \/ \E r \in Readers, k \in Keys : Read(r, k) \/ Get(r, k)
    \/ \E r \in Readers : Leave(r)
    \/ \E i \in Ids : Answer(i) \/ Deliver(i) \/ \E e \in Errors : Fail(i, e)
    \/ \E w \in Writers : BeginWrite(w) \/ Commit(w) \/ EndWrite(w) \/ RefuseWrite(w) \/ LoseWrite(w)
    \/ OtherWrite \/ Refresh \/ ResetSession
    \/ \E n \in 1..MaxEntries : Age(n)

Spec == Init /\ [][Next]_vars

\* The browser ends every request: it is answered or fails, and an answer
\* that arrived is handed over.  Users and time owe nothing.
Fairness == \A i \in Ids :
    /\ WF_vars(Answer(i) \/ \E e \in Errors : Fail(i, e))
    /\ WF_vars(Deliver(i) \/ \E e \in Errors : Fail(i, e))
FairSpec == Spec /\ Fairness

-----------------------------------------------------------------------------
TypeOK ==
    /\ server \in 0..MaxServer /\ settled \in 0..server
    /\ models \in Seq(SavedModel) /\ bytes \in Nat
    /\ failures \subseteq Keys /\ refreshFailed \in BOOLEAN
    /\ pendingRefreshes \subseteq Readers /\ refreshing \in BOOLEAN
    /\ pendingReads \in [Modes -> Ids \cup {None}]
    /\ requests \in [Ids -> Request \cup {None}]
    /\ reading \in [Readers -> Reading \cup {Idle}]
    /\ handed \in [Readers -> 0..MaxServer \cup {None}]
    /\ writes \in [Writers -> {"idle", "sent", "committed", "lost"}]

\* However models are saved, replaced, evicted, expired and dropped, the store
\* keeps one model per key, at most 80 of them, none above 1 MiB, and the byte
\* count it evicts by is the size of what it holds, at most 8 MiB
\* (docs/PERFORMANCE.md:28, DataModelService.remember and remove).
StoreWithinBounds ==
    /\ Len(models) <= MaxEntries
    /\ \A i, j \in DOMAIN models : models[i].key = models[j].key => i = j
    /\ \A i \in DOMAIN models : models[i].bytes <= MaxModelBytes
    /\ bytes = Sum(models) /\ bytes <= MaxBytes

\* No saved model, and no answer on its way that may still be saved, shows
\* the server as it was before an own write that has been answered, whatever
\* the order in which reads, writes and their answers arrive.
ModelsSeeOwnWrites ==
    /\ \A i \in DOMAIN models : models[i].value >= settled
    /\ \A i \in Ids : requests[i] # None /\ requests[i].answer # None /\ requests[i].current
                         => requests[i].answer.value >= settled

\* Identical reads share one request: two requests for one key and mode are
\* under way only when a write cut the older one off, and a request is offered
\* for sharing exactly while it is under way and has a reader.
RequestsAreShared ==
    /\ \A i \in Ids : requests[i] # None => Subscribers(i) # {}
    /\ \A i \in Ids, m \in Modes :
          pendingReads[m] = i <=> requests[i] # None /\ requests[i].current /\ requests[i].mode = m

\* The read layer keeps the promise pages rely on.
Promise == INSTANCE DisplayReads WITH
    reading <- [r \in Readers |-> [kind |-> reading[r].kind, floor |-> reading[r].floor]]
ReadsKeepPromise == Promise!Spec

\* Unless writes and refreshes go on for ever, every read of a page ends.
ReadsEnd ==
    (<>[][~Clears]_vars) => \A r \in Readers : reading[r] # Idle ~> reading[r] = Idle

\* ... and the "Updating" banner goes away when nobody starts another read.
Reads == \E r \in Readers, k \in Keys : Read(r, k)
BannerGoes ==
    (<>[][~Clears /\ ~Reads]_vars) => <>[]~refreshing

-----------------------------------------------------------------------------
(* For TLC: with MaxBytes = 3, two models of size 2 are too much together and *)
(* the older one is evicted; an answer of size 3 is never saved.              *)

SmallAnswers == [k \in Keys |-> {2}]
SomeOversized == [k \in Keys |-> {2, 3}]

\* Keys have the same sizes and every property treats readers alike.
Symmetry == Permutations(Keys) \cup Permutations(Readers)
=============================================================================

------------------------------ MODULE WatchSync --------------------------------
(***************************************************************************)
(* How the cached documents of the one query the app listens to come to    *)
(* agree with the server's, over streams that break and restarts of the    *)
(* app: WatchChangeAggregator (remote_event.cc), the listens of            *)
(* RemoteStore, the query's View, and the limbo resolutions of SyncEngine. *)
(*                                                                         *)
(* A resume token stands for the documents the server had told; with it    *)
(* the server sends only what is new, and may leave out the deletions and  *)
(* send the number of documents instead (an existence filter).  A cached   *)
(* document the server does not list is in limbo: a listen of its own asks *)
(* for it.  Target 0 is the query, the others are limbo resolutions.       *)
(*                                                                         *)
(* A document has no content here: it was never there, is there, or was    *)
(* deleted, and this order is also the order of its versions.  Of local    *)
(* writes only those that create a document matter (to limbo).             *)
(***************************************************************************)
EXTENDS Naturals, Sequences, FiniteSets, ListOps

CONSTANTS
    NumDocs,      \* documents are numbered in the order of their keys
    Own,          \* bound: the documents this device creates
    MaxActive,    \* max_concurrent_limbo_resolutions_
    MaxBreaks,    \* bound on the streams that break
    MaxRestarts   \* bound on the restarts of the app

Doc == 1 .. NumDocs

ASSUME WatchSyncAssumption ==
    /\ NumDocs \in Nat /\ MaxBreaks \in Nat /\ MaxRestarts \in Nat
    /\ Own \subseteq Doc
    /\ MaxActive \in Nat \ {0}

VARIABLES
    serverDocs,   \* the documents on the server
    cache,        \* the remote document cache, on disk
    keys,         \* the query's remote keys in the target cache, on disk
    token,        \* the query's resume token in the target cache, on disk
    mutated,      \* the documents with a queued write, on disk
    synced,       \* View::synced_documents_
    current,      \* View::current_
    limbo,        \* View::limbo_documents_
    mutatedKeys,  \* View::mutated_keys_: documents the view has with local mutations
    queue,        \* enqueued_limbo_resolutions_
    active,       \* active_limbo_resolutions_by_target_
    resume,       \* listen_targets_, with their resume tokens
    open,         \* the watch stream is open
    heard,        \* and a response has come: the app is online
    states,       \* target_states_ of the aggregator
    updates,      \* pending_document_updates_
    mismatch,     \* pending_target_resets_ holds the query
    toServer,     \* requests on this stream
    toClient,     \* responses on this stream
    told,         \* the server: per target of this stream what it has told
    breaks, restarts,
    intact        \* history: whenever the app was started, the query's token on
                  \* disk stood for documents that its keys on disk held

diskVars == <<cache, keys, token, mutated>>
viewVars == <<synced, current, limbo, mutatedKeys>>
syncVars == <<queue, active, resume>>
aggregatorVars == <<states, updates, mismatch>>
streamVars == <<open, heard, toServer, toClient, told>>
watchSyncVars == <<serverDocs, diskVars, viewVars, syncVars, aggregatorVars, streamVars,
                   breaks, restarts, intact>>

DocState == {"unborn", "present", "deleted"}
NoToken == {0}    \* no set of documents
Token == (SUBSET Doc) \union {NoToken}
Target == Nat
Change == {"none", "added", "modified", "removed"}

TargetStates == [outstanding : Nat, current : BOOLEAN, changes : [Doc -> Change],
                 pending : BOOLEAN]

(* What the client sends: watch or unwatch a target. *)
ClientMessage ==
    [type : {"watch"}, target : Target, scope : SUBSET Doc, token : Token]
        \union [type : {"unwatch"}, target : Target]

(* What the server sends: acknowledgements, what it tells of a target, and *)
(* that all it told is as of one time.                                     *)
ServerMessage ==
    [type : {"added", "removed", "current", "reset"}, target : Target]
        \union [type : {"change"}, target : Target, here : SUBSET Doc, gone : SUBSET Doc]
        \union [type : {"filter"}, target : Target, count : Nat]
        \union [type : {"snapshot"}, token : SUBSET Doc]

NoChanges == [d \in Doc |-> "none"]
Fresh == [outstanding |-> 0, current |-> FALSE, changes |-> NoChanges, pending |-> FALSE]

SyncTypeOK ==
    /\ serverDocs \in [Doc -> DocState] /\ cache \in [Doc -> DocState]
    /\ keys \subseteq Doc /\ token \in Token /\ mutated \subseteq Own
    /\ synced \subseteq Doc /\ current \in BOOLEAN /\ limbo \subseteq Doc
    /\ mutatedKeys \subseteq Doc
    /\ queue \in Seq(Doc)
    /\ DOMAIN active \subseteq Target \ {0}
    /\ \A t \in DOMAIN active : active[t] \in [key : Doc, received : BOOLEAN]
    /\ DOMAIN resume = DOMAIN active \union {0}
    /\ \A t \in DOMAIN resume : resume[t] \in Token
    /\ open \in BOOLEAN /\ heard \in BOOLEAN
    /\ toServer \in Seq(ClientMessage) /\ toClient \in Seq(ServerMessage)
    /\ DOMAIN told \subseteq Target
    /\ \A t \in DOMAIN told : told[t] \in [scope : SUBSET Doc, docs : SUBSET Doc]
    /\ DOMAIN states \subseteq Target
    /\ \A t \in DOMAIN states : states[t] \in TargetStates
    /\ updates \in [Doc -> {"none", "present", "deleted", "revoked"}]
    /\ mismatch \in BOOLEAN
    /\ breaks \in 0 .. MaxBreaks /\ restarts \in 0 .. MaxRestarts /\ intact \in BOOLEAN

(* The first listen of an app that was never online; its own documents are *)
(* still to come.                                                          *)
SyncInit ==
    /\ serverDocs \in [Doc -> {"unborn", "present"}]
    /\ \A d \in Own : serverDocs[d] = "unborn"
    /\ cache = [d \in Doc |-> "unborn"]
    /\ keys = {} /\ token = NoToken /\ mutated = {}
    /\ synced = {} /\ current = FALSE /\ limbo = {} /\ mutatedKeys = {}
    /\ queue = <<>> /\ active = <<>> /\ resume = [t \in {0} |-> NoToken]
    /\ open = FALSE /\ heard = FALSE
    /\ states = <<>> /\ updates = NoChanges /\ mismatch = FALSE
    /\ toServer = <<>> /\ toClient = <<>> /\ told = <<>>
    /\ breaks = 0 /\ restarts = 0 /\ intact = TRUE

Present == {d \in Doc : serverDocs[d] = "present"}
Shown(docs, writes) == {d \in Doc : docs[d] = "present" \/ d \in writes}
Scope(t) == IF t = 0 THEN Doc ELSE {active[t].key}

(* A map with an entry put in, and with one taken out. *)
Put(f, t, x) == [u \in DOMAIN f \union {t} |-> IF u = t THEN x ELSE f[u]]
Less(f, t) == [u \in DOMAIN f \ {t} |-> f[u]]

(* The numbers of a finite set, in ascending order. *)
Ascending(S) ==
    LET last == CHOOSE n \in S : \A m \in S : m <= n
    IN  IF S = {} THEN <<>> ELSE Selected([i \in 1 .. last + 1 |-> i - 1], S)

-----------------------------------------------------------------------------
(* The sync engine's bookkeeping, as one record while a handler runs.      *)
Book == [queue |-> queue, active |-> active, resume |-> resume, states |-> states,
         sent |-> toServer]

Keep(book) ==
    /\ queue' = book.queue /\ active' = book.active /\ resume' = book.resume
    /\ states' = book.states /\ toServer' = book.sent

(* RecordPendingTargetRequest and the request it is for. *)
Request(book, t, request) ==
    LET state == IF t \in DOMAIN book.states THEN book.states[t] ELSE Fresh
    IN  [book EXCEPT !.states = Put(@, t, [state EXCEPT !.outstanding = @ + 1]),
                     !.sent = Append(@, request)]

SendWatch(book, t, scope) ==
    Request(book, t, [type |-> "watch", target |-> t, scope |-> scope,
                      token |-> book.resume[t]])
(* A seeded fault: the unwatch is sent and not counted. *)
SendUnwatchUncounted(book, t) ==
    [book EXCEPT !.sent = Append(@, [type |-> "unwatch", target |-> t])]

SendUnwatch(book, t) == Request(book, t, [type |-> "unwatch", target |-> t])

(* PumpEnqueuedLimboResolutions: a call frees or fills one slot at most.   *)
(* Target numbers are fresh; a number nobody remembers is as good as one.  *)
Pump(book) ==
    IF book.queue = <<>> \/ Cardinality(DOMAIN book.active) >= MaxActive
    THEN book
    ELSE LET d == Head(book.queue)
             used == DOMAIN book.active \union DOMAIN book.states
             t == CHOOSE u \in 1 .. Cardinality(used) + 1 : u \notin used
             listening == [book EXCEPT
                             !.queue = Tail(@),
                             !.active = Put(@, t, [key |-> d, received |-> FALSE]),
                             !.resume = Put(@, t, NoToken)]
         IN  IF open THEN SendWatch(listening, t, {d}) ELSE listening

ActiveFor(book, d) == {t \in DOMAIN book.active : book.active[t].key = d}

(* TrackLimboChange. *)
Track(book, d) ==
    IF ActiveFor(book, d) = {} /\ \A i \in DOMAIN book.queue : book.queue[i] # d
    THEN Pump([book EXCEPT !.queue = Append(@, d)]) ELSE book

(* A seeded fault: the slot that is freed is left empty. *)
UntrackIdling(book, d) ==
    LET rest == [book EXCEPT !.queue = Selected(@, Doc \ {d})]
    IN  IF ActiveFor(book, d) = {} THEN rest
        ELSE LET t == CHOOSE u \in ActiveFor(book, d) : TRUE
                 stopped == [rest EXCEPT !.resume = Less(@, t), !.active = Less(@, t)]
             IN  IF open THEN SendUnwatch(stopped, t) ELSE stopped

(* RemoveLimboTarget. *)
Untrack(book, d) ==
    LET rest == [book EXCEPT !.queue = Selected(@, Doc \ {d})]
    IN  IF ActiveFor(book, d) = {} THEN rest
        ELSE LET t == CHOOSE u \in ActiveFor(book, d) : TRUE
                 stopped == [rest EXCEPT !.resume = Less(@, t), !.active = Less(@, t)]
             IN  Pump(IF open THEN SendUnwatch(stopped, t) ELSE stopped)

(* The limbo documents the view drops and those it adds, key by key: the   *)
(* book after the first i keys, for each i.                                *)
Untracked(book, dropped) ==
    LET after[i \in 0 .. NumDocs] ==
            IF i = 0 THEN book
            ELSE IF i \in dropped THEN Untrack(after[i - 1], i) ELSE after[i - 1]
    IN  after

Tracked(book, new) ==
    LET after[i \in 0 .. NumDocs] ==
            IF i = 0 THEN book
            ELSE IF i \in new THEN Track(after[i - 1], i) ELSE after[i - 1]
    IN  after

(* View::ComputeDocumentChanges: the documents of the view that have local   *)
(* mutations.  One whose write was acknowledged keeps them: its data are the *)
(* same and it counts as pending, so the view keeps the document it has,     *)
(* until the store has another version (renewed).                            *)
Mutated(docs, writes, renewed) ==
    Shown(docs, writes) \intersect (writes \union (mutatedKeys \ renewed))

(* View::ApplyChanges: limbo is only known while the view is current; what *)
(* the view has with local mutations is not in it.                         *)
ApplyChanges(book, docs, writes, renewed, known, isCurrent) ==
    LET local == Mutated(docs, writes, renewed)
        now == IF isCurrent THEN Shown(docs, writes) \ (known \union local) ELSE limbo
    IN  /\ synced' = known /\ current' = isCurrent /\ limbo' = now /\ mutatedKeys' = local
        /\ \E kept \in {Untracked(book, limbo \ now)[NumDocs]} :
           \E next \in {Tracked(kept, now \ limbo)[NumDocs]} : Keep(next)

-----------------------------------------------------------------------------
(* The aggregator. *)
IsActive(t) ==
    /\ t \in DOMAIN resume
    /\ t \in DOMAIN states => states[t].outstanding = 0

(* GetRemoteKeys. *)
RemoteKeys(t) ==
    IF t = 0 THEN synced
    ELSE IF t \in DOMAIN active /\ active[t].received THEN {active[t].key} ELSE {}

Accepted(t) == IF t \in DOMAIN states THEN states[t] ELSE Fresh

AddedTo(state) == {d \in Doc : state.changes[d] = "added"}
RemovedFrom(state) == {d \in Doc : state.changes[d] = "removed"}

(* A seeded fault: a document that came and went in one event is removed. *)
WithoutAsking(state, t, gone) ==
    [state EXCEPT !.pending = @ \/ gone # {},
                  !.changes = [d \in Doc |-> IF d \in gone THEN "removed" ELSE @[d]]]

(* RemoveDocumentFromTarget, for the documents of a set. *)
Without(state, t, gone) ==
    [state EXCEPT !.pending = @ \/ gone # {},
                  !.changes = [d \in Doc |-> IF d \notin gone THEN @[d]
                                             ELSE IF d \in RemoteKeys(t) THEN "removed"
                                             ELSE "none"]]

(* AddDocumentToTarget, for the documents of a set. *)
With(state, t, here) ==
    [state EXCEPT !.pending = @ \/ here # {},
                  !.changes = [d \in Doc |-> IF d \notin here THEN @[d]
                                             ELSE IF d \in RemoteKeys(t) THEN "modified"
                                             ELSE "added"]]

Update(here, gone, how) ==
    [d \in Doc |-> IF d \in here THEN "present" ELSE IF d \in gone THEN how
                   ELSE updates[d]]

(* The server acknowledges a request. *)
HandleAdded(t) ==
    LET state == [Accepted(t) EXCEPT !.outstanding = @ - 1]
    IN  /\ states' = Put(states, t,
                          IF state.outstanding > 0 THEN state
                          ELSE [state EXCEPT !.changes = NoChanges, !.pending = FALSE])
        /\ UNCHANGED <<updates, mismatch>>

(* A seeded fault: a target is forgotten with requests outstanding. *)
HandleRemovedForgetting(t) ==
    /\ states' = Less(states, t)
    /\ UNCHANGED <<updates, mismatch>>

HandleRemoved(t) ==
    LET state == [Accepted(t) EXCEPT !.outstanding = @ - 1]
    IN  /\ states' = IF state.outstanding > 0 THEN Put(states, t, state)
                     ELSE Less(states, t)
        /\ UNCHANGED <<updates, mismatch>>

HandleDocumentChange(t, here, gone) ==
    /\ IF IsActive(t)
       THEN /\ states' = Put(states, t, Without(With(Accepted(t), t, here), t, gone))
            /\ updates' = Update(here, gone, "deleted")
       ELSE UNCHANGED <<states, updates>>
    /\ UNCHANGED mismatch

HandleCurrent(t) ==
    /\ states' = IF IsActive(t)
                 THEN Put(states, t, [Accepted(t) EXCEPT !.current = TRUE,
                                                         !.pending = TRUE])
                 ELSE states
    /\ UNCHANGED <<updates, mismatch>>

(* ResetTarget: all that was known of it is removed, unless the server     *)
(* sends it again.                                                         *)
ResetState(t) == Without(Fresh, t, RemoteKeys(t))

(* The server resets a target, to send everything anew. *)
HandleReset(t) ==
    /\ states' = IF IsActive(t) THEN Put(states, t, ResetState(t)) ELSE states
    /\ UNCHANGED <<updates, mismatch>>

(* A count that does not match resets the query, to be watched anew. *)
HandleExistenceFilter(t, count) ==
    IF ~IsActive(t) THEN UNCHANGED aggregatorVars
    ELSE IF t # 0
    THEN /\ IF count = 0
            THEN /\ states' = Put(states, t, Without(Accepted(t), t, Scope(t)))
                 /\ updates' = Update({}, Scope(t), "revoked")
            ELSE UNCHANGED <<states, updates>>
         /\ UNCHANGED mismatch
    ELSE LET state == Accepted(0)
         IN  IF Cardinality(synced) + Cardinality(AddedTo(state))
                  - Cardinality(RemovedFrom(state)) = count
             THEN UNCHANGED aggregatorVars
             ELSE /\ states' = Put(states, 0, ResetState(0))
                  /\ mismatch' = TRUE
                  /\ UNCHANGED updates

-----------------------------------------------------------------------------
(* A seeded fault: a limbo document waits to be sent. *)
DeniedNever == {}

(* CreateRemoteEvent: a limbo document the server is done with and has not *)
(* sent is deleted.                                                        *)
Denied ==
    {t \in DOMAIN states \ {0} :
        /\ IsActive(t) /\ states[t].current
        /\ updates[active[t].key] = "none"
        /\ active[t].key \notin RemoteKeys(t)}

(* The documents the event updates. *)
Changed == {d \in Doc : updates[d] # "none" \/ \E t \in Denied : active[t].key = d}

(* LocalStore::PopulateDocumentChanges. *)
Newer(old, new) ==
    CASE new = "none" -> old
      [] new = "revoked" -> "unborn"
      [] new = "present" -> IF old = "deleted" THEN old ELSE new
      [] new = "deleted" -> new

(* A seeded fault: watched anew with the token it had. *)
RewatchWithToken(book) == SendWatch(SendUnwatch(book, 0), 0, Doc)

(* The query is watched anew, without its token. *)
Rewatch(book) ==
    SendWatch(SendUnwatch([book EXCEPT !.resume[0] = NoToken], 0), 0, Doc)

(* ShouldPersistTargetData: at the latest with the next change of the keys. *)
MustPersist(change) == token = NoToken \/ change.changes # NoChanges

(* RaiseWatchSnapshot: what the event holds is taken from the aggregator,  *)
(* and the resume token is every active target's.                          *)
Noted(events, known) ==
    [Book EXCEPT
        !.states = [t \in DOMAIN @ |->
            IF t \in events
            THEN [@[t] EXCEPT !.changes = NoChanges, !.pending = FALSE] ELSE @[t]],
        !.resume = [t \in DOMAIN @ |-> IF t \in events THEN known ELSE @[t]]]

(* SyncEngine::ApplyRemoteEvent: which limbo resolutions have their document. *)
Resolutions(events) ==
    [t \in DOMAIN active |->
        IF t \notin events THEN active[t]
        ELSE LET change == states[t].changes[active[t].key]
             IN  [active[t] EXCEPT !.received = IF @ THEN change # "removed"
                                                ELSE change = "added"]]

(* A global snapshot raises the event: documents, keys and, when it must or *)
(* when time has passed, the token are persisted, and the view is computed. *)
HandleSnapshot(known, saved) ==
    LET events == {t \in DOMAIN states : IsActive(t)}
        change == Accepted(0)
        inEvent == 0 \in events
        added == AddedTo(change)
        removed == RemovedFrom(change)
        noted == [Noted(events, known) EXCEPT !.active = Resolutions(events)]
    IN  /\ cache' = [d \in Doc |->
                       Newer(cache[d], IF \E t \in Denied : active[t].key = d
                                       THEN "deleted" ELSE updates[d])]
        /\ keys' = IF inEvent THEN (keys \ removed) \union added ELSE keys
        /\ IF inEvent THEN MustPersist(change) => saved = known ELSE saved = token
        /\ token' = saved
        /\ updates' = NoChanges
        /\ mismatch' = FALSE
        /\ \E next \in {IF mismatch THEN Rewatch(noted) ELSE noted} :
              IF inEvent
              THEN ApplyChanges(next, cache', mutated, Changed,
                                (synced \ removed) \union added, change.current)
              ELSE ApplyChanges(next, cache', mutated, Changed, synced, current)
        /\ UNCHANGED mutated

(* OnWatchStreamChange. *)
Receive ==
    /\ toClient # <<>>
    /\ toClient' = Tail(toClient)
    /\ LET m == Head(toClient)
       IN  \/ /\ m.type = "snapshot"
              /\ \E saved \in {token, m.token} : HandleSnapshot(m.token, saved)
           \/ /\ \/ m.type = "added" /\ HandleAdded(m.target)
                 \/ m.type = "removed" /\ HandleRemoved(m.target)
                 \/ m.type = "change" /\ HandleDocumentChange(m.target, m.here, m.gone)
                 \/ m.type = "current" /\ HandleCurrent(m.target)
                 \/ m.type = "reset" /\ HandleReset(m.target)
                 \/ m.type = "filter" /\ HandleExistenceFilter(m.target, m.count)
              /\ UNCHANGED <<diskVars, viewVars, syncVars, toServer>>
    /\ heard' = TRUE
    /\ UNCHANGED <<serverDocs, open, told, breaks, restarts, intact>>

-----------------------------------------------------------------------------
(* OnWatchStreamOpen: every target is watched, with its token. *)
StreamOpens ==
    /\ ~open
    /\ open' = TRUE
    /\ toServer' = toServer \o
         [i \in DOMAIN Ascending(DOMAIN resume) |->
            LET t == Ascending(DOMAIN resume)[i]
            IN  [type |-> "watch", target |-> t, scope |-> Scope(t), token |-> resume[t]]]
    /\ states' = [t \in DOMAIN states \union DOMAIN resume |->
                    IF t \in DOMAIN resume THEN [Accepted(t) EXCEPT !.outstanding = @ + 1]
                    ELSE states[t]]
    /\ UNCHANGED <<serverDocs, diskVars, viewVars, syncVars, updates, mismatch, heard,
                   toClient, told, breaks, restarts, intact>>

(* The stream and its aggregator are gone. *)
Cut ==
    /\ open' = FALSE /\ heard' = FALSE
    /\ states' = <<>> /\ updates' = NoChanges /\ mismatch' = FALSE
    /\ toServer' = <<>> /\ toClient' = <<>> /\ told' = <<>>

StreamBreaks ==
    /\ open
    /\ breaks < MaxBreaks
    /\ breaks' = breaks + 1
    /\ Cut
    /\ UNCHANGED <<serverDocs, diskVars, viewVars, syncVars, restarts, intact>>

(* View::ApplyOnlineStateChange, when a stream failed or the ten-second    *)
(* timer ran out with nothing heard on the one that opened.                *)
GoOffline ==
    /\ ~heard /\ current
    /\ current' = FALSE
    /\ UNCHANGED <<serverDocs, diskVars, synced, limbo, mutatedKeys, syncVars,
                   aggregatorVars, streamVars, breaks, restarts, intact>>

(* The process dies; the app starts and listens again. *)
Restart ==
    /\ restarts < MaxRestarts
    /\ restarts' = restarts + 1
    /\ intact' = (intact /\ (token = NoToken \/ token \subseteq keys))
    /\ Cut
    /\ synced' = keys /\ current' = FALSE /\ limbo' = {} /\ mutatedKeys' = mutated
    /\ queue' = <<>> /\ active' = <<>> /\ resume' = [t \in {0} |-> token]
    /\ UNCHANGED <<serverDocs, diskVars, breaks>>

-----------------------------------------------------------------------------
(* Local writes: made, applied by the server, acknowledged. *)
WriteLocally(d) ==
    /\ d \in Own \ mutated /\ cache[d] = "unborn" /\ serverDocs[d] = "unborn"
    /\ mutated' = mutated \union {d}
    /\ ApplyChanges(Book, cache, mutated', {}, synced, current)
    /\ UNCHANGED <<serverDocs, cache, keys, token, updates, mismatch, open, heard,
                   toClient, told, breaks, restarts, intact>>

Commit(d) ==
    /\ d \in mutated /\ serverDocs[d] = "unborn"
    /\ serverDocs' = [serverDocs EXCEPT ![d] = "present"]
    /\ UNCHANGED <<diskVars, viewVars, syncVars, aggregatorVars, streamVars, breaks,
                   restarts, intact>>

(* HandleSuccessfulWrite: the acknowledged version is stored, marked as a   *)
(* committed mutation, unless the server has sent it or a newer one before. *)
Acknowledge(d) ==
    /\ d \in mutated /\ serverDocs[d] # "unborn"
    /\ mutated' = mutated \ {d}
    /\ cache' = [cache EXCEPT ![d] = Newer(@, "present")]
    /\ ApplyChanges(Book, cache', mutated',
                    IF cache[d] = "unborn" THEN {} ELSE {d}, synced, current)
    /\ UNCHANGED <<serverDocs, keys, token, updates, mismatch, open, heard, toClient,
                   told, breaks, restarts, intact>>

-----------------------------------------------------------------------------
(* The server. *)
Others(d) ==
    /\ \/ serverDocs[d] = "unborn" /\ d \notin Own
          /\ serverDocs' = [serverDocs EXCEPT ![d] = "present"]
       \/ serverDocs[d] = "present"
          /\ serverDocs' = [serverDocs EXCEPT ![d] = "deleted"]
    /\ UNCHANGED <<diskVars, viewVars, syncVars, aggregatorVars, streamVars, breaks,
                   restarts, intact>>

Behind(served) ==
    {t \in DOMAIN served : served[t].docs # Present \intersect served[t].scope}

(* What changed in each target, and that all of them are as of one time. *)
News(served) ==
    LET tell(t) == [type |-> "change", target |-> t,
                    here |-> (Present \intersect served[t].scope) \ served[t].docs,
                    gone |-> served[t].docs \ Present]
        targets == Ascending(Behind(served))
    IN  [i \in DOMAIN targets |-> tell(targets[i])]
          \o <<[type |-> "snapshot", token |-> Present]>>

UpToDate(served) ==
    [t \in DOMAIN served |-> [served[t] EXCEPT !.docs = Present \intersect served[t].scope]]

(* Watch: deletions since the token are told, or left to the filter; or the *)
(* token is of no use to the server any more.                              *)
ServerWatches(request, deletions, filter, early, reset) ==
    LET t == request.target
        known == IF reset \/ request.token = NoToken THEN {}
                 ELSE request.token \intersect request.scope
        match == Present \intersect request.scope
        here == match \ known
        gone == IF deletions THEN known \ match ELSE {}
        counted == IF filter THEN <<[type |-> "filter", target |-> t,
                                     count |-> Cardinality(match)]>> ELSE <<>>
        done == <<[type |-> "current", target |-> t]>>
        served == Put(told, t, [scope |-> request.scope, docs |-> match])
    IN  /\ reset => request.token # NoToken /\ ~filter
        /\ known \subseteq match \/ deletions \/ filter
        /\ toClient' = toClient
             \o <<[type |-> "added", target |-> t]>>
             \o (IF reset THEN <<[type |-> "reset", target |-> t]>> ELSE <<>>)
             \o (IF here \union gone = {} THEN <<>>
                 ELSE <<[type |-> "change", target |-> t, here |-> here, gone |-> gone]>>)
             \o (IF early THEN counted \o done ELSE done \o counted)
             \o News(served)
        /\ told' = UpToDate(served)

ServerReads ==
    /\ toServer # <<>>
    /\ toServer' = Tail(toServer)
    /\ LET request == Head(toServer)
       IN  \/ /\ request.type = "watch"
              /\ \E deletions, filter, early, reset \in BOOLEAN :
                    /\ early => filter
                    /\ ServerWatches(request, deletions, filter, early, reset)
           \/ /\ request.type = "unwatch"
              /\ toClient' = Append(toClient, [type |-> "removed",
                                               target |-> request.target])
              /\ told' = Less(told, request.target)
    /\ UNCHANGED <<serverDocs, diskVars, viewVars, syncVars, aggregatorVars, open, heard,
                   breaks, restarts, intact>>

ServerPushes ==
    /\ Behind(told) # {}
    /\ toClient' = toClient \o News(told)
    /\ told' = UpToDate(told)
    /\ UNCHANGED <<serverDocs, diskVars, viewVars, syncVars, aggregatorVars, open, heard,
                   toServer, breaks, restarts, intact>>

-----------------------------------------------------------------------------
Connection == StreamOpens \/ StreamBreaks \/ GoOffline \/ Restart

LocalWrites == \E d \in Doc : WriteLocally(d) \/ Commit(d) \/ Acknowledge(d)

SyncNext ==
    \/ Receive
    \/ Connection
    \/ LocalWrites
    \/ \E d \in Doc : Others(d)
    \/ ServerReads
    \/ ServerPushes

(* The worker queue runs what it is given, a broken stream is opened again, *)
(* the write pipeline delivers, the server answers and tells its news: one   *)
(* of them moves while one of them can.  Nobody has to write or break.       *)
Work ==
    \/ Receive \/ StreamOpens \/ ServerReads \/ ServerPushes
    \/ \E d \in Doc : Commit(d) \/ Acknowledge(d)

SyncSpec == SyncInit /\ [][SyncNext]_watchSyncVars /\ WF_watchSyncVars(Work)

-----------------------------------------------------------------------------
Requests(t) == {i \in DOMAIN toServer : toServer[i].target = t}
IsAck(m) == m.type \in {"added", "removed"}
Acks(t) == {i \in DOMAIN toClient : IsAck(toClient[i]) /\ toClient[i].target = t}

(* Until every watch and unwatch of a target is acknowledged, what arrives *)
(* belongs to an earlier watch and is not for it: the count is exact.      *)
AcksAreCounted ==
    \A t \in DOMAIN states \union {toServer[i].target : i \in DOMAIN toServer}
            \union {toClient[i].target : i \in {j \in DOMAIN toClient : IsAck(toClient[j])}} :
        Accepted(t).outstanding = Cardinality(Requests(t)) + Cardinality(Acks(t))

(* Each document in limbo is being resolved or waits its turn, once, and   *)
(* nothing else is; slots are filled while there is a queue.               *)
LimboIsTracked ==
    /\ limbo = {queue[i] : i \in DOMAIN queue} \union {active[t].key : t \in DOMAIN active}
    /\ \A i, j \in DOMAIN queue : queue[i] = queue[j] => i = j
    /\ \A t, u \in DOMAIN active : active[t].key = active[u].key => t = u
    /\ \A i \in DOMAIN queue, t \in DOMAIN active : queue[i] # active[t].key
    /\ Cardinality(DOMAIN active) <= MaxActive
    /\ queue # <<>> => Cardinality(DOMAIN active) = MaxActive

(* "Received remove for limbo target document without add", "Modified      *)
(* document not found in view": a change is of a document that was added.  *)
ChangesAreOfKnown ==
    \A t \in DOMAIN states : IsActive(t) =>
        \A d \in Doc : states[t].changes[d] \in {"modified", "removed"}
                         => d \in RemoteKeys(t)

(* Nothing is on its way and nobody has anything to send. *)
Quiet ==
    /\ open /\ toServer = <<>> /\ toClient = <<>> /\ Behind(told) = {}
    /\ mutated = {}

(* When all has arrived, the view is current and shows every document the   *)
(* server has; its synced documents are the server's, unless the app was    *)
(* started with a token for documents it did not hold, and none of them is  *)
(* taken for a local change.  A document that is shown although it was      *)
(* deleted waits in the limbo queue, or its listen has ended and the next   *)
(* global snapshot deletes it, or it was created here and the server never  *)
(* told of it since: the view keeps it as it was written.                   *)
Converges ==
    Quiet =>
        /\ current
        /\ Present \subseteq Shown(cache, mutated)
        /\ intact => synced = Present
        /\ mutatedKeys \intersect synced = {}
        /\ Shown(cache, mutated) \ (Present \union synced)
              \subseteq mutatedKeys \union {queue[i] : i \in DOMAIN queue}
                          \union {active[t].key : t \in Denied}

(* All does arrive: client and server do not go on resetting each other,   *)
(* whatever token was sent and however the server answered it.             *)
Settles == <>[]Quiet

(* remote_store.cc: after a mismatch "deliberately don't send a resume     *)
(* token so that we get a full update": a token is only sent with the      *)
(* documents it stands for.                                                *)
TokenMeansKnown ==
    \A i \in DOMAIN toServer :
        LET r == toServer[i]
        IN  r.type = "watch" /\ r.target = 0 /\ r.token # NoToken => r.token \subseteq synced
=============================================================================

------------------------------ MODULE Firestore ------------------------------
(***************************************************************************)
(* The task collection as the app meets it: the Firestore client that is   *)
(* linked into the app (ios/Pods/FirebaseFirestore/Firestore/core/src)     *)
(* behind the three writes and the one listener of FirebaseManager         *)
(* (lib/non_ui/repo/firebase_manager.dart).                                *)
(*                                                                         *)
(* A write is queued and shown at once: the view is the cached server      *)
(* documents overlaid with every queued mutation.  The server answers the  *)
(* head of the queue; its watch stream brings the changes other devices    *)
(* make.  Results and snapshots reach the app through one FIFO, the user   *)
(* executor.  The queue and the cache are on disk and survive a restart of *)
(* the app; callbacks and listeners do not.                                *)
(*                                                                         *)
(* Of a document's fields only completed_at matters to the app's control,  *)
(* so a document is "todo" or "done".  A title or description that changes *)
(* shows as a snapshot with equal content ("rewritten" below).             *)
(***************************************************************************)
EXTENDS Naturals, Sequences, SequencesExt

CONSTANTS
    NumDocs,     \* documents are numbered in the order of their keys
    MaxWrites,   \* bound on the writes of all runs of the app together
    MaxChannel,  \* bound: the server stays quiet while the app is this far behind
    Shared       \* bound: the documents that other devices change

ASSUME FirestoreAssumption ==
    /\ Shared \subseteq 1 .. NumDocs
    /\ NumDocs \in Nat
    /\ MaxWrites \in Nat
    /\ MaxChannel \in Nat

VARIABLES
    remoteDocs,     \* the remote document cache
    writes,         \* every write issued, in all runs of the app
    future,         \* what Dart knows of each write
    touched,        \* the writes whose document the watch stream moved meanwhile
    mutationQueue,  \* the numbers of the writes the server has not answered
    listener,       \* the QueryListener of tasksRef.snapshots()
    toApp,          \* results and snapshots on their way to Dart
    seen            \* the last snapshot Dart was handed

storeVars == <<remoteDocs, writes, future, touched, mutationQueue, listener, toApp,
               seen>>

Doc == 1 .. NumDocs
Write == 1 .. MaxWrites

(* In the cache a document was never there, is there, or was deleted; in a *)
(* view it is absent or present.                                           *)
Content == {"todo", "done"}
DocState == Content \union {"unborn", "deleted"}
View == [Doc -> Content \union {"absent"}]
NoDocs == [d \in Doc |-> "absent"]

(* A batch of one mutation; a delete has no content of its own. *)
Mutation == [op : {"set", "patch", "delete"}, doc : Doc, content : Content]
Future == {"none", "pending", "ok", "failed", "lost"}

Result(w, ok) == [type |-> "result", write |-> w, ok |-> ok]
Snapshot(v) == [type |-> "snapshot", view |-> v]
Message == [type : {"result"}, write : Write, ok : BOOLEAN]
             \union [type : {"snapshot"}, view : View]

StoreTypeOK ==
    /\ remoteDocs \in [Doc -> DocState]
    /\ writes \in Seq(Mutation) /\ Len(writes) <= MaxWrites
    /\ future \in [Write -> Future]
    /\ touched \subseteq Write
    /\ mutationQueue \in Seq(Write)
    /\ listener \in {"none", "waiting", "raised", "failed"}
    /\ toApp \in Seq(Message)
    /\ seen \in View

(* The cache as an earlier run of the app left it. *)
StoreInit ==
    /\ remoteDocs \in [Doc -> {"unborn", "todo", "done"}]
    /\ writes = <<>>
    /\ future = [w \in Write |-> "none"]
    /\ touched = {}
    /\ mutationQueue = <<>>
    /\ listener = "none"
    /\ toApp = <<>>
    /\ seen = NoDocs

Queued(w) == \E i \in 1 .. Len(mutationQueue) : mutationQueue[i] = w

-----------------------------------------------------------------------------
(* LocalDocumentsView: one queued mutation on top of a document. *)
ApplyToLocalView(state, m) ==
    CASE m.op = "set" -> m.content
      [] m.op = "patch" -> IF state \in Content THEN m.content ELSE state
      [] m.op = "delete" -> "deleted"

(* Document d after the first i batches of the queue, for each i: batches  *)
(* that name another document leave it alone.                              *)
LocalStates(docs, ws, queue, d) ==
    LET state[i \in 0 .. Len(queue)] ==
            IF i = 0 THEN docs[d]
            ELSE IF ws[queue[i]].doc = d THEN ApplyToLocalView(state[i - 1], ws[queue[i]])
            ELSE state[i - 1]
    IN  state

LocalState(docs, ws, queue, d) == LocalStates(docs, ws, queue, d)[Len(queue)]

(* Seeded fault: documents known to be deleted are not left out. *)
ViewOfKeepingDeleted(docs, ws, queue) ==
    [d \in Doc |-> LET s == LocalState(docs, ws, queue, d)
                   IN  IF s # "unborn" THEN s ELSE "absent"]

ViewOf(docs, ws, queue) ==
    [d \in Doc |-> LET s == LocalState(docs, ws, queue, d)
                   IN  IF s \in Content THEN s ELSE "absent"]

CurrentView == ViewOf(remoteDocs, writes, mutationQueue)

(* QueryListener: the first snapshot is held back while it is empty and    *)
(* the server has not confirmed it; later ones are raised when a document  *)
(* changed.                                                                *)
ShouldRaise(v, rewritten, synced) ==
    \/ listener = "waiting" /\ (v # NoDocs \/ synced)
    \/ listener = "raised" /\ (v # CurrentView \/ rewritten)

(* Seeded fault: listen events are raised before the user callback. *)
EmitSnapshotFirst(messages, v, rewritten, synced) ==
    LET raise == ShouldRaise(v, rewritten, synced)
    IN  /\ toApp' = toApp \o (IF raise THEN <<Snapshot(v)>> ELSE <<>>) \o messages
        /\ listener' = IF raise THEN "raised" ELSE listener

(* NotifyUser first, OnViewSnapshots second. *)
Emit(messages, v, rewritten, synced) ==
    LET raise == ShouldRaise(v, rewritten, synced)
    IN  /\ toApp' = toApp \o messages \o (IF raise THEN <<Snapshot(v)>> ELSE <<>>)
        /\ listener' = IF raise THEN "raised" ELSE listener

(* Seeded fault: only successes are reported. *)
AnswerSuccessOnly(w, ok) ==
    IF future[w] = "pending" /\ ok THEN <<Result(w, ok)>> ELSE <<>>

(* Mutations restored from disk have no callback to notify. *)
Answer(w, ok) == IF future[w] = "pending" THEN <<Result(w, ok)>> ELSE <<>>

-----------------------------------------------------------------------------
(* tasksRef.snapshots().listen: the cached documents are raised if any. *)
Listen ==
    /\ listener = "none"
    /\ IF CurrentView # NoDocs
       THEN /\ listener' = "raised"
            /\ toApp' = Append(toApp, Snapshot(CurrentView))
       ELSE /\ listener' = "waiting"
            /\ UNCHANGED toApp
    /\ UNCHANGED <<remoteDocs, writes, future, touched, mutationQueue, seen>>

(* add, update and delete of a document reference. *)
WriteMutations(op, d, content, rewritten) ==
    /\ Len(writes) < MaxWrites
    /\ rewritten => op = "patch" /\ CurrentView[d] # "absent"
    /\ writes' = Append(writes, [op |-> op, doc |-> d, content |-> content])
    /\ future' = [future EXCEPT ![Len(writes) + 1] = "pending"]
    /\ mutationQueue' = Append(mutationQueue, Len(writes) + 1)
    /\ Emit(<<>>, ViewOf(remoteDocs, writes', mutationQueue'), rewritten, FALSE)
    /\ UNCHANGED <<remoteDocs, touched, seen>>

(* The version check of LocalStore::ApplyBatchResult: what the watch       *)
(* stream brought since may be newer than the commit being acknowledged.   *)
(* The server accepts a patch (exists: true) only of a document it has.    *)
AckedStates(w) ==
    LET m == writes[w]
    IN  CASE m.op = "set" -> IF w \in touched THEN {remoteDocs[m.doc]} ELSE {m.content}
          [] m.op = "patch" ->
                (IF remoteDocs[m.doc] \in Content THEN {m.content} ELSE {})
                \union (IF w \in touched THEN {remoteDocs[m.doc]} ELSE {})
          [] m.op = "delete" -> {"deleted"}

HandleSuccessfulWrite(state) ==
    /\ mutationQueue # <<>>
    /\ LET w == Head(mutationQueue)
       IN  /\ state \in AckedStates(w)
           /\ remoteDocs' = [remoteDocs EXCEPT ![writes[w].doc] = state]
           /\ mutationQueue' = Tail(mutationQueue)
           /\ Emit(Answer(w, TRUE), ViewOf(remoteDocs', writes, mutationQueue'),
                   FALSE, FALSE)
    /\ UNCHANGED <<writes, future, touched, seen>>

(* Seeded fault: a refused write is taken out of the queue, but the view *)
(* that showed it is not raised again.                                   *)
HandleRejectedWriteSilently ==
    /\ mutationQueue # <<>>
    /\ mutationQueue' = Tail(mutationQueue)
    /\ toApp' = toApp \o Answer(Head(mutationQueue), FALSE)
    /\ UNCHANGED <<remoteDocs, writes, future, touched, listener, seen>>

(* Seeded fault: the error is charged to the newest write. *)
HandleRejectedWriteAtTail ==
    /\ mutationQueue # <<>>
    /\ LET w == Last(mutationQueue)
       IN  /\ mutationQueue' = Front(mutationQueue)
           /\ Emit(Answer(w, FALSE), ViewOf(remoteDocs, writes, mutationQueue'),
                   FALSE, FALSE)
    /\ UNCHANGED <<remoteDocs, writes, future, touched, seen>>

(* A permanent error.  A document the watch stream already showed was      *)
(* accepted, so its set is not refused.                                    *)
HandleRejectedWrite ==
    /\ mutationQueue # <<>>
    /\ LET w == Head(mutationQueue)
       IN  /\ ~(writes[w].op = "set" /\ w \in touched)
           /\ mutationQueue' = Tail(mutationQueue)
           /\ Emit(Answer(w, FALSE), ViewOf(remoteDocs, writes, mutationQueue'),
                   FALSE, FALSE)
    /\ UNCHANGED <<remoteDocs, writes, future, touched, seen>>

(* Seeded fault: without the version check an old version of a document *)
(* replaces the deletion that was acknowledged.                         *)
WatchStatesUnversioned(d) ==
    IF remoteDocs[d] = "unborn" THEN {"unborn"} ELSE Content \union {"deleted"}

(* What the watch stream may bring of a document: a deleted document never *)
(* returns, since keys are drawn at random, and a key this device drew     *)
(* exists only while its set is queued.                                    *)
WatchStates(d) ==
    IF d \notin Shared THEN {remoteDocs[d]}
    ELSE CASE remoteDocs[d] \in Content -> Content \union {"deleted"}
           [] remoteDocs[d] = "deleted" -> {"deleted"}
           [] remoteDocs[d] = "unborn" ->
                IF \A w \in DOMAIN writes : writes[w].doc = d => Queued(w)
                THEN Content \union {"unborn"} ELSE {"unborn"}

ApplyRemoteEvent(docs, rewritten, synced) ==
    /\ listener \in {"waiting", "raised"}
    /\ Len(toApp) < MaxChannel
    /\ \A d \in Doc : docs[d] \in WatchStates(d)
    /\ remoteDocs' = docs
    /\ touched' = touched \union
                     {w \in DOMAIN writes :
                        Queued(w) /\ docs[writes[w].doc] # remoteDocs[writes[w].doc]}
    /\ rewritten => CurrentView # NoDocs
    /\ Emit(<<>>, ViewOf(docs, writes, mutationQueue), rewritten, synced)
    /\ UNCHANGED <<writes, future, mutationQueue, seen>>

(* The first connection failed: a listener still waiting gets the empty    *)
(* view from the cache.                                                    *)
GoOffline ==
    /\ listener = "waiting"
    /\ Emit(<<>>, CurrentView, FALSE, TRUE)
    /\ UNCHANGED <<remoteDocs, writes, future, touched, mutationQueue, seen>>

(* HandleRejectedListen: the view is dropped and nothing more is raised.   *)
(* The app's listen() has no onError, so the error itself changes nothing. *)
RejectListen ==
    /\ listener \in {"waiting", "raised"}
    /\ listener' = "failed"
    /\ UNCHANGED <<remoteDocs, writes, future, touched, mutationQueue, toApp, seen>>

(* The user executor hands the next message to Dart. *)
Deliver ==
    /\ toApp # <<>>
    /\ toApp' = Tail(toApp)
    /\ LET msg == Head(toApp)
       IN  IF msg.type = "result"
           THEN /\ future' = [future EXCEPT ![msg.write] =
                                IF msg.ok THEN "ok" ELSE "failed"]
                /\ UNCHANGED seen
           ELSE /\ seen' = msg.view
                /\ UNCHANGED future
    /\ UNCHANGED <<remoteDocs, writes, touched, mutationQueue, listener>>

(* The process dies and the app starts again. *)
Restart ==
    /\ listener # "none"
    /\ future' = [w \in Write |-> IF future[w] = "pending" THEN "lost" ELSE future[w]]
    /\ listener' = "none"
    /\ toApp' = <<>>
    /\ seen' = NoDocs
    /\ UNCHANGED <<remoteDocs, writes, touched, mutationQueue>>

-----------------------------------------------------------------------------
(* Any caller: addTask draws a new key, updateTask and deleteTask name a   *)
(* document there was.                                                     *)
Unused(d) ==
    remoteDocs[d] = "unborn" /\ \A w \in DOMAIN writes : writes[w].doc # d

CallerWrites(d) ==
    \/ \E c \in Content : Unused(d) /\ WriteMutations("set", d, c, FALSE)
    \/ \E c \in Content, rewritten \in BOOLEAN :
          ~Unused(d) /\ WriteMutations("patch", d, c, rewritten)
    \/ ~Unused(d) /\ WriteMutations("delete", d, "todo", FALSE)

ServerAnswers ==
    \/ \E state \in DocState : HandleSuccessfulWrite(state)
    \/ HandleRejectedWrite

WatchEvents ==
    \E docs \in [Doc -> DocState], rewritten, synced \in BOOLEAN :
        ApplyRemoteEvent(docs, rewritten, synced)

StoreNext ==
    \/ Listen
    \/ \E d \in Doc : CallerWrites(d)
    \/ ServerAnswers
    \/ WatchEvents
    \/ GoOffline
    \/ RejectListen
    \/ Deliver
    \/ Restart

(* The client retries until the server answers; the executor runs what it *)
(* is given.                                                               *)
StoreFairness == WF_storeVars(ServerAnswers) /\ WF_storeVars(Deliver)

StoreSpec == StoreInit /\ [][StoreNext]_storeVars /\ StoreFairness

-----------------------------------------------------------------------------
(* Dart will have v once it has read msgs after it was handed last: v is   *)
(* the newest snapshot among them, or there is none and v is last.         *)
Newest(msgs, last, v) ==
    \/ \E i \in DOMAIN msgs :
         /\ msgs[i] = Snapshot(v)
         /\ \A j \in DOMAIN msgs : j > i => msgs[j].type = "result"
    \/ last = v /\ \A j \in DOMAIN msgs : msgs[j].type = "result"

(* The stream is never behind for good: the last snapshot raised shows     *)
(* exactly the cached documents with every queued write on top, and a      *)
(* listener is kept waiting only while there is nothing to show.           *)
StreamFresh ==
    /\ listener = "raised" => Newest(toApp, seen, CurrentView)
    /\ listener = "waiting" => CurrentView = NoDocs

(* The places in the channel that hold a result of write w. *)
Results(w) == {i \in DOMAIN toApp : toApp[i].type = "result" /\ toApp[i].write = w}

(* A future that is still pending has its callback registered or its one   *)
(* result on the way, never both and never neither.                        *)
OneAnswerEach ==
    \A w \in Write :
        IF future[w] = "pending"
        THEN IF Queued(w) THEN Results(w) = {} ELSE \E i \in Results(w) : Results(w) = {i}
        ELSE Results(w) = {}

(* Futures complete once, in the order the writes were made, and whatever  *)
(* is pending when the app dies is not heard of again.                     *)
Replies == INSTANCE OrderedReplies WITH answer <- future
ImplementsOrderedReplies == Replies!RepliesSpec

(* When deleteTask reports success the list Dart was handed last no longer *)
(* has the document, and never has it again while the listener lives.      *)
DeletedWhenTold ==
    \A w \in DOMAIN writes :
        writes[w].op = "delete" /\ future[w] = "ok" /\ listener # "failed"
            => seen[writes[w].doc] = "absent"

(* A task the user added stays in the list until addTask has answered, or  *)
(* the user deletes it: a refusal is heard of before the row vanishes.     *)
HeardBeforeReverted ==
    [][\A w \in DOMAIN writes :
         (/\ writes[w].op = "set"
          /\ future[w] = "pending" /\ future'[w] = "pending"
          /\ seen[writes[w].doc] # "absent"
          /\ \A v \in DOMAIN writes :
               writes[v].doc = writes[w].doc => writes[v].op # "delete")
         => seen'[writes[w].doc] # "absent"]_storeVars

(* Every write is answered unless the app is restarted first. *)
WritesAnswered ==
    \A w \in Write : future[w] = "pending" ~> future[w] # "pending"
=============================================================================

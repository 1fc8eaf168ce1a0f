--------------------------- MODULE FirestoreProofs ---------------------------
(***************************************************************************)
(* Machine-checked proofs about Firestore, for any number of documents and *)
(* writes and over any number of restarts: type correctness; the stream of *)
(* snapshots never lags behind the local view for good; every write is     *)
(* answered once, and in order; and what the snapshots show of a document  *)
(* the user added or deleted.                                              *)
(***************************************************************************)
EXTENDS Firestore, ListTheorems, TLAPS

(* A view is a view, whatever the queue holds. *)
LEMMA ViewsAreViews ==
    ASSUME NEW docs, NEW ws, NEW queue
    PROVE  ViewOf(docs, ws, queue) \in View
BY DEF ViewOf, View

LEMMA NoDocsIsAView == NoDocs \in View
BY DEF NoDocs, View

-----------------------------------------------------------------------------
(* Lemmas about Newest. *)

(* Results behind a message do not change which snapshot is the newest. *)
LEMMA NewestBeforeResults ==
    ASSUME NEW msgs \in Seq(Message), NEW more \in Seq(Message), NEW last, NEW v,
           Newest(msgs, last, v),
           \A i \in DOMAIN more : more[i].type = "result"
    PROVE  Newest(msgs \o more, last, v)
<1> DEFINE all == msgs \o more
<1>1. /\ all \in Seq(Message)
      /\ Len(all) = Len(msgs) + Len(more)
      /\ \A i \in 1 .. Len(msgs) : all[i] = msgs[i]
      /\ \A i \in 1 .. Len(more) : all[Len(msgs) + i] = more[i]
  BY ConcatProperties
<1>2. /\ DOMAIN msgs = 1 .. Len(msgs) /\ Len(msgs) \in Nat
      /\ DOMAIN more = 1 .. Len(more) /\ Len(more) \in Nat
      /\ DOMAIN all = 1 .. Len(msgs) + Len(more)
  BY <1>1, LenProperties
<1>3. \A j \in DOMAIN all : j > Len(msgs) => all[j].type = "result"
  <2> SUFFICES ASSUME NEW j \in DOMAIN all, j > Len(msgs)
               PROVE  all[j].type = "result"
    OBVIOUS
  <2>1. j - Len(msgs) \in 1 .. Len(more) /\ Len(msgs) + (j - Len(msgs)) = j
    BY <1>2
  <2> QED
    BY <2>1, <1>1, <1>2
<1>4. CASE last = v /\ \A j \in DOMAIN msgs : msgs[j].type = "result"
  <2>1. \A j \in DOMAIN all : all[j].type = "result"
    <3> SUFFICES ASSUME NEW j \in DOMAIN all PROVE all[j].type = "result"
      OBVIOUS
    <3>1. CASE j > Len(msgs)
      BY <3>1, <1>3
    <3>2. CASE ~(j > Len(msgs))
      <4>1. j \in 1 .. Len(msgs)
        BY <3>2, <1>2
      <4> QED
        BY <4>1, <1>1, <1>2, <1>4
    <3> QED
      BY <3>1, <3>2
  <2> QED
    BY <2>1, <1>4 DEF Newest
<1>5. CASE \E i \in DOMAIN msgs :
              /\ msgs[i] = Snapshot(v)
              /\ \A j \in DOMAIN msgs : j > i => msgs[j].type = "result"
  <2>1. PICK i \in DOMAIN msgs :
              /\ msgs[i] = Snapshot(v)
              /\ \A j \in DOMAIN msgs : j > i => msgs[j].type = "result"
    BY <1>5
  <2>2. i \in DOMAIN all /\ all[i] = Snapshot(v)
    BY <2>1, <1>1, <1>2
  <2>3. ASSUME NEW j \in DOMAIN all, j > i
        PROVE  all[j].type = "result"
    <3>1. CASE j > Len(msgs)
      BY <3>1, <1>3
    <3>2. CASE ~(j > Len(msgs))
      <4>1. j \in 1 .. Len(msgs)
        BY <3>2, <1>2
      <4> QED
        BY <4>1, <2>1, <2>3, <1>1, <1>2
    <3> QED
      BY <3>1, <3>2
  <2> QED
    BY <2>2, <2>3 DEF Newest
<1> QED
  BY <1>4, <1>5 DEF Newest

(* A snapshot at the end is the newest. *)
LEMMA NewestAtEnd ==
    ASSUME NEW msgs \in Seq(Message), NEW last, NEW v \in View
    PROVE  Newest(msgs \o <<Snapshot(v)>>, last, v)
<1> DEFINE all == msgs \o <<Snapshot(v)>>
<1>1. Snapshot(v) \in Message
  BY DEF Snapshot, Message
<1>2. /\ Len(msgs) \in Nat
      /\ Len(all) = Len(msgs) + 1
      /\ all[Len(msgs) + 1] = Snapshot(v)
      /\ DOMAIN all = 1 .. Len(msgs) + 1
  BY <1>1
<1>3. Len(msgs) + 1 \in DOMAIN all
  BY <1>2
<1>4. \A j \in DOMAIN all : ~(j > Len(msgs) + 1)
  BY <1>2
<1> QED
  BY <1>2, <1>3, <1>4 DEF Newest

(* Reading a result leaves the newest snapshot where it is. *)
LEMMA NewestAfterResult ==
    ASSUME NEW msgs \in Seq(Message), msgs # <<>>, NEW last, NEW v,
           Head(msgs).type = "result",
           Newest(msgs, last, v)
    PROVE  Newest(Tail(msgs), last, v)
<1> DEFINE rest == Tail(msgs)
<1>1. /\ Len(msgs) \in Nat \ {0} /\ DOMAIN msgs = 1 .. Len(msgs)
      /\ DOMAIN rest = 1 .. Len(msgs) - 1
      /\ \A i \in 1 .. Len(msgs) - 1 : rest[i] = msgs[i + 1]
      /\ msgs[1].type = "result"
  BY HeadTailProperties, LenProperties
<1>2. CASE last = v /\ \A j \in DOMAIN msgs : msgs[j].type = "result"
  <2>1. \A j \in DOMAIN rest : rest[j].type = "result"
    BY <1>1, <1>2
  <2> QED
    BY <2>1, <1>2 DEF Newest
<1>3. CASE \E i \in DOMAIN msgs :
              /\ msgs[i] = Snapshot(v)
              /\ \A j \in DOMAIN msgs : j > i => msgs[j].type = "result"
  <2>1. PICK i \in DOMAIN msgs :
              /\ msgs[i] = Snapshot(v)
              /\ \A j \in DOMAIN msgs : j > i => msgs[j].type = "result"
    BY <1>3
  <2>2. i # 1
    BY <2>1, <1>1 DEF Snapshot
  <2>3. i - 1 \in DOMAIN rest /\ rest[i - 1] = Snapshot(v)
    BY <2>1, <2>2, <1>1
  <2>4. \A j \in DOMAIN rest : j > i - 1 => rest[j].type = "result"
    BY <2>1, <1>1
  <2> QED
    BY <2>3, <2>4 DEF Newest
<1> QED
  BY <1>2, <1>3 DEF Newest

(* A snapshot that is read becomes the one Dart was handed last. *)
LEMMA NewestAfterSnapshot ==
    ASSUME NEW msgs \in Seq(Message), msgs # <<>>, NEW last, NEW v,
           Head(msgs).type = "snapshot",
           Newest(msgs, last, v)
    PROVE  Newest(Tail(msgs), Head(msgs).view, v)
<1> DEFINE rest == Tail(msgs)
<1>1. /\ Len(msgs) \in Nat \ {0} /\ DOMAIN msgs = 1 .. Len(msgs)
      /\ DOMAIN rest = 1 .. Len(msgs) - 1
      /\ \A i \in 1 .. Len(msgs) - 1 : rest[i] = msgs[i + 1]
      /\ msgs[1].type = "snapshot" /\ Head(msgs) = msgs[1]
  BY HeadTailProperties, LenProperties
<1>2. PICK i \in DOMAIN msgs :
            /\ msgs[i] = Snapshot(v)
            /\ \A j \in DOMAIN msgs : j > i => msgs[j].type = "result"
  BY <1>1 DEF Newest
<1>3. CASE i = 1
  <2>1. Head(msgs).view = v
    BY <1>1, <1>2, <1>3 DEF Snapshot
  <2>2. \A j \in DOMAIN rest : rest[j].type = "result"
    BY <1>1, <1>2, <1>3
  <2> QED
    BY <2>1, <2>2 DEF Newest
<1>4. CASE i # 1
  <2>1. i - 1 \in DOMAIN rest /\ rest[i - 1] = Snapshot(v)
    BY <1>1, <1>2, <1>4
  <2>2. \A j \in DOMAIN rest : j > i - 1 => rest[j].type = "result"
    BY <1>1, <1>2
  <2> QED
    BY <2>1, <2>2 DEF Newest
<1> QED
  BY <1>3, <1>4

-----------------------------------------------------------------------------
(* What Emit does to the channel and the listener. *)

ResultMessage == [type : {"result"}, write : Write, ok : BOOLEAN]

LEMMA AnswersAreResults ==
    ASSUME NEW w \in Write, NEW ok \in BOOLEAN
    PROVE  Answer(w, ok) \in Seq(ResultMessage)
<1>1. Result(w, ok) \in ResultMessage
  BY DEF Result, ResultMessage
<1>2. <<Result(w, ok)>> \in Seq(ResultMessage)
  BY <1>1
<1>3. <<>> \in Seq(ResultMessage)
  OBVIOUS
<1> QED
  BY <1>2, <1>3 DEF Answer

LEMMA EmitKeepsStreamFresh ==
    ASSUME StoreTypeOK, StreamFresh,
           NEW messages \in Seq(ResultMessage), NEW v \in View,
           NEW rewritten \in BOOLEAN, NEW synced \in BOOLEAN,
           Emit(messages, v, rewritten, synced), seen' = seen
    PROVE  /\ toApp' \in Seq(Message)
           /\ listener' \in {"none", "waiting", "raised", "failed"}
           /\ listener' = "raised" => Newest(toApp', seen', v)
           /\ listener' = "waiting" => v = NoDocs
<1> DEFINE told == toApp \o messages
<1>1. /\ toApp \in Seq(Message)
      /\ messages \in Seq(Message)
      /\ \A i \in DOMAIN messages : messages[i].type = "result"
      /\ told \in Seq(Message)
      /\ listener \in {"none", "waiting", "raised", "failed"}
  <2>1. /\ ResultMessage \subseteq Message
        /\ \A m \in ResultMessage : m.type = "result"
    BY DEF ResultMessage, Message
  <2>2. messages \in Seq(Message)
    BY <2>1, SeqMonotonic
  <2>3. \A i \in 1 .. Len(messages) : messages[i] \in ResultMessage
    BY ElementOfSeq
  <2>4. DOMAIN messages = 1 .. Len(messages)
    OBVIOUS
  <2> QED
    BY <2>1, <2>2, <2>3, <2>4 DEF StoreTypeOK
<1>2. CASE ShouldRaise(v, rewritten, synced)
  <2>1. toApp' = told \o <<Snapshot(v)>> /\ listener' = "raised"
    BY <1>2, <1>1 DEF Emit
  <2>2. Newest(toApp', seen', v)
    BY <2>1, <1>1, NewestAtEnd
  <2>3. Snapshot(v) \in Message
    BY DEF Snapshot, Message
  <2>4. toApp' \in Seq(Message)
    BY <2>1, <2>3, <1>1
  <2> QED
    BY <2>1, <2>2, <2>4
<1>3. CASE ~ShouldRaise(v, rewritten, synced)
  <2>1. toApp' = told /\ listener' = listener
    BY <1>3, <1>1 DEF Emit
  <2>2. ASSUME listener = "raised"
        PROVE  Newest(toApp', seen', v)
    <3>1. v = CurrentView
      BY <1>3, <2>2 DEF ShouldRaise
    <3>2. Newest(toApp, seen, v)
      BY <3>1, <2>2 DEF StreamFresh
    <3> QED
      BY <3>2, <2>1, <1>1, NewestBeforeResults
  <2>3. listener = "waiting" => v = NoDocs
    BY <1>3 DEF ShouldRaise
  <2> QED
    BY <2>1, <2>2, <2>3, <1>1
<1> QED
  BY <1>2, <1>3

-----------------------------------------------------------------------------
(* The inductive invariant: StreamFresh is preserved as it stands, given   *)
(* the types, because every step that changes what CurrentView is made of  *)
(* raises the new view through Emit in the same step.                      *)
StoreInv == StoreTypeOK /\ StreamFresh

LEMMA StoreInvInit == StoreInit => StoreInv
<1> SUFFICES ASSUME StoreInit PROVE StoreInv
  OBVIOUS
<1>1. StoreTypeOK
  BY FirestoreAssumption, NoDocsIsAView
     DEF StoreInit, StoreTypeOK, DocState, Content, Future
<1>2. StreamFresh
  BY DEF StoreInit, StreamFresh
<1> QED
  BY <1>1, <1>2 DEF StoreInv

LEMMA ListenKeepsStoreInv ==
    ASSUME StoreInv, Listen PROVE StoreInv'
<1>1. StoreTypeOK /\ CurrentView \in View
  BY ViewsAreViews DEF StoreInv, CurrentView
<1>2. CurrentView' = CurrentView
  BY DEF Listen, CurrentView
<1>3. CASE CurrentView # NoDocs
  <2> DEFINE m == Snapshot(CurrentView)
  <2>a. m \in Message /\ toApp \in Seq(Message)
    BY <1>1 DEF Snapshot, Message, StoreTypeOK
  <2>b. Append(toApp, m) = toApp \o <<m>>
    <3> HIDE DEF m
    <3> QED
      BY <2>a, AppendIsConcat
  <2>1. toApp' = toApp \o <<Snapshot(CurrentView)>> /\ listener' = "raised"
    BY <1>3, <2>b DEF Listen
  <2>2. Newest(toApp', seen', CurrentView)
    BY <2>1, <1>1, NewestAtEnd DEF StoreTypeOK
  <2>3. toApp' \in Seq(Message)
    BY <2>1, <1>1 DEF StoreTypeOK, Snapshot, Message
  <2> QED
    BY <1>1, <1>2, <2>1, <2>2, <2>3 DEF StoreInv, StoreTypeOK, StreamFresh, Listen
<1>4. CASE CurrentView = NoDocs
  BY <1>1, <1>2, <1>4 DEF StoreInv, StoreTypeOK, StreamFresh, Listen
<1> QED
  BY <1>3, <1>4

LEMMA WriteKeepsStoreInv ==
    ASSUME StoreInv, NEW op \in {"set", "patch", "delete"}, NEW d \in Doc,
           NEW content \in Content, NEW rewritten \in BOOLEAN,
           WriteMutations(op, d, content, rewritten)
    PROVE  StoreInv'
<1>1. StoreTypeOK /\ StreamFresh
  BY DEF StoreInv
<1>2. Len(writes) + 1 \in Write
  BY <1>1, FirestoreAssumption DEF StoreTypeOK, WriteMutations, Write
<1>3. /\ writes' \in Seq(Mutation) /\ Len(writes') <= MaxWrites
      /\ mutationQueue' \in Seq(Write)
  BY <1>1, <1>2, FirestoreAssumption
     DEF StoreTypeOK, WriteMutations, Mutation
<1>4. CurrentView' = ViewOf(remoteDocs, writes', mutationQueue')
  BY DEF WriteMutations, CurrentView
<1>5. /\ toApp' \in Seq(Message)
      /\ listener' \in {"none", "waiting", "raised", "failed"}
      /\ listener' = "raised" => Newest(toApp', seen', CurrentView')
      /\ listener' = "waiting" => CurrentView' = NoDocs
  <2>1. /\ Emit(<<>>, CurrentView', rewritten, FALSE)
        /\ seen' = seen
    BY <1>4 DEF WriteMutations
  <2>2. CurrentView' \in View
    BY <1>4, ViewsAreViews
  <2>3. <<>> \in Seq(ResultMessage)
    OBVIOUS
  <2> QED
    BY <2>1, <2>2, <2>3, <1>1, EmitKeepsStreamFresh
<1> QED
  BY <1>1, <1>2, <1>3, <1>5
     DEF StoreInv, StoreTypeOK, StreamFresh, WriteMutations, Future

LEMMA SuccessKeepsStoreInv ==
    ASSUME StoreInv, NEW state \in DocState, HandleSuccessfulWrite(state)
    PROVE  StoreInv'
<1> DEFINE w == Head(mutationQueue)
<1>1. StoreTypeOK /\ StreamFresh
  BY DEF StoreInv
<1>2. w \in Write /\ mutationQueue' \in Seq(Write)
  BY <1>1 DEF StoreTypeOK, HandleSuccessfulWrite
<1>3. remoteDocs' \in [Doc -> DocState]
  BY <1>1 DEF StoreTypeOK, HandleSuccessfulWrite
<1>4. CurrentView' = ViewOf(remoteDocs', writes, mutationQueue')
  BY DEF HandleSuccessfulWrite, CurrentView
<1>5. /\ toApp' \in Seq(Message)
      /\ listener' \in {"none", "waiting", "raised", "failed"}
      /\ listener' = "raised" => Newest(toApp', seen', CurrentView')
      /\ listener' = "waiting" => CurrentView' = NoDocs
  <2>1. Emit(Answer(w, TRUE), CurrentView', FALSE, FALSE) /\ seen' = seen
    BY <1>4 DEF HandleSuccessfulWrite
  <2>2. CurrentView' \in View
    BY <1>4, ViewsAreViews
  <2>3. Answer(w, TRUE) \in Seq(ResultMessage)
    BY <1>2, AnswersAreResults
  <2> QED
    BY <2>1, <2>2, <2>3, <1>1, EmitKeepsStreamFresh
<1> QED
  BY <1>1, <1>2, <1>3, <1>5
     DEF StoreInv, StoreTypeOK, StreamFresh, HandleSuccessfulWrite

LEMMA RefusalKeepsStoreInv ==
    ASSUME StoreInv, HandleRejectedWrite
    PROVE  StoreInv'
<1> DEFINE w == Head(mutationQueue)
<1>1. StoreTypeOK /\ StreamFresh
  BY DEF StoreInv
<1>2. w \in Write /\ mutationQueue' \in Seq(Write)
  BY <1>1 DEF StoreTypeOK, HandleRejectedWrite
<1>3. CurrentView' = ViewOf(remoteDocs, writes, mutationQueue')
  BY DEF HandleRejectedWrite, CurrentView
<1>4. /\ toApp' \in Seq(Message)
      /\ listener' \in {"none", "waiting", "raised", "failed"}
      /\ listener' = "raised" => Newest(toApp', seen', CurrentView')
      /\ listener' = "waiting" => CurrentView' = NoDocs
  <2>1. Emit(Answer(w, FALSE), CurrentView', FALSE, FALSE) /\ seen' = seen
    BY <1>3 DEF HandleRejectedWrite
  <2>2. CurrentView' \in View
    BY <1>3, ViewsAreViews
  <2>3. Answer(w, FALSE) \in Seq(ResultMessage)
    BY <1>2, AnswersAreResults
  <2> QED
    BY <2>1, <2>2, <2>3, <1>1, EmitKeepsStreamFresh
<1> QED
  BY <1>1, <1>2, <1>4
     DEF StoreInv, StoreTypeOK, StreamFresh, HandleRejectedWrite

LEMMA WatchKeepsStoreInv ==
    ASSUME StoreInv, NEW docs \in [Doc -> DocState],
           NEW rewritten \in BOOLEAN, NEW synced \in BOOLEAN,
           ApplyRemoteEvent(docs, rewritten, synced)
    PROVE  StoreInv'
<1>1. StoreTypeOK /\ StreamFresh
  BY DEF StoreInv
<1>2. CurrentView' = ViewOf(docs, writes, mutationQueue)
  BY DEF ApplyRemoteEvent, CurrentView
<1>3. /\ toApp' \in Seq(Message)
      /\ listener' \in {"none", "waiting", "raised", "failed"}
      /\ listener' = "raised" => Newest(toApp', seen', CurrentView')
      /\ listener' = "waiting" => CurrentView' = NoDocs
  <2>1. Emit(<<>>, CurrentView', rewritten, synced) /\ seen' = seen
    BY <1>2 DEF ApplyRemoteEvent
  <2>2. CurrentView' \in View
    BY <1>2, ViewsAreViews
  <2>3. <<>> \in Seq(ResultMessage)
    OBVIOUS
  <2> QED
    BY <2>1, <2>2, <2>3, <1>1, EmitKeepsStreamFresh
<1>4. touched' \subseteq Write
  <2>1. /\ DOMAIN writes = 1 .. Len(writes) /\ Len(writes) \in Nat
        /\ Len(writes) <= MaxWrites /\ touched \subseteq Write
    BY <1>1 DEF StoreTypeOK
  <2>2. DOMAIN writes \subseteq Write
    BY <2>1, FirestoreAssumption DEF Write
  <2> QED
    BY <2>1, <2>2 DEF ApplyRemoteEvent
<1> QED
  BY <1>1, <1>3, <1>4 DEF StoreInv, StoreTypeOK, StreamFresh, ApplyRemoteEvent

LEMMA OfflineKeepsStoreInv ==
    ASSUME StoreInv, GoOffline PROVE StoreInv'
<1>1. StoreTypeOK /\ StreamFresh
  BY DEF StoreInv
<1>2. CurrentView' = CurrentView /\ CurrentView \in View
  BY ViewsAreViews DEF GoOffline, CurrentView
<1>3. /\ toApp' \in Seq(Message)
      /\ listener' \in {"none", "waiting", "raised", "failed"}
      /\ listener' = "raised" => Newest(toApp', seen', CurrentView)
      /\ listener' = "waiting" => CurrentView = NoDocs
  <2>1. Emit(<<>>, CurrentView, FALSE, TRUE) /\ seen' = seen
    BY DEF GoOffline
  <2>2. <<>> \in Seq(ResultMessage)
    OBVIOUS
  <2> QED
    BY <2>1, <2>2, <1>1, <1>2, EmitKeepsStreamFresh
<1> QED
  BY <1>1, <1>2, <1>3 DEF StoreInv, StoreTypeOK, StreamFresh, GoOffline

LEMMA DeliverKeepsStoreInv ==
    ASSUME StoreInv, Deliver PROVE StoreInv'
<1>1. StoreTypeOK /\ StreamFresh
  BY DEF StoreInv
<1>2. /\ toApp \in Seq(Message) /\ toApp # <<>>
      /\ Head(toApp) \in Message /\ toApp' = Tail(toApp)
      /\ toApp' \in Seq(Message)
  BY <1>1 DEF StoreTypeOK, Deliver
<1>3. CurrentView' = CurrentView /\ listener' = listener
  BY DEF Deliver, CurrentView
<1>4. CASE Head(toApp).type = "result"
  <2>1. Head(toApp).write \in Write
    BY <1>2, <1>4 DEF Message
  <2>2. seen' = seen /\ future' \in [Write -> Future]
    BY <1>1, <1>4, <2>1 DEF Deliver, StoreTypeOK, Future
  <2>3. listener' = "raised" => Newest(toApp', seen', CurrentView')
    BY <1>1, <1>2, <1>3, <1>4, <2>2, NewestAfterResult DEF StreamFresh
  <2> QED
    BY <1>1, <1>2, <1>3, <2>2, <2>3 DEF StoreInv, StoreTypeOK, StreamFresh, Deliver
<1>5. CASE Head(toApp).type # "result"
  <2>1. Head(toApp).type = "snapshot" /\ Head(toApp).view \in View
    BY <1>2, <1>5 DEF Message
  <2>2. seen' = Head(toApp).view /\ future' = future
    BY <1>5 DEF Deliver
  <2>3. listener' = "raised" => Newest(toApp', seen', CurrentView')
    BY <1>1, <1>2, <1>3, <2>1, <2>2, NewestAfterSnapshot DEF StreamFresh
  <2> QED
    BY <1>1, <1>2, <1>3, <2>1, <2>2, <2>3
       DEF StoreInv, StoreTypeOK, StreamFresh, Deliver
<1> QED
  BY <1>4, <1>5

LEMMA RestartKeepsStoreInv ==
    ASSUME StoreInv, Restart PROVE StoreInv'
<1>1. StoreTypeOK
  BY DEF StoreInv
<1>2. future' \in [Write -> Future]
  BY <1>1 DEF StoreTypeOK, Restart, Future
<1> QED
  BY <1>1, <1>2, NoDocsIsAView DEF StoreInv, StoreTypeOK, StreamFresh, Restart

LEMMA StoreInvStep ==
    ASSUME StoreInv, [StoreNext]_storeVars PROVE StoreInv'
<1>1. CASE Listen
  BY <1>1, ListenKeepsStoreInv
<1>2. CASE \E d \in Doc : CallerWrites(d)
  <2>1. PICK d \in Doc : CallerWrites(d)
    BY <1>2
  <2> QED
    BY <2>1, WriteKeepsStoreInv DEF CallerWrites, Content
<1>3. CASE ServerAnswers
  BY <1>3, SuccessKeepsStoreInv, RefusalKeepsStoreInv DEF ServerAnswers
<1>4. CASE WatchEvents
  BY <1>4, WatchKeepsStoreInv DEF WatchEvents
<1>5. CASE GoOffline
  BY <1>5, OfflineKeepsStoreInv
<1>6. CASE RejectListen
  BY <1>6 DEF StoreInv, StoreTypeOK, StreamFresh, RejectListen
<1>7. CASE Deliver
  BY <1>7, DeliverKeepsStoreInv
<1>8. CASE Restart
  BY <1>8, RestartKeepsStoreInv
<1>9. CASE UNCHANGED storeVars
  BY <1>9 DEF storeVars, StoreInv, StoreTypeOK, StreamFresh, CurrentView
<1> QED
  BY <1>1, <1>2, <1>3, <1>4, <1>5, <1>6, <1>7, <1>8, <1>9 DEF StoreNext

(* Every reachable state satisfies the inductive invariant. *)
THEOREM StoreInvariant == StoreSpec => []StoreInv
<1>1. StoreInv /\ [StoreNext]_storeVars => StoreInv'
  BY StoreInvStep
<1> QED
  BY <1>1, StoreInvInit, PTL DEF StoreSpec

(* The client's state is well typed. *)
THEOREM StoreTypeCorrect == StoreSpec => []StoreTypeOK
<1>1. StoreInv => StoreTypeOK
  BY DEF StoreInv
<1> QED
  BY <1>1, StoreInvariant, PTL

(* The last snapshot raised by tasksRef.snapshots() always shows what the  *)
(* device knows: the cache with every unanswered write on top of it.       *)
THEOREM StreamAlwaysFresh == StoreSpec => []StreamFresh
<1>1. StoreInv => StreamFresh
  BY DEF StoreInv
<1> QED
  BY <1>1, StoreInvariant, PTL

-----------------------------------------------------------------------------
(* Answers: each write has one, and they come in the order of the writes.  *)

(* Place i of the channel holds the result of some write. *)
IsResult(i) == toApp[i].type = "result"

(* Exactly the first Len(writes) writes were made. *)
Issued == \A w \in Write : future[w] = "none" <=> w > Len(writes)

(* The queue is in the order of the writes. *)
QueueOrdered ==
    /\ \A i \in DOMAIN mutationQueue : mutationQueue[i] <= Len(writes)
    /\ \A i, j \in DOMAIN mutationQueue : i < j => mutationQueue[i] < mutationQueue[j]

(* So are the results in the channel, and they are all of earlier writes   *)
(* than those still queued.                                                *)
ResultsOrdered ==
    /\ \A i, j \in DOMAIN toApp :
         IsResult(i) /\ IsResult(j) /\ i < j => toApp[i].write < toApp[j].write
    /\ \A i \in DOMAIN toApp, k \in DOMAIN mutationQueue :
         IsResult(i) => toApp[i].write < mutationQueue[k]

(* A result on its way is awaited, and what is awaited is queued or on its *)
(* way.                                                                    *)
ResultsAwaited ==
    /\ \A i \in DOMAIN toApp : IsResult(i) => future[toApp[i].write] = "pending"
    /\ \A w \in Write : future[w] = "pending" =>
         Queued(w) \/ \E i \in DOMAIN toApp : IsResult(i) /\ toApp[i].write = w

(* OneAnswerEach alone is not inductive: that a delivered result is the    *)
(* only one of its write, and the oldest that is awaited, follows from the *)
(* order of the channel and of the queue behind it.                        *)
RepliesInv == Issued /\ QueueOrdered /\ ResultsOrdered /\ ResultsAwaited

-----------------------------------------------------------------------------
LEMMA ResultsHaveWrites ==
    ASSUME StoreTypeOK, NEW i \in DOMAIN toApp
    PROVE  /\ toApp[i] \in Message
           /\ IsResult(i) => toApp[i].write \in Write
           /\ ~IsResult(i) => toApp[i].type = "snapshot"
<1>1. toApp[i] \in Message
  BY ElementOfSeq, LenProperties DEF StoreTypeOK
<1> QED
  BY <1>1 DEF Message, IsResult

(* What Emit leaves in the channel: what was there, the result if there is *)
(* one, and at most a snapshot.                                            *)
LEMMA EmitAppends ==
    ASSUME StoreTypeOK, NEW messages \in Seq(ResultMessage), NEW v \in View,
           NEW rewritten, NEW synced,
           Emit(messages, v, rewritten, synced)
    PROVE  /\ DOMAIN toApp' = 1 .. Len(toApp') /\ Len(toApp') \in Nat
           /\ Len(toApp') >= Len(toApp) + Len(messages)
           /\ \A i \in 1 .. Len(toApp) : toApp'[i] = toApp[i]
           /\ \A i \in 1 .. Len(messages) : toApp'[Len(toApp) + i] = messages[i]
           /\ \A i \in DOMAIN toApp' :
                i > Len(toApp) + Len(messages)
                  => toApp'[i] = Snapshot(v) /\ toApp'[i].type = "snapshot"
<1> DEFINE told == toApp \o messages
           tail == IF ShouldRaise(v, rewritten, synced) THEN <<Snapshot(v)>> ELSE <<>>
<1>1. /\ toApp \in Seq(Message) /\ messages \in Seq(Message)
  <2>1. ResultMessage \subseteq Message
    BY DEF ResultMessage, Message
  <2> QED
    BY <2>1, SeqMonotonic DEF StoreTypeOK
<1>2. /\ told \in Seq(Message)
      /\ Len(told) = Len(toApp) + Len(messages)
      /\ \A i \in 1 .. Len(toApp) : told[i] = toApp[i]
      /\ \A i \in 1 .. Len(messages) : told[Len(toApp) + i] = messages[i]
      /\ Len(toApp) \in Nat /\ Len(messages) \in Nat
  BY <1>1, ConcatProperties, LenProperties
<1>3. /\ tail \in Seq(Message) /\ Len(tail) \in {0, 1}
      /\ \A i \in 1 .. Len(tail) : tail[i] = Snapshot(v) /\ tail[i].type = "snapshot"
  <2>1. Snapshot(v) \in Message /\ Snapshot(v).type = "snapshot"
    BY DEF Snapshot, Message
  <2> QED
    BY <2>1
<1>4. toApp' = told \o tail
  BY <1>1, <1>3 DEF Emit
<1> HIDE DEF told, tail
<1>5. /\ toApp' \in Seq(Message) /\ Len(toApp') = Len(told) + Len(tail)
      /\ \A i \in 1 .. Len(told) : toApp'[i] = told[i]
      /\ \A i \in 1 .. Len(tail) : toApp'[Len(told) + i] = tail[i]
  <2>1. told \in Seq(Message) /\ tail \in Seq(Message)
    BY <1>2, <1>3
  <2>2. /\ told \o tail \in Seq(Message) /\ Len(told \o tail) = Len(told) + Len(tail)
        /\ \A i \in 1 .. Len(told) : (told \o tail)[i] = told[i]
        /\ \A i \in 1 .. Len(tail) : (told \o tail)[Len(told) + i] = tail[i]
    BY <2>1, ConcatProperties
  <2> QED
    BY <1>4, <2>2
<1>6. DOMAIN toApp' = 1 .. Len(toApp') /\ Len(toApp') \in Nat
  BY <1>5, LenProperties
<1>7. ASSUME NEW i \in DOMAIN toApp', i > Len(toApp) + Len(messages)
      PROVE  toApp'[i] = Snapshot(v) /\ toApp'[i].type = "snapshot"
  <2>1. /\ i \in 1 .. Len(told) + Len(tail) /\ i > Len(told)
        /\ Len(told) \in Nat /\ Len(tail) \in Nat
    <3>1. Len(told) = Len(toApp) + Len(messages) /\ Len(toApp) \in Nat /\ Len(messages) \in Nat
      BY <1>2
    <3>2. Len(tail) \in {0, 1}
      BY <1>3
    <3>3. i \in 1 .. Len(told) + Len(tail)
      BY <1>5, <1>6, <1>7
    <3> QED
      BY <1>7, <3>1, <3>2, <3>3
  <2>2. i - Len(told) \in 1 .. Len(tail) /\ Len(told) + (i - Len(told)) = i
    BY <2>1
  <2>3. tail[i - Len(told)] = toApp'[i]
    BY <2>2, <1>5
  <2> QED
    BY <2>2, <2>3, <1>3
<1> QED
  <2>1. Len(tail) \in Nat
    BY <1>3
  <2>2. Len(told) = Len(toApp) + Len(messages) /\ Len(toApp) \in Nat /\ Len(messages) \in Nat
    BY <1>2
  <2>3. Len(toApp') >= Len(toApp) + Len(messages)
    BY <1>5, <2>1, <2>2
  <2>4. ASSUME NEW i \in 1 .. Len(toApp)
        PROVE  toApp'[i] = toApp[i]
    <3>1. i \in 1 .. Len(told) /\ told[i] = toApp[i]
      BY <1>2, <2>2
    <3> QED
      BY <1>5, <3>1
  <2>5. ASSUME NEW i \in 1 .. Len(messages)
        PROVE  toApp'[Len(toApp) + i] = messages[i]
    <3>1. Len(toApp) + i \in 1 .. Len(told) /\ told[Len(toApp) + i] = messages[i]
      BY <1>2, <2>2
    <3> QED
      BY <1>5, <3>1
  <2> QED
    BY <1>6, <1>7, <2>3, <2>4, <2>5

(* Snapshots say nothing of writes. *)
LEMMA SnapshotsKeepRepliesInv ==
    ASSUME StoreTypeOK, RepliesInv,
           DOMAIN toApp' = 1 .. Len(toApp'), Len(toApp') \in Nat,
           Len(toApp') >= Len(toApp),
           \A i \in 1 .. Len(toApp) : toApp'[i] = toApp[i],
           \A i \in DOMAIN toApp' : i > Len(toApp) => toApp'[i].type = "snapshot",
           UNCHANGED <<writes, future, mutationQueue>>
    PROVE  RepliesInv'
<1>1. DOMAIN toApp = 1 .. Len(toApp) /\ Len(toApp) \in Nat
  BY LenProperties DEF StoreTypeOK
<1>2. \A i \in DOMAIN toApp' :
         IsResult(i)' => i \in DOMAIN toApp /\ IsResult(i) /\ toApp'[i] = toApp[i]
  BY <1>1 DEF IsResult
<1>3. \A i \in DOMAIN toApp : i \in DOMAIN toApp' /\ toApp'[i] = toApp[i]
  BY <1>1
<1>4. Issued' /\ QueueOrdered'
  BY DEF RepliesInv, Issued, QueueOrdered
<1>5. ResultsOrdered'
  BY <1>2 DEF RepliesInv, ResultsOrdered
<1>6. ResultsAwaited'
  BY <1>2, <1>3 DEF RepliesInv, ResultsAwaited, Queued, IsResult
<1> QED
  BY <1>4, <1>5, <1>6 DEF RepliesInv

LEMMA ListenKeepsRepliesInv ==
    ASSUME StoreTypeOK, RepliesInv, Listen PROVE RepliesInv'
<1>1. CASE CurrentView # NoDocs
  <2> DEFINE m == Snapshot(CurrentView)
  <2>1. m \in Message /\ m.type = "snapshot" /\ toApp \in Seq(Message)
    BY ViewsAreViews DEF Snapshot, Message, CurrentView, StoreTypeOK
  <2>2. toApp' = Append(toApp, m)
    BY <1>1 DEF Listen
  <2> HIDE DEF m
  <2>3. /\ toApp' \in Seq(Message) /\ Len(toApp') = Len(toApp) + 1
        /\ \A i \in 1 .. Len(toApp) : toApp'[i] = toApp[i]
        /\ toApp'[Len(toApp) + 1] = m
    BY <2>1, <2>2, AppendProperties
  <2>4. DOMAIN toApp' = 1 .. Len(toApp') /\ Len(toApp') \in Nat /\ Len(toApp) \in Nat
    BY <2>1, <2>3, LenProperties
  <2>5. UNCHANGED <<writes, future, mutationQueue>>
    BY DEF Listen
  <2> QED
    BY <2>1, <2>3, <2>4, <2>5, SnapshotsKeepRepliesInv
<1>2. CASE CurrentView = NoDocs
  BY <1>2 DEF Listen, RepliesInv, Issued, QueueOrdered, ResultsOrdered, ResultsAwaited,
              Queued, IsResult
<1> QED
  BY <1>1, <1>2

(* A snapshot raised with no answer before it. *)
LEMMA EmitKeepsRepliesInv ==
    ASSUME StoreTypeOK, RepliesInv, NEW v \in View, NEW rewritten, NEW synced,
           Emit(<<>>, v, rewritten, synced),
           UNCHANGED <<writes, future, mutationQueue>>
    PROVE  RepliesInv'
<1>1. <<>> \in Seq(ResultMessage) /\ Len(<<>>) = 0
  BY EmptySeq
<1>2. Len(toApp) \in Nat
  BY LenProperties DEF StoreTypeOK
<1>3. /\ DOMAIN toApp' = 1 .. Len(toApp') /\ Len(toApp') \in Nat
      /\ Len(toApp') >= Len(toApp)
      /\ \A i \in 1 .. Len(toApp) : toApp'[i] = toApp[i]
      /\ \A i \in DOMAIN toApp' : i > Len(toApp) => toApp'[i].type = "snapshot"
  <2>1. Len(toApp) + Len(<<>>) = Len(toApp)
    BY <1>1, <1>2
  <2> QED
    BY <1>1, <2>1, EmitAppends
<1> QED
  BY <1>3, SnapshotsKeepRepliesInv

-----------------------------------------------------------------------------
(* A new write is the last of all, queued behind the others. *)
LEMMA WriteKeepsRepliesInv ==
    ASSUME StoreTypeOK, RepliesInv, NEW op, NEW d, NEW content, NEW rewritten,
           WriteMutations(op, d, content, rewritten)
    PROVE  RepliesInv'
<1> DEFINE n == Len(writes) + 1
           q == mutationQueue
<1>1. /\ Len(writes) \in Nat /\ n \in Write /\ n > Len(writes)
      /\ Len(writes') = n /\ toApp \in Seq(Message) /\ Len(toApp) \in Nat
      /\ DOMAIN toApp = 1 .. Len(toApp)
  BY FirestoreAssumption, LenProperties DEF StoreTypeOK, WriteMutations, Write
<1>2. /\ q \in Seq(Write) /\ q' = Append(q, n) /\ Len(q) \in Nat
      /\ DOMAIN q = 1 .. Len(q) /\ DOMAIN q' = 1 .. Len(q) + 1
      /\ \A i \in 1 .. Len(q) : q'[i] = q[i]
      /\ q'[Len(q) + 1] = n
      /\ Len(q') = Len(q) + 1
  BY <1>1 DEF StoreTypeOK, WriteMutations
<1>3. /\ DOMAIN toApp' = 1 .. Len(toApp') /\ Len(toApp') \in Nat
      /\ Len(toApp') >= Len(toApp)
      /\ \A i \in 1 .. Len(toApp) : toApp'[i] = toApp[i]
      /\ \A i \in DOMAIN toApp' : i > Len(toApp) => toApp'[i].type = "snapshot"
  <2>1. <<>> \in Seq(ResultMessage) /\ Len(toApp) + Len(<<>>) = Len(toApp)
    BY <1>1, EmptySeq
  <2>2. Emit(<<>>, ViewOf(remoteDocs, writes', q'), rewritten, FALSE)
    BY DEF WriteMutations
  <2> QED
    BY <2>1, <2>2, ViewsAreViews, EmitAppends
<1>4. /\ \A i \in DOMAIN toApp' :
            IsResult(i)' => i \in DOMAIN toApp /\ IsResult(i) /\ toApp'[i] = toApp[i]
      /\ \A i \in DOMAIN toApp : i \in DOMAIN toApp' /\ toApp'[i] = toApp[i]
  BY <1>1, <1>3 DEF IsResult
<1>5. /\ future[n] = "none" /\ future' = [future EXCEPT ![n] = "pending"]
      /\ future \in [Write -> Future]
  BY <1>1 DEF RepliesInv, Issued, WriteMutations, StoreTypeOK
<1>6. \A i \in DOMAIN toApp :
         IsResult(i) => toApp[i].write \in Write /\ toApp[i].write # n
                        /\ toApp[i].write <= Len(writes)
  <2> SUFFICES ASSUME NEW i \in DOMAIN toApp, IsResult(i)
               PROVE  toApp[i].write \in Write /\ toApp[i].write # n
                      /\ toApp[i].write <= Len(writes)
    OBVIOUS
  <2>1. toApp[i].write \in Write /\ future[toApp[i].write] = "pending"
    BY ResultsHaveWrites DEF RepliesInv, ResultsAwaited
  <2>2. ~(toApp[i].write > Len(writes))
    BY <2>1 DEF RepliesInv, Issued
  <2> QED
    BY <2>1, <2>2, <1>1 DEF Write
<1>7. Issued'
  <2> SUFFICES ASSUME NEW w \in Write
               PROVE  future'[w] = "none" <=> w > Len(writes')
    BY DEF Issued
  <2>1. future[w] = "none" <=> w > Len(writes)
    BY DEF RepliesInv, Issued
  <2>2. w \in Nat
    BY DEF Write
  <2>3. CASE w = n
    BY <2>3, <1>1, <1>5
  <2>4. CASE w # n
    BY <2>1, <2>2, <2>4, <1>1, <1>5
  <2> QED
    BY <2>3, <2>4
<1>8. QueueOrdered'
  <2>1. \A i \in DOMAIN q' : q'[i] <= Len(writes') /\ (i <= Len(q) => q'[i] < n)
    <3> SUFFICES ASSUME NEW i \in DOMAIN q'
                 PROVE  q'[i] <= Len(writes') /\ (i <= Len(q) => q'[i] < n)
      OBVIOUS
    <3>1. CASE i \in 1 .. Len(q)
      <4>1. q[i] \in Write
        BY <3>1, <1>2
      <4>2. q[i] <= Len(writes)
        BY <3>1, <1>2 DEF RepliesInv, QueueOrdered
      <4>3. q[i] \in Nat
        BY <4>1 DEF Write
      <4> QED
        BY <3>1, <4>2, <4>3, <1>1, <1>2
    <3>2. CASE i = Len(q) + 1
      BY <3>2, <1>1, <1>2
    <3> QED
      BY <3>1, <3>2, <1>2
  <2>2. \A i, j \in DOMAIN q' : i < j => q'[i] < q'[j]
    <3> SUFFICES ASSUME NEW i \in DOMAIN q', NEW j \in DOMAIN q', i < j
                 PROVE  q'[i] < q'[j]
      OBVIOUS
    <3>1. i \in 1 .. Len(q)
      BY <1>2
    <3>2. CASE j \in 1 .. Len(q)
      BY <3>1, <3>2, <1>2 DEF RepliesInv, QueueOrdered
    <3>3. CASE j = Len(q) + 1
      BY <3>1, <3>3, <2>1, <1>2
    <3> QED
      BY <3>2, <3>3, <1>2
  <2> QED
    BY <2>1, <2>2 DEF QueueOrdered
<1>9. ResultsOrdered'
  <2>1. \A i, j \in DOMAIN toApp' :
           (IsResult(i) /\ IsResult(j))' /\ i < j => toApp'[i].write < toApp'[j].write
    BY <1>4 DEF RepliesInv, ResultsOrdered
  <2>2. \A i \in DOMAIN toApp', k \in DOMAIN q' :
           IsResult(i)' => toApp'[i].write < q'[k]
    <3> SUFFICES ASSUME NEW i \in DOMAIN toApp', NEW k \in DOMAIN q', IsResult(i)'
                 PROVE  toApp'[i].write < q'[k]
      OBVIOUS
    <3>1. i \in DOMAIN toApp /\ IsResult(i) /\ toApp'[i] = toApp[i]
      BY <1>4
    <3>2. CASE k \in 1 .. Len(q)
      BY <3>1, <3>2, <1>2 DEF RepliesInv, ResultsOrdered
    <3>3. CASE k = Len(q) + 1
      <4>1. toApp[i].write \in Nat /\ toApp[i].write <= Len(writes)
        BY <3>1, <1>6 DEF Write
      <4> QED
        BY <3>1, <3>3, <4>1, <1>1, <1>2
    <3> QED
      BY <3>2, <3>3, <1>2
  <2> QED
    BY <2>1, <2>2 DEF ResultsOrdered, IsResult
<1>10. ResultsAwaited'
  <2>1. \A i \in DOMAIN toApp' : IsResult(i)' => future'[toApp'[i].write] = "pending"
    BY <1>4, <1>5, <1>6 DEF RepliesInv, ResultsAwaited
  <2>2. ASSUME NEW w \in Write, future'[w] = "pending"
        PROVE  Queued(w)' \/ \E i \in DOMAIN toApp' : IsResult(i)' /\ toApp'[i].write = w
    <3>1. CASE w = n
      <4>1. Len(q) + 1 \in 1 .. Len(q')
        BY <1>2
      <4> QED
        BY <3>1, <4>1, <1>2 DEF Queued
    <3>2. CASE w # n
      <4>1. future[w] = "pending"
        BY <3>2, <2>2, <1>5
      <4>2. Queued(w) => Queued(w)'
        BY <1>2 DEF Queued
      <4>3. (\E i \in DOMAIN toApp : IsResult(i) /\ toApp[i].write = w)
               => \E i \in DOMAIN toApp' : IsResult(i)' /\ toApp'[i].write = w
        BY <1>4 DEF IsResult
      <4> QED
        BY <4>1, <4>2, <4>3 DEF RepliesInv, ResultsAwaited
    <3> QED
      BY <3>1, <3>2
  <2> QED
    BY <2>1, <2>2 DEF ResultsAwaited, IsResult
<1> QED
  BY <1>7, <1>8, <1>9, <1>10 DEF RepliesInv

-----------------------------------------------------------------------------
(* The head of the queue is answered: its result is the last of the        *)
(* channel, and of an earlier write than any that is left.                 *)
LEMMA AnswerKeepsRepliesInv ==
    ASSUME StoreTypeOK, RepliesInv, mutationQueue # <<>>,
           mutationQueue' = Tail(mutationQueue),
           NEW ok \in BOOLEAN, NEW v \in View,
           Emit(Answer(Head(mutationQueue), ok), v, FALSE, FALSE),
           UNCHANGED <<writes, future>>
    PROVE  RepliesInv'
<1> DEFINE q == mutationQueue
           w == Head(q)
<1>1. /\ q \in Seq(Write) /\ Len(q) \in Nat \ {0} /\ DOMAIN q = 1 .. Len(q)
      /\ w = q[1] /\ w \in Write /\ 1 \in DOMAIN q
      /\ q' \in Seq(Write) /\ Len(q') = Len(q) - 1 /\ DOMAIN q' = 1 .. Len(q) - 1
      /\ \A i \in 1 .. Len(q) - 1 : q'[i] = q[i + 1] /\ i + 1 \in DOMAIN q
  BY HeadTailProperties, LenProperties DEF StoreTypeOK
<1>2. /\ toApp \in Seq(Message) /\ Len(toApp) \in Nat /\ DOMAIN toApp = 1 .. Len(toApp)
  BY LenProperties DEF StoreTypeOK
<1> DEFINE ms == Answer(w, ok)
<1>3. /\ ms \in Seq(ResultMessage)
      /\ future[w] # "pending" => ms = <<>>
      /\ future[w] = "pending" => ms = <<Result(w, ok)>>
      /\ Len(ms) = IF future[w] = "pending" THEN 1 ELSE 0
  BY <1>1, AnswersAreResults DEF Answer
<1>4. /\ DOMAIN toApp' = 1 .. Len(toApp') /\ Len(toApp') \in Nat
      /\ Len(toApp') >= Len(toApp) + Len(ms)
      /\ \A i \in 1 .. Len(toApp) : toApp'[i] = toApp[i]
      /\ \A i \in 1 .. Len(ms) : toApp'[Len(toApp) + i] = ms[i]
      /\ \A i \in DOMAIN toApp' : i > Len(toApp) + Len(ms) => toApp'[i].type = "snapshot"
  BY <1>3, EmitAppends
<1> HIDE DEF ms
<1> DEFINE last == Len(toApp) + 1
<1>5. future[w] = "pending" =>
         /\ last \in DOMAIN toApp' /\ toApp'[last].type = "result"
         /\ toApp'[last].write = w
  <2> SUFFICES ASSUME future[w] = "pending"
               PROVE  /\ last \in DOMAIN toApp' /\ toApp'[last].type = "result"
                      /\ toApp'[last].write = w
    OBVIOUS
  <2>1. Len(ms) = 1 /\ ms[1] = Result(w, ok)
    BY <1>3
  <2>2. last \in DOMAIN toApp' /\ toApp'[last] = ms[1]
    BY <2>1, <1>2, <1>4
  <2> QED
    BY <2>1, <2>2 DEF Result
<1>6. ASSUME NEW i \in DOMAIN toApp', IsResult(i)'
      PROVE  \/ i \in DOMAIN toApp /\ IsResult(i) /\ toApp'[i] = toApp[i]
             \/ i = last /\ future[w] = "pending" /\ toApp'[i].write = w
  <2>1. CASE i <= Len(toApp)
    BY <2>1, <1>2, <1>4, <1>6 DEF IsResult
  <2>2. CASE i > Len(toApp)
    <3>1. ~(i > Len(toApp) + Len(ms))
      BY <1>4, <1>6 DEF IsResult
    <3>2. future[w] = "pending" /\ Len(ms) = 1
      BY <2>2, <3>1, <1>2, <1>3, <1>4
    <3>3. i = last
      BY <2>2, <3>1, <3>2, <1>2, <1>4
    <3> QED
      BY <3>2, <3>3, <1>5
  <2> QED
    BY <2>1, <2>2, <1>2, <1>4
<1>7. \A i \in DOMAIN toApp : i \in DOMAIN toApp' /\ toApp'[i] = toApp[i] /\ i < last
  <2>1. Len(ms) \in Nat
    BY <1>3
  <2> QED
    BY <2>1, <1>2, <1>4
<1>8. \A k \in DOMAIN q' : w < q'[k]
  BY <1>1 DEF RepliesInv, QueueOrdered
<1>9. QueueOrdered'
  <2>1. \A i \in DOMAIN q' : i + 1 \in DOMAIN q /\ q'[i] = q[i + 1] /\ i \in Nat
    BY <1>1
  <2>2. \A i, j \in DOMAIN q' : i < j => i + 1 < j + 1
    BY <2>1
  <2> QED
    BY <2>1, <2>2 DEF RepliesInv, QueueOrdered
<1>10. ResultsOrdered'
  <2>1. ASSUME NEW i \in DOMAIN toApp', NEW j \in DOMAIN toApp',
               IsResult(i)', IsResult(j)', i < j
        PROVE  toApp'[i].write < toApp'[j].write
    <3>1. i \in DOMAIN toApp /\ IsResult(i) /\ toApp'[i] = toApp[i]
      <4>1. i # last
        BY <2>1, <1>2, <1>4, <1>6, <1>7
      <4> QED
        BY <4>1, <2>1, <1>6
    <3>2. CASE j \in DOMAIN toApp /\ IsResult(j) /\ toApp'[j] = toApp[j]
      BY <3>1, <3>2, <2>1 DEF RepliesInv, ResultsOrdered
    <3>3. CASE toApp'[j].write = w
      BY <3>1, <3>3, <1>1 DEF RepliesInv, ResultsOrdered
    <3> QED
      BY <3>2, <3>3, <2>1, <1>6
  <2>2. ASSUME NEW i \in DOMAIN toApp', NEW k \in DOMAIN q', IsResult(i)'
        PROVE  toApp'[i].write < q'[k]
    <3>1. CASE i \in DOMAIN toApp /\ IsResult(i) /\ toApp'[i] = toApp[i]
      BY <3>1, <2>2, <1>1 DEF RepliesInv, ResultsOrdered
    <3>2. CASE toApp'[i].write = w
      BY <3>2, <2>2, <1>8
    <3> QED
      BY <3>1, <3>2, <2>2, <1>6
  <2> QED
    BY <2>1, <2>2 DEF ResultsOrdered, IsResult
<1>11. ResultsAwaited'
  <2>1. \A i \in DOMAIN toApp' : IsResult(i)' => future'[toApp'[i].write] = "pending"
    BY <1>6 DEF RepliesInv, ResultsAwaited
  <2>2. ASSUME NEW u \in Write, future'[u] = "pending"
        PROVE  Queued(u)' \/ \E i \in DOMAIN toApp' : IsResult(i)' /\ toApp'[i].write = u
    <3>1. CASE u = w
      BY <3>1, <2>2, <1>5 DEF IsResult
    <3>2. CASE u # w /\ Queued(u)
      <4>1. PICK k \in 1 .. Len(q) : q[k] = u
        BY <3>2 DEF Queued
      <4>2. k # 1
        BY <4>1, <3>2, <1>1
      <4>3. k - 1 \in 1 .. Len(q') /\ q'[k - 1] = u
        BY <4>1, <4>2, <1>1
      <4> QED
        BY <4>3 DEF Queued
    <3>3. CASE \E i \in DOMAIN toApp : IsResult(i) /\ toApp[i].write = u
      BY <3>3, <1>7 DEF IsResult
    <3>4. future[u] = "pending"
      BY <2>2
    <3> QED
      BY <3>1, <3>2, <3>3, <3>4 DEF RepliesInv, ResultsAwaited
  <2> QED
    BY <2>1, <2>2 DEF ResultsAwaited, IsResult
<1>12. Issued'
  BY DEF RepliesInv, Issued
<1> QED
  BY <1>9, <1>10, <1>11, <1>12 DEF RepliesInv

-----------------------------------------------------------------------------
(* Delivery. *)
LEMMA DeliveredResultIsOldest ==
    ASSUME StoreTypeOK, RepliesInv, toApp # <<>>, Head(toApp).type = "result"
    PROVE  /\ Head(toApp).write \in Write
           /\ future[Head(toApp).write] = "pending"
           /\ \A v \in Write : v < Head(toApp).write => future[v] # "pending"
           /\ ~Queued(Head(toApp).write)
           /\ \A i \in DOMAIN toApp : i # 1 /\ IsResult(i) => toApp[i].write # Head(toApp).write
<1> DEFINE w == Head(toApp).write
<1>1. /\ Len(toApp) \in Nat \ {0} /\ DOMAIN toApp = 1 .. Len(toApp)
      /\ 1 \in DOMAIN toApp /\ IsResult(1) /\ toApp[1].write = w
  BY HeadTailProperties, LenProperties DEF StoreTypeOK, IsResult
<1>2. w \in Write /\ future[w] = "pending" /\ w \in Nat
  BY <1>1, ResultsHaveWrites DEF RepliesInv, ResultsAwaited, Write
<1>3. /\ mutationQueue \in Seq(Write) /\ DOMAIN mutationQueue = 1 .. Len(mutationQueue)
      /\ \A k \in DOMAIN mutationQueue : w < mutationQueue[k]
  BY <1>1, LenProperties DEF RepliesInv, ResultsOrdered, StoreTypeOK
<1>4. \A i \in DOMAIN toApp : i # 1 /\ IsResult(i) => w < toApp[i].write
  BY <1>1 DEF RepliesInv, ResultsOrdered
<1>5. \A u \in Write : u <= w => ~Queued(u)
  BY <1>2, <1>3 DEF Queued, Write
<1>6. ASSUME NEW u \in Write, u < w, future[u] = "pending"
      PROVE  FALSE
  <2>1. ~Queued(u)
    BY <1>2, <1>5, <1>6 DEF Write
  <2>2. PICK i \in DOMAIN toApp : IsResult(i) /\ toApp[i].write = u
    BY <2>1, <1>6 DEF RepliesInv, ResultsAwaited
  <2>3. u \in Nat
    BY DEF Write
  <2> QED
    BY <2>2, <2>3, <1>1, <1>2, <1>4, <1>6
<1>7. ~Queued(w)
  BY <1>2, <1>5
<1>8. \A i \in DOMAIN toApp : i # 1 /\ IsResult(i) => toApp[i].write # w
  BY <1>2, <1>4
<1> QED
  BY <1>2, <1>6, <1>7, <1>8

LEMMA DeliverKeepsRepliesInv ==
    ASSUME StoreTypeOK, RepliesInv, Deliver PROVE RepliesInv'
<1> DEFINE m == Head(toApp)
<1>1. /\ toApp \in Seq(Message) /\ Len(toApp) \in Nat \ {0}
      /\ DOMAIN toApp = 1 .. Len(toApp) /\ m = toApp[1] /\ 1 \in DOMAIN toApp
      /\ toApp' \in Seq(Message) /\ DOMAIN toApp' = 1 .. Len(toApp) - 1
      /\ \A i \in 1 .. Len(toApp) - 1 : toApp'[i] = toApp[i + 1] /\ i + 1 \in DOMAIN toApp
      /\ mutationQueue' = mutationQueue /\ writes' = writes
  BY HeadTailProperties, LenProperties DEF StoreTypeOK, Deliver
<1>2. \A i \in DOMAIN toApp' :
         IsResult(i)' => /\ i + 1 \in DOMAIN toApp /\ i + 1 # 1 /\ i \in Nat
                         /\ IsResult(i + 1) /\ toApp'[i] = toApp[i + 1]
  BY <1>1 DEF IsResult
<1>3. \A i \in DOMAIN toApp :
         i # 1 => i - 1 \in DOMAIN toApp' /\ toApp'[i - 1] = toApp[i]
  BY <1>1
<1>4. QueueOrdered'
  BY <1>1 DEF RepliesInv, QueueOrdered
<1>5. ResultsOrdered'
  <2>1. \A i, j \in DOMAIN toApp' :
           (IsResult(i) /\ IsResult(j))' /\ i < j => toApp'[i].write < toApp'[j].write
    <3> SUFFICES ASSUME NEW i \in DOMAIN toApp', NEW j \in DOMAIN toApp',
                        IsResult(i)', IsResult(j)', i < j
                 PROVE  toApp'[i].write < toApp'[j].write
      OBVIOUS
    <3>1. i + 1 < j + 1
      BY <1>2
    <3> QED
      BY <3>1, <1>2 DEF RepliesInv, ResultsOrdered
  <2>2. \A i \in DOMAIN toApp', k \in DOMAIN mutationQueue' :
           IsResult(i)' => toApp'[i].write < mutationQueue'[k]
    BY <1>1, <1>2 DEF RepliesInv, ResultsOrdered
  <2> QED
    BY <2>1, <2>2 DEF ResultsOrdered, IsResult
<1>6. CASE m.type = "result"
  <2>1. /\ m.write \in Write /\ ~Queued(m.write)
        /\ \A i \in DOMAIN toApp : i # 1 /\ IsResult(i) => toApp[i].write # m.write
        /\ future[m.write] = "pending"
    BY <1>6, DeliveredResultIsOldest DEF Deliver
  <2>2. PICK a \in {"ok", "failed"} : future' = [future EXCEPT ![m.write] = a]
    BY <1>6 DEF Deliver
  <2>3. future \in [Write -> Future]
    BY DEF StoreTypeOK
  <2>4. Issued'
    BY <1>1, <2>1, <2>2, <2>3 DEF RepliesInv, Issued
  <2>5. \A i \in DOMAIN toApp' : IsResult(i)' => future'[toApp'[i].write] = "pending"
    <3> SUFFICES ASSUME NEW i \in DOMAIN toApp', IsResult(i)'
                 PROVE  future'[toApp'[i].write] = "pending"
      OBVIOUS
    <3>1. /\ i + 1 \in DOMAIN toApp /\ IsResult(i + 1) /\ toApp'[i] = toApp[i + 1]
          /\ toApp[i + 1].write # m.write
      BY <1>2, <2>1
    <3>2. toApp[i + 1].write \in Write /\ future[toApp[i + 1].write] = "pending"
      BY <3>1, ResultsHaveWrites DEF RepliesInv, ResultsAwaited
    <3> QED
      BY <3>1, <3>2, <2>2, <2>3
  <2>6. ASSUME NEW u \in Write, future'[u] = "pending"
        PROVE  Queued(u)' \/ \E i \in DOMAIN toApp' : IsResult(i)' /\ toApp'[i].write = u
    <3>1. u # m.write /\ future[u] = "pending"
      BY <2>1, <2>2, <2>3, <2>6
    <3>2. CASE Queued(u)
      BY <3>2, <1>1 DEF Queued
    <3>3. CASE \E i \in DOMAIN toApp : IsResult(i) /\ toApp[i].write = u
      <4>1. PICK i \in DOMAIN toApp : IsResult(i) /\ toApp[i].write = u
        BY <3>3
      <4>2. i # 1
        BY <4>1, <3>1, <1>1
      <4>3. i - 1 \in DOMAIN toApp' /\ toApp'[i - 1] = toApp[i]
        BY <4>2, <1>3
      <4> QED
        BY <4>1, <4>3 DEF IsResult
    <3> QED
      BY <3>1, <3>2, <3>3 DEF RepliesInv, ResultsAwaited
  <2> QED
    BY <2>4, <2>5, <2>6, <1>4, <1>5 DEF RepliesInv, ResultsAwaited, IsResult
<1>7. CASE m.type # "result"
  <2>1. future' = future
    BY <1>7 DEF Deliver
  <2>2. Issued'
    BY <1>1, <2>1 DEF RepliesInv, Issued
  <2>3. \A i \in DOMAIN toApp' : IsResult(i)' => future'[toApp'[i].write] = "pending"
    BY <1>2, <2>1 DEF RepliesInv, ResultsAwaited
  <2>4. ASSUME NEW u \in Write, future'[u] = "pending"
        PROVE  Queued(u)' \/ \E i \in DOMAIN toApp' : IsResult(i)' /\ toApp'[i].write = u
    <3>1. CASE Queued(u)
      BY <3>1, <1>1 DEF Queued
    <3>2. CASE \E i \in DOMAIN toApp : IsResult(i) /\ toApp[i].write = u
      <4>1. PICK i \in DOMAIN toApp : IsResult(i) /\ toApp[i].write = u
        BY <3>2
      <4>2. i # 1
        BY <4>1, <1>1, <1>7 DEF IsResult
      <4>3. i - 1 \in DOMAIN toApp' /\ toApp'[i - 1] = toApp[i]
        BY <4>2, <1>3
      <4> QED
        BY <4>1, <4>3 DEF IsResult
    <3> QED
      BY <3>1, <3>2, <2>1, <2>4 DEF RepliesInv, ResultsAwaited
  <2> QED
    BY <2>2, <2>3, <2>4, <1>4, <1>5 DEF RepliesInv, ResultsAwaited, IsResult
<1> QED
  BY <1>6, <1>7

LEMMA RestartKeepsRepliesInv ==
    ASSUME StoreTypeOK, RepliesInv, Restart PROVE RepliesInv'
<1>1. /\ toApp' = <<>> /\ DOMAIN toApp' = {}
      /\ mutationQueue' = mutationQueue /\ writes' = writes
      /\ \A w \in Write : /\ future'[w] # "pending"
                          /\ future'[w] = "none" <=> future[w] = "none"
  BY DEF Restart, StoreTypeOK
<1> QED
  BY <1>1 DEF RepliesInv, Issued, QueueOrdered, ResultsOrdered, ResultsAwaited

-----------------------------------------------------------------------------
LEMMA RepliesInvInit == StoreInit => RepliesInv
<1> SUFFICES ASSUME StoreInit PROVE RepliesInv
  OBVIOUS
<1>1. /\ writes = <<>> /\ mutationQueue = <<>> /\ toApp = <<>>
      /\ DOMAIN mutationQueue = {} /\ DOMAIN toApp = {}
      /\ Len(writes) = 0
      /\ \A w \in Write : w > 0 /\ future[w] = "none"
  BY DEF StoreInit, Write
<1> QED
  BY <1>1 DEF RepliesInv, Issued, QueueOrdered, ResultsOrdered, ResultsAwaited

LEMMA RepliesInvStep ==
    ASSUME StoreTypeOK, RepliesInv, [StoreNext]_storeVars PROVE RepliesInv'
<1>1. CASE Listen
  BY <1>1, ListenKeepsRepliesInv
<1>2. CASE \E d \in Doc : CallerWrites(d)
  <2>1. PICK d \in Doc : CallerWrites(d)
    BY <1>2
  <2> QED
    BY <2>1, WriteKeepsRepliesInv DEF CallerWrites
<1>3. CASE ServerAnswers
  <2>1. CASE \E state \in DocState : HandleSuccessfulWrite(state)
    <3>1. PICK state \in DocState : HandleSuccessfulWrite(state)
      BY <2>1
    <3>2. /\ mutationQueue # <<>> /\ mutationQueue' = Tail(mutationQueue)
          /\ Emit(Answer(Head(mutationQueue), TRUE),
                  ViewOf(remoteDocs', writes, mutationQueue'), FALSE, FALSE)
          /\ UNCHANGED <<writes, future>>
      BY <3>1 DEF HandleSuccessfulWrite
    <3> QED
      BY <3>2, ViewsAreViews, AnswerKeepsRepliesInv
  <2>2. CASE HandleRejectedWrite
    <3>1. /\ mutationQueue # <<>> /\ mutationQueue' = Tail(mutationQueue)
          /\ Emit(Answer(Head(mutationQueue), FALSE),
                  ViewOf(remoteDocs, writes, mutationQueue'), FALSE, FALSE)
          /\ UNCHANGED <<writes, future>>
      BY <2>2 DEF HandleRejectedWrite
    <3> QED
      BY <3>1, ViewsAreViews, AnswerKeepsRepliesInv
  <2> QED
    BY <1>3, <2>1, <2>2 DEF ServerAnswers
<1>4. CASE WatchEvents
  <2>1. PICK docs \in [Doc -> DocState], rewritten \in BOOLEAN, synced \in BOOLEAN :
           ApplyRemoteEvent(docs, rewritten, synced)
    BY <1>4 DEF WatchEvents
  <2>2. /\ Emit(<<>>, ViewOf(docs, writes, mutationQueue), rewritten, synced)
        /\ UNCHANGED <<writes, future, mutationQueue>>
    BY <2>1 DEF ApplyRemoteEvent
  <2> QED
    BY <2>2, ViewsAreViews, EmitKeepsRepliesInv
<1>5. CASE GoOffline
  <2>1. /\ Emit(<<>>, CurrentView, FALSE, TRUE)
        /\ UNCHANGED <<writes, future, mutationQueue>>
    BY <1>5 DEF GoOffline
  <2>2. CurrentView \in View
    BY ViewsAreViews DEF CurrentView
  <2> QED
    BY <2>1, <2>2, EmitKeepsRepliesInv
<1>6. CASE RejectListen \/ UNCHANGED storeVars
  BY <1>6 DEF RejectListen, storeVars, RepliesInv, Issued, QueueOrdered, ResultsOrdered,
              ResultsAwaited, Queued, IsResult
<1>7. CASE Deliver
  BY <1>7, DeliverKeepsRepliesInv
<1>8. CASE Restart
  BY <1>8, RestartKeepsRepliesInv
<1> QED
  BY <1>1, <1>2, <1>3, <1>4, <1>5, <1>6, <1>7, <1>8 DEF StoreNext

(* Every reachable state satisfies the invariant. *)
THEOREM RepliesInvariant == StoreSpec => []RepliesInv
<1>1. StoreTypeOK /\ RepliesInv /\ [StoreNext]_storeVars => RepliesInv'
  BY RepliesInvStep
<1> QED
  BY <1>1, RepliesInvInit, StoreTypeCorrect, PTL DEF StoreSpec

(* A write that was made and not answered has its callback registered, or  *)
(* its one result on the way to Dart; an answered one has neither.         *)
THEOREM AnsweredOnce == StoreSpec => []OneAnswerEach
<1>1. ASSUME StoreTypeOK, RepliesInv PROVE OneAnswerEach
  <2> SUFFICES ASSUME NEW w \in Write
               PROVE  IF future[w] = "pending"
                      THEN IF Queued(w) THEN Results(w) = {}
                           ELSE \E i \in Results(w) : Results(w) = {i}
                      ELSE Results(w) = {}
    BY DEF OneAnswerEach
  <2>1. Results(w) = {i \in DOMAIN toApp : IsResult(i) /\ toApp[i].write = w}
    BY DEF Results, IsResult
  <2>2. future[w] # "pending" => Results(w) = {}
    BY <2>1, <1>1 DEF RepliesInv, ResultsAwaited
  <2>3. ASSUME Queued(w) PROVE Results(w) = {}
    <3>1. PICK k \in DOMAIN mutationQueue : mutationQueue[k] = w
      BY <2>3, <1>1, LenProperties DEF Queued, StoreTypeOK
    <3>2. w \in Nat
      BY DEF Write
    <3> QED
      BY <3>1, <3>2, <2>1, <1>1 DEF RepliesInv, ResultsOrdered
  <2>4. ASSUME future[w] = "pending", ~Queued(w)
        PROVE  \E i \in Results(w) : Results(w) = {i}
    <3>1. PICK i \in DOMAIN toApp : IsResult(i) /\ toApp[i].write = w
      BY <2>4, <1>1 DEF RepliesInv, ResultsAwaited
    <3>2. ASSUME NEW j \in Results(w) PROVE j = i
      <4>1. /\ j \in DOMAIN toApp /\ IsResult(j) /\ toApp[j].write = w
            /\ DOMAIN toApp = 1 .. Len(toApp) /\ Len(toApp) \in Nat /\ w \in Nat
        BY <3>2, <2>1, <1>1, LenProperties DEF StoreTypeOK, Write
      <4>2. ~(i < j) /\ ~(j < i)
        BY <4>1, <3>1, <1>1 DEF RepliesInv, ResultsOrdered
      <4> QED
        BY <4>1, <4>2
    <3>3. i \in Results(w)
      BY <3>1, <2>1
    <3>4. Results(w) = {i}
      BY <3>2, <3>3
    <3> QED
      BY <3>3, <3>4
  <2> QED
    BY <2>2, <2>3, <2>4
<1> QED
  BY <1>1, StoreTypeCorrect, RepliesInvariant, PTL

(* Firestore implements OrderedReplies: seen from Dart, writes are         *)
(* answered once, in the order they were made, or lost with the process.   *)
THEOREM ImplementsReplies == StoreSpec => ImplementsOrderedReplies
<1>1. StoreInit => Replies!RepliesInit
  BY DEF StoreInit, Replies!RepliesInit, Write, Replies!Write
<1>2. ASSUME StoreTypeOK, RepliesInv, [StoreNext]_storeVars
      PROVE  [Replies!RepliesNext]_future
  <2> USE DEF Replies!Write, Replies!Issue, Replies!Reply, Replies!Abandon,
              Replies!RepliesNext
  <2>1. CASE \E d \in Doc : CallerWrites(d)
    <3>1. PICK op, d, content, rewritten : WriteMutations(op, d, content, rewritten)
      BY <2>1 DEF CallerWrites
    <3> DEFINE n == Len(writes) + 1
    <3>2. n \in Write /\ Len(writes) \in Nat
      BY <1>2, <3>1, FirestoreAssumption, LenProperties
         DEF StoreTypeOK, WriteMutations, Write
    <3>3. /\ future' = [future EXCEPT ![n] = "pending"]
          /\ future[n] = "none"
          /\ \A v \in Write : v < n => future[v] # "none"
      BY <1>2, <3>1, <3>2 DEF RepliesInv, Issued, WriteMutations, Write
    <3> QED
      BY <3>2, <3>3 DEF Write
  <2>2. CASE Deliver
    <3>1. CASE Head(toApp).type = "result"
      <4>1. /\ toApp # <<>>
            /\ future' = [future EXCEPT ![Head(toApp).write] =
                                          IF Head(toApp).ok THEN "ok" ELSE "failed"]
        BY <2>2, <3>1 DEF Deliver
      <4>2. /\ Head(toApp).write \in Write
            /\ future[Head(toApp).write] = "pending"
            /\ \A v \in Write : v < Head(toApp).write => future[v] # "pending"
        BY <4>1, <3>1, <1>2, DeliveredResultIsOldest
      <4> QED
        BY <4>1, <4>2 DEF Write
    <3>2. CASE Head(toApp).type # "result"
      BY <2>2, <3>2 DEF Deliver
    <3> QED
      BY <3>1, <3>2
  <2>3. CASE Restart
    BY <2>3 DEF Restart, Write
  <2>4. CASE \/ Listen \/ ServerAnswers \/ WatchEvents \/ GoOffline \/ RejectListen
             \/ UNCHANGED storeVars
    BY <2>4 DEF Listen, ServerAnswers, HandleSuccessfulWrite, HandleRejectedWrite,
                WatchEvents, ApplyRemoteEvent, GoOffline, RejectListen, storeVars
  <2> QED
    BY <2>1, <2>2, <2>3, <2>4, <1>2 DEF StoreNext
<1> QED
  BY <1>1, <1>2, StoreTypeCorrect, RepliesInvariant, PTL
     DEF StoreSpec, ImplementsOrderedReplies, Replies!RepliesSpec

-----------------------------------------------------------------------------
(* Local views: what the queue makes of one document.                      *)

(* A queue of writes that were made. *)
QueueOf(ws, queue) ==
    queue \in Seq(Write) /\ \A k \in DOMAIN queue : queue[k] \in DOMAIN ws

LEMMA LocalStatesRecursion ==
    ASSUME NEW docs \in [Doc -> DocState], NEW ws \in Seq(Mutation), NEW queue,
           QueueOf(ws, queue), NEW d \in Doc
    PROVE  /\ LocalStates(docs, ws, queue, d)[0] = docs[d]
           /\ \A i \in 1 .. Len(queue) :
                LocalStates(docs, ws, queue, d)[i] =
                    IF ws[queue[i]].doc = d
                    THEN ApplyToLocalView(LocalStates(docs, ws, queue, d)[i - 1],
                                          ws[queue[i]])
                    ELSE LocalStates(docs, ws, queue, d)[i - 1]
<1> DEFINE n == Len(queue)
           W == DocState
           Equation(g) ==
              g = [i \in 0 .. Len(queue) |->
                     IF i = 0 THEN docs[d]
                     ELSE IF ws[queue[i]].doc = d
                          THEN ApplyToLocalView(g[i - 1], ws[queue[i]])
                     ELSE g[i - 1]]
           step == [i \in 1 .. n |->
                      [s \in W |-> IF ws[queue[i]].doc = d
                                   THEN ApplyToLocalView(s, ws[queue[i]]) ELSE s]]
<1>1. /\ n \in Nat /\ docs[d] \in W
      /\ \A i \in 1 .. n : ws[queue[i]] \in Mutation
      /\ \A s \in W, m \in Mutation : ApplyToLocalView(s, m) \in W
  <2>1. \A i \in 1 .. n : ws[queue[i]] \in Mutation
    BY ElementOfSeq, LenProperties DEF QueueOf
  <2>2. \A s \in W, m \in Mutation : ApplyToLocalView(s, m) \in W
    BY DEF ApplyToLocalView, Mutation, DocState, Content
  <2> QED
    BY <2>1, <2>2, LenProperties DEF QueueOf
<1>2. step \in [1 .. n -> [W -> W]]
  <2> HIDE DEF W, n
  <2> QED
    BY <1>1
<1>3. \E g : Equation(g)
  <2>1. PICK g \in [0 .. n -> W] :
           /\ g[0] = docs[d]
           /\ \A i \in 1 .. n : g[i] = step[i][g[i - 1]]
    <3> HIDE DEF step, n, W
    <3>1. \E g : Unfolds(g, n, W, docs[d], step)
      BY <1>1, <1>2, RecursionUpTo
    <3> QED
      BY <3>1 DEF Unfolds
  <2>2. ASSUME NEW i \in 0 .. n, i # 0
        PROVE  g[i] = IF ws[queue[i]].doc = d
                      THEN ApplyToLocalView(g[i - 1], ws[queue[i]]) ELSE g[i - 1]
    <3>1. i \in 1 .. n /\ g[i - 1] \in W
      <4> HIDE DEF W, n
      <4>1. n \in Nat
        BY <1>1
      <4>2. i \in 1 .. n /\ i - 1 \in 0 .. n
        BY <2>2, <4>1
      <4> QED
        BY <4>2
    <3> QED
      BY <3>1, <2>1
  <2>3. Equation(g)
    BY <2>1, <2>2
  <2> QED
    BY <2>3
<1> DEFINE state == LocalStates(docs, ws, queue, d)
<1>4. Equation(state)
  <2>1. state = CHOOSE g : Equation(g)
    BY DEF LocalStates
  <2> HIDE DEF Equation, state
  <2> QED
    BY <2>1, <1>3
<1> HIDE DEF state
<1>5. 0 \in 0 .. n /\ \A i \in 1 .. n : i \in 0 .. n /\ i # 0
  BY <1>1
<1>6. state[0] = docs[d]
  BY <1>4, <1>5
<1>7. ASSUME NEW i \in 1 .. n
      PROVE  state[i] = IF ws[queue[i]].doc = d
                        THEN ApplyToLocalView(state[i - 1], ws[queue[i]])
                        ELSE state[i - 1]
  BY <1>4, <1>5
<1> QED
  BY <1>6, <1>7 DEF state

(* A document that is not there after k batches is not shown, unless a     *)
(* later one is a set of it.                                               *)
LEMMA GoneIsNotShown ==
    ASSUME NEW docs \in [Doc -> DocState], NEW ws \in Seq(Mutation), NEW queue,
           QueueOf(ws, queue), NEW d \in Doc, NEW k \in 0 .. Len(queue),
           LocalStates(docs, ws, queue, d)[k] \notin Content,
           \A i \in 1 .. Len(queue) :
              i > k /\ ws[queue[i]].doc = d => ws[queue[i]].op # "set"
    PROVE  ViewOf(docs, ws, queue)[d] = "absent"
<1> DEFINE n == Len(queue)
           state == LocalStates(docs, ws, queue, d)
           T == {i \in 0 .. n : i >= k => state[i] \notin Content}
<1>1. /\ n \in Nat
      /\ \A i \in 1 .. n : ws[queue[i]] \in Mutation
  BY ElementOfSeq, LenProperties DEF QueueOf
<1>2. \A i \in 1 .. n :
         state[i] = IF ws[queue[i]].doc = d
                    THEN ApplyToLocalView(state[i - 1], ws[queue[i]])
                    ELSE state[i - 1]
  BY LocalStatesRecursion
<1>3. state[k] \notin Content
  OBVIOUS
<1> HIDE DEF state
<1>4. 0 \in T
  BY <1>1, <1>3
<1>5. ASSUME NEW i \in 1 .. n, i - 1 \in T PROVE i \in T
  <2>1. CASE i > k
    <3>1. state[i - 1] \notin Content
      BY <2>1, <1>5, <1>1
    <3>2. ASSUME ws[queue[i]].doc = d
          PROVE  ApplyToLocalView(state[i - 1], ws[queue[i]]) \notin Content
      <4>1. ws[queue[i]].op \in {"patch", "delete"}
        BY <2>1, <3>2, <1>1 DEF Mutation
      <4> QED
        BY <4>1, <3>1 DEF ApplyToLocalView, Content
    <3>3. state[i] \notin Content
      BY <3>1, <3>2, <1>2
    <3> QED
      BY <3>3, <1>1
  <2>2. CASE ~(i > k)
    BY <2>2, <1>1, <1>3
  <2> QED
    BY <2>1, <2>2
<1>6. \A i \in 0 .. n : i \in T
  <2> HIDE DEF T, n
  <2> QED
    BY <1>1, <1>4, <1>5, InductionUpTo
<1>7. state[n] \notin Content
  BY <1>1, <1>6
<1> QED
  BY <1>7 DEF ViewOf, LocalState, state

(* A document that is there after k batches is shown, unless a later one   *)
(* is a delete of it.                                                      *)
LEMMA PresentIsShown ==
    ASSUME NEW docs \in [Doc -> DocState], NEW ws \in Seq(Mutation), NEW queue,
           QueueOf(ws, queue), NEW d \in Doc, NEW k \in 0 .. Len(queue),
           LocalStates(docs, ws, queue, d)[k] \in Content,
           \A i \in 1 .. Len(queue) :
              i > k /\ ws[queue[i]].doc = d => ws[queue[i]].op # "delete"
    PROVE  ViewOf(docs, ws, queue)[d] # "absent"
<1> DEFINE n == Len(queue)
           state == LocalStates(docs, ws, queue, d)
           T == {i \in 0 .. n : i >= k => state[i] \in Content}
<1>1. /\ n \in Nat
      /\ \A i \in 1 .. n : ws[queue[i]] \in Mutation
  BY ElementOfSeq, LenProperties DEF QueueOf
<1>2. \A i \in 1 .. n :
         state[i] = IF ws[queue[i]].doc = d
                    THEN ApplyToLocalView(state[i - 1], ws[queue[i]])
                    ELSE state[i - 1]
  BY LocalStatesRecursion
<1>3. state[k] \in Content
  OBVIOUS
<1> HIDE DEF state
<1>4. 0 \in T
  BY <1>1, <1>3
<1>5. ASSUME NEW i \in 1 .. n, i - 1 \in T PROVE i \in T
  <2>1. CASE i > k
    <3>1. state[i - 1] \in Content
      BY <2>1, <1>5, <1>1
    <3>2. ASSUME ws[queue[i]].doc = d
          PROVE  ApplyToLocalView(state[i - 1], ws[queue[i]]) \in Content
      <4>1. ws[queue[i]].op \in {"set", "patch"} /\ ws[queue[i]].content \in Content
        BY <2>1, <3>2, <1>1 DEF Mutation
      <4> QED
        BY <4>1, <3>1 DEF ApplyToLocalView
    <3>3. state[i] \in Content
      BY <3>1, <3>2, <1>2
    <3> QED
      BY <3>3, <1>1
  <2>2. CASE ~(i > k)
    BY <2>2, <1>1, <1>3
  <2> QED
    BY <2>1, <2>2
<1>6. \A i \in 0 .. n : i \in T
  <2> HIDE DEF T, n
  <2> QED
    BY <1>1, <1>4, <1>5, InductionUpTo
<1>7. state[n] \in Content
  BY <1>1, <1>6
<1> QED
  BY <1>7 DEF ViewOf, LocalState, state, Content

-----------------------------------------------------------------------------
(* The steps, by what they do to the channel.                              *)

(* The channel grows by messages, and then by snapshots of v, if at all. *)
Sends(messages, v) ==
    /\ DOMAIN toApp = 1 .. Len(toApp) /\ Len(toApp) \in Nat
    /\ DOMAIN toApp' = 1 .. Len(toApp') /\ Len(toApp') \in Nat
    /\ Len(toApp') >= Len(toApp) + Len(messages)
    /\ \A i \in 1 .. Len(toApp) : toApp'[i] = toApp[i]
    /\ \A i \in 1 .. Len(messages) : toApp'[Len(toApp) + i] = messages[i]
    /\ \A i \in DOMAIN toApp' : i > Len(toApp) + Len(messages) => toApp'[i] = Snapshot(v)
    /\ listener' \in {"none", "waiting"}
         => /\ listener \in {"none", "waiting"}
            /\ Len(toApp') = Len(toApp) + Len(messages)
    /\ listener' # "failed" => listener # "failed"

(* Nothing but the cache changes: a listener comes or goes, the watch *)
(* stream moves.                                                      *)
Quiet ==
    /\ UNCHANGED <<writes, future, mutationQueue, seen>>
    /\ Sends(<<>>, CurrentView')
    /\ \A d \in Doc : /\ remoteDocs[d] = "deleted" => remoteDocs'[d] = "deleted"
                      /\ remoteDocs'[d] = "unborn" => remoteDocs[d] = "unborn"

Issues(op, d, c) ==
    /\ op = "set" <=> Unused(d)
    /\ Len(writes) < MaxWrites
    /\ writes' = Append(writes, [op |-> op, doc |-> d, content |-> c])
    /\ future' = [future EXCEPT ![Len(writes) + 1] = "pending"]
    /\ mutationQueue' = Append(mutationQueue, Len(writes) + 1)
    /\ UNCHANGED <<remoteDocs, seen>>
    /\ Sends(<<>>, CurrentView')

Answered(w, ok) ==
    /\ mutationQueue # <<>>
    /\ w = Head(mutationQueue)
    /\ mutationQueue' = Tail(mutationQueue)
    /\ UNCHANGED <<writes, future, seen>>
    /\ Sends(Answer(w, ok), CurrentView')
    /\ IF ok
       THEN \E state \in AckedStates(w) : remoteDocs' = [remoteDocs EXCEPT ![writes[w].doc] = state]
       ELSE remoteDocs' = remoteDocs

LEMMA EmitSends ==
    ASSUME StoreTypeOK, NEW messages \in Seq(ResultMessage), NEW v \in View,
           NEW rewritten, NEW synced,
           Emit(messages, v, rewritten, synced)
    PROVE  Sends(messages, v)
<1>1. DOMAIN toApp = 1 .. Len(toApp) /\ Len(toApp) \in Nat
  BY LenProperties DEF StoreTypeOK
<1>2. /\ toApp \in Seq(Message) /\ messages \in Seq(Message)
  <2>1. ResultMessage \subseteq Message
    BY DEF ResultMessage, Message
  <2> QED
    BY <2>1, SeqMonotonic DEF StoreTypeOK
<1>3. ASSUME listener' \in {"none", "waiting"}
      PROVE  listener \in {"none", "waiting"} /\ Len(toApp') = Len(toApp) + Len(messages)
  <2>1. ~ShouldRaise(v, rewritten, synced) /\ listener' = listener
    BY <1>3 DEF Emit
  <2>2. toApp' = (toApp \o messages) \o <<>>
    BY <2>1, <1>2 DEF Emit
  <2>3. toApp \o messages \in Seq(Message) /\ Len(toApp \o messages) = Len(toApp) + Len(messages)
    BY <1>2, ConcatProperties
  <2>4. toApp' = toApp \o messages
    BY <2>2, <2>3, ConcatEmptySeq
  <2> QED
    BY <1>3, <2>1, <2>3, <2>4
<1>4. listener' # "failed" => listener # "failed"
  BY DEF Emit, ShouldRaise
<1> QED
  BY <1>1, <1>3, <1>4, EmitAppends DEF Sends

LEMMA NoMessages == <<>> \in Seq(ResultMessage) /\ Len(<<>>) = 0
BY EmptySeq

LEMMA ChannelKept ==
    ASSUME StoreTypeOK, toApp' = toApp, NEW v,
           listener' = listener \/ listener' = "failed"
                \/ (listener = "none" /\ listener' = "waiting")
    PROVE  Sends(<<>>, v)
<1>1. DOMAIN toApp = 1 .. Len(toApp) /\ Len(toApp) \in Nat
  BY LenProperties DEF StoreTypeOK
<1> QED
  BY <1>1, NoMessages DEF Sends

LEMMA WatchKeepsDeleted ==
    ASSUME StoreTypeOK, NEW docs, NEW rewritten, NEW synced,
           ApplyRemoteEvent(docs, rewritten, synced)
    PROVE  \A d \in Doc : /\ remoteDocs[d] = "deleted" => remoteDocs'[d] = "deleted"
                          /\ remoteDocs'[d] = "unborn" => remoteDocs[d] = "unborn"
<1> SUFFICES ASSUME NEW d \in Doc
             PROVE  /\ remoteDocs[d] = "deleted" => remoteDocs'[d] = "deleted"
                    /\ remoteDocs'[d] = "unborn" => remoteDocs[d] = "unborn"
  OBVIOUS
<1>1. remoteDocs' = docs /\ docs[d] \in WatchStates(d)
  BY DEF ApplyRemoteEvent
<1>2. CASE d \notin Shared
  BY <1>1, <1>2 DEF WatchStates
<1>3. CASE d \in Shared /\ remoteDocs[d] \in Content
  BY <1>1, <1>3 DEF WatchStates, Content
<1>4. CASE d \in Shared /\ remoteDocs[d] = "deleted"
  BY <1>1, <1>4 DEF WatchStates, Content
<1>5. CASE d \in Shared /\ remoteDocs[d] = "unborn"
  BY <1>1, <1>5 DEF WatchStates, Content
<1>6. remoteDocs[d] \in Content \union {"deleted", "unborn"}
  BY DEF StoreTypeOK, DocState
<1> QED
  BY <1>2, <1>3, <1>4, <1>5, <1>6

LEMMA StepShape ==
    ASSUME StoreTypeOK, [StoreNext]_storeVars
    PROVE  \/ Quiet
           \/ \E op \in {"set", "patch", "delete"}, d \in Doc, c \in Content : Issues(op, d, c)
           \/ \E w \in Write, ok \in BOOLEAN : Answered(w, ok)
           \/ Deliver
           \/ Restart
<1>1. CASE Listen
  <2>0. /\ UNCHANGED <<writes, future, mutationQueue, seen, remoteDocs>>
        /\ CurrentView' = CurrentView /\ CurrentView \in View
        /\ listener = "none"
    BY <1>1, ViewsAreViews DEF Listen, CurrentView
  <2>1. Sends(<<>>, CurrentView')
    <3>1. CASE CurrentView # NoDocs
      <4> DEFINE m == Snapshot(CurrentView)
      <4>1. m \in Message /\ toApp \in Seq(Message)
        BY <2>0 DEF Snapshot, Message, StoreTypeOK
      <4>2. toApp' = Append(toApp, m) /\ listener' = "raised" /\ m = Snapshot(CurrentView')
        BY <1>1, <3>1, <2>0 DEF Listen
      <4> HIDE DEF m
      <4>3. /\ toApp' \in Seq(Message) /\ Len(toApp') = Len(toApp) + 1
            /\ \A i \in 1 .. Len(toApp) : toApp'[i] = toApp[i]
            /\ toApp'[Len(toApp) + 1] = m
        BY <4>1, <4>2, AppendProperties
      <4>4. /\ DOMAIN toApp' = 1 .. Len(toApp') /\ Len(toApp') \in Nat /\ Len(toApp) \in Nat
            /\ DOMAIN toApp = 1 .. Len(toApp)
        BY <4>1, <4>3, LenProperties
      <4>5. \A i \in DOMAIN toApp' : i > Len(toApp) => toApp'[i] = m
        BY <4>3, <4>4
      <4> QED
        BY <4>2, <4>3, <4>4, <4>5, <2>0, NoMessages DEF Sends
    <3>2. CASE CurrentView = NoDocs
      <4>1. toApp' = toApp /\ listener' = "waiting"
        BY <1>1, <3>2 DEF Listen
      <4> QED
        BY <4>1, <2>0, ChannelKept
    <3> QED
      BY <3>1, <3>2
  <2> QED
    BY <2>0, <2>1 DEF Quiet
<1>2. CASE \E d \in Doc : CallerWrites(d)
  <2>1. PICK d \in Doc : CallerWrites(d)
    BY <1>2
  <2>2. PICK op \in {"set", "patch", "delete"}, c \in Content, rewritten \in BOOLEAN :
           (op = "set" <=> Unused(d)) /\ WriteMutations(op, d, c, rewritten)
    <3>1. CASE \E c \in Content : Unused(d) /\ WriteMutations("set", d, c, FALSE)
      BY <3>1
    <3>2. CASE \E c \in Content, rewritten \in BOOLEAN :
                  ~Unused(d) /\ WriteMutations("patch", d, c, rewritten)
      BY <3>2
    <3>3. CASE ~Unused(d) /\ WriteMutations("delete", d, "todo", FALSE)
      BY <3>3 DEF Content
    <3> QED
      BY <2>1, <3>1, <3>2, <3>3 DEF CallerWrites
  <2>3. CurrentView' = ViewOf(remoteDocs, writes', mutationQueue')
    BY <2>2 DEF WriteMutations, CurrentView
  <2>4. Emit(<<>>, CurrentView', rewritten, FALSE)
    BY <2>2, <2>3 DEF WriteMutations
  <2>5. Sends(<<>>, CurrentView')
    BY <2>3, <2>4, ViewsAreViews, NoMessages, EmitSends
  <2> QED
    BY <2>2, <2>5 DEF Issues, WriteMutations
<1>3. CASE ServerAnswers
  <2> DEFINE w == Head(mutationQueue)
  <2>1. PICK ok \in BOOLEAN :
           /\ mutationQueue # <<>>
           /\ mutationQueue' = Tail(mutationQueue)
           /\ UNCHANGED <<writes, future, seen>>
           /\ Emit(Answer(w, ok), CurrentView', FALSE, FALSE)
           /\ IF ok
              THEN \E state \in AckedStates(w) :
                      remoteDocs' = [remoteDocs EXCEPT ![writes[w].doc] = state]
              ELSE remoteDocs' = remoteDocs
    <3>1. CASE \E state \in DocState : HandleSuccessfulWrite(state)
      BY <3>1 DEF HandleSuccessfulWrite, CurrentView
    <3>2. CASE HandleRejectedWrite
      BY <3>2 DEF HandleRejectedWrite, CurrentView
    <3> QED
      BY <1>3, <3>1, <3>2 DEF ServerAnswers
  <2>2. w \in Write
    BY <2>1 DEF StoreTypeOK
  <2>3. CurrentView' \in View
    BY ViewsAreViews DEF CurrentView
  <2>4. Sends(Answer(w, ok), CurrentView')
    BY <2>1, <2>2, <2>3, AnswersAreResults, EmitSends
  <2> QED
    BY <2>1, <2>2, <2>4 DEF Answered
<1>4. CASE WatchEvents
  <2>1. PICK docs \in [Doc -> DocState], rewritten \in BOOLEAN, synced \in BOOLEAN :
           ApplyRemoteEvent(docs, rewritten, synced)
    BY <1>4 DEF WatchEvents
  <2>2. Emit(<<>>, CurrentView', rewritten, synced) /\ CurrentView' \in View
    BY <2>1, ViewsAreViews DEF ApplyRemoteEvent, CurrentView
  <2>3. Sends(<<>>, CurrentView')
    BY <2>2, NoMessages, EmitSends
  <2> QED
    BY <2>1, <2>3, WatchKeepsDeleted DEF Quiet, ApplyRemoteEvent
<1>5. CASE GoOffline
  <2>1. Emit(<<>>, CurrentView', FALSE, TRUE) /\ CurrentView' \in View
    BY <1>5, ViewsAreViews DEF GoOffline, CurrentView
  <2>2. Sends(<<>>, CurrentView')
    BY <2>1, NoMessages, EmitSends
  <2> QED
    BY <1>5, <2>2 DEF Quiet, GoOffline
<1>6. CASE RejectListen \/ UNCHANGED storeVars
  <2>1. /\ UNCHANGED <<writes, future, mutationQueue, seen, remoteDocs, toApp>>
        /\ listener' = listener \/ listener' = "failed"
    BY <1>6 DEF RejectListen, storeVars
  <2>2. Sends(<<>>, CurrentView')
    BY <2>1, ChannelKept
  <2> QED
    BY <2>1, <2>2 DEF Quiet
<1> QED
  BY <1>1, <1>2, <1>3, <1>4, <1>5, <1>6 DEF StoreNext

-----------------------------------------------------------------------------
(* What is known of the writes.                                            *)

(* The queue is the end of the list of writes. *)
QueueIsSuffix ==
    \A w \in DOMAIN writes :
        ~Queued(w) => \A k \in DOMAIN mutationQueue : w < mutationQueue[k]

(* A key is drawn once: a set is the first write of its document. *)
SetIsFirst ==
    \A v, w \in DOMAIN writes :
        v < w /\ writes[v].doc = writes[w].doc => writes[w].op # "set"

AnsweredNotQueued ==
    \A w \in Write : future[w] \in {"ok", "failed"} => ~Queued(w)

(* The server accepted w, and Dart knows or will know. *)
Accepted(w) ==
    future[w] = "ok" \/ \E i \in DOMAIN toApp : toApp[i] = Result(w, TRUE)

(* No older version of a document comes after its deletion. *)
DeletesHold ==
    \A w \in DOMAIN writes :
        writes[w].op = "delete" /\ Accepted(w) => remoteDocs[writes[w].doc] = "deleted"

WritesInv == QueueIsSuffix /\ SetIsFirst /\ AnsweredNotQueued /\ DeletesHold

LEMMA WritesAreTyped ==
    ASSUME StoreTypeOK
    PROVE  /\ writes \in Seq(Mutation) /\ Len(writes) \in Nat
           /\ DOMAIN writes = 1 .. Len(writes) /\ DOMAIN writes \subseteq Write
           /\ mutationQueue \in Seq(Write) /\ Len(mutationQueue) \in Nat
           /\ DOMAIN mutationQueue = 1 .. Len(mutationQueue)
           /\ toApp \in Seq(Message) /\ Len(toApp) \in Nat
           /\ DOMAIN toApp = 1 .. Len(toApp)
           /\ \A w \in DOMAIN writes : /\ writes[w] \in Mutation /\ writes[w].doc \in Doc
                                       /\ w \in Nat
           /\ \A k \in DOMAIN mutationQueue : mutationQueue[k] \in Write /\ mutationQueue[k] \in Nat
<1>1. \A w \in 1 .. Len(writes) : writes[w] \in Mutation
  BY ElementOfSeq DEF StoreTypeOK
<1>2. \A k \in 1 .. Len(mutationQueue) : mutationQueue[k] \in Write
  BY ElementOfSeq DEF StoreTypeOK
<1>3. /\ Len(writes) \in Nat /\ Len(mutationQueue) \in Nat /\ Len(toApp) \in Nat
      /\ DOMAIN writes = 1 .. Len(writes)
      /\ DOMAIN mutationQueue = 1 .. Len(mutationQueue)
      /\ DOMAIN toApp = 1 .. Len(toApp)
      /\ Len(writes) <= MaxWrites
  BY LenProperties DEF StoreTypeOK
<1> QED
  BY <1>1, <1>2, <1>3, FirestoreAssumption DEF Mutation, Write, StoreTypeOK

(* A document that is or was in the store, or that a write names, stays so. *)
LEMMA UsedStays ==
    ASSUME StoreTypeOK, RepliesInv, [StoreNext]_storeVars, NEW d \in Doc, Unused(d)'
    PROVE  Unused(d)
<1>1. CASE Quiet
  BY <1>1 DEF Quiet, Unused, Doc
<1>2. ASSUME NEW op, NEW e, NEW c, Issues(op, e, c) PROVE Unused(d)
  <2>1. /\ remoteDocs' = remoteDocs /\ DOMAIN writes \subseteq DOMAIN writes'
        /\ \A w \in DOMAIN writes : writes'[w] = writes[w]
    BY <1>2, WritesAreTyped DEF Issues
  <2> QED
    BY <2>1 DEF Unused
<1>3. ASSUME NEW w, NEW ok, Answered(w, ok) PROVE Unused(d)
  <2>1. w \in DOMAIN writes
    <3>1. w = mutationQueue[1] /\ 1 \in DOMAIN mutationQueue
      BY <1>3, WritesAreTyped DEF Answered
    <3> QED
      BY <3>1, WritesAreTyped DEF RepliesInv, QueueOrdered, Write
  <2>2. writes' = writes /\ writes[w].doc # d
    BY <1>3, <2>1 DEF Answered, Unused
  <2>3. remoteDocs'[d] = remoteDocs[d]
    BY <1>3, <2>2 DEF Answered, StoreTypeOK
  <2> QED
    BY <2>2, <2>3 DEF Unused
<1>4. CASE Deliver \/ Restart
  BY <1>4 DEF Deliver, Restart, Unused
<1> QED
  BY <1>1, <1>2, <1>3, <1>4, StepShape

LEMMA AcceptedNotQueued ==
    ASSUME StoreTypeOK, RepliesInv, WritesInv, NEW w \in DOMAIN writes, Accepted(w)
    PROVE  /\ ~Queued(w)
           /\ \A k \in DOMAIN mutationQueue : w < mutationQueue[k]
<1>1. w \in Write /\ w \in Nat
  BY WritesAreTyped
<1>2. CASE future[w] = "ok"
  BY <1>1, <1>2 DEF WritesInv, AnsweredNotQueued, QueueIsSuffix
<1>3. CASE \E i \in DOMAIN toApp : toApp[i] = Result(w, TRUE)
  <2>1. PICK i \in DOMAIN toApp : IsResult(i) /\ toApp[i].write = w
    BY <1>3 DEF Result, IsResult
  <2>2. \A k \in DOMAIN mutationQueue : w < mutationQueue[k] /\ mutationQueue[k] \in Nat
    BY <2>1, WritesAreTyped DEF RepliesInv, ResultsOrdered
  <2>3. DOMAIN mutationQueue = 1 .. Len(mutationQueue)
    BY WritesAreTyped
  <2>4. ~Queued(w)
    BY <2>2, <2>3, <1>1 DEF Queued
  <2> QED
    BY <2>2, <2>4
<1> QED
  BY <1>2, <1>3 DEF Accepted

(* With no result to send, the channel grows by snapshots only. *)
LEMMA SendsSnapshots ==
    ASSUME NEW v, Sends(<<>>, v)
    PROVE  /\ DOMAIN toApp = 1 .. Len(toApp) /\ Len(toApp) \in Nat
           /\ DOMAIN toApp' = 1 .. Len(toApp') /\ Len(toApp') \in Nat
           /\ \A i \in DOMAIN toApp : i \in DOMAIN toApp' /\ toApp'[i] = toApp[i]
           /\ \A i \in DOMAIN toApp' :
                \/ i \in DOMAIN toApp
                \/ i > Len(toApp) /\ toApp'[i] = Snapshot(v)
           /\ listener' \in {"none", "waiting"}
                => listener \in {"none", "waiting"} /\ Len(toApp') = Len(toApp)
           /\ listener' # "failed" => listener # "failed"
<1> DEFINE none == <<>>
<1>1. Len(none) = 0 /\ Len(toApp) \in Nat
  BY NoMessages DEF Sends
<1>2. Sends(none, v)
  OBVIOUS
<1> HIDE DEF none
<1>3. Len(toApp) + Len(none) = Len(toApp)
  BY <1>1
<1>4. /\ DOMAIN toApp = 1 .. Len(toApp)
      /\ DOMAIN toApp' = 1 .. Len(toApp') /\ Len(toApp') \in Nat
      /\ Len(toApp') >= Len(toApp)
      /\ \A i \in 1 .. Len(toApp) : toApp'[i] = toApp[i]
  BY <1>2, <1>3 DEF Sends
<1>5. \A i \in DOMAIN toApp' : i > Len(toApp) => toApp'[i] = Snapshot(v)
  BY <1>2, <1>3 DEF Sends
<1>6. /\ listener' \in {"none", "waiting"}
           => listener \in {"none", "waiting"} /\ Len(toApp') = Len(toApp)
      /\ listener' # "failed" => listener # "failed"
  BY <1>2, <1>3 DEF Sends
<1>7. ASSUME NEW i \in DOMAIN toApp
      PROVE  i \in DOMAIN toApp' /\ toApp'[i] = toApp[i]
  BY <1>1, <1>4
<1>8. ASSUME NEW i \in DOMAIN toApp'
      PROVE  i \in DOMAIN toApp \/ (i > Len(toApp) /\ toApp'[i] = Snapshot(v))
  <2>1. i \in Nat /\ i >= 1
    BY <1>4
  <2>2. CASE i > Len(toApp)
    BY <2>2, <1>5
  <2>3. CASE ~(i > Len(toApp))
    BY <2>1, <2>3, <1>1, <1>4
  <2> QED
    BY <2>2, <2>3
<1> QED
  BY <1>1, <1>4, <1>6, <1>7, <1>8

(* A snapshot in the channel makes no write accepted. *)
LEMMA SendsNoResult ==
    ASSUME NEW v, Sends(<<>>, v), NEW w, \E i \in DOMAIN toApp' : toApp'[i] = Result(w, TRUE)
    PROVE  \E i \in DOMAIN toApp : toApp[i] = Result(w, TRUE)
<1>1. PICK i \in DOMAIN toApp' : toApp'[i] = Result(w, TRUE)
  OBVIOUS
<1>2. Result(w, TRUE) # Snapshot(v)
  BY DEF Result, Snapshot
<1> QED
  BY <1>1, <1>2, SendsSnapshots

LEMMA QuietKeepsWritesInv ==
    ASSUME StoreTypeOK, WritesInv, Quiet PROVE WritesInv'
<1>1. UNCHANGED <<writes, future, mutationQueue>>
  BY DEF Quiet
<1>2. \A w : Queued(w)' <=> Queued(w)
  BY <1>1 DEF Queued
<1>3. QueueIsSuffix' /\ SetIsFirst' /\ AnsweredNotQueued'
  BY <1>1, <1>2 DEF WritesInv, QueueIsSuffix, SetIsFirst, AnsweredNotQueued
<1>4. ASSUME NEW w \in DOMAIN writes', writes'[w].op = "delete", Accepted(w)'
      PROVE  remoteDocs'[writes'[w].doc] = "deleted"
  <2>1. Accepted(w)
    BY <1>1, <1>4, SendsNoResult DEF Quiet, Accepted
  <2>2. writes[w].doc \in Doc /\ remoteDocs[writes[w].doc] = "deleted"
    BY <2>1, <1>1, <1>4, WritesAreTyped DEF WritesInv, DeletesHold
  <2> QED
    BY <2>2, <1>1 DEF Quiet
<1> QED
  BY <1>3, <1>4 DEF WritesInv, DeletesHold

LEMMA IssueKeepsWritesInv ==
    ASSUME StoreTypeOK, RepliesInv, WritesInv,
           NEW op \in {"set", "patch", "delete"}, NEW d \in Doc, NEW c \in Content,
           Issues(op, d, c)
    PROVE  WritesInv'
<1> DEFINE n == Len(writes) + 1
           q == mutationQueue
           m == [op |-> op, doc |-> d, content |-> c]
<1>1. /\ n \in Write /\ n \in Nat /\ m \in Mutation
      /\ DOMAIN writes' = 1 .. n /\ writes'[n] = m
      /\ \A w \in DOMAIN writes : w \in DOMAIN writes' /\ writes'[w] = writes[w] /\ w < n
      /\ \A w \in DOMAIN writes' : w \in DOMAIN writes \/ w = n
  <2>1. n \in Write /\ n \in Nat /\ Len(writes) \in Nat /\ DOMAIN writes = 1 .. Len(writes)
    BY WritesAreTyped, FirestoreAssumption DEF Issues, Write
  <2>2. m \in Mutation
    BY DEF Mutation
  <2> HIDE DEF m
  <2>3. writes' = Append(writes, m)
    BY DEF Issues, m
  <2>4. /\ DOMAIN writes' = 1 .. n /\ writes'[n] = m
        /\ \A w \in 1 .. Len(writes) : writes'[w] = writes[w]
    BY <2>1, <2>2, <2>3, WritesAreTyped
  <2> QED
    BY <2>1, <2>2, <2>4
<1>2. /\ DOMAIN q' = 1 .. Len(q) + 1 /\ q'[Len(q) + 1] = n
      /\ \A k \in DOMAIN q : k \in DOMAIN q' /\ q'[k] = q[k]
      /\ \A k \in DOMAIN q' : k \in DOMAIN q \/ k = Len(q) + 1
      /\ DOMAIN q = 1 .. Len(q) /\ Len(q) \in Nat /\ Len(q') = Len(q) + 1
  <2>1. q \in Seq(Write) /\ q' = Append(q, n) /\ Len(q) \in Nat /\ DOMAIN q = 1 .. Len(q)
    BY WritesAreTyped DEF Issues
  <2> HIDE DEF n
  <2> QED
    BY <2>1, <1>1
<1>3. \A w : Queued(w)' <=> Queued(w) \/ w = n
  BY <1>2 DEF Queued
<1>4. QueueIsSuffix'
  <2> SUFFICES ASSUME NEW w \in DOMAIN writes', ~Queued(w)', NEW k \in DOMAIN q'
               PROVE  w < q'[k]
    BY DEF QueueIsSuffix
  <2>1. w \in DOMAIN writes /\ ~Queued(w)
    BY <1>1, <1>3
  <2> QED
    BY <2>1, <1>1, <1>2 DEF WritesInv, QueueIsSuffix
<1>5. SetIsFirst'
  <2> SUFFICES ASSUME NEW v \in DOMAIN writes', NEW w \in DOMAIN writes',
                      v < w, writes'[v].doc = writes'[w].doc
               PROVE  writes'[w].op # "set"
    BY DEF SetIsFirst
  <2>1. v \in DOMAIN writes /\ writes'[v] = writes[v]
    <3>1. v # n
      BY <1>1
    <3> QED
      BY <3>1, <1>1
  <2>2. CASE w \in DOMAIN writes
    BY <2>1, <2>2, <1>1 DEF WritesInv, SetIsFirst
  <2>3. CASE w = n
    <3>1. writes[v].doc = d
      BY <2>1, <2>3, <1>1
    <3>2. ~Unused(d)
      BY <3>1, <2>1 DEF Unused
    <3> QED
      BY <3>2, <2>3, <1>1 DEF Issues
  <2> QED
    BY <2>2, <2>3, <1>1
<1>6. AnsweredNotQueued'
  <2> SUFFICES ASSUME NEW w \in Write, future'[w] \in {"ok", "failed"}
               PROVE  ~Queued(w)'
    BY DEF AnsweredNotQueued
  <2>1. w # n /\ future'[w] = future[w]
    BY <1>1 DEF Issues, StoreTypeOK
  <2> QED
    BY <2>1, <1>3 DEF WritesInv, AnsweredNotQueued
<1>7. ASSUME NEW w \in DOMAIN writes', writes'[w].op = "delete", Accepted(w)'
      PROVE  remoteDocs'[writes'[w].doc] = "deleted"
  <2>1. w \in Write /\ (future'[w] = "ok" \/ \E i \in DOMAIN toApp : toApp[i] = Result(w, TRUE))
    BY <1>1, <1>7, WritesAreTyped, SendsNoResult DEF Issues, Accepted
  <2>2. w # n
    <3>1. CASE future'[w] = "ok"
      BY <3>1, <1>1 DEF Issues, StoreTypeOK
    <3>2. CASE \E i \in DOMAIN toApp : toApp[i] = Result(w, TRUE)
      <4>1. PICK i \in DOMAIN toApp : IsResult(i) /\ toApp[i].write = w
        BY <3>2 DEF Result, IsResult
      <4>2. future[w] = "pending"
        BY <4>1 DEF RepliesInv, ResultsAwaited
      <4>3. future[n] = "none"
        BY <1>1, WritesAreTyped DEF RepliesInv, Issued
      <4> QED
        BY <4>2, <4>3
    <3> QED
      BY <2>1, <3>1, <3>2
  <2>3. w \in DOMAIN writes /\ writes'[w] = writes[w] /\ future'[w] = future[w]
    BY <2>1, <2>2, <1>1 DEF Issues, StoreTypeOK
  <2>4. Accepted(w)
    BY <2>1, <2>3 DEF Accepted
  <2> QED
    BY <2>3, <2>4, <1>7 DEF Issues, WritesInv, DeletesHold
<1> QED
  BY <1>4, <1>5, <1>6, <1>7 DEF WritesInv, DeletesHold

(* The head of the queue is answered. *)
LEMMA AnswerMakesAccepted ==
    ASSUME StoreTypeOK, NEW h \in Write, NEW ok \in BOOLEAN, Answered(h, ok),
           NEW w, Accepted(w)'
    PROVE  Accepted(w) \/ (w = h /\ ok = TRUE)
<1>1. future' = future
  BY DEF Answered
<1>2. ASSUME NEW i \in DOMAIN toApp', toApp'[i] = Result(w, TRUE), ~(w = h /\ ok = TRUE)
      PROVE  Accepted(w)
  <2> DEFINE ms == Answer(h, ok)
  <2>1. /\ Sends(ms, CurrentView')
        /\ Len(ms) \in Nat
        /\ \A k \in 1 .. Len(ms) : ms[k] = Result(h, ok)
    BY DEF Answered, Answer
  <2>2. /\ DOMAIN toApp = 1 .. Len(toApp) /\ Len(toApp) \in Nat
        /\ DOMAIN toApp' = 1 .. Len(toApp') /\ Len(toApp') \in Nat
    BY <2>1 DEF Sends
  <2>3. \A k \in DOMAIN toApp' : k > Len(toApp) + Len(ms) => toApp'[k] = Snapshot(CurrentView')
    BY <2>1 DEF Sends
  <2>4. /\ \A k \in 1 .. Len(toApp) : toApp'[k] = toApp[k]
        /\ \A k \in 1 .. Len(ms) : toApp'[Len(toApp) + k] = ms[k]
    BY <2>1 DEF Sends
  <2> HIDE DEF ms
  <2>5. Result(w, TRUE) # Snapshot(CurrentView')
    BY DEF Result, Snapshot
  <2>6. Result(w, TRUE) # Result(h, ok)
    BY <1>2 DEF Result
  <2>7. ~(i > Len(toApp) + Len(ms))
    BY <1>2, <2>3, <2>5
  <2>8. CASE i > Len(toApp)
    <3>1. i - Len(toApp) \in 1 .. Len(ms) /\ Len(toApp) + (i - Len(toApp)) = i
      BY <2>1, <2>2, <2>7, <2>8
    <3>2. toApp'[i] = Result(h, ok)
      BY <3>1, <2>1, <2>4
    <3> QED
      BY <3>2, <1>2, <2>6
  <2>9. CASE ~(i > Len(toApp))
    <3>1. i \in 1 .. Len(toApp)
      BY <2>2, <2>9
    <3>2. toApp[i] = Result(w, TRUE)
      BY <3>1, <2>4, <1>2
    <3> QED
      BY <3>1, <3>2, <2>2 DEF Accepted
  <2> QED
    BY <2>8, <2>9
<1> QED
  BY <1>1, <1>2 DEF Accepted

LEMMA AnswerKeepsWritesInv ==
    ASSUME StoreTypeOK, RepliesInv, WritesInv,
           NEW h \in Write, NEW ok \in BOOLEAN, Answered(h, ok)
    PROVE  WritesInv'
<1> DEFINE q == mutationQueue
<1>1. UNCHANGED <<writes, future>>
  BY DEF Answered
<1>2. /\ q # <<>> /\ Len(q) \in Nat \ {0} /\ DOMAIN q = 1 .. Len(q)
      /\ h = q[1] /\ 1 \in DOMAIN q
      /\ Len(q') = Len(q) - 1 /\ DOMAIN q' = 1 .. Len(q) - 1
      /\ \A i \in 1 .. Len(q) - 1 : q'[i] = q[i + 1] /\ i + 1 \in DOMAIN q
  BY HeadTailProperties, LenProperties DEF StoreTypeOK, Answered
<1>3. h \in Nat /\ h \in DOMAIN writes
  <2>1. h <= Len(writes)
    BY <1>2 DEF RepliesInv, QueueOrdered
  <2> QED
    BY <2>1, WritesAreTyped DEF Write
<1>4. /\ \A k \in DOMAIN q' : h < q'[k]
      /\ \A w : Queued(w) <=> w = h \/ Queued(w)'
  <2>1. ASSUME NEW k \in DOMAIN q' PROVE h < q'[k]
    <3>1. k + 1 \in DOMAIN q /\ 1 < k + 1
      BY <1>2
    <3> QED
      BY <3>1, <1>2 DEF RepliesInv, QueueOrdered
  <2>2. ASSUME NEW w, Queued(w), w # h PROVE Queued(w)'
    <3>1. PICK k \in 1 .. Len(q) : q[k] = w
      BY <2>2 DEF Queued
    <3>2. k # 1
      BY <3>1, <2>2, <1>2
    <3>3. k - 1 \in 1 .. Len(q') /\ q'[k - 1] = w
      BY <3>1, <3>2, <1>2
    <3> QED
      BY <3>3 DEF Queued
  <2>3. ASSUME NEW w, Queued(w)' PROVE Queued(w)
    <3>1. PICK k \in 1 .. Len(q') : q'[k] = w
      BY <2>3 DEF Queued
    <3>2. k + 1 \in 1 .. Len(q) /\ q[k + 1] = w
      BY <3>1, <1>2
    <3> QED
      BY <3>2 DEF Queued
  <2>4. Queued(h)
    BY <1>2 DEF Queued
  <2> QED
    BY <2>1, <2>2, <2>3, <2>4
<1>5. QueueIsSuffix'
  <2> SUFFICES ASSUME NEW w \in DOMAIN writes, ~Queued(w)', NEW k \in DOMAIN q'
               PROVE  w < q'[k]
    BY <1>1 DEF QueueIsSuffix
  <2>1. CASE w = h
    BY <2>1, <1>4
  <2>2. CASE w # h
    <3>1. ~Queued(w) /\ k + 1 \in DOMAIN q /\ q'[k] = q[k + 1]
      BY <2>2, <1>2, <1>4
    <3> QED
      BY <3>1 DEF WritesInv, QueueIsSuffix
  <2> QED
    BY <2>1, <2>2
<1>6. SetIsFirst'
  BY <1>1 DEF WritesInv, SetIsFirst
<1>7. AnsweredNotQueued'
  BY <1>1, <1>4 DEF WritesInv, AnsweredNotQueued
<1>8. ASSUME NEW w \in DOMAIN writes, writes[w].op = "delete", Accepted(w)'
      PROVE  remoteDocs'[writes[w].doc] = "deleted"
  <2> DEFINE d == writes[w].doc
             hd == writes[h].doc
  <2>1. d \in Doc /\ hd \in Doc /\ remoteDocs \in [Doc -> DocState] /\ w \in Nat
    BY <1>3, WritesAreTyped DEF StoreTypeOK
  <2>2. Accepted(w) \/ (w = h /\ ok = TRUE)
    BY <1>8, AnswerMakesAccepted
  <2>3. CASE w = h /\ ok = TRUE
    <3>1. AckedStates(h) = {"deleted"}
      BY <2>3, <1>8 DEF AckedStates
    <3> QED
      BY <3>1, <2>1, <2>3 DEF Answered
  <2>4. CASE Accepted(w)
    <3>1. remoteDocs[d] = "deleted"
      BY <2>4, <1>8 DEF WritesInv, DeletesHold
    <3>2. w < h
      BY <2>4, <1>2, AcceptedNotQueued
    <3>3. ASSUME NEW state \in AckedStates(h), hd = d PROVE state = "deleted"
      <4>1. writes[h].op # "set"
        BY <3>2, <3>3, <1>3 DEF WritesInv, SetIsFirst
      <4>2. writes[h] \in Mutation
        BY <1>3, WritesAreTyped
      <4>3. CASE writes[h].op = "patch"
        BY <4>3, <3>1, <3>3 DEF AckedStates, Content
      <4>4. CASE writes[h].op = "delete"
        BY <4>4, <3>3 DEF AckedStates
      <4> QED
        BY <4>1, <4>2, <4>3, <4>4 DEF Mutation
    <3>4. CASE ok = TRUE
      <4>1. PICK state \in AckedStates(h) : remoteDocs' = [remoteDocs EXCEPT ![hd] = state]
        BY <3>4 DEF Answered
      <4>2. CASE hd = d
        BY <4>1, <4>2, <3>3, <2>1
      <4>3. CASE hd # d
        BY <4>1, <4>3, <3>1, <2>1
      <4> QED
        BY <4>2, <4>3
    <3>5. CASE ok = FALSE
      BY <3>1, <3>5 DEF Answered
    <3> QED
      BY <3>4, <3>5
  <2> QED
    BY <2>2, <2>3, <2>4
<1> QED
  BY <1>1, <1>5, <1>6, <1>7, <1>8 DEF WritesInv, DeletesHold

LEMMA DeliverKeepsWritesInv ==
    ASSUME StoreTypeOK, RepliesInv, WritesInv, Deliver PROVE WritesInv'
<1> DEFINE m == Head(toApp)
<1>1. /\ UNCHANGED <<writes, mutationQueue, remoteDocs>>
      /\ toApp # <<>> /\ toApp' = Tail(toApp)
  BY DEF Deliver
<1>2. /\ Len(toApp) \in Nat \ {0} /\ DOMAIN toApp = 1 .. Len(toApp) /\ m = toApp[1]
      /\ 1 \in DOMAIN toApp
      /\ DOMAIN toApp' = 1 .. Len(toApp) - 1
      /\ \A i \in 1 .. Len(toApp) - 1 : toApp'[i] = toApp[i + 1] /\ i + 1 \in DOMAIN toApp
  BY <1>1, HeadTailProperties, LenProperties DEF StoreTypeOK
<1>3. \A w : Queued(w)' <=> Queued(w)
  BY <1>1 DEF Queued
<1>4. QueueIsSuffix' /\ SetIsFirst'
  BY <1>1, <1>3 DEF WritesInv, QueueIsSuffix, SetIsFirst
<1>5. CASE m.type = "result"
  <2>1. /\ m.write \in Write /\ ~Queued(m.write)
        /\ future \in [Write -> Future]
        /\ future' = [future EXCEPT ![m.write] = IF m.ok THEN "ok" ELSE "failed"]
    BY <1>1, <1>5, DeliveredResultIsOldest DEF Deliver, StoreTypeOK
  <2>2. AnsweredNotQueued'
    BY <2>1, <1>3 DEF WritesInv, AnsweredNotQueued
  <2>3. ASSUME NEW w \in DOMAIN writes, Accepted(w)' PROVE Accepted(w)
    <3>1. w \in Write
      BY WritesAreTyped
    <3>2. CASE \E i \in DOMAIN toApp' : toApp'[i] = Result(w, TRUE)
      BY <3>2, <1>2 DEF Accepted
    <3>3. CASE future'[w] = "ok" /\ w # m.write
      BY <3>1, <3>3, <2>1 DEF Accepted
    <3>4. CASE future'[w] = "ok" /\ w = m.write
      <4>1. m.ok
        BY <3>4, <2>1
      <4>2. m \in Message
        BY <1>2, ResultsHaveWrites
      <4>3. m = Result(w, TRUE)
        BY <4>1, <4>2, <3>4, <1>5 DEF Message, Result
      <4> QED
        BY <4>3, <1>2 DEF Accepted
    <3> QED
      BY <2>3, <3>2, <3>3, <3>4 DEF Accepted
  <2> QED
    BY <2>2, <2>3, <1>1, <1>4 DEF WritesInv, DeletesHold
<1>6. CASE m.type # "result"
  <2>1. future' = future
    BY <1>6 DEF Deliver
  <2>2. AnsweredNotQueued'
    BY <2>1, <1>3 DEF WritesInv, AnsweredNotQueued
  <2>3. ASSUME NEW w \in DOMAIN writes, Accepted(w)' PROVE Accepted(w)
    BY <2>1, <2>3, <1>2 DEF Accepted
  <2> QED
    BY <2>2, <2>3, <1>1, <1>4 DEF WritesInv, DeletesHold
<1> QED
  BY <1>5, <1>6

LEMMA RestartKeepsWritesInv ==
    ASSUME StoreTypeOK, WritesInv, Restart PROVE WritesInv'
<1>1. /\ UNCHANGED <<writes, mutationQueue, remoteDocs>>
      /\ DOMAIN toApp' = {}
      /\ \A w \in Write : future'[w] \in {"ok", "failed"} => future[w] = future'[w]
  BY DEF Restart
<1>2. \A w : Queued(w)' <=> Queued(w)
  BY <1>1 DEF Queued
<1>3. \A w \in DOMAIN writes : Accepted(w)' => Accepted(w)
  BY <1>1, WritesAreTyped DEF Accepted
<1> QED
  BY <1>1, <1>2, <1>3
     DEF WritesInv, QueueIsSuffix, SetIsFirst, AnsweredNotQueued, DeletesHold

LEMMA WritesInvStep ==
    ASSUME StoreTypeOK, RepliesInv, WritesInv, [StoreNext]_storeVars PROVE WritesInv'
BY StepShape, QuietKeepsWritesInv, IssueKeepsWritesInv, AnswerKeepsWritesInv,
   DeliverKeepsWritesInv, RestartKeepsWritesInv

-----------------------------------------------------------------------------
(* What the local view shows, from what is known of the writes.            *)

(* The user added the document of w and deleted nothing of it since; the   *)
(* answer is not in.                                                       *)
Kept(w) ==
    /\ writes[w].op = "set" /\ future[w] = "pending"
    /\ \A v \in DOMAIN writes :
         writes[v].doc = writes[w].doc => writes[v].op # "delete"

UnusedHidden == \A d \in Doc : Unused(d) => CurrentView[d] = "absent"

DeletedHidden ==
    \A w \in DOMAIN writes :
        writes[w].op = "delete" /\ Accepted(w) => CurrentView[writes[w].doc] = "absent"

DeletingHidden ==
    mutationQueue # <<>> /\ writes[Head(mutationQueue)].op = "delete"
        => CurrentView[writes[Head(mutationQueue)].doc] = "absent"

KeptVisible ==
    \A w \in DOMAIN writes :
        Kept(w) /\ Queued(w) => CurrentView[writes[w].doc] # "absent"

ViewInv == UnusedHidden /\ DeletedHidden /\ DeletingHidden /\ KeptVisible

LEMMA ViewsFollowWrites ==
    StoreTypeOK /\ RepliesInv /\ WritesInv => ViewInv
<1> SUFFICES ASSUME StoreTypeOK, RepliesInv, WritesInv PROVE ViewInv
  OBVIOUS
<1> DEFINE q == mutationQueue
           state(d) == LocalStates(remoteDocs, writes, q, d)
<1>1. /\ remoteDocs \in [Doc -> DocState] /\ writes \in Seq(Mutation)
      /\ q \in Seq(Write) /\ DOMAIN q = 1 .. Len(q) /\ Len(q) \in Nat
      /\ \A w \in DOMAIN writes : writes[w].doc \in Doc /\ w \in Nat /\ writes[w] \in Mutation
      /\ \A k \in DOMAIN q : q[k] \in DOMAIN writes
  <2>1. ASSUME NEW k \in DOMAIN q PROVE q[k] \in DOMAIN writes
    <3>1. q[k] \in Write /\ q[k] <= Len(writes) /\ Len(writes) \in Nat
          /\ DOMAIN writes = 1 .. Len(writes)
      BY WritesAreTyped DEF RepliesInv, QueueOrdered
    <3> QED
      BY <3>1 DEF Write
  <2> QED
    BY <2>1, WritesAreTyped DEF StoreTypeOK
<1>2. QueueOf(writes, q) /\ 0 \in 0 .. Len(q)
  BY <1>1 DEF QueueOf
<1>3. ASSUME NEW d \in Doc
      PROVE  /\ state(d)[0] = remoteDocs[d]
             /\ \A i \in 1 .. Len(q) :
                  state(d)[i] = IF writes[q[i]].doc = d
                                THEN ApplyToLocalView(state(d)[i - 1], writes[q[i]])
                                ELSE state(d)[i - 1]
  BY <1>1, <1>2, LocalStatesRecursion
<1> HIDE DEF state
<1>4. ASSUME NEW d \in Doc, Unused(d) PROVE CurrentView[d] = "absent"
  <2>1. state(d)[0] \notin Content
    BY <1>3, <1>4 DEF Unused, Content
  <2>2. \A i \in 1 .. Len(q) : writes[q[i]].doc # d
    BY <1>1, <1>4 DEF Unused
  <2> QED
    BY <2>1, <2>2, <1>1, <1>2, GoneIsNotShown DEF CurrentView, state
<1>5. ASSUME NEW w \in DOMAIN writes, writes[w].op = "delete", Accepted(w)
      PROVE  CurrentView[writes[w].doc] = "absent"
  <2> DEFINE d == writes[w].doc
  <2>1. d \in Doc /\ remoteDocs[d] = "deleted"
    BY <1>1, <1>5 DEF WritesInv, DeletesHold
  <2>2. state(d)[0] \notin Content
    BY <2>1, <1>3 DEF Content
  <2>3. ASSUME NEW i \in 1 .. Len(q), writes[q[i]].doc = d PROVE writes[q[i]].op # "set"
    <3>1. w < q[i]
      BY <1>1, <1>5, AcceptedNotQueued
    <3> QED
      BY <3>1, <2>3, <1>1 DEF WritesInv, SetIsFirst
  <2> HIDE DEF d
  <2>4. CurrentView[d] = "absent"
    BY <2>1, <2>2, <2>3, <1>1, <1>2, GoneIsNotShown DEF CurrentView, state
  <2> QED
    BY <2>4 DEF d
<1>6. ASSUME q # <<>>, writes[Head(q)].op = "delete"
      PROVE  CurrentView[writes[Head(q)].doc] = "absent"
  <2> DEFINE d == writes[Head(q)].doc
  <2>1. 1 \in 1 .. Len(q) /\ 1 \in 0 .. Len(q) /\ Head(q) = q[1]
    BY <1>1, <1>6
  <2>2. d \in Doc
    BY <2>1, <1>1
  <2>3. state(d)[1] = ApplyToLocalView(state(d)[0], writes[q[1]])
    BY <2>1, <2>2, <1>3
  <2>4. state(d)[1] \notin Content
    BY <2>1, <2>3, <1>6 DEF ApplyToLocalView, Content
  <2>5. ASSUME NEW i \in 1 .. Len(q), i > 1, writes[q[i]].doc = d
        PROVE  writes[q[i]].op # "set"
    <3>1. q[1] < q[i]
      BY <2>1, <2>5, <1>1 DEF RepliesInv, QueueOrdered
    <3> QED
      BY <3>1, <2>1, <2>5, <1>1 DEF WritesInv, SetIsFirst
  <2> DEFINE k == 1
  <2> HIDE DEF d, k
  <2>6. k \in 0 .. Len(q) /\ state(d)[k] \notin Content
    BY <2>1, <2>4 DEF k
  <2>7. \A i \in 1 .. Len(q) : i > k /\ writes[q[i]].doc = d => writes[q[i]].op # "set"
    BY <2>5 DEF k
  <2>8. CurrentView[d] = "absent"
    BY <2>6, <2>7, <2>2, <1>1, <1>2, GoneIsNotShown DEF CurrentView, state
  <2> QED
    BY <2>8 DEF d
<1>7. ASSUME NEW w \in DOMAIN writes, Kept(w), Queued(w)
      PROVE  CurrentView[writes[w].doc] # "absent"
  <2> DEFINE d == writes[w].doc
  <2>1. d \in Doc /\ writes[w].content \in Content
    BY <1>1 DEF Mutation
  <2>2. PICK k \in 1 .. Len(q) : q[k] = w
    BY <1>7 DEF Queued
  <2>3. k \in 0 .. Len(q)
    BY <2>2, <1>1
  <2>4. state(d)[k] = ApplyToLocalView(state(d)[k - 1], writes[w])
    BY <2>1, <2>2, <1>3
  <2>5. state(d)[k] \in Content
    BY <2>1, <2>4, <1>7 DEF Kept, ApplyToLocalView
  <2>6. \A i \in 1 .. Len(q) : writes[q[i]].doc = d => writes[q[i]].op # "delete"
    BY <1>1, <1>7 DEF Kept
  <2> HIDE DEF d
  <2>7. CurrentView[d] # "absent"
    BY <2>1, <2>3, <2>5, <2>6, <1>1, <1>2, PresentIsShown DEF CurrentView, state
  <2> QED
    BY <2>7 DEF d
<1> QED
  BY <1>4, <1>5, <1>6, <1>7
     DEF ViewInv, UnusedHidden, DeletedHidden, DeletingHidden, KeptVisible

LEMMA ViewsFollowWritesNext ==
    (StoreTypeOK /\ RepliesInv /\ WritesInv)' => ViewInv'
BY ViewsFollowWrites, PTL

-----------------------------------------------------------------------------
(* What the snapshots on their way show.                                   *)

(* Message i is no snapshot with document d. *)
Lacks(i, d) == IsResult(i) \/ toApp[i].view[d] = "absent"

(* When Dart comes to message k, the last snapshot it was handed lacks d. *)
LackedBefore(k, d) ==
    \/ \E i \in DOMAIN toApp :
         /\ i < k /\ ~IsResult(i) /\ toApp[i].view[d] = "absent"
         /\ \A j \in DOMAIN toApp : i < j /\ j < k => IsResult(j)
    \/ seen[d] = "absent" /\ \A j \in DOMAIN toApp : j < k => IsResult(j)

(* The last snapshot Dart was or will be handed lacks d. *)
EndsWithout(d) ==
    \/ \E i \in DOMAIN toApp :
         /\ ~IsResult(i) /\ toApp[i].view[d] = "absent"
         /\ \A j \in DOMAIN toApp : i < j => IsResult(j)
    \/ seen[d] = "absent" /\ \A j \in DOMAIN toApp : IsResult(j)

NoneShown ==
    listener \in {"none", "waiting"} =>
        seen = NoDocs /\ \A i \in DOMAIN toApp : IsResult(i)

(* Document d is gone from what Dart has when it is told that delete w     *)
(* succeeded, and does not come back.                                      *)
DeleteShown(w, d) ==
    /\ future[w] = "ok" =>
         seen[d] = "absent" /\ \A i \in DOMAIN toApp : Lacks(i, d)
    /\ \A k \in DOMAIN toApp : toApp[k] = Result(w, TRUE) =>
         LackedBefore(k, d) /\ \A j \in DOMAIN toApp : j > k => Lacks(j, d)

DeletesShown ==
    listener # "failed" =>
        \A w \in DOMAIN writes :
            writes[w].op = "delete" => DeleteShown(w, writes[w].doc)

(* The answer to w does not come before message j. *)
Unanswered(w, j) ==
    \A k \in DOMAIN toApp : k < j => ~(IsResult(k) /\ toApp[k].write = w)

(* Until w is answered, document d does not leave the snapshots again. *)
KeptShown(w, d) ==
    \A j \in DOMAIN toApp :
        Unanswered(w, j) /\ ~IsResult(j) =>
          /\ seen[d] # "absent" => toApp[j].view[d] # "absent"
          /\ \A i \in DOMAIN toApp :
               i < j /\ ~Lacks(i, d) => toApp[j].view[d] # "absent"

KeptAreShown ==
    \A w \in DOMAIN writes : Kept(w) => KeptShown(w, writes[w].doc)

UnusedUnseen ==
    \A d \in Doc : Unused(d) =>
        seen[d] = "absent" /\ \A i \in DOMAIN toApp : Lacks(i, d)

ShownInv == NoneShown /\ DeletesShown /\ KeptAreShown /\ UnusedUnseen

(* The channel after at most one result of h and at most one snapshot. *)
Shape(h, ok, ms, v) ==
    /\ DOMAIN toApp = 1 .. Len(toApp) /\ Len(toApp) \in Nat
    /\ DOMAIN toApp' = 1 .. Len(toApp') /\ Len(toApp') \in Nat
    /\ \A i \in DOMAIN toApp : i \in DOMAIN toApp' /\ toApp'[i] = toApp[i]
    /\ \A i \in DOMAIN toApp' :
         \/ i \in DOMAIN toApp
         \/ i = Len(toApp) + 1 /\ ms # <<>> /\ toApp'[i] = Result(h, ok)
         \/ i > Len(toApp) /\ toApp'[i] = Snapshot(v)
    /\ listener' \in {"none", "waiting"}
         => /\ listener \in {"none", "waiting"}
            /\ \A i \in DOMAIN toApp' :
                 i \in DOMAIN toApp \/ toApp'[i] = Result(h, ok)
    /\ listener' # "failed" => listener # "failed"

LEMMA SendsShape ==
    ASSUME NEW h, NEW ok, NEW ms \in {<<>>, <<Result(h, ok)>>}, NEW v, Sends(ms, v)
    PROVE  Shape(h, ok, ms, v)
<1>1. /\ Len(ms) \in {0, 1}
      /\ \A i \in 1 .. Len(ms) : ms[i] = Result(h, ok) /\ ms # <<>>
  OBVIOUS
<1>2. /\ DOMAIN toApp = 1 .. Len(toApp) /\ Len(toApp) \in Nat
      /\ DOMAIN toApp' = 1 .. Len(toApp') /\ Len(toApp') \in Nat
      /\ Len(toApp') >= Len(toApp) + Len(ms)
      /\ \A i \in 1 .. Len(toApp) : toApp'[i] = toApp[i]
      /\ \A i \in 1 .. Len(ms) : toApp'[Len(toApp) + i] = ms[i]
  BY DEF Sends
<1>3. \A i \in DOMAIN toApp' : i > Len(toApp) + Len(ms) => toApp'[i] = Snapshot(v)
  BY DEF Sends
<1>4. /\ listener' \in {"none", "waiting"}
           => listener \in {"none", "waiting"} /\ Len(toApp') = Len(toApp) + Len(ms)
      /\ listener' # "failed" => listener # "failed"
  BY DEF Sends
<1>5. ASSUME NEW i \in DOMAIN toApp
      PROVE  i \in DOMAIN toApp' /\ toApp'[i] = toApp[i]
  BY <1>1, <1>2
<1>6. ASSUME NEW i \in DOMAIN toApp', ~(i > Len(toApp) + Len(ms))
      PROVE  \/ i \in DOMAIN toApp
             \/ i = Len(toApp) + 1 /\ ms # <<>> /\ toApp'[i] = Result(h, ok)
  <2>1. CASE i > Len(toApp)
    <3>1. i = Len(toApp) + 1 /\ Len(ms) = 1 /\ 1 \in 1 .. Len(ms)
      BY <2>1, <1>1, <1>2, <1>6
    <3> QED
      BY <3>1, <1>1, <1>2
  <2>2. CASE ~(i > Len(toApp))
    BY <2>2, <1>2
  <2> QED
    BY <2>1, <2>2
<1>7. ASSUME NEW i \in DOMAIN toApp', i > Len(toApp) + Len(ms)
      PROVE  i > Len(toApp) /\ toApp'[i] = Snapshot(v)
  <2>1. toApp'[i] = Snapshot(v)
    BY <1>3, <1>7
  <2> QED
    BY <2>1, <1>1, <1>2, <1>7
<1>8. ASSUME listener' \in {"none", "waiting"}, NEW i \in DOMAIN toApp'
      PROVE  ~(i > Len(toApp) + Len(ms))
  <2>1. Len(toApp') = Len(toApp) + Len(ms)
    BY <1>4, <1>8
  <2> QED
    BY <2>1, <1>1, <1>2
<1> QED
  BY <1>2, <1>4, <1>5, <1>6, <1>7, <1>8 DEF Shape

LEMMA SnapshotFacts ==
    ASSUME NEW v
    PROVE  /\ Snapshot(v).type = "snapshot" /\ Snapshot(v).view = v
           /\ \A w, ok : /\ Result(w, ok).type = "result"
                         /\ Result(w, ok).write = w
                         /\ Result(w, ok) # Snapshot(v)
BY DEF Snapshot, Result

(* The channel has grown; the new snapshots are of the new view. *)
Grows(h, ok, ms) ==
    /\ ms \in {<<>>, <<Result(h, ok)>>}
    /\ Sends(ms, CurrentView')
    /\ seen' = seen

LEMMA GrowthKeepsNoneShown ==
    ASSUME NoneShown, NEW h, NEW ok, NEW ms, Grows(h, ok, ms)
    PROVE  NoneShown'
<1>1. /\ \A i \in DOMAIN toApp : i \in DOMAIN toApp' /\ toApp'[i] = toApp[i]
      /\ listener' \in {"none", "waiting"}
           => /\ listener \in {"none", "waiting"}
              /\ \A i \in DOMAIN toApp' : i \in DOMAIN toApp \/ toApp'[i] = Result(h, ok)
  BY SendsShape DEF Grows, Shape
<1>2. Result(h, ok).type = "result"
  BY SnapshotFacts
<1> QED
  BY <1>1, <1>2 DEF NoneShown, IsResult, NoDocs, Doc, Grows

LEMMA GrowthKeepsDeleteShown ==
    ASSUME NEW h, NEW ok, NEW ms, Grows(h, ok, ms),
           NEW w, NEW d, DeleteShown(w, d), future'[w] = future[w],
           Accepted(w)' => CurrentView'[d] = "absent",
           ms # <<>> /\ w = h /\ ok = TRUE
             => /\ future[w] # "ok"
                /\ \A i \in DOMAIN toApp : toApp[i] # Result(w, TRUE)
                /\ EndsWithout(d)
    PROVE  DeleteShown(w, d)'
<1> DEFINE n == Len(toApp)
           v == CurrentView'
<1>0. Shape(h, ok, ms, v) /\ seen' = seen
  BY SendsShape DEF Grows
<1> HIDE DEF v
<1>1. /\ DOMAIN toApp = 1 .. n /\ n \in Nat
      /\ DOMAIN toApp' = 1 .. Len(toApp') /\ Len(toApp') \in Nat
      /\ \A i \in DOMAIN toApp : i \in DOMAIN toApp' /\ toApp'[i] = toApp[i]
      /\ \A i \in DOMAIN toApp' :
           \/ i \in DOMAIN toApp
           \/ i = n + 1 /\ ms # <<>> /\ toApp'[i] = Result(h, ok)
           \/ i > n /\ toApp'[i] = Snapshot(v)
      /\ seen' = seen
  BY <1>0 DEF Shape
<1> HIDE DEF n
<1>2. /\ \A i \in DOMAIN toApp : IsResult(i)' <=> IsResult(i)
      /\ \A i \in DOMAIN toApp : Lacks(i, d)' <=> Lacks(i, d)
  BY <1>1 DEF IsResult, Lacks
<1>3. ASSUME Accepted(w)', NEW i \in DOMAIN toApp', i \notin DOMAIN toApp
      PROVE  Lacks(i, d)'
  <2>1. v[d] = "absent"
    BY <1>3 DEF v
  <2>2. CASE toApp'[i] = Result(h, ok)
    BY <2>2, SnapshotFacts DEF Lacks, IsResult
  <2>3. CASE toApp'[i] = Snapshot(v)
    BY <2>1, <2>3, SnapshotFacts DEF Lacks
  <2> QED
    BY <1>1, <1>3, <2>2, <2>3
<1>4. ASSUME future'[w] = "ok"
      PROVE  (seen[d] = "absent")' /\ \A i \in DOMAIN toApp' : Lacks(i, d)'
  <2>1. Accepted(w)'
    BY <1>4 DEF Accepted
  <2>2. seen[d] = "absent" /\ \A i \in DOMAIN toApp : Lacks(i, d)
    BY <1>4 DEF DeleteShown
  <2> QED
    BY <2>1, <2>2, <1>1, <1>2, <1>3
<1>5. ASSUME NEW k \in DOMAIN toApp', toApp'[k] = Result(w, TRUE)
      PROVE  LackedBefore(k, d)' /\ \A j \in DOMAIN toApp' : j > k => Lacks(j, d)'
  <2>1. Accepted(w)'
    BY <1>5 DEF Accepted
  <2>2. CASE k \in DOMAIN toApp
    <3>1. LackedBefore(k, d) /\ \A j \in DOMAIN toApp : j > k => Lacks(j, d)
      BY <2>2, <1>1, <1>5 DEF DeleteShown
    <3>2. \A j \in DOMAIN toApp' : j < k => j \in DOMAIN toApp
      BY <2>2, <1>1
    <3>3. LackedBefore(k, d)'
      <4>1. CASE \E i \in DOMAIN toApp :
                    /\ i < k /\ ~IsResult(i) /\ toApp[i].view[d] = "absent"
                    /\ \A j \in DOMAIN toApp : i < j /\ j < k => IsResult(j)
        <5>1. PICK i \in DOMAIN toApp :
                    /\ i < k /\ ~IsResult(i) /\ toApp[i].view[d] = "absent"
                    /\ \A j \in DOMAIN toApp : i < j /\ j < k => IsResult(j)
          BY <4>1
        <5>2. i \in DOMAIN toApp' /\ ~IsResult(i)' /\ toApp'[i].view[d] = "absent"
          BY <5>1, <1>1, <1>2
        <5>3. \A j \in DOMAIN toApp' : i < j /\ j < k => IsResult(j)'
          BY <5>1, <3>2, <1>2
        <5> QED
          BY <5>1, <5>2, <5>3 DEF LackedBefore
      <4>2. CASE seen[d] = "absent" /\ \A j \in DOMAIN toApp : j < k => IsResult(j)
        BY <4>2, <3>2, <1>1, <1>2 DEF LackedBefore
      <4> QED
        BY <3>1, <4>1, <4>2 DEF LackedBefore
    <3>4. ASSUME NEW j \in DOMAIN toApp', j > k PROVE Lacks(j, d)'
      BY <3>1, <3>4, <2>1, <1>2, <1>3
    <3> QED
      BY <3>3, <3>4
  <2>3. CASE k \notin DOMAIN toApp
    <3>1. toApp'[k] # Snapshot(v)
      BY <1>5 DEF Result, Snapshot
    <3>2. k = n + 1 /\ ms # <<>> /\ Result(w, TRUE) = Result(h, ok)
      BY <1>1, <1>5, <2>3, <3>1
    <3>3. w = h /\ ok = TRUE
      BY <3>2 DEF Result
    <3>4. \A j \in DOMAIN toApp' : j < k <=> j \in DOMAIN toApp
      BY <3>2, <1>1
    <3>5. LackedBefore(k, d)'
      <4>1. CASE \E i \in DOMAIN toApp :
                    /\ ~IsResult(i) /\ toApp[i].view[d] = "absent"
                    /\ \A j \in DOMAIN toApp : i < j => IsResult(j)
        <5>1. PICK i \in DOMAIN toApp :
                    /\ ~IsResult(i) /\ toApp[i].view[d] = "absent"
                    /\ \A j \in DOMAIN toApp : i < j => IsResult(j)
          BY <4>1
        <5>2. i \in DOMAIN toApp' /\ i < k /\ ~IsResult(i)' /\ toApp'[i].view[d] = "absent"
          BY <5>1, <3>4, <1>1, <1>2
        <5>3. \A j \in DOMAIN toApp' : i < j /\ j < k => IsResult(j)'
          BY <5>1, <3>4, <1>2
        <5> QED
          BY <5>2, <5>3 DEF LackedBefore
      <4>2. CASE seen[d] = "absent" /\ \A j \in DOMAIN toApp : IsResult(j)
        BY <4>2, <3>4, <1>1, <1>2 DEF LackedBefore
      <4> QED
        BY <3>2, <3>3, <4>1, <4>2 DEF EndsWithout
    <3>6. ASSUME NEW j \in DOMAIN toApp', j > k PROVE Lacks(j, d)'
      <4>1. j \notin DOMAIN toApp
        BY <3>2, <3>6, <1>1
      <4> QED
        BY <4>1, <2>1, <1>3
    <3> QED
      BY <3>5, <3>6
  <2> QED
    BY <2>2, <2>3
<1> QED
  BY <1>4, <1>5 DEF DeleteShown

LEMMA GrowthKeepsKeptShown ==
    ASSUME NEW h, NEW ok, NEW ms, Grows(h, ok, ms),
           NEW w, NEW d, KeptShown(w, d),
           Queued(w)' => CurrentView'[d] # "absent",
           Queued(w)' \/ \E k \in DOMAIN toApp' : IsResult(k)' /\ toApp'[k].write = w
    PROVE  KeptShown(w, d)'
<1> DEFINE n == Len(toApp)
           v == CurrentView'
<1>0. Shape(h, ok, ms, v) /\ seen' = seen
  BY SendsShape DEF Grows
<1>v. v = CurrentView'
  OBVIOUS
<1> HIDE DEF v
<1>1. /\ DOMAIN toApp = 1 .. n /\ n \in Nat
      /\ DOMAIN toApp' = 1 .. Len(toApp') /\ Len(toApp') \in Nat
      /\ \A i \in DOMAIN toApp : i \in DOMAIN toApp' /\ toApp'[i] = toApp[i]
      /\ \A i \in DOMAIN toApp' :
           \/ i \in DOMAIN toApp
           \/ i = n + 1 /\ ms # <<>> /\ toApp'[i] = Result(h, ok)
           \/ i > n /\ toApp'[i] = Snapshot(v)
      /\ seen' = seen
  BY <1>0 DEF Shape
<1> HIDE DEF n
<1>2. /\ \A i \in DOMAIN toApp : IsResult(i)' <=> IsResult(i)
      /\ \A i \in DOMAIN toApp : Lacks(i, d)' <=> Lacks(i, d)
  BY <1>1 DEF IsResult, Lacks
<1> SUFFICES ASSUME NEW j \in DOMAIN toApp', Unanswered(w, j)', ~IsResult(j)'
             PROVE  /\ seen'[d] # "absent" => toApp'[j].view[d] # "absent"
                    /\ \A i \in DOMAIN toApp' :
                         i < j /\ ~Lacks(i, d)' => toApp'[j].view[d] # "absent"
  BY DEF KeptShown
<1>3. CASE j \in DOMAIN toApp
  <2>1. Unanswered(w, j) /\ ~IsResult(j)
    BY <1>1, <1>2, <1>3 DEF Unanswered
  <2>2. /\ seen[d] # "absent" => toApp[j].view[d] # "absent"
        /\ \A i \in DOMAIN toApp :
             i < j /\ ~Lacks(i, d) => toApp[j].view[d] # "absent"
    BY <2>1, <1>3 DEF KeptShown
  <2>3. \A i \in DOMAIN toApp' : i < j => i \in DOMAIN toApp
    BY <1>1, <1>3
  <2> QED
    BY <2>2, <2>3, <1>1, <1>2, <1>3
<1>4. CASE j \notin DOMAIN toApp
  <2>1. j > n /\ toApp'[j] = Snapshot(v)
    <3>1. toApp'[j] # Result(h, ok)
      BY SnapshotFacts DEF IsResult
    <3> QED
      BY <3>1, <1>1, <1>4
  <2>2. ASSUME NEW k \in DOMAIN toApp', IsResult(k)' PROVE k < j
    <3>1. CASE k \in DOMAIN toApp
      BY <3>1, <2>1, <1>1
    <3>2. CASE k \notin DOMAIN toApp
      <4>1. toApp'[k] # Snapshot(v)
        BY <2>2, SnapshotFacts DEF IsResult
      <4>2. k = n + 1 /\ k # j
        BY <4>1, <3>2, <2>1, <1>1
      <4> QED
        BY <4>2, <2>1, <1>1
    <3> QED
      BY <3>1, <3>2
  <2>3. Queued(w)'
    BY <2>2 DEF Unanswered, IsResult
  <2>4. toApp'[j].view[d] # "absent"
    BY <2>1, <2>3, <1>v, SnapshotFacts
  <2> QED
    BY <2>4
<1> QED
  BY <1>3, <1>4

LEMMA GrowthKeepsUnseen ==
    ASSUME NEW h, NEW ok, NEW ms, Grows(h, ok, ms), NEW d,
           seen[d] = "absent", \A i \in DOMAIN toApp : Lacks(i, d),
           CurrentView'[d] = "absent"
    PROVE  seen'[d] = "absent" /\ \A i \in DOMAIN toApp' : Lacks(i, d)'
<1> DEFINE v == CurrentView'
<1>0. Shape(h, ok, ms, v) /\ seen' = seen /\ v[d] = "absent"
  BY SendsShape DEF Grows
<1> HIDE DEF v
<1>1. \A i \in DOMAIN toApp' :
         \/ i \in DOMAIN toApp /\ toApp'[i] = toApp[i]
         \/ toApp'[i] = Result(h, ok)
         \/ toApp'[i] = Snapshot(v)
  BY <1>0 DEF Shape
<1>2. ASSUME NEW i \in DOMAIN toApp' PROVE Lacks(i, d)'
  <2>1. CASE i \in DOMAIN toApp /\ toApp'[i] = toApp[i]
    BY <2>1 DEF Lacks, IsResult
  <2>2. CASE toApp'[i] = Result(h, ok)
    BY <2>2, SnapshotFacts DEF Lacks, IsResult
  <2>3. CASE toApp'[i] = Snapshot(v)
    BY <2>3, <1>0, SnapshotFacts DEF Lacks
  <2> QED
    BY <1>1, <2>1, <2>2, <2>3
<1> QED
  BY <1>0, <1>2

(* Steps that issue no write. *)
LEMMA GrowthKeepsShownInv ==
    ASSUME StoreTypeOK, ShownInv, RepliesInv', ViewInv', UNCHANGED <<writes, future>>,
           NEW h, NEW ok, NEW ms, Grows(h, ok, ms),
           \A d \in Doc : Unused(d)' => Unused(d),
           ms # <<>> /\ ok = TRUE /\ writes[h].op = "delete" /\ listener # "failed"
             => /\ future[h] # "ok"
                /\ \A i \in DOMAIN toApp : toApp[i] # Result(h, TRUE)
                /\ EndsWithout(writes[h].doc)
    PROVE  ShownInv'
<1>1. /\ \A w \in DOMAIN writes : w \in Write /\ writes[w].doc \in Doc
      /\ listener' # "failed" => listener # "failed"
  <2>1. listener' # "failed" => listener # "failed"
    BY SendsShape DEF Grows, Shape
  <2> QED
    BY <2>1, WritesAreTyped
<1>2. NoneShown'
  BY GrowthKeepsNoneShown DEF ShownInv
<1>3. ASSUME listener' # "failed", NEW w \in DOMAIN writes, writes[w].op = "delete"
      PROVE  DeleteShown(w, writes[w].doc)'
  <2>1. PICK d \in Doc : d = writes[w].doc
    BY <1>1
  <2>2. DeleteShown(w, d) /\ d = writes'[w].doc
    BY <1>1, <1>3, <2>1 DEF ShownInv, DeletesShown
  <2>3. Accepted(w)' => CurrentView'[d] = "absent"
    BY <1>3, <2>1 DEF ViewInv, DeletedHidden
  <2>4. ms # <<>> /\ w = h /\ ok = TRUE
          => /\ future[w] # "ok"
             /\ \A i \in DOMAIN toApp : toApp[i] # Result(w, TRUE)
             /\ EndsWithout(d)
    BY <1>1, <1>3, <2>1
  <2>5. DeleteShown(w, d)'
    BY <2>2, <2>3, <2>4, GrowthKeepsDeleteShown
  <2> QED
    BY <2>2, <2>5
<1>4. ASSUME NEW w \in DOMAIN writes, Kept(w)'
      PROVE  KeptShown(w, writes[w].doc)'
  <2>1. PICK d \in Doc : d = writes[w].doc
    BY <1>1
  <2>2. KeptShown(w, d) /\ d = writes'[w].doc
    BY <1>4, <2>1 DEF ShownInv, KeptAreShown, Kept
  <2>3. Queued(w)' => CurrentView'[d] # "absent"
    BY <1>4, <2>1 DEF ViewInv, KeptVisible
  <2>4. Queued(w)' \/ \E k \in DOMAIN toApp' : IsResult(k)' /\ toApp'[k].write = w
    BY <1>1, <1>4 DEF RepliesInv, ResultsAwaited, Kept
  <2>5. KeptShown(w, d)'
    BY <2>2, <2>3, <2>4, GrowthKeepsKeptShown
  <2> QED
    BY <2>2, <2>5
<1>5. ASSUME NEW d \in Doc, Unused(d)'
      PROVE  (seen[d] = "absent")' /\ \A i \in DOMAIN toApp' : Lacks(i, d)'
  <2>1. seen[d] = "absent" /\ \A i \in DOMAIN toApp : Lacks(i, d)
    BY <1>5 DEF ShownInv, UnusedUnseen
  <2>2. CurrentView'[d] = "absent"
    BY <1>5 DEF ViewInv, UnusedHidden, Doc
  <2> QED
    BY <2>1, <2>2, GrowthKeepsUnseen
<1> QED
  BY <1>2, <1>3, <1>4, <1>5 DEF ShownInv, DeletesShown, KeptAreShown, UnusedUnseen, Doc

LEMMA QuietKeepsShownInv ==
    ASSUME StoreTypeOK, ShownInv, RepliesInv', ViewInv', Quiet PROVE ShownInv'
<1>1. UNCHANGED <<writes, future>> /\ Grows(0, FALSE, <<>>)
  BY DEF Quiet, Grows
<1>2. \A d \in Doc : Unused(d)' => Unused(d)
  BY <1>1 DEF Quiet, Unused, Doc
<1> QED
  BY <1>1, <1>2, GrowthKeepsShownInv

LEMMA AnswerKeepsShownInv ==
    ASSUME StoreTypeOK, RepliesInv, WritesInv, ViewInv, StreamFresh, ShownInv,
           RepliesInv', ViewInv', NEW h \in Write, NEW ok \in BOOLEAN, Answered(h, ok)
    PROVE  ShownInv'
<1> DEFINE ms == Answer(h, ok)
<1>1. UNCHANGED <<writes, future>> /\ Grows(h, ok, ms)
  BY DEF Answered, Grows, Answer
<1>2. /\ h \in DOMAIN writes /\ Queued(h) /\ writes[h].doc \in Doc
      /\ \A w \in DOMAIN writes : writes[w].doc \in Doc
  <2>1. /\ mutationQueue # <<>> /\ h = mutationQueue[1]
        /\ 1 \in DOMAIN mutationQueue /\ 1 \in 1 .. Len(mutationQueue)
    BY WritesAreTyped DEF Answered
  <2>2. h <= Len(writes) /\ Len(writes) \in Nat /\ DOMAIN writes = 1 .. Len(writes)
    BY <2>1, WritesAreTyped DEF RepliesInv, QueueOrdered
  <2> QED
    BY <2>1, <2>2, WritesAreTyped DEF Queued, Write
<1>3. ASSUME NEW d \in Doc, Unused(d)' PROVE Unused(d)
  <2>1. writes[h].doc # d
    BY <1>1, <1>2, <1>3 DEF Unused
  <2>2. remoteDocs'[d] = remoteDocs[d]
    BY <1>2, <2>1 DEF Answered, StoreTypeOK
  <2> QED
    BY <1>1, <1>3, <2>2 DEF Unused
<1>4. ASSUME ms # <<>>, writes[h].op = "delete", listener # "failed"
      PROVE  /\ future[h] # "ok"
             /\ \A i \in DOMAIN toApp : toApp[i] # Result(h, TRUE)
             /\ EndsWithout(writes[h].doc)
  <2>1. future[h] = "pending"
    BY <1>4 DEF Answer
  <2>2. ~Accepted(h)
    BY <1>2, AcceptedNotQueued
  <2>3. PICK d \in Doc : d = writes[h].doc
    BY <1>2
  <2>4. CurrentView[d] = "absent"
    BY <1>4, <2>3 DEF ViewInv, DeletingHidden, Answered
  <2>5. EndsWithout(d)
    <3>1. CASE listener = "raised"
      <4>1. Newest(toApp, seen, CurrentView)
        BY <3>1 DEF StreamFresh
      <4>2. CASE \E i \in DOMAIN toApp :
                   /\ toApp[i] = Snapshot(CurrentView)
                   /\ \A j \in DOMAIN toApp : j > i => toApp[j].type = "result"
        <5>1. PICK i \in DOMAIN toApp :
                   /\ toApp[i] = Snapshot(CurrentView)
                   /\ \A j \in DOMAIN toApp : j > i => toApp[j].type = "result"
          BY <4>2
        <5>2. ~IsResult(i) /\ toApp[i].view[d] = "absent"
          BY <5>1, <2>4, SnapshotFacts DEF IsResult
        <5>3. \A j \in DOMAIN toApp : i < j => IsResult(j)
          BY <5>1, WritesAreTyped DEF IsResult
        <5> QED
          BY <5>2, <5>3 DEF EndsWithout
      <4>3. CASE seen = CurrentView /\ \A j \in DOMAIN toApp : toApp[j].type = "result"
        BY <4>3, <2>4 DEF EndsWithout, IsResult
      <4> QED
        BY <4>1, <4>2, <4>3 DEF Newest
    <3>2. CASE listener \in {"none", "waiting"}
      BY <3>2 DEF EndsWithout, ShownInv, NoneShown, NoDocs
    <3> QED
      BY <1>4, <3>1, <3>2 DEF StoreTypeOK
  <2>6. \A i \in DOMAIN toApp : toApp[i] # Result(h, TRUE)
    BY <2>2 DEF Accepted
  <2> QED
    BY <2>1, <2>3, <2>5, <2>6
<1> QED
  BY <1>1, <1>3, <1>4, GrowthKeepsShownInv

LEMMA IssueKeepsShownInv ==
    ASSUME StoreTypeOK, RepliesInv, WritesInv, ShownInv, RepliesInv', ViewInv',
           NEW op \in {"set", "patch", "delete"}, NEW e \in Doc, NEW c \in Content,
           Issues(op, e, c)
    PROVE  ShownInv'
<1> DEFINE n == Len(writes) + 1
           m == [op |-> op, doc |-> e, content |-> c]
<1>1. /\ n \in Write /\ n \in Nat /\ n > Len(writes)
      /\ DOMAIN writes' = 1 .. n /\ writes'[n].doc = e /\ writes'[n].op = op
      /\ \A w \in DOMAIN writes : w \in DOMAIN writes' /\ writes'[w] = writes[w] /\ w # n
      /\ \A w \in DOMAIN writes' : w \in DOMAIN writes \/ w = n
      /\ DOMAIN writes' \subseteq Write
  <2>1. n \in Write /\ n \in Nat /\ Len(writes) \in Nat /\ DOMAIN writes = 1 .. Len(writes)
        /\ DOMAIN writes \subseteq Write
    BY WritesAreTyped, FirestoreAssumption DEF Issues, Write
  <2>2. m \in Mutation /\ m.doc = e /\ m.op = op
    BY DEF Mutation
  <2> HIDE DEF m
  <2>3. writes' = Append(writes, m)
    BY DEF Issues, m
  <2>4. /\ DOMAIN writes' = 1 .. n /\ writes'[n] = m
        /\ \A w \in 1 .. Len(writes) : writes'[w] = writes[w]
    BY <2>1, <2>2, <2>3, WritesAreTyped
  <2> QED
    BY <2>1, <2>2, <2>4
<1>2. Grows(0, FALSE, <<>>)
  BY DEF Issues, Grows
<1>3. /\ \A w \in Write : w # n => future'[w] = future[w]
      /\ future'[n] = "pending" /\ future[n] = "none"
  BY <1>1 DEF Issues, StoreTypeOK, RepliesInv, Issued
<1>4. \A i \in DOMAIN toApp : ~(IsResult(i) /\ toApp[i].write = n)
  BY <1>3 DEF RepliesInv, ResultsAwaited
<1>5. /\ listener' # "failed" => listener # "failed"
      /\ \A i \in DOMAIN toApp' :
           \/ i \in DOMAIN toApp /\ toApp'[i] = toApp[i]
           \/ toApp'[i] = Snapshot(CurrentView')
  BY <1>2, SendsShape DEF Grows, Shape
<1> HIDE DEF n, m
<1>6. \A d \in Doc : Unused(d)' => Unused(d)
  BY <1>1 DEF Unused, Issues, Doc
<1>7. NoneShown'
  BY <1>2, GrowthKeepsNoneShown DEF ShownInv
<1>8. ASSUME listener' # "failed", NEW w \in DOMAIN writes', writes'[w].op = "delete"
      PROVE  DeleteShown(w, writes[w].doc)'
  <2>1. CASE w = n
    <3>1. ASSUME NEW i \in DOMAIN toApp' PROVE toApp'[i] # Result(w, TRUE)
      <4>1. CASE i \in DOMAIN toApp /\ toApp'[i] = toApp[i]
        <5>1. toApp[i] = Result(w, TRUE) => IsResult(i) /\ toApp[i].write = n
          BY <2>1 DEF Result, IsResult
        <5> QED
          BY <4>1, <5>1, <1>4
      <4>2. CASE toApp'[i] = Snapshot(CurrentView')
        BY <4>2 DEF Result, Snapshot
      <4> QED
        BY <1>5, <4>1, <4>2
    <3> QED
      BY <3>1, <2>1, <1>3 DEF DeleteShown
  <2>2. CASE w \in DOMAIN writes
    <3>1. PICK d \in Doc : d = writes[w].doc
      BY <2>2, WritesAreTyped
    <3>2. DeleteShown(w, d) /\ d = writes'[w].doc /\ future'[w] = future[w]
      BY <1>1, <1>3, <1>5, <1>8, <2>2, <3>1 DEF ShownInv, DeletesShown
    <3>3. Accepted(w)' => CurrentView'[d] = "absent"
      BY <1>8, <3>2 DEF ViewInv, DeletedHidden
    <3>4. DeleteShown(w, d)'
      BY <3>2, <3>3, <1>2, GrowthKeepsDeleteShown
    <3> QED
      BY <3>2, <3>4
  <2> QED
    BY <1>1, <2>1, <2>2
<1>9. ASSUME NEW w \in DOMAIN writes', Kept(w)'
      PROVE  KeptShown(w, writes[w].doc)'
  <2>1. PICK d \in Doc : d = writes'[w].doc
    BY <1>1, WritesAreTyped
  <2>2. KeptShown(w, d)
    <3>1. CASE w = n
      BY <3>1, <2>1, <1>1, <1>9 DEF Issues, Kept, ShownInv, UnusedUnseen, KeptShown
    <3>2. CASE w \in DOMAIN writes
      <4>1. Kept(w)
        BY <3>2, <1>1, <1>3, <1>9 DEF Kept
      <4> QED
        BY <3>2, <4>1, <2>1, <1>1 DEF ShownInv, KeptAreShown
    <3> QED
      BY <1>1, <3>1, <3>2
  <2>3. Queued(w)' => CurrentView'[d] # "absent"
    BY <1>9, <2>1 DEF ViewInv, KeptVisible
  <2>4. Queued(w)' \/ \E k \in DOMAIN toApp' : IsResult(k)' /\ toApp'[k].write = w
    BY <1>1, <1>9 DEF RepliesInv, ResultsAwaited, Kept
  <2>5. KeptShown(w, d)'
    BY <2>2, <2>3, <2>4, <1>2, GrowthKeepsKeptShown
  <2> QED
    BY <2>1, <2>5
<1>10. ASSUME NEW d \in Doc, Unused(d)'
      PROVE  (seen[d] = "absent")' /\ \A i \in DOMAIN toApp' : Lacks(i, d)'
  <2>1. seen[d] = "absent" /\ \A i \in DOMAIN toApp : Lacks(i, d)
    BY <1>6, <1>10 DEF ShownInv, UnusedUnseen
  <2>2. CurrentView'[d] = "absent"
    BY <1>10 DEF ViewInv, UnusedHidden, Doc
  <2> QED
    BY <2>1, <2>2, <1>2, GrowthKeepsUnseen
<1> QED
  BY <1>7, <1>8, <1>9, <1>10 DEF ShownInv, DeletesShown, KeptAreShown, UnusedUnseen, Doc

LEMMA RestartKeepsShownInv ==
    ASSUME StoreTypeOK, Restart PROVE ShownInv'
<1>1. toApp' = <<>> /\ seen' = NoDocs /\ DOMAIN toApp' = {} /\ UNCHANGED writes
  BY DEF Restart
<1>2. \A d \in Doc : seen'[d] = "absent"
  BY <1>1 DEF NoDocs
<1>3. \A w \in DOMAIN writes : writes[w].doc \in Doc
  BY WritesAreTyped
<1> QED
  BY <1>1, <1>2, <1>3
     DEF ShownInv, NoneShown, DeletesShown, DeleteShown, KeptAreShown, KeptShown,
         UnusedUnseen, NoDocs, Doc

LEMMA ShownInvInit == StoreInit => WritesInv /\ ShownInv
<1> SUFFICES ASSUME StoreInit PROVE WritesInv /\ ShownInv
  OBVIOUS
<1>1. /\ writes = <<>> /\ mutationQueue = <<>> /\ toApp = <<>> /\ seen = NoDocs
      /\ DOMAIN writes = {} /\ DOMAIN mutationQueue = {} /\ DOMAIN toApp = {}
      /\ future = [w \in Write |-> "none"]
  BY DEF StoreInit
<1>2. WritesInv
  BY <1>1 DEF WritesInv, QueueIsSuffix, SetIsFirst, AnsweredNotQueued, DeletesHold
<1>3. \A d \in Doc : seen[d] = "absent"
  BY <1>1 DEF NoDocs
<1>4. ShownInv
  BY <1>1, <1>3 DEF ShownInv, NoneShown, DeletesShown, KeptAreShown, UnusedUnseen
<1> QED
  BY <1>2, <1>4

(* Delivery: what was message i + 1 is message i. *)
LEMMA DeliveryShifts ==
    ASSUME StoreTypeOK, Deliver
    PROVE  /\ 1 \in DOMAIN toApp
           /\ \A i \in DOMAIN toApp' : i \in Nat /\ i >= 1 /\ i + 1 \in DOMAIN toApp
           /\ \A i \in DOMAIN toApp' : toApp'[i] = toApp[i + 1]
           /\ \A k \in DOMAIN toApp : k \in Nat /\ (k = 1 \/ k > 1)
           /\ \A k \in DOMAIN toApp : k > 1 => k - 1 \in DOMAIN toApp' /\ toApp'[k - 1] = toApp[k]
           /\ \A d : seen'[d] = IF IsResult(1) THEN seen[d] ELSE toApp[1].view[d]
           /\ ~IsResult(1) => future' = future
           /\ IsResult(1) =>
                /\ toApp[1] = Result(toApp[1].write, toApp[1].ok)
                /\ future' = [future EXCEPT ![toApp[1].write] =
                                IF toApp[1].ok THEN "ok" ELSE "failed"]
<1>1. /\ toApp \in Seq(Message) /\ toApp # <<>> /\ toApp' = Tail(toApp)
      /\ DOMAIN toApp = 1 .. Len(toApp) /\ Len(toApp) \in Nat
  BY WritesAreTyped DEF Deliver
<1>2. Len(toApp) # 0
  BY <1>1
<1>3. /\ Head(toApp) = toApp[1]
      /\ Len(toApp') = Len(toApp) - 1 /\ DOMAIN toApp' = 1 .. Len(toApp')
      /\ \A i \in 1 .. Len(toApp') : toApp'[i] = toApp[i + 1]
  BY <1>1, <1>2
<1>4. \A k \in DOMAIN toApp : k \in Nat /\ (k = 1 \/ k > 1)
  BY <1>1
<1>5. \A i \in DOMAIN toApp' : i \in Nat /\ i >= 1 /\ i + 1 \in DOMAIN toApp
  BY <1>1, <1>2, <1>3
<1>6. ASSUME NEW k \in DOMAIN toApp, k > 1
      PROVE  k - 1 \in DOMAIN toApp' /\ toApp'[k - 1] = toApp[k]
  <2>1. k - 1 \in 1 .. Len(toApp') /\ (k - 1) + 1 = k
    BY <1>1, <1>3, <1>6
  <2> QED
    BY <2>1, <1>3
<1>7. 1 \in DOMAIN toApp /\ toApp[1] \in Message
  <2>1. 1 \in 1 .. Len(toApp)
    BY <1>1, <1>2
  <2> QED
    BY <2>1, <1>1, ResultsHaveWrites
<1>8. IsResult(1) => toApp[1] = Result(toApp[1].write, toApp[1].ok)
  BY <1>7 DEF IsResult, Result, Message
<1>9. \A d : seen'[d] = IF IsResult(1) THEN seen[d] ELSE toApp[1].view[d]
  BY <1>3 DEF Deliver, IsResult
<1>10. /\ ~IsResult(1) => future' = future
       /\ IsResult(1) => future' = [future EXCEPT ![toApp[1].write] =
                                      IF toApp[1].ok THEN "ok" ELSE "failed"]
  BY <1>3 DEF Deliver, IsResult
<1> QED
  BY <1>3, <1>4, <1>5, <1>6, <1>7, <1>8, <1>9, <1>10

LEMMA DeliveryKeepsLacks ==
    ASSUME StoreTypeOK, Deliver, NEW d
    PROVE  /\ \A i \in DOMAIN toApp' : IsResult(i)' <=> IsResult(i + 1)
           /\ \A i \in DOMAIN toApp' : Lacks(i, d)' <=> Lacks(i + 1, d)
           /\ \A k \in DOMAIN toApp : k > 1 => (IsResult(k - 1)' <=> IsResult(k))
BY DeliveryShifts DEF IsResult, Lacks

LEMMA DeliveryKeepsLackedBefore ==
    ASSUME StoreTypeOK, Deliver, NEW d, NEW k \in DOMAIN toApp', LackedBefore(k + 1, d)
    PROVE  LackedBefore(k, d)'
<1>0. k \in Nat /\ k >= 1
  BY DeliveryShifts
<1>1. CASE seen[d] = "absent" /\ \A j \in DOMAIN toApp : j < k + 1 => IsResult(j)
  <2>1. IsResult(1) /\ seen'[d] = "absent"
    BY <1>0, <1>1, DeliveryShifts
  <2>2. ASSUME NEW j \in DOMAIN toApp', j < k PROVE IsResult(j)'
    <3>1. j + 1 \in DOMAIN toApp /\ j + 1 < k + 1
      BY <1>0, <2>2, DeliveryShifts
    <3> QED
      BY <3>1, <1>1, DeliveryKeepsLacks
  <2> QED
    BY <2>1, <2>2 DEF LackedBefore
<1>2. ASSUME NEW i \in DOMAIN toApp, i < k + 1, ~IsResult(i), toApp[i].view[d] = "absent",
             \A j \in DOMAIN toApp : i < j /\ j < k + 1 => IsResult(j)
      PROVE  LackedBefore(k, d)'
  <2>1. ASSUME NEW j \in DOMAIN toApp', i < j + 1, j < k PROVE IsResult(j)'
    <3>1. j + 1 \in DOMAIN toApp /\ j + 1 < k + 1
      BY <1>0, <2>1, DeliveryShifts
    <3> QED
      BY <3>1, <2>1, <1>2, DeliveryKeepsLacks
  <2>2. CASE i = 1
    <3>1. seen'[d] = "absent"
      BY <2>2, <1>2, DeliveryShifts
    <3>2. \A j \in DOMAIN toApp' : j < k => IsResult(j)'
      BY <2>1, <2>2, DeliveryShifts
    <3> QED
      BY <3>1, <3>2 DEF LackedBefore
  <2>3. CASE i > 1
    <3>1. /\ i - 1 \in DOMAIN toApp' /\ ~IsResult(i - 1)' /\ toApp'[i - 1].view[d] = "absent"
          /\ i - 1 < k
      BY <1>0, <1>2, <2>3, DeliveryShifts, DeliveryKeepsLacks
    <3>2. \A j \in DOMAIN toApp' : i - 1 < j /\ j < k => IsResult(j)'
      BY <1>2, <2>1, DeliveryShifts
    <3> QED
      BY <3>1, <3>2 DEF LackedBefore
  <2> QED
    BY <2>2, <2>3, DeliveryShifts
<1> QED
  BY <1>1, <1>2 DEF LackedBefore

LEMMA DeliverKeepsDeleteShown ==
    ASSUME StoreTypeOK, RepliesInv, Deliver, NEW w \in Write, NEW d, DeleteShown(w, d)
    PROVE  DeleteShown(w, d)'
<1>1. ASSUME future'[w] = "ok"
      PROVE  seen'[d] = "absent" /\ \A i \in DOMAIN toApp' : Lacks(i, d)'
  <2>1. CASE future[w] = "ok"
    <3>1. seen[d] = "absent" /\ \A i \in DOMAIN toApp : Lacks(i, d)
      BY <2>1 DEF DeleteShown
    <3>2. seen'[d] = "absent"
      BY <3>1, DeliveryShifts DEF Lacks
    <3>3. \A i \in DOMAIN toApp' : Lacks(i, d)'
      BY <3>1, DeliveryShifts, DeliveryKeepsLacks
    <3> QED
      BY <3>2, <3>3
  <2>2. CASE future[w] # "ok"
    <3>1. IsResult(1) /\ toApp[1].write = w /\ toApp[1].ok = TRUE
      <4>1. IsResult(1)
        BY <2>2, <1>1, DeliveryShifts
      <4>2. toApp[1] \in Message
        BY DeliveryShifts, ResultsHaveWrites
      <4>3. toApp[1].ok \in BOOLEAN
        BY <4>1, <4>2 DEF IsResult, Message
      <4>4. future' = [future EXCEPT ![toApp[1].write] = IF toApp[1].ok THEN "ok" ELSE "failed"]
        BY <4>1, DeliveryShifts
      <4>5. toApp[1].write = w
        BY <4>4, <2>2, <1>1 DEF StoreTypeOK
      <4>6. toApp[1].ok
        BY <4>4, <4>5, <1>1 DEF StoreTypeOK
      <4> QED
        BY <4>1, <4>3, <4>5, <4>6
    <3>2. 1 \in DOMAIN toApp /\ toApp[1] = Result(w, TRUE)
      BY <3>1, DeliveryShifts DEF Result
    <3>3. LackedBefore(1, d) /\ \A j \in DOMAIN toApp : j > 1 => Lacks(j, d)
      BY <3>2 DEF DeleteShown
    <3>4. seen[d] = "absent"
      BY <3>3, DeliveryShifts DEF LackedBefore
    <3>5. seen'[d] = "absent"
      BY <3>1, <3>4, DeliveryShifts
    <3>6. \A i \in DOMAIN toApp' : Lacks(i, d)'
      BY <3>3, DeliveryShifts, DeliveryKeepsLacks
    <3> QED
      BY <3>5, <3>6
  <2> QED
    BY <2>1, <2>2
<1>2. ASSUME NEW k \in DOMAIN toApp', toApp'[k] = Result(w, TRUE)
      PROVE  LackedBefore(k, d)' /\ \A j \in DOMAIN toApp' : j > k => Lacks(j, d)'
  <2>1. k \in Nat /\ k + 1 \in DOMAIN toApp /\ toApp[k + 1] = Result(w, TRUE)
    BY <1>2, DeliveryShifts
  <2>2. LackedBefore(k + 1, d) /\ \A j \in DOMAIN toApp : j > k + 1 => Lacks(j, d)
    BY <2>1 DEF DeleteShown
  <2>3. ASSUME NEW j \in DOMAIN toApp', j > k PROVE Lacks(j, d)'
    <3>1. j + 1 \in DOMAIN toApp /\ j + 1 > k + 1
      BY <2>1, <2>3, DeliveryShifts
    <3> QED
      BY <3>1, <2>2, DeliveryKeepsLacks
  <2> QED
    BY <2>2, <2>3, DeliveryKeepsLackedBefore
<1> QED
  BY <1>1, <1>2 DEF DeleteShown

LEMMA DeliverKeepsKeptShown ==
    ASSUME StoreTypeOK, Deliver, NEW w, NEW d, KeptShown(w, d),
           ~(IsResult(1) /\ toApp[1].write = w)
    PROVE  KeptShown(w, d)'
<1> SUFFICES ASSUME NEW j \in DOMAIN toApp', Unanswered(w, j)', ~IsResult(j)'
             PROVE  /\ seen'[d] # "absent" => toApp'[j].view[d] # "absent"
                    /\ \A i \in DOMAIN toApp' :
                         i < j /\ ~Lacks(i, d)' => toApp'[j].view[d] # "absent"
  BY DEF KeptShown
<1>1. j \in Nat /\ j >= 1 /\ j + 1 \in DOMAIN toApp /\ ~IsResult(j + 1)
  BY DeliveryShifts, DeliveryKeepsLacks
<1>2. ASSUME NEW k \in DOMAIN toApp, k < j + 1, IsResult(k), toApp[k].write = w
      PROVE  FALSE
  <2>1. k > 1
    BY <1>2, DeliveryShifts
  <2>2. k - 1 \in DOMAIN toApp' /\ k - 1 < j /\ IsResult(k - 1)' /\ toApp'[k - 1].write = w
    BY <1>1, <1>2, <2>1, DeliveryShifts, DeliveryKeepsLacks
  <2> QED
    BY <2>2 DEF Unanswered, IsResult
<1>3. Unanswered(w, j + 1)
  BY <1>2 DEF Unanswered
<1>4. /\ seen[d] # "absent" => toApp[j + 1].view[d] # "absent"
      /\ \A i \in DOMAIN toApp :
           i < j + 1 /\ ~Lacks(i, d) => toApp[j + 1].view[d] # "absent"
  BY <1>1, <1>3 DEF KeptShown
<1>5. toApp'[j] = toApp[j + 1]
  BY DeliveryShifts
<1>6. seen'[d] # "absent" => toApp'[j].view[d] # "absent"
  BY <1>1, <1>4, <1>5, DeliveryShifts DEF Lacks
<1>7. ASSUME NEW i \in DOMAIN toApp', i < j, ~Lacks(i, d)'
      PROVE  toApp'[j].view[d] # "absent"
  <2>1. i + 1 \in DOMAIN toApp /\ i + 1 < j + 1 /\ ~Lacks(i + 1, d)
    BY <1>1, <1>7, DeliveryShifts, DeliveryKeepsLacks
  <2> QED
    BY <2>1, <1>4, <1>5
<1> QED
  BY <1>6, <1>7

LEMMA DeliverKeepsShownInv ==
    ASSUME StoreTypeOK, RepliesInv, ShownInv, Deliver PROVE ShownInv'
<1>1. UNCHANGED <<remoteDocs, writes, mutationQueue, listener>>
      /\ \A w \in DOMAIN writes : w \in Write /\ writes[w].doc \in Doc
  BY WritesAreTyped DEF Deliver
<1>2. NoneShown'
  <2>1. ASSUME listener' \in {"none", "waiting"}
        PROVE  seen' = NoDocs /\ \A i \in DOMAIN toApp' : IsResult(i)'
    <3>1. seen = NoDocs /\ \A i \in DOMAIN toApp : IsResult(i)
      BY <1>1, <2>1 DEF ShownInv, NoneShown
    <3>2. seen' = seen
      <4>1. IsResult(1) /\ toApp # <<>> /\ toApp[1] = Head(toApp)
        BY <3>1, DeliveryShifts, WritesAreTyped DEF Deliver
      <4> QED
        BY <4>1 DEF Deliver, IsResult
    <3>3. \A i \in DOMAIN toApp' : IsResult(i)'
      BY <3>1, DeliveryShifts DEF IsResult
    <3> QED
      BY <3>1, <3>2, <3>3
  <2> QED
    BY <2>1 DEF NoneShown, NoDocs, Doc
<1>3. ASSUME listener' # "failed", NEW w \in DOMAIN writes, writes[w].op = "delete"
      PROVE  DeleteShown(w, writes[w].doc)'
  <2>1. PICK d \in Doc : d = writes[w].doc
    BY <1>1
  <2>2. DeleteShown(w, d) /\ d = writes'[w].doc
    BY <1>1, <1>3, <2>1 DEF ShownInv, DeletesShown
  <2>3. DeleteShown(w, d)'
    BY <1>1, <2>2, DeliverKeepsDeleteShown
  <2> QED
    BY <2>2, <2>3
<1>4. ASSUME NEW w \in DOMAIN writes, Kept(w)'
      PROVE  KeptShown(w, writes[w].doc)'
  <2>1. PICK d \in Doc : d = writes[w].doc
    BY <1>1
  <2>2. ~(IsResult(1) /\ toApp[1].write = w) /\ future[w] = "pending"
    <3>1. w \in Write /\ future'[w] = "pending"
      BY <1>1, <1>4 DEF Kept
    <3>2. CASE ~IsResult(1)
      BY <3>1, <3>2, DeliveryShifts
    <3>3. CASE IsResult(1)
      BY <3>1, <3>3, DeliveryShifts DEF StoreTypeOK
    <3> QED
      BY <3>2, <3>3
  <2>3. KeptShown(w, d) /\ d = writes'[w].doc
    BY <1>1, <1>4, <2>1, <2>2 DEF ShownInv, KeptAreShown, Kept
  <2>4. KeptShown(w, d)'
    BY <2>2, <2>3, DeliverKeepsKeptShown
  <2> QED
    BY <2>3, <2>4
<1>5. ASSUME NEW d \in Doc, Unused(d)'
      PROVE  (seen[d] = "absent")' /\ \A i \in DOMAIN toApp' : Lacks(i, d)'
  <2>1. Unused(d)
    BY <1>1, <1>5 DEF Unused
  <2>2. seen[d] = "absent" /\ \A i \in DOMAIN toApp : Lacks(i, d)
    BY <2>1 DEF ShownInv, UnusedUnseen
  <2>3. seen'[d] = "absent"
    BY <2>2, DeliveryShifts DEF Lacks
  <2>4. \A i \in DOMAIN toApp' : Lacks(i, d)'
    BY <2>2, DeliveryShifts, DeliveryKeepsLacks
  <2> QED
    BY <2>3, <2>4
<1> QED
  BY <1>1, <1>2, <1>3, <1>4, <1>5 DEF ShownInv, DeletesShown, KeptAreShown, UnusedUnseen, Doc

(* RepliesInv gives the order of the answers, StreamFresh what a listener  *)
(* has shown of the view; DeletedWhenTold needs both.                      *)
LEMMA ShownInvStep ==
    ASSUME StoreInv, RepliesInv, WritesInv, ShownInv, StoreInv', RepliesInv', WritesInv',
           [StoreNext]_storeVars
    PROVE  ShownInv'
<1>1. StoreTypeOK /\ StreamFresh /\ ViewInv
  BY ViewsFollowWrites DEF StoreInv
<1>2. ViewInv'
  BY ViewsFollowWritesNext DEF StoreInv
<1>3. CASE Quiet
  BY <1>1, <1>2, <1>3, QuietKeepsShownInv
<1>4. CASE \E op \in {"set", "patch", "delete"}, d \in Doc, c \in Content : Issues(op, d, c)
  BY <1>1, <1>2, <1>4, IssueKeepsShownInv
<1>5. CASE \E w \in Write, ok \in BOOLEAN : Answered(w, ok)
  BY <1>1, <1>2, <1>5, AnswerKeepsShownInv
<1>6. CASE Deliver
  BY <1>1, <1>6, DeliverKeepsShownInv
<1>7. CASE Restart
  BY <1>1, <1>7, RestartKeepsShownInv
<1> QED
  BY <1>1, <1>3, <1>4, <1>5, <1>6, <1>7, StepShape

THEOREM ShownInvariant == StoreSpec => [](WritesInv /\ ShownInv)
<1>1. StoreInv /\ RepliesInv /\ WritesInv /\ StoreInv' /\ [StoreNext]_storeVars
        => WritesInv'
  BY WritesInvStep DEF StoreInv
<1>2. StoreInv /\ RepliesInv /\ WritesInv /\ ShownInv /\ StoreInv' /\ RepliesInv'
        /\ WritesInv' /\ [StoreNext]_storeVars => ShownInv'
  BY ShownInvStep
<1> QED
  BY <1>1, <1>2, ShownInvInit, StoreInvariant, RepliesInvariant, PTL DEF StoreSpec

(* When deleteTask reports success, the list Dart was handed last lacks    *)
(* the document, and never has it again while the listener lives: for any  *)
(* number of documents, writes and other devices.                          *)
THEOREM DeletedBeforeTold == StoreSpec => []DeletedWhenTold
<1>1. ShownInv => DeletedWhenTold
  BY DEF ShownInv, DeletesShown, DeleteShown, DeletedWhenTold
<1> QED
  BY <1>1, ShownInvariant, PTL

(* A task the user added stays in the list until addTask has answered, or  *)
(* the user deletes it, whatever the server refuses meanwhile.             *)
THEOREM HeardBeforeRevertedHolds == StoreSpec => HeardBeforeReverted
<1> DEFINE Stays(w) ==
             (/\ writes[w].op = "set"
              /\ future[w] = "pending" /\ future'[w] = "pending"
              /\ seen[writes[w].doc] # "absent"
              /\ \A v \in DOMAIN writes :
                   writes[v].doc = writes[w].doc => writes[v].op # "delete")
             => seen'[writes[w].doc] # "absent"
<1>1. ASSUME StoreInv, ShownInv, [StoreNext]_storeVars, NEW w \in DOMAIN writes
      PROVE  Stays(w)
  <2> SUFFICES ASSUME writes[w].op = "set", future[w] = "pending", future'[w] = "pending",
                      seen[writes[w].doc] # "absent",
                      \A v \in DOMAIN writes :
                        writes[v].doc = writes[w].doc => writes[v].op # "delete"
               PROVE  seen'[writes[w].doc] # "absent"
    OBVIOUS
  <2>1. StoreTypeOK /\ Kept(w) /\ w \in Write
    BY <1>1, WritesAreTyped DEF StoreInv, Kept
  <2>2. KeptShown(w, writes[w].doc)
    BY <1>1, <2>1 DEF ShownInv, KeptAreShown
  <2>3. CASE seen' = seen
    BY <2>3
  <2>4. CASE Deliver
    <3>1. CASE IsResult(1)
      BY <3>1, <2>1, <2>4, DeliveryShifts
    <3>2. CASE ~IsResult(1)
      <4>1. 1 \in DOMAIN toApp /\ Unanswered(w, 1)
        BY <2>1, <2>4, DeliveryShifts DEF Unanswered
      <4>2. toApp[1].view[writes[w].doc] # "absent"
        BY <4>1, <3>2, <2>2 DEF KeptShown
      <4> QED
        BY <4>2, <3>2, <2>1, <2>4, DeliveryShifts
    <3> QED
      BY <3>1, <3>2
  <2>5. CASE Restart
    BY <2>5, <2>1 DEF Restart
  <2>6. Quiet \/ (\E op \in {"set", "patch", "delete"}, d \in Doc, c \in Content : Issues(op, d, c))
          \/ (\E u \in Write, ok \in BOOLEAN : Answered(u, ok)) \/ Deliver \/ Restart
    BY <1>1, <2>1, StepShape
  <2> QED
    BY <2>3, <2>4, <2>5, <2>6 DEF Quiet, Issues, Answered
<1>2. StoreInv /\ ShownInv /\ [StoreNext]_storeVars
        => [\A w \in DOMAIN writes : Stays(w)]_storeVars
  BY <1>1
<1> QED
  BY <1>2, StoreInvariant, ShownInvariant, PTL DEF StoreSpec, HeardBeforeReverted

-----------------------------------------------------------------------------
(* What Dart has when no snapshot is on its way.                           *)

OnlyResults == \A i \in DOMAIN toApp : IsResult(i)

LEMMA ShownIsCurrent ==
    ASSUME StreamFresh, listener = "raised", OnlyResults
    PROVE  seen = CurrentView
<1>1. \A i \in DOMAIN toApp : toApp[i] # Snapshot(CurrentView)
  BY DEF OnlyResults, IsResult, Snapshot
<1> QED
  BY <1>1 DEF StreamFresh, Newest

LEMMA EmitQuietly ==
    ASSUME StoreTypeOK, NEW messages \in Seq(ResultMessage), NEW v \in View,
           NEW rewritten, NEW synced, Emit(messages, v, rewritten, synced),
           listener' = "raised", OnlyResults'
    PROVE  /\ listener = "raised" /\ OnlyResults
           /\ ~ShouldRaise(v, rewritten, synced)
<1>1. /\ toApp \in Seq(Message) /\ messages \in Seq(Message)
  <2>1. ResultMessage \subseteq Message
    BY DEF ResultMessage, Message
  <2> QED
    BY <2>1, SeqMonotonic DEF StoreTypeOK
<1>2. ASSUME ShouldRaise(v, rewritten, synced) PROVE FALSE
  <2> DEFINE told == toApp \o messages
             m == Snapshot(v)
  <2>1. told \in Seq(Message)
    BY <1>1, ConcatProperties
  <2>2. m \in Message /\ m.type = "snapshot"
    BY DEF Snapshot, Message
  <2>3. toApp' = told \o <<m>>
    BY <1>2 DEF Emit
  <2> HIDE DEF told, m
  <2>4. toApp' = Append(told, m)
    BY <2>1, <2>2, <2>3, AppendIsConcat
  <2>5. Len(told) + 1 \in DOMAIN toApp' /\ toApp'[Len(told) + 1] = m
    BY <2>1, <2>2, <2>4
  <2> QED
    BY <2>2, <2>5 DEF OnlyResults, IsResult
<1>3. listener = "raised"
  BY <1>2 DEF Emit
<1>4. OnlyResults
  <2>1. \A i \in DOMAIN toApp : i \in DOMAIN toApp' /\ toApp'[i] = toApp[i]
    <3>1. /\ DOMAIN toApp = 1 .. Len(toApp) /\ Len(toApp) \in Nat /\ Len(messages) \in Nat
          /\ DOMAIN toApp' = 1 .. Len(toApp') /\ Len(toApp') \in Nat
          /\ Len(toApp') >= Len(toApp) + Len(messages)
          /\ \A i \in 1 .. Len(toApp) : toApp'[i] = toApp[i]
      BY <1>1, LenProperties, EmitAppends
    <3> QED
      BY <3>1
  <2> QED
    BY <2>1 DEF OnlyResults, IsResult
<1> QED
  BY <1>2, <1>3, <1>4

(* The steps of a running app that hand no snapshot to Dart. *)
HandsNoSnapshot ==
    \/ Listen
    \/ \E op, d, c, rewritten : WriteMutations(op, d, c, rewritten)
    \/ ServerAnswers
    \/ WatchEvents
    \/ GoOffline
    \/ RejectListen
    \/ Deliver /\ Head(toApp).type = "result"
    \/ UNCHANGED storeVars

(* If no snapshot is on its way after such a step, none was before it. *)
LEMMA QuietBefore ==
    ASSUME StoreTypeOK, HandsNoSnapshot, listener' = "raised", OnlyResults'
    PROVE  listener = "raised" /\ OnlyResults /\ seen' = seen
<1>1. CASE Listen
  <2>1. toApp' = Append(toApp, Snapshot(CurrentView)) /\ toApp \in Seq(Message)
    BY <1>1 DEF Listen, StoreTypeOK
  <2>2. Snapshot(CurrentView) \in Message /\ Snapshot(CurrentView).type = "snapshot"
    BY ViewsAreViews DEF Snapshot, Message, CurrentView
  <2>3. Len(toApp) + 1 \in DOMAIN toApp' /\ toApp'[Len(toApp) + 1] = Snapshot(CurrentView)
    BY <2>1
  <2> QED
    BY <2>2, <2>3 DEF OnlyResults, IsResult
<1>2. ASSUME NEW messages \in Seq(ResultMessage), NEW v \in View, NEW rewritten, NEW synced,
             Emit(messages, v, rewritten, synced), UNCHANGED seen
      PROVE  listener = "raised" /\ OnlyResults /\ seen' = seen
  BY <1>2, EmitQuietly
<1>3. <<>> \in Seq(ResultMessage)
  BY NoMessages
<1>4. CASE \E op, d, c, rewritten : WriteMutations(op, d, c, rewritten)
  <2>1. PICK op, d, c, rewritten : WriteMutations(op, d, c, rewritten)
    BY <1>4
  <2>2. /\ Emit(<<>>, ViewOf(remoteDocs, writes', mutationQueue'), rewritten, FALSE)
        /\ UNCHANGED seen
    BY <2>1 DEF WriteMutations
  <2> QED
    BY <1>2, <1>3, <2>2, ViewsAreViews
<1>5. CASE ServerAnswers
  <2>1. PICK ok \in BOOLEAN, v \in View :
          /\ Emit(Answer(Head(mutationQueue), ok), v, FALSE, FALSE)
          /\ mutationQueue # <<>> /\ UNCHANGED seen
    BY <1>5, ViewsAreViews DEF ServerAnswers, HandleSuccessfulWrite, HandleRejectedWrite
  <2>2. Head(mutationQueue) \in Write
    BY <2>1 DEF StoreTypeOK
  <2> QED
    BY <1>2, <2>1, <2>2, AnswersAreResults
<1>6. CASE WatchEvents
  BY <1>2, <1>3, <1>6, ViewsAreViews DEF WatchEvents, ApplyRemoteEvent
<1>7. CASE GoOffline
  BY <1>2, <1>3, <1>7, ViewsAreViews DEF GoOffline, CurrentView
<1>8. CASE Deliver /\ Head(toApp).type = "result"
  <2>1. /\ toApp \in Seq(Message) /\ toApp # <<>> /\ toApp' = Tail(toApp)
        /\ listener' = listener /\ seen' = seen
    BY <1>8 DEF Deliver, StoreTypeOK
  <2>2. ASSUME NEW i \in DOMAIN toApp PROVE IsResult(i)
    <3>1. CASE i = 1
      BY <1>8, <2>1, <3>1, HeadTailProperties DEF IsResult
    <3>2. CASE i # 1
      <4>1. i - 1 \in DOMAIN toApp' /\ toApp'[i - 1] = toApp[i]
        BY <2>1, <3>2, HeadTailProperties
      <4> QED
        BY <4>1 DEF OnlyResults, IsResult
    <3> QED
      BY <3>1, <3>2
  <2> QED
    BY <2>1, <2>2 DEF OnlyResults
<1>9. ~RejectListen
  BY DEF RejectListen
<1>10. CASE UNCHANGED storeVars
  BY <1>10 DEF storeVars, OnlyResults, IsResult
<1> QED
  BY <1>1, <1>4, <1>5, <1>6, <1>7, <1>8, <1>9, <1>10 DEF HandsNoSnapshot

(* The view right after a patch shows the patch, where it has the document. *)
LEMMA PatchIsShown ==
    ASSUME StoreTypeOK, RepliesInv, NEW d \in Doc, NEW c \in Content, NEW rewritten,
           WriteMutations("patch", d, c, rewritten)
    PROVE  CurrentView'[d] \in {"absent", c}
<1> DEFINE m == [op |-> "patch", doc |-> d, content |-> c]
           w == Len(writes) + 1
           n == Len(mutationQueue) + 1
<1>1. /\ writes \in Seq(Mutation) /\ m \in Mutation /\ writes' = Append(writes, m)
      /\ mutationQueue \in Seq(Write) /\ w \in Write /\ mutationQueue' = Append(mutationQueue, w)
      /\ remoteDocs' = remoteDocs /\ remoteDocs \in [Doc -> DocState]
      /\ Len(writes) \in Nat /\ DOMAIN writes = 1 .. Len(writes)
      /\ Len(mutationQueue) \in Nat /\ DOMAIN mutationQueue = 1 .. Len(mutationQueue)
  BY FirestoreAssumption, LenProperties DEF StoreTypeOK, WriteMutations, Mutation, Write
<1> HIDE DEF m
<1>2. /\ writes' \in Seq(Mutation) /\ DOMAIN writes' = 1 .. w /\ writes'[w] = m
      /\ mutationQueue' \in Seq(Write) /\ Len(mutationQueue') = n
      /\ DOMAIN mutationQueue' = 1 .. n /\ mutationQueue'[n] = w
      /\ \A k \in DOMAIN mutationQueue : mutationQueue'[k] = mutationQueue[k]
  BY <1>1
<1>3. QueueOf(writes', mutationQueue')
  <2>1. ASSUME NEW k \in DOMAIN mutationQueue'
        PROVE  mutationQueue'[k] \in DOMAIN writes'
    <3>1. CASE k = n
      BY <1>1, <1>2, <3>1
    <3>2. CASE k # n
      <4>1. k \in DOMAIN mutationQueue
        BY <1>1, <1>2, <3>2
      <4>2. mutationQueue[k] \in Write /\ mutationQueue[k] <= Len(writes)
        BY <4>1, WritesAreTyped DEF RepliesInv, QueueOrdered
      <4> QED
        BY <1>1, <1>2, <4>1, <4>2 DEF Write
    <3> QED
      BY <3>1, <3>2
  <2> QED
    BY <1>2, <2>1 DEF QueueOf
<1> DEFINE state == LocalStates(remoteDocs, writes', mutationQueue', d)
<1>4. \A i \in 1 .. n : state[i] = IF writes'[mutationQueue'[i]].doc = d
                                   THEN ApplyToLocalView(state[i - 1], writes'[mutationQueue'[i]])
                                   ELSE state[i - 1]
  <2>1. /\ Len(mutationQueue') = n /\ remoteDocs \in [Doc -> DocState]
        /\ writes' \in Seq(Mutation) /\ QueueOf(writes', mutationQueue')
    BY <1>1, <1>2, <1>3
  <2> HIDE DEF n, w
  <2> QED
    BY <2>1, LocalStatesRecursion
<1> HIDE DEF state
<1>5. state[n] = ApplyToLocalView(state[n - 1], m)
  <2>1. n \in 1 .. n /\ m.doc = d
    BY <1>1 DEF m
  <2> QED
    BY <1>2, <1>4, <2>1
<1>6. state[n] \in Content => state[n] = c
  BY <1>5 DEF ApplyToLocalView, m
<1>7. CurrentView'[d] = IF state[n] \in Content THEN state[n] ELSE "absent"
  BY <1>1, <1>2 DEF CurrentView, ViewOf, LocalState, state
<1> QED
  BY <1>6, <1>7

(* A patch that raises nothing is one the last snapshot already shows. *)
LEMMA UnraisedPatchIsSeen ==
    ASSUME StoreTypeOK, StreamFresh, RepliesInv, NEW d \in Doc, NEW c \in Content,
           NEW rewritten, WriteMutations("patch", d, c, rewritten),
           listener' = "raised", OnlyResults'
    PROVE  /\ listener = "raised" /\ OnlyResults /\ seen' = seen
           /\ seen[d] \in {"absent", c}
<1>1. CurrentView' = ViewOf(remoteDocs, writes', mutationQueue')
  BY DEF WriteMutations, CurrentView
<1>2. Emit(<<>>, CurrentView', rewritten, FALSE) /\ seen' = seen
  BY <1>1 DEF WriteMutations
<1>3. CurrentView' \in View
  BY <1>1, ViewsAreViews
<1>4. /\ listener = "raised" /\ OnlyResults
      /\ ~ShouldRaise(CurrentView', rewritten, FALSE)
  BY <1>2, <1>3, NoMessages, EmitQuietly
<1>5. CurrentView' = CurrentView
  BY <1>4 DEF ShouldRaise
<1>6. seen = CurrentView
  BY <1>4, ShownIsCurrent
<1> QED
  BY <1>2, <1>4, <1>5, <1>6, PatchIsShown
=============================================================================

--------------------------- MODULE TasksAppProofs ----------------------------
(***************************************************************************)
(* The task screens, for every number of tasks and of calls.               *)
(***************************************************************************)
EXTENDS TasksApp, ListTheorems, TLAPS

DP == INSTANCE DialogServiceProofs WITH MaxRequests <- 2 * MaxFlows
SP == INSTANCE FirestoreProofs WITH MaxWrites <- MaxFlows

-----------------------------------------------------------------------------
(* The instances that hold the proofs say the same as those of TasksApp.   *)

LEMMA DialogBounds == 2 * MaxFlows \in Nat
BY AppAssumption

LEMMA StoreBounds ==
    /\ Shared \subseteq 1 .. NumDocs
    /\ NumDocs \in Nat
    /\ MaxFlows \in Nat
    /\ MaxChannel \in Nat
BY AppAssumption

LEMMA SameDialogs ==
    /\ Dialogs!DialogTypeOK <=> DP!DialogTypeOK
    /\ Dialogs!DialogInit <=> DP!DialogInit
    /\ \A k : Dialogs!Show(k) <=> DP!Show(k)
    /\ \A r, answer : Dialogs!DialogComplete(r, answer) <=> DP!DialogComplete(r, answer)
    /\ \A r : Dialogs!Dismiss(r) <=> DP!Dismiss(r)
BY DEF Dialogs!DialogTypeOK, DP!DialogTypeOK, Dialogs!DialogInit, DP!DialogInit,
       Dialogs!Show, DP!Show, Dialogs!DialogComplete, DP!DialogComplete,
       Dialogs!Dismiss, DP!Dismiss, Dialogs!Pressable, DP!Pressable,
       Dialogs!Answers, DP!Answers, Dialogs!PopTop, DP!PopTop, Dialogs!OnTop, DP!OnTop,
       Dialogs!Request, DP!Request, Dialogs!Kind, DP!Kind, Dialogs!NoRequest, DP!NoRequest

LEMMA SameStoreTypes ==
    /\ Store!StoreTypeOK <=> SP!StoreTypeOK
    /\ Store!StoreInit <=> SP!StoreInit
    /\ Store!NoDocs = SP!NoDocs
    /\ \A d : Store!Unused(d) <=> SP!Unused(d)
BY DEF Store!StoreTypeOK, SP!StoreTypeOK, Store!StoreInit, SP!StoreInit,
       Store!NoDocs, SP!NoDocs, Store!Unused, SP!Unused, Store!Doc, SP!Doc,
       Store!DocState, SP!DocState, Store!Content, SP!Content, Store!Mutation, SP!Mutation,
       Store!Write, SP!Write, Store!Future, SP!Future, Store!Message, SP!Message,
       Store!View, SP!View

LEMMA SameViews ==
    /\ Store!CurrentView = SP!CurrentView
    /\ Store!CurrentView' = SP!CurrentView'
    /\ \A docs, ws, queue : Store!ViewOf(docs, ws, queue) = SP!ViewOf(docs, ws, queue)
BY DEF Store!CurrentView, SP!CurrentView, Store!ViewOf, SP!ViewOf,
       Store!LocalState, SP!LocalState, Store!LocalStates, SP!LocalStates,
       Store!ApplyToLocalView, SP!ApplyToLocalView, Store!Content, SP!Content,
       Store!Doc, SP!Doc

LEMMA SameEmit ==
    \A ms, v, rewritten, synced :
        Store!Emit(ms, v, rewritten, synced) <=> SP!Emit(ms, v, rewritten, synced)
BY SameViews, SameStoreTypes
   DEF Store!Emit, SP!Emit, Store!ShouldRaise, SP!ShouldRaise, Store!Snapshot, SP!Snapshot

LEMMA SameListen == Store!Listen <=> SP!Listen
BY SameViews, SameStoreTypes DEF Store!Listen, SP!Listen, Store!Snapshot, SP!Snapshot

LEMMA SameWrite ==
    \A op, d, c, rewritten :
        Store!WriteMutations(op, d, c, rewritten) <=> SP!WriteMutations(op, d, c, rewritten)
BY SameViews, SameEmit DEF Store!WriteMutations, SP!WriteMutations

LEMMA SameAnswers == Store!ServerAnswers <=> SP!ServerAnswers
<1>1. \A w, ok : Store!Answer(w, ok) = SP!Answer(w, ok)
  BY DEF Store!Answer, SP!Answer, Store!Result, SP!Result
<1>2. \A w : Store!AckedStates(w) = SP!AckedStates(w)
  BY DEF Store!AckedStates, SP!AckedStates, Store!Content, SP!Content
<1>3. \A state : Store!HandleSuccessfulWrite(state) <=> SP!HandleSuccessfulWrite(state)
  BY <1>1, <1>2, SameViews, SameEmit
     DEF Store!HandleSuccessfulWrite, SP!HandleSuccessfulWrite
<1>4. Store!HandleRejectedWrite <=> SP!HandleRejectedWrite
  BY <1>1, SameViews, SameEmit DEF Store!HandleRejectedWrite, SP!HandleRejectedWrite
<1> QED
  BY <1>3, <1>4
     DEF Store!ServerAnswers, SP!ServerAnswers, Store!DocState, SP!DocState,
         Store!Content, SP!Content

LEMMA SameEvents ==
    /\ Store!WatchEvents <=> SP!WatchEvents
    /\ Store!GoOffline <=> SP!GoOffline
    /\ Store!RejectListen <=> SP!RejectListen
<1>1. \A d : Store!WatchStates(d) = SP!WatchStates(d)
  BY DEF Store!WatchStates, SP!WatchStates, Store!Content, SP!Content,
         Store!Queued, SP!Queued
<1>2. \A docs, rewritten, synced :
        Store!ApplyRemoteEvent(docs, rewritten, synced)
          <=> SP!ApplyRemoteEvent(docs, rewritten, synced)
  BY <1>1, SameViews, SameEmit, SameStoreTypes
     DEF Store!ApplyRemoteEvent, SP!ApplyRemoteEvent, Store!Queued, SP!Queued,
         Store!Doc, SP!Doc
<1>3. Store!WatchEvents <=> SP!WatchEvents
  BY <1>2
     DEF Store!WatchEvents, SP!WatchEvents, Store!DocState, SP!DocState,
         Store!Content, SP!Content, Store!Doc, SP!Doc
<1>4. Store!GoOffline <=> SP!GoOffline
  BY SameViews, SameEmit DEF Store!GoOffline, SP!GoOffline
<1>5. Store!RejectListen <=> SP!RejectListen
  BY DEF Store!RejectListen, SP!RejectListen
<1> QED
  BY <1>3, <1>4, <1>5

LEMMA SameDeliver == Store!Deliver <=> SP!Deliver
BY DEF Store!Deliver, SP!Deliver

-----------------------------------------------------------------------------
(* The lists on the screen are made from the snapshots, or from one        *)
(* another; nothing else gets into them.                                   *)

LEMMA ListingOfView ==
    ASSUME NEW v
    PROVE  /\ Listing(v) \in Seq({d \in Doc : v[d] # "absent"})
           /\ Len(Listing(v)) <= NumDocs
<1> DEFINE all == [d \in Doc |-> d]
           S == {d \in Doc : v[d] # "absent"}
<1>1. all \in Seq(Doc) /\ Len(all) = NumDocs
  BY AppAssumption, IsASeq DEF Doc
<1>2. Doc \intersect S = S
  OBVIOUS
<1> HIDE DEF all, S
<1>3. Selected(all, S) \in Seq(S) /\ Len(Selected(all, S)) <= NumDocs
  BY <1>1, <1>2, SelectedProperties
<1> QED
  BY <1>3 DEF Listing, all, S

LEMMA RowsOfList ==
    ASSUME NEW V, NEW list \in Seq(V), NEW t \in Tab, NEW done
    PROVE  /\ PageRows(t, list, done) \in Seq(V)
           /\ Len(PageRows(t, list, done)) <= Len(list)
<1>1. CASE t = "home"
  BY <1>1, EmptySeq, LenProperties DEF PageRows
<1>2. CASE t = "all"
  BY <1>2, LenProperties DEF PageRows
<1>3. CASE t = "completed"
  <2> DEFINE S == {d \in Doc : done[d]}
  <2>1. V \intersect S \subseteq V
    OBVIOUS
  <2> HIDE DEF S
  <2>2. Selected(list, S) \in Seq(V) /\ Len(Selected(list, S)) <= Len(list)
    BY <2>1, SelectedProperties, SeqMonotonic
  <2> QED
    BY <1>3, <2>2 DEF PageRows, S
<1> QED
  BY <1>1, <1>2, <1>3 DEF Tab

LEMMA RemovalFromList ==
    ASSUME NEW V, NEW list \in Seq(V), NEW i \in DOMAIN list
    PROVE  RemoveAt(list, i) \in Seq(V) /\ Len(RemoveAt(list, i)) < Len(list)
<1>1. i \in 1 .. Len(list) /\ Len(list) \in Nat
  BY LenProperties
<1> DEFINE a == SubSeq(list, 1, i - 1)
           b == SubSeq(list, i + 1, Len(list))
<1>2. a \in Seq(V) /\ Len(a) = i - 1
  BY <1>1, SubSeqProperties
<1>3. b \in Seq(V) /\ Len(b) = Len(list) - i
  BY <1>1, SubSeqProperties
<1> HIDE DEF a, b
<1>4. a \o b \in Seq(V) /\ Len(a \o b) = Len(a) + Len(b)
  BY <1>2, <1>3, ConcatProperties
<1> QED
  BY <1>1, <1>2, <1>3, <1>4 DEF RemoveAt, a, b

-----------------------------------------------------------------------------
(* The invariant.                                                          *)

DialogSound == DP!DialogInv

StoreSound == SP!StoreInv /\ SP!RepliesInv /\ SP!WritesInv /\ SP!ShownInv

ScreensTypeOK ==
    /\ tasks \in Seq(Doc) /\ Len(tasks) <= NumDocs
    /\ completed \in [Doc -> BOOLEAN]
    /\ taskBusy \in BOOLEAN
    /\ createBusy \in BOOLEAN
    /\ tab \in Tab
    /\ rows \in Seq(Doc) /\ Len(rows) <= NumDocs
    /\ form \in Form
    /\ flushes \in 0 .. MaxFlushes
    /\ flows \in Seq(Flow) /\ Len(flows) <= MaxFlows

(* Every document a list or the form names is one the store has or had:    *)
(* only such a document is ever patched or deleted.                        *)
Known(d) == d \in Doc /\ ~SP!Unused(d)

DocsAreKnown ==
    /\ \A i \in DOMAIN tasks : Known(tasks[i])
    /\ \A i \in DOMAIN rows : Known(rows[i])
    /\ form.mode = "edit" => Known(form.doc)

FormSound ==
    /\ form.shared => form.mode = "edit"
    /\ form.timers <= Len(flows)

(* A flow names calls that were made; one that waits for the user's Yes is *)
(* a delete, has a confirmation of its own and has not written yet.        *)
FlowsSound ==
    \A f \in DOMAIN flows :
        /\ flows[f].write <= Len(writes)
        /\ flows[f].request <= issued
        /\ flows[f].stage = "confirming" =>
             /\ flows[f].kind = "delete" /\ flows[f].write = 0
             /\ kind[flows[f].request] = "confirm"

(* There is no list before there is a listener. *)
NoListYet == listener = "none" => tasks = <<>>

AppInv ==
    /\ DialogSound
    /\ StoreSound
    /\ ScreensTypeOK
    /\ DocsAreKnown
    /\ FormSound
    /\ FlowsSound
    /\ EveryAwaitHasItsCall
    /\ NoListYet

-----------------------------------------------------------------------------
(* The screens keep to what the store and the dialogs expect of a caller.  *)

LEMMA WritesOfCallers ==
    ASSUME NEW op \in {"set", "patch", "delete"}, NEW d \in Doc, NEW done,
           NEW rewritten \in BOOLEAN, op = "set" <=> SP!Unused(d),
           op # "patch" => rewritten = FALSE, op = "delete" => done = FALSE,
           Store!WriteMutations(op, d, ContentOf(done), rewritten)
    PROVE  SP!StoreNext
<1> DEFINE c == ContentOf(done)
<1>1. SP!WriteMutations(op, d, c, rewritten)
  BY SameWrite
<1>2. c \in SP!Content /\ (op = "delete" => c = "todo")
  BY DEF ContentOf, SP!Content
<1> HIDE DEF c
<1>3. CASE op = "set"
  BY <1>1, <1>2, <1>3 DEF SP!CallerWrites, SP!StoreNext, SP!Doc, Doc
<1>4. CASE op = "patch"
  BY <1>1, <1>2, <1>4 DEF SP!CallerWrites, SP!StoreNext, SP!Doc, Doc
<1>5. CASE op = "delete"
  BY <1>1, <1>2, <1>5 DEF SP!CallerWrites, SP!StoreNext, SP!Doc, Doc
<1> QED
  BY <1>3, <1>4, <1>5

LEMMA StoreStepSound ==
    ASSUME StoreSound, [SP!StoreNext]_SP!storeVars PROVE StoreSound'
<1>1. SP!StoreInv'
  BY SP!StoreInvStep, StoreBounds, Zenon DEF StoreSound
<1>2. SP!StoreTypeOK
  BY DEF StoreSound, SP!StoreInv
<1>3. SP!RepliesInv'
  BY <1>2, SP!RepliesInvStep, StoreBounds, Zenon DEF StoreSound
<1>4. SP!WritesInv'
  BY <1>2, SP!WritesInvStep, StoreBounds, Zenon DEF StoreSound
<1>5. SP!ShownInv'
  BY <1>1, <1>3, <1>4, SP!ShownInvStep, StoreBounds, Zenon DEF StoreSound
<1> QED
  BY <1>1, <1>3, <1>4, <1>5 DEF StoreSound

LEMMA DialogStepSound ==
    ASSUME DialogSound, [DP!DialogNext]_DP!dialogVars PROVE DialogSound'
BY DP!DialogInvStep, DialogBounds, Zenon DEF DialogSound

LEMMA SavesKeepContract ==
    ASSUME DocsAreKnown, NEW k, NEW op \in {"set", "patch"}, NEW d \in Doc, NEW done,
           NEW rewritten \in BOOLEAN, op = "set" <=> SP!Unused(d),
           op = "set" => rewritten = FALSE,
           StartWriting(k, op, d, done, rewritten), UNCHANGED dialogVars
    PROVE  SP!StoreNext /\ [DP!DialogNext]_DP!dialogVars
<1>1. Store!WriteMutations(op, d, ContentOf(done), rewritten)
  BY DEF StartWriting
<1>2. SP!StoreNext
  BY <1>1, WritesOfCallers
<1> QED
  BY <1>2 DEF DP!dialogVars, dialogVars

(* Every step of the app is a step of the store or leaves it alone, and a  *)
(* step of the dialogs or leaves them alone.                               *)
LEMMA StepsKeepContract ==
    ASSUME DocsAreKnown, [AppNext]_vars
    PROVE  [SP!StoreNext]_SP!storeVars /\ [DP!DialogNext]_DP!dialogVars
<1> DEFINE Goal == [SP!StoreNext]_SP!storeVars /\ [DP!DialogNext]_DP!dialogVars
<1>1. /\ UNCHANGED storeVars => [SP!StoreNext]_SP!storeVars
      /\ UNCHANGED dialogVars => [DP!DialogNext]_DP!dialogVars
  BY DEF storeVars, dialogVars, SP!storeVars, DP!dialogVars
<1>2. \A k \in {"alert", "confirm", "snack"} : Dialogs!Show(k) => DP!DialogNext
  BY SameDialogs DEF DP!DialogNext, DP!Kind
<1>3. CASE ListGestures
  <2>1. ASSUME NEW i \in Doc, Delete(i) PROVE Goal
    BY <2>1, <1>1, <1>2 DEF Delete
  <2>2. ASSUME NEW i \in Doc, NEW rewritten \in BOOLEAN, ToggleComplete(i, rewritten)
        PROVE  Goal
    <3>1. Known(rows[i]) /\ UNCHANGED dialogVars
          /\ StartWriting("update", "patch", rows[i], completed'[rows[i]], rewritten)
      BY <2>2 DEF ToggleComplete, DocsAreKnown
    <3> QED
      BY <3>1, SavesKeepContract DEF Known
  <2>3. ASSUME NEW t \in Tab, OnTabTapped(t) PROVE Goal
    BY <2>3, <1>1 DEF OnTabTapped
  <2> QED
    BY <1>3, <2>1, <2>2, <2>3 DEF ListGestures
<1>4. CASE FormGestures
  <2>1. ASSUME NEW d \in Doc, SaveNew(d) PROVE Goal
    <3>1. StartWriting("add", "set", d, FormDone, FALSE) /\ SP!Unused(d) /\ UNCHANGED dialogVars
      BY <2>1, SameStoreTypes DEF SaveNew
    <3> QED
      BY <3>1, SavesKeepContract
  <2>2. ASSUME NEW rewritten \in BOOLEAN, SaveEdited(rewritten) PROVE Goal
    <3>1. StartWriting("update", "patch", form.doc, FormDone, rewritten) /\ Known(form.doc)
          /\ UNCHANGED dialogVars
      BY <2>2 DEF SaveEdited, DocsAreKnown
    <3> QED
      BY <3>1, SavesKeepContract DEF Known
  <2>3. CASE UNCHANGED <<dialogVars, storeVars>>
    BY <2>3, <1>1
  <2> QED
    BY <1>4, <2>1, <2>2, <2>3
       DEF FormGestures, ViewTask, AddTask, ToggleSwitch, SaveInvalid, FlushTimeout,
           FormTimer, Back
<1>5. CASE ListenToPosts
  BY <1>1, <1>5, SameListen DEF ListenToPosts, SP!StoreNext
<1>6. CASE \E r \in Dialogs!Request, answer \in {"yes", "no"} : Press(r, answer)
  <2>1. PICK r \in Dialogs!Request, answer \in {"yes", "no"} : Press(r, answer)
    BY <1>6
  <2>2. DP!DialogNext
    BY <2>1, SameDialogs DEF Press, DP!DialogNext, Dialogs!Request, DP!Request
  <2>3. UNCHANGED storeVars \/ \E f \in DOMAIN flows : ConfirmDelete(f)
    BY <2>1 DEF Press, Resume, FinishSave, FinishDelete
  <2>4. ASSUME NEW f \in DOMAIN flows, ConfirmDelete(f) PROVE [SP!StoreNext]_SP!storeVars
    <3>1. CASE flows[f].index \in DOMAIN tasks
      <4>1. Known(tasks[flows[f].index])
            /\ Store!WriteMutations("delete", tasks[flows[f].index], "todo", FALSE)
        BY <2>4, <3>1 DEF ConfirmDelete, DocsAreKnown
      <4>2. ContentOf(FALSE) = "todo"
        BY DEF ContentOf
      <4> QED
        BY <4>1, <4>2, WritesOfCallers DEF Known
    <3>2. CASE flows[f].index \notin DOMAIN tasks
      BY <2>4, <3>2, <1>1 DEF ConfirmDelete
    <3> QED
      BY <3>1, <3>2
  <2> QED
    BY <2>2, <2>3, <2>4, <1>1
<1>7. CASE \E r \in Dialogs!Request : SnackTimeout(r)
  BY <1>1, <1>7, SameDialogs
     DEF SnackTimeout, DP!DialogNext, Dialogs!Request, DP!Request
<1>8. CASE Deliver
  <2>1. SP!StoreNext
    BY <1>8, SameDeliver DEF Deliver, SP!StoreNext
  <2>2. \/ UNCHANGED dialogVars
        \/ \E k \in {"alert", "confirm", "snack"} : Dialogs!Show(k)
    BY <1>8 DEF Deliver, OnDeleteResult, OnSaveResult
  <2> QED
    BY <2>1, <2>2, <1>1, <1>2
<1>9. CASE ServerAnswers \/ ServerEvents
  BY <1>1, <1>9, SameAnswers, SameEvents DEF ServerAnswers, ServerEvents, SP!StoreNext
<1>10. CASE UNCHANGED vars
  BY <1>1, <1>10 DEF vars
<1> QED
  BY <1>3, <1>4, <1>5, <1>6, <1>7, <1>8, <1>9, <1>10 DEF AppNext, Events

LEMMA AppContractStep ==
    ASSUME DialogSound, StoreSound, DocsAreKnown, [AppNext]_vars
    PROVE  DialogSound' /\ StoreSound'
BY StepsKeepContract, StoreStepSound, DialogStepSound

-----------------------------------------------------------------------------
(* The steps, by what they do to the calls.                                *)

Stage == {"confirming", "writing", "notifying", "done", "dead"}

(* Flow f goes on to stage, as call request of the dialogs and with the    *)
(* given write; the others stay as they are.                               *)
Becomes(f, stage, write, request) ==
    /\ f \in DOMAIN flows
    /\ flows' \in Seq(Flow) /\ Len(flows') = Len(flows) /\ DOMAIN flows' = DOMAIN flows
    /\ \A g \in DOMAIN flows : g # f => flows'[g] = flows[g]
    /\ flows'[f].kind = flows[f].kind /\ flows'[f].stage = stage
    /\ flows'[f].write = write /\ flows'[f].request = request

(* A new flow is the last one. *)
Begins(flow) ==
    /\ flows' \in Seq(Flow) /\ Len(flows') = Len(flows) + 1 /\ Len(flows) < MaxFlows
    /\ Len(flows) \in Nat /\ DOMAIN flows = 1 .. Len(flows)
    /\ DOMAIN flows' = 1 .. Len(flows) + 1
    /\ \A g \in DOMAIN flows : flows'[g] = flows[g]
    /\ flows'[Len(flows) + 1] = flow

(* Write number Len(writes) + 1 is issued. *)
WriteIssued(op) ==
    /\ Len(writes) < MaxFlows
    /\ \E m : writes' = Append(writes, m) /\ m.op = op
    /\ future' = [future EXCEPT ![Len(writes) + 1] = "pending"]

(* A button answers the question in the field. *)
FieldAnswered(r, answer) ==
    /\ completer # 0
    /\ DP!DialogComplete(r, answer)

Calm == UNCHANGED <<flows, writes, future, issued, kind, completer, outcome>>

SaveBegins(flow) ==
    /\ Begins(flow)
    /\ flow.kind # "delete" /\ flow.stage = "writing"
    /\ flow.write = Len(writes) + 1 /\ flow.request = 0
    /\ \E op \in {"set", "patch"} : WriteIssued(op)
    /\ UNCHANGED dialogVars

DeleteBegins(flow) ==
    /\ Begins(flow)
    /\ flow.kind = "delete" /\ flow.stage = "confirming"
    /\ flow.write = 0 /\ flow.request = issued + 1
    /\ UNCHANGED <<writes, future>>
    /\ DP!Show("confirm")

Confirmed(f, r) ==
    /\ Waiting(f, completer) /\ FieldAnswered(r, "yes")
    /\ flows[f].kind = "delete" /\ flows[f].stage = "confirming"
    /\ Becomes(f, "writing", Len(writes) + 1, flows[f].request)
    /\ WriteIssued("delete")

Ended(f, r, answer, stage) ==
    /\ Waiting(f, completer) /\ FieldAnswered(r, answer)
    /\ Becomes(f, stage, flows[f].write, flows[f].request)
    /\ UNCHANGED <<writes, future>>

(* Firestore answers the write of flow f. *)
Heard(f, ok) ==
    /\ flows[f].write \in 1 .. MaxFlows
    /\ future[flows[f].write] = "pending"
    /\ future' = [future EXCEPT ![flows[f].write] = IF ok THEN "ok" ELSE "failed"]
    /\ UNCHANGED writes

Announced(f, ok, k) ==
    /\ Heard(f, ok)
    /\ Becomes(f, "notifying", flows[f].write, issued + 1)
    /\ DP!Show(k)

Dropped(f) ==
    /\ Heard(f, FALSE)
    /\ flows[f].kind = "delete"
    /\ Becomes(f, "dead", flows[f].write, flows[f].request)
    /\ UNCHANGED dialogVars

CallsMove ==
    \/ Calm
    \/ \E flow \in Flow : SaveBegins(flow)
    \/ \E flow \in Flow : DeleteBegins(flow)
    \/ \E f \in DOMAIN flows, r \in DP!Request : Confirmed(f, r)
    \/ \E f \in DOMAIN flows, r \in DP!Request, answer \in {"yes", "no"}, stage \in {"done", "dead"} :
          Ended(f, r, answer, stage)
    \/ \E f \in DOMAIN flows, ok \in BOOLEAN, k \in {"alert", "snack"} : Announced(f, ok, k)
    \/ \E f \in DOMAIN flows : Dropped(f)

LEMMA FlowMoves ==
    ASSUME flows \in Seq(Flow), NEW f \in DOMAIN flows, NEW stage \in Stage
    PROVE  /\ Move(f, stage) => Becomes(f, stage, flows[f].write, flows[f].request)
           /\ \A w \in 0 .. MaxFlows :
                flows' = [flows EXCEPT ![f].stage = stage, ![f].write = w]
                  => Becomes(f, stage, w, flows[f].request)
           /\ \A r \in 0 .. 2 * MaxFlows :
                flows' = [flows EXCEPT ![f].stage = stage, ![f].request = r]
                  => Becomes(f, stage, flows[f].write, r)
<1>1. /\ flows[f] \in Flow /\ DOMAIN flows = 1 .. Len(flows) /\ Len(flows) \in Nat
  BY ElementOfSeq, LenProperties
<1>2. ASSUME NEW new \in Flow, flows' = [flows EXCEPT ![f] = new],
             new.kind = flows[f].kind
      PROVE  Becomes(f, new.stage, new.write, new.request)
  <2>1. flows' \in Seq(Flow) /\ Len(flows') = Len(flows)
        /\ \A g \in 1 .. Len(flows) : flows'[g] = IF g = f THEN new ELSE flows[g]
    BY <1>1, <1>2, ExceptSeq
  <2>2. DOMAIN flows' = DOMAIN flows
    BY <2>1, <1>1, LenProperties
  <2> QED
    BY <1>1, <1>2, <2>1, <2>2 DEF Becomes
<1>3. ASSUME Move(f, stage) PROVE Becomes(f, stage, flows[f].write, flows[f].request)
  <2> DEFINE new == [flows[f] EXCEPT !.stage = stage]
  <2>1. new \in Flow /\ new.kind = flows[f].kind /\ new.stage = stage
        /\ new.write = flows[f].write /\ new.request = flows[f].request
    BY <1>1 DEF Flow, Stage
  <2>2. flows' = [flows EXCEPT ![f] = new]
    BY <1>3 DEF Move
  <2> HIDE DEF new
  <2> QED
    BY <2>1, <2>2, <1>2
<1>4. ASSUME NEW w \in 0 .. MaxFlows,
             flows' = [flows EXCEPT ![f].stage = stage, ![f].write = w]
      PROVE  Becomes(f, stage, w, flows[f].request)
  <2> DEFINE new == [flows[f] EXCEPT !.stage = stage, !.write = w]
  <2>1. new \in Flow /\ new.kind = flows[f].kind /\ new.stage = stage
        /\ new.write = w /\ new.request = flows[f].request
    BY <1>1 DEF Flow, Stage
  <2>2. flows' = [flows EXCEPT ![f] = new]
    BY <1>1, <1>4
  <2> HIDE DEF new
  <2> QED
    BY <2>1, <2>2, <1>2
<1>5. ASSUME NEW r \in 0 .. 2 * MaxFlows,
             flows' = [flows EXCEPT ![f].stage = stage, ![f].request = r]
      PROVE  Becomes(f, stage, flows[f].write, r)
  <2> DEFINE new == [flows[f] EXCEPT !.stage = stage, !.request = r]
  <2>1. new \in Flow /\ new.kind = flows[f].kind /\ new.stage = stage
        /\ new.write = flows[f].write /\ new.request = r
    BY <1>1 DEF Flow, Stage
  <2>2. flows' = [flows EXCEPT ![f] = new]
    BY <1>1, <1>5
  <2> HIDE DEF new
  <2> QED
    BY <2>1, <2>2, <1>2
<1> QED
  BY <1>3, <1>4, <1>5

LEMMA FlowBegins ==
    ASSUME flows \in Seq(Flow), NEW flow \in Flow, Len(flows) < MaxFlows,
           flows' = Append(flows, flow)
    PROVE  Begins(flow)
<1>1. /\ flows' \in Seq(Flow) /\ Len(flows') = Len(flows) + 1
      /\ \A g \in 1 .. Len(flows) : flows'[g] = flows[g]
      /\ flows'[Len(flows) + 1] = flow
  BY AppendProperties
<1> QED
  BY <1>1, LenProperties DEF Begins

LEMMA WriteIsIssued ==
    ASSUME NEW op, NEW d, NEW c, NEW rewritten, Store!WriteMutations(op, d, c, rewritten)
    PROVE  WriteIssued(op)
BY DEF Store!WriteMutations, WriteIssued

LEMMA SaveStarts ==
    ASSUME ScreensTypeOK, StoreSound, NEW k \in {"add", "update"}, NEW op \in {"set", "patch"},
           NEW d \in Doc, NEW done, NEW rewritten,
           StartWriting(k, op, d, done, rewritten), UNCHANGED dialogVars
    PROVE  \E flow \in Flow : SaveBegins(flow)
<1> DEFINE flow == [kind |-> k, stage |-> "writing", doc |-> d, index |-> 0,
                    request |-> 0, write |-> Len(writes) + 1]
<1>1. WriteIssued(op) /\ flows' = Append(flows, flow) /\ Len(flows) < MaxFlows
  BY WriteIsIssued DEF StartWriting, StartFlow
<1>2. Len(writes) \in Nat /\ Len(writes) + 1 \in 0 .. MaxFlows
  BY <1>1, AppAssumption, LenProperties DEF WriteIssued, StoreSound, SP!StoreInv, SP!StoreTypeOK
<1>3. flow \in Flow
  BY <1>2, AppAssumption DEF Flow
<1>4. Begins(flow)
  <2> HIDE DEF flow
  <2> QED
    BY <1>1, <1>3, FlowBegins DEF ScreensTypeOK
<1>5. SaveBegins(flow)
  BY <1>1, <1>4 DEF SaveBegins
<1> QED
  BY <1>3, <1>5

LEMMA DeleteStarts ==
    ASSUME ScreensTypeOK, DialogSound, NEW i \in Doc, Delete(i)
    PROVE  \E flow \in Flow : DeleteBegins(flow)
<1> DEFINE flow == [kind |-> "delete", stage |-> "confirming", doc |-> rows[i], index |-> i,
                    request |-> issued + 1, write |-> 0]
<1>1. /\ DP!Show("confirm") /\ i \in DOMAIN rows
      /\ flows' = Append(flows, flow) /\ Len(flows) < MaxFlows
      /\ UNCHANGED <<writes, future>>
  BY SameDialogs DEF Delete, StartFlow, storeVars
<1>2. issued \in Nat /\ issued + 1 \in 0 .. 2 * MaxFlows
  BY <1>1, AppAssumption DEF DialogSound, DP!DialogInv, DP!DialogTypeOK, DP!Show
<1>3. rows[i] \in Doc /\ i \in 0 .. NumDocs
  BY <1>1, AppAssumption, ElementOfSeq, LenProperties DEF ScreensTypeOK, Doc
<1>4. flow \in Flow
  BY <1>2, <1>3, AppAssumption DEF Flow
<1>5. Begins(flow)
  <2> HIDE DEF flow
  <2> QED
    BY <1>1, <1>4, FlowBegins DEF ScreensTypeOK
<1>6. DeleteBegins(flow)
  BY <1>1, <1>5 DEF DeleteBegins
<1> QED
  BY <1>4, <1>6

LEMMA PressMovesCalls ==
    ASSUME ScreensTypeOK, DialogSound, StoreSound, EveryAwaitHasItsCall,
           NEW r \in Dialogs!Request, NEW answer \in {"yes", "no"}, Press(r, answer)
    PROVE  CallsMove
<1>1. r \in DP!Request /\ DP!DialogComplete(r, answer)
  BY SameDialogs DEF Press, Dialogs!Request, DP!Request
<1>2. CASE completer = 0
  <2>1. UNCHANGED <<issued, kind, completer, outcome>>
    BY <1>1, <1>2 DEF DP!DialogComplete, DP!NoRequest
  <2>2. \A f \in DOMAIN flows : ~Waiting(f, completer)
    BY <1>2 DEF EveryAwaitHasItsCall, Waiting
  <2>3. UNCHANGED <<flows, writes, future>>
    BY <2>2 DEF Press, storeVars
  <2> QED
    BY <2>1, <2>3 DEF CallsMove, Calm
<1>3. CASE completer # 0
  <2>1. PICK f \in DOMAIN flows : Waiting(f, completer) /\ Resume(f, answer)
    BY <1>3 DEF Press, EveryAwaitHasItsCall
  <2>2. FieldAnswered(r, answer)
    BY <1>1, <1>3 DEF FieldAnswered
  <2>3. flows \in Seq(Flow)
    BY DEF ScreensTypeOK
  <2>4. ASSUME NEW stage \in {"done", "dead"}, Move(f, stage), UNCHANGED <<writes, future>>
        PROVE  CallsMove
    <3>1. Becomes(f, stage, flows[f].write, flows[f].request)
      BY <2>3, <2>4, FlowMoves DEF Stage
    <3>2. Ended(f, r, answer, stage)
      BY <2>1, <2>2, <2>4, <3>1 DEF Ended
    <3> QED
      BY <3>2, <1>1 DEF CallsMove
  <2>5. CASE FinishSave(f) \/ FinishDelete(f)
    BY <2>4, <2>5 DEF FinishSave, FinishDelete, storeVars
  <2>6. CASE ConfirmDelete(f) /\ answer = "yes" /\ flows[f].kind = "delete"
               /\ flows[f].stage = "confirming"
    <3>1. CASE flows[f].index \in DOMAIN tasks
      <4>1. /\ WriteIssued("delete")
            /\ flows' = [flows EXCEPT ![f].stage = "writing", ![f].write = Len(writes) + 1]
        BY <2>6, <3>1, WriteIsIssued DEF ConfirmDelete
      <4>2. Len(writes) + 1 \in 0 .. MaxFlows
        BY <4>1, AppAssumption, LenProperties
           DEF WriteIssued, StoreSound, SP!StoreInv, SP!StoreTypeOK
      <4>3. Becomes(f, "writing", Len(writes) + 1, flows[f].request)
        BY <2>3, <4>1, <4>2, FlowMoves DEF Stage
      <4>4. Confirmed(f, r)
        BY <2>1, <2>2, <2>6, <4>1, <4>3 DEF Confirmed
      <4> QED
        BY <4>4, <1>1 DEF CallsMove
    <3>2. CASE flows[f].index \notin DOMAIN tasks
      BY <2>4, <2>6, <3>2 DEF ConfirmDelete, storeVars
    <3> QED
      BY <3>1, <3>2
  <2> QED
    BY <2>1, <2>5, <2>6 DEF Resume
<1> QED
  BY <1>2, <1>3

LEMMA DeliverMovesCalls ==
    ASSUME ScreensTypeOK, DialogSound, StoreSound, Deliver
    PROVE  CallsMove
<1> DEFINE m == Head(toApp)
<1>1. /\ SP!Deliver /\ SP!StoreTypeOK /\ SP!RepliesInv /\ toApp # <<>>
  BY SameDeliver DEF Deliver, StoreSound, SP!StoreInv, SP!Deliver
<1>2. m \in SP!Message /\ UNCHANGED writes
  BY <1>1, HeadTailProperties DEF SP!StoreTypeOK, SP!Deliver
<1>3. CASE m.type = "snapshot"
  BY <1>1, <1>3 DEF Deliver, SP!Deliver, dialogVars, CallsMove, Calm
<1>4. CASE m.type = "result"
  <2>1. m.write \in SP!Write /\ future[m.write] = "pending"
    BY <1>1, <1>4, SP!DeliveredResultIsOldest, StoreBounds, Zenon
  <2>2. PICK f \in DOMAIN flows :
          /\ flows[f].write = m.write
          /\ IF flows[f].kind = "delete"
             THEN OnDeleteResult(f, m.ok) ELSE OnSaveResult(f)
    BY <1>4 DEF Deliver
  <2>3. m.ok \in BOOLEAN
    BY <1>2, <1>4 DEF SP!Message
  <2>4. Heard(f, m.ok)
    BY <1>1, <1>2, <1>4, <2>1, <2>2 DEF Heard, SP!Deliver, SP!Write
  <2>5. flows \in Seq(Flow)
    BY DEF ScreensTypeOK
  <2>6. ASSUME NEW k \in {"alert", "snack"}, Dialogs!Show(k),
               flows' = [flows EXCEPT ![f].stage = "notifying", ![f].request = issued + 1]
        PROVE  CallsMove
    <3>1. DP!Show(k)
      BY <2>6, SameDialogs
    <3>2. issued + 1 \in 0 .. 2 * MaxFlows
      BY <3>1, AppAssumption DEF DialogSound, DP!DialogInv, DP!DialogTypeOK, DP!Show
    <3>3. Becomes(f, "notifying", flows[f].write, issued + 1)
      BY <2>5, <2>6, <3>2, FlowMoves DEF Stage
    <3>4. Announced(f, m.ok, k)
      BY <2>4, <3>1, <3>3 DEF Announced
    <3> QED
      BY <2>3, <3>4 DEF CallsMove
  <2>7. CASE flows[f].kind # "delete"
    BY <2>2, <2>6, <2>7 DEF OnSaveResult
  <2>8. CASE flows[f].kind = "delete" /\ m.ok
    BY <2>2, <2>6, <2>8 DEF OnDeleteResult
  <2>9. CASE flows[f].kind = "delete" /\ ~m.ok
    <3>1. Move(f, "dead") /\ UNCHANGED dialogVars
      BY <2>2, <2>9 DEF OnDeleteResult
    <3>2. Becomes(f, "dead", flows[f].write, flows[f].request)
      BY <2>5, <3>1, FlowMoves DEF Stage
    <3>3. m.ok = FALSE
      BY <2>3, <2>9
    <3>4. Dropped(f)
      BY <2>4, <2>9, <3>1, <3>2, <3>3 DEF Dropped
    <3> QED
      BY <3>4 DEF CallsMove
  <2> QED
    BY <2>7, <2>8, <2>9
<1> QED
  BY <1>2, <1>3, <1>4 DEF SP!Message

LEMMA StepsMoveCalls ==
    ASSUME AppInv, [AppNext]_vars PROVE CallsMove
<1>0. /\ ScreensTypeOK /\ DialogSound /\ StoreSound /\ EveryAwaitHasItsCall
      /\ DocsAreKnown
  BY DEF AppInv
<1>1. CASE ListGestures
  <2>1. CASE \E i \in Doc : Delete(i)
    BY <2>1, <1>0, DeleteStarts DEF CallsMove
  <2>2. ASSUME NEW i \in Doc, NEW rewritten \in BOOLEAN, ToggleComplete(i, rewritten)
        PROVE  CallsMove
    <3>1. rows[i] \in Doc /\ UNCHANGED dialogVars
          /\ StartWriting("update", "patch", rows[i], completed'[rows[i]], rewritten)
      BY <2>2, <1>0 DEF ToggleComplete, DocsAreKnown, Known
    <3> QED
      BY <3>1, <1>0, SaveStarts DEF CallsMove
  <2>3. CASE \E t \in Tab : OnTabTapped(t)
    BY <2>3 DEF OnTabTapped, CallsMove, Calm, dialogVars, storeVars
  <2> QED
    BY <1>1, <2>1, <2>2, <2>3 DEF ListGestures
<1>2. CASE FormGestures
  <2>1. ASSUME NEW d \in Doc, SaveNew(d) PROVE CallsMove
    <3>1. StartWriting("add", "set", d, FormDone, FALSE) /\ UNCHANGED dialogVars
      BY <2>1 DEF SaveNew
    <3> QED
      BY <3>1, <1>0, SaveStarts DEF CallsMove
  <2>2. ASSUME NEW rewritten \in BOOLEAN, SaveEdited(rewritten) PROVE CallsMove
    <3>1. StartWriting("update", "patch", form.doc, FormDone, rewritten) /\ form.doc \in Doc
          /\ UNCHANGED dialogVars
      BY <2>2, <1>0 DEF SaveEdited, DocsAreKnown, Known
    <3> QED
      BY <3>1, <1>0, SaveStarts DEF CallsMove
  <2>3. CASE UNCHANGED <<dialogVars, storeVars, flows>>
    BY <2>3 DEF CallsMove, Calm, dialogVars, storeVars
  <2> QED
    BY <1>2, <2>1, <2>2, <2>3
       DEF FormGestures, ViewTask, AddTask, ToggleSwitch, SaveInvalid, FlushTimeout,
           FormTimer, Back
<1>3. CASE ListenToPosts
  BY <1>3, SameListen DEF ListenToPosts, SP!Listen, CallsMove, Calm, dialogVars
<1>4. CASE \E r \in Dialogs!Request, answer \in {"yes", "no"} : Press(r, answer)
  BY <1>0, <1>4, PressMovesCalls
<1>5. CASE \E r \in Dialogs!Request : SnackTimeout(r)
  BY <1>5 DEF SnackTimeout, Dialogs!Dismiss, CallsMove, Calm, storeVars, appVars
<1>6. CASE Deliver
  BY <1>0, <1>6, DeliverMovesCalls
<1>7. CASE ServerAnswers \/ ServerEvents
  <2>1. UNCHANGED <<writes, future, dialogVars, flows>>
    BY <1>7 DEF ServerAnswers, ServerEvents, appVars, Store!ServerAnswers,
                Store!HandleSuccessfulWrite, Store!HandleRejectedWrite, Store!WatchEvents,
                Store!ApplyRemoteEvent, Store!GoOffline, Store!RejectListen
  <2> QED
    BY <2>1 DEF CallsMove, Calm, dialogVars
<1>8. CASE UNCHANGED vars
  BY <1>8 DEF vars, appVars, storeVars, dialogVars, CallsMove, Calm
<1> QED
  BY <1>1, <1>2, <1>3, <1>4, <1>5, <1>6, <1>7, <1>8 DEF AppNext, Events

-----------------------------------------------------------------------------
(* EveryAwaitHasItsCall, part by part.                                     *)

WritesAwaited ==
    \A f \in DOMAIN flows :
        flows[f].stage = "writing"
            <=> flows[f].write # 0 /\ future[flows[f].write] = "pending"

DialogsAwaited ==
    \A f \in DOMAIN flows :
        flows[f].stage \in {"confirming", "notifying"}
            <=> flows[f].request # 0 /\ outcome[flows[f].request] = "pending"

OneFlowEach ==
    \A f, g \in DOMAIN flows :
        f # g => /\ flows[f].write = flows[g].write => flows[f].write = 0
                 /\ flows[f].request = flows[g].request => flows[f].request = 0

WritesHaveFlows == \A w \in DOMAIN writes : \E f \in DOMAIN flows : flows[f].write = w

FieldHasFlow == completer # 0 => \E f \in DOMAIN flows : Waiting(f, completer)

LEMMA AwaitParts ==
    EveryAwaitHasItsCall <=>
        /\ WritesAwaited /\ DialogsAwaited /\ OneFlowEach /\ WritesHaveFlows /\ FieldHasFlow
BY DEF EveryAwaitHasItsCall, WritesAwaited, DialogsAwaited, OneFlowEach, WritesHaveFlows,
       FieldHasFlow

LEMMA AwaitPartsNext ==
    EveryAwaitHasItsCall' <=>
        /\ WritesAwaited' /\ DialogsAwaited' /\ OneFlowEach' /\ WritesHaveFlows'
        /\ FieldHasFlow'
BY DEF EveryAwaitHasItsCall, WritesAwaited, DialogsAwaited, OneFlowEach, WritesHaveFlows,
       FieldHasFlow

LEMMA CallFacts ==
    ASSUME AppInv
    PROVE  /\ WritesAwaited /\ DialogsAwaited /\ OneFlowEach /\ WritesHaveFlows
           /\ FieldHasFlow /\ FlowsSound
           /\ DOMAIN flows = 1 .. Len(flows) /\ Len(flows) \in Nat
           /\ \A f \in DOMAIN flows :
                /\ flows[f] \in Flow /\ flows[f].write \in 0 .. MaxFlows
                /\ flows[f].request \in 0 .. 2 * MaxFlows
           /\ DOMAIN writes = 1 .. Len(writes) /\ Len(writes) \in Nat
           /\ DOMAIN future = 1 .. MaxFlows /\ DOMAIN outcome = 1 .. 2 * MaxFlows
           /\ DOMAIN kind = 1 .. 2 * MaxFlows
           /\ issued \in Nat /\ issued <= 2 * MaxFlows
           /\ completer \in 0 .. 2 * MaxFlows
           /\ MaxFlows \in Nat
<1>1. /\ DOMAIN flows = 1 .. Len(flows) /\ Len(flows) \in Nat
      /\ \A f \in DOMAIN flows : flows[f] \in Flow
  BY ElementOfSeq, LenProperties DEF AppInv, ScreensTypeOK
<1>2. \A f \in DOMAIN flows : /\ flows[f].write \in 0 .. MaxFlows
                              /\ flows[f].request \in 0 .. 2 * MaxFlows
  BY <1>1 DEF Flow
<1>3. /\ DOMAIN writes = 1 .. Len(writes) /\ Len(writes) \in Nat
      /\ DOMAIN future = 1 .. MaxFlows
  BY LenProperties DEF AppInv, StoreSound, SP!StoreInv, SP!StoreTypeOK, SP!Write
<1>4. /\ DOMAIN outcome = 1 .. 2 * MaxFlows /\ DOMAIN kind = 1 .. 2 * MaxFlows
      /\ issued \in Nat /\ issued <= 2 * MaxFlows
      /\ completer \in 0 .. 2 * MaxFlows
  BY AppAssumption
     DEF AppInv, DialogSound, DP!DialogInv, DP!DialogTypeOK, DP!Request, DP!NoRequest
<1> QED
  BY <1>1, <1>2, <1>3, <1>4, AwaitParts, AppAssumption DEF AppInv

(* What a new write leaves alone. *)
LEMMA IssueFacts ==
    ASSUME AppInv, NEW op, WriteIssued(op)
    PROVE  /\ DOMAIN writes' = 1 .. Len(writes) + 1 /\ Len(writes') = Len(writes) + 1
           /\ Len(writes) + 1 \in 1 .. MaxFlows
           /\ future'[Len(writes) + 1] = "pending"
           /\ \A w \in 1 .. MaxFlows : w # Len(writes) + 1 => future'[w] = future[w]
<1>1. writes \in Seq(SP!Mutation)
  BY DEF AppInv, StoreSound, SP!StoreInv, SP!StoreTypeOK
<1>2. PICK m : writes' = Append(writes, m)
  BY DEF WriteIssued
<1>3. Len(writes') = Len(writes) + 1 /\ DOMAIN writes' = 1 .. Len(writes) + 1
  BY <1>1, <1>2
<1>4. Len(writes) + 1 \in 1 .. MaxFlows
  BY CallFacts DEF WriteIssued
<1>5. /\ future'[Len(writes) + 1] = "pending"
      /\ \A w \in 1 .. MaxFlows : w # Len(writes) + 1 => future'[w] = future[w]
  BY <1>4, CallFacts DEF WriteIssued
<1> QED
  BY <1>3, <1>4, <1>5

(* What a new dialog leaves alone. *)
LEMMA ShowFacts ==
    ASSUME AppInv, NEW k, DP!Show(k)
    PROVE  /\ issued' = issued + 1 /\ completer' = issued + 1
           /\ issued + 1 \in 1 .. 2 * MaxFlows
           /\ outcome'[issued + 1] = "pending" /\ kind'[issued + 1] = k
           /\ \A r \in 1 .. 2 * MaxFlows :
                r # issued + 1 => outcome'[r] = outcome[r] /\ kind'[r] = kind[r]
<1>1. issued + 1 \in 1 .. 2 * MaxFlows
  BY CallFacts DEF DP!Show
<1> QED
  BY <1>1, CallFacts DEF DP!Show

LEMMA BeginKeepsAwaits ==
    ASSUME AppInv, NEW flow \in Flow, SaveBegins(flow) \/ DeleteBegins(flow)
    PROVE  EveryAwaitHasItsCall' /\ FlowsSound'
<1> DEFINE n == Len(flows) + 1
<1>1. /\ DOMAIN flows' = 1 .. n /\ flows'[n] = flow /\ n \notin DOMAIN flows
      /\ \A g \in DOMAIN flows : flows'[g] = flows[g] /\ g \in DOMAIN flows'
      /\ \A g \in DOMAIN flows' : g \in DOMAIN flows \/ g = n
      /\ n \in DOMAIN flows'
  BY CallFacts DEF SaveBegins, DeleteBegins, Begins
<1> HIDE DEF n
<1>2. CASE SaveBegins(flow)
  <2>1. /\ DOMAIN writes' = 1 .. Len(writes) + 1 /\ Len(writes') = Len(writes) + 1
        /\ future'[Len(writes) + 1] = "pending"
        /\ \A w \in 1 .. MaxFlows : w # Len(writes) + 1 => future'[w] = future[w]
    BY <1>2, IssueFacts DEF SaveBegins
  <2>2. UNCHANGED <<issued, kind, completer, outcome>>
    BY <1>2 DEF SaveBegins, dialogVars
  <2>3. /\ flow.stage = "writing" /\ flow.write = Len(writes) + 1 /\ flow.request = 0
    BY <1>2 DEF SaveBegins
  <2>4. ASSUME NEW g \in DOMAIN flows
        PROVE  /\ flows[g].write # Len(writes) + 1
               /\ flows[g].write # 0 => future'[flows[g].write] = future[flows[g].write]
    BY <2>1, CallFacts DEF FlowsSound
  <2>5. WritesAwaited' /\ DialogsAwaited'
    <3>1. ASSUME NEW g \in DOMAIN flows
          PROVE  /\ (flows[g].stage = "writing"
                        <=> flows[g].write # 0 /\ future[flows[g].write] = "pending")'
                 /\ (flows[g].stage \in {"confirming", "notifying"}
                        <=> flows[g].request # 0 /\ outcome[flows[g].request] = "pending")'
      <4>1. WritesAwaited /\ DialogsAwaited
        BY CallFacts
      <4>2. flows'[g] = flows[g] /\ outcome' = outcome
        BY <1>1, <2>2
      <4>3. flows[g].write # 0 => future'[flows[g].write] = future[flows[g].write]
        BY <2>4
      <4> QED
        BY <4>1, <4>2, <4>3 DEF WritesAwaited, DialogsAwaited
    <3>2. /\ (flow.stage = "writing" <=> flow.write # 0 /\ future'[flow.write] = "pending")
          /\ (flow.stage \in {"confirming", "notifying"}
                <=> flow.request # 0 /\ outcome'[flow.request] = "pending")
      BY <2>1, <2>3, CallFacts
    <3> QED
      BY <1>1, <3>1, <3>2 DEF WritesAwaited, DialogsAwaited
  <2>6. OneFlowEach'
    <3>1. OneFlowEach
      BY CallFacts
    <3>2. ASSUME NEW f \in DOMAIN flows', NEW g \in DOMAIN flows', f # g
          PROVE  /\ flows'[f].write = flows'[g].write => flows'[f].write = 0
                 /\ flows'[f].request = flows'[g].request => flows'[f].request = 0
      <4>1. CASE f \in DOMAIN flows /\ g \in DOMAIN flows
        BY <1>1, <3>1, <3>2, <4>1 DEF OneFlowEach
      <4>2. CASE f \in DOMAIN flows /\ g = n
        BY <1>1, <2>3, <2>4, <4>2
      <4>3. CASE f = n /\ g \in DOMAIN flows
        BY <1>1, <2>3, <2>4, <4>3
      <4> QED
        BY <1>1, <3>2, <4>1, <4>2, <4>3
    <3> QED
      BY <3>2 DEF OneFlowEach
  <2>7. WritesHaveFlows'
    <3>1. WritesHaveFlows /\ DOMAIN writes = 1 .. Len(writes) /\ Len(writes) \in Nat
      BY CallFacts
    <3>2. \A w \in DOMAIN writes' : w \in DOMAIN writes \/ w = flow.write
      BY <2>1, <2>3, <3>1
    <3>3. \A g \in DOMAIN flows : g \in DOMAIN flows' /\ flows'[g].write = flows[g].write
      BY <1>1
    <3>4. n \in DOMAIN flows' /\ flows'[n].write = flow.write
      BY <1>1
    <3> QED
      BY <3>1, <3>2, <3>3, <3>4 DEF WritesHaveFlows
  <2>8. FieldHasFlow'
    BY <1>1, <2>2, CallFacts DEF FieldHasFlow, Waiting
  <2>9. FlowsSound'
    BY <1>1, <2>1, <2>2, <2>3, CallFacts DEF FlowsSound
  <2> QED
    BY <2>5, <2>6, <2>7, <2>8, <2>9, AwaitPartsNext
<1>3. CASE DeleteBegins(flow)
  <2>1. /\ issued' = issued + 1 /\ completer' = issued + 1
        /\ issued + 1 \in 1 .. 2 * MaxFlows
        /\ outcome'[issued + 1] = "pending" /\ kind'[issued + 1] = "confirm"
        /\ \A r \in 1 .. 2 * MaxFlows :
             r # issued + 1 => outcome'[r] = outcome[r] /\ kind'[r] = kind[r]
    BY <1>3, ShowFacts DEF DeleteBegins
  <2>2. UNCHANGED <<writes, future>>
    BY <1>3 DEF DeleteBegins
  <2>3. /\ flow.stage = "confirming" /\ flow.write = 0 /\ flow.request = issued + 1
        /\ flow.kind = "delete"
    BY <1>3 DEF DeleteBegins
  <2>4. ASSUME NEW g \in DOMAIN flows
        PROVE  /\ flows[g].request # issued + 1
               /\ flows[g].request # 0 =>
                    /\ outcome'[flows[g].request] = outcome[flows[g].request]
                    /\ kind'[flows[g].request] = kind[flows[g].request]
    BY <2>1, CallFacts DEF FlowsSound
  <2>5. WritesAwaited' /\ DialogsAwaited'
    <3>1. ASSUME NEW g \in DOMAIN flows
          PROVE  /\ (flows[g].stage = "writing"
                        <=> flows[g].write # 0 /\ future[flows[g].write] = "pending")'
                 /\ (flows[g].stage \in {"confirming", "notifying"}
                        <=> flows[g].request # 0 /\ outcome[flows[g].request] = "pending")'
      BY <1>1, <2>2, <2>4, CallFacts DEF WritesAwaited, DialogsAwaited
    <3>2. /\ (flow.stage = "writing" <=> flow.write # 0 /\ future'[flow.write] = "pending")
          /\ (flow.stage \in {"confirming", "notifying"}
                <=> flow.request # 0 /\ outcome'[flow.request] = "pending")
      BY <2>1, <2>3, CallFacts
    <3> QED
      BY <1>1, <3>1, <3>2 DEF WritesAwaited, DialogsAwaited
  <2>6. OneFlowEach'
    <3>1. OneFlowEach
      BY CallFacts
    <3>2. ASSUME NEW f \in DOMAIN flows', NEW g \in DOMAIN flows', f # g
          PROVE  /\ flows'[f].write = flows'[g].write => flows'[f].write = 0
                 /\ flows'[f].request = flows'[g].request => flows'[f].request = 0
      <4>1. CASE f \in DOMAIN flows /\ g \in DOMAIN flows
        BY <1>1, <3>1, <3>2, <4>1 DEF OneFlowEach
      <4>2. CASE f \in DOMAIN flows /\ g = n
        BY <1>1, <2>3, <2>4, <4>2
      <4>3. CASE f = n /\ g \in DOMAIN flows
        BY <1>1, <2>3, <2>4, <4>3
      <4> QED
        BY <1>1, <3>2, <4>1, <4>2, <4>3
    <3> QED
      BY <3>2 DEF OneFlowEach
  <2>7. WritesHaveFlows'
    <3>1. \A w \in DOMAIN writes : \E f \in DOMAIN flows : flows[f].write = w
      BY CallFacts DEF WritesHaveFlows
    <3>2. \A f \in DOMAIN flows : f \in DOMAIN flows' /\ flows'[f] = flows[f]
      BY <1>1
    <3> QED
      BY <2>2, <3>1, <3>2 DEF WritesHaveFlows
  <2>8. FieldHasFlow'
    BY <1>1, <2>1, <2>3 DEF FieldHasFlow, Waiting
  <2>9. FlowsSound'
    <3>1. ASSUME NEW g \in DOMAIN flows, flows[g].stage = "confirming"
          PROVE  kind'[flows[g].request] = "confirm"
      BY <2>4, <3>1, CallFacts DEF FlowsSound, DialogsAwaited
    <3> QED
      BY <1>1, <2>1, <2>2, <2>3, <3>1, CallFacts DEF FlowsSound
  <2> QED
    BY <2>5, <2>6, <2>7, <2>8, <2>9, AwaitPartsNext
<1> QED
  BY <1>2, <1>3

(* What a press leaves alone. *)
LEMMA PressFacts ==
    ASSUME AppInv, NEW r, NEW answer \in {"yes", "no"}, FieldAnswered(r, answer)
    PROVE  /\ completer \in 1 .. 2 * MaxFlows /\ completer' = 0
           /\ outcome'[completer] = answer
           /\ \A q \in 1 .. 2 * MaxFlows : q # completer => outcome'[q] = outcome[q]
           /\ UNCHANGED <<issued, kind>>
BY CallFacts DEF FieldAnswered, DP!DialogComplete, DP!NoRequest

(* The flow that waits for the field is the only one that does. *)
LEMMA WaiterFacts ==
    ASSUME AppInv, NEW r, NEW answer \in {"yes", "no"}, FieldAnswered(r, answer),
           NEW f \in DOMAIN flows, Waiting(f, completer)
    PROVE  /\ flows[f].request = completer
           /\ ~(flows[f].write # 0 /\ future[flows[f].write] = "pending")
           /\ outcome'[flows[f].request] = answer
           /\ \A g \in DOMAIN flows :
                g # f /\ flows[g].request # 0
                  => /\ outcome'[flows[g].request] = outcome[flows[g].request]
                     /\ flows[g].request # completer
<1>1. flows[f].request = completer /\ flows[f].stage \in {"confirming", "notifying"}
  BY DEF Waiting
<1>2. ~(flows[f].write # 0 /\ future[flows[f].write] = "pending")
  BY <1>1, CallFacts DEF WritesAwaited
<1>3. ASSUME NEW g \in DOMAIN flows, g # f, flows[g].request # 0
      PROVE  flows[g].request # completer /\ flows[g].request \in 1 .. 2 * MaxFlows
  BY <1>1, <1>3, CallFacts DEF OneFlowEach
<1> QED
  BY <1>1, <1>2, <1>3, PressFacts

(* A flow that keeps its write and its request, or takes one of its own,   *)
(* leaves every flow with its own.                                         *)
LEMMA OneFlowEachKept ==
    ASSUME AppInv, NEW f \in DOMAIN flows, DOMAIN flows' = DOMAIN flows,
           \A g \in DOMAIN flows : g # f => flows'[g] = flows[g],
           \/ flows'[f].write = flows[f].write
           \/ \A g \in DOMAIN flows : flows[g].write # flows'[f].write,
           \/ flows'[f].request = flows[f].request
           \/ \A g \in DOMAIN flows : flows[g].request # flows'[f].request
    PROVE  OneFlowEach'
<1>1. \A g \in DOMAIN flows : g # f =>
        /\ flows[f].write = flows[g].write => flows[f].write = 0 /\ flows[g].write = 0
        /\ flows[f].request = flows[g].request => flows[f].request = 0 /\ flows[g].request = 0
  BY CallFacts DEF OneFlowEach
<1>2. ASSUME NEW g \in DOMAIN flows, g # f
      PROVE  /\ flows'[f].write = flows'[g].write
                  => flows'[f].write = 0 /\ flows'[g].write = 0
             /\ flows'[f].request = flows'[g].request
                  => flows'[f].request = 0 /\ flows'[g].request = 0
  BY <1>1, <1>2
<1>3. ASSUME NEW g \in DOMAIN flows, NEW h \in DOMAIN flows, g # h, g # f, h # f
      PROVE  /\ flows'[g].write = flows'[h].write => flows'[g].write = 0
             /\ flows'[g].request = flows'[h].request => flows'[g].request = 0
  <2>1. OneFlowEach
    BY CallFacts
  <2>2. flows'[g].write = flows[g].write /\ flows'[h].write = flows[h].write
    BY <1>3
  <2>3. flows'[g].request = flows[g].request /\ flows'[h].request = flows[h].request
    BY <1>3
  <2> QED
    BY <1>3, <2>1, <2>2, <2>3 DEF OneFlowEach
<1>4. ASSUME NEW g \in DOMAIN flows, NEW h \in DOMAIN flows, g # h
      PROVE  /\ flows'[g].write = flows'[h].write => flows'[g].write = 0
             /\ flows'[g].request = flows'[h].request => flows'[g].request = 0
  BY <1>2, <1>3, <1>4
<1> QED
  BY <1>4 DEF OneFlowEach

LEMMA ConfirmedKeepsAwaits ==
    ASSUME AppInv, NEW f \in DOMAIN flows, NEW r, Confirmed(f, r)
    PROVE  EveryAwaitHasItsCall' /\ FlowsSound'
<1>1. /\ completer \in 1 .. 2 * MaxFlows /\ completer' = 0
      /\ UNCHANGED <<issued, kind>>
  BY PressFacts DEF Confirmed
<1>2. /\ flows[f].request = completer /\ outcome'[flows[f].request] = "yes"
      /\ \A g \in DOMAIN flows : g # f /\ flows[g].request # 0
           => outcome'[flows[g].request] = outcome[flows[g].request]
  BY WaiterFacts DEF Confirmed
<1>3. /\ DOMAIN writes' = 1 .. Len(writes) + 1 /\ Len(writes') = Len(writes) + 1
      /\ future'[Len(writes) + 1] = "pending"
      /\ \A w \in 1 .. MaxFlows : w # Len(writes) + 1 => future'[w] = future[w]
  BY IssueFacts DEF Confirmed
<1>4. /\ DOMAIN flows' = DOMAIN flows
      /\ \A g \in DOMAIN flows : g # f => flows'[g] = flows[g]
      /\ flows'[f].stage = "writing" /\ flows'[f].write = Len(writes) + 1
      /\ flows'[f].request = flows[f].request
  BY DEF Confirmed, Becomes
<1>5. ASSUME NEW g \in DOMAIN flows
      PROVE  /\ flows[g].write # Len(writes) + 1
             /\ flows[g].write # 0 => future'[flows[g].write] = future[flows[g].write]
  BY <1>3, CallFacts DEF FlowsSound
<1>6. flows[f].write = 0
  BY CallFacts DEF FlowsSound, Confirmed
<1>7. WritesAwaited'
  <2>1. ASSUME NEW g \in DOMAIN flows, g # f
        PROVE  (flows[g].stage = "writing"
                  <=> flows[g].write # 0 /\ future[flows[g].write] = "pending")'
    BY <2>1, <1>4, <1>5, CallFacts DEF WritesAwaited
  <2>2. (flows[f].stage = "writing"
           <=> flows[f].write # 0 /\ future[flows[f].write] = "pending")'
    BY <1>3, <1>4, CallFacts
  <2> QED
    BY <1>4, <2>1, <2>2 DEF WritesAwaited
<1>8. DialogsAwaited'
  <2>1. ASSUME NEW g \in DOMAIN flows, g # f
        PROVE  (flows[g].stage \in {"confirming", "notifying"}
                  <=> flows[g].request # 0 /\ outcome[flows[g].request] = "pending")'
    BY <2>1, <1>2, <1>4, CallFacts DEF DialogsAwaited
  <2>2. (flows[f].stage \in {"confirming", "notifying"}
           <=> flows[f].request # 0 /\ outcome[flows[f].request] = "pending")'
    BY <1>2, <1>4
  <2> QED
    BY <1>4, <2>1, <2>2 DEF DialogsAwaited
<1>9. OneFlowEach'
  BY <1>4, <1>5, OneFlowEachKept
<1>10. WritesHaveFlows'
  <2>1. ASSUME NEW w \in DOMAIN writes PROVE \E g \in DOMAIN flows' : flows'[g].write = w
    <3>1. PICK g \in DOMAIN flows : flows[g].write = w
      BY CallFacts DEF WritesHaveFlows
    <3>2. g # f
      BY <3>1, <2>1, <1>6, CallFacts
    <3> QED
      BY <3>1, <3>2, <1>4
  <2>2. \A w \in DOMAIN writes' : w \in DOMAIN writes \/ w = Len(writes) + 1
    BY <1>3, CallFacts
  <2> QED
    BY <2>1, <2>2, <1>4 DEF WritesHaveFlows
<1>11. FieldHasFlow'
  BY <1>1 DEF FieldHasFlow
<1>12. FlowsSound'
  <2>1. ASSUME NEW g \in DOMAIN flows
        PROVE  flows'[g].write <= Len(writes') /\ flows'[g].request <= issued'
    BY <1>1, <1>3, <1>4, CallFacts DEF FlowsSound
  <2>2. ASSUME NEW g \in DOMAIN flows, flows'[g].stage = "confirming"
        PROVE  /\ flows'[g].kind = "delete" /\ flows'[g].write = 0
               /\ kind'[flows'[g].request] = "confirm"
    BY <2>2, <1>1, <1>4, CallFacts DEF FlowsSound
  <2> QED
    BY <2>1, <2>2, <1>4 DEF FlowsSound
<1> QED
  BY <1>7, <1>8, <1>9, <1>10, <1>11, <1>12, AwaitPartsNext

LEMMA EndedKeepsAwaits ==
    ASSUME AppInv, NEW f \in DOMAIN flows, NEW r, NEW answer \in {"yes", "no"},
           NEW stage \in {"done", "dead"}, Ended(f, r, answer, stage)
    PROVE  EveryAwaitHasItsCall' /\ FlowsSound'
<1>1. completer' = 0 /\ UNCHANGED <<issued, kind, writes, future>>
  BY PressFacts DEF Ended
<1>2. /\ flows[f].request = completer /\ outcome'[flows[f].request] = answer
      /\ ~(flows[f].write # 0 /\ future[flows[f].write] = "pending")
      /\ \A g \in DOMAIN flows : g # f /\ flows[g].request # 0
           => outcome'[flows[g].request] = outcome[flows[g].request]
  BY WaiterFacts DEF Ended
<1>3. /\ DOMAIN flows' = DOMAIN flows
      /\ \A g \in DOMAIN flows : g # f => flows'[g] = flows[g]
      /\ flows'[f].stage = stage /\ flows'[f].write = flows[f].write
      /\ flows'[f].request = flows[f].request
  BY DEF Ended, Becomes
<1>4. WritesAwaited'
  BY <1>1, <1>2, <1>3, CallFacts DEF WritesAwaited
<1>5. DialogsAwaited'
  BY <1>2, <1>3, CallFacts DEF DialogsAwaited
<1>6. OneFlowEach'
  BY <1>3, OneFlowEachKept
<1>7. WritesHaveFlows'
  <2>1. \A g \in DOMAIN flows : flows'[g].write = flows[g].write
    BY <1>3
  <2>2. ASSUME NEW w \in DOMAIN writes PROVE \E g \in DOMAIN flows : flows[g].write = w
    BY CallFacts DEF WritesHaveFlows
  <2> QED
    BY <2>1, <2>2, <1>1, <1>3 DEF WritesHaveFlows
<1>8. FieldHasFlow'
  BY <1>1 DEF FieldHasFlow
<1>9. FlowsSound'
  BY <1>1, <1>3, CallFacts DEF FlowsSound
<1> QED
  BY <1>4, <1>5, <1>6, <1>7, <1>8, <1>9, AwaitPartsNext

(* What an answer of Firestore leaves alone. *)
LEMMA HeardFacts ==
    ASSUME AppInv, NEW f \in DOMAIN flows, NEW ok \in BOOLEAN, Heard(f, ok)
    PROVE  /\ flows[f].stage = "writing"
           /\ ~(flows[f].request # 0 /\ outcome[flows[f].request] = "pending")
           /\ future'[flows[f].write] # "pending"
           /\ \A g \in DOMAIN flows : g # f /\ flows[g].write # 0
                => future'[flows[g].write] = future[flows[g].write]
<1>1. flows[f].stage = "writing"
  BY CallFacts DEF Heard, WritesAwaited
<1>2. ~(flows[f].request # 0 /\ outcome[flows[f].request] = "pending")
  BY <1>1, CallFacts DEF DialogsAwaited
<1>3. future'[flows[f].write] # "pending"
  BY CallFacts DEF Heard
<1>4. ASSUME NEW g \in DOMAIN flows, g # f, flows[g].write # 0
      PROVE  future'[flows[g].write] = future[flows[g].write]
  <2>1. flows[g].write # flows[f].write /\ flows[g].write \in 1 .. MaxFlows
    BY <1>4, CallFacts DEF OneFlowEach
  <2> QED
    BY <2>1, CallFacts DEF Heard
<1> QED
  BY <1>1, <1>2, <1>3, <1>4

LEMMA AnnouncedKeepsAwaits ==
    ASSUME AppInv, NEW f \in DOMAIN flows, NEW ok \in BOOLEAN, NEW k, Announced(f, ok, k)
    PROVE  EveryAwaitHasItsCall' /\ FlowsSound'
<1>1. /\ issued' = issued + 1 /\ completer' = issued + 1
      /\ issued + 1 \in 1 .. 2 * MaxFlows /\ outcome'[issued + 1] = "pending"
      /\ \A q \in 1 .. 2 * MaxFlows :
           q # issued + 1 => outcome'[q] = outcome[q] /\ kind'[q] = kind[q]
  BY ShowFacts DEF Announced
<1>2. /\ future'[flows[f].write] # "pending" /\ writes' = writes
      /\ \A g \in DOMAIN flows : g # f /\ flows[g].write # 0
           => future'[flows[g].write] = future[flows[g].write]
  BY HeardFacts DEF Announced, Heard
<1>3. /\ DOMAIN flows' = DOMAIN flows
      /\ \A g \in DOMAIN flows : g # f => flows'[g] = flows[g]
      /\ flows'[f].stage = "notifying" /\ flows'[f].write = flows[f].write
      /\ flows'[f].request = issued + 1
  BY DEF Announced, Becomes
<1>4. ASSUME NEW g \in DOMAIN flows
      PROVE  /\ flows[g].request # issued + 1
             /\ flows[g].request # 0 =>
                  /\ outcome'[flows[g].request] = outcome[flows[g].request]
                  /\ kind'[flows[g].request] = kind[flows[g].request]
  BY <1>1, CallFacts DEF FlowsSound
<1>5. WritesAwaited'
  BY <1>2, <1>3, CallFacts DEF WritesAwaited
<1>6. DialogsAwaited'
  <2>1. ASSUME NEW g \in DOMAIN flows, g # f
        PROVE  (flows[g].stage \in {"confirming", "notifying"}
                  <=> flows[g].request # 0 /\ outcome[flows[g].request] = "pending")'
    BY <2>1, <1>3, <1>4, CallFacts DEF DialogsAwaited
  <2>2. (flows[f].stage \in {"confirming", "notifying"}
           <=> flows[f].request # 0 /\ outcome[flows[f].request] = "pending")'
    BY <1>1, <1>3
  <2> QED
    BY <1>3, <2>1, <2>2 DEF DialogsAwaited
<1>7. OneFlowEach'
  BY <1>3, <1>4, OneFlowEachKept
<1>8. WritesHaveFlows'
  BY <1>2, <1>3, CallFacts DEF WritesHaveFlows
<1>9. FieldHasFlow'
  BY <1>1, <1>3 DEF FieldHasFlow, Waiting
<1>10. FlowsSound'
  <2>1. ASSUME NEW g \in DOMAIN flows, flows[g].stage = "confirming"
        PROVE  kind'[flows[g].request] = "confirm"
    BY <2>1, <1>4, CallFacts DEF FlowsSound, DialogsAwaited
  <2> QED
    <3>1. FlowsSound /\ Len(flows) \in Nat
      BY CallFacts
    <3>2. ASSUME NEW g \in DOMAIN flows, g # f
          PROVE  /\ flows'[g].write <= Len(writes') /\ flows'[g].request <= issued'
                 /\ flows'[g].stage = "confirming" =>
                      /\ flows'[g].kind = "delete" /\ flows'[g].write = 0
                      /\ kind'[flows'[g].request] = "confirm"
      <4>1. flows'[g] = flows[g] /\ writes' = writes
        BY <1>2, <1>3, <3>2
      <4>2. flows[g].request <= issued' /\ flows[g].write <= Len(writes)
        BY <1>1, <3>1, CallFacts DEF FlowsSound
      <4> QED
        BY <2>1, <3>1, <4>1, <4>2 DEF FlowsSound
    <3>3. flows'[f].write <= Len(writes') /\ flows'[f].request <= issued'
      BY <1>1, <1>2, <1>3, <3>1, CallFacts DEF FlowsSound
    <3> QED
      BY <1>3, <3>2, <3>3 DEF FlowsSound
<1> QED
  BY <1>5, <1>6, <1>7, <1>8, <1>9, <1>10, AwaitPartsNext

LEMMA DroppedKeepsAwaits ==
    ASSUME AppInv, NEW f \in DOMAIN flows, Dropped(f)
    PROVE  EveryAwaitHasItsCall' /\ FlowsSound'
<1>1. UNCHANGED <<writes, issued, kind, completer, outcome>>
  BY DEF Dropped, Heard, dialogVars
<1>2. /\ flows[f].stage = "writing" /\ future'[flows[f].write] # "pending"
      /\ ~(flows[f].request # 0 /\ outcome[flows[f].request] = "pending")
      /\ \A g \in DOMAIN flows : g # f /\ flows[g].write # 0
           => future'[flows[g].write] = future[flows[g].write]
  BY HeardFacts DEF Dropped
<1>3. /\ DOMAIN flows' = DOMAIN flows
      /\ \A g \in DOMAIN flows : g # f => flows'[g] = flows[g]
      /\ flows'[f].stage = "dead" /\ flows'[f].write = flows[f].write
      /\ flows'[f].request = flows[f].request
  BY DEF Dropped, Becomes
<1>4. WritesAwaited'
  <2>1. WritesAwaited
    BY CallFacts
  <2>2. ASSUME NEW g \in DOMAIN flows, g # f
        PROVE  (flows[g].stage = "writing"
                  <=> flows[g].write # 0 /\ future[flows[g].write] = "pending")'
    BY <1>2, <1>3, <2>1, <2>2 DEF WritesAwaited
  <2>3. ~(flows'[f].stage = "writing") /\ future'[flows'[f].write] # "pending"
    BY <1>2, <1>3
  <2> QED
    BY <1>3, <2>2, <2>3 DEF WritesAwaited
<1>5. DialogsAwaited'
  <2>1. ASSUME NEW g \in DOMAIN flows, g # f
        PROVE  (flows[g].stage \in {"confirming", "notifying"}
                  <=> flows[g].request # 0 /\ outcome[flows[g].request] = "pending")'
    BY <2>1, <1>1, <1>3, CallFacts DEF DialogsAwaited
  <2>2. (flows[f].stage \in {"confirming", "notifying"}
           <=> flows[f].request # 0 /\ outcome[flows[f].request] = "pending")'
    BY <1>1, <1>2, <1>3
  <2> QED
    BY <1>3, <2>1, <2>2 DEF DialogsAwaited
<1>6. OneFlowEach'
  BY <1>3, OneFlowEachKept
<1>7. WritesHaveFlows'
  <2>1. \A g \in DOMAIN flows : flows'[g].write = flows[g].write
    BY <1>3
  <2>2. ASSUME NEW w \in DOMAIN writes PROVE \E g \in DOMAIN flows : flows[g].write = w
    BY CallFacts DEF WritesHaveFlows
  <2> QED
    BY <2>1, <2>2, <1>1, <1>3 DEF WritesHaveFlows
<1>8. FieldHasFlow'
  BY <1>1, <1>2, <1>3, CallFacts DEF FieldHasFlow, Waiting
<1>9. FlowsSound'
  BY <1>1, <1>3, CallFacts DEF FlowsSound
<1> QED
  BY <1>4, <1>5, <1>6, <1>7, <1>8, <1>9, AwaitPartsNext

LEMMA CalmKeepsAwaits ==
    ASSUME AppInv, Calm
    PROVE  EveryAwaitHasItsCall' /\ FlowsSound'
BY DEF AppInv, Calm, EveryAwaitHasItsCall, FlowsSound, Waiting

LEMMA AwaitsStep ==
    ASSUME AppInv, [AppNext]_vars PROVE EveryAwaitHasItsCall' /\ FlowsSound'
BY StepsMoveCalls, CalmKeepsAwaits, BeginKeepsAwaits, ConfirmedKeepsAwaits,
   EndedKeepsAwaits, AnnouncedKeepsAwaits, DroppedKeepsAwaits DEF CallsMove

-----------------------------------------------------------------------------
(* The steps, by what they do to the list and its rows.                    *)

KnownDocs == {d \in Doc : Known(d)}

(* A snapshot that is not empty is handed over. *)
SnapshotTaken ==
    /\ SP!Deliver
    /\ Head(toApp).type = "snapshot"
    /\ Head(toApp).view # SP!NoDocs
    /\ tasks' = Listing(Head(toApp).view)
    /\ completed' = [d \in Doc |-> Head(toApp).view[d] = "done"]
    /\ rows' = PageRows(tab, tasks', completed')

ListsMove ==
    \/ UNCHANGED <<tasks, rows>>
    \/ UNCHANGED tasks /\ \E t \in Tab : rows' = PageRows(t, tasks, completed)
    \/ UNCHANGED rows /\ \E i \in DOMAIN tasks : tasks' = RemoveAt(tasks, i)
    \/ SnapshotTaken

LEMMA StepsMoveLists ==
    ASSUME ScreensTypeOK, [AppNext]_vars PROVE ListsMove
<1>1. tab \in Tab
  BY DEF ScreensTypeOK
<1>2. CASE ListGestures
  BY <1>2 DEF ListGestures, OnTabTapped, Delete, ToggleComplete, listVars, ListsMove
<1>3. CASE FormGestures
  BY <1>3 DEF FormGestures, ViewTask, AddTask, ToggleSwitch, SaveNew, SaveEdited,
              SaveInvalid, FlushTimeout, FormTimer, Back, listVars, ListsMove
<1>4. CASE ListenToPosts
  BY <1>1, <1>4 DEF ListenToPosts, Rebuild, ListsMove
<1>5. ASSUME NEW r, NEW answer, Press(r, answer) PROVE ListsMove
  <2>1. \/ UNCHANGED listVars
        \/ UNCHANGED tasks /\ Rebuild
        \/ \E f \in DOMAIN flows : FinishDelete(f)
    BY <1>5 DEF Press, Resume, FinishSave, ConfirmDelete
  <2>2. ASSUME NEW f, FinishDelete(f) PROVE ListsMove
    BY <2>2 DEF FinishDelete, ListsMove
  <2> QED
    BY <1>1, <2>1, <2>2 DEF listVars, Rebuild, ListsMove
<1>6. CASE Deliver
  <2>1. CASE Head(toApp).type = "snapshot"
    <3>1. OnSnapshot(Head(toApp).view) /\ SP!Deliver
      BY <1>6, <2>1, SameDeliver DEF Deliver
    <3> QED
      BY <3>1, <2>1, SameStoreTypes DEF OnSnapshot, listVars, ListsMove, SnapshotTaken
  <2>2. CASE Head(toApp).type # "snapshot"
    BY <1>1, <1>6, <2>2
       DEF Deliver, OnDeleteResult, OnSaveResult, Rebuild, listVars, ListsMove
  <2> QED
    BY <2>1, <2>2
<1>7. CASE UNCHANGED listVars
  BY <1>7 DEF listVars, ListsMove
<1> QED
  BY <1>2, <1>3, <1>4, <1>5, <1>6, <1>7
     DEF AppNext, Events, SnackTimeout, ServerAnswers, ServerEvents, vars, appVars

(* What Dart is handed names documents the store has or had, and reaches   *)
(* it only through a listener.                                             *)
LEMMA SnapshotIsKnown ==
    ASSUME StoreSound, toApp # <<>>, Head(toApp).type = "snapshot"
    PROVE  /\ Head(toApp).view \in SP!View
           /\ {d \in Doc : Head(toApp).view[d] # "absent"} \subseteq KnownDocs
           /\ listener \notin {"none", "waiting"}
<1>1. /\ 1 \in DOMAIN toApp /\ toApp[1] = Head(toApp) /\ Head(toApp) \in SP!Message
  BY HeadTailProperties, LenProperties DEF StoreSound, SP!StoreInv, SP!StoreTypeOK
<1>2. ~SP!IsResult(1)
  BY <1>1 DEF SP!IsResult
<1>3. \A d \in Doc : SP!Unused(d) => Head(toApp).view[d] = "absent"
  BY <1>1, <1>2 DEF StoreSound, SP!ShownInv, SP!UnusedUnseen, SP!Lacks, SP!Doc, Doc
<1>4. listener \notin {"none", "waiting"}
  BY <1>1, <1>2 DEF StoreSound, SP!ShownInv, SP!NoneShown
<1>5. Head(toApp).view \in SP!View
  BY <1>1 DEF SP!Message
<1> QED
  BY <1>3, <1>4, <1>5 DEF KnownDocs, Known

LEMMA KnownStays ==
    ASSUME AppInv, [AppNext]_vars, NEW d, Known(d) PROVE Known(d)'
<1>1. [SP!StoreNext]_SP!storeVars
  BY StepsKeepContract DEF AppInv
<1>2. SP!StoreTypeOK /\ SP!RepliesInv /\ d \in SP!Doc
  BY DEF AppInv, StoreSound, SP!StoreInv, Known, SP!Doc, Doc
<1>3. SP!Unused(d)' => SP!Unused(d)
  BY <1>1, <1>2, SP!UsedStays, StoreBounds, Zenon
<1> QED
  BY <1>3 DEF Known

LEMMA KnownList ==
    ASSUME NEW list \in Seq(Doc), \A i \in DOMAIN list : Known(list[i])
    PROVE  list \in Seq(KnownDocs)
<1>1. \A i \in 1 .. Len(list) : list[i] \in KnownDocs
  BY ElementOfSeq, LenProperties DEF KnownDocs
<1>2. list = [i \in 1 .. Len(list) |-> list[i]] /\ Len(list) \in Nat
  BY LenProperties
<1> HIDE DEF KnownDocs
<1> QED
  BY <1>1, <1>2

LEMMA ListsOfKnown ==
    ASSUME AppInv PROVE tasks \in Seq(KnownDocs) /\ rows \in Seq(KnownDocs)
BY KnownList DEF AppInv, ScreensTypeOK, DocsAreKnown

LEMMA ListsStep ==
    ASSUME AppInv, [AppNext]_vars
    PROVE  /\ tasks' \in Seq(Doc) /\ Len(tasks') <= NumDocs
           /\ rows' \in Seq(Doc) /\ Len(rows') <= NumDocs
           /\ (\A i \in DOMAIN tasks : Known(tasks[i]))'
           /\ (\A i \in DOMAIN rows : Known(rows[i]))'
<1>1. /\ tasks \in Seq(KnownDocs) /\ Len(tasks) <= NumDocs
      /\ rows \in Seq(KnownDocs) /\ Len(rows) <= NumDocs
      /\ tab \in Tab
      /\ Len(tasks) \in Nat /\ Len(rows) \in Nat /\ NumDocs \in Nat
  BY ListsOfKnown, AppAssumption, LenProperties DEF AppInv, ScreensTypeOK
<1>2. /\ tasks' \in Seq(KnownDocs) /\ Len(tasks') <= NumDocs
      /\ rows' \in Seq(KnownDocs) /\ Len(rows') <= NumDocs
  <2>1. CASE UNCHANGED <<tasks, rows>>
    BY <1>1, <2>1
  <2>2. CASE UNCHANGED tasks /\ \E t \in Tab : rows' = PageRows(t, tasks, completed)
    <3>1. PICK t \in Tab : rows' = PageRows(t, tasks, completed)
      BY <2>2
    <3>2. rows' \in Seq(KnownDocs) /\ Len(rows') <= Len(tasks)
      BY <1>1, <3>1, RowsOfList
    <3>3. Len(rows') \in Nat
      BY <3>2, LenProperties
    <3> QED
      BY <1>1, <2>2, <3>2, <3>3
  <2>3. CASE UNCHANGED rows /\ \E i \in DOMAIN tasks : tasks' = RemoveAt(tasks, i)
    <3>1. tasks' \in Seq(KnownDocs) /\ Len(tasks') < Len(tasks)
      BY <1>1, <2>3, RemovalFromList
    <3>2. Len(tasks') \in Nat
      BY <3>1, LenProperties
    <3> QED
      BY <1>1, <2>3, <3>1, <3>2
  <2>4. CASE SnapshotTaken
    <3> DEFINE v == Head(toApp).view
               S == {d \in Doc : v[d] # "absent"}
    <3>1. S \subseteq KnownDocs
      BY <2>4, SnapshotIsKnown DEF AppInv, SnapshotTaken, SP!Deliver
    <3>2. tasks' \in Seq(S) /\ Len(tasks') <= NumDocs
      BY <2>4, ListingOfView DEF SnapshotTaken
    <3> HIDE DEF S
    <3>3. tasks' \in Seq(KnownDocs) /\ Len(tasks') \in Nat
      BY <3>1, <3>2, SeqMonotonic, LenProperties
    <3>4. rows' = PageRows(tab, tasks', completed')
      BY <2>4 DEF SnapshotTaken
    <3>5. rows' \in Seq(KnownDocs) /\ Len(rows') <= Len(tasks')
      BY <1>1, <3>3, <3>4, RowsOfList
    <3>6. Len(rows') \in Nat
      BY <3>5, LenProperties
    <3> QED
      BY <1>1, <3>2, <3>3, <3>5, <3>6
  <2>5. ListsMove
    BY StepsMoveLists DEF AppInv
  <2> QED
    BY <2>1, <2>2, <2>3, <2>4, <2>5 DEF ListsMove
<1>3. KnownDocs \subseteq Doc /\ \A d \in KnownDocs : Known(d)'
  BY KnownStays DEF KnownDocs
<1>4. \A list \in Seq(KnownDocs) : \A i \in DOMAIN list : list[i] \in KnownDocs
  BY ElementOfSeq, LenProperties
<1>5. (\A i \in DOMAIN tasks : Known(tasks[i]))' /\ (\A i \in DOMAIN rows : Known(rows[i]))'
  BY <1>2, <1>3, <1>4
<1> HIDE DEF KnownDocs
<1>6. tasks' \in Seq(Doc) /\ rows' \in Seq(Doc)
  BY <1>2, <1>3, SeqMonotonic
<1> QED
  BY <1>2, <1>5, <1>6

(* A listener is not taken away. *)
LEMMA ListenerStays ==
    ASSUME [AppNext]_vars, listener' = "none" PROVE listener = "none"
<1>1. \A op, d, c, rewritten : Store!WriteMutations(op, d, c, rewritten) => listener = "none"
  BY DEF Store!WriteMutations, Store!Emit
<1>2. Store!ServerAnswers \/ Store!WatchEvents \/ Store!GoOffline => listener = "none"
  BY DEF Store!ServerAnswers, Store!HandleSuccessfulWrite, Store!HandleRejectedWrite,
         Store!WatchEvents, Store!ApplyRemoteEvent, Store!GoOffline, Store!Emit
<1>3. ~Store!Listen /\ ~Store!RejectListen
  BY DEF Store!Listen, Store!RejectListen
<1>4. CASE ListGestures
  BY <1>1, <1>4 DEF ListGestures, OnTabTapped, Delete, ToggleComplete, StartWriting, storeVars
<1>5. CASE FormGestures
  BY <1>1, <1>5 DEF FormGestures, ViewTask, AddTask, ToggleSwitch, SaveNew, SaveEdited,
              SaveInvalid, FlushTimeout, FormTimer, Back, StartWriting, storeVars
<1>6. ASSUME NEW r, NEW answer, Press(r, answer) PROVE listener = "none"
  BY <1>1, <1>6 DEF Press, Resume, FinishSave, FinishDelete, ConfirmDelete, storeVars
<1>7. CASE Deliver
  BY <1>7 DEF Deliver, Store!Deliver
<1> QED
  BY <1>2, <1>3, <1>4, <1>5, <1>6, <1>7
     DEF AppNext, Events, ListenToPosts, SnackTimeout, ServerAnswers, ServerEvents,
         vars, storeVars

LEMMA NoListStep ==
    ASSUME AppInv, [AppNext]_vars PROVE NoListYet'
<1> SUFFICES ASSUME listener' = "none" PROVE tasks' = <<>>
  BY DEF NoListYet
<1>1. listener = "none" /\ tasks = <<>>
  BY ListenerStays DEF AppInv, NoListYet
<1>2. ~SnapshotTaken
  BY <1>1, SnapshotIsKnown DEF AppInv, SnapshotTaken, SP!Deliver
<1>3. DOMAIN tasks = {}
  BY <1>1
<1> QED
  BY <1>1, <1>2, <1>3, StepsMoveLists DEF AppInv, ListsMove

-----------------------------------------------------------------------------
(* The steps, by what they do to the form and to the flags.                *)

LEMMA FlowsStep ==
    ASSUME AppInv, CallsMove
    PROVE  /\ flows' \in Seq(Flow) /\ Len(flows') <= MaxFlows
           /\ Len(flows) \in Nat /\ Len(flows') \in Nat /\ Len(flows) <= Len(flows')
<1>1. flows \in Seq(Flow) /\ Len(flows) \in Nat /\ Len(flows) <= MaxFlows /\ MaxFlows \in Nat
  BY AppAssumption, LenProperties DEF AppInv, ScreensTypeOK
<1>2. ASSUME NEW flow, Begins(flow)
      PROVE  flows' \in Seq(Flow) /\ Len(flows') = Len(flows) + 1 /\ Len(flows) < MaxFlows
  BY <1>2 DEF Begins
<1>3. ASSUME NEW f, NEW stage, NEW write, NEW request, Becomes(f, stage, write, request)
      PROVE  flows' \in Seq(Flow) /\ Len(flows') = Len(flows)
  BY <1>3 DEF Becomes
<1>4. CASE Calm
  BY <1>1, <1>4 DEF Calm
<1>5. CASE \E flow \in Flow : SaveBegins(flow) \/ DeleteBegins(flow)
  BY <1>1, <1>2, <1>5 DEF SaveBegins, DeleteBegins
<1>6. CASE \E f, r : Confirmed(f, r)
  BY <1>1, <1>3, <1>6 DEF Confirmed
<1>7. CASE \E f, r, answer, stage : Ended(f, r, answer, stage)
  BY <1>1, <1>3, <1>7 DEF Ended
<1>8. CASE \E f, ok, k : Announced(f, ok, k)
  BY <1>1, <1>3, <1>8 DEF Announced
<1>9. CASE \E f : Dropped(f)
  BY <1>1, <1>3, <1>9 DEF Dropped
<1> QED
  BY <1>4, <1>5, <1>6, <1>7, <1>8, <1>9 DEF CallsMove

(* The form is closed, opened on a row or on nothing, or changed while it  *)
(* is open; a timer is added with a call.                                  *)
FormChanges ==
    /\ form' \in [mode : {"none", "new", "edit"}, doc : Doc \union {0},
                  shared : BOOLEAN, done : BOOLEAN, timers : Nat]
    /\ form'.mode = form.mode /\ form'.doc = form.doc
    /\ form'.shared => form.shared
    /\ form'.timers <= Len(flows')

FormMoves ==
    \/ form' \in {NoForm, [NoForm EXCEPT !.mode = "new"]}
    \/ \E i \in DOMAIN rows :
          form' = [NoForm EXCEPT !.mode = "edit", !.doc = rows[i], !.shared = TRUE]
    \/ FormChanges

LEMMA StepsMoveForm ==
    ASSUME AppInv, [AppNext]_vars PROVE FormMoves
<1>0. /\ form \in Form /\ form.timers \in Nat /\ form.timers <= Len(flows)
      /\ Len(flows) \in Nat /\ Len(flows') \in Nat /\ Len(flows) <= Len(flows')
      /\ form.shared \in BOOLEAN /\ form.done \in BOOLEAN
      /\ (form.shared => completed[form.doc] \in BOOLEAN)
  <2>1. Len(flows) \in Nat /\ Len(flows') \in Nat /\ Len(flows) <= Len(flows')
    BY StepsMoveCalls, FlowsStep
  <2>2. form \in Form /\ form.timers <= Len(flows)
    BY DEF AppInv, ScreensTypeOK, FormSound
  <2>3. form.shared => form.doc \in Doc /\ completed \in [Doc -> BOOLEAN]
    BY DEF AppInv, ScreensTypeOK, FormSound, DocsAreKnown, Known
  <2> QED
    BY <2>1, <2>2, <2>3 DEF Form
<1> DEFINE Changed(shared, done, timers) ==
              form' = [form EXCEPT !.shared = shared, !.done = done, !.timers = timers]
<1>1. ASSUME NEW shared \in BOOLEAN, NEW done \in BOOLEAN, NEW timers \in Nat,
             Changed(shared, done, timers),
             shared => form.shared, timers <= Len(flows')
      PROVE  FormMoves
  BY <1>0, <1>1 DEF FormChanges, FormMoves, Form
<1>10. form' = form => FormChanges
  BY <1>0 DEF FormChanges, Form
<1>2. CASE ListGestures
  BY <1>10, <1>2 DEF ListGestures, OnTabTapped, Delete, ToggleComplete, pageVars, FormMoves
<1>3. CASE PopMain
  BY <1>10, <1>3 DEF PopMain, FormMoves
<1>4. CASE ToggleSwitch
  <2>1. CASE form' = [form EXCEPT !.done = ~@]
    <3>1. PICK done \in BOOLEAN : done = ~form.done
      OBVIOUS
    <3>2. Changed(form.shared, done, form.timers)
      BY <2>1, <3>1, <1>0 DEF Form
    <3>3. form.timers <= Len(flows')
      BY <1>0
    <3> HIDE DEF Changed
    <3> QED
      BY <3>2, <3>3, <1>0, <1>1
  <2> QED
    BY <2>1, <1>10, <1>4 DEF ToggleSwitch, FormMoves
<1>5. ASSUME NEW rewritten, SaveEdited(rewritten) PROVE FormMoves
  <2>1. form' = [form EXCEPT !.timers = @ + 1] /\ \E flow : flows' = Append(flows, flow)
    BY <1>5 DEF SaveEdited, StartWriting, StartFlow
  <2>2. Len(flows') = Len(flows) + 1
    BY <2>1 DEF AppInv, ScreensTypeOK
  <2>3. Changed(form.shared, form.done, form.timers + 1)
    BY <2>1, <1>0 DEF Form
  <2>4. form.timers + 1 \in Nat /\ form.timers + 1 <= Len(flows')
    BY <2>2, <1>0
  <2> HIDE DEF Changed
  <2> QED
    BY <2>3, <2>4, <1>0, <1>1
<1>6. CASE FormTimer
  <2>1. CASE form.timers > 0 /\ form' = [form EXCEPT !.timers = @ - 1]
    <3>1. Changed(form.shared, form.done, form.timers - 1)
      BY <2>1, <1>0 DEF Form
    <3>2. form.timers - 1 \in Nat /\ form.timers - 1 <= Len(flows')
      BY <2>1, <1>0
    <3> HIDE DEF Changed
    <3> QED
      BY <3>1, <3>2, <1>0, <1>1
  <2> QED
    BY <2>1, <1>6 DEF FormTimer, FormMoves
<1>7. CASE FormGestures
  BY <1>10, <1>3, <1>4, <1>5, <1>6, <1>7
     DEF FormGestures, ViewTask, AddTask, SaveNew, SaveInvalid, FlushTimeout, Back,
         pageVars, FormMoves
<1>8. ASSUME NEW r, NEW answer, Press(r, answer) PROVE FormMoves
  BY <1>10, <1>3, <1>8
     DEF Press, Resume, FinishSave, FinishDelete, ConfirmDelete, pageVars, FormMoves
<1>9. CASE Deliver
  <2>1. CASE form.shared /\ form' = [form EXCEPT !.shared = FALSE, !.done = completed[form.doc]]
    <3>1. PICK done \in BOOLEAN, shared \in BOOLEAN :
            done = completed[form.doc] /\ shared = FALSE
      BY <2>1, <1>0
    <3>2. Changed(shared, done, form.timers)
      BY <2>1, <3>1, <1>0 DEF Form
    <3>3. form.timers <= Len(flows')
      BY <1>0
    <3> HIDE DEF Changed
    <3> QED
      BY <2>1, <3>1, <3>2, <3>3, <1>0, <1>1
  <2> QED
    BY <2>1, <1>10, <1>9 DEF Deliver, OnSnapshot, FormMoves
<1> QED
  BY <1>10, <1>2, <1>7, <1>8, <1>9
     DEF AppNext, Events, ListenToPosts, SnackTimeout, ServerAnswers, ServerEvents,
         vars, appVars, pageVars, FormMoves

LEMMA FormStep ==
    ASSUME AppInv, [AppNext]_vars
    PROVE  /\ form' \in Form /\ FormSound'
           /\ (form.mode = "edit" => Known(form.doc))'
<1>1. /\ form \in Form /\ rows \in Seq(Doc) /\ MaxFlows \in Nat
      /\ \A i \in DOMAIN rows : Known(rows[i])
      /\ form.mode = "edit" => Known(form.doc)
      /\ form.shared => form.mode = "edit"
  BY AppAssumption DEF AppInv, ScreensTypeOK, DocsAreKnown, FormSound
<1>2. Len(flows') \in Nat /\ Len(flows') <= MaxFlows
  BY StepsMoveCalls, FlowsStep
<1>3. \A d : Known(d) => Known(d)' /\ d \in Doc
  BY KnownStays DEF Known
<1>4. CASE form' \in {NoForm, [NoForm EXCEPT !.mode = "new"]}
  <2>1. PICK mode \in {"none", "new"} :
          form' = [mode |-> mode, doc |-> 0, shared |-> FALSE, done |-> FALSE, timers |-> 0]
    BY <1>4 DEF NoForm
  <2>2. form' \in Form /\ form'.mode # "edit" /\ ~form'.shared /\ form'.timers = 0
    BY <1>1, <2>1 DEF Form
  <2> QED
    BY <1>2, <2>2 DEF FormSound
<1>5. CASE \E i \in DOMAIN rows :
             form' = [NoForm EXCEPT !.mode = "edit", !.doc = rows[i], !.shared = TRUE]
  <2>1. PICK i \in DOMAIN rows :
           form' = [NoForm EXCEPT !.mode = "edit", !.doc = rows[i], !.shared = TRUE]
    BY <1>5
  <2>2. PICK d \in Doc : d = rows[i] /\ Known(d)
    BY <1>1, <1>3
  <2>3. form' = [mode |-> "edit", doc |-> d, shared |-> TRUE, done |-> FALSE, timers |-> 0]
    BY <2>1, <2>2 DEF NoForm
  <2>6. form'.doc = d /\ form' \in Form /\ form'.mode = "edit" /\ form'.timers = 0
    BY <1>1, <2>3 DEF Form
  <2>4. FormSound'
    BY <1>2, <2>6 DEF FormSound
  <2>5. Known(d)'
    BY <1>3, <2>2
  <2> QED
    BY <2>6, <2>4, <2>5
<1>6. CASE FormChanges
  <2>1. /\ form'.doc = form.doc /\ form'.mode = form.mode
        /\ form' \in Form
    BY <1>1, <1>2, <1>6 DEF FormChanges, Form
  <2>2. FormSound'
    BY <1>1, <1>6, <2>1 DEF FormChanges, FormSound
  <2>3. PICK d : d = form.doc
    OBVIOUS
  <2>4. form.mode = "edit" => Known(d)'
    BY <1>1, <1>3, <2>3
  <2> QED
    BY <2>1, <2>2, <2>3, <2>4
<1> QED
  BY <1>4, <1>5, <1>6, StepsMoveForm DEF FormMoves

LEMMA FlagsStep ==
    ASSUME AppInv, [AppNext]_vars
    PROVE  /\ completed' \in [Doc -> BOOLEAN]
           /\ taskBusy' \in BOOLEAN /\ createBusy' \in BOOLEAN
           /\ tab' \in Tab /\ flushes' \in 0 .. MaxFlushes
<1>1. /\ completed \in [Doc -> BOOLEAN]
      /\ taskBusy \in BOOLEAN /\ createBusy \in BOOLEAN
      /\ tab \in Tab /\ flushes \in 0 .. MaxFlushes /\ MaxFlushes \in Nat
  BY AppAssumption DEF AppInv, ScreensTypeOK
<1>2. \A d : completed' = [completed EXCEPT ![d] = ~@] => completed' \in [Doc -> BOOLEAN]
  BY <1>1
<1>3. PopMain => flushes' \in 0 .. MaxFlushes
  BY <1>1 DEF PopMain
<1>4. CASE ListGestures
  BY <1>1, <1>2, <1>4
     DEF ListGestures, OnTabTapped, Delete, ToggleComplete, StartWriting, pageVars, listVars
<1>5. CASE FormGestures
  <2>1. CASE ToggleSwitch
    BY <1>1, <1>2, <2>1 DEF ToggleSwitch
  <2>2. CASE (\E d : SaveNew(d)) \/ (\E rewritten : SaveEdited(rewritten))
    BY <1>1, <2>2 DEF SaveNew, SaveEdited, StartWriting, pageVars, listVars
  <2>3. CASE SaveInvalid \/ FlushTimeout \/ FormTimer
    BY <1>1, <2>3 DEF SaveInvalid, FlushTimeout, FormTimer, listVars
  <2>4. CASE AddTask \/ (\E i : ViewTask(i)) \/ Back
    BY <1>1, <1>3, <2>4 DEF AddTask, ViewTask, Back, listVars
  <2> QED
    BY <1>5, <2>1, <2>2, <2>3, <2>4 DEF FormGestures
<1>6. ASSUME NEW r, NEW answer, Press(r, answer)
      PROVE  /\ UNCHANGED <<completed, createBusy, tab>> /\ taskBusy' \in BOOLEAN
             /\ flushes' \in 0 .. MaxFlushes
  BY <1>1, <1>3, <1>6
     DEF Press, Resume, FinishSave, FinishDelete, ConfirmDelete, pageVars, listVars
<1>7. CASE Deliver
  BY <1>1, <1>7 DEF Deliver, OnSnapshot, OnDeleteResult, OnSaveResult, listVars
<1>8. CASE ListenToPosts
  BY <1>1, <1>8 DEF ListenToPosts, pageVars
<1>9. CASE UNCHANGED appVars
  BY <1>1, <1>9 DEF appVars, pageVars, listVars
<1>10. CASE \E r \in Dialogs!Request, answer \in {"yes", "no"} : Press(r, answer)
  BY <1>1, <1>6, <1>10
<1> QED
  BY <1>4, <1>5, <1>7, <1>8, <1>9, <1>10
     DEF AppNext, Events, SnackTimeout, ServerAnswers, ServerEvents, vars

-----------------------------------------------------------------------------
(* The invariant holds.                                                    *)

LEMMA AppInvStep == AppInv /\ [AppNext]_vars => AppInv'
<1> SUFFICES ASSUME AppInv, [AppNext]_vars PROVE AppInv'
  OBVIOUS
<1>1. DialogSound' /\ StoreSound'
  BY AppContractStep DEF AppInv
<1>2. EveryAwaitHasItsCall' /\ FlowsSound'
  BY AwaitsStep
<1>3. ScreensTypeOK'
  BY ListsStep, FormStep, FlagsStep, StepsMoveCalls, FlowsStep DEF ScreensTypeOK
<1>4. DocsAreKnown'
  BY ListsStep, FormStep DEF DocsAreKnown
<1>5. FormSound' /\ NoListYet'
  BY FormStep, NoListStep
<1> QED
  BY <1>1, <1>2, <1>3, <1>4, <1>5 DEF AppInv

LEMMA AppInvInit == AppInit => AppInv
<1> SUFFICES ASSUME AppInit PROVE AppInv
  OBVIOUS
<1>1. DP!DialogInit /\ SP!StoreInit
  BY SameDialogs, SameStoreTypes DEF AppInit
<1>2. DialogSound
  BY <1>1, DP!DialogInvInit, DialogBounds, Zenon DEF DialogSound
<1>3. StoreSound
  <2>1. SP!StoreInv
    BY <1>1, SP!StoreInvInit, StoreBounds, Zenon
  <2>2. SP!RepliesInv
    BY <1>1, SP!RepliesInvInit, StoreBounds, Zenon
  <2>3. SP!WritesInv /\ SP!ShownInv
    BY <1>1, SP!ShownInvInit, StoreBounds, Zenon
  <2> QED
    BY <2>1, <2>2, <2>3 DEF StoreSound
<1>4. ScreensTypeOK
  <2>1. <<>> \in Seq(Doc) /\ <<>> \in Seq(Flow) /\ Len(<<>>) = 0
    BY EmptySeq
  <2>2. NoForm \in Form
    BY AppAssumption DEF NoForm, Form
  <2>3. completed \in [Doc -> BOOLEAN] /\ tab \in Tab
    BY DEF AppInit, Tab
  <2>4. /\ tasks = <<>> /\ rows = <<>> /\ flows = <<>> /\ form = NoForm
        /\ flushes = 0 /\ taskBusy = FALSE /\ createBusy = FALSE
    BY DEF AppInit
  <2>5. 0 <= NumDocs /\ 0 <= MaxFlows /\ 0 \in 0 .. MaxFlushes
    BY AppAssumption
  <2> QED
    BY <2>1, <2>2, <2>3, <2>4, <2>5 DEF ScreensTypeOK
<1>5. DOMAIN tasks = {} /\ DOMAIN rows = {} /\ DOMAIN flows = {} /\ DOMAIN writes = {}
      /\ completer = 0
  BY <1>1 DEF AppInit, SP!StoreInit, DP!DialogInit, DP!NoRequest
<1>6. DocsAreKnown /\ FormSound /\ FlowsSound /\ EveryAwaitHasItsCall /\ NoListYet
  BY <1>5 DEF AppInit, NoForm, DocsAreKnown, FormSound, FlowsSound, EveryAwaitHasItsCall,
              NoListYet
<1> QED
  BY <1>2, <1>3, <1>4, <1>6 DEF AppInv

THEOREM AppInvariant == AppSpec => []AppInv
<1>1. AppInit => AppInv
  BY AppInvInit
<1>2. AppInv /\ [AppNext]_vars => AppInv'
  BY AppInvStep
<1> QED
  BY <1>1, <1>2, PTL DEF AppSpec

(* Every field of the screens, the dialogs and the store has its type. *)
THEOREM AppTypeCorrect == AppSpec => []AppTypeOK
<1>1. AppInv => AppTypeOK
  BY SameDialogs, SameStoreTypes
     DEF AppInv, DialogSound, DP!DialogInv, StoreSound, SP!StoreInv, ScreensTypeOK, AppTypeOK
<1> QED
  BY <1>1, AppInvariant, PTL

(* Every await of deletePost, update and addPost has its call, and the     *)
(* completer in DialogService always has a flow that awaits it.            *)
THEOREM AwaitsAlwaysHaveCalls == AppSpec => []EveryAwaitHasItsCall
<1>1. AppInv => EveryAwaitHasItsCall
  BY DEF AppInv
<1> QED
  BY <1>1, AppInvariant, PTL

-----------------------------------------------------------------------------
(* The screens are one of the callers that DialogService and Firestore     *)
(* allow, so what is proved of those is true of the app: no other module   *)
(* has to be trusted with a precondition.                                  *)

LEMMA SameNext ==
    /\ SP!StoreNext => Store!StoreNext
    /\ DP!DialogNext => Dialogs!DialogNext
<1>1. \A d : SP!CallerWrites(d) => Store!CallerWrites(d)
  BY SameWrite, SameStoreTypes
     DEF SP!CallerWrites, Store!CallerWrites, SP!Content, Store!Content
<1>2. SP!Restart => Store!Restart
  BY SameStoreTypes DEF SP!Restart, Store!Restart, SP!Write, Store!Write
<1>3. SP!StoreNext => Store!StoreNext
  BY <1>1, <1>2, SameListen, SameAnswers, SameEvents, SameDeliver
     DEF SP!StoreNext, Store!StoreNext, SP!Doc, Store!Doc
<1>4. DP!DialogNext => Dialogs!DialogNext
  BY SameDialogs
     DEF DP!DialogNext, Dialogs!DialogNext, DP!Kind, Dialogs!Kind, DP!Request,
         Dialogs!Request
<1> QED
  BY <1>3, <1>4

THEOREM ScreensAreCallers ==
    AppSpec => /\ Dialogs!DialogInit /\ [][Dialogs!DialogNext]_dialogVars
               /\ Store!StoreInit /\ [][Store!StoreNext]_storeVars
<1>1. AppInit => Dialogs!DialogInit /\ Store!StoreInit
  BY DEF AppInit
<1>2. AppInv /\ [AppNext]_vars
        => [Dialogs!DialogNext]_dialogVars /\ [Store!StoreNext]_storeVars
  <2> SUFFICES ASSUME AppInv, [AppNext]_vars
               PROVE  [Dialogs!DialogNext]_dialogVars /\ [Store!StoreNext]_storeVars
    OBVIOUS
  <2>1. [SP!StoreNext]_SP!storeVars /\ [DP!DialogNext]_DP!dialogVars
    BY StepsKeepContract DEF AppInv
  <2> QED
    BY <2>1, SameNext DEF SP!storeVars, storeVars, DP!dialogVars, dialogVars
<1> QED
  BY <1>1, <1>2, AppInvariant, PTL DEF AppSpec

-----------------------------------------------------------------------------
(* A press that answers a confirmation closes that confirmation. *)
LEMMA ConfirmationCloses ==
    ASSUME AppInv, NEW f \in DOMAIN flows, NEW r, Confirmed(f, r)
    PROVE  /\ kind[flows[f].request] = "confirm"
           /\ outcome'[flows[f].request] = "yes"
           /\ routes' = routes \ {flows[f].request}
<1>1. /\ flows[f].request = completer /\ kind[completer] = "confirm"
      /\ outcome'[completer] = "yes" /\ completer # 0
      /\ DP!DialogComplete(r, "yes")
  BY PressFacts, CallFacts DEF Confirmed, FieldAnswered, Waiting, FlowsSound
<1>2. PICK top \in routes : DP!OnTop(top) /\ routes' = routes \ {top}
  BY <1>1 DEF DP!DialogComplete, DP!PopTop
<1>3. DP!DialogInv /\ completer # DP!NoRequest /\ top \in DP!Request
  BY <1>1, <1>2 DEF AppInv, DialogSound, DP!NoRequest, DP!DialogInv, DP!DialogTypeOK
<1>4. kind[completer] # "snack"
  BY <1>1
<1>5. top = completer
  BY <1>2, <1>3, <1>4, DP!NewestDialogIsOnTop, DialogBounds, Zenon
<1> QED
  BY <1>1, <1>2, <1>5

(* A document is deleted only on the Yes of the confirmation of the flow   *)
(* that deletes it.                                                        *)
THEOREM DeletedOnlyOnOwnYes == AppSpec => DeletedOnOwnYes
<1>1. ASSUME AppInv, [AppNext]_vars, Len(writes') > Len(writes), Last(writes').op = "delete"
      PROVE  \E f \in DOMAIN flows :
               /\ flows[f].stage = "confirming" /\ flows'[f].stage = "writing"
               /\ kind[flows[f].request] = "confirm"
               /\ outcome'[flows[f].request] = "yes"
               /\ routes' = routes \ {flows[f].request}
  <2>1. Len(writes) \in Nat /\ writes \in Seq(SP!Mutation)
    BY <1>1, CallFacts DEF AppInv, StoreSound, SP!StoreInv, SP!StoreTypeOK
  <2>2. writes' # writes
    BY <1>1, <2>1
  <2>3. ASSUME NEW op, WriteIssued(op) PROVE op = "delete"
    <3>1. PICK m : writes' = Append(writes, m) /\ m.op = op
      BY <2>3 DEF WriteIssued
    <3>2. Last(writes') = m
      BY <3>1, <2>1 DEF Last
    <3> QED
      BY <3>1, <3>2, <1>1
  <2>4. ~ \E flow : SaveBegins(flow)
    BY <2>3 DEF SaveBegins
  <2>5. PICK f \in DOMAIN flows, r \in DP!Request : Confirmed(f, r)
    <3>1. CallsMove
      BY <1>1, StepsMoveCalls
    <3> QED
      BY <3>1, <2>2, <2>4
         DEF CallsMove, Calm, DeleteBegins, Ended, Announced, Dropped, Heard
  <2>6. flows[f].stage = "confirming" /\ flows'[f].stage = "writing"
    BY <2>5 DEF Confirmed, Becomes
  <2> QED
    BY <1>1, <2>5, <2>6, ConfirmationCloses
<1>2. AppInv /\ [AppNext]_vars =>
        [(Len(writes') > Len(writes) /\ Last(writes').op = "delete")
          => \E f \in DOMAIN flows :
               /\ flows[f].stage = "confirming" /\ flows'[f].stage = "writing"
               /\ kind[flows[f].request] = "confirm"
               /\ outcome'[flows[f].request] = "yes"
               /\ routes' = routes \ {flows[f].request}]_vars
  BY <1>1
<1> QED
  BY <1>2, AppInvariant, PTL DEF AppSpec, DeletedOnOwnYes

-----------------------------------------------------------------------------
(* The list and the snapshots.                                             *)

(* A call that has ended stays ended, and each stays what it is. *)
LEMMA EndedStays ==
    ASSUME AppInv, [AppNext]_vars, NEW f \in DOMAIN flows
    PROVE  /\ f \in DOMAIN flows' /\ flows'[f].kind = flows[f].kind
           /\ flows[f].stage = "done" => flows'[f].stage = "done"
<1>1. DOMAIN flows = 1 .. Len(flows) /\ Len(flows) \in Nat
  BY CallFacts
<1>2. ASSUME NEW g \in DOMAIN flows, NEW stage, NEW write, NEW request,
             Becomes(g, stage, write, request), flows[g].stage # "done"
      PROVE  /\ f \in DOMAIN flows' /\ flows'[f].kind = flows[f].kind
             /\ flows[f].stage = "done" => flows'[f].stage = "done"
  BY <1>2 DEF Becomes
<1>3. ASSUME NEW flow, Begins(flow)
      PROVE  /\ f \in DOMAIN flows' /\ flows'[f].kind = flows[f].kind
             /\ flows[f].stage = "done" => flows'[f].stage = "done"
  BY <1>1, <1>3 DEF Begins
<1>4. CASE Calm
  BY <1>4 DEF Calm
<1>5. CASE \E flow \in Flow : SaveBegins(flow) \/ DeleteBegins(flow)
  BY <1>3, <1>5 DEF SaveBegins, DeleteBegins
<1>6. ASSUME NEW g \in DOMAIN flows, NEW r, Confirmed(g, r)
      PROVE  /\ f \in DOMAIN flows' /\ flows'[f].kind = flows[f].kind
             /\ flows[f].stage = "done" => flows'[f].stage = "done"
  BY <1>2, <1>6 DEF Confirmed
<1>7. ASSUME NEW g \in DOMAIN flows, NEW r, NEW answer, NEW stage, Ended(g, r, answer, stage)
      PROVE  /\ f \in DOMAIN flows' /\ flows'[f].kind = flows[f].kind
             /\ flows[f].stage = "done" => flows'[f].stage = "done"
  BY <1>2, <1>7 DEF Ended, Waiting
<1>8. ASSUME NEW g \in DOMAIN flows, NEW ok \in BOOLEAN, NEW k, Announced(g, ok, k)
      PROVE  /\ f \in DOMAIN flows' /\ flows'[f].kind = flows[f].kind
             /\ flows[f].stage = "done" => flows'[f].stage = "done"
  BY <1>2, <1>8, HeardFacts DEF Announced
<1>9. ASSUME NEW g \in DOMAIN flows, Dropped(g)
      PROVE  /\ f \in DOMAIN flows' /\ flows'[f].kind = flows[f].kind
             /\ flows[f].stage = "done" => flows'[f].stage = "done"
  BY <1>2, <1>9, HeardFacts DEF Dropped
<1> QED
  BY <1>4, <1>5, <1>6, <1>7, <1>8, <1>9, StepsMoveCalls DEF CallsMove

(* The steps, by what they do to the list and the last snapshot: a list    *)
(* that loses an entry loses it to a delete that ends.                     *)
ListAndSnapshotMove ==
    \/ UNCHANGED <<tasks, seen>>
    \/ /\ UNCHANGED seen
       /\ \E f \in DOMAIN flows : flows[f].kind = "delete" /\ flows'[f].stage = "done"
       /\ tasks' = tasks \/ \E i \in DOMAIN tasks : tasks' = RemoveAt(tasks, i)
    \/ SnapshotTaken /\ seen' = Head(toApp).view
    \/ seen' = SP!NoDocs

LEMMA StepsMoveListAndSnapshot ==
    ASSUME AppInv, [AppNext]_vars PROVE ListAndSnapshotMove
<1>1. \A op, d, c, rewritten : Store!WriteMutations(op, d, c, rewritten) => UNCHANGED seen
  BY DEF Store!WriteMutations
<1>2. CASE ListGestures
  BY <1>1, <1>2 DEF ListGestures, OnTabTapped, Delete, ToggleComplete, StartWriting,
                    listVars, storeVars, ListAndSnapshotMove
<1>3. CASE FormGestures
  BY <1>1, <1>3
     DEF FormGestures, ViewTask, AddTask, ToggleSwitch, SaveNew, SaveEdited, SaveInvalid,
         FlushTimeout, FormTimer, Back, StartWriting, listVars, storeVars,
         ListAndSnapshotMove
<1>4. CASE ListenToPosts
  BY <1>4 DEF ListenToPosts, Store!Listen, ListAndSnapshotMove
<1>5. ASSUME NEW r, NEW answer, Press(r, answer) PROVE ListAndSnapshotMove
  <2>1. \/ UNCHANGED <<tasks, storeVars>>
        \/ \E f \in DOMAIN flows : ConfirmDelete(f)
        \/ \E f \in DOMAIN flows : flows[f].kind = "delete" /\ FinishDelete(f)
    BY <1>5 DEF Press, Resume, FinishSave, listVars
  <2>2. ASSUME NEW f, ConfirmDelete(f) PROVE ListAndSnapshotMove
    BY <1>1, <2>2 DEF ConfirmDelete, storeVars, ListAndSnapshotMove
  <2>3. ASSUME NEW f \in DOMAIN flows, flows[f].kind = "delete", FinishDelete(f)
        PROVE  ListAndSnapshotMove
    <3>1. flows'[f].stage = "done"
      <4>1. Becomes(f, "done", flows[f].write, flows[f].request)
        BY <2>3, FlowMoves DEF FinishDelete, Stage, AppInv, ScreensTypeOK
      <4> QED
        BY <4>1 DEF Becomes
    <3> QED
      BY <2>3, <3>1 DEF FinishDelete, storeVars, ListAndSnapshotMove
  <2> QED
    BY <2>1, <2>2, <2>3 DEF storeVars, ListAndSnapshotMove
<1>6. CASE Deliver
  <2>1. SP!Deliver
    BY <1>6, SameDeliver DEF Deliver
  <2>2. CASE Head(toApp).type = "snapshot"
    <3>1. OnSnapshot(Head(toApp).view) /\ seen' = Head(toApp).view
      BY <1>6, <2>1, <2>2 DEF Deliver, SP!Deliver
    <3> QED
      BY <2>1, <2>2, <3>1, SameStoreTypes DEF OnSnapshot, ListAndSnapshotMove, SnapshotTaken
  <2>3. CASE Head(toApp).type = "result"
    BY <1>6, <2>1, <2>3
       DEF Deliver, SP!Deliver, OnDeleteResult, OnSaveResult, listVars, ListAndSnapshotMove
  <2>4. Head(toApp).type \in {"snapshot", "result"}
    BY <2>1, HeadTailProperties
       DEF AppInv, StoreSound, SP!StoreInv, SP!StoreTypeOK, SP!Deliver, SP!Message
  <2> QED
    BY <2>2, <2>3, <2>4
<1>7. CASE ServerAnswers \/ ServerEvents
  BY <1>7 DEF ServerAnswers, ServerEvents, appVars, listVars, Store!ServerAnswers,
              Store!HandleSuccessfulWrite, Store!HandleRejectedWrite, Store!WatchEvents,
              Store!ApplyRemoteEvent, Store!GoOffline, Store!RejectListen,
              ListAndSnapshotMove
<1>8. CASE UNCHANGED <<appVars, storeVars>>
  BY <1>8 DEF appVars, listVars, storeVars, ListAndSnapshotMove
<1> QED
  BY <1>2, <1>3, <1>4, <1>5, <1>6, <1>7, <1>8 DEF AppNext, Events, SnackTimeout, vars

LEMMA ListFollowsStep ==
    ASSUME AppInv, [AppNext]_vars, ListFollowsSnapshots PROVE ListFollowsSnapshots'
<1>0. Store!NoDocs = SP!NoDocs
  BY SameStoreTypes
<1>1. /\ \A f \in DOMAIN flows : flows[f].kind = "delete" /\ flows[f].stage = "done" =>
           ~(\A g \in DOMAIN flows : flows[g].kind = "delete" => flows[g].stage # "done")'
      /\ \A f \in DOMAIN flows : flows[f].kind = "delete" /\ flows'[f].stage = "done" =>
           ~(\A g \in DOMAIN flows : flows[g].kind = "delete" => flows[g].stage # "done")'
  BY EndedStays
<1>2. CASE UNCHANGED <<tasks, seen>>
  BY <1>1, <1>2 DEF ListFollowsSnapshots, Store!NoDocs, Store!Doc, Listing
<1>3. CASE SnapshotTaken /\ seen' = Head(toApp).view
  <2> DEFINE v == Head(toApp).view
             S == {d \in Doc : v[d] # "absent"}
  <2>1. tasks' = Listing(v) /\ seen' = v
    BY <1>3 DEF SnapshotTaken
  <2>2. tasks' \in Seq(S)
    BY <2>1, ListingOfView
  <2>3. \A i \in DOMAIN tasks' : tasks'[i] \in S
    <3> HIDE DEF S
    <3> QED
      BY <2>2, ElementOfSeq, LenProperties
  <2> QED
    BY <2>1, <2>3 DEF ListFollowsSnapshots, Listing
<1>4. CASE seen' = SP!NoDocs
  BY <1>0, <1>4 DEF ListFollowsSnapshots, Store!NoDocs, Store!Doc
<1>5. ASSUME UNCHANGED seen,
             \E f \in DOMAIN flows : flows[f].kind = "delete" /\ flows'[f].stage = "done",
             NEW i \in DOMAIN tasks, tasks' = RemoveAt(tasks, i)
      PROVE  ListFollowsSnapshots'
  <2> SUFFICES ASSUME seen # Store!NoDocs
               PROVE  \A j \in DOMAIN tasks' : seen[tasks'[j]] # "absent"
    BY <1>1, <1>5 DEF ListFollowsSnapshots, Store!NoDocs, Store!Doc
  <2> DEFINE S == {d \in Doc : seen[d] # "absent"}
  <2>1. \A j \in 1 .. Len(tasks) : tasks[j] \in S
    BY ElementOfSeq, LenProperties DEF AppInv, ScreensTypeOK, ListFollowsSnapshots
  <2>2. tasks = [j \in 1 .. Len(tasks) |-> tasks[j]] /\ Len(tasks) \in Nat
    BY LenProperties DEF AppInv, ScreensTypeOK
  <2>3. tasks \in Seq(S)
    <3> HIDE DEF S
    <3> QED
      BY <2>1, <2>2
  <2>4. tasks' \in Seq(S)
    BY <1>5, <2>3, RemovalFromList
  <2>5. \A j \in DOMAIN tasks' : tasks'[j] \in S
    <3> HIDE DEF S
    <3> QED
      BY <2>4, ElementOfSeq, LenProperties
  <2> QED
    BY <2>5
<1> QED
  BY <1>2, <1>3, <1>4, <1>5, StepsMoveListAndSnapshot DEF ListAndSnapshotMove

(* The list shows nothing the last snapshot does not have, and is that     *)
(* snapshot until a delete has ended.                                      *)
THEOREM ListAlwaysFollows == AppSpec => []ListFollowsSnapshots
<1>1. AppInit => ListFollowsSnapshots
  BY DEF AppInit, Store!StoreInit, ListFollowsSnapshots
<1>2. AppInv /\ ListFollowsSnapshots /\ [AppNext]_vars => ListFollowsSnapshots'
  BY ListFollowsStep
<1> QED
  BY <1>1, <1>2, AppInvariant, PTL DEF AppSpec

-----------------------------------------------------------------------------
(* The busy flags.                                                         *)

SaveOnItsWay ==
    \E f \in DOMAIN flows : flows[f].kind # "delete" /\ flows[f].stage = "writing"

DeleteOnItsWayOrFailed ==
    \E f \in DOMAIN flows :
        flows[f].kind = "delete" /\ flows[f].stage \in {"writing", "dead"}

(* What a step leaves of the flows that keep a flag set. *)
SavesGoOn == SaveOnItsWay => SaveOnItsWay'
DeletesGoOn == DeleteOnItsWayOrFailed => DeleteOnItsWayOrFailed'

LEMMA AddedFlowKeepsOthers ==
    ASSUME ScreensTypeOK, NEW k, NEW stage, NEW d, NEW i, NEW request, NEW write,
           StartFlow(k, stage, d, i, request, write)
    PROVE  /\ SavesGoOn /\ DeletesGoOn
           /\ k # "delete" /\ stage = "writing" => SaveOnItsWay'
<1> DEFINE flow == [kind |-> k, stage |-> stage, doc |-> d, index |-> i,
                    request |-> request, write |-> write]
<1>1. flows \in Seq(Flow) /\ flows' = Append(flows, flow)
  BY DEF ScreensTypeOK, StartFlow
<1>2. /\ Len(flows) \in Nat /\ DOMAIN flows = 1 .. Len(flows)
      /\ DOMAIN flows' = 1 .. Len(flows) + 1
      /\ \A g \in DOMAIN flows : flows'[g] = flows[g]
      /\ flows'[Len(flows) + 1] = flow
  <2> HIDE DEF flow
  <2> QED
    BY <1>1
<1>3. \A g \in DOMAIN flows : g \in DOMAIN flows' /\ flows'[g] = flows[g]
  BY <1>2
<1>4. Len(flows) + 1 \in DOMAIN flows' /\ flow.kind = k /\ flow.stage = stage
  BY <1>2
<1>5. SavesGoOn /\ DeletesGoOn
  BY <1>3 DEF SavesGoOn, DeletesGoOn, SaveOnItsWay, DeleteOnItsWayOrFailed
<1>6. k # "delete" /\ stage = "writing" => SaveOnItsWay'
  BY <1>2, <1>4 DEF SaveOnItsWay
<1> QED
  BY <1>5, <1>6

LEMMA MovedFlowKeepsOthers ==
    ASSUME NEW f \in DOMAIN flows, NEW stage, NEW write, NEW request,
           Becomes(f, stage, write, request)
    PROVE  /\ flows[f].kind = "delete" \/ flows[f].stage # "writing" => SavesGoOn
           /\ flows[f].kind # "delete" \/ flows[f].stage \notin {"writing", "dead"}
                => DeletesGoOn
           /\ flows[f].kind = "delete" /\ stage \in {"writing", "dead"}
                => DeleteOnItsWayOrFailed'
<1>1. /\ DOMAIN flows' = DOMAIN flows
      /\ \A g \in DOMAIN flows : g # f => flows'[g] = flows[g]
      /\ flows'[f].kind = flows[f].kind /\ flows'[f].stage = stage
  BY DEF Becomes
<1> QED
  BY <1>1 DEF SavesGoOn, DeletesGoOn, SaveOnItsWay, DeleteOnItsWayOrFailed

LEMMA BusyFlagsStep ==
    ASSUME AppInv, [AppNext]_vars
    PROVE  /\ createBusy' => SaveOnItsWay' \/ (createBusy /\ SavesGoOn)
           /\ taskBusy' => \/ DeleteOnItsWayOrFailed'
                           \/ tasks' = <<>>
                           \/ taskBusy /\ DeletesGoOn /\ (tasks = <<>> => tasks' = <<>>)
<1> DEFINE Goal ==
      /\ createBusy' => SaveOnItsWay' \/ (createBusy /\ SavesGoOn)
      /\ taskBusy' => \/ DeleteOnItsWayOrFailed'
                      \/ tasks' = <<>>
                      \/ taskBusy /\ DeletesGoOn /\ (tasks = <<>> => tasks' = <<>>)
<1>0. ScreensTypeOK /\ flows \in Seq(Flow)
  BY DEF AppInv, ScreensTypeOK
<1>1. ASSUME UNCHANGED <<createBusy, taskBusy, tasks, flows>> PROVE Goal
  BY <1>1 DEF SavesGoOn, DeletesGoOn, SaveOnItsWay, DeleteOnItsWayOrFailed
<1>2. ASSUME NEW k \in {"add", "update"}, NEW op, NEW d, NEW done, NEW rewritten,
             StartWriting(k, op, d, done, rewritten), UNCHANGED <<taskBusy, tasks>>
      PROVE  Goal
  BY <1>0, <1>2, AddedFlowKeepsOthers DEF StartWriting
<1>3. CASE ListGestures
  <2>1. ASSUME NEW i, Delete(i) PROVE Goal
    <3>1. /\ StartFlow("delete", "confirming", rows[i], i, issued + 1, 0)
          /\ UNCHANGED <<createBusy, taskBusy, tasks>>
      BY <2>1 DEF Delete, listVars
    <3> QED
      BY <1>0, <3>1, AddedFlowKeepsOthers
  <2>2. ASSUME NEW i, NEW rewritten, ToggleComplete(i, rewritten) PROVE Goal
    <3>1. /\ StartWriting("update", "patch", rows[i], completed'[rows[i]], rewritten)
          /\ UNCHANGED <<taskBusy, tasks>>
      BY <2>2 DEF ToggleComplete
    <3> QED
      BY <1>2, <3>1
  <2>3. ASSUME NEW t, OnTabTapped(t) PROVE Goal
    BY <1>1, <2>3 DEF OnTabTapped
  <2> QED
    BY <1>3, <2>1, <2>2, <2>3 DEF ListGestures
<1>4. CASE FormGestures
  <2>1. ASSUME NEW d, SaveNew(d) PROVE Goal
    BY <1>2, <2>1 DEF SaveNew, listVars
  <2>2. ASSUME NEW rewritten, SaveEdited(rewritten) PROVE Goal
    BY <1>2, <2>2 DEF SaveEdited, listVars
  <2>3. CASE UNCHANGED <<createBusy, taskBusy, tasks, flows>>
    BY <1>1, <2>3
  <2> QED
    BY <1>4, <2>1, <2>2, <2>3
       DEF FormGestures, ViewTask, AddTask, ToggleSwitch, SaveInvalid, FlushTimeout,
           FormTimer, Back, listVars
<1>5. CASE ListenToPosts
  <2>1. listener = "none"
    BY <1>5 DEF ListenToPosts, Store!Listen
  <2>2. tasks' = <<>> /\ UNCHANGED <<createBusy, flows>>
    BY <1>5, <2>1 DEF ListenToPosts, AppInv, NoListYet
  <2> QED
    BY <2>2 DEF SavesGoOn, SaveOnItsWay
<1>6. ASSUME NEW r, NEW answer, Press(r, answer) PROVE Goal
  <2>1. UNCHANGED createBusy
    BY <1>6 DEF Press
  <2>2. CASE UNCHANGED <<listVars, flows>>
    BY <1>1, <2>1, <2>2 DEF listVars
  <2>3. ASSUME NEW f \in DOMAIN flows, Waiting(f, completer), FinishSave(f) PROVE Goal
    <3>1. Becomes(f, "done", flows[f].write, flows[f].request)
      BY <1>0, <2>3, FlowMoves DEF FinishSave, Stage
    <3>2. SavesGoOn /\ DeletesGoOn
      BY <2>3, <3>1, MovedFlowKeepsOthers DEF Waiting
    <3> QED
      BY <2>1, <2>3, <3>2 DEF FinishSave, listVars
  <2>4. ASSUME NEW f \in DOMAIN flows, Waiting(f, completer), FinishDelete(f) PROVE Goal
    <3>1. Becomes(f, "done", flows[f].write, flows[f].request)
      BY <1>0, <2>4, FlowMoves DEF FinishDelete, Stage
    <3>2. SavesGoOn /\ DeletesGoOn
      BY <2>4, <3>1, MovedFlowKeepsOthers DEF Waiting
    <3>3. tasks = <<>> => tasks' = <<>>
      BY <2>4 DEF FinishDelete
    <3> QED
      BY <2>1, <2>4, <3>2, <3>3 DEF FinishDelete
  <2>5. ASSUME NEW f \in DOMAIN flows, Waiting(f, completer), flows[f].kind = "delete",
               ConfirmDelete(f)
        PROVE  Goal
    <3>1. PICK stage, write, request :
             stage \in {"writing", "dead"} /\ Becomes(f, stage, write, request)
      <4>1. CASE flows[f].index \in DOMAIN tasks
        <5>1. /\ flows' = [flows EXCEPT ![f].stage = "writing", ![f].write = Len(writes) + 1]
              /\ WriteIssued("delete")
          BY <2>5, <4>1, WriteIsIssued DEF ConfirmDelete
        <5>2. Len(writes) + 1 \in 0 .. MaxFlows
          BY <5>1, CallFacts DEF WriteIssued
        <5>3. Becomes(f, "writing", Len(writes) + 1, flows[f].request)
          BY <1>0, <5>1, <5>2, FlowMoves DEF Stage
        <5> QED
          BY <5>3
      <4>2. CASE flows[f].index \notin DOMAIN tasks
        <5>1. Becomes(f, "dead", flows[f].write, flows[f].request)
          BY <1>0, <2>5, <4>2, FlowMoves DEF ConfirmDelete, Stage
        <5> QED
          BY <5>1
      <4> QED
        BY <4>1, <4>2
    <3>2. SavesGoOn /\ DeleteOnItsWayOrFailed'
      BY <2>5, <3>1, MovedFlowKeepsOthers
    <3> QED
      BY <2>1, <3>2
  <2> QED
    BY <1>6, <2>2, <2>3, <2>4, <2>5 DEF Press, Resume
<1>7. CASE Deliver
  <2>1. CASE Head(toApp).type = "snapshot"
    <3>1. UNCHANGED <<createBusy, flows>>
          /\ (UNCHANGED <<taskBusy, tasks>> \/ taskBusy' = FALSE)
      BY <1>7, <2>1 DEF Deliver, OnSnapshot, listVars
    <3> QED
      BY <1>1, <3>1 DEF SavesGoOn, SaveOnItsWay
  <2>2. CASE Head(toApp).type # "snapshot"
    <3>1. PICK f \in DOMAIN flows :
             IF flows[f].kind = "delete" THEN OnDeleteResult(f, Head(toApp).ok)
             ELSE OnSaveResult(f)
      BY <1>7, <2>2 DEF Deliver
    <3>2. ASSUME NEW k, Dialogs!Show(k),
                 flows' = [flows EXCEPT ![f].stage = "notifying", ![f].request = issued + 1]
          PROVE  Becomes(f, "notifying", flows[f].write, issued + 1)
      <4>1. issued + 1 \in 0 .. 2 * MaxFlows
        BY <3>2, CallFacts DEF Dialogs!Show
      <4> QED
        BY <1>0, <3>2, <4>1, FlowMoves DEF Stage
    <3>3. CASE flows[f].kind # "delete"
      <4>1. Becomes(f, "notifying", flows[f].write, issued + 1)
            /\ createBusy' = FALSE /\ UNCHANGED <<taskBusy, tasks>>
        BY <3>1, <3>2, <3>3 DEF OnSaveResult, listVars
      <4>2. DeletesGoOn
        BY <3>3, <4>1, MovedFlowKeepsOthers
      <4> QED
        BY <4>1, <4>2
    <3>4. CASE flows[f].kind = "delete" /\ Head(toApp).ok
      <4>1. Becomes(f, "notifying", flows[f].write, issued + 1)
            /\ taskBusy' = FALSE /\ UNCHANGED createBusy
        BY <3>1, <3>2, <3>4 DEF OnDeleteResult
      <4>2. SavesGoOn
        BY <3>4, <4>1, MovedFlowKeepsOthers
      <4> QED
        BY <4>1, <4>2
    <3>5. CASE flows[f].kind = "delete" /\ ~Head(toApp).ok
      <4>1. Move(f, "dead") /\ UNCHANGED createBusy
        BY <3>1, <3>5 DEF OnDeleteResult
      <4>2. Becomes(f, "dead", flows[f].write, flows[f].request)
        BY <1>0, <4>1, FlowMoves DEF Stage
      <4>3. SavesGoOn /\ DeleteOnItsWayOrFailed'
        BY <3>5, <4>2, MovedFlowKeepsOthers
      <4> QED
        BY <4>1, <4>3
    <3> QED
      BY <3>3, <3>4, <3>5
  <2> QED
    BY <2>1, <2>2
<1>8. CASE UNCHANGED appVars
  BY <1>1, <1>8 DEF appVars, listVars
<1> QED
  BY <1>3, <1>4, <1>5, <1>6, <1>7, <1>8
     DEF AppNext, Events, SnackTimeout, ServerAnswers, ServerEvents, vars

(* The progress indicators: busy only while something is on its way.       *)
THEOREM BusyAlwaysHasAReason == AppSpec => []BusyHasAReason
<1>1. BusyHasAReason <=> /\ createBusy => SaveOnItsWay
                         /\ taskBusy => tasks = <<>> \/ DeleteOnItsWayOrFailed
  BY DEF BusyHasAReason, SaveOnItsWay, DeleteOnItsWayOrFailed
<1>2. BusyHasAReason' <=> /\ createBusy' => SaveOnItsWay'
                          /\ taskBusy' => tasks' = <<>> \/ DeleteOnItsWayOrFailed'
  BY DEF BusyHasAReason, SaveOnItsWay, DeleteOnItsWayOrFailed
<1>3. AppInit => BusyHasAReason
  BY DEF AppInit, BusyHasAReason
<1>4. AppInv /\ BusyHasAReason /\ [AppNext]_vars => BusyHasAReason'
  BY <1>1, <1>2, BusyFlagsStep DEF SavesGoOn, DeletesGoOn
<1> QED
  BY <1>3, <1>4, AppInvariant, PTL DEF AppSpec

-----------------------------------------------------------------------------
(* The check boxes, while the form stays closed.                           *)

(* CheckBoxesSettle looks at quiet states only and is not inductive.  What *)
(* is: with no snapshot on its way, the check boxes show the last one.     *)
CheckBoxesFresh ==
    listener = "raised" /\ seen # SP!NoDocs /\ SP!OnlyResults =>
        \A d \in Doc : seen[d] # "absent" => (completed[d] <=> seen[d] = "done")

(* The steps, by what they do to the Task objects of the list. *)
BoxesMove ==
    \/ UNCHANGED completed /\ (SP!HandsNoSnapshot \/ seen' = SP!NoDocs)
    \/ SnapshotTaken
    \/ \E d \in Doc, rewritten \in BOOLEAN :
          /\ completed' = [completed EXCEPT ![d] = ~@]
          /\ SP!WriteMutations("patch", d, ContentOf(completed'[d]), rewritten)

LEMMA StepsMoveBoxes ==
    ASSUME AppInv, [ListOnlyNext]_vars PROVE BoxesMove
<1>1. /\ \A op, d, c, rewritten :
           Store!WriteMutations(op, d, c, rewritten) => SP!HandsNoSnapshot
      /\ UNCHANGED storeVars => SP!HandsNoSnapshot
  BY SameWrite DEF SP!HandsNoSnapshot, storeVars, SP!storeVars
<1>2. CASE ListGestures
  <2>1. ASSUME NEW i \in Doc, NEW rewritten \in BOOLEAN, ToggleComplete(i, rewritten)
        PROVE  BoxesMove
    <3>1. PICK d \in Doc : d = rows[i]
      BY <2>1 DEF ToggleComplete, AppInv, DocsAreKnown, Known
    <3>2. /\ completed' = [completed EXCEPT ![d] = ~@]
          /\ Store!WriteMutations("patch", d, ContentOf(completed'[d]), rewritten)
      BY <2>1, <3>1 DEF ToggleComplete, StartWriting
    <3> QED
      BY <3>2, SameWrite DEF BoxesMove
  <2> QED
    BY <1>1, <1>2, <2>1 DEF ListGestures, OnTabTapped, Delete, listVars, BoxesMove
<1>3. CASE ListenToPosts
  BY <1>3, SameListen DEF ListenToPosts, SP!HandsNoSnapshot, BoxesMove
<1>4. ASSUME NEW r, NEW answer, Press(r, answer) PROVE BoxesMove
  <2>1. UNCHANGED completed /\ (UNCHANGED storeVars \/ \E f \in DOMAIN flows : ConfirmDelete(f))
    BY <1>4 DEF Press, Resume, FinishSave, FinishDelete, ConfirmDelete, listVars
  <2> QED
    BY <1>1, <2>1 DEF ConfirmDelete, BoxesMove
<1>5. CASE Deliver
  <2>1. SP!Deliver
    BY <1>5, SameDeliver DEF Deliver
  <2>2. CASE Head(toApp).type = "snapshot"
    <3>1. OnSnapshot(Head(toApp).view) /\ seen' = Head(toApp).view
      BY <1>5, <2>1, <2>2 DEF Deliver, SP!Deliver
    <3> QED
      BY <2>1, <2>2, <3>1, SameStoreTypes
         DEF OnSnapshot, listVars, BoxesMove, SnapshotTaken
  <2>3. CASE Head(toApp).type = "result"
    BY <1>5, <2>1, <2>3
       DEF Deliver, OnDeleteResult, OnSaveResult, listVars, SP!HandsNoSnapshot, BoxesMove
  <2>4. Head(toApp).type \in {"snapshot", "result"}
    BY <2>1, HeadTailProperties
       DEF AppInv, StoreSound, SP!StoreInv, SP!StoreTypeOK, SP!Deliver, SP!Message
  <2> QED
    BY <2>2, <2>3, <2>4
<1>6. CASE ServerAnswers \/ ServerEvents
  BY <1>6, SameAnswers, SameEvents
     DEF ServerAnswers, ServerEvents, appVars, listVars, SP!HandsNoSnapshot, BoxesMove
<1>7. CASE UNCHANGED <<appVars, storeVars>>
  BY <1>1, <1>7 DEF appVars, listVars, BoxesMove
<1> QED
  BY <1>2, <1>3, <1>4, <1>5, <1>6, <1>7
     DEF ListOnlyNext, Events, SnackTimeout, vars

LEMMA BoxesStep ==
    ASSUME AppInv, CheckBoxesFresh, [ListOnlyNext]_vars PROVE CheckBoxesFresh'
<1> SUFFICES ASSUME listener' = "raised", seen' # SP!NoDocs', SP!OnlyResults'
             PROVE  \A d \in Doc :
                      seen'[d] # "absent" => (completed'[d] <=> seen'[d] = "done")
  BY DEF CheckBoxesFresh
<1>0. SP!NoDocs' = SP!NoDocs
  BY DEF SP!NoDocs, SP!Doc
<1>1. /\ SP!StoreTypeOK /\ SP!StreamFresh /\ SP!RepliesInv
      /\ completed \in [Doc -> BOOLEAN]
  BY DEF AppInv, StoreSound, SP!StoreInv, ScreensTypeOK
<1>2. CASE SnapshotTaken
  <2>1. seen' = Head(toApp).view /\ completed' = [d \in Doc |-> Head(toApp).view[d] = "done"]
    BY <1>2 DEF SnapshotTaken, SP!Deliver
  <2> QED
    BY <2>1
<1>3. CASE UNCHANGED completed /\ SP!HandsNoSnapshot
  <2>1. listener = "raised" /\ SP!OnlyResults /\ seen' = seen
    BY <1>1, <1>3, SP!QuietBefore, StoreBounds, Zenon
  <2> QED
    BY <1>0, <1>3, <2>1 DEF CheckBoxesFresh
<1>4. ASSUME NEW d \in Doc, NEW rewritten \in BOOLEAN,
             completed' = [completed EXCEPT ![d] = ~@],
             SP!WriteMutations("patch", d, ContentOf(completed'[d]), rewritten)
      PROVE  \A e \in Doc : seen'[e] # "absent" => (completed'[e] <=> seen'[e] = "done")
  <2>1. PICK c \in SP!Content : c = ContentOf(completed'[d])
    BY DEF ContentOf, SP!Content
  <2>2. d \in SP!Doc /\ SP!WriteMutations("patch", d, c, rewritten)
    BY <1>4, <2>1 DEF SP!Doc, Doc
  <2>3. /\ listener = "raised" /\ SP!OnlyResults /\ seen' = seen
        /\ seen[d] \in {"absent", c}
    BY <1>1, <2>1, <2>2, SP!UnraisedPatchIsSeen, StoreBounds, Zenon
  <2>4. \A e \in Doc : seen[e] # "absent" => (completed[e] <=> seen[e] = "done")
    BY <1>0, <2>3 DEF CheckBoxesFresh
  <2>5. \A e \in Doc : e # d => completed'[e] = completed[e]
    BY <1>1, <1>4
  <2>6. seen[d] # "absent" => (completed'[d] <=> seen[d] = "done")
    BY <2>1, <2>3 DEF ContentOf
  <2> QED
    BY <2>3, <2>4, <2>5, <2>6
<1> QED
  BY <1>0, <1>2, <1>3, <1>4, StepsMoveBoxes DEF BoxesMove

(* With nothing on its way the check boxes show what the store holds,      *)
(* however toggles, refusals and changes by other devices overlapped.      *)
THEOREM CheckBoxesAlwaysSettle == ListOnlySpec => []CheckBoxesSettle
<1> DEFINE Inv == AppInv /\ ListFollowsSnapshots /\ CheckBoxesFresh
<1>1. AppInit => Inv
  <2>1. AppInit => CheckBoxesFresh
    BY DEF AppInit, Store!StoreInit, CheckBoxesFresh
  <2>2. AppInit => ListFollowsSnapshots
    BY DEF AppInit, Store!StoreInit, ListFollowsSnapshots
  <2> QED
    BY <2>1, <2>2, AppInvInit
<1>2. Inv /\ [ListOnlyNext]_vars => Inv'
  <2>1. [ListOnlyNext]_vars => [AppNext]_vars
    BY DEF ListOnlyNext, AppNext
  <2> QED
    BY <2>1, AppInvStep, ListFollowsStep, BoxesStep
<1>3. Inv => CheckBoxesSettle
  <2> SUFFICES ASSUME Inv, Settled, NEW i \in DOMAIN tasks
               PROVE  completed[tasks[i]] = (seen[tasks[i]] = "done")
    BY DEF CheckBoxesSettle
  <2>1. tasks[i] \in Doc /\ completed \in [Doc -> BOOLEAN]
    BY DEF AppInv, DocsAreKnown, Known, ScreensTypeOK
  <2>2. seen[tasks[i]] # "absent"
    BY DEF Settled, ListFollowsSnapshots
  <2>3. SP!OnlyResults
    BY DEF Settled, SP!OnlyResults
  <2>4. completed[tasks[i]] <=> seen[tasks[i]] = "done"
    BY <2>1, <2>2, <2>3, SameStoreTypes DEF Settled, CheckBoxesFresh
  <2> QED
    BY <2>1, <2>4
<1> QED
  BY <1>1, <1>2, <1>3, PTL DEF ListOnlySpec
=============================================================================

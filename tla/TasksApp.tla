------------------------------ MODULE TasksApp -------------------------------
(***************************************************************************)
(* The task screens: TaskViewModel, CreateTaskViewModel, IndexPage,        *)
(* TasksPage and the task form (lib/viewModel, lib/ui/screens), composed   *)
(* with the dialogs (DialogService) and the task collection (Firestore).   *)
(*                                                                         *)
(* One action is one turn of Dart's event loop: a tap, a button of a       *)
(* dialog, a timer, or a message from the user executor, together with the *)
(* continuations of every await it completes.  A flow is one call of       *)
(* deletePost, update or addPost, from the tap that makes it to its end;   *)
(* flows overlap freely because no screen waits for them.                  *)
(***************************************************************************)
EXTENDS Naturals, Sequences, SequencesExt, ListOps

CONSTANTS
    NumDocs,      \* see Firestore
    MaxChannel,   \* see Firestore
    Shared,       \* see Firestore
    MaxFlushes,   \* bound on the Flushbars stacked over a form
    MaxFlows      \* bound on the calls of deletePost, update and addPost

ASSUME AppAssumption ==
    /\ Shared \subseteq 1 .. NumDocs
    /\ NumDocs \in Nat
    /\ MaxChannel \in Nat
    /\ MaxFlushes \in Nat
    /\ MaxFlows \in Nat

VARIABLES
    issued, kind, completer, outcome, routes,                   \* DialogService
    remoteDocs, writes, future, touched, mutationQueue, listener, toApp,
    seen,                                                       \* Firestore
    tasks,        \* TaskViewModel._task: the documents of the Task objects
    completed,    \* Task.isCompleted of the objects made by the last snapshot
    taskBusy,     \* TaskViewModel.busy
    createBusy,   \* CreateTaskViewModel.busy
    tab,          \* IndexPage._currentIndex
    rows,         \* the rows as IndexPage was last built
    form,         \* the task form on the main navigator, if one is open
    flushes,      \* Flushbars over that form
    flows         \* the calls made so far

dialogVars == <<issued, kind, completer, outcome, routes>>
storeVars == <<remoteDocs, writes, future, touched, mutationQueue, listener, toApp,
               seen>>
listVars == <<tasks, completed, taskBusy, rows>>
pageVars == <<form, flushes>>
appVars == <<listVars, createBusy, tab, pageVars, flows>>
vars == <<dialogVars, storeVars, appVars>>

(* A call shows at most two dialogs and makes at most one write. *)
Dialogs == INSTANCE DialogService WITH MaxRequests <- 2 * MaxFlows
Store == INSTANCE Firestore WITH MaxWrites <- MaxFlows

Doc == 1 .. NumDocs

Tab == {"home", "all", "completed"}

(* shared: the form edits the very Task object the list shows. *)
NoForm == [mode |-> "none", doc |-> 0, shared |-> FALSE, done |-> FALSE,
           timers |-> 0]

Form == [mode : {"none", "new", "edit"}, doc : Doc \union {0},
         shared : BOOLEAN, done : BOOLEAN, timers : 0 .. MaxFlows]

(* doc is the task that was tapped; index is what deletePost was given. *)
Flow == [kind : {"delete", "update", "add"},
         stage : {"confirming", "writing", "notifying", "done", "dead"},
         doc : Doc, index : 0 .. NumDocs,
         request : 0 .. 2 * MaxFlows, write : 0 .. MaxFlows]

AppTypeOK ==
    /\ Dialogs!DialogTypeOK
    /\ Store!StoreTypeOK
    /\ tasks \in Seq(Doc) /\ Len(tasks) <= NumDocs
    /\ completed \in [Doc -> BOOLEAN]
    /\ taskBusy \in BOOLEAN
    /\ createBusy \in BOOLEAN
    /\ tab \in Tab
    /\ rows \in Seq(Doc) /\ Len(rows) <= NumDocs
    /\ form \in Form
    /\ flushes \in 0 .. MaxFlushes
    /\ flows \in Seq(Flow) /\ Len(flows) <= MaxFlows

AppInit ==
    /\ Dialogs!DialogInit
    /\ Store!StoreInit
    /\ tasks = <<>>
    /\ completed = [d \in Doc |-> FALSE]
    /\ taskBusy = FALSE
    /\ createBusy = FALSE
    /\ tab = "home"
    /\ rows = <<>>
    /\ form = NoForm
    /\ flushes = 0
    /\ flows = <<>>

-----------------------------------------------------------------------------
(* What IndexPage.build hands to the page in front. *)
PageRows(t, list, done) ==
    CASE t = "home" -> <<>>
      [] t = "all" -> list
      [] t = "completed" -> Selected(list, {d \in Doc : done[d]})

(* notifyListeners of TaskViewModel rebuilds IndexPage. *)
Rebuild == rows' = PageRows(tab, tasks, completed)

ContentOf(done) == IF done THEN "done" ELSE "todo"

(* Alerts and confirmations block the screens below; Flushbars do not. *)
ScreenFree == \A r \in routes : kind[r] = "snack"

(* afterFirstLayout has run before anyone can tap. *)
OnIndex == ScreenFree /\ form.mode = "none" /\ listener # "none"
OnForm == ScreenFree /\ form.mode # "none"

(* Navigator.pop or maybePop on the main navigator: a Flushbar goes first, *)
(* the form's timers go with the form, and IndexPage is never popped.      *)
PopMain ==
    IF flushes > 0
    THEN flushes' = flushes - 1 /\ UNCHANGED form
    ELSE form' = NoForm /\ UNCHANGED flushes

StartFlow(k, stage, d, i, request, write) ==
    /\ Len(flows) < MaxFlows
    /\ flows' = Append(flows, [kind |-> k, stage |-> stage, doc |-> d, index |-> i,
                               request |-> request, write |-> write])

(* addPost and update set busy and send the write before their first await. *)
StartWriting(k, op, d, done, rewritten) ==
    /\ createBusy' = TRUE
    /\ Store!WriteMutations(op, d, ContentOf(done), rewritten)
    /\ StartFlow(k, "writing", d, 0, 0, Len(writes) + 1)

-----------------------------------------------------------------------------
(* IndexPage and its list. *)

(* afterFirstLayout -> listenToPosts. *)
ListenToPosts ==
    /\ Store!Listen
    /\ taskBusy' = TRUE
    /\ Rebuild
    /\ UNCHANGED <<dialogVars, tasks, completed, createBusy, tab, pageVars, flows>>

OnTabTapped(t) ==
    /\ OnIndex
    /\ tab' = t
    /\ rows' = PageRows(t, tasks, completed)
    /\ UNCHANGED <<dialogVars, storeVars, tasks, completed, taskBusy, createBusy,
                   pageVars, flows>>

(* _delete: deletePost is called with the index of the row. *)
Delete(i) ==
    /\ OnIndex
    /\ i \in DOMAIN rows
    /\ Dialogs!Show("confirm")
    /\ StartFlow("delete", "confirming", rows[i], i, issued + 1, 0)
    /\ UNCHANGED <<storeVars, listVars, createBusy, tab, pageVars>>

(* _toggleComplete changes the object the list holds, then calls update. *)
ToggleComplete(i, rewritten) ==
    /\ OnIndex
    /\ i \in DOMAIN rows
    /\ completed' = [completed EXCEPT ![rows[i]] = ~@]
    /\ StartWriting("update", "patch", rows[i], completed'[rows[i]], rewritten)
    /\ UNCHANGED <<dialogVars, tasks, taskBusy, rows, tab, pageVars>>

(* _view. *)
ViewTask(i) ==
    /\ OnIndex
    /\ i \in DOMAIN rows
    /\ form' = [NoForm EXCEPT !.mode = "edit", !.doc = rows[i], !.shared = TRUE]
    /\ UNCHANGED <<dialogVars, storeVars, listVars, createBusy, tab, flushes, flows>>

(* The "+" of either task page. *)
AddTask ==
    /\ OnIndex
    /\ tab # "home"
    /\ form' = [NoForm EXCEPT !.mode = "new"]
    /\ UNCHANGED <<dialogVars, storeVars, listVars, createBusy, tab, flushes, flows>>

-----------------------------------------------------------------------------
(* The task form. *)

FormDone == IF form.shared THEN completed[form.doc] ELSE form.done

(* The switch toggles the form's Task object, saved or not. *)
ToggleSwitch ==
    /\ OnForm
    /\ IF form.shared
       THEN completed' = [completed EXCEPT ![form.doc] = ~@] /\ UNCHANGED form
       ELSE form' = [form EXCEPT !.done = ~@] /\ UNCHANGED completed
    /\ UNCHANGED <<dialogVars, storeVars, tasks, taskBusy, rows, createBusy, tab,
                   flushes, flows>>

(* Create: the key of the new document is drawn at random. *)
SaveNew(d) ==
    /\ OnForm
    /\ form.mode = "new"
    /\ Store!Unused(d)
    /\ StartWriting("add", "set", d, FormDone, FALSE)
    /\ UNCHANGED <<dialogVars, listVars, tab, pageVars>>

(* Update: a timer will pop whatever is on top of the form's navigator. *)
SaveEdited(rewritten) ==
    /\ OnForm
    /\ form.mode = "edit"
    /\ StartWriting("update", "patch", form.doc, FormDone, rewritten)
    /\ form' = [form EXCEPT !.timers = @ + 1]
    /\ UNCHANGED <<dialogVars, listVars, tab, flushes>>

(* An empty field: "Fill all forms". *)
SaveInvalid ==
    /\ OnForm
    /\ flushes < MaxFlushes
    /\ flushes' = flushes + 1
    /\ UNCHANGED <<dialogVars, storeVars, listVars, createBusy, tab, form, flows>>

(* Seeded fault: the timer of a Flushbar that was popped is not cancelled. *)
FlushTimeoutUncancelled ==
    /\ flushes' = flushes - 1
    /\ UNCHANGED <<dialogVars, storeVars, listVars, createBusy, tab, form, flows>>

FlushTimeout ==
    /\ flushes > 0
    /\ flushes' = flushes - 1
    /\ UNCHANGED <<dialogVars, storeVars, listVars, createBusy, tab, form, flows>>

(* Three seconds after Update; with the form gone its context is defunct. *)
FormTimer ==
    /\ form.timers > 0
    /\ IF flushes > 0
       THEN flushes' = flushes - 1 /\ form' = [form EXCEPT !.timers = @ - 1]
       ELSE form' = NoForm /\ UNCHANGED flushes
    /\ UNCHANGED <<dialogVars, storeVars, listVars, createBusy, tab, flows>>

(* The system's back button reaches the main navigator under any dialog. *)
Back ==
    /\ form.mode # "none"
    /\ PopMain
    /\ UNCHANGED <<dialogVars, storeVars, listVars, createBusy, tab, flows>>

-----------------------------------------------------------------------------
(* What a button of a dialog resumes. *)

Move(f, stage) == flows' = [flows EXCEPT ![f].stage = stage]

(* "Yes": the task is looked up only now, by the index of the tap. *)
ConfirmDelete(f) ==
    /\ taskBusy' = TRUE
    /\ Rebuild
    /\ IF flows[f].index \in DOMAIN tasks
       THEN /\ Store!WriteMutations("delete", tasks[flows[f].index], "todo", FALSE)
            /\ flows' = [flows EXCEPT ![f].stage = "writing",
                                      ![f].write = Len(writes) + 1]
       ELSE /\ Move(f, "dead")
            /\ UNCHANGED storeVars
    /\ UNCHANGED <<tasks, completed, pageVars>>

(* deletePost has returned: _delete's then() removes the entry at the index *)
(* of the row, and notifies nobody.                                         *)
FinishDelete(f) ==
    /\ tasks' = IF flows[f].index \in DOMAIN tasks
                THEN RemoveAt(tasks, flows[f].index) ELSE tasks
    /\ Move(f, "done")
    /\ UNCHANGED <<storeVars, completed, taskBusy, rows, pageVars>>

(* addPost and update end with NavigationService.pop. *)
FinishSave(f) ==
    /\ PopMain
    /\ Move(f, "done")
    /\ UNCHANGED <<storeVars, listVars>>

(* Seeded fault: the response of the confirmation is not looked at. *)
ResumeUnasked(f, answer) ==
    IF flows[f].kind # "delete" THEN FinishSave(f)
    ELSE IF flows[f].stage = "confirming" THEN ConfirmDelete(f)
    ELSE FinishDelete(f)

Resume(f, answer) ==
    IF flows[f].kind # "delete" THEN FinishSave(f)
    ELSE IF flows[f].stage = "confirming" /\ answer = "yes" THEN ConfirmDelete(f)
    ELSE FinishDelete(f)

Waiting(f, r) ==
    flows[f].request = r /\ flows[f].stage \in {"confirming", "notifying"}

Press(r, answer) ==
    /\ Dialogs!DialogComplete(r, answer)
    /\ \/ /\ \A f \in DOMAIN flows : ~Waiting(f, completer)
          /\ UNCHANGED <<storeVars, listVars, pageVars, flows>>
       \/ \E f \in DOMAIN flows : Waiting(f, completer) /\ Resume(f, answer)
    /\ UNCHANGED <<createBusy, tab>>

SnackTimeout(r) ==
    /\ Dialogs!Dismiss(r)
    /\ UNCHANGED <<storeVars, appVars>>

-----------------------------------------------------------------------------
(* What a message from Firestore resumes. *)

(* The documents of a snapshot, in key order. *)
Listing(v) == Selected([d \in Doc |-> d], {d \in Doc : v[d] # "absent"})

(* Seeded fault: new tasks are added to the list, old ones never leave. *)
OnSnapshotMerging(v) ==
    IF v = Store!NoDocs
    THEN UNCHANGED <<listVars, form>>
    ELSE /\ tasks' = Selected([d \in Doc |-> d],
                             {d \in Doc : v[d] # "absent" \/ Contains(tasks, d)})
         /\ completed' = [d \in Doc |-> v[d] = "done"]
         /\ taskBusy' = FALSE
         /\ rows' = PageRows(tab, tasks', completed')
         /\ form' = IF form.shared
                    THEN [form EXCEPT !.shared = FALSE, !.done = completed[form.doc]]
                    ELSE form

(* Seeded fault: tasks that stay in the list keep their old objects. *)
OnSnapshotKeepingObjects(v) ==
    IF v = Store!NoDocs
    THEN UNCHANGED <<listVars, form>>
    ELSE /\ tasks' = Listing(v)
         /\ completed' = [d \in Doc |-> IF Contains(tasks, d) THEN completed[d]
                                       ELSE v[d] = "done"]
         /\ taskBusy' = FALSE
         /\ rows' = PageRows(tab, tasks', completed')
         /\ UNCHANGED form

(* FirebaseManager drops an empty snapshot.  Any other becomes a list of   *)
(* new Task objects; an open form keeps the old one.                       *)
OnSnapshot(v) ==
    IF v = Store!NoDocs
    THEN UNCHANGED <<listVars, form>>
    ELSE /\ tasks' = Listing(v)
         /\ completed' = [d \in Doc |-> v[d] = "done"]
         /\ taskBusy' = FALSE
         /\ rows' = PageRows(tab, tasks', completed')
         /\ form' = IF form.shared
                    THEN [form EXCEPT !.shared = FALSE, !.done = completed[form.doc]]
                    ELSE form

(* deleteTask has no catch: its error ends deletePost, busy still set. *)
OnDeleteResult(f, ok) ==
    /\ IF ok
       THEN /\ taskBusy' = FALSE
            /\ Rebuild
            /\ Dialogs!Show("snack")
            /\ flows' = [flows EXCEPT ![f].stage = "notifying",
                                      ![f].request = issued + 1]
       ELSE /\ Move(f, "dead")
            /\ UNCHANGED <<dialogVars, taskBusy, rows>>
    /\ UNCHANGED <<tasks, completed, createBusy>>

(* Seeded fault: busy is cleared on the way out, not when the write is in. *)
OnSaveResultStillBusy(f) ==
    /\ Dialogs!Show(IF flows[f].kind = "add" THEN "alert" ELSE "snack")
    /\ flows' = [flows EXCEPT ![f].stage = "notifying", ![f].request = issued + 1]
    /\ UNCHANGED <<listVars, createBusy>>

(* Seeded fault: the message is shown and not awaited. *)
OnSaveResultNotAwaiting(f) ==
    /\ createBusy' = FALSE
    /\ Dialogs!Show(IF flows[f].kind = "add" THEN "alert" ELSE "snack")
    /\ Move(f, "done")
    /\ UNCHANGED listVars

(* addPost and update report success and failure alike. *)
OnSaveResult(f) ==
    /\ createBusy' = FALSE
    /\ Dialogs!Show(IF flows[f].kind = "add" THEN "alert" ELSE "snack")
    /\ flows' = [flows EXCEPT ![f].stage = "notifying", ![f].request = issued + 1]
    /\ UNCHANGED listVars

Deliver ==
    /\ Store!Deliver
    /\ LET msg == Head(toApp)
       IN  IF msg.type = "snapshot"
           THEN OnSnapshot(msg.view) /\ UNCHANGED <<dialogVars, createBusy, flows>>
           ELSE \E f \in DOMAIN flows :
                  /\ flows[f].write = msg.write
                  /\ IF flows[f].kind = "delete"
                     THEN OnDeleteResult(f, msg.ok) ELSE OnSaveResult(f)
                  /\ UNCHANGED form
    /\ UNCHANGED <<tab, flushes>>

(* The server and the network. *)
ServerAnswers == Store!ServerAnswers /\ UNCHANGED <<dialogVars, appVars>>

ServerEvents ==
    /\ Store!WatchEvents \/ Store!GoOffline \/ Store!RejectListen
    /\ UNCHANGED <<dialogVars, appVars>>
-----------------------------------------------------------------------------
(* What a user can do on IndexPage, and in the form. *)
ListGestures ==
    \/ \E t \in Tab : OnTabTapped(t)
    \/ \E i \in Doc : Delete(i)
    \/ \E i \in Doc, rewritten \in BOOLEAN : ToggleComplete(i, rewritten)

FormGestures ==
    \/ \E i \in Doc : ViewTask(i)
    \/ AddTask
    \/ ToggleSwitch
    \/ \E d \in Doc : SaveNew(d)
    \/ \E rewritten \in BOOLEAN : SaveEdited(rewritten)
    \/ SaveInvalid
    \/ FlushTimeout
    \/ FormTimer
    \/ Back

(* Everything else: start-up, dialogs, Firestore. *)
Events ==
    \/ ListenToPosts
    \/ \E r \in Dialogs!Request, answer \in {"yes", "no"} : Press(r, answer)
    \/ \E r \in Dialogs!Request : SnackTimeout(r)
    \/ Deliver
    \/ ServerAnswers
    \/ ServerEvents

AppNext == ListGestures \/ FormGestures \/ Events

(* The client retries until the server answers and the executor runs what  *)
(* it is given; users do as they please.                                   *)
AppFairness == WF_vars(ServerAnswers) /\ WF_vars(Deliver)

AppSpec == AppInit /\ [][AppNext]_vars /\ AppFairness

(* As long as nobody opens the form. *)
ListOnlyNext == ListGestures \/ Events
ListOnlySpec == AppInit /\ [][ListOnlyNext]_vars

-----------------------------------------------------------------------------
(* Every await has its call and every call its await: a flow is between    *)
(* write and result exactly while its future is pending, it waits for a    *)
(* dialog exactly while that dialog's future is pending, no two flows wait *)
(* for the same thing, and the completer in DialogService is awaited.      *)
EveryAwaitHasItsCall ==
    /\ \A f \in DOMAIN flows :
         LET w == flows[f].write
             r == flows[f].request
         IN  /\ flows[f].stage = "writing"
                  <=> w # 0 /\ future[w] = "pending"
             /\ flows[f].stage \in {"confirming", "notifying"}
                  <=> r # 0 /\ outcome[r] = "pending"
    /\ \A f, g \in DOMAIN flows :
         f # g => /\ flows[f].write = flows[g].write => flows[f].write = 0
                  /\ flows[f].request = flows[g].request => flows[f].request = 0
    /\ \A w \in DOMAIN writes : \E f \in DOMAIN flows : flows[f].write = w
    /\ completer # 0 => \E f \in DOMAIN flows : Waiting(f, completer)

(* A document is deleted only by a flow whose own confirmation is answered *)
(* "Yes" in that very step and leaves the screen with it, whatever other   *)
(* dialogs and snack bars are about.                                       *)
DeletedOnOwnYes ==
    [][(Len(writes') > Len(writes) /\ Last(writes').op = "delete")
        => \E f \in DOMAIN flows :
              /\ flows[f].stage = "confirming" /\ flows'[f].stage = "writing"
              /\ kind[flows[f].request] = "confirm"
              /\ outcome'[flows[f].request] = "yes"
              /\ routes' = routes \ {flows[f].request}]_vars

(* The list is the last snapshot handed over, in key order, as long as no  *)
(* deletePost has returned and removed an entry by its index; it never     *)
(* shows a task that snapshot does not have.  (A snapshot that is empty is *)
(* not handed on: see EmptiedListIsShown.)                                 *)
ListFollowsSnapshots ==
    seen # Store!NoDocs =>
      /\ \A i \in DOMAIN tasks : seen[tasks[i]] # "absent"
      /\ (\A f \in DOMAIN flows :
             flows[f].kind = "delete" => flows[f].stage # "done")
           => tasks = Listing(seen)

(* Busy is never left set: CreateTaskViewModel is busy only while a save   *)
(* is on its way; TaskViewModel only before there is a list, while a       *)
(* delete is on its way, or after one that failed.                         *)
BusyHasAReason ==
    /\ createBusy => \E f \in DOMAIN flows :
                        flows[f].kind # "delete" /\ flows[f].stage = "writing"
    /\ taskBusy => \/ tasks = <<>>
                   \/ \E f \in DOMAIN flows : /\ flows[f].kind = "delete"
                                              /\ flows[f].stage \in {"writing", "dead"}

(* Nothing is on its way between the list and the store. *)
Settled ==
    /\ listener = "raised" /\ seen # Store!NoDocs
    /\ toApp = <<>> /\ mutationQueue = <<>> /\ form.mode = "none"

(* Once the answers are in, a check box shows what the store holds,        *)
(* however toggles, refusals and changes by other devices overlapped.  The *)
(* list's own gestures keep this; the switch of the form does not, as it   *)
(* toggles the object of the list before anything is saved.                *)
CheckBoxesSettle ==
    Settled => \A i \in DOMAIN tasks : completed[tasks[i]] = (seen[tasks[i]] = "done")

(* No save, completion or delete that was sent stays without its answer,   *)
(* whatever else the client and the app are busy with.                     *)
WritesAreAnswered == Store!WritesAnswered

(* addPost and update always come to the point of telling the user. *)
SavesAreAnnounced ==
    \A f \in 1 .. MaxFlows :
        (f \in DOMAIN flows /\ flows[f].kind # "delete" /\ flows[f].stage = "writing")
            ~> (f \in DOMAIN flows /\ flows[f].stage \in {"notifying", "done"})

-----------------------------------------------------------------------------
(* What the app's texts and its README say, and its code does not do. *)

(* "Do you really want to delete the task?": the task that is deleted is   *)
(* the task whose row was tapped.                                          *)
TappedTaskIsDeleted ==
    \A f \in DOMAIN flows :
        flows[f].kind = "delete" /\ flows[f].write # 0
            => writes[flows[f].write].doc = flows[f].doc

(* "... as well as reflect in the ui": with no task left in the store the  *)
(* list is empty.                                                          *)
EmptiedListIsShown == seen = Store!NoDocs => tasks = <<>>

=============================================================================

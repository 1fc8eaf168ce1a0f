# Verification of the task app

TLA+ models, model-checking runs and machine-checked proofs for the Flutter
application in `lib/` and for the part of the Firestore client it is built on
(`ios/Pods/FirebaseFirestore/Firestore/core/src`, below `core/src`).
Paths are relative to `src/`.

## 1. The system

The application lists tasks kept in one Firestore collection, lets the user
create, edit, complete and delete them, and shows news headlines.  Everything
in Dart runs on one event loop; what makes it hard is that hardly anything is
awaited by the screens, so calls overlap at every `await`.

| component | state | operations | talks to |
|---|---|---|---|
| dialogs: `services/dialogServices.dart`, `ui/widgets/dialogManager.dart` | one `_dialogCompleter`; the routes of the dialog navigator | `showDialog`, `showConfirmationDialog`, `showSnack`, `dialogComplete`, the snack-bar timer | view models await its futures; buttons and timers come from the user and the framework |
| task collection: `non_ui/repo/firebase_manager.dart` and the Firestore client | document cache, mutation queue, listener, user executor | `addTask`, `updateTask`, `deleteTask`, `listenToTasktRealTime`; acknowledgements, refusals, watch events | results and snapshots go to the view models through one FIFO |
| write stream: `remote/remote_store.cc`, `stream.cc`, `write_stream.cc` of the client | the write pipeline, the stream's state, what is under way | `FillWritePipeline`, handshake, results, refusals, idle timer, `RestartNetwork` | takes from the mutation queue, answers through the sync engine |
| online state: `remote/online_state_tracker.cc` | `state_`, failures, the timer | starts, failures and messages of the watch stream | decides when a listener stops waiting for the server |
| watch stream and limbo: `remote/remote_event.cc`, `core/sync_engine.cc`, `core/view.cc`, `local/local_store.cc` | targets, pending changes, resume tokens, limbo resolutions, the query's view | watch changes, existence filters, resets, limbo listens | changes the document cache the collection shows |
| task view model: `viewModel/taskViewModel.dart` | `_task`, `busy` | `listenToPosts`, `deletePost` | dialogs, task collection, index page |
| create and edit view model: `viewModel/createAndEdit.dart` | `busy` | `addPost`, `update` | dialogs, task collection, main navigator |
| list screens: `ui/screens/index.dart`, `tasks.dart` | the tab, the rows as last built, check boxes (fields of `Task` objects) | `onTabTapped`, `_delete`, `_toggleComplete`, `_view`, `addTask` | both view models; shares `Task` objects with the form |
| task form: `ui/screens/task.dart`, `constants/myUtils.dart` | the task it edits, its Flushbars and timers | the switch, Create, Update, the validation message, Back | create and edit view model, main navigator |
| news: `services/newsService.dart`, `non_ui/database/newsHive.dart`, `viewModel/newsViewModel.dart`, `ui/screens/home.dart` | the Hive box, `news`, `busy`, the filtered list | `getNews`, `cacheNews`, `getCachedNews`, `onSearch` | newsapi.org, Hive |
| start-up: `main.dart` | `_initialized`, `_error` | `initialize`, RETRY | Firebase |

Hard behaviours, and what makes each component correct (every one with its
line and properties is under `hazards` in `PROJECT.json`):

* *Dialogs.*  One completer serves all calls.  A newer call takes it from an
  older one; `dialogComplete` pops whatever is on top, which can be a snack
  bar; nothing completes the future of a snack bar.  Correct means: the newest
  call is the answerable one, no completer is completed twice, a button never
  answers another dialog, a call that was displaced is lost cleanly, and a
  press that pops the wrong route costs nobody an answer.
* *Task collection.*  Writes are shown before they are sent; acknowledgements,
  refusals and changes by other devices come in any order relative to later
  writes; the queue survives a restart and its callbacks do not.  Correct
  means: the view raised last is the current one, every future completes once
  and in order, an answer comes before the snapshot it causes, a deleted
  document does not return.
* *Write stream.*  Responses carry no number and are matched to the pipeline by
  position; streams break anywhere, what was sent is sent again, tokens come
  late, an idle timer stops the stream.  Correct means: the stream carries
  exactly the pipeline, the pipeline is the front of the queue, a write
  reported as done was applied, and nothing with writes to send stays stopped.
* *Online state.*  A timer and a failure count over a stream that is stopped
  and started.  Correct means: the timer runs while an answer is owed, the
  count belongs to this connection, and waiting ends.
* *Watch stream and limbo.*  Requests and responses of several watches of one
  target overlap; deletions may be left out after a resume token.  Correct
  means: what belongs to an earlier watch is ignored, every document the server
  does not list is asked for unless a local write explains it, and in the end
  the list is the server's.
* *View models and screens.*  State read before an `await` is used after it
  (the index of a row), errors skip the code that clears a flag, two calls
  share one flag, and one `Task` object is shared by a list and a form.
  Correct means: awaits, dialogs and writes stay paired, busy has a reason,
  the list follows the snapshots, nothing is deleted without its own "Yes".
* *News.*  Overlapping fetches with one busy flag, swallowed errors, a cache
  written without waiting, a filtered list kept beside the news.  Correct
  means: the spinner stops, the news are those of the cache.
* *Start-up.*  RETRY while an attempt is running.  Correct means: the user is
  never left with a blank screen.

## 2. Modules

| module | models | composed of |
|---|---|---|
| `DialogService` | dialogs, every caller free | |
| `ReplySlot` | what the dialogs promise: a slot for one open question | |
| `DialogServiceProofs` | theorems about `DialogService` | `DialogService`, `ReplySlot` |
| `Firestore` | the collection, its queue and its listener, every caller free | |
| `OrderedReplies` | what the client promises of its answers: once each, in order | |
| `FirestoreProofs` | theorems about `Firestore` | `Firestore`, `ListTheorems`, `OrderedReplies` |
| `WritePipeline` | the write pipeline on its stream | `INSTANCE OrderedReplies` |
| `OnlineState` | the online state over the watch stream | |
| `RemoteStore` | both, with restarts of the network and of the app | `WritePipeline`, `OnlineState` |
| `RemoteStoreProofs` | theorems about `RemoteStore` | `RemoteStore` |
| `WatchSync` | how the query's documents come to agree with the server's | `ListOps` |
| `WatchSyncProofs` | theorems about `WatchSync`: its bookkeeping and the order of its messages | `WatchSync`, `ListTheorems` |
| `ConvergenceProofs` | `Converges`, on top of these | `WatchSyncProofs` |
| `TasksApp` | view models, list screens and form | `INSTANCE DialogService`, `INSTANCE Firestore` |
| `TasksAppProofs` | theorems about `TasksApp` | `TasksApp`, `INSTANCE DialogServiceProofs`, `INSTANCE FirestoreProofs` |
| `ListOps` | filtering a list (`Iterable.where`), as a recursive function | |
| `ListTheorems` | induction over numbers, recursive functions, facts about `ListOps` | `ListOps` |
| `Startup` | the root widget | |
| `News` | the fetch, the cache, the home page | |
| `HomeApp` | start-up and home page together | `Startup`, `News` |
| `HomeProofs` | theorems about `HomeApp` | `HomeApp` |
| `MCDialogService`, `MCFirestore`, `MCTasksApp` | what TLC starts from | |

The client is modelled three times, at the places where it is hard.  `Firestore`
is what the app sees of it: there the server answers the head of the queue, and
a watch event changes the cache.  That the first is all right although streams
break is what `WritePipeline` shows: it implements the same `OrderedReplies`,
and its `WritesReachTheServer` is why `Firestore` may assume that a write is
answered.  The event that changes the cache, and that it does so until the list is
the server's, is what `WatchSync` shows; when a silent server counts as offline
(`GoOffline` in `Firestore`) is `OnlineState`.

**One action is one turn of the Dart event loop**: a tap, a timer, a dialog
button or a message from the executor, with the continuations of every await
it completes.  Continuations run as microtasks before the next event, so no
other action comes in between.  The hop of a write from Dart to the client is
part of the call: nothing of the app reads the client's state in between, and
the executor keeps the order.

### DialogService

`completer` is `_dialogCompleter` (0 for null), `outcome` the futures returned,
`routes` the dialog navigator.  A call pushes its route when it is made, so the
numbers of the calls order the stack and a set represents it.  `Show` is each
of the three show methods, `DialogComplete` a button with the pop, the
completion and the reset of the field, `Dismiss` the timer (or a swipe) of a
snack bar.  An `AlertDialog` is a modal route, a Flushbar is not: `Pressable`.
So a dialog can be pressed with a snack bar over it, and the press pops the
snack bar: `CoveredPressIsLost` says that this happens to calls only whose
completer was replaced before.  That a Flushbar leaves in time is the promise of
its package (`another_flushbar`): `Dismiss` may come or not, no property rests on it.

### Firestore

A document is *unborn*, *todo*, *done* or *deleted* in the cache and present
with its status or absent in a view.  Other fields matter only in that changing
them raises a snapshot with equal content: `rewritten`.  `CurrentView` is the
cache with the queued mutations on top (`LocalDocumentsView`, `View`);
`ShouldRaise` is `QueryListener`; `Emit` is the order in `HandleSuccessfulWrite`
and `HandleRejectedWrite`: the user callback first, then the snapshot.  Versions
are reduced to what they decide: `touched` holds the writes whose document the
watch stream changed while they were queued, which is when an acknowledgement
may find a newer version in the cache (`AckedStates`); for those the model
allows both outcomes of the comparison.  `Restart` is the death of the process:
queue and cache stay, callbacks, listener and undelivered messages go.

What the environment may do is read from how the client is written: the server
answers the head of the queue; it accepts a patch only of a document it has;
keys are drawn at random, so a key is never drawn twice and a deleted document
stays deleted.

### TasksApp

A *flow* is one call of `deletePost`, `update` or `addPost` with the place
where it stands: *confirming*, *writing*, *notifying*, *done*, or *dead* after
an exception.  `Press` resumes the flow that awaits the completer, `Deliver`
the one whose write is answered.  `rows` is what `IndexPage.build` last handed
out, `tasks` the list of the view model; they differ because `_delete` removes
an entry and notifies nobody.  `form.shared` says that the form edits the very
`Task` object of the list; a snapshot makes new objects and ends that.
`PopMain` is a pop on the main navigator: a Flushbar if there is one, the form
otherwise.  A rebuild is part of the step that notifies.

### WritePipeline, OnlineState, RemoteStore

A write is its number in the queue, 0 the handshake.  `requests` and
`responses` are the two directions of the present gRPC stream; `Disconnect`
loses them.  `tokens` are the `GetToken` calls on their way: TRUE while
`close_count_` is what it was when the call was made, so `Stale` is what
`Close` does to them.  `FillWritePipeline` is the loop over
`GetNextMutationBatch` with the sending of each batch and the start of the
stream; `ReadResult` and `ReadRefusal` are `OnWriteStreamMutationResult` and
`HandleWriteError` to their last call.  A stream that closes with any other
error keeps the pipeline (`StreamFails`), after the backoff delay it starts
again (`BackoffElapses`; how long it takes is left out).  `committed` is what
the server has applied, perhaps more than once: the client sends a write again
when its answer is lost, so the promise is at least once.

`watch`, `online`, `failures` and `timer` of `OnlineState` are the state of the
watch stream and the fields of `OnlineStateTracker`.  `RestartNetwork` and
`RestartApp` stop and start both halves in one step.

### WatchSync

A document is *unborn*, *present* or *deleted*; local writes only create.
Target 0 is the query, the others are limbo listens.  A resume token *is* the
set of documents the server had told when it gave it out, so what the server
leaves out after it can be computed.  `states`, `updates` and `mismatch` are the
aggregator's `target_states_`, `pending_document_updates_` and
`pending_target_resets_`; each of its handlers is an operator of the same name
and `Receive` one message of the stream.  `HandleSnapshot` is the whole of
`RaiseWatchSnapshot` with `LocalStore` and `SyncEngine` below it; `Book` carries
the bookkeeping of listens through it, since one snapshot can end and start
limbo resolutions (`Untrack`, `Track`, `Pump`) and watch the query anew.  The
client never uses a target number twice; in the model a number is free again
when no listen and no target state has it any more, which keeps the states
finite and cannot be told apart by the client.
`synced`, `current`, `limbo` and `mutatedKeys` are the fields of the query's
`View`.  The last are the documents it has with local mutations, which it never
takes for limbo.  An acknowledgement does not end that: the stored version is marked as
committed, has the same data, and the view keeps the document it has until the
store brings another version (`Mutated`, `Changed`).  `heard` says that the stream
has brought a response since it opened: a silent one counts as offline after ten
seconds, open or not (`GoOffline`).
`intact` is a history variable, read by `Converges` only: FALSE once the app has been
started with a token for documents that its keys do not hold.
Deletions after a resume token may be told, or left to an existence filter,
which may come before or after *current*; or the server may reset the target.

### HomeApp

`Startup` has the two flags of the root and what the last frame built; a
`setState` only marks, so `Retry` can come twice.  `News` has the Hive box as a
file and the puts on their way to it, since `put` shows in memory at once.  From
the answer of the server to the assignment of the news there are only
microtasks: `Answer`.  Articles are values, what is typed in the search field is
the set of articles it selects.  `HomeApp` puts `HomePage` into the tree with
the first tab and takes it out with the app or another tab, while `NewsState`
and its fetches go on.

## 3. Runs

| run | question | bounds | states |
|---|---|---|---|
| `dialogs` | do overlapping dialogs keep to the one-slot contract? | 5 calls: three dialogs and two snack bars overlap in every order | 60 thousand |
| `store` | is the stream fresh, every future answered once, and the answer first? | 1 document, 3 writes: a set, a patch and a delete are queued together, with another device and restarts | 900 thousand |
| `tasks` | do two calls from any screen stay paired with their dialogs and writes? | 2 keys, 2 calls, 1 Flushbar, no other device | 1.2 million |
| `tasks_list` | does the list follow the snapshots, and do its check boxes settle on the store's state? | 2 tasks, 2 calls, another device changes one of them | 430 thousand |
| `tasks_live` | is every write answered and every save announced, from any cache? | 1 key, 2 calls | 290 thousand |
| `home` | is anything blank, or does anything spin, for ever? | 2 articles, 3 attempts, 2 returns to the page, 5 fetches | 70 thousand |
| `remote` | does every write reach the server and its own answer, and does waiting end? | 3 writes, a pipeline of 2, 2 restarts, streams that break without bound | 20 thousand |
| `watch` | does the list become the server's? | 2 documents, one of them of this device, 1 limbo slot, 2 breaks, 1 restart | 230 thousand |
| `tapped_task`, `emptied_list`, `stale_news`, `resume_token` | four statements the code does not keep, see section 5 | the smallest that show them | |

Why these bounds are enough.  Every hazard listed is an overlap of two things:
two dialogs and a snack bar, a write with a write behind it, an acknowledgement
with a watch event, a call with a call or a snapshot.  The bounds let each pair
happen with room for a third.  `MaxChannel` keeps the *server* quiet while that
many messages wait; the app's own writes and their answers are never held back
by it.  `Shared` names the documents other devices change; in `tasks` it is
empty because that run spends its states on the screens, in `tasks_list` it is
not.  `MaxFlushes` bounds the Flushbars over a form.  In `remote` the pipeline is
shorter than the queue, so that refilling it happens; in `watch` there is room
for one limbo resolution and two documents can be in limbo, so that waiting for
a slot happens; and the stream breaks twice, since what was learned on the first
stream is what the second one resumes from.  A bound on restarts is a bound on how often the same thing
happens: nothing counts them.

Deadlock is checked in `store`, `remote` and the three runs of the task list.
The others really stop: when the calls are used up and all dialogs are closed
(`dialogs`), when the page has settled (`home`), when all has arrived (`watch`).

**Fairness.**  None for the dialogs, which promise nothing in time.
`StoreFairness` and `AppFairness`: the client retries a write until the server
answers (`HandleWriteError` drops only permanent errors), so a server that can
be reached again and again does answer; and the executor runs what it is given.
`RemoteFairness` is the same assumption where it belongs, on the stream: timers
fire (weak), and the steps that need the network (a token, an open stream, a
handshake, an answer) happen if they are possible again and again (strong,
since a stream that breaks takes the possibility away for a while).  With weak
fairness alone a stream could break for ever just before its answer.
`WF(Work)` of `WatchSync`: someone among client and server moves while someone
can; breaks, restarts and changes by others are nobody's duty, and breaks and
restarts are bounded.  `HomeFairness`: a marked widget is rebuilt, calls into
Firebase and HTTP requests end, well or badly; whether a put reaches the file
is left open.
For a device that stays offline for good `WritesAreAnswered`,
`SavesAreAnnounced`, `WritesReachTheServer` and `Settles` say nothing.  Users
owe nobody a tap.

Every property a run checks has a seeded fault (an operator marked so, next to the
definition it replaces) that breaks it: a dropped reset, an error not
reported, a snapshot before its answer, a version not compared.

## 4. Proofs

For any number of calls, documents, writes, restarts, attempts and articles (the
assumptions say only that the constants are numbers, that `Shared` names
documents, that `kMaxPendingWrites` is at least one, and that there are fetches
enough for the visits):

* `DialogServiceProofs`: `DialogTypeOK`, `NewestIsAnswerable`, `CompletedOnce`,
  `OrphansStayPending`, `AnsweredByOwnButton`, `CoveredPressIsLost`, and the
  refinement of `ReplySlot`.  The inductive invariant `DialogInv` adds to the types that
  exactly the calls up to `issued` have happened (`CallsAreDense`), that the
  completer is null or the newest call's and pending (`NewestIsAnswerable`),
  that routes belong to calls (`RoutesOfCalls`), that an awaited dialog is
  on the screen (`AwaitedDialogIsShown`) and that a dialog on the screen is
  unanswered (`ShownDialogsArePending`).  `AnsweredByOwnButton` needs the three
  before the last: a press completes the newest call, and a dialog that is the
  newest call is the top route, which is the one the press pops.
  `CoveredPressIsLost` needs the last: a dialog under another route is not the
  newest call, so that the field is not its own.
  For the refinement each action maps to `Ask`, `Reply` or a stutter.
* `FirestoreProofs`: `StoreTypeOK`, `StreamFresh`, `OneAnswerEach`,
  `DeletedWhenTold`, `HeardBeforeReverted` and the refinement of
  `OrderedReplies`, from four invariants, each inductive given the ones before:
  `StoreInv`: a step that changes cache or queue computes the new view and hands
  it to `Emit` in the same step (`EmitKeepsStreamFresh`), and reading a message
  moves the newest snapshot from the channel to `seen`.
  `RepliesInv` says where an unanswered write of this run of the app is: in
  order, first those whose result is in the channel, then those in the queue;
  hence the result read next is that of the oldest unanswered write.
  `WritesInv` is what the queue may hold: it is the last of the writes, the set
  of a document comes before its other writes, and a document whose delete was
  accepted is deleted in the cache (`DeletesHold`).  From it follows what any
  view shows (`ViewsFollowWrites`), by induction over the queue: the view of a
  document is `LocalStates`, one value per prefix of the queue, and a patch
  never leads from an absent document to a present one.
  `ShownInv` carries this along the channel: every snapshot behind the answer
  to a delete lacks the document, and every snapshot in front of the answer
  to an undeleted set has it.  `DeletedWhenTold` alone is not inductive: a
  snapshot still in the channel when the answer is read could bring the
  document back.
* `TasksAppProofs`: `AppTypeOK`, `EveryAwaitHasItsCall`, `DeletedOnOwnYes`,
  `ListFollowsSnapshots`, `BusyHasAReason` and, as long as nobody opens the form
  (`ListOnlySpec`), `CheckBoxesSettle`: every property of the runs `tasks` and
  `tasks_list`.  The invariant `AppInv` holds the components' own
  (`DialogSound`, `StoreSound`), the types, and how the two are tied:
  `EveryAwaitHasItsCall` with what it rests on (`FlowsSound`: a flow that asks
  is a delete which has not written and whose call is a confirmation), and
  `DocsAreKnown`: the screens only ever name documents that were created, which
  is what `Firestore` expects of a caller.  A step of the app is looked at three
  times: what it is for the dialogs, what it is for the store, what it does to
  the flows.  The first two give the contract `ScreensAreCallers`: a run of the
  app is a run of `DialogService` and of `Firestore` with their free callers
  bound by the screens, so that the invariants of these hold here without being
  proved again.  `CheckBoxesSettle` speaks of quiet states only; the inductive
  `CheckBoxesFresh` says that without a snapshot on its way the boxes already
  show what the last one said.
* `ListTheorems`: `LeastElement`, induction up to a number for one set
  (`InductionUpTo`), that a recursive function over `0 .. n` exists and obeys
  its equations (`RecursionUpTo`), and from these that what `Selected` returns
  is of the list and of the set, and no longer than the list; that it holds
  exactly the entries of the list in the set, each once if the list had each
  once, and that `Append` and `Tail` do so too (`SelectedEntries`,
  `AppendedEntries`, `TailEntries`).  The library's
  induction theorems take an operator as parameter; these take a set, and rest
  on the library's theorem that `<` is well-founded.
* `HomeProofs`: `HomeTypeOK`, `BlankOnlyWhileTrying`, `SpinnerHasAReason` and
  `NewsAreCached`.  The first needs that a frame without the app takes the page
  with it; the last is inductive only with what the news are before the first
  answer.
* `RemoteStoreProofs`: every invariant of the run `remote`, `PendingWritesAreServed` and the refinement of `OrderedReplies`.
  `PipeInv` is the argument:
  the queue ascends and holds exactly the unanswered writes (`QueueIsOrdered`),
  the pipeline is its front and full (`PipelineIsFull`), a stream carries
  nothing before it is open and only its greeting before the handshake
  (`StreamHasShape`, `Greeting`), then exactly the pipeline, answers first
  (`Carrying`), at most the last token is wanted (`TokensAreStale`), and an ok
  is true (`AnswersAreTrue`).  None holds alone: that a result belongs to the
  head of the pipeline needs `Carrying`, that the head is the oldest write needs
  the first two.  The lemma `FillFills` says once what refilling does, and
  `CloseKeepsStream` what closing does; each action is then one lemma that it
  keeps `PipeInv` and is a step of `OrderedReplies`.  `OnlineInv` is the other
  half.
* `WatchSyncProofs`: `SyncTypeOK`, `AcksAreCounted`, `LimboIsTracked` and
  `ChangesAreOfKnown`.  The difficulty is that one message can end and start
  several listens, so a handler changes requests, counts, tokens and the limbo
  queue many times before it is through.  The invariant `SyncInv` therefore
  speaks of a book, not of the variables: `Sound(old, pending, book, limbo)` says
  what holds of the book a handler works on, when it began with `old` and
  `pending` are the acknowledgements on their way.  `Carries` is the
  types, that every target's count is what was requested and not read plus what
  was acknowledged and not received (`Counted`), and that a target which is active
  in the book was active before, with the same state (`Inherits`).  `Tracks` and
  `Filled` are `LimboIsTracked` of the book: limbo is queue and resolutions,
  disjoint, each document once, the slots full while there is a queue.  Sending a request
  (`RequestCarries`), filling a slot (`PumpCarries`, `PumpTracks`), ending a
  resolution (`UntrackSound`) and starting one (`TrackSound`) each keep it, and so
  does going through the documents of a change one by one (`UntrackedSound`,
  `TrackedSound`).  `Pump` is the loop of the code written as one round: its lemma
  assumes that at most one slot is to be filled (`NearlyFilled`), and its callers
  show that there never are two.  That a free number exists rests on the maps being finite
  (`Partial`, `FreshNumber`).
  Every request is answered by one acknowledgement: news are `Mute`, and
  an answer has exactly one (`OneAck`).  `ChangesAreOfKnown` is inductive only
  with `Inherits`: a snapshot clears the changes of every active target, and
  what becomes active while it is being handled would otherwise bring changes
  of an earlier watch.
* `ConvergenceProofs`: `Converges`, that with nothing on its way and nobody having
  anything to send the list is the server's.  It speaks of quiet states only; the
  invariant must say of every state what the messages on their way will lead
  to.  It is built in five layers, each kept by every step given those below;
  TLC finds what each layer adds true on the instance of the run `watch`.
  - `WireInv` (second half of `WatchSyncProofs`, `WireKept`) is the order of
    what is on its way: what is told is followed by a snapshot, a reset by its
    end, a count stands between the changes it counts and the snapshot
    (`Ordered`); a mismatch waits for its snapshot and has taken every
    key back (`Mismatched`); the last request about a target is the one the
    client would make now, and with none on its way the server serves the
    target (`AllAsked`).
  - `CalmInv`: without a snapshot on its way nothing is pending (`Settled0`),
    each answered target is current or will be told so (`Marked`), a current
    view has heard its stream (`CurrentIsHeard`), and limbo is what it shows,
    does not know, and does not have with local mutations (`ViewFresh`).
  - `TruthInv`: what anybody remembers did exist (`KnownBorn`), and what the
    server has said since it answered last is true (`Truthful`).  Both stay so
    because a document is created once and deleted once.
  - `FollowInv`: `Believes` is what the client takes for a document's state
    having heard the first *j* messages: what the last message about it says,
    or, with none, what it has noted.  `Follows` says that each snapshot
    finds the client believing its token, and that in the end it believes what
    the server told (`InTune`).  For the query this holds
    only while every count on its way is going to be found right
    (`CountsAgree`): a wrong one makes the client forget its keys and ask
    again.  And it holds only while the app was not started with a token for
    documents it had lost (`intact`, section 5).
  - `ReachInv`: a document of the server is cached before it is taken for
    known.  `TokensCached` says it of the resume tokens, `Arrives` of every
    snapshot on its way.  This needs neither `intact` nor right counts, so
    that `Converges` promises every document of the server in the list even
    after such a start.  `OwnKept` is about the documents of this device: one that
    is known has no local mutations left in the view once its write is
    acknowledged, since the update that made it known also renewed it.

  A step is one of few kinds (`Step`): the stream opens or breaks, the server
  says more, the client takes a message without a snapshot, or one with.  For the
  last, each target is kept, begun anew, or raised, its keys becoming the
  token of the snapshot (`TargetKept`, `TargetBegun`, `TargetRaised`); the
  layers are proved from these kinds and never look into `HandleSnapshot` again.
  `ClientFollows` and `TokensMeanCached` are the two of the layers worth reading
  on their own.

Five properties of earlier runs are proved and no longer run: `CompletedOnce` and
`OrphansStayPending`, close to what the refinement of `ReplySlot` says;
`OneAnswerEach`, beside that of `OrderedReplies`; `SpinnerHasAReason` and
`PendingWritesAreServed`, the safety side of `SpinnerStops` and
`WritesReachTheServer`, which the runs check.

What the proofs changed in the models.  `WatchStates` of `Firestore` was a `CASE`
whose first two conditions overlapped for documents of other devices, so that
its value was up to the reader of the `CASE` (TLC takes the first); the proof of
`DeletesHold` could not choose, and the definition is now explicit.  The view of a
document and the filtered lists were library folds over operators; they are
recursive functions now, which the provers can unfold, and so are the passes of
`WatchSync` over the limbo changes (`Untracked`, `Tracked`).  `StreamOpens` lists
the targets it watches in ascending order, and states in closed form what the
requests leave behind.

Every invariant of the passing runs and every action property that is not about
fairness is stated by a theorem.  Model-checked only: liveness (`WritesAreAnswered`, `SavesAreAnnounced`, `WritesReachTheServer`, `WaitingEnds`,
`BlankScreenEnds`, `SpinnerStops`, `Settles`), which the provers do not reach.
`Converges` and `Settles` go together: the one says what a quiet state is like, the
other that there will be one.

## 5. What the code says and does not do

* `TappedTaskIsDeleted`: `deletePost` looks the task up by index after the
  confirmation (`viewModel/taskViewModel.dart:54`).  On the Completed page the
  index counts completed tasks only, and a snapshot or another delete in
  between shifts it: another task is deleted.
* `EmptiedListIsShown`: an empty snapshot is dropped
  (`non_ui/repo/firebase_manager.dart:51`), so the last task never leaves the
  list.
* `FetchedNewsAreShown`: `HomePage.build` takes the news over only while the
  filtered list is empty (`ui/screens/home.dart:58`); news fetched while it
  shows older ones are not listed.
* `TokenMeansKnown`: after an existence filter mismatch the resume token is
  cleared in memory (`remote_store.cc:329`) while the event that empties the
  target's keys still writes its new token to disk (`local_store.cc:302`).  A
  crash before the full update has come leaves a token for documents the
  client does not hold; the server does not send them again, and they stay in
  limbo, where each keeps one of the slots.  With more of them than slots
  a deleted document behind them stays in the list: the exception `Converges`
  makes for what waits in the limbo queue.  And when a document is deleted later
  while the keys lack another one, the count of the filter is right although the
  documents are not, so that the deleted one is never asked for: the exception
  for `intact`.

What the model shows beside these, in the code and in the actions:

* A limbo document that was received is deleted while the stream is broken, and
  the server answers the token of its listen with a reset.  The reset takes the
  document out of the target without an update of the document; the event that
  ends the listen synthesizes no delete (`remote_event.cc:270`), since the remote
  keys it looks at are those before the event.  The document stays in the list
  until another global snapshot is raised: the exception `Converges` makes for
  `Denied`.
* An acknowledged document of this device still counts as a local change in the
  view: its data are the same and it has pending mutations on both sides
  (`view.cc:156`, `184`), so the view keeps the document it has, which is not put
  in limbo (`view.cc:344`).  If others delete it before the watch stream has
  named it, a server that tells only how the list differs has nothing to say,
  the client does not ask, and the task stays listed until the app restarts: the
  exception `Converges` makes for `mutatedKeys`.
* After "No", `_delete` still removes the entry from the list
  (`ui/screens/tasks.dart:69`, `FinishDelete`).
* `deleteTask` has no `catch` (`non_ui/repo/firebase_manager.dart:67`): a
  refused delete ends without a message and with busy set.
* The form's switch toggles the list's own object (`ui/screens/task.dart:114`)
  before anything is saved; `CheckBoxesSettle` holds without the form
  (`tasks_list`) and not with it.
* A search without a hit shows all the news (`home.dart:58`, `BuildHome`).
* An attempt to initialise that fails after another has succeeded replaces the
  running app by the error screen (`main.dart:92`, `ShowRoot`).
* Nobody completes the future of a snack bar but the button of a later dialog,
  so `update` usually stays in *notifying*, its final pop comes much later or
  never, and with `deletePost` so does the removal from the list.
* A write whose answer is lost is applied twice by the server (`ServerCommits`
  of a write already in `committed`); the app's writes bear that, except that a
  patch can be refused after its first application when the document is gone.

## 6. Not modelled, and why

* Restart of the app inside `TasksApp`: the screens start from scratch, which
  is another initial state; the store's side is `Restart` in `Firestore`.
* Of the Firestore client: queries with limits, transactions, bundles, change of
  users, garbage collection, a limbo listen that the server rejects, a network
  turned off by the app: not used by the app, or not reached by it.  How long
  backoff delays are, and the stream token, which the client only sends back.
  A second listener when `IndexPage` is created anew under the same view model.
* The text in the form's fields: filled or not is all its control looks at.
* Rows built lazily from the list while it is being scrolled.
* Back on the index page: it leaves the app.
* `routes.dart`, `navigation/navigator.dart`, `navigateToCreateView`: never
  called.
* The conversions of `Task` and `NewsModel`: what they carry beside the
  completion decides nothing in the screens.
* Everything else under `ios/Pods` (gRPC, BoringSSL, abseil, leveldb, nanopb,
  the other Firebase pods), `android/`, `ios/Runner`, `web/`.  These are more
  than 99 of 100 lines of the repository: vendored libraries below the
  interface the app uses, tables, certificates and generated project files.
  Nothing of the app's behaviour is decided there, so the mapped share of the
  repository's lines stays small whatever is modelled.

## 7. What is left

1. The main navigator on its own: which routes a late pop can close (the form
   timer, the pop at the end of `update`, Back).
2. A refinement that takes `WatchSync` to the watch events of `Firestore`.

------------------------- MODULE DialogServiceProofs -------------------------
(***************************************************************************)
(* What DialogService guarantees for every number of calls.  The argument  *)
(* rests on one inductive invariant: calls are numbered densely, the field *)
(* holds the newest call until it is answered, and the dialog of the call  *)
(* in the field is still on the screen.                                    *)
(***************************************************************************)
EXTENDS DialogService, TLAPS

(* Exactly the calls 1 .. issued have been made. *)
CallsAreDense ==
    \A r \in Request :
        /\ outcome[r] = "none" <=> r > issued
        /\ kind[r] = "none" <=> r > issued

(* Only calls that have been made have a route. *)
RoutesOfCalls == \A r \in routes : r <= issued

(* The dialog whose answer is awaited is still on the navigator. *)
AwaitedDialogIsShown ==
    completer # NoRequest /\ kind[completer] # "snack" => completer \in routes

(* A dialog on the screen was not answered: its answer closes it. *)
ShownDialogsArePending ==
    \A r \in routes : kind[r] # "snack" => outcome[r] = "pending"

DialogInv ==
    /\ DialogTypeOK
    /\ CallsAreDense
    /\ NewestIsAnswerable
    /\ RoutesOfCalls
    /\ AwaitedDialogIsShown
    /\ ShownDialogsArePending

-----------------------------------------------------------------------------
LEMMA DialogInvInit == DialogInit => DialogInv
BY MaxRequestsAssumption
   DEF DialogInit, DialogInv, DialogTypeOK, CallsAreDense, NewestIsAnswerable,
       RoutesOfCalls, AwaitedDialogIsShown, ShownDialogsArePending, Request, NoRequest

(* What the answer of a press may be. *)
LEMMA AnswersAreBoolean == ASSUME NEW k PROVE Answers(k) \subseteq {"yes", "no"}
BY DEF Answers

(* The dialog of the newest call, while it is on the screen, is both the top *)
(* route and the only dialog a user can press.                              *)
LEMMA NewestDialogIsOnTop ==
    ASSUME DialogInv,
           completer # NoRequest,
           kind[completer] # "snack"
    PROVE  /\ OnTop(completer)
           /\ \A r \in Request : Pressable(r) => r = completer
           /\ \A r \in Request : OnTop(r) => r = completer
<1>1. completer \in routes /\ completer = issued
  BY DEF DialogInv, AwaitedDialogIsShown, NewestIsAnswerable
<1>2. \A s \in routes : s \in Nat /\ s <= completer
  BY <1>1, MaxRequestsAssumption
     DEF DialogInv, DialogTypeOK, RoutesOfCalls, Request
<1>3. completer \in Nat
  BY <1>1, <1>2
<1>4. OnTop(completer)
  BY <1>1, <1>2 DEF OnTop
<1>5. \A r \in Request : Pressable(r) => r = completer
  BY <1>1, <1>2, <1>3 DEF Pressable, Request
<1>6. \A r \in Request : OnTop(r) => r = completer
  BY <1>1, <1>2, <1>3 DEF OnTop, Request
<1> QED
  BY <1>4, <1>5, <1>6

LEMMA ShowInv ==
    ASSUME DialogInv, NEW k \in Kind, Show(k)
    PROVE  DialogInv'
<1> DEFINE new == issued + 1
<1>1. new \in Request /\ issued \in Nat /\ new # NoRequest
  BY MaxRequestsAssumption
     DEF DialogInv, DialogTypeOK, Show, Request, NoRequest
<1>2. DialogTypeOK'
  BY <1>1, MaxRequestsAssumption DEF DialogInv, DialogTypeOK, Show, Request
<1>3. CallsAreDense'
  BY <1>1, MaxRequestsAssumption
     DEF DialogInv, DialogTypeOK, CallsAreDense, Show, Request, Kind
<1>4. NewestIsAnswerable'
  BY <1>1 DEF DialogInv, DialogTypeOK, NewestIsAnswerable, Show, Request
<1>5. RoutesOfCalls'
  BY <1>1 DEF DialogInv, DialogTypeOK, RoutesOfCalls, Show, Request
<1>6. AwaitedDialogIsShown'
  BY <1>1 DEF AwaitedDialogIsShown, Show
<1>7. ShownDialogsArePending'
  BY <1>1 DEF DialogInv, DialogTypeOK, ShownDialogsArePending, Show
<1> QED
  BY <1>2, <1>3, <1>4, <1>5, <1>6, <1>7 DEF DialogInv

LEMMA DialogCompleteInv ==
    ASSUME DialogInv,
           NEW r \in Request,
           NEW answer \in {"yes", "no"},
           DialogComplete(r, answer)
    PROVE  DialogInv'
<1>1. PICK top \in routes : OnTop(top) /\ routes' = routes \ {top}
  BY DEF DialogComplete, PopTop
<1>2. UNCHANGED <<issued, kind>>
  BY DEF DialogComplete
<1>3. CASE completer = NoRequest
  <2>1. UNCHANGED <<outcome, completer>>
    BY <1>3 DEF DialogComplete
  <2> QED
    BY <1>1, <1>2, <1>3, <2>1
       DEF DialogInv, DialogTypeOK, CallsAreDense, NewestIsAnswerable,
           RoutesOfCalls, AwaitedDialogIsShown, ShownDialogsArePending
<1>4. CASE completer # NoRequest
  <2>1. /\ outcome' = [outcome EXCEPT ![completer] = answer]
        /\ completer' = NoRequest
    BY <1>4 DEF DialogComplete
  <2>2. completer \in Request /\ completer = issued
    BY <1>4 DEF DialogInv, DialogTypeOK, NewestIsAnswerable
  <2>3. DialogTypeOK'
    BY <1>1, <1>2, <2>1, <2>2 DEF DialogInv, DialogTypeOK
  <2>4. CallsAreDense'
    BY <1>2, <2>1, <2>2
       DEF DialogInv, DialogTypeOK, CallsAreDense, Request
  <2>5. NewestIsAnswerable'
    BY <1>2, <2>1, <2>2, MaxRequestsAssumption
       DEF DialogInv, DialogTypeOK, NewestIsAnswerable, Request, NoRequest
  <2>6. RoutesOfCalls' /\ AwaitedDialogIsShown'
    BY <1>1, <1>2, <2>1 DEF DialogInv, RoutesOfCalls, AwaitedDialogIsShown
  <2>7. ShownDialogsArePending'
    <3> SUFFICES ASSUME NEW q \in routes', kind[q] # "snack" PROVE outcome'[q] = "pending"
      BY <1>2 DEF ShownDialogsArePending
    <3>1. q \in Request /\ q \in routes /\ q # top
      BY <1>1 DEF DialogInv, DialogTypeOK
    <3>2. q # completer
      BY <1>1, <1>4, <3>1, NewestDialogIsOnTop DEF DialogInv, DialogTypeOK
    <3> QED
      BY <2>1, <3>1, <3>2 DEF DialogInv, DialogTypeOK, ShownDialogsArePending
  <2> QED
    BY <2>3, <2>4, <2>5, <2>6, <2>7 DEF DialogInv
<1> QED
  BY <1>3, <1>4

LEMMA DismissInv ==
    ASSUME DialogInv, NEW r \in Request, Dismiss(r)
    PROVE  DialogInv'
BY DEF DialogInv, DialogTypeOK, CallsAreDense, NewestIsAnswerable,
       RoutesOfCalls, AwaitedDialogIsShown, ShownDialogsArePending, Dismiss

LEMMA DialogInvStep == DialogInv /\ [DialogNext]_dialogVars => DialogInv'
<1> SUFFICES ASSUME DialogInv, [DialogNext]_dialogVars
             PROVE  DialogInv'
  OBVIOUS
<1>1. CASE \E k \in Kind : Show(k)
  BY <1>1, ShowInv
<1>2. CASE \E r \in Request : \E answer \in {"yes", "no"} :
             DialogComplete(r, answer)
  BY <1>2, DialogCompleteInv
<1>3. CASE \E r \in Request : Dismiss(r)
  BY <1>3, DismissInv
<1>4. CASE UNCHANGED dialogVars
  BY <1>4 DEF dialogVars, DialogInv, DialogTypeOK, CallsAreDense,
              NewestIsAnswerable, RoutesOfCalls, AwaitedDialogIsShown,
              ShownDialogsArePending
<1> QED
  BY <1>1, <1>2, <1>3, <1>4 DEF DialogNext

-----------------------------------------------------------------------------
(* The inductive invariant holds in every reachable state. *)
THEOREM DialogInvariant == DialogSpec => []DialogInv
<1>1. DialogInit => DialogInv
  BY DialogInvInit
<1>2. DialogInv /\ [DialogNext]_dialogVars => DialogInv'
  BY DialogInvStep
<1> QED
  BY <1>1, <1>2, PTL DEF DialogSpec

(* The service's fields always have their types. *)
THEOREM DialogTypeCorrect == DialogSpec => []DialogTypeOK
<1>1. DialogInv => DialogTypeOK
  BY DEF DialogInv
<1> QED
  BY <1>1, DialogInvariant, PTL

(* The newest call stays answerable until it is answered, and the field     *)
(* never holds an older call's completer.                                   *)
THEOREM NewestAlwaysAnswerable == DialogSpec => []NewestIsAnswerable
<1>1. DialogInv => NewestIsAnswerable
  BY DEF DialogInv
<1> QED
  BY <1>1, DialogInvariant, PTL

-----------------------------------------------------------------------------
(* A press answers the call in the field and leaves every other one alone. *)
LEMMA PressAnswersTheField ==
    ASSUME DialogInv,
           NEW r \in Request,
           NEW answer \in {"yes", "no"},
           DialogComplete(r, answer),
           NEW q \in Request,
           outcome'[q] # outcome[q]
    PROVE  q = completer /\ outcome[q] = "pending"
<1>1. completer # NoRequest
  BY DEF DialogComplete
<1>2. outcome' = [outcome EXCEPT ![completer] = answer]
  BY <1>1 DEF DialogComplete
<1>3. q = completer
  BY <1>2 DEF DialogInv, DialogTypeOK
<1>4. completer = issued /\ issued # 0
  BY <1>1 DEF DialogInv, NewestIsAnswerable, NoRequest
<1> QED
  BY <1>3, <1>4 DEF DialogInv, NewestIsAnswerable

(* A call changes no future but the one it returns. *)
LEMMA ShowTouchesTheNewCall ==
    ASSUME DialogInv, NEW k \in Kind, Show(k),
           NEW q \in Request, outcome'[q] # outcome[q]
    PROVE  q = issued + 1 /\ outcome[q] = "none" /\ outcome'[q] = "pending"
<1>1. q = issued + 1 /\ outcome'[q] = "pending"
  BY DEF Show, DialogInv, DialogTypeOK
<1>2. issued \in Nat /\ q > issued
  BY <1>1, MaxRequestsAssumption DEF DialogInv, DialogTypeOK
<1> QED
  BY <1>1, <1>2 DEF DialogInv, CallsAreDense

(* Every future goes from none to pending to one answer, which it keeps.   *)
THEOREM EachCompletedOnce == DialogSpec => CompletedOnce
<1>1. DialogInv /\ [DialogNext]_dialogVars
        => [\A r \in Request :
              outcome[r] \in {"yes", "no"} => outcome'[r] = outcome[r]]_dialogVars
  <2> SUFFICES ASSUME DialogInv, DialogNext, NEW q \in Request,
                      outcome[q] \in {"yes", "no"}
               PROVE  outcome'[q] = outcome[q]
    BY DEF dialogVars
  <2>1. CASE \E k \in Kind : Show(k)
    BY <2>1, ShowTouchesTheNewCall
  <2>2. CASE \E r \in Request : \E answer \in {"yes", "no"} :
               DialogComplete(r, answer)
    BY <2>2, PressAnswersTheField
  <2>3. CASE \E r \in Request : Dismiss(r)
    BY <2>3 DEF Dismiss
  <2> QED
    BY <2>1, <2>2, <2>3 DEF DialogNext
<1> QED
  BY <1>1, DialogInvariant, PTL DEF DialogSpec, CompletedOnce

(* A call whose completer was replaced is never answered. *)
THEOREM OrphansForever == DialogSpec => OrphansStayPending
<1>1. DialogInv /\ [DialogNext]_dialogVars
        => [\A r \in Request : Orphan(r) => Orphan(r)']_dialogVars
  <2> SUFFICES ASSUME DialogInv, DialogNext, NEW q \in Request, Orphan(q)
               PROVE  Orphan(q)'
    BY DEF dialogVars
  <2>1. CASE \E k \in Kind : Show(k)
    <3>1. PICK k \in Kind : Show(k)
      BY <2>1
    <3>2. outcome'[q] = outcome[q]
      BY <3>1, ShowTouchesTheNewCall DEF Orphan
    <3>3. issued + 1 \in Request /\ issued \in Nat
      BY <3>1, MaxRequestsAssumption
         DEF Show, DialogInv, DialogTypeOK, Request
    <3>4. completer' # q
      BY <3>1, <3>3 DEF Show, Orphan, DialogInv, CallsAreDense
    <3> QED
      BY <3>2, <3>4 DEF Orphan
  <2>2. CASE \E r \in Request : \E answer \in {"yes", "no"} :
               DialogComplete(r, answer)
    <3>1. PICK r \in Request, answer \in {"yes", "no"} :
            DialogComplete(r, answer)
      BY <2>2
    <3>2. outcome'[q] = outcome[q]
      BY <3>1, PressAnswersTheField DEF Orphan
    <3>3. completer' = NoRequest /\ q # NoRequest
      BY <3>1 DEF DialogComplete, Request, NoRequest
    <3> QED
      BY <3>2, <3>3 DEF Orphan
  <2>3. CASE \E r \in Request : Dismiss(r)
    BY <2>3 DEF Dismiss, Orphan
  <2> QED
    BY <2>1, <2>2, <2>3 DEF DialogNext
<1> QED
  BY <1>1, DialogInvariant, PTL DEF DialogSpec, OrphansStayPending

(* No press meant for one dialog ever answers another dialog's question.   *)
THEOREM DialogsAnswerThemselves == DialogSpec => AnsweredByOwnButton
<1>1. DialogInv /\ [DialogNext]_dialogVars
        => [\A r \in Request :
              (/\ outcome[r] = "pending"
               /\ outcome'[r] # "pending"
               /\ kind[r] # "snack")
              => Pressable(r) /\ routes' = routes \ {r}]_dialogVars
  <2> SUFFICES ASSUME DialogInv, DialogNext, NEW q \in Request,
                      outcome[q] = "pending", outcome'[q] # "pending",
                      kind[q] # "snack"
               PROVE  Pressable(q) /\ routes' = routes \ {q}
    BY DEF dialogVars
  <2>1. ~ \E k \in Kind : Show(k)
    BY ShowTouchesTheNewCall
  <2>2. ~ \E r \in Request : Dismiss(r)
    BY DEF Dismiss
  <2>3. PICK r \in Request, answer \in {"yes", "no"} :
          DialogComplete(r, answer)
    BY <2>1, <2>2 DEF DialogNext
  <2>4. q = completer
    BY <2>3, PressAnswersTheField
  <2>5. completer # NoRequest
    BY <2>4 DEF Request, NoRequest
  <2>6. Pressable(r) /\ PopTop
    BY <2>3 DEF DialogComplete
  <2>7. r = q
    BY <2>4, <2>5, <2>6, NewestDialogIsOnTop
  <2>8. PICK top \in routes : OnTop(top) /\ routes' = routes \ {top}
    BY <2>6 DEF PopTop
  <2>9. top = q
    BY <2>4, <2>5, <2>8, NewestDialogIsOnTop DEF DialogInv, DialogTypeOK
  <2> QED
    BY <2>6, <2>7, <2>8, <2>9
<1> QED
  BY <1>1, DialogInvariant, PTL DEF DialogSpec, AnsweredByOwnButton

(* A press that leaves its dialog standing pops a newer snack bar, which    *)
(* had taken the field: the dialog's call was lost when the bar was shown.  *)
THEOREM CoveredPressesAreLost == DialogSpec => CoveredPressIsLost
<1>1. DialogInv /\ [DialogNext]_dialogVars
        => [\A r \in Request, answer \in {"yes", "no"} :
              DialogComplete(r, answer) /\ r \in routes' =>
                  /\ Orphan(r) /\ Orphan(r)'
                  /\ \E s \in routes \ routes' : s > r /\ kind[s] = "snack"]_dialogVars
  <2> SUFFICES ASSUME DialogInv, NEW r \in Request, NEW answer \in {"yes", "no"},
                      DialogComplete(r, answer), r \in routes'
               PROVE  /\ Orphan(r) /\ Orphan(r)'
                      /\ \E s \in routes \ routes' : s > r /\ kind[s] = "snack"
    BY DEF dialogVars
  <2>1. PICK top \in routes : OnTop(top) /\ routes' = routes \ {top}
    BY DEF DialogComplete, PopTop
  <2>2. r \in routes /\ kind[r] # "snack" /\ \A s \in routes : kind[s] # "snack" => s <= r
    BY DEF DialogComplete, Pressable
  <2>3. /\ r # top /\ top \in routes \ routes' /\ r <= top
        /\ r \in Nat /\ top \in Nat /\ top \in Request
    BY <2>1, <2>2 DEF OnTop, DialogInv, DialogTypeOK, Request
  <2>4. top > r /\ kind[top] = "snack"
    BY <2>1, <2>2, <2>3
  <2>5. completer # r
    <3> SUFFICES ASSUME completer = r PROVE FALSE
      OBVIOUS
    <3>1. completer # NoRequest
      BY DEF Request, NoRequest
    <3> QED
      BY <2>1, <2>2, <2>3, <3>1, NewestDialogIsOnTop
  <2>6. outcome[r] = "pending"
    BY <2>2 DEF DialogInv, ShownDialogsArePending
  <2>7. outcome'[r] = outcome[r]
    BY <2>5, PressAnswersTheField
  <2>8. completer' # r
    BY <2>5 DEF DialogComplete, Request, NoRequest
  <2> QED
    BY <2>3, <2>4, <2>5, <2>6, <2>7, <2>8 DEF Orphan
<1> QED
  BY <1>1, DialogInvariant, PTL DEF DialogSpec, CoveredPressIsLost

-----------------------------------------------------------------------------
(* The refinement of ReplySlot: Show is Ask, a press on a dialog is Reply   *)
(* while the field is set and a stutter otherwise, Dismiss is a stutter.    *)
LEMMA SlotInitRefined == DialogInit => Slot!SlotInit
BY DEF DialogInit, Slot!SlotInit, CallPhase, NoRequest

LEMMA ShowIsAsk ==
    ASSUME DialogInv, NEW k \in Kind, Show(k)
    PROVE  Slot!Ask(issued + 1)
<1> DEFINE new == issued + 1
<1>1. new \in Request /\ issued \in Nat /\ new > issued
  BY MaxRequestsAssumption DEF DialogInv, DialogTypeOK, Show, Request
<1>2. CallPhase(new) = "idle" /\ completer' = new
  BY <1>1 DEF DialogInv, CallsAreDense, CallPhase, Show
<1>3. \A q \in Request :
        CallPhase(q)' = IF q = new THEN "open"
                        ELSE IF q = completer THEN "abandoned"
                        ELSE CallPhase(q)
  <2> SUFFICES ASSUME NEW q \in Request
               PROVE  CallPhase(q)' = IF q = new THEN "open"
                                      ELSE IF q = completer THEN "abandoned"
                                      ELSE CallPhase(q)
    OBVIOUS
  <2>1. CASE q = new
    BY <1>1, <2>1 DEF Show, CallPhase, DialogInv, DialogTypeOK
  <2>2. CASE q # new
    <3>1. outcome'[q] = outcome[q] /\ completer' # q
      BY <2>2, <1>2, ShowTouchesTheNewCall
    <3>2. q = completer => outcome[q] = "pending"
      BY DEF DialogInv, NewestIsAnswerable, NoRequest, Request
    <3>3. outcome[q] \in {"none", "pending", "yes", "no"}
      BY DEF DialogInv, DialogTypeOK
    <3> QED
      BY <2>2, <3>1, <3>2, <3>3 DEF CallPhase
  <2> QED
    BY <2>1, <2>2
<1> QED
  BY <1>1, <1>2, <1>3 DEF Slot!Ask

LEMMA PressIsReply ==
    ASSUME DialogInv, NEW r \in Request, NEW answer \in {"yes", "no"},
           DialogComplete(r, answer)
    PROVE  [Slot!SlotNext]_(Slot!slotVars)
<1>1. CASE completer = NoRequest
  <2>1. UNCHANGED <<outcome, completer>>
    BY <1>1 DEF DialogComplete
  <2>2. \A q \in Request : CallPhase(q)' = CallPhase(q)
    BY <2>1 DEF CallPhase
  <2> QED
    BY <2>1, <2>2 DEF Slot!slotVars
<1>2. CASE completer # NoRequest
  <2>1. /\ outcome' = [outcome EXCEPT ![completer] = answer]
        /\ completer' = NoRequest
        /\ completer \in Request
    BY <1>2 DEF DialogComplete, DialogInv, DialogTypeOK
  <2>2. \A q \in Request :
          CallPhase(q)' = IF q = completer THEN "replied" ELSE CallPhase(q)
    <3> SUFFICES ASSUME NEW q \in Request
                 PROVE  CallPhase(q)' = IF q = completer THEN "replied"
                                        ELSE CallPhase(q)
      OBVIOUS
    <3>1. CASE q = completer
      BY <2>1, <3>1 DEF CallPhase, DialogInv, DialogTypeOK
    <3>2. CASE q # completer
      <4>1. outcome'[q] = outcome[q] /\ completer' # q
        BY <2>1, <3>2 DEF DialogInv, DialogTypeOK, Request, NoRequest
      <4> QED
        BY <3>2, <4>1 DEF CallPhase
    <3> QED
      BY <3>1, <3>2
  <2>3. Slot!Reply
    BY <1>2, <2>1, <2>2 DEF Slot!Reply
  <2> QED
    BY <2>3 DEF Slot!SlotNext
<1> QED
  BY <1>1, <1>2

(* Every behaviour of DialogService is one of ReplySlot. *)
THEOREM ImplementsSlot == DialogSpec => ImplementsReplySlot
<1>1. DialogInit => Slot!SlotInit
  BY SlotInitRefined
<1>2. DialogInv /\ [DialogNext]_dialogVars
        => [Slot!SlotNext]_(Slot!slotVars)
  <2> SUFFICES ASSUME DialogInv, [DialogNext]_dialogVars
               PROVE  [Slot!SlotNext]_(Slot!slotVars)
    OBVIOUS
  <2>1. CASE \E k \in Kind : Show(k)
    <3>1. PICK k \in Kind : Show(k)
      BY <2>1
    <3>2. issued + 1 \in Request
      BY <3>1, MaxRequestsAssumption
         DEF Show, DialogInv, DialogTypeOK, Request
    <3> QED
      BY <3>1, <3>2, ShowIsAsk DEF Slot!SlotNext
  <2>2. CASE \E r \in Request : \E answer \in {"yes", "no"} :
               DialogComplete(r, answer)
    BY <2>2, PressIsReply
  <2>3. CASE \E r \in Request : Dismiss(r)
    BY <2>3 DEF Dismiss, CallPhase, Slot!slotVars
  <2>4. CASE UNCHANGED dialogVars
    BY <2>4 DEF dialogVars, CallPhase, Slot!slotVars
  <2> QED
    BY <2>1, <2>2, <2>3, <2>4 DEF DialogNext
<1> QED
  BY <1>1, <1>2, DialogInvariant, PTL
     DEF DialogSpec, ImplementsReplySlot, Slot!SlotSpec
=============================================================================

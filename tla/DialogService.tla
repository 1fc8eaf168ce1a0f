---------------------------- MODULE DialogService ----------------------------
(***************************************************************************)
(* The DialogService singleton together with the DialogManager widget that *)
(* shows what it is asked for (lib/services/dialogServices.dart and        *)
(* lib/ui/widgets/dialogManager.dart).                                     *)
(*                                                                         *)
(* The service keeps ONE field, _dialogCompleter, for every dialog,        *)
(* confirmation and snack bar.  Each call overwrites it with a new         *)
(* Completer and returns that completer's future; a dialog button pops the *)
(* top route of the dialog navigator, completes whatever completer the     *)
(* field then holds and sets the field to null.  A snack bar has no button *)
(* and completes nothing when it goes away.                                *)
(*                                                                         *)
(* Calls are numbered in the order they are made.  A call pushes its route *)
(* when it is made, so that order is also the order of the routes on the   *)
(* dialog navigator and a set of numbers is enough to represent its stack. *)
(* One action is one turn of the Dart event loop.  Callers are an open     *)
(* environment here: any call may come at any time.                        *)
(***************************************************************************)
EXTENDS Naturals

CONSTANT MaxRequests   \* bound on the calls made to the service

ASSUME MaxRequestsAssumption == MaxRequests \in Nat

VARIABLES
    issued,      \* the number of calls made so far
    kind,        \* the method each call used
    completer,   \* _dialogCompleter: whose future it completes, 0 when null
    outcome,     \* the future each call returned
    routes       \* the routes above DialogManager on the dialog navigator

dialogVars == <<issued, kind, completer, outcome, routes>>

Request == 1 .. MaxRequests
NoRequest == 0

(* showDialog, showConfirmationDialog and showSnack. *)
Kind == {"alert", "confirm", "snack"}

(* DialogResponse.confirmed: an alert has only its OK button. *)
Answers(k) == IF k = "confirm" THEN {"yes", "no"} ELSE {"yes"}

DialogTypeOK ==
    /\ issued \in 0 .. MaxRequests
    /\ kind \in [Request -> Kind \union {"none"}]
    /\ completer \in Request \union {NoRequest}
    /\ outcome \in [Request -> {"none", "pending", "yes", "no"}]
    /\ routes \subseteq Request

DialogInit ==
    /\ issued = 0
    /\ kind = [r \in Request |-> "none"]
    /\ completer = NoRequest
    /\ outcome = [r \in Request |-> "none"]
    /\ routes = {}

-----------------------------------------------------------------------------
(* The dialog navigator. *)

OnTop(r) == r \in routes /\ \A s \in routes : s <= r

(* AlertDialogs are modal (barrierDismissible is false), Flushbars are not: *)
(* only the uppermost dialog can be pressed, whatever snack bars lie above. *)
Pressable(r) ==
    /\ r \in routes
    /\ kind[r] # "snack"
    /\ \A s \in routes : kind[s] # "snack" => s <= r

(* Navigator.pop: the top route leaves, be it a dialog or a snack bar. *)
PopTop == \E r \in routes : OnTop(r) /\ routes' = routes \ {r}

-----------------------------------------------------------------------------
(* Seeded fault: a call made while a completer is set keeps that completer. *)
ShowKeepingCompleter(k) ==
    /\ issued < MaxRequests
    /\ issued' = issued + 1
    /\ kind' = [kind EXCEPT ![issued + 1] = k]
    /\ outcome' = [outcome EXCEPT ![issued + 1] = "pending"]
    /\ completer' = IF completer = NoRequest THEN issued + 1 ELSE completer
    /\ routes' = routes \union {issued + 1}

(* showDialog, showSnack and showConfirmationDialog differ in the request *)
(* they hand to the listener only.                                        *)
Show(k) ==
    /\ issued < MaxRequests
    /\ issued' = issued + 1
    /\ kind' = [kind EXCEPT ![issued + 1] = k]
    /\ outcome' = [outcome EXCEPT ![issued + 1] = "pending"]
    /\ completer' = issued + 1
    /\ routes' = routes \union {issued + 1}

(* Seeded fault: dialogComplete completes with no response at all. *)
DialogCompleteWithoutResponse(r, answer) ==
    /\ Pressable(r)
    /\ answer \in Answers(kind[r])
    /\ PopTop
    /\ IF completer = NoRequest
       THEN UNCHANGED <<outcome, completer>>
       ELSE /\ outcome' = [outcome EXCEPT ![completer] = "null"]
            /\ completer' = NoRequest
    /\ UNCHANGED <<issued, kind>>

(* A button of dialog r: pop first, then complete the completer.  With the *)
(* field at null the call throws after the pop.                            *)
DialogComplete(r, answer) ==
    /\ Pressable(r)
    /\ answer \in Answers(kind[r])
    /\ PopTop
    /\ IF completer = NoRequest
       THEN UNCHANGED <<outcome, completer>>
       ELSE /\ outcome' = [outcome EXCEPT ![completer] = answer]
            /\ completer' = NoRequest
    /\ UNCHANGED <<issued, kind>>

(* The Flushbar leaves after its 3 seconds, or is swiped away, wherever it *)
(* is in the stack; no completer hears of it.                              *)
Dismiss(r) ==
    /\ r \in routes
    /\ kind[r] = "snack"
    /\ routes' = routes \ {r}
    /\ UNCHANGED <<issued, kind, completer, outcome>>

DialogNext ==
    \/ \E k \in Kind : Show(k)
    \/ \E r \in Request : \E answer \in {"yes", "no"} : DialogComplete(r, answer)
    \/ \E r \in Request : Dismiss(r)

DialogSpec == DialogInit /\ [][DialogNext]_dialogVars

-----------------------------------------------------------------------------
(* A call whose future can no longer complete: it is pending, and the field *)
(* does not hold its completer.                                            *)
Orphan(r) == outcome[r] = "pending" /\ completer # r

(* The newest call can be answered until it is: its completer is the one in *)
(* the field, and no older call's ever is.                                 *)
NewestIsAnswerable ==
    /\ completer # NoRequest => completer = issued
    /\ issued # 0 =>
         (outcome[issued] = "pending" <=> completer = issued)

(* A completer is never completed twice (Dart throws StateError if it is): *)
(* the response a future carries never changes.                            *)
CompletedOnce ==
    [][\A r \in Request :
          outcome[r] \in {"yes", "no"} => outcome'[r] = outcome[r]]_dialogVars

(* Replacing the completer loses the replaced call for good: its future    *)
(* stays pending whatever happens later.                                   *)
OrphansStayPending ==
    [][\A r \in Request : Orphan(r) => Orphan(r)']_dialogVars

(* A dialog or confirmation is answered only by a press on one of its own  *)
(* buttons, never by a press meant for another dialog, and the route that  *)
(* closes in that step is its own.                                         *)
AnsweredByOwnButton ==
    [][\A r \in Request :
          (/\ outcome[r] = "pending"
           /\ outcome'[r] # "pending"
           /\ kind[r] # "snack")
          => Pressable(r) /\ routes' = routes \ {r}]_dialogVars

(* dialogComplete pops before it completes.  A press that leaves its dialog *)
(* standing popped a newer snack bar in its place, and it cost no answer:   *)
(* the snack bar had taken the field, so the dialog's call was lost before. *)
CoveredPressIsLost ==
    [][\A r \in Request, answer \in {"yes", "no"} :
          DialogComplete(r, answer) /\ r \in routes' =>
              /\ Orphan(r) /\ Orphan(r)'
              /\ \E s \in routes \ routes' : s > r /\ kind[s] = "snack"]_dialogVars

-----------------------------------------------------------------------------
(* DialogService implements ReplySlot: the field is the slot. *)
CallPhase(r) ==
    CASE outcome[r] = "none" -> "idle"
      [] outcome[r] \in {"yes", "no"} -> "replied"
      [] outcome[r] = "pending" /\ completer = r -> "open"
      [] OTHER -> "abandoned"

Slot == INSTANCE ReplySlot WITH
            slot <- completer,
            phase <- [r \in Request |-> CallPhase(r)]

(* The calls behave as questions put to a one-place slot. *)
ImplementsReplySlot == Slot!SlotSpec
=============================================================================

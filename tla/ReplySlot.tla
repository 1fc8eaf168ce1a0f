------------------------------ MODULE ReplySlot ------------------------------
(***************************************************************************)
(* What DialogService promises its callers, without any screen: a slot     *)
(* holding one open question.  Asking a new question while another one is  *)
(* open abandons the older one for good; a reply goes to the question in   *)
(* the slot and to no other.                                               *)
(***************************************************************************)
CONSTANTS
    Request,    \* the calls made to the service
    NoRequest   \* what an empty slot holds

VARIABLES
    slot,       \* the open question, or NoRequest
    phase       \* what became of each question

slotVars == <<slot, phase>>

Phase == {"idle", "open", "abandoned", "replied"}

SlotTypeOK ==
    /\ slot \in Request \union {NoRequest}
    /\ phase \in [Request -> Phase]

SlotInit ==
    /\ slot = NoRequest
    /\ phase = [r \in Request |-> "idle"]

(* A new question takes the slot; the one it displaces is abandoned. *)
Ask(r) ==
    /\ phase[r] = "idle"
    /\ slot' = r
    /\ phase' = [q \in Request |-> IF q = r THEN "open"
                                   ELSE IF q = slot THEN "abandoned"
                                   ELSE phase[q]]

(* The open question is answered and the slot becomes empty. *)
Reply ==
    /\ slot # NoRequest
    /\ phase' = [phase EXCEPT ![slot] = "replied"]
    /\ slot' = NoRequest

SlotNext == Reply \/ \E r \in Request : Ask(r)

SlotSpec == SlotInit /\ [][SlotNext]_slotVars
=============================================================================

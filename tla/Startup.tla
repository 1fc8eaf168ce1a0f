------------------------------- MODULE Startup --------------------------------
(***************************************************************************)
(* The root widget of lib/main.dart: it initialises Firebase and shows a   *)
(* blank screen, an error with a RETRY button, or the app.  setState only  *)
(* marks the widget; what is on the screen is what the last frame built,   *)
(* so RETRY can be tapped again before it is gone and attempts overlap.    *)
(***************************************************************************)
EXTENDS Naturals

CONSTANT MaxAttempts    \* bound on the calls of initialize()

ASSUME MaxAttemptsAssumption == MaxAttempts \in Nat \ {0}

VARIABLES
    initialized,    \* _initialized
    error,          \* _error
    started,        \* the calls of initialize() so far
    attempts,       \* those still waiting for Firebase.initializeApp
    screen          \* what the last frame built

bootVars == <<initialized, error, started, attempts, screen>>

BootTypeOK ==
    /\ initialized \in BOOLEAN
    /\ error \in BOOLEAN
    /\ started \in 1 .. MaxAttempts
    /\ attempts \in 0 .. started
    /\ screen \in {"blank", "error", "app"}

(* initState calls initialize() before the first frame. *)
BootInit ==
    /\ initialized = FALSE
    /\ error = FALSE
    /\ started = 1
    /\ attempts = 1
    /\ screen = "blank"

Built == IF error THEN "error" ELSE IF initialized THEN "app" ELSE "blank"

(* A frame after a setState. *)
BuildRoot ==
    /\ screen # Built
    /\ screen' = Built
    /\ UNCHANGED <<initialized, error, started, attempts>>

(* RETRY, also with an attempt still running. *)
Retry ==
    /\ screen = "error"
    /\ started < MaxAttempts
    /\ error' = FALSE
    /\ started' = started + 1
    /\ attempts' = attempts + 1
    /\ UNCHANGED <<initialized, screen>>

AttemptSucceeds ==
    /\ attempts > 0
    /\ attempts' = attempts - 1
    /\ initialized' = TRUE
    /\ UNCHANGED <<error, started, screen>>

(* Seeded fault: the exception is printed and nothing else. *)
AttemptFailsSilently ==
    /\ attempts > 0
    /\ attempts' = attempts - 1
    /\ UNCHANGED <<initialized, error, started, screen>>

AttemptFails ==
    /\ attempts > 0
    /\ attempts' = attempts - 1
    /\ error' = TRUE
    /\ UNCHANGED <<initialized, started, screen>>

AttemptEnds == AttemptSucceeds \/ AttemptFails

(* However attempts overlap, the user is never left with neither the app   *)
(* nor RETRY: while nothing is to be shown, some attempt is still running. *)
BlankOnlyWhileTrying == ~error /\ ~initialized => attempts > 0

(* A blank screen gives way to the app or to RETRY. *)
BlankScreenEnds == screen = "blank" ~> screen # "blank"
=============================================================================

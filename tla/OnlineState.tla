------------------------------ MODULE OnlineState ------------------------------
(***************************************************************************)
(* How the client finds out that it is offline: the watch stream as        *)
(* RemoteStore starts and restarts it (remote_store.cc, stream.cc), and    *)
(* OnlineStateTracker (online_state_tracker.cc), which gives up on the     *)
(* first failure or after ten seconds without an answer.  The state it     *)
(* reaches decides whether a listener that still waits for its first       *)
(* snapshot is given the empty view (GoOffline in Firestore).              *)
(***************************************************************************)
EXTENDS Naturals

VARIABLES
    listening,      \* listen_targets_ is not empty
    watch,          \* the state of watch_stream_
    online,         \* state_
    failures,       \* watch_stream_failures_, 2 for more than one
    timer           \* online_state_timer_ is running

watchVars == <<listening, watch, online, failures, timer>>

OnlineTypeOK ==
    /\ listening \in BOOLEAN
    /\ watch \in {"initial", "starting", "open", "error", "backoff"}
    /\ online \in {"unknown", "online", "offline"}
    /\ failures \in 0 .. 2
    /\ timer \in BOOLEAN

OnlineInit ==
    /\ listening = FALSE
    /\ watch = "initial"
    /\ online = "unknown"
    /\ failures = 0
    /\ timer = FALSE

-----------------------------------------------------------------------------
(* Seeded fault: the failures are counted on. *)
UpdateStateCounting(state) ==
    /\ online' = state
    /\ timer' = FALSE
    /\ UNCHANGED failures

(* OnlineStateTracker::UpdateState. *)
UpdateState(state) ==
    /\ online' = state
    /\ failures' = 0
    /\ timer' = FALSE

(* Seeded fault: only the first attempt is timed. *)
StartWatchUntimed(fails, state) ==
    /\ watch' = IF watch = "error" THEN "backoff" ELSE "starting"
    /\ failures' = fails
    /\ online' = IF fails = 0 THEN "unknown" ELSE state
    /\ timer' = FALSE

(* StartWatchStream with HandleWatchStreamStart, from a stopped stream. *)
StartWatch(fails, state) ==
    /\ watch' = IF watch = "error" THEN "backoff" ELSE "starting"
    /\ failures' = fails
    /\ IF fails = 0
       THEN online' = "unknown" /\ timer' = TRUE
       ELSE online' = state /\ timer' = FALSE

WatchStarted == watch \in {"starting", "open", "backoff"}

(* Listen; the app never stops listening. *)
ListenTarget ==
    /\ ~listening
    /\ listening' = TRUE
    /\ IF WatchStarted
       THEN UNCHANGED <<watch, online, failures, timer>>
       ELSE StartWatch(failures, online)

WatchOpens ==
    /\ watch = "starting"
    /\ watch' = "open"
    /\ UNCHANGED <<listening, online, failures, timer>>

(* Seeded fault: only the state is set. *)
WatchChangeKeepingTimer ==
    /\ watch = "open" /\ listening
    /\ online' = "online"
    /\ failures' = 0
    /\ UNCHANGED <<listening, watch, timer>>

(* OnWatchStreamChange: any message from the server means online. *)
WatchChange ==
    /\ watch = "open" /\ listening
    /\ UpdateState("online")
    /\ UNCHANGED <<listening, watch>>

(* A target the server rejects is dropped; the stream stays. *)
TargetRejected ==
    /\ watch = "open" /\ listening
    /\ listening' = FALSE
    /\ UpdateState("online")
    /\ UNCHANGED watch

(* OnWatchStreamClose with an error.  A stream that was online gets one    *)
(* more attempt, with a new timer, before the client counts as offline.    *)
WatchFails ==
    /\ watch \in {"starting", "open"}
    /\ IF ~listening
       THEN watch' = "error" /\ UpdateState("unknown")
       ELSE /\ watch' = "backoff"
            /\ IF online = "online"
               THEN online' = "unknown" /\ timer' = TRUE /\ UNCHANGED failures
               ELSE /\ online' = "offline" /\ timer' = FALSE
                    /\ failures' = IF failures < 2 THEN failures + 1 ELSE 2
    /\ UNCHANGED listening

WatchBackoffElapses ==
    /\ watch = "backoff"
    /\ watch' = "starting"
    /\ UNCHANGED <<listening, online, failures, timer>>

(* kOnlineStateTimeout. *)
OnlineTimeout ==
    /\ timer
    /\ timer' = FALSE
    /\ online' = "offline"
    /\ UNCHANGED <<listening, watch, failures>>

(* RestartNetwork: both streams are stopped, and started if needed. *)
RestartWatch ==
    /\ watch' = IF listening THEN "starting" ELSE "initial"
    /\ online' = "unknown"
    /\ failures' = 0
    /\ timer' = listening
    /\ UNCHANGED listening

(* The app starts again. *)
RestartWatchProcess ==
    /\ listening' = FALSE
    /\ watch' = "initial"
    /\ UpdateState("unknown")
-----------------------------------------------------------------------------
(* online_state_tracker.cc: "Timer should be canceled if we transitioned   *)
(* to a different state", and no second timer is ever set: the timer runs  *)
(* exactly while a started stream owes the first answer.                   *)
TimerRunsWhileUnknown == timer <=> listening /\ online = "unknown"

(* "To get to Online, UpdateState must have been called which would have   *)
(* reset our heuristics": failures are counted only while offline.         *)
FailuresMeanOffline == failures # 0 => online = "offline" /\ ~timer /\ listening

(* A listener does not wait for the server for ever: the client comes to   *)
(* know that it is online or that it is not.                               *)
WaitingEnds == (listening /\ online = "unknown") ~> (online # "unknown" \/ ~listening)
=============================================================================

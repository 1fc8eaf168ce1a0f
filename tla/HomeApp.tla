------------------------------- MODULE HomeApp --------------------------------
(***************************************************************************)
(* Start-up and the home page together: the app comes up with its first    *)
(* tab, the other tabs take HomePage out of the tree and a tap brings a    *)
(* new one, and an attempt that fails late replaces the whole app by the   *)
(* error screen, while NewsState and its fetches live on above it.         *)
(***************************************************************************)
EXTENDS Startup, News

CONSTANT MaxVisits    \* bound on the returns to the home tab

(* Every launch of the app and every return to its home tab fetches. *)
ASSUME MaxVisitsAssumption == MaxVisits \in Nat /\ MaxFetches >= MaxVisits + MaxAttempts

VARIABLE visits

homeVars == <<bootVars, newsVars, visits>>

HomeTypeOK ==
    /\ BootTypeOK
    /\ NewsTypeOK
    /\ visits \in 0 .. MaxVisits
    /\ open => screen = "app"

HomeInit == BootInit /\ NewsInit /\ visits = 0

(* The frame that brings the app builds IndexPage on its home tab. *)
Launch ==
    /\ BuildRoot
    /\ screen' = "app"
    /\ OpenHome
    /\ UNCHANGED visits

(* Seeded fault: the page outlives the app it belongs to. *)
ShowRootOverHome ==
    /\ BuildRoot
    /\ screen' # "app"
    /\ UNCHANGED <<newsVars, visits>>

(* Any other frame of the root: with the app goes its page. *)
ShowRoot ==
    /\ BuildRoot
    /\ screen' # "app"
    /\ IF open THEN CloseHome ELSE UNCHANGED newsVars
    /\ UNCHANGED visits

Initialising ==
    /\ Retry \/ AttemptEnds
    /\ UNCHANGED <<newsVars, visits>>

(* onTabTapped. *)
LeaveHome ==
    /\ screen = "app"
    /\ CloseHome
    /\ UNCHANGED <<bootVars, visits>>

ReturnHome ==
    /\ screen = "app"
    /\ visits < MaxVisits
    /\ OpenHome
    /\ visits' = visits + 1
    /\ UNCHANGED bootVars

Answers ==
    /\ \E f \in inFlight, list \in SUBSET Article : Answer(f, list)
    /\ UNCHANGED <<bootVars, visits>>

Searches ==
    /\ \E q \in SUBSET Article : OnSearch(q)
    /\ UNCHANGED <<bootVars, visits>>

Frame == BuildHome /\ UNCHANGED <<bootVars, visits>>

CacheWrites ==
    /\ PutDone \/ PutFails
    /\ UNCHANGED <<bootVars, visits>>

HomeNext ==
    \/ Launch
    \/ ShowRoot
    \/ Initialising
    \/ LeaveHome
    \/ ReturnHome
    \/ Answers
    \/ Searches
    \/ Frame
    \/ CacheWrites

(* The root is redrawn; calls into Firebase and requests to the server end,   *)
(* well or badly.                                                          *)
HomeFairness ==
    /\ WF_homeVars(Launch \/ ShowRoot)
    /\ WF_homeVars(AttemptEnds /\ UNCHANGED <<newsVars, visits>>)
    /\ WF_homeVars(Answers)

HomeSpec == HomeInit /\ [][HomeNext]_homeVars /\ HomeFairness
=============================================================================

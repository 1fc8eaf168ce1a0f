------------------------------ MODULE RemoteStore ------------------------------
(***************************************************************************)
(* Both halves of RemoteStore with what they share: the network that       *)
(* comes back, the app that comes to the foreground (connectivity          *)
(* monitor), and the process that dies and leaves only the queue on disk.  *)
(***************************************************************************)
EXTENDS WritePipeline, OnlineState

CONSTANT MaxRestarts    \* bound on restarts of the network and of the app

ASSUME MaxRestartsAssumption == MaxRestarts \in Nat

VARIABLE restarts

remoteVars == <<writeVars, watchVars, restarts>>

RemoteTypeOK == WriteTypeOK /\ OnlineTypeOK /\ restarts \in 0 .. MaxRestarts

RemoteInit == WriteInit /\ OnlineInit /\ restarts = 0

RestartNetwork ==
    /\ restarts < MaxRestarts
    /\ restarts' = restarts + 1
    /\ RestartWrites(Stale(tokens))
    /\ RestartWatch

RestartApp ==
    /\ restarts < MaxRestarts
    /\ restarts' = restarts + 1
    /\ RestartWrites(<<>>)
    /\ RestartWatchProcess

WriteStep(action) == action /\ UNCHANGED <<watchVars, restarts>>

Makes == WriteStep(\E w \in Write : WriteMutations(w))
Asks == WriteStep(TokenArrives)
Opens == WriteStep(StreamOpens)
Retries == WriteStep(BackoffElapses)
Shakes == WriteStep(ReadHandshake)
Learns == WriteStep(ReadResult \/ ReadRefusal)
Stops == WriteStep(TokenFails \/ StreamFails \/ IdleTimeout)
ServerAccepts == WriteStep(ServerShakesHands)
ServerDecides == WriteStep(ServerCommits \/ ServerRefuses)

WatchStep(action) == action /\ UNCHANGED <<writeVars, restarts>>

Watches ==
    WatchStep(\/ ListenTarget \/ WatchOpens \/ WatchChange \/ TargetRejected
              \/ WatchFails \/ WatchBackoffElapses)
Times == WatchStep(OnlineTimeout)

RemoteNext ==
    \/ RestartNetwork \/ RestartApp
    \/ Makes \/ Asks \/ Opens \/ Retries \/ Shakes \/ Learns \/ Stops
    \/ ServerAccepts \/ ServerDecides
    \/ Watches \/ Times

(* Timers fire.  The client tries again for ever; if it is let through     *)
(* again and again, then at some point also as far as an answer.           *)
RemoteFairness ==
    /\ WF_remoteVars(Retries)
    /\ WF_remoteVars(Times)
    /\ SF_remoteVars(Asks)
    /\ SF_remoteVars(Opens)
    /\ SF_remoteVars(ServerAccepts)
    /\ SF_remoteVars(Shakes)
    /\ SF_remoteVars(ServerDecides)
    /\ SF_remoteVars(Learns)

RemoteSpec == RemoteInit /\ [][RemoteNext]_remoteVars /\ RemoteFairness
=============================================================================

-------------------------- MODULE ConvergenceProofs ---------------------------
(***************************************************************************)
(* When nothing is on its way, the cached documents of the query agree     *)
(* with the server's: Converges of WatchSync, for every number of          *)
(* documents, of limbo slots, of broken streams and of restarts.           *)
(*                                                                         *)
(* Each invariant adds to the one before it: WireInv (WatchSyncProofs) is  *)
(* the order of messages and requests; CalmInv what is settled when no     *)
(* snapshot is on its way; TruthInv that what the server says is true and  *)
(* stays true; FollowInv that the client comes to hold what it is told;    *)
(* ReachInv that every document is cached before it is taken for known,    *)
(* and what becomes of those this device writes.                           *)
(***************************************************************************)
EXTENDS WatchSyncProofs

-----------------------------------------------------------------------------
(* What is settled when no global snapshot is on its way, and that every   *)
(* watch is brought to its end.                                            *)
Answered(t) == open /\ t \in DOMAIN resume /\ ~Asks(toServer, t)

Settled0 ==
    Silent(toClient, Typed("snapshot")) =>
        /\ updates = NoChanges /\ ~mismatch
        /\ \A t \in DOMAIN states : IsActive(t) => states[t].changes = NoChanges
        /\ IsActive(0) /\ Accepted(0).current => current

MarkedAt(t) ==
    \/ \E i \in DOMAIN toClient : toClient[i] \in Tells("current", t)
                                    /\ Last(toClient, AckOf(t), i)
    \/ Silent(toClient, AckOf(t)) /\ Accepted(t).current
    \/ t = 0 /\ mismatch

Marked == \A t \in DOMAIN resume : Answered(t) => MarkedAt(t)

ViewFresh == current => limbo = Shown(cache, mutated) \ (synced \union mutatedKeys)

(* What the server said of the query is only there when it was heard. *)
CurrentIsHeard == ~heard => ~Accepted(0).current

LEMMA SilentTail ==
    ASSUME NEW list \in Seq(ServerMessage), list # <<>>, NEW M
    PROVE  /\ Silent(list, M) => Silent(Tail(list), M)
           /\ Silent(Tail(list), M) /\ Head(list) \notin M => Silent(list, M)
<1>1. /\ Head(list) = list[1] /\ Len(list) \in Nat /\ Len(list) >= 1
      /\ DOMAIN list = 1 .. Len(list) /\ DOMAIN Tail(list) = 1 .. Len(list) - 1
      /\ \A i \in 1 .. Len(list) - 1 : Tail(list)[i] = list[i + 1]
      /\ \A i \in 2 .. Len(list) :
           i - 1 \in 1 .. Len(list) - 1 /\ Tail(list)[i - 1] = list[i]
  BY TailParts
<1>2. Silent(list, M) => Silent(Tail(list), M)
  BY <1>1 DEF Silent
<1>3. ASSUME Silent(Tail(list), M), Head(list) \notin M, NEW i \in DOMAIN list
      PROVE  list[i] \notin M
  <2>1. CASE i = 1
    BY <1>1, <1>3, <2>1
  <2>2. CASE i # 1
    <3>1. i - 1 \in DOMAIN Tail(list) /\ Tail(list)[i - 1] = list[i]
      BY <1>1, <2>2
    <3> QED
      BY <1>3, <3>1 DEF Silent
  <2> QED
    BY <2>1, <2>2
<1> QED
  BY <1>2, <1>3 DEF Silent

LEMMA SilentJoined ==
    ASSUME NEW list \in Seq(ServerMessage), NEW more \in Seq(ServerMessage), NEW M
    PROVE  /\ Silent(list \o more, M) => Silent(list, M)
           /\ Silent(list, M) /\ Silent(more, M) => Silent(list \o more, M)
<1>1. /\ Len(list) \in Nat /\ Len(more) \in Nat
      /\ DOMAIN list = 1 .. Len(list) /\ DOMAIN more = 1 .. Len(more)
      /\ DOMAIN (list \o more) = 1 .. Len(list) + Len(more)
      /\ \A i \in 1 .. Len(list) : (list \o more)[i] = list[i]
      /\ \A i \in 1 .. Len(list) + Len(more) : i \notin 1 .. Len(list)
           => i - Len(list) \in 1 .. Len(more) /\ (list \o more)[i] = more[i - Len(list)]
  BY JoinParts
<1> DEFINE new == list \o more
<1>2. /\ DOMAIN new = 1 .. Len(list) + Len(more)
      /\ \A i \in 1 .. Len(list) : new[i] = list[i]
      /\ \A i \in 1 .. Len(list) + Len(more) : i \notin 1 .. Len(list)
           => i - Len(list) \in 1 .. Len(more) /\ new[i] = more[i - Len(list)]
  BY <1>1
<1> HIDE DEF new
<1>3. Silent(new, M) => Silent(list, M)
  BY <1>1, <1>2 DEF Silent
<1>4. Silent(list, M) /\ Silent(more, M) => Silent(new, M)
  BY <1>1, <1>2 DEF Silent
<1> QED
  BY <1>3, <1>4 DEF new

LEMMA BegunIsAsked ==
    ASSUME SyncInv', open, NEW t \in DOMAIN resume', TargetBegun(t)
    PROVE  Asks(toServer', t) /\ ~IsActive(t)'
<1>1. Asks(toServer', t)
  BY DEF TargetBegun
<1> QED
  BY <1>1, ActivesMeanAfter DEF ActivesAre

LEMMA ReceiverIsOpen == ASSUME Closed, toClient # <<>> PROVE open
  BY DEF Closed

LEMMA KeptIsActive ==
    ASSUME NEW t, TargetKept(t), IsActive(t)'
    PROVE  /\ IsActive(t) /\ t \in DOMAIN resume
           /\ t \in DOMAIN states' => t \in DOMAIN states /\ states'[t] = states[t]
  BY DEF TargetKept, IsActive, Accepted

LEMMA SettledPlain ==
    ASSUME SyncInv, SyncInv', Ordered(toClient), Settled0, PlainStep(Head(toClient))
    PROVE  Settled0'
<1> DEFINE m == Head(toClient)
<1>1. /\ toClient # <<>> /\ toClient' = Tail(toClient) /\ m \in ServerMessage
      /\ m.type # "snapshot" /\ toClient \in Seq(ServerMessage)
      /\ resume' = resume /\ current' = current /\ Aside(m.target)
      /\ IsAck(m) => AckTaken(m)
  BY DEF PlainStep, syncVars, viewVars, SyncInv, PlainTypeOK
<1> SUFFICES ASSUME Silent(toClient', Typed("snapshot")) PROVE Settled0'
  BY DEF Settled0
<1>2. m.type = "removed"
  <2>1. ~\E k \in DOMAIN Tail(toClient) : Tail(toClient)[k] \in Typed("snapshot")
    BY <1>1 DEF Silent
  <2>2. m \notin Spoken
    BY <1>1, <2>1, FollowedTail DEF Ordered
  <2> QED
    BY <1>1, <2>2 DEF Spoken
<1>3. Silent(toClient, Typed("snapshot"))
  <2>1. m \notin Typed("snapshot")
    BY <1>1 DEF Typed
  <2> QED
    BY <1>1, <2>1, SilentTail
<1>4. /\ updates' = updates /\ mismatch' = mismatch
      /\ m.target \in DOMAIN states' => states'[m.target].outstanding # 0
  BY <1>1, <1>2 DEF IsAck, AckTaken
<1>5. /\ updates = NoChanges /\ ~mismatch
      /\ \A t \in DOMAIN states : IsActive(t) => states[t].changes = NoChanges
      /\ IsActive(0) /\ Accepted(0).current => current
  BY <1>3 DEF Settled0
<1>6. ASSUME NEW t, t # m.target, IsActive(t)'
      PROVE  /\ IsActive(t) /\ Accepted(t)' = Accepted(t)
             /\ t \in DOMAIN states' => t \in DOMAIN states /\ states'[t] = states[t]
  BY <1>1, <1>6 DEF Aside, IsActive, Accepted
<1>7. \A u : u = m.target /\ IsActive(u)' => u \notin DOMAIN states'
  BY <1>4 DEF IsActive
<1>8. \A t \in DOMAIN states' : IsActive(t)' => states'[t].changes = NoChanges
  BY <1>5, <1>6, <1>7
<1>9. ASSUME IsActive(0)', Accepted(0)'.current PROVE current'
  <2>1. CASE m.target = 0
    BY <1>7, <1>9, <2>1 DEF Accepted, Fresh
  <2>2. CASE m.target # 0
    BY <1>1, <1>5, <1>6, <1>9, <2>2
  <2> QED
    BY <2>1, <2>2
<1> QED
  BY <1>4, <1>5, <1>8, <1>9 DEF Settled0

LEMMA SettledSnapshot ==
    ASSUME SyncInv, SyncInv', Closed, SnapshotTaken
    PROVE  Settled0'
<1>1. PICK saved : SnapshotStep(Head(toClient).token, saved)
  BY SnapshotTakenMeans
<1> DEFINE known == Head(toClient).token
<1>2. /\ updates' = NoChanges /\ mismatch' = FALSE
      /\ \A t \in DOMAIN resume' : SettledTarget(t, known) \/ TargetBegun(t)
      /\ mismatch => TargetBegun(0)
      /\ ~mismatch => SettledTarget(0, known)
      /\ current' = IF 0 \in Raised THEN Accepted(0).current ELSE current
  BY <1>1 DEF SnapshotStep
<1> HIDE DEF known
<1>3. open
  BY SnapshotTakenMeans, ReceiverIsOpen
<1>4. ASSUME NEW t \in DOMAIN states', IsActive(t)' PROVE states'[t].changes = NoChanges
  <2>1. t \in DOMAIN resume'
    BY <1>4 DEF IsActive
  <2>2. ~TargetBegun(t)
    BY <1>3, <1>4, <2>1, BegunIsAsked
  <2>3. CASE t \in Raised
    BY <1>2, <2>1, <2>2, <2>3 DEF SettledTarget, TargetRaised
  <2>4. CASE t \notin Raised
    <3>1. TargetKept(t)
      BY <1>2, <2>1, <2>2, <2>4 DEF SettledTarget
    <3>2. IsActive(t) /\ t \in DOMAIN states
      BY <1>4, <3>1, KeptIsActive
    <3> QED
      BY <2>4, <3>2 DEF Raised
  <2> QED
    BY <2>3, <2>4
<1>5. ASSUME IsActive(0)', Accepted(0)'.current PROVE current'
  <2>1. 0 \in DOMAIN resume'
    BY <1>5 DEF IsActive
  <2>2. ~TargetBegun(0) /\ SettledTarget(0, known)
    BY <1>2, <1>3, <1>5, <2>1, BegunIsAsked
  <2>3. CASE 0 \in Raised
    BY <1>2, <1>5, <2>2, <2>3 DEF SettledTarget, TargetRaised, Accepted
  <2>4. CASE 0 \notin Raised
    <3>1. TargetKept(0)
      BY <2>2, <2>4 DEF SettledTarget
    <3>2. IsActive(0) /\ Accepted(0)' = Accepted(0)
      BY <1>5, <3>1, KeptIsActive DEF TargetKept
    <3>3. 0 \notin DOMAIN states
      BY <2>4, <3>2 DEF Raised
    <3> QED
      BY <1>5, <3>2, <3>3 DEF Accepted, Fresh
  <2> QED
    BY <2>3, <2>4
<1> QED
  BY <1>2, <1>4, <1>5 DEF Settled0

LEMMA SettledWritten ==
    ASSUME SyncInv, SyncInv', Closed, Settled0, Written
    PROVE  Settled0'
<1>1. /\ UNCHANGED <<toClient, updates, mismatch, current, open>> /\ TargetKept(0)
      /\ \A t \in DOMAIN resume' : TargetKept(t) \/ TargetBegun(t)
      /\ ~open => states' = states
  BY DEF Written, ViewStep
<1> SUFFICES ASSUME Silent(toClient, Typed("snapshot")) PROVE Settled0'
  BY <1>1 DEF Settled0
<1>2. /\ updates = NoChanges /\ ~mismatch
      /\ \A t \in DOMAIN states : IsActive(t) => states[t].changes = NoChanges
      /\ IsActive(0) /\ Accepted(0).current => current
  BY DEF Settled0
<1>3. ASSUME NEW t \in DOMAIN states', IsActive(t)' PROVE states'[t].changes = NoChanges
  <2>1. t \in DOMAIN resume'
    BY <1>3 DEF IsActive
  <2>2. open
    <3> SUFFICES ASSUME ~open PROVE FALSE
      OBVIOUS
    <3>1. states' = <<>> /\ DOMAIN <<>> = {}
      BY <1>1, EmptyIsPartial DEF Closed
    <3> QED
      BY <3>1
  <2>3. TargetKept(t)
    BY <1>1, <1>3, <2>1, <2>2, BegunIsAsked
  <2>4. IsActive(t) /\ t \in DOMAIN states /\ states'[t] = states[t]
    BY <1>3, <2>3, KeptIsActive
  <2> QED
    BY <1>2, <2>4
<1>4. IsActive(0)' /\ Accepted(0)'.current => current'
  BY <1>1, <1>2, KeptIsActive DEF TargetKept
<1> QED
  BY <1>1, <1>2, <1>3, <1>4 DEF Settled0

LEMMA SettledKept ==
    ASSUME WireInv, SyncInv', Settled0, CurrentIsHeard, Step
    PROVE  Settled0'
<1>1. SyncInv /\ Closed /\ Ordered(toClient) /\ toClient \in Seq(ServerMessage)
  BY DEF WireInv, SyncInv, PlainTypeOK
<1>2. CASE ServerStep
  <2>1. UNCHANGED <<updates, mismatch, states, resume, current>>
    BY <1>2 DEF ServerStep, ServerRests
  <2>2. Silent(toClient', Typed("snapshot")) => Silent(toClient, Typed("snapshot"))
    BY <1>1, <1>2, Added, SilentJoined
  <2> QED
    BY <2>1, <2>2 DEF Settled0, IsActive, Accepted
<1>3. CASE Opened
  <2>1. /\ updates' = NoChanges /\ ~mismatch' /\ resume' = resume
        /\ \A t \in DOMAIN resume : Asks(toServer', t)
    BY <1>1, <1>3 DEF Opened, Closed
  <2>2. \A t : ~IsActive(t)'
    <3>1. ActivesAre'
      BY ActivesMeanAfter
    <3> QED
      BY <2>1, <3>1 DEF ActivesAre, IsActive
  <2> QED
    BY <2>1, <2>2 DEF Settled0
<1>4. CASE CutOff
  <2>1. states' = <<>> /\ updates' = NoChanges /\ mismatch' = FALSE /\ DOMAIN <<>> = {}
    BY <1>4, EmptyIsPartial DEF CutOff
  <2>2. Accepted(0)' = Fresh /\ Fresh.current = FALSE
    BY <2>1 DEF Accepted, Fresh
  <2> QED
    BY <2>1, <2>2 DEF Settled0
<1>5. CASE WentOffline
  <2>1. ~Accepted(0)'.current
    BY <1>5 DEF WentOffline, CurrentIsHeard, Accepted
  <2> QED
    BY <1>5, <2>1 DEF WentOffline, Settled0, IsActive
<1>6. CASE Elsewhere
  BY <1>6 DEF Elsewhere, Settled0, IsActive, Accepted
<1> QED
  BY <1>1, <1>2, <1>3, <1>4, <1>5, <1>6, SettledPlain, SettledSnapshot, SettledWritten DEF Step

-----------------------------------------------------------------------------
(* Every watch is brought to its end: kept by each kind of step.             *)
LEMMA MarkedPlain ==
    ASSUME SyncInv, SyncInv', Ordered(toClient), PlainStep(Head(toClient)),
           NEW t \in DOMAIN resume, Answered(t), MarkedAt(t)
    PROVE  MarkedAt(t)'
<1> DEFINE m == Head(toClient)
<1>1. /\ toClient # <<>> /\ toClient' = Tail(toClient) /\ m \in ServerMessage
      /\ m.type # "snapshot" /\ toClient \in Seq(ServerMessage) /\ Aside(m.target)
      /\ ActivesAre /\ t \in Target
  BY ActivesMean DEF PlainStep, SyncInv, PlainTypeOK, ActivesAre
<1>2. mismatch => mismatch'
  BY DEF PlainStep, AckTaken, Mistaken, TakenIn, aggregatorVars
<1>3. /\ Head(toClient) = toClient[1] /\ Len(toClient) \in Nat /\ Len(toClient) >= 1
      /\ DOMAIN toClient = 1 .. Len(toClient)
      /\ DOMAIN Tail(toClient) = 1 .. Len(toClient) - 1
      /\ \A i \in 1 .. Len(toClient) - 1 : Tail(toClient)[i] = toClient[i + 1]
      /\ \A i \in 2 .. Len(toClient) :
           i - 1 \in 1 .. Len(toClient) - 1 /\ Tail(toClient)[i - 1] = toClient[i]
  BY <1>1, TailParts
<1>4. ASSUME Silent(toClient, AckOf(t)), \/ Accepted(t).current /\ m \notin Tells("reset", t)
                                         \/ m \in Tells("current", t)
      PROVE  MarkedAt(t)'
  <2>1. IsActive(t)
    BY <1>1, <1>4 DEF Answered, ActivesAre
  <2>2. Silent(toClient', AckOf(t)) /\ m \notin AckOf(t)
    BY <2>1, PlainActive
  <2>3. CASE m.target # t
    <3>1. Accepted(t)' = Accepted(t) /\ m \notin Tells("current", t)
      BY <1>1, <2>3 DEF Aside, Tells
    <3> QED
      BY <1>4, <2>2, <3>1 DEF MarkedAt
  <2>4. CASE m.target = t
    <3>1. ~IsAck(m)
      BY <1>1, <2>2, <2>4 DEF AckOf
    <3>2. Mistaken(m) \/ TakenIn(m, t)
      BY <2>1, <2>4, <3>1 DEF PlainStep
    <3>3. CASE Mistaken(m)
      BY <2>4, <3>3 DEF Mistaken, MarkedAt
    <3>4. CASE TakenIn(m, t)
      <4>1. Accepted(t)'.current
        BY <1>1, <1>4, <2>4, <3>4 DEF TakenIn, Tells
      <4> QED
        BY <2>2, <4>1 DEF MarkedAt
    <3> QED
      BY <3>2, <3>3, <3>4
  <2> QED
    BY <2>3, <2>4
<1>5. CASE t = 0 /\ mismatch
  BY <1>2, <1>5 DEF MarkedAt
<1>6. CASE Silent(toClient, AckOf(t)) /\ Accepted(t).current
  <2>1. CASE m \in Tells("reset", t)
    <3>1. PICK k \in DOMAIN Tail(toClient) : Tail(toClient)[k] \in Tells("current", t)
      BY <1>1, <2>1, FollowedTail DEF Ordered
    <3>2. Silent(Tail(toClient), AckOf(t))
      BY <1>1, <1>6, SilentTail
    <3>3. Last(Tail(toClient), AckOf(t), k)
      BY <3>2 DEF Silent, Last
    <3> QED
      BY <1>1, <3>1, <3>3 DEF MarkedAt
  <2>2. CASE m \notin Tells("reset", t)
    BY <1>4, <1>6, <2>2
  <2> QED
    BY <2>1, <2>2
<1>7. ASSUME NEW i \in DOMAIN toClient, toClient[i] \in Tells("current", t),
             Last(toClient, AckOf(t), i)
      PROVE  MarkedAt(t)'
  <2>1. CASE i = 1
    <3>1. m \in Tells("current", t) /\ m \notin AckOf(t)
      BY <1>3, <1>7, <2>1 DEF Tells, AckOf, IsAck
    <3>2. \A k \in DOMAIN toClient : toClient[k] \notin AckOf(t)
      BY <1>3, <1>7, <2>1, <3>1 DEF Last
    <3> QED
      BY <1>4, <3>1, <3>2 DEF Silent
  <2>2. CASE i # 1
    <3>1. i - 1 \in DOMAIN Tail(toClient) /\ Tail(toClient)[i - 1] = toClient[i]
      BY <1>3, <2>2
    <3>2. Last(Tail(toClient), AckOf(t), i - 1)
      <4> SUFFICES ASSUME NEW k \in DOMAIN Tail(toClient), k > i - 1
                   PROVE  Tail(toClient)[k] \notin AckOf(t)
        BY DEF Last
      <4>1. k + 1 \in DOMAIN toClient /\ k + 1 > i /\ Tail(toClient)[k] = toClient[k + 1]
        BY <1>3
      <4> QED
        BY <1>7, <4>1 DEF Last
    <3> QED
      BY <1>1, <1>7, <3>1, <3>2 DEF MarkedAt
  <2> QED
    BY <2>1, <2>2
<1> QED
  BY <1>5, <1>6, <1>7 DEF MarkedAt

LEMMA MarkedTail ==
    ASSUME toClient \in Seq(ServerMessage), NEW t, MarkedAt(t), toClient # <<>>,
           toClient' = Tail(toClient), Head(toClient).type = "snapshot",
           Accepted(t).current => Accepted(t)'.current, ~(t = 0 /\ mismatch)
    PROVE  MarkedAt(t)'
<1>1. /\ Head(toClient) = toClient[1] /\ Len(toClient) \in Nat /\ Len(toClient) >= 1
      /\ DOMAIN toClient = 1 .. Len(toClient)
      /\ DOMAIN Tail(toClient) = 1 .. Len(toClient) - 1
      /\ \A i \in 1 .. Len(toClient) - 1 : Tail(toClient)[i] = toClient[i + 1]
      /\ \A i \in 2 .. Len(toClient) :
           i - 1 \in 1 .. Len(toClient) - 1 /\ Tail(toClient)[i - 1] = toClient[i]
  BY TailParts
<1>2. CASE Silent(toClient, AckOf(t)) /\ Accepted(t).current
  BY <1>2, SilentTail DEF MarkedAt
<1>3. ASSUME NEW i \in DOMAIN toClient, toClient[i] \in Tells("current", t),
             Last(toClient, AckOf(t), i)
      PROVE  MarkedAt(t)'
  <2>1. i # 1
    BY <1>1, <1>3 DEF Tells
  <2>2. i - 1 \in DOMAIN Tail(toClient) /\ Tail(toClient)[i - 1] = toClient[i]
    BY <1>1, <2>1
  <2>3. Last(Tail(toClient), AckOf(t), i - 1)
    <3> SUFFICES ASSUME NEW k \in DOMAIN Tail(toClient), k > i - 1
                 PROVE  Tail(toClient)[k] \notin AckOf(t)
      BY DEF Last
    <3>1. k + 1 \in DOMAIN toClient /\ k + 1 > i /\ Tail(toClient)[k] = toClient[k + 1]
      BY <1>1
    <3> QED
      BY <1>3, <3>1 DEF Last
  <2> QED
    BY <1>3, <2>2, <2>3 DEF MarkedAt
<1> QED
  BY <1>2, <1>3 DEF MarkedAt

LEMMA MarkedSnapshot ==
    ASSUME WireInv, SyncInv', SnapshotTaken, Marked
    PROVE  Marked'
<1>1. PICK saved : SnapshotStep(Head(toClient).token, saved)
  BY SnapshotTakenMeans
<1> DEFINE known == Head(toClient).token
<1>2. /\ \A t \in DOMAIN resume' : SettledTarget(t, known) \/ TargetBegun(t)
      /\ mismatch => TargetBegun(0)
  BY <1>1 DEF SnapshotStep
<1> HIDE DEF known
<1>3. /\ open /\ open' = open /\ toClient # <<>> /\ toClient' = Tail(toClient)
      /\ Head(toClient).type = "snapshot" /\ toClient \in Seq(ServerMessage)
  BY SnapshotTakenMeans, ReceiverIsOpen DEF WireInv, SyncInv, PlainTypeOK
<1> SUFFICES ASSUME NEW t \in DOMAIN resume', ~Asks(toServer', t) PROVE MarkedAt(t)'
  BY DEF Marked, Answered
<1>4. ~TargetBegun(t)
  BY <1>3, BegunIsAsked
<1>5. SettledTarget(t, known) /\ ~(t = 0 /\ mismatch)
  BY <1>2, <1>4
<1>6. /\ t \in DOMAIN resume /\ ~Asks(toServer, t)
      /\ Accepted(t).current => Accepted(t)'.current
  BY <1>5 DEF SettledTarget, TargetRaised, TargetKept, Accepted
<1>7. MarkedAt(t)
  BY <1>3, <1>6 DEF Marked, Answered
<1> QED
  BY <1>3, <1>5, <1>6, <1>7, MarkedTail

LEMMA MarkedWritten ==
    ASSUME SyncInv', Written, Marked
    PROVE  Marked'
<1>1. /\ UNCHANGED <<toClient, mismatch, open>>
      /\ \A t \in DOMAIN resume' : TargetKept(t) \/ TargetBegun(t)
  BY DEF Written, ViewStep
<1> SUFFICES ASSUME open, NEW t \in DOMAIN resume', ~Asks(toServer', t) PROVE MarkedAt(t)'
  BY <1>1 DEF Marked, Answered
<1>2. TargetKept(t)
  BY <1>1, BegunIsAsked
<1>3. t \in DOMAIN resume /\ ~Asks(toServer, t) /\ Accepted(t)' = Accepted(t)
  BY <1>2 DEF TargetKept
<1> QED
  BY <1>1, <1>3 DEF Marked, Answered, MarkedAt

(* What the server adds for a target that is answered after the step. *)
Unheard(t) ==
    /\ ~Asks(toServer, t)
    /\ \E more \in Seq(ServerMessage) :
         toClient' = toClient \o more /\ Silent(more, AckOf(t))

LEMMA ServedTarget ==
    ASSUME WireInv, ServerStep, NEW t \in DOMAIN resume, open, ~Asks(toServer', t)
    PROVE  \/ Unheard(t)
           \/ \E deletions, filter, early, reset \in BOOLEAN :
                 /\ Served2(Head(toServer), deletions, filter, early, reset)
                 /\ Head(toServer) = WatchFor(Book, t)
<1>1. /\ toClient \in Seq(ServerMessage) /\ told \in Partial(Target, Served)
      /\ toServer \in Seq(ClientMessage) /\ AskedFor(t)
  BY InvFacts DEF WireInv, SyncInv, PlainTypeOK, AllAsked
<1>2. WatchFor(Book, t).target = t /\ WatchFor(Book, t).type = "watch"
  BY DEF WatchFor
<1>3. CASE Pushed
  <2>1. ~Asks(toServer, t) /\ toClient' = toClient \o News(told)
    BY <1>3 DEF Pushed
  <2>2. News(told) \in Seq(ServerMessage) /\ Mute(News(told))
    BY <1>1, NewsFacts
  <2>3. Silent(News(told), AckOf(t))
    BY <2>2 DEF Mute, Silent, AckOf
  <2> QED
    BY <2>1, <2>2, <2>3 DEF Unheard
<1>4. ASSUME Takes(Head(toServer))
      PROVE  \/ ~Asks(toServer, t) /\ Head(toServer).target # t
             \/ Head(toServer) = WatchFor(Book, t)
  <2>1. toServer # <<>> /\ toServer' = Tail(toServer)
    BY <1>4 DEF Takes
  <2> QED
    BY <1>1, <1>2, <2>1, AsksTail DEF AskedFor
<1>5. CASE Dropped(Head(toServer))
  <2> DEFINE u == Head(toServer).target
             more == <<RemovedOf(u)>>
  <2>1. Takes(Head(toServer)) /\ u \in Target /\ toClient' = toClient \o more
        /\ Head(toServer).type = "unwatch"
    BY <1>5 DEF Dropped, Takes
  <2>2. ~Asks(toServer, t) /\ u # t
    BY <1>2, <1>4, <2>1
  <2> HIDE DEF u
  <2>3. more \in Seq(ServerMessage) /\ DOMAIN more = {1} /\ more[1].target = u
    BY <2>1, RemovedOfFacts
  <2> HIDE DEF more
  <2>4. Silent(more, AckOf(t))
    BY <2>2, <2>3 DEF Silent, AckOf
  <2> QED
    BY <2>1, <2>2, <2>3, <2>4 DEF Unheard
<1>6. ASSUME NEW deletions \in BOOLEAN, NEW filter \in BOOLEAN, NEW early \in BOOLEAN,
             NEW reset \in BOOLEAN, Served2(Head(toServer), deletions, filter, early, reset)
      PROVE  Unheard(t) \/ Head(toServer) = WatchFor(Book, t)
  <2> DEFINE request == Head(toServer)
             u == request.target
             M == Answer(request, deletions, filter, early, reset) \o News(ServedThen(request))
  <2>1. /\ Takes(request) /\ request \in ClientMessage /\ request.type = "watch"
        /\ toClient' = toClient \o M
    BY <1>6 DEF Served2, Takes
  <2>2. AckedOnce(M, u)
    BY <1>1, <2>1, AnswerAcks
  <2> HIDE DEF M
  <2> SUFFICES ASSUME ~(Head(toServer) = WatchFor(Book, t)) PROVE Unheard(t)
    OBVIOUS
  <2>3. ~Asks(toServer, t) /\ u # t
    BY <1>4, <2>1
  <2>4. M \in Seq(ServerMessage) /\ Silent(M, AckOf(t))
    BY <2>2, <2>3 DEF AckedOnce
  <2> QED
    BY <2>1, <2>3, <2>4 DEF Unheard
<1> QED
  BY <1>3, <1>5, <1>6 DEF ServerStep

(* The answer to a watch says that it is complete. *)
AnswerEnds(M, u) == \E i \in DOMAIN M : i # 1 /\ M[i] \in Tells("current", u)

LEMMA AnswerIsEnded ==
    ASSUME told \in Partial(Target, Served),
           NEW request \in ClientMessage, request.type = "watch",
           NEW deletions \in BOOLEAN, NEW filter \in BOOLEAN, NEW early \in BOOLEAN,
           NEW reset \in BOOLEAN
    PROVE  AnswerEnds(Answer(request, deletions, filter, early, reset)
                        \o News(ServedThen(request)), request.target)
<1> DEFINE A == Answer(request, deletions, filter, early, reset)
           N == News(ServedThen(request))
           u == request.target
           M == A \o N
<1>1. A \in Seq(ServerMessage)
  BY AnswerShape, ZenonT(60)
<1>2. \E i \in DOMAIN A : i # 1 /\ A[i] = CurrentOf(u)
  <2>1. IsSaidIf(A, CurrentOf(u), TRUE)
    BY AnswerShape, ZenonT(60)
  <2> HIDE DEF A, u
  <2> QED
    BY <2>1 DEF IsSaidIf
<1>3. ServedThen(request) \in Partial(Target, Served)
  BY ServedThenFacts
<1>4. N \in Seq(ServerMessage)
  BY <1>3, NewsFacts
<1>5. CurrentOf(u) \in ServerMessage /\ CurrentOf(u).type = "current" /\ CurrentOf(u).target = u
  BY AnswerMessages, AnswerTypes
<1>6. CurrentOf(u) \in Tells("current", u)
  BY <1>5 DEF Tells
<1> HIDE DEF A, N, u
<1>7. /\ DOMAIN A = 1 .. Len(A) /\ DOMAIN M = 1 .. Len(A) + Len(N)
      /\ Len(A) \in Nat /\ Len(N) \in Nat
      /\ \A i \in 1 .. Len(A) : M[i] = A[i]
  BY <1>1, <1>4, JoinParts
<1> HIDE DEF M
<1>8. PICK i \in DOMAIN A : i # 1 /\ A[i] = CurrentOf(u)
  BY <1>2
<1>9. i \in DOMAIN M /\ M[i] = CurrentOf(u)
  BY <1>7, <1>8
<1>10. AnswerEnds(M, u)
  BY <1>6, <1>8, <1>9 DEF AnswerEnds
<1> QED
  BY <1>10 DEF M, A, N, u

LEMMA MarkedServed ==
    ASSUME WireInv, ServerStep, Marked
    PROVE  Marked'
<1>1. /\ toClient \in Seq(ServerMessage) /\ told \in Partial(Target, Served)
      /\ UNCHANGED <<resume, states, mismatch, open>>
  BY DEF WireInv, SyncInv, PlainTypeOK, ServerStep, ServerRests
<1> SUFFICES ASSUME open, NEW t \in DOMAIN resume, ~Asks(toServer', t) PROVE MarkedAt(t)'
  BY <1>1 DEF Marked, Answered
<1>2. CASE Unheard(t)
  <2>1. MarkedAt(t)
    BY <1>2 DEF Unheard, Marked, Answered
  <2>2. PICK more \in Seq(ServerMessage) :
           toClient' = toClient \o more /\ Silent(more, AckOf(t))
    BY <1>2 DEF Unheard
  <2>3. CASE t = 0 /\ mismatch
    BY <1>1, <2>3 DEF MarkedAt
  <2>4. CASE Silent(toClient, AckOf(t)) /\ Accepted(t).current
    BY <1>1, <2>2, <2>4, SilentJoined DEF MarkedAt, Accepted
  <2>5. ASSUME NEW i \in DOMAIN toClient, toClient[i] \in Tells("current", t),
               Last(toClient, AckOf(t), i)
        PROVE  MarkedAt(t)'
    <3>1. /\ DOMAIN toClient = 1 .. Len(toClient) /\ Len(toClient) \in Nat
          /\ Len(more) \in Nat
          /\ DOMAIN (toClient \o more) = 1 .. Len(toClient) + Len(more)
          /\ \A k \in 1 .. Len(toClient) : (toClient \o more)[k] = toClient[k]
      BY <1>1, JoinParts
    <3>2. Last(toClient \o more, AckOf(t), i)
      BY <1>1, <2>2, <2>5, <3>1, LastLonger
    <3>3. i \in DOMAIN (toClient \o more) /\ (toClient \o more)[i] \in Tells("current", t)
      BY <2>5, <3>1
    <3> QED
      BY <2>2, <3>2, <3>3 DEF MarkedAt
  <2> QED
    BY <2>1, <2>3, <2>4, <2>5 DEF MarkedAt
<1>3. ASSUME NEW deletions \in BOOLEAN, NEW filter \in BOOLEAN, NEW early \in BOOLEAN,
             NEW reset \in BOOLEAN, Served2(Head(toServer), deletions, filter, early, reset),
             Head(toServer) = WatchFor(Book, t)
      PROVE  MarkedAt(t)'
  <2> DEFINE request == Head(toServer)
             M == Answer(request, deletions, filter, early, reset) \o News(ServedThen(request))
  <2>1. /\ request \in ClientMessage /\ request.type = "watch" /\ request.target = t
        /\ toClient' = toClient \o M
    BY <1>3 DEF Served2, Takes, WatchFor
  <2>2. AckedOnce(M, t) /\ AnswerEnds(M, t)
    BY <1>1, <2>1, AnswerAcks, AnswerIsEnded
  <2> HIDE DEF M, request
  <2>3. M \in Seq(ServerMessage) /\ \A i \in DOMAIN M : i # 1 => ~IsAck(M[i])
    BY <2>2 DEF AckedOnce
  <2>4. PICK i \in DOMAIN M : i # 1 /\ M[i] \in Tells("current", t)
    BY <2>2 DEF AnswerEnds
  <2>5. /\ Len(toClient) \in Nat /\ Len(M) \in Nat /\ DOMAIN M = 1 .. Len(M)
        /\ DOMAIN (toClient \o M) = 1 .. Len(toClient) + Len(M)
        /\ \A k \in 1 .. Len(M) : (toClient \o M)[Len(toClient) + k] = M[k]
        /\ \A k \in 1 .. Len(toClient) + Len(M) : k \notin 1 .. Len(toClient)
             => /\ k - Len(toClient) \in 1 .. Len(M)
                /\ (toClient \o M)[k] = M[k - Len(toClient)]
    BY <1>1, <2>3, JoinParts
  <2>6. /\ Len(toClient) + i \in DOMAIN toClient'
        /\ toClient'[Len(toClient) + i] \in Tells("current", t)
    BY <2>1, <2>4, <2>5
  <2>7. Last(toClient', AckOf(t), Len(toClient) + i)
    <3> SUFFICES ASSUME NEW k \in DOMAIN (toClient \o M), k > Len(toClient) + i
                 PROVE  ~IsAck((toClient \o M)[k])
      BY <2>1 DEF Last, AckOf
    <3>1. k - Len(toClient) \in 1 .. Len(M) /\ k - Len(toClient) # 1
          /\ (toClient \o M)[k] = M[k - Len(toClient)]
      BY <2>4, <2>5
    <3> QED
      BY <2>3, <2>5, <3>1
  <2> QED
    BY <2>6, <2>7 DEF MarkedAt
<1> QED
  BY <1>2, <1>3, ServedTarget

LEMMA MarkedKept ==
    ASSUME WireInv, SyncInv', Marked, Step
    PROVE  Marked'
<1>1. CASE PlainStep(Head(toClient))
  <2>1. resume' = resume /\ open' = open /\ toServer' = toServer
    BY <1>1 DEF PlainStep, syncVars
  <2> SUFFICES ASSUME NEW t \in DOMAIN resume, Answered(t) PROVE MarkedAt(t)'
    BY <2>1 DEF Marked, Answered
  <2>2. MarkedAt(t)
    BY DEF Marked
  <2> QED
    BY <1>1, <2>2, MarkedPlain DEF WireInv
<1>2. CASE Opened
  <2>1. resume' = resume /\ \A t \in DOMAIN resume : Asks(toServer', t)
    BY <1>2 DEF Opened
  <2> QED
    BY <2>1 DEF Marked, Answered
<1>3. CASE CutOff
  BY <1>3 DEF CutOff, Marked, Answered
<1>4. CASE WentOffline \/ Elsewhere
  <2>1. UNCHANGED <<open, resume, toServer, toClient, states, mismatch>>
    BY <1>4 DEF WentOffline, Elsewhere
  <2> QED
    BY <2>1 DEF Marked, Answered, MarkedAt, Accepted
<1> QED
  BY <1>1, <1>2, <1>3, <1>4, MarkedSnapshot, MarkedWritten, MarkedServed DEF Step

LEMMA ViewFreshKept ==
    ASSUME ViewFresh, Step
    PROVE  ViewFresh'
<1>1. CASE PlainStep(Head(toClient))
  BY <1>1 DEF PlainStep, viewVars, diskVars, ViewFresh, Shown
<1>2. CASE SnapshotTaken
  <2>1. limbo' = IF current' THEN Shown(cache', mutated') \ (synced' \union mutatedKeys')
                 ELSE limbo
    BY <1>2, SnapshotTakenMeans DEF SnapshotStep
  <2> QED
    BY <2>1 DEF ViewFresh, Shown
<1>3. CASE Written
  BY <1>3 DEF Written, ViewStep, ViewFresh, Shown
<1>4. CASE ServerStep
  BY <1>4 DEF ServerStep, ServerRests, ViewFresh, Shown
<1>5. CASE Opened \/ CutOff \/ WentOffline \/ Elsewhere
  BY <1>5 DEF Opened, CutOff, WentOffline, Elsewhere, ViewFresh, Shown
<1> QED
  BY <1>1, <1>2, <1>3, <1>4, <1>5 DEF Step

LEMMA CurrentIsHeardKept ==
    ASSUME CurrentIsHeard, Step
    PROVE  CurrentIsHeard'
<1>1. CASE PlainStep(Head(toClient)) \/ SnapshotTaken
  <2>1. heard' = TRUE
    BY <1>1 DEF PlainStep, SnapshotTaken, SnapshotStep
  <2> QED
    BY <2>1 DEF CurrentIsHeard
<1>2. CASE Written
  BY <1>2 DEF Written, ViewStep, TargetKept, CurrentIsHeard
<1>3. CASE ServerStep \/ WentOffline \/ Elsewhere
  <2>1. heard' = heard /\ states' = states
    BY <1>3 DEF ServerStep, ServerRests, WentOffline, Elsewhere
  <2> QED
    BY <2>1 DEF CurrentIsHeard, Accepted
<1>4. CASE Opened
  BY <1>4 DEF Opened, CurrentIsHeard
<1>5. CASE CutOff
  <2>1. states' = <<>> /\ DOMAIN <<>> = {}
    BY <1>5, EmptyIsPartial DEF CutOff
  <2> QED
    BY <2>1 DEF CurrentIsHeard, Accepted, Fresh
<1> QED
  BY <1>1, <1>2, <1>3, <1>4, <1>5 DEF Step

CalmInv == WireInv /\ Settled0 /\ Marked /\ ViewFresh /\ CurrentIsHeard

LEMMA CalmStep == ASSUME CalmInv, [SyncNext]_watchSyncVars PROVE CalmInv'
<1>1. WireInv /\ WireInv' /\ Step /\ SyncInv'
  BY WireStep DEF CalmInv, WireInv
<1> QED
  BY <1>1, SettledKept, MarkedKept, ViewFreshKept, CurrentIsHeardKept DEF CalmInv

LEMMA CalmInit == SyncInit => CalmInv
<1> SUFFICES ASSUME SyncInit PROVE CalmInv
  OBVIOUS
<1>1. WireInv
  BY WireInit
<1>2. ~open /\ ~mismatch /\ updates = NoChanges /\ states = <<>> /\ ~current /\ DOMAIN <<>> = {}
  BY EmptyIsPartial DEF SyncInit
<1>3. Settled0 /\ CurrentIsHeard
  BY <1>2 DEF Settled0, CurrentIsHeard, Accepted, Fresh
<1> QED
  BY <1>1, <1>2, <1>3 DEF CalmInv, Marked, Answered, ViewFresh

(* When all has arrived, each target is active and its watch is complete. *)
LEMMA CalmTargets ==
    ASSUME CalmInv, open, toServer = <<>>, toClient = <<>>
    PROVE  /\ updates = NoChanges /\ ~mismatch /\ current
           /\ \A t \in DOMAIN resume :
                /\ t \in Target /\ Answered(t) /\ IsActive(t) /\ t \in DOMAIN states
                /\ states[t].current /\ states[t].changes = NoChanges
                /\ t \in DOMAIN told /\ told[t].scope = Scope(t)
<1>1. DOMAIN toClient = {} /\ DOMAIN toServer = {}
  BY EmptyIsPartial
<1>2. /\ updates = NoChanges /\ ~mismatch
      /\ \A t \in DOMAIN states : IsActive(t) => states[t].changes = NoChanges
      /\ IsActive(0) /\ Accepted(0).current => current
  BY <1>1 DEF CalmInv, Settled0, Silent
<1>3. ASSUME NEW t \in DOMAIN resume
      PROVE  /\ t \in Target /\ Answered(t) /\ IsActive(t) /\ t \in DOMAIN states
             /\ Accepted(t).current
             /\ t \in DOMAIN told /\ told[t].scope = Scope(t)
  <2>1. ~Asks(toServer, t) /\ Silent(toClient, AckOf(t))
    BY <1>1 DEF Asks, Silent
  <2>2. Answered(t)
    BY <2>1 DEF Answered
  <2>3. MarkedAt(t) /\ AskedFor(t)
    BY <2>2 DEF CalmInv, Marked, WireInv, AllAsked
  <2>4. Accepted(t).current
    BY <1>1, <1>2, <2>3 DEF MarkedAt
  <2>5. t \in Target /\ IsActive(t)
    BY <2>1, ActivesMean DEF ActivesAre, CalmInv, WireInv
  <2> QED
    BY <2>1, <2>2, <2>3, <2>4, <2>5 DEF AskedFor, Told
<1>4. 0 \in DOMAIN resume
  BY InvFacts DEF CalmInv, WireInv
<1> QED
  BY <1>2, <1>3, <1>4 DEF Accepted

-----------------------------------------------------------------------------
(* What the server adds, as one target hears it. *)
OthersServed(t, intro, served) ==
    /\ intro \in Seq(ServerMessage) /\ served \in Partial(Target, Served)
    /\ t \in DOMAIN told /\ t \in DOMAIN served /\ served[t] = told[t]
    /\ Silent(intro, Typed("snapshot")) /\ \A i \in DOMAIN intro : intro[i].target # t
    /\ toClient' = toClient \o (intro \o News(served)) /\ told' = UpToDate(served)

OtherDropped(t, m) ==
    /\ m \in ServerMessage /\ m.type = "removed" /\ m.target # t
    /\ t \in DOMAIN told /\ t \in DOMAIN told' /\ told'[t] = told[t]
    /\ toClient' = toClient \o <<m>>

AnsweredNow(t, deletions, filter, early, reset) ==
    /\ Served2(Head(toServer), deletions, filter, early, reset)
    /\ Head(toServer) = WatchFor(Book, t)

LEMMA ServerForTarget ==
    ASSUME WireInv, ServerStep, NEW t \in DOMAIN resume, open, ~Asks(toServer', t)
    PROVE  \/ /\ ~Asks(toServer, t)
              /\ \/ \E intro, served : OthersServed(t, intro, served)
                 \/ \E m : OtherDropped(t, m)
           \/ \E deletions, filter, early, reset \in BOOLEAN :
                 AnsweredNow(t, deletions, filter, early, reset)
<1>1. /\ toClient \in Seq(ServerMessage) /\ told \in Partial(Target, Served)
      /\ toServer \in Seq(ClientMessage) /\ AskedFor(t)
  BY InvFacts DEF WireInv, SyncInv, PlainTypeOK, AllAsked
<1>2. WatchFor(Book, t).target = t /\ WatchFor(Book, t).type = "watch"
  BY DEF WatchFor
<1>3. ~Asks(toServer, t) => t \in DOMAIN told
  BY <1>1 DEF AskedFor, Told
<1>4. CASE Pushed
  <2>1. ~Asks(toServer, t) /\ toClient' = toClient \o News(told) /\ told' = UpToDate(told)
    BY <1>4 DEF Pushed
  <2>2. News(told) \in Seq(ServerMessage)
    BY <1>1, NewsFacts
  <2>3. <<>> \in Seq(ServerMessage) /\ <<>> \o News(told) = News(told) /\ DOMAIN <<>> = {}
    BY <2>2, ConcatEmptySeq, EmptyIsPartial
  <2>4. Silent(<<>>, Typed("snapshot")) /\ \A i \in DOMAIN <<>> : <<>>[i].target # t
    BY <2>3 DEF Silent
  <2>5. OthersServed(t, <<>>, told)
    BY <1>1, <1>3, <2>1, <2>3, <2>4 DEF OthersServed
  <2> QED
    BY <2>1, <2>5
<1>5. ASSUME Takes(Head(toServer))
      PROVE  \/ ~Asks(toServer, t) /\ Head(toServer).target # t
             \/ Head(toServer) = WatchFor(Book, t)
  <2>1. toServer # <<>> /\ toServer' = Tail(toServer)
    BY <1>5 DEF Takes
  <2> QED
    BY <1>1, <1>2, <2>1, AsksTail DEF AskedFor
<1>6. CASE Dropped(Head(toServer))
  <2> DEFINE u == Head(toServer).target
             m == RemovedOf(u)
  <2>1. Takes(Head(toServer)) /\ u \in Target /\ toClient' = toClient \o <<m>>
        /\ Head(toServer).type = "unwatch" /\ told' = Less(told, u)
    BY <1>6 DEF Dropped, Takes
  <2>2. ~Asks(toServer, t) /\ u # t
    BY <1>2, <1>5, <2>1
  <2> HIDE DEF u
  <2>3. m \in ServerMessage /\ m.type = "removed" /\ m.target = u
    BY <2>1, RemovedOfFacts
  <2> HIDE DEF m
  <2>4. t \in DOMAIN told /\ t \in DOMAIN told' /\ told'[t] = told[t]
    BY <1>3, <2>1, <2>2 DEF Less
  <2>5. OtherDropped(t, m)
    BY <2>1, <2>2, <2>3, <2>4 DEF OtherDropped
  <2> QED
    BY <2>2, <2>5
<1>7. ASSUME NEW deletions \in BOOLEAN, NEW filter \in BOOLEAN, NEW early \in BOOLEAN,
             NEW reset \in BOOLEAN, Served2(Head(toServer), deletions, filter, early, reset)
      PROVE  \/ AnsweredNow(t, deletions, filter, early, reset)
             \/ ~Asks(toServer, t) /\ \E intro, served : OthersServed(t, intro, served)
  <2> DEFINE request == Head(toServer)
             A == Answer(request, deletions, filter, early, reset)
             served == ServedThen(request)
             u == request.target
  <2>1. /\ Takes(request) /\ request \in ClientMessage /\ request.type = "watch"
        /\ toClient' = toClient \o (A \o News(served)) /\ told' = UpToDate(served)
    BY <1>7 DEF Served2, Takes
  <2> SUFFICES ASSUME ~(Head(toServer) = WatchFor(Book, t))
               PROVE  ~Asks(toServer, t) /\ \E intro, served2 : OthersServed(t, intro, served2)
    BY <1>7 DEF AnsweredNow
  <2>2. ~Asks(toServer, t) /\ u # t
    BY <1>5, <2>1
  <2>3. /\ served \in Partial(Target, Served) /\ DOMAIN served = DOMAIN told \union {u}
        /\ \A v \in DOMAIN told : v # u => served[v] = told[v]
    BY <1>1, <2>1, ServedThenFacts
  <2>4. A \in Seq(ServerMessage)
    BY <2>1, AnswerShape, ZenonT(60)
  <2>5. \A i \in DOMAIN A : A[i] \in About(u)
    BY <2>1, AnswerShape, ZenonT(60)
  <2> HIDE DEF A, served, request
  <2>6. Silent(A, Typed("snapshot")) /\ \A i \in DOMAIN A : A[i].target # t
    BY <2>2, <2>5 DEF Silent, About, Typed
  <2>7. OthersServed(t, A, served)
    BY <1>3, <2>1, <2>2, <2>3, <2>4, <2>6 DEF OthersServed
  <2> QED
    BY <2>2, <2>7
<1> QED
  BY <1>4, <1>6, <1>7 DEF ServerStep

(* The messages themselves. *)
LEMMA AnswerElements ==
    ASSUME NEW request \in ClientMessage, request.type = "watch",
           NEW deletions \in BOOLEAN, NEW filter \in BOOLEAN, NEW early \in BOOLEAN,
           NEW reset \in BOOLEAN,
           NEW i \in DOMAIN Answer(request, deletions, filter, early, reset)
    PROVE  LET m == Answer(request, deletions, filter, early, reset)[i]
           IN  \/ m = Acked(request.target) \/ m = ResetOf(request.target)
               \/ m = CurrentOf(request.target) \/ m = FilterOf(request)
               \/ m = ChangeOf(request, deletions, reset)
<1> DEFINE X == AnswerHead(request, deletions, reset)
           Y == AnswerEnd(request, filter, early)
<1>1. X \in Seq(ServerMessage) /\ X[1] = Acked(request.target)
  BY HeadShape
<1>2. \A k \in DOMAIN X : k # 1 => \/ X[k] = ResetOf(request.target)
                                   \/ X[k] = ChangeOf(request, deletions, reset)
  BY HeadShape
<1>3. Y \in Seq(ServerMessage)
  BY EndShape
<1>4. \A k \in DOMAIN Y : Y[k] = CurrentOf(request.target) \/ (filter /\ Y[k] = FilterOf(request))
  BY EndShape
<1>5. Answer(request, deletions, filter, early, reset) = X \o Y
  BY DEF Answer
<1> HIDE DEF X, Y
<1>6. /\ DOMAIN X = 1 .. Len(X) /\ DOMAIN Y = 1 .. Len(Y)
      /\ DOMAIN (X \o Y) = 1 .. Len(X) + Len(Y)
      /\ \A k \in 1 .. Len(X) : (X \o Y)[k] = X[k]
      /\ \A k \in 1 .. Len(X) + Len(Y) : k \notin 1 .. Len(X)
           => k - Len(X) \in 1 .. Len(Y) /\ (X \o Y)[k] = Y[k - Len(X)]
  BY <1>1, <1>3, JoinParts
<1>7. CASE i \in 1 .. Len(X)
  BY <1>1, <1>2, <1>5, <1>6, <1>7
<1>8. CASE i \notin 1 .. Len(X)
  BY <1>4, <1>5, <1>6, <1>8
<1> QED
  BY <1>7, <1>8

NewsOnly(more, served, t) ==
    \A i \in DOMAIN more :
        /\ more[i].type = "snapshot" => more[i] = AllTold
        /\ more[i].type # "snapshot" /\ more[i].target = t
             => t \in Behind(served) /\ more[i] = Tell(served, t)

LEMMA ServedNews ==
    ASSUME NEW intro \in Seq(ServerMessage), NEW served \in Partial(Target, Served), NEW t,
           Silent(intro, Typed("snapshot")), \A i \in DOMAIN intro : intro[i].target # t
    PROVE  /\ NewsOnly(intro \o News(served), served, t)
           /\ intro \o News(served) \in Seq(ServerMessage)
<1> DEFINE N == News(served)
           M == intro \o N
<1>1. /\ N \in Seq(ServerMessage) /\ N[Len(N)] = AllTold
  BY NewsTypes
<1>2. \A i \in DOMAIN N : i # Len(N) =>
           /\ N[i].type = "change"
           /\ \E u \in Behind(served) : N[i].target = u /\ N[i] = Tell(served, u)
  BY NewsTypes
<1> HIDE DEF N
<1>3. /\ M \in Seq(ServerMessage) /\ DOMAIN intro = 1 .. Len(intro)
      /\ Len(intro) \in Nat /\ Len(N) \in Nat
      /\ DOMAIN N = 1 .. Len(N)
      /\ DOMAIN M = 1 .. Len(intro) + Len(N)
      /\ \A k \in 1 .. Len(intro) : M[k] = intro[k]
      /\ \A k \in 1 .. Len(intro) + Len(N) : k \notin 1 .. Len(intro)
           => k - Len(intro) \in 1 .. Len(N) /\ M[k] = N[k - Len(intro)]
  BY <1>1, JoinParts
<1> HIDE DEF M
<1>4. AllTold.type = "snapshot"
  BY AllToldFacts
<1>5. ASSUME NEW i \in DOMAIN M
      PROVE  /\ M[i].type = "snapshot" => M[i] = AllTold
             /\ M[i].type # "snapshot" /\ M[i].target = t
                  => t \in Behind(served) /\ M[i] = Tell(served, t)
  <2>1. CASE i \in 1 .. Len(intro)
    <3>1. M[i] = intro[i] /\ intro[i].target # t
      BY <1>3, <2>1
    <3>2. intro[i] \in ServerMessage /\ intro[i] \notin Typed("snapshot")
      BY <1>3, <2>1 DEF Silent
    <3> QED
      BY <3>1, <3>2 DEF Typed
  <2>2. CASE i \notin 1 .. Len(intro)
    <3>1. i - Len(intro) \in DOMAIN N /\ M[i] = N[i - Len(intro)]
      BY <1>3, <2>2
    <3> QED
      BY <1>1, <1>2, <1>4, <3>1
  <2> QED
    BY <2>1, <2>2
<1>6. NewsOnly(M, served, t)
  BY <1>5 DEF NewsOnly
<1> QED
  BY <1>3, <1>6 DEF M, N

AnswerOnly(more, request, deletions, reset) ==
    \A i \in DOMAIN more :
        /\ more[i].type = "snapshot" => more[i] = AllTold
        /\ more[i].type = "filter" /\ more[i].target = request.target
             => more[i] = FilterOf(request)
        /\ more[i].type = "change" /\ more[i].target = request.target
             => more[i] = ChangeOf(request, deletions, reset)

LEMMA AnswerIsOnly ==
    ASSUME told \in Partial(Target, Served),
           NEW request \in ClientMessage, request.type = "watch",
           NEW deletions \in BOOLEAN, NEW filter \in BOOLEAN, NEW early \in BOOLEAN,
           NEW reset \in BOOLEAN
    PROVE  AnswerOnly(Answer(request, deletions, filter, early, reset)
                        \o News(ServedThen(request)), request, deletions, reset)
<1> DEFINE A == Answer(request, deletions, filter, early, reset)
           served == ServedThen(request)
           N == News(served)
           u == request.target
           M == A \o N
<1>1. A \in Seq(ServerMessage)
  BY AnswerShape, ZenonT(60)
<1>2. \A i \in DOMAIN A : \/ A[i] = Acked(u) \/ A[i] = ResetOf(u) \/ A[i] = CurrentOf(u)
                          \/ A[i] = FilterOf(request)
                          \/ A[i] = ChangeOf(request, deletions, reset)
  BY AnswerElements
<1>3. /\ Acked(u).type = "added" /\ ResetOf(u).type = "reset" /\ CurrentOf(u).type = "current"
      /\ FilterOf(request).type = "filter" /\ ChangeOf(request, deletions, reset).type = "change"
  BY AnswerTypes
<1>4. served \in Partial(Target, Served) /\ u \notin Behind(served)
  BY ServedThenFacts
<1> HIDE DEF A, served, u
<1>5. N \in Seq(ServerMessage) /\ N[Len(N)] = AllTold
  BY <1>4, NewsTypes
<1>6. \A i \in DOMAIN N : i # Len(N) =>
           N[i].type = "change" /\ \E v \in Behind(served) : N[i].target = v
  BY <1>4, NewsTypes
<1> HIDE DEF N
<1>7. /\ DOMAIN A = 1 .. Len(A) /\ DOMAIN N = 1 .. Len(N)
      /\ Len(A) \in Nat /\ Len(N) \in Nat
      /\ DOMAIN M = 1 .. Len(A) + Len(N)
      /\ \A k \in 1 .. Len(A) : M[k] = A[k]
      /\ \A k \in 1 .. Len(A) + Len(N) : k \notin 1 .. Len(A)
           => k - Len(A) \in 1 .. Len(N) /\ M[k] = N[k - Len(A)]
  BY <1>1, <1>5, JoinParts
<1> HIDE DEF M
<1>8. AllTold.type = "snapshot"
  BY AllToldFacts
<1>9. ASSUME NEW i \in DOMAIN M
      PROVE  /\ M[i].type = "snapshot" => M[i] = AllTold
             /\ M[i].type = "filter" /\ M[i].target = u => M[i] = FilterOf(request)
             /\ M[i].type = "change" /\ M[i].target = u
                  => M[i] = ChangeOf(request, deletions, reset)
  <2>1. CASE i \in 1 .. Len(A)
    <3>1. i \in DOMAIN A /\ M[i] = A[i]
      BY <1>7, <2>1
    <3> QED
      BY <1>2, <1>3, <3>1
  <2>2. CASE i \notin 1 .. Len(A)
    <3>1. i - Len(A) \in DOMAIN N /\ M[i] = N[i - Len(A)]
      BY <1>7, <2>2
    <3> QED
      BY <1>4, <1>5, <1>6, <1>8, <3>1
  <2> QED
    BY <2>1, <2>2
<1>10. AnswerOnly(M, request, deletions, reset)
  BY <1>9 DEF AnswerOnly, u
<1> QED
  BY <1>10 DEF M, A, N, served

-----------------------------------------------------------------------------
(* What client and server remember exists or existed, and what the server  *)
(* says of a target since it last answered is true, and stays true.        *)
Born == {d \in Doc : serverDocs[d] # "unborn"}
Gone == {d \in Doc : serverDocs[d] = "deleted"}
AsSet(known) == IF known = NoToken THEN {} ELSE known

KnownBorn ==
    /\ AsSet(token) \subseteq Born
    /\ \A t \in DOMAIN resume : AsSet(resume[t]) \subseteq Born
    /\ \A t \in DOMAIN told : told[t].docs \subseteq Born
    /\ \A d \in Doc : /\ cache[d] # "unborn" => d \in Born
                      /\ updates[d] = "present" => d \in Born
                      /\ updates[d] \in {"deleted", "revoked"} => d \in Gone
    /\ limbo \subseteq Born

SaidTrue(m, t) ==
    /\ m.type = "snapshot" =>
         /\ m.token \subseteq Born
         /\ t \in DOMAIN active /\ active[t].key \notin m.token => active[t].key \in Gone
    /\ m.type = "change" /\ m.target = t => m.here \subseteq Born /\ m.gone \subseteq Gone
    /\ m.type = "filter" /\ m.target = t /\ m.count = 0 /\ t \in DOMAIN active
         => active[t].key \in Gone

TruthAt(t) ==
    \A i \in DOMAIN toClient : Last(toClient, AckOf(t), i) => SaidTrue(toClient[i], t)
Truthful == \A t \in DOMAIN resume : Answered(t) => TruthAt(t)

TruthInv == CalmInv /\ KnownBorn /\ Truthful

SameKey(t) ==
    /\ t \in DOMAIN active' => t \in DOMAIN active
    /\ t \in DOMAIN active' => active'[t].key = active[t].key

OneWay == Born \subseteq Born' /\ Gone \subseteq Gone'

LEMMA SaidTrueKept ==
    ASSUME OneWay, NEW t, SameKey(t), NEW m, SaidTrue(m, t)
    PROVE  SaidTrue(m, t)'
BY DEF OneWay, SameKey, SaidTrue

LEMMA LastTail ==
    ASSUME NEW list \in Seq(ServerMessage), list # <<>>, NEW M, NEW i \in DOMAIN Tail(list),
           Last(Tail(list), M, i)
    PROVE  i + 1 \in DOMAIN list /\ Tail(list)[i] = list[i + 1] /\ Last(list, M, i + 1)
<1>1. /\ Len(list) \in Nat /\ Len(list) >= 1 /\ DOMAIN list = 1 .. Len(list)
      /\ DOMAIN Tail(list) = 1 .. Len(list) - 1
      /\ \A k \in 1 .. Len(list) - 1 : Tail(list)[k] = list[k + 1]
      /\ \A k \in 2 .. Len(list) : k - 1 \in 1 .. Len(list) - 1 /\ Tail(list)[k - 1] = list[k]
  BY TailParts
<1>2. ASSUME NEW k \in DOMAIN list, k > i + 1 PROVE list[k] \notin M
  <2>1. k - 1 \in DOMAIN Tail(list) /\ k - 1 > i /\ Tail(list)[k - 1] = list[k]
    BY <1>1, <1>2
  <2> QED
    BY <2>1 DEF Last
<1> QED
  BY <1>1, <1>2 DEF Last

LEMMA TruthKeptAt ==
    ASSUME toClient \in Seq(ServerMessage), OneWay, NEW t, SameKey(t), TruthAt(t),
           \/ toClient' = toClient
           \/ toClient # <<>> /\ toClient' = Tail(toClient)
    PROVE  TruthAt(t)'
<1>1. CASE toClient' = toClient
  <2> SUFFICES ASSUME NEW i \in DOMAIN toClient, Last(toClient, AckOf(t), i)
               PROVE  SaidTrue(toClient[i], t)'
    BY <1>1 DEF TruthAt
  <2> DEFINE m == toClient[i]
  <2>1. SaidTrue(m, t)
    BY DEF TruthAt
  <2>2. m' = m
    BY <1>1
  <2> QED
    BY <2>1, <2>2 DEF OneWay, SameKey, SaidTrue
<1>2. CASE toClient # <<>> /\ toClient' = Tail(toClient)
  <2> SUFFICES ASSUME NEW i \in DOMAIN Tail(toClient), Last(Tail(toClient), AckOf(t), i)
               PROVE  SaidTrue(toClient[i], t)'
    BY <1>2 DEF TruthAt
  <2>1. /\ i + 1 \in DOMAIN toClient /\ Tail(toClient)[i] = toClient[i + 1]
        /\ Last(toClient, AckOf(t), i + 1)
    BY <1>2, LastTail
  <2>2. SaidTrue(toClient[i + 1], t) /\ toClient'[i] = toClient[i + 1]
    BY <1>2, <2>1 DEF TruthAt
  <2> QED
    BY <2>2 DEF OneWay, SameKey, SaidTrue
<1> QED
  BY <1>1, <1>2

LEMMA PresentIsBorn ==
    ASSUME serverDocs \in [Doc -> DocState]
    PROVE  /\ Present \subseteq Born /\ Born \ Present \subseteq Gone /\ Gone \subseteq Born
           /\ Present \intersect Gone = {}
BY DEF Present, Born, Gone, DocState

(* What the first message tells an active target. *)
LEMMA FirstIsTrue ==
    ASSUME CalmInv, Truthful, toClient # <<>>, NEW t, IsActive(t)
    PROVE  /\ t \in DOMAIN resume /\ Answered(t) /\ open
           /\ SaidTrue(Head(toClient), t)
<1>1. SyncInv /\ Closed /\ ActivesAre /\ toClient \in Seq(ServerMessage)
  BY ActivesMean DEF CalmInv, WireInv, SyncInv, PlainTypeOK
<1>2. t \in DOMAIN resume /\ open /\ ~Asks(toServer, t) /\ Silent(toClient, AckOf(t))
  BY <1>1, ReceiverIsOpen DEF IsActive, ActivesAre
<1>3. 1 \in DOMAIN toClient /\ Head(toClient) = toClient[1]
  BY <1>1, TailParts
<1>4. TruthAt(t) /\ Last(toClient, AckOf(t), 1)
  BY <1>2 DEF Truthful, Answered, Silent, Last
<1> QED
  BY <1>2, <1>3, <1>4 DEF TruthAt, Answered

LEMMA ActiveKeyIsBorn ==
    ASSUME SyncInv, KnownBorn, NEW t \in DOMAIN active
    PROVE  active[t].key \in Doc /\ active[t].key \in Born
<1>1. active \in Partial(Target \ {0}, Resolution) /\ Tracks(Book, limbo)
      /\ limbo \in SUBSET Doc
  BY InvFacts DEF SyncInv, PlainTypeOK
<1>2. active[t].key \in limbo
  BY <1>1, BookParts DEF Tracks, Keys
<1> QED
  BY <1>1, <1>2 DEF KnownBorn

(* The server's words. *)
LEMMA NewsIsTrue ==
    ASSUME SyncInv, KnownBorn, NEW t \in DOMAIN resume, NEW docs, docs \subseteq Born,
           NEW m, \/ m = AllTold
                  \/ m.type = "change" /\ m.here \subseteq Present /\ m.gone = docs \ Present
    PROVE  SaidTrue(m, t)
<1>1. /\ Present \subseteq Born /\ Born \ Present \subseteq Gone /\ Gone \subseteq Born
  BY PresentIsBorn DEF SyncInv, PlainTypeOK
<1>2. CASE m = AllTold
  <2>1. m.type = "snapshot" /\ m.token = Present
    BY <1>2 DEF AllTold
  <2>2. t \in DOMAIN active => active[t].key \in Born
    BY ActiveKeyIsBorn
  <2> QED
    BY <1>1, <2>1, <2>2 DEF SaidTrue
<1>3. CASE m.type = "change" /\ m.here \subseteq Present /\ m.gone = docs \ Present
  BY <1>1, <1>3 DEF SaidTrue
<1> QED
  BY <1>2, <1>3

LEMMA TruthOthers ==
    ASSUME SyncInv, KnownBorn, ServerRests, NEW t \in DOMAIN resume, TruthAt(t),
           NEW intro, NEW served, OthersServed(t, intro, served)
    PROVE  TruthAt(t)'
<1> DEFINE M == intro \o News(served)
<1>1. /\ intro \in Seq(ServerMessage) /\ served \in Partial(Target, Served)
      /\ t \in DOMAIN told /\ t \in DOMAIN served /\ served[t] = told[t]
      /\ toClient' = toClient \o M /\ toClient \in Seq(ServerMessage)
  BY DEF OthersServed, SyncInv, PlainTypeOK
<1>2. NewsOnly(M, served, t) /\ M \in Seq(ServerMessage)
  BY <1>1, ServedNews DEF OthersServed
<1>3. told[t].docs \subseteq Born
  BY <1>1 DEF KnownBorn
<1>4. OneWay /\ SameKey(t)
  BY DEF ServerRests, OneWay, SameKey, Born, Gone
<1> HIDE DEF M
<1>5. /\ Len(toClient) \in Nat /\ Len(M) \in Nat
      /\ DOMAIN toClient = 1 .. Len(toClient) /\ DOMAIN M = 1 .. Len(M)
      /\ DOMAIN (toClient \o M) = 1 .. Len(toClient) + Len(M)
      /\ \A i \in 1 .. Len(toClient) : (toClient \o M)[i] = toClient[i]
      /\ \A i \in 1 .. Len(toClient) + Len(M) : i \notin 1 .. Len(toClient)
           => /\ i - Len(toClient) \in 1 .. Len(M)
              /\ (toClient \o M)[i] = M[i - Len(toClient)]
  BY <1>1, <1>2, JoinParts
<1>6. ASSUME NEW i \in DOMAIN (toClient \o M), Last(toClient \o M, AckOf(t), i)
      PROVE  SaidTrue((toClient \o M)[i], t)
  <2>1. CASE i \in 1 .. Len(toClient)
    <3>1. Last(toClient, AckOf(t), i)
      BY <1>1, <1>2, <1>6, <2>1, LastLonger
    <3>2. SaidTrue(toClient[i], t)
      BY <1>5, <2>1, <3>1 DEF TruthAt
    <3> QED
      BY <1>5, <2>1, <3>2
  <2>2. CASE i \notin 1 .. Len(toClient)
    <3> DEFINE k == i - Len(toClient)
               m == M[k]
    <3>1. k \in DOMAIN M /\ (toClient \o M)[i] = m
      BY <1>5, <1>6, <2>2
    <3>2. m \in ServerMessage
      BY <1>2, <3>1
    <3>3. m.type = "snapshot" => m = AllTold
      BY <1>2, <3>1 DEF NewsOnly
    <3>4. m.type # "snapshot" /\ m.target = t => m = Tell(served, t)
      BY <1>2, <3>1 DEF NewsOnly
    <3> HIDE DEF m
    <3>5. CASE m.type = "snapshot"
      BY <1>3, <3>1, <3>3, <3>5, NewsIsTrue
    <3>6. CASE m.type # "snapshot" /\ m.target = t
      <4>1. /\ m.type = "change" /\ m.gone = told[t].docs \ Present
            /\ m.here \subseteq Present
        BY <1>1, <3>4, <3>6 DEF Tell
      <4> QED
        BY <1>3, <3>1, <4>1, NewsIsTrue
    <3>7. CASE m.type # "snapshot" /\ m.target # t
      BY <3>1, <3>7 DEF SaidTrue
    <3> QED
      BY <3>5, <3>6, <3>7
  <2> QED
    BY <2>1, <2>2
<1>7. ASSUME NEW i \in DOMAIN toClient', Last(toClient', AckOf(t), i)
      PROVE  SaidTrue(toClient[i], t)'
  <2>1. SaidTrue((toClient \o M)[i], t) /\ toClient'[i] = (toClient \o M)[i]
    BY <1>1, <1>6, <1>7
  <2> QED
    BY <1>4, <2>1 DEF OneWay, SameKey, SaidTrue
<1> QED
  BY <1>7 DEF TruthAt

LEMMA TruthDropped ==
    ASSUME SyncInv, ServerRests, NEW t, TruthAt(t), NEW m, OtherDropped(t, m)
    PROVE  TruthAt(t)'
<1>1. /\ m \in ServerMessage /\ m.type = "removed" /\ toClient' = toClient \o <<m>>
      /\ toClient \in Seq(ServerMessage) /\ <<m>> \in Seq(ServerMessage)
      /\ DOMAIN <<m>> = {1} /\ <<m>>[1] = m
  BY OneMessage DEF OtherDropped, SyncInv, PlainTypeOK
<1>2. OneWay /\ SameKey(t)
  BY DEF ServerRests, OneWay, SameKey, Born, Gone
<1>3. /\ DOMAIN toClient = 1 .. Len(toClient) /\ DOMAIN <<m>> = 1 .. Len(<<m>>)
      /\ DOMAIN (toClient \o <<m>>) = 1 .. Len(toClient) + Len(<<m>>)
      /\ \A i \in 1 .. Len(toClient) : (toClient \o <<m>>)[i] = toClient[i]
      /\ \A i \in 1 .. Len(toClient) + Len(<<m>>) : i \notin 1 .. Len(toClient)
           => /\ i - Len(toClient) \in 1 .. Len(<<m>>)
              /\ (toClient \o <<m>>)[i] = <<m>>[i - Len(toClient)]
  BY <1>1, JoinParts
<1>4. ASSUME NEW i \in DOMAIN toClient', Last(toClient', AckOf(t), i)
      PROVE  SaidTrue(toClient[i], t)'
  <2>1. CASE i \in 1 .. Len(toClient)
    <3>1. Last(toClient, AckOf(t), i) /\ toClient'[i] = toClient[i]
      BY <1>1, <1>3, <1>4, <2>1, LastLonger
    <3>2. SaidTrue(toClient[i], t)
      BY <1>3, <2>1, <3>1 DEF TruthAt
    <3> QED
      BY <1>2, <3>1, <3>2 DEF OneWay, SameKey, SaidTrue
  <2>2. CASE i \notin 1 .. Len(toClient)
    <3>1. toClient'[i] = m
      BY <1>1, <1>3, <1>4, <2>2
    <3> QED
      BY <1>1, <3>1 DEF SaidTrue
  <2> QED
    BY <2>1, <2>2
<1> QED
  BY <1>4 DEF TruthAt

LEMMA WatchForFacts ==
    ASSUME SyncInv, NEW t \in DOMAIN resume
    PROVE  /\ WatchFor(Book, t).type = "watch" /\ WatchFor(Book, t).target = t
           /\ WatchFor(Book, t).token = resume[t] /\ WatchFor(Book, t).scope = Scope(t)
           /\ WatchFor(Book, t) \in ClientMessage
<1>1. t \in Target /\ resume[t] \in Token /\ Scope(t) \in SUBSET Doc
  <2>1. /\ active \in Partial(Target \ {0}, Resolution) /\ resume \in Partial(Target, Token)
        /\ DOMAIN resume = DOMAIN active \union {0}
    BY InvFacts
  <2>2. t # 0 => active[t] \in Resolution
    BY <2>1, PartialFacts
  <2> QED
    BY <2>1, <2>2, PartialFacts DEF Scope, Resolution
<1>2. WatchFor(Book, t) = [type |-> "watch", target |-> t, scope |-> Scope(t), token |-> resume[t]]
  BY BookParts DEF WatchFor, Scope
<1>3. [type |-> "watch", target |-> t, scope |-> Scope(t), token |-> resume[t]]
        \in ClientMessage
  BY <1>1, WatchIsMessage
<1> QED
  BY <1>2, <1>3

LEMMA AnswerIsTrue ==
    ASSUME SyncInv, KnownBorn, NEW t \in DOMAIN resume,
           NEW deletions \in BOOLEAN, NEW reset \in BOOLEAN, NEW m,
           \/ m = FilterOf(WatchFor(Book, t))
           \/ m = ChangeOf(WatchFor(Book, t), deletions, reset)
    PROVE  SaidTrue(m, t)
<1> DEFINE r == WatchFor(Book, t)
<1>1. /\ r.type = "watch" /\ r.target = t /\ r.token = resume[t] /\ r.scope = Scope(t)
      /\ r \in ClientMessage
  BY WatchForFacts
<1>2. /\ Present \subseteq Born /\ Born \ Present \subseteq Gone /\ Gone \subseteq Born
  BY PresentIsBorn DEF SyncInv, PlainTypeOK
<1> HIDE DEF r
<1>3. CASE m = FilterOf(r)
  <2>1. m.type = "filter" /\ m.count = Cardinality(Matched(r)) /\ IsFiniteSet(Matched(r))
    BY <1>1, <1>3, AnswerMessages DEF FilterOf
  <2>2. ASSUME m.count = 0, t \in DOMAIN active PROVE active[t].key \in Gone
    <3>1. Matched(r) = {}
      BY <2>1, <2>2, FS_EmptySet
    <3>2. t # 0
      <4>1. active \in Partial(Target \ {0}, Resolution)
        BY InvFacts
      <4> QED
        BY <2>2, <4>1, PartialFacts
    <3>3. active[t].key \notin Present
      BY <1>1, <3>1, <3>2 DEF Matched, Scope
    <3> QED
      BY <1>2, <2>2, <3>3, ActiveKeyIsBorn
  <2> QED
    BY <2>1, <2>2 DEF SaidTrue
<1>4. CASE m = ChangeOf(r, deletions, reset)
  <2>1. m.type = "change" /\ m.here \subseteq Present
    BY <1>4 DEF ChangeOf, NewIn, Matched
  <2>2. m.gone \subseteq Resumed(r, reset) \ Matched(r)
    BY <1>4 DEF ChangeOf, GoneFrom
  <2>3. Resumed(r, reset) \ Matched(r) \subseteq Born \ Present
    BY <1>1 DEF Resumed, Matched, KnownBorn, AsSet
  <2> QED
    BY <1>2, <2>1, <2>2, <2>3 DEF SaidTrue
<1> QED
  BY <1>3, <1>4 DEF r

LEMMA TruthAnswered ==
    ASSUME SyncInv, KnownBorn, ServerRests, NEW t \in DOMAIN resume,
           NEW deletions \in BOOLEAN, NEW filter \in BOOLEAN, NEW early \in BOOLEAN,
           NEW reset \in BOOLEAN, AnsweredNow(t, deletions, filter, early, reset)
    PROVE  TruthAt(t)'
<1> DEFINE r == WatchFor(Book, t)
           M == Answer(r, deletions, filter, early, reset) \o News(ServedThen(r))
<1>1. /\ r.type = "watch" /\ r.target = t /\ r \in ClientMessage
  BY WatchForFacts
<1>2. toClient' = toClient \o M /\ toClient \in Seq(ServerMessage)
      /\ told \in Partial(Target, Served)
  BY DEF AnsweredNow, Served2, SyncInv, PlainTypeOK
<1>3. OneWay /\ SameKey(t)
  BY DEF ServerRests, OneWay, SameKey, Born, Gone
<1> HIDE DEF r
<1>4. AckedOnce(M, t)
  BY <1>1, <1>2, AnswerAcks
<1>5. AnswerOnly(M, r, deletions, reset)
  BY <1>1, <1>2, AnswerIsOnly
<1> HIDE DEF M
<1>6. M \in Seq(ServerMessage) /\ 1 \in DOMAIN M /\ M[1] \in AckOf(t)
  BY <1>4 DEF AckedOnce
<1>7. /\ Len(toClient) \in Nat /\ Len(M) \in Nat
      /\ DOMAIN toClient = 1 .. Len(toClient) /\ DOMAIN M = 1 .. Len(M)
      /\ DOMAIN (toClient \o M) = 1 .. Len(toClient) + Len(M)
      /\ \A i \in 1 .. Len(M) : (toClient \o M)[Len(toClient) + i] = M[i]
      /\ \A i \in 1 .. Len(toClient) + Len(M) : i \notin 1 .. Len(toClient)
           => /\ i - Len(toClient) \in 1 .. Len(M)
              /\ (toClient \o M)[i] = M[i - Len(toClient)]
  BY <1>2, <1>6, JoinParts
<1>8. ASSUME NEW i \in DOMAIN toClient', Last(toClient', AckOf(t), i)
      PROVE  SaidTrue(toClient[i], t)'
  <2>1. i \notin 1 .. Len(toClient)
    <3>1. SUFFICES ASSUME i \in 1 .. Len(toClient) PROVE FALSE
      OBVIOUS
    <3>2. /\ Len(toClient) + 1 \in DOMAIN toClient' /\ Len(toClient) + 1 > i
          /\ toClient'[Len(toClient) + 1] = M[1]
      BY <1>2, <1>6, <1>7, <3>1
    <3> QED
      BY <1>6, <1>8, <3>2 DEF Last
  <2> DEFINE m == M[i - Len(toClient)]
  <2>2. i - Len(toClient) \in DOMAIN M /\ toClient'[i] = m
    BY <1>2, <1>7, <1>8, <2>1
  <2>3. /\ m.type = "snapshot" => m = AllTold
        /\ m.type = "filter" /\ m.target = t => m = FilterOf(r)
        /\ m.type = "change" /\ m.target = t => m = ChangeOf(r, deletions, reset)
    BY <1>1, <1>5, <2>2 DEF AnswerOnly
  <2> HIDE DEF m
  <2>4. SaidTrue(m, t)
    <3>1. CASE m = AllTold
      <4>1. {} \subseteq Born
        OBVIOUS
      <4> QED
        BY <3>1, <4>1, NewsIsTrue
    <3>2. CASE m = FilterOf(r) \/ m = ChangeOf(r, deletions, reset)
      BY <3>2, AnswerIsTrue DEF r
    <3>3. CASE /\ m.type # "snapshot" /\ ~(m.type = "filter" /\ m.target = t)
               /\ ~(m.type = "change" /\ m.target = t)
      BY <3>3 DEF SaidTrue
    <3> QED
      BY <2>3, <3>1, <3>2, <3>3
  <2> QED
    BY <1>3, <2>2, <2>4 DEF OneWay, SameKey, SaidTrue
<1> QED
  BY <1>8 DEF TruthAt

-----------------------------------------------------------------------------
(* That, too, is kept by each kind of step.                                  *)
LEMMA NewestIsBorn ==
    ASSUME NEW served \in Partial(Target, Served), serverDocs \in [Doc -> DocState],
           NEW t \in DOMAIN UpToDate(served)
    PROVE  UpToDate(served)[t].docs \subseteq Born
<1>1. t \in DOMAIN served /\ UpToDate(served)[t].docs = Present \intersect served[t].scope
  BY UpToDateFacts DEF UpToDate
<1> QED
  BY <1>1, PresentIsBorn

LEMMA OneWayStep ==
    ASSUME SyncInv, Step
    PROVE  OneWay
<1>1. serverDocs' = serverDocs \/ Elsewhere
  BY SnapshotTakenMeans DEF Step, PlainStep, Written, ViewStep, ServerStep, ServerRests, Opened,
     CutOff, WentOffline
<1>2. CASE serverDocs' = serverDocs
  BY <1>2 DEF OneWay, Born, Gone
<1>3. CASE Elsewhere
  <2>1. ASSUME NEW d \in Doc
        PROVE  /\ serverDocs[d] # "unborn" => serverDocs'[d] # "unborn"
               /\ serverDocs[d] = "deleted" => serverDocs'[d] = "deleted"
    BY <1>3 DEF Elsewhere
  <2> QED
    BY <2>1 DEF OneWay, Born, Gone
<1> QED
  BY <1>1, <1>2, <1>3

LEMMA BornPlain ==
    ASSUME TruthInv, PlainStep(Head(toClient))
    PROVE  KnownBorn'
<1> DEFINE m == Head(toClient)
<1>1. /\ toClient # <<>> /\ m \in ServerMessage /\ m.target \in Target
      /\ UNCHANGED <<token, cache, limbo, resume, told, serverDocs>>
      /\ IsAck(m) => UNCHANGED updates
      /\ ~IsAck(m) /\ ~IsActive(m.target) => UNCHANGED updates
      /\ ~IsAck(m) => \A t : t = m.target /\ IsActive(t) => Mistaken(m) \/ TakenIn(m, t)
  BY DEF PlainStep, AckTaken, diskVars, viewVars, syncVars, aggregatorVars
<1> HIDE DEF m
<1>2. ASSUME NEW d \in Doc
      PROVE  /\ updates'[d] = "present" => d \in Born
             /\ updates'[d] \in {"deleted", "revoked"} => d \in Gone
  <2>1. /\ updates[d] = "present" => d \in Born
        /\ updates[d] \in {"deleted", "revoked"} => d \in Gone
    BY DEF TruthInv, KnownBorn
  <2>2. CASE UNCHANGED updates
    BY <2>1, <2>2
  <2>3. ASSUME NEW t, t = m.target, IsActive(t), TakenIn(m, t)
        PROVE  /\ updates'[d] = "present" => d \in Born
               /\ updates'[d] \in {"deleted", "revoked"} => d \in Gone
    <3>1. SaidTrue(m, t) /\ t \in DOMAIN resume
      BY <1>1, <2>3, FirstIsTrue DEF TruthInv, m
    <3>2. t # 0 => t \in DOMAIN active
      BY <3>1, InvFacts DEF TruthInv, CalmInv, WireInv
    <3>3. updates'[d] = UpdatedTo(m, d)
      BY <2>3 DEF TakenIn
    <3>4. m.type = "change" => m.here \subseteq Born /\ m.gone \subseteq Gone
      BY <2>3, <3>1 DEF SaidTrue
    <3>5. m.type = "filter" /\ m.count = 0 /\ t # 0 => active[t].key \in Gone
      BY <2>3, <3>1, <3>2 DEF SaidTrue
    <3> QED
      BY <2>1, <2>3, <3>3, <3>4, <3>5 DEF UpdatedTo, Scope
  <2>4. Mistaken(m) => UNCHANGED updates
    BY DEF Mistaken
  <2> QED
    BY <1>1, <2>2, <2>3, <2>4
<1>3. Born' = Born /\ Gone' = Gone
  BY <1>1 DEF Born, Gone
<1>4. KnownBorn
  BY DEF TruthInv
<1> QED
  BY <1>1, <1>2, <1>3, <1>4 DEF KnownBorn

LEMMA NewerMeans ==
    ASSUME NEW old, NEW new \in {"none", "present", "deleted", "revoked"}
    PROVE  /\ new = "none" => Newer(old, new) = old
           /\ new = "revoked" => Newer(old, new) = "unborn"
           /\ new = "present" => Newer(old, new) = IF old = "deleted" THEN old ELSE new
           /\ new = "deleted" => Newer(old, new) = new
BY DEF Newer

LEMMA BornSnapshot ==
    ASSUME TruthInv, SyncInv', SnapshotTaken
    PROVE  KnownBorn'
<1>0. SyncInv /\ KnownBorn /\ Present \subseteq Born /\ Gone \subseteq Born
      /\ updates \in [Doc -> {"none", "present", "deleted", "revoked"}]
  BY PresentIsBorn DEF TruthInv, CalmInv, WireInv, SyncInv, PlainTypeOK
<1>1. PICK known, saved : SnapshotStep(known, saved) /\ known = Head(toClient).token
  BY SnapshotTakenMeans DEF SnapshotStep
<1>2. toClient # <<>> /\ Head(toClient).type = "snapshot" /\ known \in SUBSET Doc
      /\ UNCHANGED <<serverDocs, told>>
  BY <1>1 DEF SnapshotStep
<1>3. \A t \in Raised : known \subseteq Born
  <2> SUFFICES ASSUME NEW t \in Raised PROVE known \subseteq Born
    OBVIOUS
  <2>1. SaidTrue(Head(toClient), t)
    BY <1>2, FirstIsTrue DEF TruthInv, Raised
  <2> QED
    BY <1>1, <1>2, <2>1 DEF SaidTrue
<1>4. AsSet(known) = known
  <2>1. 0 \notin Doc
    BY DEF Doc
  <2> QED
    BY <1>2, <2>1 DEF AsSet, NoToken
<1>5. AsSet(NoToken) = {}
  BY DEF AsSet
<1>6. AsSet(token') \subseteq Born
  <2>1. \/ 0 \in Raised /\ saved \in {token, known}
        \/ saved = token
    BY <1>1 DEF SnapshotStep
  <2>2. token' = saved
    BY <1>1 DEF SnapshotStep
  <2> QED
    BY <1>0, <1>3, <1>4, <2>1, <2>2 DEF KnownBorn
<1>7. ASSUME NEW t \in DOMAIN resume' PROVE AsSet(resume'[t]) \subseteq Born
  <2>1. SettledTarget(t, known) \/ TargetBegun(t)
    BY <1>1 DEF SnapshotStep
  <2>2. CASE TargetBegun(t)
    BY <1>5, <2>2 DEF TargetBegun
  <2>3. CASE SettledTarget(t, known) /\ t \in Raised
    BY <1>3, <1>4, <2>3 DEF SettledTarget, TargetRaised
  <2>4. CASE SettledTarget(t, known) /\ t \notin Raised
    BY <1>0, <2>4 DEF SettledTarget, TargetKept, KnownBorn
  <2> QED
    BY <2>1, <2>2, <2>3, <2>4
<1>8. ASSUME NEW d \in Doc, cache'[d] # "unborn" PROVE d \in Born
  <2> DEFINE new == IF \E t \in Denied : active[t].key = d THEN "deleted" ELSE updates[d]
  <2>1. cache'[d] = Newer(cache[d], new) /\ new \in {"none", "present", "deleted", "revoked"}
    BY <1>0, <1>1 DEF SnapshotStep
  <2>2. CASE \E t \in Denied : active[t].key = d
    <3>1. PICK t \in Denied : active[t].key = d
      BY <2>2
    <3>2. t \in DOMAIN active
      <4>1. t \in DOMAIN resume /\ t # 0
        BY DEF Denied, IsActive
      <4> QED
        BY <1>0, <4>1, InvFacts
    <3> QED
      BY <1>0, <3>1, <3>2, ActiveKeyIsBorn
  <2>3. CASE new = updates[d]
    <3>1. /\ updates[d] = "present" => d \in Born
          /\ updates[d] \in {"deleted", "revoked"} => d \in Born
          /\ cache[d] # "unborn" => d \in Born
      BY <1>0 DEF KnownBorn
    <3> QED
      BY <1>8, <2>1, <2>3, <3>1, NewerMeans
  <2> QED
    BY <2>2, <2>3
<1>9. updates' = NoChanges
  BY <1>1 DEF SnapshotStep
<1>10. limbo' \subseteq Born
  <2>1. /\ mutatedKeys' = Mutated(cache', mutated', Changed)
        /\ limbo' = IF current' THEN Shown(cache', mutated') \ (synced' \union mutatedKeys')
                    ELSE limbo
    BY <1>1 DEF SnapshotStep
  <2>2. \A d \in Shown(cache', mutated') \ (synced' \union mutatedKeys') :
           d \in Doc /\ cache'[d] = "present"
    BY <2>1, WritesAreMutated DEF Shown
  <2> QED
    BY <1>0, <1>8, <2>1, <2>2 DEF KnownBorn
<1>11. Born' = Born /\ Gone' = Gone
  BY <1>2 DEF Born, Gone
<1>12. \A t \in DOMAIN told : told[t].docs \subseteq Born
  BY <1>0 DEF KnownBorn
<1> QED
  BY <1>2, <1>6, <1>7, <1>8, <1>9, <1>10, <1>11, <1>12 DEF KnownBorn, NoChanges

LEMMA BornWritten ==
    ASSUME TruthInv, Written
    PROVE  KnownBorn'
<1>0. SyncInv /\ KnownBorn
  BY DEF TruthInv, CalmInv, WireInv
<1>1. /\ ViewStep /\ UNCHANGED <<serverDocs, told, token, updates>>
  BY DEF Written, ViewStep
<1>2. ASSUME NEW t \in DOMAIN resume' PROVE AsSet(resume'[t]) \subseteq Born
  <2>1. TargetKept(t) \/ TargetBegun(t)
    BY <1>1 DEF ViewStep
  <2> QED
    BY <1>0, <2>1 DEF TargetKept, TargetBegun, KnownBorn, AsSet
<1>3. ASSUME NEW d \in Doc, cache'[d] # "unborn" PROVE d \in Born
  <2>1. PICK e \in Doc : \/ cache' = cache
                         \/ /\ serverDocs[e] # "unborn"
                            /\ cache' = [cache EXCEPT ![e] = Newer(@, "present")]
    BY DEF Written
  <2>2. cache[d] # "unborn" => d \in Born
    BY <1>0 DEF KnownBorn
  <2>3. cache'[d] = cache[d] \/ (d = e /\ serverDocs[e] # "unborn")
    BY <1>0, <2>1 DEF SyncInv, PlainTypeOK
  <2> QED
    BY <1>3, <2>2, <2>3 DEF Born
<1>4. limbo' \subseteq Born
  <2>1. limbo' = IF current THEN Shown(cache', mutated') \ (synced \union mutatedKeys')
                 ELSE limbo
    BY <1>1 DEF ViewStep
  <2>2. PICK renewed : mutatedKeys' = Mutated(cache', mutated', renewed)
    BY DEF Written
  <2>3. \A d \in Shown(cache', mutated') \ (synced \union mutatedKeys') :
           d \in Doc /\ cache'[d] = "present"
    BY <2>2, WritesAreMutated DEF Shown
  <2> QED
    BY <1>0, <1>3, <2>1, <2>3 DEF KnownBorn
<1>5. Born' = Born /\ Gone' = Gone
  BY <1>1 DEF Born, Gone
<1> QED
  BY <1>0, <1>1, <1>2, <1>3, <1>4, <1>5 DEF KnownBorn

LEMMA BornServed ==
    ASSUME TruthInv, ServerStep
    PROVE  KnownBorn'
<1>0. SyncInv /\ KnownBorn /\ serverDocs \in [Doc -> DocState] /\ told \in Partial(Target, Served)
  BY DEF TruthInv, CalmInv, WireInv, SyncInv, PlainTypeOK
<1>1. UNCHANGED <<serverDocs, token, cache, updates, limbo, resume>>
  BY DEF ServerStep, ServerRests
<1>2. ASSUME NEW t \in DOMAIN told' PROVE told'[t].docs \subseteq Born
  <2>1. CASE Pushed
    BY <1>0, <1>2, <2>1, NewestIsBorn DEF Pushed
  <2>2. CASE Dropped(Head(toServer))
    BY <1>0, <1>2, <2>2 DEF Dropped, Less, KnownBorn
  <2>3. ASSUME NEW deletions \in BOOLEAN, NEW filter \in BOOLEAN, NEW early \in BOOLEAN,
               NEW reset \in BOOLEAN, Served2(Head(toServer), deletions, filter, early, reset)
        PROVE  told'[t].docs \subseteq Born
    <3> DEFINE served == ServedThen(Head(toServer))
    <3>1. told' = UpToDate(served) /\ served \in Partial(Target, Served)
      BY <1>0, <2>3, ServedThenFacts DEF Served2, Takes
    <3> HIDE DEF served
    <3> QED
      BY <1>0, <1>2, <3>1, NewestIsBorn
  <2> QED
    BY <2>1, <2>2, <2>3 DEF ServerStep
<1>3. Born' = Born /\ Gone' = Gone
  BY <1>1 DEF Born, Gone
<1> QED
  BY <1>0, <1>1, <1>2, <1>3 DEF KnownBorn

LEMMA BornKept ==
    ASSUME TruthInv, SyncInv', Step
    PROVE  KnownBorn'
<1>0. SyncInv /\ KnownBorn /\ OneWay
  BY OneWayStep DEF TruthInv, CalmInv, WireInv
<1>1. CASE Opened
  <2>1. UNCHANGED <<serverDocs, token, cache, updates, limbo, resume, told>>
    BY <1>1 DEF Opened
  <2> QED
    BY <1>0, <2>1 DEF KnownBorn, Born, Gone
<1>2. CASE WentOffline
  <2>1. UNCHANGED <<serverDocs, token, cache, updates, limbo, resume, told>>
    BY <1>2 DEF WentOffline
  <2> QED
    BY <1>0, <2>1 DEF KnownBorn, Born, Gone
<1>3. CASE Elsewhere
  <2>1. UNCHANGED <<token, cache, updates, limbo, resume, told>>
    BY <1>3 DEF Elsewhere
  <2>2. /\ AsSet(token) \subseteq Born /\ limbo \subseteq Born
        /\ \A t \in DOMAIN resume : AsSet(resume[t]) \subseteq Born
        /\ \A t \in DOMAIN told : told[t].docs \subseteq Born
        /\ \A d \in Doc : /\ cache[d] # "unborn" => d \in Born
                          /\ updates[d] = "present" => d \in Born
                          /\ updates[d] \in {"deleted", "revoked"} => d \in Gone
    BY <1>0 DEF KnownBorn
  <2>3. Born \subseteq Born' /\ Gone \subseteq Gone'
    BY <1>0 DEF OneWay
  <2> QED
    BY <2>1, <2>2, <2>3 DEF KnownBorn
<1>4. CASE CutOff
  <2>1. /\ UNCHANGED <<serverDocs, token, cache>> /\ updates' = NoChanges /\ told' = <<>>
        /\ limbo' \subseteq limbo
        /\ \A t \in DOMAIN resume' : \/ resume'[t] = token
                                     \/ t \in DOMAIN resume /\ resume'[t] = resume[t]
    BY <1>4 DEF CutOff
  <2>2. DOMAIN told' = {}
    BY <2>1, EmptyIsPartial
  <2>3. Born' = Born /\ Gone' = Gone
    BY <2>1 DEF Born, Gone
  <2> QED
    BY <1>0, <2>1, <2>2, <2>3 DEF KnownBorn, NoChanges
<1> QED
  BY <1>1, <1>2, <1>3, <1>4, BornPlain, BornSnapshot, BornWritten, BornServed DEF Step

LEMMA InvFactsAfter ==
    ASSUME SyncInv'
    PROVE  /\ active' \in Partial(Target \ {0}, Resolution)
           /\ resume' \in Partial(Target, Token)
           /\ states' \in Partial(Target, TargetStates)
           /\ DOMAIN resume' = DOMAIN active' \union {0}
<1>1. Book' \in Books
  BY DEF SyncInv, Sound, Carries
<1> QED
  BY <1>1, BookPartsAfter, BookFacts

LEMMA KeyKept ==
    ASSUME SyncInv, SyncInv', NEW t, \/ t = 0
                                     \/ TargetKept(t)
                                     \/ \E known : TargetRaised(t, known)
    PROVE  SameKey(t)
<1>1. /\ 0 \notin DOMAIN active' /\ DOMAIN resume = DOMAIN active \union {0}
  <2>1. active \in Partial(Target \ {0}, Resolution) /\ DOMAIN resume = DOMAIN active \union {0}
        /\ active' \in Partial(Target \ {0}, Resolution)
    BY InvFacts, InvFactsAfter
  <2> QED
    BY <2>1, PartialFacts
<1> QED
  BY <1>1 DEF SameKey, TargetKept, TargetRaised

LEMMA TruthfulSnapshot ==
    ASSUME TruthInv, SyncInv', SnapshotTaken
    PROVE  Truthful'
<1>1. PICK known, saved : SnapshotStep(known, saved)
  BY SnapshotTakenMeans
<1>2. toClient # <<>> /\ toClient' = Tail(toClient) /\ open' = open
  BY <1>1 DEF SnapshotStep
<1>3. SyncInv /\ toClient \in Seq(ServerMessage) /\ open /\ OneWay
  BY <1>2, ReceiverIsOpen, OneWayStep DEF TruthInv, CalmInv, WireInv, SyncInv, PlainTypeOK, Step
<1> SUFFICES ASSUME NEW t \in DOMAIN resume', Answered(t)' PROVE TruthAt(t)'
  BY DEF Truthful
<1>4. ~TargetBegun(t)
  BY <1>3, BegunIsAsked DEF Answered
<1>5. TargetKept(t) \/ TargetRaised(t, known)
  BY <1>1, <1>4 DEF SnapshotStep, SettledTarget
<1>6. Answered(t)
  BY <1>3, <1>5 DEF Answered, TargetKept, TargetRaised
<1>7. SameKey(t)
  BY <1>3, <1>5, KeyKept
<1>8. TruthAt(t)
  BY <1>6 DEF TruthInv, Truthful, Answered
<1> QED
  BY <1>2, <1>3, <1>7, <1>8, TruthKeptAt

LEMMA TruthfulWritten ==
    ASSUME TruthInv, SyncInv', Written
    PROVE  Truthful'
<1>1. ViewStep /\ toClient' = toClient /\ open' = open
  BY DEF Written, ViewStep
<1>2. SyncInv /\ toClient \in Seq(ServerMessage) /\ OneWay
  BY OneWayStep DEF TruthInv, CalmInv, WireInv, SyncInv, PlainTypeOK, Step
<1> SUFFICES ASSUME NEW t \in DOMAIN resume', Answered(t)' PROVE TruthAt(t)'
  BY DEF Truthful
<1>3. open
  BY <1>1 DEF Answered
<1>4. TargetKept(t)
  BY <1>1, <1>3, BegunIsAsked DEF Answered, ViewStep
<1>5. TruthAt(t)
  BY <1>1, <1>4 DEF TruthInv, Truthful, Answered, TargetKept
<1>6. SameKey(t)
  BY <1>2, <1>4, KeyKept
<1> QED
  BY <1>1, <1>2, <1>5, <1>6, TruthKeptAt

LEMMA TruthfulServed ==
    ASSUME TruthInv, ServerStep
    PROVE  Truthful'
<1>1. WireInv /\ SyncInv /\ KnownBorn /\ Truthful /\ ServerRests
  BY DEF TruthInv, CalmInv, WireInv, ServerStep
<1>2. resume' = resume /\ open' = open
  BY <1>1 DEF ServerRests
<1> SUFFICES ASSUME NEW t \in DOMAIN resume, Answered(t)' PROVE TruthAt(t)'
  BY <1>2 DEF Truthful
<1>3. open /\ ~Asks(toServer', t)
  BY <1>2 DEF Answered
<1>4. ~Asks(toServer, t) => TruthAt(t)
  BY <1>1, <1>3 DEF Truthful, Answered
<1>5. \/ /\ ~Asks(toServer, t)
         /\ \/ \E intro, served : OthersServed(t, intro, served)
            \/ \E m : OtherDropped(t, m)
      \/ \E deletions, filter, early, reset \in BOOLEAN :
            AnsweredNow(t, deletions, filter, early, reset)
  BY <1>1, <1>3, ServerForTarget
<1> QED
  BY <1>1, <1>4, <1>5, TruthOthers, TruthDropped, TruthAnswered

LEMMA TruthfulKept ==
    ASSUME TruthInv, SyncInv', Step
    PROVE  Truthful'
<1>0. SyncInv /\ toClient \in Seq(ServerMessage) /\ OneWay /\ Truthful
  BY OneWayStep DEF TruthInv, CalmInv, WireInv, SyncInv, PlainTypeOK
<1>1. CASE PlainStep(Head(toClient)) \/ WentOffline \/ Elsewhere
  <2>1. /\ UNCHANGED <<open, toServer, resume, active>>
        /\ toClient' = toClient \/ (toClient # <<>> /\ toClient' = Tail(toClient))
    BY <1>1 DEF PlainStep, syncVars, WentOffline, Elsewhere
  <2> SUFFICES ASSUME NEW t \in DOMAIN resume, Answered(t) PROVE TruthAt(t)'
    BY <2>1 DEF Truthful, Answered
  <2>2. SameKey(t) /\ TruthAt(t)
    BY <1>0, <2>1 DEF SameKey, Truthful
  <2> QED
    BY <1>0, <2>1, <2>2, TruthKeptAt
<1>2. CASE Opened
  <2>1. resume' = resume /\ \A t \in DOMAIN resume : Asks(toServer', t)
    BY <1>2 DEF Opened
  <2> QED
    BY <2>1 DEF Truthful, Answered
<1>3. CASE CutOff
  BY <1>3 DEF CutOff, Truthful, Answered
<1> QED
  BY <1>1, <1>2, <1>3, TruthfulSnapshot, TruthfulWritten, TruthfulServed DEF Step

LEMMA TruthStep ==
    ASSUME TruthInv, [SyncNext]_watchSyncVars
    PROVE  TruthInv' /\ SyncInv' /\ Step
<1>1. CalmInv /\ WireInv
  BY DEF TruthInv, CalmInv
<1>2. CalmInv' /\ SyncInv' /\ Step
  BY <1>1, CalmStep, WireStep DEF WireInv
<1> QED
  BY <1>2, BornKept, TruthfulKept DEF TruthInv

LEMMA TruthInit == SyncInit => TruthInv
<1> SUFFICES ASSUME SyncInit PROVE TruthInv
  OBVIOUS
<1>1. CalmInv
  BY CalmInit
<1>2. DOMAIN told = {}
  BY EmptyIsPartial DEF SyncInit
<1>3. KnownBorn
  BY <1>2 DEF SyncInit, KnownBorn, AsSet, NoChanges
<1>4. Truthful
  BY DEF SyncInit, Truthful, Answered
<1> QED
  BY <1>1, <1>3, <1>4 DEF TruthInv

-----------------------------------------------------------------------------
(* What the client believes of each target, having heard all that is on    *)
(* its way, is what the server told; and a token stands for what it holds. *)
Remembers ==
    /\ \A t \in DOMAIN resume : (t = 0 => intact)
          => AsSet(resume[t]) \intersect Scope(t) = RemoteKeys(t)
    /\ keys = synced
    /\ intact => keys \subseteq AsSet(token)

AddedAreNew ==
    \A t \in DOMAIN states : IsActive(t) =>
        \A d \in Scope(t) : states[t].changes[d] = "added"
                              => d \notin RemoteKeys(t) /\ updates[d] # "none"

Sane(t) ==
    t = 0 => intact /\ ~mismatch /\ CountsAgree(toClient, Accepted(0).changes, synced)
TunedAt(t) ==
    InTune(toClient, Accepted(t).changes, RemoteKeys(t), t, Scope(t), told[t].docs)
Follows == \A t \in DOMAIN resume : Answered(t) /\ Sane(t) => TunedAt(t)

FollowInv == TruthInv /\ Remembers /\ AddedAreNew /\ Follows

LEMMA FollowFacts ==
    ASSUME FollowInv
    PROVE  /\ TruthInv /\ CalmInv /\ WireInv /\ SyncInv /\ ChangesAreOfKnown /\ ActivesAre
           /\ Closed /\ Ordered(toClient) /\ Mismatched /\ AllAsked
           /\ Truthful /\ KnownBorn /\ Remembers /\ AddedAreNew /\ Follows
           /\ toClient \in Seq(ServerMessage) /\ synced \in SUBSET Doc
           /\ told \in Partial(Target, Served)
BY ActivesMean DEF FollowInv, TruthInv, CalmInv, WireInv, SyncInv, PlainTypeOK

LEMMA ScopeIsDocs ==
    ASSUME SyncInv, NEW t \in DOMAIN resume
    PROVE  /\ t \in Target /\ Scope(t) \in SUBSET Doc /\ RemoteKeys(t) \subseteq Scope(t)
           /\ (t # 0 <=> t \in DOMAIN active)
           /\ t # 0 => active[t].key \in Doc /\ Scope(t) = {active[t].key}
           /\ Accepted(t) \in TargetStates
<1>1. /\ active \in Partial(Target \ {0}, Resolution) /\ resume \in Partial(Target, Token)
      /\ DOMAIN resume = DOMAIN active \union {0} /\ synced \in SUBSET Doc
  BY InvFacts DEF SyncInv, PlainTypeOK
<1>2. t \in Target /\ (t # 0 <=> t \in DOMAIN active)
  BY <1>1, PartialFacts
<1>3. t # 0 => active[t].key \in Doc
  <2>1. t # 0 => active[t] \in Resolution
    BY <1>1, <1>2, PartialFacts
  <2> QED
    BY <2>1 DEF Resolution
<1>4. Accepted(t) \in TargetStates
  BY <1>2, AcceptedFacts
<1> QED
  BY <1>1, <1>2, <1>3, <1>4 DEF Scope, RemoteKeys

(* One message that is not a snapshot, for a target that awaits no answer. *)
LEMMA AckShifts ==
    ASSUME SyncInv, SyncInv', AllAsked, PlainStep(Head(toClient)),
           NEW t \in DOMAIN resume, Answered(t), Head(toClient) \in AckOf(t),
           Silent(Tail(toClient), AckOf(t)), NEW d \in Scope(t)
    PROVE  HoldsIn(Accepted(t)'.changes, RemoteKeys(t), d) <=> d \in RemoteKeys(t)
<1> DEFINE m == Head(toClient)
<1>1. /\ toClient # <<>> /\ toClient' = Tail(toClient) /\ resume' = resume
      /\ toServer' = toServer /\ AckTaken(m) /\ toClient \in Seq(ServerMessage)
  BY DEF PlainStep, syncVars, AckOf, SyncInv, PlainTypeOK
<1>2. ~Asks(toServer, t) /\ Told(t)
  BY DEF Answered, AllAsked, AskedFor
<1>3. IsActive(t)'
  BY <1>1, <1>2, ActivesMeanAfter DEF ActivesAre
<1>4. m.type # "removed"
  <2> SUFFICES ASSUME m.type = "removed" PROVE FALSE
    OBVIOUS
  <2>1. m \in Tells("removed", t)
    BY DEF AckOf, Tells
  <2>2. PICK k \in DOMAIN Tail(toClient) : Tail(toClient)[k] \in Tells("added", t)
    BY <1>1, <1>2, <2>1, FollowedTail DEF Told
  <2>3. Tail(toClient)[k] \in AckOf(t)
    BY <2>2 DEF Tells, AckOf, IsAck
  <2> QED
    BY <2>3 DEF Silent
<1>5. m.type = "added" /\ m.target = t
  BY <1>4 DEF AckOf, IsAck
<1>6. t \in DOMAIN states' /\ states'[t].changes = NoChanges
  BY <1>1, <1>3, <1>5 DEF AckTaken, IsActive
<1>7. Accepted(t)'.changes[d] = "none"
  <2>1. d \in Doc
    BY ScopeIsDocs
  <2> QED
    BY <1>6, <2>1 DEF Accepted, NoChanges
<1> QED
  BY <1>7 DEF HoldsIn

LEMMA PlainShifts ==
    ASSUME SyncInv, SyncInv', AllAsked, PlainStep(Head(toClient)),
           NEW t \in DOMAIN resume, Answered(t), t = 0 => ~mismatch', NEW d \in Scope(t)
    PROVE  Shifts(Head(toClient), Tail(toClient), Accepted(t).changes, Accepted(t)'.changes,
                  RemoteKeys(t), t, d)
<1> DEFINE m == Head(toClient)
           R == RemoteKeys(t)
<1>1. /\ toClient # <<>> /\ toClient' = Tail(toClient) /\ toClient \in Seq(ServerMessage)
      /\ m \in ServerMessage /\ Aside(m.target)
      /\ ~IsAck(m) => \A u : u = m.target /\ IsActive(u) => Mistaken(m) \/ TakenIn(m, u)
  BY DEF PlainStep, SyncInv, PlainTypeOK
<1> SUFFICES ASSUME Silent(Tail(toClient), AckOf(t))
             PROVE  HoldsIn(Accepted(t)'.changes, R, d)
                      <=> \/ m \in JoinsFor(t, d, R)
                          \/ HoldsIn(Accepted(t).changes, R, d) /\ m \notin LeavesFor(t, d, R)
  BY DEF Shifts
<1>2. CASE m.target # t
  <2>1. Accepted(t)' = Accepted(t)
    BY <1>1, <1>2 DEF Aside
  <2>2. m \notin JoinsFor(t, d, R) \union LeavesFor(t, d, R)
    BY <1>2, OthersAreMute
  <2> QED
    BY <2>1, <2>2 DEF HoldsIn
<1>3. CASE m.target = t /\ IsAck(m)
  <2>1. m \in AckOf(t)
    BY <1>1, <1>3 DEF AckOf
  <2>2. HoldsIn(Accepted(t)'.changes, R, d) <=> d \in R
    BY <2>1, AckShifts
  <2>3. m \in JoinsFor(t, d, R) <=> d \in R
    BY <1>1, <1>3 DEF JoinsFor, IsAck
  <2>4. m \in LeavesFor(t, d, R) <=> d \notin R
    BY <1>1, <1>3 DEF LeavesFor, IsAck
  <2> QED
    BY <2>2, <2>3, <2>4
<1>4. CASE m.target = t /\ ~IsAck(m)
  <2>1. m \notin AckOf(t)
    BY <1>4 DEF AckOf
  <2>2. Silent(toClient, AckOf(t))
    BY <1>1, <2>1, SilentTail
  <2>3. IsActive(t)
    BY <2>2, ActivesMean DEF ActivesAre, Answered
  <2>4. ~Mistaken(m)
    BY <1>4 DEF Mistaken
  <2>5. TakenIn(m, t)
    BY <1>1, <1>4, <2>3, <2>4
  <2>6. Accepted(t)'.changes[d] = ChangedTo(m, t, d, R, Accepted(t).changes[d])
    BY <2>5 DEF TakenIn
  <2>7. m \in LeavesFor(t, d, R) => m \notin JoinsFor(t, d, R)
    BY <1>4 DEF LeavesFor, JoinsFor
  <2> DEFINE was == Accepted(t).changes
             is == Accepted(t)'.changes
             leaves == m \in LeavesFor(t, d, R)
             joins == m \in JoinsFor(t, d, R)
  <2>8. is[d] = IF leaves THEN IF d \in R THEN "removed" ELSE "none"
                ELSE IF joins THEN IF d \in R THEN "modified" ELSE "added" ELSE was[d]
    BY <2>6 DEF ChangedTo
  <2>9. leaves => ~joins
    BY <2>7
  <2> HIDE DEF was, is, leaves, joins, R
  <2>10. HoldsIn(is, R, d) <=> joins \/ (HoldsIn(was, R, d) /\ ~leaves)
    BY <2>8, <2>9 DEF HoldsIn
  <2> QED
    BY <2>10 DEF was, is, leaves, joins
<1> QED
  BY <1>2, <1>3, <1>4

(* The number an existence filter is compared with is that of the          *)
(* documents the client believes to match.                                 *)
LEMMA CountIsOfHeld ==
    ASSUME NEW known \in SUBSET Doc, NEW changes \in [Doc -> Change],
           \A d \in Doc : changes[d] \in {"modified", "removed"} => d \in known,
           \A d \in Doc : changes[d] = "added" => d \notin known
    PROVE  LET added == {d \in Doc : changes[d] = "added"}
               removed == {d \in Doc : changes[d] = "removed"}
           IN  /\ Cardinality(known) + Cardinality(added) - Cardinality(removed)
                    = Cardinality({d \in Doc : HoldsIn(changes, known, d)})
               /\ {d \in Doc : HoldsIn(changes, known, d)} = (known \ removed) \union added
<1> DEFINE added == {d \in Doc : changes[d] = "added"}
           removed == {d \in Doc : changes[d] = "removed"}
           held == {d \in Doc : HoldsIn(changes, known, d)}
           kept == known \ removed
<1>1. \A d \in Doc : changes[d] \in {"none", "added", "modified", "removed"}
  BY DEF Change
<1>2. held = kept \union added /\ removed \subseteq known /\ kept \intersect added = {}
  BY <1>1 DEF HoldsIn
<1>3. IsFiniteSet(Doc)
  <2>1. 1 \in Int /\ NumDocs \in Int
    BY WatchSyncAssumption
  <2> QED
    BY <2>1, FS_Interval DEF Doc
<1>4. known \subseteq Doc /\ added \subseteq Doc /\ removed \subseteq Doc
  OBVIOUS
<1> HIDE DEF added, removed, held, kept
<1>5. IsFiniteSet(known) /\ IsFiniteSet(added) /\ IsFiniteSet(removed)
  BY <1>3, <1>4, FS_Subset
<1>6. /\ IsFiniteSet(kept)
      /\ Cardinality(known) \in Nat /\ Cardinality(added) \in Nat
      /\ Cardinality(removed) \in Nat /\ Cardinality(kept) \in Nat
  BY <1>5, FS_Difference, FS_CardinalityType DEF kept
<1>7. Cardinality(kept) = Cardinality(known) - Cardinality(removed)
  <2>1. known \intersect removed = removed
    BY <1>2
  <2> QED
    BY <1>5, <2>1, FS_Difference DEF kept
<1>8. Cardinality(held) = Cardinality(kept) + Cardinality(added)
  <2>1. Cardinality({}) = 0
    BY FS_EmptySet
  <2>2. Cardinality(held) = Cardinality(kept) + Cardinality(added) - Cardinality({})
    BY <1>2, <1>5, <1>6, FS_Union
  <2> QED
    BY <1>6, <2>1, <2>2
<1>9. Cardinality(known) + Cardinality(added) - Cardinality(removed) = Cardinality(held)
  BY <1>6, <1>7, <1>8
<1> QED
  BY <1>2, <1>9 DEF added, removed, held, kept

LEMMA ChangesFacts ==
    ASSUME FollowInv, NEW t, IsActive(t)
    PROVE  /\ t \in DOMAIN resume /\ Accepted(t).changes \in [Doc -> Change]
           /\ \A d \in Doc : Accepted(t).changes[d] \in {"modified", "removed"}
                             => d \in RemoteKeys(t)
           /\ \A d \in Scope(t) : Accepted(t).changes[d] = "added"
                             => d \notin RemoteKeys(t) /\ updates[d] # "none"
<1>1. SyncInv /\ AddedAreNew /\ t \in DOMAIN resume
  BY FollowFacts DEF IsActive
<1>2. Accepted(t) \in TargetStates /\ Scope(t) \in SUBSET Doc
  BY <1>1, ScopeIsDocs
<1>3. Accepted(t).changes \in [Doc -> Change]
  BY <1>2 DEF TargetStates
<1>4. KnownChanges(Accepted(t), t)
  BY <1>1, AcceptedIsKnown
<1>5. ASSUME NEW d \in Scope(t), Accepted(t).changes[d] = "added"
      PROVE  d \notin RemoteKeys(t) /\ updates[d] # "none"
  <2>1. CASE t \in DOMAIN states
    BY <1>1, <1>5, <2>1 DEF AddedAreNew, Accepted
  <2>2. CASE t \notin DOMAIN states
    BY <1>2, <1>5, <2>2 DEF Accepted, Fresh, NoChanges
  <2> QED
    BY <2>1, <2>2
<1> QED
  BY <1>1, <1>3, <1>4, <1>5 DEF KnownChanges

LEMMA FollowsPlain ==
    ASSUME FollowInv, SyncInv', PlainStep(Head(toClient))
    PROVE  Follows'
<1> DEFINE m == Head(toClient)
<1>1. /\ toClient # <<>> /\ toClient' = Tail(toClient) /\ m \in ServerMessage
      /\ UNCHANGED <<resume, active, synced, toServer, open, told, intact>>
      /\ ~IsAck(m) => \A u : u = m.target /\ IsActive(u) => Mistaken(m) \/ TakenIn(m, u)
      /\ ~IsAck(m) /\ ~IsActive(m.target) => UNCHANGED mismatch
      /\ IsAck(m) => UNCHANGED mismatch
  BY DEF PlainStep, syncVars, viewVars, AckTaken, aggregatorVars
<1>2. /\ SyncInv /\ AllAsked /\ Follows /\ AddedAreNew /\ ChangesAreOfKnown
      /\ toClient \in Seq(ServerMessage) /\ ActivesAre /\ synced \in SUBSET Doc
  BY FollowFacts
<1> SUFFICES ASSUME NEW t \in DOMAIN resume, Answered(t), Sane(t)' PROVE TunedAt(t)'
  BY <1>1 DEF Follows, Answered
<1>3. t = 0 => intact /\ ~mismatch'
               /\ CountsAgree(Tail(toClient), Accepted(0)'.changes, synced)
  BY <1>1 DEF Sane
<1>4. \A d \in Scope(t) : Shifts(m, Tail(toClient), Accepted(t).changes, Accepted(t)'.changes,
                                 RemoteKeys(t), t, d)
  BY <1>2, <1>3, PlainShifts
<1>5. ~mismatch' => ~mismatch
  <2>1. ASSUME ~IsAck(m), IsActive(m.target) PROVE mismatch' = TRUE \/ mismatch' = mismatch
    BY <1>1, <2>1 DEF Mistaken, TakenIn
  <2> QED
    BY <1>1, <2>1
<1>6. ASSUME t = 0 PROVE CountsAgree(toClient, Accepted(0).changes, synced)
  <2> DEFINE held == {d \in Doc : HoldsIn(Accepted(0).changes, synced, d)}
  <2>1. Scope(0) = Doc /\ RemoteKeys(0) = synced
    BY DEF Scope, RemoteKeys
  <2>2. ASSUME m \in Tells("filter", 0), Silent(Tail(toClient), AckOf(0))
        PROVE  m.count = Cardinality(held)
    <3>1. m.type = "filter" /\ m.target = 0 /\ ~IsAck(m)
      BY <2>2 DEF Tells, IsAck
    <3>2. m \notin AckOf(0)
      BY <3>1 DEF AckOf
    <3>3. IsActive(0)
      BY <1>1, <1>2, <1>6, <2>2, <3>2, SilentTail DEF ActivesAre, Answered
    <3>4. TakenIn(m, 0)
      BY <1>1, <1>3, <1>6, <3>1, <3>3 DEF Mistaken
    <3>5. CountsWell(m.count)
      BY <3>1, <3>4 DEF TakenIn
    <3>6. /\ Accepted(0).changes \in [Doc -> Change]
          /\ \A d \in Doc : Accepted(0).changes[d] \in {"modified", "removed"} => d \in synced
          /\ \A d \in Doc : Accepted(0).changes[d] = "added" => d \notin synced
      BY <2>1, <3>3, ChangesFacts
    <3>7. Cardinality(synced) + Cardinality(AddedTo(Accepted(0)))
            - Cardinality(RemovedFrom(Accepted(0))) = Cardinality(held)
      BY <1>2, <3>6, CountIsOfHeld DEF AddedTo, RemovedFrom
    <3> QED
      BY <3>5, <3>7 DEF CountsWell
  <2>3. \A d \in Doc : Shifts(m, Tail(toClient), Accepted(0).changes, Accepted(0)'.changes,
                              synced, 0, d)
    BY <1>4, <1>6, <2>1
  <2>4. CountsAgree(Tail(toClient), Accepted(0)'.changes, synced)
    BY <1>3, <1>6
  <2> QED
    BY <1>1, <1>2, <2>2, <2>3, <2>4, CountsTail
<1>7. Sane(t)
  BY <1>3, <1>5, <1>6 DEF Sane
<1>8. TunedAt(t)
  BY <1>2, <1>7 DEF Follows
<1>9. InTune(Tail(toClient), Accepted(t)'.changes, RemoteKeys(t), t, Scope(t), told[t].docs)
  BY <1>1, <1>2, <1>4, <1>8, TuneTail DEF TunedAt
<1>10. RemoteKeys(t)' = RemoteKeys(t) /\ Scope(t)' = Scope(t) /\ told' = told
  BY <1>1 DEF RemoteKeys, Scope
<1> QED
  BY <1>1, <1>9, <1>10 DEF TunedAt

-----------------------------------------------------------------------------
(* What a snapshot does to a target whose changes it takes. *)
LEMMA NoFilterAhead ==
    ASSUME NEW list \in Seq(ServerMessage), list # <<>>, Ordered(list),
           Head(list).type = "snapshot", Silent(list, AckOf(0)), NEW changes, NEW R
    PROVE  CountsAgree(list, changes, R)
<1>1. 1 \in DOMAIN list /\ Head(list) = list[1] /\ DOMAIN list = 1 .. Len(list)
      /\ Len(list) \in Nat /\ Head(list) \in ServerMessage
  BY TailParts
<1>2. list[1] \in Typed("snapshot")
  BY <1>1 DEF Typed
<1> SUFFICES ASSUME NEW i \in DOMAIN list, list[i] \in Tells("filter", 0) PROVE FALSE
  BY DEF CountsAgree
<1>3. i # 1
  BY <1>1 DEF Tells
<1>4. Parted(list, Typed("snapshot"), Tells("filter", 0), AckOf(0))
  BY DEF Ordered
<1>5. PICK n \in DOMAIN list : list[n] \in AckOf(0)
  BY <1>1, <1>2, <1>3, <1>4 DEF Parted
<1> QED
  BY <1>5 DEF Silent

LEMMA RaisedIsSane ==
    ASSUME FollowInv, toClient # <<>>, Head(toClient).type = "snapshot", NEW t, IsActive(t),
           t = 0 => intact /\ ~mismatch
    PROVE  t \in DOMAIN resume /\ Answered(t) /\ Sane(t) /\ TunedAt(t)
           /\ Silent(toClient, AckOf(t))
<1>1. SyncInv /\ ActivesAre /\ Ordered(toClient) /\ toClient \in Seq(ServerMessage) /\ Follows
      /\ CalmInv /\ Truthful
  BY FollowFacts
<1>2. t \in DOMAIN resume /\ Answered(t)
  BY <1>1, FirstIsTrue
<1>3. Silent(toClient, AckOf(t))
  BY <1>1, <1>2 DEF ActivesAre
<1>4. t = 0 => CountsAgree(toClient, Accepted(0).changes, synced)
  BY <1>1, <1>3, NoFilterAhead
<1>5. Sane(t)
  BY <1>4 DEF Sane
<1> QED
  BY <1>1, <1>2, <1>3, <1>5 DEF Follows

LEMMA HeldThen ==
    ASSUME FollowInv, SyncInv', NEW known, NEW saved, SnapshotStep(known, saved),
           NEW t \in Raised, t = 0 \/ TargetRaised(t, known), NEW d \in Scope(t)
    PROVE  d \in RemoteKeys(t)' <=> HoldsIn(Accepted(t).changes, RemoteKeys(t), d)
<1>1. SyncInv /\ IsActive(t) /\ t \in DOMAIN states
  BY FollowFacts DEF Raised
<1>2. /\ t \in DOMAIN resume /\ Accepted(t).changes \in [Doc -> Change]
      /\ \A e \in Doc : Accepted(t).changes[e] \in {"modified", "removed"} => e \in RemoteKeys(t)
      /\ \A e \in Scope(t) : Accepted(t).changes[e] = "added" => e \notin RemoteKeys(t)
  BY <1>1, ChangesFacts
<1>3. Accepted(t) = states[t] /\ d \in Doc
  BY <1>1, <1>2, ScopeIsDocs DEF Accepted
<1>4. CASE t = 0
  <2>1. synced' = (synced \ RemovedFrom(Accepted(0))) \union AddedTo(Accepted(0))
    BY <1>4 DEF SnapshotStep, KnownThen
  <2>2. RemoteKeys(t)' = synced' /\ RemoteKeys(t) = synced /\ Scope(t) = Doc
    BY <1>4 DEF RemoteKeys, Scope
  <2>3. {e \in Doc : HoldsIn(Accepted(0).changes, synced, e)}
          = (synced \ RemovedFrom(Accepted(0))) \union AddedTo(Accepted(0))
    <3> DEFINE changes == Accepted(t).changes
    <3>1. synced \in SUBSET Doc /\ changes \in [Doc -> Change]
      BY <1>2, <1>4, FollowFacts
    <3>2. \A e \in Doc : changes[e] \in {"modified", "removed"} => e \in synced
      BY <1>2, <1>4, <2>2
    <3>3. \A e \in Doc : changes[e] = "added" => e \notin synced
      BY <1>2, <1>4, <2>2
    <3> HIDE DEF changes
    <3>4. {e \in Doc : HoldsIn(changes, synced, e)}
            = (synced \ {e \in Doc : changes[e] = "removed"})
                 \union {e \in Doc : changes[e] = "added"}
      BY <3>1, <3>2, <3>3, CountIsOfHeld
    <3> QED
      BY <1>4, <3>4 DEF AddedTo, RemovedFrom, changes
  <2> QED
    BY <1>3, <1>4, <2>1, <2>2, <2>3
<1>5. CASE t # 0
  <2>1. t \in DOMAIN active /\ active[t].key = d
    BY <1>1, <1>2, <1>5, ScopeIsDocs
  <2>2. t \in DOMAIN resume' /\ t \in DOMAIN active'
    BY <1>5, InvFactsAfter DEF TargetRaised
  <2>3. /\ active'[t].key = d
        /\ active'[t].received <=> IF active[t].received THEN states[t].changes[d] # "removed"
                                   ELSE states[t].changes[d] = "added"
    BY <1>5, <2>1 DEF TargetRaised
  <2>4. d \in RemoteKeys(t) <=> active[t].received
    BY <1>5, <2>1 DEF RemoteKeys
  <2>5. d \in RemoteKeys(t)' <=> active'[t].received
    BY <1>5, <2>2, <2>3 DEF RemoteKeys
  <2>6. states[t].changes[d] \in {"none", "added", "modified", "removed"}
    BY <1>2, <1>3 DEF Change
  <2>7. states[t].changes[d] \in {"modified", "removed"} => d \in RemoteKeys(t)
    BY <1>2, <1>3
  <2> QED
    BY <1>3, <2>3, <2>4, <2>5, <2>6, <2>7 DEF HoldsIn
<1> QED
  BY <1>4, <1>5

LEMMA ScopeKept ==
    ASSUME SyncInv, SyncInv', NEW t, \/ TargetKept(t)
                                     \/ \E known : TargetRaised(t, known)
    PROVE  Scope(t)' = Scope(t)
BY DEF Scope, TargetKept, TargetRaised

(* After the snapshot an active target holds what the snapshot says. *)
LEMMA RaisedTunes ==
    ASSUME FollowInv, SyncInv', NEW known, NEW saved, SnapshotStep(known, saved),
           NEW t \in Raised, TargetRaised(t, known), t = 0 => intact /\ ~mismatch
    PROVE  /\ TunedAt(t)'
           /\ \A d \in Scope(t) : d \in RemoteKeys(t)' <=> d \in known
<1>1. /\ toClient # <<>> /\ Head(toClient).type = "snapshot" /\ known = Head(toClient).token
      /\ toClient' = Tail(toClient) /\ told' = told
  BY DEF SnapshotStep
<1>2. SyncInv /\ toClient \in Seq(ServerMessage) /\ IsActive(t)
  BY FollowFacts DEF Raised
<1>3. t \in DOMAIN resume /\ TunedAt(t) /\ Silent(toClient, AckOf(t))
  BY <1>1, <1>2, RaisedIsSane
<1>4. Scope(t) \in SUBSET Doc
  BY <1>2, <1>3, ScopeIsDocs
<1>5. Accepted(t)'.changes = NoChanges
  BY DEF TargetRaised, Accepted
<1>6. \A d \in Scope(t) : HoldsIn(NoChanges, RemoteKeys(t)', d) <=> d \in RemoteKeys(t)'
  BY <1>4 DEF HoldsIn, NoChanges
<1>7. \A d \in Scope(t) : HoldsIn(NoChanges, RemoteKeys(t)', d)
                            <=> HoldsIn(Accepted(t).changes, RemoteKeys(t), d)
  BY <1>6, HeldThen
<1>8. /\ InTune(Tail(toClient), NoChanges, RemoteKeys(t)', t, Scope(t), told[t].docs)
      /\ \A d \in Scope(t) : HoldsIn(NoChanges, RemoteKeys(t)', d) <=> d \in Head(toClient).token
  <2> DEFINE R2 == RemoteKeys(t)'
             changes == Accepted(t).changes
             docs == told[t].docs
  <2>1. InTune(toClient, changes, RemoteKeys(t), t, Scope(t), docs)
    BY <1>3 DEF TunedAt
  <2>2. \A d \in Scope(t) : HoldsIn(NoChanges, R2, d) <=> HoldsIn(changes, RemoteKeys(t), d)
    BY <1>7
  <2> HIDE DEF R2, changes, docs
  <2>3. InTune(Tail(toClient), NoChanges, R2, t, Scope(t), docs)
    BY <1>1, <1>2, <1>3, <2>1, <2>2, TuneRaised
  <2>4. \A d \in Scope(t) : HoldsIn(NoChanges, R2, d) <=> d \in Head(toClient).token
    BY <1>1, <1>2, <1>3, <2>1, <2>2, TuneRaised
  <2> QED
    BY <2>3, <2>4 DEF R2, docs
<1>9. Scope(t)' = Scope(t)
  BY <1>2, ScopeKept
<1> QED
  BY <1>1, <1>5, <1>6, <1>8, <1>9 DEF TunedAt

LEMMA KeysKept ==
    ASSUME SyncInv, SyncInv', NEW t, TargetKept(t), t = 0 => synced' = synced
    PROVE  RemoteKeys(t)' = RemoteKeys(t) /\ Scope(t)' = Scope(t)
           /\ Accepted(t)' = Accepted(t)
<1>1. DOMAIN resume = DOMAIN active \union {0} /\ DOMAIN resume' = DOMAIN active' \union {0}
  BY InvFacts, InvFactsAfter
<1>2. t \in DOMAIN resume /\ t \in DOMAIN resume' /\ (t # 0 => active'[t] = active[t])
      /\ Accepted(t)' = Accepted(t)
  BY DEF TargetKept
<1>3. t # 0 => t \in DOMAIN active /\ t \in DOMAIN active'
  BY <1>1, <1>2
<1> QED
  BY <1>2, <1>3 DEF RemoteKeys, Scope

(* And one whose changes it does not take believes what it did. *)
LEMMA UnraisedTunes ==
    ASSUME FollowInv, SyncInv', NEW known, NEW saved, SnapshotStep(known, saved),
           NEW t, t \notin Raised, TargetKept(t), Answered(t), Sane(t)', ~(t = 0 /\ mismatch)
    PROVE  TunedAt(t)'
<1>1. /\ toClient # <<>> /\ Head(toClient).type = "snapshot" /\ told' = told
      /\ toClient' = Tail(toClient) /\ intact' = intact
      /\ t = 0 => synced' = synced
  BY DEF SnapshotStep, KnownThen
<1>2. SyncInv /\ toClient \in Seq(ServerMessage) /\ Follows /\ t \in DOMAIN resume
  BY FollowFacts DEF TargetKept
<1>3. RemoteKeys(t)' = RemoteKeys(t) /\ Scope(t)' = Scope(t) /\ Accepted(t)' = Accepted(t)
  BY <1>1, <1>2, KeysKept
<1>4. ASSUME NEW d
      PROVE  Shifts(Head(toClient), Tail(toClient), Accepted(t).changes, Accepted(t)'.changes,
                    RemoteKeys(t), t, d)
  <2>1. Head(toClient) \notin JoinsFor(t, d, RemoteKeys(t)) \union LeavesFor(t, d, RemoteKeys(t))
    BY <1>1, OthersAreMute
  <2> QED
    BY <1>3, <2>1 DEF Shifts
<1>5. ASSUME t = 0 PROVE CountsAgree(toClient, Accepted(0).changes, synced)
  <2>1. CountsAgree(Tail(toClient), Accepted(0)'.changes, synced)
    BY <1>1, <1>5 DEF Sane
  <2>2. Head(toClient) \notin Tells("filter", 0)
    BY <1>1 DEF Tells
  <2>3. RemoteKeys(0) = synced
    BY DEF RemoteKeys
  <2>4. \A d \in Doc : Shifts(Head(toClient), Tail(toClient), Accepted(0).changes,
                              Accepted(0)'.changes, synced, 0, d)
    BY <1>4, <1>5, <2>3
  <2> QED
    BY <1>1, <1>2, <2>1, <2>2, <2>4, CountsTail
<1>6. Sane(t)
  BY <1>1, <1>5 DEF Sane
<1>7. TunedAt(t)
  BY <1>2, <1>6 DEF Follows
<1>8. InTune(Tail(toClient), Accepted(t)'.changes, RemoteKeys(t), t, Scope(t), told[t].docs)
  BY <1>1, <1>2, <1>4, <1>7, TuneTail DEF TunedAt
<1> QED
  BY <1>1, <1>3, <1>8 DEF TunedAt

LEMMA FollowsSnapshot ==
    ASSUME FollowInv, SyncInv', SnapshotTaken
    PROVE  Follows'
<1>1. PICK known, saved : SnapshotStep(known, saved)
  BY SnapshotTakenMeans
<1>2. toClient # <<>> /\ open' = open /\ intact' = intact
  BY <1>1 DEF SnapshotStep
<1>3. SyncInv /\ open
  BY <1>2, FollowFacts, ReceiverIsOpen
<1> SUFFICES ASSUME NEW t \in DOMAIN resume', Answered(t)', Sane(t)' PROVE TunedAt(t)'
  BY DEF Follows
<1>4. ~TargetBegun(t)
  BY <1>3, BegunIsAsked DEF Answered
<1>5. SettledTarget(t, known) /\ ~(t = 0 /\ mismatch)
  BY <1>1, <1>4 DEF SnapshotStep
<1>6. Answered(t)
  BY <1>3, <1>5 DEF Answered, SettledTarget, TargetKept, TargetRaised
<1>7. CASE t \in Raised
  <2>1. TargetRaised(t, known) /\ (t = 0 => intact /\ ~mismatch)
    BY <1>2, <1>5, <1>7 DEF SettledTarget, Sane
  <2> QED
    BY <1>1, <1>7, <2>1, RaisedTunes
<1>8. CASE t \notin Raised
  <2>1. TargetKept(t)
    BY <1>5, <1>8 DEF SettledTarget
  <2> QED
    BY <1>1, <1>5, <1>6, <1>8, <2>1, UnraisedTunes
<1> QED
  BY <1>7, <1>8

LEMMA FollowsWritten ==
    ASSUME FollowInv, SyncInv', Written
    PROVE  Follows'
<1>1. ViewStep /\ UNCHANGED <<toClient, open, told, intact, mismatch, synced>>
  BY DEF Written, ViewStep
<1>2. SyncInv /\ Follows
  BY FollowFacts
<1> SUFFICES ASSUME NEW t \in DOMAIN resume', Answered(t)', Sane(t)' PROVE TunedAt(t)'
  BY DEF Follows
<1>3. open
  BY <1>1 DEF Answered
<1>4. TargetKept(t) /\ TargetKept(0)
  BY <1>1, <1>3, BegunIsAsked DEF Answered, ViewStep
<1>5. RemoteKeys(t)' = RemoteKeys(t) /\ Scope(t)' = Scope(t) /\ Accepted(t)' = Accepted(t)
  BY <1>1, <1>2, <1>4, KeysKept
<1>6. Accepted(0)' = Accepted(0)
  BY <1>4 DEF TargetKept
<1>7. Answered(t) /\ t \in DOMAIN resume
  BY <1>3, <1>4 DEF Answered, TargetKept
<1>8. Sane(t)
  BY <1>1, <1>6 DEF Sane
<1>9. TunedAt(t)
  BY <1>2, <1>7, <1>8 DEF Follows
<1> QED
  BY <1>1, <1>5, <1>9 DEF TunedAt

-----------------------------------------------------------------------------
(* What the server adds. *)
LEMMA TuneIgnores ==
    ASSUME NEW list \in Seq(ServerMessage), NEW m \in ServerMessage, m.type # "snapshot", NEW t,
           m.target # t, NEW changes, NEW R, NEW S, NEW docs,
           InTune(list, changes, R, t, S, docs)
    PROVE  InTune(list \o <<m>>, changes, R, t, S, docs)
<1> DEFINE new == list \o <<m>>
<1>1. <<m>> \in Seq(ServerMessage) /\ DOMAIN <<m>> = {1} /\ <<m>>[1] = m /\ Len(<<m>>) = 1
  BY OneMessage
<1>2. /\ new \in Seq(ServerMessage) /\ Len(list) \in Nat /\ Len(new) = Len(list) + 1
      /\ DOMAIN list = 1 .. Len(list) /\ DOMAIN new = 1 .. Len(list) + 1
      /\ \A i \in 1 .. Len(list) : new[i] = list[i]
      /\ \A i \in 1 .. Len(list) + 1 : i \notin 1 .. Len(list)
           => i - Len(list) \in 1 .. 1 /\ new[i] = <<m>>[i - Len(list)]
  BY <1>1, JoinParts
<1>3. \A d : m \notin JoinsFor(t, d, R) \union LeavesFor(t, d, R)
  BY OthersAreMute
<1>4. ASSUME NEW d \in S, NEW j \in DOMAIN new, new[j].type = "snapshot",
             Last(new, AckOf(t), j)
      PROVE  Believes(new, changes, R, t, d, j) <=> d \in new[j].token
  <2>1. j \in 1 .. Len(list)
    <3>1. ASSUME j \notin 1 .. Len(list) PROVE FALSE
      <4>1. new[j] = m
        BY <1>1, <1>2, <3>1
      <4> QED
        BY <1>4, <4>1
    <3> QED
      BY <3>1
  <2>2. new[j] = list[j] /\ Last(list, AckOf(t), j)
    BY <1>1, <1>2, <1>4, <2>1, LastLonger
  <2>3. Believes(list, changes, R, t, d, j) <=> d \in list[j].token
    BY <1>2, <1>4, <2>1, <2>2 DEF InTune
  <2>4. j \in 0 .. Len(list)
    BY <1>2, <2>1
  <2>5. Believes(new, changes, R, t, d, j) <=> Believes(list, changes, R, t, d, j)
    BY <1>1, <2>4, LatelyPrefix DEF Believes
  <2> QED
    BY <2>2, <2>3, <2>5
<1>5. ASSUME NEW d \in S
      PROVE  Believes(new, changes, R, t, d, Len(new)) <=> d \in docs
  <2> DEFINE On == JoinsFor(t, d, R)
             Off == LeavesFor(t, d, R)
             was == HoldsIn(changes, R, d)
             held == Lately(list, was, On, Off, Len(list))
  <2>1. held <=> d \in docs
    BY <1>5 DEF InTune, Believes
  <2>2. m \notin On /\ m \notin Off
    BY <1>3
  <2> HIDE DEF On, Off, was
  <2>3. 1 \in 0 .. Len(<<m>>)
    BY <1>1
  <2>4. Lately(new, was, On, Off, Len(list) + 1) <=> Lately(<<m>>, held, On, Off, 1)
    BY <1>1, <2>3, LatelyJoined
  <2>5. Lately(<<m>>, held, On, Off, 1) <=> held
    BY <1>1, <2>2, LatelyOne
  <2>6. Lately(new, was, On, Off, Len(new)) <=> d \in docs
    BY <1>2, <2>1, <2>4, <2>5
  <2> QED
    BY <2>6 DEF Believes, On, Off, was
<1> QED
  BY <1>4, <1>5 DEF InTune

LEMMA RestsMean ==
    ASSUME ServerRests, NEW t
    PROVE  /\ RemoteKeys(t)' = RemoteKeys(t) /\ Scope(t)' = Scope(t)
           /\ Accepted(t)' = Accepted(t)
BY DEF ServerRests, RemoteKeys, Scope, Accepted

LEMMA FollowsOthers ==
    ASSUME FollowInv, ServerStep, NEW t \in DOMAIN resume, Answered(t), Sane(t)',
           NEW intro, NEW served, OthersServed(t, intro, served)
    PROVE  TunedAt(t)'
<1>1. /\ SyncInv /\ Follows /\ AllAsked /\ toClient \in Seq(ServerMessage)
  BY FollowFacts
<1>2. /\ ServerRests /\ intact' = intact /\ mismatch' = mismatch /\ synced' = synced
  BY DEF ServerStep, ServerRests
<1>3. /\ intro \in Seq(ServerMessage) /\ served \in Partial(Target, Served)
      /\ t \in DOMAIN told /\ t \in DOMAIN served /\ served[t] = told[t]
      /\ Silent(intro, Typed("snapshot"))
      /\ \A i \in DOMAIN intro : intro[i].target # t
      /\ toClient' = toClient \o (intro \o News(served)) /\ told' = UpToDate(served)
  BY DEF OthersServed
<1>4. RemoteKeys(t)' = RemoteKeys(t) /\ Scope(t)' = Scope(t) /\ Accepted(t)' = Accepted(t)
  BY <1>2, RestsMean
<1> DEFINE more == intro \o News(served)
<1>5. more \in Seq(ServerMessage) /\ NewsOnly(more, served, t)
  BY <1>3, ServedNews
<1>6. Silent(more, AckOf(t))
  <2> SUFFICES ASSUME NEW i \in DOMAIN more, more[i] \in AckOf(t) PROVE FALSE
    BY DEF Silent
  <2>1. more[i].type # "snapshot" /\ more[i].target = t /\ IsAck(more[i])
    BY DEF AckOf, IsAck
  <2>2. more[i] = Tell(served, t)
    BY <1>5, <2>1 DEF NewsOnly
  <2> QED
    BY <1>3, <2>1, <2>2, TellFacts
<1> HIDE DEF more
<1>7. ASSUME t = 0 PROVE CountsAgree(toClient, Accepted(0).changes, synced)
  <2>1. CountsAgree(toClient \o more, Accepted(0).changes, synced)
    BY <1>2, <1>3, <1>4, <1>7 DEF Sane, more
  <2> QED
    BY <1>1, <1>5, <1>6, <1>7, <2>1, CountsExtended
<1>8. Sane(t)
  BY <1>2, <1>7 DEF Sane
<1>9. TunedAt(t) /\ told[t].scope = Scope(t)
  BY <1>1, <1>8 DEF Follows, Answered, AllAsked, AskedFor, Told
<1>10. InTune(toClient \o (intro \o News(served)), Accepted(t).changes, RemoteKeys(t), t,
              Scope(t), UpToDate(served)[t].docs)
  <2> DEFINE changes == Accepted(t).changes
  <2>1. InTune(toClient, changes, RemoteKeys(t), t, Scope(t), served[t].docs)
    BY <1>3, <1>9 DEF TunedAt
  <2>2. Scope(t) = served[t].scope
    BY <1>3, <1>9
  <2> HIDE DEF changes
  <2>3. InTune(toClient \o (intro \o News(served)), changes, RemoteKeys(t), t, Scope(t),
               UpToDate(served)[t].docs)
    BY <1>1, <1>3, <2>1, <2>2, TuneExtended
  <2> QED
    BY <2>3 DEF changes
<1> QED
  BY <1>3, <1>4, <1>10 DEF TunedAt

LEMMA FollowsDropped ==
    ASSUME FollowInv, ServerStep, NEW t \in DOMAIN resume, Answered(t), Sane(t)',
           NEW m, OtherDropped(t, m)
    PROVE  TunedAt(t)'
<1>1. /\ SyncInv /\ Follows /\ toClient \in Seq(ServerMessage)
  BY FollowFacts
<1>2. /\ ServerRests /\ intact' = intact /\ mismatch' = mismatch /\ synced' = synced
  BY DEF ServerStep, ServerRests
<1>3. /\ m \in ServerMessage /\ m.type = "removed" /\ m.target # t
      /\ told'[t] = told[t] /\ toClient' = toClient \o <<m>>
  BY DEF OtherDropped
<1>4. RemoteKeys(t)' = RemoteKeys(t) /\ Scope(t)' = Scope(t) /\ Accepted(t)' = Accepted(t)
  BY <1>2, RestsMean
<1>5. <<m>> \in Seq(ServerMessage) /\ Silent(<<m>>, AckOf(t))
  <2>1. <<m>> \in Seq(ServerMessage) /\ DOMAIN <<m>> = {1} /\ <<m>>[1] = m
    BY <1>3, OneMessage
  <2> QED
    BY <1>3, <2>1 DEF Silent, AckOf
<1>6. ASSUME t = 0 PROVE CountsAgree(toClient, Accepted(0).changes, synced)
  <2>1. CountsAgree(toClient \o <<m>>, Accepted(0).changes, synced)
    BY <1>2, <1>3, <1>4, <1>6 DEF Sane
  <2> QED
    BY <1>1, <1>5, <1>6, <2>1, CountsExtended
<1>7. Sane(t)
  BY <1>2, <1>6 DEF Sane
<1>8. TunedAt(t)
  BY <1>1, <1>7 DEF Follows
<1>9. InTune(toClient \o <<m>>, Accepted(t).changes, RemoteKeys(t), t, Scope(t), told[t].docs)
  BY <1>1, <1>3, <1>8, TuneIgnores DEF TunedAt
<1> QED
  BY <1>3, <1>4, <1>9 DEF TunedAt

LEMMA RequestIsAimed ==
    ASSUME SyncInv, NEW t \in DOMAIN resume
    PROVE  Aimed(WatchFor(Book, t))
<1>1. WatchFor(Book, t).target = t /\ WatchFor(Book, t).scope = Scope(t)
  BY WatchForFacts
<1>2. t # 0 => active[t].key \in Doc /\ Scope(t) = {active[t].key}
  BY ScopeIsDocs
<1> QED
  BY <1>1, <1>2 DEF Aimed, Scope

LEMMA RequestStands ==
    ASSUME SyncInv, Remembers, NEW t \in DOMAIN resume, t = 0 => intact
    PROVE  StandsFor(WatchFor(Book, t), RemoteKeys(t))
<1>1. WatchFor(Book, t).token = resume[t] /\ WatchFor(Book, t).scope = Scope(t)
  BY WatchForFacts
<1>2. AsSet(resume[t]) \intersect Scope(t) = RemoteKeys(t)
  BY DEF Remembers
<1> QED
  BY <1>1, <1>2 DEF StandsFor, AsSet

LEMMA FollowsAnswered ==
    ASSUME FollowInv, ServerStep, NEW t \in DOMAIN resume, Sane(t)',
           NEW deletions \in BOOLEAN, NEW filter \in BOOLEAN, NEW early \in BOOLEAN,
           NEW reset \in BOOLEAN, AnsweredNow(t, deletions, filter, early, reset)
    PROVE  TunedAt(t)'
<1> DEFINE r == WatchFor(Book, t)
           more == Answer(r, deletions, filter, early, reset) \o News(ServedThen(r))
<1>1. /\ SyncInv /\ Remembers /\ toClient \in Seq(ServerMessage)
      /\ told \in Partial(Target, Served)
  BY FollowFacts
<1>2. /\ ServerRests /\ intact' = intact /\ mismatch' = mismatch /\ synced' = synced
  BY DEF ServerStep, ServerRests
<1>3. /\ r \in ClientMessage /\ r.type = "watch" /\ r.target = t /\ r.scope = Scope(t)
  BY <1>1, WatchForFacts
<1>4. /\ toClient' = toClient \o more /\ told' = UpToDate(ServedThen(r))
      /\ \/ Retained(r, deletions, reset) \subseteq Matched(r)
         \/ LeftToFilter(deletions, filter)
  BY DEF AnsweredNow, Served2
<1>5. StandsFor(r, RemoteKeys(t)) /\ Aimed(r)
  BY <1>1, <1>2, RequestIsAimed, RequestStands DEF Sane
<1>6. RemoteKeys(t)' = RemoteKeys(t) /\ Scope(t)' = Scope(t) /\ Accepted(t)' = Accepted(t)
  BY <1>2, RestsMean
<1>7. told'[t].docs = Matched(r)
  <2>1. /\ ServedThen(r) \in Partial(Target, Served)
        /\ DOMAIN ServedThen(r) = DOMAIN told \union {t}
        /\ ServedThen(r)[t] = [scope |-> r.scope, docs |-> Matched(r)]
    BY <1>1, <1>3, ServedThenFacts
  <2>2. t \in DOMAIN ServedThen(r) /\ ServedThen(r)[t].scope = r.scope
    BY <2>1
  <2>3. UpToDate(ServedThen(r))[t].docs = Present \intersect ServedThen(r)[t].scope
    BY <2>1, <2>2, UpToDateFacts
  <2> QED
    BY <1>4, <2>2, <2>3 DEF Matched
<1> DEFINE changes == Accepted(t).changes
<1>8. t = 0 => CountsAgree(toClient \o more, changes, RemoteKeys(t))
  <2>1. RemoteKeys(0) = synced
    BY DEF RemoteKeys
  <2> QED
    BY <1>2, <1>4, <1>6, <2>1 DEF Sane
<1>9. InTune(toClient \o more, changes, RemoteKeys(t), t, Scope(t), Matched(r))
  <2> DEFINE R == RemoteKeys(t)
  <2>1. r.target = 0 => CountsAgree(toClient \o more, changes, R)
    BY <1>3, <1>8
  <2>2. StandsFor(r, R) /\ Aimed(r)
    BY <1>5
  <2> HIDE DEF r, changes, R
  <2>3. InTune(toClient \o more, changes, R, r.target, r.scope, Matched(r))
    <3>1. \/ Retained(r, deletions, reset) \subseteq Matched(r)
          \/ LeftToFilter(deletions, filter)
      BY <1>4
    <3>2. r \in ClientMessage /\ r.type = "watch"
      BY <1>3
    <3>3. toClient \in Seq(ServerMessage) /\ told \in Partial(Target, Served)
      BY <1>1
    <3> QED
      BY <2>1, <2>2, <3>1, <3>2, <3>3, TuneAnswered, ZenonT(60)
  <2> QED
    BY <1>3, <2>3 DEF R
<1> HIDE DEF more, r
<1> QED
  BY <1>4, <1>6, <1>7, <1>9 DEF TunedAt

LEMMA FollowsServed ==
    ASSUME FollowInv, ServerStep
    PROVE  Follows'
<1>1. WireInv /\ ServerRests
  BY FollowFacts DEF ServerStep
<1>2. resume' = resume /\ open' = open
  BY <1>1 DEF ServerRests
<1> SUFFICES ASSUME NEW t \in DOMAIN resume, Answered(t)', Sane(t)' PROVE TunedAt(t)'
  BY <1>2 DEF Follows
<1>3. open /\ ~Asks(toServer', t)
  BY <1>2 DEF Answered
<1>4. ~Asks(toServer, t) => Answered(t)
  BY <1>3 DEF Answered
<1>5. \/ /\ ~Asks(toServer, t)
         /\ \/ \E intro, served : OthersServed(t, intro, served)
            \/ \E m : OtherDropped(t, m)
      \/ \E deletions, filter, early, reset \in BOOLEAN :
            AnsweredNow(t, deletions, filter, early, reset)
  BY <1>1, <1>3, ServerForTarget
<1> QED
  BY <1>4, <1>5, FollowsOthers, FollowsDropped, FollowsAnswered

LEMMA FollowsKept ==
    ASSUME FollowInv, SyncInv', Step
    PROVE  Follows'
<1>1. CASE Opened
  <2>1. resume' = resume /\ \A t \in DOMAIN resume : Asks(toServer', t)
    BY <1>1 DEF Opened
  <2> QED
    BY <2>1 DEF Follows, Answered
<1>2. CASE CutOff
  BY <1>2 DEF CutOff, Follows, Answered
<1>3. CASE WentOffline \/ Elsewhere
  <2>1. Follows
    BY FollowFacts
  <2>2. UNCHANGED <<open, resume, toServer, intact, mismatch, toClient, states, synced,
                    active, told>>
    BY <1>3 DEF WentOffline, Elsewhere
  <2>3. ASSUME NEW t
        PROVE  /\ Answered(t)' => Answered(t)
               /\ Sane(t)' => Sane(t)
               /\ TunedAt(t) => TunedAt(t)'
    BY <2>2 DEF Answered, Sane, TunedAt, Accepted, RemoteKeys, Scope
  <2> QED
    BY <2>1, <2>2, <2>3 DEF Follows
<1> QED
  BY <1>1, <1>2, <1>3, FollowsPlain, FollowsSnapshot, FollowsWritten, FollowsServed
     DEF Step

-----------------------------------------------------------------------------
(* What is added stays new until a snapshot takes it.                        *)
LEMMA AddedPlain ==
    ASSUME FollowInv, SyncInv', PlainStep(Head(toClient))
    PROVE  AddedAreNew'
<1> DEFINE m == Head(toClient)
<1>1. /\ m \in ServerMessage /\ Aside(m.target) /\ UNCHANGED <<resume, active, synced>>
      /\ IsAck(m) => AckTaken(m)
      /\ ~IsAck(m) /\ ~IsActive(m.target) => UNCHANGED aggregatorVars
      /\ ~IsAck(m) => \A u : u = m.target /\ IsActive(u) => Mistaken(m) \/ TakenIn(m, u)
      /\ DOMAIN states' \subseteq Target
  BY InvFactsAfter, PartialFacts DEF PlainStep, syncVars, viewVars
<1>2. SyncInv /\ AddedAreNew /\ DOMAIN resume \subseteq Target
  BY FollowFacts, InvFacts, PartialFacts
<1>3. ASSUME NEW d \in Doc PROVE updates'[d] = "none" => updates[d] = "none"
  <2>1. IsAck(m) => updates' = updates
    BY <1>1 DEF AckTaken
  <2>2. ~IsAck(m) /\ ~IsActive(m.target) => updates' = updates
    BY <1>1 DEF aggregatorVars
  <2>3. Mistaken(m) => updates' = updates
    BY DEF Mistaken
  <2>4. ASSUME NEW u, TakenIn(m, u) PROVE updates'[d] = "none" => updates[d] = "none"
    <3>1. updates'[d] = UpdatedTo(m, d)
      BY <2>4 DEF TakenIn
    <3> QED
      BY <3>1 DEF UpdatedTo
  <2> QED
    BY <1>1, <2>1, <2>2, <2>3, <2>4
<1> SUFFICES ASSUME NEW t \in DOMAIN states', IsActive(t)', NEW d \in Scope(t),
                    states'[t].changes[d] = "added"
             PROVE  d \notin RemoteKeys(t) /\ updates'[d] # "none"
  <2>1. \A t : RemoteKeys(t)' = RemoteKeys(t) /\ Scope(t)' = Scope(t)
    BY <1>1 DEF RemoteKeys, Scope
  <2> QED
    BY <2>1 DEF AddedAreNew
<1>4. t \in DOMAIN resume /\ d \in Doc /\ Accepted(t)' = states'[t]
  BY <1>1, <1>2, ScopeIsDocs DEF IsActive, Accepted
<1>5. ASSUME IsActive(t), Accepted(t).changes[d] = "added"
      PROVE  d \notin RemoteKeys(t) /\ updates'[d] # "none"
  BY <1>3, <1>4, <1>5, ChangesFacts
<1>6. CASE m.target # t
  <2>1. (t \in DOMAIN states <=> t \in DOMAIN states') /\ Accepted(t)' = Accepted(t)
    BY <1>1, <1>6 DEF Aside
  <2>2. IsActive(t)
    BY <1>1, <2>1 DEF IsActive, Accepted
  <2> QED
    BY <1>4, <1>5, <2>1, <2>2
<1>7. CASE m.target = t /\ IsAck(m)
  <2>1. states'[t].outstanding = 0
    BY DEF IsActive
  <2>2. m.type = "added"
    BY <1>1, <1>7, <2>1 DEF IsAck, AckTaken
  <2>3. states'[t].changes = NoChanges
    BY <1>1, <1>7, <2>1, <2>2 DEF AckTaken
  <2> QED
    BY <1>4, <2>3 DEF NoChanges
<1>8. CASE m.target = t /\ ~IsAck(m) /\ ~IsActive(t)
  <2>1. states' = states /\ resume' = resume
    BY <1>1, <1>8 DEF aggregatorVars
  <2> QED
    BY <1>8, <2>1 DEF IsActive
<1>9. CASE m.target = t /\ ~IsAck(m) /\ IsActive(t)
  <2>1. ~Mistaken(m)
    <3>1. Mistaken(m) => Accepted(t)'.changes[d] \in {"removed", "none"}
      BY <1>4, <1>9 DEF Mistaken
    <3> QED
      BY <1>4, <3>1
  <2>2. TakenIn(m, t)
    BY <1>1, <1>9, <2>1
  <2>3. /\ "added" = ChangedTo(m, t, d, RemoteKeys(t), Accepted(t).changes[d])
        /\ updates'[d] = UpdatedTo(m, d)
    BY <1>4, <2>2 DEF TakenIn
  <2>4. \/ Accepted(t).changes[d] = "added"
        \/ m \in JoinsFor(t, d, RemoteKeys(t)) /\ d \notin RemoteKeys(t)
    BY <2>3 DEF ChangedTo
  <2>5. ASSUME m \in JoinsFor(t, d, RemoteKeys(t)) PROVE updates'[d] = "present"
    <3>1. m.type = "change" /\ d \in m.here
      BY <1>9, <2>5 DEF JoinsFor
    <3> QED
      BY <2>3, <3>1 DEF UpdatedTo
  <2> QED
    BY <1>5, <1>9, <2>4, <2>5
<1> QED
  BY <1>6, <1>7, <1>8, <1>9

LEMMA AddedSnapshot ==
    ASSUME FollowInv, SyncInv', SnapshotTaken
    PROVE  AddedAreNew'
<1>1. PICK known, saved : SnapshotStep(known, saved)
  BY SnapshotTakenMeans
<1>2. SyncInv /\ Closed /\ toClient # <<>> /\ open
  BY <1>1, FollowFacts, ReceiverIsOpen DEF SnapshotStep
<1> SUFFICES ASSUME NEW t \in DOMAIN states', IsActive(t)', NEW d \in Scope(t)'
             PROVE  states'[t].changes[d] # "added"
  BY DEF AddedAreNew
<1>3. t \in DOMAIN resume'
  BY DEF IsActive
<1>4. SettledTarget(t, known)
  BY <1>1, <1>2, <1>3, BegunIsAsked DEF SnapshotStep
<1>5. t \in Raised
  <2> SUFFICES ASSUME t \notin Raised PROVE FALSE
    OBVIOUS
  <2>1. TargetKept(t)
    BY <1>4 DEF SettledTarget
  <2>2. IsActive(t) /\ t \in DOMAIN states
    BY <2>1, KeptIsActive
  <2> QED
    BY <2>2 DEF Raised
<1>6. states'[t].changes = NoChanges
  BY <1>4, <1>5 DEF SettledTarget, TargetRaised
<1>7. d \in Doc
  <2>1. active' \in Partial(Target \ {0}, Resolution) /\ DOMAIN resume' = DOMAIN active' \union {0}
    BY InvFactsAfter
  <2>2. t # 0 => active'[t] \in Resolution
    BY <1>3, <2>1, PartialFacts
  <2> QED
    BY <2>2 DEF Scope, Resolution
<1> QED
  BY <1>6, <1>7 DEF NoChanges

LEMMA AddedWritten ==
    ASSUME FollowInv, SyncInv', Written
    PROVE  AddedAreNew'
<1>1. ViewStep /\ UNCHANGED <<open, synced, updates>>
  BY DEF Written, ViewStep
<1>2. SyncInv /\ AddedAreNew /\ Closed
  BY FollowFacts
<1> SUFFICES ASSUME NEW t \in DOMAIN states', IsActive(t)', NEW d \in Scope(t)',
                    states'[t].changes[d] = "added"
             PROVE  d \notin RemoteKeys(t)' /\ updates'[d] # "none"
  BY DEF AddedAreNew
<1>3. open
  <2> SUFFICES ASSUME ~open PROVE FALSE
    OBVIOUS
  <2>1. states' = <<>>
    BY <1>1, <1>2 DEF ViewStep, Closed
  <2> QED
    BY <2>1, EmptyIsPartial
<1>4. TargetKept(t)
  BY <1>1, <1>3, BegunIsAsked DEF ViewStep, IsActive
<1>5. IsActive(t) /\ t \in DOMAIN states /\ states'[t] = states[t]
  BY <1>4, KeptIsActive
<1>6. RemoteKeys(t)' = RemoteKeys(t) /\ Scope(t)' = Scope(t)
  BY <1>1, <1>2, <1>4, KeysKept
<1> QED
  BY <1>1, <1>2, <1>5, <1>6 DEF AddedAreNew

LEMMA AddedKept ==
    ASSUME FollowInv, SyncInv', Step
    PROVE  AddedAreNew'
<1>0. SyncInv /\ AddedAreNew
  BY FollowFacts
<1>1. CASE ServerStep \/ WentOffline \/ Elsewhere
  <2>1. UNCHANGED <<states, resume, active, synced, updates>>
    BY <1>1 DEF ServerStep, ServerRests, WentOffline, Elsewhere
  <2> QED
    BY <1>0, <2>1 DEF AddedAreNew, IsActive, Scope, RemoteKeys
<1>2. CASE Opened
  <2>1. resume' = resume /\ \A t \in DOMAIN resume : Asks(toServer', t)
    BY <1>2 DEF Opened
  <2>2. \A t : ~IsActive(t)'
    BY <2>1, ActivesMeanAfter DEF ActivesAre, IsActive
  <2> QED
    BY <2>2 DEF AddedAreNew
<1>3. CASE CutOff
  <2>1. DOMAIN states' = {}
    BY <1>3, EmptyIsPartial DEF CutOff
  <2> QED
    BY <2>1 DEF AddedAreNew
<1> QED
  BY <1>1, <1>2, <1>3, AddedPlain, AddedSnapshot, AddedWritten DEF Step

-----------------------------------------------------------------------------
(* A token stands for the keys its target holds.                             *)
LEMMA KeysInScopeAfter ==
    ASSUME SyncInv', NEW t PROVE RemoteKeys(t)' \subseteq Scope(t)'
BY DEF SyncInv, PlainTypeOK, RemoteKeys, Scope

RemembersAt(t) == (t = 0 => intact) => AsSet(resume[t]) \intersect Scope(t) = RemoteKeys(t)

LEMMA BegunRemembers ==
    ASSUME NEW t, TargetBegun(t), t = 0 => synced' = {}
    PROVE  RemembersAt(t)'
<1>1. RemoteKeys(t)' = {}
  BY DEF TargetBegun, RemoteKeys
<1>2. AsSet(resume'[t]) = {}
  BY DEF TargetBegun, AsSet
<1> QED
  BY <1>1, <1>2 DEF RemembersAt

LEMMA KeptRemembers ==
    ASSUME SyncInv, SyncInv', NEW t, TargetKept(t), t = 0 => synced' = synced, RemembersAt(t),
           intact' = intact
    PROVE  RemembersAt(t)'
<1>1. RemoteKeys(t)' = RemoteKeys(t) /\ Scope(t)' = Scope(t) /\ resume'[t] = resume[t]
  BY KeysKept DEF TargetKept
<1> QED
  BY <1>1 DEF RemembersAt

LEMMA MismatchEmpties ==
    ASSUME FollowInv, NEW known, NEW saved, SnapshotStep(known, saved), mismatch
    PROVE  0 \in Raised /\ synced' = {}
<1>1. /\ SyncInv /\ Closed /\ Mismatched /\ AllAsked /\ synced \in SUBSET Doc /\ toClient # <<>>
  BY FollowFacts DEF SnapshotStep
<1>2. open /\ IsActive(0) /\ 0 \in DOMAIN resume
  BY <1>1, ReceiverIsOpen, InvFacts DEF Mismatched
<1>3. 0 \in Raised
  BY <1>1, <1>2 DEF AllAsked, AskedFor, Raised
<1>4. \A d \in Doc : Accepted(0).changes[d] = IF d \in synced THEN "removed" ELSE "none"
  BY <1>1 DEF Mismatched
<1>5. RemovedFrom(Accepted(0)) = synced /\ AddedTo(Accepted(0)) = {}
  BY <1>1, <1>4 DEF RemovedFrom, AddedTo
<1> QED
  BY <1>3, <1>5 DEF SnapshotStep, KnownThen

LEMMA TokenIsASet ==
    ASSUME NEW known \in SUBSET Doc PROVE AsSet(known) = known
<1>1. 0 \notin Doc
  BY DEF Doc
<1> QED
  BY <1>1 DEF AsSet, NoToken

LEMMA RemembersSnapshot ==
    ASSUME FollowInv, SyncInv', SnapshotTaken
    PROVE  Remembers'
<1>1. PICK known, saved : SnapshotStep(known, saved)
  BY SnapshotTakenMeans
<1>2. SyncInv /\ Remembers /\ synced \in SUBSET Doc
  BY FollowFacts
<1>3. known \in SUBSET Doc /\ AsSet(known) = known /\ intact' = intact /\ synced' = KnownThen
  BY <1>1, TokenIsASet DEF SnapshotStep
<1>4. ASSUME NEW t \in DOMAIN resume' PROVE RemembersAt(t)'
  <2>1. (SettledTarget(t, known) /\ ~(t = 0 /\ mismatch)) \/ TargetBegun(t)
    BY <1>1 DEF SnapshotStep
  <2>2. CASE t = 0 /\ mismatch
    BY <1>1, <2>1, <2>2, MismatchEmpties, BegunRemembers
  <2>3. CASE t # 0 /\ TargetBegun(t)
    BY <2>3, BegunRemembers
  <2>4. CASE SettledTarget(t, known) /\ ~(t = 0 /\ mismatch) /\ t \in Raised
    <3> SUFFICES ASSUME t = 0 => intact'
                 PROVE  AsSet(resume'[t]) \intersect Scope(t)' = RemoteKeys(t)'
      BY DEF RemembersAt
    <3>1. TargetRaised(t, known) /\ (t = 0 => intact /\ ~mismatch)
      BY <1>3, <2>4 DEF SettledTarget
    <3>2. \A d \in Scope(t) : d \in RemoteKeys(t)' <=> d \in known
      BY <1>1, <2>4, <3>1, RaisedTunes
    <3>3. Scope(t)' = Scope(t) /\ RemoteKeys(t)' \subseteq Scope(t)'
      BY <1>2, <3>1, ScopeKept, KeysInScopeAfter
    <3>4. resume'[t] = known
      BY <3>1 DEF TargetRaised
    <3> QED
      BY <1>3, <3>2, <3>3, <3>4
  <2>5. CASE SettledTarget(t, known) /\ ~(t = 0 /\ mismatch) /\ t \notin Raised
    <3>1. TargetKept(t) /\ (t = 0 => synced' = synced)
      BY <1>3, <2>5 DEF SettledTarget, KnownThen
    <3>2. RemembersAt(t)
      BY <1>2, <3>1 DEF Remembers, RemembersAt, TargetKept
    <3> QED
      BY <1>2, <1>3, <3>1, <3>2, KeptRemembers
  <2>6. t = 0 /\ ~mismatch => SettledTarget(t, known)
    BY <1>1 DEF SnapshotStep
  <2> QED
    BY <2>1, <2>2, <2>3, <2>4, <2>5, <2>6
<1>5. keys' = synced'
  BY <1>1, <1>2, <1>3 DEF SnapshotStep, KnownThen, Remembers
<1>6. ASSUME intact' PROVE keys' \subseteq AsSet(token')
  <2>1. token' = saved /\ saved \in {token, known} /\ keys \subseteq AsSet(token)
    BY <1>1, <1>2, <1>3, <1>6 DEF SnapshotStep, Remembers
  <2>2. CASE 0 \notin Raised
    BY <1>1, <2>1, <2>2 DEF SnapshotStep
  <2>3. CASE 0 \in Raised /\ mismatch
    BY <1>1, <1>5, <2>3, MismatchEmpties
  <2>4. CASE 0 \in Raised /\ ~mismatch
    <3>1. TargetRaised(0, known)
      BY <1>1, <2>4 DEF SnapshotStep, SettledTarget
    <3>2. \A d \in Scope(0) : d \in RemoteKeys(0)' <=> d \in known
      BY <1>1, <1>3, <1>6, <2>4, <3>1, RaisedTunes
    <3>3. synced' \subseteq known
      <4>1. Scope(0) = Doc /\ RemoteKeys(0)' = synced' /\ synced' \in SUBSET Doc
        BY DEF Scope, RemoteKeys, SyncInv, PlainTypeOK
      <4> QED
        BY <3>2, <4>1
    <3>4. CASE saved = known
      BY <1>3, <1>5, <2>1, <3>3, <3>4
    <3>5. CASE saved # known
      <4>1. Accepted(0).changes = NoChanges /\ saved = token
        BY <1>1, <2>1, <2>4, <3>5 DEF SnapshotStep, MustPersist
      <4>2. AddedTo(Accepted(0)) = {} /\ RemovedFrom(Accepted(0)) = {}
        BY <4>1 DEF AddedTo, RemovedFrom, NoChanges
      <4>3. keys' = keys
        BY <1>1, <2>4, <4>2 DEF SnapshotStep
      <4> QED
        BY <2>1, <4>1, <4>3
    <3> QED
      BY <3>4, <3>5
  <2> QED
    BY <2>2, <2>3, <2>4
<1> QED
  BY <1>4, <1>5, <1>6 DEF Remembers, RemembersAt

LEMMA RemembersWritten ==
    ASSUME FollowInv, SyncInv', Written
    PROVE  Remembers'
<1>1. ViewStep /\ UNCHANGED <<keys, token, synced, intact>> /\ TargetKept(0)
  BY DEF Written, ViewStep
<1>2. SyncInv /\ Remembers
  BY FollowFacts
<1>3. ASSUME NEW t \in DOMAIN resume' PROVE RemembersAt(t)'
  <2>1. CASE TargetKept(t)
    <3>1. RemembersAt(t)
      BY <1>2, <2>1 DEF Remembers, RemembersAt, TargetKept
    <3> QED
      BY <1>1, <1>2, <2>1, <3>1, KeptRemembers
  <2>2. CASE TargetBegun(t) /\ t # 0
    BY <2>2, BegunRemembers
  <2> QED
    BY <1>1, <1>3, <2>1, <2>2 DEF ViewStep
<1> QED
  BY <1>1, <1>2, <1>3 DEF Remembers, RemembersAt

LEMMA RemembersCut ==
    ASSUME FollowInv, CutOff
    PROVE  Remembers'
<1>1. Remembers /\ UNCHANGED <<keys, token>> /\ synced \in SUBSET Doc
  BY FollowFacts DEF CutOff
<1>2. CASE UNCHANGED <<synced, active, resume, intact>>
  BY <1>1, <1>2 DEF Remembers, Scope, RemoteKeys
<1>3. CASE /\ intact' = (intact /\ (token = NoToken \/ token \subseteq keys))
           /\ synced' = keys /\ resume' = [t \in {0} |-> token]
  <2>1. ASSUME intact' PROVE AsSet(token) = keys
    BY <1>1, <1>3, <2>1 DEF Remembers, AsSet
  <2>2. Scope(0)' = Doc /\ RemoteKeys(0)' = keys /\ keys \subseteq Doc
    BY <1>1, <1>3 DEF Scope, RemoteKeys, Remembers
  <2>3. DOMAIN resume' = {0} /\ resume'[0] = token
    BY <1>3
  <2> QED
    BY <1>1, <1>3, <2>1, <2>2, <2>3 DEF Remembers
<1> QED
  BY <1>2, <1>3 DEF CutOff

LEMMA RemembersKept ==
    ASSUME FollowInv, SyncInv', Step
    PROVE  Remembers'
<1>1. CASE PlainStep(Head(toClient)) \/ ServerStep \/ Opened \/ WentOffline \/ Elsewhere
  <2>1. UNCHANGED <<resume, active, synced, keys, token, intact>>
    BY <1>1 DEF PlainStep, diskVars, viewVars, syncVars, ServerStep, ServerRests, Opened,
       WentOffline, Elsewhere
  <2>2. Remembers
    BY FollowFacts
  <2> QED
    BY <2>1, <2>2 DEF Remembers, Scope, RemoteKeys
<1> QED
  BY <1>1, RemembersSnapshot, RemembersWritten, RemembersCut DEF Step

LEMMA FollowStep ==
    ASSUME FollowInv, [SyncNext]_watchSyncVars
    PROVE  FollowInv' /\ SyncInv' /\ Step
<1>1. TruthInv' /\ SyncInv' /\ Step
  BY TruthStep DEF FollowInv
<1> QED
  BY <1>1, RemembersKept, AddedKept, FollowsKept DEF FollowInv

LEMMA FollowInit == SyncInit => FollowInv
<1> SUFFICES ASSUME SyncInit PROVE FollowInv
  OBVIOUS
<1>1. TruthInv
  BY TruthInit
<1>2. states = <<>> /\ DOMAIN <<>> = {} /\ ~open
  BY EmptyIsPartial DEF SyncInit
<1>3. AddedAreNew /\ Follows
  BY <1>2 DEF AddedAreNew, Follows, Answered
<1>4. Remembers
  BY DEF SyncInit, Remembers, AsSet, RemoteKeys, Scope
<1> QED
  BY <1>1, <1>3, <1>4 DEF FollowInv

(* A limbo document that a snapshot declares deleted is deleted. *)
LEMMA DeniedAreGone ==
    ASSUME FollowInv, toClient # <<>>, Head(toClient).type = "snapshot", NEW t \in Denied
    PROVE  t \in DOMAIN active /\ active[t].key \in Gone
<1>1. /\ t # 0 /\ IsActive(t) /\ t \in DOMAIN states /\ updates[active[t].key] = "none"
      /\ active[t].key \notin RemoteKeys(t)
  BY DEF Denied
<1>2. SyncInv /\ CalmInv /\ Truthful /\ toClient \in Seq(ServerMessage)
  BY FollowFacts
<1>3. t \in DOMAIN resume /\ TunedAt(t) /\ Silent(toClient, AckOf(t))
  BY <1>1, RaisedIsSane
<1> DEFINE d == active[t].key
           changes == Accepted(t).changes
<1>4. t \in DOMAIN active /\ d \in Doc /\ Scope(t) = {d}
  BY <1>1, <1>2, <1>3, ScopeIsDocs
<1>5. ~HoldsIn(changes, RemoteKeys(t), d)
  <2>1. /\ changes[d] \in {"modified", "removed"} => d \in RemoteKeys(t)
        /\ changes[d] = "added" => updates[d] # "none"
    BY <1>1, <1>4, ChangesFacts
  <2> QED
    BY <1>1, <2>1 DEF HoldsIn
<1>6. d \notin Head(toClient).token
  <2> DEFINE R == RemoteKeys(t)
             docs == told[t].docs
  <2>1. InTune(toClient, changes, R, t, Scope(t), docs)
    BY <1>3 DEF TunedAt
  <2>2. ~HoldsIn(changes, R, d) /\ d \in Scope(t)
    BY <1>4, <1>5
  <2> HIDE DEF changes, R, docs, d
  <2>3. \A e \in Scope(t) : HoldsIn(changes, R, e) <=> e \in Head(toClient).token
    BY <1>2, <1>3, <2>1, TuneRaised
  <2> QED
    BY <2>2, <2>3
<1>7. SaidTrue(Head(toClient), t)
  BY <1>1, <1>2, FirstIsTrue
<1> QED
  BY <1>4, <1>6, <1>7 DEF SaidTrue

-----------------------------------------------------------------------------
(* What the server says exists is cached, or is on its way before it is    *)
(* said.                                                                   *)
CacheTrue == \A d \in Doc : cache[d] = "deleted" => d \in Gone

TokensCached ==
    \A d \in Present : d \in AsSet(token) \union AsSet(resume[0]) => cache[d] = "present"

Brings(list, d, i) ==
    list[i] \in Tells("change", 0) /\ Last(list, AckOf(0), i) /\ d \in list[i].here
There(d, j) ==
    \/ cache[d] = "present" \/ updates[d] = "present"
    \/ \E i \in DOMAIN toClient : i <= j /\ Brings(toClient, d, i)
OnItsWay(d) ==
    /\ \A j \in DOMAIN toClient :
          toClient[j].type = "snapshot" /\ Last(toClient, AckOf(0), j) /\ d \in toClient[j].token
             => There(d, j)
    /\ d \in told[0].docs => There(d, Len(toClient))
Arrives == Answered(0) => \A d \in Present : OnItsWay(d)

(* The device's own documents: one with a queued write is not in limbo, and *)
(* once the view keeps one without a queued write, the server never told of *)
(* it since.                                                                *)
OwnKept ==
    /\ synced \subseteq Born
    /\ \A d \in mutated : /\ d \notin limbo /\ updates[d] # "revoked"
                          /\ d \in synced => cache[d] # "unborn"
    /\ \A d \in mutatedKeys \ mutated : d \notin synced

ReachInv == FollowInv /\ CacheTrue /\ TokensCached /\ Arrives /\ OwnKept

LEMMA ReachFacts ==
    ASSUME ReachInv
    PROVE  /\ FollowInv /\ TruthInv /\ CalmInv /\ WireInv /\ SyncInv /\ KnownBorn /\ Truthful
           /\ CacheTrue /\ TokensCached /\ Arrives /\ OwnKept /\ Closed /\ ActivesAre
           /\ toClient \in Seq(ServerMessage) /\ told \in Partial(Target, Served)
           /\ serverDocs \in [Doc -> DocState] /\ cache \in [Doc -> DocState]
           /\ updates \in [Doc -> {"none", "present", "deleted", "revoked"}]
           /\ 0 \in DOMAIN resume
BY FollowFacts, InvFacts DEF ReachInv, SyncInv, PlainTypeOK

(* The cache after a snapshot. *)
LEMMA CachedThen ==
    ASSUME ReachInv, NEW known, NEW saved, SnapshotStep(known, saved), NEW d \in Doc
    PROVE  /\ cache'[d] = "deleted" => d \in Gone
           /\ d \in Present /\ (cache[d] = "present" \/ updates[d] = "present")
                => cache'[d] = "present"
<1> DEFINE new == IF \E t \in Denied : active[t].key = d THEN "deleted" ELSE updates[d]
<1>1. /\ FollowInv /\ CacheTrue /\ KnownBorn /\ cache[d] \in DocState
      /\ updates[d] \in {"none", "present", "deleted", "revoked"}
      /\ Present \intersect Gone = {}
  BY ReachFacts, PresentIsBorn
<1>2. toClient # <<>> /\ Head(toClient).type = "snapshot"
      /\ cache'[d] = Newer(cache[d], new)
  BY DEF SnapshotStep
<1>3. CASE \E t \in Denied : active[t].key = d
  <2>1. d \in Gone
    BY <1>1, <1>2, <1>3, DeniedAreGone
  <2> QED
    BY <1>1, <2>1
<1>4. CASE new = updates[d]
  <2>1. /\ updates[d] \in {"deleted", "revoked"} => d \in Gone
        /\ cache[d] = "deleted" => d \in Gone
    BY <1>1 DEF KnownBorn, CacheTrue
  <2>2. /\ updates[d] = "none" => cache'[d] = cache[d]
        /\ updates[d] = "revoked" => cache'[d] = "unborn"
        /\ updates[d] = "present" => cache'[d] = IF cache[d] = "deleted" THEN cache[d]
                                                 ELSE "present"
        /\ updates[d] = "deleted" => cache'[d] = "deleted"
    BY <1>1, <1>2, <1>4, NewerMeans
  <2> QED
    BY <1>1, <2>1, <2>2
<1> QED
  BY <1>3, <1>4

LEMMA CacheTrueKept ==
    ASSUME ReachInv, Step
    PROVE  CacheTrue'
<1>0. SyncInv /\ CacheTrue /\ OneWay /\ cache \in [Doc -> DocState]
  BY ReachFacts, OneWayStep
<1>1. CASE UNCHANGED cache
  BY <1>0, <1>1 DEF CacheTrue, OneWay
<1>2. CASE SnapshotTaken
  <2>1. PICK known, saved : SnapshotStep(known, saved)
    BY <1>2, SnapshotTakenMeans
  <2> QED
    BY <1>0, <2>1, CachedThen DEF CacheTrue, OneWay
<1>3. CASE Written
  <2>1. PICK e \in Doc : cache' = cache \/ cache' = [cache EXCEPT ![e] = Newer(@, "present")]
    BY <1>3 DEF Written
  <2>2. Newer(cache[e], "present") = "deleted" => cache[e] = "deleted"
    BY DEF Newer
  <2>3. \A d \in Doc : cache'[d] = "deleted" => cache[d] = "deleted"
    BY <1>0, <2>1, <2>2
  <2> QED
    BY <1>0, <2>3 DEF CacheTrue, OneWay
<1>4. PlainStep(Head(toClient)) \/ ServerStep \/ Opened \/ CutOff \/ WentOffline \/ Elsewhere
        => UNCHANGED cache
  BY DEF PlainStep, diskVars, ServerStep, ServerRests, Opened, CutOff, WentOffline, Elsewhere
<1> QED
  BY <1>1, <1>2, <1>3, <1>4 DEF Step

(* One message less. *)
LEMMA BringsTail ==
    ASSUME NEW list \in Seq(ServerMessage), list # <<>>, NEW d, NEW i \in DOMAIN list,
           Brings(list, d, i), i # 1
    PROVE  i - 1 \in DOMAIN Tail(list) /\ Brings(Tail(list), d, i - 1)
<1>1. /\ Len(list) \in Nat /\ Len(list) >= 1 /\ DOMAIN list = 1 .. Len(list)
      /\ DOMAIN Tail(list) = 1 .. Len(list) - 1
      /\ \A k \in 1 .. Len(list) - 1 : Tail(list)[k] = list[k + 1]
      /\ \A k \in 2 .. Len(list) : k - 1 \in 1 .. Len(list) - 1 /\ Tail(list)[k - 1] = list[k]
  BY TailParts
<1>2. i - 1 \in DOMAIN Tail(list) /\ Tail(list)[i - 1] = list[i]
  BY <1>1
<1>3. ASSUME NEW k \in DOMAIN Tail(list), k > i - 1 PROVE Tail(list)[k] \notin AckOf(0)
  <2>1. k + 1 \in DOMAIN list /\ k + 1 > i /\ Tail(list)[k] = list[k + 1]
    BY <1>1, <1>3
  <2> QED
    BY <2>1 DEF Brings, Last
<1> QED
  BY <1>2, <1>3 DEF Brings, Last

LEMMA ThereTail ==
    ASSUME toClient \in Seq(ServerMessage), toClient # <<>>, toClient' = Tail(toClient), NEW d,
           cache[d] = "present" \/ updates[d] = "present" \/ Brings(toClient, d, 1)
             => cache'[d] = "present" \/ updates'[d] = "present",
           NEW j \in 1 .. Len(toClient), There(d, j)
    PROVE  There(d, j - 1)'
<1>1. Len(toClient) \in Nat /\ DOMAIN toClient = 1 .. Len(toClient)
  BY TailParts
<1>2. ASSUME NEW i \in DOMAIN toClient, i <= j, i # 1, Brings(toClient, d, i)
      PROVE  \E k \in DOMAIN Tail(toClient) : k <= j - 1 /\ Brings(Tail(toClient), d, k)
  <2>1. i - 1 \in DOMAIN Tail(toClient) /\ Brings(Tail(toClient), d, i - 1)
    BY <1>2, BringsTail
  <2>2. i - 1 <= j - 1
    BY <1>1, <1>2
  <2> QED
    BY <2>1, <2>2
<1> QED
  BY <1>2 DEF There

LEMMA WayTail ==
    ASSUME toClient \in Seq(ServerMessage), toClient # <<>>, toClient' = Tail(toClient), NEW d,
           cache[d] = "present" \/ updates[d] = "present" \/ Brings(toClient, d, 1)
             => cache'[d] = "present" \/ updates'[d] = "present",
           told' = told, OnItsWay(d)
    PROVE  OnItsWay(d)'
<1>1. /\ Len(toClient) \in Nat /\ Len(toClient) >= 1 /\ DOMAIN toClient = 1 .. Len(toClient)
      /\ Len(Tail(toClient)) = Len(toClient) - 1
      /\ DOMAIN Tail(toClient) = 1 .. Len(toClient) - 1
  BY TailParts
<1>2. ASSUME NEW j \in DOMAIN Tail(toClient), Tail(toClient)[j].type = "snapshot",
             Last(Tail(toClient), AckOf(0), j), d \in Tail(toClient)[j].token
      PROVE  There(d, j)'
  <2>1. /\ j + 1 \in DOMAIN toClient /\ Tail(toClient)[j] = toClient[j + 1]
        /\ Last(toClient, AckOf(0), j + 1)
    BY <1>2, LastTail
  <2>2. There(d, j + 1)
    BY <1>2, <2>1 DEF OnItsWay
  <2>3. j + 1 \in 1 .. Len(toClient) /\ (j + 1) - 1 = j
    BY <1>1, <2>1
  <2>4. There(d, (j + 1) - 1)'
    BY <2>2, <2>3, ThereTail
  <2> QED
    BY <2>3, <2>4
<1>3. PICK n : n = Len(toClient)
  OBVIOUS
<1>4. ASSUME d \in told[0].docs PROVE There(d, n - 1)'
  <2>1. There(d, n) /\ n \in 1 .. Len(toClient)
    BY <1>1, <1>3, <1>4 DEF OnItsWay
  <2> QED
    BY <2>1, ThereTail
<1>5. n - 1 = Len(toClient')
  BY <1>1, <1>3
<1>6. d \in told'[0].docs => There(d, Len(toClient))'
  BY <1>4, <1>5 DEF There
<1> QED
  BY <1>2, <1>6 DEF OnItsWay

-----------------------------------------------------------------------------
(* A document is on its way until it has arrived: the steps of the client.   *)
LEMMA UpdatesStay ==
    ASSUME ReachInv, PlainStep(Head(toClient)), NEW d \in Present
    PROVE  /\ updates[d] = "present" => updates'[d] = "present"
           /\ /\ Head(toClient) \in Tells("change", 0) /\ d \in Head(toClient).here
              /\ IsActive(0)
              => updates'[d] = "present"
<1> DEFINE m == Head(toClient)
<1>1. /\ CalmInv /\ Truthful /\ SyncInv /\ d \in Doc /\ d \notin Gone
      /\ updates \in [Doc -> {"none", "present", "deleted", "revoked"}]
  BY ReachFacts, PresentIsBorn DEF Present
<1>2. /\ m \in ServerMessage /\ m.type # "snapshot" /\ toClient # <<>>
      /\ IsAck(m) => updates' = updates
      /\ ~IsAck(m) /\ ~IsActive(m.target) => updates' = updates
      /\ ~IsAck(m) /\ IsActive(m.target) => Mistaken(m) \/ TakenIn(m, m.target)
  BY DEF PlainStep, AckTaken, aggregatorVars
<1>3. m \in Tells("change", 0) => m.type = "change" /\ m.target = 0 /\ ~IsAck(m)
  BY DEF Tells, IsAck
<1> HIDE DEF m
<1>4. Mistaken(m) => updates' = updates /\ m.type # "change"
  BY DEF Mistaken
<1>5. ASSUME ~IsAck(m), IsActive(m.target), TakenIn(m, m.target)
      PROVE  /\ updates[d] = "present" => updates'[d] = "present"
             /\ m.type = "change" /\ d \in m.here => updates'[d] = "present"
  <2>1. SaidTrue(m, m.target) /\ m.target \in DOMAIN resume
    BY <1>1, <1>2, <1>5, FirstIsTrue DEF m
  <2>2. updates'[d] = UpdatedTo(m, d)
    BY <1>1, <1>5 DEF TakenIn
  <2>3. m.type = "change" => d \notin m.gone
    BY <1>1, <2>1 DEF SaidTrue
  <2>4. ~(m.type = "filter" /\ m.target # 0 /\ m.count = 0 /\ d \in Scope(m.target))
    <3> SUFFICES ASSUME m.type = "filter", m.target # 0, m.count = 0, d \in Scope(m.target)
                 PROVE  FALSE
      OBVIOUS
    <3>1. m.target \in DOMAIN active /\ Scope(m.target) = {active[m.target].key}
      BY <1>1, <2>1, ScopeIsDocs
    <3>2. active[m.target].key \in Gone
      BY <2>1, <3>1 DEF SaidTrue
    <3> QED
      BY <1>1, <3>1, <3>2
  <2> QED
    BY <2>2, <2>3, <2>4 DEF UpdatedTo
<1> QED
  BY <1>2, <1>3, <1>4, <1>5 DEF m

LEMMA ArrivesPlain ==
    ASSUME ReachInv, PlainStep(Head(toClient))
    PROVE  Arrives'
<1>1. /\ Arrives /\ ActivesAre /\ toClient \in Seq(ServerMessage)
  BY ReachFacts
<1>2. /\ toClient # <<>> /\ toClient' = Tail(toClient) /\ cache' = cache /\ told' = told
      /\ serverDocs' = serverDocs /\ open' = open /\ resume' = resume /\ toServer' = toServer
  BY DEF PlainStep, diskVars, syncVars
<1>3. Present' = Present /\ Answered(0)' = Answered(0)
  BY <1>2 DEF Present, Answered
<1> SUFFICES ASSUME Answered(0), NEW d \in Present PROVE OnItsWay(d)'
  BY <1>3 DEF Arrives
<1>4. ASSUME Brings(toClient, d, 1)
      PROVE  Head(toClient) \in Tells("change", 0) /\ d \in Head(toClient).here /\ IsActive(0)
  <2>1. /\ Head(toClient) = toClient[1] /\ DOMAIN toClient = 1 .. Len(toClient)
        /\ Len(toClient) \in Nat
    BY <1>1, <1>2, TailParts
  <2>2. /\ toClient[1] \in Tells("change", 0) /\ Last(toClient, AckOf(0), 1)
        /\ d \in toClient[1].here
    BY <1>4 DEF Brings
  <2>3. toClient[1] \notin AckOf(0)
    BY <2>2 DEF Tells, AckOf, IsAck
  <2>4. Silent(toClient, AckOf(0))
    <3> SUFFICES ASSUME NEW i \in DOMAIN toClient PROVE toClient[i] \notin AckOf(0)
      BY DEF Silent
    <3>1. i = 1 \/ i > 1
      BY <2>1
    <3> QED
      BY <2>2, <2>3, <3>1 DEF Last
  <2> QED
    BY <1>1, <2>1, <2>2, <2>4 DEF ActivesAre, Answered
<1>5. cache[d] = "present" \/ updates[d] = "present" \/ Brings(toClient, d, 1)
        => cache'[d] = "present" \/ updates'[d] = "present"
  BY <1>2, <1>4, UpdatesStay
<1>6. OnItsWay(d)
  BY <1>1 DEF Arrives
<1> QED
  BY <1>1, <1>2, <1>5, <1>6, WayTail

LEMMA SnapshotAnswers ==
    ASSUME ReachInv, NEW known, NEW saved, SnapshotStep(known, saved), Answered(0)'
    PROVE  Answered(0) /\ ~mismatch /\ SettledTarget(0, known)
<1>1. open /\ open' = open
  BY ReachFacts, ReceiverIsOpen DEF SnapshotStep
<1>2. ~TargetBegun(0)
  BY <1>1 DEF TargetBegun, Answered
<1>3. ~mismatch /\ SettledTarget(0, known)
  BY <1>2 DEF SnapshotStep
<1> QED
  BY <1>1, <1>3 DEF SettledTarget, TargetRaised, TargetKept, Answered

LEMMA ArrivesSnapshot ==
    ASSUME ReachInv, SnapshotTaken
    PROVE  Arrives'
<1>1. PICK known, saved : SnapshotStep(known, saved)
  BY SnapshotTakenMeans
<1>2. /\ Arrives /\ toClient \in Seq(ServerMessage)
  BY ReachFacts
<1>3. /\ toClient # <<>> /\ toClient' = Tail(toClient) /\ told' = told
      /\ Head(toClient).type = "snapshot" /\ serverDocs' = serverDocs
  BY <1>1 DEF SnapshotStep
<1> SUFFICES ASSUME Answered(0)', NEW d \in Present PROVE OnItsWay(d)'
  BY <1>3 DEF Arrives, Present
<1>4. OnItsWay(d) /\ d \in Doc
  BY <1>1, <1>2, SnapshotAnswers DEF Arrives, Present
<1>5. ~Brings(toClient, d, 1)
  <2>1. Head(toClient) = toClient[1]
    BY <1>2, <1>3, TailParts
  <2> QED
    BY <1>3, <2>1 DEF Brings, Tells
<1>6. cache[d] = "present" \/ updates[d] = "present" \/ Brings(toClient, d, 1)
        => cache'[d] = "present" \/ updates'[d] = "present"
  BY <1>1, <1>4, <1>5, CachedThen
<1> QED
  BY <1>2, <1>3, <1>4, <1>6, WayTail

LEMMA CachedWritten ==
    ASSUME ReachInv, Written, NEW d \in Doc, cache[d] = "present"
    PROVE  cache'[d] = "present"
<1>1. cache \in [Doc -> DocState]
  BY ReachFacts
<1>2. PICK e \in Doc : cache' = cache \/ cache' = [cache EXCEPT ![e] = Newer(@, "present")]
  BY DEF Written
<1>3. Newer("present", "present") = "present"
  BY NewerMeans
<1> QED
  BY <1>1, <1>2, <1>3

LEMMA ArrivesWritten ==
    ASSUME ReachInv, Written
    PROVE  Arrives'
<1>1. Arrives
  BY ReachFacts
<1>2. /\ TargetKept(0) /\ serverDocs' = serverDocs /\ updates' = updates /\ open' = open
      /\ toClient' = toClient /\ told' = told
  BY DEF Written, ViewStep
<1> SUFFICES ASSUME Answered(0), NEW d \in Present PROVE OnItsWay(d)'
  BY <1>2 DEF Arrives, Present, TargetKept, Answered
<1>3. OnItsWay(d) /\ d \in Doc
  BY <1>1 DEF Arrives, Present
<1>4. cache[d] = "present" => cache'[d] = "present"
  BY <1>3, CachedWritten
<1>5. ASSUME NEW j, There(d, j) PROVE There(d, j)'
  BY <1>2, <1>4, <1>5 DEF There
<1>6. PICK n : n = Len(toClient)
  OBVIOUS
<1>7. d \in told[0].docs => There(d, n)'
  BY <1>3, <1>5, <1>6 DEF OnItsWay
<1>8. d \in told[0].docs => There(d, Len(toClient))'
  BY <1>2, <1>6, <1>7 DEF There
<1> QED
  BY <1>2, <1>3, <1>5, <1>8 DEF OnItsWay

-----------------------------------------------------------------------------
(* More messages. *)
LEMMA ThereLonger ==
    ASSUME toClient \in Seq(ServerMessage), NEW more \in Seq(ServerMessage),
           toClient' = toClient \o more, cache' = cache, updates' = updates, NEW d,
           Silent(more, AckOf(0)), NEW j \in Nat, NEW n \in Nat, j <= n, There(d, j)
    PROVE  There(d, n)'
<1>1. /\ Len(toClient) \in Nat /\ DOMAIN toClient = 1 .. Len(toClient)
      /\ Len(more) \in Nat
      /\ DOMAIN (toClient \o more) = 1 .. Len(toClient) + Len(more)
      /\ \A i \in 1 .. Len(toClient) : (toClient \o more)[i] = toClient[i]
  BY JoinParts
<1>2. ASSUME NEW i \in DOMAIN toClient, i <= j, Brings(toClient, d, i)
      PROVE  i \in DOMAIN (toClient \o more) /\ i <= n /\ Brings(toClient \o more, d, i)
  <2>1. i \in DOMAIN (toClient \o more) /\ i <= n /\ (toClient \o more)[i] = toClient[i]
    BY <1>1, <1>2
  <2>2. Last(toClient, AckOf(0), i)
    BY <1>2 DEF Brings
  <2>3. Last(toClient \o more, AckOf(0), i)
    BY <1>1, <2>2, LastLonger
  <2> QED
    BY <1>2, <2>1, <2>3 DEF Brings
<1> QED
  BY <1>2 DEF There

LEMMA BringsAdded ==
    ASSUME NEW list \in Seq(ServerMessage), NEW more \in Seq(ServerMessage), NEW d,
           NEW k \in DOMAIN more, more[k] \in Tells("change", 0), d \in more[k].here,
           \A i \in DOMAIN more : i > k => more[i] \notin AckOf(0)
    PROVE  Len(list) + k \in DOMAIN (list \o more) /\ Brings(list \o more, d, Len(list) + k)
<1>1. /\ Len(list) \in Nat /\ Len(more) \in Nat
      /\ DOMAIN list = 1 .. Len(list) /\ DOMAIN more = 1 .. Len(more)
      /\ DOMAIN (list \o more) = 1 .. Len(list) + Len(more)
      /\ \A i \in 1 .. Len(more) : (list \o more)[Len(list) + i] = more[i]
      /\ \A i \in 1 .. Len(list) + Len(more) : i \notin 1 .. Len(list)
           => /\ i - Len(list) \in 1 .. Len(more)
              /\ (list \o more)[i] = more[i - Len(list)]
  BY JoinParts
<1>2. Len(list) + k \in DOMAIN (list \o more) /\ (list \o more)[Len(list) + k] = more[k]
  BY <1>1
<1>3. ASSUME NEW i \in DOMAIN (list \o more), i > Len(list) + k
      PROVE  (list \o more)[i] \notin AckOf(0)
  <2>1. i \notin 1 .. Len(list) /\ i - Len(list) > k
    BY <1>1, <1>3
  <2>2. i - Len(list) \in DOMAIN more /\ (list \o more)[i] = more[i - Len(list)]
    BY <1>1, <1>3, <2>1
  <2> QED
    BY <2>1, <2>2
<1> QED
  BY <1>2, <1>3 DEF Brings, Last

(* What is new in a list that got longer. *)
OnlyAtEnd(list, before, n) ==
    \A i \in DOMAIN list : list[i].type = "snapshot" => i \in 1 .. before \/ i = n

LEMMA WayLonger ==
    ASSUME toClient \in Seq(ServerMessage), NEW more \in Seq(ServerMessage),
           toClient' = toClient \o more, cache' = cache, updates' = updates, NEW d,
           Silent(more, AckOf(0)), OnItsWay(d), NEW n, n = Len(toClient'),
           OnlyAtEnd(toClient \o more, Len(toClient), n), There(d, n)'
    PROVE  OnItsWay(d)'
<1>1. /\ Len(toClient) \in Nat /\ DOMAIN toClient = 1 .. Len(toClient)
      /\ \A i \in 1 .. Len(toClient) : (toClient \o more)[i] = toClient[i]
  BY JoinParts
<1>2. ASSUME NEW j \in DOMAIN (toClient \o more), (toClient \o more)[j].type = "snapshot",
             Last(toClient \o more, AckOf(0), j), d \in (toClient \o more)[j].token
      PROVE  There(d, j)'
  <2>1. CASE j \in 1 .. Len(toClient)
    <3>1. Last(toClient, AckOf(0), j) /\ (toClient \o more)[j] = toClient[j]
      BY <1>1, <1>2, <2>1, LastLonger
    <3>2. There(d, j)
      BY <1>1, <1>2, <2>1, <3>1 DEF OnItsWay
    <3> QED
      BY <2>1, <3>2, ThereLonger, SMTT(30)
  <2>2. CASE j = n
    BY <2>2
  <2> QED
    BY <1>2, <2>1, <2>2 DEF OnlyAtEnd
<1>3. There(d, Len(toClient))'
  BY DEF There
<1> QED
  BY <1>2, <1>3 DEF OnItsWay

LEMMA WayDropped ==
    ASSUME ReachInv, ServerRests, NEW d, OnItsWay(d), NEW m, OtherDropped(0, m)
    PROVE  OnItsWay(d)'
<1>1. /\ toClient \in Seq(ServerMessage) /\ cache' = cache /\ updates' = updates
  BY ReachFacts DEF ServerRests
<1>2. /\ m \in ServerMessage /\ m.type = "removed" /\ m.target # 0
      /\ told'[0] = told[0] /\ toClient' = toClient \o <<m>>
  BY DEF OtherDropped
<1>3. /\ <<m>> \in Seq(ServerMessage) /\ DOMAIN <<m>> = {1} /\ <<m>>[1] = m
      /\ Silent(<<m>>, AckOf(0))
  <2>1. <<m>> \in Seq(ServerMessage) /\ DOMAIN <<m>> = {1} /\ <<m>>[1] = m
    BY <1>2, OneMessage
  <2> QED
    BY <1>2, <2>1 DEF Silent, AckOf
<1>4. /\ Len(toClient) \in Nat /\ DOMAIN toClient = 1 .. Len(toClient)
      /\ Len(toClient \o <<m>>) \in Nat /\ Len(toClient) <= Len(toClient \o <<m>>)
      /\ DOMAIN (toClient \o <<m>>) = 1 .. Len(toClient \o <<m>>)
      /\ \A i \in 1 .. Len(toClient) : (toClient \o <<m>>)[i] = toClient[i]
      /\ \A i \in DOMAIN (toClient \o <<m>>) : i \notin 1 .. Len(toClient)
           => (toClient \o <<m>>)[i] = m
  <2>1. /\ Len(toClient) \in Nat /\ Len(<<m>>) \in Nat
        /\ Len(toClient \o <<m>>) = Len(toClient) + Len(<<m>>)
        /\ DOMAIN toClient = 1 .. Len(toClient) /\ DOMAIN <<m>> = 1 .. Len(<<m>>)
        /\ DOMAIN (toClient \o <<m>>) = 1 .. Len(toClient) + Len(<<m>>)
        /\ \A i \in 1 .. Len(toClient) : (toClient \o <<m>>)[i] = toClient[i]
        /\ \A i \in 1 .. Len(toClient) + Len(<<m>>) : i \notin 1 .. Len(toClient)
             => /\ i - Len(toClient) \in 1 .. Len(<<m>>)
                /\ (toClient \o <<m>>)[i] = <<m>>[i - Len(toClient)]
    BY <1>1, <1>3, JoinParts
  <2> QED
    BY <1>3, <2>1
<1>5. ASSUME NEW j \in DOMAIN (toClient \o <<m>>), (toClient \o <<m>>)[j].type = "snapshot",
             Last(toClient \o <<m>>, AckOf(0), j), d \in (toClient \o <<m>>)[j].token
      PROVE  There(d, j)'
  <2>1. j \in 1 .. Len(toClient) /\ (toClient \o <<m>>)[j] = toClient[j]
    BY <1>2, <1>4, <1>5
  <2>2. Last(toClient, AckOf(0), j)
    BY <1>1, <1>3, <1>5, <2>1, LastLonger
  <2>3. There(d, j) /\ j \in Nat /\ j <= j
    BY <1>4, <1>5, <2>1, <2>2 DEF OnItsWay
  <2> DEFINE more == <<m>>
  <2>4. more \in Seq(ServerMessage) /\ Silent(more, AckOf(0)) /\ toClient' = toClient \o more
    BY <1>2, <1>3
  <2> HIDE DEF more
  <2> QED
    BY <1>1, <2>3, <2>4, ThereLonger
<1>6. PICK n : n = Len(toClient \o <<m>>)
  OBVIOUS
<1>7. ASSUME d \in told[0].docs PROVE There(d, n)'
  <2>1. PICK k : k = Len(toClient)
    OBVIOUS
  <2>2. There(d, k) /\ k \in Nat /\ n \in Nat /\ k <= n
    BY <1>4, <1>6, <1>7, <2>1 DEF OnItsWay
  <2> QED
    BY <1>1, <1>2, <1>3, <2>2, ThereLonger
<1>8. d \in told'[0].docs => There(d, Len(toClient))'
  BY <1>2, <1>6, <1>7 DEF There
<1> QED
  BY <1>2, <1>5, <1>8 DEF OnItsWay

LEMMA WayOthers ==
    ASSUME ReachInv, ServerRests, Answered(0), NEW d \in Present, OnItsWay(d),
           NEW intro, NEW served, OthersServed(0, intro, served)
    PROVE  OnItsWay(d)'
<1> DEFINE list == toClient
           N == News(served)
           M == intro \o N
<1>1. /\ toClient \in Seq(ServerMessage) /\ cache' = cache /\ updates' = updates
      /\ AllAsked /\ d \in Doc
  BY ReachFacts DEF ServerRests, WireInv, Present
<1>2. /\ intro \in Seq(ServerMessage) /\ served \in Partial(Target, Served)
      /\ 0 \in DOMAIN served /\ served[0] = told[0]
      /\ Silent(intro, Typed("snapshot"))
      /\ \A i \in DOMAIN intro : intro[i].target # 0
      /\ toClient' = toClient \o M
  BY DEF OthersServed
<1>3. told[0].scope = Doc
  BY <1>1 DEF AllAsked, AskedFor, Told, Answered, Scope
<1>4. M \in Seq(ServerMessage) /\ NewsOnly(M, served, 0)
  BY <1>2, ServedNews
<1>5. Silent(M, AckOf(0))
  <2> SUFFICES ASSUME NEW i \in DOMAIN M, M[i] \in AckOf(0) PROVE FALSE
    BY DEF Silent
  <2>1. M[i].type # "snapshot" /\ M[i].target = 0 /\ IsAck(M[i])
    BY DEF AckOf, IsAck
  <2>2. M[i] = Tell(served, 0)
    BY <1>4, <2>1 DEF NewsOnly
  <2> QED
    BY <1>2, <2>1, <2>2, TellFacts
<1>6. PICK n : n = Len(toClient \o M)
  OBVIOUS
<1>7. /\ Len(list) \in Nat /\ n \in Nat /\ Len(list) <= n /\ Len(intro) \in Nat
      /\ Len(list) + Len(intro) + Len(N) = n
      /\ OnlyAtEnd(list \o M, Len(list), n)
  <2>1. /\ Len(list) \in Nat /\ Len(intro) \in Nat /\ Len(N) \in Nat
        /\ Len(M) = Len(intro) + Len(N) /\ Len(list \o M) = Len(list) + Len(M)
        /\ DOMAIN (list \o M) = 1 .. Len(list \o M)
        /\ \A i \in 1 .. Len(list \o M) :
              i \notin 1 .. Len(list) /\ (list \o M)[i].type = "snapshot"
                 => i = Len(list \o M)
    BY <1>1, <1>2, AddedParts
  <2> HIDE DEF M, N
  <2>2. OnlyAtEnd(list \o M, Len(list), n)
    BY <1>6, <2>1 DEF OnlyAtEnd
  <2> QED
    BY <1>6, <2>1, <2>2
<1>8. There(d, n)'
  <2>1. CASE d \in told[0].docs
    <3>1. PICK k : k = Len(toClient)
      OBVIOUS
    <3>2. There(d, k) /\ k \in Nat /\ k <= n
      BY <1>7, <2>1, <3>1 DEF OnItsWay
    <3> HIDE DEF M
    <3> QED
      BY <1>1, <1>2, <1>4, <1>5, <1>7, <3>2, ThereLonger
  <2>2. CASE d \notin told[0].docs
    <3>1. d \in (Present \intersect served[0].scope) \ served[0].docs
      BY <1>1, <1>2, <1>3, <2>2
    <3>2. 0 \in Behind(served)
      BY <1>2, <3>1 DEF Behind
    <3>3. N \in Seq(ServerMessage) /\ \E i \in 1 .. Len(N) : N[i] = Tell(served, 0)
      BY <1>2, <3>2, NewsShape
    <3>4. PICK i \in 1 .. Len(N) : N[i] = Tell(served, 0)
      BY <3>3
    <3>5. /\ N[i] \in Tells("change", 0) /\ d \in N[i].here
      <4>1. /\ Tell(served, 0) \in ServerMessage /\ Tell(served, 0).type = "change"
            /\ Tell(served, 0).target = 0
        BY <1>2, TellFacts
      <4>2. d \in Tell(served, 0).here
        BY <3>1 DEF Tell
      <4> HIDE DEF N
      <4> QED
        BY <3>4, <4>1, <4>2 DEF Tells
    <3>6. /\ Len(intro) + i \in DOMAIN M /\ M[Len(intro) + i] = N[i]
      BY <1>2, <3>3, JoinParts
    <3> HIDE DEF M, N
    <3>7. /\ Len(list) + (Len(intro) + i) \in DOMAIN (list \o M)
          /\ Brings(list \o M, d, Len(list) + (Len(intro) + i))
      BY <1>1, <1>4, <1>5, <3>5, <3>6, BringsAdded DEF Silent
    <3>8. Len(list) + (Len(intro) + i) <= n
      BY <1>7
    <3> QED
      BY <1>2, <3>7, <3>8 DEF There
  <2> QED
    BY <2>1, <2>2
<1> HIDE DEF M, N
<1> QED
  BY <1>1, <1>2, <1>4, <1>5, <1>6, <1>7, <1>8, WayLonger

-----------------------------------------------------------------------------
(* The answer to the query's watch, and what others do.                      *)
LEMMA WayAnswered ==
    ASSUME ReachInv, ServerRests, NEW d \in Present,
           NEW deletions \in BOOLEAN, NEW filter \in BOOLEAN, NEW early \in BOOLEAN,
           NEW reset \in BOOLEAN, AnsweredNow(0, deletions, filter, early, reset)
    PROVE  OnItsWay(d)'
<1> DEFINE r == WatchFor(Book, 0)
           A == Answer(r, deletions, filter, early, reset)
           N == News(ServedThen(r))
           M == A \o N
<1>1. /\ SyncInv /\ TokensCached /\ 0 \in DOMAIN resume /\ d \in Doc
      /\ toClient \in Seq(ServerMessage) /\ told \in Partial(Target, Served)
      /\ cache' = cache /\ updates' = updates
  BY ReachFacts DEF ServerRests, Present
<1>2. /\ r \in ClientMessage /\ r.type = "watch" /\ r.target = 0 /\ r.scope = Doc
      /\ r.token = resume[0]
  BY <1>1, WatchForFacts DEF Scope
<1>3. toClient' = toClient \o M
  BY DEF AnsweredNow, Served2
<1>4. /\ M \in Seq(ServerMessage) /\ M[1] \in AckOf(0)
      /\ \A i \in DOMAIN M : i # 1 => ~IsAck(M[i])
  <2> HIDE DEF r
  <2>1. AckedOnce(M, 0)
    BY <1>1, <1>2, AnswerAcks
  <2> QED
    BY <2>1 DEF AckedOnce
<1>5. PICK n : n = Len(toClient \o M)
  OBVIOUS
<1>6. /\ A \in Seq(ServerMessage) /\ N \in Seq(ServerMessage)
      /\ Len(toClient) \in Nat /\ n \in Nat
      /\ DOMAIN (toClient \o M) = 1 .. n /\ n >= Len(toClient) + 1
      /\ (toClient \o M)[Len(toClient) + 1] \in AckOf(0)
      /\ \A i \in 1 .. n : i \notin 1 .. Len(toClient) /\ (toClient \o M)[i].type = "snapshot"
           => i = n
  <2> HIDE DEF r
  <2>1. Stands(toClient, A, N, 0)
    BY <1>1, <1>2, AnswerParts
  <2> HIDE DEF A, N
  <2> QED
    BY <1>5, <2>1 DEF Stands
<1>7. There(d, n)'
  <2>1. CASE d \in AsSet(resume[0])
    <3>1. cache[d] = "present"
      BY <1>1, <2>1 DEF TokensCached
    <3> QED
      BY <1>1, <3>1 DEF There
  <2>2. CASE d \notin AsSet(resume[0])
    <3>1. d \in NewIn(r, reset)
      BY <1>1, <1>2, <2>2 DEF NewIn, Matched, Resumed, AsSet
    <3>2. Differs(r, deletions, reset)
      BY <3>1 DEF Differs
    <3>3. PICK i \in DOMAIN A : i # 1 /\ A[i] = ChangeOf(r, deletions, reset)
      <4> HIDE DEF r
      <4>1. IsSaidIf(A, ChangeOf(r, deletions, reset), Differs(r, deletions, reset))
        BY <1>2, AnswerShape, ZenonT(60)
      <4> QED
        BY <3>2, <4>1 DEF IsSaidIf
    <3>4. A[i] \in Tells("change", 0) /\ d \in A[i].here
      <4>1. ChangeOf(r, deletions, reset) \in ServerMessage
        <5> HIDE DEF r
        <5> QED
          BY <1>2, AnswerMessages
      <4> HIDE DEF A, r
      <4> QED
        BY <1>2, <3>1, <3>3, <4>1 DEF ChangeOf, Tells
    <3> HIDE DEF A, N
    <3>5. i \in DOMAIN M /\ M[i] = A[i] /\ i \in Nat /\ i >= 1
      BY <1>6, JoinParts
    <3>6. \A k \in DOMAIN M : k > i => M[k] \notin AckOf(0)
      BY <1>4, <3>5 DEF AckOf
    <3> HIDE DEF M
    <3>7. /\ Len(toClient) + i \in DOMAIN (toClient \o M)
          /\ Brings(toClient \o M, d, Len(toClient) + i)
      BY <1>1, <1>4, <3>4, <3>5, <3>6, BringsAdded
    <3>8. Len(toClient) + i <= n
      BY <1>6, <3>7
    <3> QED
      BY <1>3, <3>7, <3>8 DEF There
  <2> QED
    BY <2>1, <2>2
<1> HIDE DEF M
<1>8. ASSUME NEW j \in DOMAIN (toClient \o M), (toClient \o M)[j].type = "snapshot",
             Last(toClient \o M, AckOf(0), j)
      PROVE  There(d, j)'
  <2>1. j \notin 1 .. Len(toClient)
    <3> SUFFICES ASSUME j \in 1 .. Len(toClient) PROVE FALSE
      OBVIOUS
    <3>1. Len(toClient) + 1 \in DOMAIN (toClient \o M) /\ Len(toClient) + 1 > j
      BY <1>6
    <3> QED
      BY <1>6, <1>8, <3>1 DEF Last
  <2>2. j = n
    BY <1>6, <1>8, <2>1
  <2> QED
    BY <1>7, <2>2
<1>9. There(d, Len(toClient))'
  BY <1>3, <1>5, <1>7 DEF There
<1> QED
  BY <1>3, <1>8, <1>9 DEF OnItsWay

LEMMA ArrivesServed ==
    ASSUME ReachInv, ServerStep
    PROVE  Arrives'
<1>1. WireInv /\ Arrives /\ ServerRests /\ 0 \in DOMAIN resume
  BY ReachFacts DEF ServerStep
<1>2. resume' = resume /\ open' = open /\ serverDocs' = serverDocs
  BY <1>1 DEF ServerRests
<1> SUFFICES ASSUME Answered(0)', NEW d \in Present PROVE OnItsWay(d)'
  BY <1>2 DEF Arrives, Present
<1>3. open /\ ~Asks(toServer', 0)
  BY <1>2 DEF Answered
<1>4. ~Asks(toServer, 0) => Answered(0) /\ OnItsWay(d)
  BY <1>1, <1>3 DEF Answered, Arrives
<1>5. \/ /\ ~Asks(toServer, 0)
         /\ \/ \E intro, served : OthersServed(0, intro, served)
            \/ \E m : OtherDropped(0, m)
      \/ \E deletions, filter, early, reset \in BOOLEAN :
            AnsweredNow(0, deletions, filter, early, reset)
  BY <1>1, <1>3, ServerForTarget
<1> QED
  BY <1>1, <1>4, <1>5, WayOthers, WayDropped, WayAnswered

LEMMA ArrivesElsewhere ==
    ASSUME ReachInv, Elsewhere
    PROVE  Arrives'
<1>1. /\ Arrives /\ Truthful /\ KnownBorn /\ AllAsked
      /\ serverDocs \in [Doc -> DocState] /\ 0 \in DOMAIN resume
  BY ReachFacts DEF WireInv
<1>2. UNCHANGED <<cache, updates, toClient, told, open, resume, toServer>>
  BY DEF Elsewhere
<1> SUFFICES ASSUME Answered(0), NEW d \in Doc, serverDocs'[d] = "present"
             PROVE  OnItsWay(d)'
  BY <1>2 DEF Arrives, Present, Answered
<1>3. CASE serverDocs[d] = "present"
  <2>1. OnItsWay(d)
    BY <1>1, <1>3 DEF Arrives, Present
  <2> QED
    BY <1>2, <2>1 DEF OnItsWay, There
<1>4. CASE serverDocs[d] = "unborn"
  <2>1. d \notin Born
    BY <1>4 DEF Born
  <2>2. d \notin told[0].docs
    BY <1>1, <2>1 DEF AllAsked, AskedFor, Told, Answered, KnownBorn
  <2>3. ASSUME NEW j \in DOMAIN toClient, toClient[j].type = "snapshot",
               Last(toClient, AckOf(0), j)
        PROVE  d \notin toClient[j].token
    BY <1>1, <2>1, <2>3 DEF Truthful, TruthAt, SaidTrue
  <2> QED
    BY <1>2, <2>2, <2>3 DEF OnItsWay
<1> QED
  BY <1>1, <1>3, <1>4 DEF Elsewhere

LEMMA ArrivesKept ==
    ASSUME ReachInv, Step
    PROVE  Arrives'
<1>1. CASE Opened
  <2>1. 0 \in DOMAIN resume
    BY ReachFacts
  <2>2. Asks(toServer', 0)
    BY <1>1, <2>1 DEF Opened
  <2> QED
    BY <2>2 DEF Arrives, Answered
<1>2. CASE CutOff
  BY <1>2 DEF CutOff, Arrives, Answered
<1>3. CASE WentOffline
  <2>1. UNCHANGED <<cache, updates, toClient, told, serverDocs, open, resume, toServer>>
    BY <1>3 DEF WentOffline
  <2>2. Arrives
    BY ReachFacts
  <2> QED
    BY <2>1, <2>2 DEF Arrives, OnItsWay, There, Present, Answered
<1> QED
  BY <1>1, <1>2, <1>3, ArrivesPlain, ArrivesSnapshot, ArrivesWritten, ArrivesServed,
     ArrivesElsewhere DEF Step

-----------------------------------------------------------------------------
(* What the token a snapshot brings stands for is there when it is noted. *)
LEMMA TokenArrived ==
    ASSUME ReachInv, toClient # <<>>, Head(toClient).type = "snapshot", IsActive(0),
           NEW d \in Present, d \in Head(toClient).token
    PROVE  cache[d] = "present" \/ updates[d] = "present"
<1>1. /\ CalmInv /\ Truthful /\ Arrives /\ ActivesAre /\ toClient \in Seq(ServerMessage)
  BY ReachFacts
<1>2. Answered(0) /\ 0 \in DOMAIN resume
  BY <1>1, FirstIsTrue
<1>3. Silent(toClient, AckOf(0)) /\ OnItsWay(d)
  BY <1>1, <1>2 DEF ActivesAre, Arrives
<1>4. Head(toClient) = toClient[1] /\ 1 \in DOMAIN toClient
      /\ DOMAIN toClient = 1 .. Len(toClient)
  BY <1>1, TailParts
<1>5. Last(toClient, AckOf(0), 1)
  BY <1>3 DEF Last, Silent
<1>6. There(d, 1)
  BY <1>3, <1>4, <1>5 DEF OnItsWay
<1>7. ASSUME NEW i \in DOMAIN toClient, i <= 1 PROVE ~Brings(toClient, d, i)
  <2>1. i = 1
    BY <1>4, <1>7
  <2> QED
    BY <1>4, <2>1 DEF Brings, Tells
<1> QED
  BY <1>6, <1>7 DEF There

LEMMA TokensSnapshot ==
    ASSUME ReachInv, SnapshotTaken
    PROVE  TokensCached'
<1>1. PICK known, saved : SnapshotStep(known, saved)
  BY SnapshotTakenMeans
<1>2. /\ toClient # <<>> /\ Head(toClient).type = "snapshot" /\ known = Head(toClient).token
      /\ known \in SUBSET Doc /\ token' = saved /\ saved \in {token, known}
      /\ 0 \notin Raised => saved = token
      /\ serverDocs' = serverDocs
      /\ TargetBegun(0) \/ SettledTarget(0, known)
  BY <1>1 DEF SnapshotStep
<1>3. TokensCached /\ AsSet(known) = known /\ AsSet(NoToken) = {}
  BY <1>2, ReachFacts, TokenIsASet DEF AsSet
<1> SUFFICES ASSUME NEW d \in Present, d \in AsSet(token') \union AsSet(resume'[0])
             PROVE  cache'[d] = "present"
  BY <1>2 DEF TokensCached, Present, AsSet
<1>4. d \in Doc
  BY DEF Present
<1>5. cache[d] = "present" \/ updates[d] = "present" => cache'[d] = "present"
  BY <1>1, <1>4, CachedThen
<1>6. /\ resume'[0] \in {NoToken, resume[0], known}
      /\ resume'[0] = known \/ resume'[0] = resume[0] \/ resume'[0] = NoToken
      /\ 0 \notin Raised => resume'[0] \in {NoToken, resume[0]}
  BY <1>2 DEF SettledTarget, TargetBegun, TargetRaised, TargetKept
<1>7. CASE d \in AsSet(token) \union AsSet(resume[0])
  BY <1>3, <1>5, <1>7 DEF TokensCached
<1>8. CASE d \in known /\ 0 \in Raised
  <2>1. IsActive(0)
    BY <1>8 DEF Raised
  <2> QED
    BY <1>2, <1>5, <1>8, <2>1, TokenArrived
<1> QED
  BY <1>2, <1>3, <1>6, <1>7, <1>8

LEMMA TokensKept ==
    ASSUME ReachInv, Step
    PROVE  TokensCached'
<1>0. TokensCached /\ KnownBorn /\ 0 \in DOMAIN resume /\ serverDocs \in [Doc -> DocState]
  BY ReachFacts
<1>1. CASE PlainStep(Head(toClient)) \/ ServerStep \/ Opened \/ WentOffline
  <2>1. UNCHANGED <<token, resume, cache, serverDocs>>
    BY <1>1 DEF PlainStep, diskVars, syncVars, ServerStep, ServerRests, Opened, WentOffline
  <2> QED
    BY <1>0, <2>1 DEF TokensCached, Present, AsSet
<1>2. CASE Written
  <2>1. token' = token /\ resume'[0] = resume[0] /\ serverDocs' = serverDocs
    BY <1>2 DEF Written, ViewStep, TargetKept
  <2> QED
    BY <1>0, <1>2, <2>1, CachedWritten DEF TokensCached, Present, AsSet
<1>3. CASE CutOff
  <2>1. /\ token' = token /\ cache' = cache /\ serverDocs' = serverDocs
        /\ resume'[0] = resume[0] \/ resume'[0] = token
    BY <1>3 DEF CutOff
  <2> QED
    BY <1>0, <2>1 DEF TokensCached, Present, AsSet
<1>4. CASE Elsewhere
  <2>1. token' = token /\ cache' = cache /\ resume' = resume
    BY <1>4 DEF Elsewhere
  <2> SUFFICES ASSUME NEW d \in Doc, serverDocs'[d] = "present",
                      d \in AsSet(token) \union AsSet(resume[0])
               PROVE  cache[d] = "present"
    BY <2>1 DEF TokensCached, Present, AsSet
  <2>2. d \in Born
    BY <1>0 DEF KnownBorn
  <2>3. d \in Present
    BY <1>0, <1>4, <2>2 DEF Elsewhere, Born, Present
  <2> QED
    BY <1>0, <2>3 DEF TokensCached
<1> QED
  BY <1>1, <1>2, <1>3, <1>4, TokensSnapshot DEF Step

-----------------------------------------------------------------------------
(* What was written here, as the server comes to tell of it.                 *)
LEMMA AddedUpdates ==
    ASSUME ReachInv, 0 \in Raised, NEW d \in AddedTo(Accepted(0))
    PROVE  d \in Changed /\ d \in Born /\ updates[d] # "none"
<1>1. AddedAreNew /\ KnownBorn /\ Gone \subseteq Born /\ d \in Doc
      /\ updates \in [Doc -> {"none", "present", "deleted", "revoked"}]
  BY ReachFacts, PresentIsBorn DEF FollowInv, AddedTo
<1>2. updates[d] # "none"
  BY <1>1 DEF AddedAreNew, AddedTo, Accepted, Raised, Scope
<1> QED
  BY <1>1, <1>2 DEF Changed, KnownBorn

LEMMA OwnSnapshot ==
    ASSUME ReachInv, SyncInv', SnapshotTaken
    PROVE  OwnKept'
<1>1. PICK known, saved : SnapshotStep(known, saved)
  BY SnapshotTakenMeans
<1>2. /\ mutated' = mutated /\ updates' = NoChanges /\ serverDocs' = serverDocs
      /\ synced' \subseteq IF 0 \in Raised THEN synced \union AddedTo(Accepted(0)) ELSE synced
      /\ mutatedKeys' = Mutated(cache', mutated', Changed)
      /\ limbo' \subseteq limbo \/ limbo' \subseteq Shown(cache', mutated') \ mutatedKeys'
  BY <1>1 DEF SnapshotStep, KnownThen
<1>3. /\ OwnKept /\ SyncInv /\ mutated \subseteq Doc
      /\ updates \in [Doc -> {"none", "present", "deleted", "revoked"}]
  BY ReachFacts, WatchSyncAssumption DEF SyncInv, PlainTypeOK
<1>4. Born' = Born
  BY <1>2 DEF Born
<1>5. synced' \subseteq Born'
  BY <1>2, <1>3, <1>4, AddedUpdates DEF OwnKept
<1>6. ASSUME NEW d \in mutated PROVE d \notin limbo'
  BY <1>2, <1>3, WritesAreMutated DEF OwnKept
<1>7. ASSUME NEW d \in mutated, d \in synced' PROVE cache'[d] # "unborn"
  <2> DEFINE new == IF \E t \in Denied : active[t].key = d THEN "deleted" ELSE updates[d]
  <2>1. cache'[d] = Newer(cache[d], new) /\ d \in Doc /\ updates[d] # "revoked"
    BY <1>1, <1>3 DEF SnapshotStep, OwnKept
  <2>2. new \in {"none", "present", "deleted"}
    BY <1>3, <2>1
  <2>3. updates[d] = "none" => cache[d] # "unborn"
    BY <1>2, <1>3, <1>7, AddedUpdates DEF OwnKept
  <2>4. new = "none" => updates[d] = "none"
    OBVIOUS
  <2> HIDE DEF new
  <2> QED
    BY <2>1, <2>2, <2>3, <2>4, NewerMeans
<1>8. ASSUME NEW d \in mutatedKeys' \ mutated' PROVE d \notin synced'
  <2>1. d \in mutatedKeys \ mutated /\ d \notin Changed
    BY <1>2, <1>8 DEF Mutated
  <2> QED
    BY <1>2, <1>3, <2>1, AddedUpdates DEF OwnKept
<1>9. \A d \in mutated : updates'[d] # "revoked"
  BY <1>2, <1>3 DEF NoChanges
<1> QED
  BY <1>2, <1>5, <1>6, <1>7, <1>8, <1>9 DEF OwnKept

LEMMA OwnWritten ==
    ASSUME ReachInv, Written
    PROVE  OwnKept'
<1>1. /\ OwnKept /\ KnownBorn /\ mutated \subseteq Doc /\ Gone \subseteq Born
      /\ cache \in [Doc -> DocState]
  BY ReachFacts, PresentIsBorn, WatchSyncAssumption DEF SyncInv, PlainTypeOK
<1>2. /\ UNCHANGED <<serverDocs, updates, synced>>
      /\ limbo' = limbo \/ limbo' \subseteq Shown(cache', mutated') \ mutatedKeys'
  BY DEF Written, ViewStep
<1>3. Born' = Born
  BY <1>2 DEF Born
<1>4. PICK e \in Doc :
         \/ /\ cache[e] = "unborn" /\ serverDocs[e] = "unborn"
            /\ mutated' = mutated \union {e} /\ cache' = cache
            /\ mutatedKeys' = Mutated(cache', mutated', {})
         \/ /\ e \in mutated /\ mutated' = mutated \ {e}
            /\ cache' = [cache EXCEPT ![e] = Newer(@, "present")]
            /\ mutatedKeys' = Mutated(cache', mutated', RenewedBy(e))
  BY DEF Written
<1>5. ASSUME NEW d \in mutated' \ mutated
      PROVE  d \notin limbo /\ updates[d] # "revoked" /\ d \notin synced
  <2>1. d \in Doc /\ d \notin Born
    BY <1>4 DEF Born
  <2> QED
    BY <1>1, <2>1 DEF OwnKept, KnownBorn
<1>6. ASSUME NEW d \in mutated' PROVE d \notin limbo'
  <2>1. d \in Shown(cache', mutated') \intersect mutated'
    BY <1>1, <1>4 DEF Shown
  <2>2. d \in mutatedKeys'
    BY <1>4, <2>1, WritesAreMutated
  <2> QED
    BY <1>1, <1>2, <1>5, <2>2 DEF OwnKept
<1>7. ASSUME NEW d \in mutated', d \in synced' PROVE cache'[d] # "unborn"
  <2>1. d \in mutated /\ d \in synced
    BY <1>2, <1>5, <1>7
  <2>2. cache[d] # "unborn" /\ d \in Doc
    BY <1>1, <2>1 DEF OwnKept
  <2>3. cache'[d] = cache[d]
    BY <1>1, <1>4, <1>7, <2>2
  <2> QED
    BY <2>2, <2>3
<1>8. ASSUME NEW d \in mutatedKeys' \ mutated' PROVE d \notin synced'
  <2>1. CASE d \notin mutated
    <3>1. d \in mutatedKeys
      BY <1>4, <1>8, <2>1 DEF Mutated
    <3> QED
      BY <1>1, <1>2, <2>1, <3>1 DEF OwnKept
  <2>2. CASE d \in mutated
    <3>1. d = e /\ mutatedKeys' = Mutated(cache', mutated', RenewedBy(e))
      BY <1>4, <1>8, <2>2
    <3>2. cache[d] = "unborn"
      BY <1>8, <3>1 DEF Mutated, RenewedBy
    <3> QED
      BY <1>1, <1>2, <2>2, <3>2 DEF OwnKept
  <2> QED
    BY <2>1, <2>2
<1>9. \A d \in mutated' : updates'[d] # "revoked"
  BY <1>1, <1>2, <1>5 DEF OwnKept
<1> QED
  BY <1>1, <1>2, <1>3, <1>6, <1>7, <1>8, <1>9 DEF OwnKept

LEMMA OwnPlain ==
    ASSUME ReachInv, PlainStep(Head(toClient))
    PROVE  OwnKept'
<1> DEFINE m == Head(toClient)
<1>1. /\ OwnKept /\ SyncInv /\ LimboIsTracked /\ mutated \subseteq Doc
  BY ReachFacts, InvImpliesLimbo, WatchSyncAssumption DEF SyncInv, PlainTypeOK
<1>2. /\ UNCHANGED <<serverDocs, synced, mutated, limbo, mutatedKeys, cache>>
      /\ IsAck(m) => updates' = updates
      /\ ~IsAck(m) /\ ~IsActive(m.target) => updates' = updates
      /\ ~IsAck(m) /\ IsActive(m.target) => Mistaken(m) \/ TakenIn(m, m.target)
  BY DEF PlainStep, AckTaken, aggregatorVars, diskVars, viewVars
<1> HIDE DEF m
<1>3. ASSUME NEW d \in mutated PROVE updates'[d] # "revoked"
  <2>1. updates[d] # "revoked" /\ d \in Doc /\ d \notin limbo
    BY <1>1 DEF OwnKept
  <2>2. CASE updates' = updates
    BY <2>1, <2>2
  <2>3. CASE TakenIn(m, m.target) /\ IsActive(m.target)
    <3>1. updates'[d] = UpdatedTo(m, d)
      BY <2>1, <2>3 DEF TakenIn
    <3>2. ~(m.type = "filter" /\ m.target # 0 /\ m.count = 0 /\ d \in Scope(m.target))
      <4> SUFFICES ASSUME m.target # 0, d \in Scope(m.target) PROVE FALSE
        OBVIOUS
      <4>1. m.target \in DOMAIN active
        <5>1. m.target \in DOMAIN resume /\ DOMAIN resume = DOMAIN active \union {0}
          BY <1>1, <2>3, InvFacts DEF IsActive
        <5> QED
          BY <5>1
      <4> QED
        BY <1>1, <2>1, <4>1 DEF LimboIsTracked, Scope
    <3> QED
      BY <2>1, <3>1, <3>2 DEF UpdatedTo
  <2> QED
    BY <1>2, <2>2, <2>3 DEF Mistaken
<1> QED
  BY <1>1, <1>2, <1>3 DEF OwnKept, Born

LEMMA OwnIsKept ==
    ASSUME ReachInv, SyncInv', Step
    PROVE  OwnKept'
<1>0. /\ OwnKept /\ OneWay /\ SyncInv /\ keys = synced /\ mutated \subseteq Doc
      /\ cache \in [Doc -> DocState]
  BY ReachFacts, OneWayStep, WatchSyncAssumption
     DEF FollowInv, Remembers, SyncInv, PlainTypeOK
<1>1. CASE ServerStep \/ Opened \/ WentOffline \/ Elsewhere
  <2>1. UNCHANGED <<synced, mutated, limbo, updates, mutatedKeys, cache>>
    BY <1>1 DEF ServerStep, ServerRests, Opened, WentOffline, Elsewhere
  <2> QED
    BY <1>0, <2>1 DEF OwnKept, OneWay
<1>2. CASE CutOff
  <2>1. /\ synced' = synced /\ mutated' = mutated /\ cache' = cache /\ updates' = NoChanges
        /\ limbo' \subseteq limbo /\ mutatedKeys' \in {mutatedKeys, mutated}
    BY <1>0, <1>2 DEF CutOff
  <2> QED
    BY <1>0, <2>1 DEF OwnKept, OneWay, NoChanges
<1> QED
  BY <1>1, <1>2, OwnPlain, OwnSnapshot, OwnWritten DEF Step

LEMMA ReachStep ==
    ASSUME ReachInv, [SyncNext]_watchSyncVars
    PROVE  ReachInv'
<1>1. FollowInv' /\ SyncInv' /\ Step
  BY FollowStep DEF ReachInv
<1>2. CacheTrue' /\ TokensCached' /\ Arrives' /\ OwnKept'
  BY <1>1, CacheTrueKept, TokensKept, ArrivesKept, OwnIsKept
<1> QED
  BY <1>1, <1>2 DEF ReachInv

LEMMA ReachInit == SyncInit => ReachInv
<1> SUFFICES ASSUME SyncInit PROVE ReachInv
  OBVIOUS
<1>1. FollowInv
  BY FollowInit
<1>2. /\ \A d \in Doc : cache[d] = "unborn"
      /\ AsSet(token) = {} /\ AsSet(resume[0]) = {} /\ ~open
  BY DEF SyncInit, AsSet
<1>3. OwnKept
  BY DEF SyncInit, OwnKept
<1> QED
  BY <1>1, <1>2, <1>3 DEF ReachInv, CacheTrue, TokensCached, Arrives, Answered

-----------------------------------------------------------------------------
(* What holds when nothing is on its way. *)
LEMMA QuietTargets ==
    ASSUME ReachInv, Quiet
    PROVE  /\ CalmInv /\ FollowInv /\ SyncInv /\ updates = NoChanges /\ ~mismatch /\ current
           /\ \A t \in DOMAIN resume :
                /\ Answered(t) /\ IsActive(t) /\ t \in DOMAIN states
                /\ states[t].current /\ states[t].changes = NoChanges
                /\ t \in DOMAIN told /\ told[t].docs = Present \intersect Scope(t)
<1>1. CalmInv /\ FollowInv /\ SyncInv /\ open /\ toServer = <<>> /\ toClient = <<>>
  BY ReachFacts DEF Quiet
<1>2. /\ updates = NoChanges /\ ~mismatch /\ current
      /\ \A t \in DOMAIN resume :
            /\ t \in Target /\ Answered(t) /\ IsActive(t) /\ t \in DOMAIN states
            /\ states[t].current /\ states[t].changes = NoChanges
            /\ t \in DOMAIN told /\ told[t].scope = Scope(t)
  BY <1>1, CalmTargets
<1>3. \A t \in DOMAIN told : told[t].docs = Present \intersect told[t].scope
  BY DEF Quiet, Behind
<1> QED
  BY <1>1, <1>2, <1>3

LEMMA QuietCache ==
    ASSUME ReachInv, Quiet, NEW d \in Present
    PROVE  cache[d] = "present"
<1>1. 0 \in DOMAIN resume /\ Arrives /\ d \in Doc /\ toClient = <<>>
  BY ReachFacts DEF Quiet, Present
<1>2. Answered(0) /\ updates = NoChanges /\ d \in told[0].docs
  BY <1>1, QuietTargets DEF Scope
<1>3. OnItsWay(d)
  BY <1>1, <1>2 DEF Arrives
<1>4. There(d, Len(toClient))
  BY <1>2, <1>3 DEF OnItsWay
<1>5. updates[d] = "none" /\ DOMAIN toClient = {}
  BY <1>1, <1>2 DEF NoChanges
<1> QED
  BY <1>4, <1>5 DEF There

LEMMA QuietKeys ==
    ASSUME ReachInv, Quiet, NEW t \in DOMAIN resume, t = 0 => intact
    PROVE  \A d \in Scope(t) : d \in RemoteKeys(t) <=> d \in Present
<1>1. /\ Follows /\ SyncInv /\ toClient = <<>> /\ DOMAIN toClient = {} /\ Len(toClient) = 0
  BY ReachFacts DEF Quiet, FollowInv
<1>2. /\ Answered(t) /\ ~mismatch /\ t \in DOMAIN states /\ states[t].changes = NoChanges
      /\ told[t].docs = Present \intersect Scope(t)
  BY QuietTargets
<1>3. CountsAgree(toClient, Accepted(0).changes, synced)
  BY <1>1 DEF CountsAgree
<1>4. TunedAt(t)
  BY <1>1, <1>2, <1>3 DEF Follows, Sane
<1>5. Accepted(t).changes = NoChanges /\ Scope(t) \in SUBSET Doc
  BY <1>1, <1>2, ScopeIsDocs DEF Accepted
<1> SUFFICES ASSUME NEW d \in Scope(t) PROVE d \in RemoteKeys(t) <=> d \in Present
  OBVIOUS
<1>6. Believes(toClient, NoChanges, RemoteKeys(t), t, d, 0) <=> d \in told[t].docs
  BY <1>1, <1>4, <1>5 DEF TunedAt, InTune
<1>7. Believes(toClient, NoChanges, RemoteKeys(t), t, d, 0)
        <=> HoldsIn(NoChanges, RemoteKeys(t), d)
  BY LatelyStart DEF Believes
<1>8. HoldsIn(NoChanges, RemoteKeys(t), d) <=> d \in RemoteKeys(t)
  BY <1>5 DEF HoldsIn, NoChanges
<1> QED
  BY <1>2, <1>6, <1>7, <1>8

LEMMA QuietDenied ==
    ASSUME ReachInv, Quiet, NEW t \in DOMAIN active, active[t].key \notin Present
    PROVE  t \in Denied
<1>1. SyncInv /\ DOMAIN resume = DOMAIN active \union {0}
      /\ active \in Partial(Target \ {0}, Resolution)
  BY ReachFacts, InvFacts
<1>2. t # 0 /\ active[t].key \in Doc /\ t \in DOMAIN resume
  <2>1. t \in Target \ {0} /\ active[t] \in Resolution
    BY <1>1, PartialFacts
  <2> QED
    BY <1>1, <2>1 DEF Resolution
<1>3. /\ IsActive(t) /\ t \in DOMAIN states /\ states[t].current /\ updates = NoChanges
  BY <1>2, QuietTargets
<1>4. active[t].key \notin RemoteKeys(t)
  BY <1>2, QuietKeys DEF Scope
<1> QED
  BY <1>2, <1>3, <1>4 DEF Denied, NoChanges

LEMMA ReachConverges == ReachInv => Converges
<1> SUFFICES ASSUME ReachInv, Quiet PROVE /\ current
                                          /\ Present \subseteq Shown(cache, mutated)
                                          /\ intact => synced = Present
                                          /\ mutatedKeys \intersect synced = {}
                                          /\ Shown(cache, mutated) \ (Present \union synced)
                                               \subseteq mutatedKeys
                                                  \union {queue[i] : i \in DOMAIN queue}
                                                  \union {active[t].key : t \in Denied}
  BY DEF Converges
<1>1. current
  BY QuietTargets
<1>2. Present \subseteq Shown(cache, mutated)
  BY QuietCache DEF Shown, Present
<1>3. ASSUME intact PROVE synced = Present
  <2>1. 0 \in DOMAIN resume /\ synced \in SUBSET Doc
    BY ReachFacts DEF SyncInv, PlainTypeOK
  <2>2. \A d \in Doc : d \in synced <=> d \in Present
    BY <1>3, <2>1, QuietKeys DEF Scope, RemoteKeys
  <2> QED
    BY <2>1, <2>2 DEF Present
<1>4. ASSUME NEW d \in Shown(cache, mutated) \ (Present \union synced)
      PROVE  d \in mutatedKeys \union {queue[i] : i \in DOMAIN queue}
                   \union {active[t].key : t \in Denied}
  <2>1. LimboIsTracked /\ ViewFresh /\ mutated = {}
    BY ReachFacts, InvImpliesLimbo DEF CalmInv, Quiet
  <2>2. d \in limbo \/ d \in mutatedKeys
    BY <1>1, <1>4, <2>1 DEF ViewFresh
  <2>3. d \in mutatedKeys \union {queue[i] : i \in DOMAIN queue}
                \union {active[t].key : t \in DOMAIN active}
    BY <2>1, <2>2 DEF LimboIsTracked
  <2>4. \A t \in DOMAIN active : active[t].key = d => t \in Denied
    BY <1>4, QuietDenied
  <2> QED
    BY <2>3, <2>4
<1>5. mutatedKeys \intersect synced = {}
  <2>1. OwnKept /\ mutated = {}
    BY ReachFacts DEF Quiet
  <2> QED
    BY <2>1 DEF OwnKept
<1> QED
  BY <1>1, <1>2, <1>3, <1>4, <1>5

(* The invariant of all of this: every step keeps it.                       *)
THEOREM ReachKept == SyncSpec => []ReachInv
<1>1. SyncInit => ReachInv
  BY ReachInit
<1>2. ReachInv /\ [SyncNext]_watchSyncVars => ReachInv'
  BY ReachStep
<1> QED
  BY <1>1, <1>2, PTL DEF SyncSpec

(* TargetCache and the remote document cache: a resume token, saved or in   *)
(* use, never stands for a document that still exists and is not cached,    *)
(* though tokens and documents are persisted by separate rules and streams  *)
(* break between them.                                                      *)
THEOREM TokensMeanCached == SyncSpec => []TokensCached
<1>1. ReachInv => TokensCached
  BY DEF ReachInv
<1> QED
  BY <1>1, ReachKept, PTL

(* A target that the server has answered and that is not about to be        *)
(* watched anew: when the client has heard all that is on its way, it holds *)
(* just what the server has told (WatchChangeAggregator).                   *)
THEOREM ClientFollows == SyncSpec => []Follows
<1>1. ReachInv => Follows
  BY DEF ReachInv, FollowInv
<1> QED
  BY <1>1, ReachKept, PTL

(* Nothing is on its way and nobody has anything to send: the view is       *)
(* current, shows every document of the server, knows which those are and   *)
(* takes none of them for a local change; what it shows besides waits in    *)
(* limbo, or was written here and acknowledged and is kept as it was        *)
(* written, because the server never told of it (View::ComputeDocument-     *)
(* Changes, View::ApplyChanges, WatchChangeAggregator, SyncEngine's limbo   *)
(* resolutions).                                                            *)
THEOREM QuietMeansConverged == SyncSpec => []Converges
BY ReachKept, ReachConverges, PTL
=============================================================================

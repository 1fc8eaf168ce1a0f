---------------------------- MODULE WatchSyncProofs ---------------------------
(***************************************************************************)
(* The watch stream and the limbo resolutions, for every number of         *)
(* documents, of limbo slots, of broken streams and of restarts.  First    *)
(* the bookkeeping (SyncInv); then what goes over the wire: lists of       *)
(* messages, what the server sends and what a client makes of it, each     *)
(* step as its targets see it, and the order of the messages (WireInv).    *)
(* ConvergenceProofs goes on from there.                                   *)
(***************************************************************************)
EXTENDS WatchSync, ListTheorems, FiniteSetTheorems, TLAPS

-----------------------------------------------------------------------------
(* Where the messages of a set stand in a list, and how many they are.     *)
Occurs(list, M) == {i \in DOMAIN list : list[i] \in M}
Count(list, M) == Cardinality(Occurs(list, M))

LEMMA OccursFinite ==
    ASSUME NEW V, NEW list \in Seq(V), NEW M
    PROVE  IsFiniteSet(Occurs(list, M)) /\ Count(list, M) \in Nat
<1>1. Len(list) \in Nat /\ DOMAIN list = 1 .. Len(list)
  BY LenProperties
<1>2. IsFiniteSet(1 .. Len(list))
  BY <1>1, FS_Interval
<1>3. Occurs(list, M) \in SUBSET (1 .. Len(list))
  BY <1>1 DEF Occurs
<1>4. IsFiniteSet(Occurs(list, M))
  BY <1>2, <1>3, FS_Subset
<1> QED
  BY <1>4, FS_CardinalityType DEF Count

LEMMA CountAppended ==
    ASSUME NEW V, NEW list \in Seq(V), NEW x \in V, NEW M
    PROVE  Count(Append(list, x), M) = Count(list, M) + (IF x \in M THEN 1 ELSE 0)
<1> DEFINE new == Append(list, x)
           n == Len(list)
<1>1. /\ n \in Nat /\ DOMAIN list = 1 .. n /\ DOMAIN new = 1 .. n + 1
      /\ \A i \in 1 .. n : new[i] = list[i]
      /\ new[n + 1] = x
  BY LenProperties, AppendProperties
<1>2. IsFiniteSet(Occurs(list, M)) /\ Count(list, M) \in Nat
  BY OccursFinite
<1> HIDE DEF new, n
<1>3. CASE x \in M
  <2>1. Occurs(new, M) = Occurs(list, M) \union {n + 1} /\ n + 1 \notin Occurs(list, M)
    BY <1>1, <1>3 DEF Occurs
  <2> QED
    BY <1>2, <1>3, <2>1, FS_AddElement DEF Count, new
<1>4. CASE x \notin M
  <2>1. Occurs(new, M) = Occurs(list, M)
    BY <1>1, <1>4 DEF Occurs
  <2> QED
    BY <1>2, <1>4, <2>1 DEF Count, new
<1> QED
  BY <1>3, <1>4

LEMMA CountTail ==
    ASSUME NEW V, NEW list \in Seq(V), list # <<>>, NEW M
    PROVE  Count(list, M) = Count(Tail(list), M) + (IF Head(list) \in M THEN 1 ELSE 0)
<1> DEFINE new == Tail(list)
           n == Len(list)
           later == Occurs(list, M) \ {1}
           back == [i \in later |-> i - 1]
<1>1. /\ n \in Nat /\ n >= 1 /\ DOMAIN list = 1 .. n /\ DOMAIN new = 1 .. n - 1
      /\ \A i \in 1 .. n - 1 : new[i] = list[i + 1]
      /\ Head(list) = list[1]
  BY LenProperties, HeadTailProperties, EmptySeq
<1>2. IsFiniteSet(Occurs(list, M)) /\ Count(list, M) \in Nat
  BY OccursFinite
<1> HIDE DEF new, n
<1>3. back \in Bijection(later, Occurs(new, M))
  <2>1. later \subseteq 2 .. n
    BY <1>1 DEF Occurs
  <2>2. ASSUME NEW i \in later PROVE i - 1 \in Occurs(new, M)
    BY <1>1, <2>1 DEF Occurs
  <2>3. ASSUME NEW i \in Occurs(new, M) PROVE i + 1 \in later /\ back[i + 1] = i
    BY <1>1 DEF Occurs
  <2>4. \A i, j \in later : i - 1 = j - 1 => i = j
    BY <2>1, <1>1
  <2> QED
    BY <2>2, <2>3, <2>4 DEF Bijection, Injection, Surjection, IsInjective
<1>4. ExistsBijection(later, Occurs(new, M))
  BY <1>3 DEF ExistsBijection
<1>5. /\ IsFiniteSet(later)
      /\ Cardinality(later) = IF 1 \in Occurs(list, M) THEN Count(list, M) - 1
                              ELSE Count(list, M)
  BY <1>2, FS_RemoveElement DEF Count
<1>6. Count(new, M) = Cardinality(later)
  BY <1>4, <1>5, FS_Bijection DEF Count
<1>7. 1 \in Occurs(list, M) <=> Head(list) \in M
  BY <1>1 DEF Occurs
<1> QED
  BY <1>2, <1>5, <1>6, <1>7 DEF new

LEMMA CountJoined ==
    ASSUME NEW V, NEW list \in Seq(V), NEW more \in Seq(V), NEW M
    PROVE  /\ list \o more \in Seq(V)
           /\ (\A i \in DOMAIN more : more[i] \notin M)
                => Count(list \o more, M) = Count(list, M)
           /\ \A k \in DOMAIN more :
                (\A i \in DOMAIN more : more[i] \in M <=> i = k)
                   => Count(list \o more, M) = Count(list, M) + 1
<1> DEFINE new == list \o more
           n == Len(list)
           m == Len(more)
<1>1. /\ new \in Seq(V) /\ n \in Nat /\ m \in Nat
      /\ DOMAIN list = 1 .. n /\ DOMAIN more = 1 .. m /\ DOMAIN new = 1 .. n + m
      /\ \A i \in 1 .. n : new[i] = list[i]
      /\ \A i \in 1 .. m : new[n + i] = more[i]
  <2>1. new \in Seq(V) /\ Len(new) = n + m
        /\ \A i \in 1 .. n + m : new[i] = IF i <= n THEN list[i] ELSE more[i - n]
    BY ConcatProperties
  <2>2. n \in Nat /\ m \in Nat /\ DOMAIN list = 1 .. n /\ DOMAIN more = 1 .. m
        /\ DOMAIN new = 1 .. Len(new)
    BY <2>1, LenProperties
  <2> HIDE DEF new, n, m
  <2>3. \A i \in 1 .. n : new[i] = list[i]
    BY <2>1, <2>2
  <2>4. \A i \in 1 .. m : new[n + i] = more[i]
    <3>1. \A i \in 1 .. m : n + i \in 1 .. n + m /\ ~(n + i <= n) /\ (n + i) - n = i
      BY <2>2
    <3> QED
      BY <2>1, <3>1
  <2> QED
    BY <2>1, <2>2, <2>3, <2>4
<1>2. IsFiniteSet(Occurs(list, M)) /\ Count(list, M) \in Nat
  BY OccursFinite
<1> HIDE DEF new, n, m
<1>3. ASSUME NEW i \in DOMAIN new, i \notin DOMAIN list
      PROVE  i - n \in DOMAIN more /\ new[i] = more[i - n] /\ n + (i - n) = i
  <2>1. i - n \in 1 .. m /\ n + (i - n) = i
    BY <1>1, <1>3
  <2> QED
    BY <1>1, <2>1
<1>4. ASSUME \A i \in DOMAIN more : more[i] \notin M
      PROVE  Count(new, M) = Count(list, M)
  <2>1. Occurs(new, M) = Occurs(list, M)
    BY <1>1, <1>3, <1>4 DEF Occurs
  <2> QED
    BY <2>1 DEF Count
<1>5. ASSUME NEW k \in DOMAIN more, \A i \in DOMAIN more : more[i] \in M <=> i = k
      PROVE  Count(new, M) = Count(list, M) + 1
  <2>1. n + k \in DOMAIN new /\ n + k \notin DOMAIN list /\ new[n + k] \in M
    BY <1>1, <1>5
  <2>2. ASSUME NEW i \in Occurs(new, M), i \notin Occurs(list, M) PROVE i = n + k
    <3>1. i \in DOMAIN new /\ i \notin DOMAIN list
      BY <1>1, <2>2 DEF Occurs
    <3>2. i - n = k
      BY <1>3, <1>5, <3>1, <2>2 DEF Occurs
    <3> QED
      BY <1>3, <3>1, <3>2
  <2>3. \A i \in Occurs(list, M) : i \in Occurs(new, M)
    BY <1>1 DEF Occurs
  <2>4. Occurs(new, M) = Occurs(list, M) \union {n + k} /\ n + k \notin Occurs(list, M)
    BY <2>1, <2>2, <2>3 DEF Occurs
  <2> QED
    BY <1>2, <2>4, FS_AddElement DEF Count
<1> QED
  BY <1>1, <1>4, <1>5 DEF new

-----------------------------------------------------------------------------
(* Maps with finitely many keys.                                           *)
Partial(D, R) == UNION {[E -> R] : E \in {F \in SUBSET D : IsFiniteSet(F)}}

LEMMA PartialFacts ==
    ASSUME NEW D, NEW R, NEW f \in Partial(D, R)
    PROVE  /\ DOMAIN f \subseteq D /\ IsFiniteSet(DOMAIN f)
           /\ \A t \in DOMAIN f : f[t] \in R
           /\ f \in [DOMAIN f -> R]
<1>1. PICK E \in SUBSET D : IsFiniteSet(E) /\ f \in [E -> R]
  BY DEF Partial
<1> QED
  BY <1>1

LEMMA FunctionIsPartial ==
    ASSUME NEW D, NEW R, NEW E \in SUBSET D, IsFiniteSet(E), NEW f \in [E -> R]
    PROVE  f \in Partial(D, R)
BY DEF Partial

LEMMA EmptyIsPartial ==
    ASSUME NEW D, NEW R PROVE <<>> \in Partial(D, R) /\ DOMAIN <<>> = {}
<1>1. <<>> \in [{} -> R]
  OBVIOUS
<1>2. IsFiniteSet({})
  BY FS_EmptySet
<1> QED
  BY <1>1, <1>2, FunctionIsPartial

LEMMA PutFacts ==
    ASSUME NEW D, NEW R, NEW f \in Partial(D, R), NEW t \in D, NEW x \in R
    PROVE  /\ Put(f, t, x) \in Partial(D, R)
           /\ DOMAIN Put(f, t, x) = DOMAIN f \union {t}
           /\ Put(f, t, x)[t] = x
           /\ \A u \in DOMAIN f : u # t => Put(f, t, x)[u] = f[u]
<1>1. /\ DOMAIN f \subseteq D /\ IsFiniteSet(DOMAIN f)
      /\ \A u \in DOMAIN f : f[u] \in R
  BY PartialFacts
<1>2. IsFiniteSet(DOMAIN f \union {t})
  BY <1>1, FS_AddElement
<1>3. Put(f, t, x) \in [DOMAIN f \union {t} -> R]
  BY <1>1 DEF Put
<1>4. Put(f, t, x) \in Partial(D, R)
  BY <1>1, <1>2, <1>3, FunctionIsPartial
<1> QED
  BY <1>4 DEF Put

LEMMA LessFacts ==
    ASSUME NEW D, NEW R, NEW f \in Partial(D, R), NEW t
    PROVE  /\ Less(f, t) \in Partial(D, R)
           /\ DOMAIN Less(f, t) = DOMAIN f \ {t}
           /\ \A u \in DOMAIN f : u # t => Less(f, t)[u] = f[u]
<1>1. /\ DOMAIN f \subseteq D /\ IsFiniteSet(DOMAIN f)
      /\ \A u \in DOMAIN f : f[u] \in R
  BY PartialFacts
<1>2. IsFiniteSet(DOMAIN f \ {t})
  BY <1>1, FS_RemoveElement
<1>3. Less(f, t) \in [DOMAIN f \ {t} -> R]
  BY <1>1 DEF Less
<1>4. Less(f, t) \in Partial(D, R)
  BY <1>1, <1>2, <1>3, FunctionIsPartial
<1> QED
  BY <1>4 DEF Less

(* A number that a finite set does not have, as Pump chooses it. *)
LEMMA FreshNumber ==
    ASSUME NEW S, IsFiniteSet(S)
    PROVE  \E u \in 1 .. Cardinality(S) + 1 : u \notin S
<1> DEFINE n == Cardinality(S)
<1>1. n \in Nat
  BY FS_CardinalityType
<1> HIDE DEF n
<1>2. IsFiniteSet(1 .. n + 1) /\ Cardinality(1 .. n + 1) = n + 1
  BY <1>1, FS_Interval
<1>3. 1 .. n + 1 \subseteq S => Cardinality(1 .. n + 1) <= n
  BY FS_Subset DEF n
<1> QED
  BY <1>1, <1>2, <1>3 DEF n

-----------------------------------------------------------------------------
(* The book that a handler of the sync engine works on.                    *)
Resolution == [key : Doc, received : BOOLEAN]
Books ==
    {b \in [queue : Seq(Doc), active : Partial(Target \ {0}, Resolution),
            resume : Partial(Target, Token), states : Partial(Target, TargetStates),
            sent : Seq(ClientMessage)] : DOMAIN b.resume = DOMAIN b.active \union {0}}

To(t) == {m \in ClientMessage : m.target = t}
Outstanding(book, t) == IF t \in DOMAIN book.states THEN book.states[t].outstanding ELSE 0

(* Every request is sent, or acknowledged by one of acks, or still counted. *)
Counted(book, acks) ==
    \A t \in Target : Outstanding(book, t) = Count(book.sent, To(t)) + acks[t]

(* What is active in the newer book was so in the older, and is unchanged. *)
Inherits(old, new) ==
    \A t \in DOMAIN new.states \intersect DOMAIN new.resume :
        new.states[t].outstanding = 0 =>
            /\ t \in DOMAIN old.states \intersect DOMAIN old.resume
            /\ new.states[t] = old.states[t]
            /\ t # 0 => new.active[t] = old.active[t]

Carries(old, acks, new) ==
    new \in Books /\ Counted(new, acks) /\ Inherits(old, new)

LEMMA BookFacts ==
    ASSUME NEW b \in Books
    PROVE  /\ b \in [queue : Seq(Doc), active : Partial(Target \ {0}, Resolution),
                     resume : Partial(Target, Token), states : Partial(Target, TargetStates),
                     sent : Seq(ClientMessage)]
           /\ b.queue \in Seq(Doc) /\ b.active \in Partial(Target \ {0}, Resolution)
           /\ b.resume \in Partial(Target, Token) /\ b.sent \in Seq(ClientMessage)
           /\ b.states \in Partial(Target, TargetStates)
           /\ DOMAIN b.resume = DOMAIN b.active \union {0}
           /\ DOMAIN b.active \subseteq Target \ {0} /\ IsFiniteSet(DOMAIN b.active)
           /\ DOMAIN b.states \subseteq Target /\ IsFiniteSet(DOMAIN b.states)
           /\ \A t \in DOMAIN b.active : b.active[t] \in Resolution
           /\ \A t \in DOMAIN b.resume : b.resume[t] \in Token
           /\ \A t \in DOMAIN b.states : b.states[t] \in TargetStates
<1>1. /\ b.queue \in Seq(Doc) /\ b.active \in Partial(Target \ {0}, Resolution)
      /\ b.resume \in Partial(Target, Token) /\ b.sent \in Seq(ClientMessage)
      /\ b.states \in Partial(Target, TargetStates)
      /\ DOMAIN b.resume = DOMAIN b.active \union {0}
  BY DEF Books
<1> QED
  BY <1>1, PartialFacts DEF Books

LEMMA FreshIsTyped == Fresh \in TargetStates /\ Fresh.outstanding = 0
BY DEF Fresh, TargetStates, NoChanges, Change

LEMMA StatePutTyped ==
    ASSUME NEW f \in Partial(Target, TargetStates), NEW t \in Target, NEW x \in TargetStates
    PROVE  Put(f, t, x) \in Partial(Target, TargetStates)
BY PutFacts

LEMMA StatePut ==
    ASSUME NEW f \in Partial(Target, TargetStates), NEW t \in Target, NEW x \in TargetStates
    PROVE  /\ DOMAIN Put(f, t, x) = DOMAIN f \union {t}
           /\ Put(f, t, x)[t] = x
           /\ \A u \in DOMAIN f : u # t => Put(f, t, x)[u] = f[u]
<1>1. DOMAIN Put(f, t, x) = DOMAIN f \union {t}
  BY DEF Put
<1>2. Put(f, t, x)[t] = x
  BY DEF Put
<1>3. \A u \in DOMAIN f : u # t => Put(f, t, x)[u] = f[u]
  BY DEF Put
<1> QED
  BY <1>1, <1>2, <1>3

LEMMA RequestCarries ==
    ASSUME NEW old, NEW acks \in [Target -> Nat], NEW b, Carries(old, acks, b),
           NEW t \in Target, NEW m \in ClientMessage, m.target = t
    PROVE  /\ Carries(old, acks, Request(b, t, m))
           /\ Request(b, t, m).queue = b.queue
           /\ Request(b, t, m).active = b.active
           /\ Request(b, t, m).resume = b.resume
<1> DEFINE state == IF t \in DOMAIN b.states THEN b.states[t] ELSE Fresh
           counted == [state EXCEPT !.outstanding = @ + 1]
           states2 == Put(b.states, t, counted)
           sent2 == Append(b.sent, m)
           c == Request(b, t, m)
<1>1. b \in Books /\ Counted(b, acks) /\ Inherits(old, b)
  BY DEF Carries
<1>2. state \in TargetStates /\ state.outstanding = Outstanding(b, t)
  BY <1>1, BookFacts, FreshIsTyped DEF Outstanding
<1>3. counted \in TargetStates /\ counted.outstanding = Outstanding(b, t) + 1
      /\ Outstanding(b, t) \in Nat
  <2> HIDE DEF state
  <2> QED
    BY <1>2 DEF TargetStates
<1>4. /\ c.queue = b.queue /\ c.active = b.active /\ c.resume = b.resume
      /\ c.states = states2 /\ c.sent = sent2
      /\ c = [queue |-> b.queue, active |-> b.active, resume |-> b.resume,
              states |-> states2, sent |-> sent2]
  <2>1. c = [b EXCEPT !.states = states2, !.sent = sent2]
    BY DEF Request
  <2> HIDE DEF c, states2, sent2
  <2> QED
    BY <1>1, <2>1, BookFacts
<1> HIDE DEF counted, state, c
<1>5. /\ states2 \in Partial(Target, TargetStates)
      /\ DOMAIN states2 = DOMAIN b.states \union {t}
      /\ states2[t] = counted
      /\ \A u \in DOMAIN b.states : u # t => states2[u] = b.states[u]
  <2>1. b.states \in Partial(Target, TargetStates)
    BY <1>1, BookFacts
  <2>2. counted \in TargetStates
    BY <1>3
  <2> QED
    <3>1. states2 \in Partial(Target, TargetStates)
      BY <2>1, <2>2, StatePutTyped
    <3> QED
      BY <2>1, <2>2, <3>1 DEF Put
<1>6. sent2 \in Seq(ClientMessage)
  BY <1>1, BookFacts, AppendProperties
<1> HIDE DEF states2, sent2
<1>7. c \in Books
  BY <1>1, <1>4, <1>5, <1>6, BookFacts DEF Books
<1>8. Counted(c, acks)
  <2> SUFFICES ASSUME NEW u \in Target
               PROVE  Outstanding(c, u) = Count(c.sent, To(u)) + acks[u]
    BY DEF Counted
  <2>1. Outstanding(b, u) = Count(b.sent, To(u)) + acks[u]
    BY <1>1 DEF Counted
  <2>2. /\ Count(sent2, To(u)) = Count(b.sent, To(u)) + (IF m \in To(u) THEN 1 ELSE 0)
        /\ Count(b.sent, To(u)) \in Nat
    BY <1>1, BookFacts, CountAppended, OccursFinite DEF sent2
  <2>3. m \in To(u) <=> u = t
    BY DEF To
  <2>4. Outstanding(c, u) = IF u = t THEN Outstanding(b, u) + 1 ELSE Outstanding(b, u)
    BY <1>3, <1>4, <1>5 DEF Outstanding
  <2> QED
    <3>1. acks[u] \in Nat
      OBVIOUS
    <3> QED
      BY <1>4, <2>1, <2>2, <2>3, <2>4, <3>1
<1>9. Inherits(old, c)
  <2> SUFFICES ASSUME NEW u \in DOMAIN c.states \intersect DOMAIN c.resume,
                      c.states[u].outstanding = 0
               PROVE  /\ u \in DOMAIN old.states \intersect DOMAIN old.resume
                      /\ c.states[u] = old.states[u]
                      /\ u # 0 => c.active[u] = old.active[u]
    BY DEF Inherits
  <2>1. u # t
    BY <1>3, <1>4, <1>5
  <2>2. u \in DOMAIN b.states \intersect DOMAIN b.resume /\ c.states[u] = b.states[u]
    BY <1>4, <1>5, <2>1
  <2> QED
    BY <1>1, <1>4, <2>2 DEF Inherits
<1> QED
  BY <1>4, <1>7, <1>8, <1>9 DEF Carries, c

LEMMA ActivePut ==
    ASSUME NEW f \in Partial(Target \ {0}, Resolution), NEW t \in Target \ {0},
           NEW x \in Resolution
    PROVE  Put(f, t, x) \in Partial(Target \ {0}, Resolution)
BY PutFacts

LEMMA ResumePut ==
    ASSUME NEW f \in Partial(Target, Token), NEW t \in Target, NEW x \in Token
    PROVE  Put(f, t, x) \in Partial(Target, Token)
BY PutFacts

LEMMA TokensAreTyped == NoToken \in Token /\ \A S \in SUBSET Doc : S \in Token
<1>1. NoToken \in Token
  BY DEF Token
<1>2. ASSUME NEW S \in SUBSET Doc PROVE S \in Token
  BY <1>2 DEF Token
<1> QED
  BY <1>1, <1>2

LEMMA WatchIsMessage ==
    ASSUME NEW t \in Target, NEW scope \in SUBSET Doc, NEW known \in Token
    PROVE  /\ [type |-> "watch", target |-> t, scope |-> scope, token |-> known]
                \in ClientMessage
           /\ [type |-> "unwatch", target |-> t] \in ClientMessage
BY DEF ClientMessage

LEMMA SendWatchCarries ==
    ASSUME NEW old, NEW acks \in [Target -> Nat], NEW b, Carries(old, acks, b),
           NEW t \in DOMAIN b.resume, NEW scope \in SUBSET Doc
    PROVE  /\ Carries(old, acks, SendWatch(b, t, scope))
           /\ SendWatch(b, t, scope).queue = b.queue
           /\ SendWatch(b, t, scope).active = b.active
           /\ SendWatch(b, t, scope).resume = b.resume
<1> DEFINE m == [type |-> "watch", target |-> t, scope |-> scope, token |-> b.resume[t]]
<1>1. b \in Books
  BY DEF Carries
<1>2. t \in Target /\ b.resume[t] \in Token
  <2>1. DOMAIN b.resume \subseteq Target
    BY <1>1, BookFacts DEF Target
  <2> QED
    BY <1>1, <2>1, BookFacts
<1>3. m \in ClientMessage /\ m.target = t
  BY <1>2, WatchIsMessage
<1> HIDE DEF m
<1> QED
  BY <1>2, <1>3, RequestCarries DEF SendWatch, m

LEMMA SendUnwatchCarries ==
    ASSUME NEW old, NEW acks \in [Target -> Nat], NEW b, Carries(old, acks, b),
           NEW t \in Target
    PROVE  /\ Carries(old, acks, SendUnwatch(b, t))
           /\ SendUnwatch(b, t).queue = b.queue
           /\ SendUnwatch(b, t).active = b.active
           /\ SendUnwatch(b, t).resume = b.resume
<1> DEFINE m == [type |-> "unwatch", target |-> t]
<1>1. m \in ClientMessage /\ m.target = t
  BY DEF ClientMessage
<1> HIDE DEF m
<1> QED
  BY <1>1, RequestCarries DEF SendUnwatch, m

(* The book with the next resolution of the queue as target t. *)
Listening(b, t) ==
    [b EXCEPT !.queue = Tail(@),
              !.active = Put(@, t, [key |-> Head(b.queue), received |-> FALSE]),
              !.resume = Put(@, t, NoToken)]

IsFree(b, t) == t \in Target \ {0} /\ t \notin DOMAIN b.active /\ t \notin DOMAIN b.states

LEMMA PumpEffect ==
    ASSUME NEW b \in Books
    PROVE  \/ /\ b.queue = <<>> \/ Cardinality(DOMAIN b.active) >= MaxActive
              /\ Pump(b) = b
           \/ /\ b.queue # <<>> /\ ~(Cardinality(DOMAIN b.active) >= MaxActive)
              /\ \E t : /\ IsFree(b, t)
                        /\ Pump(b) = IF open THEN SendWatch(Listening(b, t), t, {Head(b.queue)})
                                     ELSE Listening(b, t)
<1> DEFINE used == DOMAIN b.active \union DOMAIN b.states
           t == CHOOSE u \in 1 .. Cardinality(used) + 1 : u \notin used
<1>1. IsFiniteSet(used)
  BY BookFacts, FS_Union
<1>2. Cardinality(used) \in Nat /\ \E u \in 1 .. Cardinality(used) + 1 : u \notin used
  BY <1>1, FreshNumber, FS_CardinalityType
<1>3. t \in 1 .. Cardinality(used) + 1 /\ t \notin used
  <2> HIDE DEF used
  <2> QED
    BY <1>2
<1>4. IsFree(b, t)
  BY <1>2, <1>3 DEF IsFree, Target
<1> HIDE DEF t
<1>5. ASSUME b.queue # <<>>, ~(Cardinality(DOMAIN b.active) >= MaxActive)
      PROVE  Pump(b) = IF open THEN SendWatch(Listening(b, t), t, {Head(b.queue)})
                       ELSE Listening(b, t)
  BY <1>5 DEF Pump, Listening, t
<1>6. ASSUME b.queue = <<>> \/ Cardinality(DOMAIN b.active) >= MaxActive
      PROVE  Pump(b) = b
  BY <1>6 DEF Pump
<1> QED
  BY <1>4, <1>5, <1>6

LEMMA ListeningFacts ==
    ASSUME NEW b \in Books, NEW t, IsFree(b, t), b.queue # <<>>
    PROVE  /\ Listening(b, t) \in Books
           /\ Listening(b, t).queue = Tail(b.queue)
           /\ Listening(b, t).states = b.states /\ Listening(b, t).sent = b.sent
           /\ DOMAIN Listening(b, t).active = DOMAIN b.active \union {t}
           /\ DOMAIN Listening(b, t).resume = DOMAIN b.resume \union {t}
           /\ Listening(b, t).active[t] = [key |-> Head(b.queue), received |-> FALSE]
           /\ Listening(b, t).active[t].key = Head(b.queue)
           /\ Listening(b, t).resume[t] = NoToken
           /\ t \notin DOMAIN b.resume
           /\ \A u \in DOMAIN b.active : Listening(b, t).active[u] = b.active[u]
           /\ \A u \in DOMAIN b.resume : Listening(b, t).resume[u] = b.resume[u]
           /\ Head(b.queue) \in Doc
<1> DEFINE c == Listening(b, t)
           x == [key |-> Head(b.queue), received |-> FALSE]
<1>1. Head(b.queue) \in Doc /\ Tail(b.queue) \in Seq(Doc)
  BY BookFacts, HeadTailProperties
<1>2. x \in Resolution /\ x.key = Head(b.queue)
  BY <1>1 DEF Resolution
<1>3. t \in Target \ {0} /\ t \in Target /\ t \notin DOMAIN b.active
  BY DEF IsFree
<1> HIDE DEF x
<1>4. /\ Put(b.active, t, x) \in Partial(Target \ {0}, Resolution)
      /\ Put(b.resume, t, NoToken) \in Partial(Target, Token)
  BY <1>2, <1>3, BookFacts, ActivePut, ResumePut, TokensAreTyped
<1>5. /\ c.queue = Tail(b.queue) /\ c.active = Put(b.active, t, x)
      /\ c.resume = Put(b.resume, t, NoToken)
      /\ c.states = b.states /\ c.sent = b.sent
      /\ c \in [queue : Seq(Doc), active : Partial(Target \ {0}, Resolution),
                resume : Partial(Target, Token), states : Partial(Target, TargetStates),
                sent : Seq(ClientMessage)]
  <2>1. c = [b EXCEPT !.queue = Tail(b.queue), !.active = Put(b.active, t, x),
                      !.resume = Put(b.resume, t, NoToken)]
    BY BookFacts DEF Listening, x
  <2> HIDE DEF c
  <2> QED
    BY <1>1, <1>4, <2>1, BookFacts
<1> HIDE DEF c
<1>6. /\ DOMAIN c.active = DOMAIN b.active \union {t}
      /\ DOMAIN c.resume = DOMAIN b.resume \union {t}
      /\ c.active[t] = x
      /\ \A u \in DOMAIN b.active : c.active[u] = b.active[u]
  BY <1>3, <1>5 DEF Put
<1>8. /\ t \notin DOMAIN b.resume /\ c.resume[t] = NoToken
      /\ \A u \in DOMAIN b.resume : c.resume[u] = b.resume[u]
  <2>1. t \notin DOMAIN b.resume
    BY <1>3, BookFacts
  <2> QED
    BY <2>1, <1>5 DEF Put
<1>7. c \in Books
  BY <1>5, <1>6, BookFacts DEF Books
<1> QED
  BY <1>1, <1>2, <1>5, <1>6, <1>7, <1>8 DEF c, x

LEMMA PumpCarries ==
    ASSUME NEW old, NEW acks \in [Target -> Nat], NEW b, Carries(old, acks, b)
    PROVE  Carries(old, acks, Pump(b))
<1>1. b \in Books /\ Counted(b, acks) /\ Inherits(old, b)
  BY DEF Carries
<1>2. ASSUME NEW t, IsFree(b, t), b.queue # <<>>
      PROVE  /\ Carries(old, acks, Listening(b, t))
             /\ t \in DOMAIN Listening(b, t).resume
             /\ {Head(b.queue)} \in SUBSET Doc
  <2> DEFINE c == Listening(b, t)
  <2>1. /\ c \in Books
        /\ c.states = b.states /\ c.sent = b.sent
        /\ DOMAIN c.resume = DOMAIN b.resume \union {t}
        /\ \A u \in DOMAIN b.active : c.active[u] = b.active[u]
        /\ Head(b.queue) \in Doc
        /\ t \notin DOMAIN b.states
    BY <1>1, <1>2, ListeningFacts DEF IsFree
  <2> HIDE DEF c
  <2>2. Counted(c, acks)
    BY <1>1, <2>1 DEF Counted, Outstanding
  <2>3. Inherits(old, c)
    <3> SUFFICES ASSUME NEW u \in DOMAIN c.states \intersect DOMAIN c.resume,
                        c.states[u].outstanding = 0
                 PROVE  /\ u \in DOMAIN old.states \intersect DOMAIN old.resume
                        /\ c.states[u] = old.states[u]
                        /\ u # 0 => c.active[u] = old.active[u]
      BY DEF Inherits
    <3>1. u \in DOMAIN b.states \intersect DOMAIN b.resume
      BY <2>1
    <3>2. u # 0 => u \in DOMAIN b.active
      BY <1>1, <3>1, BookFacts
    <3> QED
      BY <1>1, <2>1, <3>1, <3>2 DEF Inherits
  <2> QED
    BY <2>1, <2>2, <2>3 DEF Carries, c
<1>3. CASE Pump(b) = b
  BY <1>3
<1>4. ASSUME NEW t, IsFree(b, t), b.queue # <<>>,
             Pump(b) = IF open THEN SendWatch(Listening(b, t), t, {Head(b.queue)})
                       ELSE Listening(b, t)
      PROVE  Carries(old, acks, Pump(b))
  <2>1. Carries(old, acks, SendWatch(Listening(b, t), t, {Head(b.queue)}))
    BY <1>2, <1>4, SendWatchCarries
  <2> QED
    BY <1>2, <1>4, <2>1
<1> QED
  BY <1>1, <1>3, <1>4, PumpEffect

-----------------------------------------------------------------------------
(* What the book says of limbo: the documents it waits for or resolves are *)
(* those of L, each once, and no slot is free while one waits.             *)
Keys(b) == {b.active[t].key : t \in DOMAIN b.active}

Tracks(b, L) ==
    /\ L = Entries(b.queue) \union Keys(b)
    /\ NoneTwice(b.queue)
    /\ \A t, u \in DOMAIN b.active : b.active[t].key = b.active[u].key => t = u
    /\ Entries(b.queue) \intersect Keys(b) = {}

Slots(b) == Cardinality(DOMAIN b.active)

Filled(b) ==
    /\ Slots(b) <= MaxActive
    /\ b.queue # <<>> => Slots(b) = MaxActive

(* One slot may be free. *)
NearlyFilled(b) ==
    /\ Slots(b) <= MaxActive
    /\ b.queue # <<>> => Slots(b) + 1 >= MaxActive \/ Len(b.queue) = 1

LEMMA SlotsAreNumbers ==
    ASSUME NEW b \in Books PROVE Slots(b) \in Nat /\ MaxActive \in Nat /\ MaxActive >= 1
BY BookFacts, FS_CardinalityType, WatchSyncAssumption DEF Slots

LEMMA SendKeeps ==
    ASSUME NEW b \in Books, NEW t, NEW scope
    PROVE  /\ SendWatch(b, t, scope).queue = b.queue
           /\ SendWatch(b, t, scope).active = b.active
           /\ SendUnwatch(b, t).queue = b.queue
           /\ SendUnwatch(b, t).active = b.active
BY BookFacts DEF SendWatch, SendUnwatch, Request

LEMMA PumpTracks ==
    ASSUME NEW b \in Books, NEW L, Tracks(b, L), NearlyFilled(b)
    PROVE  Tracks(Pump(b), L) /\ Filled(Pump(b))
<1>1. Slots(b) \in Nat /\ MaxActive \in Nat
  BY SlotsAreNumbers
<1>2. CASE /\ b.queue = <<>> \/ Cardinality(DOMAIN b.active) >= MaxActive
           /\ Pump(b) = b
  BY <1>1, <1>2 DEF NearlyFilled, Filled, Slots
<1>3. ASSUME NEW t, b.queue # <<>>, ~(Cardinality(DOMAIN b.active) >= MaxActive), IsFree(b, t),
             Pump(b) = IF open THEN SendWatch(Listening(b, t), t, {Head(b.queue)})
                       ELSE Listening(b, t)
      PROVE  Tracks(Pump(b), L) /\ Filled(Pump(b))
  <2> DEFINE c == Listening(b, t)
  <2>1. /\ c \in Books /\ c.queue = Tail(b.queue)
        /\ DOMAIN c.active = DOMAIN b.active \union {t} /\ t \notin DOMAIN b.active
        /\ c.active[t].key = Head(b.queue)
        /\ \A u \in DOMAIN b.active : c.active[u] = b.active[u]
        /\ DOMAIN c.resume = DOMAIN b.resume \union {t}
        /\ {Head(b.queue)} \in SUBSET Doc
    BY <1>3, ListeningFacts DEF IsFree
  <2>2. Pump(b).queue = c.queue /\ Pump(b).active = c.active
    <3>1. /\ SendWatch(c, t, {Head(b.queue)}).queue = c.queue
          /\ SendWatch(c, t, {Head(b.queue)}).active = c.active
      BY <2>1, SendKeeps
    <3> QED
      BY <1>3, <3>1
  <2> DEFINE p == Pump(b)
             d == Head(b.queue)
  <2> HIDE DEF c, p
  <2>3. /\ p.queue = Tail(b.queue)
        /\ DOMAIN p.active = DOMAIN b.active \union {t}
        /\ p.active[t].key = d
        /\ \A u \in DOMAIN b.active : p.active[u] = b.active[u]
    BY <2>1, <2>2 DEF p
  <2>4. /\ Entries(p.queue) = Entries(b.queue) \ {d} /\ NoneTwice(p.queue)
        /\ d \in Entries(b.queue)
    BY <1>3, <2>3, BookFacts, TailEntries DEF Tracks
  <2>5. Keys(p) = Keys(b) \union {d}
    BY <2>1, <2>3 DEF Keys
  <2>6. Tracks(p, L)
    <3>1. d \notin Keys(b)
      BY <2>4 DEF Tracks
    <3>2. \A u \in DOMAIN b.active : b.active[u].key # d
      BY <3>1 DEF Keys
    <3>3. \A u, v \in DOMAIN p.active : p.active[u].key = p.active[v].key => u = v
      BY <2>3, <3>2 DEF Tracks
    <3>4. L = Entries(p.queue) \union Keys(p) /\ Entries(p.queue) \intersect Keys(p) = {}
      BY <2>4, <2>5 DEF Tracks
    <3> QED
      BY <2>4, <3>3, <3>4 DEF Tracks
  <2>7. Slots(p) = Slots(b) + 1
    BY <2>1, <2>3, BookFacts, FS_AddElement DEF Slots
  <2>8. p.queue # <<>> => Len(b.queue) # 1
    <3>1. b.queue \in Seq(Doc)
      BY BookFacts
    <3>2. Len(Tail(b.queue)) = Len(b.queue) - 1 /\ Tail(b.queue) \in Seq(Doc)
      BY <1>3, <3>1, HeadTailProperties
    <3>3. Len(Tail(b.queue)) = 0 => Tail(b.queue) = <<>>
      BY <3>2, EmptySeq
    <3> QED
      BY <2>3, <3>2, <3>3
  <2>9. Filled(p)
    BY <1>1, <1>3, <2>7, <2>8 DEF Filled, NearlyFilled, Slots
  <2> QED
    BY <2>6, <2>9 DEF p
<1> QED
  BY <1>2, <1>3, PumpEffect

(* The book without d in the queue, and without the resolution t. *)
Dequeued(b, d) == [b EXCEPT !.queue = Selected(@, Doc \ {d})]
Stopped(b, d, t) == [Dequeued(b, d) EXCEPT !.resume = Less(@, t), !.active = Less(@, t)]

LEMMA DequeuedFacts ==
    ASSUME NEW b \in Books, NEW d
    PROVE  /\ Dequeued(b, d) \in Books
           /\ Dequeued(b, d).queue = Selected(b.queue, Doc \ {d})
           /\ Dequeued(b, d).active = b.active /\ Dequeued(b, d).resume = b.resume
           /\ Dequeued(b, d).states = b.states /\ Dequeued(b, d).sent = b.sent
           /\ Entries(Dequeued(b, d).queue) = Entries(b.queue) \ {d}
           /\ NoneTwice(b.queue) => NoneTwice(Dequeued(b, d).queue)
           /\ Dequeued(b, d).queue # <<>> => b.queue # <<>>
<1> DEFINE c == Dequeued(b, d)
           q == Selected(b.queue, Doc \ {d})
<1>1. b.queue \in Seq(Doc)
  BY BookFacts
<1>2. q \in Seq(Doc)
  <2>1. q \in Seq(Doc \intersect (Doc \ {d}))
    BY <1>1, SelectedProperties
  <2>2. Doc \intersect (Doc \ {d}) \subseteq Doc
    OBVIOUS
  <2> HIDE DEF q
  <2> QED
    BY <2>1, <2>2, SeqMonotonic
<1>3. /\ Entries(q) = Entries(b.queue) \intersect (Doc \ {d})
      /\ NoneTwice(b.queue) => NoneTwice(q)
  BY <1>1, SelectedEntries
<1>4. Entries(b.queue) \subseteq Doc
  BY <1>1, ElementOfSeq, LenProperties DEF Entries
<1>5. q # <<>> => b.queue # <<>>
  <2>1. Len(q) <= Len(b.queue)
    BY <1>1, SelectedProperties
  <2>2. q # <<>> => Len(q) \in Nat \ {0}
    BY <1>2, EmptySeq
  <2>3. Len(<<>>) = 0
    BY EmptySeq
  <2> HIDE DEF q
  <2> QED
    BY <2>1, <2>2, <2>3
<1>6. /\ c.queue = q /\ c.active = b.active /\ c.resume = b.resume
      /\ c.states = b.states /\ c.sent = b.sent
      /\ c \in Books
  <2>1. c = [b EXCEPT !.queue = q]
    BY DEF Dequeued
  <2> HIDE DEF c, q
  <2> QED
    BY <1>2, <2>1, BookFacts DEF Books
<1> QED
  BY <1>3, <1>4, <1>5, <1>6

LEMMA StoppedFacts ==
    ASSUME NEW b \in Books, NEW d, NEW t \in DOMAIN b.active
    PROVE  /\ Stopped(b, d, t) \in Books
           /\ Stopped(b, d, t).queue = Dequeued(b, d).queue
           /\ Stopped(b, d, t).states = b.states /\ Stopped(b, d, t).sent = b.sent
           /\ DOMAIN Stopped(b, d, t).active = DOMAIN b.active \ {t}
           /\ DOMAIN Stopped(b, d, t).resume = DOMAIN b.resume \ {t}
           /\ \A u \in DOMAIN b.active : u # t => Stopped(b, d, t).active[u] = b.active[u]
           /\ \A u \in DOMAIN b.resume : u # t => Stopped(b, d, t).resume[u] = b.resume[u]
<1> DEFINE c == Stopped(b, d, t)
           r == Dequeued(b, d)
<1>1. /\ r \in Books /\ r.active = b.active /\ r.resume = b.resume
      /\ r.states = b.states /\ r.sent = b.sent
  BY DequeuedFacts
<1>2. t # 0
  BY BookFacts DEF Target
<1>3. /\ Less(b.active, t) \in Partial(Target \ {0}, Resolution)
      /\ Less(b.resume, t) \in Partial(Target, Token)
  BY BookFacts, LessFacts
<1>4. /\ c.queue = r.queue /\ c.active = Less(b.active, t) /\ c.resume = Less(b.resume, t)
      /\ c.states = b.states /\ c.sent = b.sent
      /\ c \in [queue : Seq(Doc), active : Partial(Target \ {0}, Resolution),
                resume : Partial(Target, Token), states : Partial(Target, TargetStates),
                sent : Seq(ClientMessage)]
  <2>1. c = [r EXCEPT !.resume = Less(b.resume, t), !.active = Less(b.active, t)]
    BY <1>1 DEF Stopped
  <2> HIDE DEF c, r
  <2> QED
    BY <1>1, <1>3, <2>1, BookFacts
<1> HIDE DEF c, r
<1>5. /\ DOMAIN c.active = DOMAIN b.active \ {t}
      /\ DOMAIN c.resume = DOMAIN b.resume \ {t}
      /\ \A u \in DOMAIN b.active : u # t => c.active[u] = b.active[u]
      /\ \A u \in DOMAIN b.resume : u # t => c.resume[u] = b.resume[u]
  BY <1>4 DEF Less
<1>6. c \in Books
  BY <1>2, <1>4, <1>5, BookFacts DEF Books
<1> QED
  BY <1>4, <1>5, <1>6 DEF c, r

LEMMA UntrackEffect ==
    ASSUME NEW b \in Books, NEW d
    PROVE  \/ ActiveFor(b, d) = {} /\ Untrack(b, d) = Dequeued(b, d)
           \/ \E t \in ActiveFor(b, d) :
                Untrack(b, d) = Pump(IF open THEN SendUnwatch(Stopped(b, d, t), t)
                                     ELSE Stopped(b, d, t))
<1>1. CASE ActiveFor(b, d) = {}
  BY <1>1 DEF Untrack, Dequeued
<1>2. CASE ActiveFor(b, d) # {}
  <2> DEFINE t == CHOOSE u \in ActiveFor(b, d) : TRUE
  <2>1. t \in ActiveFor(b, d)
    BY <1>2
  <2>2. Untrack(b, d) = Pump(IF open THEN SendUnwatch(Stopped(b, d, t), t)
                             ELSE Stopped(b, d, t))
    BY <1>2 DEF Untrack, Stopped, Dequeued
  <2> QED
    BY <2>1, <2>2
<1> QED
  BY <1>1, <1>2

-----------------------------------------------------------------------------
(* What every step of a handler keeps, from the book it started with.      *)
Sound(old, acks, b, L) == Carries(old, acks, b) /\ Tracks(b, L) /\ Filled(b)

LEMMA NarrowedCarries ==
    ASSUME NEW old, NEW acks, NEW b, Carries(old, acks, b), NEW c \in Books,
           c.states = b.states, c.sent = b.sent,
           DOMAIN c.resume \subseteq DOMAIN b.resume,
           \A u \in DOMAIN c.active : u \in DOMAIN b.active /\ c.active[u] = b.active[u]
    PROVE  Carries(old, acks, c)
<1>1. b \in Books /\ Counted(b, acks) /\ Inherits(old, b)
  BY DEF Carries
<1>2. Counted(c, acks)
  BY <1>1 DEF Counted, Outstanding
<1>3. Inherits(old, c)
  <2> SUFFICES ASSUME NEW u \in DOMAIN c.states \intersect DOMAIN c.resume,
                      c.states[u].outstanding = 0
               PROVE  /\ u \in DOMAIN old.states \intersect DOMAIN old.resume
                      /\ c.states[u] = old.states[u]
                      /\ u # 0 => c.active[u] = old.active[u]
    BY DEF Inherits
  <2>1. u # 0 => u \in DOMAIN c.active
    BY BookFacts
  <2> QED
    BY <1>1, <2>1 DEF Inherits
<1> QED
  BY <1>2, <1>3 DEF Carries

LEMMA ActiveForKeys ==
    ASSUME NEW b, NEW d
    PROVE  /\ ActiveFor(b, d) = {} <=> d \notin Keys(b)
           /\ \A t \in ActiveFor(b, d) : t \in DOMAIN b.active /\ b.active[t].key = d
BY DEF ActiveFor, Keys

LEMMA UntrackSound ==
    ASSUME NEW old, NEW acks \in [Target -> Nat], NEW b, NEW L, Sound(old, acks, b, L), NEW d
    PROVE  Sound(old, acks, Untrack(b, d), L \ {d})
<1> DEFINE r == Dequeued(b, d)
<1>1. /\ b \in Books /\ Carries(old, acks, b) /\ Tracks(b, L) /\ Filled(b)
  BY DEF Sound, Carries
<1>2. /\ r \in Books /\ r.active = b.active /\ r.resume = b.resume
      /\ r.states = b.states /\ r.sent = b.sent
      /\ Entries(r.queue) = Entries(b.queue) \ {d}
      /\ NoneTwice(r.queue)
      /\ r.queue # <<>> => b.queue # <<>>
  BY <1>1, DequeuedFacts DEF Tracks
<1>3. Slots(b) \in Nat /\ MaxActive \in Nat
  BY <1>1, SlotsAreNumbers
<1>4. CASE ActiveFor(b, d) = {} /\ Untrack(b, d) = r
  <2> HIDE DEF r
  <2>1. Carries(old, acks, r)
    BY <1>1, <1>2, NarrowedCarries
  <2>2. d \notin Keys(b) /\ Keys(r) = Keys(b)
    BY <1>2, <1>4, ActiveForKeys DEF Keys
  <2>3. Tracks(r, L \ {d})
    BY <1>1, <1>2, <2>2 DEF Tracks
  <2>4. Filled(r)
    BY <1>1, <1>2 DEF Filled, Slots
  <2> QED
    BY <1>4, <2>1, <2>3, <2>4 DEF Sound
<1>5. ASSUME NEW t \in ActiveFor(b, d),
             Untrack(b, d) = Pump(IF open THEN SendUnwatch(Stopped(b, d, t), t)
                                  ELSE Stopped(b, d, t))
      PROVE  Sound(old, acks, Untrack(b, d), L \ {d})
  <2> DEFINE s == Stopped(b, d, t)
             u == IF open THEN SendUnwatch(s, t) ELSE s
  <2>1. t \in DOMAIN b.active /\ b.active[t].key = d /\ d \in Keys(b) /\ t \in Target
    BY <1>1, <1>5, ActiveForKeys, BookFacts
  <2>2. /\ s \in Books /\ s.queue = r.queue /\ s.states = b.states /\ s.sent = b.sent
        /\ DOMAIN s.active = DOMAIN b.active \ {t}
        /\ DOMAIN s.resume = DOMAIN b.resume \ {t}
        /\ \A v \in DOMAIN b.active : v # t => s.active[v] = b.active[v]
    BY <1>1, <2>1, StoppedFacts
  <2> HIDE DEF s, r
  <2>3. Carries(old, acks, s)
    BY <1>1, <2>2, NarrowedCarries
  <2>4. /\ Carries(old, acks, u) /\ u \in Books
        /\ u.queue = s.queue /\ u.active = s.active
    BY <2>1, <2>2, <2>3, SendUnwatchCarries DEF Carries
  <2> HIDE DEF u
  <2>5. \A v \in DOMAIN b.active : v # t => b.active[v].key # d
    BY <1>1, <2>1 DEF Tracks
  <2>6. Keys(u) = Keys(b) \ {d}
    BY <2>1, <2>2, <2>4, <2>5 DEF Keys
  <2>7. Tracks(u, L \ {d})
    <3>1. d \notin Entries(b.queue) /\ Entries(u.queue) = Entries(b.queue)
      <4>1. d \notin Entries(b.queue)
        BY <1>1, <2>1 DEF Tracks
      <4>2. u.queue = r.queue
        BY <2>2, <2>4
      <4> QED
        BY <1>2, <4>1, <4>2
    <3>2. \A v, w \in DOMAIN u.active : u.active[v].key = u.active[w].key => v = w
      BY <1>1, <2>2, <2>4 DEF Tracks
    <3>3. L \ {d} = Entries(u.queue) \union Keys(u) /\ Entries(u.queue) \intersect Keys(u) = {}
      BY <1>1, <2>6, <3>1 DEF Tracks
    <3>4. NoneTwice(u.queue)
      BY <1>2, <2>2, <2>4
    <3> QED
      BY <3>2, <3>3, <3>4 DEF Tracks
  <2>8. Slots(u) = Slots(b) - 1
    BY <1>1, <2>1, <2>2, <2>4, BookFacts, FS_RemoveElement DEF Slots
  <2>9. NearlyFilled(u)
    BY <1>1, <1>2, <1>3, <2>2, <2>4, <2>8 DEF NearlyFilled, Filled
  <2>10. Carries(old, acks, Pump(u)) /\ Tracks(Pump(u), L \ {d}) /\ Filled(Pump(u))
    BY <2>4, <2>7, <2>9, PumpCarries, PumpTracks
  <2> QED
    BY <1>5, <2>10 DEF Sound, u, s
<1> QED
  BY <1>1, <1>4, <1>5, UntrackEffect

LEMMA TrackSound ==
    ASSUME NEW old, NEW acks \in [Target -> Nat], NEW b, NEW L, Sound(old, acks, b, L),
           NEW d \in Doc
    PROVE  Sound(old, acks, Track(b, d), L \union {d})
<1> DEFINE a == [b EXCEPT !.queue = Append(@, d)]
<1>1. /\ b \in Books /\ Carries(old, acks, b) /\ Tracks(b, L) /\ Filled(b)
  BY DEF Sound, Carries
<1>2. Slots(b) \in Nat /\ MaxActive \in Nat
  BY <1>1, SlotsAreNumbers
<1>3. CASE ActiveFor(b, d) = {} /\ \A i \in DOMAIN b.queue : b.queue[i] # d
  <2>1. Track(b, d) = Pump(a)
    BY <1>3 DEF Track
  <2>2. /\ a \in Books /\ a.queue = Append(b.queue, d) /\ a.active = b.active
        /\ a.resume = b.resume /\ a.states = b.states /\ a.sent = b.sent
    <3>1. Append(b.queue, d) \in Seq(Doc)
      BY <1>1, BookFacts, AppendProperties
    <3> QED
      BY <1>1, <3>1, BookFacts DEF Books
  <2> HIDE DEF a
  <2>3. Carries(old, acks, a)
    BY <1>1, <2>2, NarrowedCarries
  <2>4. d \notin Keys(b) /\ d \notin Entries(b.queue) /\ Keys(a) = Keys(b)
    BY <1>3, <2>2, ActiveForKeys DEF Keys, Entries
  <2>5. Entries(a.queue) = Entries(b.queue) \union {d} /\ NoneTwice(a.queue)
    BY <1>1, <2>2, <2>4, BookFacts, AppendedEntries DEF Tracks
  <2>6. Tracks(a, L \union {d})
    BY <1>1, <2>2, <2>4, <2>5 DEF Tracks
  <2>7. NearlyFilled(a)
    <3>1. b.queue = <<>> => Len(a.queue) = 1
      <4>1. Len(a.queue) = Len(b.queue) + 1 /\ Len(<<>>) = 0
        BY <1>1, <2>2, BookFacts, AppendProperties, EmptySeq
      <4> QED
        BY <4>1
    <3> QED
      BY <1>1, <1>2, <2>2, <3>1 DEF NearlyFilled, Filled, Slots
  <2>8. Carries(old, acks, Pump(a)) /\ Tracks(Pump(a), L \union {d}) /\ Filled(Pump(a))
    BY <2>2, <2>3, <2>6, <2>7, PumpCarries, PumpTracks
  <2> QED
    BY <2>1, <2>8 DEF Sound
<1>4. CASE ~(ActiveFor(b, d) = {} /\ \A i \in DOMAIN b.queue : b.queue[i] # d)
  <2>1. Track(b, d) = b
    BY <1>4 DEF Track
  <2>2. d \in Keys(b) \union Entries(b.queue)
    BY <1>4, ActiveForKeys DEF Entries
  <2>3. L \union {d} = L
    BY <1>1, <2>2 DEF Tracks
  <2> QED
    BY <2>1, <2>3
<1> QED
  BY <1>3, <1>4

-----------------------------------------------------------------------------

(* The books a handler can reach from the one it started with. *)
Reached(old, acks) == {b \in Books : \E L \in SUBSET Doc : Sound(old, acks, b, L)}

LEMMA ReachedSound ==
    ASSUME NEW old, NEW acks, NEW L \in SUBSET Doc, NEW b, Sound(old, acks, b, L)
    PROVE  b \in Reached(old, acks)
BY DEF Reached, Sound, Carries

(* Key by key, dropped documents leave limbo and new ones enter it. *)
LeftAfter(L, dropped, i) == L \ {d \in dropped : d \in 1 .. i}
JoinedAfter(L, new, i) == L \union {d \in new : d \in 1 .. i}

LEMMA UntrackedSteps ==
    ASSUME NEW old, NEW acks \in [Target -> Nat], NEW b, NEW L \in SUBSET Doc,
           Sound(old, acks, b, L), NEW dropped \in SUBSET Doc
    PROVE  /\ Untracked(b, dropped)[0] = b
           /\ \A i \in 0 .. NumDocs :
                Sound(old, acks, Untracked(b, dropped)[i], LeftAfter(L, dropped, i))
           /\ \A i \in 1 .. NumDocs :
                Untracked(b, dropped)[i]
                  = IF i \in dropped THEN Untrack(Untracked(b, dropped)[i - 1], i)
                    ELSE Untracked(b, dropped)[i - 1]
<1> DEFINE V == Reached(old, acks)
           step == [i \in 1 .. NumDocs |->
                      [c \in V |-> IF i \in dropped THEN Untrack(c, i) ELSE c]]
           Equation(g) ==
              g = [i \in 0 .. NumDocs |->
                     IF i = 0 THEN b
                     ELSE IF i \in dropped THEN Untrack(g[i - 1], i) ELSE g[i - 1]]
<1>1. NumDocs \in Nat /\ b \in V
  BY ReachedSound, WatchSyncAssumption
<1>2. ASSUME NEW i \in 1 .. NumDocs, NEW c \in V
      PROVE  (IF i \in dropped THEN Untrack(c, i) ELSE c) \in V
  <2>1. PICK M \in SUBSET Doc : Sound(old, acks, c, M)
    BY DEF Reached
  <2>2. Sound(old, acks, Untrack(c, i), M \ {i}) /\ M \ {i} \in SUBSET Doc
    BY <2>1, UntrackSound
  <2>3. Untrack(c, i) \in V
    BY <2>2, ReachedSound
  <2> HIDE DEF V
  <2> QED
    BY <2>3
<1> HIDE DEF V
<1>3. step \in [1 .. NumDocs -> [V -> V]]
  BY <1>2
<1>4. \E g : Equation(g)
  <2>1. PICK g \in [0 .. NumDocs -> V] :
           g[0] = b /\ \A i \in 1 .. NumDocs : g[i] = step[i][g[i - 1]]
    <3> HIDE DEF step
    <3>1. \E g : Unfolds(g, NumDocs, V, b, step)
      BY <1>1, <1>3, RecursionUpTo
    <3> QED
      BY <3>1 DEF Unfolds
  <2>2. ASSUME NEW i \in 0 .. NumDocs, i # 0
        PROVE  g[i] = IF i \in dropped THEN Untrack(g[i - 1], i) ELSE g[i - 1]
    <3>1. i \in 1 .. NumDocs /\ g[i - 1] \in V
      BY <2>2, <1>1
    <3> QED
      BY <3>1, <2>1
  <2> QED
    BY <2>1, <2>2
<1> DEFINE after == Untracked(b, dropped)
<1>5. after = CHOOSE g : Equation(g)
  BY DEF Untracked
<1>6. Equation(after)
  <2> HIDE DEF Equation, after
  <2> QED
    BY <1>4, <1>5
<1> HIDE DEF after
<1> DEFINE Left(i) == LeftAfter(L, dropped, i)
           T == {i \in 0 .. NumDocs : Sound(old, acks, after[i], Left(i))}
<1>7. 0 \in T
  <2>1. after[0] = b /\ Left(0) = L
    BY <1>1, <1>6 DEF LeftAfter
  <2> HIDE DEF Left
  <2> QED
    BY <1>1, <2>1
<1>8. ASSUME NEW i \in 1 .. NumDocs, i - 1 \in T PROVE i \in T
  <2>1. /\ i \in 0 .. NumDocs /\ i # 0
        /\ Sound(old, acks, after[i - 1], Left(i - 1))
    BY <1>1, <1>8
  <2>2. after[i] = IF i \in dropped THEN Untrack(after[i - 1], i) ELSE after[i - 1]
    BY <2>1, <1>6
  <2>3. Left(i) = IF i \in dropped THEN Left(i - 1) \ {i} ELSE Left(i - 1)
    BY <1>1, <1>8 DEF LeftAfter
  <2> HIDE DEF Left
  <2>4. Sound(old, acks, Untrack(after[i - 1], i), Left(i - 1) \ {i})
    BY <2>1, UntrackSound
  <2> QED
    BY <2>1, <2>2, <2>3, <2>4
<1>9. \A i \in 0 .. NumDocs : i \in T
  <2> HIDE DEF T
  <2> QED
    BY <1>1, <1>7, <1>8, InductionUpTo
<1>10. /\ after[0] = b
       /\ \A i \in 1 .. NumDocs :
            after[i] = IF i \in dropped THEN Untrack(after[i - 1], i) ELSE after[i - 1]
  <2>1. \A i \in 0 .. NumDocs :
           after[i] = IF i = 0 THEN b
                      ELSE IF i \in dropped THEN Untrack(after[i - 1], i) ELSE after[i - 1]
    BY <1>6
  <2> QED
    BY <1>1, <2>1
<1>11. \A i \in 0 .. NumDocs : Sound(old, acks, after[i], Left(i))
  BY <1>9
<1> QED
  BY <1>10, <1>11 DEF after

LEMMA UntrackedSound ==
    ASSUME NEW old, NEW acks \in [Target -> Nat], NEW b, NEW L \in SUBSET Doc,
           Sound(old, acks, b, L), NEW dropped \in SUBSET Doc
    PROVE  Sound(old, acks, Untracked(b, dropped)[NumDocs], L \ dropped)
<1>1. LeftAfter(L, dropped, NumDocs) = L \ dropped
  BY DEF Doc, LeftAfter
<1>2. NumDocs \in 0 .. NumDocs
  BY WatchSyncAssumption
<1>3. \A i \in 0 .. NumDocs :
         Sound(old, acks, Untracked(b, dropped)[i], LeftAfter(L, dropped, i))
  BY UntrackedSteps
<1>4. Sound(old, acks, Untracked(b, dropped)[NumDocs],
            LeftAfter(L, dropped, NumDocs))
  BY <1>2, <1>3
<1> QED
  BY <1>1, <1>4

LEMMA TrackedSteps ==
    ASSUME NEW old, NEW acks \in [Target -> Nat], NEW b, NEW L \in SUBSET Doc,
           Sound(old, acks, b, L), NEW new \in SUBSET Doc
    PROVE  /\ Tracked(b, new)[0] = b
           /\ \A i \in 0 .. NumDocs :
                Sound(old, acks, Tracked(b, new)[i], JoinedAfter(L, new, i))
           /\ \A i \in 1 .. NumDocs :
                Tracked(b, new)[i] = IF i \in new THEN Track(Tracked(b, new)[i - 1], i)
                                     ELSE Tracked(b, new)[i - 1]
<1> DEFINE V == Reached(old, acks)
           step == [i \in 1 .. NumDocs |->
                      [c \in V |-> IF i \in new THEN Track(c, i) ELSE c]]
           Equation(g) ==
              g = [i \in 0 .. NumDocs |->
                     IF i = 0 THEN b
                     ELSE IF i \in new THEN Track(g[i - 1], i) ELSE g[i - 1]]
<1>1. NumDocs \in Nat /\ b \in V
  BY ReachedSound, WatchSyncAssumption
<1>2. ASSUME NEW i \in 1 .. NumDocs, NEW c \in V
      PROVE  (IF i \in new THEN Track(c, i) ELSE c) \in V
  <2>1. PICK M \in SUBSET Doc : Sound(old, acks, c, M)
    BY DEF Reached
  <2>2. Sound(old, acks, Track(c, i), M \union {i}) /\ M \union {i} \in SUBSET Doc
    <3>1. i \in Doc
      BY DEF Doc
    <3> QED
      BY <2>1, <3>1, TrackSound
  <2>3. Track(c, i) \in V
    BY <2>2, ReachedSound
  <2> HIDE DEF V
  <2> QED
    BY <2>3
<1> HIDE DEF V
<1>3. step \in [1 .. NumDocs -> [V -> V]]
  BY <1>2
<1>4. \E g : Equation(g)
  <2>1. PICK g \in [0 .. NumDocs -> V] :
           g[0] = b /\ \A i \in 1 .. NumDocs : g[i] = step[i][g[i - 1]]
    <3> HIDE DEF step
    <3>1. \E g : Unfolds(g, NumDocs, V, b, step)
      BY <1>1, <1>3, RecursionUpTo
    <3> QED
      BY <3>1 DEF Unfolds
  <2>2. ASSUME NEW i \in 0 .. NumDocs, i # 0
        PROVE  g[i] = IF i \in new THEN Track(g[i - 1], i) ELSE g[i - 1]
    <3>1. i \in 1 .. NumDocs /\ g[i - 1] \in V
      BY <2>2, <1>1
    <3> QED
      BY <3>1, <2>1
  <2> QED
    BY <2>1, <2>2
<1> DEFINE after == Tracked(b, new)
<1>5. after = CHOOSE g : Equation(g)
  BY DEF Tracked
<1>6. Equation(after)
  <2> HIDE DEF Equation, after
  <2> QED
    BY <1>4, <1>5
<1> HIDE DEF after
<1> DEFINE Grown(i) == JoinedAfter(L, new, i)
           T == {i \in 0 .. NumDocs : Sound(old, acks, after[i], Grown(i))}
<1>7. 0 \in T
  <2>1. after[0] = b /\ Grown(0) = L
    BY <1>1, <1>6 DEF JoinedAfter
  <2> HIDE DEF Grown
  <2> QED
    BY <1>1, <2>1
<1>8. ASSUME NEW i \in 1 .. NumDocs, i - 1 \in T PROVE i \in T
  <2>1. /\ i \in 0 .. NumDocs /\ i # 0 /\ i \in Doc
        /\ Sound(old, acks, after[i - 1], Grown(i - 1))
    BY <1>1, <1>8 DEF Doc
  <2>2. after[i] = IF i \in new THEN Track(after[i - 1], i) ELSE after[i - 1]
    BY <2>1, <1>6
  <2>3. Grown(i) = IF i \in new THEN Grown(i - 1) \union {i} ELSE Grown(i - 1)
    BY <1>1, <1>8 DEF JoinedAfter
  <2> HIDE DEF Grown
  <2>4. Sound(old, acks, Track(after[i - 1], i), Grown(i - 1) \union {i})
    BY <2>1, TrackSound
  <2> QED
    BY <2>1, <2>2, <2>3, <2>4
<1>9. \A i \in 0 .. NumDocs : i \in T
  <2> HIDE DEF T
  <2> QED
    BY <1>1, <1>7, <1>8, InductionUpTo
<1>10. /\ after[0] = b
       /\ \A i \in 1 .. NumDocs :
            after[i] = IF i \in new THEN Track(after[i - 1], i) ELSE after[i - 1]
  <2>1. \A i \in 0 .. NumDocs :
           after[i] = IF i = 0 THEN b
                      ELSE IF i \in new THEN Track(after[i - 1], i) ELSE after[i - 1]
    BY <1>6
  <2> QED
    BY <1>1, <2>1
<1>11. \A i \in 0 .. NumDocs : Sound(old, acks, after[i], Grown(i))
  BY <1>9
<1> QED
  BY <1>10, <1>11 DEF after

LEMMA TrackedSound ==
    ASSUME NEW old, NEW acks \in [Target -> Nat], NEW b, NEW L \in SUBSET Doc,
           Sound(old, acks, b, L), NEW new \in SUBSET Doc
    PROVE  Sound(old, acks, Tracked(b, new)[NumDocs], L \union new)
<1>1. JoinedAfter(L, new, NumDocs) = L \union new
  BY DEF Doc, JoinedAfter
<1>2. NumDocs \in 0 .. NumDocs
  BY WatchSyncAssumption
<1>3. \A i \in 0 .. NumDocs :
         Sound(old, acks, Tracked(b, new)[i], JoinedAfter(L, new, i))
  BY TrackedSteps
<1>4. Sound(old, acks, Tracked(b, new)[NumDocs], JoinedAfter(L, new, NumDocs))
  BY <1>2, <1>3
<1> QED
  BY <1>1, <1>4

(* The view's limbo documents change, and the book with them. *)
LEMMA ApplyChangesSound ==
    ASSUME NEW old, NEW acks \in [Target -> Nat], NEW b, limbo \in SUBSET Doc,
           Sound(old, acks, b, limbo), NEW docs, NEW writes, NEW renewed, NEW known,
           NEW isCurrent, ApplyChanges(b, docs, writes, renewed, known, isCurrent)
    PROVE  /\ synced' = known /\ current' = isCurrent /\ limbo' \in SUBSET Doc
           /\ mutatedKeys' \in SUBSET Doc
           /\ \E c : Keep(c) /\ Sound(old, acks, c, limbo')
<1> DEFINE local == Mutated(docs, writes, renewed)
           now == IF isCurrent THEN Shown(docs, writes) \ (known \union local) ELSE limbo
           kept == Untracked(b, limbo \ now)[NumDocs]
           next == Tracked(kept, now \ limbo)[NumDocs]
<1>1. now \in SUBSET Doc /\ local \in SUBSET Doc
  BY DEF Shown, Mutated
<1>2. /\ synced' = known /\ current' = isCurrent /\ limbo' = now /\ mutatedKeys' = local
      /\ Keep(next)
  BY DEF ApplyChanges
<1> HIDE DEF now, local
<1>3. Sound(old, acks, kept, limbo \ (limbo \ now))
  <2>1. limbo \ now \in SUBSET Doc
    OBVIOUS
  <2> QED
    BY <2>1, UntrackedSound
<1> HIDE DEF kept
<1>4. Sound(old, acks, next, (limbo \ (limbo \ now)) \union (now \ limbo))
  <2>1. limbo \ (limbo \ now) \in SUBSET Doc /\ now \ limbo \in SUBSET Doc
    BY <1>1
  <2> QED
    BY <1>3, <2>1, TrackedSound
<1>5. (limbo \ (limbo \ now)) \union (now \ limbo) = now
  OBVIOUS
<1> HIDE DEF next
<1> QED
  BY <1>1, <1>2, <1>4, <1>5

LEMMA KeepIsBook ==
    ASSUME NEW c \in Books, Keep(c)
    PROVE  Book' = c
<1>1. c = [queue |-> c.queue, active |-> c.active, resume |-> c.resume,
           states |-> c.states, sent |-> c.sent]
  BY BookFacts
<1> QED
  BY <1>1 DEF Keep, Book

-----------------------------------------------------------------------------
(* The invariant: the maps are finite, the book carries what it must, and  *)
(* changes are of documents the client knows.                              *)
Served == [scope : SUBSET Doc, docs : SUBSET Doc]

AckOf(t) == {m \in ServerMessage : IsAck(m) /\ m.target = t}
Pending == [t \in Target |-> Count(toClient, AckOf(t))]

PlainTypeOK ==
    /\ serverDocs \in [Doc -> DocState] /\ cache \in [Doc -> DocState]
    /\ keys \in SUBSET Doc /\ token \in Token /\ mutated \in SUBSET Own
    /\ synced \in SUBSET Doc /\ current \in BOOLEAN /\ limbo \in SUBSET Doc
    /\ mutatedKeys \in SUBSET Doc
    /\ open \in BOOLEAN /\ heard \in BOOLEAN
    /\ toClient \in Seq(ServerMessage)
    /\ updates \in [Doc -> {"none", "present", "deleted", "revoked"}]
    /\ mismatch \in BOOLEAN
    /\ breaks \in 0 .. MaxBreaks /\ restarts \in 0 .. MaxRestarts /\ intact \in BOOLEAN

SyncInv ==
    /\ PlainTypeOK
    /\ told \in Partial(Target, Served)
    /\ Sound(Book, Pending, Book, limbo)
    /\ ChangesAreOfKnown

LEMMA PendingIsTyped ==
    ASSUME toClient \in Seq(ServerMessage)
    PROVE  Pending \in [Target -> Nat]
<1>1. \A t \in Target : Count(toClient, AckOf(t)) \in Nat
  BY OccursFinite
<1> QED
  BY <1>1 DEF Pending

LEMMA BookParts ==
    /\ Book.queue = queue /\ Book.active = active /\ Book.resume = resume
    /\ Book.states = states /\ Book.sent = toServer
BY DEF Book

LEMMA InvFacts ==
    ASSUME SyncInv
    PROVE  /\ Book \in Books /\ Counted(Book, Pending)
           /\ Tracks(Book, limbo) /\ Filled(Book)
           /\ Pending \in [Target -> Nat]
           /\ queue \in Seq(Doc) /\ active \in Partial(Target \ {0}, Resolution)
           /\ resume \in Partial(Target, Token) /\ toServer \in Seq(ClientMessage)
           /\ states \in Partial(Target, TargetStates)
           /\ DOMAIN resume = DOMAIN active \union {0}
BY PendingIsTyped, BookParts, BookFacts DEF SyncInv, Sound, Carries, PlainTypeOK

(* A book can be put back in place of the one the handler started from. *)
LEMMA SoundOfItself ==
    ASSUME NEW b \in Books, NEW acks, NEW L, Counted(b, acks), Tracks(b, L), Filled(b)
    PROVE  Sound(b, acks, b, L)
<1>1. Inherits(b, b)
  <2>1. ASSUME NEW t \in DOMAIN b.states \intersect DOMAIN b.resume
        PROVE  t # 0 => b.active[t] = b.active[t]
    OBVIOUS
  <2> QED
    BY DEF Inherits
<1> QED
  BY <1>1 DEF Sound, Carries

LEMMA InvImpliesType == SyncInv => SyncTypeOK
<1> SUFFICES ASSUME SyncInv PROVE SyncTypeOK
  OBVIOUS
<1>1. PlainTypeOK /\ told \in Partial(Target, Served)
  BY DEF SyncInv
<1>2. /\ queue \in Seq(Doc) /\ toServer \in Seq(ClientMessage)
      /\ DOMAIN active \subseteq Target \ {0}
      /\ \A t \in DOMAIN active : active[t] \in Resolution
      /\ DOMAIN resume = DOMAIN active \union {0}
      /\ \A t \in DOMAIN resume : resume[t] \in Token
      /\ DOMAIN states \subseteq Target
      /\ \A t \in DOMAIN states : states[t] \in TargetStates
  BY InvFacts, BookParts, BookFacts
<1>3. DOMAIN told \subseteq Target /\ \A t \in DOMAIN told : told[t] \in Served
  BY <1>1, PartialFacts
<1> QED
  BY <1>1, <1>2, <1>3 DEF PlainTypeOK, SyncTypeOK, Resolution, Served

LEMMA InvImpliesAcks == SyncInv => AcksAreCounted
<1> SUFFICES ASSUME SyncInv PROVE AcksAreCounted
  OBVIOUS
<1>1. /\ Counted(Book, Pending) /\ toServer \in Seq(ClientMessage)
      /\ toClient \in Seq(ServerMessage) /\ DOMAIN states \subseteq Target
  BY InvFacts, BookParts, BookFacts DEF SyncInv, PlainTypeOK
<1>2. ASSUME NEW t \in Target
      PROVE  Accepted(t).outstanding = Cardinality(Requests(t)) + Cardinality(Acks(t))
  <2>1. \A i \in DOMAIN toServer : toServer[i] \in ClientMessage
    BY <1>1, ElementOfSeq, LenProperties
  <2>2. \A i \in DOMAIN toClient : toClient[i] \in ServerMessage
    BY <1>1, ElementOfSeq, LenProperties
  <2>3. Requests(t) = Occurs(toServer, To(t))
    BY <2>1 DEF Requests, Occurs, To
  <2>4. Acks(t) = Occurs(toClient, AckOf(t))
    BY <2>2 DEF Acks, Occurs, AckOf
  <2>5. Accepted(t).outstanding = Outstanding(Book, t)
    BY BookParts, FreshIsTyped DEF Accepted, Outstanding
  <2>6. Pending[t] = Count(toClient, AckOf(t))
    BY DEF Pending
  <2> QED
    BY <1>1, <2>3, <2>4, <2>5, <2>6, BookParts DEF Counted, Count
<1>3. \A i \in DOMAIN toServer : toServer[i].target \in Target
  <2>1. \A i \in DOMAIN toServer : toServer[i] \in ClientMessage
    BY <1>1, ElementOfSeq, LenProperties
  <2> QED
    BY <2>1 DEF ClientMessage
<1>4. \A j \in DOMAIN toClient : IsAck(toClient[j]) => toClient[j].target \in Target
  <2>1. \A i \in DOMAIN toClient : toClient[i] \in ServerMessage
    BY <1>1, ElementOfSeq, LenProperties
  <2> QED
    BY <2>1 DEF ServerMessage, IsAck
<1>5. DOMAIN states \union {toServer[i].target : i \in DOMAIN toServer}
        \union {toClient[i].target : i \in {j \in DOMAIN toClient : IsAck(toClient[j])}}
          \subseteq Target
  BY <1>1, <1>3, <1>4
<1> QED
  BY <1>2, <1>5 DEF AcksAreCounted

LEMMA InvImpliesLimbo == SyncInv => LimboIsTracked
<1> SUFFICES ASSUME SyncInv PROVE LimboIsTracked
  OBVIOUS
<1>1. Tracks(Book, limbo) /\ Filled(Book)
  BY InvFacts
<1>2. /\ limbo = Entries(queue) \union Keys(Book) /\ NoneTwice(queue)
      /\ \A t, u \in DOMAIN active : active[t].key = active[u].key => t = u
      /\ Entries(queue) \intersect Keys(Book) = {}
  BY <1>1, BookParts DEF Tracks
<1>3. Keys(Book) = {active[t].key : t \in DOMAIN active}
  BY BookParts DEF Keys
<1>4. \A i \in DOMAIN queue, t \in DOMAIN active : queue[i] # active[t].key
  BY <1>2, <1>3 DEF Entries
<1>5. /\ Cardinality(DOMAIN active) <= MaxActive
      /\ queue # <<>> => Cardinality(DOMAIN active) = MaxActive
  BY <1>1, BookParts DEF Filled, Slots
<1> QED
  BY <1>2, <1>3, <1>4, <1>5 DEF LimboIsTracked, Entries, NoneTwice

(* Without a stream nothing is counted. *)
LEMMA NothingCounted ==
    ASSUME NEW b, b.states = <<>>, b.sent = <<>>,
           NEW acks, acks = [t \in Target |-> Count(<<>>, AckOf(t))]
    PROVE  Counted(b, acks)
<1>1. \A M : Occurs(<<>>, M) = {}
  BY DEF Occurs
<1>2. \A M : Count(<<>>, M) = 0
  BY <1>1, FS_EmptySet DEF Count
<1>3. DOMAIN b.states = {}
  BY EmptyIsPartial
<1> QED
  BY <1>2, <1>3 DEF Counted, Outstanding

(* The book of an app that has just started. *)
LEMMA StartedBook ==
    ASSUME NEW b, b.queue = <<>>, b.active = <<>>, NEW x \in Token,
           b.resume = [t \in {0} |-> x], b.states = <<>>, b.sent = <<>>,
           b = [queue |-> b.queue, active |-> b.active, resume |-> b.resume,
                states |-> b.states, sent |-> b.sent],
           NEW acks, acks = [t \in Target |-> Count(<<>>, AckOf(t))]
    PROVE  Sound(b, acks, b, {})
<1>1. IsFiniteSet({0}) /\ {0} \in SUBSET Target
  <2>1. IsFiniteSet({0})
    BY FS_Singleton
  <2> QED
    BY <2>1 DEF Target
<1>2. b.resume \in Partial(Target, Token)
  BY <1>1, FunctionIsPartial
<1>3. <<>> \in Seq(Doc) /\ <<>> \in Seq(ClientMessage)
  BY EmptySeq
<1>4. DOMAIN b.active = {} /\ b.active \in Partial(Target \ {0}, Resolution)
  BY EmptyIsPartial
<1>5. DOMAIN b.states = {} /\ b.states \in Partial(Target, TargetStates)
  BY EmptyIsPartial
<1>6. b \in Books
  BY <1>2, <1>3, <1>4, <1>5 DEF Books
<1>7. Entries(<<>>) = {} /\ NoneTwice(<<>>)
  BY DEF Entries, NoneTwice
<1>8. Counted(b, acks)
  BY NothingCounted
<1>9. Tracks(b, {}) /\ Filled(b)
  <2>1. Keys(b) = {} /\ Slots(b) = 0
    BY <1>4, FS_EmptySet DEF Keys, Slots
  <2> QED
    BY <1>4, <1>7, <2>1, WatchSyncAssumption DEF Tracks, Filled
<1> QED
  BY <1>6, <1>8, <1>9, SoundOfItself

LEMMA InitInv == SyncInit => SyncInv
<1> SUFFICES ASSUME SyncInit PROVE SyncInv
  OBVIOUS
<1>1. NoToken \in Token /\ {} \in SUBSET Doc /\ <<>> \in Seq(ServerMessage)
  BY TokensAreTyped, EmptySeq
<1>2. PlainTypeOK
  <2>1. serverDocs \in [Doc -> DocState]
    BY DEF SyncInit, DocState
  <2>2. cache \in [Doc -> DocState] /\ updates \in [Doc -> {"none", "present", "deleted", "revoked"}]
    BY DEF SyncInit, DocState, NoChanges
  <2>3. breaks \in 0 .. MaxBreaks /\ restarts \in 0 .. MaxRestarts /\ intact \in BOOLEAN
    BY WatchSyncAssumption DEF SyncInit
  <2> QED
    BY <1>1, <2>1, <2>2, <2>3 DEF SyncInit, PlainTypeOK
<1>3. told \in Partial(Target, Served)
  BY EmptyIsPartial DEF SyncInit
<1>4. Sound(Book, Pending, Book, {})
  BY <1>1, StartedBook DEF SyncInit, Book, Pending
<1>5. ChangesAreOfKnown
  BY EmptyIsPartial DEF SyncInit, ChangesAreOfKnown
<1> QED
  BY <1>2, <1>3, <1>4, <1>5 DEF SyncInv, SyncInit

-----------------------------------------------------------------------------
(* Steps that leave the book as it is. *)
LEMMA SameBook ==
    ASSUME SyncInv, PlainTypeOK', told' \in Partial(Target, Served),
           UNCHANGED <<queue, active, resume, states, toServer, toClient, limbo, synced>>
    PROVE  SyncInv'
<1>1. Book' = Book /\ Pending' = Pending
  BY DEF Book, Pending
<1>2. Sound(Book, Pending, Book, limbo)'
  BY <1>1 DEF SyncInv
<1>3. ChangesAreOfKnown'
  BY DEF SyncInv, ChangesAreOfKnown, IsActive, RemoteKeys
<1> QED
  BY <1>2, <1>3 DEF SyncInv

LEMMA GoOfflineInv == SyncInv /\ GoOffline => SyncInv'
<1> SUFFICES ASSUME SyncInv, GoOffline PROVE SyncInv'
  OBVIOUS
<1>1. PlainTypeOK'
  BY DEF SyncInv, PlainTypeOK, GoOffline, diskVars, syncVars, aggregatorVars, streamVars
<1>2. told' \in Partial(Target, Served)
  BY DEF SyncInv, GoOffline, streamVars
<1> QED
  BY <1>1, <1>2, SameBook DEF GoOffline, syncVars, aggregatorVars, streamVars

LEMMA ServerChangesInv ==
    ASSUME SyncInv, serverDocs' \in [Doc -> DocState],
           UNCHANGED <<diskVars, viewVars, syncVars, aggregatorVars, streamVars, breaks, restarts, intact>>
    PROVE  SyncInv'
<1>1. PlainTypeOK'
  BY DEF SyncInv, PlainTypeOK, diskVars, viewVars, syncVars, aggregatorVars, streamVars
<1>2. told' \in Partial(Target, Served)
  BY DEF SyncInv, streamVars
<1> QED
  BY <1>1, <1>2, SameBook DEF viewVars, syncVars, aggregatorVars, streamVars

LEMMA CommitInv == ASSUME SyncInv, NEW d \in Doc, Commit(d) PROVE SyncInv'
<1>1. serverDocs' \in [Doc -> DocState]
  BY DEF SyncInv, PlainTypeOK, Commit, DocState
<1> QED
  BY <1>1, ServerChangesInv DEF Commit

LEMMA OthersInv == ASSUME SyncInv, NEW d \in Doc, Others(d) PROVE SyncInv'
<1>1. serverDocs' \in [Doc -> DocState]
  BY DEF SyncInv, PlainTypeOK, Others, DocState
<1> QED
  BY <1>1, ServerChangesInv DEF Others

-----------------------------------------------------------------------------
(* The stream and its aggregator are gone.                                 *)
LEMMA StreamBreaksInv == SyncInv /\ StreamBreaks => SyncInv'
<1> SUFFICES ASSUME SyncInv, StreamBreaks PROVE SyncInv'
  OBVIOUS
<1> USE DEF StreamBreaks, Cut
<1>1. PlainTypeOK'
  <2>1. updates' \in [Doc -> {"none", "present", "deleted", "revoked"}]
    BY DEF NoChanges
  <2>2. breaks' \in 0 .. MaxBreaks
    BY WatchSyncAssumption DEF SyncInv, PlainTypeOK
  <2>3. <<>> \in Seq(ServerMessage)
    BY EmptySeq
  <2> QED
    BY <2>1, <2>2, <2>3 DEF SyncInv, PlainTypeOK, diskVars, viewVars
<1>2. told' \in Partial(Target, Served)
  BY EmptyIsPartial
<1>3. Book \in Books /\ Tracks(Book, limbo) /\ Filled(Book)
  BY InvFacts
<1> DEFINE c == Book'
<1>4. /\ c.queue = Book.queue /\ c.active = Book.active /\ c.resume = Book.resume
      /\ c.states = <<>> /\ c.sent = <<>>
      /\ c = [queue |-> c.queue, active |-> c.active, resume |-> c.resume,
              states |-> c.states, sent |-> c.sent]
  BY DEF Book, syncVars
<1> HIDE DEF c
<1>5. c \in Books
  <2>1. <<>> \in Partial(Target, TargetStates) /\ <<>> \in Seq(ClientMessage)
    BY EmptyIsPartial, EmptySeq
  <2> QED
    BY <1>3, <1>4, <2>1, BookFacts DEF Books
<1>6. Tracks(c, limbo) /\ Filled(c)
  BY <1>3, <1>4 DEF Tracks, Filled, Keys, Slots
<1>7. Counted(c, Pending')
  BY <1>4, NothingCounted DEF Pending
<1>8. Sound(Book, Pending, Book, limbo)'
  <2>1. Sound(c, Pending', c, limbo)
    BY <1>5, <1>6, <1>7, SoundOfItself
  <2> QED
    BY <2>1 DEF viewVars, c
<1>9. ChangesAreOfKnown'
  BY EmptyIsPartial DEF ChangesAreOfKnown
<1> QED
  BY <1>1, <1>2, <1>8, <1>9 DEF SyncInv

LEMMA RestartInv == SyncInv /\ Restart => SyncInv'
<1> SUFFICES ASSUME SyncInv, Restart PROVE SyncInv'
  OBVIOUS
<1> USE DEF Restart, Cut
<1>1. PlainTypeOK'
  <2>1. updates' \in [Doc -> {"none", "present", "deleted", "revoked"}]
    BY DEF NoChanges
  <2>2. restarts' \in 0 .. MaxRestarts
    BY WatchSyncAssumption DEF SyncInv, PlainTypeOK
  <2>3. <<>> \in Seq(ServerMessage)
    BY EmptySeq
  <2>4. mutatedKeys' \in SUBSET Doc
    BY WatchSyncAssumption DEF SyncInv, PlainTypeOK
  <2> QED
    BY <2>1, <2>2, <2>3, <2>4 DEF SyncInv, PlainTypeOK, diskVars
<1>2. told' \in Partial(Target, Served)
  BY EmptyIsPartial
<1>3. token \in Token
  BY DEF SyncInv, PlainTypeOK
<1>4. Sound(Book', Pending', Book', {})
  <2>1. Book' = [queue |-> <<>>, active |-> <<>>, resume |-> [t \in {0} |-> token],
                 states |-> <<>>, sent |-> <<>>]
    BY DEF Book
  <2>2. Pending' = [t \in Target |-> Count(<<>>, AckOf(t))]
    BY DEF Pending
  <2> QED
    BY <1>3, <2>1, <2>2, StartedBook
<1>5. ChangesAreOfKnown'
  BY EmptyIsPartial DEF ChangesAreOfKnown
<1> QED
  BY <1>1, <1>2, <1>4, <1>5 DEF SyncInv

-----------------------------------------------------------------------------
(* Local writes change what the view shows, and with it limbo. *)
LEMMA ViewChanges ==
    ASSUME SyncInv, NEW docs, NEW writes, NEW renewed,
           ApplyChanges(Book, docs, writes, renewed, synced, current), UNCHANGED toClient
    PROVE  /\ synced' = synced /\ current' = current /\ limbo' \in SUBSET Doc
           /\ mutatedKeys' \in SUBSET Doc
           /\ Sound(Book, Pending, Book, limbo)'
           /\ ChangesAreOfKnown'
<1>1. /\ Pending \in [Target -> Nat] /\ limbo \in SUBSET Doc
      /\ Sound(Book, Pending, Book, limbo)
  BY InvFacts DEF SyncInv, PlainTypeOK
<1>2. /\ synced' = synced /\ current' = current /\ limbo' \in SUBSET Doc
      /\ mutatedKeys' \in SUBSET Doc
      /\ \E c : Keep(c) /\ Sound(Book, Pending, c, limbo')
  BY <1>1, ApplyChangesSound
<1>3. PICK c : Keep(c) /\ Sound(Book, Pending, c, limbo')
  BY <1>2
<1>4. /\ c \in Books /\ Counted(c, Pending) /\ Inherits(Book, c)
      /\ Tracks(c, limbo') /\ Filled(c)
  BY <1>3 DEF Sound, Carries
<1>5. Book' = c /\ Pending' = Pending
  BY <1>3, <1>4, KeepIsBook DEF Pending
<1>6. Sound(Book, Pending, Book, limbo)'
  <2>1. Sound(c, Pending, c, limbo')
    BY <1>4, SoundOfItself
  <2> QED
    BY <1>5, <2>1
<1>7. ChangesAreOfKnown'
  <2> SUFFICES ASSUME NEW t \in DOMAIN states', IsActive(t)', NEW d \in Doc,
                      states'[t].changes[d] \in {"modified", "removed"}
               PROVE  d \in RemoteKeys(t)'
    BY DEF ChangesAreOfKnown
  <2>1. states' = c.states /\ active' = c.active /\ resume' = c.resume
    BY <1>3 DEF Keep
  <2>2. t \in DOMAIN c.states \intersect DOMAIN c.resume /\ c.states[t].outstanding = 0
    BY <2>1 DEF IsActive
  <2>3. /\ t \in DOMAIN states \intersect DOMAIN resume /\ c.states[t] = states[t]
        /\ t # 0 => c.active[t] = active[t]
    BY <1>4, <2>2, BookParts DEF Inherits
  <2>4. d \in RemoteKeys(t)
    BY <2>1, <2>2, <2>3 DEF SyncInv, ChangesAreOfKnown, IsActive
  <2>5. t # 0 => t \in DOMAIN c.active
    BY <1>4, <2>2, BookFacts
  <2> QED
    BY <1>2, <2>1, <2>3, <2>4, <2>5 DEF RemoteKeys
<1> QED
  BY <1>2, <1>6, <1>7

LEMMA NewerIsTyped ==
    ASSUME NEW old \in DocState, NEW new \in {"none", "present", "deleted", "revoked"}
    PROVE  Newer(old, new) \in DocState
BY DEF Newer, DocState

LEMMA WriteLocallyInv == ASSUME SyncInv, NEW d \in Doc, WriteLocally(d) PROVE SyncInv'
<1>1. /\ synced' = synced /\ current' = current /\ limbo' \in SUBSET Doc
      /\ mutatedKeys' \in SUBSET Doc
      /\ Sound(Book, Pending, Book, limbo)'
      /\ ChangesAreOfKnown'
  BY ViewChanges DEF WriteLocally
<1>2. PlainTypeOK'
  BY <1>1 DEF SyncInv, PlainTypeOK, WriteLocally
<1>3. told' \in Partial(Target, Served)
  BY DEF SyncInv, WriteLocally
<1> QED
  BY <1>1, <1>2, <1>3 DEF SyncInv

LEMMA AcknowledgeInv == ASSUME SyncInv, NEW d \in Doc, Acknowledge(d) PROVE SyncInv'
<1>1. /\ synced' = synced /\ current' = current /\ limbo' \in SUBSET Doc
      /\ mutatedKeys' \in SUBSET Doc
      /\ Sound(Book, Pending, Book, limbo)'
      /\ ChangesAreOfKnown'
  BY ViewChanges DEF Acknowledge
<1>2. cache' \in [Doc -> DocState]
  <2>1. cache \in [Doc -> DocState]
    BY DEF SyncInv, PlainTypeOK
  <2>2. Newer(cache[d], "present") \in DocState
    BY <2>1, NewerIsTyped
  <2> QED
    BY <2>1, <2>2 DEF Acknowledge
<1>3. PlainTypeOK'
  BY <1>1, <1>2 DEF SyncInv, PlainTypeOK, Acknowledge
<1>4. told' \in Partial(Target, Served)
  BY DEF SyncInv, Acknowledge
<1> QED
  BY <1>1, <1>3, <1>4 DEF SyncInv

-----------------------------------------------------------------------------
(* A response arrives.                                                     *)
LEMMA ResponseTaken ==
    ASSUME toClient \in Seq(ServerMessage), toClient # <<>>, toClient' = Tail(toClient)
    PROVE  /\ toClient' \in Seq(ServerMessage) /\ Head(toClient) \in ServerMessage
           /\ Pending' \in [Target -> Nat]
           /\ \A u \in Target :
                Pending[u] = Pending'[u] + (IF IsAck(Head(toClient)) /\ Head(toClient).target = u
                                            THEN 1 ELSE 0)
<1>1. Tail(toClient) \in Seq(ServerMessage) /\ Head(toClient) \in ServerMessage
  BY HeadTailProperties
<1>2. \A u \in Target : Count(Tail(toClient), AckOf(u)) \in Nat
  BY <1>1, OccursFinite
<1>3. Pending' = [t \in Target |-> Count(Tail(toClient), AckOf(t))]
  BY DEF Pending
<1>4. ASSUME NEW u \in Target
      PROVE  Pending[u] = Pending'[u] + (IF IsAck(Head(toClient)) /\ Head(toClient).target = u
                                         THEN 1 ELSE 0)
  <2>1. Count(toClient, AckOf(u)) = Count(Tail(toClient), AckOf(u))
                                     + (IF Head(toClient) \in AckOf(u) THEN 1 ELSE 0)
    BY CountTail
  <2>2. Head(toClient) \in AckOf(u) <=> IsAck(Head(toClient)) /\ Head(toClient).target = u
    BY <1>1 DEF AckOf
  <2> QED
    BY <1>3, <2>1, <2>2 DEF Pending
<1> QED
  BY <1>1, <1>2, <1>3, <1>4

(* The aggregator has other states, counted as before but for the response. *)
LEMMA StatesReplaced ==
    ASSUME SyncInv, states' \in Partial(Target, TargetStates),
           UNCHANGED <<queue, active, resume, toServer, limbo>>,
           \A u \in Target :
               (IF u \in DOMAIN states' THEN states'[u].outstanding ELSE 0)
                  = Count(toServer, To(u)) + Pending'[u]
    PROVE  Sound(Book, Pending, Book, limbo)'
<1> DEFINE c == Book'
<1>1. Book \in Books /\ Tracks(Book, limbo) /\ Filled(Book)
  BY InvFacts
<1>2. /\ c.queue = Book.queue /\ c.active = Book.active /\ c.resume = Book.resume
      /\ c.states = states' /\ c.sent = Book.sent /\ Book.sent = toServer
      /\ c = [queue |-> c.queue, active |-> c.active, resume |-> c.resume,
              states |-> c.states, sent |-> c.sent]
  BY DEF Book
<1> HIDE DEF c
<1>3. c \in Books
  BY <1>1, <1>2, BookFacts DEF Books
<1>4. Tracks(c, limbo) /\ Filled(c)
  BY <1>1, <1>2 DEF Tracks, Filled, Keys, Slots
<1>5. Counted(c, Pending')
  BY <1>2 DEF Counted, Outstanding
<1>6. Sound(c, Pending', c, limbo)
  BY <1>3, <1>4, <1>5, SoundOfItself
<1> QED
  BY <1>6 DEF c

LEMMA AcceptedFacts ==
    ASSUME SyncInv, NEW t \in Target
    PROVE  /\ Accepted(t) \in TargetStates
           /\ Accepted(t).outstanding = Count(toServer, To(t)) + Pending[t]
           /\ Count(toServer, To(t)) \in Nat /\ Pending[t] \in Nat
           /\ \A u \in DOMAIN states :
                u \in Target /\ states[u].outstanding = Count(toServer, To(u)) + Pending[u]
           /\ \A u \in Target \ DOMAIN states : 0 = Count(toServer, To(u)) + Pending[u]
<1>1. /\ Book \in Books /\ Counted(Book, Pending) /\ toServer \in Seq(ClientMessage)
      /\ Pending \in [Target -> Nat]
  BY InvFacts
<1>2. DOMAIN states \subseteq Target /\ \A u \in DOMAIN states : states[u] \in TargetStates
  BY <1>1, BookParts, BookFacts
<1>3. Accepted(t) \in TargetStates /\ Accepted(t).outstanding = Outstanding(Book, t)
  BY <1>2, FreshIsTyped, BookParts DEF Accepted, Outstanding
<1>4. Count(toServer, To(t)) \in Nat
  BY <1>1, OccursFinite
<1>5. \A u \in Target : Outstanding(Book, u) = Count(toServer, To(u)) + Pending[u]
  BY <1>1, BookParts DEF Counted
<1>6. \A u \in Target : Outstanding(Book, u) = IF u \in DOMAIN states THEN states[u].outstanding ELSE 0
  BY BookParts DEF Outstanding
<1>7. \A u \in DOMAIN states :
         u \in Target /\ states[u].outstanding = Count(toServer, To(u)) + Pending[u]
  BY <1>2, <1>5, <1>6
<1>8. \A u \in Target \ DOMAIN states : 0 = Count(toServer, To(u)) + Pending[u]
  BY <1>5, <1>6
<1> QED
  BY <1>1, <1>3, <1>4, <1>5, <1>7, <1>8

(* The changes of a target's state are of documents that are there. *)
KnownChanges(state, t) ==
    \A d \in Doc : state.changes[d] \in {"modified", "removed"} => d \in RemoteKeys(t)

LEMMA AcceptedIsKnown ==
    ASSUME SyncInv, NEW t, IsActive(t) PROVE KnownChanges(Accepted(t), t)
BY DEF SyncInv, ChangesAreOfKnown, KnownChanges, Accepted, Fresh, NoChanges

LEMMA FreshIsKnown == \A t : KnownChanges(Fresh, t)
BY DEF KnownChanges, Fresh, NoChanges

LEMMA WithoutFacts ==
    ASSUME NEW state \in TargetStates, NEW t, KnownChanges(state, t), NEW gone
    PROVE  /\ Without(state, t, gone) \in TargetStates
           /\ Without(state, t, gone).outstanding = state.outstanding
           /\ KnownChanges(Without(state, t, gone), t)
<1> DEFINE changes == [d \in Doc |-> IF d \notin gone THEN state.changes[d]
                                     ELSE IF d \in RemoteKeys(t) THEN "removed" ELSE "none"]
           new == Without(state, t, gone)
<1>1. /\ state \in [outstanding : Nat, current : BOOLEAN, changes : [Doc -> Change],
                    pending : BOOLEAN]
      /\ \A d \in Doc : state.changes[d] \in Change
  BY DEF TargetStates
<1>2. changes \in [Doc -> Change]
  BY <1>1 DEF Change
<1>3. new = [state EXCEPT !.pending = state.pending \/ gone # {}, !.changes = changes]
  BY <1>1 DEF Without
<1>4. \A d \in Doc : changes[d] \in {"modified", "removed"} => d \in RemoteKeys(t)
  BY DEF KnownChanges
<1> HIDE DEF changes, new
<1>5. new \in TargetStates /\ new.outstanding = state.outstanding /\ new.changes = changes
  BY <1>1, <1>2, <1>3 DEF TargetStates
<1> QED
  BY <1>4, <1>5 DEF KnownChanges, new

LEMMA WithFacts ==
    ASSUME NEW state \in TargetStates, NEW t, KnownChanges(state, t), NEW here
    PROVE  /\ With(state, t, here) \in TargetStates
           /\ With(state, t, here).outstanding = state.outstanding
           /\ KnownChanges(With(state, t, here), t)
<1> DEFINE changes == [d \in Doc |-> IF d \notin here THEN state.changes[d]
                                     ELSE IF d \in RemoteKeys(t) THEN "modified" ELSE "added"]
           new == With(state, t, here)
<1>1. /\ state \in [outstanding : Nat, current : BOOLEAN, changes : [Doc -> Change],
                    pending : BOOLEAN]
      /\ \A d \in Doc : state.changes[d] \in Change
  BY DEF TargetStates
<1>2. changes \in [Doc -> Change]
  BY <1>1 DEF Change
<1>3. new = [state EXCEPT !.pending = state.pending \/ here # {}, !.changes = changes]
  BY <1>1 DEF With
<1>4. \A d \in Doc : changes[d] \in {"modified", "removed"} => d \in RemoteKeys(t)
  BY DEF KnownChanges
<1> HIDE DEF changes, new
<1>5. new \in TargetStates /\ new.outstanding = state.outstanding /\ new.changes = changes
  BY <1>1, <1>2, <1>3 DEF TargetStates
<1> QED
  BY <1>4, <1>5 DEF KnownChanges, new

(* What a response that is not a snapshot leaves alone. *)
Unmoved ==
    UNCHANGED <<queue, active, resume, toServer, limbo, synced>>

(* The states of the other targets are as they were. *)
LEMMA OthersAreKnown ==
    ASSUME SyncInv, Unmoved, NEW t,
           \A u \in DOMAIN states' : u # t => u \in DOMAIN states /\ states'[u] = states[u],
           t \in DOMAIN states' /\ states'[t].outstanding = 0
               => \A d \in Doc : states'[t].changes[d] \in {"modified", "removed"}
                                   => d \in RemoteKeys(t)
    PROVE  ChangesAreOfKnown'
<1> SUFFICES ASSUME NEW u \in DOMAIN states', IsActive(u)', NEW d \in Doc,
                    states'[u].changes[d] \in {"modified", "removed"}
             PROVE  d \in RemoteKeys(u)'
  BY DEF ChangesAreOfKnown
<1>1. RemoteKeys(u)' = RemoteKeys(u)
  BY DEF Unmoved, RemoteKeys
<1>2. CASE u = t
  BY <1>1, <1>2 DEF IsActive
<1>3. CASE u # t
  BY <1>1, <1>3 DEF SyncInv, ChangesAreOfKnown, IsActive, Unmoved
<1> QED
  BY <1>2, <1>3

(* A target's state is replaced and nothing is acknowledged. *)
LEMMA StateTold ==
    ASSUME SyncInv, Unmoved, Pending' = Pending, NEW t \in Target, NEW x \in TargetStates,
           x.outstanding = Accepted(t).outstanding, KnownChanges(x, t),
           states' = Put(states, t, x)
    PROVE  Sound(Book, Pending, Book, limbo)' /\ ChangesAreOfKnown'
<1>1. states \in Partial(Target, TargetStates)
  BY InvFacts
<1>2. /\ states' \in Partial(Target, TargetStates)
      /\ DOMAIN states' = DOMAIN states \union {t}
      /\ states'[t] = x
      /\ \A u \in DOMAIN states : u # t => states'[u] = states[u]
  <2>1. states' = Put(states, t, x) /\ x \in TargetStates /\ states \in Partial(Target, TargetStates)
    BY <1>1
  <2>2. states' \in Partial(Target, TargetStates)
    BY <2>1, StatePutTyped
  <2> QED
    BY <2>1, <2>2 DEF Put
<1>3. ASSUME NEW u \in Target
      PROVE  (IF u \in DOMAIN states' THEN states'[u].outstanding ELSE 0)
                = Count(toServer, To(u)) + Pending'[u]
  BY <1>2, AcceptedFacts
<1>4. Sound(Book, Pending, Book, limbo)'
  BY <1>2, <1>3, StatesReplaced DEF Unmoved
<1>5. ChangesAreOfKnown'
  BY <1>2, OthersAreKnown DEF KnownChanges
<1> QED
  BY <1>4, <1>5

(* Nothing is told that changes a state. *)
LEMMA NothingTold ==
    ASSUME SyncInv, Unmoved, Pending' = Pending, UNCHANGED states
    PROVE  Sound(Book, Pending, Book, limbo)' /\ ChangesAreOfKnown'
<1>1. Book' = Book
  BY DEF Book, Unmoved
<1>2. Sound(Book, Pending, Book, limbo)'
  BY <1>1 DEF SyncInv, Unmoved
<1>3. ChangesAreOfKnown'
  BY DEF SyncInv, ChangesAreOfKnown, IsActive, RemoteKeys, Unmoved
<1> QED
  BY <1>2, <1>3

LEMMA HandleAddedSound ==
    ASSUME SyncInv, Unmoved, NEW t \in Target, Pending' \in [Target -> Nat],
           \A u \in Target : Pending[u] = Pending'[u] + (IF u = t THEN 1 ELSE 0),
           HandleAdded(t)
    PROVE  Sound(Book, Pending, Book, limbo)' /\ ChangesAreOfKnown'
<1> DEFINE state == [Accepted(t) EXCEPT !.outstanding = @ - 1]
           x == IF state.outstanding > 0 THEN state
                ELSE [state EXCEPT !.changes = NoChanges, !.pending = FALSE]
           n == Accepted(t).outstanding
<1>1. /\ Accepted(t) \in TargetStates /\ n = Count(toServer, To(t)) + Pending[t]
      /\ Count(toServer, To(t)) \in Nat /\ Pending'[t] \in Nat /\ Pending[t] = Pending'[t] + 1
  BY AcceptedFacts
<1>2. n \in Nat /\ n - 1 \in Nat /\ n - 1 = Count(toServer, To(t)) + Pending'[t]
  <2> HIDE DEF n
  <2> QED
    BY <1>1
<1>3. state \in TargetStates /\ state.outstanding = n - 1
  BY <1>1, <1>2 DEF TargetStates
<1>4. NoChanges \in [Doc -> Change] /\ \A d \in Doc : NoChanges[d] \notin {"modified", "removed"}
  BY DEF NoChanges, Change
<1> HIDE DEF state, n
<1>5. x \in TargetStates /\ x.outstanding = n - 1
  BY <1>3, <1>4 DEF TargetStates
<1>6. x.outstanding = 0 => \A d \in Doc : x.changes[d] \notin {"modified", "removed"}
  BY <1>2, <1>3, <1>4 DEF TargetStates
<1>7. states' = Put(states, t, x)
  BY DEF HandleAdded, state
<1> HIDE DEF x
<1>8. /\ states' \in Partial(Target, TargetStates)
      /\ DOMAIN states' = DOMAIN states \union {t}
      /\ states'[t] = x
      /\ \A u \in DOMAIN states : u # t => states'[u] = states[u]
  <2>1. states' = Put(states, t, x) /\ x \in TargetStates /\ states \in Partial(Target, TargetStates)
    BY <1>5, <1>7, InvFacts
  <2>2. states' \in Partial(Target, TargetStates)
    BY <2>1, StatePutTyped
  <2> QED
    BY <2>1, <2>2 DEF Put
<1>9. ASSUME NEW u \in Target
      PROVE  (IF u \in DOMAIN states' THEN states'[u].outstanding ELSE 0)
                = Count(toServer, To(u)) + Pending'[u]
  <2>1. CASE u = t
    BY <1>2, <1>5, <1>8, <2>1
  <2>2. CASE u # t
    <3>1. Pending[u] = Pending'[u]
      BY <2>2
    <3> QED
      BY <1>8, <2>2, <3>1, AcceptedFacts
  <2> QED
    BY <2>1, <2>2
<1>10. Sound(Book, Pending, Book, limbo)'
  BY <1>8, <1>9, StatesReplaced DEF Unmoved
<1>11. ChangesAreOfKnown'
  BY <1>6, <1>8, OthersAreKnown
<1> QED
  BY <1>10, <1>11

LEMMA HandleRemovedSound ==
    ASSUME SyncInv, Unmoved, NEW t \in Target, Pending' \in [Target -> Nat],
           \A u \in Target : Pending[u] = Pending'[u] + (IF u = t THEN 1 ELSE 0),
           HandleRemoved(t)
    PROVE  Sound(Book, Pending, Book, limbo)' /\ ChangesAreOfKnown'
<1> DEFINE x == [Accepted(t) EXCEPT !.outstanding = @ - 1]
           n == Accepted(t).outstanding
<1>1. /\ Accepted(t) \in TargetStates /\ n = Count(toServer, To(t)) + Pending[t]
      /\ Count(toServer, To(t)) \in Nat /\ Pending'[t] \in Nat /\ Pending[t] = Pending'[t] + 1
  BY AcceptedFacts
<1>2. n \in Nat /\ n - 1 \in Nat /\ n - 1 = Count(toServer, To(t)) + Pending'[t]
  <2> HIDE DEF n
  <2> QED
    BY <1>1
<1>3. x \in TargetStates /\ x.outstanding = n - 1
  BY <1>1, <1>2 DEF TargetStates
<1>4. states' = IF x.outstanding > 0 THEN Put(states, t, x) ELSE Less(states, t)
  BY DEF HandleRemoved
<1> HIDE DEF x, n
<1>5. states \in Partial(Target, TargetStates)
  BY InvFacts
<1>6. CASE n - 1 > 0
  <2>1. /\ states' \in Partial(Target, TargetStates)
        /\ DOMAIN states' = DOMAIN states \union {t}
        /\ states'[t] = x
        /\ \A u \in DOMAIN states : u # t => states'[u] = states[u]
    <3>1. states' = Put(states, t, x) /\ x \in TargetStates /\ states \in Partial(Target, TargetStates)
      BY <1>3, <1>4, <1>5, <1>6
    <3>2. states' \in Partial(Target, TargetStates)
      BY <3>1, StatePutTyped
    <3> QED
      BY <3>1, <3>2 DEF Put
  <2>2. ASSUME NEW u \in Target
        PROVE  (IF u \in DOMAIN states' THEN states'[u].outstanding ELSE 0)
                  = Count(toServer, To(u)) + Pending'[u]
    <3>1. CASE u = t
      BY <1>2, <1>3, <2>1, <3>1
    <3>2. CASE u # t
      <4>1. Pending[u] = Pending'[u]
        BY <3>2
      <4> QED
        BY <2>1, <3>2, <4>1, AcceptedFacts
    <3> QED
      BY <3>1, <3>2
  <2>3. Sound(Book, Pending, Book, limbo)'
    BY <2>1, <2>2, StatesReplaced DEF Unmoved
  <2>4. ChangesAreOfKnown'
    BY <1>2, <1>3, <1>6, <2>1, OthersAreKnown
  <2> QED
    BY <2>3, <2>4
<1>7. CASE ~(n - 1 > 0)
  <2>1. /\ states' \in Partial(Target, TargetStates)
        /\ DOMAIN states' = DOMAIN states \ {t}
        /\ \A u \in DOMAIN states : u # t => states'[u] = states[u]
    <3>1. states' = Less(states, t)
      BY <1>3, <1>4, <1>7
    <3>2. Less(states, t) \in Partial(Target, TargetStates)
      BY <1>5, LessFacts
    <3>3. /\ DOMAIN Less(states, t) = DOMAIN states \ {t}
          /\ \A u \in DOMAIN states : u # t => Less(states, t)[u] = states[u]
      BY DEF Less
    <3> QED
      BY <3>1, <3>2, <3>3
  <2>2. ASSUME NEW u \in Target
        PROVE  (IF u \in DOMAIN states' THEN states'[u].outstanding ELSE 0)
                  = Count(toServer, To(u)) + Pending'[u]
    <3>1. CASE u = t
      BY <1>2, <1>7, <2>1, <3>1
    <3>2. CASE u # t
      <4>1. Pending[u] = Pending'[u]
        BY <3>2
      <4> QED
        BY <2>1, <3>2, <4>1, AcceptedFacts
    <3> QED
      BY <3>1, <3>2
  <2>3. Sound(Book, Pending, Book, limbo)'
    BY <2>1, <2>2, StatesReplaced DEF Unmoved
  <2>4. ChangesAreOfKnown'
    BY <2>1, OthersAreKnown
  <2> QED
    BY <2>3, <2>4
<1> QED
  BY <1>6, <1>7

LEMMA UpdateIsTyped ==
    ASSUME updates \in [Doc -> {"none", "present", "deleted", "revoked"}], NEW here, NEW gone,
           NEW how \in {"deleted", "revoked"}
    PROVE  Update(here, gone, how) \in [Doc -> {"none", "present", "deleted", "revoked"}]
BY DEF Update

LEMMA ActiveTargets ==
    ASSUME SyncInv, NEW t, IsActive(t)
    PROVE  t \in Target /\ Accepted(t) \in TargetStates /\ Accepted(t).outstanding = 0
<1>1. t \in Target
  BY InvFacts, BookParts, BookFacts DEF IsActive, Target
<1> QED
  BY <1>1, AcceptedFacts, FreshIsTyped DEF IsActive, Accepted

LEMMA HandleDocumentChangeSound ==
    ASSUME SyncInv, Unmoved, NEW t, NEW here, NEW gone, Pending' = Pending,
           HandleDocumentChange(t, here, gone)
    PROVE  /\ Sound(Book, Pending, Book, limbo)' /\ ChangesAreOfKnown'
           /\ updates' \in [Doc -> {"none", "present", "deleted", "revoked"}]
<1>1. updates \in [Doc -> {"none", "present", "deleted", "revoked"}]
  BY DEF SyncInv, PlainTypeOK
<1>2. CASE IsActive(t)
  <2> DEFINE w == With(Accepted(t), t, here)
             x == Without(w, t, gone)
  <2>1. t \in Target /\ Accepted(t) \in TargetStates
    BY <1>2, ActiveTargets
  <2>2. KnownChanges(Accepted(t), t)
    BY <1>2, AcceptedIsKnown
  <2>3. w \in TargetStates /\ w.outstanding = Accepted(t).outstanding /\ KnownChanges(w, t)
    BY <2>1, <2>2, WithFacts
  <2> HIDE DEF w
  <2>4. x \in TargetStates /\ x.outstanding = Accepted(t).outstanding /\ KnownChanges(x, t)
    BY <2>3, WithoutFacts
  <2>5. states' = Put(states, t, x)
    BY <1>2 DEF HandleDocumentChange, w
  <2> HIDE DEF x
  <2>6. Sound(Book, Pending, Book, limbo)' /\ ChangesAreOfKnown'
    BY <2>1, <2>4, <2>5, StateTold
  <2> QED
    BY <1>1, <1>2, <2>6, UpdateIsTyped DEF HandleDocumentChange
<1>3. CASE ~IsActive(t)
  BY <1>1, <1>3, NothingTold DEF HandleDocumentChange
<1> QED
  BY <1>2, <1>3

LEMMA HandleCurrentSound ==
    ASSUME SyncInv, Unmoved, NEW t, Pending' = Pending, HandleCurrent(t)
    PROVE  Sound(Book, Pending, Book, limbo)' /\ ChangesAreOfKnown'
<1>1. CASE IsActive(t)
  <2> DEFINE x == [Accepted(t) EXCEPT !.current = TRUE, !.pending = TRUE]
  <2>1. t \in Target /\ Accepted(t) \in TargetStates
    BY <1>1, ActiveTargets
  <2>2. x \in TargetStates /\ x.outstanding = Accepted(t).outstanding
        /\ x.changes = Accepted(t).changes
    BY <2>1 DEF TargetStates
  <2>3. states' = Put(states, t, x)
    BY <1>1 DEF HandleCurrent
  <2> HIDE DEF x
  <2>4. KnownChanges(x, t)
    BY <1>1, <2>2, AcceptedIsKnown DEF KnownChanges
  <2> QED
    BY <2>1, <2>2, <2>3, <2>4, StateTold
<1>2. CASE ~IsActive(t)
  BY <1>2, NothingTold DEF HandleCurrent
<1> QED
  BY <1>1, <1>2

LEMMA ResetFacts ==
    ASSUME NEW t
    PROVE  ResetState(t) \in TargetStates /\ ResetState(t).outstanding = 0
           /\ KnownChanges(ResetState(t), t)
BY FreshIsTyped, FreshIsKnown, WithoutFacts DEF ResetState

LEMMA HandleResetSound ==
    ASSUME SyncInv, Unmoved, NEW t, Pending' = Pending, HandleReset(t)
    PROVE  Sound(Book, Pending, Book, limbo)' /\ ChangesAreOfKnown'
<1>1. CASE IsActive(t)
  <2>1. t \in Target /\ Accepted(t).outstanding = 0
    BY <1>1, ActiveTargets
  <2>2. states' = Put(states, t, ResetState(t))
    BY <1>1 DEF HandleReset
  <2> QED
    BY <2>1, <2>2, ResetFacts, StateTold
<1>2. CASE ~IsActive(t)
  BY <1>2, NothingTold DEF HandleReset
<1> QED
  BY <1>1, <1>2

LEMMA HandleExistenceFilterSound ==
    ASSUME SyncInv, Unmoved, NEW t, NEW count, Pending' = Pending,
           HandleExistenceFilter(t, count)
    PROVE  /\ Sound(Book, Pending, Book, limbo)' /\ ChangesAreOfKnown'
           /\ updates' \in [Doc -> {"none", "present", "deleted", "revoked"}]
           /\ mismatch' \in BOOLEAN
<1>1. /\ updates \in [Doc -> {"none", "present", "deleted", "revoked"}]
      /\ mismatch \in BOOLEAN
  BY DEF SyncInv, PlainTypeOK
<1>2. CASE UNCHANGED aggregatorVars
  BY <1>1, <1>2, NothingTold DEF aggregatorVars
<1>3. CASE /\ IsActive(t)
           /\ states' = Put(states, t, Without(Accepted(t), t, Scope(t)))
           /\ updates' = Update({}, Scope(t), "revoked")
           /\ UNCHANGED mismatch
  <2> DEFINE x == Without(Accepted(t), t, Scope(t))
  <2>1. t \in Target /\ Accepted(t) \in TargetStates /\ KnownChanges(Accepted(t), t)
    BY <1>3, ActiveTargets, AcceptedIsKnown
  <2>2. x \in TargetStates /\ x.outstanding = Accepted(t).outstanding /\ KnownChanges(x, t)
    BY <2>1, WithoutFacts
  <2> HIDE DEF x
  <2>3. Sound(Book, Pending, Book, limbo)' /\ ChangesAreOfKnown'
    BY <1>3, <2>1, <2>2, StateTold DEF x
  <2> QED
    BY <1>1, <1>3, <2>3, UpdateIsTyped
<1>4. CASE /\ IsActive(0)
           /\ states' = Put(states, 0, ResetState(0))
           /\ mismatch' = TRUE
           /\ UNCHANGED updates
  <2>1. 0 \in Target /\ Accepted(0).outstanding = 0
    BY <1>4, ActiveTargets
  <2>2. Sound(Book, Pending, Book, limbo)' /\ ChangesAreOfKnown'
    BY <1>4, <2>1, ResetFacts, StateTold
  <2> QED
    BY <1>1, <1>4, <2>2
<1>5. CASE UNCHANGED <<states, updates, mismatch>>
  BY <1>1, <1>5, NothingTold
<1> QED
  BY <1>2, <1>3, <1>4, <1>5 DEF HandleExistenceFilter

-----------------------------------------------------------------------------
(* A snapshot: what the event holds leaves the aggregator.                 *)
LEMMA MappedIsPartial ==
    ASSUME NEW D, NEW R, NEW S, NEW f \in Partial(D, R), NEW g \in [DOMAIN f -> S]
    PROVE  g \in Partial(D, S) /\ DOMAIN g = DOMAIN f
<1>1. DOMAIN f \subseteq D /\ IsFiniteSet(DOMAIN f)
  BY PartialFacts
<1>2. g \in Partial(D, S)
  BY <1>1, FunctionIsPartial
<1> QED
  BY <1>2

(* What limbo is tracked with is the queue and the keys of the resolutions. *)
LEMMA SameKeysTrack ==
    ASSUME NEW b, NEW c, NEW L, Tracks(b, L), Filled(b), c.queue = b.queue,
           DOMAIN c.active = DOMAIN b.active,
           \A t \in DOMAIN b.active : c.active[t].key = b.active[t].key
    PROVE  Tracks(c, L) /\ Filled(c)
<1>1. Keys(c) = Keys(b)
  BY DEF Keys
<1> QED
  BY <1>1 DEF Tracks, Filled, Slots

Raised == {t \in DOMAIN states : IsActive(t)}
Settled(known) == [Noted(Raised, known) EXCEPT !.active = Resolutions(Raised)]

LEMMA ResolutionsFacts ==
    ASSUME SyncInv
    PROVE  /\ Resolutions(Raised) \in Partial(Target \ {0}, Resolution)
           /\ DOMAIN Resolutions(Raised) = DOMAIN active
           /\ \A t \in DOMAIN active : Resolutions(Raised)[t].key = active[t].key
<1>1. active \in Partial(Target \ {0}, Resolution)
  BY InvFacts
<1>2. \A t \in DOMAIN active : active[t] \in Resolution
  BY <1>1, PartialFacts
<1>3. ASSUME NEW t \in DOMAIN active
      PROVE  Resolutions(Raised)[t] \in Resolution /\ Resolutions(Raised)[t].key = active[t].key
  BY <1>2 DEF Resolutions, Resolution
<1>4. Resolutions(Raised) \in [DOMAIN active -> Resolution]
  BY <1>3 DEF Resolutions
<1> QED
  BY <1>1, <1>3, <1>4, MappedIsPartial

LEMMA SettledFacts ==
    ASSUME SyncInv, NEW known \in SUBSET Doc
    PROVE  /\ Sound(Settled(known), Pending, Settled(known), limbo)
           /\ \A t \in DOMAIN Settled(known).states \intersect DOMAIN Settled(known).resume :
                Settled(known).states[t].outstanding = 0
                  => Settled(known).states[t].changes = NoChanges
<1> DEFINE c == Settled(known)
           told2 == [t \in DOMAIN states |->
                       IF t \in Raised
                       THEN [states[t] EXCEPT !.changes = NoChanges, !.pending = FALSE]
                       ELSE states[t]]
           resume2 == [t \in DOMAIN resume |-> IF t \in Raised THEN known ELSE resume[t]]
           active2 == Resolutions(Raised)
<1>1. /\ Book \in Books /\ Counted(Book, Pending) /\ Tracks(Book, limbo) /\ Filled(Book)
      /\ queue \in Seq(Doc) /\ toServer \in Seq(ClientMessage)
      /\ resume \in Partial(Target, Token) /\ states \in Partial(Target, TargetStates)
      /\ DOMAIN resume = DOMAIN active \union {0}
  BY InvFacts
<1>2. /\ active2 \in Partial(Target \ {0}, Resolution)
      /\ DOMAIN active2 = DOMAIN active
      /\ \A t \in DOMAIN active : active2[t].key = active[t].key
  BY ResolutionsFacts
<1> HIDE DEF active2
<1>3. resume2 \in Partial(Target, Token) /\ DOMAIN resume2 = DOMAIN resume
  <2>1. \A t \in DOMAIN resume : resume[t] \in Token
    BY <1>1, PartialFacts
  <2>2. known \in Token
    BY TokensAreTyped
  <2>3. resume2 \in [DOMAIN resume -> Token]
    BY <2>1, <2>2
  <2> HIDE DEF resume2
  <2> QED
    BY <1>1, <2>3, MappedIsPartial
<1>4. \A t \in DOMAIN states : states[t] \in TargetStates
  BY <1>1, PartialFacts
<1>5. ASSUME NEW t \in DOMAIN states
      PROVE  /\ told2[t] \in TargetStates /\ told2[t].outstanding = states[t].outstanding
             /\ t \in Raised => told2[t].changes = NoChanges
  <2>1. NoChanges \in [Doc -> Change]
    BY DEF NoChanges, Change
  <2> QED
    BY <1>4, <2>1 DEF TargetStates
<1>6. told2 \in Partial(Target, TargetStates) /\ DOMAIN told2 = DOMAIN states
  <2>1. told2 \in [DOMAIN states -> TargetStates]
    BY <1>5
  <2> HIDE DEF told2
  <2> QED
    BY <1>1, <2>1, MappedIsPartial
<1>7. /\ c.queue = queue /\ c.active = active2 /\ c.resume = resume2 /\ c.states = told2
      /\ c.sent = toServer
      /\ c = [queue |-> c.queue, active |-> c.active, resume |-> c.resume,
              states |-> c.states, sent |-> c.sent]
  <2>1. c = [Book EXCEPT !.states = told2, !.resume = resume2, !.active = active2]
    BY BookParts DEF Settled, Noted, Book, active2
  <2> HIDE DEF c, told2, resume2
  <2> QED
    BY <2>1 DEF Book
<1> HIDE DEF c, told2, resume2
<1>8. c \in Books
  BY <1>1, <1>2, <1>3, <1>6, <1>7 DEF Books
<1>9. Tracks(c, limbo) /\ Filled(c)
  BY <1>1, <1>2, <1>7, BookParts, SameKeysTrack
<1>10. Counted(c, Pending)
  BY <1>1, <1>5, <1>6, <1>7, BookParts DEF Counted, Outstanding
<1>11. ASSUME NEW t \in DOMAIN c.states \intersect DOMAIN c.resume, c.states[t].outstanding = 0
       PROVE  c.states[t].changes = NoChanges
  <2>1. t \in DOMAIN states /\ t \in DOMAIN resume /\ states[t].outstanding = 0
    BY <1>3, <1>5, <1>6, <1>7, <1>11
  <2>2. t \in Raised
    BY <2>1 DEF Raised, IsActive
  <2> QED
    BY <1>5, <1>7, <2>1, <2>2
<1> QED
  BY <1>8, <1>9, <1>10, <1>11, SoundOfItself DEF c

LEMMA RewatchSound ==
    ASSUME NEW old, NEW acks \in [Target -> Nat], NEW b, NEW L, Sound(old, acks, b, L)
    PROVE  Sound(old, acks, Rewatch(b), L)
<1> DEFINE resume2 == [b.resume EXCEPT ![0] = NoToken]
           r == [b EXCEPT !.resume[0] = NoToken]
           u == SendUnwatch(r, 0)
           w == SendWatch(u, 0, Doc)
<1>1. b \in Books /\ Carries(old, acks, b) /\ Tracks(b, L) /\ Filled(b)
  BY DEF Sound, Carries
<1>2. 0 \in Target /\ Doc \in SUBSET Doc
  BY DEF Target
<1>3. resume2 \in Partial(Target, Token) /\ DOMAIN resume2 = DOMAIN b.resume
  <2>1. b.resume \in Partial(Target, Token)
    BY <1>1, BookFacts
  <2>2. b.resume \in [DOMAIN b.resume -> Token]
    BY <2>1, PartialFacts
  <2>3. resume2 \in [DOMAIN b.resume -> Token]
    BY <2>2, TokensAreTyped
  <2> HIDE DEF resume2
  <2> QED
    BY <2>1, <2>3, MappedIsPartial
<1>4. r = [b EXCEPT !.resume = resume2]
  OBVIOUS
<1> HIDE DEF r, resume2
<1>5. /\ r \in Books /\ r.queue = b.queue /\ r.active = b.active /\ r.states = b.states
      /\ r.sent = b.sent /\ DOMAIN r.resume = DOMAIN b.resume /\ 0 \in DOMAIN r.resume
  BY <1>1, <1>3, <1>4, BookFacts DEF Books
<1>6. Carries(old, acks, r)
  BY <1>1, <1>5, NarrowedCarries
<1>7. Carries(old, acks, u) /\ u.queue = r.queue /\ u.active = r.active /\ u.resume = r.resume
  BY <1>2, <1>6, SendUnwatchCarries
<1> HIDE DEF u
<1>8. Carries(old, acks, w) /\ w.queue = u.queue /\ w.active = u.active
  BY <1>2, <1>5, <1>7, SendWatchCarries
<1> HIDE DEF w
<1>9. Tracks(w, L) /\ Filled(w)
  BY <1>1, <1>5, <1>7, <1>8, SameKeysTrack
<1> QED
  BY <1>8, <1>9 DEF Sound, Rewatch, w, u, r

LEMMA HandleSnapshotSound ==
    ASSUME SyncInv, NEW known \in SUBSET Doc, NEW saved \in Token, Pending' = Pending,
           HandleSnapshot(known, saved)
    PROVE  /\ cache' \in [Doc -> DocState] /\ keys' \in SUBSET Doc /\ token' \in Token
           /\ mutated' = mutated
           /\ updates' \in [Doc -> {"none", "present", "deleted", "revoked"}]
           /\ mismatch' \in BOOLEAN
           /\ synced' \in SUBSET Doc /\ current' \in BOOLEAN /\ limbo' \in SUBSET Doc
           /\ mutatedKeys' \in SUBSET Doc
           /\ Sound(Book, Pending, Book, limbo)' /\ ChangesAreOfKnown'
<1> DEFINE change == Accepted(0)
           inEvent == 0 \in Raised
           added == AddedTo(change)
           removed == RemovedFrom(change)
           noted == Settled(known)
           next == IF mismatch THEN Rewatch(noted) ELSE noted
           now == IF inEvent THEN (synced \ removed) \union added ELSE synced
           isCurrent == IF inEvent THEN change.current ELSE current
<1>1. /\ PlainTypeOK /\ Pending \in [Target -> Nat] /\ limbo \in SUBSET Doc
      /\ change \in TargetStates
  BY InvFacts, AcceptedFacts DEF SyncInv, PlainTypeOK, Target
<1>2. added \in SUBSET Doc /\ removed \in SUBSET Doc /\ change.current \in BOOLEAN
  BY <1>1 DEF AddedTo, RemovedFrom, TargetStates
<1>3. cache' \in [Doc -> DocState]
  <2>1. \A d \in Doc : /\ cache[d] \in DocState
                       /\ updates[d] \in {"none", "present", "deleted", "revoked"}
    BY <1>1 DEF PlainTypeOK
  <2>2. ASSUME NEW d \in Doc
        PROVE  Newer(cache[d], IF \E t \in Denied : active[t].key = d
                               THEN "deleted" ELSE updates[d]) \in DocState
    <3>1. (IF \E t \in Denied : active[t].key = d THEN "deleted" ELSE updates[d])
             \in {"none", "present", "deleted", "revoked"}
      BY <2>1
    <3> QED
      BY <2>1, <3>1, NewerIsTyped
  <2>3. cache' = [d \in Doc |->
                    Newer(cache[d], IF \E t \in Denied : active[t].key = d
                                    THEN "deleted" ELSE updates[d])]
    BY DEF HandleSnapshot
  <2> QED
    BY <2>2, <2>3
<1>4. /\ keys' = IF inEvent THEN (keys \ removed) \union added ELSE keys
      /\ token' = saved /\ updates' = NoChanges /\ mismatch' = FALSE /\ mutated' = mutated
  BY DEF HandleSnapshot, Raised
<1>5. updates' \in [Doc -> {"none", "present", "deleted", "revoked"}]
  BY <1>4 DEF NoChanges
<1>6. ApplyChanges(next, cache', mutated, Changed, now, isCurrent)
  BY DEF HandleSnapshot, Raised, Settled
<1>7. /\ Sound(noted, Pending, noted, limbo)
      /\ \A t \in DOMAIN noted.states \intersect DOMAIN noted.resume :
           noted.states[t].outstanding = 0 => noted.states[t].changes = NoChanges
  BY SettledFacts
<1> HIDE DEF noted
<1>8. Sound(noted, Pending, next, limbo)
  BY <1>1, <1>7, RewatchSound
<1>9. now \in SUBSET Doc /\ isCurrent \in BOOLEAN
  BY <1>1, <1>2 DEF PlainTypeOK
<1> HIDE DEF next, now, isCurrent
<1>10. /\ synced' = now /\ current' = isCurrent /\ limbo' \in SUBSET Doc
       /\ mutatedKeys' \in SUBSET Doc
       /\ \E c : Keep(c) /\ Sound(noted, Pending, c, limbo')
  BY <1>1, <1>6, <1>8, ApplyChangesSound
<1>11. PICK c : Keep(c) /\ Sound(noted, Pending, c, limbo')
  BY <1>10
<1>12. /\ c \in Books /\ Counted(c, Pending) /\ Inherits(noted, c)
       /\ Tracks(c, limbo') /\ Filled(c)
  BY <1>11 DEF Sound, Carries
<1>13. Book' = c
  BY <1>11, <1>12, KeepIsBook
<1>14. Sound(Book, Pending, Book, limbo)'
  <2>1. Sound(c, Pending, c, limbo')
    BY <1>12, SoundOfItself
  <2> QED
    BY <1>13, <2>1
<1>15. ChangesAreOfKnown'
  <2> SUFFICES ASSUME NEW t \in DOMAIN states', IsActive(t)', NEW d \in Doc
               PROVE  states'[t].changes[d] \notin {"modified", "removed"}
    BY DEF ChangesAreOfKnown
  <2>1. t \in DOMAIN c.states \intersect DOMAIN c.resume /\ c.states[t].outstanding = 0
        /\ states' = c.states
    BY <1>11 DEF Keep, IsActive
  <2>2. states'[t].changes = NoChanges
    BY <1>7, <1>12, <2>1 DEF Inherits
  <2> QED
    BY <2>2 DEF NoChanges
<1> QED
  BY <1>1, <1>2, <1>3, <1>4, <1>5, <1>9, <1>10, <1>14, <1>15 DEF PlainTypeOK

LEMMA ReceiveInv == SyncInv /\ Receive => SyncInv'
<1> SUFFICES ASSUME SyncInv, Receive PROVE SyncInv'
  OBVIOUS
<1> DEFINE m == Head(toClient)
<1>1. /\ toClient # <<>> /\ toClient' = Tail(toClient) /\ toClient \in Seq(ServerMessage)
      /\ PlainTypeOK
      /\ UNCHANGED <<serverDocs, open, told, breaks, restarts, intact>>
  BY DEF SyncInv, PlainTypeOK, Receive
<1>2. /\ toClient' \in Seq(ServerMessage) /\ m \in ServerMessage
      /\ Pending' \in [Target -> Nat]
      /\ \A u \in Target :
           Pending[u] = Pending'[u] + (IF IsAck(m) /\ m.target = u THEN 1 ELSE 0)
  BY <1>1, ResponseTaken
<1>3. /\ m.type = "snapshot" => m.token \in SUBSET Doc
      /\ m.type \in {"added", "removed"} => m.target \in Target
  BY <1>2 DEF ServerMessage
<1> HIDE DEF m
<1>4. ~IsAck(m) => Pending' = Pending
  <2>1. ASSUME ~IsAck(m) PROVE \A u \in Target : Pending[u] = Pending'[u]
    <3>1. \A u \in Target : Pending[u] = Pending'[u] + 0 /\ Pending'[u] \in Nat
      BY <1>2, <2>1
    <3> QED
      BY <3>1
  <2>2. Pending = [t \in Target |-> Pending[t]] /\ Pending' = [t \in Target |-> Pending'[t]]
    BY <1>2, InvFacts
  <2> QED
    BY <2>1, <2>2
<1>5. told' \in Partial(Target, Served)
  BY <1>1 DEF SyncInv
<1>6. \/ /\ m.type = "snapshot"
         /\ \E saved \in {token, m.token} : HandleSnapshot(m.token, saved)
      \/ /\ \/ m.type = "added" /\ HandleAdded(m.target)
            \/ m.type = "removed" /\ HandleRemoved(m.target)
            \/ m.type = "change" /\ HandleDocumentChange(m.target, m.here, m.gone)
            \/ m.type = "current" /\ HandleCurrent(m.target)
            \/ m.type = "reset" /\ HandleReset(m.target)
            \/ m.type = "filter" /\ HandleExistenceFilter(m.target, m.count)
         /\ UNCHANGED <<diskVars, viewVars, syncVars, toServer>>
  BY DEF Receive, m
<1>7. ASSUME m.type = "snapshot", NEW saved \in {token, m.token},
             HandleSnapshot(m.token, saved)
      PROVE  SyncInv'
  <2>0. heard' = TRUE
    BY DEF Receive
  <2>1. m.token \in SUBSET Doc /\ Pending' = Pending
    BY <1>3, <1>4, <1>7 DEF IsAck
  <2>2. saved \in Token
    BY <1>1, <1>7, <2>1, TokensAreTyped DEF PlainTypeOK
  <2>3. /\ cache' \in [Doc -> DocState] /\ keys' \in SUBSET Doc /\ token' \in Token
        /\ mutated' = mutated
        /\ updates' \in [Doc -> {"none", "present", "deleted", "revoked"}]
        /\ mismatch' \in BOOLEAN
        /\ synced' \in SUBSET Doc /\ current' \in BOOLEAN /\ limbo' \in SUBSET Doc
        /\ mutatedKeys' \in SUBSET Doc
        /\ Sound(Book, Pending, Book, limbo)' /\ ChangesAreOfKnown'
    BY <1>7, <2>1, <2>2, HandleSnapshotSound
  <2>4. PlainTypeOK'
    BY <1>1, <1>2, <2>0, <2>3 DEF PlainTypeOK
  <2> QED
    BY <1>5, <2>3, <2>4 DEF SyncInv
<1>8. ASSUME \/ m.type = "added" /\ HandleAdded(m.target)
             \/ m.type = "removed" /\ HandleRemoved(m.target)
             \/ m.type = "change" /\ HandleDocumentChange(m.target, m.here, m.gone)
             \/ m.type = "current" /\ HandleCurrent(m.target)
             \/ m.type = "reset" /\ HandleReset(m.target)
             \/ m.type = "filter" /\ HandleExistenceFilter(m.target, m.count),
             UNCHANGED <<diskVars, viewVars, syncVars, toServer>>
      PROVE  SyncInv'
  <2>0. mutatedKeys' = mutatedKeys /\ heard' = TRUE
    BY <1>8 DEF Receive, viewVars
  <2>1. Unmoved /\ UNCHANGED <<cache, keys, token, mutated, current>>
    BY <1>8 DEF Unmoved, diskVars, viewVars, syncVars
  <2>2. SUFFICES /\ Sound(Book, Pending, Book, limbo)' /\ ChangesAreOfKnown'
                 /\ updates' \in [Doc -> {"none", "present", "deleted", "revoked"}]
                 /\ mismatch' \in BOOLEAN
    <3>1. ASSUME updates' \in [Doc -> {"none", "present", "deleted", "revoked"}],
                 mismatch' \in BOOLEAN
          PROVE  PlainTypeOK'
      BY <1>1, <1>2, <2>0, <2>1, <3>1 DEF PlainTypeOK, Unmoved
    <3> QED
      BY <1>5, <3>1 DEF SyncInv
  <2>3. /\ updates \in [Doc -> {"none", "present", "deleted", "revoked"}]
        /\ mismatch \in BOOLEAN
    BY <1>1 DEF PlainTypeOK
  <2>4. CASE m.type = "added" /\ HandleAdded(m.target)
    <3>1. /\ m.target \in Target
          /\ \A u \in Target : Pending[u] = Pending'[u] + (IF u = m.target THEN 1 ELSE 0)
      BY <1>2, <1>3, <2>4 DEF IsAck
    <3>2. Sound(Book, Pending, Book, limbo)' /\ ChangesAreOfKnown'
      BY <1>2, <2>1, <2>4, <3>1, HandleAddedSound
    <3> QED
      BY <2>3, <2>4, <3>2 DEF HandleAdded
  <2>5. CASE m.type = "removed" /\ HandleRemoved(m.target)
    <3>1. /\ m.target \in Target
          /\ \A u \in Target : Pending[u] = Pending'[u] + (IF u = m.target THEN 1 ELSE 0)
      BY <1>2, <1>3, <2>5 DEF IsAck
    <3>2. Sound(Book, Pending, Book, limbo)' /\ ChangesAreOfKnown'
      BY <1>2, <2>1, <2>5, <3>1, HandleRemovedSound
    <3> QED
      BY <2>3, <2>5, <3>2 DEF HandleRemoved
  <2>6. CASE m.type = "change" /\ HandleDocumentChange(m.target, m.here, m.gone)
    <3>1. Pending' = Pending
      BY <1>4, <2>6 DEF IsAck
    <3>2. /\ Sound(Book, Pending, Book, limbo)' /\ ChangesAreOfKnown'
          /\ updates' \in [Doc -> {"none", "present", "deleted", "revoked"}]
      BY <2>1, <2>6, <3>1, HandleDocumentChangeSound
    <3> QED
      BY <2>3, <2>6, <3>2 DEF HandleDocumentChange
  <2>7. CASE m.type = "current" /\ HandleCurrent(m.target)
    <3>1. Pending' = Pending
      BY <1>4, <2>7 DEF IsAck
    <3>2. Sound(Book, Pending, Book, limbo)' /\ ChangesAreOfKnown'
      BY <2>1, <2>7, <3>1, HandleCurrentSound
    <3> QED
      BY <2>3, <2>7, <3>2 DEF HandleCurrent
  <2>8. CASE m.type = "reset" /\ HandleReset(m.target)
    <3>1. Pending' = Pending
      BY <1>4, <2>8 DEF IsAck
    <3>2. Sound(Book, Pending, Book, limbo)' /\ ChangesAreOfKnown'
      BY <2>1, <2>8, <3>1, HandleResetSound
    <3> QED
      BY <2>3, <2>8, <3>2 DEF HandleReset
  <2>9. CASE m.type = "filter" /\ HandleExistenceFilter(m.target, m.count)
    <3>1. Pending' = Pending
      BY <1>4, <2>9 DEF IsAck
    <3> QED
      BY <2>1, <2>9, <3>1, HandleExistenceFilterSound
  <2> QED
    BY <1>8, <2>4, <2>5, <2>6, <2>7, <2>8, <2>9
<1> QED
  BY <1>6, <1>7, <1>8

-----------------------------------------------------------------------------
(* The targets in ascending order, each once.                              *)
LEMMA LastNumber ==
    ASSUME NEW S \in SUBSET Nat, IsFiniteSet(S), S # {}
    PROVE  \E n \in S : \A m \in S : m <= n
<1>1. PICK k \in Nat : ExistsSurjection(1 .. k, S)
  BY FS_NatSurjection
<1>2. PICK f \in [1 .. k -> S] : \A s \in S : \E j \in 1 .. k : f[j] = s
  BY <1>1 DEF ExistsSurjection, Surjection
<1> DEFINE B == {i \in 0 .. k : \E u \in Nat : \A j \in 1 .. i : f[j] <= u}
<1>3. 0 \in B
  <2>1. \A j \in 1 .. 0 : f[j] <= 0
    OBVIOUS
  <2> QED
    BY <2>1
<1>4. ASSUME NEW i \in 1 .. k, i - 1 \in B PROVE i \in B
  <2>1. PICK u \in Nat : \A j \in 1 .. i - 1 : f[j] <= u
    BY <1>4
  <2>2. i \in 1 .. i /\ \A j \in 1 .. i : j = i \/ j \in 1 .. i - 1
    BY <1>4
  <2>3. \A j \in 1 .. i : f[j] \in Nat
    <3>1. \A j \in 1 .. i : j \in 1 .. k
      BY <1>4
    <3>2. \A j \in 1 .. k : f[j] \in Nat
      BY <1>2
    <3> QED
      BY <3>1, <3>2
  <2>4. \A j \in 1 .. i : f[j] <= u + f[i]
    BY <2>1, <2>2, <2>3
  <2>5. u + f[i] \in Nat /\ i \in 0 .. k
    BY <1>4, <2>2, <2>3
  <2> QED
    BY <2>4, <2>5
<1>5. k \in B
  <2>1. \A i \in 0 .. k : i \in B
    <3> HIDE DEF B
    <3> QED
      BY <1>3, <1>4, InductionUpTo
  <2> HIDE DEF B
  <2> QED
    BY <2>1
<1>6. PICK u \in Nat : \A j \in 1 .. k : f[j] <= u
  BY <1>5
<1> DEFINE T == {v \in Nat : \A m \in S : m <= v}
<1>7. u \in T
  BY <1>2, <1>6
<1>8. PICK n \in T : \A v \in T : n <= v
  <2>1. T \subseteq Nat /\ T # {}
    BY <1>7
  <2> HIDE DEF T
  <2> QED
    BY <2>1, LeastElement
<1>9. n \in S
  <2> SUFFICES ASSUME n \notin S PROVE FALSE
    OBVIOUS
  <2>1. PICK s \in S : TRUE
    OBVIOUS
  <2>2. \A m \in S : m \in Nat /\ m <= n /\ m # n
    BY <1>8
  <2>3. n - 1 \in Nat /\ \A m \in S : m <= n - 1
    BY <1>8, <2>1, <2>2
  <2>4. n - 1 \in T
    BY <2>3
  <2> QED
    BY <1>8, <2>4
<1> QED
  BY <1>8, <1>9

LEMMA AscendingFacts ==
    ASSUME NEW S \in SUBSET Nat, IsFiniteSet(S)
    PROVE  /\ Ascending(S) \in Seq(Nat)
           /\ Entries(Ascending(S)) = S
           /\ NoneTwice(Ascending(S))
<1>1. CASE S = {}
  <2>1. Ascending(S) = <<>>
    BY <1>1 DEF Ascending
  <2>2. <<>> \in Seq(Nat) /\ DOMAIN <<>> = {}
    BY EmptySeq
  <2>3. Entries(<<>>) = {} /\ NoneTwice(<<>>)
    BY <2>2 DEF Entries, NoneTwice
  <2> QED
    BY <1>1, <2>1, <2>2, <2>3
<1>2. CASE S # {}
  <2> DEFINE last == CHOOSE n \in S : \A m \in S : m <= n
             all == [i \in 1 .. last + 1 |-> i - 1]
  <2>1. last \in S /\ \A m \in S : m <= last
    BY <1>2, LastNumber
  <2>2. Ascending(S) = Selected(all, S)
    BY <1>2 DEF Ascending
  <2> HIDE DEF last
  <2>3. last \in Nat /\ last + 1 \in Nat
    BY <2>1
  <2>4. all \in [1 .. last + 1 -> Nat]
    BY <2>3
  <2>5. all \in Seq(Nat)
    <3> HIDE DEF all
    <3> QED
      BY <2>3, <2>4, SeqDef
  <2>6. S \subseteq Entries(all)
    <3>1. \A m \in S : m + 1 \in 1 .. last + 1 /\ all[m + 1] = m
      BY <2>1, <2>3
    <3> QED
      BY <3>1 DEF Entries
  <2>7. NoneTwice(all)
    BY <2>3 DEF NoneTwice
  <2> HIDE DEF all
  <2>8. Selected(all, S) \in Seq(Nat)
    <3>1. Selected(all, S) \in Seq(Nat \intersect S)
      BY <2>5, SelectedProperties
    <3>2. Nat \intersect S \subseteq Nat
      OBVIOUS
    <3> QED
      BY <3>1, <3>2, SeqMonotonic
  <2>9. Entries(Selected(all, S)) = S /\ NoneTwice(Selected(all, S))
    <3>1. /\ Entries(Selected(all, S)) = Entries(all) \intersect S
          /\ NoneTwice(all) => NoneTwice(Selected(all, S))
      BY <2>5, SelectedEntries
    <3> QED
      BY <2>6, <2>7, <3>1
  <2> QED
    BY <2>2, <2>8, <2>9
<1> QED
  BY <1>1, <1>2

(* What is sent when the stream opens. *)
Watches ==
    [i \in DOMAIN Ascending(DOMAIN resume) |->
        LET t == Ascending(DOMAIN resume)[i]
        IN  [type |-> "watch", target |-> t, scope |-> Scope(t), token |-> resume[t]]]

LEMMA WatchesFacts ==
    ASSUME SyncInv
    PROVE  /\ Watches \in Seq(ClientMessage)
           /\ \A u \in Target :
                Count(toServer \o Watches, To(u))
                    = Count(toServer, To(u)) + (IF u \in DOMAIN resume THEN 1 ELSE 0)
<1> DEFINE list == Ascending(DOMAIN resume)
           n == Len(list)
<1>1. /\ Book \in Books /\ toServer \in Seq(ClientMessage)
      /\ DOMAIN resume = DOMAIN active \union {0}
  BY InvFacts
<1>2. /\ DOMAIN resume \in SUBSET Nat /\ IsFiniteSet(DOMAIN resume)
      /\ \A t \in DOMAIN resume : resume[t] \in Token
      /\ \A t \in DOMAIN active : active[t].key \in Doc
  <2>1. resume \in Partial(Target, Token)
    BY InvFacts
  <2>2. DOMAIN resume \subseteq Target /\ IsFiniteSet(DOMAIN resume)
        /\ \A t \in DOMAIN resume : resume[t] \in Token
    BY <2>1, PartialFacts
  <2>3. \A t \in DOMAIN active : active[t].key \in Doc
    BY <1>1, BookParts, BookFacts DEF Resolution
  <2> QED
    BY <2>2, <2>3 DEF Target
<1>3. list \in Seq(Nat) /\ Entries(list) = DOMAIN resume /\ NoneTwice(list)
  BY <1>2, AscendingFacts
<1> HIDE DEF list
<1>4. n \in Nat /\ DOMAIN list = 1 .. n /\ \A i \in 1 .. n : list[i] \in DOMAIN resume
  BY <1>3, LenProperties DEF Entries
<1>5. \A t \in DOMAIN resume : Scope(t) \in SUBSET Doc
  BY <1>1, <1>2 DEF Scope
<1>6. Watches = [i \in 1 .. n |-> [type |-> "watch", target |-> list[i],
                                   scope |-> Scope(list[i]), token |-> resume[list[i]]]]
  BY <1>4 DEF Watches, list
<1>7. \A i \in 1 .. n : Watches[i] \in ClientMessage /\ Watches[i].target = list[i]
  <2>1. ASSUME NEW i \in 1 .. n
        PROVE  Watches[i] \in ClientMessage /\ Watches[i].target = list[i]
    <3>1. /\ list[i] \in Target /\ Scope(list[i]) \in SUBSET Doc /\ resume[list[i]] \in Token
      BY <1>2, <1>4, <1>5 DEF Target
    <3>2. [type |-> "watch", target |-> list[i], scope |-> Scope(list[i]),
           token |-> resume[list[i]]] \in ClientMessage
      BY <3>1, WatchIsMessage
    <3> QED
      BY <1>6, <3>2
  <2> QED
    BY <2>1
<1>8. DOMAIN Watches = 1 .. n /\ Watches \in [1 .. n -> ClientMessage]
  BY <1>6, <1>7
<1>9. Watches \in Seq(ClientMessage)
  BY <1>4, <1>8, SeqDef
<1>10. ASSUME NEW u \in Target
       PROVE  Count(toServer \o Watches, To(u))
                = Count(toServer, To(u)) + (IF u \in DOMAIN resume THEN 1 ELSE 0)
  <2>1. \A i \in 1 .. n : Watches[i] \in To(u) <=> list[i] = u
    BY <1>7 DEF To
  <2>2. Count(toServer, To(u)) \in Nat
    BY <1>1, OccursFinite
  <2>3. CASE u \in DOMAIN resume
    <3>1. PICK k \in 1 .. n : list[k] = u
      BY <1>3, <1>4, <2>3 DEF Entries
    <3>2. \A i \in DOMAIN Watches : Watches[i] \in To(u) <=> i = k
      BY <1>3, <1>4, <1>8, <2>1, <3>1 DEF NoneTwice
    <3>3. k \in DOMAIN Watches
      BY <1>8
    <3>4. Count(toServer \o Watches, To(u)) = Count(toServer, To(u)) + 1
      BY <1>1, <1>9, <3>2, <3>3, CountJoined
    <3> QED
      BY <2>3, <3>4
  <2>4. CASE u \notin DOMAIN resume
    <3>1. \A i \in DOMAIN Watches : Watches[i] \notin To(u)
      BY <1>4, <1>8, <2>1, <2>4
    <3>2. Count(toServer \o Watches, To(u)) = Count(toServer, To(u))
      BY <1>1, <1>9, <3>1, CountJoined
    <3> QED
      BY <2>2, <2>4, <3>2
  <2> QED
    BY <2>3, <2>4
<1> QED
  BY <1>9, <1>10

LEMMA StreamOpensInv == SyncInv /\ StreamOpens => SyncInv'
<1> SUFFICES ASSUME SyncInv, StreamOpens PROVE SyncInv'
  OBVIOUS
<1>1. /\ open' = TRUE
      /\ toServer' = toServer \o Watches
      /\ states' = [t \in DOMAIN states \union DOMAIN resume |->
                      IF t \in DOMAIN resume THEN [Accepted(t) EXCEPT !.outstanding = @ + 1]
                      ELSE states[t]]
      /\ UNCHANGED <<serverDocs, diskVars, viewVars, syncVars, updates, mismatch, heard,
                     toClient, told, breaks, restarts, intact>>
  BY DEF StreamOpens, Watches
<1>2. PlainTypeOK'
  BY <1>1 DEF SyncInv, PlainTypeOK, diskVars, viewVars
<1>3. told' \in Partial(Target, Served)
  BY <1>1 DEF SyncInv
<1>4. /\ Book \in Books /\ Tracks(Book, limbo) /\ Filled(Book)
      /\ states \in Partial(Target, TargetStates) /\ resume \in Partial(Target, Token)
      /\ toServer \in Seq(ClientMessage) /\ Pending \in [Target -> Nat]
  BY InvFacts
<1>5. /\ DOMAIN states \subseteq Target /\ IsFiniteSet(DOMAIN states)
      /\ DOMAIN resume \subseteq Target /\ IsFiniteSet(DOMAIN resume)
      /\ \A t \in DOMAIN states : states[t] \in TargetStates
  <2>1. /\ DOMAIN states \subseteq Target /\ IsFiniteSet(DOMAIN states)
        /\ \A t \in DOMAIN states : states[t] \in TargetStates
    BY <1>4, PartialFacts
  <2>2. DOMAIN resume \subseteq Target /\ IsFiniteSet(DOMAIN resume)
    BY <1>4, PartialFacts
  <2> QED
    BY <2>1, <2>2
<1>6. ASSUME NEW t \in DOMAIN states \union DOMAIN resume
      PROVE  /\ states'[t] \in TargetStates
             /\ states'[t].outstanding = Count(toServer, To(t)) + Pending[t]
                                           + (IF t \in DOMAIN resume THEN 1 ELSE 0)
             /\ states'[t].outstanding = 0 => t \notin DOMAIN resume
  <2>1. /\ t \in Target /\ Accepted(t) \in TargetStates
        /\ Accepted(t).outstanding = Count(toServer, To(t)) + Pending[t]
        /\ Count(toServer, To(t)) \in Nat /\ Pending[t] \in Nat
        /\ t \in DOMAIN states => states[t].outstanding = Count(toServer, To(t)) + Pending[t]
    <3>1. t \in Target
      BY <1>5
    <3> QED
      BY <3>1, AcceptedFacts
  <2>2. CASE t \in DOMAIN resume
    <3> DEFINE n == Accepted(t).outstanding
               x == [Accepted(t) EXCEPT !.outstanding = @ + 1]
    <3>1. n \in Nat /\ n + 1 \in Nat /\ n + 1 # 0
          /\ n + 1 = Count(toServer, To(t)) + Pending[t] + 1
      <4> HIDE DEF n
      <4> QED
        BY <2>1 DEF n
    <3>2. x \in TargetStates /\ x.outstanding = n + 1
      BY <2>1, <3>1 DEF TargetStates
    <3>3. states'[t] = x
      BY <1>1, <2>2
    <3> HIDE DEF n, x
    <3> QED
      BY <2>2, <3>1, <3>2, <3>3
  <2>3. CASE t \notin DOMAIN resume
    <3>1. states'[t] = states[t] /\ t \in DOMAIN states
      BY <1>1, <2>3
    <3> QED
      BY <1>5, <2>1, <2>3, <3>1
  <2> QED
    BY <2>2, <2>3
<1>7. states' \in Partial(Target, TargetStates)
  <2>1. IsFiniteSet(DOMAIN states \union DOMAIN resume)
    BY <1>5, FS_Union
  <2>2. DOMAIN states \union DOMAIN resume \in SUBSET Target
    BY <1>5
  <2>3. states' \in [DOMAIN states \union DOMAIN resume -> TargetStates]
    BY <1>1, <1>6
  <2> QED
    BY <2>1, <2>2, <2>3, FunctionIsPartial
<1>8. /\ Watches \in Seq(ClientMessage)
      /\ \A u \in Target :
           Count(toServer \o Watches, To(u))
               = Count(toServer, To(u)) + (IF u \in DOMAIN resume THEN 1 ELSE 0)
  BY WatchesFacts
<1>9. toServer' \in Seq(ClientMessage)
  BY <1>1, <1>4, <1>8, CountJoined
<1> DEFINE c == Book'
<1>10. /\ c.queue = Book.queue /\ c.active = Book.active /\ c.resume = Book.resume
       /\ c.states = states' /\ c.sent = toServer'
       /\ c = [queue |-> c.queue, active |-> c.active, resume |-> c.resume,
               states |-> c.states, sent |-> c.sent]
  BY <1>1 DEF Book, syncVars
<1> HIDE DEF c
<1>11. c \in Books
  BY <1>4, <1>7, <1>9, <1>10, BookFacts DEF Books
<1>12. Tracks(c, limbo) /\ Filled(c)
  BY <1>4, <1>10, SameKeysTrack
<1>13. Counted(c, Pending)
  <2> SUFFICES ASSUME NEW u \in Target
               PROVE  Outstanding(c, u) = Count(c.sent, To(u)) + Pending[u]
    BY DEF Counted
  <2>1. Count(c.sent, To(u)) = Count(toServer, To(u)) + (IF u \in DOMAIN resume THEN 1 ELSE 0)
    BY <1>1, <1>8, <1>10
  <2>2. Count(toServer, To(u)) \in Nat /\ Pending[u] \in Nat
    BY <1>4, OccursFinite
  <2>3. DOMAIN c.states = DOMAIN states \union DOMAIN resume
    BY <1>1, <1>10
  <2>4. CASE u \in DOMAIN states \union DOMAIN resume
    BY <1>6, <1>10, <2>1, <2>2, <2>3, <2>4 DEF Outstanding
  <2>5. CASE u \notin DOMAIN states \union DOMAIN resume
    BY <2>1, <2>2, <2>3, <2>5, AcceptedFacts DEF Outstanding
  <2> QED
    BY <2>4, <2>5
<1>14. Sound(Book, Pending, Book, limbo)'
  <2>1. Sound(c, Pending, c, limbo)
    BY <1>11, <1>12, <1>13, SoundOfItself
  <2>2. Pending' = Pending /\ limbo' = limbo
    BY <1>1 DEF Pending, viewVars
  <2> QED
    BY <2>1, <2>2 DEF c
<1>15. ChangesAreOfKnown'
  <2> SUFFICES ASSUME NEW t \in DOMAIN states', IsActive(t)' PROVE FALSE
    BY DEF ChangesAreOfKnown
  <2>1. t \in DOMAIN resume /\ states'[t].outstanding = 0
    BY <1>1 DEF IsActive, syncVars
  <2> QED
    BY <1>6, <2>1
<1> QED
  BY <1>2, <1>3, <1>14, <1>15 DEF SyncInv

-----------------------------------------------------------------------------
(* What the server sends: each request is answered by one acknowledgement, *)
(* and nothing else it sends is one.                                       *)
Mute(list) == \A i \in DOMAIN list : ~IsAck(list[i])

LEMMA MuteIsNotCounted ==
    ASSUME NEW list \in Seq(ServerMessage), NEW more \in Seq(ServerMessage), Mute(more)
    PROVE  /\ list \o more \in Seq(ServerMessage)
           /\ \A u : Count(list \o more, AckOf(u)) = Count(list, AckOf(u))
<1>1. \A u : \A i \in DOMAIN more : more[i] \notin AckOf(u)
  BY DEF Mute, AckOf
<1> QED
  BY <1>1, CountJoined

LEMMA MuteJoined ==
    ASSUME NEW a \in Seq(ServerMessage), NEW b \in Seq(ServerMessage), Mute(a), Mute(b)
    PROVE  a \o b \in Seq(ServerMessage) /\ Mute(a \o b)
<1> DEFINE n == Len(a)
           m == Len(b)
           c == a \o b
<1>1. /\ c \in Seq(ServerMessage) /\ Len(c) = n + m
      /\ \A i \in 1 .. n + m : c[i] = IF i <= n THEN a[i] ELSE b[i - n]
  BY ConcatProperties
<1>2. n \in Nat /\ m \in Nat /\ DOMAIN a = 1 .. n /\ DOMAIN b = 1 .. m /\ DOMAIN c = 1 .. Len(c)
  BY <1>1, LenProperties
<1> HIDE DEF n, m, c
<1>3. ASSUME NEW i \in DOMAIN c PROVE ~IsAck(c[i])
  <2>1. CASE i <= n
    <3>1. i \in DOMAIN a /\ c[i] = a[i]
      BY <1>1, <1>2, <2>1
    <3> QED
      BY <3>1 DEF Mute
  <2>2. CASE ~(i <= n)
    <3>1. i - n \in DOMAIN b /\ c[i] = b[i - n]
      BY <1>1, <1>2, <2>2
    <3> QED
      BY <3>1 DEF Mute
  <2> QED
    BY <2>1, <2>2
<1> QED
  BY <1>1, <1>3 DEF Mute, c

LEMMA OneMessage ==
    ASSUME NEW m \in ServerMessage
    PROVE  /\ <<m>> \in Seq(ServerMessage) /\ DOMAIN <<m>> = {1} /\ <<m>>[1] = m
           /\ ~IsAck(m) => Mute(<<m>>)
BY DEF Mute

LEMMA NothingIsMute == <<>> \in Seq(ServerMessage) /\ Mute(<<>>)
<1>1. <<>> \in Seq(ServerMessage) /\ DOMAIN <<>> = {}
  BY EmptySeq
<1> QED
  BY <1>1 DEF Mute

LEMMA NewsFacts ==
    ASSUME NEW served \in Partial(Target, Served)
    PROVE  /\ News(served) \in Seq(ServerMessage) /\ Mute(News(served))
           /\ UpToDate(served) \in Partial(Target, Served)
<1> DEFINE tell(t) == [type |-> "change", target |-> t,
                       here |-> (Present \intersect served[t].scope) \ served[t].docs,
                       gone |-> served[t].docs \ Present]
           targets == Ascending(Behind(served))
           changes == [i \in DOMAIN targets |-> tell(targets[i])]
           m == [type |-> "snapshot", token |-> Present]
           n == Len(targets)
<1>1. /\ DOMAIN served \subseteq Target /\ IsFiniteSet(DOMAIN served)
      /\ \A t \in DOMAIN served : served[t] \in Served
  BY PartialFacts
<1>2. Present \in SUBSET Doc
  BY DEF Present
<1>3. Behind(served) \in SUBSET DOMAIN served /\ IsFiniteSet(Behind(served))
      /\ Behind(served) \in SUBSET Nat
  <2>1. Behind(served) \in SUBSET DOMAIN served
    BY DEF Behind
  <2>2. IsFiniteSet(Behind(served))
    BY <1>1, <2>1, FS_Subset
  <2> QED
    BY <1>1, <2>1, <2>2 DEF Target
<1>4. targets \in Seq(Nat) /\ Entries(targets) = Behind(served)
  BY <1>3, AscendingFacts
<1> HIDE DEF targets
<1>5. n \in Nat /\ DOMAIN targets = 1 .. n /\ \A i \in 1 .. n : targets[i] \in DOMAIN served
  BY <1>3, <1>4, LenProperties DEF Entries
<1>6. ASSUME NEW i \in 1 .. n PROVE tell(targets[i]) \in ServerMessage /\ ~IsAck(tell(targets[i]))
  <2>1. /\ targets[i] \in Target
        /\ served[targets[i]].scope \in SUBSET Doc /\ served[targets[i]].docs \in SUBSET Doc
    BY <1>1, <1>5 DEF Served
  <2>2. tell(targets[i]) \in [type : {"change"}, target : Target, here : SUBSET Doc,
                              gone : SUBSET Doc]
    BY <1>2, <2>1
  <2>3. tell(targets[i]).type = "change"
    OBVIOUS
  <2> HIDE DEF tell
  <2> QED
    BY <2>2, <2>3 DEF ServerMessage, IsAck
<1>7. changes \in [1 .. n -> ServerMessage]
  <2> HIDE DEF tell
  <2> QED
    BY <1>5, <1>6
<1>8. changes \in Seq(ServerMessage) /\ Mute(changes)
  <2>1. changes \in Seq(ServerMessage)
    <3> HIDE DEF changes
    <3> QED
      BY <1>5, <1>7, SeqDef
  <2>2. DOMAIN changes = 1 .. n /\ \A i \in 1 .. n : changes[i] = tell(targets[i])
    BY <1>5
  <2> HIDE DEF changes, tell
  <2> QED
    BY <1>6, <2>1, <2>2 DEF Mute
<1>9. m \in ServerMessage /\ ~IsAck(m)
  BY <1>2 DEF ServerMessage, IsAck
<1>10. News(served) = changes \o <<m>>
  BY DEF News, targets
<1>11. News(served) \in Seq(ServerMessage) /\ Mute(News(served))
  <2> HIDE DEF changes, m
  <2>1. <<m>> \in Seq(ServerMessage) /\ Mute(<<m>>)
    BY <1>9, OneMessage
  <2> QED
    BY <1>8, <1>10, <2>1, MuteJoined
<1>12. UpToDate(served) \in Partial(Target, Served)
  <2>1. UpToDate(served) \in [DOMAIN served -> Served]
    BY <1>1, <1>2 DEF UpToDate, Served
  <2> QED
    BY <2>1, MappedIsPartial
<1> QED
  BY <1>11, <1>12

LEMMA ServerMoves ==
    ASSUME SyncInv,
           UNCHANGED <<serverDocs, diskVars, viewVars, syncVars, aggregatorVars, open, heard,
                       breaks, restarts, intact>>,
           toServer' \in Seq(ClientMessage), toClient' \in Seq(ServerMessage),
           told' \in Partial(Target, Served),
           \A u \in Target : Count(toServer', To(u)) + Count(toClient', AckOf(u))
                               = Count(toServer, To(u)) + Count(toClient, AckOf(u))
    PROVE  SyncInv'
<1>1. PlainTypeOK'
  BY DEF SyncInv, PlainTypeOK, diskVars, viewVars, aggregatorVars
<1>2. Book \in Books /\ Counted(Book, Pending) /\ Tracks(Book, limbo) /\ Filled(Book)
  BY InvFacts
<1> DEFINE c == Book'
<1>3. /\ c.queue = Book.queue /\ c.active = Book.active /\ c.resume = Book.resume
      /\ c.states = Book.states /\ c.sent = toServer' /\ Book.sent = toServer
      /\ c = [queue |-> c.queue, active |-> c.active, resume |-> c.resume,
              states |-> c.states, sent |-> c.sent]
  BY DEF Book, syncVars, aggregatorVars
<1> HIDE DEF c
<1>4. c \in Books
  BY <1>2, <1>3, BookFacts DEF Books
<1>5. Tracks(c, limbo) /\ Filled(c)
  BY <1>2, <1>3, SameKeysTrack
<1>6. Counted(c, Pending')
  <2> SUFFICES ASSUME NEW u \in Target
               PROVE  Outstanding(c, u) = Count(c.sent, To(u)) + Pending'[u]
    BY DEF Counted
  <2>1. Outstanding(c, u) = Outstanding(Book, u)
    BY <1>3 DEF Outstanding
  <2>2. Outstanding(Book, u) = Count(toServer, To(u)) + Pending[u]
    BY <1>2, <1>3 DEF Counted
  <2>3. Pending[u] = Count(toClient, AckOf(u)) /\ Pending'[u] = Count(toClient', AckOf(u))
    BY DEF Pending
  <2> QED
    BY <1>3, <2>1, <2>2, <2>3
<1>7. Sound(Book, Pending, Book, limbo)'
  <2>1. Sound(c, Pending', c, limbo)
    BY <1>4, <1>5, <1>6, SoundOfItself
  <2> QED
    BY <2>1 DEF c, viewVars
<1>8. ChangesAreOfKnown'
  BY DEF SyncInv, ChangesAreOfKnown, IsActive, RemoteKeys, viewVars, syncVars, aggregatorVars
<1> QED
  BY <1>1, <1>7, <1>8 DEF SyncInv

LEMMA ServerPushesInv == SyncInv /\ ServerPushes => SyncInv'
<1> SUFFICES ASSUME SyncInv, ServerPushes PROVE SyncInv'
  OBVIOUS
<1>1. /\ toClient \in Seq(ServerMessage) /\ told \in Partial(Target, Served)
      /\ toServer \in Seq(ClientMessage)
  BY InvFacts DEF SyncInv, PlainTypeOK
<1>2. /\ toClient' = toClient \o News(told) /\ told' = UpToDate(told) /\ toServer' = toServer
      /\ UNCHANGED <<serverDocs, diskVars, viewVars, syncVars, aggregatorVars, open, heard,
                     breaks, restarts, intact>>
  BY DEF ServerPushes
<1>3. /\ News(told) \in Seq(ServerMessage) /\ Mute(News(told))
      /\ UpToDate(told) \in Partial(Target, Served)
  BY <1>1, NewsFacts
<1>4. /\ toClient' \in Seq(ServerMessage)
      /\ \A u : Count(toClient', AckOf(u)) = Count(toClient, AckOf(u))
  BY <1>1, <1>2, <1>3, MuteIsNotCounted
<1> QED
  BY <1>1, <1>2, <1>3, <1>4, ServerMoves

(* An acknowledgement, and after it what is not one. *)
LEMMA OneAck ==
    ASSUME toClient \in Seq(ServerMessage), NEW t \in Target, NEW m \in ServerMessage,
           IsAck(m), m.target = t, NEW more \in Seq(ServerMessage), Mute(more)
    PROVE  /\ (toClient \o <<m>>) \o more \in Seq(ServerMessage)
           /\ \A u \in Target : Count((toClient \o <<m>>) \o more, AckOf(u))
                                  = Count(toClient, AckOf(u)) + (IF u = t THEN 1 ELSE 0)
<1> DEFINE one == <<m>>
<1>1. one \in Seq(ServerMessage) /\ DOMAIN one = {1} /\ one[1] = m
  BY OneMessage
<1> HIDE DEF one
<1>2. toClient \o one \in Seq(ServerMessage)
  BY <1>1, CountJoined
<1>3. ASSUME NEW u \in Target
      PROVE  Count(toClient \o one, AckOf(u))
               = Count(toClient, AckOf(u)) + (IF u = t THEN 1 ELSE 0)
  <2>1. m \in AckOf(u) <=> u = t
    BY DEF AckOf
  <2>2. CASE u = t
    <3> DEFINE M == AckOf(u)
    <3>1. \E k \in DOMAIN one : \A i \in DOMAIN one : one[i] \in M <=> i = k
      BY <1>1, <2>1, <2>2
    <3> HIDE DEF M
    <3>2. one \in Seq(ServerMessage)
      BY <1>1
    <3>3. \A k \in DOMAIN one :
             (\A i \in DOMAIN one : one[i] \in M <=> i = k)
                => Count(toClient \o one, M) = Count(toClient, M) + 1
      BY <3>2, CountJoined
    <3>4. Count(toClient \o one, M) = Count(toClient, M) + 1
      BY <3>1, <3>3
    <3> QED
      BY <2>2, <3>4 DEF M
  <2>3. CASE u # t
    <3>1. \A i \in DOMAIN one : one[i] \notin AckOf(u)
      BY <1>1, <2>1, <2>3
    <3>2. Count(toClient \o one, AckOf(u)) = Count(toClient, AckOf(u))
      BY <1>1, <3>1, CountJoined
    <3>3. Count(toClient, AckOf(u)) \in Nat
      BY OccursFinite
    <3> QED
      BY <2>3, <3>2, <3>3
  <2> QED
    BY <2>2, <2>3
<1>4. /\ (toClient \o one) \o more \in Seq(ServerMessage)
      /\ \A u : Count((toClient \o one) \o more, AckOf(u)) = Count(toClient \o one, AckOf(u))
  BY <1>2, MuteIsNotCounted
<1> QED
  BY <1>3, <1>4 DEF one

LEMMA ServerWatchesFacts ==
    ASSUME SyncInv, NEW request \in ClientMessage, request.type = "watch",
           NEW deletions \in BOOLEAN, NEW filter \in BOOLEAN, NEW early \in BOOLEAN,
           NEW reset \in BOOLEAN, ServerWatches(request, deletions, filter, early, reset)
    PROVE  /\ toClient' \in Seq(ServerMessage) /\ told' \in Partial(Target, Served)
           /\ \A u \in Target : Count(toClient', AckOf(u))
                = Count(toClient, AckOf(u)) + (IF u = request.target THEN 1 ELSE 0)
<1> DEFINE t == request.target
           known == IF reset \/ request.token = NoToken THEN {}
                    ELSE request.token \intersect request.scope
           match == Present \intersect request.scope
           here == match \ known
           gone == IF deletions THEN known \ match ELSE {}
           counted == IF filter THEN <<[type |-> "filter", target |-> t,
                                        count |-> Cardinality(match)]>> ELSE <<>>
           done == <<[type |-> "current", target |-> t]>>
           served == Put(told, t, [scope |-> request.scope, docs |-> match])
           a == [type |-> "added", target |-> t]
           r == IF reset THEN <<[type |-> "reset", target |-> t]>> ELSE <<>>
           h == IF here \union gone = {} THEN <<>>
                ELSE <<[type |-> "change", target |-> t, here |-> here, gone |-> gone]>>
           f == IF early THEN counted \o done ELSE done \o counted
<1>1. /\ toClient' = toClient \o <<a>> \o r \o h \o f \o News(served)
      /\ told' = UpToDate(served)
  BY DEF ServerWatches
<1>2. t \in Target /\ request.scope \in SUBSET Doc
  BY DEF ClientMessage
<1>3. match \in SUBSET Doc /\ known \in SUBSET Doc /\ here \in SUBSET Doc /\ gone \in SUBSET Doc
  BY <1>2
<1>4. Cardinality(match) \in Nat
  <2>1. IsFiniteSet(Doc)
    BY WatchSyncAssumption, FS_Interval DEF Doc
  <2>2. IsFiniteSet(match)
    BY <1>3, <2>1, FS_Subset
  <2> QED
    BY <2>2, FS_CardinalityType
<1> HIDE DEF t, match, known, here, gone
<1>5. toClient \in Seq(ServerMessage) /\ told \in Partial(Target, Served)
  BY DEF SyncInv, PlainTypeOK
<1>6. served \in Partial(Target, Served)
  <2>1. [scope |-> request.scope, docs |-> match] \in Served
    BY <1>2, <1>3 DEF Served
  <2> QED
    BY <1>2, <1>5, <2>1, PutFacts
<1> HIDE DEF served
<1>7. a \in ServerMessage /\ IsAck(a) /\ a.target = t
  BY <1>2 DEF ServerMessage, IsAck
<1>8. r \in Seq(ServerMessage) /\ Mute(r)
  <2> DEFINE m == [type |-> "reset", target |-> t]
  <2>1. m \in ServerMessage /\ ~IsAck(m)
    BY <1>2 DEF ServerMessage, IsAck
  <2> HIDE DEF m
  <2>2. <<m>> \in Seq(ServerMessage) /\ Mute(<<m>>)
    BY <2>1, OneMessage
  <2> QED
    BY <2>2, NothingIsMute DEF m
<1>9. h \in Seq(ServerMessage) /\ Mute(h)
  <2> DEFINE m == [type |-> "change", target |-> t, here |-> here, gone |-> gone]
  <2>1. m \in ServerMessage /\ ~IsAck(m)
    BY <1>2, <1>3 DEF ServerMessage, IsAck
  <2> HIDE DEF m
  <2>2. <<m>> \in Seq(ServerMessage) /\ Mute(<<m>>)
    BY <2>1, OneMessage
  <2> QED
    BY <2>2, NothingIsMute DEF m
<1>10. counted \in Seq(ServerMessage) /\ Mute(counted)
  <2> DEFINE m == [type |-> "filter", target |-> t, count |-> Cardinality(match)]
  <2>1. m \in ServerMessage /\ ~IsAck(m)
    BY <1>2, <1>4 DEF ServerMessage, IsAck
  <2> HIDE DEF m
  <2>2. <<m>> \in Seq(ServerMessage) /\ Mute(<<m>>)
    BY <2>1, OneMessage
  <2> QED
    BY <2>2, NothingIsMute DEF m
<1>11. done \in Seq(ServerMessage) /\ Mute(done)
  <2> DEFINE m == [type |-> "current", target |-> t]
  <2>1. m \in ServerMessage /\ ~IsAck(m)
    BY <1>2 DEF ServerMessage, IsAck
  <2> HIDE DEF m
  <2> QED
    BY <2>1, OneMessage DEF m
<1> HIDE DEF counted, done
<1>12. f \in Seq(ServerMessage) /\ Mute(f)
  BY <1>10, <1>11, MuteJoined
<1>13. /\ News(served) \in Seq(ServerMessage) /\ Mute(News(served))
       /\ UpToDate(served) \in Partial(Target, Served)
  BY <1>6, NewsFacts
<1> DEFINE news == News(served)
           u1 == (toClient \o <<a>>) \o r
           u2 == u1 \o h
           u3 == u2 \o f
           u4 == u3 \o news
<1> HIDE DEF a, r, h, f, news
<1>14. /\ u1 \in Seq(ServerMessage)
       /\ \A u \in Target : Count(u1, AckOf(u))
                              = Count(toClient, AckOf(u)) + (IF u = t THEN 1 ELSE 0)
  BY <1>2, <1>5, <1>7, <1>8, OneAck
<1> HIDE DEF u1
<1>15. u2 \in Seq(ServerMessage) /\ \A u : Count(u2, AckOf(u)) = Count(u1, AckOf(u))
  BY <1>9, <1>14, MuteIsNotCounted
<1> HIDE DEF u2
<1>16. u3 \in Seq(ServerMessage) /\ \A u : Count(u3, AckOf(u)) = Count(u2, AckOf(u))
  BY <1>12, <1>15, MuteIsNotCounted
<1> HIDE DEF u3
<1>17. u4 \in Seq(ServerMessage) /\ \A u : Count(u4, AckOf(u)) = Count(u3, AckOf(u))
  BY <1>13, <1>16, MuteIsNotCounted DEF news
<1> HIDE DEF u4
<1>18. toClient' = u4
  BY <1>1 DEF u4, u3, u2, u1, news
<1> QED
  BY <1>1, <1>13, <1>14, <1>15, <1>16, <1>17, <1>18 DEF t

LEMMA ServerReadsInv == SyncInv /\ ServerReads => SyncInv'
<1> SUFFICES ASSUME SyncInv, ServerReads PROVE SyncInv'
  OBVIOUS
<1> DEFINE request == Head(toServer)
<1>1. /\ toClient \in Seq(ServerMessage) /\ told \in Partial(Target, Served)
      /\ toServer \in Seq(ClientMessage)
  BY InvFacts DEF SyncInv, PlainTypeOK
<1>2. /\ toServer # <<>> /\ toServer' = Tail(toServer)
      /\ UNCHANGED <<serverDocs, diskVars, viewVars, syncVars, aggregatorVars, open, heard,
                     breaks, restarts, intact>>
  BY DEF ServerReads
<1>3. /\ request \in ClientMessage /\ toServer' \in Seq(ClientMessage)
      /\ request.target \in Target
  <2>1. request \in ClientMessage /\ Tail(toServer) \in Seq(ClientMessage)
    BY <1>1, <1>2, HeadTailProperties
  <2> HIDE DEF request
  <2> QED
    BY <1>2, <2>1 DEF ClientMessage
<1>4. \A u \in Target :
         /\ Count(toServer, To(u)) = Count(toServer', To(u))
                                      + (IF u = request.target THEN 1 ELSE 0)
         /\ Count(toServer', To(u)) \in Nat
  <2>1. ASSUME NEW u \in Target
        PROVE  /\ Count(toServer, To(u)) = Count(toServer', To(u))
                                            + (IF u = request.target THEN 1 ELSE 0)
               /\ Count(toServer', To(u)) \in Nat
    <3>1. Count(toServer, To(u)) = Count(Tail(toServer), To(u))
                                    + (IF request \in To(u) THEN 1 ELSE 0)
      BY <1>1, <1>2, CountTail
    <3>2. request \in To(u) <=> u = request.target
      BY <1>3 DEF To
    <3>3. Count(toServer', To(u)) \in Nat
      BY <1>3, OccursFinite
    <3> QED
      BY <1>2, <3>1, <3>2, <3>3
  <2> QED
    BY <2>1
<1>5. SUFFICES /\ toClient' \in Seq(ServerMessage) /\ told' \in Partial(Target, Served)
               /\ \A u \in Target : Count(toClient', AckOf(u))
                    = Count(toClient, AckOf(u)) + (IF u = request.target THEN 1 ELSE 0)
  <2>1. \A u \in Target : Count(toClient, AckOf(u)) \in Nat
    BY <1>1, OccursFinite
  <2>2. ASSUME \A u \in Target : Count(toClient', AckOf(u))
                  = Count(toClient, AckOf(u)) + (IF u = request.target THEN 1 ELSE 0)
        PROVE  \A u \in Target : Count(toServer', To(u)) + Count(toClient', AckOf(u))
                                   = Count(toServer, To(u)) + Count(toClient, AckOf(u))
    <3> HIDE DEF request
    <3> QED
      BY <1>4, <2>1, <2>2
  <2> QED
    BY <1>2, <1>3, <2>2, ServerMoves
<1>6. CASE /\ request.type = "watch"
           /\ \E deletions, filter, early, reset \in BOOLEAN :
                 /\ early => filter
                 /\ ServerWatches(request, deletions, filter, early, reset)
  <2> HIDE DEF request
  <2>1. PICK deletions, filter, early, reset \in BOOLEAN :
           ServerWatches(request, deletions, filter, early, reset)
    BY <1>6
  <2> QED
    BY <1>3, <1>6, <2>1, ServerWatchesFacts
<1>7. CASE /\ request.type = "unwatch"
           /\ toClient' = Append(toClient, [type |-> "removed", target |-> request.target])
           /\ told' = Less(told, request.target)
  <2> DEFINE m == [type |-> "removed", target |-> request.target]
  <2> HIDE DEF request
  <2>1. m \in ServerMessage /\ IsAck(m) /\ m.target = request.target
    BY <1>3 DEF ServerMessage, IsAck
  <2> HIDE DEF m
  <2>2. toClient' = Append(toClient, m)
    BY <1>7 DEF m
  <2>3. toClient' \in Seq(ServerMessage)
    BY <1>1, <2>1, <2>2, AppendProperties
  <2>4. told' \in Partial(Target, Served)
    BY <1>1, <1>7, LessFacts
  <2>5. ASSUME NEW u \in Target
        PROVE  Count(toClient', AckOf(u))
                 = Count(toClient, AckOf(u)) + (IF u = request.target THEN 1 ELSE 0)
    <3>1. m \in AckOf(u) <=> u = request.target
      BY <2>1 DEF AckOf
    <3>2. Count(Append(toClient, m), AckOf(u))
            = Count(toClient, AckOf(u)) + (IF m \in AckOf(u) THEN 1 ELSE 0)
      BY <1>1, <2>1, CountAppended
    <3> QED
      BY <2>2, <3>1, <3>2
  <2> QED
    BY <2>3, <2>4, <2>5
<1> QED
  BY <1>6, <1>7 DEF ServerReads

-----------------------------------------------------------------------------
LEMMA StepInv == SyncInv /\ [SyncNext]_watchSyncVars => SyncInv'
<1> SUFFICES ASSUME SyncInv, [SyncNext]_watchSyncVars PROVE SyncInv'
  OBVIOUS
<1>1. CASE Receive
  BY <1>1, ReceiveInv
<1>2. CASE Connection
  BY <1>2, StreamOpensInv, StreamBreaksInv, GoOfflineInv, RestartInv DEF Connection
<1>3. CASE LocalWrites
  BY <1>3, WriteLocallyInv, CommitInv, AcknowledgeInv DEF LocalWrites
<1>4. CASE \E d \in Doc : Others(d)
  BY <1>4, OthersInv
<1>5. CASE ServerReads
  BY <1>5, ServerReadsInv
<1>6. CASE ServerPushes
  BY <1>6, ServerPushesInv
<1>7. CASE UNCHANGED watchSyncVars
  <2>1. UNCHANGED serverDocs /\ UNCHANGED <<diskVars, viewVars, syncVars, aggregatorVars,
                                            streamVars, breaks, restarts, intact>>
    BY <1>7 DEF watchSyncVars
  <2>2. serverDocs' \in [Doc -> DocState]
    BY <2>1 DEF SyncInv, PlainTypeOK
  <2> QED
    BY <2>1, <2>2, ServerChangesInv
<1> QED
  BY <1>1, <1>2, <1>3, <1>4, <1>5, <1>6, <1>7 DEF SyncNext

LEMMA Invariance == SyncSpec => []SyncInv
<1>1. SyncInit => SyncInv
  BY InitInv
<1>2. SyncInv /\ [SyncNext]_watchSyncVars => SyncInv'
  BY StepInv
<1> QED
  BY <1>1, <1>2, PTL DEF SyncSpec

(* The bookkeeping stays well formed: every map has finitely many keys of   *)
(* its kind, every message names a target, every document is one.          *)
THEOREM WatchTyped == SyncSpec => []SyncTypeOK
BY Invariance, InvImpliesType, PTL

(* WatchChangeAggregator: however requests and responses cross, streams     *)
(* break and targets come and go, the requests counted for a target are     *)
(* those that are still to be acknowledged.                                *)
THEOREM WatchAcksCounted == SyncSpec => []AcksAreCounted
BY Invariance, InvImpliesAcks, PTL

(* SyncEngine: each limbo document of the view is waiting or being resolved *)
(* once, nothing else is, and no slot is free while one waits.             *)
THEOREM LimboTracked == SyncSpec => []LimboIsTracked
BY Invariance, InvImpliesLimbo, PTL

(* The changes a target has accumulated are of documents it has: what the   *)
(* assertions of View and SyncEngine rely on.                              *)
THEOREM WatchChangesKnown == SyncSpec => []ChangesAreOfKnown
<1>1. SyncInv => ChangesAreOfKnown
  BY DEF SyncInv
<1> QED
  BY <1>1, Invariance, PTL

-----------------------------------------------------------------------------
(* Messages in the order they arrive.  Every message of A has one of B      *)
(* behind it; between a message of A and a later one of B there is one of   *)
(* C; and what was last said, up to the first j messages, is that it is so. *)
Followed(list, A, B) ==
    \A i \in DOMAIN list : list[i] \in A => \E k \in DOMAIN list : k > i /\ list[k] \in B

Parted(list, A, B, C) ==
    \A i, k \in DOMAIN list :
        i < k /\ list[i] \in A /\ list[k] \in B
           => \E n \in DOMAIN list : i < n /\ n < k /\ list[n] \in C

Lately(list, was, On, Off, j) ==
    \/ \E i \in 1 .. j : list[i] \in On /\ \A k \in i + 1 .. j : list[k] \notin Off
    \/ was /\ \A k \in 1 .. j : list[k] \notin Off

(* No message of M comes after the first i. *)
Last(list, M, i) == \A k \in DOMAIN list : k > i => list[k] \notin M

LEMMA TailParts ==
    ASSUME NEW V, NEW list \in Seq(V), list # <<>>
    PROVE  /\ Tail(list) \in Seq(V) /\ Head(list) = list[1] /\ Head(list) \in V
           /\ Len(list) \in Nat /\ Len(list) >= 1
           /\ DOMAIN list = 1 .. Len(list)
           /\ Len(Tail(list)) = Len(list) - 1
           /\ DOMAIN Tail(list) = 1 .. Len(list) - 1
           /\ \A i \in 1 .. Len(list) - 1 : Tail(list)[i] = list[i + 1]
           /\ \A i \in 2 .. Len(list) :
                i - 1 \in 1 .. Len(list) - 1 /\ Tail(list)[i - 1] = list[i]
<1> DEFINE new == Tail(list)
           n == Len(list)
<1>1. /\ n \in Nat /\ n >= 1 /\ DOMAIN list = 1 .. n /\ new \in Seq(V) /\ Len(new) = n - 1
      /\ \A i \in 1 .. n - 1 : new[i] = list[i + 1]
      /\ Head(list) = list[1] /\ Head(list) \in V
  BY LenProperties, HeadTailProperties, EmptySeq
<1>2. DOMAIN new = 1 .. n - 1
  BY <1>1, LenProperties
<1> HIDE DEF new, n
<1>3. ASSUME NEW i \in 2 .. n PROVE i - 1 \in 1 .. n - 1 /\ new[i - 1] = list[i]
  <2>1. i - 1 \in 1 .. n - 1 /\ (i - 1) + 1 = i
    BY <1>1
  <2> QED
    BY <1>1, <2>1
<1> QED
  BY <1>1, <1>2, <1>3 DEF new, n

LEMMA JoinParts ==
    ASSUME NEW V, NEW list \in Seq(V), NEW more \in Seq(V)
    PROVE  /\ list \o more \in Seq(V)
           /\ Len(list) \in Nat /\ Len(more) \in Nat
           /\ Len(list \o more) = Len(list) + Len(more)
           /\ DOMAIN list = 1 .. Len(list) /\ DOMAIN more = 1 .. Len(more)
           /\ DOMAIN (list \o more) = 1 .. Len(list) + Len(more)
           /\ \A i \in 1 .. Len(list) : (list \o more)[i] = list[i]
           /\ \A i \in 1 .. Len(more) : (list \o more)[Len(list) + i] = more[i]
           /\ \A i \in 1 .. Len(list) + Len(more) : i \notin 1 .. Len(list)
                => /\ i - Len(list) \in 1 .. Len(more)
                   /\ (list \o more)[i] = more[i - Len(list)]
<1> DEFINE new == list \o more
           n == Len(list)
           m == Len(more)
<1>1. new \in Seq(V) /\ Len(new) = n + m
      /\ \A i \in 1 .. n + m : new[i] = IF i <= n THEN list[i] ELSE more[i - n]
  BY ConcatProperties
<1>2. n \in Nat /\ m \in Nat /\ DOMAIN list = 1 .. n /\ DOMAIN more = 1 .. m
      /\ DOMAIN new = 1 .. Len(new)
  BY <1>1, LenProperties
<1> HIDE DEF new, n, m
<1>3. \A i \in 1 .. n : new[i] = list[i]
  BY <1>1, <1>2
<1>4. \A i \in 1 .. m : new[n + i] = more[i]
  <2>1. \A i \in 1 .. m : n + i \in 1 .. n + m /\ ~(n + i <= n) /\ (n + i) - n = i
    BY <1>2
  <2> QED
    BY <1>1, <2>1
<1>5. ASSUME NEW i \in 1 .. n + m, i \notin 1 .. n
      PROVE  i - n \in 1 .. m /\ new[i] = more[i - n]
  <2>1. i - n \in 1 .. m /\ ~(i <= n)
    BY <1>2, <1>5
  <2> QED
    BY <1>1, <2>1
<1> QED
  BY <1>1, <1>2, <1>3, <1>4, <1>5 DEF new, n, m

LEMMA FollowedTail ==
    ASSUME NEW V, NEW list \in Seq(V), list # <<>>, NEW A, NEW B, Followed(list, A, B)
    PROVE  /\ Followed(Tail(list), A, B)
           /\ Head(list) \in A => \E k \in DOMAIN Tail(list) : Tail(list)[k] \in B
<1> DEFINE new == Tail(list)
           n == Len(list)
<1>1. /\ n \in Nat /\ n >= 1 /\ DOMAIN list = 1 .. n /\ DOMAIN new = 1 .. n - 1
      /\ \A i \in 1 .. n - 1 : new[i] = list[i + 1] /\ Head(list) = list[1]
      /\ \A i \in 2 .. n : i - 1 \in 1 .. n - 1 /\ new[i - 1] = list[i]
  BY TailParts
<1> HIDE DEF new, n
<1>2. ASSUME NEW i \in 1 .. n, list[i] \in A
      PROVE  \E k \in 1 .. n - 1 : k + 1 > i /\ new[k] \in B
  <2>1. PICK k \in 1 .. n : k > i /\ list[k] \in B
    BY <1>1, <1>2 DEF Followed
  <2>2. k \in 2 .. n /\ (k - 1) + 1 > i
    BY <1>1, <2>1
  <2> QED
    BY <1>1, <2>1, <2>2
<1>3. Followed(new, A, B)
  <2>1. ASSUME NEW i \in 1 .. n - 1, new[i] \in A
        PROVE  \E k \in 1 .. n - 1 : k > i /\ new[k] \in B
    <3>1. i + 1 \in 1 .. n /\ list[i + 1] \in A
      BY <1>1, <2>1
    <3>2. PICK k \in 1 .. n - 1 : k + 1 > i + 1 /\ new[k] \in B
      BY <3>1, <1>2
    <3> QED
      BY <1>1, <3>2
  <2> QED
    BY <1>1, <2>1 DEF Followed
<1>4. ASSUME Head(list) \in A PROVE \E k \in 1 .. n - 1 : new[k] \in B
  <2>1. 1 \in 1 .. n /\ list[1] \in A
    BY <1>1, <1>4, TailParts
  <2> QED
    BY <2>1, <1>2
<1> QED
  BY <1>1, <1>3, <1>4 DEF new

LEMMA FollowedJoined ==
    ASSUME NEW V, NEW list \in Seq(V), NEW more \in Seq(V), NEW A, NEW B,
           Followed(more, A, B),
           Followed(list, A, B) \/ \E k \in DOMAIN more : more[k] \in B
    PROVE  Followed(list \o more, A, B)
<1> DEFINE new == list \o more
           n == Len(list)
           m == Len(more)
<1>1. /\ n \in Nat /\ m \in Nat
      /\ DOMAIN list = 1 .. n /\ DOMAIN more = 1 .. m /\ DOMAIN new = 1 .. n + m
      /\ \A i \in 1 .. n : new[i] = list[i]
      /\ \A i \in 1 .. m : new[n + i] = more[i]
      /\ \A i \in 1 .. n + m : i \notin 1 .. n => i - n \in 1 .. m /\ new[i] = more[i - n]
  BY JoinParts
<1> HIDE DEF new, n, m
<1>2. ASSUME NEW i \in 1 .. n + m, new[i] \in A
      PROVE  \E k \in 1 .. n + m : k > i /\ new[k] \in B
  <2>1. CASE i \in 1 .. n
    <3>1. list[i] \in A
      BY <1>1, <1>2, <2>1
    <3>2. CASE Followed(list, A, B)
      <4>1. PICK k \in 1 .. n : k > i /\ list[k] \in B
        BY <1>1, <2>1, <3>1, <3>2 DEF Followed
      <4> QED
        BY <1>1, <4>1
    <3>3. CASE \E k \in DOMAIN more : more[k] \in B
      <4>1. PICK k \in 1 .. m : more[k] \in B
        BY <1>1, <3>3
      <4>2. n + k \in 1 .. n + m /\ n + k > i /\ new[n + k] \in B
        BY <1>1, <2>1, <4>1
      <4> QED
        BY <4>2
    <3> QED
      BY <3>2, <3>3
  <2>2. CASE i \notin 1 .. n
    <3>1. i - n \in 1 .. m /\ more[i - n] \in A
      BY <1>1, <1>2, <2>2
    <3>2. PICK k \in 1 .. m : k > i - n /\ more[k] \in B
      BY <1>1, <3>1 DEF Followed
    <3>3. n + k \in 1 .. n + m /\ n + k > i /\ new[n + k] \in B
      BY <1>1, <3>2
    <3> QED
      BY <3>3
  <2> QED
    BY <2>1, <2>2
<1> QED
  BY <1>1, <1>2 DEF Followed, new

LEMMA FollowedNone ==
    ASSUME NEW list, NEW A, NEW B, \A i \in DOMAIN list : list[i] \notin A
    PROVE  Followed(list, A, B)
BY DEF Followed

LEMMA PartedTail ==
    ASSUME NEW V, NEW list \in Seq(V), list # <<>>, NEW A, NEW B, NEW C,
           Parted(list, A, B, C)
    PROVE  Parted(Tail(list), A, B, C)
<1> DEFINE new == Tail(list)
           n == Len(list)
<1>1. /\ n \in Nat /\ n >= 1 /\ DOMAIN list = 1 .. n /\ DOMAIN new = 1 .. n - 1
      /\ \A i \in 1 .. n - 1 : new[i] = list[i + 1]
      /\ \A i \in 2 .. n : i - 1 \in 1 .. n - 1 /\ new[i - 1] = list[i]
  BY TailParts
<1> HIDE DEF new, n
<1>2. ASSUME NEW i \in 1 .. n - 1, NEW k \in 1 .. n - 1, i < k, new[i] \in A, new[k] \in B
      PROVE  \E x \in 1 .. n - 1 : i < x /\ x < k /\ new[x] \in C
  <2>1. i + 1 \in 1 .. n /\ k + 1 \in 1 .. n /\ list[i + 1] \in A /\ list[k + 1] \in B
        /\ i + 1 < k + 1
    BY <1>1, <1>2
  <2>2. PICK x \in 1 .. n : i + 1 < x /\ x < k + 1 /\ list[x] \in C
    BY <1>1, <2>1 DEF Parted
  <2>3. x \in 2 .. n /\ i < x - 1 /\ x - 1 < k
    BY <1>1, <2>2
  <2> QED
    BY <1>1, <2>2, <2>3
<1> QED
  BY <1>1, <1>2 DEF Parted, new

(* Across the seam the parting message is behind the first or before the    *)
(* second.                                                                  *)
LEMMA PartedJoined ==
    ASSUME NEW V, NEW list \in Seq(V), NEW more \in Seq(V), NEW A, NEW B, NEW C,
           Parted(list, A, B, C), Parted(more, A, B, C),
           \/ Followed(list, A, C)
           \/ \A k \in DOMAIN more : more[k] \in B
                 => \E x \in DOMAIN more : x < k /\ more[x] \in C
    PROVE  Parted(list \o more, A, B, C)
<1> DEFINE new == list \o more
           n == Len(list)
           m == Len(more)
<1>1. /\ n \in Nat /\ m \in Nat
      /\ DOMAIN list = 1 .. n /\ DOMAIN more = 1 .. m /\ DOMAIN new = 1 .. n + m
      /\ \A i \in 1 .. n : new[i] = list[i]
      /\ \A i \in 1 .. m : new[n + i] = more[i]
      /\ \A i \in 1 .. n + m : i \notin 1 .. n => i - n \in 1 .. m /\ new[i] = more[i - n]
  BY JoinParts
<1> HIDE DEF new, n, m
<1>2. ASSUME NEW i \in 1 .. n + m, NEW k \in 1 .. n + m, i < k, new[i] \in A, new[k] \in B
      PROVE  \E x \in 1 .. n + m : i < x /\ x < k /\ new[x] \in C
  <2>1. CASE k \in 1 .. n
    <3>1. i \in 1 .. n /\ list[i] \in A /\ list[k] \in B
      BY <1>1, <1>2, <2>1
    <3>2. PICK x \in 1 .. n : i < x /\ x < k /\ list[x] \in C
      BY <1>1, <1>2, <2>1, <3>1 DEF Parted
    <3> QED
      BY <1>1, <3>2
  <2>2. CASE k \notin 1 .. n /\ i \notin 1 .. n
    <3>1. i - n \in 1 .. m /\ more[i - n] \in A /\ k - n \in 1 .. m /\ more[k - n] \in B
          /\ i - n < k - n
      BY <1>1, <1>2, <2>2
    <3>2. PICK x \in 1 .. m : i - n < x /\ x < k - n /\ more[x] \in C
      BY <1>1, <3>1 DEF Parted
    <3>3. n + x \in 1 .. n + m /\ i < n + x /\ n + x < k /\ new[n + x] \in C
      BY <1>1, <1>2, <2>2, <3>2
    <3> QED
      BY <3>3
  <2>3. CASE k \notin 1 .. n /\ i \in 1 .. n
    <3>1. k - n \in 1 .. m /\ more[k - n] \in B /\ list[i] \in A
      BY <1>1, <1>2, <2>3
    <3>2. CASE Followed(list, A, C)
      <4>1. PICK x \in 1 .. n : x > i /\ list[x] \in C
        BY <1>1, <2>3, <3>1, <3>2 DEF Followed
      <4>2. x \in 1 .. n + m /\ x < k /\ new[x] \in C
        BY <1>1, <2>3, <4>1
      <4> QED
        BY <4>1, <4>2
    <3>3. CASE \A y \in DOMAIN more : more[y] \in B
                  => \E x \in DOMAIN more : x < y /\ more[x] \in C
      <4>1. PICK x \in 1 .. m : x < k - n /\ more[x] \in C
        BY <1>1, <3>1, <3>3
      <4>2. n + x \in 1 .. n + m /\ i < n + x /\ n + x < k /\ new[n + x] \in C
        BY <1>1, <1>2, <2>3, <4>1
      <4> QED
        BY <4>2
    <3> QED
      BY <3>2, <3>3
  <2> QED
    BY <2>1, <2>2, <2>3
<1> QED
  BY <1>1, <1>2 DEF Parted, new

-----------------------------------------------------------------------------
(* What was last said of a thing.                                           *)
LEMMA LatelyStart ==
    ASSUME NEW list, NEW was, NEW On, NEW Off
    PROVE  Lately(list, was, On, Off, 0) <=> was
<1>1. 1 .. 0 = {}
  OBVIOUS
<1> QED
  BY <1>1 DEF Lately

LEMMA LatelySame ==
    ASSUME NEW list, NEW was, NEW On, NEW Off, NEW list2, NEW was2, NEW On2, NEW Off2,
           NEW j \in Nat, was <=> was2,
           \A i \in 1 .. j : (list[i] \in On <=> list2[i] \in On2)
                             /\ (list[i] \in Off <=> list2[i] \in Off2)
    PROVE  Lately(list, was, On, Off, j) <=> Lately(list2, was2, On2, Off2, j)
<1>1. \A i \in 1 .. j : i + 1 .. j \subseteq 1 .. j
  OBVIOUS
<1> QED
  BY <1>1 DEF Lately

(* Once something was said it does not matter what was so before.           *)
LEMMA LatelyAnyway ==
    ASSUME NEW list, NEW was, NEW On, NEW Off, NEW was2, NEW j \in Nat,
           NEW i \in 1 .. j, list[i] \in On \union Off
    PROVE  Lately(list, was, On, Off, j) <=> Lately(list, was2, On, Off, j)
<1>1. CASE list[i] \in Off
  BY <1>1 DEF Lately
<1>2. CASE list[i] \in On /\ \A k \in 1 .. j : list[k] \notin Off
  <2>1. i + 1 .. j \subseteq 1 .. j
    OBVIOUS
  <2> QED
    BY <1>2, <2>1 DEF Lately
<1>3. CASE \E k \in 1 .. j : list[k] \in Off
  BY <1>3 DEF Lately
<1> QED
  BY <1>1, <1>2, <1>3

LEMMA LatelyTail ==
    ASSUME NEW V, NEW list \in Seq(V), list # <<>>, NEW was, NEW On, NEW Off,
           NEW j \in 1 .. Len(list)
    PROVE  Lately(list, was, On, Off, j)
             <=> Lately(Tail(list), Head(list) \in On \/ (was /\ Head(list) \notin Off),
                        On, Off, j - 1)
<1> DEFINE new == Tail(list)
           n == Len(list)
           now == Head(list) \in On \/ (was /\ Head(list) \notin Off)
<1>1. /\ n \in Nat /\ n >= 1 /\ DOMAIN list = 1 .. n /\ Head(list) = list[1]
      /\ \A i \in 1 .. n - 1 : new[i] = list[i + 1]
      /\ \A i \in 2 .. n : i - 1 \in 1 .. n - 1 /\ new[i - 1] = list[i]
  BY TailParts
<1> HIDE DEF new, n
<1>2. j \in 1 .. n
  BY DEF n
<1>3. ASSUME NEW i \in 1 .. j
      PROVE  /\ (\A k \in i + 1 .. j : list[k] \notin Off)
                  <=> (\A k \in i .. j - 1 : new[k] \notin Off)
  <2>1. ASSUME NEW k \in i + 1 .. j
        PROVE  k - 1 \in i .. j - 1 /\ new[k - 1] = list[k]
    <3>1. k - 1 \in i .. j - 1 /\ k \in 2 .. n
      BY <1>1, <1>2, <1>3
    <3> QED
      BY <1>1, <3>1
  <2>2. ASSUME NEW k \in i .. j - 1
        PROVE  k + 1 \in i + 1 .. j /\ new[k] = list[k + 1]
    <3>1. k + 1 \in i + 1 .. j /\ k \in 1 .. n - 1
      BY <1>1, <1>2, <1>3
    <3> QED
      BY <1>1, <3>1
  <2> QED
    BY <2>1, <2>2
<1>4. Lately(list, was, On, Off, j)
        <=> \/ \E i \in 1 .. j : list[i] \in On /\ \A k \in i .. j - 1 : new[k] \notin Off
            \/ was /\ list[1] \notin Off /\ \A k \in 1 .. j - 1 : new[k] \notin Off
  <2>1. 1 \in 1 .. j /\ (\A k \in 1 .. j : k = 1 \/ k \in 1 + 1 .. j) /\ 1 + 1 .. j \subseteq 1 .. j
    BY <1>1, <1>2
  <2>2. (\A k \in 1 .. j : list[k] \notin Off)
          <=> list[1] \notin Off /\ \A k \in 1 .. j - 1 : new[k] \notin Off
    BY <2>1, <1>3
  <2> QED
    BY <1>3, <2>2 DEF Lately
<1>5. (\E i \in 1 .. j : list[i] \in On /\ \A k \in i .. j - 1 : new[k] \notin Off)
        <=> \/ list[1] \in On /\ \A k \in 1 .. j - 1 : new[k] \notin Off
            \/ \E i \in 1 .. j - 1 : new[i] \in On
                                     /\ \A k \in i + 1 .. j - 1 : new[k] \notin Off
  <2>1. 1 \in 1 .. j
    BY <1>1, <1>2
  <2>2. ASSUME NEW i \in 1 .. j, i # 1
        PROVE  i - 1 \in 1 .. j - 1 /\ new[i - 1] = list[i] /\ (i - 1) + 1 = i
    <3>1. i - 1 \in 1 .. j - 1 /\ i \in 2 .. n /\ (i - 1) + 1 = i
      BY <1>1, <1>2, <2>2
    <3> QED
      BY <1>1, <3>1
  <2>3. ASSUME NEW i \in 1 .. j - 1
        PROVE  i + 1 \in 1 .. j /\ new[i] = list[i + 1]
    <3>1. i + 1 \in 1 .. j /\ i \in 1 .. n - 1
      BY <1>1, <1>2
    <3> QED
      BY <1>1, <3>1
  <2> QED
    BY <2>1, <2>2, <2>3
<1>6. Lately(new, now, On, Off, j - 1)
        <=> \/ \E i \in 1 .. j - 1 : new[i] \in On
                                     /\ \A k \in i + 1 .. j - 1 : new[k] \notin Off
            \/ (list[1] \in On \/ (was /\ list[1] \notin Off))
               /\ \A k \in 1 .. j - 1 : new[k] \notin Off
  BY <1>1 DEF Lately
<1>7. Lately(list, was, On, Off, j) <=> Lately(new, now, On, Off, j - 1)
  BY <1>4, <1>5, <1>6
<1> QED
  BY <1>7 DEF new

LEMMA LatelyPrefix ==
    ASSUME NEW V, NEW list \in Seq(V), NEW more \in Seq(V), NEW was, NEW On, NEW Off,
           NEW j \in 0 .. Len(list)
    PROVE  Lately(list \o more, was, On, Off, j) <=> Lately(list, was, On, Off, j)
<1> DEFINE whole == list \o more
<1>1. Len(list) \in Nat /\ \A i \in 1 .. Len(list) : whole[i] = list[i]
  BY JoinParts
<1> HIDE DEF whole
<1>2. j \in Nat /\ 1 .. j \subseteq 1 .. Len(list)
  BY <1>1
<1>3. \A i \in 1 .. j : whole[i] = list[i]
  BY <1>1, <1>2
<1>4. \A i \in 1 .. j : i + 1 .. j \subseteq 1 .. j
  BY <1>2
<1>5. \A i \in 1 .. j : (\A k \in i + 1 .. j : whole[k] \notin Off)
                          <=> (\A k \in i + 1 .. j : list[k] \notin Off)
  BY <1>3, <1>4
<1>6. (\A k \in 1 .. j : whole[k] \notin Off) <=> (\A k \in 1 .. j : list[k] \notin Off)
  BY <1>3
<1>7. Lately(whole, was, On, Off, j) <=> Lately(list, was, On, Off, j)
  BY <1>3, <1>5, <1>6 DEF Lately
<1> QED
  BY <1>7 DEF whole

LEMMA LatelyJoined ==
    ASSUME NEW V, NEW list \in Seq(V), NEW more \in Seq(V), NEW was, NEW On, NEW Off,
           NEW j \in 0 .. Len(more)
    PROVE  Lately(list \o more, was, On, Off, Len(list) + j)
             <=> Lately(more, Lately(list, was, On, Off, Len(list)), On, Off, j)
<1> DEFINE new == list \o more
           n == Len(list)
           m == Len(more)
<1>1. /\ n \in Nat /\ m \in Nat
      /\ \A i \in 1 .. n : new[i] = list[i]
      /\ \A i \in 1 .. m : new[n + i] = more[i]
      /\ \A i \in 1 .. n + m : i \notin 1 .. n => i - n \in 1 .. m /\ new[i] = more[i - n]
  BY JoinParts
<1>2. j \in 0 .. m
  BY DEF m
<1> HIDE DEF new, n, m
<1>3. ASSUME NEW i \in 1 .. j
      PROVE  n + i \in 1 .. n + j /\ new[n + i] = more[i] /\ n + i \notin 1 .. n
  <2>1. n + i \in 1 .. n + j /\ n + i \notin 1 .. n /\ i \in 1 .. m
    BY <1>1, <1>2
  <2> QED
    BY <1>1, <2>1
<1>4. ASSUME NEW i \in 1 .. n + j, i \notin 1 .. n
      PROVE  i - n \in 1 .. j /\ new[i] = more[i - n] /\ n + (i - n) = i
  <2>1. i - n \in 1 .. j /\ n + (i - n) = i /\ i \in 1 .. n + m
    BY <1>1, <1>2, <1>4
  <2> QED
    BY <1>1, <1>4, <2>1
<1>5. ASSUME NEW i \in 1 .. n
      PROVE  (\A k \in i + 1 .. n + j : new[k] \notin Off)
               <=> (\A k \in i + 1 .. n : list[k] \notin Off)
                   /\ \A k \in 1 .. j : more[k] \notin Off
  <2>1. i + 1 .. n \subseteq 1 .. n /\ i + 1 .. n \subseteq i + 1 .. n + j
        /\ i + 1 .. n + j \subseteq 1 .. n + j
    BY <1>1, <1>2
  <2>2. \A k \in i + 1 .. n : new[k] = list[k]
    BY <1>1, <2>1
  <2>3. \A k \in i + 1 .. n + j : k \in i + 1 .. n
          \/ (k - n \in 1 .. j /\ new[k] = more[k - n])
    <3>1. \A k \in i + 1 .. n + j : k \in i + 1 .. n \/ k \notin 1 .. n
      BY <1>1
    <3> QED
      BY <2>1, <3>1, <1>4
  <2>4. \A k \in 1 .. j : n + k \in i + 1 .. n + j /\ new[n + k] = more[k]
    <3>1. \A k \in 1 .. j : n + k \in i + 1 .. n + j
      BY <1>1, <1>2
    <3> QED
      BY <3>1, <1>3
  <2> QED
    BY <2>1, <2>2, <2>3, <2>4
<1>6. (\A k \in 1 .. n + j : new[k] \notin Off)
        <=> (\A k \in 1 .. n : list[k] \notin Off) /\ \A k \in 1 .. j : more[k] \notin Off
  <2>1. 1 .. n \subseteq 1 .. n + j
    BY <1>1, <1>2
  <2> QED
    BY <1>1, <2>1, <1>3, <1>4
<1>7. (\E i \in 1 .. n + j : new[i] \in On /\ \A k \in i + 1 .. n + j : new[k] \notin Off)
        <=> \/ \E i \in 1 .. j : more[i] \in On /\ \A k \in i + 1 .. j : more[k] \notin Off
            \/ (\E i \in 1 .. n : list[i] \in On /\ \A k \in i + 1 .. n : list[k] \notin Off)
               /\ \A k \in 1 .. j : more[k] \notin Off
  <2>1. ASSUME NEW i \in 1 .. j
        PROVE  (\A k \in n + i + 1 .. n + j : new[k] \notin Off)
                 <=> \A k \in i + 1 .. j : more[k] \notin Off
    <3>1. \A k \in i + 1 .. j : n + k \in n + i + 1 .. n + j /\ k \in 1 .. j
      BY <1>1, <1>2
    <3>2. \A k \in n + i + 1 .. n + j : k - n \in i + 1 .. j /\ k \in 1 .. n + j /\ k \notin 1 .. n
      BY <1>1, <1>2
    <3> QED
      BY <3>1, <3>2, <1>3, <1>4
  <2>2. 1 .. n \subseteq 1 .. n + j
    BY <1>1, <1>2
  <2>3. ASSUME NEW i \in 1 .. n + j, i \notin 1 .. n, new[i] \in On,
               \A k \in i + 1 .. n + j : new[k] \notin Off
        PROVE  \E x \in 1 .. j : more[x] \in On /\ \A k \in x + 1 .. j : more[k] \notin Off
    BY <2>3, <1>4, <2>1
  <2>4. ASSUME NEW i \in 1 .. j, more[i] \in On, \A k \in i + 1 .. j : more[k] \notin Off
        PROVE  \E x \in 1 .. n + j : new[x] \in On /\ \A k \in x + 1 .. n + j : new[k] \notin Off
    BY <2>4, <1>3, <2>1
  <2>5. \A i \in 1 .. n : new[i] = list[i]
    BY <1>1
  <2> QED
    BY <2>2, <2>3, <2>4, <2>5, <1>5
<1> DEFINE old == Lately(list, was, On, Off, n)
<1>8. Lately(new, was, On, Off, n + j) <=> Lately(more, old, On, Off, j)
  BY <1>6, <1>7 DEF Lately
<1> QED
  BY <1>8 DEF new, n

LEMMA LatelySaid ==
    ASSUME NEW list, NEW was, NEW On, NEW Off, NEW j \in Nat
    PROVE  /\ (\A i \in 1 .. j : list[i] \notin On \union Off)
                => (Lately(list, was, On, Off, j) <=> was)
           /\ (\E i \in 1 .. j : list[i] \in On) /\ (\A i \in 1 .. j : list[i] \notin Off)
                => Lately(list, was, On, Off, j)
           /\ (\E i \in 1 .. j : list[i] \in Off) /\ (\A i \in 1 .. j : list[i] \notin On)
                => ~Lately(list, was, On, Off, j)
<1>1. \A i \in 1 .. j : i + 1 .. j \subseteq 1 .. j
  OBVIOUS
<1> QED
  BY <1>1 DEF Lately

-----------------------------------------------------------------------------
(* What a handler does to the listens.  The requests for a target, and the  *)
(* last of them.                                                            *)
Asks(sent, t) == \E i \in DOMAIN sent : sent[i].target = t

LastAsk(sent, t, m) ==
    \E i \in DOMAIN sent :
        sent[i] = m /\ \A k \in DOMAIN sent : k > i => sent[k].target # t

WatchFor(b, t) ==
    [type |-> "watch", target |-> t, scope |-> IF t = 0 THEN Doc ELSE {b.active[t].key},
     token |-> b.resume[t]]

(* Target t goes on as it was. *)
Kept(a, b, t) ==
    /\ t \in DOMAIN a.resume /\ t \in DOMAIN b.resume /\ b.resume[t] = a.resume[t]
    /\ t # 0 => b.active[t] = a.active[t]
    /\ t \in DOMAIN a.states <=> t \in DOMAIN b.states
    /\ t \in DOMAIN a.states => b.states[t] = a.states[t]
    /\ Asks(a.sent, t) <=> Asks(b.sent, t)
    /\ \A m : LastAsk(a.sent, t, m) => LastAsk(b.sent, t, m)

(* Target t is listened to anew: nothing is known of it. *)
Begun(b, t) ==
    /\ t # 0 => ~b.active[t].received
    /\ b.resume[t] = NoToken
    /\ open => LastAsk(b.sent, t, WatchFor(b, t))

Continues(a, b) ==
    /\ Kept(a, b, 0)
    /\ \A t \in DOMAIN b.resume : Kept(a, b, t) \/ Begun(b, t)
    /\ ~open => b.states = a.states /\ b.sent = a.sent

LEMMA KeptItself ==
    ASSUME NEW a \in Books, NEW t \in DOMAIN a.resume PROVE Kept(a, a, t)
BY DEF Kept

LEMMA KeptTwice ==
    ASSUME NEW a, NEW b, NEW c, NEW t, Kept(a, b, t), Kept(b, c, t) PROVE Kept(a, c, t)
BY DEF Kept

LEMMA BegunAndKept ==
    ASSUME NEW b, NEW c, NEW t, Begun(b, t), Kept(b, c, t) PROVE Begun(c, t)
<1>1. WatchFor(c, t) = WatchFor(b, t)
  BY DEF Kept, WatchFor
<1> QED
  BY <1>1 DEF Begun, Kept

LEMMA ContinuesItself ==
    ASSUME NEW a \in Books PROVE Continues(a, a)
<1>1. 0 \in DOMAIN a.resume
  BY BookFacts
<1> QED
  BY <1>1, KeptItself DEF Continues

LEMMA ContinuesTwice ==
    ASSUME NEW a, NEW b, NEW c, Continues(a, b), Continues(b, c) PROVE Continues(a, c)
<1>1. Kept(a, c, 0)
  BY KeptTwice DEF Continues
<1>2. ASSUME NEW t \in DOMAIN c.resume PROVE Kept(a, c, t) \/ Begun(c, t)
  <2>1. CASE Begun(c, t)
    BY <2>1
  <2>2. CASE Kept(b, c, t)
    <3>1. t \in DOMAIN b.resume
      BY <2>2 DEF Kept
    <3>2. Kept(a, b, t) \/ Begun(b, t)
      BY <3>1 DEF Continues
    <3> QED
      BY <2>2, <3>2, KeptTwice, BegunAndKept
  <2> QED
    BY <2>1, <2>2 DEF Continues
<1> QED
  BY <1>1, <1>2 DEF Continues

LEMMA RequestFields ==
    ASSUME NEW b \in Books, NEW t, NEW m
    PROVE  /\ Request(b, t, m).queue = b.queue /\ Request(b, t, m).active = b.active
           /\ Request(b, t, m).resume = b.resume
           /\ Request(b, t, m).sent = Append(b.sent, m)
           /\ DOMAIN Request(b, t, m).states = DOMAIN b.states \union {t}
           /\ \A u \in DOMAIN b.states : u # t => Request(b, t, m).states[u] = b.states[u]
<1> DEFINE state == IF t \in DOMAIN b.states THEN b.states[t] ELSE Fresh
           states2 == Put(b.states, t, [state EXCEPT !.outstanding = @ + 1])
           sent2 == Append(b.sent, m)
           c == Request(b, t, m)
<1>1. c = [b EXCEPT !.states = states2, !.sent = sent2]
  BY DEF Request
<1>2. DOMAIN states2 = DOMAIN b.states \union {t}
      /\ \A u \in DOMAIN b.states : u # t => states2[u] = b.states[u]
  BY DEF Put
<1> HIDE DEF c, states2, sent2
<1>3. c.queue = b.queue /\ c.active = b.active /\ c.resume = b.resume
      /\ c.states = states2 /\ c.sent = sent2
  BY <1>1, BookFacts
<1> QED
  BY <1>2, <1>3 DEF c, sent2

LEMMA AskedNow ==
    ASSUME NEW sent \in Seq(ClientMessage), NEW m \in ClientMessage
    PROVE  /\ LastAsk(Append(sent, m), m.target, m) /\ Asks(Append(sent, m), m.target)
           /\ \A t : t # m.target =>
                /\ Asks(sent, t) <=> Asks(Append(sent, m), t)
                /\ \A x : LastAsk(sent, t, x) => LastAsk(Append(sent, m), t, x)
<1> DEFINE new == Append(sent, m)
           n == Len(sent)
<1>1. /\ n \in Nat /\ DOMAIN sent = 1 .. n /\ DOMAIN new = 1 .. n + 1
      /\ \A i \in 1 .. n : new[i] = sent[i]
      /\ new[n + 1] = m
  BY LenProperties, AppendProperties
<1> HIDE DEF new, n
<1>2. LastAsk(new, m.target, m) /\ Asks(new, m.target)
  <2>1. n + 1 \in 1 .. n + 1 /\ \A k \in 1 .. n + 1 : ~(k > n + 1)
    BY <1>1
  <2> QED
    BY <1>1, <2>1 DEF LastAsk, Asks
<1>3. ASSUME NEW t, t # m.target
      PROVE  /\ Asks(sent, t) <=> Asks(new, t)
             /\ \A x : LastAsk(sent, t, x) => LastAsk(new, t, x)
  <2>1. \A i \in 1 .. n + 1 : i \in 1 .. n \/ i = n + 1
    BY <1>1
  <2>2. 1 .. n \subseteq 1 .. n + 1
    BY <1>1
  <2> QED
    BY <1>1, <1>3, <2>1, <2>2 DEF LastAsk, Asks
<1> QED
  BY <1>2, <1>3 DEF new

(* A request for one target is nothing to the others. *)
LEMMA RequestKeeps ==
    ASSUME NEW b \in Books, NEW t, NEW m \in ClientMessage, m.target = t,
           NEW u \in DOMAIN b.resume, u # t
    PROVE  Kept(b, Request(b, t, m), u)
<1> DEFINE c == Request(b, t, m)
<1>1. /\ c.active = b.active /\ c.resume = b.resume /\ c.sent = Append(b.sent, m)
      /\ DOMAIN c.states = DOMAIN b.states \union {t}
      /\ \A v \in DOMAIN b.states : v # t => c.states[v] = b.states[v]
  BY RequestFields
<1>2. b.sent \in Seq(ClientMessage)
  BY BookFacts
<1>3. /\ Asks(b.sent, u) <=> Asks(c.sent, u)
      /\ \A x : LastAsk(b.sent, u, x) => LastAsk(c.sent, u, x)
  BY <1>1, <1>2, AskedNow
<1> HIDE DEF c
<1> QED
  BY <1>1, <1>3 DEF Kept, c

LEMMA ListenContinues ==
    ASSUME NEW b \in Books, NEW t, IsFree(b, t), b.queue # <<>>
    PROVE  Continues(b, IF open THEN SendWatch(Listening(b, t), t, {Head(b.queue)})
                        ELSE Listening(b, t))
<1> DEFINE l == Listening(b, t)
           m == [type |-> "watch", target |-> t, scope |-> {Head(b.queue)},
                 token |-> l.resume[t]]
           w == Request(l, t, m)
<1>1. /\ l \in Books /\ l.states = b.states /\ l.sent = b.sent
      /\ DOMAIN l.active = DOMAIN b.active \union {t}
      /\ DOMAIN l.resume = DOMAIN b.resume \union {t}
      /\ l.active[t] = [key |-> Head(b.queue), received |-> FALSE]
      /\ l.resume[t] = NoToken /\ t \notin DOMAIN b.resume
      /\ \A u \in DOMAIN b.active : l.active[u] = b.active[u]
      /\ \A u \in DOMAIN b.resume : l.resume[u] = b.resume[u]
      /\ Head(b.queue) \in Doc /\ t \in Target /\ t # 0
      /\ DOMAIN b.resume = DOMAIN b.active \union {0}
  BY ListeningFacts, BookFacts DEF IsFree
<1>2. SendWatch(l, t, {Head(b.queue)}) = w
  BY DEF SendWatch
<1>3. m \in ClientMessage /\ m.target = t
  <2>1. {Head(b.queue)} \in SUBSET Doc /\ NoToken \in Token
    BY <1>1, TokensAreTyped
  <2> HIDE DEF l
  <2> QED
    BY <1>1, <2>1, WatchIsMessage
<1> HIDE DEF l, m
<1>4. \A u \in DOMAIN b.resume : Kept(b, l, u)
  BY <1>1 DEF Kept
<1>5. CASE ~open
  <2>1. \A u \in DOMAIN l.resume : Kept(b, l, u) \/ Begun(l, u)
    BY <1>1, <1>4, <1>5 DEF Begun
  <2> QED
    BY <1>1, <1>4, <1>5, <2>1 DEF Continues, l
<1>6. CASE open
  <2>1. \A u \in DOMAIN b.resume : Kept(l, w, u)
    BY <1>1, <1>3, RequestKeeps
  <2>2. /\ w.active = l.active /\ w.resume = l.resume /\ w.sent = Append(l.sent, m)
    BY <1>1, RequestFields
  <2> HIDE DEF w
  <2>3. \A u \in DOMAIN b.resume : Kept(b, w, u)
    BY <1>4, <2>1, KeptTwice
  <2>4. LastAsk(w.sent, t, m)
    BY <1>1, <1>3, <2>2, AskedNow, BookFacts
  <2>5. WatchFor(w, t) = m
    <3>1. w.active[t].key = Head(b.queue) /\ w.resume[t] = l.resume[t] /\ t # 0
      BY <1>1, <2>2
    <3>2. WatchFor(w, t) = [type |-> "watch", target |-> t, scope |-> {w.active[t].key},
                            token |-> w.resume[t]]
      BY <3>1 DEF WatchFor
    <3> QED
      BY <3>1, <3>2 DEF m
  <2>6. Begun(w, t)
    BY <1>1, <2>2, <2>4, <2>5 DEF Begun
  <2> QED
    BY <1>1, <1>2, <1>6, <2>2, <2>3, <2>6 DEF Continues, l
<1> QED
  BY <1>5, <1>6

LEMMA PumpContinues ==
    ASSUME NEW b \in Books PROVE Continues(b, Pump(b))
<1>1. ASSUME NEW t, IsFree(b, t), b.queue # <<>>,
             Pump(b) = IF open THEN SendWatch(Listening(b, t), t, {Head(b.queue)})
                       ELSE Listening(b, t)
      PROVE  Continues(b, Pump(b))
  <2> DEFINE x == IF open THEN SendWatch(Listening(b, t), t, {Head(b.queue)})
                  ELSE Listening(b, t)
  <2>1. Continues(b, x)
    BY <1>1, ListenContinues
  <2> HIDE DEF x
  <2> QED
    BY <1>1, <2>1 DEF x
<1>2. Pump(b) = b => Continues(b, Pump(b))
  BY ContinuesItself
<1> QED
  BY <1>1, <1>2, PumpEffect

(* A book with fewer listens, and as many as it keeps. *)
LEMMA NarrowedContinues ==
    ASSUME NEW b \in Books, NEW c \in Books, c.states = b.states, c.sent = b.sent,
           \A u \in DOMAIN c.resume : u \in DOMAIN b.resume /\ c.resume[u] = b.resume[u],
           \A u \in DOMAIN c.active : u \in DOMAIN b.active /\ c.active[u] = b.active[u]
    PROVE  Continues(b, c)
<1>1. 0 \in DOMAIN c.resume /\ \A u \in DOMAIN c.resume : u # 0 => u \in DOMAIN c.active
  BY BookFacts
<1> QED
  BY <1>1 DEF Continues, Kept

LEMMA UntrackContinues ==
    ASSUME NEW old, NEW acks \in [Target -> Nat], NEW b, Carries(old, acks, b), NEW d
    PROVE  Continues(b, Untrack(b, d))
<1>1. b \in Books
  BY DEF Carries
<1> DEFINE r == Dequeued(b, d)
<1>2. /\ r \in Books /\ r.active = b.active /\ r.resume = b.resume
      /\ r.states = b.states /\ r.sent = b.sent
  BY <1>1, DequeuedFacts
<1>3. CASE ActiveFor(b, d) = {} /\ Untrack(b, d) = r
  <2> HIDE DEF r
  <2>1. Continues(b, r)
    BY <1>1, <1>2, NarrowedContinues
  <2> QED
    BY <1>3, <2>1
<1>4. ASSUME NEW t \in ActiveFor(b, d),
             Untrack(b, d) = Pump(IF open THEN SendUnwatch(Stopped(b, d, t), t)
                                  ELSE Stopped(b, d, t))
      PROVE  Continues(b, Untrack(b, d))
  <2> DEFINE s == Stopped(b, d, t)
             m == [type |-> "unwatch", target |-> t]
             u == IF open THEN SendUnwatch(s, t) ELSE s
  <2>1. t \in DOMAIN b.active /\ t \in Target
    BY <1>1, <1>4, ActiveForKeys, BookFacts
  <2>2. /\ s \in Books /\ s.states = b.states /\ s.sent = b.sent
        /\ DOMAIN s.active = DOMAIN b.active \ {t}
        /\ DOMAIN s.resume = DOMAIN b.resume \ {t}
        /\ \A v \in DOMAIN b.active : v # t => s.active[v] = b.active[v]
        /\ \A v \in DOMAIN b.resume : v # t => s.resume[v] = b.resume[v]
    BY <1>1, <2>1, StoppedFacts
  <2> HIDE DEF s
  <2>3. Continues(b, s)
    BY <1>1, <2>2, NarrowedContinues
  <2>4. Carries(old, acks, s)
    BY <1>1, <2>2, NarrowedCarries
  <2>5. m \in ClientMessage /\ m.target = t /\ SendUnwatch(s, t) = Request(s, t, m)
    BY <2>1 DEF ClientMessage, SendUnwatch
  <2> HIDE DEF m
  <2>6. u \in Books /\ Continues(s, u)
    <3>1. CASE ~open
      BY <2>2, <3>1, ContinuesItself
    <3>2. CASE open
      <4>1. SendUnwatch(s, t) \in Books
        BY <2>1, <2>4, SendUnwatchCarries DEF Carries
      <4>2. \A v \in DOMAIN s.resume : Kept(s, Request(s, t, m), v)
        BY <2>2, <2>5, RequestKeeps
      <4>3. Request(s, t, m).resume = s.resume /\ 0 \in DOMAIN s.resume
        BY <2>2, RequestFields, BookFacts
      <4>4. Continues(s, Request(s, t, m))
        BY <3>2, <4>2, <4>3 DEF Continues
      <4> QED
        BY <2>5, <3>2, <4>1, <4>4
    <3> QED
      BY <3>1, <3>2
  <2> HIDE DEF u
  <2>7. Continues(u, Pump(u))
    BY <2>6, PumpContinues
  <2>8. Continues(b, Pump(u))
    BY <2>3, <2>6, <2>7, ContinuesTwice
  <2> QED
    BY <1>4, <2>8 DEF u, s
<1> QED
  BY <1>1, <1>3, <1>4, UntrackEffect

LEMMA TrackContinues ==
    ASSUME NEW b \in Books, NEW d \in Doc
    PROVE  Continues(b, Track(b, d))
<1> DEFINE a == [b EXCEPT !.queue = Append(@, d)]
<1>1. Track(b, d) = Pump(a) \/ Track(b, d) = b
  BY DEF Track
<1>2. /\ a \in Books /\ a.active = b.active
      /\ a.resume = b.resume /\ a.states = b.states /\ a.sent = b.sent
  <2>1. Append(b.queue, d) \in Seq(Doc)
    BY BookFacts, AppendProperties
  <2> QED
    BY <2>1, BookFacts DEF Books
<1> HIDE DEF a
<1>3. Continues(b, a) /\ Continues(a, Pump(a))
  BY <1>2, NarrowedContinues, PumpContinues
<1>4. Continues(b, Pump(a)) /\ Continues(b, b)
  BY <1>3, ContinuesTwice, ContinuesItself
<1> QED
  BY <1>1, <1>4

LEMMA UntrackedContinues ==
    ASSUME NEW old, NEW acks \in [Target -> Nat], NEW b, NEW L \in SUBSET Doc,
           Sound(old, acks, b, L), NEW dropped \in SUBSET Doc
    PROVE  Continues(b, Untracked(b, dropped)[NumDocs])
<1> DEFINE after == Untracked(b, dropped)
           T == {i \in 0 .. NumDocs : Continues(b, after[i])}
<1>1. /\ after[0] = b
      /\ \A i \in 0 .. NumDocs : Sound(old, acks, after[i], LeftAfter(L, dropped, i))
      /\ \A i \in 1 .. NumDocs :
           after[i] = IF i \in dropped THEN Untrack(after[i - 1], i) ELSE after[i - 1]
  BY UntrackedSteps
<1>2. NumDocs \in Nat /\ b \in Books
  BY WatchSyncAssumption DEF Sound, Carries
<1> HIDE DEF after
<1>3. 0 \in T
  BY <1>1, <1>2, ContinuesItself
<1>4. ASSUME NEW i \in 1 .. NumDocs, i - 1 \in T PROVE i \in T
  <2>1. i \in 0 .. NumDocs /\ Continues(b, after[i - 1]) /\ i - 1 \in 0 .. NumDocs
    BY <1>2, <1>4
  <2>2. Carries(old, acks, after[i - 1])
    BY <1>1, <2>1 DEF Sound
  <2>3. Continues(after[i - 1], Untrack(after[i - 1], i))
    BY <2>2, UntrackContinues
  <2>4. Continues(b, Untrack(after[i - 1], i))
    BY <2>1, <2>3, ContinuesTwice
  <2> QED
    BY <1>1, <2>1, <2>4
<1>5. \A i \in 0 .. NumDocs : i \in T
  <2> HIDE DEF T
  <2> QED
    BY <1>2, <1>3, <1>4, InductionUpTo
<1>6. NumDocs \in 0 .. NumDocs
  BY <1>2
<1> QED
  BY <1>5, <1>6 DEF after

LEMMA TrackedContinues ==
    ASSUME NEW old, NEW acks \in [Target -> Nat], NEW b, NEW L \in SUBSET Doc,
           Sound(old, acks, b, L), NEW new \in SUBSET Doc
    PROVE  Continues(b, Tracked(b, new)[NumDocs])
<1> DEFINE after == Tracked(b, new)
           T == {i \in 0 .. NumDocs : Continues(b, after[i])}
<1>1. /\ after[0] = b
      /\ \A i \in 0 .. NumDocs : Sound(old, acks, after[i], JoinedAfter(L, new, i))
      /\ \A i \in 1 .. NumDocs :
           after[i] = IF i \in new THEN Track(after[i - 1], i) ELSE after[i - 1]
  BY TrackedSteps
<1>2. NumDocs \in Nat /\ b \in Books
  BY WatchSyncAssumption DEF Sound, Carries
<1> HIDE DEF after
<1>3. 0 \in T
  BY <1>1, <1>2, ContinuesItself
<1>4. ASSUME NEW i \in 1 .. NumDocs, i - 1 \in T PROVE i \in T
  <2>1. i \in 0 .. NumDocs /\ Continues(b, after[i - 1]) /\ i - 1 \in 0 .. NumDocs /\ i \in Doc
    BY <1>2, <1>4 DEF Doc
  <2>2. after[i - 1] \in Books
    BY <1>1, <2>1 DEF Sound, Carries
  <2>3. Continues(after[i - 1], Track(after[i - 1], i))
    BY <2>1, <2>2, TrackContinues
  <2>4. Continues(b, Track(after[i - 1], i))
    BY <2>1, <2>3, ContinuesTwice
  <2> QED
    BY <1>1, <2>1, <2>4
<1>5. \A i \in 0 .. NumDocs : i \in T
  <2> HIDE DEF T
  <2> QED
    BY <1>2, <1>3, <1>4, InductionUpTo
<1>6. NumDocs \in 0 .. NumDocs
  BY <1>2
<1> QED
  BY <1>5, <1>6 DEF after

(* The view changes, and every listen is kept or begun.                     *)
LEMMA ApplyChangesContinues ==
    ASSUME NEW old, NEW acks \in [Target -> Nat], NEW b, limbo \in SUBSET Doc,
           Sound(old, acks, b, limbo), NEW docs, NEW writes, NEW renewed, NEW known,
           NEW isCurrent, ApplyChanges(b, docs, writes, renewed, known, isCurrent)
    PROVE  /\ Book' \in Books /\ Continues(b, Book')
           /\ mutatedKeys' = Mutated(docs, writes, renewed)
           /\ limbo' = IF isCurrent THEN Shown(docs, writes) \ (known \union mutatedKeys')
                       ELSE limbo
<1> DEFINE local == Mutated(docs, writes, renewed)
           now == IF isCurrent THEN Shown(docs, writes) \ (known \union local) ELSE limbo
           kept == Untracked(b, limbo \ now)[NumDocs]
           next == Tracked(kept, now \ limbo)[NumDocs]
<1>1. now \in SUBSET Doc
  BY DEF Shown
<1>2. limbo' = now /\ mutatedKeys' = local /\ Keep(next)
  BY DEF ApplyChanges
<1>2a. /\ mutatedKeys' = Mutated(docs, writes, renewed)
       /\ limbo' = IF isCurrent THEN Shown(docs, writes) \ (known \union mutatedKeys')
                   ELSE limbo
  BY <1>2
<1> HIDE DEF now, local
<1>3. Sound(old, acks, kept, limbo \ (limbo \ now)) /\ Continues(b, kept)
  <2>1. limbo \ now \in SUBSET Doc
    OBVIOUS
  <2> QED
    BY <2>1, UntrackedSound, UntrackedContinues
<1> HIDE DEF kept
<1>4. Sound(old, acks, next, (limbo \ (limbo \ now)) \union (now \ limbo))
      /\ Continues(kept, next)
  <2>1. limbo \ (limbo \ now) \in SUBSET Doc /\ now \ limbo \in SUBSET Doc
    BY <1>1
  <2> QED
    BY <1>3, <2>1, TrackedSound, TrackedContinues
<1> HIDE DEF next
<1>5. next \in Books /\ Continues(b, next)
  BY <1>3, <1>4, ContinuesTwice DEF Sound, Carries
<1>6. Book' = next
  BY <1>2, <1>5, KeepIsBook
<1> QED
  BY <1>2a, <1>5, <1>6

-----------------------------------------------------------------------------
(* When a target is active.                                                 *)
Typed(type) == {m \in ServerMessage : m.type = type}
Tells(type, t) == {m \in ServerMessage : m.type = type /\ m.type # "snapshot" /\ m.target = t}
Spoken == {m \in ServerMessage : m.type \notin {"removed", "snapshot"}}

ActiveIn(b, t) ==
    t \in DOMAIN b.resume /\ (t \in DOMAIN b.states => b.states[t].outstanding = 0)

Silent(list, M) == \A i \in DOMAIN list : list[i] \notin M

LEMMA NoneCounted ==
    ASSUME NEW V, NEW list \in Seq(V), NEW M
    PROVE  Count(list, M) \in Nat /\ (Count(list, M) = 0 <=> Silent(list, M))
<1>1. IsFiniteSet(Occurs(list, M)) /\ Count(list, M) \in Nat
  BY OccursFinite
<1>2. Count(list, M) = 0 <=> Occurs(list, M) = {}
  BY <1>1, FS_EmptySet DEF Count
<1> QED
  BY <1>1, <1>2 DEF Occurs, Silent

LEMMA CountedActive ==
    ASSUME NEW b \in Books, NEW list \in Seq(ServerMessage), NEW acks,
           acks = [u \in Target |-> Count(list, AckOf(u))], Counted(b, acks),
           NEW t \in Target
    PROVE  /\ ActiveIn(b, t) <=> /\ t \in DOMAIN b.resume /\ ~Asks(b.sent, t)
                                 /\ Silent(list, AckOf(t))
           /\ Asks(b.sent, t) \/ ~Silent(list, AckOf(t)) => t \in DOMAIN b.states
<1>1. Outstanding(b, t) = Count(b.sent, To(t)) + Count(list, AckOf(t))
  BY DEF Counted
<1>2. b.sent \in Seq(ClientMessage)
  BY BookFacts
<1>3. /\ Count(b.sent, To(t)) \in Nat /\ Count(list, AckOf(t)) \in Nat
      /\ Count(b.sent, To(t)) = 0 <=> Silent(b.sent, To(t))
      /\ Count(list, AckOf(t)) = 0 <=> Silent(list, AckOf(t))
  BY <1>2, NoneCounted
<1>4. Silent(b.sent, To(t)) <=> ~Asks(b.sent, t)
  <2>1. \A i \in DOMAIN b.sent : b.sent[i] \in ClientMessage
    BY <1>2, LenProperties
  <2> QED
    BY <2>1 DEF Silent, To, Asks
<1>5. Outstanding(b, t) = 0 <=> ~Asks(b.sent, t) /\ Silent(list, AckOf(t))
  BY <1>1, <1>3, <1>4
<1>6. Outstanding(b, t) = 0 <=> (t \in DOMAIN b.states => b.states[t].outstanding = 0)
  BY DEF Outstanding
<1> QED
  BY <1>5, <1>6 DEF ActiveIn, Outstanding

LEMMA ActiveMeans ==
    ASSUME SyncInv, NEW t \in DOMAIN resume
    PROVE  /\ t \in Target
           /\ IsActive(t) <=> ~Asks(toServer, t) /\ Silent(toClient, AckOf(t))
           /\ Asks(toServer, t) \/ ~Silent(toClient, AckOf(t)) => t \in DOMAIN states
<1>1. /\ Book \in Books /\ Counted(Book, Pending) /\ toClient \in Seq(ServerMessage)
      /\ t \in Target /\ Book.sent = toServer /\ Book.resume = resume /\ Book.states = states
  <2>1. /\ Book \in Books /\ Counted(Book, Pending) /\ resume \in Partial(Target, Token)
    BY InvFacts
  <2>2. toClient \in Seq(ServerMessage)
    BY DEF SyncInv, PlainTypeOK
  <2>3. t \in Target
    BY <2>1, PartialFacts
  <2> QED
    BY <2>1, <2>2, <2>3, BookParts
<1>2. /\ ActiveIn(Book, t) <=> /\ t \in DOMAIN Book.resume /\ ~Asks(Book.sent, t)
                               /\ Silent(toClient, AckOf(t))
      /\ Asks(Book.sent, t) \/ ~Silent(toClient, AckOf(t)) => t \in DOMAIN Book.states
  BY <1>1, CountedActive DEF Pending
<1> QED
  BY <1>1, <1>2 DEF ActiveIn, IsActive

ActivesAre ==
    \A t \in DOMAIN resume :
        /\ t \in Target
        /\ IsActive(t) <=> ~Asks(toServer, t) /\ Silent(toClient, AckOf(t))
        /\ Asks(toServer, t) \/ ~Silent(toClient, AckOf(t)) => t \in DOMAIN states

LEMMA ActivesMean == SyncInv => ActivesAre
BY ActiveMeans DEF ActivesAre

LEMMA ActivesMeanAfter == SyncInv' => ActivesAre'
BY ActivesMean, PTL

-----------------------------------------------------------------------------
(* The order of the messages to the client: all that is told is followed by *)
(* a global snapshot, a reset by its end, and a count comes after the        *)
(* changes it counts and after the watch it answers.                        *)
Ordered(list) ==
    /\ Followed(list, Spoken, Typed("snapshot"))
    /\ \A t \in Target : Followed(list, Tells("reset", t), Tells("current", t))
    /\ Parted(list, Tells("filter", 0), Tells("change", 0), Typed("snapshot"))
    /\ Parted(list, Typed("snapshot"), Tells("filter", 0), AckOf(0))

LEMMA OrderedTail ==
    ASSUME NEW list \in Seq(ServerMessage), list # <<>>, Ordered(list)
    PROVE  Ordered(Tail(list))
BY FollowedTail, PartedTail DEF Ordered

LEMMA OrderedNothing == Ordered(<<>>)
BY DEF Ordered, Followed, Parted

LEMMA OrderedJoined ==
    ASSUME NEW list \in Seq(ServerMessage), NEW more \in Seq(ServerMessage),
           Ordered(list), Ordered(more),
           \A k \in DOMAIN more : more[k] \in Tells("filter", 0)
              => \E x \in DOMAIN more : x < k /\ more[x] \in AckOf(0)
    PROVE  Ordered(list \o more)
<1>1. Followed(list \o more, Spoken, Typed("snapshot"))
  BY FollowedJoined DEF Ordered
<1>2. \A t \in Target : Followed(list \o more, Tells("reset", t), Tells("current", t))
  BY FollowedJoined DEF Ordered
<1>3. Followed(list, Tells("filter", 0), Typed("snapshot"))
  BY DEF Ordered, Followed, Tells, Spoken
<1>4. Parted(list \o more, Tells("filter", 0), Tells("change", 0), Typed("snapshot"))
  BY <1>3, PartedJoined DEF Ordered
<1>5. Parted(list \o more, Typed("snapshot"), Tells("filter", 0), AckOf(0))
  BY PartedJoined DEF Ordered
<1> QED
  BY <1>1, <1>2, <1>4, <1>5 DEF Ordered

-----------------------------------------------------------------------------
(* What the server says: the changes of a target, and its news.             *)
Tell(served, t) ==
    [type |-> "change", target |-> t,
     here |-> (Present \intersect served[t].scope) \ served[t].docs,
     gone |-> served[t].docs \ Present]

AllTold == [type |-> "snapshot", token |-> Present]

LEMMA TellFacts ==
    ASSUME NEW served \in Partial(Target, Served), NEW t \in DOMAIN served
    PROVE  /\ Tell(served, t) \in ServerMessage /\ Tell(served, t).type = "change"
           /\ Tell(served, t).target = t /\ ~IsAck(Tell(served, t))
           /\ t \in Target /\ served[t] \in Served
<1>1. t \in Target /\ served[t] \in Served
  BY PartialFacts
<1>2. served[t].scope \in SUBSET Doc /\ served[t].docs \in SUBSET Doc
  BY <1>1 DEF Served
<1>3. Present \in SUBSET Doc
  BY DEF Present
<1>4. Tell(served, t) \in [type : {"change"}, target : Target, here : SUBSET Doc,
                           gone : SUBSET Doc]
  BY <1>1, <1>2, <1>3 DEF Tell
<1>5. Tell(served, t).type = "change" /\ Tell(served, t).target = t
  BY DEF Tell
<1> QED
  BY <1>1, <1>4, <1>5 DEF ServerMessage, IsAck

LEMMA AllToldFacts == AllTold \in ServerMessage /\ AllTold.type = "snapshot" /\ ~IsAck(AllTold)
<1>1. Present \in SUBSET Doc
  BY DEF Present
<1> QED
  BY <1>1 DEF AllTold, ServerMessage, IsAck

LEMMA NewsShape ==
    ASSUME NEW served \in Partial(Target, Served)
    PROVE  /\ News(served) \in Seq(ServerMessage)
           /\ Len(News(served)) \in Nat /\ Len(News(served)) >= 1
           /\ DOMAIN News(served) = 1 .. Len(News(served))
           /\ News(served)[Len(News(served))] = AllTold
           /\ \A i \in 1 .. Len(News(served)) : i # Len(News(served)) =>
                \E t \in Behind(served) : News(served)[i] = Tell(served, t)
           /\ \A t \in Behind(served) :
                \E i \in 1 .. Len(News(served)) : i # Len(News(served))
                                                   /\ News(served)[i] = Tell(served, t)
           /\ Behind(served) \subseteq DOMAIN served
<1> DEFINE targets == Ascending(Behind(served))
           changes == [i \in DOMAIN targets |-> Tell(served, targets[i])]
           n == Len(targets)
           news == News(served)
<1>1. DOMAIN served \subseteq Target /\ IsFiniteSet(DOMAIN served)
  BY PartialFacts
<1>2. Behind(served) \in SUBSET DOMAIN served /\ Behind(served) \in SUBSET Nat
      /\ IsFiniteSet(Behind(served))
  <2>1. Behind(served) \in SUBSET DOMAIN served
    BY DEF Behind
  <2> QED
    BY <1>1, <2>1, FS_Subset DEF Target
<1>3. targets \in Seq(Nat) /\ Entries(targets) = Behind(served)
  BY <1>2, AscendingFacts
<1>4. news = changes \o <<AllTold>>
  BY DEF News, Tell, AllTold
<1> HIDE DEF targets
<1>5. n \in Nat /\ DOMAIN targets = 1 .. n
  BY <1>3, LenProperties
<1>6. /\ \A i \in 1 .. n : targets[i] \in Behind(served)
      /\ \A t \in Behind(served) : \E i \in 1 .. n : targets[i] = t
  BY <1>3, <1>5 DEF Entries
<1>7. changes \in Seq(ServerMessage) /\ DOMAIN changes = 1 .. n
      /\ \A i \in 1 .. n : changes[i] = Tell(served, targets[i])
  <2>1. DOMAIN changes = 1 .. n /\ \A i \in 1 .. n : changes[i] = Tell(served, targets[i])
    BY <1>5
  <2>2. \A i \in 1 .. n : Tell(served, targets[i]) \in ServerMessage
    BY <1>2, <1>6, TellFacts
  <2>3. changes \in [1 .. n -> ServerMessage]
    BY <1>5, <2>2
  <2> HIDE DEF changes
  <2>4. changes \in Seq(ServerMessage)
    BY <1>5, <2>3, SeqDef
  <2> QED
    BY <2>1, <2>4
<1> HIDE DEF changes
<1>8. <<AllTold>> \in Seq(ServerMessage) /\ DOMAIN <<AllTold>> = {1} /\ <<AllTold>>[1] = AllTold
      /\ Len(<<AllTold>>) = 1
  <2> DEFINE x == AllTold
  <2>1. x \in ServerMessage
    BY AllToldFacts
  <2> HIDE DEF x
  <2> QED
    BY <2>1, OneMessage DEF x
<1>9. Len(changes) = n
  BY <1>5, <1>7, LenProperties
<1>10. /\ news \in Seq(ServerMessage) /\ Len(news) = n + 1 /\ DOMAIN news = 1 .. n + 1
       /\ \A i \in 1 .. n : news[i] = changes[i]
       /\ news[n + 1] = AllTold
  <2>1. 1 \in 1 .. Len(<<AllTold>>)
    BY <1>8
  <2> QED
    BY <1>4, <1>7, <1>8, <1>9, <2>1, JoinParts
<1> HIDE DEF news, n
<1>11. \A i \in 1 .. n + 1 : i # n + 1 => i \in 1 .. n
  BY <1>5 DEF n
<1>12. \A i \in 1 .. n : i \in 1 .. n + 1 /\ i # n + 1
  BY <1>5 DEF n
<1>13. n \in Nat
  BY <1>5
<1>14. /\ \A i \in 1 .. Len(news) : i # Len(news) => \E t \in Behind(served) : news[i] = Tell(served, t)
       /\ \A t \in Behind(served) : \E i \in 1 .. Len(news) : i # Len(news) /\ news[i] = Tell(served, t)
  BY <1>6, <1>7, <1>10, <1>11, <1>12
<1> QED
  BY <1>2, <1>10, <1>13, <1>14 DEF news

-----------------------------------------------------------------------------
(* The answer to a watch: the acknowledgement and what is new, then that it  *)
(* is current and, perhaps, how many documents there are, then the news.    *)
Resumed(request, reset) ==
    IF reset \/ request.token = NoToken THEN {} ELSE request.token \intersect request.scope
Matched(request) == Present \intersect request.scope
NewIn(request, reset) == Matched(request) \ Resumed(request, reset)
GoneFrom(request, deletions, reset) ==
    IF deletions THEN Resumed(request, reset) \ Matched(request) ELSE {}
Differs(request, deletions, reset) ==
    NewIn(request, reset) \union GoneFrom(request, deletions, reset) # {}

Acked(t) == [type |-> "added", target |-> t]
ResetOf(t) == [type |-> "reset", target |-> t]
CurrentOf(t) == [type |-> "current", target |-> t]
FilterOf(request) ==
    [type |-> "filter", target |-> request.target, count |-> Cardinality(Matched(request))]
ChangeOf(request, deletions, reset) ==
    [type |-> "change", target |-> request.target, here |-> NewIn(request, reset),
     gone |-> GoneFrom(request, deletions, reset)]

Perhaps(said, m) == IF said THEN <<m>> ELSE <<>>

AnswerHead(request, deletions, reset) ==
    (<<Acked(request.target)>> \o Perhaps(reset, ResetOf(request.target)))
       \o Perhaps(Differs(request, deletions, reset), ChangeOf(request, deletions, reset))
AnswerEnd(request, filter, early) ==
    IF early THEN Perhaps(filter, FilterOf(request)) \o <<CurrentOf(request.target)>>
    ELSE <<CurrentOf(request.target)>> \o Perhaps(filter, FilterOf(request))
ServedThen(request) ==
    Put(told, request.target, [scope |-> request.scope, docs |-> Matched(request)])

LEMMA AnswerMessages ==
    ASSUME NEW request \in ClientMessage, request.type = "watch",
           NEW deletions \in BOOLEAN, NEW reset \in BOOLEAN
    PROVE  /\ request.target \in Target /\ request.scope \in SUBSET Doc
           /\ request.token \in Token
           /\ Acked(request.target) \in ServerMessage
           /\ ResetOf(request.target) \in ServerMessage
           /\ CurrentOf(request.target) \in ServerMessage
           /\ FilterOf(request) \in ServerMessage
           /\ ChangeOf(request, deletions, reset) \in ServerMessage
           /\ Matched(request) \in SUBSET Doc /\ IsFiniteSet(Matched(request))
           /\ Resumed(request, reset) \in SUBSET Doc
<1>1. /\ request.target \in Target /\ request.scope \in SUBSET Doc
      /\ request.token \in Token
  BY DEF ClientMessage
<1>2. /\ Matched(request) \in SUBSET Doc /\ Resumed(request, reset) \in SUBSET Doc
      /\ NewIn(request, reset) \in SUBSET Doc
      /\ GoneFrom(request, deletions, reset) \in SUBSET Doc
  BY <1>1 DEF Matched, Resumed, NewIn, GoneFrom
<1>3. IsFiniteSet(Matched(request))
  <2>1. IsFiniteSet(Doc)
    BY WatchSyncAssumption, FS_Interval DEF Doc
  <2> QED
    BY <1>2, <2>1, FS_Subset
<1>4. Cardinality(Matched(request)) \in Nat
  BY <1>3, FS_CardinalityType
<1>5. FilterOf(request) \in ServerMessage
  BY <1>1, <1>4 DEF FilterOf, ServerMessage
<1>6. ChangeOf(request, deletions, reset) \in ServerMessage
  BY <1>1, <1>2 DEF ChangeOf, ServerMessage
<1>7. /\ Acked(request.target) \in ServerMessage
      /\ ResetOf(request.target) \in ServerMessage
      /\ CurrentOf(request.target) \in ServerMessage
  BY <1>1 DEF Acked, ResetOf, CurrentOf, ServerMessage
<1> QED
  BY <1>1, <1>2, <1>3, <1>5, <1>6, <1>7

LEMMA PerhapsFacts ==
    ASSUME NEW m \in ServerMessage, NEW said
    PROVE  /\ Perhaps(said, m) \in Seq(ServerMessage)
           /\ Len(Perhaps(said, m)) = (IF said THEN 1 ELSE 0)
           /\ DOMAIN Perhaps(said, m) = (IF said THEN {1} ELSE {})
           /\ said => Perhaps(said, m)[1] = m
           /\ <<m>> \in Seq(ServerMessage) /\ Len(<<m>>) = 1 /\ <<m>>[1] = m
           /\ DOMAIN <<m>> = {1}
<1>1. <<m>> \in Seq(ServerMessage) /\ Len(<<m>>) = 1 /\ <<m>>[1] = m /\ DOMAIN <<m>> = {1}
  BY OneMessage
<1>2. <<>> \in Seq(ServerMessage) /\ Len(<<>>) = 0 /\ DOMAIN <<>> = {}
  BY NothingIsMute, EmptySeq
<1> QED
  BY <1>1, <1>2 DEF Perhaps

LEMMA LatelyOne ==
    ASSUME NEW list, NEW was, NEW On, NEW Off
    PROVE  Lately(list, was, On, Off, 1) <=> list[1] \in On \/ (was /\ list[1] \notin Off)
<1>1. 1 .. 1 = {1} /\ 1 + 1 .. 1 = {}
  OBVIOUS
<1> QED
  BY <1>1 DEF Lately

LEMMA HeadShape ==
    ASSUME NEW request \in ClientMessage, request.type = "watch",
           NEW deletions \in BOOLEAN, NEW reset \in BOOLEAN
    PROVE  LET X == AnswerHead(request, deletions, reset)
               a == Acked(request.target)
               r == ResetOf(request.target)
               h == ChangeOf(request, deletions, reset)
               differs == Differs(request, deletions, reset)
           IN  /\ X \in Seq(ServerMessage) /\ Len(X) \in Nat /\ 1 \in DOMAIN X /\ X[1] = a
               /\ DOMAIN X = 1 .. Len(X)
               /\ \A i \in DOMAIN X : i # 1 => (reset /\ X[i] = r) \/ (differs /\ X[i] = h)
               /\ differs => \E i \in DOMAIN X : X[i] = h
               /\ \A was, On, Off :
                    Lately(X, was, On, Off, Len(X))
                      <=> \/ differs /\ h \in On
                          \/ /\ differs => h \notin Off
                             /\ \/ reset /\ r \in On
                                \/ /\ reset => r \notin Off
                                   /\ a \in On \/ (was /\ a \notin Off)
<1> DEFINE a == Acked(request.target)
           r == ResetOf(request.target)
           h == ChangeOf(request, deletions, reset)
           differs == Differs(request, deletions, reset)
           R == Perhaps(reset, r)
           H == Perhaps(differs, h)
           Y == <<a>> \o R
           X == Y \o H
<1>1. a \in ServerMessage /\ r \in ServerMessage /\ h \in ServerMessage
  BY AnswerMessages
<1>0. X = AnswerHead(request, deletions, reset)
  BY DEF AnswerHead
<1> HIDE DEF a, r, h, differs
<1>2. /\ R \in Seq(ServerMessage) /\ Len(R) = (IF reset THEN 1 ELSE 0)
      /\ DOMAIN R = (IF reset THEN {1} ELSE {})
      /\ reset => R[1] = r
      /\ H \in Seq(ServerMessage) /\ Len(H) = (IF differs THEN 1 ELSE 0)
      /\ DOMAIN H = (IF differs THEN {1} ELSE {})
      /\ differs => H[1] = h
      /\ <<a>> \in Seq(ServerMessage) /\ Len(<<a>>) = 1 /\ <<a>>[1] = a
  BY <1>1, PerhapsFacts
<1> HIDE DEF R, H
<1>3. /\ Y \in Seq(ServerMessage) /\ Len(Y) = 1 + Len(R) /\ Y[1] = a
      /\ \A i \in 1 .. 1 + Len(R) : i # 1 => i - 1 \in 1 .. Len(R) /\ Y[i] = R[i - 1]
  <2>1. /\ Y \in Seq(ServerMessage) /\ Len(Y) = Len(<<a>>) + Len(R)
        /\ \A i \in 1 .. Len(<<a>>) : Y[i] = <<a>>[i]
        /\ \A i \in 1 .. Len(<<a>>) + Len(R) : i \notin 1 .. Len(<<a>>)
                => i - Len(<<a>>) \in 1 .. Len(R) /\ Y[i] = R[i - Len(<<a>>)]
    <3> DEFINE q == <<a>>
    <3>1. q \in Seq(ServerMessage) /\ R \in Seq(ServerMessage)
      BY <1>2
    <3> HIDE DEF q
    <3>2. /\ q \o R \in Seq(ServerMessage) /\ Len(q \o R) = Len(q) + Len(R)
          /\ \A i \in 1 .. Len(q) : (q \o R)[i] = q[i]
          /\ \A i \in 1 .. Len(q) + Len(R) : i \notin 1 .. Len(q)
                  => i - Len(q) \in 1 .. Len(R) /\ (q \o R)[i] = R[i - Len(q)]
      BY <3>1, JoinParts
    <3> QED
      BY <3>2 DEF q
  <2> HIDE DEF Y
  <2> QED
    BY <1>2, <2>1
<1> DEFINE s == <<a>>
<1>4. \A was, On, Off : Lately(s, was, On, Off, 1) <=> a \in On \/ (was /\ a \notin Off)
  <2> TAKE was, On, Off
  <2>1. s[1] = a
    BY <1>2
  <2> QED
    BY <2>1, LatelyOne
<1>5. \A was, On, Off : Lately(Y, was, On, Off, Len(Y))
         <=> \/ reset /\ r \in On
             \/ (reset => r \notin Off) /\ (a \in On \/ (was /\ a \notin Off))
  <2> TAKE was, On, Off
  <2>1. Lately(Y, was, On, Off, 1 + Len(R)) <=> Lately(R, Lately(s, was, On, Off, 1), On, Off, Len(R))
    <3>1. Len(R) \in 0 .. Len(R)
      BY <1>2
    <3>2. Lately(s \o R, was, On, Off, Len(s) + Len(R))
            <=> Lately(R, Lately(s, was, On, Off, Len(s)), On, Off, Len(R))
      BY <1>2, <3>1, LatelyJoined
    <3> QED
      BY <1>2, <3>2
  <2> DEFINE was2 == Lately(s, was, On, Off, 1)
  <2>2. Lately(R, was2, On, Off, Len(R)) <=> \/ reset /\ r \in On
                                             \/ (reset => r \notin Off) /\ was2
    <3> HIDE DEF was2
    <3>1. CASE reset
      <4>1. Len(R) = 1 /\ R[1] = r
        BY <1>2, <3>1
      <4>2. Lately(R, was2, On, Off, 1) <=> R[1] \in On \/ (was2 /\ R[1] \notin Off)
        BY LatelyOne
      <4> QED
        BY <3>1, <4>1, <4>2
    <3>2. CASE ~reset
      <4>1. Len(R) = 0
        BY <1>2, <3>2
      <4>2. Lately(R, was2, On, Off, 0) <=> was2
        BY LatelyStart
      <4> QED
        BY <3>2, <4>1, <4>2
    <3> QED
      BY <3>1, <3>2
  <2> HIDE DEF Y, s
  <2> QED
    BY <1>3, <1>4, <2>1, <2>2
<1> HIDE DEF Y, s
<1>6. \A was, On, Off : Lately(X, was, On, Off, Len(X))
         <=> \/ differs /\ h \in On
             \/ (differs => h \notin Off) /\ Lately(Y, was, On, Off, Len(Y))
  <2> TAKE was, On, Off
  <2> DEFINE was2 == Lately(Y, was, On, Off, Len(Y))
  <2>0. Len(X) = Len(Y) + Len(H)
    BY <1>2, <1>3, JoinParts
  <2>1. Lately(X, was, On, Off, Len(X)) <=> Lately(H, was2, On, Off, Len(H))
    <3>1. Len(H) \in 0 .. Len(H)
      BY <1>2
    <3>2. Lately(Y \o H, was, On, Off, Len(Y) + Len(H)) <=> Lately(H, was2, On, Off, Len(H))
      BY <1>2, <1>3, <3>1, LatelyJoined
    <3> QED
      BY <2>0, <3>2
  <2>2. Lately(H, was2, On, Off, Len(H)) <=> \/ differs /\ h \in On
                                             \/ (differs => h \notin Off) /\ was2
    <3> HIDE DEF was2
    <3>1. CASE differs
      <4>1. Len(H) = 1 /\ H[1] = h
        BY <1>2, <3>1
      <4>2. Lately(H, was2, On, Off, 1) <=> H[1] \in On \/ (was2 /\ H[1] \notin Off)
        BY LatelyOne
      <4> QED
        BY <3>1, <4>1, <4>2
    <3>2. CASE ~differs
      <4>1. Len(H) = 0
        BY <1>2, <3>2
      <4>2. Lately(H, was2, On, Off, 0) <=> was2
        BY LatelyStart
      <4> QED
        BY <3>2, <4>1, <4>2
    <3> QED
      BY <3>1, <3>2
  <2> QED
    BY <2>1, <2>2
<1>7. /\ X \in Seq(ServerMessage) /\ Len(X) = Len(Y) + Len(H) /\ Len(X) \in Nat
      /\ DOMAIN X = 1 .. Len(X) /\ X[1] = Y[1] /\ 1 \in DOMAIN X
      /\ \A i \in DOMAIN X : i # 1 => (reset /\ X[i] = r) \/ (differs /\ X[i] = h)
      /\ differs => \E i \in DOMAIN X : X[i] = h
  <2>1. /\ X \in Seq(ServerMessage) /\ Len(X) = Len(Y) + Len(H)
        /\ DOMAIN X = 1 .. Len(Y) + Len(H)
        /\ \A i \in 1 .. Len(Y) : X[i] = Y[i]
        /\ \A i \in 1 .. Len(H) : X[Len(Y) + i] = H[i]
        /\ \A i \in 1 .. Len(Y) + Len(H) : i \notin 1 .. Len(Y)
             => i - Len(Y) \in 1 .. Len(H) /\ X[i] = H[i - Len(Y)]
        /\ DOMAIN H = 1 .. Len(H)
    <3>1. Y \in Seq(ServerMessage) /\ H \in Seq(ServerMessage)
      BY <1>2, <1>3
    <3> HIDE DEF Y, H
    <3> QED
      BY <3>1, JoinParts
  <2> HIDE DEF X
  <2>2. Len(Y) \in Nat /\ Len(Y) >= 1 /\ Len(H) \in Nat /\ Len(R) \in Nat
    BY <1>2, <1>3
  <2>3. 1 \in 1 .. Len(Y) /\ 1 \in 1 .. Len(Y) + Len(H)
    BY <2>2
  <2>4. ASSUME NEW i \in 1 .. Len(Y) + Len(H), i # 1
        PROVE  (reset /\ X[i] = r) \/ (differs /\ X[i] = h)
    <3>1. CASE i \in 1 .. Len(Y)
      <4>1. i - 1 \in 1 .. Len(R) /\ Y[i] = R[i - 1]
        BY <1>3, <2>4, <3>1
      <4>2. reset /\ i - 1 = 1
        BY <1>2, <4>1
      <4> QED
        BY <1>2, <2>1, <3>1, <4>1, <4>2
    <3>2. CASE i \notin 1 .. Len(Y)
      <4>1. i - Len(Y) \in 1 .. Len(H) /\ X[i] = H[i - Len(Y)]
        BY <2>1, <3>2
      <4>2. differs /\ i - Len(Y) = 1
        BY <1>2, <4>1
      <4> QED
        BY <1>2, <4>1, <4>2
    <3> QED
      BY <3>1, <3>2
  <2>5. ASSUME differs PROVE \E i \in 1 .. Len(Y) + Len(H) : X[i] = h
    <3>1. 1 \in 1 .. Len(H) /\ X[Len(Y) + 1] = H[1]
      BY <1>2, <2>1, <2>5
    <3>2. Len(Y) + 1 \in 1 .. Len(Y) + Len(H)
      BY <1>2, <2>2, <2>5
    <3> QED
      BY <1>2, <2>5, <3>1, <3>2
  <2> QED
    BY <2>1, <2>2, <2>3, <2>4, <2>5
<1> HIDE DEF X
<1>8. /\ X \in Seq(ServerMessage) /\ Len(X) \in Nat /\ 1 \in DOMAIN X /\ X[1] = a
      /\ DOMAIN X = 1 .. Len(X)
      /\ \A i \in DOMAIN X : i # 1 => (reset /\ X[i] = r) \/ (differs /\ X[i] = h)
      /\ differs => \E i \in DOMAIN X : X[i] = h
  BY <1>3, <1>7
<1>9. \A was, On, Off :
         Lately(X, was, On, Off, Len(X))
           <=> \/ differs /\ h \in On
               \/ /\ differs => h \notin Off
                  /\ \/ reset /\ r \in On
                     \/ /\ reset => r \notin Off
                        /\ a \in On \/ (was /\ a \notin Off)
  BY <1>5, <1>6
<1> QED
  BY <1>0, <1>8, <1>9 DEF a, r, h, differs

LEMMA EndShape ==
    ASSUME NEW request \in ClientMessage, request.type = "watch",
           NEW filter \in BOOLEAN, NEW early \in BOOLEAN
    PROVE  LET X == AnswerEnd(request, filter, early)
               c == CurrentOf(request.target)
               f == FilterOf(request)
           IN  /\ X \in Seq(ServerMessage) /\ Len(X) \in Nat /\ DOMAIN X = 1 .. Len(X)
               /\ \A i \in DOMAIN X : X[i] = c \/ (filter /\ X[i] = f)
               /\ \E i \in DOMAIN X : X[i] = c
               /\ filter => \E i \in DOMAIN X : X[i] = f
<1> DEFINE c == CurrentOf(request.target)
           f == FilterOf(request)
           F == Perhaps(filter, f)
           C == <<c>>
           X == AnswerEnd(request, filter, early)
<1>1. c \in ServerMessage /\ f \in ServerMessage
  BY AnswerMessages
<1>2. X = IF early THEN F \o C ELSE C \o F
  BY DEF AnswerEnd
<1> HIDE DEF c, f, X
<1>3. /\ F \in Seq(ServerMessage) /\ Len(F) = (IF filter THEN 1 ELSE 0)
      /\ DOMAIN F = (IF filter THEN {1} ELSE {})
      /\ filter => F[1] = f
      /\ C \in Seq(ServerMessage) /\ Len(C) = 1 /\ C[1] = c /\ DOMAIN C = {1}
  BY <1>1, PerhapsFacts
<1> HIDE DEF F, C
<1>4. ASSUME NEW P \in Seq(ServerMessage), NEW R \in Seq(ServerMessage),
             (P = C /\ R = F) \/ (P = F /\ R = C)
      PROVE  /\ P \o R \in Seq(ServerMessage) /\ Len(P \o R) \in Nat
             /\ DOMAIN (P \o R) = 1 .. Len(P \o R)
             /\ \A i \in DOMAIN (P \o R) : (P \o R)[i] = c \/ (filter /\ (P \o R)[i] = f)
             /\ \E i \in DOMAIN (P \o R) : (P \o R)[i] = c
             /\ filter => \E i \in DOMAIN (P \o R) : (P \o R)[i] = f
  <2> DEFINE new == P \o R
  <2>1. /\ new \in Seq(ServerMessage) /\ Len(P) \in Nat /\ Len(R) \in Nat
        /\ Len(new) = Len(P) + Len(R)
        /\ DOMAIN P = 1 .. Len(P) /\ DOMAIN R = 1 .. Len(R)
        /\ DOMAIN new = 1 .. Len(P) + Len(R)
        /\ \A i \in 1 .. Len(P) : new[i] = P[i]
        /\ \A i \in 1 .. Len(R) : new[Len(P) + i] = R[i]
        /\ \A i \in 1 .. Len(P) + Len(R) : i \notin 1 .. Len(P)
             => i - Len(P) \in 1 .. Len(R) /\ new[i] = R[i - Len(P)]
    BY JoinParts
  <2> HIDE DEF new
  <2>2. \A i \in DOMAIN P : P[i] = c \/ (filter /\ P[i] = f)
    BY <1>3, <1>4
  <2>3. \A i \in DOMAIN R : R[i] = c \/ (filter /\ R[i] = f)
    BY <1>3, <1>4
  <2>4. \A i \in DOMAIN P : i \in DOMAIN new /\ new[i] = P[i]
    BY <2>1
  <2>5. \A i \in DOMAIN R : Len(P) + i \in DOMAIN new /\ new[Len(P) + i] = R[i]
    BY <2>1
  <2>6. \A i \in DOMAIN new : new[i] = c \/ (filter /\ new[i] = f)
    BY <2>1, <2>2, <2>3
  <2>7. (\E i \in DOMAIN C : C[i] = c) /\ (filter => \E i \in DOMAIN F : F[i] = f)
    BY <1>3
  <2>8. (\E i \in DOMAIN new : new[i] = c) /\ (filter => \E i \in DOMAIN new : new[i] = f)
    BY <1>4, <2>4, <2>5, <2>7
  <2> QED
    BY <2>1, <2>6, <2>8 DEF new
<1>5. /\ X \in Seq(ServerMessage) /\ Len(X) \in Nat /\ DOMAIN X = 1 .. Len(X)
      /\ \A i \in DOMAIN X : X[i] = c \/ (filter /\ X[i] = f)
      /\ \E i \in DOMAIN X : X[i] = c
      /\ filter => \E i \in DOMAIN X : X[i] = f
  <2>1. F \in Seq(ServerMessage) /\ C \in Seq(ServerMessage)
    BY <1>3
  <2>2. CASE early
    <3>1. X = F \o C
      BY <1>2, <2>2
    <3> QED
      BY <1>4, <2>1, <3>1
  <2>3. CASE ~early
    <3>1. X = C \o F
      BY <1>2, <2>3
    <3> QED
      BY <1>4, <2>1, <3>1
  <2> QED
    BY <2>2, <2>3
<1> QED
  BY <1>5 DEF c, f, X

LEMMA JoinedTwice ==
    ASSUME NEW a \in Seq(ServerMessage), NEW b \in Seq(ServerMessage),
           NEW c \in Seq(ServerMessage)
    PROVE  (a \o b) \o c = a \o (b \o c)
BY ConcatAssociative

(* The answer, before the news. *)
Answer(request, deletions, filter, early, reset) ==
    AnswerHead(request, deletions, reset) \o AnswerEnd(request, filter, early)

LEMMA ServedThenFacts ==
    ASSUME NEW request \in ClientMessage, request.type = "watch",
           told \in Partial(Target, Served)
    PROVE  /\ ServedThen(request) \in Partial(Target, Served)
           /\ DOMAIN ServedThen(request) = DOMAIN told \union {request.target}
           /\ ServedThen(request)[request.target]
                = [scope |-> request.scope, docs |-> Matched(request)]
           /\ \A t \in DOMAIN told : t # request.target => ServedThen(request)[t] = told[t]
           /\ request.target \notin Behind(ServedThen(request))
<1>1. [scope |-> request.scope, docs |-> Matched(request)] \in Served
  BY AnswerMessages DEF Served
<1>2. request.target \in Target
  BY AnswerMessages
<1>3. /\ ServedThen(request) \in Partial(Target, Served)
      /\ DOMAIN ServedThen(request) = DOMAIN told \union {request.target}
      /\ ServedThen(request)[request.target]
                = [scope |-> request.scope, docs |-> Matched(request)]
      /\ \A t \in DOMAIN told : t # request.target => ServedThen(request)[t] = told[t]
  BY <1>1, <1>2, PutFacts DEF ServedThen
<1>4. request.target \notin Behind(ServedThen(request))
  BY <1>3 DEF Behind, Matched
<1> QED
  BY <1>3, <1>4

LEMMA AnswerForm ==
    ASSUME toClient \in Seq(ServerMessage), told \in Partial(Target, Served),
           NEW request \in ClientMessage, request.type = "watch",
           NEW deletions \in BOOLEAN, NEW filter \in BOOLEAN, NEW early \in BOOLEAN,
           NEW reset \in BOOLEAN,
           ServerWatches(request, deletions, filter, early, reset)
    PROVE  /\ toClient' = toClient \o (Answer(request, deletions, filter, early, reset)
                                         \o News(ServedThen(request)))
           /\ told' = UpToDate(ServedThen(request))
           /\ reset => request.token # NoToken /\ ~filter
           /\ Resumed(request, reset) \subseteq Matched(request) \/ deletions \/ filter
<1> DEFINE a == <<Acked(request.target)>>
           r == Perhaps(reset, ResetOf(request.target))
           h == Perhaps(Differs(request, deletions, reset), ChangeOf(request, deletions, reset))
           e == AnswerEnd(request, filter, early)
           n == News(ServedThen(request))
<1>1. /\ toClient' = ((((toClient \o a) \o r) \o h) \o e) \o n
      /\ told' = UpToDate(ServedThen(request))
      /\ reset => request.token # NoToken /\ ~filter
      /\ Resumed(request, reset) \subseteq Matched(request) \/ deletions \/ filter
  BY DEF ServerWatches, Perhaps, Differs, ChangeOf, AnswerEnd, ServedThen, Resumed, Matched,
         NewIn, GoneFrom, Acked, ResetOf, CurrentOf, FilterOf
<1>2. /\ a \in Seq(ServerMessage) /\ r \in Seq(ServerMessage) /\ h \in Seq(ServerMessage)
      /\ e \in Seq(ServerMessage) /\ n \in Seq(ServerMessage)
  <2>1. a \in Seq(ServerMessage) /\ r \in Seq(ServerMessage) /\ h \in Seq(ServerMessage)
    BY AnswerMessages, PerhapsFacts
  <2>2. e \in Seq(ServerMessage)
    BY EndShape
  <2>3. n \in Seq(ServerMessage)
    BY ServedThenFacts, NewsShape
  <2> QED
    BY <2>1, <2>2, <2>3
<1>3. Answer(request, deletions, filter, early, reset) = ((a \o r) \o h) \o e
  BY DEF Answer, AnswerHead
<1> HIDE DEF a, r, h, e, n
<1> DEFINE ar == a \o r
           arh == ar \o h
           arhe == arh \o e
<1>4. (toClient \o a) \o r = toClient \o ar /\ ar \in Seq(ServerMessage)
  <2>1. a \in Seq(ServerMessage) /\ r \in Seq(ServerMessage)
    BY <1>2
  <2>2. ar \in Seq(ServerMessage)
    BY <2>1, ConcatProperties
  <2>3. (toClient \o a) \o r = toClient \o (a \o r)
    BY <2>1, JoinedTwice
  <2> QED
    BY <2>2, <2>3
<1> HIDE DEF ar
<1>5. (toClient \o ar) \o h = toClient \o arh /\ arh \in Seq(ServerMessage)
  <2>1. ar \in Seq(ServerMessage) /\ h \in Seq(ServerMessage)
    BY <1>2, <1>4
  <2>2. arh \in Seq(ServerMessage)
    BY <2>1, ConcatProperties
  <2>3. (toClient \o ar) \o h = toClient \o (ar \o h)
    BY <2>1, JoinedTwice
  <2> QED
    BY <2>2, <2>3
<1> HIDE DEF arh
<1>6. (toClient \o arh) \o e = toClient \o arhe /\ arhe \in Seq(ServerMessage)
  <2>1. arh \in Seq(ServerMessage) /\ e \in Seq(ServerMessage)
    BY <1>2, <1>5
  <2>2. arhe \in Seq(ServerMessage)
    BY <2>1, ConcatProperties
  <2>3. (toClient \o arh) \o e = toClient \o (arh \o e)
    BY <2>1, JoinedTwice
  <2> QED
    BY <2>2, <2>3
<1> HIDE DEF arhe
<1>7. (toClient \o arhe) \o n = toClient \o (arhe \o n)
  <2>1. arhe \in Seq(ServerMessage) /\ n \in Seq(ServerMessage)
    BY <1>2, <1>6
  <2> QED
    BY <2>1, JoinedTwice
<1>8. Answer(request, deletions, filter, early, reset) = arhe
  BY <1>3 DEF ar, arh, arhe
<1>9. toClient' = toClient \o (arhe \o n)
  BY <1>1, <1>4, <1>5, <1>6, <1>7
<1> QED
  BY <1>1, <1>8, <1>9 DEF n

-----------------------------------------------------------------------------
(* The messages of an answer: the acknowledgement is the first and the only *)
(* one, all are of the target that is watched, and it is made current.      *)
LEMMA AnswerTypes ==
    ASSUME NEW request \in ClientMessage, request.type = "watch",
           NEW deletions \in BOOLEAN, NEW reset \in BOOLEAN
    PROVE  LET u == request.target
               h == ChangeOf(request, deletions, reset)
           IN  /\ Acked(u).type = "added" /\ Acked(u).target = u
               /\ ResetOf(u).type = "reset" /\ ResetOf(u).target = u
               /\ CurrentOf(u).type = "current" /\ CurrentOf(u).target = u
               /\ FilterOf(request).type = "filter" /\ FilterOf(request).target = u
               /\ FilterOf(request).count = Cardinality(Matched(request))
               /\ h.type = "change" /\ h.target = u /\ h.here = NewIn(request, reset)
               /\ h.gone = GoneFrom(request, deletions, reset)
BY DEF Acked, ResetOf, CurrentOf, FilterOf, ChangeOf

About(t) == {m \in ServerMessage : m.type # "snapshot" /\ m.target = t}

IsSaidIf(A, m, said) == said => \E i \in DOMAIN A : i # 1 /\ A[i] = m

LEMMA AnswerShape ==
    ASSUME NEW request \in ClientMessage, request.type = "watch",
           NEW deletions \in BOOLEAN, NEW filter \in BOOLEAN, NEW early \in BOOLEAN,
           NEW reset \in BOOLEAN
    PROVE  LET X == Answer(request, deletions, filter, early, reset)
               u == request.target
           IN  /\ X \in Seq(ServerMessage) /\ Len(X) \in Nat /\ DOMAIN X = 1 .. Len(X)
               /\ 1 \in DOMAIN X /\ X[1] = Acked(u)
               /\ \A i \in DOMAIN X : X[i] \in About(u)
               /\ \A i \in DOMAIN X : i # 1 => ~IsAck(X[i])
               /\ IsSaidIf(X, CurrentOf(u), TRUE)
               /\ IsSaidIf(X, ChangeOf(request, deletions, reset),
                           Differs(request, deletions, reset))
               /\ IsSaidIf(X, FilterOf(request), filter)
<1> DEFINE a == Acked(request.target)
           r == ResetOf(request.target)
           c == CurrentOf(request.target)
           f == FilterOf(request)
           h == ChangeOf(request, deletions, reset)
           differs == Differs(request, deletions, reset)
           P == AnswerHead(request, deletions, reset)
           E == AnswerEnd(request, filter, early)
           X == Answer(request, deletions, filter, early, reset)
<1>1. /\ P \in Seq(ServerMessage) /\ Len(P) \in Nat /\ 1 \in DOMAIN P /\ P[1] = a
      /\ DOMAIN P = 1 .. Len(P)
      /\ \A i \in DOMAIN P : i # 1 => (reset /\ P[i] = r) \/ (differs /\ P[i] = h)
      /\ differs => \E i \in DOMAIN P : P[i] = h
  <2>1. /\ P \in Seq(ServerMessage) /\ Len(P) \in Nat /\ 1 \in DOMAIN P /\ P[1] = a
        /\ DOMAIN P = 1 .. Len(P)
        /\ \A i \in DOMAIN P : i # 1 => (reset /\ P[i] = r) \/ (differs /\ P[i] = h)
    BY HeadShape
  <2>2. differs => \E i \in DOMAIN P : P[i] = h
    BY HeadShape
  <2> QED
    BY <2>1, <2>2
<1>2. /\ E \in Seq(ServerMessage) /\ Len(E) \in Nat /\ DOMAIN E = 1 .. Len(E)
      /\ \A i \in DOMAIN E : E[i] = c \/ (filter /\ E[i] = f)
      /\ \E i \in DOMAIN E : E[i] = c
      /\ filter => \E i \in DOMAIN E : E[i] = f
  <2>1. /\ E \in Seq(ServerMessage) /\ Len(E) \in Nat /\ DOMAIN E = 1 .. Len(E)
        /\ \A i \in DOMAIN E : E[i] = c \/ (filter /\ E[i] = f)
    BY EndShape
  <2>2. \E i \in DOMAIN E : E[i] = c
    BY EndShape
  <2>3. filter => \E i \in DOMAIN E : E[i] = f
    BY EndShape
  <2> QED
    BY <2>1, <2>2, <2>3
<1> DEFINE u == request.target
<1>3. /\ a.type = "added" /\ a.target = u /\ r.type = "reset" /\ r.target = u
      /\ c.type = "current" /\ c.target = u /\ f.type = "filter" /\ f.target = u
      /\ h.type = "change" /\ h.target = u
  BY AnswerTypes
<1>4. X = P \o E
  BY DEF Answer
<1> HIDE DEF a, r, c, f, h, differs, P, E, X, u
<1>5. /\ X \in Seq(ServerMessage) /\ Len(X) = Len(P) + Len(E)
      /\ DOMAIN X = 1 .. Len(P) + Len(E)
      /\ \A i \in 1 .. Len(P) : X[i] = P[i]
      /\ \A i \in 1 .. Len(E) : X[Len(P) + i] = E[i]
      /\ \A i \in 1 .. Len(P) + Len(E) : i \notin 1 .. Len(P)
           => i - Len(P) \in 1 .. Len(E) /\ X[i] = E[i - Len(P)]
  BY <1>1, <1>2, <1>4, JoinParts
<1>6. 1 \in DOMAIN X /\ X[1] = a /\ Len(P) >= 1
  BY <1>1, <1>2, <1>5
<1>7. ASSUME NEW i \in DOMAIN X
      PROVE  /\ X[i].type # "snapshot" /\ X[i].target = u
             /\ i # 1 => ~IsAck(X[i])
  <2>1. (i = 1 /\ X[i] = a) \/ (i # 1 /\ X[i] \in {r, h, c, f})
    BY <1>1, <1>2, <1>5, <1>6
  <2> QED
    BY <1>3, <2>1 DEF IsAck
<1>8. ASSUME NEW i \in DOMAIN E
      PROVE  Len(P) + i \in DOMAIN X /\ Len(P) + i # 1 /\ X[Len(P) + i] = E[i]
  BY <1>1, <1>2, <1>5, <1>6
<1>9. \E i \in DOMAIN X : i # 1 /\ X[i] = c
  BY <1>2, <1>8
<1>10. filter => \E i \in DOMAIN X : i # 1 /\ X[i] = f
  BY <1>2, <1>8
<1>11. ASSUME differs PROVE \E i \in DOMAIN X : i # 1 /\ X[i] = h
  <2>1. PICK i \in DOMAIN P : P[i] = h
    BY <1>1, <1>11
  <2>2. i # 1
    BY <1>1, <1>3, <2>1
  <2>3. i \in DOMAIN X /\ X[i] = h
    BY <1>1, <1>2, <1>5, <2>1
  <2> QED
    BY <2>2, <2>3
<1>12. Len(X) \in Nat /\ DOMAIN X = 1 .. Len(X)
  BY <1>1, <1>2, <1>5
<1>13. \A i \in DOMAIN X : X[i] \in About(u)
  BY <1>5, <1>7, <1>12, LenProperties DEF About
<1>14. IsSaidIf(X, f, filter) /\ IsSaidIf(X, h, differs) /\ IsSaidIf(X, c, TRUE)
  BY <1>9, <1>10, <1>11 DEF IsSaidIf
<1> QED
  BY <1>13, <1>5, <1>6, <1>7, <1>9, <1>12, <1>14 DEF a, c, f, h, differs, u, X

(* What the answer says of a thing that neither being current nor the count *)
(* makes so.                                                                *)
HeadSays(request, deletions, reset, was, On, Off) ==
    \/ Differs(request, deletions, reset) /\ ChangeOf(request, deletions, reset) \in On
    \/ /\ Differs(request, deletions, reset) => ChangeOf(request, deletions, reset) \notin Off
       /\ \/ reset /\ ResetOf(request.target) \in On
          \/ /\ reset => ResetOf(request.target) \notin Off
             /\ Acked(request.target) \in On \/ (was /\ Acked(request.target) \notin Off)

LEMMA AnswerSays ==
    ASSUME NEW request \in ClientMessage, request.type = "watch",
           NEW deletions \in BOOLEAN, NEW filter \in BOOLEAN, NEW early \in BOOLEAN,
           NEW reset \in BOOLEAN, NEW was, NEW On, NEW Off,
           CurrentOf(request.target) \notin On \union Off, FilterOf(request) \notin On
    PROVE  LET X == Answer(request, deletions, filter, early, reset)
               said == HeadSays(request, deletions, reset, was, On, Off)
           IN  /\ Lately(X, was, On, Off, Len(X))
                    <=> said /\ ~(filter /\ FilterOf(request) \in Off)
               /\ \A i \in DOMAIN X : FilterOf(request) \notin Off /\ X[i] = FilterOf(request)
                    => (Lately(X, was, On, Off, i) <=> said)
<1> DEFINE c == CurrentOf(request.target)
           f == FilterOf(request)
           P == AnswerHead(request, deletions, reset)
           E == AnswerEnd(request, filter, early)
           X == Answer(request, deletions, filter, early, reset)
           said == HeadSays(request, deletions, reset, was, On, Off)
<1>1. /\ P \in Seq(ServerMessage) /\ Len(P) \in Nat
      /\ Lately(P, was, On, Off, Len(P)) <=> said
      /\ \A i \in DOMAIN P : P[i] # f
  <2>1. /\ P \in Seq(ServerMessage) /\ Len(P) \in Nat
        /\ Lately(P, was, On, Off, Len(P)) <=> said
    BY HeadShape DEF HeadSays
  <2>3. \A i \in DOMAIN P : P[i] \in {Acked(request.target), ResetOf(request.target),
                                     ChangeOf(request, deletions, reset)}
    BY HeadShape
  <2>2. f \notin {Acked(request.target), ResetOf(request.target),
                  ChangeOf(request, deletions, reset)}
    BY AnswerTypes
  <2> QED
    BY <2>1, <2>2, <2>3
<1>2. /\ E \in Seq(ServerMessage) /\ Len(E) \in Nat /\ DOMAIN E = 1 .. Len(E)
      /\ \A i \in DOMAIN E : E[i] = c \/ (filter /\ E[i] = f)
      /\ filter => \E i \in DOMAIN E : E[i] = f
  <2>1. /\ E \in Seq(ServerMessage) /\ Len(E) \in Nat /\ DOMAIN E = 1 .. Len(E)
        /\ \A i \in DOMAIN E : E[i] = c \/ (filter /\ E[i] = f)
    BY EndShape
  <2>2. filter => \E i \in DOMAIN E : E[i] = f
    BY EndShape
  <2> QED
    BY <2>1, <2>2
<1>3. X = P \o E /\ c \notin On \union Off /\ f \notin On
  BY DEF Answer
<1> HIDE DEF c, f, P, E, X, said
<1>4. ASSUME NEW j \in 0 .. Len(E)
      PROVE  Lately(X, was, On, Off, Len(P) + j) <=> Lately(E, said, On, Off, j)
  <2> DEFINE old == Lately(P, was, On, Off, Len(P))
  <2>1. Lately(X, was, On, Off, Len(P) + j) <=> Lately(E, old, On, Off, j)
    BY <1>1, <1>2, <1>3, LatelyJoined
  <2>2. Lately(E, old, On, Off, j) <=> Lately(E, said, On, Off, j)
    <3>1. old <=> said
      BY <1>1
    <3>2. j \in Nat
      BY <1>2
    <3> HIDE DEF old
    <3> QED
      BY <3>1, <3>2, LatelySame
  <2> QED
    BY <2>1, <2>2
<1>5. /\ Len(X) = Len(P) + Len(E) /\ Len(E) \in 0 .. Len(E) /\ DOMAIN P = 1 .. Len(P)
      /\ DOMAIN X = 1 .. Len(P) + Len(E)
      /\ \A i \in 1 .. Len(P) : X[i] = P[i]
      /\ \A i \in 1 .. Len(P) + Len(E) : i \notin 1 .. Len(P)
           => i - Len(P) \in 1 .. Len(E) /\ X[i] = E[i - Len(P)]
  BY <1>1, <1>2, <1>3, JoinParts
<1>6. \A i \in 1 .. Len(E) : E[i] \notin On
  BY <1>2, <1>3
<1>7. Lately(E, said, On, Off, Len(E)) <=> said /\ ~(filter /\ f \in Off)
  <2>1. CASE filter /\ f \in Off
    <3>1. \E i \in 1 .. Len(E) : E[i] \in Off
      BY <1>2, <2>1
    <3>2. ~Lately(E, said, On, Off, Len(E))
      BY <1>2, <1>6, <3>1, LatelySaid
    <3> QED
      BY <2>1, <3>2
  <2>2. CASE ~(filter /\ f \in Off)
    <3>1. \A i \in 1 .. Len(E) : E[i] \notin On \union Off
      BY <1>2, <1>3, <2>2
    <3>2. Lately(E, said, On, Off, Len(E)) <=> said
      BY <1>2, <3>1, LatelySaid
    <3> QED
      BY <2>2, <3>2
  <2> QED
    BY <2>1, <2>2
<1>8. Lately(X, was, On, Off, Len(X)) <=> said /\ ~(filter /\ f \in Off)
  BY <1>4, <1>5, <1>7
<1>9. ASSUME NEW i \in DOMAIN X, f \notin Off, X[i] = f
      PROVE  Lately(X, was, On, Off, i) <=> said
  <2>1. i \notin 1 .. Len(P) /\ i - Len(P) \in 1 .. Len(E)
    BY <1>1, <1>5, <1>9
  <2>2. i - Len(P) \in 0 .. Len(E) /\ Len(P) + (i - Len(P)) = i /\ i - Len(P) \in Nat
        /\ 1 .. i - Len(P) \subseteq 1 .. Len(E)
    BY <1>1, <1>2, <1>5, <2>1
  <2>3. \A k \in 1 .. i - Len(P) : E[k] \notin On \union Off
    BY <1>2, <1>3, <1>9, <2>2
  <2>4. Lately(E, said, On, Off, i - Len(P)) <=> said
    BY <2>2, <2>3, LatelySaid
  <2>5. Lately(X, was, On, Off, Len(P) + (i - Len(P))) <=> Lately(E, said, On, Off, i - Len(P))
    BY <1>4, <2>2
  <2> QED
    BY <2>2, <2>4, <2>5
<1> QED
  BY <1>8, <1>9 DEF f, X, said

-----------------------------------------------------------------------------
(* The order of what the server sends.                                      *)
LEMMA NewsTypes ==
    ASSUME NEW served \in Partial(Target, Served)
    PROVE  LET N == News(served)
           IN  /\ N \in Seq(ServerMessage) /\ Len(N) \in Nat /\ Len(N) \in DOMAIN N
               /\ DOMAIN N = 1 .. Len(N)
               /\ N[Len(N)] = AllTold
               /\ \A i \in DOMAIN N : i # Len(N) =>
                    /\ N[i].type = "change"
                    /\ \E t \in Behind(served) : N[i].target = t /\ N[i] = Tell(served, t)
               /\ \A i \in DOMAIN N : N[i].type \in {"change", "snapshot"} /\ ~IsAck(N[i])
               /\ \A i \in DOMAIN N : N[i].type = "snapshot" => i = Len(N)
<1> DEFINE N == News(served)
<1>1. /\ N \in Seq(ServerMessage) /\ Len(N) \in Nat /\ Len(N) >= 1 /\ DOMAIN N = 1 .. Len(N)
      /\ N[Len(N)] = AllTold
      /\ \A i \in 1 .. Len(N) : i # Len(N) => \E t \in Behind(served) : N[i] = Tell(served, t)
      /\ Behind(served) \subseteq DOMAIN served
  <2>1. /\ N \in Seq(ServerMessage) /\ Len(N) \in Nat /\ Len(N) >= 1 /\ DOMAIN N = 1 .. Len(N)
        /\ N[Len(N)] = AllTold /\ Behind(served) \subseteq DOMAIN served
    BY NewsShape
  <2>2. \A i \in 1 .. Len(N) : i # Len(N) => \E t \in Behind(served) : N[i] = Tell(served, t)
    BY NewsShape
  <2> QED
    BY <2>1, <2>2
<1> HIDE DEF N
<1>2. ASSUME NEW i \in DOMAIN N, i # Len(N)
      PROVE  /\ N[i].type = "change" /\ ~IsAck(N[i])
             /\ \E t \in Behind(served) : N[i].target = t /\ N[i] = Tell(served, t)
  <2>1. PICK t \in Behind(served) : N[i] = Tell(served, t)
    BY <1>1, <1>2
  <2>2. t \in DOMAIN served
    BY <1>1
  <2>3. Tell(served, t).type = "change" /\ ~IsAck(Tell(served, t)) /\ Tell(served, t).target = t
    BY <2>2, TellFacts
  <2> QED
    BY <2>1, <2>3
<1>3. N[Len(N)].type = "snapshot" /\ ~IsAck(N[Len(N)]) /\ Len(N) \in DOMAIN N
  <2>1. \A n \in Nat : n >= 1 => n \in 1 .. n
    OBVIOUS
  <2> QED
    BY <1>1, <2>1, AllToldFacts
<1>4. \A i \in DOMAIN N : N[i].type \in {"change", "snapshot"} /\ ~IsAck(N[i])
  BY <1>2, <1>3
<1>5. \A i \in DOMAIN N : N[i].type = "snapshot" => i = Len(N)
  BY <1>2
<1> QED
  BY <1>1, <1>2, <1>3, <1>4, <1>5 DEF N

LEMMA NewsOrdered ==
    ASSUME NEW served \in Partial(Target, Served)
    PROVE  /\ Ordered(News(served))
           /\ Silent(News(served), Tells("filter", 0))
           /\ 0 \notin Behind(served) => Silent(News(served), Tells("change", 0))
<1> DEFINE N == News(served)
<1>1. /\ N \in Seq(ServerMessage) /\ Len(N) \in Nat /\ Len(N) \in DOMAIN N
      /\ DOMAIN N = 1 .. Len(N) /\ N[Len(N)] = AllTold
  BY NewsTypes
<1>2. /\ \A i \in DOMAIN N : N[i].type \in {"change", "snapshot"}
      /\ \A i \in DOMAIN N : N[i].type = "snapshot" => i = Len(N)
  BY NewsTypes
<1>3. \A i \in DOMAIN N : i # Len(N) => \E t \in Behind(served) : N[i].target = t
  BY NewsTypes
<1> HIDE DEF N
<1>4. N[Len(N)] \in Typed("snapshot") /\ N[Len(N)].type = "snapshot"
  BY <1>1, AllToldFacts DEF Typed
<1>5. Followed(N, Spoken, Typed("snapshot"))
  <2> SUFFICES ASSUME NEW i \in DOMAIN N, N[i] \in Spoken
               PROVE  \E k \in DOMAIN N : k > i /\ N[k] \in Typed("snapshot")
    BY DEF Followed
  <2>1. i # Len(N)
    BY <1>4 DEF Spoken
  <2>2. Len(N) > i
    BY <1>1, <2>1
  <2> QED
    BY <1>1, <1>4, <2>2
<1>6. \A t \in Target : Followed(N, Tells("reset", t), Tells("current", t))
  BY <1>2 DEF Followed, Tells
<1>7. Silent(N, Tells("filter", 0))
  BY <1>2 DEF Silent, Tells
<1>8. Ordered(N)
  BY <1>5, <1>6, <1>7 DEF Ordered, Parted, Silent
<1>9. ASSUME 0 \notin Behind(served) PROVE Silent(N, Tells("change", 0))
  <2> SUFFICES ASSUME NEW i \in DOMAIN N, N[i] \in Tells("change", 0) PROVE FALSE
    BY DEF Silent
  <2>1. i # Len(N) /\ N[i].target = 0
    BY <1>4 DEF Tells
  <2> QED
    BY <1>3, <1>9, <2>1
<1> QED
  BY <1>7, <1>8, <1>9 DEF N

LEMMA AnswerOrdered ==
    ASSUME NEW request \in ClientMessage, request.type = "watch",
           NEW deletions \in BOOLEAN, NEW filter \in BOOLEAN, NEW early \in BOOLEAN,
           NEW reset \in BOOLEAN
    PROVE  LET X == Answer(request, deletions, filter, early, reset)
           IN  /\ \A t \in Target : Followed(X, Tells("reset", t), Tells("current", t))
               /\ Parted(X, Tells("filter", 0), Tells("change", 0), Typed("snapshot"))
<1> DEFINE c == CurrentOf(request.target)
           f == FilterOf(request)
           P == AnswerHead(request, deletions, reset)
           E == AnswerEnd(request, filter, early)
           X == Answer(request, deletions, filter, early, reset)
<1>1. /\ P \in Seq(ServerMessage)
      /\ \A i \in DOMAIN P : P[i] \in {Acked(request.target), ResetOf(request.target),
                                       ChangeOf(request, deletions, reset)}
  <2>1. P \in Seq(ServerMessage)
    BY HeadShape
  <2>2. \A i \in DOMAIN P : P[i] \in {Acked(request.target), ResetOf(request.target),
                                      ChangeOf(request, deletions, reset)}
    BY HeadShape
  <2> QED
    BY <2>1, <2>2
<1>2. /\ E \in Seq(ServerMessage)
      /\ \A i \in DOMAIN E : E[i] \in {c, f}
      /\ \E i \in DOMAIN E : E[i] = c
  <2>1. E \in Seq(ServerMessage) /\ \A i \in DOMAIN E : E[i] \in {c, f}
    BY EndShape
  <2>2. \E i \in DOMAIN E : E[i] = c
    BY EndShape
  <2> QED
    BY <2>1, <2>2
<1>3. /\ \A i \in DOMAIN P : P[i].type \in {"added", "reset", "change"}
                             /\ P[i].target = request.target
      /\ \A i \in DOMAIN E : E[i].type \in {"current", "filter"}
      /\ c.type = "current" /\ c.target = request.target
      /\ c \in ServerMessage /\ request.target \in Target
  <2>1. /\ c.type = "current" /\ c.target = request.target
        /\ f.type = "filter"
        /\ \A m \in {Acked(request.target), ResetOf(request.target),
                     ChangeOf(request, deletions, reset)} :
              m.type \in {"added", "reset", "change"} /\ m.target = request.target
    BY AnswerTypes
  <2>2. c \in ServerMessage /\ request.target \in Target
    BY AnswerMessages
  <2> HIDE DEF c, f, P, E
  <2> QED
    BY <1>1, <1>2, <2>1, <2>2
<1>4. X = P \o E
  BY DEF Answer
<1> HIDE DEF c, f, P, E, X
<1>5. ASSUME NEW t \in Target PROVE Followed(X, Tells("reset", t), Tells("current", t))
  <2>1. Followed(E, Tells("reset", t), Tells("current", t))
    BY <1>3 DEF Followed, Tells
  <2>2. CASE t = request.target
    <3>1. c \in Tells("current", t)
      BY <1>3, <2>2 DEF Tells
    <3>2. \E i \in DOMAIN E : E[i] \in Tells("current", t)
      BY <1>2, <3>1
    <3> QED
      BY <1>1, <1>2, <1>4, <2>1, <3>2, FollowedJoined
  <2>3. CASE t # request.target
    <3>1. Followed(P, Tells("reset", t), Tells("current", t))
      BY <1>3, <2>3 DEF Followed, Tells
    <3> QED
      BY <1>1, <1>2, <1>4, <2>1, <3>1, FollowedJoined
  <2> QED
    BY <2>2, <2>3
<1>6. Parted(X, Tells("filter", 0), Tells("change", 0), Typed("snapshot"))
  <2>1. \A i \in DOMAIN P : P[i] \notin Tells("filter", 0)
    BY <1>3 DEF Tells
  <2>2. \A i \in DOMAIN E : E[i] \notin Tells("change", 0)
    BY <1>3 DEF Tells
  <2>3. Parted(P, Tells("filter", 0), Tells("change", 0), Typed("snapshot"))
    BY <2>1 DEF Parted
  <2>4. Parted(E, Tells("filter", 0), Tells("change", 0), Typed("snapshot"))
    BY <2>2 DEF Parted
  <2> QED
    BY <1>1, <1>2, <1>4, <2>2, <2>3, <2>4, PartedJoined
<1> QED
  BY <1>5, <1>6 DEF X

LEMMA AnswerWithNews ==
    ASSUME told \in Partial(Target, Served),
           NEW request \in ClientMessage, request.type = "watch",
           NEW deletions \in BOOLEAN, NEW filter \in BOOLEAN, NEW early \in BOOLEAN,
           NEW reset \in BOOLEAN
    PROVE  LET M == Answer(request, deletions, filter, early, reset)
                      \o News(ServedThen(request))
           IN  /\ M \in Seq(ServerMessage) /\ Ordered(M)
               /\ \A k \in DOMAIN M : M[k] \in Tells("filter", 0)
                    => \E x \in DOMAIN M : x < k /\ M[x] \in AckOf(0)
<1> DEFINE X == Answer(request, deletions, filter, early, reset)
           N == News(ServedThen(request))
           M == X \o N
           u == request.target
<1>1. /\ X \in Seq(ServerMessage) /\ DOMAIN X = 1 .. Len(X)
      /\ 1 \in DOMAIN X /\ X[1] = Acked(u)
      /\ \A i \in DOMAIN X : X[i].type # "snapshot" /\ X[i].target = u
  <2>1. X \in Seq(ServerMessage) /\ DOMAIN X = 1 .. Len(X)
    BY AnswerShape, ZenonT(60)
  <2>2. 1 \in DOMAIN X /\ X[1] = Acked(u)
    BY AnswerShape, ZenonT(60)
  <2>3. \A i \in DOMAIN X : X[i] \in About(u)
    BY AnswerShape, ZenonT(60)
  <2> HIDE DEF X
  <2> QED
    BY <2>1, <2>2, <2>3 DEF About
<1>2. /\ \A t \in Target : Followed(X, Tells("reset", t), Tells("current", t))
      /\ Parted(X, Tells("filter", 0), Tells("change", 0), Typed("snapshot"))
  BY AnswerOrdered
<1>3. ServedThen(request) \in Partial(Target, Served) /\ u \notin Behind(ServedThen(request))
  BY ServedThenFacts
<1>4. /\ N \in Seq(ServerMessage) /\ Len(N) \in DOMAIN N /\ N[Len(N)] = AllTold
      /\ \A i \in DOMAIN N : N[i].type \in {"change", "snapshot"}
  BY <1>3, NewsTypes
<1>5. /\ Ordered(N) /\ Silent(N, Tells("filter", 0))
      /\ u = 0 => Silent(N, Tells("change", 0))
  BY <1>3, NewsOrdered
<1>6. Acked(u) \in ServerMessage /\ IsAck(Acked(u)) /\ Acked(u).target = u
  <2>1. Acked(u) \in ServerMessage
    BY AnswerMessages
  <2>2. Acked(u).type = "added" /\ Acked(u).target = u
    BY AnswerTypes
  <2> QED
    BY <2>1, <2>2 DEF IsAck
<1> HIDE DEF X, N, u
<1>7. Followed(M, Spoken, Typed("snapshot"))
  <2>1. \E k \in DOMAIN N : N[k] \in Typed("snapshot")
    BY <1>4, AllToldFacts DEF Typed
  <2> QED
    BY <1>1, <1>4, <1>5, <2>1, FollowedJoined DEF Ordered
<1>8. \A t \in Target : Followed(M, Tells("reset", t), Tells("current", t))
  <2> TAKE t \in Target
  <2>1. Followed(N, Tells("reset", t), Tells("current", t))
    BY <1>5 DEF Ordered
  <2> QED
    BY <1>1, <1>2, <1>4, <2>1, FollowedJoined
<1>9. Parted(M, Tells("filter", 0), Tells("change", 0), Typed("snapshot"))
  <2>1. Parted(N, Tells("filter", 0), Tells("change", 0), Typed("snapshot"))
    BY <1>5 DEF Ordered
  <2>2. CASE u = 0
    <3>1. \A k \in DOMAIN N : N[k] \notin Tells("change", 0)
      BY <1>5, <2>2 DEF Silent
    <3> QED
      BY <1>1, <1>2, <1>4, <2>1, <3>1, PartedJoined
  <2>3. CASE u # 0
    <3>1. Followed(X, Tells("filter", 0), Typed("snapshot"))
      BY <1>1, <2>3 DEF Followed, Tells
    <3> QED
      BY <1>1, <1>2, <1>4, <2>1, <3>1, PartedJoined
  <2> QED
    BY <2>2, <2>3
<1>10. Parted(M, Typed("snapshot"), Tells("filter", 0), AckOf(0))
  <2>1. Parted(N, Typed("snapshot"), Tells("filter", 0), AckOf(0))
    BY <1>5 DEF Ordered
  <2>2. Parted(X, Typed("snapshot"), Tells("filter", 0), AckOf(0))
    BY <1>1 DEF Parted, Typed
  <2>3. \A k \in DOMAIN N : N[k] \notin Tells("filter", 0)
    BY <1>5 DEF Silent
  <2> QED
    BY <1>1, <1>4, <2>1, <2>2, <2>3, PartedJoined
<1>11. M \in Seq(ServerMessage)
  BY <1>1, <1>4, ConcatProperties
<1>12. ASSUME NEW k \in DOMAIN M, M[k] \in Tells("filter", 0)
       PROVE  \E x \in DOMAIN M : x < k /\ M[x] \in AckOf(0)
  <2>1. /\ Len(X) \in Nat /\ Len(N) \in Nat /\ DOMAIN M = 1 .. Len(X) + Len(N)
        /\ DOMAIN N = 1 .. Len(N)
        /\ \A i \in 1 .. Len(X) : M[i] = X[i]
        /\ \A i \in 1 .. Len(X) + Len(N) : i \notin 1 .. Len(X)
             => i - Len(X) \in 1 .. Len(N) /\ M[i] = N[i - Len(X)]
    BY <1>1, <1>4, JoinParts
  <2> HIDE DEF M
  <2>2. k \in 1 .. Len(X)
    BY <1>5, <1>12, <2>1 DEF Silent
  <2>3. u = 0 /\ X[k].type = "filter" /\ X[k] = M[k]
    BY <1>1, <1>12, <2>1, <2>2 DEF Tells
  <2>4. 1 < k
    <3>1. k # 1
      BY <1>1, <1>6, <2>3 DEF IsAck
    <3> QED
      BY <2>1, <2>2, <3>1
  <2>5. 1 \in DOMAIN M /\ M[1] \in AckOf(0)
    <3>1. 1 \in 1 .. Len(X) /\ 1 \in 1 .. Len(X) + Len(N)
      BY <1>1, <2>1
    <3> QED
      BY <1>1, <1>6, <2>1, <2>3, <3>1 DEF AckOf
  <2> QED
    BY <2>4, <2>5
<1> QED
  BY <1>7, <1>8, <1>9, <1>10, <1>11, <1>12 DEF Ordered, X, N

-----------------------------------------------------------------------------
(* What the client will believe of a document of target t when it has heard *)
(* the first j messages, R being the keys it knew before: a change says that *)
(* it is there or gone, a reset that nothing is, and an acknowledgement      *)
(* forgets the changes.                                                      *)
JoinsFor(t, d, R) ==
    {m \in ServerMessage :
        \/ m.type = "change" /\ m.target = t /\ d \in m.here \ m.gone
        \/ IsAck(m) /\ m.target = t /\ d \in R}
LeavesFor(t, d, R) ==
    {m \in ServerMessage :
        \/ m.type = "change" /\ m.target = t /\ d \in m.gone
        \/ m.type = "reset" /\ m.target = t
        \/ m.type = "filter" /\ m.target = t /\ t # 0 /\ m.count = 0
        \/ IsAck(m) /\ m.target = t /\ d \notin R}

HoldsIn(changes, R, d) ==
    changes[d] \in {"added", "modified"} \/ (changes[d] = "none" /\ d \in R)

Believes(list, changes, R, t, d, j) ==
    Lately(list, HoldsIn(changes, R, d), JoinsFor(t, d, R), LeavesFor(t, d, R), j)

(* Each snapshot finds the client believing what it is of, and in the end   *)
(* the client believes what the server has told.                            *)
InTune(list, changes, R, t, S, docs) ==
    \A d \in S :
        /\ \A j \in DOMAIN list : list[j].type = "snapshot" /\ Last(list, AckOf(t), j)
             => (Believes(list, changes, R, t, d, j) <=> d \in list[j].token)
        /\ Believes(list, changes, R, t, d, Len(list)) <=> d \in docs

(* Each count of the query's documents will be found right. *)
CountsAgree(list, changes, R) ==
    \A i \in DOMAIN list : list[i] \in Tells("filter", 0) /\ Last(list, AckOf(0), i)
        => list[i].count = Cardinality({d \in Doc : Believes(list, changes, R, 0, d, i)})

LEMMA AcksSpeak ==
    ASSUME NEW t, NEW d, NEW R, NEW m \in AckOf(t)
    PROVE  m \in JoinsFor(t, d, R) \union LeavesFor(t, d, R)
BY DEF AckOf, JoinsFor, LeavesFor

LEMMA OthersAreMute ==
    ASSUME NEW t, NEW d, NEW R, NEW m
    PROVE  /\ m.type = "snapshot" => m \notin JoinsFor(t, d, R) \union LeavesFor(t, d, R)
           /\ m.type = "current" => m \notin JoinsFor(t, d, R) \union LeavesFor(t, d, R)
           /\ m.target # t => m \notin JoinsFor(t, d, R) \union LeavesFor(t, d, R)
           /\ m.type = "filter" => m \notin JoinsFor(t, d, R)
           /\ m.type = "filter" /\ t = 0 => m \notin LeavesFor(t, d, R)
BY DEF JoinsFor, LeavesFor, IsAck

(* The first message is heard. *)
Shifts(m, rest, changes, changes2, R, t, d) ==
    \/ HoldsIn(changes2, R, d)
         <=> m \in JoinsFor(t, d, R) \/ (HoldsIn(changes, R, d) /\ m \notin LeavesFor(t, d, R))
    \/ ~Silent(rest, AckOf(t))

LEMMA BelievesTail ==
    ASSUME NEW list \in Seq(ServerMessage), list # <<>>, NEW changes, NEW changes2, NEW R,
           NEW t, NEW d, NEW j \in 1 .. Len(list), Last(list, AckOf(t), j),
           Shifts(Head(list), Tail(list), changes, changes2, R, t, d)
    PROVE  /\ Believes(list, changes, R, t, d, j)
                <=> Believes(Tail(list), changes2, R, t, d, j - 1)
           /\ Last(Tail(list), AckOf(t), j - 1)
<1> DEFINE new == Tail(list)
           n == Len(list)
           On == JoinsFor(t, d, R)
           Off == LeavesFor(t, d, R)
           m == Head(list)
           now == m \in On \/ (HoldsIn(changes, R, d) /\ m \notin Off)
           then == HoldsIn(changes2, R, d)
<1>1. /\ n \in Nat /\ n >= 1 /\ DOMAIN list = 1 .. n /\ DOMAIN new = 1 .. n - 1
      /\ \A i \in 1 .. n - 1 : new[i] = list[i + 1]
  BY TailParts
<1>2. Lately(list, HoldsIn(changes, R, d), On, Off, j) <=> Lately(new, now, On, Off, j - 1)
  BY LatelyTail
<1>3. j \in 1 .. n /\ j - 1 \in Nat
  BY <1>1
<1>4. Last(new, AckOf(t), j - 1)
  <2>1. ASSUME NEW k \in 1 .. n - 1, k > j - 1 PROVE new[k] \notin AckOf(t)
    <3>1. k + 1 \in 1 .. n /\ k + 1 > j
      BY <1>1, <1>3, <2>1
    <3> QED
      BY <1>1, <3>1 DEF Last
  <2> HIDE DEF new
  <2> QED
    BY <1>1, <2>1 DEF Last
<1>5. Lately(new, now, On, Off, j - 1) <=> Lately(new, then, On, Off, j - 1)
  <2>1. CASE then <=> now
    <3> HIDE DEF then, now, new, On, Off
    <3> QED
      BY <1>3, <2>1, LatelySame
  <2>2. CASE ~Silent(new, AckOf(t))
    <3>1. PICK k \in 1 .. n - 1 : new[k] \in AckOf(t)
      BY <1>1, <2>2 DEF Silent
    <3>2. k \in 1 .. j - 1
      <4>1. ~(k > j - 1)
        BY <1>1, <1>4, <3>1 DEF Last
      <4> QED
        BY <1>1, <1>3, <4>1
    <3>3. new[k] \in On \union Off
      BY <3>1, AcksSpeak
    <3> HIDE DEF then, now, new, On, Off
    <3> QED
      BY <1>3, <3>2, <3>3, LatelyAnyway
  <2> QED
    BY <2>1, <2>2 DEF Shifts
<1> QED
  BY <1>2, <1>4, <1>5 DEF Believes

LEMMA LastAtEnd ==
    ASSUME NEW list \in Seq(ServerMessage), NEW M PROVE Last(list, M, Len(list))
<1>1. Len(list) \in Nat /\ DOMAIN list = 1 .. Len(list)
  BY LenProperties
<1>2. \A n \in Nat : \A k \in 1 .. n : ~(k > n)
  OBVIOUS
<1> QED
  BY <1>1, <1>2 DEF Last

LEMMA TuneTail ==
    ASSUME NEW list \in Seq(ServerMessage), list # <<>>, NEW changes, NEW changes2, NEW R,
           NEW t, NEW S, NEW docs, InTune(list, changes, R, t, S, docs),
           \A d \in S : Shifts(Head(list), Tail(list), changes, changes2, R, t, d)
    PROVE  InTune(Tail(list), changes2, R, t, S, docs)
<1> DEFINE new == Tail(list)
           n == Len(list)
<1>1. /\ n \in Nat /\ n >= 1 /\ DOMAIN list = 1 .. n /\ DOMAIN new = 1 .. n - 1
      /\ Len(new) = n - 1
      /\ \A i \in 1 .. n - 1 : new[i] = list[i + 1]
  BY TailParts
<1> SUFFICES ASSUME NEW d \in S
             PROVE  /\ \A j \in DOMAIN new : new[j].type = "snapshot" /\ Last(new, AckOf(t), j)
                         => (Believes(new, changes2, R, t, d, j) <=> d \in new[j].token)
                    /\ Believes(new, changes2, R, t, d, Len(new)) <=> d \in docs
  BY DEF InTune
<1>2. ASSUME NEW j \in 1 .. n - 1, new[j].type = "snapshot", Last(new, AckOf(t), j)
      PROVE  Believes(new, changes2, R, t, d, j) <=> d \in new[j].token
  <2>1. j + 1 \in 1 .. n /\ (j + 1) - 1 = j /\ new[j] = list[j + 1]
    BY <1>1
  <2>2. Last(list, AckOf(t), j + 1)
    <3>1. ASSUME NEW k \in 1 .. n, k > j + 1 PROVE list[k] \notin AckOf(t)
      <4>1. k - 1 \in 1 .. n - 1 /\ k - 1 > j /\ (k - 1) + 1 = k
        BY <1>1, <3>1
      <4> QED
        BY <1>1, <1>2, <4>1 DEF Last
    <3> QED
      BY <1>1, <3>1 DEF Last
  <2>3. Believes(list, changes, R, t, d, j + 1) <=> Believes(new, changes2, R, t, d, j)
    <3>1. Believes(list, changes, R, t, d, j + 1)
            <=> Believes(new, changes2, R, t, d, (j + 1) - 1)
      BY <2>1, <2>2, BelievesTail
    <3> QED
      BY <2>1, <3>1
  <2>4. Believes(list, changes, R, t, d, j + 1) <=> d \in list[j + 1].token
    BY <1>1, <1>2, <2>1, <2>2 DEF InTune
  <2> QED
    BY <2>1, <2>3, <2>4
<1>3. Believes(new, changes2, R, t, d, Len(new)) <=> d \in docs
  <2>1. n \in 1 .. Len(list) /\ Last(list, AckOf(t), n)
    BY <1>1, LastAtEnd
  <2>2. Believes(list, changes, R, t, d, n) <=> Believes(new, changes2, R, t, d, n - 1)
    BY <2>1, BelievesTail
  <2> QED
    BY <1>1, <2>2 DEF InTune
<1> QED
  BY <1>1, <1>2, <1>3

LEMMA CountsTail ==
    ASSUME NEW list \in Seq(ServerMessage), list # <<>>, NEW changes, NEW changes2, NEW R,
           CountsAgree(Tail(list), changes2, R),
           \A d \in Doc : Shifts(Head(list), Tail(list), changes, changes2, R, 0, d),
           Head(list) \in Tells("filter", 0) /\ Silent(Tail(list), AckOf(0))
             => Head(list).count = Cardinality({d \in Doc : HoldsIn(changes, R, d)})
    PROVE  CountsAgree(list, changes, R)
<1> DEFINE new == Tail(list)
           n == Len(list)
<1>1. /\ n \in Nat /\ n >= 1 /\ DOMAIN list = 1 .. n /\ DOMAIN new = 1 .. n - 1
      /\ \A i \in 1 .. n - 1 : new[i] = list[i + 1] /\ Head(list) = list[1]
      /\ \A i \in 2 .. n : i - 1 \in 1 .. n - 1 /\ new[i - 1] = list[i]
  BY TailParts
<1> SUFFICES ASSUME NEW i \in 1 .. n, list[i] \in Tells("filter", 0), Last(list, AckOf(0), i)
             PROVE  list[i].count = Cardinality({d \in Doc : Believes(list, changes, R, 0, d, i)})
  BY <1>1 DEF CountsAgree
<1>2. CASE i = 1
  <2>1. Head(list) = list[1]
    BY TailParts
  <2>2. Silent(new, AckOf(0))
    <3>1. ASSUME NEW k \in 1 .. n - 1 PROVE new[k] \notin AckOf(0)
      <4>1. k + 1 \in 1 .. n /\ k + 1 > 1
        BY <1>1
      <4> QED
        BY <1>1, <1>2, <4>1 DEF Last
    <3> HIDE DEF new
    <3> QED
      BY <1>1, <3>1 DEF Silent
  <2>3. \A d \in Doc : Believes(list, changes, R, 0, d, 1) <=> HoldsIn(changes, R, d)
    <3> TAKE d \in Doc
    <3>1. list[1].type = "filter"
      BY <1>2 DEF Tells
    <3>2. list[1] \notin JoinsFor(0, d, R) /\ list[1] \notin LeavesFor(0, d, R)
      BY <3>1, OthersAreMute
    <3> QED
      BY <3>2, LatelyOne DEF Believes
  <2>4. {d \in Doc : Believes(list, changes, R, 0, d, 1)} = {d \in Doc : HoldsIn(changes, R, d)}
    BY <2>3
  <2> QED
    BY <1>2, <2>1, <2>2, <2>4
<1>3. CASE i # 1
  <2>1. i \in 2 .. n
    BY <1>1, <1>3
  <2>2. i - 1 \in 1 .. n - 1 /\ new[i - 1] = list[i] /\ i \in 1 .. Len(list)
    BY <1>1, <2>1
  <2>3. \A d \in Doc : /\ Believes(list, changes, R, 0, d, i)
                            <=> Believes(new, changes2, R, 0, d, i - 1)
                       /\ Last(new, AckOf(0), i - 1)
    BY <2>2, BelievesTail
  <2>4. Last(new, AckOf(0), i - 1)
    <3>1. ASSUME NEW k \in 1 .. n - 1, k > i - 1 PROVE new[k] \notin AckOf(0)
      <4>1. k + 1 \in 1 .. n /\ k + 1 > i
        BY <1>1, <3>1
      <4> QED
        BY <1>1, <4>1 DEF Last
    <3> HIDE DEF new
    <3> QED
      BY <1>1, <3>1 DEF Last
  <2>5. {d \in Doc : Believes(list, changes, R, 0, d, i)}
          = {d \in Doc : Believes(new, changes2, R, 0, d, i - 1)}
    BY <2>3
  <2>6. new[i - 1].count = Cardinality({d \in Doc : Believes(new, changes2, R, 0, d, i - 1)})
    BY <1>1, <2>2, <2>4 DEF CountsAgree
  <2> QED
    BY <2>2, <2>5, <2>6
<1> QED
  BY <1>2, <1>3

(* A snapshot of a target that is active: its changes become its keys.      *)
LEMMA TuneRaised ==
    ASSUME NEW list \in Seq(ServerMessage), list # <<>>, Head(list).type = "snapshot",
           NEW t, Silent(list, AckOf(t)), NEW changes, NEW changes2, NEW R, NEW R2, NEW S,
           NEW docs, InTune(list, changes, R, t, S, docs),
           \A d \in S : HoldsIn(changes2, R2, d) <=> HoldsIn(changes, R, d)
    PROVE  /\ InTune(Tail(list), changes2, R2, t, S, docs)
           /\ \A d \in S : HoldsIn(changes2, R2, d) <=> d \in Head(list).token
<1> DEFINE new == Tail(list)
           n == Len(list)
<1>1. /\ n \in Nat /\ n >= 1 /\ DOMAIN list = 1 .. n /\ DOMAIN new = 1 .. n - 1
      /\ Len(new) = n - 1 /\ Head(list) = list[1]
      /\ \A i \in 1 .. n - 1 : new[i] = list[i + 1]
  BY TailParts
<1>2. \A i \in 1 .. n : list[i] \notin AckOf(t)
  BY <1>1 DEF Silent
<1>3. ASSUME NEW d \in S, NEW m \in ServerMessage, m \notin AckOf(t)
      PROVE  /\ m \in JoinsFor(t, d, R) <=> m \in JoinsFor(t, d, R2)
             /\ m \in LeavesFor(t, d, R) <=> m \in LeavesFor(t, d, R2)
  BY <1>3 DEF JoinsFor, LeavesFor, AckOf
<1>4. ASSUME NEW d \in S, NEW j \in 1 .. n
      PROVE  Believes(list, changes, R, t, d, j) <=> Believes(new, changes2, R2, t, d, j - 1)
  <2> DEFINE now == Head(list) \in JoinsFor(t, d, R)
                      \/ (HoldsIn(changes, R, d) /\ Head(list) \notin LeavesFor(t, d, R))
             then == HoldsIn(changes2, R2, d)
  <2>1. Lately(list, HoldsIn(changes, R, d), JoinsFor(t, d, R), LeavesFor(t, d, R), j)
          <=> Lately(new, now, JoinsFor(t, d, R), LeavesFor(t, d, R), j - 1)
    BY LatelyTail
  <2>2. now <=> then
    BY OthersAreMute
  <2>3. \A i \in 1 .. j - 1 : new[i] \in ServerMessage /\ new[i] \notin AckOf(t)
    <3> TAKE i \in 1 .. j - 1
    <3>1. i \in 1 .. n - 1 /\ i + 1 \in 1 .. n
      BY <1>1
    <3> QED
      BY <1>1, <1>2, <3>1, LenProperties
  <2>4. j - 1 \in Nat
    BY <1>1
  <2>5. Lately(new, now, JoinsFor(t, d, R), LeavesFor(t, d, R), j - 1)
          <=> Lately(new, then, JoinsFor(t, d, R2), LeavesFor(t, d, R2), j - 1)
    <3> HIDE DEF now, then, new
    <3> QED
      BY <1>3, <2>2, <2>3, <2>4, LatelySame
  <2> QED
    BY <2>1, <2>5 DEF Believes
<1>5. \A d \in S : HoldsIn(changes2, R2, d) <=> d \in Head(list).token
  <2> TAKE d \in S
  <2>1. 1 \in 1 .. n /\ Last(list, AckOf(t), 1)
    BY <1>1, <1>2 DEF Last
  <2>2. Believes(list, changes, R, t, d, 1) <=> d \in Head(list).token
    BY <1>1, <2>1 DEF InTune
  <2>3. Believes(list, changes, R, t, d, 1) <=> HoldsIn(changes, R, d)
    BY <1>1, LatelyOne, OthersAreMute DEF Believes
  <2> QED
    BY <2>2, <2>3
<1>6. ASSUME NEW d \in S, NEW j \in 1 .. n - 1, new[j].type = "snapshot"
      PROVE  Believes(new, changes2, R2, t, d, j) <=> d \in new[j].token
  <2>1. j + 1 \in 1 .. n /\ (j + 1) - 1 = j /\ new[j] = list[j + 1]
    BY <1>1
  <2>2. Last(list, AckOf(t), j + 1)
    BY <1>1, <1>2 DEF Last
  <2>3. Believes(list, changes, R, t, d, j + 1) <=> Believes(new, changes2, R2, t, d, (j + 1) - 1)
    BY <1>4, <2>1
  <2>4. Believes(list, changes, R, t, d, j + 1) <=> d \in list[j + 1].token
    BY <1>1, <1>6, <2>1, <2>2 DEF InTune
  <2> QED
    BY <2>1, <2>3, <2>4
<1>7. ASSUME NEW d \in S PROVE Believes(new, changes2, R2, t, d, Len(new)) <=> d \in docs
  <2>1. n \in 1 .. n
    BY <1>1
  <2>2. Believes(list, changes, R, t, d, n) <=> Believes(new, changes2, R2, t, d, n - 1)
    BY <1>4, <2>1
  <2> QED
    BY <1>1, <2>2 DEF InTune
<1>8. InTune(new, changes2, R2, t, S, docs)
  BY <1>1, <1>6, <1>7 DEF InTune
<1> QED
  BY <1>5, <1>8

-----------------------------------------------------------------------------
(* The server tells: who believed what it had told believes what it tells.  *)
LEMMA NewsSays ==
    ASSUME NEW served \in Partial(Target, Served), NEW t \in DOMAIN served,
           NEW d \in served[t].scope, NEW R, NEW was, was <=> d \in served[t].docs
    PROVE  Lately(News(served), was, JoinsFor(t, d, R), LeavesFor(t, d, R), Len(News(served)))
             <=> d \in Present
<1> DEFINE N == News(served)
           On == JoinsFor(t, d, R)
           Off == LeavesFor(t, d, R)
           c == Tell(served, t)
<1>1. /\ Len(N) \in Nat /\ DOMAIN N = 1 .. Len(N)
      /\ \A i \in DOMAIN N : i # Len(N) =>
           \E u \in Behind(served) : N[i].target = u /\ N[i] = Tell(served, u)
      /\ \A i \in DOMAIN N : N[i].type \in {"change", "snapshot"} /\ ~IsAck(N[i])
      /\ N[Len(N)] = AllTold
  <2>1. Len(N) \in Nat /\ DOMAIN N = 1 .. Len(N) /\ N[Len(N)] = AllTold
    BY NewsTypes
  <2>2. \A i \in DOMAIN N : i # Len(N) =>
           \E u \in Behind(served) : N[i].target = u /\ N[i] = Tell(served, u)
    BY NewsTypes
  <2>3. \A i \in DOMAIN N : N[i].type \in {"change", "snapshot"} /\ ~IsAck(N[i])
    BY NewsTypes
  <2> QED
    BY <2>1, <2>2, <2>3
<1>2. t \in Behind(served) => \E i \in DOMAIN N : N[i] = c
  <2>1. \A u \in Behind(served) : \E i \in 1 .. Len(N) : N[i] = Tell(served, u)
    BY NewsShape
  <2> QED
    BY <1>1, <2>1
<1>3. /\ c \in ServerMessage /\ c.type = "change" /\ c.target = t
      /\ c.here = (Present \intersect served[t].scope) \ served[t].docs
      /\ c.gone = served[t].docs \ Present
  <2>1. c \in ServerMessage /\ c.type = "change" /\ c.target = t
    BY TellFacts
  <2> QED
    BY <2>1 DEF Tell
<1>4. AllTold.type = "snapshot"
  BY AllToldFacts
<1> HIDE DEF N, c
<1>5. \A i \in 1 .. Len(N) : N[i] \in On \union Off => N[i] = c
  <2> TAKE i \in 1 .. Len(N)
  <2>1. CASE i = Len(N)
    <3>1. N[i] \notin On \union Off
      BY <1>1, <1>4, <2>1, OthersAreMute
    <3> QED
      BY <3>1
  <2>2. CASE i # Len(N)
    <3>1. PICK u \in Behind(served) : N[i].target = u /\ N[i] = Tell(served, u)
      BY <1>1, <2>2
    <3>2. u # t => N[i] \notin On \union Off
      BY <3>1, OthersAreMute
    <3> QED
      BY <3>1, <3>2 DEF c
  <2> QED
    BY <2>1, <2>2
<1>6. /\ c \in On <=> d \in Present /\ d \notin served[t].docs
      /\ c \in Off <=> d \notin Present /\ d \in served[t].docs
  BY <1>3 DEF JoinsFor, LeavesFor, IsAck
<1>7. (d \in Present <=> d \notin served[t].docs) => t \in Behind(served)
  BY DEF Behind
<1> HIDE DEF On, Off
<1>8. CASE d \in Present /\ d \notin served[t].docs
  <2>1. \E i \in 1 .. Len(N) : N[i] \in On
    BY <1>1, <1>2, <1>6, <1>7, <1>8
  <2>2. \A i \in 1 .. Len(N) : N[i] \notin Off
    BY <1>5, <1>6, <1>8
  <2>3. Lately(N, was, On, Off, Len(N))
    BY <1>1, <2>1, <2>2, LatelySaid
  <2> QED
    BY <1>8, <2>3 DEF N, On, Off
<1>9. CASE d \notin Present /\ d \in served[t].docs
  <2>1. \E i \in 1 .. Len(N) : N[i] \in Off
    BY <1>1, <1>2, <1>6, <1>7, <1>9
  <2>2. \A i \in 1 .. Len(N) : N[i] \notin On
    BY <1>5, <1>6, <1>9
  <2>3. ~Lately(N, was, On, Off, Len(N))
    BY <1>1, <2>1, <2>2, LatelySaid
  <2> QED
    BY <1>9, <2>3 DEF N, On, Off
<1>10. CASE d \in Present <=> d \in served[t].docs
  <2>1. \A i \in 1 .. Len(N) : N[i] \notin On \union Off
    BY <1>5, <1>6, <1>10
  <2>2. Lately(N, was, On, Off, Len(N)) <=> was
    BY <1>1, <2>1, LatelySaid
  <2> QED
    BY <1>10, <2>2 DEF N, On, Off
<1> QED
  BY <1>8, <1>9, <1>10

(* Where the messages are when the server adds an answer and the news.      *)
LEMMA AddedParts ==
    ASSUME NEW list \in Seq(ServerMessage), NEW intro \in Seq(ServerMessage),
           Silent(intro, Typed("snapshot")),
           NEW served \in Partial(Target, Served)
    PROVE  LET N == News(served)
               M == intro \o N
               new == list \o M
           IN  /\ N \in Seq(ServerMessage) /\ M \in Seq(ServerMessage)
               /\ new \in Seq(ServerMessage)
               /\ Len(list) \in Nat /\ Len(intro) \in Nat /\ Len(N) \in Nat /\ Len(N) >= 1
               /\ Len(M) = Len(intro) + Len(N) /\ Len(new) = Len(list) + Len(M)
               /\ DOMAIN list = 1 .. Len(list) /\ DOMAIN new = 1 .. Len(new)
               /\ DOMAIN intro = 1 .. Len(intro)
               /\ \A i \in 1 .. Len(list) : new[i] = list[i]
               /\ \A i \in 1 .. Len(intro) : new[Len(list) + i] = intro[i]
               /\ \A i \in 1 .. Len(new) : i \notin 1 .. Len(list) =>
                    \/ i = Len(new) /\ new[i] = AllTold
                    \/ ~IsAck(new[i]) /\ new[i].type = "change"
                    \/ i - Len(list) \in 1 .. Len(intro) /\ new[i] = intro[i - Len(list)]
               /\ \A i \in 1 .. Len(new) : i \notin 1 .. Len(list) /\ new[i].type = "snapshot"
                    => i = Len(new) /\ new[i] = AllTold
<1> DEFINE N == News(served)
           M == intro \o N
           new == list \o M
<1>1. /\ N \in Seq(ServerMessage) /\ Len(N) \in Nat /\ Len(N) >= 1 /\ DOMAIN N = 1 .. Len(N)
      /\ N[Len(N)] = AllTold
      /\ \A i \in DOMAIN N : i # Len(N) => N[i].type = "change"
      /\ \A i \in DOMAIN N : ~IsAck(N[i])
  <2>1. N \in Seq(ServerMessage) /\ Len(N) \in Nat /\ Len(N) >= 1
    BY NewsShape
  <2>2. DOMAIN N = 1 .. Len(N) /\ N[Len(N)] = AllTold
    BY NewsTypes
  <2>3. \A i \in DOMAIN N : i # Len(N) => N[i].type = "change"
    BY NewsTypes
  <2>4. \A i \in DOMAIN N : ~IsAck(N[i])
    BY NewsTypes
  <2> QED
    BY <2>1, <2>2, <2>3, <2>4
<1> HIDE DEF N
<1>2. /\ M \in Seq(ServerMessage) /\ Len(intro) \in Nat /\ Len(M) = Len(intro) + Len(N)
      /\ DOMAIN intro = 1 .. Len(intro) /\ DOMAIN M = 1 .. Len(intro) + Len(N)
      /\ \A i \in 1 .. Len(intro) : M[i] = intro[i]
      /\ \A i \in 1 .. Len(intro) + Len(N) : i \notin 1 .. Len(intro)
           => i - Len(intro) \in 1 .. Len(N) /\ M[i] = N[i - Len(intro)]
  BY <1>1, JoinParts
<1> HIDE DEF M
<1>3. /\ new \in Seq(ServerMessage) /\ Len(list) \in Nat /\ Len(new) = Len(list) + Len(M)
      /\ DOMAIN list = 1 .. Len(list) /\ DOMAIN new = 1 .. Len(list) + Len(M)
      /\ \A i \in 1 .. Len(list) : new[i] = list[i]
      /\ \A i \in 1 .. Len(M) : new[Len(list) + i] = M[i]
      /\ \A i \in 1 .. Len(list) + Len(M) : i \notin 1 .. Len(list)
           => i - Len(list) \in 1 .. Len(M) /\ new[i] = M[i - Len(list)]
  <2>1. M \in Seq(ServerMessage)
    BY <1>2
  <2> QED
    BY <2>1, JoinParts
<1> HIDE DEF new
<1>4. \A i \in 1 .. Len(intro) : new[Len(list) + i] = intro[i]
  <2>1. \A i \in 1 .. Len(intro) : i \in 1 .. Len(M)
    BY <1>1, <1>2
  <2> QED
    BY <1>2, <1>3, <2>1
<1>5. ASSUME NEW i \in 1 .. Len(new), i \notin 1 .. Len(list)
      PROVE  \/ i = Len(new) /\ new[i] = AllTold
             \/ ~IsAck(new[i]) /\ new[i].type = "change"
             \/ i - Len(list) \in 1 .. Len(intro) /\ new[i] = intro[i - Len(list)]
  <2>1. i - Len(list) \in 1 .. Len(M) /\ new[i] = M[i - Len(list)]
    BY <1>3, <1>5
  <2>2. CASE i - Len(list) \in 1 .. Len(intro)
    BY <1>2, <2>1, <2>2
  <2>3. CASE i - Len(list) \notin 1 .. Len(intro)
    <3>1. (i - Len(list)) - Len(intro) \in 1 .. Len(N)
          /\ new[i] = N[(i - Len(list)) - Len(intro)]
      BY <1>2, <2>1, <2>3
    <3>2. (i - Len(list)) - Len(intro) = Len(N) => i = Len(new)
      BY <1>1, <1>2, <1>3
    <3> QED
      BY <1>1, <3>1, <3>2
  <2> QED
    BY <2>2, <2>3
<1>6. \A i \in 1 .. Len(intro) : intro[i].type # "snapshot"
  BY <1>2, LenProperties DEF Silent, Typed
<1>7. \A i \in 1 .. Len(new) : i \notin 1 .. Len(list) /\ new[i].type = "snapshot"
                    => i = Len(new) /\ new[i] = AllTold
  BY <1>5, <1>6
<1>8. DOMAIN new = 1 .. Len(new)
  BY <1>3
<1> QED
  BY <1>1, <1>2, <1>3, <1>4, <1>5, <1>7, <1>8 DEF N, M, new

LEMMA LastLonger ==
    ASSUME NEW list \in Seq(ServerMessage), NEW more \in Seq(ServerMessage), NEW A,
           NEW j \in 1 .. Len(list)
    PROVE  /\ Last(list \o more, A, j) => Last(list, A, j)
           /\ Last(list, A, j) /\ Silent(more, A) => Last(list \o more, A, j)
<1> DEFINE new == list \o more
<1>1. /\ Len(list) \in Nat /\ Len(more) \in Nat
      /\ DOMAIN list = 1 .. Len(list) /\ DOMAIN more = 1 .. Len(more)
      /\ DOMAIN new = 1 .. Len(list) + Len(more)
      /\ \A i \in 1 .. Len(list) : new[i] = list[i]
      /\ \A i \in 1 .. Len(list) + Len(more) : i \notin 1 .. Len(list)
           => i - Len(list) \in 1 .. Len(more) /\ new[i] = more[i - Len(list)]
  BY JoinParts
<1> HIDE DEF new
<1>2. \A k \in 1 .. Len(list) : k \in 1 .. Len(list) + Len(more)
  BY <1>1
<1>3. Last(new, A, j) => Last(list, A, j)
  BY <1>1, <1>2 DEF Last
<1>4. Last(list, A, j) /\ Silent(more, A) => Last(new, A, j)
  BY <1>1 DEF Last, Silent
<1> QED
  BY <1>3, <1>4 DEF new

-----------------------------------------------------------------------------
(* The news keep a client in tune, and so does the answer to its watch.     *)
LEMMA UpToDateFacts ==
    ASSUME NEW served \in Partial(Target, Served), NEW t \in DOMAIN served
    PROVE  /\ DOMAIN UpToDate(served) = DOMAIN served
           /\ UpToDate(served)[t].scope = served[t].scope
           /\ UpToDate(served)[t].docs = Present \intersect served[t].scope
<1>1. served[t] \in Served
  BY PartialFacts
<1> QED
  BY <1>1 DEF UpToDate, Served

(* A target the answer is not for. *)
LEMMA TuneExtended ==
    ASSUME NEW list \in Seq(ServerMessage), NEW intro \in Seq(ServerMessage),
           NEW served \in Partial(Target, Served), NEW t \in DOMAIN served,
           Silent(intro, Typed("snapshot")), \A i \in DOMAIN intro : intro[i].target # t,
           NEW changes, NEW R, NEW S, S = served[t].scope,
           InTune(list, changes, R, t, S, served[t].docs)
    PROVE  InTune(list \o (intro \o News(served)), changes, R, t, S, UpToDate(served)[t].docs)
<1> DEFINE N == News(served)
           M == intro \o N
           new == list \o M
<1>1. /\ N \in Seq(ServerMessage) /\ M \in Seq(ServerMessage) /\ new \in Seq(ServerMessage)
      /\ Len(list) \in Nat /\ Len(intro) \in Nat /\ Len(N) \in Nat /\ Len(N) >= 1
      /\ Len(M) = Len(intro) + Len(N) /\ Len(new) = Len(list) + Len(M)
      /\ DOMAIN list = 1 .. Len(list) /\ DOMAIN new = 1 .. Len(new)
      /\ DOMAIN intro = 1 .. Len(intro)
      /\ \A i \in 1 .. Len(list) : new[i] = list[i]
      /\ \A i \in 1 .. Len(new) : i \notin 1 .. Len(list) /\ new[i].type = "snapshot"
           => i = Len(new) /\ new[i] = AllTold
  BY AddedParts
<1>2. AllTold.token = Present
  BY DEF AllTold
<1>3. ASSUME NEW d \in S
      PROVE  Believes(new, changes, R, t, d, Len(new)) <=> d \in Present
  <2> DEFINE On == JoinsFor(t, d, R)
             Off == LeavesFor(t, d, R)
             old == Lately(list, HoldsIn(changes, R, d), On, Off, Len(list))
             mid == Lately(intro, old, On, Off, Len(intro))
  <2>1. old <=> d \in served[t].docs
    BY DEF InTune, Believes
  <2>2. mid <=> old
    <3>1. \A i \in 1 .. Len(intro) : intro[i] \notin On \union Off
      BY <1>1, OthersAreMute
    <3> HIDE DEF old, On, Off
    <3> QED
      BY <1>1, <3>1, LatelySaid
  <2>3. Lately(M, old, On, Off, Len(M)) <=> Lately(N, mid, On, Off, Len(N))
    <3>1. Len(N) \in 0 .. Len(N) /\ Len(M) = Len(intro) + Len(N)
      BY <1>1
    <3> HIDE DEF old, On, Off, N
    <3>2. Lately(intro \o N, old, On, Off, Len(intro) + Len(N))
            <=> Lately(N, Lately(intro, old, On, Off, Len(intro)), On, Off, Len(N))
      BY <1>1, <3>1, LatelyJoined
    <3> QED
      BY <3>1, <3>2
  <2>4. Lately(new, HoldsIn(changes, R, d), On, Off, Len(new)) <=> Lately(M, old, On, Off, Len(M))
    <3>1. Len(M) \in 0 .. Len(M) /\ Len(new) = Len(list) + Len(M)
      BY <1>1
    <3> HIDE DEF On, Off, M
    <3>2. Lately(list \o M, HoldsIn(changes, R, d), On, Off, Len(list) + Len(M))
            <=> Lately(M, Lately(list, HoldsIn(changes, R, d), On, Off, Len(list)), On, Off, Len(M))
      BY <1>1, <3>1, LatelyJoined
    <3> QED
      BY <3>1, <3>2
  <2>5. Lately(N, mid, On, Off, Len(N)) <=> d \in Present
    <3>1. mid <=> d \in served[t].docs
      BY <2>1, <2>2
    <3> HIDE DEF mid
    <3> QED
      BY <3>1, NewsSays
  <2> QED
    BY <2>3, <2>4, <2>5 DEF Believes
<1>4. ASSUME NEW d \in S, NEW j \in 1 .. Len(new), new[j].type = "snapshot",
             Last(new, AckOf(t), j)
      PROVE  Believes(new, changes, R, t, d, j) <=> d \in new[j].token
  <2>1. CASE j \in 1 .. Len(list)
    <3>1. Last(list, AckOf(t), j)
      BY <1>1, <1>4, <2>1, LastLonger
    <3>2. Believes(list, changes, R, t, d, j) <=> d \in list[j].token
      BY <1>1, <1>4, <2>1, <3>1 DEF InTune
    <3>3. Believes(new, changes, R, t, d, j) <=> Believes(list, changes, R, t, d, j)
      <4>1. j \in 0 .. Len(list)
        BY <1>1, <2>1
      <4> HIDE DEF M
      <4> QED
        BY <1>1, <4>1, LatelyPrefix DEF Believes
    <3> QED
      BY <1>1, <2>1, <3>2, <3>3
  <2>2. CASE j \notin 1 .. Len(list)
    <3>1. j = Len(new) /\ new[j] = AllTold
      BY <1>1, <1>4, <2>2
    <3> QED
      BY <1>2, <1>3, <3>1
  <2> QED
    BY <2>1, <2>2
<1>5. \A d \in S : d \in Present <=> d \in UpToDate(served)[t].docs
  BY UpToDateFacts
<1> QED
  BY <1>1, <1>3, <1>4, <1>5 DEF InTune

LEMMA CountsExtended ==
    ASSUME NEW list \in Seq(ServerMessage), NEW more \in Seq(ServerMessage),
           Silent(more, AckOf(0)), NEW changes, NEW R, CountsAgree(list \o more, changes, R)
    PROVE  CountsAgree(list, changes, R)
<1> DEFINE new == list \o more
<1>1. /\ Len(list) \in Nat /\ Len(more) \in Nat
      /\ DOMAIN list = 1 .. Len(list) /\ DOMAIN new = 1 .. Len(list) + Len(more)
      /\ \A i \in 1 .. Len(list) : new[i] = list[i]
  BY JoinParts
<1> SUFFICES ASSUME NEW i \in 1 .. Len(list), list[i] \in Tells("filter", 0),
                    Last(list, AckOf(0), i)
             PROVE  list[i].count = Cardinality({d \in Doc : Believes(list, changes, R, 0, d, i)})
  BY <1>1 DEF CountsAgree
<1>2. Last(new, AckOf(0), i)
  BY LastLonger
<1>3. i \in DOMAIN new /\ new[i] = list[i] /\ i \in 0 .. Len(list)
  BY <1>1
<1>4. \A d \in Doc : Believes(new, changes, R, 0, d, i) <=> Believes(list, changes, R, 0, d, i)
  BY <1>3, LatelyPrefix DEF Believes
<1>5. {d \in Doc : Believes(new, changes, R, 0, d, i)}
        = {d \in Doc : Believes(list, changes, R, 0, d, i)}
  BY <1>4
<1>6. new[i].count = Cardinality({d \in Doc : Believes(new, changes, R, 0, d, i)})
  <2> HIDE DEF new
  <2> QED
    BY <1>2, <1>3 DEF CountsAgree, new
<1> QED
  BY <1>3, <1>5, <1>6

(* What the deletions that are told leave of what the token stood for, and  *)
(* whether they are left to the filter.                                     *)
Retained(request, deletions, reset) == IF deletions THEN {} ELSE Resumed(request, reset)
LeftToFilter(deletions, filter) == filter /\ ~deletions

(* The documents a request's token stands for are those of R, and what it   *)
(* asks for is all of them or one.                                          *)
StandsFor(request, R) ==
    \A d \in request.scope :
        d \in R <=> (request.token # NoToken /\ d \in request.token)
Aimed(request) ==
    IF request.target = 0 THEN request.scope = Doc ELSE \E k \in Doc : request.scope = {k}

(* What the client believes after the head of an answer, R being what its   *)
(* token stood for, and which message of its end says otherwise.            *)
HeadFits(request, deletions, reset, was, d, On, Off) ==
    /\ HeadSays(request, deletions, reset, was, On, Off)
         <=> d \in Matched(request) \union Retained(request, deletions, reset)
    /\ CurrentOf(request.target) \notin On \union Off
    /\ FilterOf(request) \notin On
    /\ FilterOf(request) \in Off
         <=> request.target # 0 /\ Cardinality(Matched(request)) = 0

LEMMA HeadMeans ==
    ASSUME NEW request \in ClientMessage, request.type = "watch",
           NEW deletions \in BOOLEAN, NEW reset \in BOOLEAN, NEW d \in request.scope,
           NEW R, StandsFor(request, R), NEW was
    PROVE  HeadFits(request, deletions, reset, was, d,
                    JoinsFor(request.target, d, R), LeavesFor(request.target, d, R))
<1> DEFINE u == request.target
           On == JoinsFor(u, d, R)
           Off == LeavesFor(u, d, R)
           h == ChangeOf(request, deletions, reset)
           c == CurrentOf(u)
           f == FilterOf(request)
           a == Acked(u)
           r == ResetOf(u)
<1>1. /\ a \in ServerMessage /\ r \in ServerMessage /\ c \in ServerMessage
      /\ f \in ServerMessage /\ h \in ServerMessage
  BY AnswerMessages
<1>2. /\ a.type = "added" /\ a.target = u /\ r.type = "reset" /\ r.target = u
      /\ c.type = "current" /\ c.target = u /\ f.type = "filter" /\ f.target = u
      /\ f.count = Cardinality(Matched(request))
      /\ h.type = "change" /\ h.target = u /\ h.here = NewIn(request, reset)
      /\ h.gone = GoneFrom(request, deletions, reset)
  BY AnswerTypes
<1> HIDE DEF a, r, c, f, h, u
<1>3. /\ a \in On <=> d \in R
      /\ a \in Off <=> d \notin R
      /\ r \notin On /\ r \in Off
      /\ c \notin On \union Off /\ f \notin On
      /\ f \in Off <=> u # 0 /\ Cardinality(Matched(request)) = 0
      /\ h \in On <=> d \in NewIn(request, reset) \ GoneFrom(request, deletions, reset)
      /\ h \in Off <=> d \in GoneFrom(request, deletions, reset)
  <2>1. IsAck(a) /\ ~IsAck(r) /\ ~IsAck(c) /\ ~IsAck(f) /\ ~IsAck(h)
    BY <1>2 DEF IsAck
  <2> QED
    BY <1>1, <1>2, <2>1 DEF JoinsFor, LeavesFor
<1>4. d \in NewIn(request, reset) \union GoneFrom(request, deletions, reset)
        => Differs(request, deletions, reset)
  BY DEF Differs
<1>5. /\ d \in NewIn(request, reset) <=> d \in Matched(request) /\ d \notin Resumed(request, reset)
      /\ d \in GoneFrom(request, deletions, reset)
           <=> deletions /\ d \in Resumed(request, reset) /\ d \notin Matched(request)
      /\ d \in Resumed(request, reset) <=> ~reset /\ d \in R
  <2>1. d \in R <=> (request.token # NoToken /\ d \in request.token)
    BY DEF StandsFor
  <2> QED
    BY <2>1 DEF NewIn, GoneFrom, Resumed
<1>6. HeadSays(request, deletions, reset, was, On, Off)
        <=> \/ Differs(request, deletions, reset) /\ h \in On
            \/ /\ Differs(request, deletions, reset) => h \notin Off
               /\ \/ reset /\ r \in On
                  \/ /\ reset => r \notin Off
                     /\ a \in On \/ (was /\ a \notin Off)
  BY DEF HeadSays, h, r, a, u
<1> HIDE DEF On, Off
<1>7. HeadSays(request, deletions, reset, was, On, Off)
        <=> d \in Matched(request) \union Retained(request, deletions, reset)
  <2>1. HeadSays(request, deletions, reset, was, On, Off)
          <=> d \in Matched(request) \/ (~deletions /\ d \in Resumed(request, reset))
    BY <1>3, <1>4, <1>5, <1>6
  <2>2. d \in Retained(request, deletions, reset)
          <=> ~deletions /\ d \in Resumed(request, reset)
    BY DEF Retained
  <2> QED
    BY <2>1, <2>2
<1> QED
  BY <1>3, <1>7 DEF On, Off, c, f, u, HeadFits

-----------------------------------------------------------------------------
(* Where the messages of an answer for target t stand in the list. *)
Stands(list, A, N, t) ==
    LET M == A \o N
        new == list \o M
    IN  /\ A \in Seq(ServerMessage) /\ N \in Seq(ServerMessage)
        /\ M \in Seq(ServerMessage) /\ new \in Seq(ServerMessage)
        /\ Len(list) \in Nat /\ Len(A) \in Nat /\ Len(N) \in Nat
        /\ Len(A) >= 1 /\ Len(N) >= 1
        /\ Len(M) = Len(A) + Len(N) /\ Len(new) = Len(list) + Len(M)
        /\ DOMAIN list = 1 .. Len(list) /\ DOMAIN new = 1 .. Len(new)
        /\ DOMAIN A = 1 .. Len(A)
        /\ new[Len(list) + 1] \in AckOf(t)
        /\ \A i \in 1 .. Len(list) : new[i] = list[i]
        /\ \A i \in 1 .. Len(A) : new[Len(list) + i] = A[i]
        /\ \A i \in 1 .. Len(new) : i \notin 1 .. Len(list) /\ new[i].type = "snapshot"
             => i = Len(new) /\ new[i] = AllTold
        /\ \A i \in 1 .. Len(new) : i > Len(list) + 1 => ~IsAck(new[i])

LEMMA AnswerParts ==
    ASSUME NEW list \in Seq(ServerMessage), told \in Partial(Target, Served),
           NEW request \in ClientMessage, request.type = "watch",
           NEW deletions \in BOOLEAN, NEW filter \in BOOLEAN, NEW early \in BOOLEAN,
           NEW reset \in BOOLEAN
    PROVE  Stands(list, Answer(request, deletions, filter, early, reset),
                  News(ServedThen(request)), request.target)
<1> DEFINE A == Answer(request, deletions, filter, early, reset)
           served == ServedThen(request)
           N == News(served)
           M == A \o N
           new == list \o M
<1>1. /\ A \in Seq(ServerMessage) /\ Len(A) \in Nat /\ DOMAIN A = 1 .. Len(A)
      /\ 1 \in DOMAIN A /\ A[1] = Acked(request.target)
      /\ \A i \in DOMAIN A : A[i] \in About(request.target)
      /\ \A i \in DOMAIN A : i # 1 => ~IsAck(A[i])
  <2>1. /\ A \in Seq(ServerMessage) /\ Len(A) \in Nat /\ DOMAIN A = 1 .. Len(A)
        /\ 1 \in DOMAIN A /\ A[1] = Acked(request.target)
    BY AnswerShape, ZenonT(60)
  <2>2. \A i \in DOMAIN A : A[i] \in About(request.target)
    BY AnswerShape, ZenonT(60)
  <2>3. \A i \in DOMAIN A : i # 1 => ~IsAck(A[i])
    BY AnswerShape, ZenonT(60)
  <2> HIDE DEF A
  <2> QED
    BY <2>1, <2>2, <2>3
<1>2. served \in Partial(Target, Served)
  BY ServedThenFacts
<1>3. Acked(request.target) \in AckOf(request.target)
  <2>1. Acked(request.target) \in ServerMessage
    BY AnswerMessages
  <2> QED
    BY <2>1, AnswerTypes DEF AckOf, IsAck
<1> HIDE DEF A, served
<1>4. Silent(A, Typed("snapshot"))
  BY <1>1 DEF Silent, Typed, About
<1>5. /\ N \in Seq(ServerMessage) /\ M \in Seq(ServerMessage) /\ new \in Seq(ServerMessage)
      /\ Len(list) \in Nat /\ Len(N) \in Nat /\ Len(N) >= 1
      /\ Len(M) = Len(A) + Len(N) /\ Len(new) = Len(list) + Len(M)
      /\ DOMAIN list = 1 .. Len(list) /\ DOMAIN new = 1 .. Len(new)
      /\ \A i \in 1 .. Len(list) : new[i] = list[i]
      /\ \A i \in 1 .. Len(A) : new[Len(list) + i] = A[i]
      /\ \A i \in 1 .. Len(new) : i \notin 1 .. Len(list) =>
           \/ i = Len(new) /\ new[i] = AllTold
           \/ ~IsAck(new[i]) /\ new[i].type = "change"
           \/ i - Len(list) \in 1 .. Len(A) /\ new[i] = A[i - Len(list)]
      /\ \A i \in 1 .. Len(new) : i \notin 1 .. Len(list) /\ new[i].type = "snapshot"
           => i = Len(new) /\ new[i] = AllTold
  <2>1. A \in Seq(ServerMessage) /\ Silent(A, Typed("snapshot")) /\ served \in Partial(Target, Served)
    BY <1>1, <1>2, <1>4
  <2>2. /\ N \in Seq(ServerMessage) /\ M \in Seq(ServerMessage) /\ new \in Seq(ServerMessage)
        /\ Len(list) \in Nat /\ Len(N) \in Nat /\ Len(N) >= 1
        /\ Len(M) = Len(A) + Len(N) /\ Len(new) = Len(list) + Len(M)
        /\ DOMAIN list = 1 .. Len(list) /\ DOMAIN new = 1 .. Len(new)
    BY <2>1, AddedParts
  <2>3. /\ \A i \in 1 .. Len(list) : new[i] = list[i]
        /\ \A i \in 1 .. Len(A) : new[Len(list) + i] = A[i]
    BY <2>1, AddedParts
  <2>4. \A i \in 1 .. Len(new) : i \notin 1 .. Len(list) =>
           \/ i = Len(new) /\ new[i] = AllTold
           \/ ~IsAck(new[i]) /\ new[i].type = "change"
           \/ i - Len(list) \in 1 .. Len(A) /\ new[i] = A[i - Len(list)]
    BY <2>1, AddedParts
  <2>5. \A i \in 1 .. Len(new) : i \notin 1 .. Len(list) /\ new[i].type = "snapshot"
           => i = Len(new) /\ new[i] = AllTold
    BY <2>1, AddedParts, SMTT(30)
  <2> HIDE DEF N, M, new
  <2> QED
    BY <2>2, <2>3, <2>4, <2>5
<1> HIDE DEF N, M, new
<1>6. Len(A) >= 1 /\ 1 \in 1 .. Len(A)
  BY <1>1
<1>7. new[Len(list) + 1] \in AckOf(request.target)
  BY <1>1, <1>3, <1>5, <1>6
<1>8. ASSUME NEW i \in 1 .. Len(new), i > Len(list) + 1 PROVE ~IsAck(new[i])
  <2>1. i \notin 1 .. Len(list) /\ i - Len(list) # 1
    BY <1>5, <1>8
  <2>2. ~IsAck(AllTold)
    BY AllToldFacts
  <2> QED
    BY <1>1, <1>5, <2>1, <2>2
<1> QED
  BY <1>1, <1>5, <1>6, <1>7, <1>8 DEF A, served, N, M, new, Stands

(* What an answer has at its filter and at its end. *)
AnswerFits(A, f, said, filter, was, On, Off) ==
    /\ Lately(A, was, On, Off, Len(A)) <=> said /\ ~(filter /\ f \in Off)
    /\ \A i \in DOMAIN A : f \notin Off /\ A[i] = f
         => (Lately(A, was, On, Off, i) <=> said)

LEMMA AnswerMeans ==
    ASSUME NEW request \in ClientMessage, request.type = "watch",
           NEW deletions \in BOOLEAN, NEW filter \in BOOLEAN, NEW early \in BOOLEAN,
           NEW reset \in BOOLEAN, NEW was, NEW On, NEW Off,
           CurrentOf(request.target) \notin On \union Off, FilterOf(request) \notin On
    PROVE  AnswerFits(Answer(request, deletions, filter, early, reset), FilterOf(request),
                      HeadSays(request, deletions, reset, was, On, Off), filter, was, On, Off)
BY AnswerSays DEF AnswerFits

(* Deletions that are neither told nor noticed: the filter of the query     *)
(* would not agree.                                                         *)
LEMMA FilterNotices ==
    ASSUME NEW list \in Seq(ServerMessage), told \in Partial(Target, Served),
           NEW request \in ClientMessage, request.type = "watch",
           NEW deletions \in BOOLEAN, NEW filter \in BOOLEAN, NEW early \in BOOLEAN,
           NEW reset \in BOOLEAN, NEW changes, NEW R, StandsFor(request, R), Aimed(request),
           LeftToFilter(deletions, filter), request.target = 0,
           CountsAgree(list \o (Answer(request, deletions, filter, early, reset)
                                  \o News(ServedThen(request))), changes, R)
    PROVE  Resumed(request, reset) \subseteq Matched(request)
<1> DEFINE A == Answer(request, deletions, filter, early, reset)
           N == News(ServedThen(request))
           M == A \o N
           new == list \o M
           f == FilterOf(request)
<1>1. /\ A \in Seq(ServerMessage) /\ N \in Seq(ServerMessage)
      /\ M \in Seq(ServerMessage) /\ new \in Seq(ServerMessage)
      /\ Len(list) \in Nat /\ Len(A) \in Nat /\ Len(N) \in Nat
      /\ Len(M) = Len(A) + Len(N) /\ Len(new) = Len(list) + Len(M)
      /\ DOMAIN A = 1 .. Len(A) /\ DOMAIN new = 1 .. Len(new)
      /\ \A i \in 1 .. Len(A) : new[Len(list) + i] = A[i]
      /\ \A i \in 1 .. Len(new) : i > Len(list) + 1 => ~IsAck(new[i])
  <2>1. Stands(list, A, N, request.target)
    BY AnswerParts
  <2> HIDE DEF A, N
  <2> QED
    BY <2>1 DEF Stands
<1>2. PICK i \in 1 .. Len(A) : i # 1 /\ A[i] = f
  <2>1. \E i \in DOMAIN A : i # 1 /\ A[i] = f
    <3>1. IsSaidIf(A, f, filter)
      BY AnswerShape, ZenonT(60)
    <3> HIDE DEF A, f
    <3> QED
      BY <3>1 DEF LeftToFilter, IsSaidIf
  <2> HIDE DEF A, f
  <2> QED
    BY <1>1, <2>1
<1>3. f \in Tells("filter", 0) /\ f.count = Cardinality(Matched(request))
  <2>1. f \in ServerMessage /\ f.type = "filter" /\ f.target = 0
        /\ f.count = Cardinality(Matched(request))
    BY AnswerMessages, AnswerTypes
  <2> HIDE DEF f
  <2> QED
    BY <2>1 DEF Tells
<1>4. CountsAgree(new, changes, R)
  OBVIOUS
<1>5. ASSUME NEW d \in Doc
      PROVE  Believes(new, changes, R, 0, d, Len(list) + i)
               <=> d \in Matched(request) \union Retained(request, deletions, reset)
  <2> DEFINE On == JoinsFor(0, d, R)
             Off == LeavesFor(0, d, R)
             was == HoldsIn(changes, R, d)
             old == Lately(list, was, On, Off, Len(list))
  <2>1. /\ HeadSays(request, deletions, reset, old, On, Off)
             <=> d \in Matched(request) \union Retained(request, deletions, reset)
        /\ CurrentOf(request.target) \notin On \union Off /\ f \notin On /\ f \notin Off
    <3>1. d \in request.scope
      BY DEF Aimed
    <3> HIDE DEF old
    <3>2. HeadFits(request, deletions, reset, old, d,
                   JoinsFor(request.target, d, R), LeavesFor(request.target, d, R))
      BY <3>1, HeadMeans
    <3>3. HeadFits(request, deletions, reset, old, d, On, Off)
      BY <3>2
    <3> HIDE DEF On, Off, f
    <3> QED
      BY <3>3 DEF HeadFits, f
  <2>2. Lately(A, old, On, Off, i) <=> HeadSays(request, deletions, reset, old, On, Off)
    <3> HIDE DEF old, On, Off
    <3>1. CurrentOf(request.target) \notin On \union Off /\ FilterOf(request) \notin On
      BY <2>1
    <3>2. AnswerFits(A, FilterOf(request), HeadSays(request, deletions, reset, old, On, Off),
                     filter, old, On, Off)
      BY <3>1, AnswerMeans
    <3> HIDE DEF A, f
    <3> QED
      BY <1>1, <1>2, <2>1, <3>2 DEF AnswerFits, f
  <2>3. Lately(M, old, On, Off, i) <=> Lately(A, old, On, Off, i)
    <3> HIDE DEF old, On, Off, A, N
    <3>1. i \in 0 .. Len(A)
      BY <1>1
    <3> QED
      BY <1>1, <3>1, LatelyPrefix
  <2>4. Lately(new, was, On, Off, Len(list) + i) <=> Lately(M, old, On, Off, i)
    <3> HIDE DEF was, On, Off, M, A, N
    <3>1. i \in 0 .. Len(M)
      BY <1>1
    <3> QED
      BY <1>1, <3>1, LatelyJoined
  <2> QED
    BY <2>1, <2>2, <2>3, <2>4 DEF Believes
<1>6. /\ Len(list) + i \in DOMAIN new /\ new[Len(list) + i] = f
      /\ Last(new, AckOf(0), Len(list) + i)
  <2> HIDE DEF A, f, N, M, new
  <2>1. Len(list) + i \in 1 .. Len(new) /\ Len(list) + i > Len(list) + 1
    BY <1>1, <1>2
  <2>2. \A k \in 1 .. Len(new) : k > Len(list) + i => k > Len(list) + 1
    BY <1>1, <1>2
  <2> QED
    BY <1>1, <1>2, <2>1, <2>2 DEF Last, AckOf
<1>7. Cardinality(Matched(request))
        = Cardinality({d \in Doc : Believes(new, changes, R, 0, d, Len(list) + i)})
  <2> HIDE DEF new, f
  <2> QED
    BY <1>3, <1>4, <1>6 DEF CountsAgree
<1>8. /\ Matched(request) \in SUBSET Doc /\ Resumed(request, reset) \in SUBSET Doc
      /\ Retained(request, deletions, reset) = Resumed(request, reset)
  <2>1. Matched(request) \in SUBSET Doc /\ Resumed(request, reset) \in SUBSET Doc
    BY AnswerMessages
  <2>2. Retained(request, deletions, reset) = Resumed(request, reset)
    BY DEF Retained, LeftToFilter
  <2> QED
    BY <2>1, <2>2
<1>9. {d \in Doc : Believes(new, changes, R, 0, d, Len(list) + i)}
        = Matched(request) \union Resumed(request, reset)
  <2> HIDE DEF new
  <2> QED
    BY <1>5, <1>8
<1>10. IsFiniteSet(Matched(request) \union Resumed(request, reset))
  <2>1. IsFiniteSet(Doc)
    BY WatchSyncAssumption, FS_Interval DEF Doc
  <2> QED
    BY <1>8, <2>1, FS_Subset
<1> HIDE DEF new
<1>11. Matched(request) \union Resumed(request, reset) = Matched(request)
  <2> DEFINE X == Matched(request)
             Y == Matched(request) \union Resumed(request, reset)
  <2>1. X \in SUBSET Y /\ Cardinality(X) = Cardinality(Y) /\ IsFiniteSet(Y)
    BY <1>7, <1>9, <1>10
  <2> HIDE DEF X, Y
  <2>2. X = Y
    BY <2>1, FS_Subset
  <2> QED
    BY <2>2 DEF X, Y
<1> QED
  BY <1>11

(* The target of the answer. *)
LEMMA TuneAnswered ==
    ASSUME NEW list \in Seq(ServerMessage), told \in Partial(Target, Served),
           NEW request \in ClientMessage, request.type = "watch",
           NEW deletions \in BOOLEAN, NEW filter \in BOOLEAN, NEW early \in BOOLEAN,
           NEW reset \in BOOLEAN, NEW changes, NEW R, StandsFor(request, R), Aimed(request),
           \/ Retained(request, deletions, reset) \subseteq Matched(request)
           \/ LeftToFilter(deletions, filter),
           request.target = 0 =>
              CountsAgree(list \o (Answer(request, deletions, filter, early, reset)
                                     \o News(ServedThen(request))), changes, R)
    PROVE  InTune(list \o (Answer(request, deletions, filter, early, reset)
                             \o News(ServedThen(request))),
                  changes, R, request.target, request.scope, Matched(request))
<1> DEFINE A == Answer(request, deletions, filter, early, reset)
           served == ServedThen(request)
           N == News(served)
           M == A \o N
           new == list \o M
           f == FilterOf(request)
<1>1. /\ A \in Seq(ServerMessage) /\ N \in Seq(ServerMessage)
      /\ M \in Seq(ServerMessage) /\ new \in Seq(ServerMessage)
      /\ Len(list) \in Nat /\ Len(A) \in Nat /\ Len(N) \in Nat
      /\ Len(M) = Len(A) + Len(N) /\ Len(new) = Len(list) + Len(M)
      /\ Len(A) >= 1 /\ Len(N) >= 1
      /\ DOMAIN A = 1 .. Len(A) /\ DOMAIN new = 1 .. Len(new)
      /\ new[Len(list) + 1] \in AckOf(request.target)
      /\ \A i \in 1 .. Len(new) : i \notin 1 .. Len(list) /\ new[i].type = "snapshot"
           => i = Len(new) /\ new[i] = AllTold
  <2>1. Stands(list, A, N, request.target)
    BY AnswerParts
  <2> HIDE DEF A, N
  <2> QED
    BY <2>1 DEF Stands
<1>2. Matched(request) \in SUBSET Doc /\ IsFiniteSet(Matched(request))
  BY AnswerMessages
<1>3. ASSUME NEW d \in request.scope
      PROVE  Believes(new, changes, R, request.target, d, Len(new)) <=> d \in Matched(request)
  <2> DEFINE On == JoinsFor(request.target, d, R)
             Off == LeavesFor(request.target, d, R)
             was == HoldsIn(changes, R, d)
             old == Lately(list, was, On, Off, Len(list))
             mid == Lately(A, old, On, Off, Len(A))
             said == HeadSays(request, deletions, reset, old, On, Off)
  <2>1. /\ said <=> d \in Matched(request) \union Retained(request, deletions, reset)
        /\ CurrentOf(request.target) \notin On \union Off /\ f \notin On
        /\ f \in Off <=> request.target # 0 /\ Cardinality(Matched(request)) = 0
    <3> HIDE DEF old
    <3>1. HeadFits(request, deletions, reset, old, d, On, Off)
      BY HeadMeans
    <3> HIDE DEF On, Off, f
    <3> QED
      BY <3>1 DEF HeadFits, f
  <2>2. mid <=> said /\ ~(filter /\ f \in Off)
    <3> HIDE DEF old, On, Off
    <3>1. CurrentOf(request.target) \notin On \union Off /\ FilterOf(request) \notin On
      BY <2>1
    <3>2. AnswerFits(A, FilterOf(request), HeadSays(request, deletions, reset, old, On, Off),
                     filter, old, On, Off)
      BY <3>1, AnswerMeans
    <3> HIDE DEF A
    <3> QED
      BY <3>2 DEF AnswerFits
  <2>3. mid <=> d \in Matched(request)
    <3>1. f \in Off => Matched(request) = {}
      BY <1>2, <2>1, FS_EmptySet
    <3>2. CASE Retained(request, deletions, reset) \subseteq Matched(request)
      <4> HIDE DEF mid, said, f, On, Off
      <4> QED
        BY <2>1, <2>2, <3>1, <3>2
    <3>3. CASE /\ ~(Retained(request, deletions, reset) \subseteq Matched(request))
               /\ LeftToFilter(deletions, filter)
      <4>1. request.target # 0
        <5> SUFFICES ASSUME request.target = 0 PROVE FALSE
          OBVIOUS
        <5>1. CountsAgree(new, changes, R)
          OBVIOUS
        <5>2. Resumed(request, reset) \subseteq Matched(request)
          BY <3>3, <5>1, FilterNotices
        <5>3. Retained(request, deletions, reset) \subseteq Resumed(request, reset)
          BY DEF Retained
        <5> QED
          BY <3>3, <5>2, <5>3
      <4>2. Retained(request, deletions, reset) \subseteq request.scope
            /\ Matched(request) \subseteq request.scope
        BY DEF Retained, Resumed, Matched
      <4>3. Matched(request) = {}
        BY <3>3, <4>1, <4>2 DEF Aimed
      <4>4. Cardinality(Matched(request)) = 0
        BY <4>3, FS_EmptySet
      <4> HIDE DEF mid, said, f, On, Off
      <4> QED
        BY <2>1, <2>2, <3>3, <4>1, <4>3, <4>4 DEF LeftToFilter
    <3> QED
      BY <3>2, <3>3
  <2>4. Lately(N, mid, On, Off, Len(N)) <=> d \in Present
    <3>1. /\ served \in Partial(Target, Served) /\ request.target \in DOMAIN served
          /\ served[request.target] = [scope |-> request.scope, docs |-> Matched(request)]
      BY ServedThenFacts
    <3> HIDE DEF mid, served
    <3>2. mid <=> d \in served[request.target].docs
      BY <2>3, <3>1
    <3>3. d \in served[request.target].scope
      BY <3>1
    <3> QED
      BY <3>1, <3>2, <3>3, NewsSays
  <2>5. Lately(M, old, On, Off, Len(M)) <=> Lately(N, mid, On, Off, Len(N))
    <3> HIDE DEF old, On, Off, A, N
    <3>1. Len(N) \in 0 .. Len(N) /\ Len(M) = Len(A) + Len(N)
      BY <1>1
    <3> QED
      BY <1>1, <3>1, LatelyJoined
  <2>6. Lately(new, was, On, Off, Len(new)) <=> Lately(M, old, On, Off, Len(M))
    <3> HIDE DEF was, On, Off, M
    <3>1. Len(M) \in 0 .. Len(M) /\ Len(new) = Len(list) + Len(M)
      BY <1>1
    <3> QED
      BY <1>1, <3>1, LatelyJoined
  <2>7. d \in Present <=> d \in Matched(request)
    BY DEF Matched
  <2> QED
    BY <2>4, <2>5, <2>6, <2>7 DEF Believes
<1>4. ASSUME NEW d \in request.scope, NEW j \in 1 .. Len(new), new[j].type = "snapshot",
             Last(new, AckOf(request.target), j)
      PROVE  Believes(new, changes, R, request.target, d, j) <=> d \in new[j].token
  <2>1. j \notin 1 .. Len(list)
    <3> HIDE DEF new, M, N, A
    <3>1. Len(list) + 1 \in 1 .. Len(new)
      BY <1>1
    <3>2. ~(Len(list) + 1 > j)
      BY <1>1, <1>4, <3>1 DEF Last
    <3> QED
      BY <1>1, <3>2
  <2>2. j = Len(new) /\ new[j] = AllTold
    BY <1>1, <1>4, <2>1
  <2>3. d \in new[j].token <=> d \in Matched(request)
    <3> HIDE DEF new
    <3> QED
      BY <2>2 DEF AllTold, Matched
  <2> QED
    BY <1>3, <2>2, <2>3
<1> QED
  BY <1>1, <1>3, <1>4 DEF InTune

-----------------------------------------------------------------------------
(* The steps of the client, each target's part in them: it is kept as it is, *)
(* listened to from the start, or raised by a global snapshot.               *)
TargetKept(t) ==
    /\ t \in DOMAIN resume /\ t \in DOMAIN resume' /\ resume'[t] = resume[t]
    /\ t # 0 => active'[t] = active[t]
    /\ t \in DOMAIN states <=> t \in DOMAIN states'
    /\ Accepted(t)' = Accepted(t)
    /\ Asks(toServer, t) <=> Asks(toServer', t)
    /\ LastAsk(toServer, t, WatchFor(Book, t)) => LastAsk(toServer', t, WatchFor(Book', t))

TargetBegun(t) ==
    /\ t # 0 => ~active'[t].received
    /\ resume'[t] = NoToken
    /\ open => Asks(toServer', t) /\ LastAsk(toServer', t, WatchFor(Book', t))

LEMMA BookPartsAfter ==
    /\ Book'.queue = queue' /\ Book'.active = active' /\ Book'.resume = resume'
    /\ Book'.states = states' /\ Book'.sent = toServer'
BY DEF Book

LEMMA KeptMeans ==
    ASSUME NEW t, Kept(Book, Book', t) PROVE TargetKept(t)
<1>1. /\ t \in DOMAIN resume /\ t \in DOMAIN resume' /\ resume'[t] = resume[t]
      /\ t # 0 => active'[t] = active[t]
      /\ t \in DOMAIN states <=> t \in DOMAIN states'
      /\ t \in DOMAIN states => states'[t] = states[t]
      /\ Asks(toServer, t) <=> Asks(toServer', t)
      /\ \A m : LastAsk(toServer, t, m) => LastAsk(toServer', t, m)
  BY BookParts, BookPartsAfter DEF Kept
<1>2. WatchFor(Book', t) = WatchFor(Book, t)
  BY <1>1, BookParts, BookPartsAfter DEF WatchFor
<1>3. Accepted(t)' = Accepted(t)
  BY <1>1 DEF Accepted, Fresh, NoChanges
<1> QED
  BY <1>1, <1>2, <1>3 DEF TargetKept

LEMMA BegunMeans ==
    ASSUME NEW t, Begun(Book', t) PROVE TargetBegun(t)
<1>1. /\ t # 0 => ~active'[t].received
      /\ resume'[t] = NoToken
      /\ open => LastAsk(toServer', t, WatchFor(Book', t))
  BY BookPartsAfter DEF Begun
<1>2. LastAsk(toServer', t, WatchFor(Book', t)) => Asks(toServer', t)
  <2>1. WatchFor(Book', t).target = t
    BY DEF WatchFor
  <2> QED
    BY <2>1 DEF LastAsk, Asks
<1> QED
  BY <1>1, <1>2 DEF TargetBegun

(* The view is computed anew, for a local write. *)
ViewStep ==
    /\ TargetKept(0)
    /\ \A t \in DOMAIN resume' : TargetKept(t) \/ TargetBegun(t)
    /\ ~open => states' = states /\ toServer' = toServer
    /\ limbo' = IF current THEN Shown(cache', mutated') \ (synced \union mutatedKeys')
                ELSE limbo
    /\ UNCHANGED <<serverDocs, keys, token, synced, current, updates, mismatch, open,
                   heard, toClient, told, intact>>

LEMMA ViewSteps ==
    ASSUME SyncInv, NEW docs, NEW writes, NEW renewed,
           ApplyChanges(Book, docs, writes, renewed, synced, current),
           docs = cache', writes = mutated',
           UNCHANGED <<serverDocs, keys, token, updates, mismatch, open, heard, toClient,
                       told, intact>>
    PROVE  ViewStep /\ mutatedKeys' = Mutated(docs, writes, renewed)
<1>1. /\ Sound(Book, Pending, Book, limbo) /\ Pending \in [Target -> Nat]
      /\ limbo \in SUBSET Doc
  BY InvFacts DEF SyncInv, PlainTypeOK
<1>2. /\ Continues(Book, Book') /\ mutatedKeys' = Mutated(docs, writes, renewed)
      /\ limbo' = IF current THEN Shown(docs, writes) \ (synced \union mutatedKeys')
                  ELSE limbo
  BY <1>1, ApplyChangesContinues
<1>3. synced' = synced /\ current' = current
  BY DEF ApplyChanges
<1>4. TargetKept(0)
  BY <1>2, KeptMeans DEF Continues
<1>5. ASSUME NEW t \in DOMAIN resume' PROVE TargetKept(t) \/ TargetBegun(t)
  <2>1. Kept(Book, Book', t) \/ Begun(Book', t)
    BY <1>2, BookPartsAfter DEF Continues
  <2> QED
    BY <2>1, KeptMeans, BegunMeans
<1>6. ~open => states' = states /\ toServer' = toServer
  BY <1>2, BookParts, BookPartsAfter DEF Continues
<1> QED
  BY <1>2, <1>3, <1>4, <1>5, <1>6 DEF ViewStep

(* A document with a queued write keeps its local mutations. *)
LEMMA WritesAreMutated ==
    ASSUME NEW docs, NEW writes, NEW renewed
    PROVE  Shown(docs, writes) \intersect writes \subseteq Mutated(docs, writes, renewed)
BY DEF Mutated

(* The documents whose version the acknowledgement of a write replaces. *)
RenewedBy(d) == IF cache[d] = "unborn" THEN {} ELSE {d}

LEMMA WriteLocallyStep ==
    ASSUME SyncInv, NEW d \in Doc, WriteLocally(d)
    PROVE  ViewStep /\ mutatedKeys' = Mutated(cache', mutated', {})
<1>1. /\ ApplyChanges(Book, cache, mutated', {}, synced, current) /\ cache' = cache
      /\ UNCHANGED <<serverDocs, keys, token, updates, mismatch, open, heard, toClient,
                     told, intact>>
  BY DEF WriteLocally
<1>2. ApplyChanges(Book, cache', mutated', {}, synced, current)
  BY <1>1
<1> QED
  BY <1>1, <1>2, ViewSteps

LEMMA AcknowledgeStep ==
    ASSUME SyncInv, NEW d \in Doc, Acknowledge(d)
    PROVE  ViewStep /\ mutatedKeys' = Mutated(cache', mutated', RenewedBy(d))
<1>1. /\ ApplyChanges(Book, cache', mutated', RenewedBy(d), synced, current)
      /\ UNCHANGED <<serverDocs, keys, token, updates, mismatch, open, heard, toClient,
                     told, intact>>
  BY DEF Acknowledge, RenewedBy
<1> QED
  BY <1>1, ViewSteps

-----------------------------------------------------------------------------
(* A target that a global snapshot raises. *)
TargetRaised(t, known) ==
    /\ t \in DOMAIN resume /\ t \in DOMAIN resume' /\ resume'[t] = known
    /\ IsActive(t) /\ t \in DOMAIN states /\ t \in DOMAIN states'
    /\ states'[t].changes = NoChanges /\ states'[t].current = states[t].current
    /\ states'[t].outstanding = 0
    /\ Asks(toServer, t) <=> Asks(toServer', t)
    /\ t # 0 => /\ active'[t].key = active[t].key
                /\ active'[t].received <=>
                     IF active[t].received THEN states[t].changes[active[t].key] # "removed"
                     ELSE states[t].changes[active[t].key] = "added"

SettledTarget(t, known) ==
    IF t \in Raised THEN TargetRaised(t, known) ELSE TargetKept(t)

LEMMA SettledMeans ==
    ASSUME SyncInv, NEW known \in SUBSET Doc, NEW t, Kept(Settled(known), Book', t)
    PROVE  SettledTarget(t, known)
<1> DEFINE a == Settled(known)
<1>1. /\ a.resume = [u \in DOMAIN resume |-> IF u \in Raised THEN known ELSE resume[u]]
      /\ a.states = [u \in DOMAIN states |->
            IF u \in Raised
            THEN [states[u] EXCEPT !.changes = NoChanges, !.pending = FALSE] ELSE states[u]]
      /\ a.active = Resolutions(Raised)
      /\ a.sent = toServer
  BY DEF Settled, Noted, Book
<1> HIDE DEF a
<1>2. /\ t \in DOMAIN a.resume /\ t \in DOMAIN resume' /\ resume'[t] = a.resume[t]
      /\ t # 0 => active'[t] = a.active[t]
      /\ t \in DOMAIN a.states <=> t \in DOMAIN states'
      /\ t \in DOMAIN a.states => states'[t] = a.states[t]
      /\ Asks(a.sent, t) <=> Asks(toServer', t)
      /\ \A m : LastAsk(a.sent, t, m) => LastAsk(toServer', t, m)
  BY BookPartsAfter DEF Kept, a
<1>3. /\ t \in DOMAIN resume /\ (t \in DOMAIN states <=> t \in DOMAIN states')
      /\ t # 0 => t \in DOMAIN active
  <2>1. DOMAIN a.resume = DOMAIN resume /\ DOMAIN a.states = DOMAIN states
    BY <1>1
  <2>2. DOMAIN resume = DOMAIN active \union {0}
    BY InvFacts
  <2> QED
    BY <1>2, <2>1, <2>2
<1>4. CASE t \in Raised
  <2>1. /\ t \in DOMAIN states /\ IsActive(t) /\ states[t].outstanding = 0
        /\ states[t] \in TargetStates
    BY <1>4, InvFacts, PartialFacts DEF Raised, IsActive
  <2>2. states'[t] = [states[t] EXCEPT !.changes = NoChanges, !.pending = FALSE]
    BY <1>1, <1>2, <1>3, <1>4, <2>1
  <2>3. /\ states'[t].changes = NoChanges /\ states'[t].current = states[t].current
        /\ states'[t].outstanding = 0
    BY <2>1, <2>2 DEF TargetStates
  <2>4. resume'[t] = known
    BY <1>1, <1>2, <1>3, <1>4
  <2>5. ASSUME t # 0
        PROVE  /\ active'[t].key = active[t].key
               /\ active'[t].received <=>
                    IF active[t].received THEN states[t].changes[active[t].key] # "removed"
                    ELSE states[t].changes[active[t].key] = "added"
    <3>1. t \in DOMAIN active /\ active[t] \in Resolution
      BY <1>3, <2>5, InvFacts, PartialFacts
    <3>2. active'[t] = [active[t] EXCEPT !.received =
                          IF @ THEN states[t].changes[active[t].key] # "removed"
                          ELSE states[t].changes[active[t].key] = "added"]
      BY <1>1, <1>2, <1>4, <2>5, <3>1 DEF Resolutions
    <3> QED
      BY <3>1, <3>2 DEF Resolution
  <2>6. Asks(toServer, t) <=> Asks(toServer', t)
    BY <1>1, <1>2
  <2>7. TargetRaised(t, known)
    BY <1>2, <1>3, <2>1, <2>3, <2>4, <2>5, <2>6 DEF TargetRaised
  <2> QED
    BY <1>4, <2>7 DEF SettledTarget
<1>5. CASE t \notin Raised
  <2>1. resume'[t] = resume[t]
    BY <1>1, <1>2, <1>3, <1>5
  <2>2. t # 0 => active'[t] = active[t]
    BY <1>1, <1>2, <1>3, <1>5 DEF Resolutions
  <2>3. t \in DOMAIN states => states'[t] = states[t]
    BY <1>1, <1>2, <1>3, <1>5
  <2>4. Accepted(t)' = Accepted(t)
    BY <1>3, <2>3 DEF Accepted, Fresh, NoChanges
  <2>5. WatchFor(Book', t) = WatchFor(Book, t)
    BY <2>1, <2>2, BookParts, BookPartsAfter DEF WatchFor
  <2>6. TargetKept(t)
    BY <1>1, <1>2, <1>3, <2>1, <2>2, <2>4, <2>5 DEF TargetKept
  <2> QED
    BY <1>5, <2>6 DEF SettledTarget
<1> QED
  BY <1>4, <1>5

LEMMA RewatchKeeps ==
    ASSUME NEW old, NEW acks \in [Target -> Nat], NEW b, Carries(old, acks, b)
    PROVE  /\ Begun(Rewatch(b), 0)
           /\ \A t \in DOMAIN b.resume : t # 0 => Kept(b, Rewatch(b), t)
           /\ DOMAIN Rewatch(b).resume = DOMAIN b.resume
<1> DEFINE c == [b EXCEPT !.resume[0] = NoToken]
           m1 == [type |-> "unwatch", target |-> 0]
           e == Request(c, 0, m1)
           m2 == [type |-> "watch", target |-> 0, scope |-> Doc, token |-> e.resume[0]]
           f == Request(e, 0, m2)
<1>1. /\ b \in [queue : Seq(Doc), active : Partial(Target \ {0}, Resolution),
                resume : Partial(Target, Token), states : Partial(Target, TargetStates),
                sent : Seq(ClientMessage)]
      /\ b.resume \in Partial(Target, Token)
      /\ DOMAIN b.resume = DOMAIN b.active \union {0} /\ b \in Books
  BY BookFacts DEF Carries
<1>2. /\ c.resume = [b.resume EXCEPT ![0] = NoToken] /\ c.states = b.states
      /\ c.active = b.active /\ c.sent = b.sent /\ c.queue = b.queue
      /\ c = [queue |-> c.queue, active |-> c.active, resume |-> c.resume,
              states |-> c.states, sent |-> c.sent]
  BY <1>1, SMTT(30)
<1>3. /\ DOMAIN c.resume = DOMAIN b.resume /\ c.resume[0] = NoToken
      /\ \A u \in DOMAIN b.resume : u # 0 => c.resume[u] = b.resume[u]
  BY <1>1, <1>2
<1>4. c.resume \in Partial(Target, Token)
  <2>1. DOMAIN b.resume \in SUBSET Target /\ IsFiniteSet(DOMAIN b.resume)
        /\ \A u \in DOMAIN b.resume : b.resume[u] \in Token
    BY <1>1, PartialFacts
  <2>2. c.resume \in [DOMAIN b.resume -> Token]
    BY <1>1, <1>2, <2>1, TokensAreTyped
  <2> QED
    BY <2>1, <2>2, FunctionIsPartial
<1> HIDE DEF c
<1>5. c \in Books
  <2>1. c \in [queue : Seq(Doc), active : Partial(Target \ {0}, Resolution),
               resume : Partial(Target, Token), states : Partial(Target, TargetStates),
               sent : Seq(ClientMessage)]
    BY <1>1, <1>2, <1>4, BookFacts
  <2> QED
    BY <1>1, <1>2, <1>3, <2>1 DEF Books
<1> DEFINE un == SendUnwatch(c, 0)
<1>13. Carries(old, acks, c)
  <2>1. \A u \in DOMAIN c.active : u \in DOMAIN b.active /\ c.active[u] = b.active[u]
    BY <1>2
  <2> QED
    BY <1>2, <1>3, <1>5, <2>1, NarrowedCarries
<1>14. un \in Books /\ un = e
  <2>1. un \in Books
    BY <1>13, SendUnwatchCarries DEF Carries, Target
  <2> QED
    BY <2>1 DEF SendUnwatch
<1> HIDE DEF un
<1>6. m1 \in ClientMessage /\ m1.target = 0
  BY WatchIsMessage, TokensAreTyped DEF Target, ClientMessage
<1> HIDE DEF m1
<1>7. /\ e.queue = c.queue /\ e.active = c.active /\ e.resume = c.resume
      /\ e.sent = Append(c.sent, m1)
      /\ e \in Books
  <2>1. /\ e.queue = c.queue /\ e.active = c.active /\ e.resume = c.resume
        /\ e.sent = Append(c.sent, m1)
    BY <1>5, RequestFields
  <2>2. e \in Books
    BY <1>14
  <2> QED
    BY <2>1, <2>2
<1> HIDE DEF e
<1>8. m2 \in ClientMessage /\ m2.target = 0 /\ e.resume[0] = NoToken
  BY <1>3, <1>7, WatchIsMessage, TokensAreTyped DEF Target
<1>9. Rewatch(b) = f
  BY DEF Rewatch, SendWatch, SendUnwatch, f, m2, e, m1, c
<1>10. m2 = WatchFor(f, 0) /\ f.resume = c.resume /\ f.sent = Append(e.sent, m2)
  <2>1. f.resume = e.resume /\ f.sent = Append(e.sent, m2)
    BY <1>7, RequestFields
  <2> QED
    BY <1>7, <2>1 DEF WatchFor
<1>11. \A t \in DOMAIN b.resume : t # 0 => Kept(b, f, t)
  <2> SUFFICES ASSUME NEW t \in DOMAIN b.resume, t # 0 PROVE Kept(b, f, t)
    OBVIOUS
  <2>1. t \in DOMAIN c.resume /\ t \in DOMAIN e.resume
    BY <1>3, <1>7
  <2>2. Kept(b, c, t)
    BY <1>2, <1>3 DEF Kept
  <2>3. Kept(c, e, t)
    BY <1>5, <1>6, <2>1, RequestKeeps DEF e
  <2>4. Kept(e, f, t)
    <3> HIDE DEF m2
    <3> QED
      BY <1>7, <1>8, <2>1, RequestKeeps
  <2> QED
    BY <2>2, <2>3, <2>4, KeptTwice
<1>12. LastAsk(f.sent, 0, WatchFor(f, 0))
  <2>1. e.sent \in Seq(ClientMessage)
    BY <1>7, BookFacts
  <2> HIDE DEF m2, f
  <2>2. LastAsk(Append(e.sent, m2), 0, m2)
    BY <1>8, <2>1, AskedNow
  <2> QED
    BY <1>10, <2>2
<1> HIDE DEF f
<1> QED
  BY <1>3, <1>9, <1>10, <1>11, <1>12 DEF Begun

-----------------------------------------------------------------------------
(* A global snapshot is taken. *)
KnownThen ==
    IF 0 \in Raised THEN (synced \ RemovedFrom(Accepted(0))) \union AddedTo(Accepted(0))
    ELSE synced

SnapshotStep(known, saved) ==
    /\ toClient # <<>> /\ Head(toClient).type = "snapshot" /\ known = Head(toClient).token
    /\ toClient' = Tail(toClient) /\ known \in SUBSET Doc
    /\ mismatch => TargetBegun(0)
    /\ ~mismatch => SettledTarget(0, known)
    /\ \A t \in DOMAIN resume' : SettledTarget(t, known) \/ TargetBegun(t)
    /\ synced' = KnownThen
    /\ keys' = IF 0 \in Raised
               THEN (keys \ RemovedFrom(Accepted(0))) \union AddedTo(Accepted(0)) ELSE keys
    /\ token' = saved
    /\ IF 0 \in Raised THEN MustPersist(Accepted(0)) => saved = known ELSE saved = token
    /\ current' = IF 0 \in Raised THEN Accepted(0).current ELSE current
    /\ cache' = [d \in Doc |->
                    Newer(cache[d], IF \E t \in Denied : active[t].key = d
                                    THEN "deleted" ELSE updates[d])]
    /\ mutatedKeys' = Mutated(cache', mutated', Changed)
    /\ limbo' = IF current' THEN Shown(cache', mutated') \ (synced' \union mutatedKeys')
                ELSE limbo
    /\ updates' = NoChanges /\ mismatch' = FALSE /\ heard' = TRUE
    /\ saved \in {token, known}
    /\ UNCHANGED <<serverDocs, mutated, open, told, intact>>

LEMMA SnapshotSteps ==
    ASSUME SyncInv, Receive, Head(toClient).type = "snapshot"
    PROVE  \E saved \in {token, Head(toClient).token} : SnapshotStep(Head(toClient).token, saved)
<1> DEFINE known == Head(toClient).token
<1>1. /\ toClient # <<>> /\ toClient' = Tail(toClient) /\ toClient \in Seq(ServerMessage)
      /\ heard' = TRUE /\ UNCHANGED <<serverDocs, open, told, intact>>
  BY DEF SyncInv, PlainTypeOK, Receive
<1>2. PICK saved \in {token, known} : HandleSnapshot(known, saved)
  BY DEF Receive
<1>3. known \in SUBSET Doc
  <2>1. Head(toClient) \in ServerMessage
    BY <1>1, HeadTailProperties
  <2> DEFINE m == Head(toClient)
  <2>2. m \in ServerMessage /\ m.type = "snapshot"
    BY <2>1
  <2> HIDE DEF m
  <2>3. m.token \in SUBSET Doc
    BY <2>2 DEF ServerMessage
  <2> QED
    BY <2>3 DEF m
<1> HIDE DEF known
<1> DEFINE change == Accepted(0)
           inEvent == 0 \in Raised
           noted == Settled(known)
           next == IF mismatch THEN Rewatch(noted) ELSE noted
           isCurrent == IF inEvent THEN change.current ELSE current
<1>4. /\ keys' = IF inEvent THEN (keys \ RemovedFrom(change)) \union AddedTo(change) ELSE keys
      /\ IF inEvent THEN MustPersist(change) => saved = known ELSE saved = token
      /\ token' = saved /\ updates' = NoChanges /\ mismatch' = FALSE /\ mutated' = mutated
      /\ cache' = [d \in Doc |->
                    Newer(cache[d], IF \E t \in Denied : active[t].key = d
                                    THEN "deleted" ELSE updates[d])]
  BY <1>2 DEF HandleSnapshot, Raised
<1>5. ApplyChanges(next, cache', mutated, Changed, KnownThen, isCurrent)
  BY <1>2 DEF HandleSnapshot, Raised, Settled, KnownThen
<1>6. Sound(noted, Pending, noted, limbo)
  BY <1>3, SettledFacts
<1>7. /\ Pending \in [Target -> Nat] /\ limbo \in SUBSET Doc
  BY InvFacts DEF SyncInv, PlainTypeOK
<1> HIDE DEF noted
<1>8. Sound(noted, Pending, next, limbo) /\ Carries(noted, Pending, noted)
  BY <1>6, <1>7, RewatchSound DEF Sound
<1> HIDE DEF isCurrent, change, inEvent
<1>9a. Book' \in Books /\ Continues(next, Book')
  <2> HIDE DEF next
  <2> QED
    BY <1>5, <1>7, <1>8, ApplyChangesContinues
<1>9b. /\ mutatedKeys' = Mutated(cache', mutated, Changed)
       /\ limbo' = IF isCurrent THEN Shown(cache', mutated) \ (KnownThen \union mutatedKeys')
                   ELSE limbo
  BY <1>5 DEF ApplyChanges
<1>9. /\ Book' \in Books /\ Continues(next, Book')
      /\ mutatedKeys' = Mutated(cache', mutated, Changed)
      /\ limbo' = IF isCurrent THEN Shown(cache', mutated) \ (KnownThen \union mutatedKeys')
                  ELSE limbo
  BY <1>9a, <1>9b
<1>10. synced' = KnownThen /\ current' = isCurrent
  BY <1>5 DEF ApplyChanges
<1>11. mismatch => TargetBegun(0)
  <2> SUFFICES ASSUME mismatch PROVE TargetBegun(0)
    OBVIOUS
  <2>1. Begun(Rewatch(noted), 0) /\ next = Rewatch(noted)
    BY <1>7, <1>8, RewatchKeeps
  <2>2. Kept(Rewatch(noted), Book', 0)
    BY <1>9, <2>1 DEF Continues
  <2> QED
    BY <2>1, <2>2, BegunAndKept, BegunMeans
<1>12. ~mismatch => SettledTarget(0, known)
  <2> SUFFICES ASSUME ~mismatch PROVE SettledTarget(0, known)
    OBVIOUS
  <2>1. Kept(noted, Book', 0)
    BY <1>9 DEF Continues
  <2> QED
    BY <1>3, <2>1, SettledMeans DEF noted
<1>13. ASSUME NEW t \in DOMAIN resume'
       PROVE  SettledTarget(t, known) \/ TargetBegun(t)
  <2>1. Kept(next, Book', t) \/ Begun(Book', t)
    BY <1>9, BookPartsAfter DEF Continues
  <2>2. CASE Begun(Book', t)
    BY <2>2, BegunMeans
  <2>3. CASE Kept(next, Book', t)
    <3>1. CASE t = 0
      BY <1>11, <1>12, <3>1
    <3>2. CASE t # 0
      <4>1. Kept(noted, next, t)
        <5>1. t \in DOMAIN next.resume
          BY <2>3 DEF Kept
        <5>2. noted \in Books
          BY <1>8 DEF Carries
        <5>3. DOMAIN next.resume = DOMAIN noted.resume
          BY <1>7, <1>8, RewatchKeeps
        <5>4. t \in DOMAIN noted.resume
          BY <5>1, <5>3
        <5>5. CASE mismatch
          BY <1>7, <1>8, <3>2, <5>4, <5>5, RewatchKeeps
        <5>6. CASE ~mismatch
          BY <5>2, <5>4, <5>6, KeptItself
        <5> QED
          BY <5>5, <5>6
      <4>2. Kept(noted, Book', t)
        BY <2>3, <4>1, KeptTwice
      <4> QED
        BY <1>3, <4>2, SettledMeans DEF noted
    <3> QED
      BY <3>1, <3>2
  <2> QED
    BY <2>1, <2>2, <2>3
<1>14. /\ mutatedKeys' = Mutated(cache', mutated', Changed)
       /\ limbo' = IF current' THEN Shown(cache', mutated') \ (synced' \union mutatedKeys')
                   ELSE limbo
  BY <1>4, <1>9, <1>10
<1>15. /\ known = Head(toClient).token
       /\ current' = IF 0 \in Raised THEN Accepted(0).current ELSE current
  BY <1>10 DEF known, isCurrent, inEvent, change
<1>16. SnapshotStep(known, saved)
  BY <1>1, <1>3, <1>4, <1>10, <1>11, <1>12, <1>13, <1>14, <1>15 DEF SnapshotStep, inEvent, change
<1> QED
  BY <1>2, <1>16 DEF known

-----------------------------------------------------------------------------
(* What a response that is no snapshot does. *)
ChangedTo(m, t, d, R, was) ==
    IF m \in LeavesFor(t, d, R) THEN IF d \in R THEN "removed" ELSE "none"
    ELSE IF m \in JoinsFor(t, d, R) THEN IF d \in R THEN "modified" ELSE "added"
    ELSE was

UpdatedTo(m, d) ==
    IF m.type = "change" /\ d \in m.here THEN "present"
    ELSE IF m.type = "change" /\ d \in m.gone THEN "deleted"
    ELSE IF m.type = "filter" /\ m.target # 0 /\ m.count = 0 /\ d \in Scope(m.target)
         THEN "revoked" ELSE updates[d]

CountsWell(count) ==
    Cardinality(synced) + Cardinality(AddedTo(Accepted(0)))
        - Cardinality(RemovedFrom(Accepted(0))) = count

AckTaken(m) ==
    /\ UNCHANGED <<updates, mismatch>>
    /\ m.type = "added" =>
         /\ m.target \in DOMAIN states'
         /\ states'[m.target].outstanding = 0 => states'[m.target].changes = NoChanges
    /\ m.type = "removed" /\ m.target \in DOMAIN states'
         => states'[m.target].outstanding # 0

Mistaken(m) ==
    /\ m.type = "filter" /\ m.target = 0 /\ ~CountsWell(m.count)
    /\ mismatch' = TRUE /\ updates' = updates
    /\ \A d \in Doc : Accepted(0)'.changes[d] = IF d \in synced THEN "removed" ELSE "none"

TakenIn(m, t) ==
    /\ mismatch' = mismatch
    /\ \A d \in Scope(t) :
         Accepted(t)'.changes[d]
            = ChangedTo(m, t, d, RemoteKeys(t), Accepted(t).changes[d])
    /\ Accepted(t)'.current = (m.type = "current" \/ (Accepted(t).current /\ m.type # "reset"))
    /\ \A d \in Doc : updates'[d] = UpdatedTo(m, d)
    /\ m.type = "filter" /\ t = 0 => CountsWell(m.count)

Aside(u) ==
    \A t : t # u => (t \in DOMAIN states <=> t \in DOMAIN states') /\ Accepted(t)' = Accepted(t)

PlainStep(m) ==
    /\ toClient # <<>> /\ m = Head(toClient) /\ toClient' = Tail(toClient)
    /\ m \in ServerMessage /\ m.type # "snapshot" /\ m.target \in Target
    /\ heard' = TRUE
    /\ UNCHANGED <<diskVars, viewVars, syncVars, toServer, serverDocs, open, told, intact>>
    /\ m.type # "removed" => DOMAIN states \subseteq DOMAIN states'
    /\ Aside(m.target)
    /\ IsAck(m) => AckTaken(m)
    /\ ~IsAck(m) /\ ~IsActive(m.target) => UNCHANGED aggregatorVars
    /\ ~IsAck(m) =>
         \A t : t = m.target /\ IsActive(t) => Mistaken(m) \/ TakenIn(m, t)

LEMMA PutAside ==
    ASSUME SyncInv, NEW t \in Target, NEW x \in TargetStates, states' = Put(states, t, x)
    PROVE  /\ Aside(t) /\ DOMAIN states \subseteq DOMAIN states'
           /\ t \in DOMAIN states' /\ states'[t] = x /\ Accepted(t)' = x
<1>1. states \in Partial(Target, TargetStates)
  BY InvFacts
<1>2. /\ DOMAIN states' = DOMAIN states \union {t} /\ states'[t] = x
      /\ \A u \in DOMAIN states : u # t => states'[u] = states[u]
  BY <1>1, StatePut
<1> QED
  BY <1>2 DEF Aside, Accepted

LEMMA LessAside ==
    ASSUME SyncInv, NEW t \in Target, states' = Less(states, t)
    PROVE  Aside(t) /\ t \notin DOMAIN states'
<1>1. states \in Partial(Target, TargetStates)
  BY InvFacts
<1>2. /\ DOMAIN states' = DOMAIN states \ {t}
      /\ \A u \in DOMAIN states : u # t => states'[u] = states[u]
  BY <1>1 DEF Less
<1> QED
  BY <1>2 DEF Aside, Accepted

LEMMA SameAside == ASSUME UNCHANGED states, NEW t PROVE Aside(t) /\ Accepted(t)' = Accepted(t)
  BY DEF Aside, Accepted

LEMMA WithSaid ==
    ASSUME NEW state \in TargetStates, NEW t, NEW here
    PROVE  /\ With(state, t, here) \in TargetStates
           /\ With(state, t, here).current = state.current
           /\ \A d \in Doc : With(state, t, here).changes[d]
                = IF d \notin here THEN state.changes[d]
                  ELSE IF d \in RemoteKeys(t) THEN "modified" ELSE "added"
  BY DEF With, TargetStates, Change

LEMMA WithoutSaid ==
    ASSUME NEW state \in TargetStates, NEW t, NEW gone
    PROVE  /\ Without(state, t, gone) \in TargetStates
           /\ Without(state, t, gone).current = state.current
           /\ \A d \in Doc : Without(state, t, gone).changes[d]
                = IF d \notin gone THEN state.changes[d]
                  ELSE IF d \in RemoteKeys(t) THEN "removed" ELSE "none"
  BY DEF Without, TargetStates, Change

LEMMA AddedStep ==
    ASSUME SyncInv, NEW m \in ServerMessage, m.type = "added", m.target \in Target,
           Pending[m.target] # 0, HandleAdded(m.target)
    PROVE  Aside(m.target) /\ AckTaken(m) /\ DOMAIN states \subseteq DOMAIN states'
<1> DEFINE t == m.target
           state == [Accepted(t) EXCEPT !.outstanding = @ - 1]
           x == IF state.outstanding > 0 THEN state
                ELSE [state EXCEPT !.changes = NoChanges, !.pending = FALSE]
<1>1. Accepted(t) \in TargetStates /\ Accepted(t).outstanding \in Nat \ {0}
  BY AcceptedFacts DEF TargetStates
<1>2. state \in TargetStates /\ state.outstanding \in Nat
  BY <1>1 DEF TargetStates
<1>3. NoChanges \in [Doc -> Change]
  BY DEF NoChanges, Change
<1> HIDE DEF state
<1>4. x \in TargetStates /\ x.outstanding = state.outstanding
      /\ (x.outstanding = 0 => x.changes = NoChanges)
  <2>1. CASE state.outstanding > 0
    BY <1>2, <2>1
  <2>2. CASE ~(state.outstanding > 0)
    <3>1. x = [state EXCEPT !.changes = NoChanges, !.pending = FALSE]
      BY <2>2
    <3> QED
      BY <1>2, <1>3, <3>1 DEF TargetStates
  <2> QED
    BY <2>1, <2>2
<1>5. states' = Put(states, t, x) /\ UNCHANGED <<updates, mismatch>>
  BY DEF HandleAdded, state
<1> HIDE DEF x
<1>6. /\ Aside(t) /\ DOMAIN states \subseteq DOMAIN states'
      /\ t \in DOMAIN states' /\ states'[t] = x
  BY <1>4, <1>5, PutAside
<1> QED
  BY <1>4, <1>5, <1>6 DEF AckTaken

LEMMA RemovedStep ==
    ASSUME SyncInv, NEW m \in ServerMessage, m.type = "removed", m.target \in Target,
           Pending[m.target] # 0, HandleRemoved(m.target)
    PROVE  Aside(m.target) /\ AckTaken(m)
<1> DEFINE t == m.target
           state == [Accepted(t) EXCEPT !.outstanding = @ - 1]
<1>1. Accepted(t) \in TargetStates /\ Accepted(t).outstanding \in Nat \ {0}
  BY AcceptedFacts DEF TargetStates
<1>2. state \in TargetStates /\ state.outstanding \in Nat
  BY <1>1 DEF TargetStates
<1>3. /\ states' = IF state.outstanding > 0 THEN Put(states, t, state) ELSE Less(states, t)
      /\ UNCHANGED <<updates, mismatch>>
  BY DEF HandleRemoved
<1> HIDE DEF state
<1>4. CASE state.outstanding > 0
  <2>1. Aside(t) /\ t \in DOMAIN states' /\ states'[t] = state
    BY <1>2, <1>3, <1>4, PutAside
  <2> QED
    BY <1>2, <1>3, <1>4, <2>1 DEF AckTaken
<1>5. CASE ~(state.outstanding > 0)
  <2>1. Aside(t) /\ t \notin DOMAIN states'
    BY <1>3, <1>5, LessAside
  <2> QED
    BY <1>3, <2>1 DEF AckTaken
<1> QED
  BY <1>4, <1>5

Quoted(m) ==
    /\ m \in ServerMessage /\ m.type \in {"change", "current", "reset", "filter"}
    /\ IsActive(m.target)

LEMMA QuotedFacts ==
    ASSUME SyncInv, NEW m, Quoted(m)
    PROVE  /\ m.target \in Target /\ Accepted(m.target) \in TargetStates
           /\ Scope(m.target) \subseteq Doc /\ ~IsAck(m)
           /\ \A d, R : m.type = "current" \/ m.type = "filter"
                => m \notin JoinsFor(m.target, d, R)
           /\ \A d, R : m.type = "current" \/ (m.type = "filter" /\ (m.target = 0 \/ m.count # 0))
                => m \notin LeavesFor(m.target, d, R)
           /\ \A d, R : m.type = "reset" \/ (m.type = "filter" /\ m.target # 0 /\ m.count = 0)
                => m \in LeavesFor(m.target, d, R)
           /\ \A d, R : m.type = "change" =>
                /\ m \in LeavesFor(m.target, d, R) <=> d \in m.gone
                /\ m \in JoinsFor(m.target, d, R) <=> d \in m.here \ m.gone
<1>1. m.target \in Target /\ Accepted(m.target) \in TargetStates
  BY ActiveTargets DEF Quoted
<1>2. m \in ServerMessage /\ m.type \in {"change", "current", "reset", "filter"} /\ ~IsAck(m)
  BY DEF Quoted, IsAck
<1>3. Scope(m.target) \subseteq Doc
  <2>1. CASE m.target = 0
    BY <2>1 DEF Scope
  <2>2. CASE m.target # 0
    <3>1. m.target \in DOMAIN active
      BY <2>2, InvFacts DEF Quoted, IsActive
    <3>2. active[m.target] \in Resolution
      BY <3>1, InvFacts, PartialFacts
    <3> QED
      BY <2>2, <3>2 DEF Scope, Resolution
  <2> QED
    BY <2>1, <2>2
<1>4. /\ \A d, R : m.type = "current" \/ m.type = "filter"
           => m \notin JoinsFor(m.target, d, R)
      /\ \A d, R : m.type = "current" \/ (m.type = "filter" /\ (m.target = 0 \/ m.count # 0))
           => m \notin LeavesFor(m.target, d, R)
  BY <1>2 DEF JoinsFor, LeavesFor
<1>5. \A d, R : m.type = "reset" \/ (m.type = "filter" /\ m.target # 0 /\ m.count = 0)
           => m \in LeavesFor(m.target, d, R)
  BY <1>2 DEF LeavesFor
<1>6. \A d, R : m.type = "change" =>
           /\ m \in LeavesFor(m.target, d, R) <=> d \in m.gone
           /\ m \in JoinsFor(m.target, d, R) <=> d \in m.here \ m.gone
  BY <1>2 DEF LeavesFor, JoinsFor
<1> QED
  BY <1>1, <1>2, <1>3, <1>4, <1>5, <1>6

LEMMA ChangeStep ==
    ASSUME SyncInv, NEW m, Quoted(m), m.type = "change",
           HandleDocumentChange(m.target, m.here, m.gone)
    PROVE  /\ Aside(m.target) /\ DOMAIN states \subseteq DOMAIN states'
           /\ TakenIn(m, m.target)
<1> DEFINE t == m.target
           old == Accepted(t)
           told1 == With(old, t, m.here)
           x == Without(told1, t, m.gone)
<1>1. /\ t \in Target /\ old \in TargetStates /\ IsActive(t)
      /\ Scope(t) \subseteq Doc
  BY QuotedFacts DEF Quoted
<1> HIDE DEF old
<1>2. /\ told1 \in TargetStates /\ told1.current = old.current
      /\ \A d \in Doc : told1.changes[d] = IF d \notin m.here THEN old.changes[d]
                          ELSE IF d \in RemoteKeys(t) THEN "modified" ELSE "added"
  BY <1>1, WithSaid
<1>3. states' = Put(states, t, x) /\ updates' = Update(m.here, m.gone, "deleted")
      /\ mismatch' = mismatch
  BY <1>1 DEF HandleDocumentChange, old
<1> HIDE DEF told1
<1>4. /\ x \in TargetStates /\ x.current = old.current
      /\ \A d \in Doc : x.changes[d] = IF d \notin m.gone THEN told1.changes[d]
                          ELSE IF d \in RemoteKeys(t) THEN "removed" ELSE "none"
  BY <1>2, WithoutSaid
<1> HIDE DEF x, old
<1>5. Aside(t) /\ DOMAIN states \subseteq DOMAIN states' /\ Accepted(t)' = x
  BY <1>1, <1>3, <1>4, PutAside
<1>6. \A d \in Doc : x.changes[d] = ChangedTo(m, t, d, RemoteKeys(t), old.changes[d])
  BY <1>2, <1>4, QuotedFacts DEF ChangedTo
<1>7. \A d \in Doc : updates'[d] = UpdatedTo(m, d)
  BY <1>3 DEF Update, UpdatedTo
<1>8. x.current = (m.type = "current" \/ (old.current /\ m.type # "reset"))
  BY <1>1, <1>4 DEF TargetStates
<1>9. /\ \A d \in Scope(t) : Accepted(t)'.changes[d]
                               = ChangedTo(m, t, d, RemoteKeys(t), old.changes[d])
      /\ Accepted(t)'.current = (m.type = "current" \/ (old.current /\ m.type # "reset"))
  BY <1>1, <1>5, <1>6, <1>8
<1> QED
  BY <1>3, <1>5, <1>7, <1>9 DEF TakenIn, old

LEMMA CurrentStep ==
    ASSUME SyncInv, NEW m, Quoted(m), m.type = "current", HandleCurrent(m.target)
    PROVE  /\ Aside(m.target) /\ DOMAIN states \subseteq DOMAIN states'
           /\ UNCHANGED <<updates, mismatch>> /\ TakenIn(m, m.target)
<1> DEFINE t == m.target
           old == Accepted(t)
           x == [old EXCEPT !.current = TRUE, !.pending = TRUE]
<1>1. /\ t \in Target /\ old \in TargetStates /\ IsActive(t)
      /\ Scope(t) \subseteq Doc
  BY QuotedFacts DEF Quoted
<1>2. x \in TargetStates /\ x.current = TRUE /\ x.changes = old.changes
  BY <1>1 DEF TargetStates
<1>3. states' = Put(states, t, x) /\ UNCHANGED <<updates, mismatch>>
  BY <1>1 DEF HandleCurrent
<1> HIDE DEF x, old
<1>5. Aside(t) /\ DOMAIN states \subseteq DOMAIN states' /\ Accepted(t)' = x
  BY <1>1, <1>2, <1>3, PutAside
<1>6. \A d \in Doc : x.changes[d] = ChangedTo(m, t, d, RemoteKeys(t), old.changes[d])
  BY <1>2, QuotedFacts DEF ChangedTo
<1>7. \A d \in Doc : updates'[d] = UpdatedTo(m, d)
  BY <1>3 DEF UpdatedTo
<1> QED
  BY <1>1, <1>2, <1>3, <1>5, <1>6, <1>7 DEF TakenIn, old

LEMMA ResetStateFacts ==
    ASSUME NEW t
    PROVE  /\ ResetState(t) \in TargetStates /\ ResetState(t).current = FALSE
           /\ \A d \in Doc : ResetState(t).changes[d]
                               = IF d \in RemoteKeys(t) THEN "removed" ELSE "none"
<1>1. Fresh \in TargetStates /\ Fresh.current = FALSE
      /\ \A d \in Doc : Fresh.changes[d] = "none"
  BY FreshIsTyped DEF Fresh, NoChanges
<1> DEFINE state == Fresh
<1> HIDE DEF state
<1>2. ResetState(t) \in TargetStates
  BY ResetFacts
<1>3. ResetState(t).current = Fresh.current
  BY <1>1 DEF ResetState, Without, TargetStates
<1>4. \A d \in Doc : ResetState(t).changes[d]
                       = IF d \in RemoteKeys(t) THEN "removed" ELSE "none"
  <2>1. state \in TargetStates /\ \A d \in Doc : state.changes[d] = "none"
    BY <1>1 DEF state
  <2>2. \A d \in Doc : Without(state, t, RemoteKeys(t)).changes[d]
                           = IF d \notin RemoteKeys(t) THEN state.changes[d]
                             ELSE IF d \in RemoteKeys(t) THEN "removed" ELSE "none"
    BY <2>1, WithoutSaid
  <2> QED
    BY <2>1, <2>2 DEF ResetState, state
<1> QED
  BY <1>1, <1>2, <1>3, <1>4

LEMMA ResetStep ==
    ASSUME SyncInv, NEW m, Quoted(m), m.type = "reset", HandleReset(m.target)
    PROVE  /\ Aside(m.target) /\ DOMAIN states \subseteq DOMAIN states'
           /\ UNCHANGED <<updates, mismatch>> /\ TakenIn(m, m.target)
<1> DEFINE t == m.target
           old == Accepted(t)
           x == ResetState(t)
<1>1. /\ t \in Target /\ old \in TargetStates /\ IsActive(t)
      /\ Scope(t) \subseteq Doc
  BY QuotedFacts DEF Quoted
<1>2. /\ x \in TargetStates /\ x.current = FALSE
      /\ \A d \in Doc : x.changes[d] = IF d \in RemoteKeys(t) THEN "removed" ELSE "none"
  BY ResetStateFacts
<1>3. states' = Put(states, t, x) /\ UNCHANGED <<updates, mismatch>>
  BY <1>1 DEF HandleReset
<1> HIDE DEF x, old
<1>5. Aside(t) /\ DOMAIN states \subseteq DOMAIN states' /\ Accepted(t)' = x
  BY <1>1, <1>2, <1>3, PutAside
<1>6. \A d \in Doc : x.changes[d] = ChangedTo(m, t, d, RemoteKeys(t), old.changes[d])
  BY <1>2, QuotedFacts DEF ChangedTo
<1>7. \A d \in Doc : updates'[d] = UpdatedTo(m, d)
  BY <1>3 DEF UpdatedTo
<1> QED
  BY <1>1, <1>2, <1>3, <1>5, <1>6, <1>7 DEF TakenIn, old
LEMMA FilterStep ==
    ASSUME SyncInv, NEW m, Quoted(m), m.type = "filter",
           HandleExistenceFilter(m.target, m.count)
    PROVE  /\ Aside(m.target) /\ DOMAIN states \subseteq DOMAIN states'
           /\ Mistaken(m) \/ TakenIn(m, m.target)
<1> DEFINE t == m.target
           old == Accepted(t)
<1>1. /\ t \in Target /\ old \in TargetStates /\ IsActive(t)
      /\ Scope(t) \subseteq Doc
  BY QuotedFacts DEF Quoted
<1>2. old.current = (m.type = "current" \/ (old.current /\ m.type # "reset"))
  BY <1>1 DEF TargetStates
<1>3. ASSUME UNCHANGED aggregatorVars, t # 0 => m.count # 0, t = 0 => CountsWell(m.count)
      PROVE  Aside(t) /\ DOMAIN states \subseteq DOMAIN states' /\ TakenIn(m, t)
  <2>1. UNCHANGED states /\ UNCHANGED <<updates, mismatch>>
    BY <1>3 DEF aggregatorVars
  <2>2. Aside(t) /\ Accepted(t)' = old
    BY <2>1, SameAside
  <2>3. \A d \in Doc : old.changes[d] = ChangedTo(m, t, d, RemoteKeys(t), old.changes[d])
    BY <1>3, QuotedFacts DEF ChangedTo
  <2>4. \A d \in Doc : updates'[d] = UpdatedTo(m, d)
    BY <1>3, <2>1 DEF UpdatedTo
  <2> HIDE DEF old
  <2>5. /\ \A d \in Scope(t) : Accepted(t)'.changes[d]
                                 = ChangedTo(m, t, d, RemoteKeys(t), old.changes[d])
        /\ Accepted(t)'.current = (m.type = "current" \/ (old.current /\ m.type # "reset"))
    BY <1>1, <1>2, <2>2, <2>3
  <2> QED
    BY <1>3, <2>1, <2>2, <2>4, <2>5 DEF TakenIn, old
<1>4. CASE t # 0 /\ m.count # 0
  BY <1>1, <1>3, <1>4 DEF HandleExistenceFilter, aggregatorVars
<1>5. CASE t # 0 /\ m.count = 0
  <2> DEFINE x == Without(old, t, Scope(t))
  <2>1. /\ x \in TargetStates /\ x.current = old.current
        /\ \A d \in Doc : x.changes[d]
              = IF d \notin Scope(t) THEN old.changes[d]
                ELSE IF d \in RemoteKeys(t) THEN "removed" ELSE "none"
    BY <1>1, WithoutSaid
  <2>2. /\ states' = Put(states, t, x) /\ mismatch' = mismatch
        /\ updates' = Update({}, Scope(t), "revoked")
    BY <1>1, <1>5 DEF HandleExistenceFilter
  <2> HIDE DEF x, old
  <2>3. Aside(t) /\ DOMAIN states \subseteq DOMAIN states' /\ Accepted(t)' = x
    BY <1>1, <2>1, <2>2, PutAside
  <2>4. \A d \in Scope(t) : x.changes[d] = ChangedTo(m, t, d, RemoteKeys(t), old.changes[d])
    BY <1>1, <1>5, <2>1, QuotedFacts DEF ChangedTo
  <2>5. \A d \in Doc : updates'[d] = UpdatedTo(m, d)
    BY <1>5, <2>2 DEF Update, UpdatedTo
  <2>6. /\ \A d \in Scope(t) : Accepted(t)'.changes[d]
                                 = ChangedTo(m, t, d, RemoteKeys(t), old.changes[d])
        /\ Accepted(t)'.current = (m.type = "current" \/ (old.current /\ m.type # "reset"))
    BY <1>2, <2>1, <2>3, <2>4
  <2> QED
    BY <1>5, <2>2, <2>3, <2>5, <2>6 DEF TakenIn, old
<1>6. CASE t = 0 /\ CountsWell(m.count)
  <2>1. UNCHANGED aggregatorVars
    BY <1>1, <1>6 DEF HandleExistenceFilter, CountsWell
  <2> QED
    BY <1>3, <1>6, <2>1
<1>7. CASE t = 0 /\ ~CountsWell(m.count)
  <2> DEFINE x == ResetState(0)
  <2>1. /\ x \in TargetStates
        /\ \A d \in Doc : x.changes[d] = IF d \in synced THEN "removed" ELSE "none"
    BY ResetStateFacts DEF RemoteKeys
  <2>2. states' = Put(states, t, x) /\ mismatch' = TRUE /\ updates' = updates
    BY <1>1, <1>7 DEF HandleExistenceFilter, CountsWell
  <2> HIDE DEF x
  <2>3. Aside(t) /\ DOMAIN states \subseteq DOMAIN states' /\ Accepted(t)' = x
    BY <1>1, <2>1, <2>2, PutAside
  <2> QED
    BY <1>7, <2>1, <2>2, <2>3 DEF Mistaken
<1> QED
  BY <1>4, <1>5, <1>6, <1>7

LEMMA PlainMessages ==
    ASSUME NEW m \in ServerMessage, m.type # "snapshot"
    PROVE  /\ m.target \in Target
           /\ m.type \in {"added", "removed", "change", "current", "reset", "filter"}
           /\ IsAck(m) <=> m.type \in {"added", "removed"}
  BY DEF ServerMessage, IsAck

LEMMA PlainSteps ==
    ASSUME SyncInv, Receive, Head(toClient).type # "snapshot"
    PROVE  PlainStep(Head(toClient))
<1> SUFFICES ASSUME NEW m, m = Head(toClient) PROVE PlainStep(m)
  <2>1. PICK m : m = Head(toClient)
    OBVIOUS
  <2>2. PlainStep(m)
    BY <2>1
  <2> QED
    BY <2>1, <2>2 DEF PlainStep, AckTaken, Mistaken
<1>1. /\ toClient # <<>> /\ toClient' = Tail(toClient) /\ toClient \in Seq(ServerMessage)
      /\ heard' = TRUE
      /\ UNCHANGED <<diskVars, viewVars, syncVars, toServer, serverDocs, open, told, intact>>
      /\ \/ m.type = "added" /\ HandleAdded(m.target)
         \/ m.type = "removed" /\ HandleRemoved(m.target)
         \/ m.type = "change" /\ HandleDocumentChange(m.target, m.here, m.gone)
         \/ m.type = "current" /\ HandleCurrent(m.target)
         \/ m.type = "reset" /\ HandleReset(m.target)
         \/ m.type = "filter" /\ HandleExistenceFilter(m.target, m.count)
  BY DEF SyncInv, PlainTypeOK, Receive
<1>2. m \in ServerMessage /\ m.type # "snapshot"
  BY <1>1, HeadTailProperties
<1>3. IsAck(m) => Pending[m.target] # 0
  <2>1. \A u \in Target : /\ Pending'[u] \in Nat
                          /\ Pending[u] = Pending'[u] + (IF IsAck(m) /\ m.target = u THEN 1 ELSE 0)
    BY <1>1, ResponseTaken
  <2>2. m.target \in Target
    BY <1>2, PlainMessages
  <2> QED
    BY <2>1, <2>2
<1>4. /\ m.target \in Target
      /\ m.type \in {"added", "removed", "change", "current", "reset", "filter"}
      /\ IsAck(m) <=> m.type \in {"added", "removed"}
  BY <1>2, PlainMessages
<1> DEFINE Goal == /\ m.type # "removed" => DOMAIN states \subseteq DOMAIN states'
                   /\ Aside(m.target)
                   /\ IsAck(m) => AckTaken(m)
                   /\ ~IsAck(m) /\ ~IsActive(m.target) => UNCHANGED aggregatorVars
                   /\ ~IsAck(m) /\ IsActive(m.target) => Mistaken(m) \/ TakenIn(m, m.target)
<1>9. Goal
  <2>5. CASE m.type = "added"
    BY <1>1, <1>2, <1>3, <1>4, <2>5, AddedStep
  <2>6. CASE m.type = "removed"
    BY <1>1, <1>2, <1>3, <1>4, <2>6, RemovedStep
  <2>7. CASE ~IsAck(m) /\ ~IsActive(m.target)
    <3>1. UNCHANGED aggregatorVars
      BY <1>1, <1>4, <2>7 DEF HandleDocumentChange, HandleCurrent, HandleReset,
                              HandleExistenceFilter, aggregatorVars
    <3>2. UNCHANGED states
      BY <3>1 DEF aggregatorVars
    <3>3. Aside(m.target)
      BY <3>2, SameAside
    <3> QED
      BY <2>7, <3>1, <3>2, <3>3
  <2>8. CASE ~IsAck(m) /\ IsActive(m.target)
    <3>1. Quoted(m)
      BY <1>2, <1>4, <2>8 DEF Quoted
    <3>2. CASE m.type = "change"
      BY <1>1, <2>8, <3>1, <3>2, ChangeStep
    <3>3. CASE m.type = "current"
      BY <1>1, <2>8, <3>1, <3>3, CurrentStep
    <3>4. CASE m.type = "reset"
      BY <1>1, <2>8, <3>1, <3>4, ResetStep
    <3>5. CASE m.type = "filter"
      BY <1>1, <2>8, <3>1, <3>5, FilterStep
    <3> QED
      BY <1>4, <2>8, <3>2, <3>3, <3>4, <3>5
  <2> QED
    BY <1>4, <2>5, <2>6, <2>7, <2>8
<1> QED
  BY <1>1, <1>2, <1>4, <1>9 DEF PlainStep

-----------------------------------------------------------------------------
(* What the server does, and the requests that are left. *)
LEMMA AsksTail ==
    ASSUME NEW sent \in Seq(ClientMessage), sent # <<>>, NEW t
    PROVE  /\ Asks(Tail(sent), t) => Asks(sent, t)
           /\ Head(sent).target # t => (Asks(Tail(sent), t) <=> Asks(sent, t))
           /\ Head(sent).target = t => Asks(sent, t)
           /\ \A m : LastAsk(sent, t, m) /\ m.target = t =>
                /\ Asks(Tail(sent), t) => LastAsk(Tail(sent), t, m)
                /\ ~Asks(Tail(sent), t) => Head(sent) = m
<1>1. /\ Head(sent) = sent[1] /\ Len(sent) \in Nat /\ Len(sent) >= 1
      /\ DOMAIN sent = 1 .. Len(sent) /\ DOMAIN Tail(sent) = 1 .. Len(sent) - 1
      /\ \A i \in 1 .. Len(sent) - 1 : Tail(sent)[i] = sent[i + 1]
      /\ \A i \in 2 .. Len(sent) :
           i - 1 \in 1 .. Len(sent) - 1 /\ Tail(sent)[i - 1] = sent[i]
  BY TailParts
<1>2. Asks(Tail(sent), t) => Asks(sent, t)
  BY <1>1 DEF Asks
<1>3. Asks(sent, t) => Head(sent).target = t \/ Asks(Tail(sent), t)
  <2> SUFFICES ASSUME NEW i \in DOMAIN sent, sent[i].target = t, i # 1
               PROVE  Asks(Tail(sent), t)
    BY <1>1 DEF Asks
  <2>1. i - 1 \in DOMAIN Tail(sent) /\ Tail(sent)[i - 1].target = t
    BY <1>1
  <2> QED
    BY <2>1 DEF Asks
<1>4. Head(sent).target = t => Asks(sent, t)
  BY <1>1 DEF Asks
<1>5. ASSUME NEW m, LastAsk(sent, t, m), Asks(Tail(sent), t)
      PROVE  LastAsk(Tail(sent), t, m)
  <2>1. PICK i \in DOMAIN sent : sent[i] = m /\ \A k \in DOMAIN sent : k > i => sent[k].target # t
    BY <1>5 DEF LastAsk
  <2>2. PICK j \in DOMAIN Tail(sent) : Tail(sent)[j].target = t
    BY <1>5 DEF Asks
  <2>3. j + 1 \in DOMAIN sent /\ sent[j + 1].target = t
    BY <1>1, <2>2
  <2>4. i \in 2 .. Len(sent)
    BY <1>1, <2>1, <2>2, <2>3
  <2>5. i - 1 \in DOMAIN Tail(sent) /\ Tail(sent)[i - 1] = m
    BY <1>1, <2>1, <2>4
  <2>6. \A k \in DOMAIN Tail(sent) : k > i - 1 => Tail(sent)[k].target # t
    BY <1>1, <2>1, <2>4
  <2> QED
    BY <2>5, <2>6 DEF LastAsk
<1>6. ASSUME NEW m, LastAsk(sent, t, m), ~Asks(Tail(sent), t), m.target = t
      PROVE  Head(sent) = m
  <2>1. PICK i \in DOMAIN sent : sent[i] = m
    BY <1>6 DEF LastAsk
  <2>2. i # 1 => i - 1 \in DOMAIN Tail(sent) /\ Tail(sent)[i - 1] = m
    BY <1>1, <2>1
  <2> QED
    BY <1>1, <1>6, <2>1, <2>2 DEF Asks
<1> QED
  BY <1>2, <1>3, <1>4, <1>5, <1>6

ServerRests ==
    UNCHANGED <<serverDocs, cache, keys, token, mutated, synced, current, limbo,
                mutatedKeys, queue, active, resume, states, updates, mismatch, open, heard,
                intact>>

Takes(request) ==
    /\ toServer # <<>> /\ request = Head(toServer) /\ toServer' = Tail(toServer)
    /\ request \in ClientMessage /\ request.target \in Target

Served2(request, deletions, filter, early, reset) ==
    /\ Takes(request) /\ request.type = "watch"
    /\ toClient' = toClient \o (Answer(request, deletions, filter, early, reset)
                                  \o News(ServedThen(request)))
    /\ told' = UpToDate(ServedThen(request))
    /\ \/ Retained(request, deletions, reset) \subseteq Matched(request)
       \/ LeftToFilter(deletions, filter)

RemovedOf(u) == [type |-> "removed", target |-> u]

Dropped(request) ==
    /\ Takes(request) /\ request.type = "unwatch"
    /\ toClient' = toClient \o <<RemovedOf(request.target)>>
    /\ told' = Less(told, request.target)

Pushed ==
    /\ toServer' = toServer /\ Behind(told) # {}
    /\ toClient' = toClient \o News(told) /\ told' = UpToDate(told)

LEMMA ServerSteps ==
    ASSUME SyncInv, ServerReads \/ ServerPushes
    PROVE  /\ ServerRests
           /\ \/ Pushed
              \/ Dropped(Head(toServer))
              \/ \E deletions, filter, early, reset \in BOOLEAN :
                    Served2(Head(toServer), deletions, filter, early, reset)
<1>1. /\ toServer \in Seq(ClientMessage) /\ toClient \in Seq(ServerMessage)
      /\ told \in Partial(Target, Served)
  BY InvFacts DEF SyncInv, PlainTypeOK
<1>2. ServerRests
  BY DEF ServerReads, ServerPushes, ServerRests, diskVars, viewVars, syncVars, aggregatorVars
<1>3. CASE ServerPushes
  <2>1. Pushed
    BY <1>3 DEF ServerPushes, Pushed
  <2> QED
    BY <1>2, <2>1
<1>4. CASE ServerReads
  <2> DEFINE request == Head(toServer)
  <2>1. toServer # <<>> /\ toServer' = Tail(toServer)
    BY <1>4 DEF ServerReads
  <2>2. request \in ClientMessage
    BY <1>1, <2>1, HeadTailProperties
  <2>3. \/ /\ request.type = "watch"
           /\ \E deletions, filter, early, reset \in BOOLEAN :
                 ServerWatches(request, deletions, filter, early, reset)
        \/ /\ request.type = "unwatch"
           /\ toClient' = Append(toClient, [type |-> "removed", target |-> request.target])
           /\ told' = Less(told, request.target)
    BY <1>4 DEF ServerReads
  <2> HIDE DEF request
  <2>4. request.target \in Target
    BY <2>2 DEF ClientMessage
  <2>5. Takes(request)
    BY <2>1, <2>2, <2>4 DEF Takes, request
  <2>6. CASE request.type = "unwatch"
    <3>1. RemovedOf(request.target) \in ServerMessage
      BY <2>4 DEF RemovedOf, ServerMessage
    <3>2. toClient' = Append(toClient, RemovedOf(request.target))
          /\ told' = Less(told, request.target)
      BY <2>3, <2>6 DEF RemovedOf
    <3>3. Append(toClient, RemovedOf(request.target)) = toClient \o <<RemovedOf(request.target)>>
      BY <1>1, <3>1, AppendProperties, AppendIsConcat
    <3>4. Dropped(request)
      BY <2>5, <2>6, <3>2, <3>3 DEF Dropped
    <3> QED
      BY <1>2, <3>4 DEF request
  <2>7. CASE request.type = "watch"
    <3>1. PICK deletions \in BOOLEAN, filter \in BOOLEAN, early \in BOOLEAN, reset \in BOOLEAN :
             ServerWatches(request, deletions, filter, early, reset)
      BY <2>3, <2>7
    <3> DEFINE M == Answer(request, deletions, filter, early, reset) \o News(ServedThen(request))
               R == Resumed(request, reset) \subseteq Matched(request)
    <3>2. toClient' = toClient \o M
      BY <1>1, <2>2, <2>7, <3>1, AnswerForm
    <3>3. told' = UpToDate(ServedThen(request))
      BY <1>1, <2>2, <2>7, <3>1, AnswerForm
    <3>4. R \/ deletions \/ filter
      BY <1>1, <2>2, <2>7, <3>1, AnswerForm
    <3> HIDE DEF M
    <3>5. \/ Retained(request, deletions, reset) \subseteq Matched(request)
          \/ LeftToFilter(deletions, filter)
      BY <3>4 DEF Retained, LeftToFilter
    <3>6. Served2(request, deletions, filter, early, reset)
      BY <2>5, <2>7, <3>2, <3>3, <3>5 DEF Served2, M
    <3> QED
      BY <1>2, <3>6 DEF request
  <2> QED
    BY <2>3, <2>6, <2>7
<1> QED
  BY <1>3, <1>4

(* The responses that announce a global snapshot before news of the query. *)
SnapshotFirst(list) ==
    /\ \E i \in DOMAIN list : list[i] \in Typed("snapshot")
    /\ \A k \in DOMAIN list : list[k] \in Tells("change", 0)
          => \E n \in DOMAIN list : n < k /\ list[n] \in Typed("snapshot")

LEMMA FirstTail ==
    ASSUME NEW list \in Seq(ServerMessage), list # <<>>, SnapshotFirst(list),
           Head(list) \notin Typed("snapshot")
    PROVE  SnapshotFirst(Tail(list)) /\ Head(list) \notin Tells("change", 0)
<1>1. /\ Head(list) = list[1] /\ Len(list) \in Nat /\ Len(list) >= 1
      /\ DOMAIN list = 1 .. Len(list) /\ DOMAIN Tail(list) = 1 .. Len(list) - 1
      /\ \A i \in 1 .. Len(list) - 1 : Tail(list)[i] = list[i + 1]
      /\ \A i \in 2 .. Len(list) :
           i - 1 \in 1 .. Len(list) - 1 /\ Tail(list)[i - 1] = list[i]
  BY TailParts
<1>2. \E i \in DOMAIN Tail(list) : Tail(list)[i] \in Typed("snapshot")
  <2>1. PICK i \in DOMAIN list : list[i] \in Typed("snapshot")
    BY DEF SnapshotFirst
  <2>2. i - 1 \in DOMAIN Tail(list) /\ Tail(list)[i - 1] = list[i]
    BY <1>1, <2>1
  <2> QED
    BY <2>1, <2>2
<1>3. ASSUME NEW k \in DOMAIN Tail(list), Tail(list)[k] \in Tells("change", 0)
      PROVE  \E n \in DOMAIN Tail(list) : n < k /\ Tail(list)[n] \in Typed("snapshot")
  <2>1. k + 1 \in DOMAIN list /\ list[k + 1] \in Tells("change", 0)
    BY <1>1, <1>3
  <2>2. PICK n \in DOMAIN list : n < k + 1 /\ list[n] \in Typed("snapshot")
    BY <2>1 DEF SnapshotFirst
  <2>3. n - 1 \in DOMAIN Tail(list) /\ Tail(list)[n - 1] = list[n] /\ n - 1 < k
    BY <1>1, <1>3, <2>2
  <2> QED
    BY <2>2, <2>3
<1>4. Head(list) \notin Tells("change", 0)
  BY <1>1 DEF SnapshotFirst
<1> QED
  BY <1>2, <1>3, <1>4 DEF SnapshotFirst

LEMMA FirstJoined ==
    ASSUME NEW list \in Seq(ServerMessage), NEW more \in Seq(ServerMessage), SnapshotFirst(list)
    PROVE  SnapshotFirst(list \o more)
<1>1. /\ Len(list) \in Nat /\ Len(more) \in Nat
      /\ DOMAIN list = 1 .. Len(list)
      /\ DOMAIN (list \o more) = 1 .. Len(list) + Len(more)
      /\ \A i \in 1 .. Len(list) : (list \o more)[i] = list[i]
  BY JoinParts
<1> DEFINE new == list \o more
<1> HIDE DEF new
<1>2. DOMAIN new = 1 .. Len(list) + Len(more) /\ \A i \in 1 .. Len(list) : new[i] = list[i]
  BY <1>1 DEF new
<1>3. PICK i \in 1 .. Len(list) : list[i] \in Typed("snapshot")
  BY <1>1 DEF SnapshotFirst
<1>4. i \in DOMAIN new /\ new[i] \in Typed("snapshot")
  BY <1>1, <1>2, <1>3
<1>5. ASSUME NEW k \in DOMAIN new, new[k] \in Tells("change", 0)
      PROVE  \E n \in DOMAIN new : n < k /\ new[n] \in Typed("snapshot")
  <2>1. CASE k > Len(list)
    BY <1>1, <1>2, <1>3, <1>4, <2>1
  <2>2. CASE ~(k > Len(list))
    <3>1. k \in DOMAIN list /\ list[k] \in Tells("change", 0)
      BY <1>1, <1>2, <1>5, <2>2
    <3>2. PICK n \in DOMAIN list : n < k /\ list[n] \in Typed("snapshot")
      BY <3>1 DEF SnapshotFirst
    <3>3. n \in DOMAIN new /\ new[n] \in Typed("snapshot")
      BY <1>1, <1>2, <3>2
    <3> QED
      BY <3>2, <3>3
  <2> QED
    BY <2>1, <2>2
<1> QED
  BY <1>4, <1>5 DEF SnapshotFirst, new

LEMMA FirstAfterFilter ==
    ASSUME NEW list \in Seq(ServerMessage), list # <<>>, Ordered(list),
           Head(list) \in Tells("filter", 0)
    PROVE  SnapshotFirst(Tail(list))
<1>1. /\ Head(list) = list[1] /\ Len(list) \in Nat /\ Len(list) >= 1
      /\ DOMAIN list = 1 .. Len(list) /\ DOMAIN Tail(list) = 1 .. Len(list) - 1
      /\ \A i \in 1 .. Len(list) - 1 : Tail(list)[i] = list[i + 1]
      /\ \A i \in 2 .. Len(list) :
           i - 1 \in 1 .. Len(list) - 1 /\ Tail(list)[i - 1] = list[i]
  BY TailParts
<1>2. Head(list) \in Spoken
  BY DEF Tells, Spoken
<1>3. \E i \in DOMAIN Tail(list) : Tail(list)[i] \in Typed("snapshot")
  BY <1>2, FollowedTail DEF Ordered
<1>4. ASSUME NEW k \in DOMAIN Tail(list), Tail(list)[k] \in Tells("change", 0)
      PROVE  \E n \in DOMAIN Tail(list) : n < k /\ Tail(list)[n] \in Typed("snapshot")
  <2>1. k + 1 \in DOMAIN list /\ list[k + 1] \in Tells("change", 0) /\ 1 < k + 1
    BY <1>1, <1>4
  <2>2. PICK n \in DOMAIN list : 1 < n /\ n < k + 1 /\ list[n] \in Typed("snapshot")
    BY <1>1, <2>1 DEF Ordered, Parted
  <2>3. n - 1 \in DOMAIN Tail(list) /\ Tail(list)[n - 1] = list[n] /\ n - 1 < k
    BY <1>1, <1>4, <2>2
  <2> QED
    BY <2>2, <2>3
<1> QED
  BY <1>3, <1>4 DEF SnapshotFirst

-----------------------------------------------------------------------------
(* A stream that is not open carries nothing, and nothing is left of it.    *)
Closed ==
    ~open => /\ toServer = <<>> /\ toClient = <<>> /\ told = <<>> /\ states = <<>>
             /\ updates = NoChanges /\ ~mismatch

(* The kinds of steps. *)
Opened ==
    /\ ~open /\ open' = TRUE
    /\ \A t \in DOMAIN resume : /\ LastAsk(toServer', t, WatchFor(Book, t))
                                /\ Asks(toServer', t) /\ t \in DOMAIN states'
    /\ ~Accepted(0)'.current
    /\ UNCHANGED <<serverDocs, cache, keys, token, mutated, synced, current, limbo,
                   mutatedKeys, queue, active, resume, updates, mismatch, heard, toClient,
                   told, intact>>

CutOff ==
    /\ open' = FALSE /\ heard' = FALSE
    /\ states' = <<>> /\ updates' = NoChanges /\ mismatch' = FALSE
    /\ toServer' = <<>> /\ toClient' = <<>> /\ told' = <<>>
    /\ UNCHANGED <<serverDocs, cache, keys, token, mutated>>
    /\ \/ UNCHANGED <<synced, current, limbo, mutatedKeys, queue, active, resume, intact>>
       \/ /\ intact' = (intact /\ (token = NoToken \/ token \subseteq keys))
          /\ synced' = keys /\ current' = FALSE /\ limbo' = {} /\ mutatedKeys' = mutated
          /\ active' = <<>> /\ resume' = [t \in {0} |-> token]

WentOffline ==
    /\ ~heard /\ current' = FALSE
    /\ UNCHANGED <<serverDocs, cache, keys, token, mutated, synced, limbo, mutatedKeys,
                   queue, active, resume, states, updates, mismatch, open, heard, toServer,
                   toClient, told, intact>>

Elsewhere ==
    /\ \A d \in Doc : \/ serverDocs'[d] = serverDocs[d]
                      \/ serverDocs[d] = "unborn" /\ serverDocs'[d] = "present"
                      \/ serverDocs[d] = "present" /\ serverDocs'[d] = "deleted"
    /\ UNCHANGED <<cache, keys, token, mutated, synced, current, limbo, mutatedKeys, queue,
                   active, resume, states, updates, mismatch, open, heard, toServer,
                   toClient, told, intact>>

Written ==
    /\ ViewStep
    /\ \E d \in Doc : \/ /\ cache[d] = "unborn" /\ serverDocs[d] = "unborn"
                         /\ mutated' = mutated \union {d} /\ cache' = cache
                         /\ mutatedKeys' = Mutated(cache', mutated', {})
                      \/ /\ d \in mutated /\ serverDocs[d] # "unborn"
                         /\ mutated' = mutated \ {d}
                         /\ cache' = [cache EXCEPT ![d] = Newer(@, "present")]
                         /\ mutatedKeys' = Mutated(cache', mutated', RenewedBy(d))

SnapshotTaken ==
    /\ Receive
    /\ \E saved \in {token, Head(toClient).token} :
          SnapshotStep(Head(toClient).token, saved)

ServerStep ==
    /\ ServerRests
    /\ \/ Pushed
       \/ Dropped(Head(toServer))
       \/ \E deletions, filter, early, reset \in BOOLEAN :
             Served2(Head(toServer), deletions, filter, early, reset)

LEMMA StreamOpensStep == ASSUME SyncInv, Closed, StreamOpens PROVE Opened
<1>1. /\ ~open /\ open' = TRUE /\ toServer' = toServer \o Watches
      /\ states' = [t \in DOMAIN states \union DOMAIN resume |->
                    IF t \in DOMAIN resume THEN [Accepted(t) EXCEPT !.outstanding = @ + 1]
                    ELSE states[t]]
      /\ UNCHANGED <<serverDocs, cache, keys, token, mutated, synced, current, limbo,
                     mutatedKeys, queue, active, resume, updates, mismatch, heard,
                     toClient, told, intact>>
  BY DEF StreamOpens, Watches, diskVars, viewVars, syncVars
<1>2. Watches \in Seq(ClientMessage)
  BY WatchesFacts
<1>3. toServer' = Watches
  <2>1. toServer = <<>>
    BY <1>1 DEF Closed
  <2> QED
    BY <1>1, <1>2, <2>1, ConcatEmptySeq
<1>4. resume \in Partial(Target, Token)
  BY InvFacts
<1>5. DOMAIN resume \in SUBSET Nat /\ IsFiniteSet(DOMAIN resume)
  BY <1>4, PartialFacts DEF Target
<1> DEFINE order == Ascending(DOMAIN resume)
<1>6. /\ order \in Seq(Nat) /\ Entries(order) = DOMAIN resume /\ NoneTwice(order)
  BY <1>5, AscendingFacts
<1>7. /\ DOMAIN Watches = DOMAIN order
      /\ \A i \in DOMAIN order :
           Watches[i] = [type |-> "watch", target |-> order[i], scope |-> Scope(order[i]),
                         token |-> resume[order[i]]]
  BY DEF Watches
<1> HIDE DEF order
<1>8. ASSUME NEW t \in DOMAIN resume
      PROVE  LastAsk(Watches, t, WatchFor(Book, t)) /\ Asks(Watches, t)
  <2>1. PICK i \in DOMAIN order : order[i] = t
    BY <1>6 DEF Entries
  <2>2. Watches[i] = WatchFor(Book, t)
    BY <1>7, <2>1, BookParts DEF WatchFor, Scope
  <2>3. WatchFor(Book, t).target = t
    BY DEF WatchFor
  <2>4. \A k \in DOMAIN Watches : k > i => Watches[k].target # t
    <3> SUFFICES ASSUME NEW k \in DOMAIN order, k > i, order[k] = t PROVE FALSE
      BY <1>7
    <3>1. k = i
      BY <1>6, <2>1 DEF NoneTwice
    <3>2. i \in Nat /\ k \in Nat
      BY <1>6
    <3> QED
      BY <3>1, <3>2
  <2> QED
    BY <1>7, <2>1, <2>2, <2>3, <2>4 DEF LastAsk, Asks
<1>9. \A t \in DOMAIN resume : t \in DOMAIN states'
  BY <1>1
<1>10. ~Accepted(0)'.current
  <2>1. states = <<>> /\ DOMAIN <<>> = {} /\ 0 \in DOMAIN resume
    BY <1>1, InvFacts, EmptyIsPartial DEF Closed
  <2>2. states'[0] = [Fresh EXCEPT !.outstanding = @ + 1]
    BY <1>1, <2>1 DEF Accepted
  <2> QED
    BY <1>9, <2>1, <2>2 DEF Accepted, Fresh
<1> QED
  BY <1>1, <1>3, <1>8, <1>9, <1>10 DEF Opened

LEMMA StepKinds ==
    ASSUME SyncInv, Closed, [SyncNext]_watchSyncVars
    PROVE  \/ PlainStep(Head(toClient)) \/ SnapshotTaken \/ Written \/ ServerStep
           \/ Opened \/ CutOff \/ WentOffline \/ Elsewhere
<1>1. CASE Receive
  <2>1. CASE Head(toClient).type = "snapshot"
    BY <1>1, <2>1, SnapshotSteps DEF SnapshotTaken
  <2>2. CASE Head(toClient).type # "snapshot"
    BY <1>1, <2>2, PlainSteps
  <2> QED
    BY <2>1, <2>2
<1>2. CASE StreamOpens
  BY <1>2, StreamOpensStep
<1>3. CASE StreamBreaks \/ Restart
  <2>1. CutOff
    BY <1>3 DEF StreamBreaks, Restart, Cut, CutOff, diskVars, viewVars, syncVars
  <2> QED
    BY <2>1
<1>4. CASE GoOffline
  <2>1. WentOffline
    BY <1>4 DEF GoOffline, WentOffline, diskVars, syncVars, aggregatorVars, streamVars
  <2> QED
    BY <2>1
<1>5. ASSUME NEW d \in Doc, WriteLocally(d) PROVE Written
  <2>1. ViewStep /\ mutatedKeys' = Mutated(cache', mutated', {})
    BY <1>5, WriteLocallyStep
  <2>2. /\ cache[d] = "unborn" /\ serverDocs[d] = "unborn"
        /\ mutated' = mutated \union {d} /\ cache' = cache
    BY <1>5 DEF WriteLocally
  <2> QED
    BY <2>1, <2>2 DEF Written
<1>6. ASSUME NEW d \in Doc, Acknowledge(d) PROVE Written
  <2>1. ViewStep /\ mutatedKeys' = Mutated(cache', mutated', RenewedBy(d))
    BY <1>6, AcknowledgeStep
  <2>2. /\ d \in mutated /\ serverDocs[d] # "unborn" /\ mutated' = mutated \ {d}
        /\ cache' = [cache EXCEPT ![d] = Newer(@, "present")]
    BY <1>6 DEF Acknowledge
  <2> QED
    BY <2>1, <2>2 DEF Written
<1>7. ASSUME NEW d \in Doc, Commit(d) \/ Others(d) PROVE Elsewhere
  <2>1. serverDocs \in [Doc -> DocState]
    BY DEF SyncInv, PlainTypeOK
  <2>2. UNCHANGED <<cache, keys, token, mutated, synced, current, limbo, mutatedKeys, queue,
                    active, resume, states, updates, mismatch, open, heard, toServer,
                    toClient, told, intact>>
    BY <1>7 DEF Commit, Others, diskVars, viewVars, syncVars, aggregatorVars, streamVars
  <2>3. \/ serverDocs[d] = "unborn" /\ serverDocs' = [serverDocs EXCEPT ![d] = "present"]
        \/ serverDocs[d] = "present" /\ serverDocs' = [serverDocs EXCEPT ![d] = "deleted"]
    BY <1>7 DEF Commit, Others
  <2> QED
    BY <2>1, <2>2, <2>3 DEF Elsewhere
<1>8. CASE ServerReads \/ ServerPushes
  BY <1>8, ServerSteps DEF ServerStep
<1>9. CASE UNCHANGED watchSyncVars
  <2>1. Elsewhere
    BY <1>9 DEF watchSyncVars, Elsewhere, diskVars, viewVars, syncVars, aggregatorVars, streamVars
  <2> QED
    BY <2>1
<1> QED
  BY <1>1, <1>2, <1>3, <1>4, <1>5, <1>6, <1>7, <1>8, <1>9 DEF SyncNext, Connection, LocalWrites

-----------------------------------------------------------------------------
(* The order of what is on its way, and what each target was asked for. *)
Mismatched ==
    mismatch =>
        /\ IsActive(0) /\ SnapshotFirst(toClient)
        /\ \A d \in Doc : Accepted(0).changes[d] = IF d \in synced THEN "removed" ELSE "none"

Told(t) ==
    /\ t \in DOMAIN told /\ told[t].scope = Scope(t)
    /\ Followed(toClient, Tells("removed", t), Tells("added", t))

AskedFor(t) ==
    /\ t \in DOMAIN states
    /\ Asks(toServer, t) => LastAsk(toServer, t, WatchFor(Book, t))
    /\ ~Asks(toServer, t) => Told(t)

AllAsked == open => \A t \in DOMAIN resume : AskedFor(t)

WireInv == SyncInv /\ Closed /\ Ordered(toClient) /\ Mismatched /\ AllAsked

Step ==
    \/ PlainStep(Head(toClient)) \/ SnapshotTaken \/ Written \/ ServerStep
    \/ Opened \/ CutOff \/ WentOffline \/ Elsewhere

LEMMA SnapshotTakenMeans ==
    ASSUME SnapshotTaken
    PROVE  /\ \E saved : SnapshotStep(Head(toClient).token, saved)
           /\ toClient # <<>> /\ toClient' = Tail(toClient) /\ Head(toClient).type = "snapshot"
           /\ mismatch' = FALSE /\ updates' = NoChanges
           /\ UNCHANGED <<serverDocs, mutated, open, told, intact>>
  BY DEF SnapshotTaken, SnapshotStep

LEMMA RemovedOfFacts ==
    ASSUME NEW u \in Target
    PROVE  /\ RemovedOf(u) \in ServerMessage /\ <<RemovedOf(u)>> \in Seq(ServerMessage)
           /\ DOMAIN <<RemovedOf(u)>> = {1} /\ <<RemovedOf(u)>>[1] = RemovedOf(u)
           /\ RemovedOf(u).type = "removed" /\ RemovedOf(u).target = u
           /\ RemovedOf(u) \in AckOf(u)
<1>1. RemovedOf(u) \in ServerMessage /\ RemovedOf(u).type = "removed" /\ RemovedOf(u).target = u
  BY DEF RemovedOf, ServerMessage
<1> HIDE DEF RemovedOf
<1>2. RemovedOf(u) \in AckOf(u)
  BY <1>1 DEF AckOf, IsAck
<1> QED
  BY <1>1, <1>2

LEMMA ClosedKept == ASSUME SyncInv, Closed, Step PROVE Closed'
<1>1. told \in Partial(Target, Served) /\ DOMAIN <<>> = {}
  BY EmptyIsPartial DEF SyncInv
<1>2. CASE PlainStep(Head(toClient)) \/ SnapshotTaken
  <2>1. toClient # <<>> /\ open' = open
    BY <1>2, SnapshotTakenMeans DEF PlainStep
  <2> QED
    BY <2>1 DEF Closed
<1>3. CASE Written
  BY <1>3 DEF Written, ViewStep, Closed
<1>4. CASE ServerStep
  <2>1. open' = open
    BY <1>4 DEF ServerStep, ServerRests
  <2>2. toServer # <<>> \/ Behind(told) # {}
    BY <1>4 DEF ServerStep, Pushed, Dropped, Served2, Takes
  <2>3. Behind(told) # {} => told # <<>>
    <3> SUFFICES ASSUME told = <<>> PROVE Behind(told) = {}
      OBVIOUS
    <3> QED
      BY <1>1 DEF Behind
  <2> QED
    BY <2>1, <2>2, <2>3 DEF Closed
<1>5. CASE Opened \/ CutOff
  BY <1>5 DEF Opened, CutOff, Closed
<1>6. CASE WentOffline \/ Elsewhere
  BY <1>6 DEF WentOffline, Elsewhere, Closed
<1> QED
  BY <1>2, <1>3, <1>4, <1>5, <1>6 DEF Step

LEMMA RemovedOrdered == ASSUME NEW u \in Target PROVE Ordered(<<RemovedOf(u)>>)
<1> DEFINE list == <<RemovedOf(u)>>
<1>1. DOMAIN list = {1} /\ list[1].type = "removed"
  BY RemovedOfFacts
<1> HIDE DEF list
<1>2. Followed(list, Spoken, Typed("snapshot"))
  BY <1>1 DEF Followed, Spoken
<1>3. \A t \in Target : Followed(list, Tells("reset", t), Tells("current", t))
  BY <1>1 DEF Followed, Tells
<1>4. Parted(list, Tells("filter", 0), Tells("change", 0), Typed("snapshot"))
  BY <1>1 DEF Parted, Tells
<1>5. Parted(list, Typed("snapshot"), Tells("filter", 0), AckOf(0))
  BY <1>1 DEF Parted, Tells
<1> QED
  BY <1>2, <1>3, <1>4, <1>5 DEF Ordered, list

LEMMA Added ==
    ASSUME SyncInv, ServerStep
    PROVE  \E more \in Seq(ServerMessage) :
             /\ toClient' = toClient \o more /\ Ordered(more)
             /\ \A k \in DOMAIN more : more[k] \in Tells("filter", 0)
                  => \E x \in DOMAIN more : x < k /\ more[x] \in AckOf(0)
<1>1. told \in Partial(Target, Served)
  BY DEF SyncInv
<1>2. CASE Pushed
  <2> DEFINE more == News(told)
  <2>1. more \in Seq(ServerMessage) /\ Ordered(more) /\ Silent(more, Tells("filter", 0))
    BY <1>1, NewsOrdered, NewsFacts
  <2> HIDE DEF more
  <2>2. \A k \in DOMAIN more : more[k] \notin Tells("filter", 0)
    BY <2>1 DEF Silent
  <2>3. toClient' = toClient \o more
    BY <1>2 DEF Pushed, more
  <2> QED
    BY <2>1, <2>2, <2>3
<1>3. CASE Dropped(Head(toServer))
  <2> DEFINE u == Head(toServer).target
             more == <<RemovedOf(u)>>
  <2>1. u \in Target /\ toClient' = toClient \o more
    BY <1>3 DEF Dropped, Takes
  <2> HIDE DEF u
  <2>2. /\ more \in Seq(ServerMessage) /\ DOMAIN more = {1} /\ more[1].type = "removed"
        /\ Ordered(more)
    BY <2>1, RemovedOfFacts, RemovedOrdered
  <2> HIDE DEF more
  <2>3. \A k \in DOMAIN more : more[k] \notin Tells("filter", 0)
    BY <2>2 DEF Tells
  <2> QED
    BY <2>1, <2>2, <2>3
<1>4. ASSUME NEW deletions \in BOOLEAN, NEW filter \in BOOLEAN, NEW early \in BOOLEAN,
             NEW reset \in BOOLEAN, Served2(Head(toServer), deletions, filter, early, reset)
      PROVE  \E more \in Seq(ServerMessage) :
               /\ toClient' = toClient \o more /\ Ordered(more)
               /\ \A k \in DOMAIN more : more[k] \in Tells("filter", 0)
                    => \E x \in DOMAIN more : x < k /\ more[x] \in AckOf(0)
  <2> DEFINE request == Head(toServer)
  <2>1. request \in ClientMessage /\ request.type = "watch"
    BY <1>4 DEF Served2, Takes
  <2>2. toClient' = toClient \o (Answer(request, deletions, filter, early, reset)
                                    \o News(ServedThen(request)))
    BY <1>4 DEF Served2, Takes
  <2> HIDE DEF request
  <2> DEFINE more == Answer(request, deletions, filter, early, reset)
                       \o News(ServedThen(request))
  <2>3. more \in Seq(ServerMessage) /\ Ordered(more)
    BY <1>1, <2>1, AnswerWithNews, ZenonT(60)
  <2>4. \A k \in DOMAIN more : more[k] \in Tells("filter", 0)
           => \E x \in DOMAIN more : x < k /\ more[x] \in AckOf(0)
    BY <1>1, <2>1, AnswerWithNews, ZenonT(60)
  <2> HIDE DEF more
  <2>5. toClient' = toClient \o more
    BY <2>2 DEF more
  <2> QED
    BY <2>3, <2>4, <2>5
<1> QED
  BY <1>2, <1>3, <1>4 DEF ServerStep

LEMMA OrderedKept == ASSUME SyncInv, Ordered(toClient), Step PROVE Ordered(toClient')
<1>1. toClient \in Seq(ServerMessage)
  BY DEF SyncInv, PlainTypeOK
<1>2. CASE PlainStep(Head(toClient)) \/ SnapshotTaken
  <2>1. toClient # <<>> /\ toClient' = Tail(toClient)
    BY <1>2, SnapshotTakenMeans DEF PlainStep
  <2> QED
    BY <1>1, <2>1, OrderedTail
<1>3. CASE ServerStep
  BY <1>1, <1>3, Added, OrderedJoined
<1>4. CASE CutOff
  BY <1>4, OrderedNothing DEF CutOff
<1>5. CASE Written \/ Opened \/ WentOffline \/ Elsewhere
  <2>1. toClient' = toClient
    BY <1>5 DEF Written, ViewStep, Opened, WentOffline, Elsewhere
  <2> QED
    BY <2>1
<1> QED
  BY <1>2, <1>3, <1>4, <1>5 DEF Step

LEMMA PlainActive ==
    ASSUME SyncInv, SyncInv', PlainStep(Head(toClient)), NEW t \in DOMAIN resume, IsActive(t)
    PROVE  IsActive(t)' /\ Head(toClient) \notin AckOf(t) /\ Silent(toClient', AckOf(t))
           /\ Silent(toClient, AckOf(t)) /\ t \in DOMAIN resume'
<1>1. /\ toClient # <<>> /\ toClient' = Tail(toClient) /\ toServer' = toServer
      /\ resume' = resume /\ toClient \in Seq(ServerMessage)
  BY DEF PlainStep, syncVars, SyncInv, PlainTypeOK
<1>2. ActivesAre /\ ActivesAre'
  BY ActivesMean, ActivesMeanAfter
<1>3. ~Asks(toServer, t) /\ Silent(toClient, AckOf(t))
  BY <1>2 DEF ActivesAre
<1>4. Silent(Tail(toClient), AckOf(t)) /\ Head(toClient) \notin AckOf(t)
  BY <1>1, <1>3, TailParts DEF Silent
<1>5. IsActive(t)'
  BY <1>1, <1>2, <1>3, <1>4 DEF ActivesAre
<1> QED
  BY <1>1, <1>3, <1>4, <1>5

LEMMA MismatchedKept ==
    ASSUME SyncInv, SyncInv', Closed, Ordered(toClient), Mismatched, Step
    PROVE  Mismatched'
<1>1. toClient \in Seq(ServerMessage)
  BY DEF SyncInv, PlainTypeOK
<1>2. ASSUME mismatch' = mismatch, synced' = synced, states' = states, resume' = resume,
             toClient' = toClient
      PROVE  Mismatched'
  BY <1>2 DEF Mismatched, IsActive, Accepted
<1>3. 0 \in DOMAIN resume
  BY InvFacts
<1>4. CASE PlainStep(Head(toClient))
  <2> DEFINE m == Head(toClient)
  <2>1. /\ toClient # <<>> /\ toClient' = Tail(toClient) /\ synced' = synced
        /\ resume' = resume /\ Aside(m.target) /\ m \in ServerMessage
        /\ m.type # "snapshot"
    BY <1>4 DEF PlainStep, syncVars, viewVars
  <2>2. IsActive(0) => IsActive(0)' /\ m \notin AckOf(0)
    BY <1>3, <1>4, PlainActive
  <2>3. CASE Mistaken(m) /\ IsActive(m.target)
    <3>1. m \in Tells("filter", 0) /\ IsActive(0)
      BY <2>1, <2>3 DEF Mistaken, Tells
    <3>2. SnapshotFirst(Tail(toClient))
      BY <1>1, <2>1, <3>1, FirstAfterFilter
    <3> QED
      BY <2>1, <2>2, <2>3, <3>1, <3>2 DEF Mistaken, Mismatched
  <2>4. CASE ~(Mistaken(m) /\ IsActive(m.target))
    <3>1. mismatch' = mismatch
      BY <1>4, <2>4 DEF PlainStep, AckTaken, TakenIn, aggregatorVars
    <3> SUFFICES ASSUME mismatch PROVE Mismatched'
      BY <3>1 DEF Mismatched
    <3>2. /\ IsActive(0) /\ SnapshotFirst(toClient)
          /\ \A d \in Doc : Accepted(0).changes[d] = IF d \in synced THEN "removed" ELSE "none"
      BY DEF Mismatched
    <3>3. SnapshotFirst(Tail(toClient)) /\ m \notin Tells("change", 0)
      <4>1. m \notin Typed("snapshot")
        BY <2>1 DEF Typed
      <4> QED
        BY <1>1, <2>1, <3>2, <4>1, FirstTail
    <3>4. \A d \in Doc : Accepted(0)'.changes[d] = IF d \in synced THEN "removed" ELSE "none"
      <4>1. CASE m.target # 0
        BY <2>1, <3>2, <4>1 DEF Aside
      <4>2. CASE m.target = 0
        <5>1. ~IsAck(m) /\ IsActive(m.target)
          BY <2>1, <2>2, <3>2, <4>2 DEF AckOf
        <5>2. TakenIn(m, 0)
          BY <1>4, <2>4, <4>2, <5>1 DEF PlainStep
        <5>3. /\ m.type # "change"
              /\ \A d : m \notin JoinsFor(0, d, synced)
          BY <2>1, <3>3, <4>2, <5>1 DEF Tells, JoinsFor
        <5>4. \A d \in Doc : Accepted(0)'.changes[d]
                   = ChangedTo(m, 0, d, synced, Accepted(0).changes[d])
          BY <5>2 DEF TakenIn, Scope, RemoteKeys
        <5> QED
          BY <3>2, <5>3, <5>4 DEF ChangedTo
      <4> QED
        BY <4>1, <4>2
    <3> QED
      BY <2>1, <2>2, <3>2, <3>3, <3>4 DEF Mismatched
  <2> QED
    BY <2>3, <2>4
<1>5. CASE SnapshotTaken
  BY <1>5, SnapshotTakenMeans DEF Mismatched
<1>6. CASE Written
  <2>1. TargetKept(0) /\ UNCHANGED <<synced, mismatch, toClient>>
    BY <1>6 DEF Written, ViewStep
  <2>2. IsActive(0) => IsActive(0)'
    BY <2>1 DEF TargetKept, IsActive, Accepted
  <2>3. Accepted(0)' = Accepted(0)
    BY <2>1 DEF TargetKept
  <2> QED
    BY <2>1, <2>2, <2>3 DEF Mismatched
<1>7. CASE ServerStep
  <2>1. UNCHANGED <<mismatch, synced, states, resume>>
    BY <1>7 DEF ServerStep, ServerRests
  <2>2. SnapshotFirst(toClient) => SnapshotFirst(toClient')
    BY <1>1, <1>7, Added, FirstJoined
  <2> QED
    BY <2>1, <2>2 DEF Mismatched, IsActive, Accepted
<1>8. CASE Opened
  BY <1>8 DEF Opened, Closed, Mismatched
<1>9. CASE CutOff
  BY <1>9 DEF CutOff, Mismatched
<1>10. CASE WentOffline \/ Elsewhere
  BY <1>2, <1>10 DEF WentOffline, Elsewhere
<1> QED
  BY <1>4, <1>5, <1>6, <1>7, <1>8, <1>9, <1>10 DEF Step

-----------------------------------------------------------------------------
(* The one acknowledgement in the answer to a request. *)
AckedOnce(M, u) ==
    /\ M \in Seq(ServerMessage) /\ 1 \in DOMAIN M /\ M[1] = Acked(u)
    /\ M[1] \in Tells("added", u) /\ M[1] \in AckOf(u)
    /\ \A i \in DOMAIN M : i # 1 => ~IsAck(M[i])
    /\ \A i \in DOMAIN M : M[i].type # "removed"
    /\ \A t : t # u => Silent(M, AckOf(t))

LEMMA AnswerAcks ==
    ASSUME told \in Partial(Target, Served),
           NEW request \in ClientMessage, request.type = "watch",
           NEW deletions \in BOOLEAN, NEW filter \in BOOLEAN, NEW early \in BOOLEAN,
           NEW reset \in BOOLEAN
    PROVE  AckedOnce(Answer(request, deletions, filter, early, reset)
                       \o News(ServedThen(request)), request.target)
<1> DEFINE A == Answer(request, deletions, filter, early, reset)
           N == News(ServedThen(request))
           u == request.target
           M == A \o N
<1>1. /\ A \in Seq(ServerMessage) /\ 1 \in DOMAIN A /\ A[1] = Acked(u)
      /\ \A i \in DOMAIN A : i # 1 => ~IsAck(A[i])
  <2>1. A \in Seq(ServerMessage)
    BY AnswerShape, ZenonT(60)
  <2>2. 1 \in DOMAIN A /\ A[1] = Acked(u)
    BY AnswerShape, ZenonT(60)
  <2>3. \A i \in DOMAIN A : i # 1 => ~IsAck(A[i])
    BY AnswerShape, ZenonT(60)
  <2> QED
    BY <2>1, <2>2, <2>3
<1>2. ServedThen(request) \in Partial(Target, Served)
  BY ServedThenFacts
<1>3. N \in Seq(ServerMessage) /\ \A i \in DOMAIN N : ~IsAck(N[i])
  <2> DEFINE served == ServedThen(request)
  <2> HIDE DEF served
  <2>1. News(served) \in Seq(ServerMessage) /\ Mute(News(served))
    BY <1>2, NewsFacts DEF served
  <2> QED
    BY <2>1 DEF Mute, served
<1>4. /\ Acked(u) \in ServerMessage /\ Acked(u).type = "added" /\ Acked(u).target = u
      /\ u \in Target
  BY AnswerMessages, AnswerTypes
<1> HIDE DEF A, N, u
<1>5. /\ M \in Seq(ServerMessage) /\ Len(A) \in Nat /\ Len(N) \in Nat
      /\ DOMAIN A = 1 .. Len(A) /\ DOMAIN M = 1 .. Len(A) + Len(N)
      /\ \A i \in 1 .. Len(A) : M[i] = A[i]
      /\ \A i \in 1 .. Len(A) + Len(N) : i \notin 1 .. Len(A)
           => i - Len(A) \in DOMAIN N /\ M[i] = N[i - Len(A)]
  BY <1>1, <1>3, JoinParts
<1> HIDE DEF M
<1>6. 1 \in DOMAIN M /\ M[1] = Acked(u)
  BY <1>1, <1>5
<1>7. \A i \in DOMAIN M : i # 1 => ~IsAck(M[i])
  BY <1>1, <1>3, <1>5
<1>8. M[1] \in Tells("added", u) /\ M[1] \in AckOf(u)
  BY <1>4, <1>6 DEF Tells, AckOf, IsAck
<1>9. \A i \in DOMAIN M : M[i].type # "removed"
  BY <1>4, <1>6, <1>7 DEF IsAck
<1>10. \A t : t # u => Silent(M, AckOf(t))
  BY <1>4, <1>6, <1>7 DEF Silent, AckOf
<1>11. AckedOnce(M, u)
  BY <1>5, <1>6, <1>7, <1>8, <1>9, <1>10 DEF AckedOnce
<1> QED
  BY <1>11 DEF M, A, N, u

LEMMA AskedCarried ==
    ASSUME NEW t, AskedFor(t), t \in DOMAIN states', Scope(t)' = Scope(t), told' = told,
           Asks(toServer, t) <=> Asks(toServer', t),
           LastAsk(toServer, t, WatchFor(Book, t)) => LastAsk(toServer', t, WatchFor(Book', t)),
           Followed(toClient', Tells("removed", t), Tells("added", t))
    PROVE  AskedFor(t)'
  BY DEF AskedFor, Told

LEMMA AskedBegun ==
    ASSUME SyncInv', open, NEW t \in DOMAIN resume', TargetBegun(t)
    PROVE  AskedFor(t)'
<1>1. Asks(toServer', t) /\ LastAsk(toServer', t, WatchFor(Book', t))
  BY DEF TargetBegun
<1>2. t \in DOMAIN states'
  BY <1>1, ActivesMeanAfter DEF ActivesAre
<1> QED
  BY <1>1, <1>2 DEF AskedFor

LEMMA AskedKept ==
    ASSUME SyncInv, NEW t \in DOMAIN resume, AskedFor(t), TargetKept(t), told' = told,
           \/ toClient' = toClient
           \/ toClient # <<>> /\ toClient' = Tail(toClient)
    PROVE  AskedFor(t)'
<1>1. t \in DOMAIN states' /\ Scope(t)' = Scope(t)
      /\ (Asks(toServer, t) <=> Asks(toServer', t))
      /\ (LastAsk(toServer, t, WatchFor(Book, t)) => LastAsk(toServer', t, WatchFor(Book', t)))
  BY DEF TargetKept, AskedFor, Scope
<1>2. toClient \in Seq(ServerMessage)
  BY DEF SyncInv, PlainTypeOK
<1>3. CASE Asks(toServer, t)
  BY <1>1, <1>3 DEF AskedFor
<1>4. CASE ~Asks(toServer, t)
  <2>1. Followed(toClient', Tells("removed", t), Tells("added", t))
    BY <1>2, <1>4, FollowedTail DEF AskedFor, Told
  <2> QED
    BY <1>1, <2>1, AskedCarried
<1> QED
  BY <1>3, <1>4

LEMMA AskedPlain ==
    ASSUME SyncInv, SyncInv', PlainStep(Head(toClient)), NEW t \in DOMAIN resume, AskedFor(t)
    PROVE  AskedFor(t)'
<1> DEFINE m == Head(toClient)
<1>1. /\ toClient # <<>> /\ toClient' = Tail(toClient) /\ toServer' = toServer /\ told' = told
      /\ resume' = resume /\ active' = active /\ toClient \in Seq(ServerMessage)
      /\ m \in ServerMessage /\ Aside(m.target)
      /\ m.type # "removed" => DOMAIN states \subseteq DOMAIN states'
  BY DEF PlainStep, syncVars, SyncInv, PlainTypeOK
<1>2. Scope(t)' = Scope(t) /\ WatchFor(Book', t) = WatchFor(Book, t)
  BY <1>1, BookParts, BookPartsAfter DEF Scope, WatchFor
<1>3. t \in DOMAIN resume' /\ ActivesAre'
  BY <1>1, ActivesMeanAfter
<1>4. CASE Asks(toServer, t)
  <2>1. t \in DOMAIN states'
    BY <1>1, <1>3, <1>4 DEF ActivesAre
  <2> QED
    BY <1>1, <1>2, <1>4, <2>1 DEF AskedFor
<1>5. CASE ~Asks(toServer, t)
  <2>1. /\ Followed(Tail(toClient), Tells("removed", t), Tells("added", t))
        /\ m \in Tells("removed", t)
             => \E k \in DOMAIN Tail(toClient) : Tail(toClient)[k] \in Tells("added", t)
    BY <1>1, <1>5, FollowedTail DEF AskedFor, Told
  <2>2. t \in DOMAIN states'
    <3>1. CASE m \in Tells("removed", t)
      <4>1. PICK k \in DOMAIN toClient' : toClient'[k] \in Tells("added", t)
        BY <1>1, <2>1, <3>1
      <4>2. ~Silent(toClient', AckOf(t))
        BY <4>1 DEF Silent, Tells, AckOf, IsAck
      <4> QED
        BY <1>3, <4>2 DEF ActivesAre
    <3>2. CASE m \notin Tells("removed", t)
      <4>1. m.type = "removed" => m.target # t
        BY <1>1, <3>2 DEF Tells
      <4> QED
        BY <1>1, <4>1 DEF Aside, AskedFor
    <3> QED
      BY <3>1, <3>2
  <2> QED
    BY <1>1, <1>2, <1>5, <2>1, <2>2, AskedCarried
<1> QED
  BY <1>4, <1>5

LEMMA AskedRaised ==
    ASSUME SyncInv, NEW t \in DOMAIN resume, AskedFor(t), NEW known, TargetRaised(t, known),
           told' = told, toClient # <<>>, toClient' = Tail(toClient)
    PROVE  AskedFor(t)'
<1>1. toClient \in Seq(ServerMessage) /\ ActivesAre
  BY ActivesMean DEF SyncInv, PlainTypeOK
<1>2. ~Asks(toServer, t) /\ ~Asks(toServer', t) /\ t \in DOMAIN states'
  BY <1>1 DEF TargetRaised, ActivesAre
<1>3. Scope(t)' = Scope(t)
  BY DEF TargetRaised, Scope
<1>4. Followed(Tail(toClient), Tells("removed", t), Tells("added", t))
  BY <1>1, <1>2, FollowedTail DEF AskedFor, Told
<1> QED
  BY <1>2, <1>3, <1>4 DEF AskedFor, Told

LEMMA NewsNeverRemoves ==
    ASSUME NEW served \in Partial(Target, Served), NEW t
    PROVE  Followed(News(served), Tells("removed", t), Tells("added", t))
<1>1. Mute(News(served))
  BY NewsFacts
<1> QED
  BY <1>1 DEF Mute, IsAck, Tells, Followed

LEMMA AskedServed ==
    ASSUME SyncInv, ServerStep, NEW t \in DOMAIN resume, AskedFor(t)
    PROVE  AskedFor(t)'
<1>1. /\ toClient \in Seq(ServerMessage) /\ told \in Partial(Target, Served)
      /\ toServer \in Seq(ClientMessage) /\ t \in Target
  BY InvFacts, ActivesMean DEF SyncInv, PlainTypeOK, ActivesAre
<1>2. UNCHANGED <<active, resume, states>>
  BY DEF ServerStep, ServerRests
<1>3. Scope(t)' = Scope(t) /\ WatchFor(Book', t) = WatchFor(Book, t) /\ t \in DOMAIN states'
  BY <1>2, BookParts, BookPartsAfter DEF Scope, WatchFor, AskedFor
<1>4. WatchFor(Book, t).target = t /\ WatchFor(Book, t).type = "watch"
      /\ WatchFor(Book, t).scope = Scope(t)
  BY BookParts DEF WatchFor, Scope
<1>5. CASE Pushed
  <2>1. toServer' = toServer /\ toClient' = toClient \o News(told) /\ told' = UpToDate(told)
    BY <1>5 DEF Pushed
  <2>2. CASE Asks(toServer, t)
    BY <1>3, <2>1, <2>2 DEF AskedFor
  <2>3. CASE ~Asks(toServer, t)
    <3>1. t \in DOMAIN told /\ told[t].scope = Scope(t)
          /\ Followed(toClient, Tells("removed", t), Tells("added", t))
      BY <2>3 DEF AskedFor, Told
    <3>2. t \in DOMAIN told' /\ told'[t].scope = Scope(t)
      BY <1>1, <2>1, <3>1, UpToDateFacts
    <3>3. Followed(toClient', Tells("removed", t), Tells("added", t))
      BY <1>1, <2>1, <3>1, NewsNeverRemoves, NewsFacts, FollowedJoined
    <3> QED
      BY <1>3, <2>1, <2>3, <3>2, <3>3 DEF AskedFor, Told
  <2> QED
    BY <2>2, <2>3
<1>6. CASE Dropped(Head(toServer))
  <2> DEFINE u == Head(toServer).target
  <2>1. /\ toServer # <<>> /\ toServer' = Tail(toServer) /\ u \in Target
        /\ Head(toServer).type = "unwatch"
        /\ toClient' = toClient \o <<RemovedOf(u)>> /\ told' = Less(told, u)
    BY <1>6 DEF Dropped, Takes
  <2>2. CASE Asks(toServer, t)
    <3>1. Asks(toServer', t)
      BY <1>1, <1>4, <2>1, <2>2, AsksTail DEF AskedFor
    <3>2. LastAsk(toServer', t, WatchFor(Book, t))
      BY <1>1, <1>4, <2>1, <2>2, <3>1, AsksTail DEF AskedFor
    <3> QED
      BY <1>3, <3>1, <3>2 DEF AskedFor
  <2>3. CASE ~Asks(toServer, t)
    <3>1. t \in DOMAIN told /\ told[t].scope = Scope(t)
          /\ Followed(toClient, Tells("removed", t), Tells("added", t))
      BY <2>3 DEF AskedFor, Told
    <3>2. u # t /\ ~Asks(toServer', t)
      BY <1>1, <2>1, <2>3, AsksTail
    <3>3. t \in DOMAIN told' /\ told'[t].scope = Scope(t)
      BY <2>1, <3>1, <3>2 DEF Less
    <3>4. Followed(<<RemovedOf(u)>>, Tells("removed", t), Tells("added", t))
      <4> DEFINE more == <<RemovedOf(u)>>
      <4>1. DOMAIN more = {1} /\ more[1].target = u
        BY <2>1, RemovedOfFacts
      <4> HIDE DEF more, u
      <4>2. Followed(more, Tells("removed", t), Tells("added", t))
        BY <3>2, <4>1 DEF Followed, Tells
      <4> QED
        BY <4>2 DEF more
    <3>5. Followed(toClient', Tells("removed", t), Tells("added", t))
      BY <1>1, <2>1, <3>1, <3>4, RemovedOfFacts, FollowedJoined
    <3> QED
      BY <1>3, <3>2, <3>3, <3>5 DEF AskedFor, Told
  <2> QED
    BY <2>2, <2>3
<1>7. ASSUME NEW deletions \in BOOLEAN, NEW filter \in BOOLEAN, NEW early \in BOOLEAN,
             NEW reset \in BOOLEAN, Served2(Head(toServer), deletions, filter, early, reset)
      PROVE  AskedFor(t)'
  <2> DEFINE request == Head(toServer)
             u == request.target
             M == Answer(request, deletions, filter, early, reset) \o News(ServedThen(request))
             served == ServedThen(request)
  <2>1. /\ toServer # <<>> /\ toServer' = Tail(toServer) /\ u \in Target
        /\ request \in ClientMessage /\ request.type = "watch"
        /\ toClient' = toClient \o M /\ told' = UpToDate(served)
    BY <1>7 DEF Served2, Takes
  <2>2. AckedOnce(M, u)
    BY <1>1, <2>1, AnswerAcks
  <2>3. /\ served \in Partial(Target, Served) /\ DOMAIN served = DOMAIN told \union {u}
        /\ served[u] = [scope |-> request.scope, docs |-> Matched(request)]
        /\ \A v \in DOMAIN told : v # u => served[v] = told[v]
    BY <1>1, <2>1, ServedThenFacts
  <2>4. served[u].scope = request.scope
    BY <2>3
  <2> HIDE DEF M, served
  <2>5. Followed(M, Tells("removed", t), Tells("added", t))
    BY <2>2 DEF AckedOnce, Followed, Tells
  <2>6. M \in Seq(ServerMessage) /\ \E k \in DOMAIN M : M[k] \in Tells("added", u)
    BY <2>2 DEF AckedOnce
  <2>7. CASE Asks(toServer', t)
    <3>1. Asks(toServer, t)
      BY <1>1, <2>1, <2>7, AsksTail
    <3>2. LastAsk(toServer', t, WatchFor(Book, t))
      BY <1>1, <1>4, <2>1, <2>7, <3>1, AsksTail DEF AskedFor
    <3> QED
      BY <1>3, <2>7, <3>2 DEF AskedFor
  <2>8. CASE ~Asks(toServer', t) /\ Asks(toServer, t)
    <3>1. request = WatchFor(Book, t)
      BY <1>1, <1>4, <2>1, <2>8, AsksTail DEF AskedFor
    <3>2. u = t /\ request.scope = Scope(t)
      BY <1>4, <3>1
    <3>3. t \in DOMAIN told' /\ told'[t].scope = Scope(t)
      BY <2>1, <2>3, <2>4, <3>2, UpToDateFacts
    <3>4. Followed(toClient', Tells("removed", t), Tells("added", t))
      BY <1>1, <2>1, <2>5, <2>6, <3>2, FollowedJoined
    <3> QED
      BY <1>3, <2>8, <3>3, <3>4 DEF AskedFor, Told
  <2>9. CASE ~Asks(toServer, t)
    <3>1. t \in DOMAIN told /\ told[t].scope = Scope(t)
          /\ Followed(toClient, Tells("removed", t), Tells("added", t))
      BY <2>9 DEF AskedFor, Told
    <3>2. u # t /\ ~Asks(toServer', t)
      BY <1>1, <2>1, <2>9, AsksTail
    <3>3. t \in DOMAIN told' /\ told'[t].scope = Scope(t)
      BY <2>1, <2>3, <3>1, <3>2, UpToDateFacts
    <3>4. Followed(toClient', Tells("removed", t), Tells("added", t))
      BY <1>1, <2>1, <2>5, <2>6, <3>1, FollowedJoined
    <3> QED
      BY <1>3, <3>2, <3>3, <3>4 DEF AskedFor, Told
  <2> QED
    BY <2>7, <2>8, <2>9
<1> QED
  BY <1>5, <1>6, <1>7 DEF ServerStep

LEMMA AllAskedKept ==
    ASSUME SyncInv, SyncInv', Closed, Step, AllAsked
    PROVE  AllAsked'
<1>1. CASE PlainStep(Head(toClient))
  <2>1. resume' = resume /\ open' = open
    BY <1>1 DEF PlainStep, syncVars
  <2> QED
    BY <1>1, <2>1, AskedPlain DEF AllAsked
<1>2. CASE SnapshotTaken
  <2>1. PICK saved : SnapshotStep(Head(toClient).token, saved)
    BY <1>2, SnapshotTakenMeans
  <2> DEFINE known == Head(toClient).token
  <2>2. /\ open' = open /\ told' = told /\ toClient # <<>> /\ toClient' = Tail(toClient)
        /\ \A t \in DOMAIN resume' : SettledTarget(t, known) \/ TargetBegun(t)
    BY <2>1 DEF SnapshotStep
  <2> HIDE DEF known
  <2> SUFFICES ASSUME open, NEW t \in DOMAIN resume' PROVE AskedFor(t)'
    BY <2>2 DEF AllAsked
  <2>3. CASE TargetBegun(t)
    BY <2>3, AskedBegun
  <2>4. CASE SettledTarget(t, known)
    <3>1. CASE t \in Raised
      <4>1. TargetRaised(t, known)
        BY <2>4, <3>1 DEF SettledTarget
      <4>2. t \in DOMAIN resume
        BY <4>1 DEF TargetRaised
      <4>3. AskedFor(t)
        BY <4>2 DEF AllAsked
      <4> QED
        BY <2>2, <4>1, <4>2, <4>3, AskedRaised
    <3>2. CASE t \notin Raised
      <4>1. TargetKept(t)
        BY <2>4, <3>2 DEF SettledTarget
      <4>2. t \in DOMAIN resume
        BY <4>1 DEF TargetKept
      <4>3. AskedFor(t)
        BY <4>2 DEF AllAsked
      <4> QED
        BY <2>2, <4>1, <4>2, <4>3, AskedKept
    <3> QED
      BY <3>1, <3>2
  <2> QED
    BY <2>2, <2>3, <2>4
<1>3. CASE Written
  <2>1. /\ open' = open /\ told' = told /\ toClient' = toClient
        /\ \A t \in DOMAIN resume' : TargetKept(t) \/ TargetBegun(t)
    BY <1>3 DEF Written, ViewStep
  <2> SUFFICES ASSUME open, NEW t \in DOMAIN resume' PROVE AskedFor(t)'
    BY <2>1 DEF AllAsked
  <2>2. CASE TargetBegun(t)
    BY <2>2, AskedBegun
  <2>3. CASE TargetKept(t)
    <3>1. t \in DOMAIN resume
      BY <2>3 DEF TargetKept
    <3>2. AskedFor(t)
      BY <3>1 DEF AllAsked
    <3> QED
      BY <2>1, <2>3, <3>1, <3>2, AskedKept
  <2> QED
    BY <2>1, <2>2, <2>3
<1>4. CASE ServerStep
  <2>1. resume' = resume /\ open' = open
    BY <1>4 DEF ServerStep, ServerRests
  <2> QED
    BY <1>4, <2>1, AskedServed DEF AllAsked
<1>5. CASE Opened
  <2>1. /\ resume' = resume /\ active' = active
        /\ \A t \in DOMAIN resume : /\ LastAsk(toServer', t, WatchFor(Book, t))
                                    /\ Asks(toServer', t) /\ t \in DOMAIN states'
    BY <1>5 DEF Opened
  <2>2. \A t : WatchFor(Book', t) = WatchFor(Book, t)
    BY <2>1, BookParts, BookPartsAfter DEF WatchFor
  <2> QED
    BY <2>1, <2>2 DEF AllAsked, AskedFor
<1>6. CASE CutOff
  BY <1>6 DEF CutOff, AllAsked
<1>7. CASE WentOffline \/ Elsewhere
  <2>1. /\ UNCHANGED <<active, resume, states, open, toServer, toClient, told>>
    BY <1>7 DEF WentOffline, Elsewhere
  <2>2. \A t : WatchFor(Book', t) = WatchFor(Book, t) /\ Scope(t)' = Scope(t)
    BY <2>1, BookParts, BookPartsAfter DEF WatchFor, Scope
  <2> QED
    BY <2>1, <2>2 DEF AllAsked, AskedFor, Told
<1> QED
  BY <1>1, <1>2, <1>3, <1>4, <1>5, <1>6, <1>7 DEF Step

LEMMA WireStep ==
    ASSUME WireInv, [SyncNext]_watchSyncVars
    PROVE  WireInv' /\ Step
<1>1. SyncInv /\ SyncInv' /\ Closed
  BY StepInv DEF WireInv
<1>2. Step
  BY <1>1, StepKinds DEF Step
<1> QED
  BY <1>1, <1>2, ClosedKept, OrderedKept, MismatchedKept, AllAskedKept DEF WireInv

LEMMA WireInit == SyncInit => WireInv
<1> SUFFICES ASSUME SyncInit PROVE WireInv
  OBVIOUS
<1>1. SyncInv
  BY InitInv
<1>2. ~open /\ ~mismatch /\ toClient = <<>> /\ Closed
  BY DEF SyncInit, Closed
<1>3. Ordered(toClient)
  BY <1>2, OrderedNothing
<1> QED
  BY <1>1, <1>2, <1>3 DEF WireInv, Mismatched, AllAsked

(* The order of the watch stream, however requests and answers cross: what  *)
(* is told is followed by a global snapshot, a reset by being current, a    *)
(* count is never far from the acknowledgement it counts from; each target  *)
(* is known to the server or was asked for last (Listen, SendWatchRequest,  *)
(* OnWatchStreamOpen); and a mismatch found is dealt with by a snapshot     *)
(* that comes before the query's next change (RaiseWatchSnapshot).          *)
THEOREM WireKept == SyncSpec => []WireInv
<1>1. SyncInit => WireInv
  BY WireInit
<1>2. WireInv /\ [SyncNext]_watchSyncVars => WireInv'
  BY WireStep
<1> QED
  BY <1>1, <1>2, PTL DEF SyncSpec
==============================================================================

--------------------------- MODULE RemoteStoreProofs ----------------------------
(***************************************************************************)
(* Theorems of RemoteStore, for any number of writes, any                  *)
(* kMaxPendingWrites and any number of restarts.  The write side's         *)
(* invariant is PipeInv: every step of WritePipeline keeps it, and is a    *)
(* step of OrderedReplies.  The watch side's is OnlineInv.  The two share   *)
(* only the restarts, so each is left alone by the steps of the other.     *)
(***************************************************************************)
EXTENDS RemoteStore, SequenceTheorems, FiniteSetTheorems, TLAPS

-----------------------------------------------------------------------------
(* The write side. *)

(* The queue is in the order of the writes; what is in it is unanswered,   *)
(* and writes are made one after the other.                                *)
QueueIsOrdered ==
    /\ \A i, j \in 1 .. Len(mutationQueue) : i < j => mutationQueue[i] < mutationQueue[j]
    /\ \A w \in Write : answer[w] = "pending"
                          <=> \E i \in 1 .. Len(mutationQueue) : mutationQueue[i] = w
    /\ \A v, w \in Write : v < w /\ answer[w] # "none" => answer[v] # "none"

Room(queue) == IF Len(queue) < MaxPending THEN Len(queue) ELSE MaxPending

(* The sequence p is the front of the queue, of the given length. *)
FrontOf(p, queue, length) ==
    /\ Len(p) = length
    /\ \A i \in 1 .. Len(p) : p[i] = queue[i]

(* No place of the pipeline is left empty while there are writes for it. *)
PipelineIsFull == FrontOf(pipeline, mutationQueue, Room(mutationQueue))

(* Which parts of the stream there are in which state. *)
StreamHasShape ==
    /\ connected => stream \in {"starting", "open"}
    /\ stream = "open" => connected
    /\ handshake => stream = "open"
    /\ stream # "open" => Len(requests) = 0 /\ Len(responses) = 0
    /\ Len(pipeline) # 0 => Started(stream)
    /\ Started(stream) /\ ~handshake => Len(pipeline) # 0

(* A stream that shakes hands carries nothing else. *)
Greeting ==
    stream = "open" /\ ~handshake =>
        /\ Len(responses) + Len(requests) = 1
        /\ \A i \in 1 .. Len(responses) : responses[i].ok /\ responses[i].write = 0
        /\ \A i \in 1 .. Len(requests) : requests[i] = 0

(* Then it carries the pipeline: answers first, and behind a refusal only  *)
(* what the server does not read any more.                                 *)
Carrying ==
    handshake =>
        /\ \A i \in 1 .. Len(requests) : requests[i] \in Write
        /\ Len(responses) <= Len(pipeline)
        /\ \A i \in 1 .. Len(responses) : responses[i].write = pipeline[i]
        /\ ~Ended => /\ Len(responses) + Len(requests) = Len(pipeline)
                     /\ \A i \in 1 .. Len(requests) :
                          requests[i] = pipeline[Len(responses) + i]

(* The server answers ok only to what it has applied. *)
AnswersAreTrue ==
    /\ \A i \in 1 .. Len(responses) :
         responses[i].ok /\ responses[i].write # 0 => responses[i].write \in committed
    /\ AnsweredWasCommitted

(* Only the last token asked for is still wanted. *)
TokensAreStale ==
    \A i \in 1 .. Len(tokens) : tokens[i] =>
        i = Len(tokens) /\ stream = "starting" /\ ~connected

IdleIsIdle == idle => stream = "open" /\ handshake /\ Len(pipeline) = 0

(* What is typed and true of the stream alone. *)
StreamInv ==
    /\ stream \in StreamState /\ tokens \in Seq(BOOLEAN)
    /\ connected \in BOOLEAN /\ handshake \in BOOLEAN /\ idle \in BOOLEAN
    /\ requests \in Seq(Write \union {0}) /\ responses \in Seq(Response)
    /\ StreamHasShape /\ Greeting /\ Carrying /\ TokensAreStale /\ IdleIsIdle

(* Responses carry no number, so that each goes to its own write rests on  *)
(* everything: the stream carries the pipeline (Carrying), which is the    *)
(* front of the queue (PipelineIsFull), which is in order; and a stream    *)
(* never starts with more than its greeting (StreamHasShape, Greeting).    *)
PipeInv ==
    /\ WriteTypeOK /\ QueueIsOrdered /\ PipelineIsFull
    /\ StreamInv /\ AnswersAreTrue

-----------------------------------------------------------------------------
(* Sequences. *)
LEMMA EmptyIsLengthZero ==
    ASSUME NEW S, NEW s \in Seq(S)
    PROVE  Len(s) \in Nat /\ DOMAIN s = 1 .. Len(s) /\ (s = <<>> <=> Len(s) = 0)
BY EmptySeq, LenProperties

LEMMA CountUpTo == ASSUME NEW n \in Nat PROVE Cardinality(1 .. n) = n
<1>1. Cardinality(1 .. n) = IF 1 > n THEN 0 ELSE n - 1 + 1
  BY FS_Interval
<1> QED
  BY <1>1

Ascends(queue) ==
    \A i, j \in 1 .. Len(queue) : i < j => queue[i] < queue[j]

LEMMA RoomIsNat ==
    ASSUME NEW queue \in Seq(Write)
    PROVE  /\ Room(queue) \in Nat /\ Room(queue) <= Len(queue) /\ Room(queue) <= MaxPending
           /\ Room(queue) = 0 <=> Len(queue) = 0
BY EmptyIsLengthZero, WritePipelineAssumption DEF Room

(* The batches not yet in the pipeline are those behind it in the queue. *)
LEMMA BatchesFill ==
    ASSUME NEW queue \in Seq(Write), Ascends(queue),
           NEW p \in Seq(Write), FrontOf(p, queue, Len(p)), Len(p) <= Room(queue)
    PROVE  /\ NextBatches(queue, p) \in Seq(Write)
           /\ Len(NextBatches(queue, p)) = Room(queue) - Len(p)
           /\ \A i \in 1 .. Len(NextBatches(queue, p)) :
                NextBatches(queue, p)[i] = queue[Len(p) + i]
<1> DEFINE k == Len(p)
           last == IF p = <<>> THEN 0 ELSE Last(p)
           sent == {i \in DOMAIN queue : queue[i] <= last}
<1>1. /\ k \in Nat /\ (p = <<>> <=> k = 0)
      /\ DOMAIN queue = 1 .. Len(queue) /\ Len(queue) \in Nat
      /\ k <= Len(queue) /\ k <= MaxPending
      /\ Room(queue) \in Nat /\ MaxPending \in Nat
  BY EmptyIsLengthZero, RoomIsNat, WritePipelineAssumption
<1>2. \A i \in 1 .. Len(queue) : queue[i] \in Nat \ {0} /\ queue[i] \in Write
  <2>1. \A w \in Write : w \in Nat \ {0}
    BY WritePipelineAssumption DEF Write
  <2> QED
    BY <2>1, ElementOfSeq
<1>3. sent = 1 .. k
  <2>1. CASE k = 0
    BY <1>1, <1>2, <2>1
  <2>2. CASE k # 0
    <3>1. last = queue[k] /\ k \in 1 .. Len(queue)
      BY <1>1, <2>2 DEF Last, FrontOf
    <3>2. \A i \in 1 .. Len(queue) : queue[i] <= queue[k] <=> i <= k
      BY <1>1, <1>2, <3>1 DEF Ascends
    <3> HIDE DEF last
    <3> QED
      BY <1>1, <3>1, <3>2
  <2> QED
    BY <2>1, <2>2
<1>4. Cardinality(sent) = k
  <2>1. Cardinality(1 .. k) = k
    BY <1>1, CountUpTo
  <2> QED
    BY <1>3, <2>1
<1>5. NextBatches(queue, p) = SubSeq(queue, k + 1, Room(queue))
  <2>1. k + MaxPending - k = MaxPending
    BY <1>1
  <2> HIDE DEF k, sent
  <2>2. NextBatches(queue, p)
          = SubSeq(queue, Cardinality(sent) + 1,
                   IF Len(queue) < Cardinality(sent) + MaxPending - Len(p) THEN Len(queue)
                   ELSE Cardinality(sent) + MaxPending - Len(p))
    BY DEF NextBatches, sent
  <2> QED
    BY <1>4, <2>1, <2>2 DEF Room, k
<1>6. \A i \in k + 1 .. Room(queue) : queue[i] \in Write
  BY <1>1, <1>2, RoomIsNat
<1>7. /\ SubSeq(queue, k + 1, Room(queue)) \in Seq(Write)
      /\ Len(SubSeq(queue, k + 1, Room(queue)))
           = IF k + 1 <= Room(queue) THEN Room(queue) - (k + 1) + 1 ELSE 0
      /\ \A i \in 1 .. Room(queue) - (k + 1) + 1 :
           SubSeq(queue, k + 1, Room(queue))[i] = queue[k + 1 + i - 1]
  <2>1. k + 1 \in Int /\ Room(queue) \in Int
    BY <1>1
  <2> QED
    BY <1>6, <2>1, SubSeqProperties
<1> QED
  BY <1>1, <1>5, <1>7, SMTT(30)

(* With the batches new behind it, p is full, and new stands behind what   *)
(* was sent.                                                               *)
Refilled(queue, p, sent, new) ==
    /\ p \o new \in Seq(Write) /\ FrontOf(p \o new, queue, Room(queue))
    /\ sent \o new \in Seq(Write \union {0})
    /\ Len(sent \o new) = Len(sent) + Room(queue) - Len(p)
    /\ \A i \in 1 .. Len(sent) : (sent \o new)[i] = sent[i]
    /\ \A i \in Len(sent) + 1 .. Len(sent \o new) :
         /\ (sent \o new)[i] = queue[Len(p) + i - Len(sent)]
         /\ (sent \o new)[i] \in Write

LEMMA FillFills ==
    ASSUME NEW queue \in Seq(Write), Ascends(queue),
           NEW p \in Seq(Write), FrontOf(p, queue, Len(p)), Len(p) <= Room(queue),
           NEW sent \in Seq(Write \union {0})
    PROVE  Refilled(queue, p, sent, NextBatches(queue, p))
<1> DEFINE new == NextBatches(queue, p)
           q == p \o new
           r == sent \o new
<1>1. /\ new \in Seq(Write) /\ Len(new) = Room(queue) - Len(p)
      /\ \A i \in 1 .. Len(new) : new[i] = queue[Len(p) + i]
  BY BatchesFill
<1>2. /\ Len(p) \in Nat /\ Len(new) \in Nat /\ Len(sent) \in Nat
      /\ Room(queue) \in Nat /\ Len(queue) \in Nat /\ Room(queue) <= Len(queue)
  BY <1>1, LenProperties, RoomIsNat
<1>3. new \in Seq(Write \union {0})
  BY <1>1, SeqMonotonic
<1>4. \A i \in 1 .. Len(new) : new[i] \in Write
  BY <1>1, ElementOfSeq
<1> HIDE DEF new
<1>5. /\ p \o new \in Seq(Write) /\ Len(p \o new) = Len(p) + Len(new)
      /\ \A i \in 1 .. Len(p) + Len(new) :
           (p \o new)[i] = IF i <= Len(p) THEN p[i] ELSE new[i - Len(p)]
  BY <1>1, ConcatProperties
<1>6. /\ sent \o new \in Seq(Write \union {0}) /\ Len(sent \o new) = Len(sent) + Len(new)
      /\ \A i \in 1 .. Len(sent) + Len(new) :
           (sent \o new)[i] = IF i <= Len(sent) THEN sent[i] ELSE new[i - Len(sent)]
  BY <1>3, ConcatProperties
<1>7. q = p \o new /\ r = sent \o new
  OBVIOUS
<1> HIDE DEF q, r
<1>8. q \in Seq(Write) /\ Len(q) = Room(queue)
  BY <1>1, <1>2, <1>5, <1>7
<1>9. ASSUME NEW i \in 1 .. Len(q) PROVE q[i] = queue[i]
  <2>1. CASE i <= Len(p)
    <3>1. i \in 1 .. Len(p)
      BY <1>2, <1>8, <2>1
    <3> QED
      BY <1>1, <1>2, <1>5, <1>7, <1>8, <3>1 DEF FrontOf
  <2>2. CASE i > Len(p)
    <3>1. i - Len(p) \in 1 .. Len(new) /\ Len(p) + (i - Len(p)) = i
      BY <1>1, <1>2, <1>8, <2>2
    <3> QED
      BY <1>1, <1>2, <1>5, <1>7, <1>8, <2>2, <3>1
  <2> QED
    BY <1>2, <1>8, <2>1, <2>2
<1>10. r \in Seq(Write \union {0}) /\ Len(r) = Len(sent) + Room(queue) - Len(p)
  BY <1>1, <1>2, <1>6, <1>7
<1>11. \A i \in 1 .. Len(sent) : r[i] = sent[i]
  BY <1>2, <1>6, <1>7
<1>12. ASSUME NEW i \in Len(sent) + 1 .. Len(r)
       PROVE  r[i] = queue[Len(p) + i - Len(sent)] /\ r[i] \in Write
  <2>1. i - Len(sent) \in 1 .. Len(new) /\ Len(p) + (i - Len(sent)) = Len(p) + i - Len(sent)
    BY <1>1, <1>2, <1>10
  <2>2. r[i] = new[i - Len(sent)]
    BY <1>1, <1>2, <1>6, <1>7, <1>10
  <2> QED
    BY <1>1, <1>4, <2>1, <2>2
<1> QED
  BY <1>8, <1>9, <1>10, <1>11, <1>12 DEF FrontOf, Refilled, q, r, new

-----------------------------------------------------------------------------
(* What PipeInv says of the variables, in the form the steps below use. *)
LEMMA PipeFacts ==
    ASSUME WriteTypeOK
    PROVE  /\ Len(mutationQueue) \in Nat /\ Len(pipeline) \in Nat /\ Len(tokens) \in Nat
           /\ Len(requests) \in Nat /\ Len(responses) \in Nat
           /\ pipeline = <<>> <=> Len(pipeline) = 0
           /\ responses = <<>> <=> Len(responses) = 0
           /\ requests = <<>> <=> Len(requests) = 0
           /\ tokens = <<>> <=> Len(tokens) = 0
           /\ DOMAIN responses = 1 .. Len(responses)
           /\ DOMAIN tokens = 1 .. Len(tokens)
           /\ DOMAIN mutationQueue = 1 .. Len(mutationQueue)
           /\ \A i \in 1 .. Len(responses) : responses[i] \in Response
           /\ \A i \in 1 .. Len(requests) : requests[i] \in Write \union {0}
           /\ \A i \in 1 .. Len(pipeline) : pipeline[i] \in Write
           /\ \A i \in 1 .. Len(mutationQueue) : mutationQueue[i] \in Write
           /\ \A i \in 1 .. Len(tokens) : tokens[i] \in BOOLEAN
<1>1. /\ mutationQueue \in Seq(Write) /\ pipeline \in Seq(Write) /\ tokens \in Seq(BOOLEAN)
      /\ requests \in Seq(Write \union {0}) /\ responses \in Seq(Response)
  BY DEF WriteTypeOK
<1> QED
  BY <1>1, EmptyIsLengthZero, ElementOfSeq

LEMMA WritesArePositive == Write \subseteq Nat \ {0}
BY WritePipelineAssumption DEF Write

(* Starting the stream when there is something to send asks for one token, *)
(* and only when no other is wanted.                                       *)
LEMMA StartKeepsTokens ==
    ASSUME NEW p, NEW state \in StreamState, NEW asked \in Seq(BOOLEAN),
           \A i \in 1 .. Len(asked) :
               asked[i] => i = Len(asked) /\ state = "starting" /\ ~connected',
           ~Started(state) => ~connected',
           StartIfNeeded(p, state, asked)
    PROVE  /\ stream' \in StreamState /\ tokens' \in Seq(BOOLEAN) /\ TokensAreStale'
           /\ Started(state) \/ p = <<>> => stream' = state
           /\ ~Started(state) /\ p # <<>> => stream' \in {"starting", "backoff"}
<1>1. Len(asked) \in Nat
  BY LenProperties
<1>2. CASE Started(state) \/ p = <<>>
  BY <1>2 DEF StartIfNeeded, TokensAreStale
<1>3. CASE ~Started(state) /\ p # <<>>
  <2>1. \A i \in 1 .. Len(asked) : ~asked[i]
    BY <1>3 DEF Started
  <2>2. CASE state = "error"
    BY <1>3, <2>1, <2>2 DEF StartIfNeeded, Start, TokensAreStale, StreamState
  <2>3. CASE state # "error"
    <3>1. stream' = "starting" /\ tokens' = Append(asked, TRUE)
      BY <1>3, <2>3 DEF StartIfNeeded, Start
    <3>2. /\ Append(asked, TRUE) \in Seq(BOOLEAN) /\ Len(Append(asked, TRUE)) = Len(asked) + 1
          /\ \A i \in 1 .. Len(asked) : Append(asked, TRUE)[i] = asked[i]
      BY AppendProperties
    <3>3. TokensAreStale'
      BY <1>1, <1>3, <2>1, <3>1, <3>2 DEF TokensAreStale
    <3> QED
      BY <1>3, <3>1, <3>2, <3>3 DEF StreamState
  <2> QED
    BY <2>2, <2>3
<1> QED
  BY <1>2, <1>3

LEMMA StaleIsStale ==
    ASSUME NEW asked \in Seq(BOOLEAN)
    PROVE  /\ Stale(asked) \in Seq(BOOLEAN)
           /\ \A i \in 1 .. Len(Stale(asked)) : ~Stale(asked)[i]
<1>1. Len(asked) \in Nat /\ DOMAIN asked = 1 .. Len(asked)
  BY LenProperties
<1>2. Stale(asked) = [i \in 1 .. Len(asked) |-> FALSE]
  BY <1>1 DEF Stale
<1>3. [i \in 1 .. Len(asked) |-> FALSE] \in Seq(BOOLEAN)
  BY <1>1, SeqDef
<1>4. \A i \in DOMAIN Stale(asked) : ~Stale(asked)[i]
  BY <1>2
<1> QED
  BY <1>2, <1>3, <1>4, LenProperties

(* A stream that is closed, and started again if there is need. *)
LEMMA CloseKeepsStream ==
    ASSUME NEW state \in {"initial", "error"}, NEW asked \in Seq(BOOLEAN),
           \A i \in 1 .. Len(asked) : ~asked[i],
           pipeline' \in Seq(Write),
           ~connected', connected' \in BOOLEAN, handshake' = FALSE, idle' = FALSE,
           requests' = <<>>, responses' = <<>>,
           StartIfNeeded(pipeline', state, asked)
    PROVE  StreamInv'
<1>1. state \in StreamState /\ ~Started(state)
  BY DEF StreamState, Started
<1>2. /\ stream' \in StreamState /\ tokens' \in Seq(BOOLEAN) /\ TokensAreStale'
      /\ pipeline' = <<>> => stream' = state
      /\ pipeline' # <<>> => stream' \in {"starting", "backoff"}
  BY <1>1, StartKeepsTokens
<1>3. /\ Len(requests') = 0 /\ Len(responses') = 0
      /\ requests' \in Seq(Write \union {0}) /\ responses' \in Seq(Response)
  BY EmptySeq
<1>4. pipeline' = <<>> <=> Len(pipeline') = 0
  BY EmptyIsLengthZero
<1>5. StreamHasShape'
  BY <1>1, <1>2, <1>3, <1>4 DEF StreamHasShape, Started
<1>6. stream' # "open"
  BY <1>2, <1>4
<1> QED
  BY <1>2, <1>3, <1>5, <1>6 DEF StreamInv, Greeting, Carrying, IdleIsIdle

-----------------------------------------------------------------------------
(* Filling the pipeline p, which is what responses' and requests carry,    *)
(* keeps the stream in step with it.                                       *)
LEMMA FillKeepsStream ==
    ASSUME StreamInv, mutationQueue' \in Seq(Write), Ascends(mutationQueue'),
           NEW p \in Seq(Write), FrontOf(p, mutationQueue', Len(p)),
           Len(p) <= Room(mutationQueue'),
           responses' \in Seq(Response), UNCHANGED <<connected, handshake>>,
           FillWritePipeline(mutationQueue', p, stream, tokens, requests),
           handshake =>
               /\ \A i \in 1 .. Len(requests) : requests[i] \in Write
               /\ Len(responses') <= Len(p)
               /\ \A i \in 1 .. Len(responses') : responses'[i].write = p[i]
               /\ ~Ended' => /\ Len(responses') + Len(requests) = Len(p)
                             /\ \A i \in 1 .. Len(requests) :
                                  requests[i] = p[Len(responses') + i],
           ~handshake => responses' = responses,
           Started(stream) /\ ~handshake => Len(p) # 0,
           Len(p) # 0 => Started(stream),
           idle => Len(p) = 0
    PROVE  StreamInv' /\ PipelineIsFull' /\ pipeline' \in Seq(Write)
           /\ Len(pipeline') <= MaxPending
<1> DEFINE new == NextBatches(mutationQueue', p)
           ready == stream = "open" /\ handshake
<1>1. /\ pipeline' = p \o new
      /\ requests' = IF ready THEN requests \o new ELSE requests
      /\ idle' = IF ready /\ new # <<>> THEN FALSE
                 ELSE idle \/ (stream = "open" /\ p \o new = <<>>)
      /\ StartIfNeeded(p \o new, stream, tokens)
  BY DEF FillWritePipeline
<1>2. /\ pipeline' \in Seq(Write) /\ FrontOf(pipeline', mutationQueue', Room(mutationQueue'))
      /\ requests \o new \in Seq(Write \union {0})
      /\ Len(requests \o new) = Len(requests) + Room(mutationQueue') - Len(p)
      /\ \A i \in 1 .. Len(requests) : (requests \o new)[i] = requests[i]
      /\ \A i \in Len(requests) + 1 .. Len(requests \o new) :
           /\ (requests \o new)[i] = mutationQueue'[Len(p) + i - Len(requests)]
           /\ (requests \o new)[i] \in Write
  <2>1. requests \in Seq(Write \union {0})
    BY DEF StreamInv
  <2>2. Refilled(mutationQueue', p, requests, new)
    BY <2>1, FillFills
  <2> HIDE DEF new
  <2> QED
    BY <1>1, <2>2 DEF Refilled
<1>3. new \in Seq(Write) /\ Len(new) = Room(mutationQueue') - Len(p)
  BY BatchesFill
<1>4. /\ Len(p) \in Nat /\ Len(requests) \in Nat /\ Len(responses') \in Nat
      /\ Len(pipeline') = Room(mutationQueue') /\ Room(mutationQueue') \in Nat
      /\ Room(mutationQueue') <= MaxPending
      /\ pipeline' = <<>> <=> Len(pipeline') = 0
      /\ new = <<>> <=> Len(new) = 0
  BY <1>2, <1>3, EmptyIsLengthZero, RoomIsNat DEF FrontOf, StreamInv
<1>5. \A i \in 1 .. Len(p) : p[i] = pipeline'[i]
  <2>1. \A i \in 1 .. Len(p) : p[i] = mutationQueue'[i]
    BY DEF FrontOf
  <2>2. \A i \in 1 .. Len(pipeline') : pipeline'[i] = mutationQueue'[i]
    BY <1>2 DEF FrontOf
  <2>3. \A i \in 1 .. Len(p) : i \in 1 .. Len(pipeline')
    BY <1>4
  <2> QED
    BY <2>1, <2>2, <2>3
<1> HIDE DEF new
<1>6. /\ stream' \in StreamState /\ tokens' \in Seq(BOOLEAN) /\ TokensAreStale'
      /\ Started(stream) \/ pipeline' = <<>> => stream' = stream
      /\ ~Started(stream) /\ pipeline' # <<>> => stream' \in {"starting", "backoff"}
  <2>1. \A i \in 1 .. Len(tokens) :
           tokens[i] => i = Len(tokens) /\ stream = "starting" /\ ~connected'
    BY DEF StreamInv, TokensAreStale
  <2>2. ~Started(stream) => ~connected'
    BY DEF StreamInv, StreamHasShape, Started
  <2>3. StartIfNeeded(pipeline', stream, tokens)
    BY <1>1
  <2>4. stream \in StreamState /\ tokens \in Seq(BOOLEAN)
    BY DEF StreamInv
  <2> QED
    BY <2>1, <2>2, <2>3, <2>4, StartKeepsTokens
<1>7. stream' = "open" <=> stream = "open"
  BY <1>6 DEF Started
<1>8. StreamHasShape'
  <2>1. ~ready => requests' = requests
    BY <1>1
  <2>2. stream # "open" => Len(requests') = 0 /\ Len(responses') = 0
    BY <2>1 DEF StreamInv, StreamHasShape
  <2>3. Len(pipeline') # 0 => Started(stream')
    BY <1>4, <1>6 DEF Started
  <2>4. Started(stream') /\ ~handshake' => Len(pipeline') # 0
    BY <1>4, <1>6
  <2>5. connected' => stream' \in {"starting", "open"}
    BY <1>6 DEF StreamInv, StreamHasShape, Started
  <2>6. (stream' = "open" => connected') /\ (handshake' => stream' = "open")
    BY <1>7 DEF StreamInv, StreamHasShape
  <2> QED
    BY <1>7, <2>2, <2>3, <2>4, <2>5, <2>6 DEF StreamHasShape
<1>9. requests' \in Seq(Write \union {0})
  BY <1>1, <1>2 DEF StreamInv
<1>10. Greeting'
  <2>1. ~handshake => requests' = requests /\ responses' = responses
    BY <1>1
  <2> QED
    BY <1>7, <2>1 DEF StreamInv, Greeting
<1>11. Carrying'
  <2> SUFFICES ASSUME handshake PROVE Carrying'
    BY DEF Carrying
  <2>1. ready /\ requests' = requests \o new
    BY <1>1 DEF StreamInv, StreamHasShape
  <2>2. \A i \in 1 .. Len(requests') : requests'[i] \in Write
    <3>1. Len(requests) \in Nat /\ Len(requests') \in Nat /\ requests' = requests \o new
      BY <1>4, <1>9, <2>1, EmptyIsLengthZero
    <3>2. \A i \in 1 .. Len(requests) : requests'[i] = requests[i] /\ requests[i] \in Write
      BY <1>2, <2>1, <3>1 DEF StreamInv, Carrying
    <3>3. \A i \in Len(requests) + 1 .. Len(requests') : requests'[i] \in Write
      BY <1>2, <3>1
    <3> QED
      BY <3>1, <3>2, <3>3
  <2>3. Len(responses') <= Len(pipeline')
    BY <1>4
  <2>4. \A i \in 1 .. Len(responses') : responses'[i].write = pipeline'[i]
    BY <1>4, <1>5
  <2>5. ASSUME ~Ended'
        PROVE  /\ Len(responses') + Len(requests') = Len(pipeline')
               /\ \A i \in 1 .. Len(requests') :
                    requests'[i] = pipeline'[Len(responses') + i]
    <3>0. Len(responses') + Len(requests) = Len(p)
      BY <2>5
    <3>1. Len(responses') + Len(requests') = Len(pipeline')
      BY <1>2, <1>4, <2>1, <3>0
    <3>2. ASSUME NEW i \in 1 .. Len(requests')
          PROVE  requests'[i] = pipeline'[Len(responses') + i]
      <4>1. CASE i <= Len(requests)
        <5>1. i \in 1 .. Len(requests) /\ Len(responses') + i \in 1 .. Len(p)
          BY <1>4, <2>5, <3>2, <4>1
        <5> QED
          BY <1>2, <1>5, <2>1, <2>5, <5>1
      <4>2. CASE i > Len(requests)
        <5>1. i \in Len(requests) + 1 .. Len(requests \o new)
          BY <1>4, <2>1, <4>2
        <5>2. Len(p) + i - Len(requests) = Len(responses') + i
          <6>1. /\ Len(p) \in Nat /\ Len(requests) \in Nat /\ Len(responses') \in Nat
                /\ i \in Nat
            BY <1>4, <3>2
          <6> QED
            BY <3>0, <6>1
        <5>3. Len(responses') + i \in 1 .. Len(pipeline')
          BY <1>4, <2>1, <3>1, <5>1
        <5> QED
          <6>1. requests'[i] = mutationQueue'[Len(p) + i - Len(requests)]
            BY <1>2, <2>1, <5>1
          <6>2. \A k \in 1 .. Len(pipeline') : pipeline'[k] = mutationQueue'[k]
            BY <1>2 DEF FrontOf
          <6> QED
            BY <5>2, <5>3, <6>1, <6>2
      <4> QED
        BY <1>4, <4>1, <4>2
    <3> QED
      BY <3>1, <3>2
  <2> QED
    BY <2>2, <2>3, <2>4, <2>5 DEF Carrying
<1>12. IdleIsIdle' /\ idle' \in BOOLEAN
  <2>1. idle' \in BOOLEAN
    BY <1>1 DEF StreamInv
  <2>2. ASSUME idle' PROVE stream' = "open" /\ handshake' /\ Len(pipeline') = 0
    <3>1. CASE ready
      <4>1. new = <<>> /\ (idle \/ pipeline' = <<>>)
        BY <1>1, <2>2, <3>1
      <4>2. Len(pipeline') = 0
        BY <1>3, <1>4, <4>1
      <4> QED
        BY <1>7, <3>1, <4>2
    <3>2. CASE ~ready
      <4>1. ~idle
        BY <3>2 DEF StreamInv, IdleIsIdle
      <4>2. stream = "open" /\ pipeline' = <<>>
        BY <1>1, <2>2, <3>2, <4>1
      <4> QED
        BY <1>3, <1>4, <3>2, <4>2 DEF Started
    <3> QED
      BY <3>1, <3>2
  <2> QED
    BY <2>1, <2>2 DEF IdleIsIdle
<1> QED
  BY <1>2, <1>4, <1>6, <1>8, <1>9, <1>10, <1>11, <1>12 DEF StreamInv, PipelineIsFull

-----------------------------------------------------------------------------
(* Answering the head of the queue. *)
LEMMA TailShifts ==
    ASSUME NEW S, NEW s \in Seq(S), s # <<>>
    PROVE  /\ Tail(s) \in Seq(S) /\ Len(Tail(s)) = Len(s) - 1
           /\ \A i \in 1 .. Len(Tail(s)) : Tail(s)[i] = s[i + 1]
           /\ Head(s) = s[1]
BY HeadTailProperties

LEMMA WithoutHead ==
    ASSUME NEW S, NEW queue \in Seq(S), Len(queue) # 0
    PROVE  /\ RemoveAt(queue, 1) \in Seq(S) /\ Len(RemoveAt(queue, 1)) = Len(queue) - 1
           /\ \A i \in 1 .. Len(queue) - 1 : RemoveAt(queue, 1)[i] = queue[i + 1]
<1>1. Len(queue) \in Nat \ {0} /\ \A i \in 1 .. Len(queue) : queue[i] \in S
  BY EmptyIsLengthZero, ElementOfSeq
<1>2. SubSeq(queue, 1, 1 - 1) = <<>>
  <2>1. 1 - 1 \in Int /\ 1 - 1 < 1
    OBVIOUS
  <2> QED
    BY <2>1, SubSeqEmpty
<1>3. /\ SubSeq(queue, 1 + 1, Len(queue)) \in Seq(S)
      /\ Len(SubSeq(queue, 1 + 1, Len(queue)))
           = IF 1 + 1 <= Len(queue) THEN Len(queue) - (1 + 1) + 1 ELSE 0
      /\ \A i \in 1 .. Len(queue) - (1 + 1) + 1 :
           SubSeq(queue, 1 + 1, Len(queue))[i] = queue[1 + 1 + i - 1]
  <2>1. 1 + 1 \in Int /\ Len(queue) \in Int /\ \A i \in 1 + 1 .. Len(queue) : queue[i] \in S
    BY <1>1
  <2> QED
    BY <2>1, SubSeqProperties
<1>4. RemoveAt(queue, 1) = SubSeq(queue, 1 + 1, Len(queue))
  BY <1>2, <1>3, ConcatEmptySeq DEF RemoveAt
<1> DEFINE rest == SubSeq(queue, 1 + 1, Len(queue))
<1> HIDE DEF rest
<1>5. rest \in Seq(S) /\ Len(rest) = Len(queue) - 1
  <2>1. rest \in Seq(S)
    BY <1>3 DEF rest
  <2>2. Len(rest) = IF 1 + 1 <= Len(queue) THEN Len(queue) - (1 + 1) + 1 ELSE 0
    BY <1>3 DEF rest
  <2> QED
    <3>1. Len(queue) \in Nat \ {0}
      BY <1>1
    <3> QED
      <4>1. \A l \in Nat \ {0} :
                (IF 1 + 1 <= l THEN l - (1 + 1) + 1 ELSE 0) = l - 1
        OBVIOUS
      <4> QED
        BY <2>1, <2>2, <3>1, <4>1
<1>6. ASSUME NEW i \in 1 .. Len(queue) - 1 PROVE rest[i] = queue[i + 1]
  <2>1. i \in 1 .. Len(queue) - (1 + 1) + 1 /\ 1 + 1 + i - 1 = i + 1
    BY <1>1
  <2> QED
    BY <1>3, <2>1 DEF rest
<1>7. RemoveAt(queue, 1) = rest
  BY <1>4 DEF rest
<1> QED
  BY <1>5, <1>6, <1>7

LEMMA HeadAnswered ==
    ASSUME PipeInv, Len(pipeline) # 0, NEW a \in {"ok", "failed"},
           Answered(Head(pipeline), a)
    PROVE  /\ mutationQueue' \in Seq(Write) /\ Ascends(mutationQueue') /\ QueueIsOrdered'
           /\ Tail(pipeline) \in Seq(Write) /\ Len(Tail(pipeline)) = Len(pipeline) - 1
           /\ \A i \in 1 .. Len(pipeline) - 1 : Tail(pipeline)[i] = pipeline[i + 1]
           /\ FrontOf(Tail(pipeline), mutationQueue', Len(Tail(pipeline)))
           /\ Len(Tail(pipeline)) <= Room(mutationQueue')
           /\ answer' \in [Write -> {"none", "pending", "ok", "failed"}]
           /\ \A w \in Write : answer'[w] = "ok" =>
                answer[w] = "ok" \/ (w = pipeline[1] /\ a = "ok")
           /\ Replies!Reply(pipeline[1]) /\ pipeline[1] \in Write
<1> DEFINE h == pipeline[1]
<1>1. /\ pipeline \in Seq(Write) /\ mutationQueue \in Seq(Write) /\ pipeline # <<>>
      /\ answer \in [Write -> {"none", "pending", "ok", "failed"}]
      /\ Ascends(mutationQueue)
      /\ \A w \in Write : answer[w] = "pending"
                             <=> \E i \in 1 .. Len(mutationQueue) : mutationQueue[i] = w
      /\ \A v, w \in Write : v < w /\ answer[w] # "none" => answer[v] # "none"
      /\ FrontOf(pipeline, mutationQueue, Room(mutationQueue))
  BY EmptyIsLengthZero DEF PipeInv, WriteTypeOK, QueueIsOrdered, Ascends, PipelineIsFull
<1>2. /\ Len(pipeline) \in Nat \ {0} /\ Len(mutationQueue) \in Nat
      /\ Len(pipeline) = Room(mutationQueue) /\ Room(mutationQueue) <= Len(mutationQueue)
      /\ Room(mutationQueue) \in Nat
      /\ \A i \in 1 .. Len(mutationQueue) : mutationQueue[i] \in Write
      /\ DOMAIN mutationQueue = 1 .. Len(mutationQueue)
  BY <1>1, EmptyIsLengthZero, RoomIsNat, ElementOfSeq DEF FrontOf
<1>3. /\ Tail(pipeline) \in Seq(Write) /\ Len(Tail(pipeline)) = Len(pipeline) - 1
      /\ \A i \in 1 .. Len(pipeline) - 1 : Tail(pipeline)[i] = pipeline[i + 1]
      /\ Head(pipeline) = h
  BY <1>1, HeadTailProperties
<1>4. h = mutationQueue[1] /\ h \in Write /\ 1 \in 1 .. Len(mutationQueue)
  BY <1>1, <1>2 DEF FrontOf
<1> HIDE DEF h
<1>5. answer' = [answer EXCEPT ![h] = a] /\ mutationQueue' = RemoveAt(mutationQueue, 1)
  <2>1. PICK i \in 1 .. Len(mutationQueue) :
          mutationQueue[i] = h /\ mutationQueue' = RemoveAt(mutationQueue, i)
    BY <1>2, <1>3 DEF Answered
  <2>2. i = 1
    BY <1>1, <1>2, <1>4, <2>1, WritesArePositive DEF Ascends
  <2> QED
    BY <1>3, <2>1, <2>2 DEF Answered
<1>6. /\ mutationQueue' \in Seq(Write) /\ Len(mutationQueue') = Len(mutationQueue) - 1
      /\ \A i \in 1 .. Len(mutationQueue) - 1 : mutationQueue'[i] = mutationQueue[i + 1]
  <2>1. Len(mutationQueue) # 0
    BY <1>2, <1>4
  <2>2. /\ RemoveAt(mutationQueue, 1) \in Seq(Write)
        /\ Len(RemoveAt(mutationQueue, 1)) = Len(mutationQueue) - 1
        /\ \A i \in 1 .. Len(mutationQueue) - 1 :
             RemoveAt(mutationQueue, 1)[i] = mutationQueue[i + 1]
    BY <1>1, <2>1, WithoutHead
  <2> QED
    BY <1>5, <2>2
<1>7. Ascends(mutationQueue')
  BY <1>1, <1>2, <1>6 DEF Ascends
<1>8. answer' \in [Write -> {"none", "pending", "ok", "failed"}]
      /\ answer[h] = "pending" /\ answer'[h] = a /\ \A w \in Write \ {h} : answer'[w] = answer[w]
  BY <1>1, <1>4, <1>5
<1>9. ASSUME NEW w \in Write
      PROVE  answer'[w] = "pending"
               <=> \E i \in 1 .. Len(mutationQueue') : mutationQueue'[i] = w
  <2>1. CASE w = h
    <3>1. \A i \in 1 .. Len(mutationQueue') : mutationQueue'[i] # h
      BY <1>1, <1>2, <1>4, <1>6, WritesArePositive DEF Ascends
    <3> QED
      BY <1>8, <2>1, <3>1
  <2>2. CASE w # h
    <3>1. ASSUME NEW i \in 1 .. Len(mutationQueue), mutationQueue[i] = w
          PROVE  \E j \in 1 .. Len(mutationQueue') : mutationQueue'[j] = w
      <4>1. i - 1 \in 1 .. Len(mutationQueue') /\ (i - 1) + 1 = i
        BY <1>2, <1>4, <1>6, <2>2, <3>1
      <4> QED
        BY <1>6, <3>1, <4>1
    <3>2. ASSUME NEW i \in 1 .. Len(mutationQueue'), mutationQueue'[i] = w
          PROVE  \E j \in 1 .. Len(mutationQueue) : mutationQueue[j] = w
      <4>1. i + 1 \in 1 .. Len(mutationQueue)
        BY <1>2, <1>6
      <4> QED
        BY <1>6, <3>2, <4>1
    <3> QED
      BY <1>1, <1>8, <2>2, <3>1, <3>2
  <2> QED
    BY <2>1, <2>2
<1>10. QueueIsOrdered'
  <2>1. \A v, w \in Write : v < w /\ answer'[w] # "none" => answer'[v] # "none"
    BY <1>1, <1>8
  <2> QED
    BY <1>7, <1>9, <2>1 DEF QueueIsOrdered, Ascends
<1>11. /\ FrontOf(Tail(pipeline), mutationQueue', Len(Tail(pipeline)))
       /\ Len(Tail(pipeline)) <= Room(mutationQueue')
  <2>1. \A i \in 1 .. Len(pipeline) - 1 :
           pipeline[i + 1] = mutationQueue[i + 1] /\ mutationQueue'[i] = mutationQueue[i + 1]
    BY <1>1, <1>2, <1>6 DEF FrontOf
  <2>2. Len(Tail(pipeline)) <= Room(mutationQueue')
    BY <1>2, <1>3, <1>6, WritePipelineAssumption DEF Room
  <2> QED
    BY <1>3, <2>1, <2>2 DEF FrontOf
<1>12. Replies!Reply(h)
  <2>1. \A v \in Write : v < h => answer[v] # "pending"
    BY <1>1, <1>2, <1>4, WritesArePositive DEF Ascends
  <2> QED
    BY <1>5, <1>8, <2>1 DEF Replies!Reply, Replies!Write, Write
<1>13. \A w \in Write : answer'[w] = "ok" => answer[w] = "ok" \/ (w = h /\ a = "ok")
  BY <1>8
<1> QED
  BY <1>3, <1>4, <1>6, <1>7, <1>8, <1>10, <1>11, <1>12, <1>13 DEF h

-----------------------------------------------------------------------------
(* Every step keeps PipeInv and is a step of OrderedReplies, or none. *)
Kept == PipeInv' /\ [Replies!RepliesNext]_answer

LEMMA Assembled ==
    ASSUME StreamInv', QueueIsOrdered', PipelineIsFull', AnswersAreTrue',
           pipeline' \in Seq(Write), Len(pipeline') <= MaxPending,
           mutationQueue' \in Seq(Write), committed' \subseteq Write,
           answer' \in [Write -> {"none", "pending", "ok", "failed"}]
    PROVE  PipeInv'
BY DEF PipeInv, StreamInv, WriteTypeOK

LEMMA PipeInvInit == WriteInit => PipeInv /\ Replies!RepliesInit
<1> SUFFICES ASSUME WriteInit PROVE PipeInv /\ Replies!RepliesInit
  OBVIOUS
<1>1. /\ Len(mutationQueue) = 0 /\ Len(pipeline) = 0 /\ Len(tokens) = 0
      /\ Len(requests) = 0 /\ Len(responses) = 0
      /\ mutationQueue \in Seq(Write) /\ pipeline \in Seq(Write) /\ tokens \in Seq(BOOLEAN)
      /\ requests \in Seq(Write \union {0}) /\ responses \in Seq(Response)
  BY EmptySeq DEF WriteInit
<1>2. WriteTypeOK
  <2>1. Len(pipeline) <= MaxPending
    BY <1>1, WritePipelineAssumption
  <2>2. answer \in [Write -> {"none", "pending", "ok", "failed"}]
    BY DEF WriteInit
  <2>3. stream \in StreamState /\ connected = FALSE /\ handshake = FALSE /\ idle = FALSE
        /\ committed = {}
    BY DEF WriteInit, StreamState
  <2> QED
    BY <1>1, <2>1, <2>2, <2>3 DEF WriteTypeOK
<1>3. QueueIsOrdered /\ PipelineIsFull
  BY <1>1, WritePipelineAssumption
     DEF WriteInit, QueueIsOrdered, PipelineIsFull, FrontOf, Room
<1>4. StreamInv
  BY <1>1, <1>2
     DEF WriteInit, StreamInv, WriteTypeOK, StreamHasShape, Greeting, Carrying,
         TokensAreStale, IdleIsIdle, Started
<1>5. AnswersAreTrue
  BY <1>1 DEF WriteInit, AnswersAreTrue, AnsweredWasCommitted
<1>6. Replies!RepliesInit
  BY DEF WriteInit, Replies!RepliesInit, Replies!Write, Write
<1> QED
  BY <1>2, <1>3, <1>4, <1>5, <1>6 DEF PipeInv

LEMMA WriteMutationsKept ==
    ASSUME PipeInv, NEW w \in Write, WriteMutations(w) PROVE Kept
<1>1. /\ WriteTypeOK /\ StreamInv /\ QueueIsOrdered /\ Ascends(mutationQueue)
      /\ mutationQueue \in Seq(Write) /\ pipeline \in Seq(Write)
      /\ answer \in [Write -> {"none", "pending", "ok", "failed"}]
      /\ FrontOf(pipeline, mutationQueue, Room(mutationQueue))
  BY DEF PipeInv, WriteTypeOK, QueueIsOrdered, Ascends, PipelineIsFull
<1>2. /\ Len(mutationQueue) \in Nat /\ Len(pipeline) \in Nat
      /\ Len(pipeline) = Room(mutationQueue) /\ Room(mutationQueue) <= Len(mutationQueue)
      /\ \A i \in 1 .. Len(mutationQueue) : mutationQueue[i] \in Write
  BY <1>1, EmptyIsLengthZero, RoomIsNat, ElementOfSeq DEF FrontOf
<1>3. /\ mutationQueue' = Append(mutationQueue, w) /\ mutationQueue' \in Seq(Write)
      /\ Len(mutationQueue') = Len(mutationQueue) + 1
      /\ \A i \in 1 .. Len(mutationQueue) : mutationQueue'[i] = mutationQueue[i]
      /\ mutationQueue'[Len(mutationQueue) + 1] = w
  BY <1>1, AppendProperties DEF WriteMutations
<1>4. /\ answer[w] = "none" /\ \A v \in Write : v < w => answer[v] # "none"
      /\ answer' = [answer EXCEPT ![w] = "pending"]
      /\ answer' \in [Write -> {"none", "pending", "ok", "failed"}]
      /\ answer'[w] = "pending" /\ \A v \in Write \ {w} : answer'[v] = answer[v]
  BY <1>1 DEF WriteMutations
<1>5. \A i \in 1 .. Len(mutationQueue) : mutationQueue[i] < w
  <2> SUFFICES ASSUME NEW i \in 1 .. Len(mutationQueue) PROVE mutationQueue[i] < w
    OBVIOUS
  <2>1. mutationQueue[i] \in Write /\ answer[mutationQueue[i]] = "pending"
    BY <1>1, <1>2 DEF QueueIsOrdered
  <2>2. ~(w < mutationQueue[i]) /\ mutationQueue[i] # w
    BY <1>1, <1>4, <2>1 DEF QueueIsOrdered
  <2>3. mutationQueue[i] \in Nat /\ w \in Nat
    BY <2>1, WritesArePositive
  <2> QED
    BY <2>2, <2>3
<1>6. Ascends(mutationQueue')
  <2> SUFFICES ASSUME NEW i \in 1 .. Len(mutationQueue'), NEW j \in 1 .. Len(mutationQueue'),
                      i < j
               PROVE  mutationQueue'[i] < mutationQueue'[j]
    BY DEF Ascends
  <2>1. i \in 1 .. Len(mutationQueue)
    BY <1>2, <1>3
  <2>2. CASE j = Len(mutationQueue) + 1
    BY <1>3, <1>5, <2>1, <2>2
  <2>3. CASE j # Len(mutationQueue) + 1
    <3>1. j \in 1 .. Len(mutationQueue)
      BY <1>2, <1>3, <2>3
    <3>2. mutationQueue[i] < mutationQueue[j]
      BY <1>1, <2>1, <3>1 DEF Ascends
    <3> QED
      BY <1>3, <2>1, <3>1, <3>2
  <2> QED
    BY <2>2, <2>3
<1>7. QueueIsOrdered'
  <2>1. ASSUME NEW v \in Write
        PROVE  answer'[v] = "pending"
                 <=> \E i \in 1 .. Len(mutationQueue') : mutationQueue'[i] = v
    <3>1. CASE v = w
      <4>1. Len(mutationQueue) + 1 \in 1 .. Len(mutationQueue')
        BY <1>2, <1>3
      <4> QED
        BY <1>3, <1>4, <3>1, <4>1
    <3>2. CASE v # w
      <4>1. (\E i \in 1 .. Len(mutationQueue') : mutationQueue'[i] = v)
              <=> \E i \in 1 .. Len(mutationQueue) : mutationQueue[i] = v
        BY <1>2, <1>3, <3>2
      <4> QED
        BY <1>1, <1>4, <3>2, <4>1 DEF QueueIsOrdered
    <3> QED
      BY <3>1, <3>2
  <2>2. \A u, v \in Write : u < v /\ answer'[v] # "none" => answer'[u] # "none"
    BY <1>1, <1>4 DEF QueueIsOrdered
  <2> QED
    BY <1>6, <2>1, <2>2 DEF QueueIsOrdered, Ascends
<1>8. /\ FrontOf(pipeline, mutationQueue', Len(pipeline))
      /\ Len(pipeline) <= Room(mutationQueue')
  <2>1. \A i \in 1 .. Len(pipeline) : pipeline[i] = mutationQueue'[i]
    BY <1>1, <1>2, <1>3 DEF FrontOf
  <2>2. Len(pipeline) <= Room(mutationQueue')
    BY <1>2, <1>3, WritePipelineAssumption DEF Room
  <2> QED
    BY <2>1, <2>2 DEF FrontOf
<1>9. /\ FillWritePipeline(mutationQueue', pipeline, stream, tokens, requests)
      /\ UNCHANGED <<connected, handshake, responses, committed>>
  BY DEF WriteMutations
<1>10. /\ StreamInv' /\ PipelineIsFull' /\ pipeline' \in Seq(Write)
       /\ Len(pipeline') <= MaxPending
  <2>1. responses' \in Seq(Response) /\ UNCHANGED <<connected, handshake>>
    BY <1>9 DEF PipeInv, StreamInv
  <2>2. handshake =>
               /\ \A i \in 1 .. Len(requests) : requests[i] \in Write
               /\ Len(responses') <= Len(pipeline)
               /\ \A i \in 1 .. Len(responses') : responses'[i].write = pipeline[i]
               /\ ~Ended' => /\ Len(responses') + Len(requests) = Len(pipeline)
                             /\ \A i \in 1 .. Len(requests) :
                                  requests[i] = pipeline[Len(responses') + i]
    BY <1>1, <1>9 DEF StreamInv, Carrying, Ended
  <2>3. /\ ~handshake => responses' = responses
        /\ Started(stream) /\ ~handshake => Len(pipeline) # 0
        /\ Len(pipeline) # 0 => Started(stream)
        /\ idle => Len(pipeline) = 0
    BY <1>1, <1>9 DEF StreamInv, StreamHasShape, IdleIsIdle
  <2> QED
    BY <1>1, <1>3, <1>6, <1>8, <1>9, <2>1, <2>2, <2>3, FillKeepsStream
<1>11. AnswersAreTrue' /\ committed' \subseteq Write
  BY <1>4, <1>9 DEF PipeInv, WriteTypeOK, AnswersAreTrue, AnsweredWasCommitted
<1>12. Replies!RepliesNext
  BY <1>4 DEF Replies!RepliesNext, Replies!Issue, Replies!Write, Write
<1> QED
  BY <1>3, <1>4, <1>7, <1>10, <1>11, <1>12, Assembled DEF Kept

-----------------------------------------------------------------------------
(* Steps of the stream: the queue and the pipeline stay as they are. *)
LEMMA OnlyTheStream ==
    ASSUME PipeInv, UNCHANGED <<queueVars, pipeline>>, StreamInv',
           committed \subseteq committed', committed' \subseteq Write,
           \A i \in 1 .. Len(responses') :
               responses'[i].ok /\ responses'[i].write # 0 => responses'[i].write \in committed'
    PROVE  Kept
<1>1. /\ answer' = answer /\ mutationQueue' = mutationQueue /\ pipeline' = pipeline
  BY DEF queueVars
<1>2. QueueIsOrdered' /\ PipelineIsFull'
  BY <1>1 DEF PipeInv, QueueIsOrdered, PipelineIsFull, FrontOf, Room
<1>3. AnswersAreTrue'
  BY <1>1 DEF PipeInv, AnswersAreTrue, AnsweredWasCommitted
<1>4. WriteTypeOK'
  BY <1>1 DEF PipeInv, StreamInv, WriteTypeOK
<1> QED
  BY <1>1, <1>2, <1>3, <1>4 DEF PipeInv, Kept

LEMMA TokenArrivesKept == ASSUME PipeInv, TokenArrives PROVE Kept
<1>1. /\ UNCHANGED <<queueVars, pipeline>> /\ UNCHANGED <<stream, handshake, idle>>
      /\ UNCHANGED <<requests, responses, committed>>
      /\ tokens # <<>> /\ tokens' = Tail(tokens) /\ connected' = (connected \/ Head(tokens))
  BY DEF TokenArrives
<1>2. StreamInv /\ tokens \in Seq(BOOLEAN) /\ committed \subseteq Write /\ pipeline' = pipeline
  BY <1>1 DEF PipeInv, StreamInv, WriteTypeOK
<1>3. /\ Len(tokens) \in Nat \ {0} /\ tokens' \in Seq(BOOLEAN)
      /\ Len(tokens') = Len(tokens) - 1 /\ Head(tokens) = tokens[1]
      /\ \A i \in 1 .. Len(tokens') : tokens'[i] = tokens[i + 1]
      /\ \A i \in 1 .. Len(tokens) : tokens[i] \in BOOLEAN
  <2>1. Len(tokens) \in Nat \ {0}
    BY <1>1, <1>2, EmptyIsLengthZero
  <2>2. /\ Tail(tokens) \in Seq(BOOLEAN) /\ Len(Tail(tokens)) = Len(tokens) - 1
        /\ \A i \in 1 .. Len(Tail(tokens)) : Tail(tokens)[i] = tokens[i + 1]
        /\ Head(tokens) = tokens[1]
    BY <1>1, <1>2, TailShifts, Zenon
  <2>3. \A i \in 1 .. Len(tokens) : tokens[i] \in BOOLEAN
    BY <1>2, ElementOfSeq
  <2> QED
    BY <1>1, <2>1, <2>2, <2>3
<1>4. tokens[1] => Len(tokens) = 1 /\ stream = "starting" /\ ~connected
  BY <1>2, <1>3 DEF StreamInv, TokensAreStale
<1>5. connected' \in BOOLEAN
  BY <1>1
<1>6. TokensAreStale'
  <2> SUFFICES ASSUME NEW i \in 1 .. Len(tokens'), tokens'[i]
               PROVE  i = Len(tokens') /\ stream' = "starting" /\ ~connected'
    BY DEF TokensAreStale
  <2>1. i + 1 \in 1 .. Len(tokens) /\ tokens[i + 1]
    BY <1>3
  <2>2. i + 1 = Len(tokens) /\ stream = "starting" /\ ~connected
    BY <1>2, <2>1 DEF StreamInv, TokensAreStale
  <2>3. ~tokens[1]
    BY <1>3, <1>4, <2>2
  <2>4. ~connected'
    BY <1>1, <1>3, <2>2, <2>3
  <2>5. i = Len(tokens')
    BY <1>3, <2>2
  <2> QED
    BY <1>1, <2>2, <2>4, <2>5
<1>7. StreamHasShape'
  <2>1. connected' => stream \in {"starting", "open"}
    BY <1>1, <1>2, <1>3, <1>4 DEF StreamInv, StreamHasShape
  <2>2. stream = "open" => connected'
    BY <1>1, <1>2 DEF StreamInv, StreamHasShape
  <2> QED
    BY <1>1, <1>2, <2>1, <2>2 DEF StreamInv, StreamHasShape
<1>8. Greeting' /\ Carrying' /\ IdleIsIdle'
  BY <1>1, <1>2 DEF StreamInv, Greeting, Carrying, Ended, IdleIsIdle
<1>9. StreamInv'
  BY <1>1, <1>2, <1>3, <1>5, <1>6, <1>7, <1>8 DEF StreamInv
<1> QED
  BY <1>1, <1>2, <1>9, OnlyTheStream DEF PipeInv, AnswersAreTrue

LEMMA StreamOpensKept == ASSUME PipeInv, StreamOpens PROVE Kept
<1>1. /\ UNCHANGED <<queueVars, pipeline>> /\ UNCHANGED <<tokens, connected, handshake, idle>>
      /\ UNCHANGED <<responses, committed>>
      /\ stream = "starting" /\ connected /\ stream' = "open" /\ requests' = <<0>>
  BY DEF StreamOpens
<1>2. StreamInv /\ committed \subseteq Write /\ pipeline' = pipeline
  BY <1>1 DEF PipeInv, WriteTypeOK
<1>3. ~handshake /\ ~idle /\ Len(responses) = 0 /\ Len(pipeline) # 0
  BY <1>1, <1>2 DEF StreamInv, StreamHasShape, IdleIsIdle, Started
<1>4. /\ requests' \in Seq(Write \union {0}) /\ Len(requests') = 1 /\ requests'[1] = 0
  BY <1>1
<1>5. StreamHasShape'
  BY <1>1, <1>2, <1>3 DEF StreamHasShape, Started
<1>6. Greeting'
  BY <1>1, <1>3, <1>4 DEF Greeting
<1>7. Carrying' /\ IdleIsIdle'
  BY <1>1, <1>3 DEF Carrying, IdleIsIdle
<1>8. TokensAreStale'
  BY <1>1, <1>2 DEF StreamInv, TokensAreStale
<1>9. StreamInv'
  BY <1>1, <1>2, <1>4, <1>5, <1>6, <1>7, <1>8 DEF StreamInv, StreamState
<1> QED
  BY <1>1, <1>2, <1>9, OnlyTheStream DEF PipeInv, AnswersAreTrue

(* What reading a response leaves of them. *)
LEMMA ResponseRead ==
    ASSUME PipeInv, responses # <<>>
    PROVE  /\ Len(responses) \in Nat \ {0} /\ Head(responses) = responses[1]
           /\ Tail(responses) \in Seq(Response) /\ Len(Tail(responses)) = Len(responses) - 1
           /\ \A i \in 1 .. Len(Tail(responses)) :
                /\ Tail(responses)[i] = responses[i + 1]
                /\ i + 1 \in 1 .. Len(responses)
           /\ stream = "open"
<1>1. responses \in Seq(Response)
  BY DEF PipeInv, StreamInv
<1>2. Len(responses) \in Nat \ {0}
  BY <1>1, EmptyIsLengthZero
<1>3. stream = "open"
  BY <1>2 DEF PipeInv, StreamInv, StreamHasShape
<1>4. /\ Tail(responses) \in Seq(Response) /\ Len(Tail(responses)) = Len(responses) - 1
      /\ \A i \in 1 .. Len(Tail(responses)) : Tail(responses)[i] = responses[i + 1]
      /\ Head(responses) = responses[1]
  BY <1>1, HeadTailProperties
<1>5. \A i \in 1 .. Len(Tail(responses)) : i + 1 \in 1 .. Len(responses)
  BY <1>2, <1>4
<1> QED
  BY <1>2, <1>3, <1>4, <1>5

LEMMA ReadHandshakeKept == ASSUME PipeInv, ReadHandshake PROVE Kept
<1>1. /\ UNCHANGED <<queueVars, pipeline>> /\ UNCHANGED <<stream, tokens, connected, committed>>
      /\ responses # <<>> /\ ~handshake /\ handshake' = TRUE
      /\ responses' = Tail(responses) /\ requests' = requests \o pipeline
      /\ idle' = (idle /\ pipeline = <<>>)
  BY DEF ReadHandshake
<1>2. /\ StreamInv /\ committed \subseteq Write /\ pipeline' = pipeline
      /\ pipeline \in Seq(Write) /\ requests \in Seq(Write \union {0})
  BY <1>1 DEF PipeInv, StreamInv, WriteTypeOK
<1>3. /\ Len(responses) \in Nat \ {0} /\ responses' \in Seq(Response)
      /\ Len(responses') = Len(responses) - 1 /\ stream = "open"
  BY <1>1, ResponseRead
<1>4. Len(responses) + Len(requests) = 1 /\ ~idle
  BY <1>1, <1>2, <1>3 DEF StreamInv, Greeting, IdleIsIdle
<1>5. Len(requests) = 0 /\ Len(responses') = 0 /\ requests = <<>>
  BY <1>2, <1>3, <1>4, EmptyIsLengthZero
<1>6. requests' = pipeline /\ requests' \in Seq(Write \union {0})
  <2>1. requests' = pipeline
    BY <1>1, <1>2, <1>5, ConcatEmptySeq
  <2> QED
    BY <1>2, <2>1, SeqMonotonic
<1>7. StreamHasShape'
  BY <1>1, <1>2, <1>3, <1>4 DEF StreamInv, StreamHasShape, Started
<1>8. Greeting' /\ IdleIsIdle'
  BY <1>1, <1>4 DEF Greeting, IdleIsIdle
<1>9. Carrying'
  <2>1. /\ Len(pipeline) \in Nat /\ \A i \in 1 .. Len(pipeline) : pipeline[i] \in Write
    BY <1>2, EmptyIsLengthZero, ElementOfSeq
  <2> QED
    BY <1>2, <1>5, <1>6, <2>1 DEF Carrying
<1>10. TokensAreStale'
  BY <1>1, <1>2 DEF StreamInv, TokensAreStale
<1>11. StreamInv'
  BY <1>1, <1>2, <1>3, <1>4, <1>6, <1>7, <1>8, <1>9, <1>10 DEF StreamInv
<1>12. \A i \in 1 .. Len(responses') : FALSE
  BY <1>5
<1> QED
  BY <1>1, <1>2, <1>11, <1>12, OnlyTheStream

(* With its first place answered, the pipeline still has its response. *)
LEMMA ReadResultKept == ASSUME PipeInv, ReadResult PROVE Kept
<1>1. /\ responses # <<>> /\ Head(responses).ok /\ handshake
      /\ responses' = Tail(responses) /\ Answered(Head(pipeline), "ok")
      /\ FillWritePipeline(mutationQueue', Tail(pipeline), stream, tokens, requests)
      /\ UNCHANGED <<connected, handshake>> /\ committed' = committed
  BY DEF ReadResult
<1>2. StreamInv /\ Carrying /\ committed \subseteq Write /\ pipeline \in Seq(Write)
      /\ Len(pipeline) \in Nat /\ Len(requests) \in Nat
  BY EmptyIsLengthZero DEF PipeInv, StreamInv, WriteTypeOK
<1>3. /\ Len(responses) \in Nat \ {0} /\ Head(responses) = responses[1]
      /\ responses' \in Seq(Response) /\ Len(responses') = Len(responses) - 1
      /\ \A i \in 1 .. Len(responses') :
           responses'[i] = responses[i + 1] /\ i + 1 \in 1 .. Len(responses)
      /\ stream = "open"
  BY <1>1, ResponseRead
<1>4. /\ \A i \in 1 .. Len(requests) : requests[i] \in Write
      /\ Len(responses) <= Len(pipeline)
      /\ \A i \in 1 .. Len(responses) : responses[i].write = pipeline[i]
      /\ ~Ended => /\ Len(responses) + Len(requests) = Len(pipeline)
                   /\ \A i \in 1 .. Len(requests) :
                        requests[i] = pipeline[Len(responses) + i]
  BY <1>1, <1>2 DEF Carrying
<1>5. Len(pipeline) # 0 /\ responses[1].ok /\ responses[1].write = pipeline[1]
  BY <1>1, <1>2, <1>3, <1>4
<1>6. /\ mutationQueue' \in Seq(Write) /\ Ascends(mutationQueue') /\ QueueIsOrdered'
      /\ Tail(pipeline) \in Seq(Write) /\ Len(Tail(pipeline)) = Len(pipeline) - 1
      /\ \A i \in 1 .. Len(pipeline) - 1 : Tail(pipeline)[i] = pipeline[i + 1]
      /\ FrontOf(Tail(pipeline), mutationQueue', Len(Tail(pipeline)))
      /\ Len(Tail(pipeline)) <= Room(mutationQueue')
      /\ answer' \in [Write -> {"none", "pending", "ok", "failed"}]
      /\ \A w \in Write : answer'[w] = "ok" => answer[w] = "ok" \/ w = pipeline[1]
      /\ Replies!Reply(pipeline[1]) /\ pipeline[1] \in Write
  BY <1>1, <1>5, HeadAnswered
<1>7. pipeline[1] \in committed
  <2>1. responses[1].write # 0
    BY <1>5, <1>6, WritesArePositive
  <2> QED
    BY <1>3, <1>5, <2>1 DEF PipeInv, AnswersAreTrue
<1>8. ~Ended' => ~Ended
  <2>1. ASSUME ~Ended', NEW i \in DOMAIN responses PROVE responses[i].ok
    <3>1. DOMAIN responses = 1 .. Len(responses) /\ DOMAIN responses' = 1 .. Len(responses')
      BY <1>2, <1>3, EmptyIsLengthZero DEF StreamInv
    <3>2. CASE i = 1
      BY <1>5, <3>2
    <3>3. CASE i # 1
      <4>1. i - 1 \in 1 .. Len(responses') /\ (i - 1) + 1 = i
        BY <1>3, <2>1, <3>1, <3>3
      <4> QED
        BY <1>3, <2>1, <3>1, <4>1 DEF Ended
    <3> QED
      BY <3>2, <3>3
  <2> QED
    BY <2>1 DEF Ended
<1>12. /\ Len(responses) \in Nat /\ Len(pipeline) \in Nat /\ Len(requests) \in Nat
       /\ Len(responses) <= Len(pipeline)
       /\ Len(responses') = Len(responses) - 1 /\ Len(Tail(pipeline)) = Len(pipeline) - 1
  BY <1>2, <1>3, <1>4, <1>6
<1>9. /\ StreamInv' /\ PipelineIsFull' /\ pipeline' \in Seq(Write)
      /\ Len(pipeline') <= MaxPending
  <2>1. /\ Len(responses') <= Len(Tail(pipeline))
        /\ \A i \in 1 .. Len(responses') : responses'[i].write = Tail(pipeline)[i]
    <3>1. Len(responses') <= Len(Tail(pipeline))
      BY <1>12
    <3>2. ASSUME NEW i \in 1 .. Len(responses')
          PROVE  responses'[i].write = Tail(pipeline)[i]
      <4>1. i \in 1 .. Len(pipeline) - 1
        BY <1>2, <1>3, <1>4
      <4> QED
        BY <1>3, <1>4, <1>6, <4>1
    <3> QED
      BY <3>1, <3>2
  <2>2. ASSUME ~Ended'
        PROVE  /\ Len(responses') + Len(requests) = Len(Tail(pipeline))
               /\ \A i \in 1 .. Len(requests) :
                    requests[i] = Tail(pipeline)[Len(responses') + i]
    <3>1. Len(responses) + Len(requests) = Len(pipeline)
      BY <1>4, <1>8, <2>2
    <3>2. Len(responses') + Len(requests) = Len(Tail(pipeline))
      BY <1>12, <3>1
    <3>3. ASSUME NEW i \in 1 .. Len(requests)
          PROVE  requests[i] = Tail(pipeline)[Len(responses') + i]
      <4>1. /\ Len(responses') + i \in 1 .. Len(pipeline) - 1
            /\ (Len(responses') + i) + 1 = Len(responses) + i
        BY <1>2, <1>3, <3>1
      <4> QED
        BY <1>4, <1>6, <1>8, <2>2, <4>1
    <3> QED
      BY <3>2, <3>3
  <2>3. Started(stream) /\ (idle => Len(Tail(pipeline)) = 0)
    <3>1. ~idle
      BY <1>2, <1>5 DEF StreamInv, IdleIsIdle
    <3> QED
      BY <1>3, <3>1 DEF Started
  <2> QED
    BY <1>1, <1>2, <1>3, <1>4, <1>6, <2>1, <2>2, <2>3, FillKeepsStream
<1>10. AnswersAreTrue'
  <2>1. \A i \in 1 .. Len(responses') :
          responses'[i].ok /\ responses'[i].write # 0 => responses'[i].write \in committed
    BY <1>3 DEF PipeInv, AnswersAreTrue
  <2>2. \A w \in Write : answer'[w] = "ok" => w \in committed
    BY <1>6, <1>7 DEF PipeInv, AnswersAreTrue, AnsweredWasCommitted
  <2> QED
    BY <1>1, <2>1, <2>2 DEF AnswersAreTrue, AnsweredWasCommitted
<1>11. Replies!RepliesNext
  BY <1>6 DEF Replies!RepliesNext, Replies!Write, Write
<1> QED
  BY <1>1, <1>2, <1>6, <1>9, <1>10, <1>11, Assembled DEF Kept

-----------------------------------------------------------------------------
(* Steps that close the stream. *)
LEMMA ClosedKept ==
    ASSUME PipeInv, UNCHANGED <<queueVars, pipeline, committed>>,
           NEW state \in {"initial", "error"}, NEW asked \in Seq(BOOLEAN),
           \A i \in 1 .. Len(asked) : ~asked[i],
           ~connected', connected' \in BOOLEAN, handshake' = FALSE, idle' = FALSE,
           requests' = <<>>, responses' = <<>>,
           StartIfNeeded(pipeline, state, asked)
    PROVE  Kept
<1>1. pipeline' = pipeline /\ pipeline' \in Seq(Write) /\ committed' = committed
      /\ committed \subseteq Write
  BY DEF PipeInv, WriteTypeOK
<1>2. StreamInv'
  BY <1>1, CloseKeepsStream
<1>3. \A i \in 1 .. Len(responses') : FALSE
  BY EmptySeq
<1> QED
  BY <1>1, <1>2, <1>3, OnlyTheStream

LEMMA StaleTokens ==
    ASSUME PipeInv
    PROVE  Stale(tokens) \in Seq(BOOLEAN) /\ \A i \in 1 .. Len(Stale(tokens)) : ~Stale(tokens)[i]
<1>1. tokens \in Seq(BOOLEAN)
  BY DEF PipeInv, StreamInv
<1> QED
  BY <1>1, StaleIsStale

LEMMA StreamFailsKept == ASSUME PipeInv, StreamFails PROVE Kept
<1>1. /\ UNCHANGED <<queueVars, pipeline, committed>>
      /\ connected' = FALSE /\ handshake' = FALSE /\ idle' = FALSE
      /\ requests' = <<>> /\ responses' = <<>>
      /\ StartIfNeeded(pipeline, "error", Stale(tokens))
  BY DEF StreamFails, Disconnect
<1> QED
  BY <1>1, StaleTokens, ClosedKept

LEMMA IdleTimeoutKept == ASSUME PipeInv, IdleTimeout PROVE Kept
<1>1. /\ UNCHANGED <<queueVars, pipeline, committed>>
      /\ connected' = FALSE /\ handshake' = FALSE /\ idle' = FALSE
      /\ requests' = <<>> /\ responses' = <<>>
      /\ StartIfNeeded(pipeline, "initial", Stale(tokens))
  BY DEF IdleTimeout, Disconnect
<1> QED
  BY <1>1, StaleTokens, ClosedKept

(* The token that is missing was wanted, so the stream has not begun. *)
LEMMA TokenFailsKept == ASSUME PipeInv, TokenFails PROVE Kept
<1>1. /\ UNCHANGED <<queueVars, pipeline, committed>>
      /\ UNCHANGED <<connected, handshake, idle, requests, responses>>
      /\ tokens # <<>> /\ Head(tokens)
      /\ StartIfNeeded(pipeline, "error", Stale(Tail(tokens)))
  BY DEF TokenFails
<1>2. StreamInv /\ tokens \in Seq(BOOLEAN)
  BY DEF PipeInv, StreamInv
<1>3. Tail(tokens) \in Seq(BOOLEAN) /\ Head(tokens) = tokens[1]
  BY <1>1, <1>2, TailShifts, Zenon
<1>4. 1 \in 1 .. Len(tokens)
  <2>1. Len(tokens) \in Nat \ {0}
    BY <1>1, <1>2, EmptyIsLengthZero
  <2> QED
    BY <2>1
<1>5. stream = "starting" /\ ~connected
  BY <1>1, <1>2, <1>3, <1>4 DEF StreamInv, TokensAreStale
<1>6. ~handshake /\ ~idle /\ Len(requests) = 0 /\ Len(responses) = 0
  BY <1>2, <1>5 DEF StreamInv, StreamHasShape, IdleIsIdle
<1>7. requests = <<>> /\ responses = <<>>
  BY <1>2, <1>6, EmptyIsLengthZero DEF StreamInv
<1>8. /\ Stale(Tail(tokens)) \in Seq(BOOLEAN)
      /\ \A i \in 1 .. Len(Stale(Tail(tokens))) : ~Stale(Tail(tokens))[i]
  BY <1>3, StaleIsStale
<1>9. /\ ~connected' /\ connected' \in BOOLEAN /\ handshake' = FALSE /\ idle' = FALSE
      /\ requests' = <<>> /\ responses' = <<>>
  BY <1>1, <1>2, <1>5, <1>6, <1>7 DEF StreamInv
<1> QED
  BY <1>1, <1>8, <1>9, ClosedKept

LEMMA BackoffElapsesKept == ASSUME PipeInv, BackoffElapses PROVE Kept
<1>1. /\ UNCHANGED <<queueVars, pipeline>> /\ UNCHANGED <<committed, responses>>
      /\ UNCHANGED <<connected, handshake, idle, requests>>
      /\ stream = "backoff" /\ Start("initial", tokens)
  BY DEF BackoffElapses
<1>2. StreamInv /\ committed \subseteq Write /\ pipeline' = pipeline
      /\ tokens \in Seq(BOOLEAN)
  BY <1>1 DEF PipeInv, StreamInv, WriteTypeOK
<1>3. /\ ~connected /\ ~handshake /\ ~idle /\ Len(pipeline) # 0
      /\ Len(requests) = 0 /\ Len(responses) = 0
      /\ \A i \in 1 .. Len(tokens) : ~tokens[i]
  BY <1>1, <1>2 DEF StreamInv, StreamHasShape, IdleIsIdle, TokensAreStale, Started
<1>4. stream' = "starting" /\ tokens' \in Seq(BOOLEAN) /\ TokensAreStale'
  <2>1. StartIfNeeded(<<0>>, "initial", tokens)
    BY <1>1 DEF StartIfNeeded, Started
  <2>2. "initial" \in StreamState /\ ~Started("initial") /\ <<0>> # <<>> /\ ~connected'
    BY <1>1, <1>3 DEF StreamState, Started
  <2>3. stream' = "starting"
    BY <1>1 DEF Start
  <2> QED
    BY <1>2, <1>3, <2>1, <2>2, <2>3, StartKeepsTokens
<1>5. StreamHasShape' /\ Greeting' /\ Carrying' /\ IdleIsIdle'
  BY <1>1, <1>2, <1>3, <1>4 DEF StreamHasShape, Greeting, Carrying, IdleIsIdle, Started
<1>6. StreamInv'
  BY <1>1, <1>2, <1>4, <1>5 DEF StreamInv, StreamState
<1> QED
  BY <1>1, <1>2, <1>6, OnlyTheStream DEF PipeInv, AnswersAreTrue

(* The refused write leaves the pipeline, and the stream its place. *)
LEMMA ReadRefusalKept == ASSUME PipeInv, ReadRefusal PROVE Kept
<1> DEFINE rest == Tail(pipeline)
           new == NextBatches(mutationQueue', rest)
<1>1. /\ responses # <<>> /\ handshake /\ Answered(Head(pipeline), "failed")
      /\ pipeline' = rest \o new /\ StartIfNeeded(rest \o new, "initial", Stale(tokens))
      /\ connected' = FALSE /\ handshake' = FALSE /\ idle' = FALSE
      /\ requests' = <<>> /\ responses' = <<>> /\ committed' = committed
  BY DEF ReadRefusal, Disconnect
<1>2. Len(pipeline) # 0
  <2>1. Len(responses) \in Nat \ {0}
    BY <1>1, ResponseRead
  <2>2. Len(responses) <= Len(pipeline)
    BY <1>1 DEF PipeInv, StreamInv, Carrying
  <2> QED
    BY <2>1, <2>2
<1>3. /\ mutationQueue' \in Seq(Write) /\ Ascends(mutationQueue') /\ QueueIsOrdered'
      /\ rest \in Seq(Write) /\ FrontOf(rest, mutationQueue', Len(rest))
      /\ Len(rest) <= Room(mutationQueue')
      /\ answer' \in [Write -> {"none", "pending", "ok", "failed"}]
      /\ \A w \in Write : answer'[w] = "ok" => answer[w] = "ok"
      /\ Replies!Reply(pipeline[1]) /\ pipeline[1] \in Write
  BY <1>1, <1>2, HeadAnswered
<1>4. Refilled(mutationQueue', rest, <<>>, new)
  BY <1>3, FillFills, EmptySeq
<1> HIDE DEF rest, new
<1>5. pipeline' \in Seq(Write) /\ PipelineIsFull'
  BY <1>1, <1>4 DEF Refilled, PipelineIsFull
<1>6. Len(pipeline') <= MaxPending
  BY <1>3, <1>5, RoomIsNat DEF PipelineIsFull, FrontOf
<1>7. StreamInv'
  BY <1>1, <1>5, StaleTokens, CloseKeepsStream
<1>8. AnswersAreTrue'
  <2>1. \A i \in 1 .. Len(responses') : FALSE
    BY <1>1, EmptySeq
  <2>2. \A w \in Write : answer'[w] = "ok" => w \in committed'
    BY <1>1, <1>3 DEF PipeInv, AnswersAreTrue, AnsweredWasCommitted
  <2> QED
    BY <2>1, <2>2 DEF AnswersAreTrue, AnsweredWasCommitted
<1>9. Replies!RepliesNext
  BY <1>3 DEF Replies!RepliesNext, Replies!Write, Write
<1>10. committed' \subseteq Write
  BY <1>1 DEF PipeInv, WriteTypeOK
<1> QED
  BY <1>3, <1>5, <1>6, <1>7, <1>8, <1>9, <1>10, Assembled DEF Kept

(* Both restarts fill an empty pipeline from the head of the queue. *)
LEMMA RestartWritesKept ==
    ASSUME PipeInv, NEW asked \in Seq(BOOLEAN), \A i \in 1 .. Len(asked) : ~asked[i],
           RestartWrites(asked)
    PROVE  Kept
<1> DEFINE new == NextBatches(mutationQueue, <<>>)
<1>1. /\ pipeline' = new /\ StartIfNeeded(pipeline', "initial", asked)
      /\ connected' = FALSE /\ handshake' = FALSE /\ idle' = FALSE
      /\ requests' = <<>> /\ responses' = <<>> /\ committed' = committed
      /\ answer' = answer /\ mutationQueue' = mutationQueue
  BY DEF RestartWrites, Disconnect, queueVars
<1>2. /\ mutationQueue \in Seq(Write) /\ Ascends(mutationQueue)
      /\ answer \in [Write -> {"none", "pending", "ok", "failed"}]
      /\ committed \subseteq Write
  BY DEF PipeInv, WriteTypeOK, QueueIsOrdered, Ascends
<1>3. <<>> \in Seq(Write) /\ Len(<<>>) = 0
  BY EmptySeq
<1>4. /\ FrontOf(<<>>, mutationQueue, Len(<<>>))
      /\ Len(<<>>) <= Room(mutationQueue) /\ Room(mutationQueue) \in Nat
      /\ Room(mutationQueue) <= MaxPending
  BY <1>2, <1>3, RoomIsNat DEF FrontOf
<1>5. /\ new \in Seq(Write) /\ Len(new) = Room(mutationQueue) - 0
      /\ \A i \in 1 .. Len(new) : new[i] = mutationQueue[0 + i]
  BY <1>2, <1>3, <1>4, BatchesFill
<1> HIDE DEF new
<1>6. Len(new) = Room(mutationQueue) /\ \A i \in 1 .. Len(new) : new[i] = mutationQueue[i]
  BY <1>4, <1>5
<1>7. PipelineIsFull' /\ pipeline' \in Seq(Write) /\ Len(pipeline') <= MaxPending
  BY <1>1, <1>4, <1>5, <1>6 DEF PipelineIsFull, FrontOf, Room
<1>8. StreamInv'
  BY <1>1, <1>7, CloseKeepsStream
<1>9. QueueIsOrdered'
  BY <1>1 DEF PipeInv, QueueIsOrdered
<1>10. AnswersAreTrue'
  <2>1. \A i \in 1 .. Len(responses') : FALSE
    BY <1>1, EmptySeq
  <2> QED
    BY <1>1, <2>1 DEF PipeInv, AnswersAreTrue, AnsweredWasCommitted
<1> QED
  BY <1>1, <1>2, <1>7, <1>8, <1>9, <1>10, Assembled DEF Kept

-----------------------------------------------------------------------------
(* Steps of the server: a request becomes a response. *)
LEMMA RequestRead ==
    ASSUME PipeInv, requests # <<>>, NEW ok \in BOOLEAN,
           responses' = Append(responses, [write |-> Head(requests), ok |-> ok])
    PROVE  /\ Len(requests) \in Nat \ {0} /\ Head(requests) = requests[1]
           /\ Tail(requests) \in Seq(Write \union {0})
           /\ Len(Tail(requests)) = Len(requests) - 1
           /\ \A i \in 1 .. Len(Tail(requests)) : Tail(requests)[i] = requests[i + 1]
           /\ stream = "open" /\ Len(responses) \in Nat
           /\ responses' \in Seq(Response) /\ Len(responses') = Len(responses) + 1
           /\ \A i \in 1 .. Len(responses) : responses'[i] = responses[i]
           /\ responses'[Len(responses) + 1] = [write |-> requests[1], ok |-> ok]
           /\ requests[1] # 0 => requests[1] \in Write /\ handshake
           /\ requests[1] = 0 => ~handshake
<1>1. requests \in Seq(Write \union {0}) /\ responses \in Seq(Response)
  BY DEF PipeInv, StreamInv
<1>2. Len(requests) \in Nat \ {0} /\ Len(responses) \in Nat
  BY <1>1, EmptyIsLengthZero
<1>3. stream = "open"
  BY <1>2 DEF PipeInv, StreamInv, StreamHasShape
<1>4. /\ Tail(requests) \in Seq(Write \union {0}) /\ Len(Tail(requests)) = Len(requests) - 1
      /\ \A i \in 1 .. Len(Tail(requests)) : Tail(requests)[i] = requests[i + 1]
      /\ Head(requests) = requests[1]
  BY <1>1, TailShifts
<1>5. requests[1] \in Write \union {0}
  BY <1>1, <1>2, ElementOfSeq
<1>6. [write |-> requests[1], ok |-> ok] \in Response
  BY <1>5 DEF Response
<1>7. /\ responses' \in Seq(Response) /\ Len(responses') = Len(responses) + 1
      /\ \A i \in 1 .. Len(responses) : responses'[i] = responses[i]
      /\ responses'[Len(responses) + 1] = [write |-> requests[1], ok |-> ok]
  BY <1>1, <1>4, <1>6, AppendProperties
<1>8. 1 \in 1 .. Len(requests)
  BY <1>2
<1>9. requests[1] # 0 => handshake
  BY <1>3, <1>8 DEF PipeInv, StreamInv, Greeting
<1>10. requests[1] = 0 => ~handshake
  BY <1>8, WritesArePositive DEF PipeInv, StreamInv, Carrying
<1> QED
  BY <1>2, <1>3, <1>4, <1>5, <1>7, <1>9, <1>10

LEMMA ServerShakesHandsKept == ASSUME PipeInv, ServerShakesHands PROVE Kept
<1>1. /\ UNCHANGED <<queueVars, pipeline>> /\ UNCHANGED <<stream, tokens, connected>>
      /\ UNCHANGED <<handshake, idle>> /\ committed' = committed
      /\ requests # <<>> /\ Head(requests) = 0 /\ requests' = Tail(requests)
      /\ responses' = Append(responses, [write |-> Head(requests), ok |-> TRUE])
  BY DEF ServerShakesHands
<1>2. /\ Len(requests) \in Nat \ {0} /\ requests[1] = 0 /\ ~handshake
      /\ requests' \in Seq(Write \union {0}) /\ Len(requests') = Len(requests) - 1
      /\ stream = "open" /\ Len(responses) \in Nat
      /\ responses' \in Seq(Response) /\ Len(responses') = Len(responses) + 1
      /\ responses'[Len(responses) + 1] = [write |-> 0, ok |-> TRUE]
  BY <1>1, RequestRead
<1>3. StreamInv /\ committed \subseteq Write /\ pipeline' = pipeline
  BY <1>1 DEF PipeInv, WriteTypeOK
<1>4. Len(responses) + Len(requests) = 1
  BY <1>2, <1>3 DEF StreamInv, Greeting
<1>5. Len(responses) = 0 /\ Len(requests') = 0 /\ Len(responses') = 1
  BY <1>2, <1>4
<1>6. \A i \in 1 .. Len(responses') : responses'[i].ok /\ responses'[i].write = 0
  BY <1>2, <1>5
<1>7. StreamHasShape'
  BY <1>1, <1>2, <1>3 DEF StreamInv, StreamHasShape
<1>8. Greeting' /\ Carrying' /\ IdleIsIdle'
  BY <1>1, <1>2, <1>3, <1>5, <1>6 DEF StreamInv, Greeting, Carrying, IdleIsIdle
<1>9. TokensAreStale'
  BY <1>1, <1>3 DEF StreamInv, TokensAreStale
<1>10. StreamInv'
  BY <1>1, <1>2, <1>3, <1>7, <1>8, <1>9 DEF StreamInv
<1> QED
  BY <1>1, <1>3, <1>6, <1>10, OnlyTheStream

(* What ServerCommits and ServerRefuses have in common: the answer to the  *)
(* first request takes the place behind the answers there are.             *)
LEMMA NextPlace ==
    ASSUME PipeInv, requests # <<>>, requests[1] # 0, ~Ended, NEW ok \in BOOLEAN,
           responses' = Append(responses, [write |-> requests[1], ok |-> ok])
    PROVE  /\ handshake /\ requests[1] \in Write
           /\ Len(responses') <= Len(pipeline)
           /\ \A i \in 1 .. Len(responses') : responses'[i].write = pipeline[i]
           /\ Len(responses) + Len(requests) = Len(pipeline)
           /\ \A i \in 1 .. Len(requests) : requests[i] = pipeline[Len(responses) + i]
           /\ \A i \in 1 .. Len(requests) : requests[i] \in Write
<1>1. requests \in Seq(Write \union {0}) /\ Head(requests) = requests[1]
  <2>1. requests \in Seq(Write \union {0})
    BY DEF PipeInv, StreamInv
  <2> QED
    BY <2>1, TailShifts
<1>2. /\ Len(requests) \in Nat \ {0} /\ Len(responses) \in Nat
      /\ Len(responses') = Len(responses) + 1
      /\ \A i \in 1 .. Len(responses) : responses'[i] = responses[i]
      /\ responses'[Len(responses) + 1] = [write |-> requests[1], ok |-> ok]
      /\ requests[1] \in Write /\ handshake
  BY <1>1, RequestRead
<1>3. /\ \A i \in 1 .. Len(responses) : responses[i].write = pipeline[i]
      /\ Len(responses) + Len(requests) = Len(pipeline)
      /\ \A i \in 1 .. Len(requests) : requests[i] = pipeline[Len(responses) + i]
      /\ \A i \in 1 .. Len(requests) : requests[i] \in Write
  BY <1>2 DEF PipeInv, StreamInv, Carrying
<1>4. requests[1] = pipeline[Len(responses) + 1]
  BY <1>2, <1>3
<1>5. Len(responses') <= Len(pipeline)
  BY <1>2, <1>3
<1>6. ASSUME NEW i \in 1 .. Len(responses') PROVE responses'[i].write = pipeline[i]
  <2>1. CASE i = Len(responses) + 1
    BY <1>2, <1>4, <2>1
  <2>2. CASE i # Len(responses) + 1
    <3>1. i \in 1 .. Len(responses)
      BY <1>2, <2>2
    <3> QED
      BY <1>2, <1>3, <3>1
  <2> QED
    BY <2>1, <2>2
<1> QED
  BY <1>2, <1>3, <1>5, <1>6

(* Either way, what is on the stream is true. *)
LEMMA DecisionKept ==
    ASSUME PipeInv, UNCHANGED <<queueVars, pipeline>>,
           UNCHANGED <<stream, tokens, connected, handshake, idle>>,
           stream = "open", Carrying', handshake,
           requests' \in Seq(Write \union {0}), responses' \in Seq(Response),
           committed \subseteq committed', committed' \subseteq Write,
           \A i \in 1 .. Len(responses') : responses'[i].ok => responses'[i].write \in committed'
    PROVE  Kept
<1>1. StreamInv /\ pipeline' = pipeline
  BY DEF PipeInv
<1>2. StreamHasShape' /\ Greeting' /\ IdleIsIdle' /\ TokensAreStale'
  BY <1>1 DEF StreamInv, StreamHasShape, Greeting, IdleIsIdle, TokensAreStale
<1>3. StreamInv'
  BY <1>1, <1>2 DEF StreamInv
<1> QED
  BY <1>3, OnlyTheStream

LEMMA ServerCommitsKept == ASSUME PipeInv, ServerCommits PROVE Kept
<1>1. /\ UNCHANGED <<queueVars, pipeline>>
      /\ UNCHANGED <<stream, tokens, connected, handshake, idle>>
      /\ requests # <<>> /\ ~Ended /\ Head(requests) # 0 /\ requests' = Tail(requests)
      /\ responses' = Append(responses, [write |-> Head(requests), ok |-> TRUE])
      /\ committed' = committed \union {Head(requests)}
  BY DEF ServerCommits
<1>2. /\ Len(requests) \in Nat \ {0} /\ Head(requests) = requests[1]
      /\ requests' \in Seq(Write \union {0}) /\ Len(requests') = Len(requests) - 1
      /\ \A i \in 1 .. Len(requests') : requests'[i] = requests[i + 1]
      /\ stream = "open" /\ Len(responses) \in Nat
      /\ responses' \in Seq(Response) /\ Len(responses') = Len(responses) + 1
      /\ \A i \in 1 .. Len(responses) : responses'[i] = responses[i]
      /\ responses'[Len(responses) + 1] = [write |-> requests[1], ok |-> TRUE]
  BY <1>1, RequestRead
<1>3. /\ handshake /\ requests[1] \in Write
      /\ Len(responses') <= Len(pipeline)
      /\ \A i \in 1 .. Len(responses') : responses'[i].write = pipeline[i]
      /\ Len(responses) + Len(requests) = Len(pipeline)
      /\ \A i \in 1 .. Len(requests) : requests[i] = pipeline[Len(responses) + i]
      /\ \A i \in 1 .. Len(requests) : requests[i] \in Write
  BY <1>1, <1>2, NextPlace
<1>4. /\ Len(responses') + Len(requests') = Len(pipeline)
      /\ \A i \in 1 .. Len(requests') :
           /\ requests'[i] = pipeline[Len(responses') + i]
           /\ requests'[i] \in Write
  <2>1. ASSUME NEW i \in 1 .. Len(requests')
        PROVE  i + 1 \in 1 .. Len(requests) /\ Len(responses) + (i + 1) = Len(responses') + i
    BY <1>2
  <2>2. Len(responses') + Len(requests') = Len(pipeline)
    <3>1. /\ Len(requests) \in Nat /\ Len(responses) \in Nat
          /\ Len(requests') = Len(requests) - 1 /\ Len(responses') = Len(responses) + 1
          /\ Len(responses) + Len(requests) = Len(pipeline)
      BY <1>2, <1>3
    <3> QED
      BY <3>1
  <2> QED
    <3>1. ASSUME NEW i \in 1 .. Len(requests')
          PROVE  /\ requests'[i] = pipeline[Len(responses') + i]
                 /\ requests'[i] \in Write
      <4>1. requests'[i] = requests[i + 1] /\ i + 1 \in 1 .. Len(requests)
        BY <1>2, <2>1
      <4>2. requests[i + 1] = pipeline[Len(responses) + (i + 1)] /\ requests[i + 1] \in Write
        BY <1>3, <4>1
      <4> QED
        BY <2>1, <4>1, <4>2
    <3> QED
      BY <2>2, <3>1
<1>5. pipeline' = pipeline /\ handshake' = handshake
  BY <1>1
<1>6. Carrying'
  BY <1>3, <1>4, <1>5 DEF Carrying
<1>7. committed \subseteq committed' /\ committed' \subseteq Write
  BY <1>1, <1>2, <1>3 DEF PipeInv, WriteTypeOK
<1>8. ASSUME NEW i \in 1 .. Len(responses'), responses'[i].ok
      PROVE  responses'[i].write \in committed'
  <2>1. CASE i = Len(responses) + 1
    BY <1>1, <1>2, <2>1
  <2>2. CASE i # Len(responses) + 1
    <3>1. i \in 1 .. Len(responses)
      BY <1>2, <2>2
    <3>2. responses[i].write = pipeline[i] /\ pipeline[i] \in Write
      <4>1. responses[i].write = pipeline[i]
        BY <1>2, <1>3, <3>1
      <4>2. pipeline \in Seq(Write) /\ Len(pipeline) \in Nat
        BY EmptyIsLengthZero DEF PipeInv, WriteTypeOK
      <4>3. i \in 1 .. Len(pipeline)
        BY <1>2, <1>3, <4>2
      <4> QED
        BY <4>1, <4>2, <4>3, ElementOfSeq
    <3>3. responses[i].write # 0
      BY <3>2, WritesArePositive
    <3> QED
      BY <1>2, <1>7, <1>8, <3>1, <3>3 DEF PipeInv, AnswersAreTrue
  <2> QED
    BY <2>1, <2>2
<1> QED
  BY <1>1, <1>2, <1>3, <1>6, <1>7, <1>8, DecisionKept

LEMMA ServerRefusesKept == ASSUME PipeInv, ServerRefuses PROVE Kept
<1>1. /\ UNCHANGED <<queueVars, pipeline>>
      /\ UNCHANGED <<stream, tokens, connected, handshake, idle>>
      /\ requests # <<>> /\ ~Ended /\ Head(requests) # 0 /\ requests' = <<>>
      /\ responses' = Append(responses, [write |-> Head(requests), ok |-> FALSE])
      /\ committed' = committed
  BY DEF ServerRefuses
<1>2. /\ Head(requests) = requests[1] /\ stream = "open" /\ Len(responses) \in Nat
      /\ responses' \in Seq(Response) /\ Len(responses') = Len(responses) + 1
      /\ \A i \in 1 .. Len(responses) : responses'[i] = responses[i]
      /\ responses'[Len(responses) + 1] = [write |-> requests[1], ok |-> FALSE]
  BY <1>1, RequestRead
<1>3. /\ handshake /\ Len(responses') <= Len(pipeline)
      /\ \A i \in 1 .. Len(responses') : responses'[i].write = pipeline[i]
  BY <1>1, <1>2, NextPlace
<1>4. Ended'
  <2>1. DOMAIN responses' = 1 .. Len(responses')
    BY <1>2, EmptyIsLengthZero
  <2>2. Len(responses) + 1 \in DOMAIN responses' /\ ~responses'[Len(responses) + 1].ok
    BY <1>2, <2>1
  <2> QED
    BY <2>2 DEF Ended
<1>5. requests' \in Seq(Write \union {0}) /\ Len(requests') = 0
  BY <1>1, EmptySeq
<1>6. pipeline' = pipeline /\ handshake' = handshake
  BY <1>1
<1>7. Carrying'
  BY <1>3, <1>4, <1>5, <1>6 DEF Carrying
<1>8. ASSUME NEW i \in 1 .. Len(responses'), responses'[i].ok
      PROVE  responses'[i].write \in committed
  <2>1. i \in 1 .. Len(responses)
    BY <1>2, <1>8
  <2>2. responses[i].write = pipeline[i] /\ pipeline[i] \in Write
    <3>1. responses[i].write = pipeline[i]
      BY <1>2, <1>3, <2>1
    <3>2. pipeline \in Seq(Write) /\ Len(pipeline) \in Nat
      BY EmptyIsLengthZero DEF PipeInv, WriteTypeOK
    <3>3. i \in 1 .. Len(pipeline)
      BY <1>2, <1>3, <3>2
    <3> QED
      BY <3>1, <3>2, <3>3, ElementOfSeq
  <2>3. responses[i].write # 0
    BY <2>2, WritesArePositive
  <2> QED
    BY <1>2, <1>8, <2>1, <2>3 DEF PipeInv, AnswersAreTrue
<1>9. committed \subseteq committed' /\ committed' \subseteq Write
  BY <1>1 DEF PipeInv, WriteTypeOK
<1> QED
  BY <1>1, <1>2, <1>3, <1>5, <1>7, <1>8, <1>9, DecisionKept

-----------------------------------------------------------------------------
(* What the invariant says in the words of the module's properties. *)
LEMMA PrefixByPlaces ==
    ASSUME NEW S, NEW s \in Seq(S), NEW t \in Seq(S), Len(s) <= Len(t),
           \A i \in 1 .. Len(s) : s[i] = t[i]
    PROVE  IsPrefix(s, t)
<1>1. /\ Len(s) \in Nat /\ Len(t) \in Nat
      /\ \A i \in 1 .. Len(s) : s[i] \in S /\ t[i] \in S
  <2>1. /\ Len(s) \in Nat /\ Len(t) \in Nat
        /\ \A i \in 1 .. Len(s) : s[i] \in S /\ \A j \in 1 .. Len(t) : t[j] \in S
    BY LenProperties, ElementOfSeq
  <2> QED
    BY <2>1
<1>2. /\ 1 \in Int /\ Len(s) \in Int
      /\ \A i \in 1 .. Len(s) : s[i] \in S
      /\ \A i \in 1 .. Len(s) : t[i] \in S
  BY <1>1
<1> DEFINE a == SubSeq(s, 1, Len(s))
           b == SubSeq(t, 1, Len(s))
<1>3. /\ a \in Seq(S) /\ Len(a) = IF 1 <= Len(s) THEN Len(s) - 1 + 1 ELSE 0
      /\ \A i \in 1 .. Len(s) - 1 + 1 : a[i] = s[1 + i - 1]
  BY <1>2, SubSeqProperties
<1>4. /\ b \in Seq(S) /\ Len(b) = IF 1 <= Len(s) THEN Len(s) - 1 + 1 ELSE 0
      /\ \A i \in 1 .. Len(s) - 1 + 1 : b[i] = t[1 + i - 1]
  BY <1>2, SubSeqProperties
<1> HIDE DEF a, b
<1>5. Len(a) = Len(s) /\ Len(b) = Len(s)
  BY <1>1, <1>3, <1>4
<1>6. ASSUME NEW i \in 1 .. Len(a) PROVE a[i] = b[i]
  <2>1. i \in 1 .. Len(s) /\ i \in 1 .. Len(s) - 1 + 1 /\ 1 + i - 1 = i
    BY <1>1, <1>5
  <2> QED
    BY <1>3, <1>4, <2>1
<1>7. a = b
  BY <1>3, <1>4, <1>5, <1>6, SeqEqual
<1> QED
  BY <1>7 DEF IsPrefix, a, b

LEMMA PrefixHolds == PipeInv => PipelineIsPrefix
<1> SUFFICES ASSUME PipeInv PROVE IsPrefix(pipeline, mutationQueue)
  BY DEF PipelineIsPrefix
<1>1. /\ pipeline \in Seq(Write) /\ mutationQueue \in Seq(Write)
      /\ Len(pipeline) = Room(mutationQueue)
      /\ \A i \in 1 .. Len(pipeline) : pipeline[i] = mutationQueue[i]
  BY DEF PipeInv, WriteTypeOK, PipelineIsFull, FrontOf
<1>2. Len(pipeline) <= Len(mutationQueue)
  BY <1>1, RoomIsNat
<1> QED
  BY <1>1, <1>2, PrefixByPlaces

LEMMA UnderWayHolds == PipeInv => StreamCarriesPipeline
<1> SUFFICES ASSUME PipeInv PROVE StreamCarriesPipeline
  OBVIOUS
<1> DEFINE got == [i \in DOMAIN responses |-> responses[i].write]
           Both == Write \union {0}
<1>1. /\ requests \in Seq(Both) /\ responses \in Seq(Response) /\ pipeline \in Seq(Both)
      /\ Len(requests) \in Nat /\ Len(responses) \in Nat /\ Len(pipeline) \in Nat
      /\ DOMAIN responses = 1 .. Len(responses)
  <2>1. requests \in Seq(Both) /\ responses \in Seq(Response) /\ pipeline \in Seq(Write)
    BY DEF PipeInv, StreamInv, WriteTypeOK
  <2>2. pipeline \in Seq(Both)
    BY <2>1, SeqMonotonic
  <2> QED
    BY <2>1, <2>2, EmptyIsLengthZero
<1>2. /\ got \in Seq(Both) /\ Len(got) = Len(responses)
      /\ \A i \in 1 .. Len(responses) : got[i] = responses[i].write
  <2>1. \A i \in 1 .. Len(responses) : responses[i].write \in Both
    <3>1. \A i \in 1 .. Len(responses) : responses[i] \in Response
      BY <1>1, ElementOfSeq
    <3>2. \A m \in Response : m.write \in Both
      BY DEF Response
    <3> QED
      BY <3>1, <3>2
  <2>2. got = [i \in 1 .. Len(responses) |-> responses[i].write]
    BY <1>1
  <2> HIDE DEF got
  <2>3. got \in [1 .. Len(responses) -> Both]
    BY <2>1, <2>2
  <2>4. got \in Seq(Both)
    BY <1>1, <2>3, SeqDef
  <2>5. Len(got) = Len(responses)
    BY <1>1, <2>3, <2>4, LenProperties
  <2> QED
    BY <2>2, <2>4, <2>5
<1> HIDE DEF got
<1>3. /\ got \o requests \in Seq(Both)
      /\ Len(got \o requests) = Len(responses) + Len(requests)
      /\ \A i \in 1 .. Len(responses) + Len(requests) :
           (got \o requests)[i] = IF i <= Len(responses) THEN got[i]
                                  ELSE requests[i - Len(responses)]
  <2>1. /\ got \o requests \in Seq(Both)
        /\ Len(got \o requests) = Len(got) + Len(requests)
        /\ \A i \in 1 .. Len(got) + Len(requests) :
             (got \o requests)[i] = IF i <= Len(got) THEN got[i]
                                    ELSE requests[i - Len(got)]
    <3>1. got \in Seq(Both) /\ requests \in Seq(Both)
      BY <1>1, <1>2
    <3> HIDE DEF Both
    <3> QED
      BY <3>1, ConcatProperties
  <2>2. Len(got) = Len(responses)
    BY <1>2
  <2> QED
    BY <2>1, <2>2
<1>4. UnderWay = got \o requests
  BY DEF UnderWay, got
<1>5. ASSUME handshake, Ended PROVE IsPrefix(got, pipeline)
  <2>1. Len(got) <= Len(pipeline) /\ \A i \in 1 .. Len(got) : got[i] = pipeline[i]
    BY <1>2, <1>5 DEF PipeInv, StreamInv, Carrying
  <2> QED
    BY <1>1, <1>2, <2>1, PrefixByPlaces
<1>6. ASSUME handshake, ~Ended PROVE UnderWay = pipeline
  <2>1. /\ Len(responses) + Len(requests) = Len(pipeline)
        /\ \A i \in 1 .. Len(responses) : responses[i].write = pipeline[i]
        /\ \A i \in 1 .. Len(requests) : requests[i] = pipeline[Len(responses) + i]
    BY <1>6 DEF PipeInv, StreamInv, Carrying
  <2>2. ASSUME NEW i \in 1 .. Len(pipeline) PROVE (got \o requests)[i] = pipeline[i]
    <3>1. CASE i <= Len(responses)
      <4>1. i \in 1 .. Len(responses) /\ i \in 1 .. Len(responses) + Len(requests)
        BY <1>1, <3>1
      <4>2. (got \o requests)[i] = got[i]
        BY <1>3, <3>1, <4>1
      <4> QED
        BY <1>2, <2>1, <4>1, <4>2
    <3>2. CASE i > Len(responses)
      <4>1. i - Len(responses) \in 1 .. Len(requests)
            /\ Len(responses) + (i - Len(responses)) = i
        BY <1>1, <2>1, <3>2
      <4>2. (got \o requests)[i] = requests[i - Len(responses)]
        <5>1. i \in 1 .. Len(responses) + Len(requests) /\ ~(i <= Len(responses))
          BY <1>1, <2>1, <3>2
        <5> QED
          BY <1>3, <5>1
      <4> QED
        BY <2>1, <4>1, <4>2
    <3>3. i <= Len(responses) \/ i > Len(responses)
      BY <1>1
    <3> QED
      BY <3>1, <3>2, <3>3, Zenon
  <2>3. Len(got \o requests) = Len(pipeline)
    BY <1>3, <2>1
  <2> QED
    BY <1>1, <1>3, <1>4, <2>2, <2>3, SeqEqual
<1>7. ASSUME stream = "open", ~handshake PROVE UnderWay = <<0>>
  <2>1. /\ Len(responses) + Len(requests) = 1
        /\ \A i \in 1 .. Len(responses) : responses[i].write = 0
        /\ \A i \in 1 .. Len(requests) : requests[i] = 0
    BY <1>7 DEF PipeInv, StreamInv, Greeting
  <2>2. (got \o requests)[1] = 0
    <3>1. CASE Len(responses) = 1
      BY <1>1, <1>2, <1>3, <2>1, <3>1
    <3>2. CASE Len(responses) # 1
      <4>1. Len(responses) = 0 /\ Len(requests) = 1
        <5>1. \A m, n \in Nat : m + n = 1 /\ m # 1 => m = 0 /\ n = 1
          OBVIOUS
        <5> HIDE DEF Both
        <5> QED
          BY <1>1, <2>1, <3>2, <5>1
      <4>2. (got \o requests)[1] = requests[1]
        BY <1>3, <4>1
      <4> QED
        BY <2>1, <4>1, <4>2
    <3> QED
      BY <3>1, <3>2
  <2>3. <<0>> \in Seq(Both) /\ Len(<<0>>) = 1 /\ <<0>>[1] = 0
    OBVIOUS
  <2>4. Len(got \o requests) = 1
    BY <1>3, <2>1
  <2>5. \A i \in 1 .. Len(got \o requests) : (got \o requests)[i] = <<0>>[i]
    BY <2>2, <2>3, <2>4
  <2> QED
    BY <1>3, <1>4, <2>3, <2>4, <2>5, SeqEqual
<1> QED
  BY <1>5, <1>6, <1>7 DEF StreamCarriesPipeline, got

LEMMA StreamRulesHold ==
    PipeInv => StoppedOnlyWhenIdle /\ TokenOnlyWhenStarting /\ PendingWritesAreServed
<1> SUFFICES ASSUME PipeInv
             PROVE  StoppedOnlyWhenIdle /\ TokenOnlyWhenStarting /\ PendingWritesAreServed
  OBVIOUS
<1>1. StreamInv /\ mutationQueue \in Seq(Write) /\ pipeline \in Seq(Write)
      /\ tokens \in Seq(BOOLEAN)
  BY DEF PipeInv, StreamInv, WriteTypeOK
<1>2. /\ pipeline = <<>> <=> Len(pipeline) = 0
      /\ mutationQueue = <<>> <=> Len(mutationQueue) = 0
      /\ Len(pipeline) = Room(mutationQueue)
      /\ Room(mutationQueue) = 0 <=> Len(mutationQueue) = 0
  BY <1>1, EmptyIsLengthZero, RoomIsNat DEF PipeInv, PipelineIsFull, FrontOf
<1>3. DOMAIN tokens = 1 .. Len(tokens)
  BY <1>1, EmptyIsLengthZero
<1>4. StoppedOnlyWhenIdle
  BY <1>1, <1>2 DEF StreamInv, IdleIsIdle, StoppedOnlyWhenIdle
<1>5. TokenOnlyWhenStarting
  BY <1>1, <1>3 DEF StreamInv, StreamHasShape, TokensAreStale, TokenOnlyWhenStarting
<1>6. PendingWritesAreServed
  BY <1>1, <1>2 DEF StreamInv, StreamHasShape, PendingWritesAreServed
<1> QED
  BY <1>4, <1>5, <1>6

-----------------------------------------------------------------------------
(* The watch side, and both together. *)

(* The timer's rule is only inductive with what a client without a target  *)
(* looks like: no target, no question to the server.                       *)
OnlineInv ==
    /\ OnlineTypeOK
    /\ TimerRunsWhileUnknown
    /\ FailuresMeanOffline
    /\ ~listening /\ watch \in {"starting", "open", "backoff"}
         => watch = "open" /\ online = "online"

RemoteInv == PipeInv /\ OnlineInv /\ restarts \in 0 .. MaxRestarts

-----------------------------------------------------------------------------
LEMMA OnlineInvInit == OnlineInit => OnlineInv
<1> SUFFICES ASSUME OnlineInit PROVE OnlineInv
  OBVIOUS
<1>1. /\ listening = FALSE /\ watch = "initial" /\ online = "unknown"
      /\ failures = 0 /\ timer = FALSE
  BY DEF OnlineInit
<1>2. OnlineTypeOK
  <2>1. failures \in 0 .. 2
    BY <1>1
  <2>2. listening \in BOOLEAN /\ timer \in BOOLEAN
    BY <1>1, Zenon
  <2> QED
    BY <1>1, <2>1, <2>2, Zenon DEF OnlineTypeOK
<1>3. TimerRunsWhileUnknown /\ FailuresMeanOffline
  BY <1>1, Zenon DEF TimerRunsWhileUnknown, FailuresMeanOffline
<1> QED
  BY <1>1, <1>2, <1>3 DEF OnlineInv

LEMMA OnlineStutters == ASSUME OnlineInv, UNCHANGED watchVars PROVE OnlineInv'
BY DEF OnlineInv, OnlineTypeOK, TimerRunsWhileUnknown, FailuresMeanOffline, watchVars

LEMMA OnlineSteps ==
    ASSUME OnlineInv,
           \/ ListenTarget \/ WatchOpens \/ WatchChange \/ TargetRejected
           \/ WatchFails \/ WatchBackoffElapses \/ OnlineTimeout
           \/ RestartWatch \/ RestartWatchProcess
    PROVE  OnlineInv'
<1> USE DEF OnlineInv, OnlineTypeOK, TimerRunsWhileUnknown, FailuresMeanOffline
(* After UpdateState nothing is counted and nothing timed. *)
<1>0. ASSUME NEW state \in {"unknown", "online"}, UpdateState(state),
             listening' \in BOOLEAN, ~listening' \/ state = "online",
             watch' \in {"initial", "starting", "open", "error", "backoff"},
             ~listening' /\ watch' \in {"starting", "open", "backoff"}
               => watch' = "open" /\ state = "online"
      PROVE  OnlineInv'
  <2>1. online' = state /\ failures' = 0 /\ timer' = FALSE
    BY <1>0 DEF UpdateState
  <2>2. OnlineTypeOK'
    <3>1. failures' \in 0 .. 2
      BY <2>1
    <3>2. timer' \in BOOLEAN /\ online' \in {"unknown", "online", "offline"}
      BY <1>0, <2>1, Zenon
    <3> QED
      BY <1>0, <3>1, <3>2, Zenon
  <2>3. ~timer' /\ ~(listening' /\ online' = "unknown")
    BY <1>0, <2>1
  <2>4. TimerRunsWhileUnknown' /\ FailuresMeanOffline'
    BY <2>1, <2>3, Zenon
  <2> HIDE DEF OnlineTypeOK, TimerRunsWhileUnknown, FailuresMeanOffline
  <2> QED
    BY <1>0, <2>1, <2>2, <2>4
<1>1. CASE ListenTarget
  BY <1>1 DEF ListenTarget, StartWatch, WatchStarted
<1>2. CASE WatchOpens
  BY <1>2 DEF WatchOpens
<1>3. CASE WatchChange
  BY <1>0, <1>3 DEF WatchChange
<1>4. CASE TargetRejected
  BY <1>0, <1>4 DEF TargetRejected
<1>5. CASE WatchFails
  <2>1. CASE ~listening
    BY <1>0, <1>5, <2>1 DEF WatchFails
  <2>2. CASE listening /\ online = "online"
    BY <1>5, <2>2 DEF WatchFails
  <2>3. CASE listening /\ online # "online"
    <3>1. /\ watch' = "backoff" /\ online' = "offline" /\ timer' = FALSE
          /\ failures' = IF failures < 2 THEN failures + 1 ELSE 2
          /\ listening' = listening
      BY <1>5, <2>3 DEF WatchFails
    <3>2. failures' \in 0 .. 2
      BY <3>1
    <3>3. ~timer' /\ listening' /\ listening' \in BOOLEAN /\ timer' \in BOOLEAN
      BY <2>3, <3>1, Zenon
    <3> QED
      BY <3>1, <3>2, <3>3
  <2> QED
    BY <2>1, <2>2, <2>3
<1>6. CASE WatchBackoffElapses
  BY <1>6 DEF WatchBackoffElapses
<1>7. CASE OnlineTimeout
  BY <1>7 DEF OnlineTimeout
<1>8. CASE RestartWatch
  BY <1>8 DEF RestartWatch
<1>9. CASE RestartWatchProcess
  BY <1>0, <1>9 DEF RestartWatchProcess
<1> QED
  BY <1>1, <1>2, <1>3, <1>4, <1>5, <1>6, <1>7, <1>8, <1>9

LEMMA WritesStutter == ASSUME PipeInv, UNCHANGED writeVars PROVE Kept
<1>1. /\ UNCHANGED <<queueVars, pipeline>> /\ UNCHANGED streamVars /\ committed' = committed
  BY DEF writeVars
<1>2. StreamInv /\ committed \subseteq Write /\ pipeline' = pipeline
  BY <1>1 DEF PipeInv, WriteTypeOK
<1>3. StreamInv'
  BY <1>1, <1>2
     DEF streamVars, StreamInv, StreamHasShape, Greeting, Carrying, Ended, TokensAreStale,
         IdleIsIdle
<1> QED
  BY <1>1, <1>2, <1>3, OnlyTheStream DEF PipeInv, AnswersAreTrue, streamVars

-----------------------------------------------------------------------------
LEMMA RemoteInvInit == RemoteInit => RemoteInv /\ Replies!RepliesInit
<1>1. RemoteInit => restarts \in 0 .. MaxRestarts
  BY MaxRestartsAssumption DEF RemoteInit
<1> QED
  BY <1>1, PipeInvInit, OnlineInvInit DEF RemoteInit, RemoteInv

(* A step of the write side. *)
LEMMA WriteSideSteps ==
    ASSUME PipeInv,
           \/ \E w \in Write : WriteMutations(w)
           \/ TokenArrives \/ StreamOpens \/ BackoffElapses \/ ReadHandshake
           \/ ReadResult \/ ReadRefusal \/ TokenFails \/ StreamFails \/ IdleTimeout
           \/ ServerShakesHands \/ ServerCommits \/ ServerRefuses
    PROVE  Kept
<1>1. ASSUME NEW w \in Write, WriteMutations(w) PROVE Kept
  BY <1>1, WriteMutationsKept
<1> QED
  BY <1>1, TokenArrivesKept, StreamOpensKept, BackoffElapsesKept, ReadHandshakeKept,
     ReadResultKept, ReadRefusalKept, TokenFailsKept, StreamFailsKept, IdleTimeoutKept,
     ServerShakesHandsKept, ServerCommitsKept, ServerRefusesKept

LEMMA RemoteInvStep ==
    RemoteInv /\ [RemoteNext]_remoteVars => RemoteInv' /\ [Replies!RepliesNext]_answer
<1> SUFFICES ASSUME RemoteInv, [RemoteNext]_remoteVars
             PROVE  RemoteInv' /\ [Replies!RepliesNext]_answer
  OBVIOUS
<1>1. PipeInv /\ OnlineInv /\ restarts \in 0 .. MaxRestarts
  BY DEF RemoteInv
<1>2. CASE RestartNetwork
  <2>1. Kept
    <3>1. RestartWrites(Stale(tokens))
      BY <1>2 DEF RestartNetwork
    <3> QED
      BY <1>1, <3>1, StaleTokens, RestartWritesKept
  <2>2. OnlineInv'
    BY <1>1, <1>2, OnlineSteps DEF RestartNetwork
  <2>3. restarts' \in 0 .. MaxRestarts
    BY <1>1, <1>2, MaxRestartsAssumption DEF RestartNetwork
  <2> QED
    BY <2>1, <2>2, <2>3 DEF Kept, RemoteInv
<1>3. CASE RestartApp
  <2>1. Kept
    <3>1. RestartWrites(<<>>)
      BY <1>3 DEF RestartApp
    <3>2. <<>> \in Seq(BOOLEAN) /\ \A i \in 1 .. Len(<<>>) : ~(<<>>[i])
      BY EmptySeq
    <3> QED
      BY <1>1, <3>1, <3>2, RestartWritesKept
  <2>2. OnlineInv'
    BY <1>1, <1>3, OnlineSteps DEF RestartApp
  <2>3. restarts' \in 0 .. MaxRestarts
    BY <1>1, <1>3, MaxRestartsAssumption DEF RestartApp
  <2> QED
    BY <2>1, <2>2, <2>3 DEF Kept, RemoteInv
<1>4. CASE \/ Makes \/ Asks \/ Opens \/ Retries \/ Shakes \/ Learns \/ Stops
           \/ ServerAccepts \/ ServerDecides
  <2>1. /\ \/ \E w \in Write : WriteMutations(w)
           \/ TokenArrives \/ StreamOpens \/ BackoffElapses \/ ReadHandshake
           \/ ReadResult \/ ReadRefusal \/ TokenFails \/ StreamFails \/ IdleTimeout
           \/ ServerShakesHands \/ ServerCommits \/ ServerRefuses
        /\ UNCHANGED <<watchVars, restarts>>
    BY <1>4 DEF Makes, Asks, Opens, Retries, Shakes, Learns, Stops, ServerAccepts,
                ServerDecides, WriteStep
  <2>2. Kept
    BY <1>1, <2>1, WriteSideSteps
  <2>3. OnlineInv'
    BY <1>1, <2>1, OnlineStutters
  <2> QED
    BY <1>1, <2>1, <2>2, <2>3 DEF Kept, RemoteInv
<1>5. CASE Watches \/ Times
  <2>1. /\ \/ ListenTarget \/ WatchOpens \/ WatchChange \/ TargetRejected
           \/ WatchFails \/ WatchBackoffElapses \/ OnlineTimeout
        /\ UNCHANGED <<writeVars, restarts>>
    BY <1>5 DEF Watches, Times, WatchStep
  <2>2. Kept
    BY <1>1, <2>1, WritesStutter
  <2>3. OnlineInv'
    BY <1>1, <2>1, OnlineSteps
  <2> QED
    BY <1>1, <2>1, <2>2, <2>3 DEF Kept, RemoteInv
<1>6. CASE UNCHANGED remoteVars
  <2>1. UNCHANGED writeVars /\ UNCHANGED watchVars /\ restarts' = restarts
    BY <1>6 DEF remoteVars
  <2> QED
    BY <1>1, <2>1, WritesStutter, OnlineStutters DEF Kept, RemoteInv
<1> QED
  BY <1>2, <1>3, <1>4, <1>5, <1>6 DEF RemoteNext

-----------------------------------------------------------------------------
(* RemoteStore::WriteMutations to OnlineStateTracker: whatever streams,    *)
(* tokens, timers, the server and restarts do, RemoteInv holds.            *)
THEOREM RemoteInvariant == RemoteSpec => []RemoteInv
<1>1. RemoteInit => RemoteInv
  BY RemoteInvInit
<1>2. RemoteInv /\ [RemoteNext]_remoteVars => RemoteInv'
  BY RemoteInvStep
<1> QED
  BY <1>1, <1>2, PTL DEF RemoteSpec

(* Every variable of both halves keeps its type; in particular the         *)
(* pipeline never exceeds kMaxPendingWrites (CanAddToWritePipeline).       *)
THEOREM RemoteTypeCorrect == RemoteSpec => []RemoteTypeOK
<1>1. RemoteInv => RemoteTypeOK
  BY DEF RemoteInv, PipeInv, OnlineInv, RemoteTypeOK
<1> QED
  BY <1>1, RemoteInvariant, PTL

(* The pipeline is always the front of the queue on disk: no write is      *)
(* skipped, sent twice on one stream, or overtaken (FillWritePipeline).    *)
THEOREM PipelineAlwaysPrefix == RemoteSpec => []PipelineIsPrefix
<1>1. RemoteInv => PipelineIsPrefix
  BY PrefixHolds DEF RemoteInv
<1> QED
  BY <1>1, RemoteInvariant, PTL

(* What is under way on the stream is the pipeline, so that a response     *)
(* taken for its head (OnMutationResult) is the response to its head.      *)
THEOREM ResponsesFindTheirWrites == RemoteSpec => []StreamCarriesPipeline
<1>1. RemoteInv => StreamCarriesPipeline
  BY UnderWayHolds DEF RemoteInv
<1> QED
  BY <1>1, RemoteInvariant, PTL

(* A write reported as done was committed by the server, though streams    *)
(* that carried its requests and responses may have been lost.             *)
THEOREM DoneMeansCommitted == RemoteSpec => []AnsweredWasCommitted
<1>1. RemoteInv => AnsweredWasCommitted
  BY DEF RemoteInv, PipeInv, AnswersAreTrue
<1> QED
  BY <1>1, RemoteInvariant, PTL

(* The assertion of OnWriteStreamClose: the idle timer never stops a       *)
(* stream that has writes to send.                                         *)
THEOREM NeverStoppedWhileNeeded == RemoteSpec => []StoppedOnlyWhenIdle
<1>1. RemoteInv => StoppedOnlyWhenIdle
  BY StreamRulesHold DEF RemoteInv
<1> QED
  BY <1>1, RemoteInvariant, PTL

(* The assertion of ResumeStartWithCredentials: of all tokens on their     *)
(* way only the last can belong to the stream that is starting.            *)
THEOREM NoStaleTokenStarts == RemoteSpec => []TokenOnlyWhenStarting
<1>1. RemoteInv => TokenOnlyWhenStarting
  BY StreamRulesHold DEF RemoteInv
<1> QED
  BY <1>1, RemoteInvariant, PTL

(* While a write waits, the stream is started or will be: no refusal,      *)
(* failure or timer leaves a write behind (StartIfNeeded).                 *)
THEOREM NoWriteLeftBehind == RemoteSpec => []PendingWritesAreServed
<1>1. RemoteInv => PendingWritesAreServed
  BY StreamRulesHold DEF RemoteInv
<1> QED
  BY <1>1, RemoteInvariant, PTL

(* The timer of OnlineStateTracker runs exactly while the first answer is  *)
(* owed, so a listener that waits is always timed.                         *)
THEOREM WaitingIsTimed == RemoteSpec => []TimerRunsWhileUnknown
<1>1. RemoteInv => TimerRunsWhileUnknown
  BY DEF RemoteInv, OnlineInv
<1> QED
  BY <1>1, RemoteInvariant, PTL

(* Failures are counted only while offline: the tracker's heuristics are   *)
(* reset whenever its state changes.                                       *)
THEOREM FailuresOnlyOffline == RemoteSpec => []FailuresMeanOffline
<1>1. RemoteInv => FailuresMeanOffline
  BY DEF RemoteInv, OnlineInv
<1> QED
  BY <1>1, RemoteInvariant, PTL

(* The write pipeline implements OrderedReplies: each write is answered at *)
(* most once and in order, however often its request is repeated.          *)
THEOREM PipelineImplementsReplies == RemoteSpec => ImplementsOrderedReplies
<1>1. RemoteInit => Replies!RepliesInit
  BY RemoteInvInit
<1>2. RemoteInv /\ [RemoteNext]_remoteVars => [Replies!RepliesNext]_answer
  BY RemoteInvStep
<1>3. RemoteSpec => Replies!RepliesSpec
  BY <1>1, <1>2, RemoteInvariant, PTL DEF RemoteSpec, Replies!RepliesSpec
<1> QED
  BY <1>3 DEF ImplementsOrderedReplies
=============================================================================

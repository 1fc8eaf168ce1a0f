----------------------------- MODULE WritePipeline -----------------------------
(***************************************************************************)
(* How queued writes reach the server: RemoteStore's write pipeline        *)
(* (remote_store.cc) on top of the write stream (write_stream.cc,          *)
(* stream.cc).  The stream is started when there is something to send,     *)
(* asks for a token, connects, shakes hands, sends the whole pipeline and  *)
(* matches responses to it by position; it may break anywhere, loses what  *)
(* is under way, and is started again after a delay.                       *)
(*                                                                         *)
(* A write is its number in the mutation queue, 0 the handshake.  The      *)
(* network is enabled except inside RestartNetwork: the app never turns it *)
(* off.  Backoff delays and the stream token, which the client ignores,    *)
(* are left out.                                                           *)
(***************************************************************************)
EXTENDS Naturals, Sequences, FiniteSets, SequencesExt

CONSTANTS
    MaxWrites,    \* bound on the writes made
    MaxPending    \* kMaxPendingWrites

ASSUME WritePipelineAssumption == MaxWrites \in Nat /\ MaxPending \in Nat \ {0}

VARIABLES
    answer,           \* what the local store knows of each write
    mutationQueue,    \* the writes on disk, unanswered
    pipeline,         \* write_pipeline_
    stream,           \* Stream::state_
    tokens,           \* GetToken calls on their way: TRUE if of this attempt
    connected,        \* grpc_stream_ exists
    handshake,        \* handshake_complete_
    idle,             \* idleness_timer_ is running
    requests,         \* client to server, on this gRPC stream
    responses,        \* server to client, on this gRPC stream
    committed         \* what the server has applied at least once

queueVars == <<answer, mutationQueue>>
streamVars == <<stream, tokens, connected, handshake, idle, requests, responses>>
writeVars == <<queueVars, pipeline, streamVars, committed>>

Write == 1 .. MaxWrites
StreamState == {"initial", "starting", "open", "error", "backoff"}

(* A refusal ends the stream with a permanent error. *)
Response == [write : Write \union {0}, ok : BOOLEAN]

WriteTypeOK ==
    /\ answer \in [Write -> {"none", "pending", "ok", "failed"}]
    /\ mutationQueue \in Seq(Write)
    /\ pipeline \in Seq(Write) /\ Len(pipeline) <= MaxPending
    /\ stream \in StreamState
    /\ tokens \in Seq(BOOLEAN)
    /\ connected \in BOOLEAN
    /\ handshake \in BOOLEAN
    /\ idle \in BOOLEAN
    /\ requests \in Seq(Write \union {0})
    /\ responses \in Seq(Response)
    /\ committed \subseteq Write

WriteInit ==
    /\ answer = [w \in Write |-> "none"]
    /\ mutationQueue = <<>>
    /\ pipeline = <<>>
    /\ stream = "initial"
    /\ tokens = <<>>
    /\ connected = FALSE
    /\ handshake = FALSE
    /\ idle = FALSE
    /\ requests = <<>>
    /\ responses = <<>>
    /\ committed = {}

Started(s) == s \in {"starting", "open", "backoff"}

-----------------------------------------------------------------------------
(* Stream::Start: after an error only once the backoff delay is over. *)
Start(state, asked) ==
    IF state = "error"
    THEN stream' = "backoff" /\ tokens' = asked
    ELSE stream' = "starting" /\ tokens' = Append(asked, TRUE)

StartIfNeeded(p, state, asked) ==
    IF p # <<>> /\ ~Started(state)
    THEN Start(state, asked)
    ELSE stream' = state /\ tokens' = asked

(* Seeded fault: the loop starts over at the head of the queue. *)
NextBatchesFromHead(queue, p) ==
    LET room == MaxPending - Len(p)
    IN  SubSeq(queue, 1, IF Len(queue) < room THEN Len(queue) ELSE room)

(* Seeded fault: kMaxPendingWrites is not looked at. *)
NextBatchesUnbounded(queue, p) ==
    SelectSeq(queue, LAMBDA w : p = <<>> \/ w > Last(p))

(* LocalStore::GetNextMutationBatch, as often as there is room. *)
NextBatches(queue, p) ==
    LET last == IF p = <<>> THEN 0 ELSE Last(p)
        sent == Cardinality({i \in DOMAIN queue : queue[i] <= last})
        end == sent + MaxPending - Len(p)
    IN  SubSeq(queue, sent + 1, IF Len(queue) < end THEN Len(queue) ELSE end)

(* Seeded fault: Write does not cancel the idle timer. *)
FillWritePipelineIdling(queue, p, state, asked, sent) ==
    LET new == NextBatches(queue, p)
        ready == state = "open" /\ handshake
    IN  /\ pipeline' = p \o new
        /\ requests' = IF ready THEN sent \o new ELSE sent
        /\ idle' = (idle \/ (state = "open" /\ p \o new = <<>>))
        /\ StartIfNeeded(p \o new, state, asked)

(* A new batch is sent at once on a stream that has shaken hands, which    *)
(* cancels the idle timer; a stream found without work starts it.          *)
FillWritePipeline(queue, p, state, asked, sent) ==
    LET new == NextBatches(queue, p)
        ready == state = "open" /\ handshake
    IN  /\ pipeline' = p \o new
        /\ requests' = IF ready THEN sent \o new ELSE sent
        /\ idle' = IF ready /\ new # <<>> THEN FALSE
                   ELSE idle \/ (state = "open" /\ p \o new = <<>>)
        /\ StartIfNeeded(p \o new, state, asked)

(* Seeded fault: close_count_ is not counted up. *)
StaleNever(asked) == asked

(* Stream::Close: close_count_ makes the outstanding token a stale one. *)
Stale(asked) == [i \in DOMAIN asked |-> FALSE]

(* Seeded fault: what the old stream still brings is read on the new one. *)
DisconnectKeepingResponses ==
    /\ connected' = FALSE
    /\ handshake' = FALSE
    /\ UNCHANGED responses

(* What else of the stream goes with it. *)
Disconnect ==
    /\ connected' = FALSE
    /\ handshake' = FALSE
    /\ responses' = <<>>

-----------------------------------------------------------------------------
(* SyncEngine::WriteMutations. *)
WriteMutations(w) ==
    /\ answer[w] = "none"
    /\ \A v \in Write : v < w => answer[v] # "none"
    /\ answer' = [answer EXCEPT ![w] = "pending"]
    /\ mutationQueue' = Append(mutationQueue, w)
    /\ FillWritePipeline(mutationQueue', pipeline, stream, tokens, requests)
    /\ UNCHANGED <<connected, handshake, responses, committed>>

(* The answer of the credentials provider; a stale one is ignored. *)
TokenArrives ==
    /\ tokens # <<>>
    /\ tokens' = Tail(tokens)
    /\ connected' = (connected \/ Head(tokens))
    /\ UNCHANGED <<queueVars, pipeline, stream, handshake, idle, requests, responses,
                   committed>>

(* OnStreamStart -> OnWriteStreamOpen -> WriteHandshake. *)
StreamOpens ==
    /\ stream = "starting" /\ connected
    /\ stream' = "open"
    /\ requests' = <<0>>
    /\ UNCHANGED <<queueVars, pipeline, tokens, connected, handshake, idle, responses,
                   committed>>

(* Seeded fault: what an earlier stream has sent is not sent again. *)
ReadHandshakeOnly ==
    /\ responses # <<>> /\ Head(responses).ok
    /\ ~handshake
    /\ handshake' = TRUE
    /\ responses' = Tail(responses)
    /\ UNCHANGED <<queueVars, pipeline, stream, tokens, connected, idle, requests,
                   committed>>

(* The first response: everything in the pipeline is sent, again if need be. *)
ReadHandshake ==
    /\ responses # <<>> /\ Head(responses).ok
    /\ ~handshake
    /\ handshake' = TRUE
    /\ responses' = Tail(responses)
    /\ requests' = requests \o pipeline
    /\ idle' = (idle /\ pipeline = <<>>)
    /\ UNCHANGED <<queueVars, pipeline, stream, tokens, connected, committed>>

Answered(w, a) ==
    /\ answer' = [answer EXCEPT ![w] = a]
    /\ \E i \in DOMAIN mutationQueue :
          /\ mutationQueue[i] = w
          /\ mutationQueue' = RemoveAt(mutationQueue, i)

(* Seeded fault: the result is taken for that of the last write sent. *)
ReadResultAtTail ==
    /\ responses # <<>> /\ Head(responses).ok
    /\ handshake
    /\ responses' = Tail(responses)
    /\ Answered(Last(pipeline), "ok")
    /\ FillWritePipeline(mutationQueue', Front(pipeline), stream, tokens, requests)
    /\ UNCHANGED <<connected, handshake, committed>>

(* Any later one is the result of the first write in the pipeline. *)
ReadResult ==
    /\ responses # <<>> /\ Head(responses).ok
    /\ handshake
    /\ responses' = Tail(responses)
    /\ Answered(Head(pipeline), "ok")
    /\ FillWritePipeline(mutationQueue', Tail(pipeline), stream, tokens, requests)
    /\ UNCHANGED <<connected, handshake, committed>>

(* Seeded fault: the refused write stays at the head of the pipeline. *)
ReadRefusalRetrying ==
    /\ responses # <<>> /\ ~Head(responses).ok
    /\ handshake
    /\ Disconnect
    /\ requests' = <<>> /\ idle' = FALSE
    /\ StartIfNeeded(pipeline, "error", Stale(tokens))
    /\ UNCHANGED <<queueVars, pipeline, committed>>

(* HandleWriteError, permanent: the first write of the pipeline is given   *)
(* up and the stream starts again without delay.                           *)
ReadRefusal ==
    /\ responses # <<>> /\ ~Head(responses).ok
    /\ handshake
    /\ Answered(Head(pipeline), "failed")
    /\ LET rest == Tail(pipeline)
           new == NextBatches(mutationQueue', rest)
       IN  /\ pipeline' = rest \o new
           /\ StartIfNeeded(rest \o new, "initial", Stale(tokens))
    /\ Disconnect
    /\ requests' = <<>> /\ idle' = FALSE
    /\ UNCHANGED committed

(* The provider has no token for this attempt. *)
TokenFails ==
    /\ tokens # <<>> /\ Head(tokens)
    /\ StartIfNeeded(pipeline, "error", Stale(Tail(tokens)))
    /\ UNCHANGED <<queueVars, pipeline, connected, handshake, idle, requests, responses,
                   committed>>

(* Any other error: no connection, a stream that breaks, a handshake       *)
(* refused.  The pipeline stays and is sent again.                         *)
StreamFails ==
    /\ connected
    /\ Disconnect
    /\ requests' = <<>> /\ idle' = FALSE
    /\ StartIfNeeded(pipeline, "error", Stale(tokens))
    /\ UNCHANGED <<queueVars, pipeline, committed>>

BackoffElapses ==
    /\ stream = "backoff"
    /\ Start("initial", tokens)
    /\ UNCHANGED <<queueVars, pipeline, connected, handshake, idle, requests, responses,
                   committed>>

(* Stream::Stop, by the idle timer. *)
IdleTimeout ==
    /\ idle
    /\ Disconnect
    /\ requests' = <<>> /\ idle' = FALSE
    /\ StartIfNeeded(pipeline, "initial", Stale(tokens))
    /\ UNCHANGED <<queueVars, pipeline, committed>>

(* RestartNetwork, which inhibits the backoff, and, with no token asked    *)
(* for, RemoteStore::Start: the pipeline is filled from the queue anew.    *)
RestartWrites(asked) ==
    /\ Disconnect
    /\ requests' = <<>> /\ idle' = FALSE
    /\ pipeline' = NextBatches(mutationQueue, <<>>)
    /\ StartIfNeeded(pipeline', "initial", asked)
    /\ UNCHANGED <<queueVars, committed>>

-----------------------------------------------------------------------------
(* The server has ended the stream with an error. *)
Ended == \E i \in DOMAIN responses : ~responses[i].ok

(* The server reads one request after the other. *)
ServerShakesHands ==
    /\ requests # <<>> /\ Head(requests) = 0
    /\ responses' = Append(responses, [write |-> 0, ok |-> TRUE])
    /\ requests' = Tail(requests)
    /\ UNCHANGED <<queueVars, pipeline, stream, tokens, connected, handshake, idle,
                   committed>>

ServerCommits ==
    /\ requests # <<>> /\ ~Ended
    /\ Head(requests) # 0
    /\ responses' = Append(responses, [write |-> Head(requests), ok |-> TRUE])
    /\ requests' = Tail(requests)
    /\ committed' = committed \union {Head(requests)}
    /\ UNCHANGED <<queueVars, pipeline, stream, tokens, connected, handshake, idle>>

(* A write it refuses ends the stream; what was sent behind it is not read. *)
ServerRefuses ==
    /\ requests # <<>> /\ ~Ended
    /\ Head(requests) # 0
    /\ responses' = Append(responses, [write |-> Head(requests), ok |-> FALSE])
    /\ requests' = <<>>
    /\ UNCHANGED <<queueVars, pipeline, stream, tokens, connected, handshake, idle,
                   committed>>
-----------------------------------------------------------------------------
(* The pipeline is the front of the queue: no write is skipped, sent twice *)
(* on one stream, or overtaken, through refills, refusals and restarts.    *)
PipelineIsPrefix == IsPrefix(pipeline, mutationQueue)

(* Responses carry no number: they are matched to the pipeline by position *)
(* alone.  That works because what is under way on a stream, answers       *)
(* first, is at all times exactly the pipeline; behind a refusal the       *)
(* server reads nothing, so there it may be less.                          *)
UnderWay == [i \in DOMAIN responses |-> responses[i].write] \o requests

StreamCarriesPipeline ==
    /\ handshake => IF Ended THEN IsPrefix([i \in DOMAIN responses |-> responses[i].write],
                                           pipeline)
                    ELSE UnderWay = pipeline
    /\ stream = "open" /\ ~handshake => UnderWay = <<0>>

(* A write that is reported as done has been applied by the server, though *)
(* its first answer may have been lost with a stream.                      *)
AnsweredWasCommitted == \A w \in Write : answer[w] = "ok" => w \in committed

(* "Write stream was stopped gracefully while still needed" (the assertion *)
(* of OnWriteStreamClose) never happens: a write that comes in while the   *)
(* idle timer runs cancels it, whatever state the stream is in.            *)
StoppedOnlyWhenIdle == idle => stream = "open" /\ pipeline = <<>>

(* "State should still be 'Starting'" (the assertion of                    *)
(* ResumeStartWithCredentials) holds for every token that arrives, however *)
(* many attempts were given up while it was on its way, and no attempt     *)
(* gets two gRPC streams.                                                  *)
TokenOnlyWhenStarting ==
    /\ connected => stream \in {"starting", "open"}
    /\ \A i \in DOMAIN tokens : tokens[i] =>
          i = Len(tokens) /\ stream = "starting" /\ ~connected

(* A write is never left behind: with something to send, the stream is     *)
(* started or will be.                                                     *)
PendingWritesAreServed == mutationQueue # <<>> => pipeline # <<>> /\ Started(stream)

Replies == INSTANCE OrderedReplies

(* Writes are answered at most once and in order, though requests are      *)
(* repeated and answers are lost with the streams that carried them.       *)
ImplementsOrderedReplies == Replies!RepliesSpec

(* However often streams break, every write is answered in the end. *)
WritesReachTheServer == \A w \in Write : answer[w] = "pending" ~> answer[w] # "pending"
=============================================================================

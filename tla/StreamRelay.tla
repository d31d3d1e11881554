------------------------------ MODULE StreamRelay ------------------------------
(***************************************************************************)
(* One inference request of the HTTP server, from its body to the end of   *)
(* its answer: the body is translated for the provider, the router fails   *)
(* or gets an answer (RouterFailover; that attempt's success is already    *)
(* recorded), and the answer goes back, piped for /v1/chat/completions or  *)
(* translated event by event for /v1/messages and /v1/responses.  What     *)
(* comes after the stream awaits the store: the token usage, the           *)
(* reclassification of an owned machine's stream that failed midway, and   *)
(* the request log.                                                        *)
(***************************************************************************)
EXTENDS ResponsesStream, RequestTranslation

CONSTANTS
  Requests,    \* [protocol, streaming, local, body, chunks]
  Pieces,      \* pieces of text
  MaxChunks,   \* bound: chunks of one answer
  MaxFaults    \* bound: store operations that fail

Protocols == {"chat", "messages", "responses"}

Fragments == [index : Int, name : Seq(Pieces), args : Seq(Pieces)]

ASSUME RelayAssumption ==
  /\ MaxChunks \in Nat \ {0} /\ MaxFaults \in Nat
  /\ \A r \in Requests :
       /\ r.protocol \in Protocols /\ r.streaming \in BOOLEAN /\ r.local \in BOOLEAN
       /\ \A c \in r.chunks :
            /\ c.text \in Seq(Pieces) /\ c.calls \in Seq(Fragments)
            /\ c.kind = "node error" => r.local
       /\ r.protocol = "messages" => r.body \in [system : BOOLEAN, messages : Seq(Turns)]
       /\ r.protocol = "responses" => r.body \in [system : BOOLEAN, messages : Seq(Items)]

VARIABLES
  request,
  messages,     \* the conversation as the provider gets it
  phase,
  upstream,     \* the provider's stream: open, closed at its end, broken, none
  sent,         \* history: the chunks of the answer
  writer,       \* the translator, with all that was written to the client
  status,       \* the HTTP status: none yet, ok, error
  nodeError,    \* observation.localStreamError
  client,       \* here, gone
  reclassified, nodeFailures,   \* failures recorded for the stream
  logged,       \* what the request log says of the chosen attempt
  faults        \* history: store operations that failed

stored == <<reclassified, nodeFailures, logged, faults>>
vars == <<request, messages, phase, upstream, sent, writer, status, nodeError,
          client, stored>>

Init ==
  /\ request \in Requests
  /\ messages = <<>> /\ phase = "arrived"
  /\ upstream = "open" /\ sent = <<>>
  /\ writer = [events |-> <<>>] /\ status = "none"
  /\ nodeError = FALSE /\ client = "here"
  /\ reclassified = 0 /\ nodeFailures = 0 /\ logged = "none" /\ faults = 0

translated == request.protocol # "chat"
-----------------------------------------------------------------------------
(* The body for the provider, and the translators of its answer. *)

UpstreamMessages(r) ==
  CASE r.protocol = "chat" -> r.body.messages
    [] r.protocol = "messages" -> AnthropicToOpenAI(r.body)
    [] r.protocol = "responses" -> ResponsesToOpenAI(r.body)

(* The client's conversation goes to the router.  A body for /v1/responses without
   any message is refused before that. *)
TranslateRequest ==
  /\ phase = "arrived"
  /\ messages' = UpstreamMessages(request)
  /\ IF request.protocol = "responses" /\ messages' = <<>>
     THEN phase' = "ended" /\ status' = "error"
     ELSE phase' = "routed" /\ UNCHANGED status
  /\ UNCHANGED <<request, upstream, sent, writer, nodeError, client, stored>>

(* routedChatCompletion: no provider answered.  The failure is logged, a log that
   fails is only warned of, and the client gets an error status. *)
RoutingFails ==
  /\ phase = "routed"
  /\ \/ logged' = "failure" /\ UNCHANGED faults
     \/ faults < MaxFaults /\ faults' = faults + 1 /\ UNCHANGED logged
  /\ status' = "error" /\ phase' = "ended" /\ upstream' = "none"
  /\ UNCHANGED <<request, messages, sent, writer, nodeError, client, reclassified,
                 nodeFailures>>

Begin(protocol) ==
  CASE protocol = "chat" -> [events |-> <<>>]
    [] protocol = "messages" -> BeginMessage
    [] protocol = "responses" -> BeginResponse

Piped(t, chunk) == Emit(t, <<Event("chunk", Unset, <<>>, <<chunk>>)>>)

Translate(protocol, t, chunk) ==
  CASE protocol = "chat" -> Piped(t, chunk)
    [] protocol = "messages" -> MessageChunk(t, chunk)
    [] protocol = "responses" -> ResponseChunk(t, chunk)

End(protocol, t) ==
  CASE protocol = "chat" -> t
    [] protocol = "messages" -> EndMessage(t)
    [] protocol = "responses" -> EndResponse(t)

(* A whole completion, as the events it is sent as; for a request without streaming
   they stand for the parts of the one object that is sent. *)
Whole(protocol, chunk) ==
  CASE protocol = "chat" -> Piped(Begin(protocol), chunk)
    [] protocol = "messages" -> WholeMessage(chunk)
    [] protocol = "responses" -> WholeResponse(chunk)
-----------------------------------------------------------------------------
(* The provider's stream. *)

(* Mutant: a failure is only looked for in the first chunk. *)
ObservedAtFirst(chunk) == nodeError \/ (sent = <<>> /\ chunk.kind = "node error")

(* The relay watches what it passes on for the error event of a local agent. *)
Observed(chunk) == nodeError \/ chunk.kind = "node error"

(* A write to a client that reads slowly, or not any more, is refused; only the
   pipe waits for it. *)
Relayed ==
  \/ phase' = "relaying" /\ (translated \/ client = "here")
  \/ phase' = "draining" /\ ~translated

(* primeStreamingResponse: the first chunk is awaited before the headers. *)
Prime(chunk) ==
  /\ phase = "routed" /\ request.streaming
  /\ chunk \in request.chunks
  /\ sent' = <<chunk>> /\ nodeError' = Observed(chunk)
  /\ status' = "ok"
  /\ writer' = Translate(request.protocol, Begin(request.protocol), chunk)
  /\ Relayed
  /\ UNCHANGED <<request, messages, upstream, client, stored>>

(* A stream that ends before its first chunk is an answer without content. *)
PrimeEmpty ==
  /\ phase = "routed" /\ request.streaming
  /\ upstream' = "closed" /\ status' = "ok"
  /\ writer' = End(request.protocol, Begin(request.protocol))
  /\ phase' = "usage"
  /\ UNCHANGED <<request, messages, sent, nodeError, client, stored>>

(* A whole completion lists its calls, which have no index of their own: their
   order is the one of the list. *)
IsWhole(chunk) ==
  /\ chunk.kind = "delta"
  /\ \A j, k \in DOMAIN chunk.calls : j < k => chunk.calls[j].index < chunk.calls[k].index

(* The provider answers a request for a stream with a whole completion. *)
PrimeWhole(chunk) ==
  /\ phase = "routed" /\ request.streaming
  /\ chunk \in request.chunks /\ IsWhole(chunk)
  /\ upstream' = "closed" /\ sent' = <<chunk>> /\ status' = "ok"
  /\ writer' = Whole(request.protocol, chunk)
  /\ phase' = "usage"
  /\ UNCHANGED <<request, messages, nodeError, client, stored>>

(* Nothing has been sent: the client gets an error status, and the success the
   router recorded stands. *)
PrimeBreaks ==
  /\ phase = "routed"
  /\ upstream' = "broken" /\ status' = "error" /\ phase' = "ended"
  /\ UNCHANGED <<request, messages, sent, writer, nodeError, client, stored>>

(* The agent of an owned machine ends its stream with the error event. *)
Relay(chunk) ==
  /\ phase = "relaying" /\ Len(sent) < MaxChunks /\ ~nodeError
  /\ chunk \in request.chunks
  /\ sent' = Append(sent, chunk) /\ nodeError' = Observed(chunk)
  /\ writer' = Translate(request.protocol, writer, chunk)
  /\ Relayed
  /\ UNCHANGED <<request, messages, upstream, status, client, stored>>

(* Mutant: a drain is missed when the client reads on before it is awaited. *)
DrainMissed ==
  /\ phase = "draining" /\ client = "here" /\ Len(sent) # 2
  /\ phase' = "relaying"
  /\ UNCHANGED <<request, messages, upstream, sent, writer, status, nodeError,
                 client, stored>>

Drain ==
  /\ phase = "draining" /\ client = "here"
  /\ phase' = "relaying"
  /\ UNCHANGED <<request, messages, upstream, sent, writer, status, nodeError,
                 client, stored>>

UpstreamCloses ==
  /\ phase = "relaying"
  /\ upstream' = "closed"
  /\ writer' = End(request.protocol, writer)
  /\ phase' = "usage"
  /\ UNCHANGED <<request, messages, sent, status, nodeError, client, stored>>

ErrorEvent == IF translated THEN Emit(writer, <<Plainly("error")>>) ELSE writer

(* Mutant: what arrived so far is completed as if it were all. *)
BreakCompleting ==
  /\ phase = "relaying"
  /\ upstream' = "broken"
  /\ writer' = End(request.protocol, writer)
  /\ phase' = "usage"
  /\ UNCHANGED <<request, messages, sent, status, nodeError, client, stored>>

(* The catch of the handler: an error event, or for the pipe just the end. *)
UpstreamBreaks ==
  /\ phase = "relaying"
  /\ upstream' = "broken"
  /\ writer' = ErrorEvent
  /\ phase' = "ended"
  /\ UNCHANGED <<request, messages, sent, status, nodeError, client, stored>>

(* A request without streaming: the router has read and checked the body. *)
ReadWhole(chunk) ==
  /\ phase = "routed" /\ ~request.streaming
  /\ chunk \in request.chunks /\ IsWhole(chunk)
  /\ upstream' = "closed" /\ sent' = <<chunk>>
  /\ phase' = "usage"
  /\ UNCHANGED <<request, messages, writer, status, nodeError, client, stored>>
-----------------------------------------------------------------------------
(* After the answer. *)

RecordUsage ==
  /\ phase = "usage"
  /\ phase' = IF request.streaming THEN "reconciling" ELSE "logging"
  /\ UNCHANGED <<request, messages, upstream, sent, writer, status, nodeError,
                 client, stored>>

(* reconcileLocalStreamFailure: two writes at once, to the router's record and
   to the node's; when one fails the other may have been done. *)
Reconciled == nodeError /\ request.local

Reconcile ==
  /\ phase = "reconciling"
  /\ phase' = "logging"
  /\ reclassified' = IF Reconciled THEN reclassified + 1 ELSE reclassified
  /\ nodeFailures' = IF Reconciled THEN nodeFailures + 1 ELSE nodeFailures
  /\ UNCHANGED <<request, messages, upstream, sent, writer, status, nodeError,
                 client, logged, faults>>

ReconcileFails ==
  /\ phase = "reconciling" /\ Reconciled /\ faults < MaxFaults
  /\ faults' = faults + 1
  /\ \E one \in {<<0, 0>>, <<0, 1>>, <<1, 0>>} :
       /\ reclassified' = reclassified + one[1]
       /\ nodeFailures' = nodeFailures + one[2]
  /\ writer' = ErrorEvent
  /\ phase' = "ended"
  /\ UNCHANGED <<request, messages, upstream, sent, status, nodeError, client, logged>>

(* A streamed answer ends after its log, another one is sent after it. *)
WriteLog ==
  /\ phase = "logging"
  /\ logged' = IF Reconciled THEN "failure" ELSE "success"
  /\ phase' = "ended" /\ status' = "ok"
  /\ writer' = IF request.streaming THEN writer
               ELSE Whole(request.protocol, sent[1])
  /\ UNCHANGED <<request, messages, upstream, sent, nodeError, client, reclassified,
                 nodeFailures, faults>>

(* Mutant: a failure of the log is taken for one of the stream, and counted. *)
StoreFailsCounting ==
  /\ phase \in {"usage", "logging"} /\ faults < MaxFaults
  /\ faults' = faults + 1
  /\ phase' = "ended" /\ writer' = ErrorEvent
  /\ reclassified' = reclassified + 1
  /\ UNCHANGED <<request, messages, upstream, sent, status, nodeError, client,
                 nodeFailures, logged>>

(* The usage or the log cannot be written: a streamed answer, complete as it
   may be, gets an error event behind it, another one an error instead. *)
StoreFails ==
  /\ phase \in {"usage", "logging"} /\ faults < MaxFaults
  /\ faults' = faults + 1
  /\ phase' = "ended"
  /\ IF request.streaming
     THEN writer' = ErrorEvent /\ UNCHANGED status
     ELSE status' = "error" /\ UNCHANGED writer
  /\ UNCHANGED <<request, messages, upstream, sent, nodeError, client, reclassified,
                 nodeFailures, logged>>

ClientLeaves ==
  /\ phase # "ended" /\ client = "here"
  /\ client' = "gone"
  /\ UNCHANGED <<request, messages, phase, upstream, sent, writer, status, nodeError,
                 stored>>

(* What the provider does next. *)
Upstream ==
  \/ \E chunk \in request.chunks :
       Prime(chunk) \/ PrimeWhole(chunk) \/ Relay(chunk) \/ ReadWhole(chunk)
  \/ PrimeEmpty \/ PrimeBreaks \/ UpstreamCloses \/ UpstreamBreaks

Next ==
  \/ TranslateRequest \/ RoutingFails \/ Upstream \/ Drain
  \/ RecordUsage \/ Reconcile \/ ReconcileFails \/ WriteLog \/ StoreFails
  \/ ClientLeaves

(* A provider goes on or breaks off (the router's timers are off by now, and
   nothing else would end a silent stream); a client that stays reads on; the
   store answers. *)
Fairness ==
  /\ WF_vars(TranslateRequest) /\ WF_vars(RoutingFails \/ Upstream) /\ WF_vars(Drain)
  /\ WF_vars(RecordUsage) /\ WF_vars(Reconcile) /\ WF_vars(WriteLog)

Spec == Init /\ [][Next]_vars /\ Fairness
-----------------------------------------------------------------------------
TypeOK ==
  /\ request \in Requests
  /\ phase \in {"arrived", "routed", "relaying", "draining", "usage", "reconciling",
                "logging", "ended"}
  /\ upstream \in {"open", "closed", "broken", "none"}
  /\ Len(sent) <= MaxChunks /\ ToSet(sent) \subseteq request.chunks
  /\ status \in {"none", "ok", "error"}
  /\ nodeError \in BOOLEAN /\ client \in {"here", "gone"}
  /\ reclassified \in 0..1 /\ nodeFailures \in 0..1
  /\ logged \in {"none", "success", "failure"} /\ faults \in 0..MaxFaults

(* The provider is told the client's conversation, all of it and in its order,
   and the calls of one turn of the assistant share one message, since their
   results must follow that message (anthropicToOpenAI, responsesToOpenAI). *)
ConversationKept ==
  phase \notin {"arrived"} /\ translated =>
    LET body == request.body
        says == IF request.protocol = "messages" THEN AnthropicSays(body)
                ELSE ResponsesSays(body)
    IN /\ Said(messages) = (IF body.system THEN <<"system">> ELSE <<>>) \o says
       /\ request.protocol = "responses" =>
            \A i, j \in DOMAIN body.messages : SameTurn(body, i, j) =>
              \E m \in DOMAIN messages :
                {body.messages[i].id, body.messages[j].id} \subseteq ToSet(messages[m].calls)

(* A client of /v1/messages never reads an event out of place, and once the
   message is complete holds what the provider said: all text in one block,
   then the tool calls in the order of their indices, each put together from
   its fragments (streamOpenAIAsAnthropic). *)
AnthropicFaithful ==
  request.protocol = "messages" /\ writer.events # <<>> =>
    LET read == ReadMessage(writer.events)
        said == Deltas(sent)
    IN /\ read.legal
       /\ read.state = "complete" =>
            /\ read.blocks = BlocksOf(said)
            /\ (read.stop = "tool_use") <=> (CallIndices(said) # {}
                                             \/ writer.finish = "tool_calls")

(* A client of /v1/responses that puts each item together from its deltas reads it
   from its addition to its end, and the last event lists exactly the items it has
   read, with what the provider said, as long as the provider names a call in its
   first fragment (streamOpenAIAsResponses).  ItemsHeard is about a client which
   takes the additions into account. *)
ResponsesFaithful ==
  request.protocol = "responses" /\ writer.events # <<>> /\ NamedFirst(Deltas(sent)) =>
    LET read == ReadResponse(writer.events)
        last == SelectLastInSeq(writer.events, LAMBDA e : e.kind = "completed")
    IN /\ read.legal
       /\ read.state = "complete" =>
            writer.events[last].body = ItemsOf(Deltas(sent))


(* The error event by which an owned machine's agent ends a stream that failed
   midway is the one failure behind the first output that the relay looks for.  It
   is counted at most once in the router's record and in the node's, and in both
   when it is logged; with a store that works it is counted and logged as a failure,
   although the attempt had been recorded as a success, and no such stream is ever
   logged as a success.  A stream that breaks off, its tunnel or its provider lost,
   is neither counted nor logged (the catch of the handlers).  A request that no
   provider answered is logged as a failure if the store works. *)
FailureCounted ==
  LET failed == \E k \in DOMAIN sent : sent[k].kind = "node error"
      counted == <<reclassified, nodeFailures>>
  IN /\ counted[1] <= 1 /\ counted[2] <= 1
     /\ counted # <<0, 0>> => failed /\ upstream = "closed"
     /\ failed => /\ logged # "success"
                  /\ logged = "failure" => counted = <<1, 1>>
     /\ phase = "ended" /\ upstream = "closed" /\ failed /\ faults = 0 =>
          logged = "failure"
     /\ upstream = "broken" => counted = <<0, 0>> /\ logged = "none"
     /\ phase = "ended" /\ upstream = "none" => logged = "failure" \/ faults > 0

(* A completed answer means that the provider's stream came to its end, and a stream
   that broke off leaves an error event as the last one.  An owned machine's stream
   whose agent reports an error comes to its end all the same, and its answer is
   completed: see FailureEndsInError. *)
CompletionMeansEnd ==
  translated /\ request.streaming /\ writer.events # <<>> =>
    LET state == IF request.protocol = "messages" THEN ReadMessage(writer.events).state
                 ELSE ReadResponse(writer.events).state
    IN /\ state = "complete" => upstream = "closed"
       /\ phase = "ended" /\ upstream = "broken" => Last(writer.events).kind = "error"

(* A stream that fails after its first token is ended with an error, whichever way
   it fails (CONNECT_LOCAL_LLM_V1_ROADMAP.md:723-730). *)
FailureEndsInError ==
  /\ phase = "ended" /\ translated /\ TextOf(Deltas(sent)) # <<>>
  /\ nodeError \/ upstream = "broken"
  => Last(writer.events).kind = "error"

(* Every request ends, unless its client left a piped stream: the pipe waits
   for that client forever. *)
EveryStreamEnds == <>(phase = "ended" \/ (client = "gone" /\ ~translated))

=============================================================================

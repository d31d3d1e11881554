---------------------------- MODULE AnthropicStream ----------------------------
(***************************************************************************)
(* streamOpenAIAsAnthropic: the chunks of a chat completion stream become  *)
(* the events of an Anthropic message.  The translator is a record that a  *)
(* chunk and the end of the stream transform; its field events is all it   *)
(* has written to the client.                                              *)
(*                                                                         *)
(* A chunk is [kind, text, calls, finish]: the text is a sequence of       *)
(* pieces, a fragment of a tool call is [index, name, args] with the name  *)
(* and the arguments as sequences of pieces too.                           *)
(***************************************************************************)
EXTENDS Integers, Sequences, SequencesExt, FiniteSets

Unset == -1

Event(kind, index, name, body) ==
  [kind |-> kind, index |-> index, name |-> name, body |-> body]

Plainly(kind) == Event(kind, Unset, <<>>, <<>>)

Emit(t, events) == [t EXCEPT !.events = @ \o events]

(* A set as a sequence, by a key that tells its members apart. *)
SortedBy(S, key(_)) ==
  [k \in 1..Cardinality(S) |->
     CHOOSE x \in S : Cardinality({y \in S : key(y) < key(x)}) = k - 1]

InOrder(indices) == SortedBy(indices, LAMBDA i : i)

NoCalls == [i \in {} |-> [name |-> <<>>, args |-> <<>>]]

With(calls, index, call) ==
  [i \in DOMAIN calls \cup {index} |-> IF i = index THEN call ELSE calls[i]]

Accumulate(calls, fragment) ==
  LET known == fragment.index \in DOMAIN calls
      name == IF known THEN calls[fragment.index].name ELSE <<>>
      args == IF known THEN calls[fragment.index].args ELSE <<>>
  IN With(calls, fragment.index,
          [name |-> name \o fragment.name, args |-> args \o fragment.args])

BeginMessage ==
  [open |-> Unset, next |-> 0, text |-> <<>>, calls |-> NoCalls, finish |-> "none",
   events |-> <<Plainly("message_start")>>]

OpenTextBlock(t) ==
  IF t.open # Unset THEN t
  ELSE Emit([t EXCEPT !.open = t.next, !.next = @ + 1],
            <<Event("content_block_start", t.next, <<"text">>, <<>>)>>)

Text(t, text) ==
  IF text = <<>> THEN t
  ELSE LET opened == OpenTextBlock(t)
       IN Emit([opened EXCEPT !.text = @ \o text],
               <<Event("content_block_delta", opened.open, <<>>, text)>>)

Finished(t, finish) == IF finish = "none" THEN t ELSE [t EXCEPT !.finish = finish]

(* processChunk; a chunk that does not parse is skipped. *)
MessageChunk(t, chunk) ==
  IF chunk.kind # "delta" THEN t
  ELSE LET said == Text(Finished(t, chunk.finish), chunk.text)
       IN [said EXCEPT !.calls = FoldLeft(Accumulate, @, chunk.calls)]

CloseTextBlock(t) ==
  IF t.open = Unset THEN t
  ELSE Emit([t EXCEPT !.open = Unset],
            <<Event("content_block_stop", t.open, <<>>, <<>>)>>)

Block(index, name, body) ==
  <<Event("content_block_start", index, name, <<>>),
    Event("content_block_delta", index, <<>>, body),
    Event("content_block_stop", index, <<>>, <<>>)>>

Named(call) == IF call.name = <<>> THEN <<"unknown">> ELSE call.name

(* The tool calls, whole and by their indices; one that was never named is
   given a name. *)
ToolBlocks(t) ==
  LET order == InOrder(DOMAIN t.calls)
  IN FlattenSeq([k \in DOMAIN order |->
       Block(t.next + k - 1, Named(t.calls[order[k]]), t.calls[order[k]].args)])

StopReason(finish, tools) ==
  CASE tools \/ finish = "tool_calls" -> "tool_use"
    [] ~tools /\ finish = "length" -> "max_tokens"
    [] OTHER -> "end_turn"

MessageStop(t) ==
  <<Event("message_delta", Unset,
          <<StopReason(t.finish, DOMAIN t.calls # {})>>, <<>>),
    Plainly("message_stop")>>

(* Mutant: the text block is still open while the tools are written. *)
EndMessageOpen(t) ==
  Emit(CloseTextBlock(Emit(t, ToolBlocks(t))), MessageStop(t))

(* The end of the stream: the text block is closed, then the tools follow. *)
EndMessage(t) == Emit(CloseTextBlock(t), ToolBlocks(t) \o MessageStop(t))

(* emitAnthropicMessageAsStream: a provider answered with a whole completion,
   which comes out like a stream of one chunk. *)
WholeMessage(chunk) == EndMessage(MessageChunk(BeginMessage, chunk))
-----------------------------------------------------------------------------
(* The client: it puts the events together again, block by block. *)

NoMessage == [legal |-> TRUE, state |-> "new", blocks |-> <<>>, stop |-> "none"]

Blocked(c, e) ==
  LET i == e.index + 1
      closed == \A b \in DOMAIN c.blocks : c.blocks[b].closed
      inOpen == i \in DOMAIN c.blocks /\ ~c.blocks[i].closed
  IN CASE e.kind = "content_block_start" ->
            [c EXCEPT !.legal = @ /\ c.state = "open" /\ closed /\ i = Len(c.blocks) + 1,
                      !.blocks = Append(@, [name |-> e.name, body |-> <<>>, closed |-> FALSE])]
       [] e.kind = "content_block_delta" /\ inOpen ->
            [c EXCEPT !.blocks[i].body = @ \o e.body]
       [] e.kind = "content_block_stop" /\ inOpen -> [c EXCEPT !.blocks[i].closed = TRUE]
       [] OTHER -> [c EXCEPT !.legal = FALSE]

MessageEvent(c, e) ==
  CASE e.kind = "message_start" ->
         [c EXCEPT !.legal = @ /\ c.state = "new", !.state = "open"]
    [] e.kind = "message_delta" ->
         [c EXCEPT !.legal = @ /\ c.state = "open"
                                /\ \A b \in DOMAIN c.blocks : c.blocks[b].closed,
                   !.state = "closing", !.stop = e.name[1]]
    [] e.kind = "message_stop" ->
         [c EXCEPT !.legal = @ /\ c.state = "closing", !.state = "complete"]
    [] e.kind = "error" ->
         [c EXCEPT !.state = IF @ = "complete" THEN "complete" ELSE "broken"]
    [] OTHER -> Blocked(c, e)

ReadMessage(events) == FoldLeft(MessageEvent, NoMessage, events)

(* What the provider said, computed from its chunks. *)
Deltas(sent) ==
  FlattenSeq([k \in DOMAIN sent |-> IF sent[k].kind = "delta" THEN <<sent[k]>> ELSE <<>>])

TextOf(sent) == FlattenSeq([k \in DOMAIN sent |-> sent[k].text])

FragmentsOf(sent) == FlattenSeq([k \in DOMAIN sent |-> sent[k].calls])

Mine(fragment, index, part) == IF fragment.index = index THEN part ELSE <<>>

CallOf(sent, index) ==
  LET all == FragmentsOf(sent)
  IN [name |-> FlattenSeq([k \in DOMAIN all |-> Mine(all[k], index, all[k].name)]),
      args |-> FlattenSeq([k \in DOMAIN all |-> Mine(all[k], index, all[k].args)])]

CallIndices(sent) == {f.index : f \in ToSet(FragmentsOf(sent))}

BlocksOf(sent) ==
  LET order == InOrder(CallIndices(sent))
  IN (IF TextOf(sent) = <<>> THEN <<>>
      ELSE <<[name |-> <<"text">>, body |-> TextOf(sent), closed |-> TRUE]>>)
     \o [k \in DOMAIN order |->
           [name |-> Named(CallOf(sent, order[k])), body |-> CallOf(sent, order[k]).args,
            closed |-> TRUE]]

=============================================================================

--------------------------- MODULE RequestTranslation --------------------------
(***************************************************************************)
(* What the two protocol adapters make of a request: the conversation of   *)
(* an Anthropic body (anthropicToOpenAI) or of a Responses body            *)
(* (responsesToOpenAI) as the messages of a chat completion.  A piece of   *)
(* content is its kind and an identity; what the pieces say, the tools'    *)
(* schemas and the sampling parameters are copied field by field and left  *)
(* out.                                                                    *)
(***************************************************************************)
EXTENDS Integers, Sequences, SequencesExt

CONSTANT Contents   \* identities of pieces of content

(* A body of /v1/messages has turns of blocks, one of /v1/responses has items. *)
Turns ==
  [role : {"user", "assistant", "other"},
   blocks : Seq([kind : {"text", "image", "tool_use", "tool_result", "other"},
                 id : Contents])]

Items ==
  [kind : {"system", "user", "assistant", "call", "output", "reasoning", "item_reference",
           "unknown"},
   id : Contents]

Message(role, content, calls) == [role |-> role, content |-> content, calls |-> calls]

Ids(blocks) == [k \in DOMAIN blocks |-> blocks[k].id]

OfKind(blocks, kinds) ==
  FlattenSeq([k \in DOMAIN blocks |-> IF blocks[k].kind \in kinds THEN <<blocks[k]>> ELSE <<>>])

SystemMessage(body) ==
  IF body.system THEN <<Message("system", <<"system">>, <<>>)>> ELSE <<>>
-----------------------------------------------------------------------------
(* Anthropic: a body is a sequence of messages of blocks. *)

(* flushUserBlocks: the blocks collected so far become one user message, in
   which only texts and images are kept. *)
Flushed(acc) ==
  IF acc.pending = <<>> THEN acc.out
  ELSE Append(acc.out,
              Message("user", Ids(OfKind(acc.pending, {"text", "image"})), <<>>))

ToolResult(block) == Message("tool", <<block.id>>, <<>>)

(* Mutant: a tool result does not close the user message before it. *)
UserBlockUnflushed(acc, block) ==
  IF block.kind = "tool_result"
  THEN [acc EXCEPT !.out = Append(@, ToolResult(block))]
  ELSE [acc EXCEPT !.pending = Append(@, block)]

UserBlock(acc, block) ==
  IF block.kind = "tool_result"
  THEN [out |-> Append(Flushed(acc), ToolResult(block)), pending |-> <<>>]
  ELSE [acc EXCEPT !.pending = Append(@, block)]

ConvertUserMessage(blocks) ==
  LET out == Flushed(FoldLeft(UserBlock, [out |-> <<>>, pending |-> <<>>], blocks))
  IN IF out = <<>> THEN <<Message("user", <<>>, <<>>)>> ELSE out

ConvertAssistantMessage(blocks) ==
  Message("assistant", Ids(OfKind(blocks, {"text"})), Ids(OfKind(blocks, {"tool_use"})))

ConvertMessage(message) ==
  CASE message.role = "user" -> ConvertUserMessage(message.blocks)
    [] message.role = "assistant" -> <<ConvertAssistantMessage(message.blocks)>>
    [] OTHER -> <<>>

AnthropicToOpenAI(body) ==
  SystemMessage(body)
  \o FlattenSeq([k \in DOMAIN body.messages |-> ConvertMessage(body.messages[k])])
-----------------------------------------------------------------------------
(* Responses: a body is a sequence of items; what a developer says is the
   system's. *)

(* appendAssistantToolCall: calls in a row share one assistant message. *)
WithToolCall(messages, id) ==
  IF messages # <<>> /\ Last(messages).role = "assistant" /\ Last(messages).content = <<>>
  THEN Append(Front(messages), [Last(messages) EXCEPT !.calls = Append(@, id)])
  ELSE Append(messages, Message("assistant", <<>>, <<id>>))

Item(messages, item) ==
  CASE item.kind = "call" -> WithToolCall(messages, item.id)
    [] item.kind = "output" -> Append(messages, Message("tool", <<item.id>>, <<>>))
    [] item.kind \in {"system", "user", "assistant"} ->
         Append(messages, Message(item.kind, <<item.id>>, <<>>))
    [] item.kind \in {"reasoning", "item_reference", "unknown"} -> messages

(* A request without any message is refused. *)
ResponsesToOpenAI(body) == SystemMessage(body) \o FoldLeft(Item, <<>>, body.messages)
-----------------------------------------------------------------------------
(* What a translation keeps. *)

(* Everything said, in order. *)
Said(messages) ==
  FlattenSeq([k \in DOMAIN messages |-> messages[k].content \o messages[k].calls])

AnthropicSays(body) ==
  LET of(message) ==
        CASE message.role = "user" ->
               Ids(OfKind(message.blocks, {"text", "image", "tool_result"}))
          [] message.role = "assistant" ->
               Ids(OfKind(message.blocks, {"text"})) \o Ids(OfKind(message.blocks, {"tool_use"}))
          [] OTHER -> <<>>
  IN FlattenSeq([k \in DOMAIN body.messages |-> of(body.messages[k])])

ResponsesSays(body) ==
  Ids(OfKind(body.messages, {"call", "output", "system", "user", "assistant"}))

(* The calls of the assistant that no other item separates. *)
SameTurn(body, i, j) ==
  /\ i < j /\ body.messages[i].kind = "call" /\ body.messages[j].kind = "call"
  /\ \A k \in i..j : body.messages[k].kind \in {"call", "reasoning", "item_reference",
                                               "unknown"}

=============================================================================

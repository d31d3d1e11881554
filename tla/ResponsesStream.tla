---------------------------- MODULE ResponsesStream ----------------------------
(***************************************************************************)
(* streamOpenAIAsResponses: the same chunks become the events of the       *)
(* Responses API.  Every piece of text and every tool call is an output    *)
(* item with an output index of its own, taken when it first appears; an   *)
(* item is added, grows by deltas, and is done; the last event carries the *)
(* completed items.                                                        *)
(***************************************************************************)
EXTENDS AnthropicStream

CONSTANT CustomTools   \* names the request declares as custom tools

NoItems ==
  [i \in {} |-> [at |-> 0, name |-> <<>>, args |-> <<>>, emitted |-> FALSE]]

(* responseToolDescriptor, responseToolItem: a custom tool's item has an
   identifier of another kind. *)
ItemId(name) == IF name \in CustomTools THEN <<"ctc">> ELSE <<"fc">>

BeginResponse ==
  [next |-> 0, textAt |-> Unset, text |-> <<>>, calls |-> NoItems, finish |-> "none",
   events |-> <<Plainly("created"), Plainly("in_progress")>>]

EnsureTextItem(t) ==
  IF t.textAt # Unset THEN t
  ELSE Emit([t EXCEPT !.textAt = t.next, !.next = @ + 1],
            <<Event("item_added", t.next, <<"msg">>, <<>>),
              Event("part_added", t.next, <<"msg">>, <<>>)>>)

TextItem(t, text) ==
  IF text = <<>> THEN t
  ELSE LET ensured == EnsureTextItem(t)
       IN Emit([ensured EXCEPT !.text = @ \o text],
               <<Event("text_delta", ensured.textAt, <<"msg">>, text)>>)

(* Mutant: an item is announced again by each fragment that names it. *)
EnsureToolItemAgain(t, i) ==
  IF t.calls[i].name = <<>> THEN t
  ELSE Emit([t EXCEPT !.calls[i].emitted = TRUE],
            <<Event("item_added", t.calls[i].at, ItemId(t.calls[i].name), <<>>)>>)

(* An item is announced once it has a name. *)
EnsureToolItem(t, i) ==
  IF t.calls[i].emitted \/ t.calls[i].name = <<>> THEN t
  ELSE Emit([t EXCEPT !.calls[i].emitted = TRUE],
            <<Event("item_added", t.calls[i].at, ItemId(t.calls[i].name), <<>>)>>)

(* The first fragment of a call takes the next output index. *)
Indexed(t, i) ==
  IF i \in DOMAIN t.calls THEN t
  ELSE [t EXCEPT !.next = @ + 1,
                 !.calls = With(@, i, [at |-> t.next, name |-> <<>>, args |-> <<>>,
                                       emitted |-> FALSE])]


ToolFragment(t, fragment) ==
  LET i == fragment.index
      known == Indexed(t, i)
      ensured == EnsureToolItem(
                   [known EXCEPT !.calls[i].name = @ \o fragment.name], i)
      call == ensured.calls[i]
  IN IF fragment.args = <<>> THEN ensured
     ELSE Emit([ensured EXCEPT !.calls[i].args = @ \o fragment.args],
               IF call.name \in CustomTools THEN <<>>
               ELSE <<Event("args_delta", call.at, <<"fc">>, fragment.args)>>)

ResponseChunk(t, chunk) ==
  IF chunk.kind # "delta" THEN t
  ELSE FoldLeft(ToolFragment, TextItem(Finished(t, chunk.finish), chunk.text),
                chunk.calls)

Output(at, id, name, body) == [at |-> at, id |-> id, name |-> name, body |-> body]

TextDone(t) ==
  IF t.textAt = Unset THEN <<>>
  ELSE <<Event("text_done", t.textAt, <<"msg">>, t.text),
         Event("part_done", t.textAt, <<"msg">>, t.text),
         Event("item_done", t.textAt, <<"msg">>, t.text)>>

(* A call that was never named is not announced even now. *)
ToolDone(call) ==
  LET id == ItemId(call.name)
  IN (IF call.emitted \/ call.name = <<>> THEN <<>>
      ELSE <<Event("item_added", call.at, id, <<>>)>>)
     \o <<Event("args_done", call.at, id, call.args),
          Event("item_done", call.at, id, call.args)>>

ToolsDone(t) ==
  LET order == InOrder(DOMAIN t.calls)
  IN FlattenSeq([k \in DOMAIN order |-> ToolDone(t.calls[order[k]])])

(* The completed items by their output index. *)
CompletedOutput(t) ==
  LET text == IF t.textAt = Unset THEN {}
              ELSE {Output(t.textAt, <<"msg">>, <<"text">>, t.text)}
      tools == {Output(t.calls[i].at, ItemId(t.calls[i].name), Named(t.calls[i]),
                       t.calls[i].args) : i \in DOMAIN t.calls}
  IN SortedBy(text \cup tools, LAMBDA o : o.at)

(* The identifier of the response in its last event: the one it was created under
   (left out of the events), or the one the provider gave the completion. *)
CreatedId == <<>>

AnotherId == <<"resp">>

Completed(t, id) == <<Event("completed", Unset, id, CompletedOutput(t))>>

EndResponse(t) == Emit(t, TextDone(t) \o ToolsDone(t) \o Completed(t, CreatedId))

(* A whole completion: its items one after the other, each from its addition to
   its end.  Each is announced with all it holds, which its deltas say again, and
   the response is not completed under the identifier it was created under. *)
SpokenWhole(text) ==
  IF text = <<>> THEN BeginResponse
  ELSE Emit([BeginResponse EXCEPT !.next = 1, !.textAt = 0, !.text = text],
            <<Event("item_added", 0, <<"msg">>, text),
              Event("part_added", 0, <<"msg">>, <<>>),
              Event("text_delta", 0, <<"msg">>, text)>>)

WholeResponse(chunk) ==
  LET texts == SpokenWhole(chunk.text)
      t == [texts EXCEPT !.calls =
              [i \in {f.index : f \in ToSet(chunk.calls)} |->
                 LET k == CHOOSE k \in DOMAIN chunk.calls : chunk.calls[k].index = i
                 IN [at |-> texts.next + k - 1, name |-> chunk.calls[k].name,
                     args |-> chunk.calls[k].args, emitted |-> FALSE]]]
      tool(call) ==
        LET at == t.calls[call.index].at
            id == ItemId(call.name)
        IN <<Event("item_added", at, id, call.args), Event("args_delta", at, id, call.args),
             Event("args_done", at, id, call.args), Event("item_done", at, id, call.args)>>
  IN Emit(t, TextDone(t) \o FlattenSeq([k \in DOMAIN chunk.calls |-> tool(chunk.calls[k])])
             \o Completed(t, AnotherId))
-----------------------------------------------------------------------------
(* The client: it follows each item by its output index, and puts it together from
   its deltas alone, whatever the item was announced with. *)

NoResponse == [legal |-> TRUE, state |-> "new", items |-> <<>>]

ItemEvent(c, e) ==
  LET at == e.index + 1
      known == at \in DOMAIN c.items
      live == known /\ ~c.items[at].done /\ c.items[at].id = e.name
      whole == c.items[at].body \in {<<>>, e.body}
  IN CASE e.kind = "item_added" ->
            [c EXCEPT !.legal = @ /\ c.state = "open" /\ at = Len(c.items) + 1,
                      !.items = Append(@, [id |-> e.name, body |-> <<>>, done |-> FALSE])]
       [] e.kind = "part_added" -> [c EXCEPT !.legal = @ /\ live]
       [] e.kind \in {"text_delta", "args_delta"} /\ live ->
            [c EXCEPT !.items[at].body = @ \o e.body]
       [] e.kind \in {"text_done", "part_done", "args_done"} /\ live ->
            [c EXCEPT !.legal = @ /\ whole]
       [] e.kind = "item_done" /\ live ->
            [c EXCEPT !.legal = @ /\ whole, !.items[at].done = TRUE,
                      !.items[at].body = e.body]
       [] OTHER -> [c EXCEPT !.legal = FALSE]

ResponseEvent(c, e) ==
  CASE e.kind = "created" ->
         [c EXCEPT !.legal = @ /\ c.state = "new", !.state = "open"]
    [] e.kind = "in_progress" -> [c EXCEPT !.legal = @ /\ c.state = "open"]
    [] e.kind = "completed" ->
         [c EXCEPT !.legal = /\ @ /\ c.state = "open"
                             /\ \A i \in DOMAIN c.items : c.items[i].done
                             /\ Len(e.body) = Len(c.items)
                             /\ \A i \in DOMAIN c.items :
                                  /\ e.body[i].at = i - 1
                                  /\ e.body[i].id = c.items[i].id
                                  /\ e.body[i].body = c.items[i].body,
                   !.state = "complete"]
    [] e.kind = "error" ->
         [c EXCEPT !.state = IF @ = "complete" THEN "complete" ELSE "broken"]
    [] OTHER -> ItemEvent(c, e)

ReadResponse(events) == FoldLeft(ResponseEvent, NoResponse, events)

(* Another client starts an item from what it was announced with. *)
Heard(events, at) ==
  FoldLeft(LAMBDA held, e :
             IF e.index = at /\ e.kind \in {"item_added", "text_delta", "args_delta"}
             THEN held \o e.body ELSE held,
           <<>>, events)

(* The providers' own protocol: a call is named, in full, by its first
   fragment.  The translator takes more than that, and announces what it takes
   too late: see ToolFragment. *)
NamedFirst(sent) ==
  LET fragments == FragmentsOf(sent)
  IN \A k \in DOMAIN fragments :
       (fragments[k].name # <<>>) <=>
         (\A j \in 1..(k - 1) : fragments[j].index # fragments[k].index)

(* What a chunk speaks of: the text, or the call with an index. *)
Speech == <<>>

CallAt(index) == <<index>>

Noticed(seen, mention) == IF mention \in ToSet(seen) THEN seen ELSE Append(seen, mention)

CallNoticed(seen, fragment) == Noticed(seen, CallAt(fragment.index))

ChunkNoticed(seen, chunk) ==
  FoldLeft(CallNoticed, IF chunk.text = <<>> THEN seen ELSE Noticed(seen, Speech),
           chunk.calls)

(* The items of a stream in the order in which they first appear. *)
Appearances(sent) == FoldLeft(ChunkNoticed, <<>>, sent)

ItemsOf(sent) ==
  LET seen == Appearances(sent)
      item(k) ==
        IF seen[k] = Speech
        THEN Output(k - 1, <<"msg">>, <<"text">>, TextOf(sent))
        ELSE LET call == CallOf(sent, seen[k][1])
             IN Output(k - 1, ItemId(call.name), Named(call), call.args)
  IN [k \in DOMAIN seen |-> item(k)]

=============================================================================

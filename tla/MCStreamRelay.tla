----------------------------- MODULE MCStreamRelay -----------------------------
(* Small instances of StreamRelay: conversations of a few blocks with a plain
   answer, and one conversation with every short answer. *)
EXTENDS StreamRelay

Letters == {"x", "y", "z", "a", "b", "c", "d", "e", "f", "g"}

Delta(text, calls, finish) ==
  [kind |-> "delta", text |-> text, calls |-> calls, finish |-> finish]

Odd(kind) == [kind |-> kind, text |-> <<>>, calls |-> <<>>, finish |-> "none"]

Fragment(index, name, args) == <<[index |-> index, name |-> name, args |-> args]>>

Words == {Delta(<<"x">>, <<>>, "none"), Delta(<<"y">>, <<>>, "length")}

Calls ==
  {Delta(<<>>, Fragment(1, <<"f">>, <<>>), "none"),
   Delta(<<>>, Fragment(1, <<>>, <<"a">>), "none"),
   Delta(<<>>, Fragment(1, <<>>, <<"b">>), "tool_calls"),
   Delta(<<>>, Fragment(0, <<"g">>, <<"c">>), "none"),
   Delta(<<"z">>, Fragment(0, <<>>, <<"d">>), "none"),
   Delta(<<>>, Fragment(2, <<"f">>, <<>>) \o Fragment(3, <<"f">>, <<"e">>), "none")}

Answers == Words \cup Calls \cup {Odd("malformed")}

Block1(kind, id) == [kind |-> kind, id |-> id]

UserTurns ==
  {<<>>, <<Block1("text", 1)>>,
   <<Block1("text", 1), Block1("tool_result", 2), Block1("image", 3)>>,
   <<Block1("tool_result", 1), Block1("tool_result", 2), Block1("other", 3)>>}

AssistantTurns ==
  {<<Block1("tool_use", 4), Block1("text", 5), Block1("tool_use", 6)>>,
   <<Block1("text", 4)>>}

Conversations ==
  {[system |-> s,
    messages |-> <<[role |-> "user", blocks |-> u],
                   [role |-> "assistant", blocks |-> a],
                   [role |-> r, blocks |-> <<Block1("tool_result", 7),
                                             Block1("text", 8)>>]>>] :
     s \in BOOLEAN, u \in UserTurns, a \in AssistantTurns, r \in {"user", "other"}}

ItemKinds == {"system", "user", "assistant", "call", "output", "reasoning"}

Inputs ==
  {[system |-> s, messages |-> [k \in 1..n |-> Block1(kinds[k], k)]] :
     s \in BOOLEAN, n \in 0..3, kinds \in [1..3 -> ItemKinds]}

Anything == [system |-> FALSE, messages |-> <<Block1("user", 1)>>]

Said1 == [system |-> TRUE,
          messages |-> <<[role |-> "user", blocks |-> <<Block1("text", 1)>>]>>]

Requests1(protocols, streams, locals, bodies, chunks) ==
  [protocol : protocols, streaming : streams, local : locals, body : bodies,
   chunks : {chunks}]

SomeRequests ==
  Requests1({"messages"}, {FALSE}, {FALSE}, Conversations, Words)
  \cup Requests1({"responses"}, {FALSE}, {FALSE}, Inputs, Words)
  \cup Requests1({"messages"}, {TRUE}, {FALSE}, {Said1}, Answers)
  \cup Requests1({"responses"}, {TRUE}, {FALSE}, {Anything}, Answers)
  \cup Requests1({"messages"}, BOOLEAN, {TRUE}, {Said1}, Words \cup {Odd("node error")})
  \cup Requests1({"chat", "responses"}, BOOLEAN, {TRUE}, {Anything},
                 Words \cup {Odd("node error")})

Custom == {<<"g">>}

=============================================================================

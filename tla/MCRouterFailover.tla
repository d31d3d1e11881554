--------------------------- MODULE MCRouterFailover ----------------------------
(* Small instances of RouterFailover: three providers, the third one an owned
   machine.  The rankings are varied while every circuit is closed, and the
   circuits, cooldowns and input limits while the ranking is plain. *)
EXTENDS RouterFailover, TLC

Plain ==
  [support |-> "supported", used |-> 0, tier |-> 0, key |-> 0, circuit |-> "closed",
   count |-> 0, cooling |-> FALSE, oversized |-> FALSE, local |-> FALSE, override |-> 0]

Ranks == {[Plain EXCEPT !.support = s, !.used = u, !.tier = t, !.key = k] :
            s \in Supports, u \in {0, 8, 9}, t \in {0, 1}, k \in {0, 1}}

Weak == [Plain EXCEPT !.support = "unknown", !.tier = 1, !.key = 1]

Spent == [Plain EXCEPT !.used = 10]

(* Two providers, of every rank but for what distinguishes equals, before a
   third that ranks low. *)
Rankings ==
  {<<a, b, Weak>> : a \in Ranks, b \in {r \in Ranks : r.used # 9 /\ r.key = 0}}

Healths ==
  {Plain, [Plain EXCEPT !.count = 2], [Plain EXCEPT !.cooling = TRUE],
   [Plain EXCEPT !.override = 1], [Plain EXCEPT !.circuit = "open", !.count = 3],
   [Plain EXCEPT !.circuit = "expired", !.count = 3],
   [Plain EXCEPT !.circuit = "half-open", !.count = 2]}

Locals == {[Plain EXCEPT !.local = TRUE, !.oversized = o] : o \in BOOLEAN}

Troubled ==
  {<<a, b, l>> : a \in Healths, b \in {h \in Healths : h.count # 2 /\ h.override = 0},
                l \in Locals}

Cornered ==
  {<<Spent, Spent, [Spent EXCEPT !.local = TRUE]>>,
   <<Plain, Plain, [Plain EXCEPT !.local = TRUE]>>}

Policies ==
  {[strategy |-> "priority", cursor |-> 0, unknownMode |-> "strict"],
   [strategy |-> "round-robin", cursor |-> 1, unknownMode |-> "flexible"],
   [strategy |-> "measured", cursor |-> 0, unknownMode |-> "flexible"]}

SomeSettings ==
  {[maxAttempts |-> 2, retryCodes |-> {"rate limited", "server error"},
    retryNetwork |-> w, retryMalformed |-> ~w, timeout |-> 3, probeTimeout |-> 1,
    deadline |-> 4, backoff |-> IF w THEN 1 ELSE 2, maxBackoff |-> 2, multiplier |-> 2,
    jitter |-> TRUE] : w \in BOOLEAN}

OneCall ==
  [maxAttempts |-> 1, retryCodes |-> {}, retryNetwork |-> FALSE,
   retryMalformed |-> FALSE, timeout |-> 1, probeTimeout |-> 1, deadline |-> 1,
   backoff |-> 0, maxBackoff |-> 0, multiplier |-> 1, jitter |-> FALSE]

Priority == [strategy |-> "priority", cursor |-> 0, unknownMode |-> "strict"]

SomeRequests ==
  [roster : Rankings, policy : Policies, settings : {OneCall},
   eligible : {{1, 2, 3}}, localOnly : {FALSE}]
  \cup [roster : Troubled, policy : {Priority}, settings : SomeSettings,
        eligible : {{1, 2, 3}}, localOnly : {FALSE}]
  \cup [roster : Cornered, policy : {Priority}, settings : SomeSettings,
        eligible : {{1, 2, 3}, {1, 2}}, localOnly : BOOLEAN]

=============================================================================

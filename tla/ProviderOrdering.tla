--------------------------- MODULE ProviderOrdering ----------------------------
(***************************************************************************)
(* The pure part of routing: which providers a request may be sent to and  *)
(* in which order.  A provider of the router is a number: the smaller one  *)
(* comes first in the configured order, the priority and the list          *)
(* (comparePriority), which together order the providers totally.  What    *)
(* the order depends on is a record:                                       *)
(*   support  what its active model is known to do of what is asked        *)
(*   used     requests of its quota that are spent, out of Quota           *)
(*   tier     routingTier: owned machines before or after the clouds       *)
(*   key      its place under the policy's measure (uses, latency, success *)
(*            score or the weighted score), the better the smaller         *)
(***************************************************************************)
EXTENDS Integers, Sequences, SequencesExt, FiniteSets

CONSTANTS
  Providers,  \* providers of one account, numbered by priority
  Quota,      \* requests a provider's quota allows in its window
  Threshold   \* warningThresholdPercent

ASSUME ProvidersAssumption == Providers \subseteq Nat /\ IsFiniteSet(Providers)

ASSUME QuotaAssumption == Quota \in Nat \ {0} /\ Threshold \in 1..99

Supports == {"supported", "unknown", "unsupported"}

(* What a model supports of a request, under the account's setting for the
   capabilities nobody has observed. *)
MatchLevel(support, unknownMode) ==
  CASE support = "unsupported" -> "incompatible"
    [] support = "unknown" /\ unknownMode = "strict" -> "incompatible"
    [] support = "unknown" /\ unknownMode # "strict" -> "partial"
    [] support = "supported" -> "full"

Exhausted(used) == used >= Quota

Warning(used) == ~Exhausted(used) /\ 100 * used >= Threshold * Quota

(* Mutant: the cursor is advanced before it is used. *)
RotateAdvanced(pool, cursor) ==
  LET start == (cursor + 1) % Len(pool)
  IN IF Len(pool) <= 1 THEN pool
     ELSE SubSeq(pool, start + 1, Len(pool)) \o SubSeq(pool, 1, start)

(* Rotates a pool so that it starts at the cursor, which counts requests. *)
Rotate(pool, cursor) ==
  LET start == cursor % Len(pool)
  IN IF Len(pool) <= 1 THEN pool
     ELSE SubSeq(pool, start + 1, Len(pool)) \o SubSeq(pool, 1, start)

(* The members of a set in a strict order. *)
Sorted(S, before(_, _)) ==
  CHOOSE seq \in [1..Cardinality(S) -> S] : IsSorted(seq, before)

(* What is kept of a sequence, in its order. *)
Kept(seq, S) ==
  LET kept[n \in 0..Len(seq)] ==
        IF n = 0 THEN <<>>
        ELSE IF seq[n] \in S THEN Append(kept[n - 1], seq[n]) ELSE kept[n - 1]
  IN kept[Len(seq)]

ByPriority(pool) == Sorted(pool, LAMBDA a, b : a < b)

(* A pool under the policy's strategy; the strategies that measure differ in
   the measure only, and fall back on the priority between equals. *)
OrderPool(pool, roster, policy) ==
  CASE policy.strategy = "priority" -> ByPriority(pool)
    [] policy.strategy = "round-robin" -> Rotate(ByPriority(pool), policy.cursor)
    [] policy.strategy = "measured" ->
         Sorted(pool, LAMBDA a, b :
           \/ roster[a].key < roster[b].key
           \/ roster[a].key = roster[b].key /\ a < b)

(* The tiers of a pool, the lower ones first. *)
OrderByTier(pool, roster, policy) ==
  LET tiers == Sorted({roster[p].tier : p \in pool}, LAMBDA a, b : a < b)
  IN FlattenSeq([t \in DOMAIN tiers |->
       OrderPool({p \in pool : roster[p].tier = tiers[t]}, roster, policy)])

(* The providers close to their quota, the one with most left first; the sort
   keeps the policy's order between equals. *)
OrderWarning(pool, roster, policy) ==
  LET ordered == OrderPool(pool, roster, policy)
      before(i, j) == \/ roster[ordered[i]].used < roster[ordered[j]].used
                      \/ roster[ordered[i]].used = roster[ordered[j]].used /\ i < j
      places == Sorted(DOMAIN ordered, before)
  IN [i \in DOMAIN ordered |-> ordered[places[i]]]

OrderQuotaAware(pool, roster, policy) ==
     OrderByTier({p \in pool : ~Warning(roster[p].used)}, roster, policy)
  \o OrderWarning({p \in pool : Warning(roster[p].used)}, roster, policy)

OrderByMatch(pool, roster, policy) ==
  LET matching(level) ==
        {p \in pool : MatchLevel(roster[p].support, policy.unknownMode) = level}
  IN OrderQuotaAware(matching("full"), roster, policy)
     \o OrderQuotaAware(matching("partial"), roster, policy)
-----------------------------------------------------------------------------
(* What the order promises of two providers, without the steps that compute it. *)

(* The cursor has passed a provider of a group: its turn is over. *)
Passed(p, group, cursor) ==
  Cardinality({q \in group : q < p}) < cursor % Cardinality(group)

(* Which of two providers of a group the strategy takes first. *)
TakenFirst(a, b, group, roster, policy) ==
  CASE policy.strategy = "priority" -> a < b
    [] policy.strategy = "round-robin" ->
         IF Passed(a, group, policy.cursor) <=> Passed(b, group, policy.cursor)
         THEN a < b ELSE Passed(b, group, policy.cursor)
    [] policy.strategy = "measured" ->
         \/ roster[a].key < roster[b].key
         \/ roster[a].key = roster[b].key /\ a < b

(* The providers of a pool the strategy orders together with a: equally capable
   ones that are close to their quota too or, like it, are not and are of its tier. *)
Peers(a, pool, roster) ==
  {p \in pool :
     /\ roster[p].support = "supported" <=> roster[a].support = "supported"
     /\ Warning(roster[p].used) <=> Warning(roster[a].used)
     /\ Warning(roster[a].used) \/ roster[p].tier = roster[a].tier}

(* A full match goes before a partial one; then quota to spare before little of
   it; then the lower tier, or the more of a quota left; then the strategy. *)
GoesBefore(a, b, pool, roster, policy) ==
  LET full(p) == roster[p].support = "supported"
      warned(p) == Warning(roster[p].used)
      measure(p) == IF warned(p) THEN roster[p].used ELSE roster[p].tier
  IN \/ full(a) /\ ~full(b)
     \/ /\ full(a) <=> full(b)
        /\ \/ ~warned(a) /\ warned(b)
           \/ /\ warned(a) <=> warned(b)
              /\ \/ measure(a) < measure(b)
                 \/ /\ measure(a) = measure(b)
                    /\ TakenFirst(a, b, Peers(a, pool, roster), roster, policy)

(* Every one of the providers kept of a pool once, each where the order of the
   pool puts it. *)
WellRanked(seq, kept, pool, roster, policy) ==
  /\ ToSet(seq) = kept /\ Len(seq) = Cardinality(kept)
  /\ \A i, j \in DOMAIN seq :
       i < j => GoesBefore(seq[i], seq[j], pool, roster, policy)

=============================================================================

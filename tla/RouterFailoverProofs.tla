-------------------------- MODULE RouterFailoverProofs --------------------------
(***************************************************************************)
(* Theorems about RouterFailover, for any providers, any requests and       *)
(* settings, any number of store failures and any clock.                    *)
(*                                                                          *)
(* The ranking: each step that orders the candidates returns every member   *)
(* of its set once, ascending in a relation; the steps compose because the  *)
(* relation of each one is that of GoesBefore on the set it orders.         *)
(* The loop: LoopInv counts its calls and follows its successes.            *)
(* The request: FlowInv adds the timers, the reasons of the decisions, the  *)
(* client's departure and the records.                                      *)
(***************************************************************************)
EXTENDS RouterFailover, SequenceLemmas
-----------------------------------------------------------------------------
(* The ranking. *)

(* What the order of a request's providers depends on. *)
Comparable(roster, policy) ==
  /\ policy.strategy \in {"priority", "round-robin", "measured"}
  /\ policy.cursor \in Nat
  /\ \A p \in Providers : /\ roster[p].used \in Nat /\ roster[p].support \in Supports
                          /\ roster[p].tier \in Int /\ roster[p].key \in Int

PoolOrder(group, roster, policy) ==
  {e \in group \X group :
     e[1] # e[2] /\ TakenFirst(e[1], e[2], group, roster, policy)}

TierOrder(group, roster, policy) ==
  {e \in group \X group :
     /\ e[1] # e[2]
     /\ \/ roster[e[1]].tier < roster[e[2]].tier
        \/ /\ roster[e[1]].tier = roster[e[2]].tier
           /\ TakenFirst(e[1], e[2], {p \in group : roster[p].tier = roster[e[1]].tier},
                         roster, policy)}

WarningOrder(group, roster, policy) ==
  {e \in group \X group :
     /\ e[1] # e[2]
     /\ \/ roster[e[1]].used < roster[e[2]].used
        \/ /\ roster[e[1]].used = roster[e[2]].used
           /\ e \in PoolOrder(group, roster, policy)}

RankOrder(group, roster, policy) ==
  {e \in group \X group : e[1] # e[2] /\ GoesBefore(e[1], e[2], group, roster, policy)}

(* The members of a pool, each once, in the order of R. *)
Arranged(q, group, R) == q \in Seq(Providers) /\ ToSet(q) = group /\ Ascends(q, R)

LEMMA PoolFinite ==
  ASSUME NEW group \in SUBSET Providers
  PROVE  IsFiniteSet(group) /\ Cardinality(group) \in Nat /\ group \subseteq Nat
BY ProvidersAssumption, FS_Subset, FS_CardinalityType

(* A sort in an order that R contains is an arrangement by R. *)
LEMMA SortArranges ==
  ASSUME NEW group \in SUBSET Providers, NEW Q, Orders(Q, group),
         NEW q \in [1..Cardinality(group) -> group], Ascends(q, Q),
         NEW R, \A x, y \in group : x # y /\ <<x, y>> \in Q => <<x, y>> \in R
  PROVE  Arranged(q, group, R)
<1>1. /\ IsInjective(q) /\ ToSet(q) = group /\ q \in Seq(group)
  BY PoolFinite, SortIsBijection
<1>2. q \in Seq(Providers)
  BY <1>1
<1>3. Ascends(q, R)
  <2>1. SUFFICES ASSUME NEW i \in DOMAIN q, NEW j \in DOMAIN q, i < j
                 PROVE  <<q[i], q[j]>> \in R
    BY DEF Ascends
  <2>2. DOMAIN q = 1..Cardinality(group) /\ Cardinality(group) \in Nat
    BY PoolFinite
  <2>3. i # j /\ q[i] # q[j] /\ q[i] \in group /\ q[j] \in group
    BY <1>1, <2>1, <2>2 DEF IsInjective
  <2>4. QED
    BY <2>1, <2>3 DEF Ascends
<1>4. QED
  BY <1>1, <1>2, <1>3 DEF Arranged

LEMMA ByPrioritySorts ==
  ASSUME NEW group \in SUBSET Providers
  PROVE  /\ ByPriority(group) \in [1..Cardinality(group) -> group]
         /\ Ascends(ByPriority(group), {e \in Nat \X Nat : e[1] < e[2]})
<1> DEFINE R == {e \in Nat \X Nat : e[1] < e[2]}
           Fits(seq) == \A i, j \in 1..Len(seq) : i < j => seq[i] < seq[j]
<1>0. IsFiniteSet(group) /\ Cardinality(group) \in Nat /\ group \subseteq Nat
  BY PoolFinite
<1>1. Orders(R, group)
  BY <1>0 DEF Orders
<1>2. PICK seq \in [1..Cardinality(group) -> group] : Ascends(seq, R)
  BY <1>0, <1>1, SortExists
<1>3. ASSUME NEW s \in [1..Cardinality(group) -> group]
      PROVE  /\ Len(s) = Cardinality(group) /\ DOMAIN s = 1..Cardinality(group)
             /\ \A i \in 1..Cardinality(group) : s[i] \in Nat
  <2>1. /\ Len(s) = Cardinality(group) /\ DOMAIN s = 1..Cardinality(group)
        /\ \A i \in 1..Cardinality(group) : s[i] \in group
    BY <1>0, FunctionIsSequence, Zenon
  <2>2. QED
    BY <1>0, <2>1
<1>4. \A s \in [1..Cardinality(group) -> group] : Fits(s) <=> Ascends(s, R)
  BY <1>3 DEF Ascends
<1>5. \E s \in [1..Cardinality(group) -> group] : Fits(s)
  BY <1>2, <1>4
<1>6. ByPriority(group) = CHOOSE s \in [1..Cardinality(group) -> group] : Fits(s)
  BY DEF ByPriority, Sorted, IsSorted
<1> HIDE DEF Fits, R
<1>7. ByPriority(group) \in [1..Cardinality(group) -> group] /\ Fits(ByPriority(group))
  BY <1>5, <1>6
<1>8. QED
  BY <1>4, <1>7 DEF R

(* The place of a member in the priority order counts those before it. *)
LEMMA RankCounts ==
  ASSUME NEW group \in SUBSET Providers, NEW q, NEW R, R = {e \in Nat \X Nat : e[1] < e[2]},
         Arranged(q, group, R), NEW k \in 1..Len(q)
  PROVE  Cardinality({x \in group : x < q[k]}) = k - 1
<1>1. /\ q \in Seq(Providers) /\ Len(q) \in Nat /\ DOMAIN q = 1..Len(q)
      /\ \A i \in 1..Len(q) : q[i] \in Providers /\ q[i] \in Nat /\ q[i] \in group
      /\ ToSet(q) = group /\ Ascends(q, R)
  <2>1. q \in Seq(Providers) /\ ToSet(q) = group /\ Ascends(q, R)
    BY DEF Arranged
  <2>2. /\ Len(q) \in Nat /\ DOMAIN q = 1..Len(q)
        /\ \A i \in 1..Len(q) : q[i] \in Providers /\ q[i] \in Nat
    <3>1. q \in Seq(Providers) /\ Providers \subseteq Nat
      BY <2>1, ProvidersAssumption
    <3>2. Len(q) \in Nat /\ DOMAIN q = 1..Len(q)
      BY <3>1
    <3>3. \A i \in 1..Len(q) : q[i] \in Providers
      BY <3>1
    <3>4. QED
      BY <3>1, <3>2, <3>3, Zenon
  <2>3. \A i \in 1..Len(q) : q[i] \in group
    BY <2>1, <2>2 DEF ToSet
  <2>4. QED
    BY <2>1, <2>2, <2>3
<1>2. \A i, j \in 1..Len(q) : i < j => q[i] < q[j]
  BY <1>1 DEF Ascends
<1> DEFINE B == {x \in group : x < q[k]}
           f == [i \in 1..(k - 1) |-> q[i]]
<1>3. k \in Nat /\ k - 1 \in Nat /\ \A i \in 1..(k - 1) : i \in 1..Len(q) /\ i < k
  BY <1>1
<1>4. f \in [1..(k - 1) -> B]
  BY <1>1, <1>2, <1>3
<1>5. ASSUME NEW i \in 1..(k - 1), NEW j \in 1..(k - 1), f[i] = f[j] PROVE i = j
  <2>1. q[i] = q[j] /\ i \in 1..Len(q) /\ j \in 1..Len(q)
    BY <1>3, <1>5
  <2>2. q[i] \in Nat /\ q[j] \in Nat /\ ~(q[i] < q[j]) /\ ~(q[j] < q[i])
    BY <1>1, <2>1
  <2>3. ~(i < j) /\ ~(j < i)
    BY <1>2, <2>1, <2>2
  <2>4. QED
    BY <1>1, <2>1, <2>3
<1>6. ASSUME NEW x \in B PROVE \E i \in 1..(k - 1) : f[i] = x
  <2>1. PICK i \in 1..Len(q) : q[i] = x
    BY <1>1 DEF ToSet
  <2>2. q[i] < q[k] /\ q[i] \in Nat /\ q[k] \in Nat
    BY <1>1, <2>1
  <2>3. ~(k < i) /\ i # k
    BY <1>2, <2>2
  <2>4. i \in 1..(k - 1)
    BY <1>1, <1>3, <2>3
  <2>5. QED
    BY <2>1, <2>4
<1>7. f \in Bijection(1..(k - 1), B)
  <2> HIDE DEF f, B
  <2>1. IsInjective(f) /\ f \in Surjection(1..(k - 1), B)
    BY <1>4, <1>5, <1>6 DEF IsInjective, Surjection
  <2>2. f \in Injection(1..(k - 1), B)
    BY <1>4, <1>5 DEF Injection, IsInjective
  <2>3. QED
    BY <2>1, <2>2 DEF Bijection
<1>8. IsFiniteSet(1..(k - 1)) /\ Cardinality(1..(k - 1)) = k - 1
  BY <1>3, FS_Interval
<1> HIDE DEF f, B
<1>9. Cardinality(B) = k - 1
  <2>1. ExistsBijection(1..(k - 1), B)
    BY <1>7 DEF ExistsBijection
  <2>2. QED
    BY <1>8, <2>1, FS_Bijection
<1>10. QED
  BY <1>9 DEF B

(* Those the cursor has passed are the first ones, by the cursor modulo the size. *)
LEMMA PassedFirst ==
  ASSUME NEW group \in SUBSET Providers, NEW cursor \in Nat,
         NEW q, NEW R, R = {e \in Nat \X Nat : e[1] < e[2]}, Arranged(q, group, R)
  PROVE  /\ Len(q) = Cardinality(group)
         /\ Len(q) > 0 => /\ cursor % Len(q) \in 0..Len(q) - 1
                          /\ \A k \in 1..Len(q) :
                               Passed(q[k], group, cursor) <=> k <= cursor % Len(q)
<1>1. q \in Seq(Providers) /\ ToSet(q) = group /\ Ascends(q, R) /\ Len(q) \in Nat
  BY DEF Arranged
<1>2. \A x \in Providers : <<x, x>> \notin R
  BY ProvidersAssumption
<1>3. Len(q) = Cardinality(group)
  <2>1. PICK B : B = R
    OBVIOUS
  <2>2. Ascends(q, B) /\ \A x \in Providers : <<x, x>> \notin B
    BY <1>1, <1>2, <2>1
  <2>3. QED
    BY <1>1, <2>2, AscendsInjective
<1>4. ASSUME Len(q) > 0 PROVE cursor % Len(q) \in 0..Len(q) - 1
  BY <1>1, <1>4
<1>5. ASSUME Len(q) > 0, NEW k \in 1..Len(q)
      PROVE  Passed(q[k], group, cursor) <=> k <= cursor % Len(q)
  <2>1. Cardinality({x \in group : x < q[k]}) = k - 1
    BY RankCounts
  <2>2. Passed(q[k], group, cursor) <=> k - 1 < cursor % Len(q)
    BY <1>3, <2>1 DEF Passed
  <2>3. cursor % Len(q) \in Nat /\ k \in Nat
    BY <1>1, <1>4, <1>5
  <2>4. QED
    BY <2>2, <2>3
<1>6. QED
  BY <1>3, <1>4, <1>5

(* A rotation of the priority order starts with those whose turn is to come. *)
LEMMA RotateArranges ==
  ASSUME NEW group \in SUBSET Providers, NEW q, NEW roster, NEW policy,
         policy.cursor \in Nat, policy.strategy = "round-robin",
         Arranged(q, group, {e \in Nat \X Nat : e[1] < e[2]})
  PROVE  Arranged(Rotate(q, policy.cursor), group, PoolOrder(group, roster, policy))
<1> DEFINE R == PoolOrder(group, roster, policy)
           over(p) == Passed(p, group, policy.cursor)
<1>1. /\ q \in Seq(Providers) /\ Len(q) \in Nat /\ DOMAIN q = 1..Len(q)
      /\ \A k \in 1..Len(q) : q[k] \in Providers /\ q[k] \in Nat /\ q[k] \in group
      /\ ToSet(q) = group
      /\ \A i, j \in 1..Len(q) : i < j => q[i] < q[j]
  <2>1. /\ q \in Seq(Providers) /\ ToSet(q) = group
        /\ Ascends(q, {e \in Nat \X Nat : e[1] < e[2]})
    BY DEF Arranged
  <2>2. /\ Len(q) \in Nat /\ DOMAIN q = 1..Len(q)
        /\ \A i \in 1..Len(q) : q[i] \in Providers /\ q[i] \in Nat
    <3>1. q \in Seq(Providers) /\ Providers \subseteq Nat
      BY <2>1, ProvidersAssumption
    <3>2. Len(q) \in Nat /\ DOMAIN q = 1..Len(q)
      BY <3>1
    <3>3. \A i \in 1..Len(q) : q[i] \in Providers
      BY <3>1
    <3>4. QED
      BY <3>1, <3>2, <3>3, Zenon
  <2>3. \A i \in 1..Len(q) : q[i] \in group
    BY <2>1, <2>2 DEF ToSet
  <2>4. \A i, j \in 1..Len(q) : i < j => q[i] < q[j]
    BY <2>1, <2>2 DEF Ascends
  <2>5. QED
    BY <2>1, <2>2, <2>3, <2>4
<1>2. \A x, y \in group : /\ (over(x) <=> over(y)) /\ x < y => <<x, y>> \in R
                          /\ ~over(x) /\ over(y) => <<x, y>> \in R
  <2>1. ASSUME NEW x \in group, NEW y \in group, over(x) <=> over(y), x < y
        PROVE  <<x, y>> \in R
    <3>1. x \in Nat /\ y \in Nat /\ x # y
      BY <2>1, ProvidersAssumption
    <3>2. TakenFirst(x, y, group, roster, policy)
      BY <2>1 DEF TakenFirst
    <3>3. QED
      BY <3>1, <3>2 DEF PoolOrder
  <2>2. ASSUME NEW x \in group, NEW y \in group, ~over(x), over(y)
        PROVE  <<x, y>> \in R
    <3>1. x # y
      BY <2>2
    <3>2. TakenFirst(x, y, group, roster, policy)
      BY <2>2 DEF TakenFirst
    <3>3. QED
      BY <3>1, <3>2 DEF PoolOrder
  <2>3. QED
    BY <2>1, <2>2
<1>3. CASE Len(q) <= 1
  <2>1. Rotate(q, policy.cursor) = q
    BY <1>3 DEF Rotate
  <2>2. Ascends(q, R)
    BY <1>1, <1>3 DEF Ascends
  <2>3. QED
    BY <1>1, <2>1, <2>2 DEF Arranged
<1>4. CASE Len(q) > 1
  <2> DEFINE start == policy.cursor % Len(q)
             s == SubSeq(q, start + 1, Len(q))
             t == SubSeq(q, 1, start)
  <2>1. start \in 0..Len(q) - 1 /\ \A k \in 1..Len(q) : over(q[k]) <=> k <= start
    <3>1. Len(q) > 0
      BY <1>1, <1>4
    <3>2. QED
      BY <3>1, PassedFirst
  <2>2. Rotate(q, policy.cursor) = s \o t
    <3>1. ~(Len(q) <= 1)
      BY <1>1, <1>4
    <3>2. QED
      BY <3>1, Zenon DEF Rotate
  <2> HIDE DEF start, over
  <2>3. /\ s \in Seq(Providers) /\ Len(s) = Len(q) - start /\ DOMAIN s = 1..Len(q) - start
        /\ \A k \in 1..Len(q) - start : s[k] = q[start + k] /\ start + k \in 1..Len(q)
    BY <1>1, <2>1
  <2>4. /\ t \in Seq(Providers) /\ Len(t) = start /\ DOMAIN t = 1..start
        /\ \A k \in 1..start : t[k] = q[k] /\ k \in 1..Len(q)
    BY <1>1, <2>1
  <2> HIDE DEF s, t, R
  <2>5. ToSet(s) \cup ToSet(t) = group
    <3>1. ToSet(s) \subseteq ToSet(q) /\ ToSet(t) \subseteq ToSet(q)
      BY <1>1, <2>3, <2>4 DEF ToSet
    <3>2. ASSUME NEW k \in 1..Len(q) PROVE q[k] \in ToSet(s) \cup ToSet(t)
      <4>1. CASE k <= start
        BY <2>1, <2>4, <4>1 DEF ToSet
      <4>2. CASE k > start
        <5>1. k - start \in 1..Len(q) - start /\ start + (k - start) = k
          BY <1>1, <2>1, <4>2
        <5>2. s[k - start] = q[k]
          BY <2>3, <5>1
        <5>3. QED
          BY <2>3, <5>1, <5>2 DEF ToSet
      <4>3. QED
        BY <1>1, <2>1, <4>1, <4>2
    <3>3. ToSet(q) \subseteq ToSet(s) \cup ToSet(t)
      BY <1>1, <3>2 DEF ToSet
    <3>4. QED
      BY <1>1, <3>1, <3>3
  <2>6. \A i \in 1..Len(q) - start : start + i \in 1..Len(q) /\ ~over(s[i]) /\ s[i] \in group
    <3>1. \A i \in 1..Len(q) - start : ~(start + i <= start)
      BY <1>1, <2>1
    <3>2. QED
      BY <1>1, <2>1, <2>3, <3>1
  <2>7. \A i \in 1..start : i \in 1..Len(q) /\ over(t[i]) /\ t[i] \in group
    <3>1. \A i \in 1..start : i <= start
      BY <2>1
    <3>2. QED
      BY <1>1, <2>1, <2>4, <3>1
  <2>8. Ascends(s, R)
    <3>1. \A i, j \in 1..Len(q) - start : i < j => start + i < start + j
      BY <1>1, <2>1
    <3>2. \A i, j \in DOMAIN s : i < j => s[i] < s[j]
      BY <1>1, <2>3, <3>1
    <3>3. \A i, j \in DOMAIN s : (over(s[i]) <=> over(s[j])) /\ s[i] \in group
      BY <2>3, <2>6
    <3>4. QED
      BY <1>2, <3>2, <3>3 DEF Ascends
  <2>9. Ascends(t, R)
    <3>1. \A i, j \in DOMAIN t : i < j => t[i] < t[j]
      BY <1>1, <2>4
    <3>2. \A i, j \in DOMAIN t : (over(t[i]) <=> over(t[j])) /\ t[i] \in group
      BY <2>4, <2>7
    <3>3. QED
      BY <1>2, <3>1, <3>2 DEF Ascends
  <2>10. \A x \in ToSet(s), y \in ToSet(t) : <<x, y>> \in R
    <3>1. \A i \in DOMAIN s, j \in DOMAIN t : <<s[i], t[j]>> \in R
      BY <1>2, <2>3, <2>4, <2>6, <2>7
    <3>2. QED
      BY <3>1 DEF ToSet
  <2>11. s \o t \in Seq(Providers) /\ ToSet(s \o t) = group /\ Ascends(s \o t, R)
    <3>1. s \o t \in Seq(Providers)
      BY <2>3, <2>4
    <3>2. ToSet(s \o t) = ToSet(s) \cup ToSet(t)
      BY <2>3, <2>4, MembersOfConcat
    <3>3. Ascends(s \o t, R)
      BY <2>3, <2>4, <2>8, <2>9, <2>10, ConcatAscends
    <3>4. QED
      BY <2>5, <3>1, <3>2, <3>3
  <2>12. QED
    BY <2>2, <2>11 DEF Arranged, R
<1>5. QED
  BY <1>1, <1>3, <1>4

(* The strategies that measure sort by the measure, then by priority. *)
LEMMA MeasuredArranges ==
  ASSUME NEW group \in SUBSET Providers, NEW roster, NEW policy,
         Comparable(roster, policy), policy.strategy = "measured"
  PROVE  Arranged(OrderPool(group, roster, policy), group, PoolOrder(group, roster, policy))
<1> DEFINE before(a, b) == \/ roster[a].key < roster[b].key
                           \/ roster[a].key = roster[b].key /\ a < b
           Q == {e \in group \X group : before(e[1], e[2])}
           Fits(seq) == \A i, j \in 1..Len(seq) : i < j => before(seq[i], seq[j])
<1>0. /\ IsFiniteSet(group) /\ Cardinality(group) \in Nat /\ group \subseteq Nat
      /\ \A p \in group : roster[p].key \in Int
  BY PoolFinite DEF Comparable
<1>1. Orders(Q, group)
  <2>0. ASSUME NEW x \in group, NEW y \in group, NEW z \in group
        PROVE  /\ before(x, y) /\ before(y, z) => before(x, z)
               /\ x # y => before(x, y) \/ before(y, x)
               /\ ~before(x, x)
    <3>1. /\ x \in Nat /\ y \in Nat /\ z \in Nat
          /\ roster[x].key \in Int /\ roster[y].key \in Int /\ roster[z].key \in Int
      BY <1>0
    <3>2. QED
      BY <3>1
  <2>1. \A x, y, z \in group : before(x, y) /\ before(y, z) => before(x, z)
    BY <2>0
  <2>2. \A x, y \in group : x # y => before(x, y) \/ before(y, x)
    BY <2>0
  <2>3. \A x \in group : ~before(x, x)
    BY <2>0
  <2> HIDE DEF before
  <2>4. QED
    BY <2>1, <2>2, <2>3 DEF Orders
<1>2. PICK seq \in [1..Cardinality(group) -> group] : Ascends(seq, Q)
  <2> HIDE DEF Q
  <2>1. QED
    BY <1>0, <1>1, SortExists
<1>3. \A s \in [1..Cardinality(group) -> group] :
        /\ Len(s) = Cardinality(group) /\ DOMAIN s = 1..Cardinality(group)
        /\ \A i \in 1..Cardinality(group) : s[i] \in group
  BY <1>0
<1>4. OrderPool(group, roster, policy)
        = CHOOSE s \in [1..Cardinality(group) -> group] : Fits(s)
  BY DEF OrderPool, Sorted, IsSorted
<1>5. \A s \in [1..Cardinality(group) -> group] : Fits(s) <=> Ascends(s, Q)
  <2> HIDE DEF before
  <2>1. QED
    BY <1>3 DEF Ascends
<1>6. \E s \in [1..Cardinality(group) -> group] : Fits(s)
  BY <1>2, <1>5
<1>7. \A x, y \in group : x # y /\ <<x, y>> \in Q => <<x, y>> \in PoolOrder(group, roster, policy)
  BY <1>0 DEF PoolOrder, TakenFirst
<1> DEFINE q == OrderPool(group, roster, policy)
<1>8. q \in [1..Cardinality(group) -> group] /\ Fits(q)
  <2> HIDE DEF Fits
  <2>1. QED
    BY <1>4, <1>6
<1>9. Ascends(q, Q)
  BY <1>5, <1>8
<1> HIDE DEF q, Q, Fits
<1>10. Arranged(q, group, PoolOrder(group, roster, policy))
  BY <1>1, <1>7, <1>8, <1>9, SortArranges
<1>11. QED
  BY <1>10 DEF q

LEMMA OrderPoolArranges ==
  ASSUME NEW group \in SUBSET Providers, NEW roster, NEW policy, Comparable(roster, policy)
  PROVE  Arranged(OrderPool(group, roster, policy), group, PoolOrder(group, roster, policy))
<1> DEFINE Q == {e \in Nat \X Nat : e[1] < e[2]}
           R == PoolOrder(group, roster, policy)
<1>1. /\ group \subseteq Nat /\ Orders(Q, group)
      /\ ByPriority(group) \in [1..Cardinality(group) -> group] /\ Ascends(ByPriority(group), Q)
  BY PoolFinite, ByPrioritySorts DEF Orders
<1>2. CASE policy.strategy = "priority"
  <2>1. \A x, y \in group : x # y /\ <<x, y>> \in Q => <<x, y>> \in R
    BY <1>1, <1>2 DEF PoolOrder, TakenFirst
  <2> HIDE DEF Q, R
  <2>2. Arranged(ByPriority(group), group, R)
    BY <1>1, <2>1, SortArranges
  <2>3. OrderPool(group, roster, policy) = ByPriority(group)
    BY <1>2 DEF OrderPool
  <2>4. QED
    BY <2>2, <2>3 DEF R
<1>3. CASE policy.strategy = "round-robin"
  <2>1. Arranged(ByPriority(group), group, Q)
    <3> HIDE DEF Q
    <3>1. QED
      BY <1>1, SortArranges
  <2>2. Arranged(Rotate(ByPriority(group), policy.cursor), group, R)
    BY <1>3, <2>1, RotateArranges DEF Comparable
  <2>3. OrderPool(group, roster, policy) = Rotate(ByPriority(group), policy.cursor)
    BY <1>3 DEF OrderPool
  <2>4. QED
    BY <2>2, <2>3
<1>4. QED
  BY <1>2, <1>3, MeasuredArranges DEF Comparable

(* Two arrangements, one behind the other. *)
LEMMA ArrangedConcat ==
  ASSUME NEW s, NEW t, NEW A, NEW B, NEW R, Arranged(s, A, R), Arranged(t, B, R),
         \A x \in A, y \in B : <<x, y>> \in R
  PROVE  Arranged(s \o t, A \cup B, R)
<1>1. /\ s \in Seq(Providers) /\ t \in Seq(Providers) /\ ToSet(s) = A /\ ToSet(t) = B
      /\ Ascends(s, R) /\ Ascends(t, R)
  BY DEF Arranged
<1>2. s \o t \in Seq(Providers)
  BY <1>1
<1>3. ToSet(s \o t) = A \cup B
  BY <1>1, MembersOfConcat
<1>4. Ascends(s \o t, R)
  BY <1>1, ConcatAscends
<1>5. QED
  BY <1>2, <1>3, <1>4 DEF Arranged

(* What is arranged by R is arranged by any order that holds more pairs. *)
LEMMA ArrangedWeaken ==
  ASSUME NEW s, NEW A, NEW R, NEW Q, Arranged(s, A, R),
         \A x, y \in A : <<x, y>> \in R => <<x, y>> \in Q
  PROVE  Arranged(s, A, Q)
<1>1. \A i \in DOMAIN s : s[i] \in A
  BY DEF Arranged, ToSet
<1>2. Ascends(s, Q)
  BY <1>1 DEF Arranged, Ascends
<1>3. QED
  BY <1>2 DEF Arranged

LEMMA TiersSort ==
  ASSUME NEW T, IsFiniteSet(T), T \subseteq Int,
         NEW q, q = CHOOSE seq \in [1..Cardinality(T) -> T] :
                      \A i, j \in 1..Len(seq) : i < j => seq[i] < seq[j]
  PROVE  /\ Cardinality(T) \in Nat /\ q \in [1..Cardinality(T) -> T] /\ ToSet(q) = T
         /\ \A i, j \in 1..Cardinality(T) : i < j => q[i] < q[j]
<1> DEFINE R == {e \in Int \X Int : e[1] < e[2]}
           Fits(seq) == \A i, j \in 1..Len(seq) : i < j => seq[i] < seq[j]
<1>0. Cardinality(T) \in Nat
  BY FS_CardinalityType
<1>1. Orders(R, T)
  <2>1. \A x, y \in T : <<x, y>> \in R <=> x < y
    OBVIOUS
  <2>2. /\ \A x \in T : ~(x < x)
        /\ \A x, y \in T : x # y => x < y \/ y < x
        /\ \A x, y, z \in T : x < y /\ y < z => x < z
    <3>1. SUFFICES ASSUME NEW x \in T, NEW y \in T, NEW z \in T
                   PROVE  /\ ~(x < x) /\ (x # y => x < y \/ y < x)
                          /\ (x < y /\ y < z => x < z)
      OBVIOUS
    <3>2. x \in Int /\ y \in Int /\ z \in Int
      OBVIOUS
    <3>3. QED
      BY <3>2
  <2> HIDE DEF R
  <2>3. QED
    BY <2>1, <2>2, Zenon DEF Orders
<1>2. PICK seq \in [1..Cardinality(T) -> T] : Ascends(seq, R)
  BY <1>1, SortExists
<1>3. \A s \in [1..Cardinality(T) -> T] :
        /\ Len(s) = Cardinality(T) /\ DOMAIN s = 1..Cardinality(T)
        /\ \A i \in 1..Cardinality(T) : s[i] \in Int
  <2>1. ASSUME NEW s \in [1..Cardinality(T) -> T], NEW i \in 1..Cardinality(T)
        PROVE  s[i] \in Int
    <3>1. s[i] \in T
      OBVIOUS
    <3>2. QED
      BY <3>1
  <2>2. ASSUME NEW s \in [1..Cardinality(T) -> T]
        PROVE  Len(s) = Cardinality(T) /\ DOMAIN s = 1..Cardinality(T)
    BY <1>0
  <2>3. QED
    BY <2>1, <2>2
<1>4. \A s \in [1..Cardinality(T) -> T] : Fits(s) <=> Ascends(s, R)
  BY <1>3 DEF Ascends
<1>5. \E s \in [1..Cardinality(T) -> T] : Fits(s)
  BY <1>2, <1>4
<1>6. q = CHOOSE s \in [1..Cardinality(T) -> T] : Fits(s)
  OBVIOUS
<1>7. q \in [1..Cardinality(T) -> T] /\ Fits(q)
  <2> HIDE DEF Fits
  <2>1. QED
    BY <1>5, <1>6
<1>8. ToSet(q) = T
  <2>1. Ascends(q, R)
    BY <1>4, <1>7
  <2> HIDE DEF R
  <2>2. QED
    BY <1>1, <1>7, <2>1, SortIsBijection
<1>9. QED
  BY <1>0, <1>3, <1>7, <1>8

LEMMA OrderByTierArranges ==
  ASSUME NEW group \in SUBSET Providers, NEW roster, NEW policy, Comparable(roster, policy)
  PROVE  Arranged(OrderByTier(group, roster, policy), group, TierOrder(group, roster, policy))
<1> DEFINE T == {roster[p].tier : p \in group}
           tiers == Sorted(T, LAMBDA a, b : a < b)
           n == Cardinality(T)
           part(k) == {p \in group : roster[p].tier = tiers[k]}
           s == [k \in DOMAIN tiers |-> OrderPool(part(k), roster, policy)]
           R == TierOrder(group, roster, policy)
<1>1. IsFiniteSet(T) /\ T \subseteq Int
  <2>1. [p \in group |-> roster[p].tier] \in Surjection(group, T)
    BY DEF Surjection
  <2>2. T \subseteq Int
    BY DEF Comparable
  <2> HIDE DEF T
  <2>3. QED
    BY <2>1, <2>2, PoolFinite, FS_Surjection
<1>2. /\ n \in Nat /\ tiers \in [1..n -> T] /\ ToSet(tiers) = T
      /\ \A i, j \in 1..n : i < j => tiers[i] < tiers[j]
  <2>1. tiers = CHOOSE seq \in [1..n -> T] :
                  \A i, j \in 1..Len(seq) : i < j => seq[i] < seq[j]
    BY DEF Sorted, IsSorted
  <2> HIDE DEF T, tiers
  <2>2. QED
    BY <1>1, <2>1, TiersSort
<1>3. OrderByTier(group, roster, policy) = FlattenSeq(s)
  BY DEF OrderByTier
<1> HIDE DEF T, n, tiers
<1>4. ASSUME NEW k \in 1..n
      PROVE  s[k] \in Seq(Providers) /\ ToSet(s[k]) = part(k) /\ Ascends(s[k], R)
  <2>1. part(k) \in SUBSET Providers
    OBVIOUS
  <2>2. s[k] = OrderPool(part(k), roster, policy)
    BY <1>2
  <2>3. Arranged(s[k], part(k), PoolOrder(part(k), roster, policy))
    <3> HIDE DEF part, s
    <3>1. QED
      BY <2>1, <2>2, OrderPoolArranges
  <2>4. ASSUME NEW x \in part(k), NEW y \in part(k),
               <<x, y>> \in PoolOrder(part(k), roster, policy)
        PROVE  <<x, y>> \in R
    <3>1. /\ x \in group /\ y \in group /\ roster[x].tier = roster[y].tier
          /\ {p \in group : roster[p].tier = roster[x].tier} = part(k)
      OBVIOUS
    <3> HIDE DEF part
    <3>2. x # y /\ TakenFirst(x, y, part(k), roster, policy)
      BY <2>4 DEF PoolOrder
    <3>3. QED
      BY <3>1, <3>2 DEF TierOrder
  <2> HIDE DEF part, s, R
  <2>5. QED
    BY <2>3, <2>4, ArrangedWeaken DEF Arranged
<1>5. DOMAIN s = 1..n /\ s \in [1..n -> Seq(Providers)]
  <2>1. DOMAIN s = 1..n /\ s = [k \in 1..n |-> s[k]]
    BY <1>2
  <2> HIDE DEF s
  <2>2. QED
    BY <1>4, <2>1, Zenon
<1>6. ASSUME NEW j \in 1..n, NEW k \in 1..n, j < k, NEW x \in part(j), NEW y \in part(k)
      PROVE  <<x, y>> \in R
  <2>1. roster[x].tier < roster[y].tier /\ roster[x].tier \in Int /\ x \in group /\ y \in group
    BY <1>2, <1>6 DEF Comparable
  <2>2. QED
    BY <2>1 DEF TierOrder
<1> HIDE DEF s, R
<1>7. Ascends(FlattenSeq(s), R)
  <2> HIDE DEF part
  <2>1. \A j, k \in 1..n : j < k => \A x \in ToSet(s[j]), y \in ToSet(s[k]) : <<x, y>> \in R
    BY <1>4, <1>6
  <2>2. n \in Nat /\ \A k \in 1..n : Ascends(s[k], R)
    BY <1>2, <1>4
  <2>3. s \in [1..n -> Seq(Providers)]
    BY <1>5
  <2>4. QED
    BY <2>1, <2>2, <2>3, FlattenAscends, Zenon
<1>8. FlattenSeq(s) \in Seq(Providers)
  BY <1>2, <1>5, FlattenType
<1>9. ToSet(FlattenSeq(s)) = group
  <2>1. ToSet(FlattenSeq(s)) = UNION {ToSet(s[k]) : k \in 1..n}
    BY <1>2, <1>5, FlattenMembers
  <2>2. ASSUME NEW p \in group PROVE \E k \in 1..n : p \in part(k)
    <3>1. roster[p].tier \in ToSet(tiers)
      BY <1>2 DEF T
    <3>2. QED
      BY <1>2, <3>1 DEF ToSet
  <2>3. \A k \in 1..n : ToSet(s[k]) \subseteq group
    BY <1>4
  <2>4. \A p \in group : \E k \in 1..n : p \in ToSet(s[k])
    BY <1>4, <2>2
  <2> HIDE DEF part
  <2>5. QED
    BY <2>1, <2>3, <2>4
<1>10. QED
  BY <1>3, <1>7, <1>8, <1>9 DEF Arranged, R

LEMMA OrderWarningArranges ==
  ASSUME NEW group \in SUBSET Providers, NEW roster, NEW policy, Comparable(roster, policy)
  PROVE  Arranged(OrderWarning(group, roster, policy), group, WarningOrder(group, roster, policy))
<1> DEFINE o == OrderPool(group, roster, policy)
           n == Len(o)
           before(i, j) == \/ roster[o[i]].used < roster[o[j]].used
                           \/ roster[o[i]].used = roster[o[j]].used /\ i < j
           Q == {e \in (1..n) \X (1..n) : before(e[1], e[2])}
           Fits(seq) == \A i, j \in 1..Len(seq) : i < j => before(seq[i], seq[j])
           places == CHOOSE s \in [1..Cardinality(DOMAIN o) -> DOMAIN o] : Fits(s)
           q == [i \in DOMAIN o |-> o[places[i]]]
           R == WarningOrder(group, roster, policy)
<1>1. Arranged(o, group, PoolOrder(group, roster, policy))
  BY OrderPoolArranges
<1>2. OrderWarning(group, roster, policy) = q
  BY DEF OrderWarning, Sorted, IsSorted
<1> HIDE DEF o
<1>3. /\ n \in Nat /\ DOMAIN o = 1..n /\ \A i \in 1..n : o[i] \in group /\ o[i] \in Providers
      /\ Ascends(o, PoolOrder(group, roster, policy)) /\ ToSet(o) = group
  BY <1>1 DEF Arranged, ToSet
<1> HIDE DEF n
<1>4. IsFiniteSet(1..n) /\ Cardinality(1..n) = n
  BY <1>3, FS_Interval
<1>5. \A i \in 1..n : roster[o[i]].used \in Int
  BY <1>3 DEF Comparable
<1>6. Orders(Q, 1..n)
  <2>1. /\ \A i \in 1..n : ~before(i, i)
        /\ \A i, j \in 1..n : i # j => before(i, j) \/ before(j, i)
        /\ \A i, j, k \in 1..n : before(i, j) /\ before(j, k) => before(i, k)
    BY <1>5
  <2>2. \A i, j \in 1..n : <<i, j>> \in Q <=> before(i, j)
    OBVIOUS
  <2> HIDE DEF before, Q
  <2>3. QED
    BY <2>1, <2>2, Zenon DEF Orders
<1>7. PICK seq \in [1..n -> 1..n] : Ascends(seq, Q)
  <2> HIDE DEF Q
  <2>1. QED
    BY <1>4, <1>6, SortExists
<1>8. \A s \in [1..n -> 1..n] : Fits(s) <=> Ascends(s, Q)
  <2>1. \A s \in [1..n -> 1..n] : /\ Len(s) = n /\ DOMAIN s = 1..n
                                  /\ \A i \in 1..n : s[i] \in 1..n
    BY <1>3
  <2> HIDE DEF before
  <2>2. QED
    BY <2>1 DEF Ascends
<1>9. places \in [1..n -> 1..n] /\ Fits(places)
  <2>1. places = CHOOSE s \in [1..n -> 1..n] : Fits(s)
    BY <1>3, <1>4
  <2>2. \E s \in [1..n -> 1..n] : Fits(s)
    BY <1>7, <1>8
  <2> HIDE DEF Fits, places
  <2>3. QED
    BY <2>1, <2>2
<1>10. Ascends(places, Q)
  BY <1>8, <1>9
<1> HIDE DEF places
<1>11. ToSet(places) = 1..n
  <2> HIDE DEF Q
  <2>1. QED
    BY <1>4, <1>6, <1>9, <1>10, SortIsBijection
<1>12. q \in Seq(Providers) /\ DOMAIN q = 1..n /\ \A i \in 1..n : q[i] = o[places[i]]
  BY <1>3, <1>9
<1>13. ToSet(q) = group
  <2>1. \A i \in 1..n : q[i] \in group
    BY <1>3, <1>9, <1>12
  <2>2. ASSUME NEW j \in 1..n PROVE \E i \in 1..n : q[i] = o[j]
    <3>1. PICK i \in 1..n : places[i] = j
      BY <1>9, <1>11 DEF ToSet
    <3>2. QED
      BY <1>12, <3>1
  <2>3. ToSet(q) \subseteq group
    BY <1>12, <2>1 DEF ToSet
  <2>4. \A j \in 1..n : o[j] \in ToSet(q)
    BY <1>12, <2>2 DEF ToSet
  <2>5. group \subseteq ToSet(q)
    BY <1>3, <2>4 DEF ToSet
  <2>6. QED
    BY <2>3, <2>5
<1>14. ASSUME NEW i \in 1..n, NEW j \in 1..n, i < j
       PROVE  <<q[i], q[j]>> \in R
  <2>1. before(places[i], places[j]) /\ places[i] \in 1..n /\ places[j] \in 1..n
    BY <1>9, <1>10, <1>14 DEF Ascends
  <2> DEFINE x == o[places[i]]
             y == o[places[j]]
  <2>2. q[i] = x /\ q[j] = y /\ x \in group /\ y \in group
    BY <1>3, <1>12, <2>1
  <2>3. CASE roster[x].used < roster[y].used
    <3>1. roster[x].used \in Int
      BY <1>5, <2>1
    <3>2. x # y
      BY <2>3, <3>1
    <3>3. QED
      BY <2>2, <2>3, <3>2 DEF WarningOrder
  <2>4. CASE roster[x].used = roster[y].used /\ places[i] < places[j]
    <3>1. <<x, y>> \in PoolOrder(group, roster, policy)
      BY <1>3, <2>1, <2>4 DEF Ascends
    <3>2. x # y
      BY <3>1 DEF PoolOrder
    <3> HIDE DEF x, y
    <3>3. QED
      BY <2>2, <2>4, <3>1, <3>2 DEF WarningOrder
  <2>5. QED
    BY <2>1, <2>3, <2>4
<1>15. Ascends(q, R)
  BY <1>12, <1>14 DEF Ascends
<1>16. QED
  BY <1>2, <1>12, <1>13, <1>15 DEF Arranged

(* Providers with quota to spare before those close to it, the first by their
   tier and the second by what they have used. *)
LEMMA OrderQuotaAwareArranges ==
  ASSUME NEW group \in SUBSET Providers, NEW roster, NEW policy, Comparable(roster, policy),
         \A a, b \in group :
           roster[a].support = "supported" <=> roster[b].support = "supported"
  PROVE  Arranged(OrderQuotaAware(group, roster, policy), group,
                  RankOrder(group, roster, policy))
<1> DEFINE spare == {p \in group : ~Warning(roster[p].used)}
           warned == {p \in group : Warning(roster[p].used)}
           R == RankOrder(group, roster, policy)
<1>0. \A x \in group : /\ x \in Providers /\ roster[x].tier \in Int /\ roster[x].used \in Int
                       /\ Warning(roster[x].used) \in BOOLEAN
  BY DEF Comparable, Warning
<1>1. Arranged(OrderByTier(spare, roster, policy), spare, R)
  <2>1. Arranged(OrderByTier(spare, roster, policy), spare, TierOrder(spare, roster, policy))
    <3>1. spare \in SUBSET Providers
      OBVIOUS
    <3> HIDE DEF spare
    <3>2. QED
      BY <3>1, OrderByTierArranges
  <2>2. ASSUME NEW x \in spare, NEW y \in spare,
               <<x, y>> \in TierOrder(spare, roster, policy)
        PROVE  <<x, y>> \in R
    <3>1. x \in group /\ y \in group /\ x # y
      BY <2>2 DEF TierOrder
    <3>2. Peers(x, group, roster) = {p \in spare : roster[p].tier = roster[x].tier}
      BY <3>1 DEF Peers
    <3>3. \/ roster[x].tier < roster[y].tier
          \/ /\ roster[x].tier = roster[y].tier
             /\ TakenFirst(x, y, {p \in spare : roster[p].tier = roster[x].tier}, roster, policy)
      BY <2>2 DEF TierOrder
    <3>4. ~Warning(roster[x].used) /\ ~Warning(roster[y].used)
      OBVIOUS
    <3>5. roster[x].support = "supported" <=> roster[y].support = "supported"
      BY <3>1
    <3> HIDE DEF spare
    <3>6. GoesBefore(x, y, group, roster, policy)
      BY <3>2, <3>3, <3>4, <3>5 DEF GoesBefore
    <3>7. QED
      BY <3>1, <3>6 DEF RankOrder
  <2> HIDE DEF spare, R
  <2>3. QED
    BY <2>1, <2>2, ArrangedWeaken
<1>2. Arranged(OrderWarning(warned, roster, policy), warned, R)
  <2>1. Arranged(OrderWarning(warned, roster, policy), warned,
                 WarningOrder(warned, roster, policy))
    <3>1. warned \in SUBSET Providers
      OBVIOUS
    <3> HIDE DEF warned
    <3>2. QED
      BY <3>1, OrderWarningArranges
  <2>2. ASSUME NEW x \in warned, NEW y \in warned,
               <<x, y>> \in WarningOrder(warned, roster, policy)
        PROVE  <<x, y>> \in R
    <3>1. x \in group /\ y \in group /\ x # y
      BY <2>2 DEF WarningOrder
    <3>2. Peers(x, group, roster) = warned
      BY <3>1 DEF Peers
    <3>3. \/ roster[x].used < roster[y].used
          \/ /\ roster[x].used = roster[y].used
             /\ TakenFirst(x, y, warned, roster, policy)
      BY <2>2 DEF WarningOrder, PoolOrder
    <3>4. Warning(roster[x].used) /\ Warning(roster[y].used)
      OBVIOUS
    <3>5. roster[x].support = "supported" <=> roster[y].support = "supported"
      BY <3>1
    <3> HIDE DEF warned
    <3>6. GoesBefore(x, y, group, roster, policy)
      BY <3>2, <3>3, <3>4, <3>5 DEF GoesBefore
    <3>7. QED
      BY <3>1, <3>6 DEF RankOrder
  <2> HIDE DEF warned, R
  <2>3. QED
    BY <2>1, <2>2, ArrangedWeaken
<1>3. \A x \in spare, y \in warned : <<x, y>> \in R
  BY <1>0 DEF RankOrder, GoesBefore
<1>4. spare \cup warned = group
  OBVIOUS
<1>5. OrderQuotaAware(group, roster, policy)
        = OrderByTier(spare, roster, policy) \o OrderWarning(warned, roster, policy)
  BY DEF OrderQuotaAware
<1> HIDE DEF spare, warned, R
<1>6. QED
  BY <1>1, <1>2, <1>3, <1>4, <1>5, ArrangedConcat DEF R

(* What has been kept after each member of a sequence. *)
Keeps(h, s, S, E) ==
  /\ h \in [0..Len(s) -> Seq(E)]
  /\ h[0] = <<>> /\ Kept(s, S) = h[Len(s)]
  /\ \A k \in 1..Len(s) : h[k] = IF s[k] \in S THEN Append(h[k - 1], s[k]) ELSE h[k - 1]

LEMMA Keeping ==
  ASSUME NEW E, NEW s \in Seq(E), NEW S
  PROVE  \E h : Keeps(h, s, S, E)
<1> DEFINE n == Len(s)
           F == [p \in Seq(E) \X (1..n) |->
                   IF s[p[2]] \in S THEN Append(p[1], s[p[2]]) ELSE p[1]]
           Rule(f) == f = [k \in 0..n |->
                             IF k = 0 THEN <<>>
                             ELSE IF s[k] \in S THEN Append(f[k - 1], s[k]) ELSE f[k - 1]]
           kept == CHOOSE f : Rule(f)
<1>0. n \in Nat /\ <<>> \in Seq(E) /\ \A k \in 1..n : s[k] \in E
  OBVIOUS
<1>1. F \in [Seq(E) \X (1..n) -> Seq(E)]
  <2>1. \A p \in Seq(E) \X (1..n) : p[1] \in Seq(E) /\ s[p[2]] \in E
    BY <1>0
  <2>2. \A p \in Seq(E) \X (1..n) :
          (IF s[p[2]] \in S THEN Append(p[1], s[p[2]]) ELSE p[1]) \in Seq(E)
    BY <2>1
  <2>3. QED
    BY <2>2, Zenon
<1>2. PICK h : Recurs(h, n, Seq(E), <<>>, F)
  <2> HIDE DEF F, n
  <2>1. QED
    BY <1>0, <1>1, Recursion
<1>3. /\ h \in [0..n -> Seq(E)] /\ h[0] = <<>>
      /\ \A k \in 1..n : h[k] = IF s[k] \in S THEN Append(h[k - 1], s[k]) ELSE h[k - 1]
  <2>1. /\ h \in [0..n -> Seq(E)] /\ h[0] = <<>> /\ \A k \in 1..n : h[k] = F[<<h[k - 1], k>>]
    <3> HIDE DEF F, n
    <3>1. QED
      BY <1>2 DEF Recurs
  <2>2. ASSUME NEW k \in 1..n
        PROVE  F[<<h[k - 1], k>>] = IF s[k] \in S THEN Append(h[k - 1], s[k]) ELSE h[k - 1]
    <3>1. k - 1 \in 0..n
      BY <1>0
    <3>2. <<h[k - 1], k>> \in Seq(E) \X (1..n)
      BY <2>1, <3>1
    <3>3. QED
      BY <3>2
  <2> HIDE DEF F, n
  <2>3. QED
    BY <2>1, <2>2
<1>4. Rule(h)
  <2>1. h = [k \in 0..n |-> h[k]]
    BY <1>3
  <2>2. \A k \in 0..n : k # 0 => k \in 1..n
    BY <1>0
  <2>3. \A k \in 0..n : h[k] = IF k = 0 THEN <<>>
                               ELSE IF s[k] \in S THEN Append(h[k - 1], s[k]) ELSE h[k - 1]
    <3> HIDE DEF n
    <3>1. QED
      BY <1>3, <2>2
  <2> HIDE DEF n
  <2>4. QED
    BY <2>1, <2>3
<1>5. Rule(kept)
  <2> HIDE DEF Rule
  <2>1. QED
    BY <1>4
<1>6. Kept(s, S) = kept[n]
  BY DEF Kept
<1> HIDE DEF kept, n
<1> DEFINE T == {k \in 0..n : kept[k] = h[k]}
<1>7. 0 \in T
  BY <1>0, <1>3, <1>5
<1>8. ASSUME NEW k \in 1..n, k - 1 \in T PROVE k \in T
  <2>1. kept[k - 1] = h[k - 1]
    BY <1>8
  <2>2. kept[k] = IF s[k] \in S THEN Append(kept[k - 1], s[k]) ELSE kept[k - 1]
    <3>1. k \in 0..n /\ k # 0
      BY <1>0
    <3>2. QED
      BY <1>5, <3>1, Zenon
  <2>3. kept[k] = h[k]
    BY <1>3, <2>1, <2>2
  <2>4. QED
    BY <1>0, <2>3
<1>9. kept[n] = h[n]
  <2> HIDE DEF T
  <2>1. \A k \in 0..n : k \in T
    BY <1>0, <1>7, <1>8, StepInduction
  <2>2. n \in T
    BY <1>0, <2>1
  <2>3. QED
    BY <2>2 DEF T
<1>10. QED
  BY <1>3, <1>6, <1>9 DEF Keeps, n

LEMMA KeptArranges ==
  ASSUME NEW q, NEW group, NEW R, Arranged(q, group, R), NEW S
  PROVE  Arranged(Kept(q, S), group \cap S, R)
<1>1. /\ q \in Seq(Providers) /\ Len(q) \in Nat /\ DOMAIN q = 1..Len(q)
      /\ \A k \in 1..Len(q) : q[k] \in Providers
      /\ ToSet(q) = group /\ Ascends(q, R)
  BY DEF Arranged
<1>2. PICK h : Keeps(h, q, S, Providers)
  BY <1>1, Keeping
<1>3. /\ h \in [0..Len(q) -> Seq(Providers)] /\ h[0] = <<>> /\ Kept(q, S) = h[Len(q)]
      /\ \A k \in 1..Len(q) : h[k] = IF q[k] \in S THEN Append(h[k - 1], q[k]) ELSE h[k - 1]
  BY <1>2 DEF Keeps
<1> DEFINE T == {k \in 0..Len(q) :
                   /\ \A x : x \in ToSet(h[k]) <=> \E j \in 1..k : x = q[j] /\ x \in S
                   /\ Ascends(h[k], R)}
<1>4. 0 \in T
  <2>1. ToSet(<<>>) = {} /\ Ascends(<<>>, R)
    BY DEF ToSet, Ascends
  <2>2. QED
    BY <1>1, <1>3, <2>1
<1>5. ASSUME NEW k \in 1..Len(q), k - 1 \in T PROVE k \in T
  <2>1. /\ \A x : x \in ToSet(h[k - 1]) <=> \E j \in 1..(k - 1) : x = q[j] /\ x \in S
        /\ Ascends(h[k - 1], R)
    BY <1>5
  <2>2. k \in 0..Len(q) /\ k - 1 \in 0..Len(q)
    BY <1>1
  <2>3. 1..k = 1..(k - 1) \cup {k} /\ \A j \in 1..(k - 1) : j \in 1..Len(q) /\ j < k
    BY <1>1
  <2>4. CASE q[k] \notin S
    <3>1. h[k] = h[k - 1]
      BY <1>3, <2>4
    <3>2. \A x : x \in ToSet(h[k]) <=> \E j \in 1..k : x = q[j] /\ x \in S
      BY <2>1, <2>3, <2>4, <3>1
    <3>3. QED
      BY <2>1, <2>2, <3>1, <3>2
  <2>5. CASE q[k] \in S
    <3>1. h[k] = Append(h[k - 1], q[k]) /\ h[k - 1] \in Seq(Providers) /\ q[k] \in Providers
      <4>1. h[k - 1] \in Seq(Providers)
        BY <1>3, <2>2, Zenon
      <4>2. QED
        BY <1>1, <1>3, <2>5, <4>1
    <3> DEFINE last == <<q[k]>>
    <3>2. /\ h[k] = h[k - 1] \o last /\ last \in Seq(Providers) /\ ToSet(last) = {q[k]}
      BY <3>1, AppendIsConcat, OneMember
    <3>3. Ascends(last, R)
      BY DEF Ascends
    <3> HIDE DEF last
    <3>4. ToSet(h[k]) = ToSet(h[k - 1]) \cup {q[k]}
      BY <3>1, <3>2, MembersOfConcat
    <3>5. \A x : x \in ToSet(h[k]) <=> \E j \in 1..k : x = q[j] /\ x \in S
      BY <2>1, <2>3, <2>5, <3>4
    <3>6. \A x \in ToSet(h[k - 1]), y \in ToSet(last) : <<x, y>> \in R
      <4>1. \A j \in 1..(k - 1) : <<q[j], q[k]>> \in R
        BY <1>1, <2>3 DEF Ascends
      <4>2. QED
        BY <2>1, <3>2, <4>1
    <3>7. Ascends(h[k - 1] \o last, R)
      BY <2>1, <3>1, <3>2, <3>3, <3>6, ConcatAscends
    <3>8. QED
      BY <2>2, <3>2, <3>5, <3>7
  <2>6. QED
    BY <2>4, <2>5
<1>6. Len(q) \in T
  <2> HIDE DEF T
  <2>1. \A k \in 0..Len(q) : k \in T
    BY <1>1, <1>4, <1>5, StepInduction
  <2>2. QED
    BY <1>1, <2>1
<1>7. ToSet(Kept(q, S)) = group \cap S
  <2>1. \A x : x \in ToSet(Kept(q, S)) <=> \E j \in 1..Len(q) : x = q[j] /\ x \in S
    BY <1>3, <1>6
  <2>2. QED
    BY <1>1, <2>1 DEF ToSet
<1>8. Kept(q, S) \in Seq(Providers)
  BY <1>1, <1>3
<1>9. QED
  BY <1>3, <1>6, <1>7, <1>8 DEF Arranged

(* A first member is kept by itself. *)
FirstKept(p, t, S) ==
  /\ p \in S => Kept(<<p>> \o t, S) = <<p>> \o Kept(t, S)
  /\ p \notin S => Kept(<<p>> \o t, S) = Kept(t, S)

LEMMA KeptFirst ==
  ASSUME NEW p \in Providers, NEW t \in Seq(Providers), NEW S
  PROVE  FirstKept(p, t, S)
<1> DEFINE first == IF p \in S THEN <<p>> ELSE <<>>
           s == <<p>> \o t
<1>1. /\ s \in Seq(Providers) /\ Len(t) \in Nat /\ Len(s) = Len(t) + 1 /\ s[1] = p
      /\ \A k \in 1..Len(t) : s[k + 1] = t[k]
      /\ \A k \in 1..Len(t) : t[k] \in Providers
  OBVIOUS
<1> HIDE DEF s
<1>2. first \in Seq(Providers)
  OBVIOUS
<1>3. PICK g : Keeps(g, s, S, Providers)
  BY <1>1, Keeping
<1>4. PICK h : Keeps(h, t, S, Providers)
  BY <1>1, Keeping
<1>5. /\ g[0] = <<>> /\ Kept(s, S) = g[Len(t) + 1]
      /\ \A k \in 1..Len(t) + 1 :
           g[k] = IF s[k] \in S THEN Append(g[k - 1], s[k]) ELSE g[k - 1]
  BY <1>1, <1>3 DEF Keeps
<1>6. /\ h[0] = <<>> /\ Kept(t, S) = h[Len(t)]
      /\ \A k \in 0..Len(t) : h[k] \in Seq(Providers)
      /\ \A k \in 1..Len(t) :
           h[k] = IF t[k] \in S THEN Append(h[k - 1], t[k]) ELSE h[k - 1]
  BY <1>4 DEF Keeps
<1> DEFINE T == {k \in 0..Len(t) : g[k + 1] = first \o h[k]}
<1>7. 0 \in T
  <2>1. 1 \in 1..Len(t) + 1 /\ 1 - 1 = 0 /\ 0 + 1 = 1
    BY <1>1
  <2>2. g[1] = IF p \in S THEN Append(<<>>, p) ELSE <<>>
    BY <1>1, <1>5, <2>1
  <2>3. first \o <<>> = first
    BY <1>2
  <2>4. g[0 + 1] = first \o h[0]
    BY <1>6, <2>1, <2>2, <2>3
  <2>5. 0 \in 0..Len(t)
    BY <1>1
  <2> HIDE DEF first
  <2>6. QED
    BY <2>4, <2>5
<1>8. ASSUME NEW k \in 1..Len(t), k - 1 \in T PROVE k \in T
  <2>1. (k - 1) + 1 = k /\ (k + 1) - 1 = k /\ k + 1 \in 1..Len(t) + 1 /\ k - 1 \in 0..Len(t)
        /\ k \in 0..Len(t)
    BY <1>1
  <2>2. g[k] = first \o h[k - 1]
    BY <1>8, <2>1
  <2>3. g[k + 1] = IF t[k] \in S THEN Append(g[k], t[k]) ELSE g[k]
    BY <1>1, <1>5, <2>1
  <2>4. h[k - 1] \in Seq(Providers) /\ t[k] \in Providers
    BY <1>1, <1>6, <2>1
  <2> HIDE DEF first
  <2>5. Append(first \o h[k - 1], t[k]) = first \o Append(h[k - 1], t[k])
    <3>1. PICK a, b, e : a = first /\ b = h[k - 1] /\ e = t[k]
      OBVIOUS
    <3>2. a \in Seq(Providers) /\ b \in Seq(Providers) /\ e \in Providers
      BY <1>2, <2>4, <3>1
    <3>3. Append(a \o b, e) = a \o Append(b, e)
      BY <3>2
    <3>4. QED
      BY <3>1, <3>3
  <2>6. g[k + 1] = first \o h[k]
    BY <1>6, <2>2, <2>3, <2>5
  <2>7. QED
    BY <2>1, <2>6
<1>9. Len(t) \in T
  <2> HIDE DEF T
  <2>1. \A k \in 0..Len(t) : k \in T
    BY <1>1, <1>7, <1>8, StepInduction
  <2>2. QED
    BY <1>1, <2>1
<1>10. Kept(s, S) = first \o Kept(t, S) /\ Kept(t, S) \in Seq(Providers)
  BY <1>1, <1>5, <1>6, <1>9
<1>11. <<>> \o Kept(t, S) = Kept(t, S)
  BY <1>10
<1>12. /\ p \in S => Kept(s, S) = <<p>> \o Kept(t, S)
       /\ p \notin S => Kept(s, S) = Kept(t, S)
  BY <1>10, <1>11
<1>13. QED
  BY <1>12, Zenon DEF FirstKept, s

(* What orders one level of matches orders all of the pool. *)
LEMMA LevelRanks ==
  ASSUME NEW group \in SUBSET Providers, NEW roster, NEW policy, NEW level \in SUBSET group,
         \A x \in level, p \in group :
           (roster[p].support = "supported" <=> roster[x].support = "supported") <=> p \in level,
         NEW x \in level, NEW y \in level, <<x, y>> \in RankOrder(level, roster, policy)
  PROVE  <<x, y>> \in RankOrder(group, roster, policy)
<1>1. Peers(x, level, roster) = Peers(x, group, roster)
  BY DEF Peers
<1>2. x # y /\ GoesBefore(x, y, level, roster, policy)
  BY DEF RankOrder
<1>3. GoesBefore(x, y, group, roster, policy)
  BY <1>1, <1>2 DEF GoesBefore
<1>4. QED
  BY <1>2, <1>3 DEF RankOrder

LEMMA OrderByMatchArranges ==
  ASSUME NEW group \in SUBSET Providers, NEW roster, NEW policy, Comparable(roster, policy),
         \A p \in group : MatchLevel(roster[p].support, policy.unknownMode) # "incompatible"
  PROVE  Arranged(OrderByMatch(group, roster, policy), group, RankOrder(group, roster, policy))
<1> DEFINE full == {p \in group : MatchLevel(roster[p].support, policy.unknownMode) = "full"}
           partial == {p \in group :
                         MatchLevel(roster[p].support, policy.unknownMode) = "partial"}
           R == RankOrder(group, roster, policy)
<1>0. \A p \in group : p \in Providers /\ roster[p].support \in Supports
  BY DEF Comparable
<1>1. /\ \A p \in full : roster[p].support = "supported"
      /\ \A p \in partial : roster[p].support # "supported"
      /\ full \cup partial = group
  BY <1>0 DEF MatchLevel, Supports
<1>2. full \in SUBSET group /\ partial \in SUBSET group
  OBVIOUS
<1>3. OrderByMatch(group, roster, policy)
        = OrderQuotaAware(full, roster, policy) \o OrderQuotaAware(partial, roster, policy)
  BY DEF OrderByMatch
<1> HIDE DEF full, partial
<1>4. \A x \in full, y \in partial : <<x, y>> \in R
  <2>1. ASSUME NEW x \in full, NEW y \in partial PROVE <<x, y>> \in R
    <3>1. /\ x \in group /\ y \in group
          /\ roster[x].support = "supported" /\ roster[y].support # "supported"
      BY <1>1, <1>2
    <3>2. GoesBefore(x, y, group, roster, policy)
      BY <3>1 DEF GoesBefore
    <3>3. QED
      BY <3>1, <3>2 DEF RankOrder
  <2>2. QED
    BY <2>1
<1>5. Arranged(OrderQuotaAware(full, roster, policy), full, RankOrder(full, roster, policy))
  BY <1>1, <1>2, OrderQuotaAwareArranges
<1>6. Arranged(OrderQuotaAware(partial, roster, policy), partial,
               RankOrder(partial, roster, policy))
  BY <1>1, <1>2, OrderQuotaAwareArranges
<1>7. \A x, y \in full : <<x, y>> \in RankOrder(full, roster, policy) => <<x, y>> \in R
  <2>1. \A x \in full, p \in group :
          (roster[p].support = "supported" <=> roster[x].support = "supported") <=> p \in full
    BY <1>1, <1>2
  <2>2. QED
    BY <1>2, <2>1, LevelRanks
<1>8. \A x, y \in partial : <<x, y>> \in RankOrder(partial, roster, policy) => <<x, y>> \in R
  <2>1. \A x \in partial, p \in group :
          (roster[p].support = "supported" <=> roster[x].support = "supported") <=> p \in partial
    BY <1>1, <1>2
  <2>2. QED
    BY <1>2, <2>1, LevelRanks
<1> HIDE DEF R
<1>9. /\ Arranged(OrderQuotaAware(full, roster, policy), full, R)
      /\ Arranged(OrderQuotaAware(partial, roster, policy), partial, R)
  BY <1>5, <1>6, <1>7, <1>8, ArrangedWeaken
<1>10. Arranged(OrderQuotaAware(full, roster, policy) \o OrderQuotaAware(partial, roster, policy),
                full \cup partial, R)
  BY <1>4, <1>9, ArrangedConcat
<1>11. QED
  BY <1>1, <1>3, <1>10 DEF R

LEMMA ArrangedWellRanked ==
  ASSUME NEW q, NEW kept, NEW group \in SUBSET Providers, NEW roster, NEW policy,
         Arranged(q, kept, RankOrder(group, roster, policy))
  PROVE  WellRanked(q, kept, group, roster, policy)
<1>1. q \in Seq(Providers) /\ ToSet(q) = kept /\ Ascends(q, RankOrder(group, roster, policy))
  BY DEF Arranged
<1>2. \A x \in Providers : <<x, x>> \notin RankOrder(group, roster, policy)
  BY DEF RankOrder
<1>3. Len(q) = Cardinality(kept)
  BY <1>1, <1>2, AscendsInjective
<1>4. \A i, j \in DOMAIN q : i < j => GoesBefore(q[i], q[j], group, roster, policy)
  <2>1. \A i, j \in DOMAIN q : i < j => <<q[i], q[j]>> \in RankOrder(group, roster, policy)
    BY <1>1 DEF Ascends
  <2>2. QED
    BY <2>1 DEF RankOrder
<1>5. QED
  BY <1>1, <1>3, <1>4 DEF WellRanked

LEMMA RequestComparable ==
  ASSUME NEW r \in Requests
  PROVE  /\ Comparable(r.roster, r.policy) /\ ClosedCircuits(r) \in SUBSET Providers
         /\ WithQuota(r) \in SUBSET Providers /\ Recoverable(r) \in SUBSET Providers
         /\ \A p \in ClosedCircuits(r) :
              /\ MatchLevel(r.roster[p].support, r.policy.unknownMode) # "incompatible"
              /\ r.roster[p].circuit = "closed"
         /\ \A p \in Recoverable(r) : r.roster[p].circuit # "closed"
<1>1. Comparable(r.roster, r.policy)
  BY FailoverAssumption DEF Comparable
<1>2. r.eligible \subseteq Providers
  BY FailoverAssumption
<1>3. QED
  BY <1>1, <1>2 DEF ClosedCircuits, Recoverable, Usable, WithQuota, Compatible, Considered

(* The candidates: the probe, if its input limit lets it, and the providers
   whose circuit is closed as they rank. *)
Placed(r, probe) ==
  LET fitting == {p \in ClosedCircuits(r) : ~r.roster[p].oversized}
      c == WithinInputLimit(r, Ordered(r, probe))
  IN \E rest : /\ Arranged(rest, fitting, RankOrder(ClosedCircuits(r), r.roster, r.policy))
               /\ \/ c = rest
                  \/ \E p \in Recoverable(r) : probe = <<p>> /\ c = <<p>> \o rest

LEMMA CandidatesArranged ==
  ASSUME NEW r \in Requests, NEW probe \in Probes(r)
  PROVE  Placed(r, probe)
<1> DEFINE fitting == {p \in ClosedCircuits(r) : ~r.roster[p].oversized}
           c == WithinInputLimit(r, Ordered(r, probe))
           R == RankOrder(ClosedCircuits(r), r.roster, r.policy)
           S == {p \in Providers : ~r.roster[p].oversized}
           o == OrderByMatch(ClosedCircuits(r), r.roster, r.policy)
           rest == Kept(o, S)
<1>0. SUFFICES \E q : /\ Arranged(q, fitting, R)
                      /\ \/ c = q
                         \/ \E p \in Recoverable(r) : probe = <<p>> /\ c = <<p>> \o q
  BY Zenon DEF Placed
<1>1. Arranged(o, ClosedCircuits(r), R)
  BY RequestComparable, OrderByMatchArranges
<1>2. c = Kept(probe \o o, S)
  BY DEF WithinInputLimit, Ordered
<1>3. ClosedCircuits(r) \cap S = fitting
  BY RequestComparable
<1> HIDE DEF o, R, S, fitting, c
<1>4. Arranged(rest, fitting, R)
  BY <1>1, <1>3, KeptArranges
<1>5. o \in Seq(Providers) /\ rest \in Seq(Providers)
  BY <1>1, <1>4 DEF Arranged
<1> HIDE DEF rest
<1>6. CASE probe = <<>>
  <2>1. probe \o o = o
    BY <1>5, <1>6
  <2>2. c = rest
    BY <1>2, <2>1 DEF rest
  <2>3. QED
    BY <1>4, <2>2
<1>7. CASE \E p \in Recoverable(r) : probe = <<p>>
  <2>1. PICK p \in Recoverable(r) : probe = <<p>>
    BY <1>7
  <2>2. p \in Providers
    BY RequestComparable
  <2>3. FirstKept(p, o, S)
    BY <1>5, <2>2, KeptFirst
  <2>4. (p \in S => c = <<p>> \o rest) /\ (p \notin S => c = rest)
    BY <1>2, <2>1, <2>3, Zenon DEF rest, FirstKept
  <2>5. QED
    BY <1>4, <2>1, <2>4
<1>8. QED
  BY <1>6, <1>7 DEF Probes
-----------------------------------------------------------------------------
(* The loop. *)

USE DEF InFlight

IsSequence(s) == \E S : s \in Seq(S)

LEMMA Appended ==
  ASSUME NEW s, IsSequence(s), NEW e
  PROVE  /\ IsSequence(Append(s, e))
         /\ Len(s) \in Nat /\ Len(Append(s, e)) = Len(s) + 1
         /\ DOMAIN s = 1..Len(s) /\ DOMAIN Append(s, e) = 1..Len(s) + 1
         /\ \A k \in 1..Len(s) : Append(s, e)[k] = s[k]
         /\ Append(s, e)[Len(s) + 1] = e
<1>1. PICK S : s \in Seq(S)
  BY DEF IsSequence
<1>2. s \in Seq(S \cup {e}) /\ e \in S \cup {e}
  BY <1>1
<1>3. Append(s, e) \in Seq(S \cup {e})
  BY <1>2
<1>4. QED
  BY <1>2, <1>3 DEF IsSequence

(* The settings are those of some request, whatever was forgotten of it. *)
SettingsInv ==
  /\ DOMAIN request = {"roster", "policy", "settings", "eligible", "localOnly"}
  /\ settings.maxAttempts \in Nat

(* Each candidate the loop has passed left an attempt behind. *)
ProgressInv ==
  /\ IsSequence(attempts) /\ index \in Nat /\ faults \in Nat
  /\ index <= Len(attempts) + 1
  /\ phase \in {"recording", "waiting"} => index <= Len(attempts)
  /\ InFlight => Len(attempts) < settings.maxAttempts

NoSuccess(seq) == \A k \in DOMAIN seq : ~seq[k].success

(* A success is recorded with the decision to return it. *)
FinalInv ==
  \/ faults # 0 \/ phase = "answered"
  \/ phase = "recording" /\ decision.stop = "answered"
  \/ NoSuccess(attempts)

DecisionInv == decision.retry => decision.stop # "answered"

LoopInv == SettingsInv /\ ProgressInv /\ FinalInv /\ DecisionInv

LEMMA LoopInvInit ==
  Init => LoopInv
<1> SUFFICES ASSUME Init
             PROVE  LoopInv
  OBVIOUS
<1>1. SettingsInv
  BY FailoverAssumption DEF Init, SettingsInv, settings
<1>2. attempts \in Seq({}) /\ Len(attempts) = 0
  BY DEF Init
<1>3. ProgressInv
  BY <1>2 DEF Init, ProgressInv, IsSequence
<1>4. FinalInv
  BY <1>2 DEF Init, FinalInv, NoSuccess
<1>5. DecisionInv
  BY DEF Init, Undecided, DecisionInv
<1>6. QED
  BY <1>1, <1>3, <1>4, <1>5 DEF LoopInv

(* A failed attempt is recorded. *)
LEMMA FailureRecorded ==
  ASSUME LoopInv, NEW after, NEW next, NEW where,
         RecordOutcome(FALSE, after, next, where), next.stop # "answered",
         UNCHANGED <<request, index>>, faults' \in Nat,
         faults' # 0 \/ NoSuccess(attempts)
  PROVE  LoopInv'
<1> DEFINE e == [provider |-> provider, success |-> FALSE]
<1>1. /\ attempts' = Append(attempts, e) /\ e.success = FALSE
      /\ phase' = "recording" /\ decision' = next
  BY DEF RecordOutcome, Attempted
<1>2. IsSequence(attempts)
  BY DEF LoopInv, ProgressInv
<1> HIDE DEF e
<1>3. SettingsInv'
  BY DEF LoopInv, SettingsInv, settings
<1>4. ProgressInv'
  BY <1>1, <1>2, Appended DEF LoopInv, ProgressInv
<1>5. FinalInv'
  <2>1. CASE NoSuccess(attempts)
    <3>1. \A k \in 1..Len(attempts) + 1 : k \in 1..Len(attempts) \/ k = Len(attempts) + 1
      BY <1>2, Appended
    <3>2. \A k \in DOMAIN attempts' : ~attempts'[k].success
      BY <1>1, <1>2, <2>1, <3>1, Appended DEF NoSuccess
    <3>3. QED
      BY <3>2 DEF FinalInv, NoSuccess
  <2>2. QED
    BY <2>1 DEF FinalInv
<1>6. DecisionInv'
  BY <1>1 DEF DecisionInv
<1>7. QED
  BY <1>3, <1>4, <1>5, <1>6 DEF LoopInv

LEMMA DecisionsNeverAnswer ==
  /\ \A retryable, number : \A d \in RetryDecisions(retryable, number) : d.stop # "answered"
  /\ \A status, number : \A d \in StatusDecisions(status, number) : d.stop # "answered"
<1>1. \A retryable, number : \A d \in RetryDecisions(retryable, number) : d.stop # "answered"
  BY DEF RetryDecisions, Stop
<1>2. \A number : ImmediateFailover(number).stop # "answered"
  BY DEF ImmediateFailover, Stop
<1>3. \A status, number : \A d \in StatusDecisions(status, number) : d.stop # "answered"
  BY <1>1, <1>2 DEF StatusDecisions
<1>4. QED
  BY <1>1, <1>3

LEMMA CatchRecords ==
  ASSUME LoopInv, NEW expired, Caught(expired),
         UNCHANGED <<request, index>>, faults' \in Nat,
         faults' # 0 \/ NoSuccess(attempts)
  PROVE  LoopInv'
<1>1. PICK d \in (IF expired /\ byDeadline THEN {Stop("total_request_deadline_exceeded")}
                  ELSE RetryDecisions(settings.retryNetwork, CallNumber)) :
        RecordOutcome(FALSE, FailedRuntimeOf(runtime[provider]), d, "catch")
  BY DEF Caught
<1>2. d.stop # "answered"
  BY <1>1, DecisionsNeverAnswer DEF Stop
<1>3. QED
  BY <1>1, <1>2, FailureRecorded

(* The loop stands still, or ends. *)
LEMMA Unmoved ==
  ASSUME LoopInv, UNCHANGED <<request, index, attempts, faults>>,
         decision' = decision,
         phase' = phase \/ phase' = "answered" \/ (InFlight /\ InFlight')
  PROVE  LoopInv'
<1>1. SettingsInv'
  BY DEF LoopInv, SettingsInv, settings
<1>2. ProgressInv'
  BY DEF LoopInv, ProgressInv, settings
<1>3. FinalInv'
  BY DEF LoopInv, ProgressInv, FinalInv, NoSuccess
<1>4. QED
  BY <1>1, <1>2, <1>3 DEF LoopInv, DecisionInv

LEMMA NextIterationKeeps ==
  ASSUME LoopInv, NextIteration, UNCHANGED <<request, faults>>,
         phase \in {"recording", "waiting"},
         phase = "recording" => decision.stop # "answered"
  PROVE  LoopInv'
<1>1. SettingsInv'
  BY DEF LoopInv, SettingsInv, settings
<1>2. ProgressInv'
  BY Appended DEF LoopInv, ProgressInv, NextIteration
<1>3. FinalInv'
  BY DEF LoopInv, FinalInv, NoSuccess, NextIteration
<1>4. QED
  BY <1>1, <1>2, <1>3 DEF LoopInv, DecisionInv, NextIteration

LEMMA WaitRejectedKeeps ==
  ASSUME LoopInv, WaitRejected, UNCHANGED <<request, faults>>,
         phase \in {"recording", "waiting"},
         phase = "recording" => decision.stop # "answered"
  PROVE  LoopInv'
<1>1. faults' \in Nat /\ (faults' # 0 \/ NoSuccess(attempts))
  <2>1. faults \in Nat /\ faults' = faults
    BY DEF LoopInv, ProgressInv
  <2>2. faults # 0 \/ NoSuccess(attempts)
    BY DEF LoopInv, FinalInv
  <2>3. QED
    BY <2>1, <2>2
<1>2. CASE stage = "try" /\ timer = "fired"
  <2>1. Caught(TRUE) /\ index' = index
    BY <1>2 DEF WaitRejected
  <2>2. QED
    BY <1>1, <2>1, CatchRecords
<1>3. CASE ~(stage = "try" /\ timer = "fired")
  <2>1. phase' = "answered" /\ UNCHANGED <<index, attempts, decision>>
    BY <1>3 DEF WaitRejected, Answered
  <2>2. QED
    BY <1>1, <2>1, Unmoved
<1>4. QED
  BY <1>2, <1>3

LEMMA BeginCallKeeps ==
  ASSUME LoopInv, BeginCall
  PROVE  LoopInv'
<1>1. SettingsInv'
  BY DEF LoopInv, SettingsInv, settings, BeginCall
<1>2. ProgressInv'
  BY Appended DEF LoopInv, ProgressInv, SettingsInv, BeginCall, MayBegin, LastAttempt, settings
<1>3. FinalInv'
  BY DEF LoopInv, FinalInv, NoSuccess, BeginCall
<1>4. QED
  BY <1>1, <1>2, <1>3 DEF LoopInv, DecisionInv, BeginCall

LEMMA SucceedKeeps ==
  ASSUME LoopInv, Succeed
  PROVE  LoopInv'
<1> DEFINE e == [provider |-> provider, success |-> TRUE]
           next == [Undecided EXCEPT !.stop = "answered"]
<1>1. /\ attempts' = Append(attempts, e) /\ phase' = "recording" /\ decision' = next
      /\ UNCHANGED <<request, index, faults>>
  BY DEF Succeed, RecordOutcome, Attempted
<1>2. next.stop = "answered" /\ ~next.retry
  BY DEF Undecided
<1> HIDE DEF e, next
<1>3. SettingsInv'
  BY <1>1 DEF LoopInv, SettingsInv, settings
<1>4. ProgressInv'
  BY <1>1, Appended DEF LoopInv, ProgressInv
<1>5. FinalInv'
  BY <1>1, <1>2 DEF FinalInv
<1>6. QED
  BY <1>1, <1>2, <1>3, <1>4, <1>5 DEF LoopInv, DecisionInv

(* What was read of a body is recorded, or that it could not be read. *)
LEMMA BodyKeeps ==
  ASSUME LoopInv, InFlight, MalformedOutcome \/ ErrorOutcome, UNCHANGED <<request, index, faults>>
  PROVE  LoopInv'
<1>1. faults' \in Nat /\ (faults' # 0 \/ NoSuccess(attempts))
  BY DEF LoopInv, ProgressInv, FinalInv
<1>2. CASE MalformedOutcome
  <2>1. PICK d \in RetryDecisions(settings.retryMalformed, CallNumber) :
          RecordOutcome(FALSE, FailedRuntimeOf(runtime[provider]), d, "try")
    BY <1>2 DEF MalformedOutcome
  <2>2. d.stop # "answered"
    BY <2>1, DecisionsNeverAnswer
  <2>3. QED
    BY <1>1, <2>1, <2>2, FailureRecorded
<1>3. CASE ErrorOutcome
  <2>1. PICK status \in Statuses : \E d \in StatusDecisions(status, CallNumber) :
          RecordOutcome(FALSE, RuntimeAfter(runtime[provider], status), d, "try")
    BY <1>3 DEF ErrorOutcome
  <2>2. PICK d \in StatusDecisions(status, CallNumber) :
          RecordOutcome(FALSE, RuntimeAfter(runtime[provider], status), d, "try")
    BY <2>1
  <2>3. d.stop # "answered"
    BY <2>2, DecisionsNeverAnswer
  <2>4. QED
    BY <1>1, <2>2, <2>3, FailureRecorded
<1>4. QED
  BY <1>2, <1>3

LEMMA OutcomeKeeps ==
  ASSUME LoopInv, HeadersArrive \/ Malformed \/ ErrorStatus \/ NetworkError
  PROVE  LoopInv'
<1>1. UNCHANGED <<request, index, faults>> /\ InFlight
  BY DEF HeadersArrive, Malformed, ErrorStatus, NetworkError
<1>2. faults' \in Nat /\ (faults' # 0 \/ NoSuccess(attempts))
  BY <1>1 DEF LoopInv, ProgressInv, FinalInv
<1>3. CASE HeadersArrive
  BY <1>1, <1>3, Unmoved DEF HeadersArrive
<1>4. CASE Malformed \/ ErrorStatus
  BY <1>1, <1>4, BodyKeeps DEF Malformed, ErrorStatus
<1>5. CASE NetworkError /\ ~aborted
  BY <1>1, <1>2, <1>5, CatchRecords DEF NetworkError
<1>6. CASE NetworkError /\ aborted
  BY <1>1, <1>6, Unmoved DEF NetworkError, Answered
<1>7. QED
  BY <1>3, <1>4, <1>5, <1>6

LEMMA TimerKeeps ==
  ASSUME LoopInv, TimerFires
  PROVE  LoopInv'
<1>1. UNCHANGED <<request, index, faults>> /\ faults' \in Nat
  BY DEF TimerFires, LoopInv, ProgressInv
<1>2. CASE phase = "calling" /\ Caught(TRUE)
  BY <1>1, <1>2, CatchRecords DEF LoopInv, FinalInv
<1>3. CASE BodyAborted
  BY <1>1, <1>3, BodyKeeps DEF BodyAborted
<1>4. CASE phase = "recording" /\ UNCHANGED <<attempts, runtime, decision, stage, phase>>
  BY <1>1, <1>4, Unmoved
<1>5. QED
  BY <1>2, <1>3, <1>4 DEF TimerFires

LEMMA RecordedKeeps ==
  ASSUME LoopInv, Recorded
  PROVE  LoopInv'
<1>1. /\ UNCHANGED <<request, faults>> /\ phase = "recording" /\ faults' \in Nat
  BY DEF Recorded, LoopInv, ProgressInv
<1>2. CASE decision.stop = "answered" /\ Return
  BY <1>1, <1>2, Unmoved DEF Return
<1>3. CASE \E stop : GiveUp(stop) /\ UNCHANGED <<index, attempts, decision>>
  <2>1. phase' = "answered" /\ UNCHANGED <<index, attempts, decision>>
    BY <1>3 DEF GiveUp, Answered
  <2>2. QED
    BY <1>1, <2>1, Unmoved
<1>4. CASE decision.stop # "answered" /\ NextIteration
  BY <1>1, <1>4, NextIterationKeeps
<1>5. CASE decision.stop # "answered" /\ WaitRejected
  BY <1>1, <1>5, WaitRejectedKeeps
<1>6. CASE /\ decision.stop # "answered" /\ phase' = "waiting"
           /\ UNCHANGED <<index, attempts, decision>>
  <2>1. SettingsInv'
    BY <1>1 DEF LoopInv, SettingsInv, settings
  <2>2. ProgressInv'
    BY <1>1, <1>6 DEF LoopInv, ProgressInv
  <2>3. FinalInv'
    BY <1>1, <1>6 DEF LoopInv, FinalInv, NoSuccess
  <2>4. QED
    BY <1>6, <2>1, <2>2, <2>3 DEF LoopInv, DecisionInv
<1>7. decision.retry => decision.stop # "answered"
  BY DEF LoopInv, DecisionInv
<1>8. QED
  BY <1>2, <1>3, <1>4, <1>5, <1>6, <1>7 DEF Recorded

LEMMA RecordFailsKeeps ==
  ASSUME LoopInv, RecordFails
  PROVE  LoopInv'
<1>1. UNCHANGED <<request, index>> /\ faults' \in Nat /\ faults' # 0
  <2>1. faults \in Nat
    BY DEF LoopInv, ProgressInv
  <2>2. UNCHANGED <<request, index>> /\ faults' = faults + 1
    BY DEF RecordFails
  <2>3. QED
    BY <2>1, <2>2
<1>2. CASE \E expired : Caught(expired)
  BY <1>1, <1>2, CatchRecords
<1>3. CASE phase' = "answered" /\ UNCHANGED <<attempts, decision>>
  <2>1. SettingsInv'
    BY <1>1 DEF LoopInv, SettingsInv, settings
  <2>2. ProgressInv'
    BY <1>1, <1>3 DEF LoopInv, ProgressInv
  <2>3. QED
    BY <1>1, <1>3, <2>1, <2>2 DEF LoopInv, FinalInv, DecisionInv
<1>4. QED
  BY <1>2, <1>3 DEF RecordFails, Answered

LEMMA BeforeTheLoopKeeps ==
  ASSUME LoopInv, RefuseUnroutable \/ Order \/ ClaimFails \/ StopLoop
  PROVE  LoopInv'
<1>1. CASE RefuseUnroutable \/ StopLoop
  <2>1. /\ UNCHANGED <<request, index, attempts, decision, faults>>
        /\ phase' = "answered"
    BY <1>1 DEF RefuseUnroutable, StopLoop, GiveUp, Answered
  <2>2. QED
    BY <2>1, Unmoved DEF LoopInv, ProgressInv
<1>2. CASE ClaimFails
  <2>0. faults \in Nat
    BY DEF LoopInv, ProgressInv
  <2>1. /\ UNCHANGED <<request, index, attempts, decision>>
        /\ phase' = "answered" /\ faults' = faults + 1
    BY <1>2 DEF ClaimFails, Answered
  <2>2. SettingsInv' /\ ProgressInv' /\ FinalInv'
    BY <2>0, <2>1 DEF LoopInv, SettingsInv, settings, ProgressInv, FinalInv
  <2>3. QED
    BY <2>1, <2>2 DEF LoopInv, DecisionInv
<1>3. CASE Order
  <2>1. /\ UNCHANGED <<index, attempts, decision, faults>> /\ phase = "arrived"
        /\ request' = Forget(request)
    BY <1>3 DEF Order
  <2>2. phase' \in {"answered", "loop"}
    BY <1>3 DEF Order, Answered
  <2>3. request'.settings = request.settings /\ DOMAIN request' = DOMAIN request
    BY <2>1 DEF Forget, LoopInv, SettingsInv
  <2>4. SettingsInv'
    BY <2>3 DEF LoopInv, SettingsInv, settings
  <2>5. ProgressInv'
    BY <2>1, <2>2 DEF LoopInv, ProgressInv
  <2>6. FinalInv'
    BY <2>1, <2>2 DEF LoopInv, FinalInv, NoSuccess
  <2>7. QED
    BY <2>1, <2>4, <2>5, <2>6 DEF LoopInv, DecisionInv
<1>4. QED
  BY <1>1, <1>2, <1>3

LEMMA ClientKeeps ==
  ASSUME LoopInv, ClientLeaves
  PROVE  LoopInv'
<1>1. UNCHANGED <<request, faults>> /\ faults' \in Nat
  BY DEF ClientLeaves, LoopInv, ProgressInv
<1>2. CASE phase = "waiting" /\ WaitRejected
  BY <1>1, <1>2, WaitRejectedKeeps
<1>3. CASE BodyAborted /\ index' = index
  BY <1>1, <1>3, BodyKeeps DEF BodyAborted
<1>4. CASE /\ phase' = phase \/ phase' = "answered"
           /\ UNCHANGED <<index, attempts, decision>>
  BY <1>1, <1>4, Unmoved
<1>5. QED
  BY <1>2, <1>3, <1>4 DEF ClientLeaves, Answered

LEMMA LoopInvStep ==
  LoopInv /\ [Next]_vars => LoopInv'
<1> SUFFICES ASSUME LoopInv, [Next]_vars
             PROVE  LoopInv'
  OBVIOUS
<1>1. CASE RefuseUnroutable \/ Order \/ ClaimFails \/ StopLoop
  BY <1>1, BeforeTheLoopKeeps
<1>2. CASE BeginCall
  BY <1>2, BeginCallKeeps
<1>3. CASE Succeed
  BY <1>3, SucceedKeeps
<1>4. CASE HeadersArrive \/ Malformed \/ ErrorStatus \/ NetworkError
  BY <1>4, OutcomeKeeps
<1>5. CASE TimerFires
  BY <1>5, TimerKeeps
<1>6. CASE Recorded
  BY <1>6, RecordedKeeps
<1>7. CASE RecordFails
  BY <1>7, RecordFailsKeeps
<1>8. CASE Resume
  BY <1>8, NextIterationKeeps DEF Resume
<1>9. CASE ClientLeaves
  BY <1>9, ClientKeeps
<1>10. CASE Tick
  BY <1>10, Unmoved DEF Tick, client, LoopInv, ProgressInv
<1>11. CASE UNCHANGED vars
  BY <1>11, Unmoved DEF vars, LoopInv, ProgressInv
<1>12. QED
  BY <1>1, <1>2, <1>3, <1>4, <1>5, <1>6, <1>7, <1>8, <1>9, <1>10, <1>11 DEF Next

(* The loop's calls, attempts and successes agree in every state. *)
THEOREM LoopInvariant == Spec => []LoopInv
<1>1. Init => LoopInv
  BY LoopInvInit
<1>2. LoopInv /\ [Next]_vars => LoopInv'
  BY LoopInvStep
<1>3. QED
  BY <1>1, <1>2, PTL DEF Spec

(* However its attempts fail, whatever the store does and whenever its client
   leaves, a request calls no more providers than its settings allow
   (chatCompletion, retryDecision, immediateFailoverDecision). *)
THEOREM BoundedCalls == Spec => []CallsBounded
<1>1. LoopInv => CallsBounded
  BY Appended DEF LoopInv, ProgressInv, SettingsInv, CallsBounded, Called
<1>2. QED
  BY <1>1, LoopInvariant, PTL

(* Unless the store fails, no provider is called after one that gave a valid
   answer (chatCompletion, whose catch takes a failing record for a failing
   provider). *)
THEOREM FinalSuccess == Spec => []SuccessIsFinal
<1>1. LoopInv => SuccessIsFinal
  BY DEF LoopInv, FinalInv, NoSuccess, SuccessIsFinal
<1>2. QED
  BY <1>1, LoopInvariant, PTL
-----------------------------------------------------------------------------
(* The request. *)

(* The request is one of those that arrive until its ranking is forgotten, and
   its settings stay. *)
RequestInv ==
  /\ \E r \in Requests : request.settings = r.settings
  /\ phase = "arrived" => request \in Requests

InCall == InFlight \/ phase \in {"recording", "waiting"}

PlaceInv ==
  /\ InCall => index <= Len(candidates)
  /\ phase = "arrived" => attempts = <<>> /\ index = 1

ClockInv ==
  /\ timerAt <= settings.deadline
  /\ byDeadline => timerAt = settings.deadline
  /\ timer = "fired" => now >= timerAt
  /\ InFlight => timer = "armed" /\ now <= timerAt

(* What a decision says of the state it was taken in. *)
Grounded(d, number) ==
  /\ d.stop = "none" => d.retry
  /\ d.delay > 0 => settings.backoff > 0
  /\ d.stop = "maximum_attempts_reached" => number >= settings.maxAttempts
  /\ d.stop = "no_more_candidates" => index >= Len(candidates)
  /\ d.stop = "total_request_deadline_exceeded" =>
       2 * now + 3 * settings.maxBackoff >= 2 * settings.deadline
  /\ d.stop = "error_not_retryable" => ~settings.retryNetwork \/ ~settings.retryMalformed

ReasonInv ==
  /\ phase # "answered" => answer = NoAnswer
  /\ phase \in {"recording", "waiting"} => Grounded(decision, Len(attempts))
  /\ StopReasonTrue

ClientInv ==
  /\ phase = "waiting" => settings.backoff > 0
  /\ leftIn = "none" => ~aborted
  /\ leftIn = "calling" => phase = "answered"
  /\ leftIn = "waiting" =>
       \/ phase = "answered"
       \/ /\ phase = "recording" /\ stage = "catch" /\ aborted
          /\ decision.retry => decision.delay > 0

OnceInv ==
  /\ IsInjective(candidates)
  /\ faults = 0 /\ ~aborted =>
       /\ Len(attempts) <= Len(candidates)
       /\ \A k \in 1..Len(attempts) : attempts[k].provider = candidates[k]
       /\ phase \in {"arrived", "loop"} \/ InFlight => Len(attempts) = index - 1
       /\ phase \in {"recording", "waiting"} => Len(attempts) = index

FlowInv ==
  LoopInv /\ RequestInv /\ TypeOK /\ PlaceInv /\ ClockInv /\ ReasonInv /\ ClientInv /\ OnceInv
-----------------------------------------------------------------------------
(* The records of the state. *)
Runtimes == [circuit : Circuits, count : Nat, cooling : BOOLEAN, timeout : Nat]

Attempts == [provider : Providers, success : BOOLEAN]

Decisions == [retry : BOOLEAN, delay : Nat, stop : Stops]

(* The phases in which a client may leave. *)
Phases == {"none", "arrived", "loop", "calling", "validating", "reading", "recording", "waiting"}

LEMMA SettingsFacts ==
  ASSUME RequestInv
  PROVE  /\ settings.maxAttempts \in Nat \ {0} /\ MaxTime \in Nat
         /\ settings.timeout \in 1..MaxTime /\ settings.probeTimeout \in 1..MaxTime
         /\ settings.deadline \in 1..MaxTime
         /\ settings.backoff \in Nat /\ settings.maxBackoff \in Nat
         /\ settings.backoff <= settings.maxBackoff
         /\ settings.multiplier \in Nat \ {0}
<1>1. PICK r \in Requests : request.settings = r.settings
  BY DEF RequestInv
<1>2. QED
  BY <1>1, FailoverAssumption DEF settings

LEMMA DelayBounds ==
  ASSUME RequestInv, NEW number \in Nat \ {0}, NEW d \in Delays(number)
  PROVE  /\ d \in Nat /\ 2 * d <= 3 * settings.maxBackoff
         /\ d > 0 <=> settings.backoff > 0
<1> DEFINE n == number - 1
           b == settings.backoff
           m == settings.multiplier
           Rule(f) == f = [k \in 0..n |-> IF k = 0 THEN b ELSE m * f[k - 1]]
           exponential == CHOOSE f : Rule(f)
           F == [p \in Nat \X (1..n) |-> m * p[1]]
<1>1. n \in Nat /\ b \in Nat /\ m \in Nat \ {0} /\ settings.maxBackoff \in Nat
      /\ b <= settings.maxBackoff
  BY SettingsFacts
<1>2. F \in [Nat \X (1..n) -> Nat]
  <2> HIDE DEF n, m
  <2>1. \A p \in Nat \X (1..n) : m * p[1] \in Nat
    BY <1>1
  <2>2. QED
    BY <2>1
<1>3. PICK h : Recurs(h, n, Nat, b, F)
  <2> HIDE DEF n, m, b, F
  <2>1. QED
    BY <1>1, <1>2, Recursion
<1>4. h \in [0..n -> Nat] /\ h[0] = b /\ \A k \in 1..n : h[k] = m * h[k - 1]
  <2>1. h \in [0..n -> Nat] /\ h[0] = b /\ \A k \in 1..n : h[k] = F[<<h[k - 1], k>>]
    <3> HIDE DEF F, n, b
    <3>1. QED
      BY <1>3 DEF Recurs
  <2> HIDE DEF n, m, b
  <2>2. ASSUME NEW k \in 1..n
        PROVE  F[<<h[k - 1], k>>] = m * h[k - 1]
    <3>1. k - 1 \in 0..n
      BY <1>1
    <3>2. <<h[k - 1], k>> \in Nat \X (1..n)
      BY <2>1, <3>1
    <3>3. QED
      BY <3>2
  <2> HIDE DEF F
  <2>3. QED
    BY <2>1, <2>2
<1>5. Rule(exponential)
  <2> HIDE DEF n, m, b
  <2>1. \A k \in 0..n : k # 0 => k \in 1..n
    BY <1>1
  <2>2. h = [k \in 0..n |-> IF k = 0 THEN b ELSE m * h[k - 1]]
    BY <1>4, <2>1
  <2>3. Rule(h)
    BY <2>2
  <2> HIDE DEF Rule
  <2>4. QED
    BY <2>3
<1> HIDE DEF exponential
<1> DEFINE T == {k \in 0..n : exponential[k] \in Nat /\ (exponential[k] > 0 <=> b > 0)}
<1>6. n \in T
  <2> HIDE DEF n, m, b
  <2>1. 0 \in T
    BY <1>1, <1>5
  <2>2. ASSUME NEW k \in 1..n, k - 1 \in T PROVE k \in T
    <3>1. exponential[k] = m * exponential[k - 1] /\ k \in 0..n
      BY <1>1, <1>5
    <3> DEFINE e == exponential[k - 1]
    <3>2. e \in Nat /\ (e > 0 <=> b > 0)
      BY <2>2
    <3> HIDE DEF e
    <3>3. m * e \in Nat /\ (m * e > 0 <=> e > 0)
      BY <1>1, <3>2
    <3>4. QED
      BY <3>1, <3>2, <3>3 DEF e
  <2> HIDE DEF T
  <2>3. \A k \in 0..n : k \in T
    BY <1>1, <2>1, <2>2, StepInduction
  <2>4. QED
    BY <1>1, <2>3
<1> DEFINE base == IF exponential[n] <= settings.maxBackoff
                   THEN exponential[n] ELSE settings.maxBackoff
<1>7. base \in Nat /\ base <= settings.maxBackoff /\ (base > 0 <=> b > 0)
  BY <1>1, <1>6
<1>8. d \in IF settings.jitter THEN (base + 1) \div 2 .. (3 * base) \div 2 ELSE {base}
  BY Zenon DEF Delays, exponential
<1> HIDE DEF base
<1>9. d = base \/ d \in (base + 1) \div 2 .. (3 * base) \div 2
  BY <1>8
<1>10. /\ (base + 1) \div 2 \in Nat /\ ((base + 1) \div 2 > 0 <=> base > 0)
       /\ (3 * base) \div 2 \in Nat /\ 2 * ((3 * base) \div 2) <= 3 * base
       /\ base = 0 => (3 * base) \div 2 = 0
  BY <1>7
<1> HIDE DEF b
<1>11. d \in Nat /\ 2 * d <= 3 * base /\ (d > 0 <=> base > 0)
  BY <1>7, <1>9, <1>10
<1>12. QED
  BY <1>1, <1>7, <1>11 DEF b
LEMMA StopGrounded ==
  /\ \A reason \in Stops :
       LET d == Stop(reason)
       IN d \in Decisions /\ d.stop = reason /\ ~d.retry /\ d.delay = 0
  /\ {"no_more_candidates", "maximum_attempts_reached", "error_not_retryable",
      "total_request_deadline_exceeded", "none", "answered"} = Stops
  BY DEF Stop, Decisions, Stops

LEMMA RetryGrounded ==
  ASSUME RequestInv, now \in Nat, NEW number \in Nat \ {0}, NEW retryable,
         retryable \in {TRUE, settings.retryNetwork, settings.retryMalformed},
         NEW d \in RetryDecisions(retryable, number)
  PROVE  /\ d \in Decisions /\ Grounded(d, number) /\ d.stop # "answered"
         /\ d.retry => (d.delay > 0 <=> settings.backoff > 0)
<1>0. settings.deadline \in Nat /\ settings.maxBackoff \in Nat
  BY SettingsFacts
<1>1. CASE ~retryable
  <2>1. d = Stop("error_not_retryable")
    BY <1>1 DEF RetryDecisions
  <2>2. ~settings.retryNetwork \/ ~settings.retryMalformed
    BY <1>1
  <2>3. QED
    BY <2>1, <2>2, StopGrounded DEF Grounded
<1>2. CASE retryable /\ LastAttempt(number)
  <2>1. d = Stop("maximum_attempts_reached")
    BY <1>2 DEF RetryDecisions
  <2>2. QED
    BY <1>2, <2>1, StopGrounded DEF Grounded, LastAttempt
<1>3. CASE retryable /\ ~LastAttempt(number) /\ LastCandidate
  <2>1. d = Stop("no_more_candidates")
    BY <1>3 DEF RetryDecisions
  <2>2. QED
    BY <1>3, <2>1, StopGrounded DEF Grounded, LastCandidate
<1>4. CASE retryable /\ ~LastAttempt(number) /\ ~LastCandidate
  <2>1. PICK e \in Delays(number) :
          d = IF now + e >= settings.deadline THEN Stop("total_request_deadline_exceeded")
              ELSE [retry |-> TRUE, delay |-> e, stop |-> "none"]
    BY <1>4 DEF RetryDecisions
  <2>2. e \in Nat /\ 2 * e <= 3 * settings.maxBackoff /\ (e > 0 <=> settings.backoff > 0)
    BY <2>1, DelayBounds
  <2>3. CASE now + e >= settings.deadline
    <3>1. d = Stop("total_request_deadline_exceeded")
      BY <2>1, <2>3
    <3>2. 2 * now + 3 * settings.maxBackoff >= 2 * settings.deadline
      BY <1>0, <2>2, <2>3
    <3>3. QED
      BY <3>1, <3>2, StopGrounded DEF Grounded
  <2>4. CASE ~(now + e >= settings.deadline)
    <3>1. d = [retry |-> TRUE, delay |-> e, stop |-> "none"]
      BY <2>1, <2>4
    <3>2. QED
      BY <2>2, <3>1 DEF Grounded, Decisions, Stops
  <2>5. QED
    BY <2>3, <2>4
<1>5. QED
  BY <1>1, <1>2, <1>3, <1>4

LEMMA StatusGrounded ==
  ASSUME RequestInv, now \in Nat, NEW number \in Nat \ {0}, NEW status,
         NEW d \in StatusDecisions(status, number)
  PROVE  d \in Decisions /\ Grounded(d, number) /\ d.stop # "answered"
<1>1. CASE ~Isolated(status)
  <2>1. d \in RetryDecisions(TRUE, number)
    BY <1>1 DEF StatusDecisions
  <2>2. QED
    BY <2>1, RetryGrounded
<1>2. CASE Isolated(status)
  <2>0. settings.deadline \in Nat /\ settings.maxBackoff \in Nat
    BY SettingsFacts
  <2>1. d = ImmediateFailover(number)
    BY <1>2 DEF StatusDecisions
  <2>2. \/ d = Stop("maximum_attempts_reached") /\ LastAttempt(number)
        \/ d = Stop("no_more_candidates") /\ LastCandidate
        \/ d = Stop("total_request_deadline_exceeded") /\ now >= settings.deadline
        \/ d = [retry |-> TRUE, delay |-> 0, stop |-> "none"]
    BY <2>1 DEF ImmediateFailover
  <2>3. CASE d = Stop("maximum_attempts_reached") /\ LastAttempt(number)
    BY <2>3, StopGrounded DEF Grounded, LastAttempt
  <2>4. CASE d = Stop("no_more_candidates") /\ LastCandidate
    BY <2>4, StopGrounded DEF Grounded, LastCandidate
  <2>5. CASE d = Stop("total_request_deadline_exceeded") /\ now >= settings.deadline
    <3>1. 2 * now + 3 * settings.maxBackoff >= 2 * settings.deadline
      BY <2>0, <2>5
    <3>2. QED
      BY <2>5, <3>1, StopGrounded DEF Grounded
  <2>6. CASE d = [retry |-> TRUE, delay |-> 0, stop |-> "none"]
    BY <2>6 DEF Grounded, Decisions, Stops
  <2>7. QED
    BY <2>2, <2>3, <2>4, <2>5, <2>6
<1>3. QED
  BY <1>1, <1>2

LEMMA CaughtGrounded ==
  ASSUME FlowInv, InCall, NEW expired, Caught(expired), expired => now >= timerAt
  PROVE  \E d \in Decisions :
           /\ Grounded(d, CallNumber) /\ d.stop # "answered"
           /\ d.retry => (d.delay > 0 <=> settings.backoff > 0)
           /\ RecordOutcome(FALSE, FailedRuntimeOf(runtime[provider]), d, "catch")
<1>0. /\ RequestInv /\ now \in Nat /\ timerAt \in Nat /\ CallNumber \in Nat \ {0}
      /\ settings.deadline \in Nat /\ settings.maxBackoff \in Nat
  <2>1. RequestInv /\ now \in Nat /\ timerAt \in Nat
    BY DEF FlowInv, TypeOK
  <2>2. Len(attempts) \in Nat /\ index \in Nat \ {0}
    BY DEF FlowInv, TypeOK
  <2>3. ~InFlight => index <= Len(attempts)
    BY DEF FlowInv, LoopInv, ProgressInv, InCall
  <2>4. CallNumber \in Nat \ {0}
    BY <2>2, <2>3 DEF CallNumber, AttemptNumber
  <2>5. QED
    BY <2>1, <2>4, SettingsFacts
<1>1. PICK d \in (IF expired /\ byDeadline THEN {Stop("total_request_deadline_exceeded")}
                  ELSE RetryDecisions(settings.retryNetwork, CallNumber)) :
        RecordOutcome(FALSE, FailedRuntimeOf(runtime[provider]), d, "catch")
  BY DEF Caught
<1>2. CASE expired /\ byDeadline
  <2>1. d = Stop("total_request_deadline_exceeded")
    BY <1>1, <1>2
  <2>2. now >= settings.deadline
    BY <1>0, <1>2 DEF FlowInv, ClockInv
  <2>3. 2 * now + 3 * settings.maxBackoff >= 2 * settings.deadline
    BY <1>0, <2>2
  <2>4. d \in Decisions /\ Grounded(d, CallNumber) /\ d.stop # "answered" /\ ~d.retry
    BY <2>1, <2>3, StopGrounded DEF Grounded
  <2>5. QED
    BY <1>1, <2>4
<1>3. CASE ~(expired /\ byDeadline)
  <2>1. d \in RetryDecisions(settings.retryNetwork, CallNumber)
    BY <1>1, <1>3
  <2>2. /\ d \in Decisions /\ Grounded(d, CallNumber) /\ d.stop # "answered"
        /\ d.retry => (d.delay > 0 <=> settings.backoff > 0)
    BY <1>0, <2>1, RetryGrounded
  <2>3. QED
    BY <1>1, <2>2
<1>4. QED
  BY <1>2, <1>3
-----------------------------------------------------------------------------
(* An outcome is recorded: of a call, or, once the store has failed or the
   client has left, of one recorded before. *)
Outcome(success, after, d, where) ==
  /\ InCall /\ RecordOutcome(success, after, d, where) /\ Grounded(d, CallNumber)
  /\ phase = "recording" => stage = "try"
  /\ UNCHANGED <<request, route, isHalfOpen, index, now, timerAt, byDeadline, linked, resumeAt, answer>>
  /\ timer' \in {"off", "armed", "fired"} /\ (timer' = "fired" => now >= timerAt)
  /\ faults' \in Nat /\ (faults' = 0 => faults = 0)
  /\ \/ UNCHANGED <<aborted, leftIn>>
     \/ /\ phase = "waiting" /\ aborted' = TRUE /\ leftIn' = "waiting"
        /\ where = "catch" /\ (d.retry => d.delay > 0)
     \/ phase \in {"validating", "reading"} /\ aborted' = TRUE /\ leftIn' = phase
  /\ ~InFlight => faults' # 0 \/ aborted'

LEMMA OutcomeFlows ==
  ASSUME FlowInv, LoopInv',
         NEW success \in BOOLEAN, NEW after \in Runtimes, NEW d \in Decisions,
         NEW where \in {"try", "catch"}, Outcome(success, after, d, where)
  PROVE  FlowInv'
<1> DEFINE e == [provider |-> provider, success |-> success]
<1>1. /\ attempts' = Append(attempts, e) /\ runtime' = [runtime EXCEPT ![provider] = after]
      /\ decision' = d /\ stage' = where /\ phase' = "recording" /\ phase # "answered"
      /\ UNCHANGED <<request, pool, candidates, index, isHalfOpen, now, timerAt, byDeadline,
                     linked, resumeAt, answer>>
  BY DEF Outcome, RecordOutcome, Attempted, InCall, route
<1>2. /\ index \in 1..Len(candidates) /\ candidates \in Seq(Providers)
      /\ Len(candidates) \in Nat /\ provider \in Providers
  BY DEF FlowInv, TypeOK, PlaceInv, Outcome, provider
<1>3. attempts \in Seq(Attempts) /\ Len(attempts) \in Nat /\ e \in Attempts /\ e.provider = provider
  BY <1>2 DEF FlowInv, TypeOK, Attempts
<1> HIDE DEF e
<1>4. /\ attempts' \in Seq(Attempts) /\ Len(attempts') = Len(attempts) + 1
      /\ \A k \in 1..Len(attempts) : attempts'[k] = attempts[k]
      /\ attempts'[Len(attempts) + 1] = e
  BY <1>1, <1>3
<1>5. RequestInv'
  BY <1>1 DEF FlowInv, RequestInv
<1>6. TypeOK'
  <2>1. runtime' \in [Providers -> Runtimes]
    BY <1>1, <1>2 DEF FlowInv, TypeOK, Runtimes
  <2>2. /\ aborted' \in BOOLEAN /\ timer' \in {"off", "armed", "fired"} /\ faults' \in Nat
        /\ leftIn' \in Phases
    BY DEF FlowInv, TypeOK, Outcome, Phases
  <2>3. QED
    BY <1>1, <1>4, <2>1, <2>2 DEF FlowInv, TypeOK, Runtimes, Attempts, Decisions, Phases
<1>7. PlaceInv'
  BY <1>1, <1>2 DEF PlaceInv
<1>8. ClockInv'
  BY <1>1 DEF FlowInv, ClockInv, Outcome, settings
<1>9. ReasonInv'
  <2>1. answer' = NoAnswer
    BY <1>1 DEF FlowInv, ReasonInv
  <2>2. Len(attempts') >= CallNumber /\ CallNumber \in Nat
    BY <1>3, <1>4 DEF CallNumber, AttemptNumber
  <2>3. settings' = settings /\ settings.maxAttempts \in Nat
    BY <1>1, SettingsFacts DEF settings, FlowInv
  <2>4. Grounded(decision, Len(attempts))'
    BY <1>1, <1>4, <1>3, <2>2, <2>3 DEF Grounded, Outcome
  <2>5. StopReasonTrue'
    BY <2>1 DEF StopReasonTrue, NoAnswer
  <2>6. QED
    BY <1>1, <2>1, <2>4, <2>5 DEF ReasonInv
<1>10. ClientInv'
  <2>1. CASE UNCHANGED <<aborted, leftIn>>
    <3>1. leftIn # "calling" /\ leftIn # "waiting"
      BY <1>1 DEF FlowInv, ClientInv, Outcome, InCall
    <3>2. QED
      BY <1>1, <2>1, <3>1 DEF FlowInv, ClientInv
  <2>2. CASE /\ phase = "waiting" /\ aborted' = TRUE /\ leftIn' = "waiting"
             /\ where = "catch" /\ (d.retry => d.delay > 0)
    BY <1>1, <2>2 DEF ClientInv
  <2>3. CASE phase \in {"validating", "reading"} /\ aborted' = TRUE /\ leftIn' = phase
    BY <1>1, <2>3 DEF ClientInv
  <2>4. QED
    BY <2>1, <2>2, <2>3 DEF Outcome
<1>11. OnceInv'
  <2>1. IsInjective(candidates)'
    BY <1>1 DEF FlowInv, OnceInv
  <2>2. ASSUME faults' = 0, ~aborted'
        PROVE  /\ Len(attempts') <= Len(candidates')
               /\ \A k \in 1..Len(attempts') : attempts'[k].provider = candidates'[k]
               /\ Len(attempts') = index'
    <3>1. InFlight /\ faults = 0 /\ ~aborted
      BY <2>2 DEF Outcome
    <3>2. /\ Len(attempts) = index - 1
          /\ \A k \in 1..Len(attempts) : attempts[k].provider = candidates[k]
      BY <3>1 DEF FlowInv, OnceInv
    <3>3. Len(attempts') = index
      BY <1>2, <1>4, <3>2
    <3>4. \A k \in 1..index : k \in 1..Len(attempts) \/ k = Len(attempts) + 1
      BY <1>2, <1>3, <3>2
    <3>5. ASSUME NEW k \in 1..index
          PROVE  attempts'[k].provider = candidates[k]
      <4>1. CASE k \in 1..Len(attempts)
        BY <1>4, <3>2, <4>1
      <4>2. CASE k = Len(attempts) + 1
        <5>1. attempts'[k] = e /\ k = index
          BY <1>2, <1>3, <1>4, <3>2, <4>2
        <5>2. QED
          BY <1>3, <5>1 DEF provider
      <4>3. QED
        BY <3>4, <4>1, <4>2
    <3>6. QED
      BY <1>1, <1>2, <3>3, <3>5
  <2>3. QED
    BY <1>1, <2>1, <2>2 DEF OnceInv
<1>12. QED
  BY <1>5, <1>6, <1>7, <1>8, <1>9, <1>10, <1>11 DEF FlowInv

(* The request is answered. *)
Ends ==
  /\ phase # "answered" /\ phase' = "answered"
  /\ answer' \in [kind : Answers, stop : Stops, alive : BOOLEAN]
  /\ StopReasonTrue'
  /\ UNCHANGED <<index, isHalfOpen, now, timerAt, byDeadline, linked, attempts, decision,
                 stage, resumeAt, timer>>
  /\ pool' \subseteq Providers
  /\ candidates' = candidates \/ (candidates' = <<>> /\ attempts = <<>>)
  /\ request'.settings = request.settings /\ faults' \in Nat /\ (faults' = 0 => faults = 0)
  /\ runtime' \in [Providers -> Runtimes]
  /\ \/ UNCHANGED <<aborted, leftIn>>
     \/ aborted' = TRUE /\ leftIn' = phase

LEMMA EndsFlows ==
  ASSUME FlowInv, LoopInv', Ends
  PROVE  FlowInv'
<1>1. settings' = settings
  BY DEF Ends, settings
<1>2. RequestInv'
  BY DEF FlowInv, RequestInv, Ends
<1>3. TypeOK'
  <2>1. candidates' \in Seq(Providers)
    BY DEF FlowInv, TypeOK, Ends
  <2>2. QED
    BY <2>1 DEF FlowInv, TypeOK, Ends, Runtimes, Phases
<1>4. PlaceInv'
  BY DEF PlaceInv, InCall, Ends
<1>5. ClockInv'
  BY <1>1 DEF FlowInv, ClockInv, Ends
<1>6. ReasonInv'
  BY DEF ReasonInv, Ends
<1>7. ClientInv'
  BY DEF FlowInv, ClientInv, TypeOK, Ends
<1>8. OnceInv'
  <2>1. CASE candidates' = candidates
    BY <2>1 DEF FlowInv, OnceInv, Ends
  <2>2. CASE candidates' = <<>> /\ attempts = <<>>
    <3>1. IsInjective(candidates') /\ Len(attempts') = 0 /\ Len(candidates') = 0
      BY <2>2 DEF IsInjective, Ends
    <3>2. QED
      BY <3>1 DEF OnceInv, Ends
  <2>3. QED
    BY <2>1, <2>2 DEF Ends
<1>9. QED
  BY <1>2, <1>3, <1>4, <1>5, <1>6, <1>7, <1>8 DEF FlowInv

(* The loop goes on to the next candidate. *)
LEMMA IterationFlows ==
  ASSUME FlowInv, LoopInv', NextIteration, timer' = "off",
         phase = "waiting" \/ (phase = "recording" /\ decision.retry /\ decision.delay = 0),
         UNCHANGED <<request, route, isHalfOpen, now, timerAt, byDeadline, client, faults>>
  PROVE  FlowInv'
<1>1. /\ phase' = "loop" /\ index' = index + 1 /\ phase # "answered" /\ settings' = settings
      /\ UNCHANGED <<runtime, attempts, decision, stage, resumeAt, answer, request, pool,
                     candidates, isHalfOpen, now, timerAt, byDeadline, aborted, linked, leftIn,
                     faults>>
  BY DEF NextIteration, route, client, settings
<1>2. index \in 1..Len(candidates) /\ candidates \in Seq(Providers)
  BY DEF FlowInv, TypeOK, PlaceInv, InCall
<1>3. RequestInv' /\ PlaceInv'
  BY <1>1 DEF FlowInv, RequestInv, PlaceInv, InCall
<1>4. TypeOK'
  BY <1>1, <1>2 DEF FlowInv, TypeOK
<1>5. ClockInv'
  BY <1>1 DEF FlowInv, ClockInv
<1>6. ReasonInv'
  BY <1>1 DEF FlowInv, ReasonInv, StopReasonTrue, NoAnswer
<1>7. ClientInv'
  BY <1>1 DEF FlowInv, ClientInv
<1>8. OnceInv'
  BY <1>1, <1>2 DEF FlowInv, OnceInv
<1>9. QED
  BY <1>3, <1>4, <1>5, <1>6, <1>7, <1>8 DEF FlowInv

(* A step that leaves the loop where it is. *)
LEMMA StillFlows ==
  ASSUME FlowInv, LoopInv',
         UNCHANGED <<request, route, isHalfOpen, index, runtime, timerAt, byDeadline, linked,
                     attempts, stage, decision, resumeAt, answer, faults>>,
         phase' = phase \/ (InFlight /\ InFlight'),
         now' \in Nat, now' >= now, phase = "answered" => now' = now,
         timer' \in {"off", "armed", "fired"}, timer' = "fired" => now' >= timerAt,
         InFlight => timer' = "armed" /\ now' <= timerAt,
         \/ UNCHANGED <<aborted, leftIn>>
         \/ aborted' = TRUE /\ leftIn' = phase /\ phase \in {"arrived", "loop", "recording"}
  PROVE  FlowInv'
<1>1. /\ settings' = settings
      /\ UNCHANGED <<request, pool, candidates, index, runtime, isHalfOpen, timerAt, byDeadline,
                     linked, attempts, stage, decision, resumeAt, answer, faults>>
      /\ phase' = phase \/ (InFlight /\ InFlight')
  BY DEF route, settings
<1>2. RequestInv' /\ PlaceInv'
  BY <1>1 DEF FlowInv, RequestInv, PlaceInv, InCall
<1>3. TypeOK'
  <2>1. /\ aborted' \in BOOLEAN
        /\ leftIn' \in Phases
    BY DEF FlowInv, TypeOK, Phases
  <2>2. QED
    BY <1>1, <2>1 DEF FlowInv, TypeOK, Phases
<1>4. ClockInv'
  BY <1>1 DEF FlowInv, ClockInv
<1>5. ReasonInv'
  <2>1. now \in Nat /\ settings.deadline \in Nat /\ settings.maxBackoff \in Nat
    BY SettingsFacts DEF FlowInv, TypeOK
  <2>2. phase \in {"recording", "waiting"} => Grounded(decision, Len(attempts))'
    BY <1>1, <2>1 DEF FlowInv, ReasonInv, Grounded
  <2>3. StopReasonTrue'
    <3>1. CASE phase = "answered"
      BY <1>1, <3>1 DEF FlowInv, ReasonInv, StopReasonTrue
    <3>2. CASE phase # "answered"
      BY <1>1, <3>2 DEF FlowInv, ReasonInv, StopReasonTrue, NoAnswer
    <3>3. QED
      BY <3>1, <3>2
  <2>4. QED
    BY <1>1, <2>2, <2>3 DEF FlowInv, ReasonInv
<1>6. ClientInv'
  BY <1>1 DEF FlowInv, ClientInv
<1>7. OnceInv'
  BY <1>1 DEF FlowInv, OnceInv
<1>8. QED
  BY <1>2, <1>3, <1>4, <1>5, <1>6, <1>7 DEF FlowInv
-----------------------------------------------------------------------------
LEMMA RuntimesFacts ==
  ASSUME NEW r \in Runtimes
  PROVE  /\ ClosedRuntime(r) \in Runtimes /\ FailedRuntimeOf(r) \in Runtimes
         /\ CooledRuntime(r) \in Runtimes
         /\ \A status : RuntimeAfter(r, status) \in Runtimes
<1>1. ClosedRuntime(r) \in Runtimes
  BY DEF ClosedRuntime, Runtimes, Circuits
<1>2. FailedRuntimeOf(r) \in Runtimes
  <2> DEFINE count == IF isHalfOpen /\ r.count + 1 < 3 THEN 3 ELSE r.count + 1
             least == IF count > 3 THEN 3 ELSE count
             circuit == IF isHalfOpen \/ count >= 3 THEN "open" ELSE r.circuit
  <2>1. /\ r.circuit \in Circuits /\ r.count \in Nat /\ "open" \in Circuits
        /\ r = [circuit |-> r.circuit, count |-> r.count, cooling |-> r.cooling,
                timeout |-> r.timeout]
        /\ r.cooling \in BOOLEAN /\ r.timeout \in Nat
    BY DEF Runtimes, Circuits
  <2>2. least \in Nat /\ circuit \in Circuits
    BY <2>1
  <2>3. FailedRuntimeOf(r) = [r EXCEPT !.count = least, !.circuit = circuit]
    BY DEF FailedRuntimeOf
  <2> HIDE DEF least, circuit
  <2>4. QED
    BY <2>1, <2>2, <2>3 DEF Runtimes
<1>3. CooledRuntime(r) \in Runtimes
  BY <1>1 DEF CooledRuntime, Runtimes, Circuits
<1>4. QED
  BY <1>1, <1>2, <1>3 DEF RuntimeAfter

(* A call in hand is of a provider. *)
LEMMA InHand ==
  ASSUME FlowInv, InCall
  PROVE  /\ provider \in Providers /\ runtime[provider] \in Runtimes /\ now \in Nat
         /\ CallNumber \in Nat \ {0} /\ RequestInv /\ faults \in Nat
         /\ timer \in {"off", "armed", "fired"}
<1>1. provider \in Providers
  BY DEF FlowInv, TypeOK, PlaceInv, provider
<1>2. Len(attempts) \in Nat /\ index \in Nat \ {0}
  BY DEF FlowInv, TypeOK
<1>3. ~InFlight => index <= Len(attempts)
  BY DEF FlowInv, LoopInv, ProgressInv, InCall
<1>4. CallNumber \in Nat \ {0}
  BY <1>2, <1>3 DEF CallNumber, AttemptNumber
<1>5. QED
  BY <1>1, <1>4 DEF FlowInv, TypeOK, Runtimes

LEMMA CaughtFlows ==
  ASSUME FlowInv, LoopInv', InCall, NEW expired, Caught(expired), expired => now >= timerAt,
         phase = "recording" => stage = "try",
         UNCHANGED <<request, route, isHalfOpen, index, now, timerAt, byDeadline, linked, resumeAt, answer>>,
         timer' \in {"off", "armed", "fired"}, timer' = "fired" => now >= timerAt,
         faults' \in Nat, faults' = 0 => faults = 0,
         \/ UNCHANGED <<aborted, leftIn>>
         \/ phase = "waiting" /\ aborted' = TRUE /\ leftIn' = "waiting",
         ~InFlight => faults' # 0 \/ aborted'
  PROVE  FlowInv'
<1>1. PICK d \in Decisions :
        /\ Grounded(d, CallNumber) /\ d.stop # "answered"
        /\ d.retry => (d.delay > 0 <=> settings.backoff > 0)
        /\ RecordOutcome(FALSE, FailedRuntimeOf(runtime[provider]), d, "catch")
  BY CaughtGrounded
<1>2. FailedRuntimeOf(runtime[provider]) \in Runtimes
  BY InHand, RuntimesFacts
<1>3. phase = "waiting" => settings.backoff > 0
  BY DEF FlowInv, ClientInv
<1>4. Outcome(FALSE, FailedRuntimeOf(runtime[provider]), d, "catch")
  BY <1>1, <1>3 DEF Outcome
<1>5. QED
  BY <1>2, <1>4, OutcomeFlows

(* What was read of a body is recorded, even if reading it was aborted. *)
LEMMA BodyFlows ==
  ASSUME FlowInv, LoopInv', InFlight, MalformedOutcome \/ ErrorOutcome,
         UNCHANGED <<request, route, isHalfOpen, index, now, timerAt, byDeadline, linked, resumeAt,
                     answer, faults>>,
         timer' \in {"off", "armed", "fired"}, timer' = "fired" => now >= timerAt,
         \/ UNCHANGED <<aborted, leftIn>>
         \/ phase \in {"validating", "reading"} /\ aborted' = TRUE /\ leftIn' = phase
  PROVE  FlowInv'
<1>1. /\ InCall /\ provider \in Providers /\ runtime[provider] \in Runtimes /\ now \in Nat
      /\ CallNumber \in Nat \ {0} /\ RequestInv /\ faults \in Nat
  BY InHand DEF InCall
<1>2. ASSUME NEW after \in Runtimes, NEW d \in Decisions,
             RecordOutcome(FALSE, after, d, "try"), Grounded(d, CallNumber)
      PROVE  FlowInv'
  <2>1. Outcome(FALSE, after, d, "try")
    BY <1>1, <1>2 DEF Outcome
  <2>2. QED
    BY <2>1, OutcomeFlows
<1>3. CASE MalformedOutcome
  <2>1. PICK d \in RetryDecisions(settings.retryMalformed, CallNumber) :
          RecordOutcome(FALSE, FailedRuntimeOf(runtime[provider]), d, "try")
    BY <1>3 DEF MalformedOutcome
  <2>2. settings.retryMalformed \in {TRUE, settings.retryNetwork, settings.retryMalformed}
    OBVIOUS
  <2>3. d \in Decisions /\ Grounded(d, CallNumber)
    BY <1>1, <2>1, <2>2, RetryGrounded
  <2>4. QED
    BY <1>1, <1>2, <2>1, <2>3, RuntimesFacts
<1>4. CASE ErrorOutcome
  <2>1. PICK status \in Statuses : \E d \in StatusDecisions(status, CallNumber) :
          RecordOutcome(FALSE, RuntimeAfter(runtime[provider], status), d, "try")
    BY <1>4 DEF ErrorOutcome
  <2>2. PICK d \in StatusDecisions(status, CallNumber) :
          RecordOutcome(FALSE, RuntimeAfter(runtime[provider], status), d, "try")
    BY <2>1
  <2>3. d \in Decisions /\ Grounded(d, CallNumber)
    BY <1>1, <2>2, StatusGrounded
  <2>4. RuntimeAfter(runtime[provider], status) \in Runtimes
    BY <1>1, RuntimesFacts
  <2>5. QED
    BY <1>2, <2>2, <2>3, <2>4
<1>5. QED
  BY <1>3, <1>4

LEMMA SucceedFlows ==
  ASSUME FlowInv, LoopInv', Succeed
  PROVE  FlowInv'
<1> DEFINE d == [Undecided EXCEPT !.stop = "answered"]
<1>1. /\ InFlight /\ InCall
      /\ UNCHANGED <<request, route, isHalfOpen, index, now, timerAt, byDeadline, linked, resumeAt,
                     answer, timer, faults, aborted, leftIn>>
      /\ RecordOutcome(TRUE, ClosedRuntime(runtime[provider]), d, "try")
  BY DEF Succeed, clock, client, InCall
<1>2. /\ timer \in {"off", "armed", "fired"} /\ faults \in Nat
      /\ timer = "fired" => now >= timerAt
  BY DEF FlowInv, TypeOK, ClockInv
<1>3. d \in Decisions /\ Grounded(d, CallNumber)
  <2>1. Undecided \in Decisions /\ "answered" \in Stops
    BY DEF Undecided, Decisions, Stops
  <2>2. d \in Decisions
    BY <2>1 DEF Decisions
  <2>3. d.stop = "answered" /\ d.delay = 0
    BY DEF Undecided
  <2> HIDE DEF d
  <2>4. QED
    BY <2>2, <2>3 DEF Grounded
<1> HIDE DEF d
<1>4. ClosedRuntime(runtime[provider]) \in Runtimes
  BY <1>1, InHand, RuntimesFacts
<1>5. Outcome(TRUE, ClosedRuntime(runtime[provider]), d, "try")
  BY <1>1, <1>2, <1>3 DEF Outcome
<1>6. QED
  BY <1>3, <1>4, <1>5, OutcomeFlows

(* An answer that gives no stop reason. *)
LEMMA AnsweredFlows ==
  ASSUME FlowInv, LoopInv', phase # "answered", NEW kind \in Answers, Answered(kind, "none"),
         kind \notin {"failed", "unavailable"},
         UNCHANGED <<request, route, isHalfOpen, index, runtime, clock, linked, attempts, stage, decision,
                     resumeAt>>,
         faults' \in Nat, faults' = 0 => faults = 0,
         UNCHANGED <<aborted, leftIn>> \/ (aborted' = TRUE /\ leftIn' = phase)
  PROVE  FlowInv'
<1>1. /\ answer' \in [kind : Answers, stop : Stops, alive : BOOLEAN] /\ StopReasonTrue'
  BY DEF Answered, Stops, StopReasonTrue
<1>2. pool' \subseteq Providers /\ runtime' \in [Providers -> Runtimes]
  BY DEF FlowInv, TypeOK, Runtimes, route
<1>3. Ends
  BY <1>1, <1>2 DEF Ends, Answered, clock, route
<1>4. QED
  BY <1>3, EndsFlows

LEMMA OutcomesFlow ==
  ASSUME FlowInv, LoopInv', HeadersArrive \/ Malformed \/ ErrorStatus \/ NetworkError
  PROVE  FlowInv'
<1>1. /\ InFlight /\ InCall
      /\ UNCHANGED <<request, route, isHalfOpen, index, now, timerAt, byDeadline, linked, resumeAt,
                     timer, faults, aborted, leftIn>>
  BY DEF HeadersArrive, Malformed, ErrorStatus, NetworkError, clock, client, InCall
<1>2. /\ timer' \in {"off", "armed", "fired"} /\ faults' \in Nat /\ now \in Nat
      /\ timer' = "armed" /\ now <= timerAt
  BY <1>1 DEF FlowInv, TypeOK, ClockInv
<1>3. CASE HeadersArrive
  <2>1. UNCHANGED <<runtime, attempts, stage, decision, answer>> /\ InFlight'
    BY <1>3 DEF HeadersArrive
  <2>2. QED
    BY <1>1, <1>2, <2>1, StillFlows
<1>4. CASE Malformed \/ ErrorStatus
  <2>1. (MalformedOutcome \/ ErrorOutcome) /\ answer' = answer
    BY <1>4 DEF Malformed, ErrorStatus
  <2>2. QED
    BY <1>1, <1>2, <2>1, BodyFlows
<1>5. CASE NetworkError /\ ~aborted
  <2>1. Caught(FALSE) /\ answer' = answer
    BY <1>5 DEF NetworkError
  <2>2. QED
    BY <1>1, <1>2, <2>1, CaughtFlows
<1>6. CASE NetworkError /\ aborted
  <2>1. Answered("client gone", "none") /\ UNCHANGED <<runtime, attempts, decision, stage>>
    BY <1>6 DEF NetworkError
  <2>2. "client gone" \in Answers /\ phase # "answered" /\ UNCHANGED clock
    BY <1>1, <1>6 DEF Answers, NetworkError
  <2>3. QED
    BY <1>1, <1>2, <2>1, <2>2, AnsweredFlows
<1>7. QED
  BY <1>3, <1>4, <1>5, <1>6

LEMMA TimerFlows ==
  ASSUME FlowInv, LoopInv', TimerFires
  PROVE  FlowInv'
<1>1. /\ UNCHANGED <<request, route, isHalfOpen, index, now, timerAt, byDeadline, aborted, linked,
                     leftIn, resumeAt, answer, faults>>
      /\ timer' = "fired" /\ now >= timerAt
  BY DEF TimerFires, TimerDue, client
<1>2. now \in Nat /\ faults \in Nat
  BY DEF FlowInv, TypeOK
<1>3. CASE phase = "calling" /\ Caught(TRUE)
  <2>1. Caught(TRUE) /\ InCall /\ InFlight
    BY <1>3 DEF InCall
  <2>2. QED
    BY <1>1, <1>2, <1>3, <2>1, CaughtFlows
<1>4. CASE BodyAborted
  <2>1. (MalformedOutcome \/ ErrorOutcome) /\ InFlight
    BY <1>4 DEF BodyAborted
  <2>2. QED
    BY <1>1, <1>2, <2>1, BodyFlows
<1>5. CASE phase = "recording" /\ UNCHANGED <<attempts, runtime, decision, stage, phase>>
  BY <1>1, <1>2, <1>5, StillFlows
<1>6. QED
  BY <1>3, <1>4, <1>5 DEF TimerFires

LEMMA TickFlows ==
  ASSUME FlowInv, LoopInv', Tick \/ UNCHANGED vars
  PROVE  FlowInv'
<1>1. now \in Nat /\ timerAt \in Nat /\ timer \in {"off", "armed", "fired"}
      /\ (timer = "fired" => now >= timerAt)
      /\ (InFlight => timer = "armed" /\ now <= timerAt)
  BY DEF FlowInv, TypeOK, ClockInv
<1>2. CASE Tick
  BY <1>1, <1>2, StillFlows DEF Tick, client
<1>3. CASE UNCHANGED vars
  BY <1>1, <1>3, StillFlows DEF vars, route
<1>4. QED
  BY <1>2, <1>3

LEMMA BeginFlows ==
  ASSUME FlowInv, LoopInv', BeginCall
  PROVE  FlowInv'
<1>1. /\ phase = "loop" /\ phase' = "calling" /\ timer' = "armed" /\ settings' = settings
      /\ timerAt' = now + CallTimeout(provider) /\ byDeadline' = (Remaining <= TimeoutOf(provider))
      /\ linked' = ~aborted /\ stage' = "try" /\ isHalfOpen' \in BOOLEAN
      /\ UNCHANGED <<request, pool, candidates, index, runtime, now, aborted, leftIn, attempts,
                     decision, resumeAt, answer, faults>>
  BY DEF BeginCall, route, settings
<1>2. index \in 1..Len(candidates) /\ provider \in Providers /\ Remaining > 0
  BY DEF FlowInv, TypeOK, BeginCall, MayBegin, provider
<1>3. /\ settings.deadline \in Nat /\ now \in Nat /\ aborted \in BOOLEAN
      /\ settings.timeout \in Nat /\ settings.probeTimeout \in Nat
  BY SettingsFacts DEF FlowInv, TypeOK
<1>4. TimeoutOf(provider) \in Nat
  <2>1. runtime[provider].timeout \in Nat
    BY <1>2 DEF FlowInv, TypeOK
  <2>2. QED
    BY <1>3, <2>1 DEF TimeoutOf
<1>5. /\ timerAt' \in Nat /\ timerAt' <= settings.deadline /\ now <= timerAt'
      /\ (byDeadline' => timerAt' = settings.deadline) /\ byDeadline' \in BOOLEAN
  <2> DEFINE limit == TimeoutOf(provider)
             left == settings.deadline - now
  <2>1. /\ timerAt' = now + (IF limit <= left THEN limit ELSE left)
        /\ left > 0 /\ limit \in Nat /\ left \in Int
    BY <1>1, <1>2, <1>3, <1>4 DEF CallTimeout, Remaining
  <2>2. (byDeadline' => left <= limit) /\ byDeadline' \in BOOLEAN
    <3>1. byDeadline' = (left <= limit)
      BY <1>1, Zenon DEF Remaining
    <3> HIDE DEF limit, left
    <3>2. CASE left <= limit
      BY <3>1, <3>2, Zenon
    <3>3. CASE ~(left <= limit)
      <4>1. (left <= limit) = FALSE
        BY <3>3
      <4>2. byDeadline' = FALSE
        BY <3>1, <4>1, Zenon
      <4>3. QED
        BY <4>2, Zenon
    <3>4. QED
      BY <3>2, <3>3
  <2> HIDE DEF limit
  <2>3. limit <= left \/ left < limit
    BY <2>1
  <2>4. CASE limit <= left
    BY <1>3, <2>1, <2>2, <2>4
  <2>5. CASE left < limit
    BY <1>3, <2>1, <2>2, <2>5
  <2>6. QED
    BY <2>3, <2>4, <2>5, Zenon
<1>6. RequestInv' /\ PlaceInv'
  BY <1>1, <1>2 DEF FlowInv, RequestInv, PlaceInv, InCall
<1>7. TypeOK'
  BY <1>1, <1>3, <1>5 DEF FlowInv, TypeOK
<1>8. ClockInv'
  BY <1>1, <1>5 DEF ClockInv
<1>9. ReasonInv'
  BY <1>1 DEF FlowInv, ReasonInv, StopReasonTrue, NoAnswer
<1>10. ClientInv'
  BY <1>1 DEF FlowInv, ClientInv
<1>11. OnceInv'
  BY <1>1 DEF FlowInv, OnceInv
<1>12. QED
  BY <1>6, <1>7, <1>8, <1>9, <1>10, <1>11 DEF FlowInv
-----------------------------------------------------------------------------
LEMMA GiveUpTrue ==
  ASSUME FlowInv, NEW stop \in Stops, GiveUp(stop),
         UNCHANGED <<request, index, candidates, attempts, now>>,
         Grounded([stop |-> stop, retry |-> FALSE, delay |-> 0], Len(attempts)),
         stop # "answered"
  PROVE  /\ phase' = "answered" /\ StopReasonTrue'
         /\ answer' \in [kind : Answers, stop : Stops, alive : BOOLEAN]
<1>1. /\ phase' = "answered" /\ answer'.stop = stop
      /\ answer' \in [kind : Answers, stop : Stops, alive : BOOLEAN]
  BY DEF GiveUp, Answered, Answers
<1>2. settings' = settings
  BY DEF settings
<1>3. StopReasonTrue'
  BY <1>1, <1>2 DEF StopReasonTrue, Grounded, Stops
<1>4. QED
  BY <1>1, <1>3

LEMMA RefusalFlows ==
  ASSUME FlowInv, LoopInv', RefuseUnroutable \/ ClaimFails \/ StopLoop
  PROVE  FlowInv'
<1>1. faults \in Nat
  BY DEF FlowInv, TypeOK
<1>2. CASE RefuseUnroutable
  <2>1. PICK kind \in {"no providers", "incompatible", "quota exhausted"} : Answered(kind, "none")
    BY <1>2 DEF RefuseUnroutable
  <2>2. kind \in Answers /\ kind \notin {"failed", "unavailable"}
    BY DEF Answers
  <2>3. /\ UNCHANGED <<request, route, isHalfOpen, index, runtime, clock, client, attempts, stage, decision,
                       resumeAt, faults>> /\ phase = "arrived"
    BY <1>2 DEF RefuseUnroutable
  <2>4. UNCHANGED <<aborted, leftIn, linked>>
    BY <2>3 DEF client
  <2>5. QED
    BY <1>1, <2>1, <2>2, <2>3, <2>4, AnsweredFlows
<1>3. CASE ClaimFails
  <2>1. /\ Answered("store error", "none") /\ faults' = faults + 1
        /\ UNCHANGED <<request, route, isHalfOpen, index, runtime, clock, client, attempts, stage, decision,
                       resumeAt>> /\ phase = "arrived"
    BY <1>3 DEF ClaimFails
  <2>2. UNCHANGED <<aborted, leftIn, linked>>
    BY <2>1 DEF client
  <2>3. "store error" \in Answers
    BY DEF Answers
  <2>4. faults' \in Nat /\ faults' # 0
    <3>1. faults' = faults + 1
      BY <1>3 DEF ClaimFails
    <3>2. QED
      BY <1>1, <3>1
  <2>5. QED
    BY <2>1, <2>2, <2>3, <2>4, AnsweredFlows
<1>4. CASE StopLoop
  <2>1. /\ phase = "loop" /\ GiveUp(StopReason)
        /\ UNCHANGED <<request, pool, candidates, isHalfOpen, index, runtime, now, timer, timerAt, byDeadline,
                       aborted, linked, leftIn, attempts, stage, decision, resumeAt, faults>>
    BY <1>4 DEF StopLoop, route, clock, client
  <2>2. /\ settings.deadline \in Nat /\ now \in Nat /\ settings.maxBackoff \in Nat
        /\ Len(candidates) \in Nat /\ index \in Nat
    BY SettingsFacts DEF FlowInv, TypeOK
  <2>3. StopReason \in Stops /\ StopReason # "answered" /\ StopReason # "none"
    BY DEF StopReason, Stops
  <2>4. Grounded([stop |-> StopReason, retry |-> FALSE, delay |-> 0], Len(attempts))
    BY <1>4, <2>2 DEF Grounded, StopReason, StopLoop, MayBegin, LastAttempt, Remaining
  <2>5. /\ phase' = "answered" /\ StopReasonTrue'
        /\ answer' \in [kind : Answers, stop : Stops, alive : BOOLEAN]
    BY <2>1, <2>3, <2>4, GiveUpTrue
  <2>6. Ends
    BY <1>1, <2>1, <2>5 DEF Ends, FlowInv, TypeOK, Runtimes
  <2>7. QED
    BY <2>6, EndsFlows
<1>5. QED
  BY <1>2, <1>3, <1>4

LEMMA WaitRejectedFlows ==
  ASSUME FlowInv, LoopInv', WaitRejected, faults' = faults,
         phase = "waiting" \/ (phase = "recording" /\ decision.delay > 0),
         UNCHANGED <<request, route, isHalfOpen, clock, linked>>,
         \/ aborted /\ UNCHANGED <<aborted, leftIn>>
         \/ phase = "waiting" /\ aborted' = TRUE /\ leftIn' = "waiting"
  PROVE  FlowInv'
<1>1. /\ timer \in {"off", "armed", "fired"} /\ (timer = "fired" => now >= timerAt)
      /\ faults \in Nat /\ InCall /\ phase # "answered"
      /\ UNCHANGED <<request, pool, candidates, now, timer, timerAt, byDeadline, linked, faults>>
  BY DEF FlowInv, TypeOK, ClockInv, InCall, clock, route
<1>2. CASE stage = "try" /\ timer = "fired"
  <2>1. Caught(TRUE) /\ UNCHANGED <<index, resumeAt, answer>>
    BY <1>2 DEF WaitRejected
  <2>2. aborted'
    OBVIOUS
  <2>3. UNCHANGED <<aborted, leftIn>> \/ (phase = "waiting" /\ aborted' = TRUE /\ leftIn' = "waiting")
    OBVIOUS
  <2>4. UNCHANGED <<request, route, isHalfOpen, index, now, timerAt, byDeadline, linked, resumeAt, answer>>
    BY <1>1, <2>1
  <2>5. QED
    BY <1>1, <1>2, <2>1, <2>2, <2>3, <2>4, CaughtFlows
<1>3. CASE ~(stage = "try" /\ timer = "fired")
  <2>1. /\ Answered("client gone", "none")
        /\ UNCHANGED <<index, runtime, attempts, decision, stage, resumeAt>>
    BY <1>3 DEF WaitRejected
  <2>2. "client gone" \in Answers
    BY DEF Answers
  <2>3. UNCHANGED <<aborted, leftIn>> \/ (aborted' = TRUE /\ leftIn' = phase)
    OBVIOUS
  <2>4. QED
    BY <1>1, <2>1, <2>2, <2>3, AnsweredFlows
<1>4. QED
  BY <1>2, <1>3

LEMMA RecordedFlows ==
  ASSUME FlowInv, LoopInv', Recorded
  PROVE  FlowInv'
<1>1. /\ phase = "recording"
      /\ UNCHANGED <<request, route, isHalfOpen, now, timerAt, byDeadline, client, faults>>
      /\ UNCHANGED <<pool, candidates, aborted, linked, leftIn>>
  BY DEF Recorded, route, client
<1>2. /\ faults \in Nat /\ decision \in Decisions /\ runtime \in [Providers -> Runtimes]
      /\ pool \subseteq Providers /\ now \in Nat /\ decision.delay \in Nat
      /\ timer \in {"off", "armed", "fired"}
  BY DEF FlowInv, TypeOK, Decisions, Runtimes
<1>3. CASE decision.stop = "answered" /\ Return /\ UNCHANGED timer
  <2>1. /\ phase' = "answered" /\ StopReasonTrue'
        /\ answer' \in [kind : Answers, stop : Stops, alive : BOOLEAN]
    BY <1>3 DEF Return, StopReasonTrue, Answers, Stops, BodyAlive
  <2>2. Ends
    BY <1>1, <1>2, <1>3, <2>1 DEF Ends, Return
  <2>3. QED
    BY <2>2, EndsFlows
<1>4. CASE /\ decision.stop # "answered" /\ ~decision.retry /\ GiveUp(decision.stop)
           /\ UNCHANGED <<index, runtime, attempts, decision, stage, resumeAt, timer>>
  <2>1. decision.stop \in Stops /\ decision.stop # "none" /\ Grounded(decision, Len(attempts))
    BY <1>1, <1>2, <1>4 DEF FlowInv, ReasonInv, Grounded, Decisions
  <2>2. Grounded([stop |-> decision.stop, retry |-> FALSE, delay |-> 0], Len(attempts))
    BY <2>1 DEF Grounded
  <2>3. /\ phase' = "answered" /\ StopReasonTrue'
        /\ answer' \in [kind : Answers, stop : Stops, alive : BOOLEAN]
    BY <1>1, <1>4, <2>1, <2>2, GiveUpTrue
  <2>4. Ends
    BY <1>1, <1>2, <1>4, <2>3 DEF Ends
  <2>5. QED
    BY <2>4, EndsFlows
<1>5. CASE decision.retry /\ decision.delay = 0 /\ NextIteration /\ timer' = "off"
  BY <1>1, <1>5, IterationFlows
<1>6. CASE decision.retry /\ decision.delay > 0 /\ aborted /\ WaitRejected /\ UNCHANGED timer
  <2>1. UNCHANGED clock
    BY <1>1, <1>6 DEF clock
  <2>2. QED
    BY <1>1, <1>6, <2>1, WaitRejectedFlows
<1>7. CASE /\ decision.retry /\ decision.delay > 0 /\ ~aborted
           /\ phase' = "waiting" /\ resumeAt' = now + decision.delay
           /\ timer' = IF timer = "armed" THEN "off" ELSE timer
           /\ UNCHANGED <<index, runtime, attempts, decision, stage, answer>>
  <2>1. settings' = settings
    BY <1>1 DEF settings
  <2>2. RequestInv' /\ PlaceInv'
    BY <1>1, <1>7 DEF FlowInv, RequestInv, PlaceInv, InCall
  <2>3. TypeOK'
    BY <1>1, <1>2, <1>7 DEF FlowInv, TypeOK
  <2>4. ClockInv'
    BY <1>1, <1>2, <1>7, <2>1 DEF FlowInv, ClockInv
  <2>5. ReasonInv'
    <3>1. Grounded(decision, Len(attempts))'
      BY <1>1, <1>7, <2>1 DEF FlowInv, ReasonInv, Grounded
    <3>2. QED
      BY <1>1, <1>7, <3>1 DEF FlowInv, ReasonInv, StopReasonTrue, NoAnswer
  <2>6. ClientInv'
    <3>1. settings.backoff > 0
      BY <1>1, <1>7 DEF FlowInv, ReasonInv, Grounded
    <3>2. leftIn # "waiting" /\ leftIn # "calling"
      BY <1>1, <1>7 DEF FlowInv, ClientInv
    <3>3. QED
      BY <1>1, <1>7, <2>1, <3>1, <3>2 DEF FlowInv, ClientInv
  <2>7. OnceInv'
    BY <1>1, <1>7 DEF FlowInv, OnceInv
  <2>8. QED
    BY <2>2, <2>3, <2>4, <2>5, <2>6, <2>7 DEF FlowInv
<1>8. QED
  BY <1>3, <1>4, <1>5, <1>6, <1>7 DEF Recorded

LEMMA RecordFailsFlows ==
  ASSUME FlowInv, LoopInv', RecordFails
  PROVE  FlowInv'
<1>1. /\ phase = "recording" /\ InCall
      /\ UNCHANGED <<request, route, isHalfOpen, index, clock, client, resumeAt>>
      /\ UNCHANGED <<now, timer, timerAt, byDeadline, aborted, linked, leftIn>>
  BY DEF RecordFails, clock, client, InCall
<1>2. /\ timer \in {"off", "armed", "fired"} /\ (timer = "fired" => now >= timerAt)
      /\ faults' \in Nat /\ faults' # 0
  <2>1. faults \in Nat /\ faults' = faults + 1
    BY DEF FlowInv, TypeOK, RecordFails
  <2>2. QED
    BY <2>1 DEF FlowInv, TypeOK, ClockInv
<1>3. ASSUME NEW kind \in {"store error", "client gone"}, Answered(kind, "none"),
             UNCHANGED <<runtime, attempts, decision, stage>>
      PROVE  FlowInv'
  <2>1. kind \in Answers /\ kind \notin {"failed", "unavailable"}
    BY DEF Answers
  <2>2. QED
    BY <1>1, <1>2, <1>3, <2>1, AnsweredFlows
<1>4. CASE stage = "try" /\ Caught(timer = "fired") /\ UNCHANGED answer
  BY <1>1, <1>2, <1>4, CaughtFlows
<1>5. QED
  BY <1>3, <1>4 DEF RecordFails

LEMMA ResumeFlows ==
  ASSUME FlowInv, LoopInv', Resume
  PROVE  FlowInv'
BY IterationFlows DEF Resume

LEMMA ClientFlows ==
  ASSUME FlowInv, LoopInv', ClientLeaves
  PROVE  FlowInv'
<1>1. /\ phase # "answered" /\ ~aborted /\ aborted' = TRUE /\ leftIn' = phase
      /\ UNCHANGED <<request, route, isHalfOpen, clock, linked, faults>>
      /\ UNCHANGED <<now, timer, timerAt, byDeadline>>
  BY DEF ClientLeaves, clock
<1>2. /\ timer \in {"off", "armed", "fired"} /\ (timer = "fired" => now >= timerAt)
      /\ faults \in Nat /\ now \in Nat
  BY DEF FlowInv, TypeOK, ClockInv
<1>3. CASE /\ phase = "calling" /\ Answered("client gone", "none")
           /\ UNCHANGED <<index, runtime, attempts, decision, stage, resumeAt>>
  <2>1. "client gone" \in Answers
    BY DEF Answers
  <2>2. QED
    BY <1>1, <1>2, <1>3, <2>1, AnsweredFlows
<1>4. CASE BodyAborted /\ UNCHANGED <<index, resumeAt, answer>>
  <2>1. /\ MalformedOutcome \/ ErrorOutcome
        /\ phase \in {"validating", "reading"} /\ InFlight
    BY <1>4 DEF BodyAborted
  <2>2. QED
    BY <1>1, <1>2, <1>4, <2>1, BodyFlows
<1>5. CASE phase = "waiting" /\ WaitRejected
  BY <1>1, <1>5, WaitRejectedFlows
<1>6. CASE /\ phase \in {"arrived", "loop", "recording"}
           /\ UNCHANGED <<phase, index, runtime, attempts, decision, stage, resumeAt, answer>>
  <2>1. ~InFlight /\ phase' = phase /\ now' = now /\ now >= now /\ timer' = timer
    BY <1>1, <1>2, <1>6
  <2>2. timer' \in {"off", "armed", "fired"} /\ (timer' = "fired" => now' >= timerAt)
    BY <1>2, <2>1
  <2>3. phase = "answered" => now' = now
    BY <2>1
  <2>4. UNCHANGED <<request, route, isHalfOpen, index, runtime, timerAt, byDeadline, linked,
                    attempts, stage, decision, resumeAt, answer, faults>>
    BY <1>1, <1>6
  <2>5. now' \in Nat /\ now' >= now
    BY <1>2, <2>1
  <2>6. QED
    BY <1>1, <1>6, <2>1, <2>2, <2>3, <2>4, <2>5, StillFlows
<1>7. \/ /\ phase = "calling" /\ Answered("client gone", "none")
         /\ UNCHANGED <<index, runtime, attempts, decision, stage, resumeAt>>
      \/ BodyAborted /\ UNCHANGED <<index, resumeAt, answer>>
      \/ phase = "waiting" /\ WaitRejected
      \/ /\ phase \in {"arrived", "loop", "recording"}
         /\ UNCHANGED <<phase, index, runtime, attempts, decision, stage, resumeAt, answer>>
  BY DEF ClientLeaves
<1>8. QED
  BY <1>3, <1>4, <1>5, <1>6, <1>7

LEMMA KeptNothing == \A S : Kept(<<>>, S) = <<>>
<1>1. <<>> \in Seq(Providers) /\ Len(<<>>) = 0
  OBVIOUS
<1>2. ASSUME NEW S PROVE Kept(<<>>, S) = <<>>
  <2>1. PICK h : Keeps(h, <<>>, S, Providers)
    BY <1>1, Keeping
  <2>2. QED
    BY <1>1, <2>1 DEF Keeps
<1>3. QED
  BY <1>2

(* The candidates of a request: its probe, if its input limit lets it, before
   the providers whose circuit is closed. *)
LEMMA OrderedCandidates ==
  ASSUME FlowInv, Order
  PROVE  /\ candidates' \in Seq(Providers) /\ IsInjective(candidates')
         /\ runtime' \in [Providers -> Runtimes] /\ request \in Requests
         /\ phase' = "loop" =>
              LET roster == request.roster
                  fitting == {p \in ClosedCircuits(request) : ~roster[p].oversized}
                  probing == runtime'[candidates'[1]].circuit = "half-open"
                  rest == IF probing THEN Tail(candidates') ELSE candidates'
              IN WellRanked(rest, fitting, ClosedCircuits(request), roster, request.policy)
<1> DEFINE roster == request.roster
           fitting == {p \in ClosedCircuits(request) : ~roster[p].oversized}
           R == RankOrder(ClosedCircuits(request), roster, request.policy)
           c == candidates'
<1>1. request \in Requests /\ phase = "arrived"
  BY DEF FlowInv, RequestInv, Order
<1>2. PICK probe \in Probes(request) :
        /\ c = WithinInputLimit(request, Ordered(request, probe))
        /\ runtime' = RuntimeAt(request, probe)
        /\ phase' = "loop" => c # <<>>
  BY DEF Order, Answered
<1>3. PICK rest : /\ Arranged(rest, fitting, R)
                  /\ \/ c = rest
                     \/ \E p \in Recoverable(request) : probe = <<p>> /\ c = <<p>> \o rest
  <2>1. Placed(request, probe)
    BY <1>1, CandidatesArranged
  <2>2. QED
    BY <1>2, <2>1, Zenon DEF Placed
<1>4. WellRanked(rest, fitting, ClosedCircuits(request), roster, request.policy)
  BY <1>1, <1>3, RequestComparable, ArrangedWellRanked
<1>5. rest \in Seq(Providers) /\ ToSet(rest) = fitting /\ IsInjective(rest)
  <2>1. rest \in Seq(Providers) /\ ToSet(rest) = fitting /\ Ascends(rest, R)
    BY <1>3 DEF Arranged
  <2>2. \A x \in Providers : <<x, x>> \notin R
    BY DEF RankOrder
  <2>3. QED
    BY <2>1, <2>2, AscendsInjective
<1>6. /\ \A p \in fitting : p \in Providers /\ roster[p].circuit = "closed"
      /\ \A p \in Recoverable(request) : p \in Providers /\ roster[p].circuit # "closed"
  BY <1>1, RequestComparable
<1>7. runtime' \in [Providers -> Runtimes]
  <2>1. \A p \in Providers :
          /\ roster[p].circuit \in Circuits /\ roster[p].count \in Nat
          /\ roster[p].cooling \in BOOLEAN /\ roster[p].override \in Nat
    BY <1>1, FailoverAssumption
  <2>2. QED
    BY <1>2, <2>1 DEF RuntimeAt, Runtimes, Circuits
<1> HIDE DEF fitting, R, c
<1>9. CASE c = rest
  <2>1. c # <<>> => c[1] \in fitting
    <3>1. ToSet(rest) = {rest[k] : k \in 1..Len(rest)} /\ Len(rest) \in Nat
      BY <1>5 DEF ToSet
    <3>2. c # <<>> => 1 \in 1..Len(rest)
      BY <1>5, <1>9
    <3>3. QED
      BY <1>5, <1>9, <3>1, <3>2
  <2>2. c # <<>> => runtime'[c[1]].circuit = "closed"
    <3>1. ASSUME c # <<>> PROVE runtime'[c[1]].circuit = "closed"
      <4>1. c[1] \in Providers /\ roster[c[1]].circuit = "closed"
        BY <1>6, <2>1, <3>1
      <4>2. probe # <<c[1]>>
        <5>1. \A p \in Recoverable(request) : c[1] # p
          BY <1>6, <4>1
        <5>2. QED
          BY <5>1 DEF Probes
      <4>3. QED
        BY <1>2, <4>1, <4>2 DEF RuntimeAt
    <3>2. QED
      BY <3>1
  <2>3. QED
    BY <1>1, <1>2, <1>4, <1>5, <1>7, <1>9, <2>2 DEF c, fitting
<1>10. CASE \E p \in Recoverable(request) : probe = <<p>> /\ c = <<p>> \o rest
  <2>1. PICK p \in Recoverable(request) : probe = <<p>> /\ c = <<p>> \o rest
    BY <1>10
  <2>2. p \in Providers /\ p \notin fitting
    BY <1>6
  <2>3. /\ c \in Seq(Providers) /\ c[1] = p /\ Tail(c) = rest /\ Len(c) = Len(rest) + 1
        /\ \A k \in 1..Len(rest) : c[k + 1] = rest[k] /\ rest[k] \in fitting
    <3>1. \A k \in 1..Len(rest) : rest[k] \in fitting
      BY <1>5 DEF ToSet
    <3>2. QED
      BY <1>5, <2>1, <2>2, <3>1
  <2>4. IsInjective(c)
    <3>1. \A k \in 1..Len(rest), j \in 1..Len(rest) : rest[k] = rest[j] => k = j
      BY <1>5 DEF IsInjective
    <3>2. DOMAIN c = 1..Len(rest) + 1 /\ Len(rest) \in Nat
      BY <1>5, <2>3
    <3>3. \A k \in DOMAIN c : k # 1 => k - 1 \in 1..Len(rest) /\ c[k] = rest[k - 1]
      <4>1. ASSUME NEW k \in DOMAIN c, k # 1
            PROVE  k - 1 \in 1..Len(rest) /\ c[k] = rest[k - 1]
        <5>1. k - 1 \in 1..Len(rest) /\ (k - 1) + 1 = k
          BY <3>2, <4>1
        <5>2. c[(k - 1) + 1] = rest[k - 1]
          BY <2>3, <5>1
        <5>3. QED
          BY <5>1, <5>2
      <4>2. QED
        BY <4>1
    <3>4. ASSUME NEW j \in DOMAIN c, NEW k \in DOMAIN c, c[j] = c[k]
          PROVE  j = k
      <4>1. j \in Nat /\ k \in Nat
        BY <3>2
      <4>2. CASE j = 1 \/ k = 1
        BY <2>2, <2>3, <3>3, <3>4, <4>2
      <4>3. CASE j # 1 /\ k # 1
        <5>1. j - 1 = k - 1
          BY <3>1, <3>3, <3>4, <4>3
        <5>2. QED
          BY <4>1, <5>1
      <4>4. QED
        BY <4>2, <4>3
    <3>5. QED
      BY <3>4 DEF IsInjective
  <2>5. runtime'[c[1]].circuit = "half-open"
    BY <1>2, <2>1, <2>2, <2>3 DEF RuntimeAt
  <2>6. QED
    BY <1>1, <1>4, <1>7, <2>3, <2>4, <2>5 DEF c, fitting
<1>11. QED
  BY <1>3, <1>9, <1>10 DEF c

LEMMA OrderFlows ==
  ASSUME FlowInv, LoopInv', Order
  PROVE  FlowInv'
<1>1. /\ candidates' \in Seq(Providers) /\ IsInjective(candidates')
      /\ runtime' \in [Providers -> Runtimes] /\ request \in Requests
  BY OrderedCandidates
<1>2. /\ phase = "arrived" /\ pool' = WithQuota(request) /\ request' = Forget(request)
      /\ UNCHANGED <<index, isHalfOpen, now, timer, timerAt, byDeadline, aborted, linked, leftIn,
                     attempts, stage, decision, resumeAt, faults>>
      /\ \/ candidates' # <<>> /\ phase' = "loop" /\ UNCHANGED answer
         \/ candidates' = <<>> /\ Answered("failed", "no_more_candidates")
         \/ candidates' = <<>> /\ Answered("unavailable", "none")
  <2>1. \A probe : Ordered(request, probe) = <<>> =>
                     WithinInputLimit(request, Ordered(request, probe)) = <<>>
    BY KeptNothing DEF WithinInputLimit
  <2>2. QED
    BY <2>1 DEF Order, clock, client
<1>3. pool' \subseteq Providers
  BY <1>1, <1>2, RequestComparable
<1>4. attempts = <<>> /\ index = 1 /\ faults \in Nat
  BY <1>2 DEF FlowInv, PlaceInv, TypeOK
<1>5. request'.settings = request.settings
  BY <1>1, <1>2, FailoverAssumption DEF Forget
<1>6. CASE candidates' # <<>> /\ phase' = "loop" /\ UNCHANGED answer
  <2>1. settings' = settings
    BY <1>5 DEF settings
  <2>2. RequestInv' /\ PlaceInv'
    BY <1>5, <1>6 DEF FlowInv, RequestInv, PlaceInv, InCall
  <2>3. TypeOK'
    BY <1>1, <1>2, <1>3, <1>6 DEF FlowInv, TypeOK, Runtimes
  <2>4. ClockInv'
    BY <1>2, <1>6, <2>1 DEF FlowInv, ClockInv
  <2>5. ReasonInv'
    BY <1>2, <1>6 DEF FlowInv, ReasonInv, StopReasonTrue, NoAnswer
  <2>6. ClientInv'
    BY <1>2, <1>6 DEF FlowInv, ClientInv
  <2>7. OnceInv'
    BY <1>1, <1>2, <1>4, <1>6 DEF OnceInv
  <2>8. QED
    BY <2>2, <2>3, <2>4, <2>5, <2>6, <2>7 DEF FlowInv
<1>7. CASE candidates' = <<>> /\ (\/ Answered("failed", "no_more_candidates")
                                \/ Answered("unavailable", "none"))
  <2>1. /\ phase' = "answered" /\ answer' \in [kind : Answers, stop : Stops, alive : BOOLEAN]
        /\ answer'.stop \in {"no_more_candidates", "none"}
    <3>1. PICK kind \in {"failed", "unavailable"}, stop \in {"no_more_candidates", "none"} :
            Answered(kind, stop)
      BY <1>7
    <3>2. kind \in Answers /\ stop \in Stops
      BY DEF Answers, Stops
    <3>3. QED
      BY <3>1, <3>2 DEF Answered
  <2>2. StopReasonTrue'
    BY <1>2, <1>4, <1>7, <2>1 DEF StopReasonTrue
  <2>3. Ends
    BY <1>1, <1>2, <1>3, <1>4, <1>5, <1>7, <2>1, <2>2 DEF Ends
  <2>4. QED
    BY <2>3, EndsFlows
<1>8. QED
  BY <1>2, <1>6, <1>7

LEMMA FlowInvInit ==
  Init => FlowInv
<1> SUFFICES ASSUME Init
             PROVE  FlowInv
  OBVIOUS
<1>1. LoopInv
  BY LoopInvInit
<1>2. RequestInv /\ PlaceInv
  BY DEF Init, RequestInv, PlaceInv, InCall, settings
<1>3. TypeOK
  <2>1. <<>> \in Seq(Providers) /\ <<>> \in Seq([provider : Providers, success : BOOLEAN])
    OBVIOUS
  <2>2. runtime \in [Providers -> Runtimes]
    BY DEF Init, Runtimes, Circuits
  <2>3. decision \in Decisions /\ answer \in [kind : Answers, stop : Stops, alive : BOOLEAN]
    BY DEF Init, Undecided, NoAnswer, Decisions, Answers, Stops
  <2>4. candidates \in Seq(Providers) /\ attempts \in Seq([provider : Providers, success : BOOLEAN])
    BY <2>1 DEF Init
  <2>5. /\ phase = "arrived" /\ pool = {} /\ index = 1 /\ now = 0 /\ timer = "off" /\ timerAt = 0
        /\ byDeadline = FALSE /\ isHalfOpen = FALSE /\ aborted = FALSE /\ linked = FALSE /\ leftIn = "none"
        /\ stage = "try" /\ resumeAt = 0 /\ faults = 0
    BY DEF Init
  <2>6. /\ phase = "arrived"
        /\ pool \subseteq Providers /\ index \in Nat \ {0} /\ now \in Nat /\ timerAt \in Nat
        /\ timer \in {"off", "armed", "fired"} /\ stage \in {"try", "catch"}
        /\ leftIn \in Phases
        /\ resumeAt \in Nat /\ faults \in Nat
    BY <2>5 DEF Phases
  <2>7. byDeadline \in BOOLEAN /\ isHalfOpen \in BOOLEAN /\ aborted \in BOOLEAN /\ linked \in BOOLEAN
    BY <2>5, Zenon
  <2>8. QED
    BY <2>2, <2>3, <2>4, <2>6, <2>7, Zenon DEF TypeOK, Runtimes, Decisions, Phases
<1>4. ClockInv
  <2>1. settings.deadline \in Nat
    BY <1>2, SettingsFacts
  <2>2. QED
    BY <2>1 DEF Init, ClockInv
<1>5. ReasonInv
  BY DEF Init, ReasonInv, StopReasonTrue, NoAnswer
<1>6. ClientInv
  BY DEF Init, ClientInv
<1>7. OnceInv
  <2>1. IsInjective(candidates) /\ Len(attempts) = 0 /\ Len(candidates) = 0 /\ index = 1
    BY DEF Init, IsInjective
  <2>2. QED
    BY <2>1 DEF Init, OnceInv
<1>8. QED
  BY <1>1, <1>2, <1>3, <1>4, <1>5, <1>6, <1>7 DEF FlowInv

LEMMA FlowInvStep ==
  FlowInv /\ [Next]_vars => FlowInv'
<1> SUFFICES ASSUME FlowInv, [Next]_vars
             PROVE  FlowInv'
  OBVIOUS
<1>0. LoopInv'
  BY LoopInvStep DEF FlowInv
<1>1. CASE RefuseUnroutable \/ ClaimFails \/ StopLoop
  BY <1>0, <1>1, RefusalFlows
<1>2. CASE Order
  BY <1>0, <1>2, OrderFlows
<1>3. CASE BeginCall
  BY <1>0, <1>3, BeginFlows
<1>4. CASE HeadersArrive \/ Malformed \/ ErrorStatus \/ NetworkError
  BY <1>0, <1>4, OutcomesFlow
<1>12. CASE Succeed
  BY <1>0, <1>12, SucceedFlows
<1>5. CASE TimerFires
  BY <1>0, <1>5, TimerFlows
<1>6. CASE Recorded
  BY <1>0, <1>6, RecordedFlows
<1>7. CASE RecordFails
  BY <1>0, <1>7, RecordFailsFlows
<1>8. CASE Resume
  BY <1>0, <1>8, ResumeFlows
<1>9. CASE ClientLeaves
  BY <1>0, <1>9, ClientFlows
<1>10. CASE Tick \/ UNCHANGED vars
  BY <1>0, <1>10, TickFlows
<1>11. QED
  BY <1>1, <1>2, <1>3, <1>4, <1>12, <1>5, <1>6, <1>7, <1>8, <1>9, <1>10 DEF Next

(* So do its timers, decisions, answer, client and candidates. *)
THEOREM FlowInvariant == Spec => []FlowInv
<1>1. Init => FlowInv
  BY FlowInvInit
<1>2. FlowInv /\ [Next]_vars => FlowInv'
  BY FlowInvStep
<1>3. QED
  BY <1>1, <1>2, PTL DEF Spec

(* The state of a request has its types, whatever is routed. *)
THEOREM FailoverTypes == Spec => []TypeOK
<1>1. FlowInv => TypeOK
  BY DEF FlowInv
<1>2. QED
  BY <1>1, FlowInvariant, PTL

(* However its timers, backoffs and recordings follow one another, no call of a
   request is in flight after the request's deadline (chatCompletion, which
   cuts the timer of each attempt to what is left). *)
THEOREM DeadlineEndsCalls == Spec => []DeadlineHolds
<1>1. FlowInv => DeadlineHolds
  <2> SUFFICES ASSUME FlowInv, InFlight
               PROVE  now <= settings.deadline
    BY DEF DeadlineHolds
  <2>1. now \in Nat /\ timerAt \in Nat /\ settings.deadline \in Nat
    BY SettingsFacts DEF FlowInv, TypeOK
  <2>2. now <= timerAt /\ timerAt <= settings.deadline
    BY DEF FlowInv, ClockInv
  <2>3. QED
    BY <2>1, <2>2
<1>2. QED
  BY <1>1, FlowInvariant, PTL

(* The stop reason a failed request reports is the bound it ran into, whichever
   of the loop's head, the two decisions and the catch gave it
   (chatCompletion, retryDecision, immediateFailoverDecision). *)
THEOREM StopReasonsTrue == Spec => []StopReasonTrue
<1>1. FlowInv => StopReasonTrue
  BY DEF FlowInv, ReasonInv
<1>2. QED
  BY <1>1, FlowInvariant, PTL

(* A client that leaves while its call waits for headers, or during a backoff,
   costs no further call, even when the store fails at the same time; one that
   leaves while a body is read is not heard (chatCompletion, readErrorMessage,
   validateSuccessfulResponse, waitForRetryDelay). *)
THEOREM AbortsStop == Spec => []AbortedRequestStops
<1>1. FlowInv => AbortedRequestStops
  BY DEF FlowInv, ClientInv, TypeOK, AbortedRequestStops
<1>2. QED
  BY <1>1, FlowInvariant, PTL

(* While the store works and the client stays, the attempts of a request are of
   different providers: each call leaves one record (chatCompletion,
   onAttempt). *)
THEOREM AttemptsRecordedOnce == Spec => []RecordedOnce
<1>1. FlowInv => RecordedOnce
  <2> SUFFICES ASSUME FlowInv, faults = 0, ~aborted,
                      NEW j \in DOMAIN attempts, NEW k \in DOMAIN attempts,
                      attempts[j].provider = attempts[k].provider
               PROVE  j = k
    BY DEF RecordedOnce
  <2>1. /\ Len(attempts) \in Nat /\ DOMAIN attempts = 1..Len(attempts)
        /\ Len(candidates) \in Nat /\ DOMAIN candidates = 1..Len(candidates)
    BY DEF FlowInv, TypeOK
  <2>2. /\ IsInjective(candidates) /\ Len(attempts) <= Len(candidates)
        /\ \A i \in 1..Len(attempts) : attempts[i].provider = candidates[i]
    BY DEF FlowInv, OnceInv
  <2>3. candidates[j] = candidates[k] /\ j \in DOMAIN candidates /\ k \in DOMAIN candidates
    BY <2>1, <2>2
  <2>4. QED
    BY <2>2, <2>3 DEF IsInjective
<1>2. QED
  BY <1>1, FlowInvariant, PTL

(* The loop is entered with every usable provider once, each before all it goes
   before, after the granted probe if there is one: for any number of providers,
   any quotas, tiers, measures and cursor, the concatenated sorts, the rotation,
   the re-sort by quota and the filter on the input limit amount to the order of
   GoesBefore, which leaves no two providers undecided (orderedCandidates,
   orderPool, ProviderQuotas.order, chatCompletion). *)
THEOREM CandidatesRanked == Spec => RankedCandidates
<1>1. FlowInv /\ Next /\ phase = "arrived" /\ phase' = "loop" => Order
  BY DEF Next, RefuseUnroutable, ClaimFails, BeginCall, StopLoop, HeadersArrive, Succeed, Malformed,
         ErrorStatus, NetworkError, TimerFires, TimerDue, BodyAborted, Recorded, RecordFails, Resume,
         ClientLeaves, Tick, Answered
<1>2. FlowInv /\ Order /\ phase' = "loop" =>
       LET roster == request.roster
           fitting == {p \in ClosedCircuits(request) : ~roster[p].oversized}
           probing == runtime'[candidates'[1]].circuit = "half-open"
           rest == IF probing THEN Tail(candidates') ELSE candidates'
       IN WellRanked(rest, fitting, ClosedCircuits(request), roster, request.policy)
  BY OrderedCandidates
<1>3. FlowInv /\ [Next]_vars => [phase = "arrived" /\ phase' = "loop" =>
       LET roster == request.roster
           fitting == {p \in ClosedCircuits(request) : ~roster[p].oversized}
           probing == runtime'[candidates'[1]].circuit = "half-open"
           rest == IF probing THEN Tail(candidates') ELSE candidates'
       IN WellRanked(rest, fitting, ClosedCircuits(request), roster, request.policy)]_vars
  BY <1>1, <1>2
<1>4. QED
  BY <1>3, FlowInvariant, PTL DEF Spec, RankedCandidates

=============================================================================

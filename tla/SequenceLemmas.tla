----------------------------- MODULE SequenceLemmas -----------------------------
(***************************************************************************)
(* What the proofs need of sequences built step by step: induction over the *)
(* naturals for a set of them (which the provers can instantiate, unlike    *)
(* induction for a predicate), the functions that recursion defines, and    *)
(* what a fold, a flattening and a sort of a finite set return.             *)
(***************************************************************************)
EXTENDS Integers, Sequences, SequencesExt, FiniteSets, FiniteSetTheorems,
        WellFoundedInduction, TLAPS

LEMMA SetInduction ==
  ASSUME NEW S, 0 \in S, \A n \in Nat : n \in S => n + 1 \in S
  PROVE  Nat \subseteq S
<1> DEFINE T == Nat \ S
<1>1. SUFFICES ASSUME T # {} PROVE FALSE
  OBVIOUS
<1>2. PICK m \in T : \A y \in T : <<y, m>> \notin OpToRel(<, Nat)
  <2>1. T \subseteq Nat
    OBVIOUS
  <2> HIDE DEF T
  <2>2. QED
    BY <1>1, <2>1, NatLessThanWellFounded, WFMin
<1>3. m \in Nat /\ m # 0 /\ m - 1 \in Nat /\ m - 1 + 1 = m
  OBVIOUS
<1>4. m - 1 \in T /\ <<m - 1, m>> \in OpToRel(<, Nat)
  BY <1>3 DEF OpToRel
<1>5. QED
  BY <1>2, <1>4

(* A function of the naturals up to n by its first value and its steps. *)
Recurs(h, n, D, base, F) ==
  /\ h \in [0..n -> D]
  /\ h[0] = base /\ \A k \in 1..n : h[k] = F[<<h[k - 1], k>>]

LEMMA Recursion ==
  ASSUME NEW D, NEW n \in Nat, NEW base \in D, NEW F, F \in [D \X (1..n) -> D]
  PROVE  \E h : Recurs(h, n, D, base, F)
<1> DEFINE Fits(m, h) == h[0] = base /\ \A k \in 1..m : h[k] = F[<<h[k - 1], k>>]
           Good == {m \in Nat : m <= n => \E h \in [0..m -> D] : Fits(m, h)}
<1>1. 0 \in Good
  <2>1. [k \in 0..0 |-> base] \in [0..0 -> D] /\ Fits(0, [k \in 0..0 |-> base])
    OBVIOUS
  <2>2. QED
    BY <2>1
<1>2. ASSUME NEW m \in Nat, m \in Good PROVE m + 1 \in Good
  <2>1. SUFFICES ASSUME m + 1 <= n
                 PROVE  \E h \in [0..m + 1 -> D] : Fits(m + 1, h)
    OBVIOUS
  <2>2. PICK h \in [0..m -> D] : Fits(m, h)
    BY <1>2, <2>1
  <2> DEFINE g == [k \in 0..m + 1 |-> IF k = m + 1 THEN F[<<h[m], k>>] ELSE h[k]]
  <2>3. <<h[m], m + 1>> \in D \X (1..n)
    BY <2>1
  <2>4. F[<<h[m], m + 1>>] \in D
    BY <2>3
  <2>5. g \in [0..m + 1 -> D]
    BY <2>4
  <2>6. \A k \in 0..m : g[k] = h[k]
    OBVIOUS
  <2>7. g[m + 1] = F[<<g[m], m + 1>>]
    BY <2>6
  <2>8. ASSUME NEW k \in 1..m + 1 PROVE g[k] = F[<<g[k - 1], k>>]
    <3>1. CASE k = m + 1
      BY <2>7, <3>1
    <3>2. CASE k # m + 1
      <4>1. k \in 1..m /\ k \in 0..m /\ k - 1 \in 0..m
        BY <3>2
      <4>2. g[k] = h[k] /\ g[k - 1] = h[k - 1] /\ h[k] = F[<<h[k - 1], k>>]
        BY <2>2, <2>6, <4>1
      <4>3. QED
        BY <4>2
    <3>3. QED
      BY <3>1, <3>2
  <2>9. g[0] = base
    BY <2>2, <2>6
  <2> HIDE DEF g
  <2>10. QED
    BY <2>5, <2>8, <2>9
<1>3. Nat \subseteq Good
  <2> HIDE DEF Good
  <2>1. QED
    BY <1>1, <1>2, SetInduction
<1>4. n \in Good
  <2> HIDE DEF Good
  <2>1. QED
    BY <1>3
<1>5. QED
  BY <1>4 DEF Recurs

(* What holds at first and is kept by each step holds at the end. *)
LEMMA StepInduction ==
  ASSUME NEW n \in Nat, NEW S, 0 \in S, \A k \in 1..n : k - 1 \in S => k \in S
  PROVE  \A k \in 0..n : k \in S
<1> DEFINE T == {m \in Nat : m <= n => m \in S}
<1>1. 0 \in T
  OBVIOUS
<1>2. ASSUME NEW m \in Nat, m \in T PROVE m + 1 \in T
  <2>1. CASE m + 1 <= n
    <3>1. m + 1 \in 1..n /\ (m + 1) - 1 = m
      BY <2>1
    <3>2. QED
      BY <1>2, <3>1
  <2>2. QED
    BY <2>1
<1>3. Nat \subseteq T
  <2> HIDE DEF T
  <2>1. QED
    BY <1>1, <1>2, SetInduction
<1>4. QED
  BY <1>3
-----------------------------------------------------------------------------
(* Sorting a finite set by a strict order, given as a set of pairs. *)

Orders(R, S) ==
  /\ \A x \in S : <<x, x>> \notin R
  /\ \A x, y \in S : x # y => <<x, y>> \in R \/ <<y, x>> \in R
  /\ \A x, y, z \in S : <<x, y>> \in R /\ <<y, z>> \in R => <<x, z>> \in R

Ascends(seq, R) ==
  \A i, j \in DOMAIN seq : i < j => <<seq[i], seq[j]>> \in R

LEMMA LastOfFinite ==
  ASSUME NEW S, IsFiniteSet(S), NEW R, Orders(R, S), S # {}
  PROVE  \E m \in S : \A y \in S \ {m} : <<y, m>> \in R
<1> DEFINE HasLast(T) == \E m \in T : \A y \in T \ {m} : <<y, m>> \in R
           Good == {n \in Nat : \A T \in SUBSET S : Cardinality(T) = n + 1 => HasLast(T)}
<1>0. \A T \in SUBSET S : IsFiniteSet(T) /\ Cardinality(T) \in Nat
  BY FS_Subset, FS_CardinalityType
<1>1. 0 \in Good
  <2>1. SUFFICES ASSUME NEW T \in SUBSET S, Cardinality(T) = 1 PROVE HasLast(T)
    OBVIOUS
  <2>2. PICK x : T = {x}
    BY <1>0, <2>1, FS_Singleton
  <2>3. QED
    BY <2>2
<1>2. ASSUME NEW n \in Nat, n \in Good PROVE n + 1 \in Good
  <2>1. SUFFICES ASSUME NEW T \in SUBSET S, Cardinality(T) = n + 2 PROVE HasLast(T)
    OBVIOUS
  <2>2. T # {}
    BY <1>0, <2>1, FS_EmptySet
  <2>3. PICK x \in T : TRUE
    BY <2>2
  <2>4. T \ {x} \in SUBSET S /\ Cardinality(T \ {x}) = n + 1
    BY <1>0, <2>1, <2>3, FS_RemoveElement
  <2>5. HasLast(T \ {x})
    BY <1>2, <2>4
  <2>6. PICK m \in T \ {x} : \A y \in (T \ {x}) \ {m} : <<y, m>> \in R
    BY <2>5
  <2>7. CASE <<x, m>> \in R
    BY <2>6, <2>7
  <2>8. CASE <<m, x>> \in R
    <3>1. \A y \in T \ {x} : <<y, x>> \in R
      BY <2>3, <2>6, <2>8 DEF Orders
    <3>2. QED
      BY <2>3, <3>1
  <2>9. QED
    BY <2>3, <2>6, <2>7, <2>8 DEF Orders
<1>3. Nat \subseteq Good
  <2> HIDE DEF Good
  <2>1. QED
    BY <1>1, <1>2, SetInduction
<1>4. Cardinality(S) # 0 /\ Cardinality(S) \in Nat
  BY FS_EmptySet, FS_CardinalityType
<1>5. Cardinality(S) - 1 \in Good /\ Cardinality(S) - 1 + 1 = Cardinality(S)
  <2> HIDE DEF Good
  <2>1. QED
    BY <1>3, <1>4
<1>6. QED
  BY <1>5

LEMMA SortExists ==
  ASSUME NEW S, IsFiniteSet(S), NEW R, Orders(R, S)
  PROVE  \E seq \in [1..Cardinality(S) -> S] : Ascends(seq, R)
<1> DEFINE HasSort(T) == \E seq \in [1..Cardinality(T) -> T] : Ascends(seq, R)
           Good == {n \in Nat : \A T \in SUBSET S : Cardinality(T) = n => HasSort(T)}
<1>0. \A T \in SUBSET S : IsFiniteSet(T) /\ Cardinality(T) \in Nat
  BY FS_Subset, FS_CardinalityType
<1>1. 0 \in Good
  <2>1. SUFFICES ASSUME NEW T \in SUBSET S, Cardinality(T) = 0 PROVE HasSort(T)
    OBVIOUS
  <2>2. [k \in 1..0 |-> k] \in [1..0 -> T] /\ Ascends([k \in 1..0 |-> k], R)
    BY DEF Ascends
  <2>3. QED
    BY <2>1, <2>2
<1>2. ASSUME NEW n \in Nat, n \in Good PROVE n + 1 \in Good
  <2>1. SUFFICES ASSUME NEW T \in SUBSET S, Cardinality(T) = n + 1 PROVE HasSort(T)
    OBVIOUS
  <2>2. T # {} /\ IsFiniteSet(T) /\ Orders(R, T)
    BY <1>0, <2>1, FS_EmptySet DEF Orders
  <2>3. PICK m \in T : \A y \in T \ {m} : <<y, m>> \in R
    BY <2>2, LastOfFinite
  <2>4. T \ {m} \in SUBSET S /\ Cardinality(T \ {m}) = n
    <3>1. Cardinality(T \ {m}) = Cardinality(T) - 1
      BY <2>2, FS_RemoveElement
    <3>2. QED
      BY <2>1, <3>1
  <2>5. PICK q \in [1..n -> T \ {m}] : Ascends(q, R)
    BY <1>2, <2>4
  <2> DEFINE seq == [k \in 1..n + 1 |-> IF k = n + 1 THEN m ELSE q[k]]
  <2>6. seq \in [1..n + 1 -> T]
    BY <2>3, <2>5
  <2>7. Ascends(seq, R)
    <3>1. SUFFICES ASSUME NEW i \in 1..n + 1, NEW j \in 1..n + 1, i < j
                   PROVE  <<seq[i], seq[j]>> \in R
      BY <2>6 DEF Ascends
    <3>2. i \in 1..n /\ seq[i] = q[i] /\ q[i] \in T \ {m}
      BY <2>5, <3>1
    <3>3. CASE j = n + 1
      BY <2>3, <3>2, <3>3
    <3>4. CASE j # n + 1
      <4>1. j \in 1..n /\ seq[j] = q[j]
        BY <3>4
      <4>2. QED
        BY <2>5, <3>1, <3>2, <4>1 DEF Ascends
    <3>5. QED
      BY <3>3, <3>4
  <2> HIDE DEF seq
  <2>8. QED
    BY <2>1, <2>6, <2>7
<1>3. Nat \subseteq Good
  <2> HIDE DEF Good
  <2>1. QED
    BY <1>1, <1>2, SetInduction
<1>4. Cardinality(S) \in Good
  <2> HIDE DEF Good
  <2>1. QED
    BY <1>3, FS_CardinalityType
<1>5. QED
  BY <1>4

(* A sorted sequence has every member once. *)
LEMMA SortIsBijection ==
  ASSUME NEW S, IsFiniteSet(S), NEW R, Orders(R, S),
         NEW seq \in [1..Cardinality(S) -> S], Ascends(seq, R)
  PROVE  IsInjective(seq) /\ ToSet(seq) = S /\ seq \in Seq(S) /\ Len(seq) = Cardinality(S)
<1>0. Cardinality(S) \in Nat
  BY FS_CardinalityType
<1>1. IsInjective(seq)
  <2>1. SUFFICES ASSUME NEW i \in DOMAIN seq, NEW j \in DOMAIN seq, seq[i] = seq[j], i # j
                 PROVE  FALSE
    BY DEF IsInjective
  <2>2. DOMAIN seq = 1..Cardinality(S)
    OBVIOUS
  <2>3. i < j \/ j < i
    BY <1>0, <2>1, <2>2
  <2>4. QED
    BY <2>1, <2>2, <2>3 DEF Ascends, Orders
<1>2. seq \in Injection(1..Cardinality(S), S)
  BY <1>1 DEF Injection
<1>3. Cardinality(1..Cardinality(S)) = Cardinality(S) /\ IsFiniteSet(1..Cardinality(S))
  BY <1>0, FS_Interval
<1>4. seq \in Surjection(1..Cardinality(S), S)
  BY <1>2, <1>3, FS_Injection
<1>5. ToSet(seq) = S
  BY <1>4 DEF Surjection, ToSet
<1>6. seq \in Seq(S) /\ Len(seq) = Cardinality(S)
  BY <1>0
<1>7. QED
  BY <1>1, <1>5, <1>6
-----------------------------------------------------------------------------
(* A sequence and one member more. *)

LEMMA FunctionIsSequence ==
  ASSUME NEW E, NEW n \in Nat, NEW s \in [1..n -> E]
  PROVE  /\ s \in Seq(E) /\ Len(s) = n /\ DOMAIN s = 1..n
         /\ \A i \in 1..n : s[i] \in E
OBVIOUS

LEMMA AppendIsConcat ==
  ASSUME NEW E, NEW s \in Seq(E), NEW e \in E
  PROVE  Append(s, e) = s \o <<e>> /\ Append(s, e) \in Seq(E) /\ <<e>> \in Seq(E)
OBVIOUS

LEMMA OneMember ==
  ASSUME NEW e
  PROVE  ToSet(<<e>>) = {e}
BY DEF ToSet

-----------------------------------------------------------------------------
(* A sequence of sequences, put together. *)

LEMMA MembersOfConcat ==
  ASSUME NEW E, NEW s \in Seq(E), NEW t \in Seq(E)
  PROVE  ToSet(s \o t) = ToSet(s) \cup ToSet(t)
<1>1. /\ Len(s) \in Nat /\ Len(t) \in Nat /\ DOMAIN s = 1..Len(s) /\ DOMAIN t = 1..Len(t)
      /\ DOMAIN (s \o t) = 1..Len(s) + Len(t)
      /\ \A k \in 1..Len(s) : (s \o t)[k] = s[k]
      /\ \A k \in 1..Len(t) : (s \o t)[Len(s) + k] = t[k]
  OBVIOUS
<1>2. \A k \in 1..Len(s) + Len(t) : k \in 1..Len(s) \/ (k - Len(s) \in 1..Len(t)
        /\ k = Len(s) + (k - Len(s)))
  BY <1>1
<1>3. ASSUME NEW x \in ToSet(s \o t) PROVE x \in ToSet(s) \cup ToSet(t)
  <2>1. PICK k \in 1..Len(s) + Len(t) : x = (s \o t)[k]
    BY <1>1 DEF ToSet
  <2>2. CASE k \in 1..Len(s)
    BY <1>1, <2>1, <2>2 DEF ToSet
  <2>3. CASE k - Len(s) \in 1..Len(t) /\ k = Len(s) + (k - Len(s))
    BY <1>1, <2>1, <2>3 DEF ToSet
  <2>4. QED
    BY <1>2, <2>2, <2>3
<1>4. ToSet(s) \subseteq ToSet(s \o t)
  BY <1>1 DEF ToSet
<1>5. ASSUME NEW k \in 1..Len(t) PROVE t[k] \in ToSet(s \o t)
  <2>1. Len(s) + k \in 1..Len(s) + Len(t) /\ (s \o t)[Len(s) + k] = t[k]
    BY <1>1
  <2>2. QED
    BY <1>1, <2>1 DEF ToSet
<1>6. ToSet(t) \subseteq ToSet(s \o t)
  BY <1>1, <1>5 DEF ToSet
<1>7. QED
  BY <1>3, <1>4, <1>6

(* What has been put together after each of the parts. *)
Flattens(h, s, n, E) ==
  /\ h \in [0..n -> Seq(E)]
  /\ h[0] = <<>> /\ FlattenSeq(s) = h[n]
  /\ \A k \in 1..n : h[k] = h[k - 1] \o s[k]

LEMMA Flattening ==
  ASSUME NEW E, NEW n \in Nat, NEW s \in [1..n -> Seq(E)]
  PROVE  \E h : Flattens(h, s, n, E)
<1> DEFINE F == [p \in Seq(E) \X (1..n) |-> p[1] \o s[p[2]]]
<1>0. s \in Seq(Seq(E)) /\ Len(s) = n
  OBVIOUS
<1>1. <<>> \in Seq(E) /\ F \in [Seq(E) \X (1..n) -> Seq(E)]
  <2>1. \A a \in Seq(E), b \in Seq(E) : a \o b \in Seq(E)
    OBVIOUS
  <2>2. \A p \in Seq(E) \X (1..n) : p[1] \in Seq(E) /\ s[p[2]] \in Seq(E)
    OBVIOUS
  <2>3. <<>> \in Seq(E)
    OBVIOUS
  <2>4. \A p \in Seq(E) \X (1..n) : p[1] \o s[p[2]] \in Seq(E)
    BY <2>1, <2>2
  <2>5. F \in [Seq(E) \X (1..n) -> Seq(E)]
    BY <2>4, Zenon
  <2>6. QED
    BY <2>3, <2>5
<1>2. PICK h \in [0..n -> Seq(E)] : h[0] = <<>> /\ \A k \in 1..n : h[k] = F[<<h[k - 1], k>>]
  <2> HIDE DEF F
  <2>1. PICK h : Recurs(h, n, Seq(E), <<>>, F)
    BY <1>1, Recursion
  <2>2. QED
    BY <2>1 DEF Recurs
<1>3. ASSUME NEW k \in 1..n
      PROVE  h[k] = h[k - 1] \o s[k] /\ h[k] \in Seq(E) /\ h[k - 1] \in Seq(E) /\ s[k] \in Seq(E)
  <2>1. <<h[k - 1], k>> \in Seq(E) \X (1..n) /\ k \in 0..n
    OBVIOUS
  <2>2. F[<<h[k - 1], k>>] = h[k - 1] \o s[k]
    BY <2>1
  <2>3. QED
    BY <1>2, <2>1, <2>2
<1>4. CASE n = 0
  <2>1. FlattenSeq(s) = s /\ s = <<>>
    BY <1>0, <1>4 DEF FlattenSeq
  <2>2. QED
    BY <1>2, <1>3, <1>4, <2>1 DEF Flattens
<1>5. CASE n # 0
  <2> DEFINE Rule(f) == f = [i \in 1..n |-> IF i = 1 THEN s[i] ELSE f[i - 1] \o s[i]]
             w == [i \in 1..n |-> h[i]]
             flatten == CHOOSE f : Rule(f)
  <2>1. Rule(w)
    <3>1. ASSUME NEW i \in 1..n, i # 1 PROVE w[i] = w[i - 1] \o s[i]
      <4>1. i - 1 \in 1..n
        BY <3>1
      <4>2. QED
        BY <1>3, <4>1
    <3>2. w[1] = s[1]
      <4>1. 1 \in 1..n /\ 1 - 1 = 0
        BY <1>5
      <4>2. w[1] = h[0] \o s[1] /\ s[1] \in Seq(E)
        BY <1>3, <4>1
      <4>3. QED
        BY <1>2, <4>2
    <3>3. \A i \in 1..n : w[i] = IF i = 1 THEN s[i] ELSE w[i - 1] \o s[i]
      BY <3>1, <3>2
    <3>4. w = [i \in 1..n |-> w[i]]
      OBVIOUS
    <3> HIDE DEF w
    <3>5. QED
      BY <3>3, <3>4
  <2>2. Rule(flatten)
    <3>1. \E f : Rule(f)
      BY <2>1
    <3> HIDE DEF Rule
    <3>2. QED
      BY <3>1
  <2>3. FlattenSeq(s) = flatten[n]
    BY <1>0, <1>5 DEF FlattenSeq
  <2> HIDE DEF flatten
  <2> DEFINE S == {k \in 0..n : k # 0 => flatten[k] = h[k]}
  <2>4. 0 \in S
    OBVIOUS
  <2>5. ASSUME NEW k \in 1..n, k - 1 \in S PROVE k \in S
    <3>1. CASE k = 1
      <4>1. flatten[k] = s[1] /\ h[k] = h[k - 1] \o s[1] /\ s[1] \in Seq(E)
        <5>1. flatten[k] = s[1]
          BY <2>2, <3>1
        <5>2. QED
          BY <1>3, <3>1, <5>1
      <4>2. h[k - 1] = <<>>
        BY <1>2, <3>1
      <4>3. flatten[k] = h[k]
        BY <4>1, <4>2
      <4>4. QED
        BY <4>3
    <3>2. CASE k # 1
      <4>1. flatten[k - 1] = h[k - 1]
        BY <2>5, <3>2
      <4>2. flatten[k] = flatten[k - 1] \o s[k]
        BY <2>2, <3>2
      <4>3. flatten[k] = h[k]
        BY <1>3, <4>1, <4>2
      <4>4. QED
        BY <4>3
    <3>3. QED
      BY <3>1, <3>2
  <2>6. flatten[n] = h[n]
    <3> HIDE DEF S
    <3>1. \A k \in 0..n : k \in S
      BY <2>4, <2>5, StepInduction
    <3>2. n \in S
      BY <3>1
    <3>3. QED
      BY <1>5, <3>2 DEF S
  <2>7. QED
    BY <1>2, <1>3, <2>3, <2>6 DEF Flattens
<1>6. QED
  BY <1>4, <1>5

LEMMA FlattenType ==
  ASSUME NEW E, NEW n \in Nat, NEW s \in [1..n -> Seq(E)]
  PROVE  FlattenSeq(s) \in Seq(E)
<1>1. PICK h : Flattens(h, s, n, E)
  BY Flattening
<1>2. QED
  BY <1>1 DEF Flattens

(* What is in the whole is in one of the parts. *)
LEMMA FlattenMembers ==
  ASSUME NEW E, NEW n \in Nat, NEW s \in [1..n -> Seq(E)]
  PROVE  ToSet(FlattenSeq(s)) = UNION {ToSet(s[k]) : k \in 1..n}
<1>0. PICK h : Flattens(h, s, n, E)
  BY Flattening
<1>1. /\ h \in [0..n -> Seq(E)] /\ h[0] = <<>> /\ FlattenSeq(s) = h[n]
      /\ \A k \in 1..n : h[k] = h[k - 1] \o s[k]
  BY <1>0 DEF Flattens
<1> DEFINE S == {k \in 0..n : \A x : x \in ToSet(h[k]) <=> \E j \in 1..k : x \in ToSet(s[j])}
<1>2. 0 \in S
  <2>1. ToSet(<<>>) = {}
    BY DEF ToSet
  <2>2. QED
    BY <1>1, <2>1
<1>3. ASSUME NEW k \in 1..n, k - 1 \in S PROVE k \in S
  <2>0. k - 1 \in 0..n
    OBVIOUS
  <2>1. h[k] = h[k - 1] \o s[k] /\ h[k - 1] \in Seq(E) /\ s[k] \in Seq(E)
    BY <1>1, <2>0, Zenon
  <2>2. ToSet(h[k]) = ToSet(h[k - 1]) \cup ToSet(s[k])
    BY <2>1, MembersOfConcat
  <2>3. \A x : x \in ToSet(h[k - 1]) <=> \E j \in 1..(k - 1) : x \in ToSet(s[j])
    BY <1>3
  <2>4. 1..k = 1..(k - 1) \cup {k}
    OBVIOUS
  <2>5. \A x : x \in ToSet(h[k]) <=> \E j \in 1..k : x \in ToSet(s[j])
    BY <2>2, <2>3, <2>4
  <2>6. QED
    BY <2>5
<1>4. n \in S
  <2> HIDE DEF S
  <2>1. \A k \in 0..n : k \in S
    BY <1>2, <1>3, StepInduction
  <2>2. QED
    BY <2>1
<1>5. \A x : x \in ToSet(FlattenSeq(s)) <=> \E j \in 1..n : x \in ToSet(s[j])
  BY <1>1, <1>4
<1>6. QED
  BY <1>5

(* Two sequences in the order of R, together. *)
LEMMA ConcatAscends ==
  ASSUME NEW E, NEW s \in Seq(E), NEW t \in Seq(E), NEW R, Ascends(s, R), Ascends(t, R),
         \A x \in ToSet(s), y \in ToSet(t) : <<x, y>> \in R
  PROVE  Ascends(s \o t, R)
<1>1. /\ Len(s) \in Nat /\ Len(t) \in Nat /\ DOMAIN s = 1..Len(s) /\ DOMAIN t = 1..Len(t)
      /\ DOMAIN (s \o t) = 1..Len(s) + Len(t)
      /\ \A k \in 1..Len(s) : (s \o t)[k] = s[k]
      /\ \A k \in 1..Len(t) : (s \o t)[Len(s) + k] = t[k]
  OBVIOUS
<1>2. ASSUME NEW k \in 1..Len(s) + Len(t), k \notin 1..Len(s)
      PROVE  k - Len(s) \in 1..Len(t) /\ (s \o t)[k] = t[k - Len(s)]
  <2>1. k - Len(s) \in 1..Len(t) /\ k = Len(s) + (k - Len(s))
    BY <1>1, <1>2
  <2>2. QED
    BY <1>1, <2>1
<1>3. SUFFICES ASSUME NEW i \in 1..Len(s) + Len(t), NEW j \in 1..Len(s) + Len(t), i < j
               PROVE  <<(s \o t)[i], (s \o t)[j]>> \in R
  BY <1>1 DEF Ascends
<1>4. CASE i \in 1..Len(s) /\ j \in 1..Len(s)
  BY <1>1, <1>3, <1>4 DEF Ascends
<1>5. CASE i \notin 1..Len(s) /\ j \notin 1..Len(s)
  <2>1. i - Len(s) < j - Len(s)
    BY <1>1, <1>3
  <2>2. QED
    BY <1>1, <1>2, <1>5, <2>1 DEF Ascends
<1>6. CASE i \in 1..Len(s) /\ j \notin 1..Len(s)
  <2>1. (s \o t)[i] \in ToSet(s) /\ (s \o t)[j] \in ToSet(t)
    BY <1>1, <1>2, <1>6 DEF ToSet
  <2>2. QED
    BY <2>1
<1>7. CASE i \notin 1..Len(s) /\ j \in 1..Len(s)
  BY <1>1, <1>3, <1>7
<1>8. QED
  BY <1>4, <1>5, <1>6, <1>7, Zenon

(* Parts in the order of R, and in such an order to each other. *)
LEMMA FlattenAscends ==
  ASSUME NEW E, NEW n \in Nat, NEW s \in [1..n -> Seq(E)], NEW R,
         \A k \in 1..n : Ascends(s[k], R),
         \A j, k \in 1..n : j < k => \A x \in ToSet(s[j]), y \in ToSet(s[k]) : <<x, y>> \in R
  PROVE  Ascends(FlattenSeq(s), R)
<1>0. PICK h : Flattens(h, s, n, E)
  BY Flattening
<1>1. /\ h \in [0..n -> Seq(E)] /\ h[0] = <<>> /\ FlattenSeq(s) = h[n]
      /\ \A k \in 1..n : h[k] = h[k - 1] \o s[k]
  BY <1>0 DEF Flattens
<1> DEFINE S == {k \in 0..n : /\ Ascends(h[k], R)
                              /\ \A x \in ToSet(h[k]) : \E j \in 1..k : x \in ToSet(s[j])}
<1>2. 0 \in S
  <2>1. ToSet(<<>>) = {} /\ Ascends(<<>>, R)
    BY DEF ToSet, Ascends
  <2>2. QED
    BY <1>1, <2>1
<1>3. ASSUME NEW k \in 1..n, k - 1 \in S PROVE k \in S
  <2>0. k - 1 \in 0..n
    OBVIOUS
  <2>1. h[k] = h[k - 1] \o s[k] /\ h[k - 1] \in Seq(E) /\ s[k] \in Seq(E)
    BY <1>1, <2>0, Zenon
  <2>2. ToSet(h[k]) = ToSet(h[k - 1]) \cup ToSet(s[k])
    BY <2>1, MembersOfConcat
  <2>3. Ascends(h[k - 1], R) /\ \A x \in ToSet(h[k - 1]) : \E j \in 1..(k - 1) : x \in ToSet(s[j])
    BY <1>3
  <2>4. 1..k = 1..(k - 1) \cup {k} /\ \A j \in 1..(k - 1) : j \in 1..n /\ j < k
    OBVIOUS
  <2>5. \A x \in ToSet(h[k]) : \E j \in 1..k : x \in ToSet(s[j])
    BY <2>2, <2>3, <2>4
  <2>6. \A x \in ToSet(h[k - 1]), y \in ToSet(s[k]) : <<x, y>> \in R
    BY <2>3, <2>4
  <2>7. Ascends(h[k], R)
    BY <2>1, <2>3, <2>6, ConcatAscends
  <2>8. QED
    BY <2>5, <2>7
<1>4. n \in S
  <2> HIDE DEF S
  <2>1. \A k \in 0..n : k \in S
    BY <1>2, <1>3, StepInduction
  <2>2. QED
    BY <2>1
<1>5. QED
  BY <1>1, <1>4

(* A sequence in a strict order has no member twice. *)
LEMMA AscendsInjective ==
  ASSUME NEW E, NEW s \in Seq(E), NEW R, Ascends(s, R), \A x \in E : <<x, x>> \notin R
  PROVE  IsInjective(s) /\ IsFiniteSet(ToSet(s)) /\ Cardinality(ToSet(s)) = Len(s)
<1>1. Len(s) \in Nat /\ DOMAIN s = 1..Len(s) /\ \A k \in 1..Len(s) : s[k] \in E
  OBVIOUS
<1>2. IsInjective(s)
  <2>1. SUFFICES ASSUME NEW i \in 1..Len(s), NEW j \in 1..Len(s), s[i] = s[j], i # j
                 PROVE  FALSE
    BY <1>1 DEF IsInjective
  <2>2. i < j \/ j < i
    BY <2>1
  <2>3. QED
    BY <1>1, <2>1, <2>2 DEF Ascends
<1>3. s \in Injection(1..Len(s), ToSet(s)) /\ s \in Surjection(1..Len(s), ToSet(s))
  BY <1>1, <1>2 DEF Injection, Surjection, ToSet
<1>4. IsFiniteSet(1..Len(s)) /\ Cardinality(1..Len(s)) = Len(s)
  BY <1>1, FS_Interval
<1>5. IsFiniteSet(ToSet(s)) /\ Cardinality(ToSet(s)) = Cardinality(1..Len(s))
  BY <1>3, <1>4, FS_Surjection, FS_Injection
<1>6. QED
  BY <1>2, <1>4, <1>5
-----------------------------------------------------------------------------
(* Folds: FoldLeft goes through the members of the domain, the last one last. *)

LEMMA LastOfRange ==
  ASSUME NEW m \in Nat, NEW S \in SUBSET (1..m + 1), m + 1 \in S
  PROVE  Max(S) = m + 1
<1>1. \A y \in S : y \in Int /\ m + 1 >= y
  OBVIOUS
<1>2. \A x \in S : (\A y \in S : x >= y) => x = m + 1
  BY <1>1
<1>3. QED
  BY <1>1, <1>2 DEF Max

FoldsOver(w, n, D, base, F) ==
  /\ w \in [SUBSET (1..n) -> D]
  /\ \A S \in SUBSET (1..n) :
       w[S] = IF S = {} THEN base ELSE F[<<w[S \ {Max(S)}], Max(S)>>]

LEMMA SubsetRecursion ==
  ASSUME NEW D, NEW n \in Nat, NEW base \in D, NEW F, F \in [D \X (1..n) -> D]
  PROVE  \E w : FoldsOver(w, n, D, base, F)
<1> DEFINE Good == {m \in Nat : m <= n => \E w : FoldsOver(w, m, D, base, F)}
<1>1. 0 \in Good
  <2>1. FoldsOver([S \in SUBSET (1..0) |-> base], 0, D, base, F)
    BY DEF FoldsOver
  <2>2. QED
    BY <2>1
<1>2. ASSUME NEW m \in Nat, m \in Good PROVE m + 1 \in Good
  <2>1. SUFFICES ASSUME m + 1 <= n
                 PROVE  \E w : FoldsOver(w, m + 1, D, base, F)
    OBVIOUS
  <2>2. PICK v : FoldsOver(v, m, D, base, F)
    BY <1>2, <2>1
  <2> DEFINE w == [S \in SUBSET (1..m + 1) |->
                     IF m + 1 \in S THEN F[<<v[S \ {m + 1}], m + 1>>] ELSE v[S]]
  <2>3. 1..m + 1 = 1..m \cup {m + 1} /\ m + 1 \notin 1..m
    OBVIOUS
  <2>4. ASSUME NEW S \in SUBSET (1..m + 1), m + 1 \notin S
        PROVE  S \in SUBSET (1..m) /\ w[S] = v[S] /\ w[S] \in D
    BY <2>2, <2>3, <2>4 DEF FoldsOver
  <2>5. ASSUME NEW S \in SUBSET (1..m + 1), m + 1 \in S
        PROVE  w[S] = F[<<w[S \ {m + 1}], m + 1>>] /\ w[S] \in D
    <3>1. S \ {m + 1} \in SUBSET (1..m + 1) /\ m + 1 \notin S \ {m + 1}
      OBVIOUS
    <3>2. w[S \ {m + 1}] = v[S \ {m + 1}] /\ w[S \ {m + 1}] \in D
      BY <2>4, <3>1
    <3>3. <<w[S \ {m + 1}], m + 1>> \in D \X (1..n)
      BY <2>1, <3>2
    <3>4. w[S] = F[<<w[S \ {m + 1}], m + 1>>]
      BY <2>5, <3>2
    <3> HIDE DEF w
    <3>5. QED
      BY <3>3, <3>4
  <2>6. w \in [SUBSET (1..m + 1) -> D]
    <3>1. w = [S \in SUBSET (1..m + 1) |-> w[S]]
      OBVIOUS
    <3> HIDE DEF w
    <3>2. QED
      BY <2>4, <2>5, <3>1
  <2> HIDE DEF w
  <2>7. ASSUME NEW S \in SUBSET (1..m + 1)
        PROVE  w[S] = IF S = {} THEN base ELSE F[<<w[S \ {Max(S)}], Max(S)>>]
    <3>1. CASE m + 1 \in S
      BY <2>5, <3>1, LastOfRange
    <3>2. CASE m + 1 \notin S
      <4>1. w[S] = IF S = {} THEN base ELSE F[<<v[S \ {Max(S)}], Max(S)>>]
        BY <2>2, <2>4, <3>2 DEF FoldsOver
      <4>2. S \ {Max(S)} \in SUBSET (1..m + 1) /\ m + 1 \notin S \ {Max(S)}
        BY <3>2
      <4>3. w[S \ {Max(S)}] = v[S \ {Max(S)}]
        BY <2>4, <4>2
      <4>4. QED
        BY <4>1, <4>3
    <3>3. QED
      BY <3>1, <3>2
  <2>8. QED
    BY <2>6, <2>7 DEF FoldsOver
<1>3. n \in Good
  <2> HIDE DEF Good
  <2>1. Nat \subseteq Good
    BY <1>1, <1>2, SetInduction
  <2>2. QED
    BY <2>1
<1>4. QED
  BY <1>3

(* The same, by the length of what has been folded. *)
LEMMA FoldPrefixes ==
  ASSUME NEW D, NEW n \in Nat, NEW base \in D, NEW F, F \in [D \X (1..n) -> D],
         NEW w, FoldsOver(w, n, D, base, F)
  PROVE  /\ Recurs([k \in 0..n |-> w[1..k]], n, D, base, F)
         /\ w[1..n] = [k \in 0..n |-> w[1..k]][n]
<1> DEFINE h == [k \in 0..n |-> w[1..k]]
<1>1. \A k \in 0..n : 1..k \in SUBSET (1..n)
  OBVIOUS
<1>2. h \in [0..n -> D]
  BY <1>1 DEF FoldsOver
<1>3. 1..0 = {} /\ 0 \in 0..n
  OBVIOUS
<1>4. h[0] = base
  BY <1>1, <1>3 DEF FoldsOver
<1>5. ASSUME NEW k \in 1..n PROVE h[k] = F[<<h[k - 1], k>>]
  <2>1. 1..k \in SUBSET (1..n) /\ 1..k # {} /\ k \in 1..k /\ k - 1 \in 0..n /\ k \in 0..n
    OBVIOUS
  <2>2. Max(1..k) = k
    <3>1. k - 1 \in Nat /\ (k - 1) + 1 = k
      OBVIOUS
    <3>2. QED
      BY <2>1, <3>1, LastOfRange
  <2>3. (1..k) \ {k} = 1..(k - 1)
    OBVIOUS
  <2>4. w[1..k] = F[<<w[(1..k) \ {Max(1..k)}], Max(1..k)>>]
    BY <2>1 DEF FoldsOver
  <2>5. QED
    BY <2>1, <2>2, <2>3, <2>4
<1>6. n \in 0..n /\ h[n] = w[1..n]
  OBVIOUS
<1>7. QED
  <2> HIDE DEF h
  <2>1. Recurs(h, n, D, base, F)
    BY <1>2, <1>4, <1>5 DEF Recurs
  <2>2. QED
    BY <1>6, <2>1 DEF h

(* The numbers up to k, the last of them and the others. *)
LEMMA LastOfPrefix ==
  ASSUME NEW n \in Nat, NEW k \in 1..n
  PROVE  /\ 1..k \in SUBSET (1..n) /\ 1..k # {} /\ Max(1..k) = k
         /\ (1..k) \ {k} = 1..(k - 1)
<1>1. k - 1 \in Nat /\ (k - 1) + 1 = k /\ k \in 1..k /\ 1..k \in SUBSET (1..(k - 1) + 1)
  OBVIOUS
<1>2. Max(1..k) = k
  BY <1>1, LastOfRange
<1>3. QED
  BY <1>1, <1>2

-----------------------------------------------------------------------------
(* Sequences that grow. *)

LEMMA AppendToConcat ==
  ASSUME NEW E, NEW s \in Seq(E), NEW t \in Seq(E), NEW e \in E
  PROVE  s \o Append(t, e) = Append(s \o t, e)
<1> DEFINE a == s \o Append(t, e)
           b == Append(s \o t, e)
<1>1. /\ Len(s) \in Nat /\ Len(t) \in Nat
      /\ Append(t, e) \in Seq(E) /\ Len(Append(t, e)) = Len(t) + 1
      /\ s \o t \in Seq(E) /\ Len(s \o t) = Len(s) + Len(t)
  OBVIOUS
<1>2. /\ a \in Seq(E) /\ Len(a) = Len(s) + (Len(t) + 1)
      /\ b \in Seq(E) /\ Len(b) = Len(s) + Len(t) + 1
  BY <1>1
<1>3. ASSUME NEW i \in 1..Len(s) + Len(t) + 1 PROVE a[i] = b[i]
  <2>1. CASE i <= Len(s)
    BY <1>1, <2>1
  <2>2. CASE i > Len(s) /\ i <= Len(s) + Len(t)
    <3>1. i - Len(s) \in 1..Len(t)
      BY <1>1, <2>2
    <3>2. a[i] = Append(t, e)[i - Len(s)] /\ Append(t, e)[i - Len(s)] = t[i - Len(s)]
      BY <1>1, <3>1
    <3>3. b[i] = (s \o t)[i] /\ (s \o t)[i] = t[i - Len(s)]
      BY <1>1, <2>2, <3>1
    <3>4. QED
      BY <3>2, <3>3
  <2>3. CASE i = Len(s) + Len(t) + 1
    <3>1. i - Len(s) = Len(t) + 1
      BY <1>1, <2>3
    <3>2. a[i] = Append(t, e)[Len(t) + 1] /\ Append(t, e)[Len(t) + 1] = e
      BY <1>1, <2>3, <3>1
    <3>3. b[i] = e
      BY <1>1, <2>3
    <3>4. QED
      BY <3>2, <3>3
  <2>4. QED
    BY <1>1, <2>1, <2>2, <2>3
<1> HIDE DEF a, b
<1>4. a = b
  BY <1>1, <1>2, <1>3
<1>5. QED
  BY <1>4 DEF a, b

LEMMA ConcatAssociates ==
  ASSUME NEW E, NEW s \in Seq(E), NEW t \in Seq(E), NEW u \in Seq(E)
  PROVE  s \o (t \o u) = (s \o t) \o u
<1> DEFINE a == s \o (t \o u)
           b == (s \o t) \o u
<1>1. /\ Len(s) \in Nat /\ Len(t) \in Nat /\ Len(u) \in Nat
      /\ s \o t \in Seq(E) /\ Len(s \o t) = Len(s) + Len(t)
      /\ t \o u \in Seq(E) /\ Len(t \o u) = Len(t) + Len(u)
  OBVIOUS
<1>2. /\ a \in Seq(E) /\ Len(a) = Len(s) + Len(t) + Len(u)
      /\ b \in Seq(E) /\ Len(b) = Len(s) + Len(t) + Len(u)
  BY <1>1
<1>3. ASSUME NEW i \in 1..Len(s) + Len(t) + Len(u) PROVE a[i] = b[i]
  <2>1. CASE i <= Len(s)
    BY <1>1, <2>1
  <2>2. CASE i > Len(s) /\ i <= Len(s) + Len(t)
    <3>1. i - Len(s) \in 1..Len(t)
      BY <1>1, <2>2
    <3>2. a[i] = (t \o u)[i - Len(s)] /\ (t \o u)[i - Len(s)] = t[i - Len(s)]
      BY <1>1, <3>1
    <3>3. b[i] = (s \o t)[i] /\ (s \o t)[i] = t[i - Len(s)]
      BY <1>1, <2>2, <3>1
    <3>4. QED
      BY <3>2, <3>3
  <2>3. CASE i > Len(s) + Len(t)
    <3>1. /\ i - (Len(s) + Len(t)) \in 1..Len(u)
          /\ i - Len(s) \in 1..Len(t) + Len(u) /\ i - Len(s) > Len(t)
          /\ (i - Len(s)) - Len(t) = i - (Len(s) + Len(t))
      BY <1>1, <2>3
    <3>2. a[i] = (t \o u)[i - Len(s)]
      BY <1>1, <2>3, <3>1
    <3>3. (t \o u)[i - Len(s)] = u[(i - Len(s)) - Len(t)]
      BY <1>1, <3>1
    <3>4. b[i] = u[i - (Len(s) + Len(t))]
      BY <1>1, <2>3, <3>1
    <3>5. QED
      BY <3>1, <3>2, <3>3, <3>4
  <2>4. QED
    BY <1>1, <2>1, <2>2, <2>3
<1> HIDE DEF a, b
<1>4. a = b
  BY <1>1, <1>2, <1>3
<1>5. QED
  BY <1>4 DEF a, b

(* One more part. *)
LEMMA FlattenMore ==
  ASSUME NEW E, NEW n \in Nat, NEW s \in [1..n -> Seq(E)], NEW u \in [1..n + 1 -> Seq(E)],
         \A k \in 1..n : u[k] = s[k]
  PROVE  FlattenSeq(u) = FlattenSeq(s) \o u[n + 1]
<1>0. n + 1 \in Nat /\ n + 1 \in 1..n + 1 /\ (n + 1) - 1 = n
  OBVIOUS
<1>1. PICK h : Flattens(h, s, n, E)
  BY Flattening
<1>2. PICK g : Flattens(g, u, n + 1, E)
  BY <1>0, Flattening
<1> DEFINE Same == {k \in 0..n : g[k] = h[k]}
<1>3. 0 \in Same
  BY <1>1, <1>2 DEF Flattens
<1>4. ASSUME NEW k \in 1..n, k - 1 \in Same PROVE k \in Same
  <2>1. k \in 1..n + 1 /\ k \in 0..n
    OBVIOUS
  <2>2. g[k] = g[k - 1] \o u[k] /\ h[k] = h[k - 1] \o s[k]
    BY <1>1, <1>2, <2>1 DEF Flattens
  <2>3. QED
    BY <1>4, <2>1, <2>2
<1>5. g[n] = h[n]
  <2> HIDE DEF Same
  <2>1. \A k \in 0..n : k \in Same
    BY <1>3, <1>4, StepInduction
  <2>2. QED
    BY <2>1 DEF Same
<1>6. g[n + 1] = g[n] \o u[n + 1]
  BY <1>0, <1>2 DEF Flattens
<1>7. FlattenSeq(u) = g[n + 1] /\ FlattenSeq(s) = h[n]
  BY <1>1, <1>2 DEF Flattens
<1>8. QED
  BY <1>5, <1>6, <1>7

(* Parts that are all empty. *)
LEMMA FlattenNothing ==
  ASSUME NEW n \in Nat, NEW s \in [1..n -> {<<>>}]
  PROVE  FlattenSeq(s) = <<>>
<1>1. FlattenSeq(s) \in Seq({})
  <2>0. <<>> \in Seq({})
    OBVIOUS
  <2>1. s \in [1..n -> Seq({})]
    BY <2>0
  <2>2. QED
    BY <2>1, FlattenType
<1>2. QED
  BY <1>1

(* The ranks of a finite set of numbers. *)
LEMMA RankExists ==
  ASSUME NEW S \in SUBSET Int, IsFiniteSet(S), NEW k \in 1..Cardinality(S)
  PROVE  \E x \in S : Cardinality({y \in S : y < x}) = k - 1
<1> DEFINE R == {p \in S \X S : p[1] < p[2]}
           n == Cardinality(S)
<1>0. n \in Nat
  BY FS_CardinalityType
<1>1. Orders(R, S)
  BY DEF Orders
<1>2. PICK seq \in [1..n -> S] : Ascends(seq, R)
  BY <1>1, SortExists
<1>3. IsInjective(seq) /\ ToSet(seq) = S
  <2> HIDE DEF R
  <2>1. QED
    BY <1>1, <1>2, SortIsBijection
<1>4. \A i, j \in 1..n : i < j => seq[i] < seq[j]
  BY <1>2 DEF Ascends
<1> HIDE DEF R, n
<1>5. \A i, j \in 1..n : seq[i] < seq[j] => i < j
  <2>1. SUFFICES ASSUME NEW i \in 1..n, NEW j \in 1..n, seq[i] < seq[j], ~(i < j)
                 PROVE  FALSE
    OBVIOUS
  <2>2. i = j \/ j < i
    BY <1>0, <2>1
  <2>3. seq[i] \in Int /\ seq[j] \in Int
    BY <1>2, <2>1
  <2>4. QED
    BY <1>4, <2>1, <2>2, <2>3
<1>6. k \in 1..n /\ k - 1 \in Nat
  BY DEF n
<1> DEFINE below == {y \in S : y < seq[k]}
           low == [i \in 1..(k - 1) |-> seq[i]]
<1>7. low \in Injection(1..(k - 1), below)
  <2>1. \A i \in 1..(k - 1) : i \in 1..n /\ i < k
    BY <1>0, <1>6
  <2>2. \A i \in 1..(k - 1) : seq[i] \in S /\ seq[i] < seq[k]
    BY <1>2, <1>4, <1>6, <2>1
  <2>3. low \in [1..(k - 1) -> below]
    BY <2>2
  <2>4. IsInjective(low)
    BY <1>2, <1>3, <2>1 DEF IsInjective
  <2>5. QED
    BY <2>3, <2>4 DEF Injection
<1>8. low \in Surjection(1..(k - 1), below)
  <2>1. ASSUME NEW y \in below PROVE \E i \in 1..(k - 1) : low[i] = y
    <3>1. PICK i \in 1..n : seq[i] = y
      BY <1>2, <1>3 DEF ToSet
    <3>2. i < k
      BY <1>5, <1>6, <3>1
    <3>3. i \in 1..(k - 1)
      BY <1>0, <1>6, <3>2
    <3>4. QED
      BY <3>1, <3>3
  <2>2. QED
    BY <1>7, <2>1 DEF Injection, Surjection
<1>9. IsFiniteSet(1..(k - 1)) /\ Cardinality(1..(k - 1)) = k - 1
  BY <1>6, FS_Interval
<1>10. Cardinality(below) = k - 1
  <2> HIDE DEF below, low
  <2>1. Cardinality(below) <= Cardinality(1..(k - 1)) /\ IsFiniteSet(below)
    BY <1>8, <1>9, FS_Surjection
  <2>2. Cardinality(1..(k - 1)) = Cardinality(below)
    BY <1>7, <1>8, <1>9, FS_Surjection
  <2>3. QED
    BY <1>9, <2>2
<1>11. seq[k] \in S
  BY <1>2, <1>6
<1>12. QED
  BY <1>10, <1>11
-----------------------------------------------------------------------------
(* Sequences built by appending. *)

(* What holds of the empty sequence and of every longer one holds of all. *)
LEMMA SeqInduction ==
  ASSUME NEW E, NEW S, <<>> \in S,
         \A s \in Seq(E), e \in E : s \in S => Append(s, e) \in S
  PROVE  Seq(E) \subseteq S
<1> DEFINE Good == {n \in Nat : \A s \in Seq(E) : Len(s) = n => s \in S}
<1>1. 0 \in Good
  <2>1. \A s \in Seq(E) : Len(s) = 0 => s = <<>>
    OBVIOUS
  <2>2. QED
    BY <2>1
<1>2. ASSUME NEW n \in Nat, n \in Good PROVE n + 1 \in Good
  <2>1. SUFFICES ASSUME NEW s \in Seq(E), Len(s) = n + 1 PROVE s \in S
    OBVIOUS
  <2> DEFINE f == SubSeq(s, 1, n)
             e == s[n + 1]
  <2>2. f \in Seq(E) /\ Len(f) = n /\ e \in E /\ \A k \in 1..n : f[k] = s[k]
    BY <2>1
  <2> HIDE DEF f, e
  <2>3. f \in S
    BY <1>2, <2>2
  <2>4. s = Append(f, e)
    <3> DEFINE q == Append(f, e)
    <3>1. q \in Seq(E) /\ Len(q) = n + 1 /\ q[n + 1] = e /\ \A k \in 1..n : q[k] = f[k]
      BY <2>2
    <3> HIDE DEF q
    <3>2. \A k \in 1..n + 1 : s[k] = q[k]
      <4>1. 1..n + 1 = 1..n \cup {n + 1}
        OBVIOUS
      <4>2. QED
        BY <2>2, <3>1, <4>1 DEF e
    <3>3. s = q
      BY <2>1, <3>1, <3>2
    <3>4. QED
      BY <3>3 DEF q
  <2>5. QED
    BY <2>2, <2>3, <2>4
<1>3. Nat \subseteq Good
  <2> HIDE DEF Good
  <2>1. QED
    BY <1>1, <1>2, SetInduction
<1>4. QED
  BY <1>3

(* One more member, two more, the last one replaced. *)
LEMMA MembersMore ==
  ASSUME NEW E, NEW s \in Seq(E), NEW e \in E
  PROVE  ToSet(Append(s, e)) = ToSet(s) \cup {e}
<1> DEFINE one == <<e>>
<1>1. Append(s, e) = s \o one /\ one \in Seq(E) /\ ToSet(one) = {e}
  BY AppendIsConcat, OneMember
<1> HIDE DEF one
<1>2. ToSet(s \o one) = ToSet(s) \cup ToSet(one)
  BY <1>1, MembersOfConcat
<1>3. QED
  BY <1>1, <1>2

LEMMA OneByOne ==
  ASSUME NEW E, NEW s \in Seq(E), NEW a \in E, NEW b \in E
  PROVE  (s \o <<a>>) \o <<b>> = s \o <<a, b>>
<1>1. s \o <<a>> \in Seq(E) /\ <<a>> \in Seq(E) /\ <<a, b>> = Append(<<a>>, b)
  OBVIOUS
<1>2. s \o Append(<<a>>, b) = Append(s \o <<a>>, b)
  BY <1>1, AppendToConcat
<1>3. Append(s \o <<a>>, b) = (s \o <<a>>) \o <<b>>
  BY <1>1, AppendIsConcat
<1>4. QED
  BY <1>1, <1>2, <1>3

At(s, i, x) == [s EXCEPT ![i] = x]

LEMMA LastReplaced ==
  ASSUME NEW E, NEW s \in Seq(E), NEW e \in E, NEW f \in E
  PROVE  At(Append(s, e), Len(s) + 1, f) = Append(s, f)
<1> DEFINE a == [Append(s, e) EXCEPT ![Len(s) + 1] = f]
           b == Append(s, f)
<1>1. /\ Len(s) \in Nat
      /\ a \in Seq(E) /\ Len(a) = Len(s) + 1
      /\ b \in Seq(E) /\ Len(b) = Len(s) + 1
  OBVIOUS
<1>2. ASSUME NEW k \in 1..Len(s) PROVE a[k] = b[k]
  <2>1. Append(s, e)[k] = s[k] /\ k # Len(s) + 1 /\ k \in DOMAIN Append(s, e)
    BY <1>1
  <2>2. b[k] = s[k]
    OBVIOUS
  <2>3. QED
    BY <2>1, <2>2
<1>3. a[Len(s) + 1] = b[Len(s) + 1]
  OBVIOUS
<1>4. 1..Len(s) + 1 = 1..Len(s) \cup {Len(s) + 1}
  BY <1>1
<1> HIDE DEF a, b
<1>5. a = b
  BY <1>1, <1>2, <1>3, <1>4
<1>6. QED
  BY <1>5 DEF a, b, At

(* A flattened map, and one member more. *)
LEMMA FlattenOne ==
  ASSUME NEW E, NEW n \in Nat, NEW u \in [1..n + 1 -> Seq(E)], NEW s \in [1..n -> Seq(E)],
         \A k \in 1..n : u[k] = s[k]
  PROVE  /\ FlattenSeq(u) = FlattenSeq(s) \o u[n + 1]
         /\ FlattenSeq(s) \in Seq(E) /\ FlattenSeq(u) \in Seq(E)
<1>1. n + 1 \in Nat
  OBVIOUS
<1>2. FlattenSeq(s) \in Seq(E)
  BY FlattenType
<1>3. FlattenSeq(u) \in Seq(E)
  BY <1>1, FlattenType
<1>4. FlattenSeq(u) = FlattenSeq(s) \o u[n + 1]
  BY FlattenMore
<1>5. QED
  BY <1>2, <1>3, <1>4

LEMMA LastOne ==
  ASSUME NEW E, NEW s \in Seq(E), s # <<>>
  PROVE  /\ s = Append(Front(s), Last(s)) /\ Front(s) \in Seq(E) /\ Last(s) \in E
         /\ Len(Front(s)) = Len(s) - 1 /\ Last(s) = s[Len(s)]
         /\ \A k \in 1..(Len(s) - 1) : Front(s)[k] = s[k]
<1> DEFINE f == Front(s)
           e == s[Len(s)]
<1>1. Len(s) \in Nat /\ Len(s) # 0 /\ e \in E
  OBVIOUS
<1>2. Last(s) = e /\ f = [k \in 1..(Len(s) - 1) |-> s[k]]
  BY <1>1 DEF Last, Front
<1>3. f \in Seq(E) /\ Len(f) = Len(s) - 1 /\ \A k \in 1..(Len(s) - 1) : f[k] = s[k]
  BY <1>1, <1>2
<1> HIDE DEF f, e
<1> DEFINE a == Append(f, e)
<1>4. a \in Seq(E) /\ Len(a) = Len(s) /\ a[Len(s)] = e /\ \A k \in 1..(Len(s) - 1) : a[k] = s[k]
  BY <1>1, <1>3
<1>5. 1..Len(s) = 1..(Len(s) - 1) \cup {Len(s)}
  BY <1>1
<1> HIDE DEF a
<1>6. a = s
  BY <1>4, <1>5 DEF e
<1>7. QED
  BY <1>1, <1>2, <1>3, <1>6 DEF a, f

=============================================================================

------------------------------- MODULE FoldLemmas -------------------------------
(***************************************************************************)
(* What a fold from the left makes of the empty sequence and of one more    *)
(* member, for any operator: a module that folds one of its own             *)
(* instantiates this one with it.  Every instance brings all of its module  *)
(* along, so this one extends little: the fold is written out instead of    *)
(* taken from SequencesExt, and induction over the naturals, a lemma of     *)
(* SequenceLemmas, is a hypothesis here that every use discharges with it.  *)
(***************************************************************************)
EXTENDS Integers, Sequences

CONSTANT Op(_, _)

Largest(S) == CHOOSE x \in S : \A y \in S : x >= y

(* FoldLeft(Op, base, seq). *)
Fold(base, seq) ==
  LET iter[S \in SUBSET DOMAIN seq] ==
        IF S = {} THEN base ELSE Op(iter[S \ {Largest(S)}], seq[Largest(S)])
  IN iter[DOMAIN seq]

(* The fold over every set of positions of a sequence. *)
Folded(w, base, ev) ==
  \A S \in SUBSET (1..Len(ev)) :
    w[S] = IF S = {} THEN base ELSE Op(w[S \ {Largest(S)}], ev[Largest(S)])

LEMMA LargestOfRange ==
  ASSUME NEW m \in Nat, NEW S \in SUBSET (1..m + 1), m + 1 \in S
  PROVE  Largest(S) = m + 1
<1>1. \A y \in S : y \in Int /\ m + 1 >= y
  OBVIOUS
<1>2. \A x \in S : (\A y \in S : x >= y) => x = m + 1
  BY <1>1
<1>3. QED
  BY <1>1, <1>2 DEF Largest

(* The numbers up to k, the last of them and the others. *)
LEMMA LargestOfPrefix ==
  ASSUME NEW n \in Nat, NEW k \in 1..n
  PROVE  /\ 1..k \in SUBSET (1..n) /\ 1..k # {} /\ Largest(1..k) = k
         /\ (1..k) \ {k} = 1..(k - 1)
<1>1. k - 1 \in Nat /\ (k - 1) + 1 = k /\ k \in 1..k /\ 1..k \in SUBSET (1..(k - 1) + 1)
  OBVIOUS
<1>2. Largest(1..k) = k
  BY <1>1, LargestOfRange
<1>3. QED
  BY <1>1, <1>2

(* FoldLeft is such a fold, over the positions of its whole sequence. *)
LEMMA FoldOver ==
  ASSUME NEW E, NEW base, NEW ev \in Seq(E),
         \A T : 0 \in T /\ (\A m \in Nat : m \in T => m + 1 \in T) => Nat \subseteq T
  PROVE  \E w : Folded(w, base, ev) /\ Fold(base, ev) = w[1..Len(ev)]
<1> DEFINE n == Len(ev)
           Step(f, S) == IF S = {} THEN base
                         ELSE Op(f[S \ {Largest(S)}], ev[Largest(S)])
           Rule(f, m) == f = [S \in SUBSET (1..m) |-> Step(f, S)]
           Good == {m \in Nat : \E w : Rule(w, m)}
<1>0. n \in Nat /\ DOMAIN ev = 1..n
  OBVIOUS
<1>1. 0 \in Good
  <2>1. Rule([S \in SUBSET (1..0) |-> base], 0)
    OBVIOUS
  <2>2. QED
    BY <2>1
<1>2. ASSUME NEW m \in Nat, m \in Good PROVE m + 1 \in Good
  <2>1. PICK v : Rule(v, m)
    BY <1>2
  <2> DEFINE w == [S \in SUBSET (1..m + 1) |->
                     IF m + 1 \in S THEN Op(v[S \ {m + 1}], ev[m + 1]) ELSE v[S]]
  <2>2. 1..m + 1 = 1..m \cup {m + 1} /\ m + 1 \notin 1..m
    OBVIOUS
  <2>3. ASSUME NEW S \in SUBSET (1..m + 1) PROVE w[S] = Step(w, S)
    <3>1. CASE m + 1 \in S
      <4>1. Largest(S) = m + 1 /\ S # {}
        BY <3>1, LargestOfRange
      <4>2. S \ {m + 1} \in SUBSET (1..m + 1) /\ m + 1 \notin S \ {m + 1}
        OBVIOUS
      <4>3. w[S \ {m + 1}] = v[S \ {m + 1}]
        BY <4>2
      <4>4. w[S] = Op(v[S \ {m + 1}], ev[m + 1])
        BY <3>1
      <4> HIDE DEF w
      <4>5. QED
        BY <4>1, <4>3, <4>4
    <3>2. CASE m + 1 \notin S
      <4>1. S \in SUBSET (1..m) /\ w[S] = v[S]
        BY <2>2, <3>2
      <4>2. v[S] = Step(v, S)
        BY <2>1, <4>1
      <4>3. S \ {Largest(S)} \in SUBSET (1..m + 1) /\ m + 1 \notin S \ {Largest(S)}
        BY <3>2
      <4>4. w[S \ {Largest(S)}] = v[S \ {Largest(S)}]
        BY <4>3
      <4> HIDE DEF w
      <4>5. QED
        BY <4>1, <4>2, <4>4
    <3>3. QED
      BY <3>1, <3>2
  <2>4. w = [S \in SUBSET (1..m + 1) |-> w[S]]
    OBVIOUS
  <2> HIDE DEF w
  <2>5. Rule(w, m + 1)
    BY <2>3, <2>4
  <2> HIDE DEF Rule
  <2>6. QED
    BY <2>5
<1>3. \E w : Rule(w, n)
  <2> HIDE DEF Good
  <2>1. Nat \subseteq Good
    BY <1>1, <1>2
  <2> USE DEF Good
  <2>2. QED
    BY <1>0, <2>1
<1> DEFINE iter == CHOOSE f : Rule(f, n)
<1>4. Rule(iter, n)
  <2> HIDE DEF Rule
  <2>1. QED
    BY <1>3
<1>5. Fold(base, ev) = iter[1..n]
  BY <1>0 DEF Fold
<1> HIDE DEF iter
<1>6. \A S \in SUBSET (1..n) : iter[S] = Step(iter, S)
  BY <1>4
<1>7. QED
  BY <1>5, <1>6 DEF Folded

(* Nothing is left to fold. *)
LEMMA FoldNothing ==
  ASSUME NEW base,
         \A T : 0 \in T /\ (\A m \in Nat : m \in T => m + 1 \in T) => Nat \subseteq T
  PROVE  Fold(base, <<>>) = base
<1> SUFFICES ASSUME NEW E, NEW none \in Seq(E), Len(none) = 0
             PROVE  Fold(base, none) = base
  <2>1. <<>> \in Seq({}) /\ Len(<<>>) = 0
    OBVIOUS
  <2>2. QED
    BY <2>1
<1>1. 1..0 = {} /\ {} \in SUBSET (1..0)
  OBVIOUS
<1>2. PICK w : Folded(w, base, none) /\ Fold(base, none) = w[1..Len(none)]
  BY FoldOver
<1>3. QED
  BY <1>1, <1>2 DEF Folded

(* One more member: the operator is applied to what the others made. *)
LEMMA FoldAppend ==
  ASSUME NEW E, NEW base, NEW ev \in Seq(E), NEW e \in E,
         \A T : 0 \in T /\ (\A m \in Nat : m \in T => m + 1 \in T) => Nat \subseteq T
  PROVE  Fold(base, Append(ev, e)) = Op(Fold(base, ev), e)
<1> DEFINE n == Len(ev)
           more == Append(ev, e)
<1>1. /\ n \in Nat /\ more \in Seq(E) /\ Len(more) = n + 1 /\ more[n + 1] = e
      /\ \A k \in 1..n : more[k] = ev[k]
  OBVIOUS
<1> HIDE DEF more
<1>2. PICK v : Folded(v, base, ev) /\ Fold(base, ev) = v[1..n]
  BY FoldOver
<1>3. PICK w : Folded(w, base, more) /\ Fold(base, more) = w[1..n + 1]
  BY <1>1, FoldOver
<1>v. \A S \in SUBSET (1..n) :
        v[S] = IF S = {} THEN base ELSE Op(v[S \ {Largest(S)}], ev[Largest(S)])
  BY <1>2 DEF Folded
<1>w. \A S \in SUBSET (1..n + 1) :
        w[S] = IF S = {} THEN base ELSE Op(w[S \ {Largest(S)}], more[Largest(S)])
  BY <1>1, <1>3 DEF Folded
<1> HIDE DEF n
<1> DEFINE Same == {k \in 0..n : v[1..k] = w[1..k]}
<1>4. 0 \in Same
  <2>1. {} \in SUBSET (1..n) /\ {} \in SUBSET (1..n + 1) /\ 1..0 = {} /\ 0 \in 0..n
    BY <1>1
  <2>2. v[{}] = base /\ w[{}] = base
    BY <1>v, <1>w, <2>1
  <2>3. QED
    BY <2>1, <2>2
<1>5. ASSUME NEW k \in 1..n, k - 1 \in Same PROVE k \in Same
  <2>1. k \in 1..n + 1 /\ n + 1 \in Nat /\ k \in 0..n
    BY <1>1
  <2>2. v[1..k] = Op(v[1..(k - 1)], ev[k])
    BY <1>1, <1>v, LargestOfPrefix
  <2>3. w[1..k] = Op(w[1..(k - 1)], more[k])
    BY <1>w, <2>1, LargestOfPrefix
  <2>4. QED
    BY <1>1, <1>5, <2>1, <2>2, <2>3
<1>6. v[1..n] = w[1..n]
  <2> HIDE DEF Same
  <2> DEFINE T == {m \in Nat : m <= n => m \in Same}
  <2>1. 0 \in T
    BY <1>4
  <2>2. ASSUME NEW m \in Nat, m \in T PROVE m + 1 \in T
    <3>1. CASE m + 1 <= n
      <4>1. m + 1 \in 1..n /\ (m + 1) - 1 = m
        BY <1>1, <3>1
      <4>2. QED
        BY <1>1, <1>5, <2>2, <4>1
    <3>2. QED
      BY <3>1
  <2>3. n \in T
    <3> HIDE DEF T
    <3>1. QED
      BY <1>1, <2>1, <2>2
  <2>4. QED
    BY <1>1, <2>3 DEF Same
<1>7. w[1..n + 1] = Op(w[1..n], more[n + 1])
  <2>1. n + 1 \in 1..n + 1 /\ n + 1 \in Nat /\ (n + 1) - 1 = n
    BY <1>1
  <2>2. QED
    BY <1>w, <2>1, LargestOfPrefix
<1>8. QED
  BY <1>1, <1>2, <1>3, <1>6, <1>7 DEF more

=============================================================================

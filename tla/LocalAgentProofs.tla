--------------------------- MODULE LocalAgentProofs ----------------------------
(***************************************************************************)
(* Theorems about LocalAgent, for every number of attempts, request ids    *)
(* and models, every cache size and every sequence of limits.              *)
(***************************************************************************)
EXTENDS LocalAgent, SequenceTheorems, FiniteSetTheorems, TLAPS

(* r is what a removal at i leaves of q. *)
Without(r, q, i) ==
  /\ r \in Seq(Attempts)
  /\ Len(r) = Len(q) - 1
  /\ \A j \in 1..Len(q) - 1 : r[j] = IF j < i THEN q[j] ELSE q[j + 1]

LEMMA RemovedAt ==
  ASSUME NEW q \in Seq(Attempts), NEW i \in DOMAIN q
  PROVE  Without(RemoveAt(q, i), q, i)
<1> DEFINE left == SubSeq(q, 1, i - 1)
           right == SubSeq(q, i + 1, Len(q))
<1>0. i \in 1..Len(q) /\ Len(q) \in Nat /\ \A j \in 1..Len(q) : q[j] \in Attempts
  OBVIOUS
<1>1. /\ left \in Seq(Attempts) /\ Len(left) = i - 1
      /\ \A j \in 1..i - 1 : left[j] = q[j]
  BY <1>0, SubSeqProperties
<1>2. /\ right \in Seq(Attempts) /\ Len(right) = Len(q) - i
      /\ \A j \in 1..Len(q) - i : right[j] = q[i + j]
  BY <1>0, SubSeqProperties
<1> HIDE DEF left, right
<1>3. /\ left \o right \in Seq(Attempts)
      /\ Len(left \o right) = Len(left) + Len(right)
      /\ \A j \in 1..Len(left) + Len(right) :
           (left \o right)[j] = IF j <= Len(left) THEN left[j] ELSE right[j - Len(left)]
  BY <1>1, <1>2, ConcatProperties
<1>4. ASSUME NEW j \in 1..Len(q) - 1
      PROVE  (left \o right)[j] = IF j < i THEN q[j] ELSE q[j + 1]
  <2>0. j \in 1..Len(left) + Len(right)
    BY <1>0, <1>1, <1>2
  <2>1. CASE j < i
    <3>1. j \in 1..i - 1 /\ j <= Len(left)
      BY <1>0, <1>1, <2>1
    <3>2. QED
      BY <1>1, <1>3, <2>0, <2>1, <3>1
  <2>2. CASE j >= i
    <3>1. /\ ~(j <= Len(left)) /\ ~(j < i)
          /\ j - Len(left) \in 1..Len(q) - i
          /\ i + (j - Len(left)) = j + 1
      BY <1>0, <1>1, <2>2
    <3>2. right[j - Len(left)] = q[j + 1]
      BY <1>2, <3>1
    <3>3. QED
      BY <1>3, <2>0, <3>1, <3>2
  <2>3. j < i \/ j >= i
    BY <1>0
  <2>4. QED
    BY <2>1, <2>2, <2>3
<1>5. RemoveAt(q, i) = left \o right
  BY DEF RemoveAt, left, right
<1>6. Len(left) + Len(right) = Len(q) - 1
  BY <1>0, <1>1, <1>2
<1>7. QED
  BY <1>3, <1>4, <1>5, <1>6 DEF Without

LEMMA QueueLeft ==
  ASSUME NEW q \in Seq(Attempts), IsInjective(q), NEW i \in DOMAIN q,
         NEW r, Without(r, q, i)
  PROVE  IsInjective(r) /\ ToSet(r) = ToSet(q) \ {q[i]}
<1>0. /\ i \in 1..Len(q) /\ Len(q) \in Nat /\ DOMAIN q = 1..Len(q)
      /\ DOMAIN r = 1..Len(q) - 1
      /\ \A j \in 1..Len(q) - 1 : r[j] = IF j < i THEN q[j] ELSE q[j + 1]
  BY DEF Without
<1>1. \A j, k \in 1..Len(q) : q[j] = q[k] => j = k
  BY <1>0 DEF IsInjective
<1>2. IsInjective(r)
  <2> SUFFICES ASSUME NEW j \in 1..Len(q) - 1, NEW k \in 1..Len(q) - 1, r[j] = r[k]
               PROVE  j = k
    BY <1>0 DEF IsInjective
  <2>1. CASE j < i /\ k < i
    BY <1>0, <1>1, <2>1
  <2>2. CASE j < i /\ k >= i
    BY <1>0, <1>1, <2>2
  <2>3. CASE j >= i /\ k < i
    BY <1>0, <1>1, <2>3
  <2>4. CASE j >= i /\ k >= i
    BY <1>0, <1>1, <2>4
  <2>5. QED
    BY <1>0, <2>1, <2>2, <2>3, <2>4
<1>3. ToSet(r) \subseteq ToSet(q) \ {q[i]}
  <2> SUFFICES ASSUME NEW j \in 1..Len(q) - 1
               PROVE  r[j] \in ToSet(q) \ {q[i]}
    BY <1>0 DEF ToSet
  <2>1. CASE j < i
    BY <1>0, <1>1, <2>1 DEF ToSet
  <2>2. CASE j >= i
    BY <1>0, <1>1, <2>2 DEF ToSet
  <2>3. QED
    BY <1>0, <2>1, <2>2
<1>4. ToSet(q) \ {q[i]} \subseteq ToSet(r)
  <2> SUFFICES ASSUME NEW k \in 1..Len(q), k # i
               PROVE  q[k] \in ToSet(r)
    BY <1>0 DEF ToSet
  <2>1. CASE k < i
    <3>1. k \in 1..Len(q) - 1 /\ r[k] = q[k]
      BY <1>0, <2>1
    <3>2. QED
      BY <1>0, <3>1 DEF ToSet
  <2>2. CASE k > i
    <3>1. k - 1 \in 1..Len(q) - 1 /\ r[k - 1] = q[k]
      BY <1>0, <2>2
    <3>2. QED
      BY <1>0, <3>1 DEF ToSet
  <2>3. QED
    BY <1>0, <2>1, <2>2
<1>5. QED
  BY <1>2, <1>3, <1>4
-----------------------------------------------------------------------------
(* The inductive invariant: what the cache knows of the tokens it admitted. *)

Admitted(a) ==
  Accepted(a) =>
    /\ token[a] \in Tokens
    /\ token[a].exp > now /\ token[a].requestId \notin evicted =>
         replayed[token[a].requestId].exp = token[a].exp

AgentInv ==
  /\ TypeOK
  /\ limits.concurrent <= peak
  /\ WithinPeak
  /\ NobodyStranded
  /\ SlotsAccounted
  /\ \A a \in Attempts : Admitted(a)
  /\ \A t \in slipped : t.exp <= now
  /\ AdmittedOnce

LEMMA PrunedType ==
  ASSUME TypeOK, NEW at \in Nat
  PROVE  /\ Pruned(at) \in [RequestIds -> [exp : Nat, rank : Nat]]
         /\ \A i \in RequestIds : replayed[i].exp > at => Pruned(at)[i] = replayed[i]
  BY DEF TypeOK, Pruned, Forgotten

LEMMA LimitsType == TypeOK => limits.concurrent \in Nat \ {0} /\ limits.queue \in Nat
  BY AgentAssumption DEF TypeOK

LEMMA AgentInit == Init => AgentInv
<1> SUFFICES ASSUME Init
             PROVE  AgentInv
  OBVIOUS
<1>1. TypeOK
  <2>1. limits \in Limits /\ peak \in Nat
    BY AgentAssumption DEF Init
  <2>2. /\ replayed \in [RequestIds -> [exp : Nat, rank : Nat]]
        /\ evicted \subseteq RequestIds /\ slipped \subseteq Tokens /\ inserted \in Nat
    BY DEF Init, Forgotten
  <2>3. /\ token \in [Attempts -> Tokens \cup {None}]
        /\ pc \in [Attempts -> Waiting \cup {"new", "unauthorised", "replayed",
                   "refused", "busy", "cancelled", "finished"}]
    BY DEF Init
  <2>4. queued \in Seq(Attempts) /\ active \in Nat
    BY DEF Init
  <2>5. stopping \in BOOLEAN
    BY DEF Init
  <2>6. QED
    BY <2>1, <2>2, <2>3, <2>4, <2>5 DEF Init, TypeOK
<1>2. Running = {} /\ queued = <<>> /\ active = 0
  BY DEF Init, Running
<1>3. SlotsAccounted
  <2>1. {a \in Attempts : pc[a] = "queued"} = {}
    BY DEF Init
  <2>2. ToSet(<<>>) = {} /\ IsInjective(<<>>)
    BY DEF ToSet, IsInjective
  <2>3. QED
    BY <1>2, <2>1, <2>2, FS_EmptySet DEF SlotsAccounted
<1>4. limits.concurrent <= peak /\ WithinPeak /\ NobodyStranded
  BY <1>1, <1>2, LimitsType DEF Init, WithinPeak, NobodyStranded
<1>5. \A a \in Attempts : ~Accepted(a)
  BY DEF Init, Accepted, Waiting
<1>6. slipped = {} /\ \A t : AdmittedWith(t) = {}
  BY <1>5 DEF Init, AdmittedWith
<1>7. QED
  BY <1>1, <1>3, <1>4, <1>5, <1>6 DEF AgentInv, Admitted, AdmittedOnce
-----------------------------------------------------------------------------
(* The slots: what each action does to them. *)

(* What happens to slots and queue when an attempt is decided. *)
LEMMA UntouchedSlots ==
  ASSUME AgentInv, UNCHANGED limiter,
         \A a \in Attempts : pc'[a] = pc[a] \/ {pc[a], pc'[a]} \cap Waiting = {}
  PROVE  SlotsAccounted' /\ NobodyStranded'
<1>1. Running' = Running /\ active' = active /\ queued' = queued
  BY DEF Running, Waiting, limiter
<1>2. {a \in Attempts : pc'[a] = "queued"} = {a \in Attempts : pc[a] = "queued"}
  BY DEF Waiting
<1>3. QED
  BY <1>1, <1>2 DEF AgentInv, SlotsAccounted, NobodyStranded

LEMMA RunningFinite == IsFiniteSet(Running) /\ Cardinality(Running) \in Nat
<1>1. Running \subseteq Attempts
  BY DEF Running
<1>2. QED
  BY <1>1, AttemptsAssumption, FS_Subset, FS_CardinalityType

LEMMA AcquireSlots ==
  ASSUME AgentInv, NEW a \in Attempts, pc[a] = "new", Acquire(a)
  PROVE  /\ SlotsAccounted' /\ NobodyStranded'
         /\ active' \in Nat /\ queued' \in Seq(Attempts)
         /\ active' <= peak
<1>0. /\ TypeOK /\ SlotsAccounted /\ NobodyStranded
      /\ limits.concurrent \in Nat \ {0} /\ limits.concurrent <= peak
      /\ active \in Nat /\ active <= peak /\ peak \in Nat
      /\ queued \in Seq(Attempts)
  BY LimitsType DEF AgentInv, WithinPeak, TypeOK
<1>1. CASE Start(a)
  <2>1. Running' = Running \cup {a} /\ a \notin Running
    BY <1>0, <1>1 DEF Running, Start, TypeOK
  <2>2. Cardinality(Running') = Cardinality(Running) + 1
    BY <2>1, RunningFinite, FS_AddElement
  <2>3. {b \in Attempts : pc'[b] = "queued"} = {b \in Attempts : pc[b] = "queued"}
    BY <1>0, <1>1 DEF Start, TypeOK
  <2>4. QED
    BY <1>0, <1>1, <2>2, <2>3 DEF Start, SlotsAccounted, NobodyStranded
<1>2. CASE Busy(a)
  <2>1. \A b \in Attempts : pc'[b] = pc[b] \/ {pc[b], pc'[b]} \cap Waiting = {}
    BY <1>0, <1>2 DEF Busy, TypeOK, Waiting
  <2>2. UNCHANGED limiter
    BY <1>2 DEF Busy
  <2>3. QED
    BY <1>0, <2>1, <2>2, UntouchedSlots DEF limiter
<1>3. CASE Enqueue(a)
  <2>1. /\ queued' \in Seq(Attempts) /\ Len(queued') = Len(queued) + 1
        /\ \A i \in 1..Len(queued) : queued'[i] = queued[i]
        /\ queued'[Len(queued) + 1] = a
    BY <1>0, <1>3, AppendProperties DEF Enqueue
  <2>2. a \notin ToSet(queued)
    BY <1>0 DEF SlotsAccounted
  <2>3. DOMAIN queued = 1..Len(queued) /\ DOMAIN queued' = 1..Len(queued) + 1
        /\ Len(queued) \in Nat
    BY <1>0, <2>1
  <2>4. \A i \in 1..Len(queued) : queued[i] # a
    BY <2>2, <2>3 DEF ToSet
  <2>5. IsInjective(queued')
    <3>1. SUFFICES ASSUME NEW i \in 1..Len(queued) + 1, NEW j \in 1..Len(queued) + 1,
                          queued'[i] = queued'[j]
                   PROVE  i = j
      BY <2>3 DEF IsInjective
    <3>2. CASE i = Len(queued) + 1 \/ j = Len(queued) + 1
      BY <2>1, <2>3, <2>4, <3>1, <3>2
    <3>3. CASE i \in 1..Len(queued) /\ j \in 1..Len(queued)
      BY <1>0, <2>1, <2>3, <3>1, <3>3 DEF SlotsAccounted, IsInjective
    <3>4. QED
      BY <2>3, <3>2, <3>3
  <2>6. ToSet(queued') = ToSet(queued) \cup {a}
    <3>1. ToSet(queued') \subseteq ToSet(queued) \cup {a}
      BY <2>1, <2>3 DEF ToSet
    <3>2. ASSUME NEW i \in 1..Len(queued)
          PROVE  queued[i] \in ToSet(queued')
      <4>1. i \in DOMAIN queued' /\ queued'[i] = queued[i]
        BY <2>1, <2>3
      <4>2. QED
        BY <4>1 DEF ToSet
    <3>3. a \in ToSet(queued')
      <4>1. Len(queued) + 1 \in DOMAIN queued'
        BY <2>3
      <4>2. QED
        BY <2>1, <4>1 DEF ToSet
    <3>4. QED
      BY <2>3, <3>1, <3>2, <3>3 DEF ToSet
  <2>7. {b \in Attempts : pc'[b] = "queued"} = {b \in Attempts : pc[b] = "queued"} \cup {a}
    BY <1>0, <1>3 DEF Enqueue, TypeOK
  <2>8. Running' = Running
    BY <1>0, <1>3 DEF Running, Enqueue, TypeOK
  <2>9. active' = active /\ active > 0
    BY <1>0, <1>3 DEF Enqueue
  <2>10. QED
    BY <1>0, <2>1, <2>5, <2>6, <2>7, <2>8, <2>9 DEF SlotsAccounted, NobodyStranded
<1>4. QED
  BY <1>1, <1>2, <1>3 DEF Acquire

LEMMA FinishSlots ==
  ASSUME AgentInv, NEW a \in Attempts, Finish(a)
  PROVE  /\ SlotsAccounted' /\ NobodyStranded'
         /\ active' \in Nat /\ queued' \in Seq(Attempts)
         /\ active' <= active
         /\ pc' \in [Attempts -> Waiting \cup {"new", "unauthorised", "replayed",
                      "refused", "busy", "cancelled", "finished"}]
         /\ \A b \in Attempts : Accepted(b)' <=> Accepted(b)
<1>0. /\ TypeOK /\ SlotsAccounted /\ pc[a] = "running" /\ a \in Running
      /\ active \in Nat /\ queued \in Seq(Attempts)
  BY DEF AgentInv, Finish, Running, TypeOK
<1>1. active > 0
  <2>1. Running # {}
    BY <1>0
  <2>2. Cardinality(Running) # 0
    BY <2>1, RunningFinite, FS_EmptySet
  <2>3. QED
    BY <1>0, <2>2 DEF SlotsAccounted
<1>2. CASE queued = <<>>
  <2>1. /\ active' = active - 1 /\ queued' = queued
        /\ pc' = [pc EXCEPT ![a] = "finished"]
    BY <1>0, <1>1, <1>2 DEF Finish, Release
  <2>2. Running' = Running \ {a}
    BY <1>0, <2>1 DEF Running, TypeOK
  <2>3. Cardinality(Running') = Cardinality(Running) - 1
    BY <1>0, <2>2, RunningFinite, FS_RemoveElement
  <2>4. {b \in Attempts : pc'[b] = "queued"} = {b \in Attempts : pc[b] = "queued"}
    BY <1>0, <2>1 DEF TypeOK
  <2>5. SlotsAccounted' /\ NobodyStranded'
    BY <1>0, <1>2, <2>1, <2>3, <2>4 DEF SlotsAccounted, NobodyStranded
  <2>6. \A b \in Attempts : Accepted(b)' <=> Accepted(b)
    BY <1>0, <2>1 DEF Accepted, Waiting, TypeOK
  <2>7. QED
    BY <1>0, <1>1, <2>1, <2>5, <2>6 DEF TypeOK
<1>3. CASE queued # <<>>
  <2> DEFINE h == Head(queued)
  <2>1. /\ active' = active /\ queued' = Tail(queued)
        /\ pc' = [pc EXCEPT ![a] = "finished", ![h] = "running"]
    BY <1>0, <1>1, <1>3 DEF Finish, Release
  <2>2. /\ Tail(queued) \in Seq(Attempts) /\ Len(Tail(queued)) = Len(queued) - 1
        /\ \A i \in 1..Len(queued) - 1 : Tail(queued)[i] = queued[i + 1]
        /\ 1 \in DOMAIN queued /\ h = queued[1] /\ h \in Attempts
    BY <1>0, <1>3, HeadTailProperties
  <2>3. IsInjective(queued') /\ ToSet(queued') = ToSet(queued) \ {h}
    <3>1. Without(Tail(queued), queued, 1)
      BY <2>2 DEF Without
    <3>2. IsInjective(queued)
      BY <1>0 DEF SlotsAccounted
    <3> HIDE DEF h
    <3>3. IsInjective(Tail(queued)) /\ ToSet(Tail(queued)) = ToSet(queued) \ {queued[1]}
      BY <1>0, <2>2, <3>1, <3>2, QueueLeft
    <3>4. QED
      BY <2>1, <2>2, <3>3
  <2>4. pc[h] = "queued" /\ h # a
    <3>1. h \in ToSet(queued)
      BY <2>2 DEF ToSet
    <3>2. QED
      BY <1>0, <3>1 DEF SlotsAccounted
  <2> HIDE DEF h
  <2>5. /\ pc'[a] = "finished" /\ pc'[h] = "running"
        /\ \A b \in Attempts \ {a, h} : pc'[b] = pc[b]
    BY <1>0, <2>1, <2>2, <2>4 DEF TypeOK
  <2>6. Running' = (Running \ {a}) \cup {h} /\ h \notin Running \ {a}
    BY <2>2, <2>4, <2>5 DEF Running
  <2>7. Cardinality(Running') = Cardinality(Running)
    <3>1. IsFiniteSet(Running \ {a}) /\ Cardinality(Running \ {a}) = Cardinality(Running) - 1
      BY <1>0, RunningFinite, FS_RemoveElement
    <3>2. Cardinality(Running') = Cardinality(Running \ {a}) + 1
      BY <2>6, <3>1, FS_AddElement
    <3>3. QED
      BY <3>1, <3>2, RunningFinite
  <2>8. {b \in Attempts : pc'[b] = "queued"} = {b \in Attempts : pc[b] = "queued"} \ {h}
    BY <1>0, <2>4, <2>5
  <2>9. SlotsAccounted' /\ NobodyStranded'
    BY <1>0, <1>1, <2>1, <2>3, <2>7, <2>8 DEF SlotsAccounted, NobodyStranded
  <2>10. \A b \in Attempts : Accepted(b)' <=> Accepted(b)
    BY <1>0, <2>4, <2>5 DEF Accepted, Waiting
  <2>11. pc' \in [Attempts -> Waiting \cup {"new", "unauthorised", "replayed",
                  "refused", "busy", "cancelled", "finished"}]
    BY <1>0, <2>1 DEF TypeOK, Waiting
  <2>12. QED
    BY <1>0, <2>1, <2>2, <2>9, <2>10, <2>11
<1>4. QED
  BY <1>2, <1>3

LEMMA AbortSlots ==
  ASSUME AgentInv, NEW a \in Attempts, AbortQueued(a)
  PROVE  SlotsAccounted' /\ NobodyStranded' /\ queued' \in Seq(Attempts)
<1>0. /\ TypeOK /\ SlotsAccounted /\ NobodyStranded /\ queued \in Seq(Attempts)
      /\ pc[a] = "queued" /\ pc' = [pc EXCEPT ![a] = "cancelled"] /\ active' = active
  BY DEF AgentInv, AbortQueued, TypeOK
<1>1. PICK i \in DOMAIN queued : queued[i] = a /\ queued' = RemoveAt(queued, i)
  BY DEF AbortQueued
<1>2. Without(queued', queued, i) /\ queued' \in Seq(Attempts)
  BY <1>0, <1>1, RemovedAt DEF Without
<1>3. IsInjective(queued)
  BY <1>0 DEF SlotsAccounted
<1>4. IsInjective(queued') /\ ToSet(queued') = ToSet(queued) \ {a}
  BY <1>0, <1>1, <1>2, <1>3, QueueLeft
<1>5. {b \in Attempts : pc'[b] = "queued"} = {b \in Attempts : pc[b] = "queued"} \ {a}
  BY <1>0 DEF TypeOK
<1>6. Running' = Running
  BY <1>0 DEF Running, TypeOK
<1>7. queued # <<>>
  BY <1>1
<1>8. QED
  BY <1>0, <1>2, <1>4, <1>5, <1>6, <1>7 DEF SlotsAccounted, NobodyStranded

(* The slots survive every step. *)
LEMMA SlotsStep ==
  ASSUME AgentInv, [Next]_vars
  PROVE  /\ SlotsAccounted' /\ NobodyStranded'
         /\ active' \in Nat /\ queued' \in Seq(Attempts)
         /\ limits'.concurrent <= peak' /\ WithinPeak'
         /\ limits' \in Limits /\ peak' \in Nat
<1>0. /\ TypeOK /\ SlotsAccounted /\ NobodyStranded /\ WithinPeak
      /\ limits.concurrent <= peak
      /\ active \in Nat /\ queued \in Seq(Attempts) /\ limits \in Limits /\ peak \in Nat
  BY DEF AgentInv, TypeOK
<1>1. CASE UNCHANGED <<limiter, config, pc>>
  <2>1. SlotsAccounted' /\ NobodyStranded'
    BY <1>1, UntouchedSlots
  <2>2. QED
    BY <1>0, <1>1, <2>1 DEF limiter, config, WithinPeak
<1>2. CASE Tick \/ UNCHANGED vars
  BY <1>1, <1>2 DEF Tick, vars, limiter, config
<1>3. CASE Heartbeat
  <2>1. UNCHANGED limiter /\ UNCHANGED pc
    BY <1>3 DEF Heartbeat
  <2>2. SlotsAccounted' /\ NobodyStranded'
    BY <2>1, UntouchedSlots
  <2>3. limits' \in Limits /\ limits'.concurrent \in Nat
    BY <1>3, AgentAssumption DEF Heartbeat
  <2>4. peak' \in Nat /\ limits'.concurrent <= peak' /\ peak <= peak'
    BY <1>0, <1>3, <2>3 DEF Heartbeat
  <2>5. QED
    BY <1>0, <2>1, <2>2, <2>3, <2>4 DEF limiter, WithinPeak
<1>4. CASE Shutdown
  <2>1. /\ queued' = <<>> /\ active' = active
        /\ pc' = [a \in Attempts |-> IF pc[a] = "queued" THEN "cancelled" ELSE pc[a]]
        /\ UNCHANGED config
    BY <1>4 DEF Shutdown
  <2>2. Running' = Running
    BY <2>1 DEF Running
  <2>3. {a \in Attempts : pc'[a] = "queued"} = {}
    BY <2>1
  <2>4. ToSet(<<>>) = {} /\ IsInjective(<<>>)
    BY DEF ToSet, IsInjective
  <2>5. QED
    BY <1>0, <2>1, <2>2, <2>3, <2>4
       DEF config, SlotsAccounted, NobodyStranded, WithinPeak
<1>5. ASSUME NEW a \in Attempts, Arrive(a)
      PROVE  /\ SlotsAccounted' /\ NobodyStranded'
             /\ active' \in Nat /\ queued' \in Seq(Attempts) /\ active' <= peak
             /\ UNCHANGED config
  <2>1. pc[a] = "new" /\ UNCHANGED config
    BY <1>5 DEF Arrive
  <2>2. CASE Acquire(a)
    BY <2>1, <2>2, AcquireSlots
  <2>3. CASE UNCHANGED limiter /\ \E at : /\ at \notin Waiting
                                         /\ pc' = [pc EXCEPT ![a] = at]
    <3>1. \A b \in Attempts : pc'[b] = pc[b] \/ {pc[b], pc'[b]} \cap Waiting = {}
      BY <1>0, <2>1, <2>3 DEF TypeOK, Waiting
    <3>2. QED
      BY <1>0, <2>1, <2>3, <3>1, UntouchedSlots DEF limiter, WithinPeak
  <2>4. Acquire(a) \/ (UNCHANGED limiter /\ \E at : /\ at \notin Waiting
                                                  /\ pc' = [pc EXCEPT ![a] = at])
    BY <1>5 DEF Arrive, Unauthorised, RefuseReplay, RefuseModel, Waiting, limiter
  <2>5. QED
    BY <2>2, <2>3, <2>4
<1>6. ASSUME NEW a \in Attempts, Finish(a)
      PROVE  /\ SlotsAccounted' /\ NobodyStranded'
             /\ active' \in Nat /\ queued' \in Seq(Attempts) /\ active' <= peak
             /\ UNCHANGED config
  <2>1. active' \in Nat /\ active' <= active
    BY <1>6, FinishSlots
  <2>2. active' <= peak
    BY <1>0, <2>1 DEF WithinPeak
  <2>3. QED
    BY <1>6, <2>1, <2>2, FinishSlots DEF Finish
<1>7. ASSUME NEW a \in Attempts, AbortQueued(a)
      PROVE  /\ SlotsAccounted' /\ NobodyStranded'
             /\ active' \in Nat /\ queued' \in Seq(Attempts) /\ active' <= peak
             /\ UNCHANGED config
  BY <1>0, <1>7, AbortSlots DEF AbortQueued, WithinPeak
<1>8. ASSUME NEW a \in Attempts, Arrive(a) \/ Finish(a) \/ AbortQueued(a)
      PROVE  /\ SlotsAccounted' /\ NobodyStranded'
             /\ active' \in Nat /\ queued' \in Seq(Attempts) /\ active' <= peak
             /\ UNCHANGED config
  BY <1>5, <1>6, <1>7, <1>8
<1>9. QED
  BY <1>0, <1>2, <1>3, <1>4, <1>8 DEF Next, config, WithinPeak
-----------------------------------------------------------------------------
(* Tokens: what an arrival does to the cache. *)

LEMMA ArriveTokens ==
  ASSUME AgentInv, NEW a \in Attempts, Arrive(a)
  PROVE  \E t \in Tokens :
           /\ pc[a] = "new" /\ token' = [token EXCEPT ![a] = t]
           /\ \E at \in (Waiting \cup {"unauthorised", "replayed", "refused", "busy"}) :
                pc' = [pc EXCEPT ![a] = at]
           /\ \/ UNCHANGED replays /\ ~Accepted(a)'
              \/ /\ replayed' = Pruned(now') /\ UNCHANGED <<inserted, evicted, slipped>>
                 /\ ~Accepted(a)'
              \/ Verified(t) /\ ~Replay(t, now') /\ Remember(t, now')
<1>1. PICK t \in Tokens :
        /\ token' = [token EXCEPT ![a] = t]
        /\ \/ Unauthorised(a, t)
           \/ RefuseReplay(a, t, now')
           \/ /\ Verified(t) /\ ~Replay(t, now') /\ Remember(t, now')
              /\ \/ RefuseModel(a, t)
                 \/ Acquire(a)
  BY DEF Arrive
<1>2. pc[a] = "new" /\ pc \in [Attempts -> Waiting \cup {"new", "unauthorised",
        "replayed", "refused", "busy", "cancelled", "finished"}]
  BY DEF Arrive, AgentInv, TypeOK
<1>3. CASE Unauthorised(a, t)
  <2>1. pc' = [pc EXCEPT ![a] = "unauthorised"] /\ UNCHANGED replays
    BY <1>3 DEF Unauthorised
  <2>2. ~Accepted(a)'
    BY <1>2, <2>1 DEF Accepted, Waiting
  <2>3. QED
    BY <1>1, <1>2, <2>1, <2>2
<1>4. CASE RefuseReplay(a, t, now')
  <2>1. pc' = [pc EXCEPT ![a] = "replayed"] /\ replayed' = Pruned(now')
        /\ UNCHANGED <<inserted, evicted, slipped>>
    BY <1>4 DEF RefuseReplay
  <2>2. ~Accepted(a)'
    BY <1>2, <2>1 DEF Accepted, Waiting
  <2>3. QED
    BY <1>1, <1>2, <2>1, <2>2
<1>5. CASE Verified(t) /\ ~Replay(t, now') /\ Remember(t, now') /\ (RefuseModel(a, t) \/ Acquire(a))
  <2>1. \E at \in (Waiting \cup {"unauthorised", "replayed", "refused", "busy"}) :
          pc' = [pc EXCEPT ![a] = at]
    BY <1>5 DEF RefuseModel, Acquire, Start, Busy, Enqueue, Waiting
  <2>2. QED
    BY <1>1, <1>2, <1>5, <2>1
<1>6. QED
  BY <1>1, <1>3, <1>4, <1>5

LEMMA RememberType ==
  ASSUME TypeOK, NEW t \in Tokens, NEW at \in Nat, Remember(t, at)
  PROVE  /\ replayed' \in [RequestIds -> [exp : Nat, rank : Nat]]
         /\ inserted' \in Nat /\ evicted' \subseteq RequestIds /\ slipped' \subseteq Tokens
<1>1. t.exp \in Nat /\ inserted \in Nat
  BY AgentAssumption DEF Tokens, TypeOK
<1>2. Removed(Pruned(at)) \subseteq RequestIds
  BY DEF Removed, Oldest, Seen
<1>3. \A i \in RequestIds : Pruned(at)[i] \in [exp : Nat, rank : Nat]
  BY PrunedType
<1>4. QED
  BY <1>1, <1>2, <1>3 DEF Remember, TypeOK, Forgotten

(* The admitted tokens of the others, and the new one. *)
LEMMA ArriveAdmits ==
  ASSUME AgentInv, NEW a \in Attempts, Arrive(a)
  PROVE  /\ \A b \in Attempts : Admitted(b)'
         /\ \A t \in slipped' : t.exp <= now'
         /\ AdmittedOnce'
<1> DEFINE After(u) == {b \in Attempts : Accepted(b)' /\ token'[b] = u}
<1>0. /\ TypeOK /\ (\A b \in Attempts : Admitted(b)) /\ AdmittedOnce
      /\ now \in Nat /\ now' \in Nat /\ now <= now'
      /\ slipped \subseteq Tokens /\ \A t \in slipped : t.exp <= now
  BY AgentAssumption DEF AgentInv, Arrive, TypeOK
<1>1. PICK t \in Tokens :
        /\ pc[a] = "new" /\ token' = [token EXCEPT ![a] = t]
        /\ \E at : pc' = [pc EXCEPT ![a] = at]
        /\ \/ UNCHANGED replays /\ ~Accepted(a)'
           \/ /\ replayed' = Pruned(now') /\ UNCHANGED <<inserted, evicted, slipped>>
              /\ ~Accepted(a)'
           \/ Verified(t) /\ ~Replay(t, now') /\ Remember(t, now')
  BY ArriveTokens
<1>2. /\ token'[a] = t
      /\ \A b \in Attempts \ {a} : token'[b] = token[b] /\ pc'[b] = pc[b]
  BY <1>0, <1>1 DEF TypeOK
<1>3. \A b \in Attempts \ {a} : Accepted(b)' <=> Accepted(b)
  BY <1>2 DEF Accepted
<1>4. /\ \A b \in Attempts : Accepted(b) =>
           token[b] \in Tokens /\ token[b].requestId \in RequestIds /\ token[b].exp \in Nat
      /\ \A u \in Tokens : u.requestId \in RequestIds /\ u.exp \in Nat
  BY <1>0, AgentAssumption DEF Admitted, Tokens
<1>5. ~Accepted(a)
  BY <1>1 DEF Accepted, Waiting
<1>6. CASE /\ ~Accepted(a)' /\ evicted' = evicted /\ slipped' = slipped
           /\ replayed' = replayed \/ replayed' = Pruned(now')
  <2>1. \A b \in Attempts : Admitted(b)'
    <3> SUFFICES ASSUME NEW b \in Attempts, Accepted(b)'
                 PROVE  Admitted(b)'
      BY DEF Admitted
    <3>1. b # a /\ Accepted(b) /\ token'[b] = token[b]
      BY <1>2, <1>3, <1>6
    <3>2. ASSUME token[b].exp > now', token[b].requestId \notin evicted
          PROVE  replayed'[token[b].requestId].exp = token[b].exp
      <4>1. token[b].exp > now /\ token[b].requestId \in RequestIds
        BY <1>0, <1>4, <3>1, <3>2
      <4>2. replayed[token[b].requestId].exp = token[b].exp
        BY <1>0, <3>1, <3>2, <4>1 DEF Admitted
      <4>3. Pruned(now')[token[b].requestId] = replayed[token[b].requestId]
        BY <1>0, <3>2, <4>1, <4>2, PrunedType
      <4>4. QED
        BY <1>6, <4>2, <4>3
    <3>3. QED
      BY <1>4, <1>6, <3>1, <3>2 DEF Admitted
  <2>2. \A u : After(u) = AdmittedWith(u)
    BY <1>2, <1>3, <1>5, <1>6 DEF AdmittedWith
  <2>3. \A u \in slipped' : u.exp <= now'
    BY <1>0, <1>4, <1>6
  <2>4. AdmittedOnce'
    <3>1. SUFFICES ASSUME NEW b \in Attempts, NEW c \in Attempts, b # c, Accepted(b)',
                          c \in After(token'[b]), token'[b].requestId \notin evicted'
                   PROVE  token'[b] \in slipped' /\ After(token'[b]) = {b, c}
      BY Zenon DEF AdmittedOnce, AdmittedWith
    <3>2. b # a /\ Accepted(b) /\ token'[b] = token[b] /\ c \in AdmittedWith(token[b])
      BY <1>2, <1>3, <1>6, <2>2, <3>1
    <3>3. token[b] \in slipped /\ AdmittedWith(token[b]) = {b, c}
      BY <1>0, <1>6, <3>1, <3>2 DEF AdmittedOnce
    <3>4. QED
      BY <1>6, <2>2, <3>2, <3>3
  <2>5. QED
    BY <2>1, <2>3, <2>4
<1>7. CASE Verified(t) /\ ~Replay(t, now') /\ Remember(t, now')
  <2>1. t.requestId \in RequestIds /\ t.exp > now /\ t.exp \in Nat
        /\ Pruned(now')[t.requestId] = Forgotten
    BY <1>4, <1>7 DEF Verified, Replay, Seen
  <2>2. /\ replayed'[t.requestId].exp = t.exp
        /\ evicted' = evicted \cup Removed(Pruned(now'))
        /\ slipped' = slipped \cup {x \in {t} : t.exp <= now'}
        /\ \A i \in RequestIds \ {t.requestId} :
             i \notin Removed(Pruned(now')) => replayed'[i] = Pruned(now')[i]
    BY <1>7, <2>1 DEF Remember
  (* A token that is still alive and admitted before cannot come again. *)
  <2>3. ASSUME NEW b \in Attempts, Accepted(b), token[b].exp > now',
               token[b].requestId \notin evicted
        PROVE  /\ token[b].requestId # t.requestId
               /\ Pruned(now')[token[b].requestId].exp = token[b].exp
    <3>1. /\ replayed[token[b].requestId].exp = token[b].exp
          /\ token[b].requestId \in RequestIds /\ token[b].exp \in Nat
      BY <1>0, <1>4, <2>3 DEF Admitted
    <3>2. Pruned(now')[token[b].requestId] = replayed[token[b].requestId]
      BY <1>0, <2>3, <3>1, PrunedType
    <3>3. Pruned(now')[token[b].requestId].exp # 0
      BY <1>0, <2>3, <3>1, <3>2
    <3>4. QED
      BY <2>1, <3>1, <3>2, <3>3 DEF Forgotten
  <2>4. \A b \in Attempts : Admitted(b)'
    <3> SUFFICES ASSUME NEW b \in Attempts, Accepted(b)'
                 PROVE  Admitted(b)'
      BY DEF Admitted
    <3>1. CASE b = a
      BY <1>2, <2>2, <3>1 DEF Admitted
    <3>2. CASE b # a
      <4>1. Accepted(b) /\ token'[b] = token[b]
        BY <1>2, <1>3, <3>2
      <4>2. ASSUME token[b].exp > now', token[b].requestId \notin evicted'
            PROVE  replayed'[token[b].requestId].exp = token[b].exp
        BY <1>4, <2>2, <2>3, <4>1, <4>2
      <4>3. QED
        BY <1>0, <1>4, <4>1, <4>2 DEF Admitted
    <3>3. QED
      BY <3>1, <3>2
  <2>5. \A u \in slipped' : u.exp <= now'
    BY <1>0, <1>4, <2>2
  (* As it is still alive when it is verified, it was not used twice before. *)
  <2>6. \A b, c \in AdmittedWith(t) : b = c \/ t.requestId \in evicted
    <3>1. t \notin slipped
      BY <1>0, <2>1
    <3>2. \A b, c \in AdmittedWith(t) : /\ b \in Attempts /\ c \in Attempts
                                       /\ Accepted(b) /\ token[b] = t
      BY DEF AdmittedWith
    <3>3. QED
      BY <1>0, <3>1, <3>2 DEF AdmittedOnce
  <2>7. /\ \A u : u # t => After(u) = AdmittedWith(u)
        /\ After(t) \subseteq AdmittedWith(t) \cup {a}
        /\ AdmittedWith(t) \subseteq After(t) /\ a \notin AdmittedWith(t)
    BY <1>2, <1>3, <1>5 DEF AdmittedWith
  <2>8. AdmittedOnce'
    <3>1. SUFFICES ASSUME NEW b \in Attempts, NEW c \in Attempts, b # c, Accepted(b)',
                          c \in After(token'[b]), token'[b].requestId \notin evicted'
                   PROVE  token'[b] \in slipped' /\ After(token'[b]) = {b, c}
      BY Zenon DEF AdmittedOnce, AdmittedWith
    <3>2. token'[b].requestId \notin evicted
      BY <2>2, <3>1
    <3>3. b \in After(token'[b])
      BY <3>1
    <3>4. CASE token'[b] # t
      <4>1. b # a /\ token'[b] = token[b] /\ Accepted(b) /\ c \in AdmittedWith(token[b])
        BY <1>2, <1>3, <2>7, <3>1, <3>4
      <4>2. token[b] \in slipped /\ AdmittedWith(token[b]) = {b, c}
        BY <1>0, <3>1, <3>2, <4>1 DEF AdmittedOnce
      <4>3. QED
        BY <2>2, <2>7, <3>4, <4>1, <4>2
    <3>5. CASE token'[b] = t
      <4>1. PICK d \in AdmittedWith(t) : {b, c} = {a, d} /\ After(t) \subseteq {a, d}
        BY <2>6, <2>7, <3>1, <3>2, <3>3, <3>5
      <4>2. After(t) = {b, c}
        BY <3>1, <3>3, <3>5, <4>1
      <4>3. d \in Attempts /\ Accepted(d) /\ token[d] = t
        BY <4>1 DEF AdmittedWith
      <4>4. ~(t.exp > now')
        BY <2>3, <3>2, <3>5, <4>3
      <4>5. t \in slipped'
        BY <1>0, <2>1, <2>2, <4>4
      <4>6. QED
        BY <3>5, <4>2, <4>5
    <3>6. QED
      BY <3>4, <3>5
  <2>9. QED
    BY <2>4, <2>5, <2>8
<1>8. QED
  BY <1>1, <1>6, <1>7 DEF replays

(* Steps that admit nobody. *)
LEMMA OthersAdmit ==
  ASSUME AgentInv, UNCHANGED <<replays, token>>, now' \in Nat, now <= now',
         \A a \in Attempts : Accepted(a)' <=> Accepted(a)
  PROVE  /\ \A b \in Attempts : Admitted(b)'
         /\ \A t \in slipped' : t.exp <= now'
         /\ AdmittedOnce'
<1>0. /\ TypeOK /\ (\A b \in Attempts : Admitted(b)) /\ AdmittedOnce /\ now \in Nat
      /\ slipped \subseteq Tokens /\ \A t \in slipped : t.exp <= now
      /\ \A u \in Tokens : u.exp \in Nat
  BY AgentAssumption DEF AgentInv, TypeOK, Tokens
<1>1. \A b \in Attempts : Accepted(b) => token[b].exp \in Nat
  BY <1>0 DEF Admitted
<1>2. \A b \in Attempts : Admitted(b)'
  <2> SUFFICES ASSUME NEW b \in Attempts, Accepted(b)
               PROVE  Admitted(b)'
    BY DEF Admitted
  <2>1. token[b].exp > now' => token[b].exp > now
    BY <1>0, <1>1
  <2>2. QED
    BY <1>0, <2>1 DEF Admitted, replays
<1>3. \A t \in slipped' : t.exp <= now'
  BY <1>0 DEF replays
<1>4. AdmittedOnce'
  <2>1. \A u : AdmittedWith(u)' = AdmittedWith(u)
    BY DEF AdmittedWith
  <2>2. QED
    BY <1>0, <2>1 DEF AdmittedOnce, replays
<1>5. QED
  BY <1>2, <1>3, <1>4
-----------------------------------------------------------------------------
LEMMA TypeStep == AgentInv /\ [Next]_vars => TypeOK'
<1> SUFFICES ASSUME AgentInv, [Next]_vars
             PROVE  TypeOK'
  OBVIOUS
<1> DEFINE States == Waiting \cup {"new", "unauthorised", "replayed", "refused",
                                  "busy", "cancelled", "finished"}
<1>0. TypeOK
  BY DEF AgentInv
<1>1. active' \in Nat /\ queued' \in Seq(Attempts) /\ limits' \in Limits /\ peak' \in Nat
  BY SlotsStep
<1>2. SUFFICES /\ now' \in Nat /\ updates' \in Nat /\ allowed' \subseteq Models
               /\ stopping' \in BOOLEAN
               /\ replayed' \in [RequestIds -> [exp : Nat, rank : Nat]]
               /\ inserted' \in Nat /\ evicted' \subseteq RequestIds
               /\ slipped' \subseteq Tokens
               /\ pc' \in [Attempts -> States]
               /\ token' \in [Attempts -> Tokens \cup {None}]
  BY <1>1 DEF TypeOK
<1>3. CASE Tick
  BY <1>0, <1>3 DEF Tick, TypeOK, config, limiter, replays
<1>4. CASE Heartbeat
  BY <1>0, <1>4 DEF Heartbeat, TypeOK, limiter, replays
<1>5. CASE Shutdown
  <2>1. pc' \in [Attempts -> States]
    BY <1>0, <1>5 DEF Shutdown, TypeOK
  <2>2. stopping' \in BOOLEAN
    BY <1>5 DEF Shutdown
  <2>3. QED
    BY <1>0, <1>5, <2>1, <2>2 DEF Shutdown, TypeOK, config, replays
<1>6. ASSUME NEW a \in Attempts, Arrive(a)
      PROVE  /\ replayed' \in [RequestIds -> [exp : Nat, rank : Nat]]
             /\ inserted' \in Nat /\ evicted' \subseteq RequestIds
             /\ slipped' \subseteq Tokens /\ now' \in Nat
             /\ pc' \in [Attempts -> States]
             /\ token' \in [Attempts -> Tokens \cup {None}]
  <2>1. PICK t \in Tokens :
          /\ token' = [token EXCEPT ![a] = t]
          /\ \E at \in (Waiting \cup {"unauthorised", "replayed", "refused", "busy"}) :
               pc' = [pc EXCEPT ![a] = at]
          /\ \/ UNCHANGED replays
             \/ replayed' = Pruned(now') /\ UNCHANGED <<inserted, evicted, slipped>>
             \/ Remember(t, now')
    BY <1>6, ArriveTokens
  <2>0. now' \in Nat
    BY <1>0, <1>6, AgentAssumption DEF TypeOK, Arrive
  <2>2. /\ replayed' \in [RequestIds -> [exp : Nat, rank : Nat]]
        /\ inserted' \in Nat /\ evicted' \subseteq RequestIds /\ slipped' \subseteq Tokens
    <3>1. CASE UNCHANGED replays
      BY <1>0, <3>1 DEF TypeOK, replays
    <3>2. CASE replayed' = Pruned(now') /\ UNCHANGED <<inserted, evicted, slipped>>
      BY <1>0, <2>0, <3>2, PrunedType DEF TypeOK
    <3>3. CASE Remember(t, now')
      BY <1>0, <2>0, <3>3, RememberType
    <3>4. QED
      BY <2>1, <3>1, <3>2, <3>3
  <2>3. QED
    BY <1>0, <2>0, <2>1, <2>2 DEF TypeOK
<1>7. ASSUME NEW a \in Attempts, Finish(a) \/ AbortQueued(a)
      PROVE  pc' \in [Attempts -> States] /\ UNCHANGED <<replays, token, now>>
  <2>1. CASE Finish(a)
    BY <2>1, FinishSlots DEF Finish
  <2>2. CASE AbortQueued(a)
    BY <1>0, <2>2 DEF AbortQueued, TypeOK
  <2>3. QED
    BY <1>7, <2>1, <2>2
<1>8. ASSUME NEW a \in Attempts, Arrive(a) \/ Finish(a) \/ AbortQueued(a)
      PROVE  UNCHANGED <<config, stopping>>
  BY <1>8 DEF Arrive, Finish, AbortQueued
<1>9. CASE UNCHANGED vars
  BY <1>0, <1>9 DEF TypeOK, vars
<1>10. ASSUME NEW a \in Attempts, Arrive(a) \/ Finish(a) \/ AbortQueued(a)
       PROVE  /\ replayed' \in [RequestIds -> [exp : Nat, rank : Nat]]
              /\ inserted' \in Nat /\ evicted' \subseteq RequestIds
              /\ slipped' \subseteq Tokens /\ now' \in Nat
              /\ pc' \in [Attempts -> States]
              /\ token' \in [Attempts -> Tokens \cup {None}]
  BY <1>0, <1>6, <1>7, <1>10 DEF TypeOK, replays
<1>11. QED
  BY <1>0, <1>3, <1>4, <1>5, <1>8, <1>9, <1>10 DEF Next, TypeOK, config

LEMMA AgentStep == AgentInv /\ [Next]_vars => AgentInv'
<1> SUFFICES ASSUME AgentInv, [Next]_vars
             PROVE  AgentInv'
  OBVIOUS
<1>0. TypeOK /\ TypeOK' /\ now \in Nat
  BY TypeStep DEF AgentInv, TypeOK
<1>1. /\ \A b \in Attempts : Admitted(b)'
      /\ \A t \in slipped' : t.exp <= now'
      /\ AdmittedOnce'
  <2>1. ASSUME NEW a \in Attempts, Finish(a) \/ AbortQueued(a)
        PROVE  /\ UNCHANGED <<replays, token, now>>
               /\ \A b \in Attempts : Accepted(b)' <=> Accepted(b)
    <3>1. CASE Finish(a)
      BY <3>1, FinishSlots DEF Finish
    <3>2. CASE AbortQueued(a)
      BY <1>0, <3>2 DEF AbortQueued, TypeOK, Accepted, Waiting
    <3>3. QED
      BY <2>1, <3>1, <3>2
  <2>2. CASE Shutdown
    <3>1. \A b \in Attempts : Accepted(b)' <=> Accepted(b)
      BY <2>2 DEF Shutdown, Accepted, Waiting
    <3>2. UNCHANGED <<replays, token, now>>
      BY <2>2 DEF Shutdown
    <3>3. QED
      BY <1>0, <3>1, <3>2, OthersAdmit
  <2>3. CASE Tick \/ Heartbeat \/ UNCHANGED vars
    <3>1. UNCHANGED <<replays, token, pc>>
      BY <2>3 DEF Tick, Heartbeat, vars, replays
    <3>2. now' \in Nat /\ now <= now'
      BY <1>0, <2>3 DEF Tick, Heartbeat, vars
    <3>3. \A b \in Attempts : Accepted(b)' <=> Accepted(b)
      BY <3>1 DEF Accepted
    <3>4. QED
      BY <3>1, <3>2, <3>3, OthersAdmit
  <2>4. QED
    BY <1>0, <2>1, <2>2, <2>3, ArriveAdmits, OthersAdmit DEF Next
<1>2. QED
  BY <1>0, <1>1, SlotsStep DEF AgentInv

LEMMA Inductive == Spec => []AgentInv
<1>1. QED
  BY AgentInit, AgentStep, PTL DEF Spec

(* The agent's state keeps its types through every arrival, hand-over, abort,
   configuration change and shutdown. *)
THEOREM AgentTypeCorrect == Spec => []TypeOK
<1>1. AgentInv => TypeOK
  BY DEF AgentInv
<1>2. QED
  BY <1>1, Inductive, PTL

(* The limiter's count is the number of attempts that run, and its queue holds
   each waiting attempt once: no abort or hand-over leaks or doubles a slot. *)
THEOREM SlotsCorrect == Spec => []SlotsAccounted
<1>1. AgentInv => SlotsAccounted
  BY DEF AgentInv
<1>2. QED
  BY <1>1, Inductive, PTL

(* Never more run than the largest limit configured in the agent's life. *)
THEOREM Bounded == Spec => []WithinPeak
<1>1. AgentInv => WithinPeak
  BY DEF AgentInv
<1>2. QED
  BY <1>1, Inductive, PTL

(* No attempt waits in a queue while no slot is held that will be given back. *)
THEOREM NoneStranded == Spec => []NobodyStranded
<1>1. AgentInv => NobodyStranded
  BY DEF AgentInv
<1>2. QED
  BY <1>1, Inductive, PTL

(* A token is admitted once per process, unless its id was forgotten to make
   room, and once more only if it expired between the two readings of the clock
   that its admission takes (verifyLocalNodeRequestToken, pruneReplays). *)
THEOREM OnceAdmitted == Spec => []AdmittedOnce
<1>1. AgentInv => AdmittedOnce
  BY DEF AgentInv
<1>2. QED
  BY <1>1, Inductive, PTL
=============================================================================

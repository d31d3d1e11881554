-------------------------- MODULE DeduplicationProofs --------------------------
(***************************************************************************)
(* Theorems about Deduplication, for every number of requests, keys and    *)
(* entries and every length of the windows.                                *)
(***************************************************************************)
EXTENDS Deduplication, FiniteSetTheorems, TLAPS

Maps == [Keys -> Entries \cup {None}]

(* Cleaning up and making room only take completed entries away. *)
Reduced(R, E) ==
  /\ R \in Maps
  /\ \A k \in Keys : R[k] = E[k] \/ (R[k] = None /\ k \in Completed(E))

LEMMA CleanedUpReduces ==
  ASSUME entries \in Maps
  PROVE  /\ Reduced(CleanedUp(entries), entries)
         /\ \A k \in Completed(CleanedUp(entries)) :
              CleanedUp(entries)[k].expiresAt > now \/ ~(now \in Nat)
  BY DEF CleanedUp, Reduced, Maps, Completed, Stored, Entries

LEMMA MadeRoomReduces ==
  ASSUME NEW E \in Maps, NEW R \in MadeRoom(E)
  PROVE  Reduced(R, E)
  BY DEF MadeRoom, Removing, Oldest, Reduced, Maps, Completed, Stored

LEMMA ReducedTwice ==
  ASSUME entries \in Maps, NEW E, Reduced(E, entries), NEW R, Reduced(R, E)
  PROVE  Reduced(R, entries)
  BY DEF Reduced, Maps, Completed, Stored

LEMMA StoredFinite ==
  ASSUME NEW E
  PROVE  IsFiniteSet(Stored(E)) /\ Cardinality(Stored(E)) \in Nat
<1>1. Stored(E) \subseteq Keys
  BY DEF Stored
<1>2. QED
  BY <1>1, CallersAssumption, FS_Subset, FS_CardinalityType

LEMMA ReducedSmaller ==
  ASSUME NEW E, NEW R, Reduced(R, E)
  PROVE  Cardinality(Stored(R)) <= Cardinality(Stored(E))
<1>1. Stored(R) \subseteq Stored(E)
  BY DEF Reduced, Stored
<1>2. QED
  BY <1>1, StoredFinite, FS_Subset
-----------------------------------------------------------------------------
(* Type correctness. *)

LEMMA TypeInit == Init => TypeOK
  BY DEF Init, TypeOK, Sources, Outcomes

LEMMA NewEntryType ==
  ASSUME TypeOK, NEW c \in Callers
  PROVE  NewEntry(c) \in Entries
  BY DEF NewEntry, Entries, TypeOK

(* What the three ways to be served do to the state. *)
LEMMA ArriveCases ==
  ASSUME TypeOK, NEW c \in Callers, Arrive(c)
  PROVE  \E k \in Keys, w \in Windows :
           /\ pc[c] = "new" /\ key' = [key EXCEPT ![c] = k]
           /\ window' = [window EXCEPT ![c] = w]
           /\ UNCHANGED <<now, result, settledAt>>
           /\ \/ /\ k \in Stored(entries) /\ Reduced(entries', entries)
                 /\ entries[k].completed => entries[k].expiresAt > now
                 /\ source' = [source EXCEPT ![c] =
                      IF entries[k].completed THEN "completed" ELSE "in-flight"]
                 /\ promise' = [promise EXCEPT ![c] = entries[k].leader]
                 /\ pc' = [pc EXCEPT ![c] = "awaiting"]
                 /\ UNCHANGED inserted
              \/ /\ k \in Stored(entries) => k \in Completed(entries)
                 /\ \E R : /\ Reduced(R, entries) /\ ~Full(R)
                           /\ entries' = [R EXCEPT ![k] = NewEntry(c)]
                 /\ inserted' = inserted + 1
                 /\ Execute(c, "original")
              \/ /\ Reduced(entries', entries)
                 /\ Execute(c, "unshared")
                 /\ UNCHANGED inserted
<1> DEFINE E == CleanedUp(entries)
<1>1. PICK k \in Keys, w \in Windows :
        /\ key' = [key EXCEPT ![c] = k]
        /\ window' = [window EXCEPT ![c] = w]
        /\ Join(c, k, E) \/ Lead(c, k, E) \/ RunUnshared(c, k, E)
  BY DEF Arrive
<1>2. pc[c] = "new" /\ UNCHANGED <<now, result, settledAt>>
  BY DEF Arrive
<1>3. entries \in Maps /\ now \in Nat
  BY DEF TypeOK, Maps
<1>4. /\ Reduced(E, entries) /\ E \in Maps
      /\ \A q \in Completed(E) : E[q].expiresAt > now
  BY <1>3, CleanedUpReduces DEF Reduced
<1> HIDE DEF E
<1>5. ~Reusable(k, E) /\ k \in Stored(entries) => k \in Completed(entries)
  BY <1>4 DEF Reusable, Reduced, Stored, Completed
<1>6. CASE Join(c, k, E)
  <2>1. k \in Stored(E) /\ E[k] = entries[k]
    BY <1>4, <1>6 DEF Join, Reusable, Reduced, Stored
  <2>2. /\ k \in Stored(entries) /\ Reduced(entries', entries)
        /\ entries[k].completed => entries[k].expiresAt > now
    BY <1>4, <1>6, <2>1 DEF Join, Reusable, Stored
  <2>3. QED
    BY <1>1, <1>2, <1>6, <2>1, <2>2 DEF Join
<1>7. CASE Lead(c, k, E)
  <2>1. PICK R \in MadeRoom(E) : ~Full(R) /\ entries' = [R EXCEPT ![k] = NewEntry(c)]
    BY <1>7 DEF Lead
  <2>2. Reduced(R, entries)
    BY <1>3, <1>4, MadeRoomReduces, ReducedTwice
  <2>3. QED
    BY <1>1, <1>2, <1>5, <1>7, <2>1, <2>2 DEF Lead
<1>8. CASE RunUnshared(c, k, E)
  <2>1. PICK R \in MadeRoom(E) : entries' = R
    BY <1>8 DEF RunUnshared
  <2>2. Reduced(entries', entries)
    BY <1>3, <1>4, <2>1, MadeRoomReduces, ReducedTwice
  <2>3. QED
    BY <1>1, <1>2, <1>8, <2>2 DEF RunUnshared
<1>9. QED
  BY <1>1, <1>6, <1>7, <1>8

LEMMA TypeStep == DedupInv /\ [Next]_vars => TypeOK'
<1> SUFFICES ASSUME DedupInv, [Next]_vars
             PROVE  TypeOK'
  OBVIOUS
<1>0. TypeOK /\ (\A k \in Keys : EntryInv(k)) /\ (\A c \in Callers : CallerInv(c))
  BY DEF DedupInv
<1>1. CASE Tick
  BY <1>0, <1>1 DEF Tick, TypeOK
<1>2. ASSUME NEW c \in Callers, Arrive(c)
      PROVE  TypeOK'
  <2>1. PICK k \in Keys, w \in Windows :
          /\ key' = [key EXCEPT ![c] = k]
          /\ window' = [window EXCEPT ![c] = w]
          /\ UNCHANGED <<now, result, settledAt>>
          /\ \/ /\ k \in Stored(entries) /\ Reduced(entries', entries)
                /\ source' = [source EXCEPT ![c] =
                     IF entries[k].completed THEN "completed" ELSE "in-flight"]
                /\ promise' = [promise EXCEPT ![c] = entries[k].leader]
                /\ pc' = [pc EXCEPT ![c] = "awaiting"]
                /\ UNCHANGED inserted
             \/ /\ \E R : /\ Reduced(R, entries) /\ ~Full(R)
                          /\ entries' = [R EXCEPT ![k] = NewEntry(c)]
                /\ inserted' = inserted + 1
                /\ Execute(c, "original")
             \/ /\ Reduced(entries', entries)
                /\ Execute(c, "unshared")
                /\ UNCHANGED inserted
    BY <1>0, <1>2, ArriveCases
  <2>2. entries' \in Maps
    BY <1>0, <2>1, NewEntryType DEF Reduced, Maps
  <2>3. k \in Stored(entries) => entries[k].leader \in Callers
    BY <1>0 DEF Stored, TypeOK, Entries
  <2>4. /\ pc' \in [Callers -> {"new", "executing", "awaiting", "answered"}]
        /\ source' \in [Callers -> Sources]
        /\ promise' \in [Callers -> Callers \cup {None}]
        /\ inserted' \in Nat
    BY <1>0, <2>1, <2>3 DEF TypeOK, Execute, Sources
  <2>5. QED
    BY <1>0, <2>1, <2>2, <2>4, LimitAssumption DEF TypeOK, Maps
<1>3. ASSUME NEW c \in Callers, Settle(c)
      PROVE  TypeOK'
  <2>1. PICK outcome \in Outcomes :
          /\ result' = [result EXCEPT ![c] = outcome]
          /\ entries' = IF source[c] = "original" THEN SettledEntries(c, outcome)
                        ELSE entries
          /\ settledAt' = IF outcome = "cacheable" THEN [settledAt EXCEPT ![c] = now]
                          ELSE settledAt
    BY <1>3 DEF Settle
  <2>2. now + window[c] \in Nat
    BY <1>0 DEF TypeOK
  <2>3. entries' \in Maps
    <3>1. CASE source[c] = "original" /\ outcome = "cacheable"
      <4> DEFINE k == key[c]
                 e == [entries[k] EXCEPT !.completed = TRUE, !.expiresAt = now + window[c]]
      <4>1. k \in Stored(entries) /\ entries[k].leader = c /\ entries[k] \in Entries
        BY <1>0, <1>3, <3>1 DEF CallerInv, OwnsEntry, Settle, TypeOK, Stored
      <4>2. e \in Entries
        BY <2>2, <4>1 DEF Entries
      <4>3. entries' = [entries EXCEPT ![k] = e]
        BY <2>1, <3>1, <4>1 DEF SettledEntries
      <4> HIDE DEF e
      <4>4. QED
        BY <1>0, <4>2, <4>3 DEF TypeOK, Maps
    <3>2. CASE source[c] = "original" /\ outcome # "cacheable"
      BY <1>0, <2>1, <3>2 DEF SettledEntries, TypeOK, Maps
    <3>3. CASE source[c] # "original"
      BY <1>0, <2>1, <3>3 DEF TypeOK, Maps
    <3>4. QED
      BY <3>1, <3>2, <3>3
  <2>4. QED
    BY <1>0, <1>3, <2>1, <2>3 DEF Settle, TypeOK, Maps
<1>4. ASSUME NEW c \in Callers, Answer(c)
      PROVE  TypeOK'
  BY <1>0, <1>4 DEF Answer, TypeOK
<1>5. CASE UNCHANGED vars
  BY <1>0, <1>5 DEF vars, TypeOK
<1>6. QED
  BY <1>1, <1>2, <1>3, <1>4, <1>5 DEF Next
-----------------------------------------------------------------------------
(* The inductive invariant. *)

LEMMA DedupInit == Init => DedupInv
<1> SUFFICES ASSUME Init
             PROVE  DedupInv
  OBVIOUS
<1>1. TypeOK
  BY TypeInit
<1>2. Stored(entries) = {}
  BY DEF Init, Stored
<1>3. SizeBound
  BY <1>2, FS_EmptySet, LimitAssumption DEF SizeBound
<1>4. \A c \in Callers : CallerInv(c)
  BY DEF Init, CallerInv
<1>5. \A k \in Keys : EntryInv(k)
  BY <1>2 DEF EntryInv
<1>6. QED
  BY <1>1, <1>3, <1>4, <1>5 DEF DedupInv

(* Nobody who has not arrived leads an entry. *)
LEMMA NewLeadsNothing ==
  ASSUME DedupInv, NEW c \in Callers, pc[c] = "new"
  PROVE  \A k \in Stored(entries) : entries[k].leader # c
<1>1. source[c] = "none"
  BY DEF DedupInv, CallerInv
<1>2. \A k \in Stored(entries) : source[entries[k].leader] = "original"
  BY DEF DedupInv, EntryInv, Stored
<1>3. QED
  BY <1>1, <1>2

LEMMA ReducedSize ==
  ASSUME DedupInv, NEW R, Reduced(R, entries)
  PROVE  Cardinality(Stored(R)) <= MaxEntries
<1>1. Cardinality(Stored(entries)) <= MaxEntries
  BY DEF DedupInv, SizeBound
<1>2. Cardinality(Stored(R)) <= Cardinality(Stored(entries))
  BY ReducedSmaller
<1>3. QED
  BY <1>1, <1>2, StoredFinite, LimitAssumption

(* A request that is served from an entry, or runs on its own. *)
LEMMA ReducedKeeps ==
  ASSUME DedupInv, TypeOK', NEW c \in Callers, pc[c] = "new",
         Reduced(entries', entries),
         NEW k \in Keys, key' = [key EXCEPT ![c] = k],
         NEW w, window' = [window EXCEPT ![c] = w],
         UNCHANGED <<now, result, settledAt>>,
         NEW how \in {"completed", "in-flight", "unshared"},
         source' = [source EXCEPT ![c] = how],
         NEW p \in Callers, promise' = [promise EXCEPT ![c] = p],
         NEW at, pc' = [pc EXCEPT ![c] = at],
         at = (IF how = "unshared" THEN "executing" ELSE "awaiting"),
         how = "unshared" => p = c /\ result[c] = "pending"
  PROVE  DedupInv'
<1>0. TypeOK
  BY DEF DedupInv
<1>1. \A d \in Callers : CallerInv(d)'
  <2> SUFFICES ASSUME NEW d \in Callers
               PROVE  CallerInv(d)'
    OBVIOUS
  <2>1. CallerInv(d)
    BY DEF DedupInv
  <2>2. CASE d = c
    BY <1>0, <2>2 DEF CallerInv, TypeOK
  <2>3. CASE d # c
    <3>1. UNCHANGED <<pc[d], key[d], source[d], promise[d], result[d]>>
      BY <1>0, <2>3 DEF TypeOK
    <3>2. OwnsEntry(d) => OwnsEntry(d)'
      BY <3>1 DEF OwnsEntry, Reduced, Stored, Completed
    <3>3. QED
      BY <2>1, <3>1, <3>2 DEF CallerInv
  <2>4. QED
    BY <2>2, <2>3
<1>2. \A q \in Keys : EntryInv(q)'
  <2> SUFFICES ASSUME NEW q \in Keys, q \in Stored(entries')
               PROVE  EntryInv(q)'
    BY DEF EntryInv
  <2>1. q \in Stored(entries) /\ entries'[q] = entries[q] /\ EntryInv(q)
    BY DEF DedupInv, Reduced, Stored
  <2>2. entries[q].leader # c /\ entries[q].leader \in Callers
    BY <1>0, <2>1, NewLeadsNothing DEF Stored, TypeOK, Entries
  <2>3. QED
    BY <1>0, <2>1, <2>2 DEF EntryInv, TypeOK
<1>3. SizeBound'
  BY ReducedSize DEF SizeBound
<1>4. QED
  BY <1>1, <1>2, <1>3 DEF DedupInv

(* A request that leads a new execution. *)
LEMMA LeadKeeps ==
  ASSUME DedupInv, TypeOK', NEW c \in Callers, pc[c] = "new",
         NEW R, Reduced(R, entries), ~Full(R),
         NEW k \in Keys, key' = [key EXCEPT ![c] = k],
         NEW w, window' = [window EXCEPT ![c] = w],
         UNCHANGED <<now, result, settledAt>>,
         k \in Stored(entries) => k \in Completed(entries),
         entries' = [R EXCEPT ![k] = NewEntry(c)],
         Execute(c, "original"),
         result[c] = "pending"
  PROVE  DedupInv'
<1>0. TypeOK /\ R \in Maps
  BY DEF DedupInv, Reduced
<1>1. /\ source' = [source EXCEPT ![c] = "original"]
      /\ promise' = [promise EXCEPT ![c] = c]
      /\ pc' = [pc EXCEPT ![c] = "executing"]
  BY DEF Execute
<1>2. /\ entries'[k] = NewEntry(c)
      /\ \A q \in Keys \ {k} : entries'[q] = R[q]
  BY <1>0 DEF Maps
<1>3. NewEntry(c) \in Entries
  BY <1>0, NewEntryType
<1>4. NewEntry(c) # None
  BY <1>3, NoneAssumption
<1>5. \A d \in Callers : CallerInv(d)'
  <2> SUFFICES ASSUME NEW d \in Callers
               PROVE  CallerInv(d)'
    OBVIOUS
  <2>1. CallerInv(d)
    BY DEF DedupInv
  <2>2. CASE d = c
    <3>1. key'[c] = k
      BY <1>0 DEF TypeOK
    <3>2. OwnsEntry(c)'
      BY <1>2, <1>4, <3>1 DEF OwnsEntry, Stored, NewEntry
    <3>3. QED
      BY <1>0, <1>1, <2>2, <3>1, <3>2 DEF CallerInv, TypeOK
  <2>3. CASE d # c
    <3>1. UNCHANGED <<pc[d], key[d], source[d], promise[d], result[d]>>
      BY <1>0, <1>1, <2>3 DEF TypeOK
    <3>2. ASSUME OwnsEntry(d)
          PROVE  OwnsEntry(d)'
      <4>1. key[d] # k /\ key[d] \in Keys
        BY <3>2 DEF OwnsEntry, Stored, Completed
      <4>2. R[key[d]] = entries[key[d]]
        BY <3>2, <4>1 DEF OwnsEntry, Reduced, Completed
      <4>3. QED
        BY <1>2, <3>1, <3>2, <4>1, <4>2 DEF OwnsEntry, Stored
    <3>3. QED
      BY <2>1, <3>1, <3>2 DEF CallerInv
  <2>4. QED
    BY <2>2, <2>3
<1>6. \A q \in Keys : EntryInv(q)'
  <2> SUFFICES ASSUME NEW q \in Keys, q \in Stored(entries')
               PROVE  EntryInv(q)'
    BY DEF EntryInv
  <2>1. CASE q = k
    <3>1. entries'[q].leader = c /\ ~entries'[q].completed
      BY <1>2, <2>1 DEF NewEntry
    <3>2. key'[c] = k /\ source'[c] = "original" /\ pc'[c] = "executing"
      BY <1>0, <1>1 DEF TypeOK
    <3>3. QED
      BY <2>1, <3>1, <3>2 DEF EntryInv
  <2>2. CASE q # k
    <3>1. q \in Stored(entries) /\ entries'[q] = entries[q] /\ EntryInv(q)
      BY <1>2, <2>2 DEF DedupInv, Reduced, Stored
    <3>2. entries[q].leader # c /\ entries[q].leader \in Callers
      BY <1>0, <3>1, NewLeadsNothing DEF Stored, TypeOK, Entries
    <3>3. QED
      BY <1>0, <1>1, <3>1, <3>2 DEF EntryInv, TypeOK
  <2>3. QED
    BY <2>1, <2>2
<1>7. SizeBound'
  <2>1. Stored(entries') \subseteq Stored(R) \cup {k}
    BY <1>2 DEF Stored
  <2>2. IsFiniteSet(Stored(R)) /\ Cardinality(Stored(R)) \in Nat
    BY StoredFinite
  <2>3. IsFiniteSet(Stored(R) \cup {k})
        /\ Cardinality(Stored(R) \cup {k}) <= Cardinality(Stored(R)) + 1
    <3>1. IsFiniteSet(Stored(R) \cup {k})
          /\ \/ Cardinality(Stored(R) \cup {k}) = Cardinality(Stored(R)) + 1
             \/ Cardinality(Stored(R) \cup {k}) = Cardinality(Stored(R))
      BY <2>2, FS_AddElement, Zenon
    <3>2. QED
      BY <2>2, <3>1
  <2>4. Cardinality(Stored(entries')) <= Cardinality(Stored(R) \cup {k})
    BY <2>1, <2>3, FS_Subset
  <2>5. Cardinality(Stored(R)) < MaxEntries
    BY <2>2, LimitAssumption DEF Full
  <2>6. /\ Cardinality(Stored(entries')) \in Nat
        /\ Cardinality(Stored(R) \cup {k}) \in Nat
    BY <2>3, StoredFinite, FS_CardinalityType
  <2>7. QED
    BY <2>2, <2>3, <2>4, <2>5, <2>6, LimitAssumption DEF SizeBound
<1>8. QED
  BY <1>5, <1>6, <1>7 DEF DedupInv

(* An execution settles: what its original leaves in the Map is its own. *)
LEMMA SettleKeeps ==
  ASSUME DedupInv, TypeOK', NEW c \in Callers, Settle(c)
  PROVE  DedupInv'
<1>0. TypeOK /\ CallerInv(c) /\ c \in Callers /\ pc[c] = "executing"
  BY DEF DedupInv, Settle
<1>1. PICK outcome \in Outcomes :
        /\ result' = [result EXCEPT ![c] = outcome]
        /\ entries' = IF source[c] = "original" THEN SettledEntries(c, outcome)
                      ELSE entries
        /\ settledAt' = IF outcome = "cacheable" THEN [settledAt EXCEPT ![c] = now]
                        ELSE settledAt
  BY DEF Settle
<1>2. /\ pc' = [pc EXCEPT ![c] = "awaiting"]
      /\ UNCHANGED <<now, inserted, key, window, source, promise>>
  BY DEF Settle
<1>3. /\ source[c] \in {"original", "unshared"} /\ promise[c] = c
      /\ source[c] = "original" => OwnsEntry(c)
  BY <1>0 DEF CallerInv
(* The entry of c is the only one that changes. *)
<1>4. /\ \A q \in Keys : q # key[c] => entries'[q] = entries[q]
      /\ source[c] = "unshared" => entries' = entries
      /\ source[c] = "original" /\ outcome # "cacheable" => entries'[key[c]] = None
  BY <1>0, <1>1, <1>3 DEF SettledEntries, TypeOK, OwnsEntry, Stored
<1>5. source[c] = "original" /\ outcome = "cacheable" =>
        /\ entries'[key[c]].leader = c
        /\ entries'[key[c]].completed
        /\ entries'[key[c]].expiresAt = now + window[c]
  <2>1. SUFFICES ASSUME source[c] = "original", outcome = "cacheable"
                 PROVE  /\ entries'[key[c]].leader = c
                        /\ entries'[key[c]].completed
                        /\ entries'[key[c]].expiresAt = now + window[c]
    OBVIOUS
  <2>2. /\ key[c] \in Stored(entries) /\ key[c] \in Keys /\ entries[key[c]].leader = c
        /\ entries[key[c]] \in Entries
    BY <1>0, <1>3, <2>1 DEF OwnsEntry, Stored, TypeOK
  <2> DEFINE e == [entries[key[c]] EXCEPT !.completed = TRUE,
                                          !.expiresAt = now + window[c]]
  <2>3. e.leader = c /\ e.completed /\ e.expiresAt = now + window[c]
    BY <2>2 DEF Entries
  <2>4. entries' = [entries EXCEPT ![key[c]] = e]
    BY <1>1, <2>1, <2>2 DEF SettledEntries
  <2> HIDE DEF e
  <2>5. entries'[key[c]] = e
    BY <1>0, <2>2, <2>4 DEF TypeOK
  <2>6. QED
    BY <2>3, <2>5
<1>6. \A d \in Callers : CallerInv(d)'
  <2> SUFFICES ASSUME NEW d \in Callers
               PROVE  CallerInv(d)'
    OBVIOUS
  <2>1. CallerInv(d)
    BY DEF DedupInv
  <2>2. CASE d = c
    BY <1>0, <1>1, <1>2, <1>3, <2>2 DEF CallerInv, TypeOK, Outcomes
  <2>3. CASE d # c
    <3>1. UNCHANGED <<pc[d], key[d], source[d], promise[d], result[d]>>
      BY <1>0, <1>1, <1>2, <2>3 DEF TypeOK
    <3>2. ASSUME OwnsEntry(d)
          PROVE  OwnsEntry(d)'
      <4>1. key[d] \in Keys
        BY <3>2 DEF OwnsEntry, Stored
      <4>2. entries'[key[d]] = entries[key[d]]
        BY <1>3, <1>4, <2>3, <3>2, <4>1 DEF OwnsEntry
      <4>3. QED
        BY <3>1, <3>2, <4>1, <4>2 DEF OwnsEntry, Stored
    <3>3. QED
      BY <2>1, <3>1, <3>2 DEF CallerInv
  <2>4. QED
    BY <2>2, <2>3
<1>7. \A q \in Keys : EntryInv(q)'
  <2> SUFFICES ASSUME NEW q \in Keys, q \in Stored(entries')
               PROVE  EntryInv(q)'
    BY DEF EntryInv
  <2>1. CASE source[c] = "original" /\ q = key[c]
    <3>1. outcome = "cacheable"
      BY <1>4, <2>1 DEF Stored
    <3>2. result'[c] = "cacheable" /\ settledAt'[c] = now
      BY <1>0, <1>1, <3>1 DEF TypeOK
    <3>3. QED
      BY <1>2, <1>5, <2>1, <3>1, <3>2 DEF EntryInv
  <2>2. CASE ~(source[c] = "original" /\ q = key[c])
    <3>1. entries'[q] = entries[q] /\ q \in Stored(entries)
      BY <1>3, <1>4, <2>2 DEF Stored
    <3>2. EntryInv(q) /\ entries[q].leader \in Callers
      BY <1>0, <3>1 DEF DedupInv, Stored, TypeOK, Entries
    <3>3. entries[q].leader # c
      BY <2>2, <3>1, <3>2 DEF EntryInv
    <3>4. UNCHANGED <<pc[entries[q].leader], result[entries[q].leader],
                      settledAt[entries[q].leader]>>
      <4>1. \A d \in Callers \ {c} : pc'[d] = pc[d] /\ result'[d] = result[d]
        BY <1>0, <1>1, <1>2 DEF TypeOK
      <4>2. \A d \in Callers \ {c} : settledAt'[d] = settledAt[d]
        BY <1>0, <1>1 DEF TypeOK
      <4>3. QED
        BY <3>1, <3>2, <3>3, <4>1, <4>2
    <3>5. QED
      BY <1>2, <3>1, <3>2, <3>4 DEF EntryInv
  <2>3. QED
    BY <2>1, <2>2
<1>8. SizeBound'
  <2>1. Stored(entries') \subseteq Stored(entries)
    BY <1>3, <1>4 DEF Stored, OwnsEntry
  <2>2. Cardinality(Stored(entries')) <= Cardinality(Stored(entries))
    BY <2>1, StoredFinite, FS_Subset
  <2>3. QED
    BY <2>2, StoredFinite, LimitAssumption DEF DedupInv, SizeBound
<1>9. QED
  BY <1>6, <1>7, <1>8 DEF DedupInv

LEMMA DedupStep == DedupInv /\ [Next]_vars => DedupInv'
<1> SUFFICES ASSUME DedupInv, [Next]_vars
             PROVE  DedupInv'
  OBVIOUS
<1>0. TypeOK /\ TypeOK'
  BY TypeStep DEF DedupInv
<1>1. CASE Tick
  <2>1. UNCHANGED <<entries, pc, key, window, source, promise, result, settledAt>>
    BY <1>1 DEF Tick
  <2>2. QED
    BY <1>0, <2>1 DEF DedupInv, CallerInv, OwnsEntry, EntryInv, SizeBound, Stored
<1>2. ASSUME NEW c \in Callers, Arrive(c)
      PROVE  DedupInv'
  <2>1. PICK k \in Keys, w \in Windows :
          /\ pc[c] = "new" /\ key' = [key EXCEPT ![c] = k]
          /\ window' = [window EXCEPT ![c] = w]
          /\ UNCHANGED <<now, result, settledAt>>
          /\ \/ /\ k \in Stored(entries) /\ Reduced(entries', entries)
                /\ source' = [source EXCEPT ![c] =
                     IF entries[k].completed THEN "completed" ELSE "in-flight"]
                /\ promise' = [promise EXCEPT ![c] = entries[k].leader]
                /\ pc' = [pc EXCEPT ![c] = "awaiting"]
             \/ /\ k \in Stored(entries) => k \in Completed(entries)
                /\ \E R : /\ Reduced(R, entries) /\ ~Full(R)
                          /\ entries' = [R EXCEPT ![k] = NewEntry(c)]
                /\ Execute(c, "original")
             \/ /\ Reduced(entries', entries)
                /\ Execute(c, "unshared")
    BY <1>0, <1>2, ArriveCases
  <2>2. result[c] = "pending"
    BY <2>1 DEF DedupInv, CallerInv
  <2>3. CASE /\ k \in Stored(entries) /\ Reduced(entries', entries)
             /\ source' = [source EXCEPT ![c] =
                  IF entries[k].completed THEN "completed" ELSE "in-flight"]
             /\ promise' = [promise EXCEPT ![c] = entries[k].leader]
             /\ pc' = [pc EXCEPT ![c] = "awaiting"]
    <3>1. entries[k].leader \in Callers
      BY <1>0, <2>3 DEF Stored, TypeOK, Entries
    <3>2. PICK how \in {"completed", "in-flight"} : source' = [source EXCEPT ![c] = how]
      BY <2>3
    <3>3. QED
      BY <1>0, <2>1, <2>3, <3>1, <3>2, ReducedKeeps
  <2>4. CASE /\ k \in Stored(entries) => k \in Completed(entries)
             /\ \E R : /\ Reduced(R, entries) /\ ~Full(R)
                       /\ entries' = [R EXCEPT ![k] = NewEntry(c)]
             /\ Execute(c, "original")
    BY <1>0, <2>1, <2>2, <2>4, LeadKeeps
  <2>5. CASE Reduced(entries', entries) /\ Execute(c, "unshared")
    BY <1>0, <2>1, <2>2, <2>5, ReducedKeeps DEF Execute
  <2>6. QED
    BY <2>1, <2>3, <2>4, <2>5
<1>3. ASSUME NEW c \in Callers, Settle(c)
      PROVE  DedupInv'
  BY <1>0, <1>3, SettleKeeps
<1>4. ASSUME NEW c \in Callers, Answer(c)
      PROVE  DedupInv'
  <2>1. /\ pc[c] = "awaiting" /\ pc' = [pc EXCEPT ![c] = "answered"]
        /\ UNCHANGED <<now, entries, key, window, source, promise, result, settledAt>>
    BY <1>4 DEF Answer
  <2>2. \A d \in Callers : CallerInv(d)'
    BY <1>0, <2>1 DEF DedupInv, CallerInv, OwnsEntry, Stored, TypeOK
  <2>3. \A k \in Keys : EntryInv(k)'
    <3> SUFFICES ASSUME NEW k \in Keys, k \in Stored(entries)
                 PROVE  EntryInv(k)'
      BY <2>1 DEF EntryInv, Stored
    <3>1. EntryInv(k) /\ entries[k].leader \in Callers
      BY <1>0 DEF DedupInv, Stored, TypeOK, Entries
    <3>2. ~entries[k].completed => pc'[entries[k].leader] = "executing"
      BY <1>0, <2>1, <3>1 DEF EntryInv, TypeOK
    <3>3. QED
      BY <2>1, <3>1, <3>2 DEF EntryInv
  <2>4. QED
    BY <1>0, <2>1, <2>2, <2>3 DEF DedupInv, SizeBound, Stored
<1>5. CASE UNCHANGED vars
  BY <1>0, <1>5 DEF vars, DedupInv, CallerInv, OwnsEntry, EntryInv, SizeBound, Stored
<1>6. QED
  BY <1>1, <1>2, <1>3, <1>4, <1>5 DEF Next
-----------------------------------------------------------------------------
LEMMA Inductive == Spec => []DedupInv
<1>1. QED
  BY DedupInit, DedupStep, PTL DEF Spec

(* The gate's state keeps its types: no stored entry lacks a leader or an
   expiry, and whoever waits, waits for a caller. *)
THEOREM DedupTypeCorrect == Spec => []TypeOK
<1>1. DedupInv => TypeOK
  BY DEF DedupInv
<1>2. QED
  BY <1>1, Inductive, PTL

(* At most one shared execution per fingerprint, for any number of concurrent
   requests: an executing original owns the entry of its key. *)
THEOREM OneExecution == Spec => []SingleFlight
<1>1. DedupInv => SingleFlight
  BY DEF DedupInv, CallerInv, OwnsEntry, SingleFlight
<1>2. QED
  BY <1>1, Inductive, PTL

(* The Map never holds more than MaxEntries entries. *)
THEOREM BoundedMap == Spec => []SizeBound
<1>1. DedupInv => SizeBound
  BY DEF DedupInv
<1>2. QED
  BY <1>1, Inductive, PTL

(* A step that makes a request a duplicate joins an execution that runs, or a
   success whose window is not over: the entry it found says so. *)
LEMMA ReuseStep ==
  DedupInv /\ [Next]_vars => [\A c \in Callers : SoundReuse(c)]_vars
<1> SUFFICES ASSUME DedupInv, Next, NEW c \in Callers, pc[c] = "new",
                    source'[c] \in {"in-flight", "completed"}
             PROVE  SoundReuse(c)
  BY DEF SoundReuse
<1>0. TypeOK /\ source[c] = "none"
  BY DEF DedupInv, CallerInv
<1>1. Arrive(c)
  <2>1. CASE Tick
    BY <1>0, <2>1 DEF Tick
  <2>2. ASSUME NEW d \in Callers, Settle(d) \/ Answer(d)
        PROVE  FALSE
    BY <1>0, <2>2 DEF Settle, Answer
  <2>3. ASSUME NEW d \in Callers \ {c}, Arrive(d)
        PROVE  FALSE
    <3>1. PICK how : source' = [source EXCEPT ![d] = how]
      BY <2>3 DEF Arrive, Join, Lead, RunUnshared, Execute
    <3>2. QED
      BY <1>0, <3>1 DEF TypeOK
  <2>4. QED
    BY <2>1, <2>2, <2>3 DEF Next
<1>2. PICK k \in Keys :
        /\ key' = [key EXCEPT ![c] = k]
        /\ k \in Stored(entries)
        /\ entries[k].completed => entries[k].expiresAt > now
        /\ source' = [source EXCEPT ![c] =
             IF entries[k].completed THEN "completed" ELSE "in-flight"]
        /\ promise' = [promise EXCEPT ![c] = entries[k].leader]
  BY <1>0, <1>1, ArriveCases DEF Execute, TypeOK
<1> DEFINE o == entries[k].leader
<1>3. /\ promise'[c] = o /\ key'[c] = k
      /\ source'[c] = IF entries[k].completed THEN "completed" ELSE "in-flight"
  BY <1>0, <1>2 DEF TypeOK
<1>4. /\ key[o] = k /\ source[o] = "original" /\ o \in Callers
      /\ ~entries[k].completed => pc[o] = "executing"
      /\ entries[k].completed =>
           result[o] = "cacheable" /\ entries[k].expiresAt = settledAt[o] + window[o]
  BY <1>0, <1>2 DEF DedupInv, EntryInv, TypeOK, Stored, Entries
<1>5. ~entries[k].completed => result[o] = "pending"
  BY <1>4 DEF DedupInv, CallerInv
<1>6. entries[k].completed => now < settledAt[o] + window[o]
  <2>1. settledAt[o] + window[o] \in Nat /\ now \in Nat
    BY <1>0, <1>4 DEF TypeOK
  <2>2. QED
    BY <1>2, <1>4, <2>1
<1>7. QED
  BY <1>3, <1>4, <1>5, <1>6 DEF SoundReuse

(* Whoever is served as a duplicate gets the answer of the same operation,
   running or still within its window, and never a failure that was over. *)
THEOREM SoundlyReused == Spec => ReuseIsSound
<1>1. QED
  BY Inductive, ReuseStep, PTL DEF Spec, ReuseIsSound
-----------------------------------------------------------------------------
(* The gate implements Coalescing. *)

LEMMA CoalescingInit == Init => Coalesced!Init
<1> SUFFICES ASSUME Init
             PROVE  Coalesced!Init
  OBVIOUS
<1>1. \A k \in Keys : Operation(k) = Coalesced!Absent
  BY DEF Init, Operation, Coalesced!Absent
<1>2. SettledCallers = {}
  BY DEF Init, SettledCallers
<1>3. QED
  BY <1>1, <1>2 DEF Coalesced!Init

(* Cleaning up and making room forget results that were reusable. *)
LEMMA ReducedForgets ==
  ASSUME NEW k \in Keys, entries'[k] = entries[k] \/
                         (entries'[k] = None /\ k \in Completed(entries))
  PROVE  \/ Operation(k)' = Operation(k)
         \/ Operation(k).state = "reusable" /\ Operation(k)' = Coalesced!Absent
<1>1. CASE entries'[k] = entries[k]
  BY <1>1 DEF Operation
<1>2. CASE entries'[k] = None /\ k \in Completed(entries)
  <2>1. Operation(k)' = Coalesced!Absent
    BY <1>2 DEF Operation, Coalesced!Absent
  <2>2. Operation(k).state = "reusable"
    BY <1>2 DEF Operation, Completed, Stored
  <2>3. QED
    BY <2>1, <2>2
<1>3. QED
  BY <1>1, <1>2

LEMMA CoalescingStep == DedupInv /\ [Next]_vars => [Coalesced!Next]_Coalesced!vars
<1> SUFFICES ASSUME DedupInv, [Next]_vars
             PROVE  Coalesced!Step \/ UNCHANGED Coalesced!vars
  BY DEF Coalesced!Next
<1>0. TypeOK
  BY DEF DedupInv
<1> DEFINE op == [k \in Keys |-> Operation(k)]
<1>1. CASE UNCHANGED <<entries, result>>
  BY <1>1 DEF Coalesced!vars, Operation, SettledCallers
<1>2. ASSUME NEW c \in Callers, Arrive(c)
      PROVE  Coalesced!Step
  <2>1. PICK k \in Keys :
          /\ pc[c] = "new" /\ UNCHANGED result
          /\ \/ Reduced(entries', entries)
             \/ /\ k \in Stored(entries) => k \in Completed(entries)
                /\ \E R : /\ Reduced(R, entries)
                          /\ entries' = [R EXCEPT ![k] = NewEntry(c)]
    BY <1>0, <1>2, ArriveCases
  <2>2. SettledCallers' = SettledCallers
    BY <2>1 DEF SettledCallers
  <2>3. CASE Reduced(entries', entries)
    <3>1. \A q \in Keys :
            \/ Operation(q)' = Operation(q)
            \/ Operation(q).state = "reusable" /\ Operation(q)' = Coalesced!Absent
      BY <2>3, ReducedForgets DEF Reduced
    <3>2. Coalesced!Forget
      BY <2>2, <3>1 DEF Coalesced!Forget
    <3>3. QED
      BY <3>2 DEF Coalesced!Step
  <2>4. CASE /\ k \in Stored(entries) => k \in Completed(entries)
             /\ \E R : /\ Reduced(R, entries)
                       /\ entries' = [R EXCEPT ![k] = NewEntry(c)]
    <3>1. PICK R : Reduced(R, entries) /\ entries' = [R EXCEPT ![k] = NewEntry(c)]
      BY <2>4
    <3>2. /\ entries'[k] = NewEntry(c) /\ NewEntry(c) # None
          /\ \A q \in Keys \ {k} : entries'[q] = R[q]
      BY <1>0, <3>1, NewEntryType, NoneAssumption DEF Reduced, Maps
    <3>3. Operation(k).state # "running"
      BY <2>4 DEF Operation, Completed, Stored
    <3>4. c \notin SettledCallers
      BY <2>1 DEF DedupInv, CallerInv, SettledCallers
    <3>5. Operation(k)' = Coalesced!Running(c)
      BY <3>2 DEF Operation, NewEntry, Coalesced!Running
    <3>6. \A q \in Keys \ {k} :
            \/ Operation(q)' = Operation(q)
            \/ Operation(q).state = "reusable" /\ Operation(q)' = Coalesced!Absent
      BY <3>1, <3>2, ReducedForgets DEF Reduced
    <3>7. Coalesced!Start(k, c)
      BY <2>2, <3>3, <3>4, <3>5, <3>6 DEF Coalesced!Start
    <3>8. QED
      BY <3>7 DEF Coalesced!Step
  <2>5. QED
    BY <2>1, <2>3, <2>4
<1>3. ASSUME NEW c \in Callers, Settle(c)
      PROVE  Coalesced!Step
  <2>0. key' = key
    BY <1>3 DEF Settle
  <2>1. PICK outcome \in Outcomes :
          /\ result' = [result EXCEPT ![c] = outcome]
          /\ entries' = IF source[c] = "original" THEN SettledEntries(c, outcome)
                        ELSE entries
    BY <1>3 DEF Settle
  <2>2. SettledCallers' = SettledCallers \cup {c}
    BY <1>0, <2>1 DEF SettledCallers, TypeOK, Outcomes
  <2>3. CASE source[c] = "original"
    <3> DEFINE k == key[c]
    <3>1. OwnsEntry(c) /\ k \in Keys /\ entries[k] \in Entries
      BY <1>0, <1>3, <2>3 DEF DedupInv, CallerInv, Settle, OwnsEntry, Stored, TypeOK
    <3>2. Operation(k) = Coalesced!Running(c)
      BY <3>1 DEF OwnsEntry, Operation, Stored, Coalesced!Running
    <3>3. CASE outcome # "cacheable"
      <4>1. entries' = [entries EXCEPT ![k] = None]
        BY <2>1, <2>3, <3>3 DEF SettledEntries
      <4>2. Operation(k)' = Coalesced!Absent
        BY <2>0, <1>0, <3>1, <4>1 DEF TypeOK, Operation, Coalesced!Absent
      <4>3. \A q \in Keys \ {k} : Operation(q)' = Operation(q)
        BY <1>0, <4>1 DEF TypeOK, Operation
      <4>4. op' = [op EXCEPT ![k] = Coalesced!Absent]
        BY <2>0, <3>1, <4>2, <4>3
      <4>5. Coalesced!Settle(k)
        BY <2>2, <3>1, <3>2, <4>4 DEF Coalesced!Settle, Coalesced!Running
      <4>6. QED
        BY <3>1, <4>5 DEF Coalesced!Step
    <3>4. CASE outcome = "cacheable"
      <4> DEFINE e == [entries[k] EXCEPT !.completed = TRUE,
                                         !.expiresAt = now + window[c]]
      <4>1. entries' = [entries EXCEPT ![k] = e]
        BY <2>1, <2>3, <3>1, <3>4 DEF SettledEntries, OwnsEntry
      <4>2. e.completed /\ e.leader = c /\ e \in Entries
        <5>1. now + window[c] \in Nat
          BY <1>0 DEF TypeOK
        <5>2. QED
          BY <3>1, <5>1 DEF OwnsEntry, Entries
      <4> HIDE DEF e
      <4>3. entries'[k] = e /\ e # None
        BY <1>0, <3>1, <4>1, <4>2, NoneAssumption DEF TypeOK
      <4>4. Operation(k)' = [Operation(k) EXCEPT !.state = "reusable"]
        BY <2>0, <3>2, <4>2, <4>3 DEF Operation, Coalesced!Running
      <4>5. \A q \in Keys \ {k} : Operation(q)' = Operation(q)
        BY <1>0, <4>1 DEF TypeOK, Operation
      <4>6. op' = [op EXCEPT ![k].state = "reusable"]
        BY <2>0, <3>1, <4>4, <4>5
      <4>7. Coalesced!Settle(k)
        BY <2>2, <3>1, <3>2, <4>6 DEF Coalesced!Settle, Coalesced!Running
      <4>8. QED
        BY <3>1, <4>7 DEF Coalesced!Step
    <3>5. QED
      BY <3>3, <3>4
  <2>4. CASE source[c] # "original"
    <3>1. \A k \in Keys : Operation(k)' = Operation(k)
      BY <2>1, <2>4 DEF Operation
    <3>2. \A k \in Keys : Operation(k) # Coalesced!Running(c)
      BY <2>4 DEF DedupInv, EntryInv, Stored, Operation, Coalesced!Running
    <3>3. Coalesced!SettleUnshared(c)
      BY <2>2, <3>1, <3>2 DEF Coalesced!SettleUnshared
    <3>4. QED
      BY <3>3 DEF Coalesced!Step
  <2>5. QED
    BY <2>3, <2>4
<1>4. ASSUME NEW c \in Callers, Answer(c)
      PROVE  UNCHANGED <<entries, result>>
  BY <1>4 DEF Answer
<1>5. CASE Tick
  BY <1>1, <1>5 DEF Tick
<1>6. CASE UNCHANGED vars
  BY <1>1, <1>6 DEF vars
<1>7. QED
  BY <1>1, <1>2, <1>3, <1>4, <1>5, <1>6 DEF Next

(* The gate implements Coalescing: its Map, limit, expiry and clean-up never
   lose or hand over an execution in flight. *)
THEOREM CoalescingImplemented == Spec => ImplementsCoalescing
<1>1. QED
  BY CoalescingInit, CoalescingStep, Inductive, PTL
     DEF Spec, ImplementsCoalescing, Coalesced!Spec
=============================================================================

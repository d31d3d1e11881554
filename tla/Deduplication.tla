---------------------------- MODULE Deduplication -----------------------------
(***************************************************************************)
(* Request deduplication in one router process: identical requests share   *)
(* the execution that is in flight, and a successful response is reused    *)
(* for a window after it completed.                                        *)
(*                                                                         *)
(* A caller is one HTTP request that passed the bypass rules; its key is   *)
(* the fingerprint.  executeDeduplicated runs without interruption up to   *)
(* its await, so Arrive is one step; the promise of the execution settles  *)
(* in another (Settle), and whoever awaits it resumes later (Answer).      *)
(***************************************************************************)
EXTENDS Naturals, FiniteSets

CONSTANTS
  Keys,        \* request fingerprints
  Callers,     \* requests, each made once
  None,        \* no caller, no entry
  MaxEntries,  \* MAX_DEDUPLICATION_ENTRIES
  Windows,     \* reuse windows an account may set, in ticks
  MaxTime      \* bound: clock

ASSUME CallersAssumption ==
  None \notin Callers /\ None \notin Keys /\ IsFiniteSet(Keys)

ASSUME LimitAssumption ==
  MaxEntries \in Nat /\ Windows \subseteq Nat \ {0} /\ MaxTime \in Nat

VARIABLES
  now,
  entries,     \* the Map: for each key its entry, or None
  inserted,    \* entries inserted so far, for the Map's insertion order
  pc,          \* where each caller is
  key,         \* its fingerprint
  window,      \* its account's windowMs
  source,      \* how it is served
  promise,     \* the caller whose execution it awaits
  result,      \* how a caller's own execution settled
  settledAt    \* history: when its cacheable response was ready

vars == <<now, entries, inserted, pc, key, window, source, promise, result,
          settledAt>>

Entries == [leader : Callers, completed : BOOLEAN, expiresAt : Nat, rank : Nat]

ASSUME NoneAssumption == None \notin Entries

Sources == {"none", "original", "unshared", "in-flight", "completed"}

Outcomes == {"cacheable", "uncacheable", "error"}

Init ==
  /\ now = 0
  /\ entries = [k \in Keys |-> None]
  /\ inserted = 0
  /\ pc = [c \in Callers |-> "new"]
  /\ key = [c \in Callers |-> None]
  /\ window = [c \in Callers |-> 0]
  /\ source = [c \in Callers |-> "none"]
  /\ promise = [c \in Callers |-> None]
  /\ result = [c \in Callers |-> "pending"]
  /\ settledAt = [c \in Callers |-> 0]

Stored(E) == {k \in Keys : E[k] # None}

Completed(E) == {k \in Stored(E) : E[k].completed}

CleanedUp(E) ==
  [k \in Keys |->
     IF k \in Completed(E) /\ E[k].expiresAt <= now THEN None ELSE E[k]]

Full(E) == Cardinality(Stored(E)) >= MaxEntries

Oldest(S, E) == {k \in S : \A other \in S : E[k].rank <= E[other].rank}

Removing(S, E) == {[E EXCEPT ![k] = None] : k \in S}

(* Mutant: the oldest entry makes room, whether or not it has completed. *)
MadeRoomAnyhow(E) ==
  IF Full(E) THEN Removing(Oldest(Stored(E), E), E) ELSE {E}

(* The first completed entry makes room for a new one, if there is any. *)
MadeRoom(E) ==
  IF Full(E) /\ Completed(E) # {} THEN Removing(Oldest(Completed(E), E), E)
  ELSE {E}

(* Mutant: an entry is inserted without an expiry. *)
NewEntryUntimed(c) ==
  [leader |-> c, completed |-> FALSE, expiresAt |-> None, rank |-> inserted]

(* An entry is inserted in flight; its expiry is infinite until it completes,
   and is not read before. *)
NewEntry(c) ==
  [leader |-> c, completed |-> FALSE, expiresAt |-> 0, rank |-> inserted]

Reusable(k, E) ==
  k \in Stored(E) /\ (E[k].completed => E[k].expiresAt > now)

Join(c, k, E) ==
  /\ Reusable(k, E)
  /\ entries' = E
  /\ source' = [source EXCEPT ![c] = IF E[k].completed THEN "completed"
                                     ELSE "in-flight"]
  /\ promise' = [promise EXCEPT ![c] = E[k].leader]
  /\ pc' = [pc EXCEPT ![c] = "awaiting"]
  /\ UNCHANGED inserted

Execute(c, how) ==
  /\ source' = [source EXCEPT ![c] = how]
  /\ promise' = [promise EXCEPT ![c] = c]
  /\ pc' = [pc EXCEPT ![c] = "executing"]

(* Mutant: the size limit is not looked at before an entry is inserted. *)
LeadUnbounded(c, k, E) ==
  /\ ~Reusable(k, E)
  /\ entries' = [E EXCEPT ![k] = NewEntry(c)]
  /\ inserted' = inserted + 1
  /\ Execute(c, "original")

Lead(c, k, E) ==
  /\ ~Reusable(k, E)
  /\ \E R \in MadeRoom(E) :
       /\ ~Full(R)
       /\ entries' = [R EXCEPT ![k] = NewEntry(c)]
  /\ inserted' = inserted + 1
  /\ Execute(c, "original")

(* Every entry is in flight: the request runs on its own. *)
RunUnshared(c, k, E) ==
  /\ ~Reusable(k, E)
  /\ \E R \in MadeRoom(E) : Full(R) /\ entries' = R
  /\ Execute(c, "unshared")
  /\ UNCHANGED inserted

Arrive(c) ==
  /\ pc[c] = "new"
  /\ \E k \in Keys, w \in Windows :
       /\ key' = [key EXCEPT ![c] = k]
       /\ window' = [window EXCEPT ![c] = w]
       /\ LET E == CleanedUp(entries)
          IN Join(c, k, E) \/ Lead(c, k, E) \/ RunUnshared(c, k, E)
  /\ UNCHANGED <<now, result, settledAt>>

(* Mutant: a response that may not be reused is kept like one that may. *)
SettledKeepingFailures(c, outcome) ==
  LET k == key[c] IN
  IF outcome \in {"cacheable", "uncacheable"}
  THEN [entries EXCEPT ![k] =
          [@ EXCEPT !.completed = TRUE, !.expiresAt = now + window[c]]]
  ELSE [entries EXCEPT ![k] = None]

(* Mutant: a failed execution leaves its entry in flight for ever. *)
SettledForgettingErrors(c, outcome) ==
  LET k == key[c] IN
  IF outcome = "cacheable"
  THEN [entries EXCEPT ![k] =
          [@ EXCEPT !.completed = TRUE, !.expiresAt = now + window[c]]]
  ELSE entries

(* What the settled execution of an original leaves in the Map: a 2xx of at
   most 2 MB may be reused, anything else is deleted by its key. *)
SettledEntries(c, outcome) ==
  LET k == key[c] IN
  CASE outcome # "cacheable" -> [entries EXCEPT ![k] = None]
    [] outcome = "cacheable" /\ k \in Stored(entries) /\ entries[k].leader = c ->
         [entries EXCEPT ![k] =
            [@ EXCEPT !.completed = TRUE, !.expiresAt = now + window[c]]]
    [] OTHER -> entries

(* The router answers, or handling throws; the abort of the original client
   ends its execution too, with a response that is not reused. *)
Settle(c) ==
  /\ pc[c] = "executing"
  /\ \E outcome \in Outcomes :
       /\ result' = [result EXCEPT ![c] = outcome]
       /\ entries' = IF source[c] = "original" THEN SettledEntries(c, outcome)
                     ELSE entries
       /\ settledAt' = IF outcome = "cacheable" THEN [settledAt EXCEPT ![c] = now]
                       ELSE settledAt
  /\ pc' = [pc EXCEPT ![c] = "awaiting"]
  /\ UNCHANGED <<now, inserted, key, window, source, promise>>

(* Mutant: a duplicate waits for an execution of its own. *)
AnswerOwn(c) ==
  /\ pc[c] = "awaiting"
  /\ result[c] # "pending"
  /\ pc' = [pc EXCEPT ![c] = "answered"]
  /\ UNCHANGED <<now, entries, inserted, key, window, source, promise, result,
                 settledAt>>

Answer(c) ==
  /\ pc[c] = "awaiting"
  /\ result[promise[c]] # "pending"
  /\ pc' = [pc EXCEPT ![c] = "answered"]
  /\ UNCHANGED <<now, entries, inserted, key, window, source, promise, result,
                 settledAt>>

Tick ==
  /\ now < MaxTime
  /\ now' = now + 1
  /\ UNCHANGED <<entries, inserted, pc, key, window, source, promise, result,
                 settledAt>>

Next == Tick \/ \E c \in Callers : Arrive(c) \/ Settle(c) \/ Answer(c)

(* An execution ends: every provider attempt has a timeout.  A settled
   promise resumes those who await it. *)
Fairness == \A c \in Callers : WF_vars(Settle(c)) /\ WF_vars(Answer(c))

Spec == Init /\ [][Next]_vars /\ Fairness
-----------------------------------------------------------------------------
(* Properties. *)

TypeOK ==
  /\ now \in Nat
  /\ entries \in [Keys -> Entries \cup {None}]
  /\ inserted \in Nat
  /\ pc \in [Callers -> {"new", "executing", "awaiting", "answered"}]
  /\ key \in [Callers -> Keys \cup {None}]
  /\ window \in [Callers -> Nat]
  /\ source \in [Callers -> Sources]
  /\ promise \in [Callers -> Callers \cup {None}]
  /\ result \in [Callers -> Outcomes \cup {"pending"}]
  /\ settledAt \in [Callers -> Nat]

(* "Concurrent callers share one provider operation": two executions of the
   same key run at once only if one of them found the Map full of executions. *)
SingleFlight ==
  \A c, d \in Callers :
    /\ pc[c] = "executing" /\ pc[d] = "executing" /\ key[c] = key[d]
    /\ source[c] = "original" /\ source[d] = "original"
    => c = d

(* The Map never outgrows its limit, however many executions are in flight. *)
SizeBound == Cardinality(Stored(entries)) <= MaxEntries

(* A request is served as a duplicate only of the same operation: of a success
   whose window is not over, or of an execution that has not settled.  So a
   failure reaches nobody but those who were already waiting for it. *)
SoundReuse(c) ==
  LET o == promise'[c] IN
  pc[c] = "new" /\ source'[c] \in {"in-flight", "completed"} =>
    /\ key[o] = key'[c] /\ source[o] = "original"
    /\ source'[c] = "in-flight" => result[o] = "pending"
    /\ source'[c] = "completed" =>
         result[o] = "cacheable" /\ now < settledAt[o] + window[o]

(* So every step that serves a request as a duplicate is sound. *)
ReuseIsSound == [][\A c \in Callers : SoundReuse(c)]_vars

(* Every request that entered the gate is answered, the original and those
   that wait for it, whether its execution succeeds, fails or throws. *)
EveryCallerAnswered ==
  \A c \in Callers : pc[c] # "new" ~> pc[c] = "answered"

(* How the Map's entry of a key reads as an operation of Coalescing. *)
Operation(k) ==
  IF entries[k] = None THEN [state |-> "absent", owner |-> None]
  ELSE [state |-> IF entries[k].completed THEN "reusable" ELSE "running",
        owner |-> entries[k].leader]

SettledCallers == {c \in Callers : result[c] # "pending"}

Coalesced == INSTANCE Coalescing WITH
  operation <- [k \in Keys |-> Operation(k)], settled <- SettledCallers

(* For each key at most one execution is coalesced at a time, and an entry in
   flight leaves the Map only when its own execution settles. *)
ImplementsCoalescing == Coalesced!Spec
-----------------------------------------------------------------------------
(* The inductive invariant. *)

(* An original that executes owns the entry of its key, in flight. *)
OwnsEntry(c) ==
  /\ key[c] \in Stored(entries)
  /\ entries[key[c]].leader = c
  /\ ~entries[key[c]].completed

CallerInv(c) ==
  /\ pc[c] = "new" => source[c] = "none" /\ result[c] = "pending"
  /\ pc[c] # "new" => promise[c] \in Callers /\ key[c] \in Keys
  /\ pc[c] = "executing" => source[c] \in {"original", "unshared"}
  /\ pc[c] = "executing" /\ source[c] = "original" => OwnsEntry(c)
  /\ source[c] \in {"original", "unshared"} =>
       promise[c] = c /\ (result[c] = "pending" <=> pc[c] = "executing")

EntryInv(k) ==
  k \in Stored(entries) =>
    LET e == entries[k]
        o == e.leader
    IN /\ key[o] = k /\ source[o] = "original"
       /\ ~e.completed => pc[o] = "executing"
       /\ e.completed =>
            result[o] = "cacheable" /\ e.expiresAt = settledAt[o] + window[o]

DedupInv ==
  /\ TypeOK
  /\ \A c \in Callers : CallerInv(c)
  /\ \A k \in Keys : EntryInv(k)
  /\ SizeBound
=============================================================================

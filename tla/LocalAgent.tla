------------------------------ MODULE LocalAgent -------------------------------
(***************************************************************************)
(* The agent on an owner's machine that runs inference for the router: it  *)
(* admits a signed attempt once, keeps a concurrency limit and a bounded   *)
(* queue, and takes new limits and a new allowlist from every heartbeat    *)
(* while attempts run.  One behaviour is one agent process.                *)
(*                                                                         *)
(* An attempt is one POST of the router.  Its body has been read before    *)
(* the handler looks at it, and the handler runs without interruption from *)
(* the token check to the wait in the queue, so Arrive is one step; so is  *)
(* the hand-over of a slot, whose continuation runs before the next event. *)
(* The clock does not stop in it: a token is verified at one reading and   *)
(* the cache is pruned at a later one.                                     *)
(***************************************************************************)
EXTENDS Naturals, Sequences, SequencesExt

CONSTANTS
  Attempts,    \* POSTs of the router, each made once
  RequestIds,  \* request ids the router gave its clients' requests
  Models,
  Limits,      \* node.limits an owner may set: [concurrent, queue]
  None,
  MaxReplays,  \* MAX_REPLAY_ENTRIES
  MaxUpdates,  \* bound: heartbeats that change the configuration
  MaxTime      \* bound: clock, in ticks of the token's life

ASSUME AttemptsAssumption == IsFiniteSet(Attempts)

ASSUME AgentAssumption ==
  /\ Limits \subseteq [concurrent : Nat \ {0}, queue : Nat] /\ Limits # {}
  /\ MaxReplays \in Nat \ {0}
  /\ MaxUpdates \in Nat /\ MaxTime \in Nat

(* What the router signs for an attempt: the id of the client's request, the
   same for each of its attempts, the model and the expiry. *)
Tokens == [requestId : RequestIds, model : Models, exp : 1..MaxTime + 1]

ASSUME NoneAssumption == None \notin Tokens

VARIABLES
  now,
  limits,      \* config.limits
  peak,        \* history: the largest concurrency limit so far
  allowed,     \* models that are enabled and installed
  updates,
  active, queued,   \* the RequestLimiter
  replayed,    \* request ids seen: expiry and insertion rank
  inserted,
  evicted,     \* history: ids forgotten to make room
  slipped,     \* history: tokens that expired while they were admitted
  pc, token,
  stopping     \* shutdown.abort was called

limiter == <<active, queued>>
replays == <<replayed, inserted, evicted, slipped>>
config == <<limits, peak, allowed, updates>>
vars == <<now, limits, peak, allowed, updates, active, queued, replayed,
          inserted, evicted, slipped, pc, token, stopping>>

Forgotten == [exp |-> 0, rank |-> 0]

Waiting == {"queued", "running"}

(* The router asks the agent for nothing before it is listening. *)
Init ==
  /\ now = 0
  /\ limits \in Limits /\ peak = limits.concurrent
  /\ allowed \in SUBSET Models
  /\ updates = 0
  /\ active = 0 /\ queued = <<>>
  /\ replayed = [i \in RequestIds |-> Forgotten]
  /\ inserted = 0 /\ evicted = {} /\ slipped = {}
  /\ pc = [a \in Attempts |-> "new"]
  /\ token = [a \in Attempts |-> None]
  /\ stopping = FALSE
-----------------------------------------------------------------------------
(* Admission of a token. *)

Seen(R) == {i \in RequestIds : R[i] # Forgotten}

(* Mutant: an id is dropped as soon as the token's issue time is over. *)
PrunedEarly(at) ==
  [i \in RequestIds |-> IF replayed[i].exp <= at + 1 THEN Forgotten ELSE replayed[i]]

Pruned(at) ==
  [i \in RequestIds |-> IF replayed[i].exp <= at THEN Forgotten ELSE replayed[i]]

Oldest(R) == {i \in Seen(R) : \A j \in Seen(R) : R[i].rank <= R[j].rank}

(* The loop over the oldest ids: one goes, as the cache is never over full. *)
Removed(R) == IF Cardinality(Seen(R)) >= MaxReplays THEN Oldest(R) ELSE {}

(* Mutant: the id is remembered without its expiry. *)
RememberUntimed(t, at) ==
  /\ replayed' = [Pruned(at) EXCEPT ![t.requestId] = [exp |-> None, rank |-> inserted]]
  /\ inserted' = inserted + 1
  /\ UNCHANGED <<evicted, slipped>>

Remember(t, at) ==
  /\ replayed' = [i \in RequestIds |->
       IF i = t.requestId THEN [exp |-> t.exp, rank |-> inserted]
       ELSE IF i \in Removed(Pruned(at)) THEN Forgotten ELSE Pruned(at)[i]]
  /\ inserted' = inserted + 1
  /\ evicted' = evicted \cup Removed(Pruned(at))
  /\ slipped' = slipped \cup {x \in {t} : t.exp <= at}

Verified(t) == t.exp > now

Replay(t, at) == t.requestId \in Seen(Pruned(at))

(* 401: the token expired before the attempt arrived. *)
Unauthorised(a, t) ==
  /\ ~Verified(t)
  /\ pc' = [pc EXCEPT ![a] = "unauthorised"]
  /\ UNCHANGED <<limiter, replays>>

(* 409: its request id is in the cache. *)
RefuseReplay(a, t, at) ==
  /\ Verified(t) /\ Replay(t, at)
  /\ replayed' = Pruned(at)
  /\ pc' = [pc EXCEPT ![a] = "replayed"]
  /\ UNCHANGED <<limiter, inserted, evicted, slipped>>
-----------------------------------------------------------------------------
(* The limiter. *)

(* 403 for a model that is not allowed, 400 for a capability it lacks or a
   body that is not valid for it; the request id is used up. *)
RefuseModel(a, t) ==
  /\ pc' = [pc EXCEPT ![a] = "refused"]
  /\ UNCHANGED limiter

(* Mutant: an attempt starts when the limit is already reached. *)
StartAtLimit(a) ==
  /\ active <= limits.concurrent
  /\ active' = active + 1
  /\ pc' = [pc EXCEPT ![a] = "running"]
  /\ UNCHANGED queued

Start(a) ==
  /\ active < limits.concurrent
  /\ active' = active + 1
  /\ pc' = [pc EXCEPT ![a] = "running"]
  /\ UNCHANGED queued

(* 429: the queue is full. *)
Busy(a) ==
  /\ active >= limits.concurrent /\ Len(queued) >= limits.queue
  /\ pc' = [pc EXCEPT ![a] = "busy"]
  /\ UNCHANGED limiter

Enqueue(a) ==
  /\ active >= limits.concurrent /\ Len(queued) < limits.queue
  /\ queued' = Append(queued, a)
  /\ pc' = [pc EXCEPT ![a] = "queued"]
  /\ UNCHANGED active

Acquire(a) == Start(a) \/ Busy(a) \/ Enqueue(a)

(* The token is verified now, and its id looked up at a second reading. *)
Arrive(a) ==
  /\ pc[a] = "new" /\ ~stopping
  /\ now' \in now..MaxTime
  /\ \E t \in Tokens :
       /\ token' = [token EXCEPT ![a] = t]
       /\ \/ Unauthorised(a, t)
          \/ RefuseReplay(a, t, now')
          \/ /\ Verified(t) /\ ~Replay(t, now')
             /\ Remember(t, now')
             /\ \/ RefuseModel(a, t)
                \/ t.model \in allowed /\ Acquire(a)
  /\ UNCHANGED <<config, stopping>>

(* Mutant: a slot is given back and nobody is woken. *)
ReleaseAlone(a) ==
  /\ active' = IF active > 0 THEN active - 1 ELSE 0
  /\ pc' = [pc EXCEPT ![a] = "finished"]
  /\ UNCHANGED queued

(* The slot goes to the first in the queue, whatever the limit is now. *)
Release(a) ==
  LET left == IF active > 0 THEN active - 1 ELSE 0 IN
  IF queued = <<>>
  THEN /\ active' = left
       /\ pc' = [pc EXCEPT ![a] = "finished"]
       /\ UNCHANGED queued
  ELSE /\ active' = left + 1
       /\ queued' = Tail(queued)
       /\ pc' = [pc EXCEPT ![a] = "finished", ![Head(queued)] = "running"]

(* Ollama answers, fails or is aborted by a timeout, a disconnected client or
   the shutdown: the finally block releases. *)
Finish(a) ==
  /\ pc[a] = "running"
  /\ Release(a)
  /\ UNCHANGED <<now, config, replays, token, stopping>>

(* Mutant: an aborted attempt stays in the queue. *)
AbortKeepingPlace(a) ==
  /\ pc[a] = "queued"
  /\ pc' = [pc EXCEPT ![a] = "cancelled"]
  /\ UNCHANGED <<now, config, replays, active, queued, token, stopping>>

(* Mutant: an aborted attempt leaves the queue and is not rejected. *)
AbortUnanswered(a) ==
  /\ pc[a] = "queued"
  /\ \E i \in DOMAIN queued : queued[i] = a /\ queued' = RemoveAt(queued, i)
  /\ UNCHANGED <<now, config, replays, active, pc, token, stopping>>

(* The client of a queued attempt leaves and the server reports "aborted"
   (it may not: the body has been read to its end). *)
AbortQueued(a) ==
  /\ pc[a] = "queued"
  /\ \E i \in DOMAIN queued : queued[i] = a /\ queued' = RemoveAt(queued, i)
  /\ pc' = [pc EXCEPT ![a] = "cancelled"]
  /\ UNCHANGED <<now, config, replays, active, token, stopping>>

(* close(): the queue is rejected and running attempts are aborted; they end
   in Finish.  No attempt arrives on a closed server. *)
Shutdown ==
  /\ ~stopping
  /\ stopping' = TRUE
  /\ queued' = <<>>
  /\ pc' = [a \in Attempts |-> IF pc[a] = "queued" THEN "cancelled" ELSE pc[a]]
  /\ UNCHANGED <<now, config, replays, active, token>>

(* A heartbeat's answer replaces the limits and the allowlist. *)
Heartbeat ==
  /\ updates < MaxUpdates
  /\ updates' = updates + 1
  /\ limits' \in Limits
  /\ peak' = IF limits'.concurrent > peak THEN limits'.concurrent ELSE peak
  /\ allowed' \in SUBSET Models
  /\ UNCHANGED <<now, limiter, replays, pc, token, stopping>>

Tick ==
  /\ now < MaxTime
  /\ now' = now + 1
  /\ UNCHANGED <<config, limiter, replays, pc, token, stopping>>

Next ==
  \/ Tick
  \/ Heartbeat
  \/ Shutdown
  \/ \E a \in Attempts : Arrive(a) \/ Finish(a) \/ AbortQueued(a)

(* A generation ends: its total timeout aborts it. *)
Fairness == \A a \in Attempts : WF_vars(Finish(a))

Spec == Init /\ [][Next]_vars /\ Fairness
-----------------------------------------------------------------------------
(* Properties. *)

TypeOK ==
  /\ now \in Nat
  /\ limits \in Limits /\ peak \in Nat /\ updates \in Nat
  /\ allowed \subseteq Models
  /\ active \in Nat
  /\ queued \in Seq(Attempts)
  /\ replayed \in [RequestIds -> [exp : Nat, rank : Nat]]
  /\ inserted \in Nat
  /\ evicted \subseteq RequestIds /\ slipped \subseteq Tokens
  /\ pc \in [Attempts -> Waiting \cup {"new", "unauthorised", "replayed",
             "refused", "busy", "cancelled", "finished"}]
  /\ token \in [Attempts -> Tokens \cup {None}]
  /\ stopping \in BOOLEAN

Running == {a \in Attempts : pc[a] = "running"}

(* Every running attempt holds one slot and nobody else does: not after a
   refusal, an abort in the queue or a hand-over.  Those in the queue are the
   ones that wait, each once. *)
SlotsAccounted ==
  /\ active = Cardinality(Running)
  /\ ToSet(queued) = {a \in Attempts : pc[a] = "queued"}
  /\ IsInjective(queued)

(* However the limits change, no more attempts run than the largest limit
   that was configured while the agent runs. *)
WithinPeak == active <= peak

(* Somebody who waits waits for a slot that will be given back. *)
NobodyStranded == queued # <<>> => active > 0

Accepted(a) ==
  pc[a] \in Waiting \cup {"refused", "busy", "cancelled", "finished"}

AdmittedWith(t) == {a \in Attempts : Accepted(a) /\ token[a] = t}

(* Unless its id was forgotten to make room for others, a token is admitted
   once in the life of the process, and once more only if it expired between
   the reading that verified it and the one that pruned its id. *)
AdmittedOnce ==
  \A a, b \in Attempts :
    LET t == token[a] IN
    Accepted(a) /\ b \in AdmittedWith(t) /\ a # b /\ t.requestId \notin evicted =>
      t \in slipped /\ AdmittedWith(t) = {a, b}

(* Every attempt that arrived is answered. *)
EveryAttemptAnswered ==
  \A a \in Attempts : pc[a] # "new" ~> pc[a] \notin Waiting

(* "Concurrent requests cannot exceed configured limits": an attempt starts
   only below the limit of that moment. *)
StartsWithinLimit ==
  [][\A a \in Attempts :
       pc[a] # "running" /\ pc'[a] = "running" =>
         active' <= limits.concurrent]_vars

(* "Healthy model on same node is not poisoned by another model": an attempt
   is refused as a replay only if its own authorization was used before. *)
OnlyReplaysRefused ==
  \A a \in Attempts :
    pc[a] = "replayed" => \E b \in Attempts \ {a} : token[b] = token[a]
=============================================================================

---------------------------- MODULE CircuitBreaker ----------------------------
(***************************************************************************)
(* The persistent circuit breaker of one router: the handlers of routed    *)
(* requests and of the operator's circuit endpoints, which read, change    *)
(* and write back the router's routing state.                              *)
(*                                                                         *)
(* A store mutation is `state = await get; mutate(state); await set`, with *)
(* no lock and no version, so it is two steps here: Load copies the whole  *)
(* record of the router, and a Save... action applies the mutation to the  *)
(* copy and writes the copy back.  MaxOverlap bounds how many handlers may *)
(* be between the two at once: 1 is a store whose mutations never overlap, *)
(* a larger value is what the code allows.                                 *)
(*                                                                         *)
(* The request carries a snapshot of the circuits it read when it arrived; *)
(* attempts are computed from that snapshot and stored as absolute values. *)
(***************************************************************************)
EXTENDS Naturals, Sequences, FiniteSets

CONSTANTS
  Providers,        \* providers the router has keys for
  LocalProviders,   \* those served by a local node, with an input limit
  Handlers,         \* concurrently running HTTP handlers
  None,             \* no provider, no loaded copy
  Threshold,        \* CIRCUIT_FAILURE_THRESHOLD
  OpenDurations,    \* CIRCUIT_OPEN_DURATIONS_MS, in ticks
  ProbeStale,       \* HALF_OPEN_PROBE_STALE_MS, in ticks
  ProbeHold,        \* probe timeout plus the time to record it, in ticks
  CooldownLengths,  \* lengths a 429 may set, in ticks
  OperatorJobs,     \* operator endpoints in use
  MaxOverlap,       \* bound: store mutations between load and save
  MaxArrivals,      \* bound: jobs started
  MaxStoreErrors,   \* bound: failed store operations
  MaxCrashes,       \* bound: process restarts
  MaxTime           \* bound: clock

AllJobs == {"request", "usage", "retry", "reset", "clearCooldown"}

(* A probe ends and is recorded before its claim goes stale: the settings
   cap the probe timeout at 60 s and a claim is stale after 120 s. *)
ASSUME TimingAssumption ==
  /\ ProbeStale \in Nat
  /\ ProbeHold \in Nat
  /\ ProbeHold < ProbeStale
  /\ OpenDurations \in Seq(Nat)
  /\ Len(OpenDurations) > 0
  /\ \A i \in 1 .. Len(OpenDurations) : ProbeHold < OpenDurations[i]

ASSUME ThresholdAssumption == Threshold \in Nat \ {0}

ASSUME ProvidersAssumption == None \notin Providers /\ LocalProviders \subseteq Providers

ASSUME CooldownAssumption == CooldownLengths \subseteq Nat

ASSUME JobsAssumption == OperatorJobs \subseteq {"retry", "reset", "clearCooldown"}

ASSUME BoundsAssumption ==
  {MaxOverlap, MaxArrivals, MaxStoreErrors, MaxCrashes, MaxTime} \subseteq Nat

VARIABLES
  now,          \* Date.now(), in ticks; 0 stands for an absent time
  store,        \* the persisted routing state: one record per provider
  pc,           \* where each handler is
  job,          \* what each handler is doing
  loaded,       \* the copy a handler's store mutation works on, or None
  snap,         \* the provider runtimes of the handler's request
  target,       \* the provider being claimed, attempted or administered
  claims,       \* recoverable providers whose claim is still to be tried
  todo,         \* closed candidates still to be attempted
  claimedAt,    \* when the handler's probe claim was granted, 0 if it has none
  attempt,      \* the attempt metric to be recorded
  streak,       \* history: eligible failures since the circuit was last closed
  arrivals, storeErrors, crashes

vars == <<now, store, pc, job, loaded, snap, target, claims, todo, claimedAt,
          attempt, streak, arrivals, storeErrors, crashes>>

request == <<job, snap, target, claims, todo, claimedAt, attempt>>
bounds == <<arrivals, storeErrors, crashes>>

-----------------------------------------------------------------------------
(* Provider statistics and the mutations of the store. *)

CircuitStates == {"closed", "open", "half-open"}

Stats == [state : CircuitStates, failures : Nat, opens : Nat, openUntil : Nat,
          active : BOOLEAN, startedAt : Nat, cooldownUntil : Nat]

InitialStats ==
  [state |-> "closed", failures |-> 0, opens |-> 0, openUntil |-> 0,
   active |-> FALSE, startedAt |-> 0, cooldownUntil |-> 0]

Attempts == [success : BOOLEAN, eligible : BOOLEAN, caught : BOOLEAN,
             action : {"none", "opened", "reopened", "closed"},
             state : CircuitStates, failures : Nat, opens : Nat,
             openUntil : Nat, active : BOOLEAN, cooldownUntil : Nat]

NoAttempt == [success |-> FALSE, eligible |-> FALSE, caught |-> FALSE,
              action |-> "none", state |-> "closed", failures |-> 0,
              opens |-> 0, openUntil |-> 0, active |-> FALSE,
              cooldownUntil |-> 0]

Given(t, old) == IF t = 0 THEN old ELSE t

(* Mutant: closing a circuit forgets to clear the probe in flight. *)
ClosedKeepingProbe(c) ==
  [InitialStats EXCEPT !.cooldownUntil = c.cooldownUntil, !.active = c.active]

ClosedCircuit(c) ==
  [InitialStats EXCEPT !.cooldownUntil = c.cooldownUntil]

(* What a failed attempt leaves when its circuit fields are copied over. *)
FailedStats(c, a) ==
  [c EXCEPT !.state = a.state, !.failures = a.failures, !.opens = a.opens,
            !.active = a.active, !.openUntil = Given(a.openUntil, @),
            !.cooldownUntil = Given(a.cooldownUntil, @)]

UpdateStats(c, a) ==
  CASE a.success -> InitialStats
    [] ~a.success /\ a.action = "closed" -> ClosedCircuit(FailedStats(c, a))
    [] ~a.success /\ a.action \in {"opened", "reopened"} ->
         [FailedStats(c, a) EXCEPT !.state = "open", !.active = FALSE,
                                   !.startedAt = 0]
    [] OTHER -> FailedStats(c, a)

(* Mutant: a claim is taken for stale as soon as the clock has moved. *)
ProbeIsStaleAtOnce(c) == c.startedAt = 0 \/ now > c.startedAt

ProbeIsStale(c) == c.startedAt = 0 \/ now >= c.startedAt + ProbeStale

ClaimGranted(c) ==
  /\ c.state # "closed"
  /\ ~(c.state = "open" /\ c.openUntil > now)
  /\ ~(c.active /\ ~ProbeIsStale(c))

Claimed(c) ==
  [c EXCEPT !.state = "half-open", !.active = TRUE, !.startedAt = now]

(* Mutant: the operator's retry backdates the window by the stale time. *)
PreparedRetryBackdated(c) ==
  [c EXCEPT !.state = "open", !.openUntil = now - ProbeStale, !.active = FALSE,
            !.startedAt = 0]

PreparedRetry(c) ==
  [c EXCEPT !.state = "open", !.openUntil = now - 1, !.active = FALSE,
            !.startedAt = 0]

(* Mutant: the open window does not grow with repeated opens. *)
OpenForFixed(openCount) == OpenDurations[1]

OpenFor(openCount) ==
  IF openCount <= 1 THEN OpenDurations[1]
  ELSE IF openCount >= Len(OpenDurations) THEN OpenDurations[Len(OpenDurations)]
  ELSE OpenDurations[openCount]

-----------------------------------------------------------------------------
(* The handlers. *)

PC == {"idle", "prepare", "snapshot", "route", "claim", "call", "record",
       "admin"}

StorePCs == {"prepare", "snapshot", "claim", "record", "admin"}

InStore(h) == loaded[h] # None

OwnsProbe(h, p) == claimedAt[h] # 0 /\ target[h] = p

EmptySnap == [p \in Providers |-> InitialStats]

Init ==
  /\ now = 1
  /\ store = [p \in Providers |-> InitialStats]
  /\ pc = [h \in Handlers |-> "idle"]
  /\ job = [h \in Handlers |-> "request"]
  /\ loaded = [h \in Handlers |-> None]
  /\ snap = [h \in Handlers |-> EmptySnap]
  /\ target = [h \in Handlers |-> None]
  /\ claims = [h \in Handlers |-> {}]
  /\ todo = [h \in Handlers |-> {}]
  /\ claimedAt = [h \in Handlers |-> 0]
  /\ attempt = [h \in Handlers |-> NoAttempt]
  /\ streak = [p \in Providers |-> 0]
  /\ arrivals = 0
  /\ storeErrors = 0
  /\ crashes = 0

(* The handler's response is sent; its locals are gone. *)
Finish(h) ==
  /\ pc' = [pc EXCEPT ![h] = "idle"]
  /\ job' = [job EXCEPT ![h] = "request"]
  /\ snap' = [snap EXCEPT ![h] = EmptySnap]
  /\ target' = [target EXCEPT ![h] = None]
  /\ claims' = [claims EXCEPT ![h] = {}]
  /\ todo' = [todo EXCEPT ![h] = {}]
  /\ claimedAt' = [claimedAt EXCEPT ![h] = 0]
  /\ attempt' = [attempt EXCEPT ![h] = NoAttempt]

(* The recoverable providers are tried first, until one claim is granted;
   then the closed candidates.  The policy's order is left open. *)
NextCandidate(h, recoverable, closed) ==
  \/ \E p \in recoverable :
       /\ pc' = [pc EXCEPT ![h] = "claim"]
       /\ target' = [target EXCEPT ![h] = p]
       /\ claims' = [claims EXCEPT ![h] = recoverable \ {p}]
       /\ todo' = [todo EXCEPT ![h] = closed]
       /\ claimedAt' = [claimedAt EXCEPT ![h] = 0]
       /\ attempt' = [attempt EXCEPT ![h] = NoAttempt]
       /\ UNCHANGED <<job, snap>>
  \/ /\ recoverable = {}
     /\ \E p \in closed :
          /\ pc' = [pc EXCEPT ![h] = "call"]
          /\ target' = [target EXCEPT ![h] = p]
          /\ claims' = [claims EXCEPT ![h] = {}]
          /\ todo' = [todo EXCEPT ![h] = closed \ {p}]
          /\ claimedAt' = [claimedAt EXCEPT ![h] = 0]
          /\ attempt' = [attempt EXCEPT ![h] = NoAttempt]
          /\ UNCHANGED <<job, snap>>
  \/ recoverable = {} /\ closed = {} /\ Finish(h)

FirstPC(j) ==
  CASE j = "retry" -> "prepare" [] j = "request" -> "snapshot" [] OTHER -> "admin"

Arrive(h) ==
  /\ pc[h] = "idle"
  /\ arrivals < MaxArrivals
  /\ \E j \in {"request", "usage"} \cup OperatorJobs, p \in Providers :
       /\ job' = [job EXCEPT ![h] = j]
       /\ pc' = [pc EXCEPT ![h] = FirstPC(j)]
       /\ target' = [target EXCEPT ![h] = IF j = "request" THEN None ELSE p]
  /\ arrivals' = arrivals + 1
  /\ UNCHANGED <<now, store, loaded, snap, claims, todo, claimedAt, attempt,
                 streak, storeErrors, crashes>>

Load(h) ==
  /\ pc[h] \in StorePCs
  /\ ~InStore(h)
  /\ Cardinality({g \in Handlers : InStore(g)}) < MaxOverlap
  /\ loaded' = [loaded EXCEPT ![h] = store]
  /\ UNCHANGED <<now, store, pc, request, streak, bounds>>

Save(h, newState) ==
  /\ store' = newState
  /\ loaded' = [loaded EXCEPT ![h] = None]

SavePrepare(h) ==
  /\ pc[h] = "prepare" /\ InStore(h)
  /\ Save(h, [loaded[h] EXCEPT ![target[h]] = PreparedRetry(@)])
  /\ pc' = [pc EXCEPT ![h] = "snapshot"]
  /\ UNCHANGED <<now, request, streak, bounds>>

(* getRoutingStats normalises what it read and writes it back. *)
SaveSnapshot(h) ==
  /\ pc[h] = "snapshot" /\ InStore(h)
  /\ Save(h, loaded[h])
  /\ snap' = [snap EXCEPT ![h] = loaded[h]]
  /\ pc' = [pc EXCEPT ![h] = "route"]
  /\ UNCHANGED <<now, job, target, claims, todo, claimedAt, attempt, streak,
                 bounds>>

(* Quotas, capabilities and aliases leave some providers eligible. *)
Route(h) ==
  /\ pc[h] = "route"
  /\ \E eligible \in IF job[h] = "retry" THEN {{target[h]}} ELSE SUBSET Providers :
       LET free == {p \in eligible : snap[h][p].cooldownUntil <= now}
           closed == {p \in free : snap[h][p].state = "closed"}
           recoverable ==
             {p \in free : \/ snap[h][p].state = "half-open"
                           \/ /\ snap[h][p].state = "open"
                              /\ snap[h][p].openUntil <= now}
       IN NextCandidate(h, recoverable, closed)
  /\ UNCHANGED <<now, store, loaded, streak, bounds>>

SaveClaim(h) ==
  /\ pc[h] = "claim" /\ InStore(h)
  /\ LET p == target[h] IN
     \/ /\ ClaimGranted(loaded[h][p])
        /\ Save(h, [loaded[h] EXCEPT ![p] = Claimed(@)])
        /\ snap' = [snap EXCEPT ![h][p] =
                      [@ EXCEPT !.state = "half-open", !.active = TRUE]]
        /\ claimedAt' = [claimedAt EXCEPT ![h] = now]
        /\ claims' = [claims EXCEPT ![h] = {}]
        /\ pc' = [pc EXCEPT ![h] = "call"]
        /\ UNCHANGED <<job, target, todo, attempt>>
     \/ /\ ~ClaimGranted(loaded[h][p])
        /\ Save(h, loaded[h])
        /\ NextCandidate(h, claims[h], todo[h])
  /\ UNCHANGED <<now, streak, bounds>>

(* Nothing is recorded: the client went away during the call, the request's
   deadline passed before it, or the body exceeds a local node's limit (then
   the other candidates are still tried). *)
Abandon(h) ==
  /\ pc[h] = "call"
  /\ \/ Finish(h)
     \/ target[h] \in LocalProviders /\ NextCandidate(h, {}, todo[h])
  /\ UNCHANGED <<now, store, loaded, streak, bounds>>

Emit(h, a) ==
  /\ attempt' = [attempt EXCEPT ![h] = a]
  /\ pc' = [pc EXCEPT ![h] = "record"]
  /\ UNCHANGED <<job, target, claims, todo>>

Succeed(h) ==
  /\ pc[h] = "call"
  /\ snap' = [snap EXCEPT ![h][target[h]] = ClosedCircuit(@)]
  /\ Emit(h, [NoAttempt EXCEPT !.success = TRUE])
  /\ UNCHANGED <<now, store, loaded, claimedAt, streak, bounds>>

(* recordCircuitFailure: a failed probe reopens the circuit, the Threshold-th
   failure opens it; the counts come from the request's own runtime c. *)
FailureCount(c, halfOpen) ==
  IF halfOpen /\ c.failures + 1 < Threshold THEN Threshold ELSE c.failures + 1

(* Mutant: the circuit opens one failure late. *)
OpensLate(c, halfOpen) == halfOpen \/ FailureCount(c, halfOpen) > Threshold

Opens(c, halfOpen) == halfOpen \/ FailureCount(c, halfOpen) >= Threshold

FailedRuntime(c, halfOpen) ==
  IF Opens(c, halfOpen)
  THEN [c EXCEPT !.state = "open", !.failures = FailureCount(c, halfOpen),
                 !.opens = @ + 1, !.openUntil = now + OpenFor(c.opens + 1),
                 !.active = FALSE]
  ELSE [c EXCEPT !.failures = FailureCount(c, halfOpen)]

FailureAttempt(c, halfOpen, caught) ==
  LET d == FailedRuntime(c, halfOpen) IN
  [success |-> FALSE, eligible |-> TRUE, caught |-> caught,
   action |-> IF ~Opens(c, halfOpen) THEN "none"
              ELSE IF halfOpen THEN "reopened" ELSE "opened",
   state |-> d.state, failures |-> d.failures, opens |-> d.opens,
   openUntil |-> d.openUntil, active |-> d.active, cooldownUntil |-> 0]

CircuitFailure(h, caught) ==
  LET c == snap[h][target[h]]
      halfOpen == claimedAt[h] # 0
  IN /\ snap' = [snap EXCEPT ![h][target[h]] = FailedRuntime(c, halfOpen)]
     /\ Emit(h, FailureAttempt(c, halfOpen, caught))

(* A 5xx, a 408 or a malformed body is recorded in the try block, a timeout or
   a network error in the catch block. *)
Fail(h) ==
  /\ pc[h] = "call"
  /\ \E caught \in BOOLEAN : CircuitFailure(h, caught)
  /\ UNCHANGED <<now, store, loaded, claimedAt, streak, bounds>>

(* A 429 sets a cooldown and closes the circuit it probed. *)
RateLimit(h) ==
  /\ pc[h] = "call"
  /\ \E len \in CooldownLengths :
       LET p == target[h]
           halfOpen == claimedAt[h] # 0
           c == IF halfOpen THEN ClosedCircuit(snap[h][p]) ELSE snap[h][p]
       IN /\ snap' = [snap EXCEPT ![h][p] = [c EXCEPT !.cooldownUntil = now + len]]
          /\ Emit(h, [NoAttempt EXCEPT
                        !.action = IF halfOpen THEN "closed" ELSE "none",
                        !.state = c.state, !.failures = c.failures,
                        !.opens = c.opens, !.cooldownUntil = now + len])
  /\ UNCHANGED <<now, store, loaded, claimedAt, streak, bounds>>

(* Any other status: 401, 403, 404, an unsupported capability, a bad request. *)
Reject(h) ==
  /\ pc[h] = "call"
  /\ LET c == snap[h][target[h]]
     IN Emit(h, [NoAttempt EXCEPT !.state = c.state, !.failures = c.failures,
                                  !.opens = c.opens])
  /\ UNCHANGED <<now, store, loaded, snap, claimedAt, streak, bounds>>

CountFailure(n) == IF n < Threshold THEN n + 1 ELSE n

SaveAttempt(h) ==
  LET p == target[h]
      a == attempt[h]
  IN /\ Save(h, [loaded[h] EXCEPT ![p] = UpdateStats(@, a)])
     /\ streak' = [streak EXCEPT ![p] =
          IF a.eligible THEN CountFailure(@)
          ELSE IF a.success \/ a.action = "closed" THEN 0 ELSE @]

SaveRecord(h) ==
  /\ pc[h] = "record" /\ InStore(h)
  /\ SaveAttempt(h)
  /\ \/ Finish(h)
     \/ ~attempt[h].success /\ NextCandidate(h, {}, todo[h])
  /\ UNCHANGED <<now, bounds>>

(* The attempt is recorded, but what is recorded after it, the health of its
   model, is not: thrown in the try block, that is a connection error of the
   same provider, recorded a second time when its probe is already over. *)
RecordTwice(h) ==
  /\ pc[h] = "record" /\ InStore(h)
  /\ job[h] = "request" /\ ~attempt[h].caught
  /\ storeErrors < MaxStoreErrors
  /\ storeErrors' = storeErrors + 1
  /\ SaveAttempt(h)
  /\ CircuitFailure(h, TRUE)
  /\ claimedAt' = [claimedAt EXCEPT ![h] = 0]
  /\ UNCHANGED <<now, arrivals, crashes>>

(* DELETE circuit, DELETE cooldown, and the mutations that rewrite the record
   without touching a circuit (token and request usage, the cursor). *)
SaveAdmin(h) ==
  /\ pc[h] = "admin" /\ InStore(h)
  /\ LET p == target[h] IN
     \/ /\ job[h] = "reset"
        /\ Save(h, [loaded[h] EXCEPT ![p] = ClosedCircuit(@)])
        /\ streak' = [streak EXCEPT ![p] = 0]
     \/ /\ job[h] = "clearCooldown"
        /\ Save(h, [loaded[h] EXCEPT ![p].cooldownUntil = 0])
        /\ UNCHANGED streak
     \/ /\ job[h] = "usage"
        /\ Save(h, loaded[h])
        /\ UNCHANGED streak
  /\ Finish(h)
  /\ UNCHANGED <<now, bounds>>

(* The read or the write is rejected.  The callers answer with an error, except
   that an attempt emitted inside the try block is caught there and recorded as
   a connection error of the same provider. *)
StoreFails(h) ==
  /\ InStore(h)
  /\ storeErrors < MaxStoreErrors
  /\ storeErrors' = storeErrors + 1
  /\ loaded' = [loaded EXCEPT ![h] = None]
  /\ \/ Finish(h)
     \/ /\ pc[h] = "record" /\ ~attempt[h].caught
        /\ CircuitFailure(h, TRUE)
        /\ UNCHANGED claimedAt
  /\ UNCHANGED <<now, store, streak, arrivals, crashes>>

(* The process restarts: handlers and their claims are forgotten, the store is
   not.  A write is a rename or a SET, so it happened or it did not. *)
Crash ==
  /\ crashes < MaxCrashes
  /\ crashes' = crashes + 1
  /\ pc' = [h \in Handlers |-> "idle"]
  /\ job' = [h \in Handlers |-> "request"]
  /\ loaded' = [h \in Handlers |-> None]
  /\ snap' = [h \in Handlers |-> EmptySnap]
  /\ target' = [h \in Handlers |-> None]
  /\ claims' = [h \in Handlers |-> {}]
  /\ todo' = [h \in Handlers |-> {}]
  /\ claimedAt' = [h \in Handlers |-> 0]
  /\ attempt' = [h \in Handlers |-> NoAttempt]
  /\ UNCHANGED <<now, store, streak, arrivals, storeErrors>>

(* A claimed probe is timed out and recorded within ProbeHold of its claim, and
   the outcome of any attempt is recorded within the tick in which it ended. *)
Tick ==
  /\ now < MaxTime
  /\ \A h \in Handlers : pc[h] # "record"
  /\ \A h \in Handlers : claimedAt[h] # 0 => now < claimedAt[h] + ProbeHold
  /\ now' = now + 1
  /\ UNCHANGED <<store, pc, loaded, request, streak, bounds>>

HandlerStep(h) ==
  \/ Arrive(h)
  \/ Load(h) \/ SavePrepare(h) \/ SaveSnapshot(h) \/ SaveClaim(h)
  \/ SaveRecord(h) \/ RecordTwice(h) \/ SaveAdmin(h) \/ StoreFails(h)
  \/ Route(h) \/ Abandon(h)
  \/ Succeed(h) \/ Fail(h) \/ RateLimit(h) \/ Reject(h)

Next == Tick \/ Crash \/ \E h \in Handlers : HandlerStep(h)

Spec == Init /\ [][Next]_vars
-----------------------------------------------------------------------------
(* Properties. *)

TypeOK ==
  /\ now \in Nat \ {0}
  /\ store \in [Providers -> Stats]
  /\ pc \in [Handlers -> PC]
  /\ job \in [Handlers -> AllJobs]
  /\ loaded \in [Handlers -> [Providers -> Stats] \cup {None}]
  /\ snap \in [Handlers -> [Providers -> Stats]]
  /\ target \in [Handlers -> Providers \cup {None}]
  /\ claims \in [Handlers -> SUBSET Providers]
  /\ todo \in [Handlers -> SUBSET Providers]
  /\ claimedAt \in [Handlers -> Nat]
  /\ attempt \in [Handlers -> Attempts]
  /\ streak \in [Providers -> Nat]
  /\ arrivals \in Nat /\ storeErrors \in Nat /\ crashes \in Nat

(* Whatever overlaps, a persisted circuit never says that a probe is running
   unless it is half-open and says since when: a claim without a start could
   not be told from a live one, and an active probe on an open or closed
   circuit would be skipped by every later reader of the record. *)
StatsCoherent ==
  \A p \in Providers :
    store[p].active => store[p].state = "half-open" /\ store[p].startedAt # 0

(* At most one concurrent request owns the recovery probe of a provider:
   claimProviderHalfOpenProbe grants a claim only when no live one exists. *)
OneProbe ==
  \A p \in Providers, g, h \in Handlers :
    OwnsProbe(g, p) /\ OwnsProbe(h, p) => g = h

(* Three eligible failures since the circuit was last closed by a success, a
   probe's 429 or the operator do not leave it closed. *)
ThreeFailuresOpen ==
  \A p \in Providers : streak[p] >= Threshold => store[p].state # "closed"

(* Only a success, a 429 answered to a probe or an operator's reset closes a
   circuit that protects a provider: a recorded failure never does. *)
FailureNeverCloses ==
  [][\A p \in Providers :
       store[p].state # "closed" /\ store'[p].state = "closed" =>
         \E h \in Handlers :
           /\ InStore(h) /\ target[h] = p
           /\ \/ pc[h] = "admin" /\ job[h] = "reset"
              \/ /\ pc[h] = "record"
                 /\ attempt[h].success \/ attempt[h].action = "closed"]_vars

(* The persisted circuit of each provider follows the promised lifecycle. *)
Lifecycle == INSTANCE BreakerLifecycle WITH
  circuit <- [p \in Providers |->
               [state |-> store[p].state, failures |-> store[p].failures,
                opens |-> store[p].opens, openUntil |-> store[p].openUntil]]

FollowsLifecycle == Lifecycle!Spec
-----------------------------------------------------------------------------
(* The inductive invariants behind StatsCoherent and OneProbe. *)

Coherent(c) == c.active => c.state = "half-open" /\ c.startedAt # 0

(* A handler attempts what its snapshot shows closed or what it has claimed,
   and never has a provider both as its target and still to be attempted. *)
HandlerInv(h) ==
  /\ pc[h] \in {"prepare", "claim", "call", "record", "admin"} \/ job[h] = "retry"
       => target[h] \in Providers
  /\ claimedAt[h] # 0 => pc[h] \in {"call", "record"}
  /\ pc[h] \notin {"claim", "call", "record"} => todo[h] = {}
  /\ \A p \in todo[h] : snap[h][p].state = "closed" /\ ~snap[h][p].active
  /\ pc[h] \in {"claim", "call", "record"} => target[h] \notin todo[h]
  /\ pc[h] = "claim" =>
       \A p \in claims[h] \cup {target[h]} : snap[h][p].state # "closed"
  /\ pc[h] = "call" /\ claimedAt[h] = 0 => snap[h][target[h]].state = "closed"
  /\ pc[h] \in {"call", "record"} /\ claimedAt[h] = 0
       => ~snap[h][target[h]].active
  /\ pc[h] = "record" => ~attempt[h].active

CoherentInv ==
  /\ TypeOK
  /\ \A h \in Handlers : HandlerInv(h)
  /\ \A p \in Providers : Coherent(store[p])
  /\ \A h \in Handlers : InStore(h) => \A p \in Providers : Coherent(loaded[h][p])
  /\ \A h \in Handlers : pc[h] = "route" => \A p \in Providers : Coherent(snap[h][p])

(* No claim of p can be granted before t + ProbeHold has passed. *)
Guarded(p, t) ==
  \/ store[p].state = "closed"
  \/ store[p].state = "open" /\ store[p].openUntil > t + ProbeHold
  \/ store[p].state = "half-open" /\ store[p].active /\ store[p].startedAt >= t

(* What a request that owns no probe may be about to record. *)
OrdinaryRecord(h) ==
  /\ snap[h][target[h]].state # "closed" => snap[h][target[h]].failures >= Threshold
  /\ \/ attempt[h].success
     \/ attempt[h].action = "none" /\ attempt[h].state = "closed"
     \/ /\ attempt[h].action \in {"opened", "reopened"}
        /\ attempt[h].openUntil > now + ProbeHold

(* Mutations do not overlap, so a loaded copy is the store itself. *)
SerialStore ==
  /\ \A g, h \in Handlers : InStore(g) /\ InStore(h) => g = h
  /\ \A h \in Handlers : InStore(h) => loaded[h] = store

NoRetries == \A h \in Handlers : job[h] # "retry" /\ pc[h] # "prepare"

OrdinaryRecords ==
  \A h \in Handlers : pc[h] = "record" /\ claimedAt[h] = 0 => OrdinaryRecord(h)

(* A live claim keeps the circuit guarded as long as its probe may last. *)
ClaimsGuarded ==
  \A h \in Handlers : claimedAt[h] # 0 =>
    /\ claimedAt[h] <= now /\ now <= claimedAt[h] + ProbeHold
    /\ Guarded(target[h], claimedAt[h])

SerialInv ==
  SerialStore /\ NoRetries /\ OrdinaryRecords /\ ClaimsGuarded /\ OneProbe
=============================================================================

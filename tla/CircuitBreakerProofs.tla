------------------------- MODULE CircuitBreakerProofs -------------------------
(***************************************************************************)
(* Theorems about CircuitBreaker, for every number of providers, handlers  *)
(* and arrivals and every length of the time windows.                      *)
(***************************************************************************)
EXTENDS CircuitBreaker, FiniteSetTheorems, TLAPS

(* What Stats records the mutations produce. *)
LEMMA InitialStatsType == InitialStats \in Stats
  BY DEF InitialStats, Stats, CircuitStates

LEMMA NoAttemptType == NoAttempt \in Attempts
  BY DEF NoAttempt, Attempts, CircuitStates

LEMMA OpenForType ==
  ASSUME NEW n \in Nat
  PROVE  OpenFor(n) \in Nat /\ OpenFor(n) > ProbeHold
  BY TimingAssumption DEF OpenFor

LEMMA ClosedCircuitFacts ==
  ASSUME NEW c \in Stats
  PROVE  /\ ClosedCircuit(c) \in Stats
         /\ ClosedCircuit(c).state = "closed"
         /\ ~ClosedCircuit(c).active
  BY DEF ClosedCircuit, InitialStats, Stats, CircuitStates

LEMMA FailedStatsFacts ==
  ASSUME NEW c \in Stats, NEW a \in Attempts
  PROVE  /\ FailedStats(c, a) \in Stats
         /\ FailedStats(c, a).state = a.state
         /\ FailedStats(c, a).active = a.active
         /\ FailedStats(c, a).startedAt = c.startedAt
         /\ a.openUntil # 0 => FailedStats(c, a).openUntil = a.openUntil
  BY DEF FailedStats, Given, Stats, Attempts

LEMMA UpdateStatsFacts ==
  ASSUME NEW c \in Stats, NEW a \in Attempts, ~a.active
  PROVE  /\ UpdateStats(c, a) \in Stats
         /\ ~UpdateStats(c, a).active
         /\ a.success => UpdateStats(c, a).state = "closed"
         /\ ~a.success /\ a.action = "closed" => UpdateStats(c, a).state = "closed"
         /\ ~a.success /\ a.action = "none" => UpdateStats(c, a).state = a.state
         /\ ~a.success /\ a.action \in {"opened", "reopened"} /\ a.openUntil # 0
              => /\ UpdateStats(c, a).state = "open"
                 /\ UpdateStats(c, a).openUntil = a.openUntil
<1> DEFINE f == FailedStats(c, a)
<1>1. /\ f \in Stats /\ f.state = a.state /\ ~f.active
      /\ a.openUntil # 0 => f.openUntil = a.openUntil
  BY FailedStatsFacts
<1>2. CASE a.success
  BY <1>2, InitialStatsType DEF UpdateStats, InitialStats
<1>3. CASE ~a.success /\ a.action = "closed"
  BY <1>1, <1>3, ClosedCircuitFacts DEF UpdateStats
<1>4. CASE ~a.success /\ a.action \in {"opened", "reopened"}
  <2>1. UpdateStats(c, a) = [f EXCEPT !.state = "open", !.active = FALSE, !.startedAt = 0]
    BY <1>4 DEF UpdateStats
  <2> DEFINE g == [f EXCEPT !.state = "open", !.active = FALSE, !.startedAt = 0]
  <2> HIDE DEF f
  <2>2. /\ g \in Stats /\ g.state = "open" /\ g.active = FALSE
        /\ g.openUntil = f.openUntil
    BY <1>1 DEF Stats, CircuitStates
  <2> HIDE DEF g
  <2>3. QED
    BY <1>1, <1>4, <2>1, <2>2 DEF g
<1>5. CASE ~a.success /\ a.action = "none"
  BY <1>1, <1>5 DEF UpdateStats
<1>6. QED
  BY <1>2, <1>3, <1>4, <1>5 DEF Attempts

LEMMA ClaimedFacts ==
  ASSUME now \in Nat \ {0}, NEW c \in Stats
  PROVE  /\ Claimed(c) \in Stats
         /\ Claimed(c).state = "half-open"
         /\ Claimed(c).active
         /\ Claimed(c).startedAt = now
  BY DEF Claimed, Stats, CircuitStates

LEMMA PreparedRetryFacts ==
  ASSUME now \in Nat \ {0}, NEW c \in Stats
  PROVE  PreparedRetry(c) \in Stats /\ ~PreparedRetry(c).active
<1> DEFINE r == [c EXCEPT !.state = "open", !.openUntil = now - 1,
                          !.active = FALSE, !.startedAt = 0]
<1>1. now - 1 \in Nat
  OBVIOUS
<1>2. r \in Stats /\ r.active = FALSE
  BY <1>1 DEF Stats, CircuitStates
<1> HIDE DEF r
<1>3. QED
  BY <1>2 DEF PreparedRetry, r
-----------------------------------------------------------------------------
(* What the control operators do, whatever step they are part of. *)

LEMMA EmptySnapType == EmptySnap \in [Providers -> Stats]
  BY InitialStatsType DEF EmptySnap

(* The types of a handler's fields after it has finished. *)
LEMMA FinishType ==
  ASSUME TypeOK, NEW h \in Handlers, Finish(h)
  PROVE  /\ pc' \in [Handlers -> PC]
         /\ job' \in [Handlers -> AllJobs]
         /\ snap' \in [Handlers -> [Providers -> Stats]]
         /\ target' \in [Handlers -> Providers \cup {None}]
         /\ claims' \in [Handlers -> SUBSET Providers]
         /\ todo' \in [Handlers -> SUBSET Providers]
         /\ claimedAt' \in [Handlers -> Nat]
         /\ attempt' \in [Handlers -> Attempts]
  BY EmptySnapType, NoAttemptType DEF TypeOK, Finish, PC, AllJobs

LEMMA NextCandidateType ==
  ASSUME TypeOK, NEW h \in Handlers, NEW R \in SUBSET Providers,
         NEW C \in SUBSET Providers, NextCandidate(h, R, C)
  PROVE  /\ pc' \in [Handlers -> PC]
         /\ job' \in [Handlers -> AllJobs]
         /\ snap' \in [Handlers -> [Providers -> Stats]]
         /\ target' \in [Handlers -> Providers \cup {None}]
         /\ claims' \in [Handlers -> SUBSET Providers]
         /\ todo' \in [Handlers -> SUBSET Providers]
         /\ claimedAt' \in [Handlers -> Nat]
         /\ attempt' \in [Handlers -> Attempts]
<1>1. CASE Finish(h)
  BY <1>1, FinishType
<1>2. CASE \E p \in R :
             /\ pc' = [pc EXCEPT ![h] = "claim"]
             /\ target' = [target EXCEPT ![h] = p]
             /\ claims' = [claims EXCEPT ![h] = R \ {p}]
             /\ todo' = [todo EXCEPT ![h] = C]
             /\ claimedAt' = [claimedAt EXCEPT ![h] = 0]
             /\ attempt' = [attempt EXCEPT ![h] = NoAttempt]
             /\ UNCHANGED <<job, snap>>
  BY <1>2, NoAttemptType DEF TypeOK, PC
<1>3. CASE \E p \in C :
             /\ pc' = [pc EXCEPT ![h] = "call"]
             /\ target' = [target EXCEPT ![h] = p]
             /\ claims' = [claims EXCEPT ![h] = {}]
             /\ todo' = [todo EXCEPT ![h] = C \ {p}]
             /\ claimedAt' = [claimedAt EXCEPT ![h] = 0]
             /\ attempt' = [attempt EXCEPT ![h] = NoAttempt]
             /\ UNCHANGED <<job, snap>>
  BY <1>3, NoAttemptType DEF TypeOK, PC
<1>4. QED
  BY <1>1, <1>2, <1>3 DEF NextCandidate

(* What recordCircuitFailure leaves in the runtime and in the attempt. *)
LEMMA FailedRuntimeFacts ==
  ASSUME TypeOK, NEW c \in Stats, NEW halfOpen \in BOOLEAN
  PROVE  /\ FailedRuntime(c, halfOpen) \in Stats
         /\ FailedRuntime(c, halfOpen).failures = FailureCount(c, halfOpen)
         /\ Opens(c, halfOpen) =>
              /\ FailedRuntime(c, halfOpen).state = "open"
              /\ FailedRuntime(c, halfOpen).active = FALSE
              /\ FailedRuntime(c, halfOpen).failures >= Threshold
              /\ FailedRuntime(c, halfOpen).openUntil > now + ProbeHold
         /\ ~Opens(c, halfOpen) =>
              /\ FailedRuntime(c, halfOpen).state = c.state
              /\ FailedRuntime(c, halfOpen).active = c.active
<1> DEFINE n == FailureCount(c, halfOpen)
           u == now + OpenFor(c.opens + 1)
<1>1. n \in Nat /\ (Opens(c, halfOpen) => n >= Threshold)
  BY ThresholdAssumption DEF FailureCount, Opens, Stats
<1>2. u \in Nat /\ u > now + ProbeHold
  <2>1. c.opens + 1 \in Nat
    BY DEF Stats
  <2>2. QED
    BY <2>1, OpenForType, TimingAssumption DEF TypeOK
<1> HIDE DEF n, u
<1>3. CASE Opens(c, halfOpen)
  <2>1. FailedRuntime(c, halfOpen) =
          [c EXCEPT !.state = "open", !.failures = n, !.opens = @ + 1,
                    !.openUntil = u, !.active = FALSE]
    BY <1>3 DEF FailedRuntime, n, u
  <2> DEFINE r == [c EXCEPT !.state = "open", !.failures = n, !.opens = @ + 1,
                            !.openUntil = u, !.active = FALSE]
  <2>a. n \in Nat /\ u \in Nat /\ c.opens + 1 \in Nat
    BY <1>1, <1>2 DEF Stats
  <2>b. r \in Stats
    BY <2>a DEF Stats, CircuitStates
  <2>2. /\ r.state = "open" /\ r.active = FALSE
        /\ r.failures = n /\ r.openUntil = u
    BY DEF Stats
  <2> HIDE DEF r
  <2>3. FailedRuntime(c, halfOpen) = r
    BY <2>1 DEF r
  <2>4. QED
    BY <1>1, <1>2, <1>3, <2>b, <2>2, <2>3 DEF n
<1>4. CASE ~Opens(c, halfOpen)
  <2>1. FailedRuntime(c, halfOpen) = [c EXCEPT !.failures = n]
    BY <1>4 DEF FailedRuntime, n
  <2>2. QED
    BY <1>1, <1>4, <2>1 DEF Stats, CircuitStates, n
<1>5. QED
  BY <1>3, <1>4

LEMMA FailureAttemptFacts ==
  ASSUME TypeOK, NEW c \in Stats, NEW halfOpen \in BOOLEAN, NEW caught \in BOOLEAN
  PROVE  LET a == FailureAttempt(c, halfOpen, caught)
             d == FailedRuntime(c, halfOpen)
         IN /\ a \in Attempts
            /\ a.success = FALSE
            /\ a.action = IF ~Opens(c, halfOpen) THEN "none"
                          ELSE IF halfOpen THEN "reopened" ELSE "opened"
            /\ a.state = d.state /\ a.active = d.active
            /\ a.openUntil = d.openUntil
<1>1. FailedRuntime(c, halfOpen) \in Stats
  BY FailedRuntimeFacts
<1>2. QED
  BY <1>1 DEF FailureAttempt, Attempts, Stats

LEMMA CircuitFailureType ==
  ASSUME TypeOK, NEW h \in Handlers, target[h] \in Providers,
         NEW caught \in BOOLEAN, CircuitFailure(h, caught)
  PROVE  /\ pc' \in [Handlers -> PC]
         /\ snap' \in [Handlers -> [Providers -> Stats]]
         /\ attempt' \in [Handlers -> Attempts]
         /\ UNCHANGED <<job, target, claims, todo>>
<1>1. snap[h][target[h]] \in Stats /\ (claimedAt[h] # 0) \in BOOLEAN
  BY DEF TypeOK
<1>2. /\ FailedRuntime(snap[h][target[h]], claimedAt[h] # 0) \in Stats
      /\ FailureAttempt(snap[h][target[h]], claimedAt[h] # 0, caught) \in Attempts
  BY <1>1, FailedRuntimeFacts, FailureAttemptFacts
<1>3. QED
  BY <1>2 DEF CircuitFailure, Emit, TypeOK, PC

(* Recording an attempt keeps the store and the history well-typed. *)
LEMMA SaveAttemptType ==
  ASSUME TypeOK, NEW h \in Handlers, HandlerInv(h), pc[h] = "record", InStore(h),
         SaveAttempt(h)
  PROVE  /\ store' \in [Providers -> Stats]
         /\ streak' \in [Providers -> Nat]
         /\ loaded' = [loaded EXCEPT ![h] = None]
<1>1. /\ target[h] \in Providers /\ loaded[h] \in [Providers -> Stats]
      /\ attempt[h] \in Attempts /\ ~attempt[h].active
  BY DEF HandlerInv, InStore, TypeOK
<1>2. store' \in [Providers -> Stats]
  BY <1>1, UpdateStatsFacts DEF SaveAttempt, Save
<1>3. streak' \in [Providers -> Nat]
  BY <1>1 DEF SaveAttempt, CountFailure, TypeOK
<1>4. QED
  BY <1>2, <1>3 DEF SaveAttempt, Save

-----------------------------------------------------------------------------
(* Type correctness and coherence, one action at a time. *)

LEMMA TypeInit == Init => TypeOK
  BY InitialStatsType, EmptySnapType, NoAttemptType
     DEF Init, TypeOK, PC, AllJobs

LEMMA TypeStep == CoherentInv /\ [Next]_vars => TypeOK'
<1> SUFFICES ASSUME TypeOK, \A h \in Handlers : HandlerInv(h),
                    \A p \in Providers : Coherent(store[p]), [Next]_vars
             PROVE  TypeOK'
  BY DEF CoherentInv
<1>1. CASE Tick
  BY <1>1 DEF Tick, TypeOK, request, bounds
<1>2. CASE Crash
  BY <1>2, EmptySnapType, NoAttemptType DEF Crash, TypeOK, PC, AllJobs
<1>3. ASSUME NEW h \in Handlers, Arrive(h)
      PROVE  TypeOK'
  <2>1. PICK j \in {"request", "usage"} \cup OperatorJobs, p \in Providers :
          /\ job' = [job EXCEPT ![h] = j]
          /\ pc' = [pc EXCEPT ![h] = FirstPC(j)]
          /\ target' = [target EXCEPT ![h] = IF j = "request" THEN None ELSE p]
    BY <1>3 DEF Arrive
  <2>2. j \in AllJobs /\ FirstPC(j) \in PC
    BY JobsAssumption DEF FirstPC, PC, AllJobs
  <2>3. QED
    BY <1>3, <2>1, <2>2 DEF Arrive, TypeOK
<1>4. ASSUME NEW h \in Handlers, Load(h)
      PROVE  TypeOK'
  BY <1>4 DEF Load, TypeOK, request, bounds
<1>5. ASSUME NEW h \in Handlers, SavePrepare(h)
      PROVE  TypeOK'
  <2>1. target[h] \in Providers /\ loaded[h] \in [Providers -> Stats]
    BY <1>5 DEF SavePrepare, HandlerInv, InStore, TypeOK
  <2>2. store' \in [Providers -> Stats]
    BY <1>5, <2>1, PreparedRetryFacts DEF SavePrepare, Save, TypeOK
  <2>3. QED
    BY <1>5, <2>2 DEF SavePrepare, Save, TypeOK, PC, request, bounds
<1>6. ASSUME NEW h \in Handlers, SaveSnapshot(h)
      PROVE  TypeOK'
  BY <1>6 DEF SaveSnapshot, Save, InStore, TypeOK, PC, bounds
<1>7. ASSUME NEW h \in Handlers, Route(h)
      PROVE  TypeOK'
  <2> USE <1>7
  <2>1. PICK eligible \in IF job[h] = "retry" THEN {{target[h]}} ELSE SUBSET Providers :
          LET free == {p \in eligible : snap[h][p].cooldownUntil <= now}
              closed == {p \in free : snap[h][p].state = "closed"}
              recoverable ==
                {p \in free : \/ snap[h][p].state = "half-open"
                              \/ /\ snap[h][p].state = "open"
                                 /\ snap[h][p].openUntil <= now}
          IN NextCandidate(h, recoverable, closed)
    BY DEF Route
  <2>2. eligible \in SUBSET Providers
    BY <2>1 DEF HandlerInv
  <2>3. QED
    <3> DEFINE free == {p \in eligible : snap[h][p].cooldownUntil <= now}
               closed == {p \in free : snap[h][p].state = "closed"}
               recoverable ==
                 {p \in free : \/ snap[h][p].state = "half-open"
                               \/ /\ snap[h][p].state = "open"
                                  /\ snap[h][p].openUntil <= now}
    <3>1. closed \in SUBSET Providers /\ recoverable \in SUBSET Providers
      BY <2>2
    <3>2. NextCandidate(h, recoverable, closed)
      BY <2>1
    <3> HIDE DEF closed, recoverable
    <3>3. QED
      BY <3>1, <3>2, NextCandidateType DEF Route, TypeOK, bounds
<1>8. ASSUME NEW h \in Handlers, SaveClaim(h)
      PROVE  TypeOK'
  <2>1. target[h] \in Providers /\ loaded[h] \in [Providers -> Stats]
    BY <1>8 DEF SaveClaim, HandlerInv, InStore, TypeOK
  <2>2. CASE ClaimGranted(loaded[h][target[h]])
    <3> DEFINE p == target[h]
               d == [snap[h][p] EXCEPT !.state = "half-open", !.active = TRUE]
    <3>1. /\ store' = [loaded[h] EXCEPT ![p] = Claimed(loaded[h][p])]
          /\ loaded' = [loaded EXCEPT ![h] = None]
          /\ snap' = [snap EXCEPT ![h] = [snap[h] EXCEPT ![p] = d]]
          /\ claimedAt' = [claimedAt EXCEPT ![h] = now]
          /\ claims' = [claims EXCEPT ![h] = {}]
          /\ pc' = [pc EXCEPT ![h] = "call"]
          /\ UNCHANGED <<job, target, todo, attempt, now, streak, bounds>>
      BY <1>8, <2>2 DEF SaveClaim, Save
    <3>2. Claimed(loaded[h][p]) \in Stats /\ snap[h][p] \in Stats
      BY <2>1, ClaimedFacts DEF TypeOK
    <3>3. d \in Stats
      BY <3>2 DEF Stats, CircuitStates
    <3> HIDE DEF d, p
    <3>4. /\ store' \in [Providers -> Stats]
          /\ snap' \in [Handlers -> [Providers -> Stats]]
      BY <2>1, <3>1, <3>2, <3>3 DEF TypeOK
    <3>5. QED
      BY <3>1, <3>4 DEF TypeOK, PC, bounds
  <2>3. CASE ~ClaimGranted(loaded[h][target[h]])
    BY <1>8, <2>1, <2>3, NextCandidateType DEF SaveClaim, Save, TypeOK, bounds
  <2>4. QED
    BY <2>2, <2>3
<1>9. ASSUME NEW h \in Handlers, SaveRecord(h)
      PROVE  TypeOK'
  <2>1. /\ store' \in [Providers -> Stats] /\ streak' \in [Providers -> Nat]
        /\ loaded' = [loaded EXCEPT ![h] = None]
    BY <1>9, SaveAttemptType DEF SaveRecord
  <2>2. {} \in SUBSET Providers /\ todo[h] \in SUBSET Providers
    BY DEF TypeOK
  <2>3. CASE Finish(h)
    BY <1>9, <2>1, <2>3, FinishType DEF SaveRecord, TypeOK, bounds
  <2>4. CASE NextCandidate(h, {}, todo[h])
    BY <1>9, <2>1, <2>2, <2>4, NextCandidateType DEF SaveRecord, TypeOK, bounds
  <2>5. QED
    BY <1>9, <2>3, <2>4 DEF SaveRecord
<1>18. ASSUME NEW h \in Handlers, RecordTwice(h)
       PROVE  TypeOK'
  <2>1. /\ store' \in [Providers -> Stats] /\ streak' \in [Providers -> Nat]
        /\ loaded' = [loaded EXCEPT ![h] = None]
    BY <1>18, SaveAttemptType DEF RecordTwice
  <2>2. target[h] \in Providers /\ CircuitFailure(h, TRUE)
    BY <1>18 DEF RecordTwice, HandlerInv
  <2>3. /\ pc' \in [Handlers -> PC]
        /\ snap' \in [Handlers -> [Providers -> Stats]]
        /\ attempt' \in [Handlers -> Attempts]
        /\ UNCHANGED <<job, target, claims, todo>>
    BY <2>2, CircuitFailureType
  <2>4. /\ UNCHANGED <<now, arrivals, crashes>> /\ storeErrors' = storeErrors + 1
        /\ claimedAt' = [claimedAt EXCEPT ![h] = 0]
    BY <1>18 DEF RecordTwice
  <2>5. QED
    BY <2>1, <2>3, <2>4 DEF TypeOK
<1>10. ASSUME NEW h \in Handlers, SaveAdmin(h)
       PROVE  TypeOK'
  <2>1. target[h] \in Providers /\ loaded[h] \in [Providers -> Stats]
    BY <1>10 DEF SaveAdmin, HandlerInv, InStore, TypeOK
  <2>2. [loaded[h][target[h]] EXCEPT !.cooldownUntil = 0] \in Stats
    BY <2>1 DEF Stats
  <2>3. store' \in [Providers -> Stats] /\ streak' \in [Providers -> Nat]
    <3>1. ClosedCircuit(loaded[h][target[h]]) \in Stats
      BY <2>1, ClosedCircuitFacts
    <3>2. CASE job[h] = "reset"
      BY <1>10, <2>1, <3>1, <3>2 DEF SaveAdmin, Save, TypeOK
    <3>3. CASE job[h] = "clearCooldown"
      <4>1. /\ store' = [loaded[h] EXCEPT ![target[h]] =
                           [loaded[h][target[h]] EXCEPT !.cooldownUntil = 0]]
            /\ streak' = streak
        BY <1>10, <3>3 DEF SaveAdmin, Save
      <4>2. QED
        BY <2>1, <2>2, <4>1 DEF TypeOK
    <3>4. CASE job[h] = "usage"
      BY <1>10, <2>1, <3>4 DEF SaveAdmin, Save, TypeOK
    <3>5. QED
      BY <1>10, <3>2, <3>3, <3>4 DEF SaveAdmin
  <2>4. QED
    BY <1>10, <2>3, FinishType DEF SaveAdmin, Save, TypeOK, bounds
<1>11. ASSUME NEW h \in Handlers, StoreFails(h)
       PROVE  TypeOK'
  <2>1. CASE Finish(h)
    BY <1>11, <2>1, FinishType DEF StoreFails, TypeOK
  <2>2. CASE pc[h] = "record" /\ CircuitFailure(h, TRUE) /\ UNCHANGED claimedAt
    <3>1. target[h] \in Providers
      BY <2>2 DEF HandlerInv
    <3>2. QED
      <4>1. /\ pc' \in [Handlers -> PC]
            /\ snap' \in [Handlers -> [Providers -> Stats]]
            /\ attempt' \in [Handlers -> Attempts]
            /\ UNCHANGED <<job, target, claims, todo, claimedAt>>
        BY <2>2, <3>1, CircuitFailureType
      <4>2. QED
        <5>1. /\ UNCHANGED <<now, store, streak, arrivals, crashes>>
              /\ storeErrors' = storeErrors + 1
              /\ loaded' = [loaded EXCEPT ![h] = None]
          BY <1>11 DEF StoreFails
        <5>2. QED
          BY <4>1, <5>1 DEF TypeOK
  <2>3. QED
    BY <1>11, <2>1, <2>2 DEF StoreFails
<1>12. ASSUME NEW h \in Handlers, Abandon(h)
       PROVE  TypeOK'
  <2>1. {} \in SUBSET Providers /\ todo[h] \in SUBSET Providers
    BY DEF TypeOK
  <2>2. QED
    BY <1>12, <2>1, FinishType, NextCandidateType DEF Abandon, TypeOK, bounds
<1>13. ASSUME NEW h \in Handlers, Succeed(h)
       PROVE  TypeOK'
  <2>1. target[h] \in Providers /\ [NoAttempt EXCEPT !.success = TRUE] \in Attempts
    BY <1>13, NoAttemptType DEF Succeed, HandlerInv, Attempts
  <2>2. QED
    BY <1>13, <2>1, ClosedCircuitFacts DEF Succeed, Emit, TypeOK, PC, bounds
<1>14. ASSUME NEW h \in Handlers, Fail(h)
       PROVE  TypeOK'
  <2>1. target[h] \in Providers
    BY <1>14 DEF Fail, HandlerInv
  <2>2. PICK caught \in BOOLEAN : CircuitFailure(h, caught)
    BY <1>14 DEF Fail
  <2>3. QED
    BY <1>14, <2>1, <2>2, CircuitFailureType DEF Fail, TypeOK, PC, bounds
<1>15. ASSUME NEW h \in Handlers, RateLimit(h)
       PROVE  TypeOK'
  <2> DEFINE p == target[h]
             c == IF claimedAt[h] # 0 THEN ClosedCircuit(snap[h][p]) ELSE snap[h][p]
  <2>1. PICK len \in CooldownLengths :
          /\ snap' = [snap EXCEPT ![h] = [snap[h] EXCEPT ![p] =
                       [c EXCEPT !.cooldownUntil = now + len]]]
          /\ Emit(h, [NoAttempt EXCEPT
                        !.action = IF claimedAt[h] # 0 THEN "closed" ELSE "none",
                        !.state = c.state, !.failures = c.failures,
                        !.opens = c.opens, !.cooldownUntil = now + len])
    BY <1>15 DEF RateLimit
  <2>2. c \in Stats /\ now + len \in Nat /\ p \in Providers
    BY <1>15, ClosedCircuitFacts, CooldownAssumption DEF RateLimit, HandlerInv, TypeOK
  <2> HIDE DEF c
  <2>3. [c EXCEPT !.cooldownUntil = now + len] \in Stats
    BY <2>2 DEF Stats
  <2>4. [NoAttempt EXCEPT !.action = IF claimedAt[h] # 0 THEN "closed" ELSE "none",
                          !.state = c.state, !.failures = c.failures,
                          !.opens = c.opens, !.cooldownUntil = now + len] \in Attempts
    BY <2>2, NoAttemptType DEF Stats, Attempts
  <2>5. QED
    BY <1>15, <2>1, <2>2, <2>3, <2>4 DEF RateLimit, Emit, TypeOK, PC, bounds
<1>16. ASSUME NEW h \in Handlers, Reject(h)
       PROVE  TypeOK'
  <2> DEFINE c == snap[h][target[h]]
  <2>1. c \in Stats
    BY <1>16 DEF Reject, HandlerInv, TypeOK
  <2>2. [NoAttempt EXCEPT !.state = c.state, !.failures = c.failures,
                          !.opens = c.opens] \in Attempts
    BY <2>1, NoAttemptType DEF Stats, Attempts
  <2>3. QED
    BY <1>16, <2>2 DEF Reject, Emit, TypeOK, PC, bounds
<1>17. CASE UNCHANGED vars
  BY <1>17 DEF TypeOK, vars
<1>19. QED
  BY <1>1, <1>2, <1>3, <1>4, <1>5, <1>6, <1>7, <1>8, <1>9, <1>10, <1>11,
     <1>12, <1>13, <1>14, <1>15, <1>16, <1>17, <1>18 DEF Next, HandlerStep

-----------------------------------------------------------------------------
(* The handlers' part of CoherentInv. *)

(* The fields of handler g that HandlerInv reads are what they were. *)
Untouched(g) ==
  /\ pc'[g] = pc[g] /\ job'[g] = job[g] /\ snap'[g] = snap[g]
  /\ target'[g] = target[g] /\ claims'[g] = claims[g] /\ todo'[g] = todo[g]
  /\ claimedAt'[g] = claimedAt[g] /\ attempt'[g] = attempt[g]

LEMMA OthersKeep ==
  ASSUME NEW h \in Handlers, \A g \in Handlers : HandlerInv(g),
         \A g \in Handlers \ {h} : Untouched(g), HandlerInv(h)'
  PROVE  \A g \in Handlers : HandlerInv(g)'
<1> SUFFICES ASSUME NEW g \in Handlers, g # h
             PROVE  HandlerInv(g)'
  OBVIOUS
<1>1. QED
  BY DEF HandlerInv, Untouched

LEMMA FinishFields ==
  ASSUME TypeOK, NEW h \in Handlers, Finish(h)
  PROVE  /\ pc'[h] = "idle" /\ job'[h] = "request" /\ claims'[h] = {}
         /\ todo'[h] = {} /\ claimedAt'[h] = 0 /\ target'[h] = None
         /\ \A g \in Handlers \ {h} : Untouched(g)
  BY DEF Finish, TypeOK, Untouched

LEMMA FinishInv ==
  ASSUME TypeOK, NEW h \in Handlers, Finish(h),
         \A g \in Handlers : HandlerInv(g)
  PROVE  \A g \in Handlers : HandlerInv(g)' /\ pc'[h] = "idle"
<1>1. HandlerInv(h)'
  BY FinishFields DEF HandlerInv
<1>2. QED
  BY <1>1, FinishFields, OthersKeep

LEMMA NextCandidateInv ==
  ASSUME TypeOK, NEW h \in Handlers, \A g \in Handlers : HandlerInv(g),
         NEW R \in SUBSET Providers, NEW C \in SUBSET Providers,
         \A p \in R : snap[h][p].state # "closed",
         \A p \in C : snap[h][p].state = "closed" /\ ~snap[h][p].active,
         NextCandidate(h, R, C)
  PROVE  /\ \A g \in Handlers : HandlerInv(g)'
         /\ pc'[h] # "route"
         /\ \A g \in Handlers \ {h} : Untouched(g)
<1>1. CASE Finish(h)
  BY <1>1, FinishInv, FinishFields
<1>2. CASE \E p \in R :
             /\ pc' = [pc EXCEPT ![h] = "claim"]
             /\ target' = [target EXCEPT ![h] = p]
             /\ claims' = [claims EXCEPT ![h] = R \ {p}]
             /\ todo' = [todo EXCEPT ![h] = C]
             /\ claimedAt' = [claimedAt EXCEPT ![h] = 0]
             /\ attempt' = [attempt EXCEPT ![h] = NoAttempt]
             /\ UNCHANGED <<job, snap>>
  <2>1. PICK p \in R :
          /\ pc'[h] = "claim" /\ target'[h] = p /\ claims'[h] = R \ {p}
          /\ todo'[h] = C /\ claimedAt'[h] = 0 /\ snap' = snap /\ job' = job
          /\ \A g \in Handlers \ {h} : Untouched(g)
    BY <1>2 DEF TypeOK, Untouched
  <2>2. HandlerInv(h)'
    BY <2>1 DEF HandlerInv
  <2>3. QED
    BY <2>1, <2>2, OthersKeep
<1>3. CASE \E p \in C :
             /\ pc' = [pc EXCEPT ![h] = "call"]
             /\ target' = [target EXCEPT ![h] = p]
             /\ claims' = [claims EXCEPT ![h] = {}]
             /\ todo' = [todo EXCEPT ![h] = C \ {p}]
             /\ claimedAt' = [claimedAt EXCEPT ![h] = 0]
             /\ attempt' = [attempt EXCEPT ![h] = NoAttempt]
             /\ UNCHANGED <<job, snap>>
  <2>1. PICK p \in C :
          /\ pc'[h] = "call" /\ target'[h] = p /\ claims'[h] = {}
          /\ todo'[h] = C \ {p} /\ claimedAt'[h] = 0 /\ snap' = snap /\ job' = job
          /\ \A g \in Handlers \ {h} : Untouched(g)
    BY <1>3 DEF TypeOK, Untouched
  <2>2. HandlerInv(h)'
    BY <2>1 DEF HandlerInv
  <2>3. QED
    BY <2>1, <2>2, OthersKeep
<1>4. QED
  BY <1>1, <1>2, <1>3 DEF NextCandidate

LEMMA CircuitFailureInv ==
  ASSUME TypeOK, NEW h \in Handlers, \A g \in Handlers : HandlerInv(g),
         pc[h] \in {"call", "record"}, NEW caught \in BOOLEAN,
         CircuitFailure(h, caught),
         claimedAt' \in {claimedAt, [claimedAt EXCEPT ![h] = 0]}
  PROVE  /\ \A g \in Handlers : HandlerInv(g)'
         /\ pc'[h] = "record"
         /\ \A g \in Handlers \ {h} : Untouched(g)
<1> DEFINE c == snap[h][target[h]]
           halfOpen == claimedAt[h] # 0
           d == FailedRuntime(c, halfOpen)
           a == FailureAttempt(c, halfOpen, caught)
<1>1. target[h] \in Providers /\ c \in Stats /\ halfOpen \in BOOLEAN
  BY DEF HandlerInv, TypeOK
<1>2. ~d.active /\ ~a.active
  <2>1. a.active = d.active
    BY <1>1, FailureAttemptFacts
  <2>2. CASE Opens(c, halfOpen)
    BY <1>1, <2>1, <2>2, FailedRuntimeFacts
  <2>3. CASE ~Opens(c, halfOpen)
    <3>1. claimedAt[h] = 0
      BY <2>3 DEF Opens
    <3>2. ~c.active
      BY <3>1 DEF HandlerInv
    <3>3. QED
      BY <1>1, <2>1, <2>3, <3>2, FailedRuntimeFacts
  <2>4. QED
    BY <2>2, <2>3
<1>3. /\ snap' = [snap EXCEPT ![h] = [snap[h] EXCEPT ![target[h]] = d]]
      /\ attempt' = [attempt EXCEPT ![h] = a]
      /\ pc' = [pc EXCEPT ![h] = "record"]
      /\ UNCHANGED <<job, target, claims, todo>>
  BY DEF CircuitFailure, Emit
<1>c. /\ claimedAt'[h] = claimedAt[h] \/ claimedAt'[h] = 0
      /\ \A g \in Handlers \ {h} : claimedAt'[g] = claimedAt[g]
  BY DEF TypeOK
<1> HIDE DEF d, a, c, halfOpen
<1>4. /\ snap'[h][target[h]] = d /\ attempt'[h] = a /\ pc'[h] = "record"
      /\ \A p \in Providers \ {target[h]} : snap'[h][p] = snap[h][p]
      /\ \A g \in Handlers \ {h} : Untouched(g)
  BY <1>1, <1>3, <1>c DEF TypeOK, Untouched
<1>5. HandlerInv(h)
  OBVIOUS
<1>6. todo[h] \subseteq Providers /\ target[h] \notin todo[h]
  BY <1>5 DEF HandlerInv, TypeOK
<1>7. HandlerInv(h)'
  BY <1>1, <1>2, <1>3, <1>4, <1>5, <1>6, <1>c DEF HandlerInv
<1>8. QED
  BY <1>4, <1>7, OthersKeep

-----------------------------------------------------------------------------
(* CoherentInv is inductive, whatever overlaps. *)

RecordsCoherent ==
  /\ \A p \in Providers : Coherent(store[p])
  /\ \A h \in Handlers : InStore(h) => \A p \in Providers : Coherent(loaded[h][p])

(* A step that leaves the store alone, or reads it, or fails. *)
LEMMA RecordsKept ==
  ASSUME TypeOK, RecordsCoherent, store' = store,
         \A g \in Handlers : loaded'[g] \in {loaded[g], store, None}
  PROVE  RecordsCoherent'
  BY DEF RecordsCoherent, InStore

(* A step that writes a coherent record back. *)
LEMMA RecordsSaved ==
  ASSUME TypeOK, RecordsCoherent, NEW h \in Handlers,
         NEW newState, \A p \in Providers : Coherent(newState[p]),
         Save(h, newState)
  PROVE  RecordsCoherent'
  BY DEF RecordsCoherent, InStore, Save, TypeOK

(* The same when only the entry of p is mutated. *)
LEMMA EntrySaved ==
  ASSUME TypeOK, RecordsCoherent, NEW h \in Handlers, InStore(h),
         NEW p \in Providers, NEW entry, Coherent(entry),
         Save(h, [loaded[h] EXCEPT ![p] = entry])
  PROVE  RecordsCoherent'
<1> DEFINE new == [loaded[h] EXCEPT ![p] = entry]
<1>1. \A q \in Providers : new[q] = IF q = p THEN entry ELSE loaded[h][q]
  BY DEF TypeOK, InStore
<1> HIDE DEF new
<1>2. \A q \in Providers : Coherent(new[q])
  BY <1>1 DEF RecordsCoherent
<1>3. QED
  BY <1>2, RecordsSaved DEF new

RoutesCoherently ==
  \A h \in Handlers : pc[h] = "route" => \A p \in Providers : Coherent(snap[h][p])

LEMMA InactiveCoherent ==
  ASSUME NEW c, ~c.active PROVE Coherent(c)
  BY DEF Coherent

LEMMA CoherentInvParts ==
  CoherentInv <=> /\ TypeOK
                  /\ \A h \in Handlers : HandlerInv(h)
                  /\ RecordsCoherent
                  /\ RoutesCoherently
  BY DEF CoherentInv, RecordsCoherent, RoutesCoherently

LEMMA CoherentInit == Init => CoherentInv
<1> SUFFICES ASSUME Init PROVE CoherentInv
  OBVIOUS
<1>1. \A h \in Handlers : HandlerInv(h)
  BY DEF Init, HandlerInv
<1>2. RecordsCoherent
  BY DEF Init, RecordsCoherent, InStore, Coherent, InitialStats
<1>3. RoutesCoherently
  BY DEF Init, RoutesCoherently
<1>4. QED
  BY TypeInit, <1>1, <1>2, <1>3, CoherentInvParts

LEMMA CoherentStep == CoherentInv /\ [Next]_vars => CoherentInv'
<1> SUFFICES ASSUME CoherentInv, [Next]_vars
             PROVE  /\ \A g \in Handlers : HandlerInv(g)'
                    /\ RecordsCoherent'
                    /\ RoutesCoherently'
  BY TypeStep DEF CoherentInv, RecordsCoherent, RoutesCoherently
<1> DEFINE Goal == /\ \A g \in Handlers : HandlerInv(g)'
                   /\ RecordsCoherent'
                   /\ RoutesCoherently'
<1>0. /\ TypeOK
      /\ \A g \in Handlers : HandlerInv(g)
      /\ RecordsCoherent
      /\ RoutesCoherently
  BY CoherentInvParts
<1>a. ASSUME \A g \in Handlers : Untouched(g)
      PROVE  (\A g \in Handlers : HandlerInv(g)') /\ RoutesCoherently'
  BY <1>a, <1>0 DEF Untouched, HandlerInv, RoutesCoherently
<1>b. ASSUME NEW h \in Handlers, \A g \in Handlers \ {h} : Untouched(g),
             pc'[h] # "route"
      PROVE  RoutesCoherently'
  BY <1>b, <1>0 DEF Untouched, RoutesCoherently
<1>c. ASSUME store' = store, loaded' = loaded PROVE RecordsCoherent'
  BY <1>c, <1>0, RecordsKept
<1>1. CASE Tick
  <2>1. \A g \in Handlers : Untouched(g)
    BY <1>1 DEF Tick, request, Untouched
  <2>2. QED
    BY <1>1, <1>a, <1>c, <2>1 DEF Tick
<1>2. CASE Crash
  <2>1. \A g \in Handlers : HandlerInv(g)'
    BY <1>2 DEF Crash, HandlerInv
  <2>2. RoutesCoherently'
    BY <1>2 DEF Crash, RoutesCoherently
  <2>3. RecordsCoherent'
    BY <1>2, <1>0, RecordsKept DEF Crash
  <2>4. QED
    BY <2>1, <2>2, <2>3
<1>3. ASSUME NEW h \in Handlers, Arrive(h)
      PROVE  Goal
  <2>1. PICK j \in {"request", "usage"} \cup OperatorJobs, p \in Providers :
          /\ job' = [job EXCEPT ![h] = j]
          /\ pc' = [pc EXCEPT ![h] = FirstPC(j)]
          /\ target' = [target EXCEPT ![h] = IF j = "request" THEN None ELSE p]
    BY <1>3 DEF Arrive
  <2>2. /\ job'[h] = j /\ pc'[h] = FirstPC(j)
        /\ target'[h] = IF j = "request" THEN None ELSE p
        /\ UNCHANGED <<store, loaded, snap, claims, todo, claimedAt, attempt>>
        /\ pc[h] = "idle"
        /\ \A g \in Handlers \ {h} : Untouched(g)
    BY <1>0, <1>3, <2>1 DEF Arrive, TypeOK, Untouched
  <2>3. HandlerInv(h)'
    <3>1. /\ FirstPC(j) \in {"prepare", "snapshot", "admin"}
          /\ FirstPC(j) = "snapshot" <=> j = "request"
      BY <2>1 DEF FirstPC
    <3>2. HandlerInv(h)
      BY <1>0
    <3>3. QED
      <4>1. /\ j # "request" => target'[h] \in Providers
            /\ todo[h] = {} /\ claimedAt[h] = 0
        BY <2>1, <2>2, <3>2 DEF HandlerInv
      <4>2. /\ pc'[h] \in {"prepare", "snapshot", "admin"}
            /\ pc'[h] # "snapshot" \/ job'[h] = "retry" => target'[h] \in Providers
            /\ todo'[h] = {} /\ claimedAt'[h] = 0
        BY <2>2, <3>1, <4>1
      <4>3. QED
        BY <4>2 DEF HandlerInv
  <2>4. pc'[h] # "route"
    BY <2>2, JobsAssumption DEF FirstPC
  <2>5. QED
    BY <1>0, <1>b, <1>c, <2>2, <2>3, <2>4, OthersKeep
<1>4. ASSUME NEW h \in Handlers, Load(h)
      PROVE  Goal
  <2>1. \A g \in Handlers : Untouched(g)
    BY <1>4 DEF Load, request, Untouched
  <2>2. RecordsCoherent'
    BY <1>0, <1>4, RecordsKept DEF Load, TypeOK
  <2>3. QED
    BY <1>a, <2>1, <2>2
<1>5. ASSUME NEW h \in Handlers, SavePrepare(h)
      PROVE  Goal
  <2>1. /\ pc'[h] = "snapshot" /\ pc[h] = "prepare" /\ InStore(h)
        /\ UNCHANGED request
        /\ \A g \in Handlers \ {h} : Untouched(g)
    BY <1>0, <1>5 DEF SavePrepare, TypeOK, request, Untouched
  <2>2. HandlerInv(h)'
    <3>1. HandlerInv(h)
      BY <1>0
    <3>2. QED
      BY <2>1, <3>1 DEF HandlerInv, request
  <2>3. target[h] \in Providers /\ loaded[h][target[h]] \in Stats
    BY <1>0, <2>1 DEF HandlerInv, TypeOK, InStore
  <2>4. Coherent(PreparedRetry(loaded[h][target[h]]))
    BY <1>0, <2>3, PreparedRetryFacts DEF TypeOK, Coherent
  <2>5. Save(h, [loaded[h] EXCEPT ![target[h]] = PreparedRetry(loaded[h][target[h]])])
    BY <1>5 DEF SavePrepare
  <2>6. RecordsCoherent'
    BY <1>0, <2>1, <2>3, <2>4, <2>5, EntrySaved
  <2>7. QED
    BY <1>0, <1>b, <2>1, <2>2, <2>6, OthersKeep
<1>6. ASSUME NEW h \in Handlers, SaveSnapshot(h)
      PROVE  Goal
  <2>1. /\ pc'[h] = "route" /\ pc[h] = "snapshot" /\ InStore(h)
        /\ snap'[h] = loaded[h] /\ Save(h, loaded[h])
        /\ UNCHANGED <<job, target, claims, todo, claimedAt, attempt>>
        /\ \A g \in Handlers \ {h} : Untouched(g)
    BY <1>0, <1>6 DEF SaveSnapshot, TypeOK, Untouched
  <2>2. HandlerInv(h)'
    <3>1. HandlerInv(h)
      BY <1>0
    <3>2. QED
      BY <2>1, <3>1 DEF HandlerInv
  <2>3. \A p \in Providers : Coherent(loaded[h][p])
    BY <1>0, <2>1 DEF RecordsCoherent
  <2>4. RecordsCoherent'
    BY <1>0, <2>1, <2>3, RecordsSaved
  <2>5. RoutesCoherently'
    BY <1>0, <2>1, <2>3 DEF RoutesCoherently, Untouched
  <2>6. QED
    BY <1>0, <2>1, <2>2, <2>4, <2>5, OthersKeep
<1>7. ASSUME NEW h \in Handlers, Route(h)
      PROVE  Goal
  <2>1. PICK eligible \in IF job[h] = "retry" THEN {{target[h]}} ELSE SUBSET Providers :
          LET free == {p \in eligible : snap[h][p].cooldownUntil <= now}
              closed == {p \in free : snap[h][p].state = "closed"}
              recoverable ==
                {p \in free : \/ snap[h][p].state = "half-open"
                              \/ /\ snap[h][p].state = "open"
                                 /\ snap[h][p].openUntil <= now}
          IN NextCandidate(h, recoverable, closed)
    BY <1>7 DEF Route
  <2>2. eligible \in SUBSET Providers
    BY <1>0, <2>1 DEF HandlerInv
  <2> DEFINE free == {p \in eligible : snap[h][p].cooldownUntil <= now}
             closed == {p \in free : snap[h][p].state = "closed"}
             recoverable ==
               {p \in free : \/ snap[h][p].state = "half-open"
                             \/ /\ snap[h][p].state = "open"
                                /\ snap[h][p].openUntil <= now}
  <2>3. /\ closed \in SUBSET Providers /\ recoverable \in SUBSET Providers
        /\ \A p \in recoverable : snap[h][p].state # "closed"
        /\ \A p \in closed : snap[h][p].state = "closed"
    BY <2>2
  <2>4. NextCandidate(h, recoverable, closed)
    BY <2>1
  <2> HIDE DEF closed, recoverable
  <2>5. pc[h] = "route"
    BY <1>7 DEF Route
  <2>6. \A p \in closed : ~snap[h][p].active
    BY <1>0, <2>3, <2>5 DEF RoutesCoherently, Coherent
  <2>7. /\ \A g \in Handlers : HandlerInv(g)'
        /\ pc'[h] # "route"
        /\ \A g \in Handlers \ {h} : Untouched(g)
    BY <1>0, <2>3, <2>4, <2>6, NextCandidateInv
  <2>8. QED
    BY <1>7, <1>b, <1>c, <2>7 DEF Route
<1>8. ASSUME NEW h \in Handlers, SaveClaim(h)
      PROVE  Goal
  <2> DEFINE p == target[h]
  <2>1. /\ pc[h] = "claim" /\ InStore(h) /\ p \in Providers
        /\ loaded[h] \in [Providers -> Stats] /\ HandlerInv(h)
    BY <1>0, <1>8 DEF SaveClaim, HandlerInv, InStore, TypeOK
  <2>2. CASE ClaimGranted(loaded[h][p])
    <3> DEFINE d == [snap[h][p] EXCEPT !.state = "half-open", !.active = TRUE]
    <3>1. /\ Save(h, [loaded[h] EXCEPT ![p] = Claimed(loaded[h][p])])
          /\ snap' = [snap EXCEPT ![h] = [snap[h] EXCEPT ![p] = d]]
          /\ claimedAt' = [claimedAt EXCEPT ![h] = now]
          /\ claims' = [claims EXCEPT ![h] = {}]
          /\ pc' = [pc EXCEPT ![h] = "call"]
          /\ UNCHANGED <<job, target, todo, attempt>>
      BY <1>8, <2>2 DEF SaveClaim
    <3> HIDE DEF d
    <3>2. /\ pc'[h] = "call" /\ claimedAt'[h] = now /\ now # 0
          /\ \A q \in Providers \ {p} : snap'[h][q] = snap[h][q]
          /\ \A g \in Handlers \ {h} : Untouched(g)
      BY <1>0, <3>1 DEF TypeOK, Untouched
    <3>3. HandlerInv(h)'
      <4>1. todo[h] \subseteq Providers \ {p}
        BY <1>0, <2>1 DEF HandlerInv, TypeOK
      <4>2. QED
        BY <2>1, <3>1, <3>2, <4>1 DEF HandlerInv
    <3>4. Coherent(Claimed(loaded[h][p]))
      BY <1>0, <2>1, ClaimedFacts DEF TypeOK, Coherent
    <3>5. RecordsCoherent'
      BY <1>0, <2>1, <3>1, <3>4, EntrySaved
    <3>6. QED
      BY <1>0, <1>b, <3>2, <3>3, <3>5, OthersKeep
  <2>3. CASE ~ClaimGranted(loaded[h][p])
    <3>1. Save(h, loaded[h]) /\ NextCandidate(h, claims[h], todo[h])
      BY <1>8, <2>3 DEF SaveClaim
    <3>2. /\ claims[h] \in SUBSET Providers /\ todo[h] \in SUBSET Providers
          /\ \A q \in claims[h] : snap[h][q].state # "closed"
          /\ \A q \in todo[h] : snap[h][q].state = "closed" /\ ~snap[h][q].active
      BY <1>0, <2>1 DEF HandlerInv, TypeOK
    <3>3. /\ \A g \in Handlers : HandlerInv(g)'
          /\ pc'[h] # "route"
          /\ \A g \in Handlers \ {h} : Untouched(g)
      BY <1>0, <3>1, <3>2, NextCandidateInv
    <3>4. RecordsCoherent'
      BY <1>0, <2>1, <3>1, RecordsSaved DEF RecordsCoherent
    <3>5. QED
      BY <1>b, <3>3, <3>4
  <2>4. QED
    BY <2>2, <2>3
<1>9. ASSUME NEW h \in Handlers, SaveRecord(h)
      PROVE  Goal
  <2> DEFINE p == target[h]
  <2>1. /\ pc[h] = "record" /\ InStore(h) /\ p \in Providers
        /\ loaded[h] \in [Providers -> Stats] /\ attempt[h] \in Attempts
        /\ ~attempt[h].active
    BY <1>0, <1>9 DEF SaveRecord, HandlerInv, InStore, TypeOK
  <2>2. Save(h, [loaded[h] EXCEPT ![p] = UpdateStats(loaded[h][p], attempt[h])])
    BY <1>9 DEF SaveRecord, SaveAttempt
  <2>3. Coherent(UpdateStats(loaded[h][p], attempt[h]))
    BY <2>1, UpdateStatsFacts DEF Coherent
  <2>4. RecordsCoherent'
    BY <1>0, <2>1, <2>2, <2>3, EntrySaved
  <2>5. CASE Finish(h)
    BY <1>0, <1>b, <2>4, <2>5, FinishInv, FinishFields
  <2>6. CASE NextCandidate(h, {}, todo[h])
    <3>1. /\ todo[h] \in SUBSET Providers /\ {} \in SUBSET Providers
          /\ \A q \in todo[h] : snap[h][q].state = "closed" /\ ~snap[h][q].active
      BY <1>0 DEF HandlerInv, TypeOK
    <3>2. /\ \A g \in Handlers : HandlerInv(g)'
          /\ pc'[h] # "route"
          /\ \A g \in Handlers \ {h} : Untouched(g)
      BY <1>0, <2>6, <3>1, NextCandidateInv
    <3>3. QED
      BY <1>b, <2>4, <3>2
  <2>7. QED
    BY <1>9, <2>5, <2>6 DEF SaveRecord
<1>18. ASSUME NEW h \in Handlers, RecordTwice(h)
       PROVE  Goal
  <2> DEFINE p == target[h]
  <2>1. /\ pc[h] = "record" /\ InStore(h) /\ p \in Providers
        /\ loaded[h] \in [Providers -> Stats] /\ attempt[h] \in Attempts
        /\ ~attempt[h].active
    BY <1>0, <1>18 DEF RecordTwice, HandlerInv, InStore, TypeOK
  <2>2. /\ Save(h, [loaded[h] EXCEPT ![p] = UpdateStats(loaded[h][p], attempt[h])])
        /\ CircuitFailure(h, TRUE)
        /\ claimedAt' = [claimedAt EXCEPT ![h] = 0]
    BY <1>18 DEF RecordTwice, SaveAttempt
  <2>3. Coherent(UpdateStats(loaded[h][p], attempt[h]))
    BY <2>1, UpdateStatsFacts DEF Coherent
  <2>4. RecordsCoherent'
    BY <1>0, <2>1, <2>2, <2>3, EntrySaved
  <2>5. QED
    BY <1>0, <1>b, <2>1, <2>2, <2>4, CircuitFailureInv
<1>10. ASSUME NEW h \in Handlers, SaveAdmin(h)
       PROVE  Goal
  <2> DEFINE p == target[h]
             c == loaded[h][p]
             d == [c EXCEPT !.cooldownUntil = 0]
  <2>1. /\ pc[h] = "admin" /\ InStore(h) /\ p \in Providers /\ c \in Stats
        /\ Finish(h)
    BY <1>0, <1>10 DEF SaveAdmin, HandlerInv, InStore, TypeOK
  <2>2. RecordsCoherent'
    <3>1. CASE job[h] = "reset"
      <4>1. Coherent(ClosedCircuit(c))
        BY <2>1, ClosedCircuitFacts DEF Coherent
      <4>2. Save(h, [loaded[h] EXCEPT ![p] = ClosedCircuit(c)])
        BY <1>10, <3>1 DEF SaveAdmin
      <4>3. QED
        BY <1>0, <2>1, <4>1, <4>2, EntrySaved
    <3>2. CASE job[h] = "clearCooldown"
      <4>1. Coherent(c)
        BY <1>0, <2>1 DEF RecordsCoherent
      <4>2. d.active = c.active /\ d.state = c.state /\ d.startedAt = c.startedAt
        BY <2>1 DEF Stats
      <4>3. Save(h, [loaded[h] EXCEPT ![p] = d])
        BY <1>10, <3>2 DEF SaveAdmin
      <4> HIDE DEF d, c, p
      <4>4. Coherent(d)
        BY <4>1, <4>2 DEF Coherent
      <4>5. QED
        BY <1>0, <2>1, <4>3, <4>4, EntrySaved
    <3>3. CASE job[h] = "usage"
      BY <1>0, <1>10, <2>1, <3>3, RecordsSaved DEF SaveAdmin, RecordsCoherent
    <3>4. QED
      BY <1>10, <3>1, <3>2, <3>3 DEF SaveAdmin
  <2>3. QED
    BY <1>0, <1>b, <2>1, <2>2, FinishInv, FinishFields
<1>11. ASSUME NEW h \in Handlers, StoreFails(h)
       PROVE  Goal
  <2>1. RecordsCoherent'
    BY <1>0, <1>11, RecordsKept DEF StoreFails, TypeOK
  <2>2. CASE Finish(h)
    BY <1>0, <1>b, <2>1, <2>2, FinishInv, FinishFields
  <2>3. CASE pc[h] = "record" /\ CircuitFailure(h, TRUE) /\ UNCHANGED claimedAt
    BY <1>0, <1>b, <2>1, <2>3, CircuitFailureInv
  <2>4. QED
    BY <1>11, <2>2, <2>3 DEF StoreFails
<1>12. ASSUME NEW h \in Handlers, Abandon(h)
       PROVE  Goal
  <2>1. RecordsCoherent'
    BY <1>12, <1>c DEF Abandon
  <2>2. CASE Finish(h)
    BY <1>0, <1>b, <2>1, <2>2, FinishInv, FinishFields
  <2>3. CASE NextCandidate(h, {}, todo[h])
    <3>1. /\ todo[h] \in SUBSET Providers /\ {} \in SUBSET Providers
          /\ \A q \in todo[h] : snap[h][q].state = "closed" /\ ~snap[h][q].active
      BY <1>0 DEF HandlerInv, TypeOK
    <3>2. /\ \A g \in Handlers : HandlerInv(g)'
          /\ pc'[h] # "route"
          /\ \A g \in Handlers \ {h} : Untouched(g)
      BY <1>0, <2>3, <3>1, NextCandidateInv
    <3>3. QED
      BY <1>b, <2>1, <3>2
  <2>4. QED
    BY <1>12, <2>2, <2>3 DEF Abandon
<1>13. ASSUME NEW h \in Handlers, Succeed(h)
       PROVE  Goal
  <2>1. /\ pc[h] = "call" /\ HandlerInv(h) /\ target[h] \in Providers
        /\ snap[h][target[h]] \in Stats /\ todo[h] \subseteq Providers \ {target[h]}
    BY <1>0, <1>13 DEF Succeed, HandlerInv, TypeOK
  <2> DEFINE d == ClosedCircuit(snap[h][target[h]])
             a == [NoAttempt EXCEPT !.success = TRUE]
  <2>2. ~d.active /\ ~a.active
    BY <2>1, ClosedCircuitFacts DEF NoAttempt
  <2> HIDE DEF d
  <2>3. /\ pc'[h] = "record" /\ snap'[h][target[h]] = d /\ attempt'[h] = a
        /\ \A q \in Providers \ {target[h]} : snap'[h][q] = snap[h][q]
        /\ UNCHANGED <<job, target, claims, todo, claimedAt, store, loaded>>
        /\ \A g \in Handlers \ {h} : Untouched(g)
    BY <1>0, <1>13, <2>1 DEF Succeed, Emit, TypeOK, Untouched, d
  <2> HIDE DEF a
  <2>4. HandlerInv(h)'
    BY <2>1, <2>2, <2>3 DEF HandlerInv
  <2>5. QED
    BY <1>0, <1>b, <1>c, <2>3, <2>4, OthersKeep
<1>14. ASSUME NEW h \in Handlers, Fail(h)
       PROVE  Goal
  <2>1. PICK caught \in BOOLEAN : CircuitFailure(h, caught)
    BY <1>14 DEF Fail
  <2>2. QED
    BY <1>0, <1>14, <1>b, <1>c, <2>1, CircuitFailureInv DEF Fail
<1>15. ASSUME NEW h \in Handlers, RateLimit(h)
       PROVE  Goal
  <2> DEFINE p == target[h]
             c == IF claimedAt[h] # 0 THEN ClosedCircuit(snap[h][p]) ELSE snap[h][p]
  <2>1. /\ pc[h] = "call" /\ HandlerInv(h) /\ p \in Providers
        /\ snap[h][p] \in Stats /\ todo[h] \subseteq Providers \ {p}
    BY <1>0, <1>15 DEF RateLimit, HandlerInv, TypeOK
  <2>2. c \in Stats /\ ~c.active
    BY <2>1, ClosedCircuitFacts DEF HandlerInv
  <2> DEFINE d(len) == [c EXCEPT !.cooldownUntil = now + len]
             a(len) == [NoAttempt EXCEPT
                          !.action = IF claimedAt[h] # 0 THEN "closed" ELSE "none",
                          !.state = c.state, !.failures = c.failures,
                          !.opens = c.opens, !.cooldownUntil = now + len]
  <2>3. PICK len \in CooldownLengths :
          /\ snap' = [snap EXCEPT ![h] = [snap[h] EXCEPT ![p] = d(len)]]
          /\ Emit(h, a(len))
    BY <1>15 DEF RateLimit
  <2>4. ~d(len).active /\ ~a(len).active
    BY <2>2 DEF Stats, NoAttempt
  <2> HIDE DEF d, a, c
  <2>5. /\ pc'[h] = "record" /\ snap'[h][p] = d(len) /\ attempt'[h] = a(len)
        /\ \A q \in Providers \ {p} : snap'[h][q] = snap[h][q]
        /\ UNCHANGED <<job, target, claims, todo, claimedAt, store, loaded>>
        /\ \A g \in Handlers \ {h} : Untouched(g)
    BY <1>0, <1>15, <2>1, <2>3 DEF RateLimit, Emit, TypeOK, Untouched
  <2>6. HandlerInv(h)'
    BY <2>1, <2>4, <2>5 DEF HandlerInv
  <2>7. QED
    BY <1>0, <1>b, <1>c, <2>5, <2>6, OthersKeep
<1>16. ASSUME NEW h \in Handlers, Reject(h)
       PROVE  Goal
  <2> DEFINE c == snap[h][target[h]]
             a == [NoAttempt EXCEPT !.state = c.state, !.failures = c.failures,
                                    !.opens = c.opens]
  <2>1. pc[h] = "call" /\ HandlerInv(h) /\ Emit(h, a)
    BY <1>0, <1>16 DEF Reject
  <2>2. ~a.active
    BY DEF NoAttempt
  <2> HIDE DEF a
  <2>3. /\ pc'[h] = "record" /\ attempt'[h] = a
        /\ UNCHANGED <<job, target, claims, todo, claimedAt, snap, store, loaded>>
        /\ \A g \in Handlers \ {h} : Untouched(g)
    BY <1>0, <1>16, <2>1 DEF Reject, Emit, TypeOK, Untouched
  <2>4. HandlerInv(h)'
    BY <2>1, <2>2, <2>3 DEF HandlerInv
  <2>5. QED
    BY <1>0, <1>b, <1>c, <2>3, <2>4, OthersKeep
<1>17. CASE UNCHANGED vars
  <2>1. \A g \in Handlers : Untouched(g)
    BY <1>17 DEF vars, Untouched
  <2>2. QED
    BY <1>17, <1>a, <1>c, <2>1 DEF vars
<1>19. QED
  BY <1>1, <1>2, <1>3, <1>4, <1>5, <1>6, <1>7, <1>8, <1>9, <1>10, <1>11,
     <1>12, <1>13, <1>14, <1>15, <1>16, <1>17, <1>18 DEF Next, HandlerStep

(* Every state of the routing state and of the handlers is well-typed,
   whatever store mutations overlap, fail or are cut off by a restart. *)
THEOREM TypeCorrect == Spec => []TypeOK
<1>1. CoherentInv => TypeOK
  BY DEF CoherentInv
<1>2. QED
  BY CoherentInit, CoherentStep, <1>1, PTL DEF Spec

(* The persisted circuits stay coherent: updateStats and the claim never leave
   a probe marked active on a circuit that is not half-open, or without the
   start that lets a later claim tell that it is stale. *)
THEOREM Coherence == Spec => []StatsCoherent
<1>1. CoherentInv => StatsCoherent
  BY DEF CoherentInv, StatsCoherent, Coherent
<1>2. QED
  BY CoherentInit, CoherentStep, <1>1, PTL DEF Spec
-----------------------------------------------------------------------------
(* One request at a time, and a store that does not fail: what a request knows
   of a circuit is what the store says of it.  Under these conditions, which
   the runs about lost failures show to be necessary, the threshold of failures
   opens a circuit and the store follows the promised lifecycle. *)

(* The circuit of an entry of the record, as the lifecycle sees it. *)
Core(c) == [state |-> c.state, failures |-> c.failures, opens |-> c.opens,
            openUntil |-> c.openUntil]

(* h's snapshot still says of p what the store says. *)
Fresh(h, p) == Core(snap[h][p]) = Core(store[p])

(* An attempt that was computed from the circuit c. *)
TrueAttempt(a, c, probe) ==
  \/ a.success /\ ~a.eligible
  \/ a.action = "closed" /\ ~a.success /\ ~a.eligible
  \/ /\ a.action = "none" /\ ~a.success /\ ~a.eligible
     /\ a.state = c.state /\ a.failures = c.failures /\ a.opens = c.opens
     /\ a.openUntil = 0
  \/ /\ ~a.success /\ a.eligible /\ Core(a) = Core(FailedRuntime(c, probe))
     /\ a.action = IF ~Opens(c, probe) THEN "none"
                   ELSE IF probe THEN "reopened" ELSE "opened"

SoloHandler(h) ==
  /\ InStore(h) => loaded[h] = store
  /\ pc[h] = "route" => \A p \in Providers : Fresh(h, p)
  /\ \A p \in todo[h] : Fresh(h, p)
  /\ pc[h] = "claim" => \A p \in claims[h] \cup {target[h]} : Fresh(h, p)
  /\ pc[h] = "call" => Fresh(h, target[h])
  /\ pc[h] \in {"call", "record"} =>
       store[target[h]].state = IF claimedAt[h] = 0 THEN "closed" ELSE "half-open"
  /\ pc[h] = "record" => TrueAttempt(attempt[h], store[target[h]], claimedAt[h] # 0)

(* A closed circuit has counted every failure, and not too many. *)
Counted(p) ==
  store[p].state = "closed" =>
    streak[p] <= store[p].failures /\ store[p].failures < Threshold

SoloInv ==
  /\ \A h \in Handlers : SoloHandler(h)
  /\ \A p \in Providers : Counted(p)

OneHandler == \A g, h \in Handlers : g = h

LEMMA SoloInit == Init => SoloInv
<1> SUFFICES ASSUME Init PROVE SoloInv
  OBVIOUS
<1>1. \A h \in Handlers : SoloHandler(h)
  BY DEF Init, SoloHandler, InStore
<1>2. \A p \in Providers : Counted(p)
  BY ThresholdAssumption DEF Init, Counted, InitialStats
<1>3. QED
  BY <1>1, <1>2 DEF SoloInv

(* The abstract circuits change as the stored entry does. *)
Circuits == [p \in Providers |->
               [state |-> store[p].state, failures |-> store[p].failures,
                opens |-> store[p].opens, openUntil |-> store[p].openUntil]]

LEMMA CircuitChanged ==
  ASSUME NEW p \in Providers, NEW d, store \in [Providers -> Stats],
         store' = [store EXCEPT ![p] = d]
  PROVE  /\ Circuits' = [Circuits EXCEPT ![p] = Core(d)]
         /\ Circuits[p] = Core(store[p])
<1>1. \A q \in Providers : store'[q] = IF q = p THEN d ELSE store[q]
  OBVIOUS
<1>2. \A q \in Providers : Circuits'[q] = IF q = p THEN Core(d) ELSE Circuits[q]
  BY <1>1 DEF Circuits, Core
<1>3. QED
  BY <1>2 DEF Circuits, Core

(* Which change of an entry is a step of the lifecycle. *)
Allowed(c, d) ==
  \/ Core(d) = Core(c)
  \/ Core(d) = Lifecycle!Closed
  \/ /\ c.state = "closed" /\ c.failures + 1 < Threshold
     /\ Core(d) = [Core(c) EXCEPT !.failures = @ + 1]
  \/ /\ c.state = "closed" /\ c.failures + 1 = Threshold
     /\ Core(d) = Lifecycle!Opened(Core(c), Threshold)
  \/ /\ c.state = "open" /\ c.openUntil <= now
     /\ Core(d) = [Core(c) EXCEPT !.state = "half-open"]
  \/ /\ c.state = "half-open"
     /\ Core(d) = Lifecycle!Opened(Core(c), IF c.failures + 1 < Threshold THEN Threshold
                                            ELSE c.failures + 1)
  \/ Core(d) = [Core(c) EXCEPT !.state = "open", !.openUntil = now - 1]

LEMMA AllowedStep ==
  ASSUME NEW p \in Providers, NEW d, store \in [Providers -> Stats],
         store' = [store EXCEPT ![p] = d], Allowed(store[p], d), now' = now
  PROVE  [Lifecycle!Next]_<<now, Circuits>>
<1>1. Circuits' = [Circuits EXCEPT ![p] = Core(d)] /\ Circuits[p] = Core(store[p])
  BY CircuitChanged
<1>2. /\ Core(store[p]).state = store[p].state
      /\ Core(store[p]).failures = store[p].failures
      /\ Core(store[p]).openUntil = store[p].openUntil
  BY DEF Core
<1>3. CASE Core(d) = Core(store[p])
  <2>1. Circuits' = Circuits
    BY <1>1, <1>3 DEF Circuits
  <2>2. QED
    BY <2>1
<1>4. ASSUME Core(d) = Lifecycle!Closed PROVE Lifecycle!OperatorReset(p)
  BY <1>1, <1>4 DEF Lifecycle!OperatorReset, Lifecycle!Becomes, Circuits
<1>5. ASSUME store[p].state = "closed", store[p].failures + 1 < Threshold,
             Core(d) = [Core(store[p]) EXCEPT !.failures = @ + 1]
      PROVE  Lifecycle!CountFailure(p)
  BY <1>1, <1>2, <1>5 DEF Lifecycle!CountFailure, Lifecycle!Becomes, Circuits
<1>6. ASSUME store[p].state = "closed", store[p].failures + 1 = Threshold,
             Core(d) = Lifecycle!Opened(Core(store[p]), Threshold)
      PROVE  Lifecycle!OpenCircuit(p)
  BY <1>1, <1>2, <1>6 DEF Lifecycle!OpenCircuit, Lifecycle!Becomes, Circuits
<1>7. ASSUME store[p].state = "open", store[p].openUntil <= now,
             Core(d) = [Core(store[p]) EXCEPT !.state = "half-open"]
      PROVE  Lifecycle!StartProbe(p)
  BY <1>1, <1>2, <1>7 DEF Lifecycle!StartProbe, Lifecycle!Becomes, Circuits
<1>8. ASSUME store[p].state = "half-open",
             Core(d) = Lifecycle!Opened(Core(store[p]),
                         IF store[p].failures + 1 < Threshold THEN Threshold
                         ELSE store[p].failures + 1)
      PROVE  Lifecycle!ProbeFails(p)
  BY <1>1, <1>2, <1>8 DEF Lifecycle!ProbeFails, Lifecycle!Becomes, Circuits
<1>9. ASSUME Core(d) = [Core(store[p]) EXCEPT !.state = "open", !.openUntil = now - 1]
      PROVE  Lifecycle!OperatorRetry(p)
  BY <1>1, <1>9 DEF Lifecycle!OperatorRetry, Lifecycle!Becomes, Circuits
<1>10. QED
  BY <1>3, <1>4, <1>5, <1>6, <1>7, <1>8, <1>9 DEF Allowed, Lifecycle!Next

(* What recording an attempt does to the circuit it was computed from. *)
LEMMA WindowIs ==
  ASSUME NEW n \in Nat
  PROVE  OpenFor(n + 1) = Lifecycle!Window(n + 1)
  BY TimingAssumption DEF OpenFor, Lifecycle!Window

LEMMA CoreUpdated ==
  ASSUME NEW c \in Stats, NEW a \in Attempts
  PROVE  /\ a.success => Core(UpdateStats(c, a)) = Lifecycle!Closed
         /\ ~a.success /\ a.action = "closed" => Core(UpdateStats(c, a)) = Lifecycle!Closed
         /\ ~a.success /\ a.action = "none" =>
              Core(UpdateStats(c, a)) =
                [Core(a) EXCEPT !.openUntil = Given(a.openUntil, c.openUntil)]
         /\ ~a.success /\ a.action \in {"opened", "reopened"} =>
              Core(UpdateStats(c, a)) =
                [Core(a) EXCEPT !.state = "open", !.openUntil = Given(a.openUntil, c.openUntil)]
<1> DEFINE f == FailedStats(c, a)
<1>1. Core(f) = [Core(a) EXCEPT !.openUntil = Given(a.openUntil, c.openUntil)]
  BY DEF FailedStats, Core, Stats
<1>2. f \in Stats
  BY FailedStatsFacts
<1> HIDE DEF f
<1>3. /\ Core(InitialStats) = Lifecycle!Closed
      /\ Core(ClosedCircuit(f)) = Lifecycle!Closed
  BY DEF Core, InitialStats, ClosedCircuit, Lifecycle!Closed
<1>4. Core([f EXCEPT !.state = "open", !.active = FALSE, !.startedAt = 0])
        = [Core(f) EXCEPT !.state = "open"]
  BY <1>2 DEF Core, Stats
<1>5. CASE a.success
  BY <1>3, <1>5 DEF UpdateStats
<1>6. CASE ~a.success /\ a.action = "closed"
  BY <1>3, <1>6 DEF UpdateStats, f
<1>7. CASE ~a.success /\ a.action = "none"
  BY <1>1, <1>7 DEF UpdateStats, f
<1>8. CASE ~a.success /\ a.action \in {"opened", "reopened"}
  <2>1. UpdateStats(c, a) = [f EXCEPT !.state = "open", !.active = FALSE, !.startedAt = 0]
    BY <1>8 DEF UpdateStats, f
  <2>2. [Core(f) EXCEPT !.state = "open"] =
          [Core(a) EXCEPT !.state = "open", !.openUntil = Given(a.openUntil, c.openUntil)]
    BY <1>1 DEF Core
  <2>3. QED
    BY <1>4, <1>8, <2>1, <2>2
<1>9. QED
  BY <1>5, <1>6, <1>7, <1>8 DEF Attempts

LEMMA FailedCore ==
  ASSUME TypeOK, NEW c \in Stats, NEW probe \in BOOLEAN
  PROVE  LET d == FailedRuntime(c, probe) IN
         /\ Opens(c, probe) =>
              /\ Core(d) = Lifecycle!Opened(Core(c), FailureCount(c, probe))
              /\ d.openUntil # 0
         /\ ~Opens(c, probe) => Core(d) = [Core(c) EXCEPT !.failures = FailureCount(c, probe)]
<1> DEFINE d == FailedRuntime(c, probe)
<1>1. c.opens \in Nat /\ OpenFor(c.opens + 1) = Lifecycle!Window(c.opens + 1)
  BY WindowIs DEF Stats
<1>2. CASE Opens(c, probe)
  <2>1. Core(d) = [state |-> "open", failures |-> FailureCount(c, probe),
                   opens |-> c.opens + 1, openUntil |-> now + OpenFor(c.opens + 1)]
    BY <1>2 DEF FailedRuntime, Core, Stats
  <2>2. Core(c).opens = c.opens
    BY DEF Core
  <2>3. d.openUntil > now + ProbeHold
    BY <1>2, FailedRuntimeFacts
  <2> HIDE DEF d
  <2>4. d.openUntil # 0
    BY <2>3, TimingAssumption DEF TypeOK
  <2>5. Core(d) = Lifecycle!Opened(Core(c), FailureCount(c, probe))
    BY <1>1, <2>1, <2>2 DEF Lifecycle!Opened
  <2>6. QED
    BY <1>2, <2>4, <2>5 DEF d
<1>3. CASE ~Opens(c, probe)
  BY <1>3 DEF FailedRuntime, Core, Stats
<1>4. QED
  BY <1>2, <1>3

(* The outcome of a request that knew the circuit is a step of the lifecycle. *)
LEMMA RecordAllowed ==
  ASSUME TypeOK, NEW c \in Stats, NEW a \in Attempts, NEW probe \in BOOLEAN,
         TrueAttempt(a, c, probe),
         c.state = IF probe THEN "half-open" ELSE "closed",
         probe \/ c.failures < Threshold,
         NEW n \in Nat, c.state = "closed" => n <= c.failures
  PROVE  /\ Allowed(c, UpdateStats(c, a))
         /\ UpdateStats(c, a).state = "closed" =>
              /\ UpdateStats(c, a).failures < Threshold
              /\ (IF a.eligible THEN CountFailure(n)
                  ELSE IF a.success \/ a.action = "closed" THEN 0 ELSE n)
                   <= UpdateStats(c, a).failures
<1> DEFINE u == UpdateStats(c, a)
           d == FailedRuntime(c, probe)
           count == FailureCount(c, probe)
           m == IF a.eligible THEN CountFailure(n)
                ELSE IF a.success \/ a.action = "closed" THEN 0 ELSE n
<1>0. u.state = Core(u).state /\ u.failures = Core(u).failures
  BY DEF Core
<1>c. c.failures \in Nat /\ c.openUntil \in Nat /\ Threshold \in Nat \ {0}
      /\ Core(c).state = c.state /\ Core(c).failures = c.failures
  BY ThresholdAssumption DEF Stats, Core
<1> HIDE DEF u, d, m
<1>1. CASE Core(u) = Lifecycle!Closed /\ ~a.eligible /\ (a.success \/ a.action = "closed")
  <2>1. m = 0 /\ u.failures = 0
    BY <1>0, <1>1 DEF Lifecycle!Closed, m
  <2>2. QED
    BY <1>1, <1>c, <2>1 DEF Allowed, u, m
<1>2. CASE a.success /\ ~a.eligible
  BY <1>1, <1>2, CoreUpdated DEF u
<1>3. CASE a.action = "closed" /\ ~a.success /\ ~a.eligible
  BY <1>1, <1>3, CoreUpdated DEF u
<1>4. CASE /\ a.action = "none" /\ ~a.success /\ ~a.eligible
           /\ a.state = c.state /\ a.failures = c.failures /\ a.opens = c.opens
           /\ a.openUntil = 0
  <2>1. Core(u) = [Core(a) EXCEPT !.openUntil = Given(a.openUntil, c.openUntil)]
    BY <1>4, CoreUpdated DEF u
  <2>2. Core(u) = Core(c)
    BY <1>4, <2>1 DEF Core, Given
  <2>3. m = n
    BY <1>4 DEF m
  <2>4. u.state = c.state /\ u.failures = c.failures
    BY <1>0, <1>c, <2>2
  <2>5. QED
    BY <1>c, <2>2, <2>3, <2>4 DEF Allowed, u, m
<1>5. CASE /\ ~a.success /\ a.eligible /\ Core(a) = Core(d)
           /\ a.action = IF ~Opens(c, probe) THEN "none"
                         ELSE IF probe THEN "reopened" ELSE "opened"
  <2>0. m = CountFailure(n) /\ a.openUntil = Core(a).openUntil
        /\ d.openUntil = Core(d).openUntil
    BY <1>5 DEF m, Core
  <2>1. CASE Opens(c, probe)
    <3>1. /\ Core(d) = Lifecycle!Opened(Core(c), count) /\ d.openUntil # 0
      BY <2>1, FailedCore DEF d
    <3>2. a.openUntil = d.openUntil
      BY <1>5, <2>0
    <3>3. Given(a.openUntil, c.openUntil) = Core(d).openUntil
      BY <2>0, <3>1, <3>2 DEF Given
    <3>4. Core(u) = [Core(a) EXCEPT !.state = "open", !.openUntil = Given(a.openUntil, c.openUntil)]
      BY <1>5, <2>1, CoreUpdated DEF u
    <3>5. Core(u) = [Core(d) EXCEPT !.state = "open", !.openUntil = Core(d).openUntil]
      BY <1>5, <3>3, <3>4
    <3>a. Core(d) = [state |-> "open", failures |-> Core(d).failures,
                     opens |-> Core(d).opens, openUntil |-> Core(d).openUntil]
      BY <3>1 DEF Lifecycle!Opened
    <3>b. Core(u) = Core(d)
      <4> DEFINE r == Core(d)
      <4>1. r = [state |-> "open", failures |-> r.failures, opens |-> r.opens,
                 openUntil |-> r.openUntil]
        BY <3>a
      <4>2. Core(u) = [r EXCEPT !.state = "open", !.openUntil = r.openUntil]
        BY <3>5
      <4> HIDE DEF r
      <4>3. Core(u) = r
        BY <4>1, <4>2
      <4>4. QED
        BY <4>3 DEF r
    <3>6. Core(u) = Lifecycle!Opened(Core(c), count)
      BY <3>1, <3>b
    <3>7. u.state = "open"
      BY <1>0, <3>6 DEF Lifecycle!Opened
    <3>8. CASE probe
      <4>1. count = IF c.failures + 1 < Threshold THEN Threshold ELSE c.failures + 1
        BY <3>8 DEF FailureCount
      <4>2. QED
        BY <3>6, <3>7, <3>8, <4>1 DEF Allowed, u
    <3>9. CASE ~probe
      <4>1. count = c.failures + 1 /\ count >= Threshold
        BY <2>1, <3>9 DEF FailureCount, Opens
      <4>2. count = Threshold
        BY <1>c, <3>9, <4>1
      <4>3. QED
        BY <3>6, <3>7, <3>9, <4>1, <4>2 DEF Allowed, u
    <3>10. QED
      BY <3>8, <3>9
  <2>2. CASE ~Opens(c, probe)
    <3>1. /\ Core(d) = [Core(c) EXCEPT !.failures = count] /\ ~probe
          /\ count = c.failures + 1 /\ count < Threshold
      BY <1>c, <2>2, FailedCore DEF d, Opens, FailureCount
    <3>2. Core(d).openUntil = c.openUntil
      BY <3>1 DEF Core
    <3>3. Given(a.openUntil, c.openUntil) = c.openUntil
      BY <1>5, <2>0, <3>2 DEF Given
    <3>4. Core(u) = [Core(a) EXCEPT !.openUntil = Given(a.openUntil, c.openUntil)]
      BY <1>5, <2>2, CoreUpdated DEF u
    <3>5. Core(u) = [Core(c) EXCEPT !.failures = @ + 1]
      BY <1>5, <1>c, <3>1, <3>3, <3>4 DEF Core
    <3>6. u.failures = c.failures + 1
      BY <1>0, <1>c, <3>5 DEF Core
    <3>7. m <= c.failures + 1
      BY <1>c, <2>0, <3>1 DEF CountFailure
    <3>8. QED
      BY <3>1, <3>5, <3>6, <3>7 DEF Allowed, u, m
  <2>3. QED
    BY <2>1, <2>2
<1>6. QED
  BY <1>2, <1>3, <1>4, <1>5 DEF TrueAttempt, d

-----------------------------------------------------------------------------
(* One entry of the record is written back. *)
LEMMA EntryWritten ==
  ASSUME TypeOK, SoloInv, NEW h \in Handlers, InStore(h), NEW p \in Providers, NEW d,
         Save(h, [loaded[h] EXCEPT ![p] = d])
  PROVE  /\ store' = [store EXCEPT ![p] = d] /\ loaded[h] = store
         /\ ~InStore(h)'
         /\ \A q \in Providers : q # p => store'[q] = store[q]
         /\ store'[p] = d
<1>1. loaded[h] = store /\ store \in [Providers -> Stats]
  BY DEF SoloInv, SoloHandler, TypeOK
<1>2. store' = [store EXCEPT ![p] = d]
  BY <1>1 DEF Save
<1>3. ~InStore(h)'
  BY DEF Save, InStore, TypeOK
<1>4. QED
  BY <1>1, <1>2, <1>3

LEMMA RecordRewritten ==
  ASSUME TypeOK, SoloInv, NEW h \in Handlers, InStore(h), Save(h, loaded[h])
  PROVE  store' = store /\ ~InStore(h)'
  BY DEF SoloInv, SoloHandler, TypeOK, Save, InStore

(* A handler that moves on with what it knows. *)
LEMMA SoloMoves ==
  ASSUME TypeOK, NEW h \in Handlers, NEW R \in SUBSET Providers, NEW C \in SUBSET Providers,
         NextCandidate(h, R, C) \/ Finish(h),
         InStore(h)' => loaded'[h] = store',
         \A p \in R \cup C : Core(snap[h][p]) = Core(store'[p]),
         \A p \in C : store'[p].state = "closed"
  PROVE  SoloHandler(h)'
<1>1. CASE Finish(h)
  <2>1. pc'[h] = "idle" /\ todo'[h] = {}
    BY <1>1, FinishFields
  <2>2. QED
    BY <2>1 DEF SoloHandler
<1>2. CASE \E p \in R :
             /\ pc' = [pc EXCEPT ![h] = "claim"]
             /\ target' = [target EXCEPT ![h] = p]
             /\ claims' = [claims EXCEPT ![h] = R \ {p}]
             /\ todo' = [todo EXCEPT ![h] = C]
             /\ UNCHANGED snap
  <2>1. PICK p \in R :
          /\ pc'[h] = "claim" /\ target'[h] = p /\ claims'[h] = R \ {p}
          /\ todo'[h] = C /\ snap' = snap
    BY <1>2 DEF TypeOK
  <2>2. \A q \in R \cup C : Fresh(h, q)'
    BY <2>1 DEF Fresh
  <2>3. QED
    BY <2>1, <2>2 DEF SoloHandler
<1>3. CASE \E p \in C :
             /\ pc' = [pc EXCEPT ![h] = "call"]
             /\ target' = [target EXCEPT ![h] = p]
             /\ todo' = [todo EXCEPT ![h] = C \ {p}]
             /\ claimedAt' = [claimedAt EXCEPT ![h] = 0]
             /\ UNCHANGED snap
  <2>1. PICK p \in C :
          /\ pc'[h] = "call" /\ target'[h] = p /\ claimedAt'[h] = 0
          /\ todo'[h] = C \ {p} /\ snap' = snap
    BY <1>3 DEF TypeOK
  <2>2. \A q \in C : Fresh(h, q)'
    BY <2>1 DEF Fresh
  <2>3. QED
    BY <2>1, <2>2 DEF SoloHandler
<1>4. QED
  BY <1>1, <1>2, <1>3 DEF NextCandidate

SoloStepGoal == SoloInv' /\ [Lifecycle!Next]_<<now, Circuits>>

(* A step that leaves the store alone. *)
LEMMA StoreLeft ==
  ASSUME OneHandler, SoloInv, NEW h \in Handlers, SoloHandler(h)',
         store' = store, now' = now, streak' = streak
  PROVE  SoloStepGoal
<1>1. \A p \in Providers : Counted(p)'
  BY DEF SoloInv, Counted
<1>2. \A g \in Handlers : SoloHandler(g)'
  BY DEF OneHandler
<1>3. Circuits' = Circuits
  BY DEF Circuits
<1>4. QED
  BY <1>1, <1>2, <1>3 DEF SoloStepGoal, SoloInv

(* A step that changes one entry as the lifecycle does. *)
LEMMA EntryChanged ==
  ASSUME OneHandler, TypeOK, SoloInv, NEW h \in Handlers, SoloHandler(h)',
         NEW p \in Providers, NEW d, store' = [store EXCEPT ![p] = d],
         Allowed(store[p], d), now' = now,
         \A q \in Providers \ {p} : streak'[q] = streak[q],
         d.state = "closed" => streak'[p] <= d.failures /\ d.failures < Threshold
  PROVE  SoloStepGoal
<1>1. \A q \in Providers : Counted(q)'
  <2>1. \A q \in Providers : store'[q] = IF q = p THEN d ELSE store[q]
    BY DEF TypeOK
  <2>2. QED
    BY <2>1 DEF SoloInv, Counted
<1>2. \A g \in Handlers : SoloHandler(g)'
  BY DEF OneHandler
<1>3. [Lifecycle!Next]_<<now, Circuits>>
  BY AllowedStep DEF TypeOK
<1>4. QED
  BY <1>1, <1>2, <1>3 DEF SoloStepGoal, SoloInv

(* What is left to do was closed in the snapshot, and still is. *)
LEMMA LeftClosed ==
  ASSUME CoherentInv, SoloInv, NEW h \in Handlers
  PROVE  /\ todo[h] \in SUBSET Providers /\ claims[h] \in SUBSET Providers
         /\ \A p \in todo[h] : Core(snap[h][p]) = Core(store[p]) /\ store[p].state = "closed"
<1>1. todo[h] \in SUBSET Providers /\ claims[h] \in SUBSET Providers
  BY DEF CoherentInv, TypeOK
<1>2. ASSUME NEW p \in todo[h]
      PROVE  Core(snap[h][p]) = Core(store[p]) /\ store[p].state = "closed"
  <2>1. Core(snap[h][p]) = Core(store[p]) /\ snap[h][p].state = "closed"
    BY DEF SoloInv, SoloHandler, Fresh, CoherentInv, HandlerInv
  <2>2. Core(snap[h][p]).state = snap[h][p].state /\ Core(store[p]).state = store[p].state
    BY DEF Core
  <2>3. QED
    BY <2>1, <2>2
<1>3. QED
  BY <1>1, <1>2

LEMMA SoloRoute ==
  ASSUME CoherentInv, SoloInv, NEW h \in Handlers, Route(h)
  PROVE  SoloHandler(h)'
<1>1. PICK eligible \in IF job[h] = "retry" THEN {{target[h]}} ELSE SUBSET Providers :
        LET free == {p \in eligible : snap[h][p].cooldownUntil <= now}
            closed == {p \in free : snap[h][p].state = "closed"}
            recoverable ==
              {p \in free : \/ snap[h][p].state = "half-open"
                            \/ /\ snap[h][p].state = "open"
                               /\ snap[h][p].openUntil <= now}
        IN NextCandidate(h, recoverable, closed)
  BY DEF Route
<1>2. eligible \in SUBSET Providers
  BY <1>1 DEF CoherentInv, HandlerInv
<1>3. PICK R \in SUBSET Providers, C \in SUBSET Providers :
        NextCandidate(h, R, C) /\ \A p \in C : snap[h][p].state = "closed"
  BY <1>1, <1>2
<1>4. pc[h] = "route" /\ store' = store /\ loaded' = loaded
  BY DEF Route
<1>5. \A p \in Providers : Core(snap[h][p]) = Core(store[p])
  BY <1>4 DEF SoloInv, SoloHandler, Fresh
<1>6. \A p \in C : store[p].state = "closed"
  <2>1. \A p \in Providers : snap[h][p].state = store[p].state
    BY <1>5 DEF Core
  <2>2. QED
    BY <1>3, <2>1
<1>7. InStore(h)' => loaded'[h] = store'
  BY <1>4 DEF SoloInv, SoloHandler, InStore
<1>8. QED
  BY <1>3, <1>4, <1>5, <1>6, <1>7, SoloMoves DEF CoherentInv

LEMMA SoloAbandon ==
  ASSUME CoherentInv, SoloInv, NEW h \in Handlers, Abandon(h)
  PROVE  SoloHandler(h)'
<1>1. store' = store /\ loaded' = loaded /\ (NextCandidate(h, {}, todo[h]) \/ Finish(h))
  BY DEF Abandon
<1>2. InStore(h)' => loaded'[h] = store'
  BY <1>1 DEF SoloInv, SoloHandler, InStore
<1>3. /\ {} \in SUBSET Providers /\ todo[h] \in SUBSET Providers /\ TypeOK
      /\ \A p \in {} \cup todo[h] : Core(snap[h][p]) = Core(store'[p])
      /\ \A p \in todo[h] : store'[p].state = "closed"
  BY <1>1, LeftClosed DEF CoherentInv
<1>4. QED
  BY <1>1, <1>2, <1>3, SoloMoves

(* Granted, the claim makes the circuit half-open in the store and the snapshot. *)
LEMMA SoloGrant ==
  ASSUME OneHandler, CoherentInv, SoloInv, NEW h \in Handlers, SaveClaim(h),
         NEW p, p = target[h], ClaimGranted(loaded[h][p])
  PROVE  SoloStepGoal
<1> DEFINE c == store[p]
           s == [snap[h][p] EXCEPT !.state = "half-open", !.active = TRUE]
<1>0. TypeOK /\ HandlerInv(h) /\ SoloHandler(h) /\ pc[h] = "claim" /\ InStore(h) /\ p \in Providers
  BY DEF CoherentInv, SoloInv, SaveClaim, HandlerInv
<1>1. /\ Save(h, [loaded[h] EXCEPT ![p] = Claimed(loaded[h][p])])
      /\ snap' = [snap EXCEPT ![h] = [snap[h] EXCEPT ![p] = s]]
      /\ claimedAt' = [claimedAt EXCEPT ![h] = now] /\ pc' = [pc EXCEPT ![h] = "call"]
      /\ UNCHANGED <<target, todo, now, streak>>
  BY DEF SaveClaim
<1>2. /\ loaded[h] = store /\ store' = [store EXCEPT ![p] = Claimed(c)] /\ ~InStore(h)'
      /\ \A q \in Providers : q # p => store'[q] = store[q]
      /\ store'[p] = Claimed(c)
  <2> DEFINE d == Claimed(loaded[h][p])
  <2>1. Save(h, [loaded[h] EXCEPT ![p] = d])
    BY <1>1
  <2> HIDE DEF d
  <2>2. /\ loaded[h] = store /\ store' = [store EXCEPT ![p] = d] /\ ~InStore(h)'
        /\ \A q \in Providers : q # p => store'[q] = store[q]
        /\ store'[p] = d
    BY <1>0, <2>1, EntryWritten
  <2>3. d = Claimed(c)
    BY <2>2 DEF d
  <2>4. QED
    BY <2>2, <2>3
<1>3. c \in Stats /\ snap[h][p] \in Stats /\ now \in Nat \ {0} /\ Core(snap[h][p]) = Core(c)
  BY <1>0 DEF TypeOK, SoloHandler, Fresh
<1> HIDE DEF s
<1>4. Core(Claimed(c)) = [Core(c) EXCEPT !.state = "half-open"] /\ Claimed(c).state = "half-open"
  BY <1>3 DEF Claimed, Core, Stats
<1>5. Core(s) = [Core(snap[h][p]) EXCEPT !.state = "half-open"]
  BY <1>3 DEF s, Core, Stats
<1>6. /\ pc'[h] = "call" /\ claimedAt'[h] # 0 /\ target'[h] = p /\ todo'[h] = todo[h]
      /\ snap'[h][p] = s /\ \A q \in Providers : q # p => snap'[h][q] = snap[h][q]
  BY <1>0, <1>1, <1>3 DEF TypeOK
<1>7. \A q \in todo[h] : q \in Providers /\ q # p
  BY <1>0 DEF HandlerInv, TypeOK
<1>8. SoloHandler(h)'
  <2>1. Fresh(h, p)'
    BY <1>2, <1>3, <1>4, <1>5, <1>6 DEF Fresh
  <2>2. \A q \in todo[h] : Fresh(h, q)'
    BY <1>0, <1>2, <1>6, <1>7 DEF Fresh, SoloHandler
  <2>3. QED
    BY <1>2, <1>4, <1>6, <2>1, <2>2 DEF SoloHandler
<1>9. Allowed(c, Claimed(c))
  <2>1. ClaimGranted(c)
    BY <1>2
  <2>2. CASE c.state = "half-open"
    <3>1. Core(Claimed(c)) = Core(c)
      BY <1>4, <2>2 DEF Core
    <3>2. QED
      BY <3>1 DEF Allowed
  <2>3. CASE c.state = "open" /\ c.openUntil <= now
    BY <1>4, <2>3 DEF Allowed
  <2>4. c.openUntil \in Nat /\ c.state \in {"closed", "open", "half-open"}
    BY <1>3 DEF Stats, CircuitStates
  <2>5. QED
    BY <1>3, <2>1, <2>2, <2>3, <2>4 DEF ClaimGranted
<1>10. QED
  BY <1>0, <1>1, <1>2, <1>4, <1>8, <1>9, EntryChanged

LEMMA SoloRefused ==
  ASSUME OneHandler, CoherentInv, SoloInv, NEW h \in Handlers, SaveClaim(h),
         ~ClaimGranted(loaded[h][target[h]])
  PROVE  SoloStepGoal
<1>1. /\ Save(h, loaded[h]) /\ NextCandidate(h, claims[h], todo[h]) /\ InStore(h)
      /\ pc[h] = "claim" /\ now' = now /\ streak' = streak
  BY DEF SaveClaim
<1>2. store' = store /\ ~InStore(h)'
  BY <1>1, RecordRewritten DEF CoherentInv
<1>3. \A p \in claims[h] : Core(snap[h][p]) = Core(store[p])
  BY <1>1 DEF SoloInv, SoloHandler, Fresh
<1>4. SoloHandler(h)'
  BY <1>1, <1>2, <1>3, LeftClosed, SoloMoves DEF CoherentInv
<1>5. QED
  BY <1>1, <1>2, <1>4, StoreLeft

(* The end of a call: an attempt is emitted, the store is as it was. *)
LEMMA SoloEmit ==
  ASSUME CoherentInv, SoloInv, NEW h \in Handlers, pc[h] = "call", NEW p, p = target[h],
         NEW a, NEW d, Emit(h, a), snap' = [snap EXCEPT ![h] = [snap[h] EXCEPT ![p] = d]],
         UNCHANGED <<now, store, loaded, claimedAt>>,
         TrueAttempt(a, store[p], claimedAt[h] # 0)
  PROVE  SoloHandler(h)'
<1>0. TypeOK /\ HandlerInv(h) /\ SoloHandler(h) /\ p \in Providers
  BY DEF CoherentInv, SoloInv, HandlerInv
<1>1. /\ pc'[h] = "record" /\ attempt'[h] = a /\ target'[h] = p /\ todo'[h] = todo[h]
      /\ \A q \in Providers : q # p => snap'[h][q] = snap[h][q]
  BY <1>0 DEF Emit, TypeOK
<1>2. \A q \in todo[h] : q \in Providers /\ q # p
  BY <1>0 DEF HandlerInv, TypeOK
<1>3. \A q \in todo[h] : Fresh(h, q)'
  BY <1>0, <1>1, <1>2 DEF SoloHandler, Fresh
<1>4. (InStore(h) => loaded[h] = store)'
  BY <1>0 DEF SoloHandler, InStore
<1>5. store'[p].state = IF claimedAt'[h] = 0 THEN "closed" ELSE "half-open"
  BY <1>0 DEF SoloHandler
<1>6. TrueAttempt(attempt[h], store[target[h]], claimedAt[h] # 0)'
  BY <1>1 DEF TrueAttempt, FailedRuntime, Opens, FailureCount
<1>7. QED
  BY <1>1, <1>3, <1>4, <1>5, <1>6 DEF SoloHandler

LEMMA SameCircuit ==
  ASSUME TypeOK, NEW c \in Stats, NEW d \in Stats, Core(c) = Core(d), NEW probe \in BOOLEAN
  PROVE  /\ c.state = d.state /\ c.failures = d.failures /\ c.opens = d.opens
         /\ Opens(c, probe) = Opens(d, probe)
         /\ Core(FailedRuntime(c, probe)) = Core(FailedRuntime(d, probe))
<1>1. c.state = d.state /\ c.failures = d.failures /\ c.opens = d.opens
  BY DEF Core
<1>2. FailureCount(c, probe) = FailureCount(d, probe)
  BY <1>1 DEF FailureCount
<1>3. Opens(c, probe) = Opens(d, probe)
  BY <1>2 DEF Opens
<1>4. CASE Opens(c, probe)
  <2>1. Core(FailedRuntime(c, probe)) = Lifecycle!Opened(Core(c), FailureCount(c, probe))
    BY <1>4, FailedCore
  <2>2. Core(FailedRuntime(d, probe)) = Lifecycle!Opened(Core(d), FailureCount(d, probe))
    BY <1>3, <1>4, FailedCore
  <2>3. QED
    BY <1>1, <1>2, <1>3, <2>1, <2>2
<1>5. CASE ~Opens(c, probe)
  <2>1. Core(FailedRuntime(c, probe)) = [Core(c) EXCEPT !.failures = FailureCount(c, probe)]
    BY <1>5, FailedCore
  <2>2. Core(FailedRuntime(d, probe)) = [Core(d) EXCEPT !.failures = FailureCount(d, probe)]
    BY <1>3, <1>5, FailedCore
  <2>3. QED
    BY <1>1, <1>2, <1>3, <2>1, <2>2
<1>6. QED
  BY <1>1, <1>3, <1>4, <1>5

LEMMA SoloCall ==
  ASSUME CoherentInv, SoloInv, NEW h \in Handlers,
         Succeed(h) \/ Fail(h) \/ RateLimit(h) \/ Reject(h)
  PROVE  SoloHandler(h)'
<1>1. PICK p : p = target[h]
  OBVIOUS
<1> DEFINE c == snap[h][p]
           probe == claimedAt[h] # 0
<1>0. /\ TypeOK /\ HandlerInv(h) /\ SoloHandler(h) /\ pc[h] = "call" /\ p \in Providers
      /\ UNCHANGED <<now, store, loaded, claimedAt>>
  BY <1>1 DEF CoherentInv, SoloInv, HandlerInv, Succeed, Fail, RateLimit, Reject
<1>2. c \in Stats /\ store[p] \in Stats /\ Core(c) = Core(store[p]) /\ probe \in BOOLEAN
  BY <1>0, <1>1 DEF TypeOK, SoloHandler, Fresh
<1>3. /\ c.state = store[p].state /\ c.failures = store[p].failures /\ c.opens = store[p].opens
      /\ Opens(c, probe) = Opens(store[p], probe)
      /\ Core(FailedRuntime(c, probe)) = Core(FailedRuntime(store[p], probe))
  BY <1>0, <1>2, SameCircuit
<1>4. CASE Succeed(h)
  <2>1. TrueAttempt([NoAttempt EXCEPT !.success = TRUE], store[p], probe)
    BY DEF TrueAttempt, NoAttempt
  <2>2. QED
    BY <1>0, <1>1, <1>4, <2>1, SoloEmit DEF Succeed
<1>5. CASE Fail(h)
  <2>1. PICK caught \in BOOLEAN : CircuitFailure(h, caught)
    BY <1>5 DEF Fail
  <2> DEFINE a == FailureAttempt(c, probe, caught)
  <2>2. /\ snap' = [snap EXCEPT ![h] = [snap[h] EXCEPT ![p] = FailedRuntime(c, probe)]]
        /\ Emit(h, a)
    BY <1>1, <2>1 DEF CircuitFailure
  <2>3. /\ a.success = FALSE /\ a.eligible = TRUE
        /\ a.action = IF ~Opens(c, probe) THEN "none" ELSE IF probe THEN "reopened" ELSE "opened"
        /\ Core(a) = Core(FailedRuntime(c, probe))
    BY DEF FailureAttempt, Core
  <2> HIDE DEF a
  <2>4. TrueAttempt(a, store[p], probe)
    BY <1>3, <2>3 DEF TrueAttempt
  <2>5. QED
    BY <1>0, <1>1, <2>2, <2>4, SoloEmit
<1>6. CASE RateLimit(h)
  <2>1. PICK len \in CooldownLengths :
          LET k == IF probe THEN ClosedCircuit(c) ELSE c
          IN /\ snap' = [snap EXCEPT ![h] =
                           [snap[h] EXCEPT ![p] = [k EXCEPT !.cooldownUntil = now + len]]]
             /\ Emit(h, [NoAttempt EXCEPT
                          !.action = IF probe THEN "closed" ELSE "none",
                          !.state = k.state, !.failures = k.failures,
                          !.opens = k.opens, !.cooldownUntil = now + len])
    BY <1>1, <1>6 DEF RateLimit
  <2> DEFINE k == IF probe THEN ClosedCircuit(c) ELSE c
             a == [NoAttempt EXCEPT
                    !.action = IF probe THEN "closed" ELSE "none",
                    !.state = k.state, !.failures = k.failures,
                    !.opens = k.opens, !.cooldownUntil = now + len]
  <2>2. /\ ~a.success /\ ~a.eligible /\ a.openUntil = 0
        /\ a.action = IF probe THEN "closed" ELSE "none"
        /\ a.state = k.state /\ a.failures = k.failures /\ a.opens = k.opens
    BY DEF NoAttempt
  <2>3. Emit(h, a) /\ \E e : snap' = [snap EXCEPT ![h] = [snap[h] EXCEPT ![p] = e]]
    BY <2>1
  <2>4. ~probe => k = c
    OBVIOUS
  <2> HIDE DEF a, k
  <2>5. TrueAttempt(a, store[p], probe)
    BY <1>3, <2>2, <2>4 DEF TrueAttempt
  <2>6. QED
    BY <1>0, <1>1, <2>3, <2>5, SoloEmit
<1>7. CASE Reject(h)
  <2> DEFINE a == [NoAttempt EXCEPT !.state = c.state, !.failures = c.failures,
                                    !.opens = c.opens]
  <2>1. Emit(h, a) /\ snap' = snap
    BY <1>1, <1>7 DEF Reject
  <2>2. /\ ~a.success /\ ~a.eligible /\ a.openUntil = 0 /\ a.action = "none"
        /\ a.state = c.state /\ a.failures = c.failures /\ a.opens = c.opens
    BY DEF NoAttempt
  <2> HIDE DEF a
  <2>3. TrueAttempt(a, store[p], probe)
    BY <1>3, <2>2 DEF TrueAttempt
  <2>4. snap' = [snap EXCEPT ![h] = [snap[h] EXCEPT ![p] = c]]
    BY <1>0, <2>1 DEF TypeOK
  <2>5. QED
    BY <1>0, <1>1, <2>1, <2>3, <2>4, SoloEmit
<1>8. QED
  BY <1>4, <1>5, <1>6, <1>7

LEMMA SoloRecord ==
  ASSUME OneHandler, CoherentInv, SoloInv, NEW h \in Handlers, SaveRecord(h)
  PROVE  SoloStepGoal
<1>1. PICK p : p = target[h]
  OBVIOUS
<1> DEFINE c == store[p]
           a == attempt[h]
           d == UpdateStats(loaded[h][p], a)
<1>0. /\ TypeOK /\ HandlerInv(h) /\ SoloHandler(h) /\ pc[h] = "record" /\ InStore(h)
      /\ p \in Providers /\ now' = now /\ p \notin todo[h]
      /\ NextCandidate(h, {}, todo[h]) \/ Finish(h)
  BY <1>1 DEF CoherentInv, SoloInv, HandlerInv, SaveRecord
<1>2. /\ Save(h, [loaded[h] EXCEPT ![p] = d])
      /\ streak' = [streak EXCEPT ![p] =
           IF a.eligible THEN CountFailure(streak[p])
           ELSE IF a.success \/ a.action = "closed" THEN 0 ELSE streak[p]]
  BY <1>1 DEF SaveRecord, SaveAttempt
<1> HIDE DEF d
<1>3. /\ store' = [store EXCEPT ![p] = d] /\ loaded[h] = store /\ ~InStore(h)'
      /\ \A q \in Providers : q # p => store'[q] = store[q]
  BY <1>0, <1>2, EntryWritten
<1>4. d = UpdateStats(c, a)
  BY <1>3 DEF d
<1>5. /\ c \in Stats /\ a \in Attempts /\ streak[p] \in Nat /\ (claimedAt[h] # 0) \in BOOLEAN
      /\ TrueAttempt(a, c, claimedAt[h] # 0)
      /\ c.state = IF claimedAt[h] # 0 THEN "half-open" ELSE "closed"
      /\ c.state = "closed" => streak[p] <= c.failures /\ c.failures < Threshold
  BY <1>0, <1>1 DEF TypeOK, SoloHandler, SoloInv, Counted
<1> HIDE DEF c, a
<1>6. /\ Allowed(c, d)
      /\ d.state = "closed" =>
           /\ d.failures < Threshold
           /\ (IF a.eligible THEN CountFailure(streak[p])
               ELSE IF a.success \/ a.action = "closed" THEN 0 ELSE streak[p]) <= d.failures
  BY <1>0, <1>4, <1>5, RecordAllowed
<1>7. /\ streak'[p] = IF a.eligible THEN CountFailure(streak[p])
                       ELSE IF a.success \/ a.action = "closed" THEN 0 ELSE streak[p]
      /\ \A q \in Providers \ {p} : streak'[q] = streak[q]
  BY <1>0, <1>2 DEF TypeOK
<1>8. SoloHandler(h)'
  <2>1. \A q \in todo[h] : q \in Providers /\ store'[q] = store[q]
    BY <1>0, <1>3 DEF TypeOK
  <2>2. /\ {} \in SUBSET Providers /\ todo[h] \in SUBSET Providers
        /\ \A q \in {} \cup todo[h] : Core(snap[h][q]) = Core(store'[q])
        /\ \A q \in todo[h] : store'[q].state = "closed"
    BY <2>1, LeftClosed
  <2>3. QED
    BY <1>0, <1>3, <2>2, SoloMoves
<1>9. QED
  BY <1>0, <1>3, <1>6, <1>7, <1>8, EntryChanged DEF c

(* The operator's jobs: reset closes, the others leave the circuit. *)
LEMMA SoloAdmin ==
  ASSUME OneHandler, CoherentInv, SoloInv, NEW h \in Handlers, SaveAdmin(h)
  PROVE  SoloStepGoal
<1>1. PICK p : p = target[h]
  OBVIOUS
<1>0. /\ TypeOK /\ pc[h] = "admin" /\ InStore(h) /\ p \in Providers /\ now' = now /\ Finish(h)
  BY <1>1 DEF CoherentInv, HandlerInv, SaveAdmin
<1>a. ASSUME ~InStore(h)' PROVE SoloHandler(h)'
  <2>1. pc'[h] = "idle" /\ todo'[h] = {}
    BY <1>0, FinishFields
  <2>2. QED
    BY <1>a, <2>1 DEF SoloHandler
<1>2. ASSUME NEW d, Save(h, [loaded[h] EXCEPT ![p] = d])
      PROVE  store' = [store EXCEPT ![p] = d] /\ loaded[h] = store /\ ~InStore(h)'
  BY <1>0, <1>2, EntryWritten
<1>3. CASE /\ Save(h, [loaded[h] EXCEPT ![p] = ClosedCircuit(loaded[h][p])])
           /\ streak' = [streak EXCEPT ![p] = 0]
  <2> DEFINE d == ClosedCircuit(loaded[h][p])
  <2>1. /\ d.state = "closed" /\ d.failures = 0 /\ Core(d) = Lifecycle!Closed
    BY DEF ClosedCircuit, InitialStats, Core, Lifecycle!Closed
  <2> HIDE DEF d
  <2>2. store' = [store EXCEPT ![p] = d] /\ ~InStore(h)'
    BY <1>2, <1>3 DEF d
  <2>3. Allowed(store[p], d) /\ 0 < Threshold
    BY <2>1, ThresholdAssumption DEF Allowed
  <2>4. streak'[p] = 0 /\ \A q \in Providers \ {p} : streak'[q] = streak[q]
    BY <1>0, <1>3 DEF TypeOK
  <2>5. streak'[p] <= d.failures /\ d.failures < Threshold
    BY <2>1, <2>3, <2>4
  <2>6. SoloHandler(h)'
    BY <1>a, <2>2
  <2>7. QED
    BY <1>0, <2>2, <2>3, <2>4, <2>5, <2>6, EntryChanged
<1>4. CASE Save(h, [loaded[h] EXCEPT ![p].cooldownUntil = 0]) /\ UNCHANGED streak
  <2> DEFINE d == [loaded[h][p] EXCEPT !.cooldownUntil = 0]
  <2>1. store' = [store EXCEPT ![p] = d] /\ loaded[h] = store /\ ~InStore(h)'
    BY <1>2, <1>4
  <2>2. store[p] \in Stats
    BY <1>0 DEF TypeOK
  <2>3. Core(d) = Core(store[p]) /\ d.state = store[p].state /\ d.failures = store[p].failures
    BY <2>1, <2>2 DEF Core, Stats
  <2> HIDE DEF d
  <2>4. Allowed(store[p], d)
    BY <2>3 DEF Allowed
  <2>5. Counted(p)
    BY <1>0 DEF SoloInv
  <2>6. QED
    BY <1>0, <1>4, <1>a, <2>1, <2>3, <2>4, <2>5, EntryChanged DEF Counted
<1>5. CASE Save(h, loaded[h]) /\ UNCHANGED streak
  <2>1. store' = store /\ ~InStore(h)'
    BY <1>0, <1>5, RecordRewritten
  <2>2. QED
    BY <1>0, <1>5, <1>a, <2>1, StoreLeft
<1>6. QED
  BY <1>1, <1>3, <1>4, <1>5 DEF SaveAdmin

LEMMA ReopenedCore ==
  ASSUME NEW c \in Stats, NEW d \in Stats, NEW t \in Nat, d.state = "open",
         d.failures = c.failures, d.opens = c.opens, d.openUntil = t
  PROVE  Core(d) = [Core(c) EXCEPT !.state = "open", !.openUntil = t]
<1> DEFINE k == Core(c)
<1>1. /\ k.failures = c.failures /\ k.opens = c.opens
      /\ k \in [state : CircuitStates, failures : Nat, opens : Nat, openUntil : Nat]
  BY DEF Core, Stats
<1>2. Core(d) \in [state : CircuitStates, failures : Nat, opens : Nat, openUntil : Nat]
      /\ Core(d).state = "open" /\ Core(d).failures = c.failures
      /\ Core(d).opens = c.opens /\ Core(d).openUntil = t
  BY DEF Core, Stats
<1> HIDE DEF k
<1>3. Core(d) = [k EXCEPT !.state = "open", !.openUntil = t]
  BY <1>1, <1>2 DEF CircuitStates
<1>4. QED
  BY <1>3 DEF k

LEMMA SoloPrepare ==
  ASSUME OneHandler, CoherentInv, SoloInv, NEW h \in Handlers, SavePrepare(h)
  PROVE  SoloStepGoal
<1>1. PICK p : p = target[h]
  OBVIOUS
<1>0. /\ TypeOK /\ HandlerInv(h) /\ pc[h] = "prepare" /\ InStore(h) /\ p \in Providers
      /\ UNCHANGED <<now, todo, streak>> /\ todo[h] = {} /\ pc'[h] = "snapshot"
  BY <1>1 DEF CoherentInv, HandlerInv, SavePrepare, request, TypeOK
<1> DEFINE d == PreparedRetry(loaded[h][p])
<1>2. Save(h, [loaded[h] EXCEPT ![p] = d])
  BY <1>1 DEF SavePrepare
<1> HIDE DEF d
<1>3. store' = [store EXCEPT ![p] = d] /\ loaded[h] = store /\ ~InStore(h)'
  BY <1>0, <1>2, EntryWritten
<1>4. d = PreparedRetry(store[p]) /\ store[p] \in Stats
  BY <1>0, <1>3 DEF d, TypeOK
<1>5. /\ d.state = "open"
      /\ Core(d) = [Core(store[p]) EXCEPT !.state = "open", !.openUntil = now - 1]
  <2> DEFINE t == now - 1
             r == [store[p] EXCEPT !.state = "open", !.openUntil = t, !.active = FALSE,
                                   !.startedAt = 0]
  <2>1. d = r
    BY <1>4 DEF PreparedRetry
  <2>2. t \in Nat
    BY <1>0 DEF TypeOK
  <2> HIDE DEF t
  <2>3. /\ r \in Stats /\ r.state = "open" /\ r.failures = store[p].failures
        /\ r.opens = store[p].opens /\ r.openUntil = t
    BY <1>4, <2>2 DEF Stats, CircuitStates
  <2> HIDE DEF r
  <2>4. Core(d) = [Core(store[p]) EXCEPT !.state = "open", !.openUntil = t]
    <3>1. /\ d \in Stats /\ d.state = "open" /\ d.failures = store[p].failures
          /\ d.opens = store[p].opens /\ d.openUntil = t
      BY <2>1, <2>3
    <3>2. store[p] \in Stats
      BY <1>4
    <3>3. QED
      BY <2>2, <3>1, <3>2, ReopenedCore
  <2>5. QED
    BY <2>1, <2>3, <2>4 DEF t
<1>6. Allowed(store[p], d)
  BY <1>5 DEF Allowed
<1>7. SoloHandler(h)'
  BY <1>0, <1>3 DEF SoloHandler
<1>8. QED
  BY <1>0, <1>3, <1>5, <1>6, <1>7, EntryChanged

LEMMA SoloArrival ==
  ASSUME CoherentInv, SoloInv, NEW h \in Handlers, Arrive(h) \/ Load(h) \/ SaveSnapshot(h)
  PROVE  SoloHandler(h)' /\ UNCHANGED <<store, now, streak>>
<1>0. TypeOK /\ HandlerInv(h) /\ SoloHandler(h)
  BY DEF CoherentInv, SoloInv
<1>1. CASE Arrive(h)
  <2>1. PICK j \in {"request", "usage"} \cup OperatorJobs : pc' = [pc EXCEPT ![h] = FirstPC(j)]
    BY <1>1 DEF Arrive
  <2>2. /\ pc'[h] \in {"prepare", "snapshot", "admin"} /\ todo'[h] = {}
        /\ UNCHANGED <<store, loaded, now, streak>>
    BY <1>0, <1>1, <2>1 DEF Arrive, FirstPC, TypeOK, HandlerInv
  <2>3. (InStore(h) => loaded[h] = store)'
    BY <1>0, <2>2 DEF SoloHandler, InStore
  <2>4. QED
    BY <2>2, <2>3 DEF SoloHandler
<1>2. CASE Load(h)
  <2>1. loaded'[h] = store /\ UNCHANGED <<now, store, pc, request, streak>>
    BY <1>0, <1>2 DEF Load, TypeOK
  <2>2. QED
    BY <1>0, <2>1 DEF SoloHandler, request, Fresh, TrueAttempt, FailedRuntime, Opens, FailureCount
<1>3. CASE SaveSnapshot(h)
  <2>1. store' = store /\ ~InStore(h)' /\ loaded[h] = store
    BY <1>0, <1>3, RecordRewritten DEF SaveSnapshot, SoloHandler
  <2>2. pc'[h] = "route" /\ snap'[h] = store /\ todo'[h] = {} /\ UNCHANGED <<now, streak>>
    BY <1>0, <1>3, <2>1 DEF SaveSnapshot, TypeOK, HandlerInv
  <2>3. QED
    BY <2>1, <2>2 DEF SoloHandler, Fresh
<1>4. QED
  BY <1>1, <1>2, <1>3

LEMMA SoloStep ==
  ASSUME OneHandler, MaxStoreErrors = 0, CoherentInv, SoloInv, [Next]_vars
  PROVE  SoloStepGoal
<1>1. CASE Tick
  <2>1. \A h \in Handlers : SoloHandler(h)'
    BY <1>1 DEF Tick, request, SoloInv, SoloHandler, InStore, Fresh
  <2>2. \A p \in Providers : Counted(p)'
    BY <1>1 DEF Tick, SoloInv, Counted
  <2>3. Lifecycle!Tick
    BY <1>1 DEF Tick, Lifecycle!Tick
  <2>4. QED
    BY <2>1, <2>2, <2>3 DEF SoloStepGoal, SoloInv, Lifecycle!Next
<1>2. CASE Crash
  <2>1. \A h \in Handlers : SoloHandler(h)'
    BY <1>2 DEF Crash, SoloHandler, InStore
  <2>2. \A p \in Providers : Counted(p)'
    BY <1>2 DEF Crash, SoloInv, Counted
  <2>3. Circuits' = Circuits /\ now' = now
    BY <1>2 DEF Crash, Circuits
  <2>4. QED
    BY <2>1, <2>2, <2>3 DEF SoloStepGoal, SoloInv
<1>3. ASSUME NEW h \in Handlers, Arrive(h) \/ Load(h) \/ SaveSnapshot(h)
      PROVE  SoloStepGoal
  BY <1>3, SoloArrival, StoreLeft
<1>4. ASSUME NEW h \in Handlers, Route(h) \/ Abandon(h)
      PROVE  SoloStepGoal
  BY <1>4, SoloRoute, SoloAbandon, StoreLeft DEF Route, Abandon
<1>5. ASSUME NEW h \in Handlers, Succeed(h) \/ Fail(h) \/ RateLimit(h) \/ Reject(h)
      PROVE  SoloStepGoal
  <2>1. UNCHANGED <<store, now, streak>>
    BY <1>5 DEF Succeed, Fail, RateLimit, Reject
  <2>2. QED
    BY <1>5, <2>1, SoloCall, StoreLeft
<1>6. ASSUME NEW h \in Handlers, SaveClaim(h)
      PROVE  SoloStepGoal
  BY <1>6, SoloGrant, SoloRefused
<1>7. ASSUME NEW h \in Handlers, SavePrepare(h) \/ SaveRecord(h) \/ SaveAdmin(h)
      PROVE  SoloStepGoal
  BY <1>7, SoloPrepare, SoloRecord, SoloAdmin
<1>8. ASSUME NEW h \in Handlers, RecordTwice(h) \/ StoreFails(h)
      PROVE  FALSE
  <2>1. storeErrors < 0
    BY <1>8 DEF RecordTwice, StoreFails
  <2>2. storeErrors \in Nat
    BY DEF CoherentInv, TypeOK
  <2>3. QED
    BY <2>1, <2>2
<1>9. CASE UNCHANGED vars
  <2>1. ASSUME NEW h \in Handlers
        PROVE  SoloHandler(h)'
    <3>1. SoloHandler(h) /\ UNCHANGED <<now, store, pc, loaded, request>>
      BY <1>9 DEF SoloInv, vars, request
    <3>2. QED
      BY <3>1 DEF SoloHandler, InStore, request, Fresh, TrueAttempt, FailedRuntime, Opens,
                  FailureCount
  <2>2. \A p \in Providers : Counted(p)'
    BY <1>9 DEF vars, SoloInv, Counted
  <2>3. Circuits' = Circuits /\ now' = now
    BY <1>9 DEF vars, Circuits
  <2>4. QED
    BY <2>1, <2>2, <2>3 DEF SoloStepGoal, SoloInv
<1>10. QED
  BY <1>1, <1>2, <1>3, <1>4, <1>5, <1>6, <1>7, <1>8, <1>9 DEF Next, HandlerStep

(* While one request is handled at a time and the store does not fail, Threshold
   failures since a circuit was last closed do not leave it closed: neither a
   restart, a probe, nor an operator's retry or reset loses count of them. *)
THEOREM FailuresCounted ==
  ASSUME OneHandler, MaxStoreErrors = 0
  PROVE  Spec => []ThreeFailuresOpen
<1>1. Init => CoherentInv /\ SoloInv
  BY CoherentInit, SoloInit
<1>2. CoherentInv /\ SoloInv /\ [Next]_vars => (CoherentInv /\ SoloInv)'
  BY CoherentStep, SoloStep DEF SoloStepGoal
<1>3. CoherentInv /\ SoloInv => ThreeFailuresOpen
  <2> SUFFICES ASSUME CoherentInv, SoloInv, NEW p \in Providers, streak[p] >= Threshold
               PROVE  store[p].state # "closed"
    BY DEF ThreeFailuresOpen
  <2>1. streak[p] \in Nat /\ store[p].failures \in Nat /\ Counted(p)
    BY DEF CoherentInv, TypeOK, Stats, SoloInv
  <2>2. QED
    BY <2>1, ThresholdAssumption DEF Counted
<1>4. QED
  BY <1>1, <1>2, <1>3, PTL DEF Spec

(* Under the same conditions the stored circuits are those of the lifecycle:
   what is computed from a snapshot and stored as absolute values is the step
   that the circuit itself would have taken. *)
THEOREM LifecycleFollowed ==
  ASSUME OneHandler, MaxStoreErrors = 0
  PROVE  Spec => FollowsLifecycle
<1>1. Init => CoherentInv /\ SoloInv /\ Lifecycle!Init
  BY CoherentInit, SoloInit DEF Init, Lifecycle!Init, Lifecycle!Closed, InitialStats
<1>2. CoherentInv /\ SoloInv /\ [Next]_vars => (CoherentInv /\ SoloInv)'
  BY CoherentStep, SoloStep DEF SoloStepGoal
<1>3. CoherentInv /\ SoloInv /\ [Next]_vars => [Lifecycle!Next]_<<now, Circuits>>
  BY SoloStep DEF SoloStepGoal
<1>4. QED
  BY <1>1, <1>2, <1>3, PTL DEF Spec, FollowsLifecycle, Lifecycle!Spec, Circuits
-----------------------------------------------------------------------------
(* The recovery probe has one owner when store mutations do not overlap and the
   operator's retry endpoint, which reopens a claimed circuit, is not used.  Both
   conditions are necessary: see the run CircuitOverlap and the README. *)

(* No handler but those already owning a probe owns one after the step. *)
NoNewClaims ==
  \A g \in Handlers :
    claimedAt'[g] # 0 => claimedAt'[g] = claimedAt[g] /\ target'[g] = target[g]

Grants(h) == SaveClaim(h) /\ ClaimGranted(loaded[h][target[h]])

(* A handler that finishes owns no probe afterwards. *)
LEMMA NoClaimByFinish ==
  ASSUME TypeOK, NEW h \in Handlers, Finish(h)
  PROVE  NoNewClaims
  BY FinishFields DEF NoNewClaims, Untouched

(* Nor does one that moves on to its next candidate. *)
LEMMA NoClaimByNextCandidate ==
  ASSUME TypeOK, NEW h \in Handlers, NEW R, NEW C, NextCandidate(h, R, C)
  PROVE  NoNewClaims
<1>1. CASE Finish(h)
  BY <1>1, NoClaimByFinish
<1>2. CASE \E p \in R \cup C :
             /\ target' = [target EXCEPT ![h] = p]
             /\ claimedAt' = [claimedAt EXCEPT ![h] = 0]
  BY <1>2 DEF NoNewClaims, TypeOK
<1>3. QED
  BY <1>1, <1>2 DEF NextCandidate

(* Only a granted claim makes an owner. *)
LEMMA ClaimSteps ==
  ASSUME CoherentInv, [Next]_vars
  PROVE  NoNewClaims \/ \E h \in Handlers : Grants(h)
<1>0. TypeOK /\ \A h \in Handlers : HandlerInv(h)
  BY DEF CoherentInv
<1>1. CASE Tick
  BY <1>1 DEF Tick, request, NoNewClaims
<1>2. CASE Crash
  BY <1>2 DEF Crash, NoNewClaims
<1>3. ASSUME NEW h \in Handlers, Arrive(h) PROVE NoNewClaims
  <2>1. claimedAt[h] = 0 /\ claimedAt' = claimedAt
    BY <1>0, <1>3 DEF Arrive, HandlerInv
  <2>2. \A g \in Handlers \ {h} : target'[g] = target[g]
    BY <1>0, <1>3 DEF Arrive, TypeOK
  <2>3. QED
    BY <2>1, <2>2 DEF NoNewClaims
<1>4. ASSUME NEW h \in Handlers, Load(h) \/ SavePrepare(h) \/ SaveSnapshot(h)
      PROVE  NoNewClaims
  BY <1>4 DEF Load, SavePrepare, SaveSnapshot, request, NoNewClaims
<1>5. ASSUME NEW h \in Handlers, Route(h) PROVE NoNewClaims
  BY <1>0, <1>5, NoClaimByNextCandidate DEF Route
<1>6. ASSUME NEW h \in Handlers, SaveClaim(h), ~Grants(h) PROVE NoNewClaims
  BY <1>0, <1>6, NoClaimByNextCandidate DEF SaveClaim, Grants
<1>7. ASSUME NEW h \in Handlers, SaveRecord(h) PROVE NoNewClaims
  BY <1>0, <1>7, NoClaimByFinish, NoClaimByNextCandidate DEF SaveRecord
<1>8. ASSUME NEW h \in Handlers, SaveAdmin(h) PROVE NoNewClaims
  BY <1>0, <1>8, NoClaimByFinish DEF SaveAdmin
<1>9. ASSUME NEW h \in Handlers, StoreFails(h) PROVE NoNewClaims
  <2>1. CASE Finish(h)
    BY <1>0, <2>1, NoClaimByFinish
  <2>2. CASE CircuitFailure(h, TRUE) /\ UNCHANGED claimedAt
    BY <2>2 DEF CircuitFailure, Emit, NoNewClaims
  <2>3. QED
    BY <1>9, <2>1, <2>2 DEF StoreFails
<1>10. ASSUME NEW h \in Handlers, Abandon(h) PROVE NoNewClaims
  BY <1>0, <1>10, NoClaimByFinish, NoClaimByNextCandidate DEF Abandon
<1>11. ASSUME NEW h \in Handlers, Succeed(h) \/ RateLimit(h) \/ Reject(h)
       PROVE  NoNewClaims
  BY <1>11 DEF Succeed, RateLimit, Reject, Emit, NoNewClaims
<1>12. ASSUME NEW h \in Handlers, Fail(h) PROVE NoNewClaims
  BY <1>12 DEF Fail, CircuitFailure, Emit, NoNewClaims
<1>13. CASE UNCHANGED vars
  BY <1>13 DEF vars, NoNewClaims
<1>14. ASSUME NEW h \in Handlers, RecordTwice(h) PROVE NoNewClaims
  <2>1. claimedAt' = [claimedAt EXCEPT ![h] = 0] /\ target' = target
    BY <1>14 DEF RecordTwice, CircuitFailure, Emit
  <2>2. QED
    BY <1>0, <2>1 DEF NoNewClaims, TypeOK
<1>15. QED
  BY <1>1, <1>2, <1>3, <1>4, <1>5, <1>6, <1>7, <1>8, <1>9, <1>10, <1>11,
     <1>12, <1>13, <1>14 DEF Next, HandlerStep

-----------------------------------------------------------------------------
(* SerialStore: one mutation at a time works on the current store. *)

(* At most one handler loads at a time, and every save stores its own copy. *)
LEMMA SerialStoreStep ==
  ASSUME MaxOverlap = 1, IsFiniteSet(Handlers), TypeOK, SerialStore, [Next]_vars
  PROVE  SerialStore'
<1>a. ASSUME NEW h \in Handlers, InStore(h), loaded' = [loaded EXCEPT ![h] = None]
      PROVE  \A g \in Handlers : ~InStore(g)'
  BY <1>a DEF SerialStore, InStore, TypeOK
<1>b. ASSUME \A g \in Handlers : ~InStore(g)' PROVE SerialStore'
  BY <1>b DEF SerialStore
<1>c. ASSUME store' = store, loaded' = loaded PROVE SerialStore'
  BY <1>c DEF SerialStore, InStore
<1>1. CASE Tick \/ UNCHANGED vars
  BY <1>1, <1>c DEF Tick, vars
<1>2. CASE Crash
  <2>1. \A g \in Handlers : loaded'[g] = None
    BY <1>2 DEF Crash
  <2>2. QED
    BY <2>1, <1>b DEF InStore
<1>3. ASSUME NEW h \in Handlers, Load(h) PROVE SerialStore'
  <2> DEFINE busy == {g \in Handlers : InStore(g)}
  <2>1. busy = {}
    <3>1. IsFiniteSet(busy)
      BY FS_Subset
    <3>2. Cardinality(busy) \in Nat /\ (Cardinality(busy) = 0 <=> busy = {})
      BY <3>1, FS_CardinalityType, FS_EmptySet
    <3>3. Cardinality(busy) < 1
      BY <1>3 DEF Load
    <3> HIDE DEF busy
    <3>4. QED
      BY <3>2, <3>3
  <2>2. store' = store /\ loaded' = [loaded EXCEPT ![h] = store]
    BY <1>3 DEF Load
  <2>3. \A g \in Handlers : loaded'[g] = IF g = h THEN store ELSE None
    BY <2>1, <2>2 DEF InStore, TypeOK
  <2>4. QED
    BY <2>2, <2>3 DEF SerialStore, InStore
<1>4. ASSUME NEW h \in Handlers,
             \/ SavePrepare(h) \/ SaveSnapshot(h) \/ SaveClaim(h)
             \/ SaveRecord(h) \/ RecordTwice(h) \/ SaveAdmin(h)
             \/ StoreFails(h)
      PROVE  SerialStore'
  <2>1. InStore(h) /\ loaded' = [loaded EXCEPT ![h] = None]
    BY <1>4 DEF SavePrepare, SaveSnapshot, SaveClaim, SaveRecord, RecordTwice,
                SaveAttempt, SaveAdmin, StoreFails, Save
  <2>2. QED
    BY <2>1, <1>a, <1>b
<1>5. ASSUME NEW h \in Handlers,
             \/ Arrive(h) \/ Route(h) \/ Abandon(h) \/ Succeed(h) \/ Fail(h)
             \/ RateLimit(h) \/ Reject(h)
      PROVE  SerialStore'
  BY <1>5, <1>c DEF Arrive, Route, Abandon, Succeed, Fail, RateLimit, Reject
<1>6. QED
  BY <1>1, <1>2, <1>3, <1>4, <1>5 DEF Next, HandlerStep
-----------------------------------------------------------------------------
(* NoRetries, and where the control of a handler may go. *)

(* Moving on leaves a handler at a claim, at a call or idle. *)
LEMMA NextCandidateFields ==
  ASSUME TypeOK, NEW h \in Handlers, NEW R, NEW C, NextCandidate(h, R, C)
  PROVE  /\ pc'[h] \in {"idle", "claim", "call"}
         /\ job'[h] \in {job[h], "request"}
         /\ \A g \in Handlers \ {h} : Untouched(g)
<1>1. CASE Finish(h)
  BY <1>1, FinishFields
<1>2. CASE \E p \in R \cup C : \E c, d :
             /\ pc' \in {[pc EXCEPT ![h] = "claim"], [pc EXCEPT ![h] = "call"]}
             /\ target' = [target EXCEPT ![h] = p]
             /\ claims' = [claims EXCEPT ![h] = c]
             /\ todo' = [todo EXCEPT ![h] = d]
             /\ claimedAt' = [claimedAt EXCEPT ![h] = 0]
             /\ attempt' = [attempt EXCEPT ![h] = NoAttempt]
             /\ UNCHANGED <<job, snap>>
  BY <1>2 DEF TypeOK, Untouched
<1>3. QED
  BY <1>1, <1>2 DEF NextCandidate

(* Without the operator's retry no job is one. *)
LEMMA NoRetriesStep ==
  ASSUME "retry" \notin OperatorJobs, TypeOK, NoRetries, [Next]_vars
  PROVE  NoRetries'
<1>a. ASSUME NEW h \in Handlers, \A g \in Handlers \ {h} : Untouched(g),
             job'[h] # "retry", pc'[h] # "prepare"
      PROVE  NoRetries'
  BY <1>a DEF NoRetries, Untouched
<1>b. ASSUME NEW h \in Handlers, NEW R, NEW C, NextCandidate(h, R, C)
      PROVE  NoRetries'
  BY <1>a, <1>b, NextCandidateFields DEF NoRetries
<1>c. ASSUME NEW h \in Handlers, Finish(h) PROVE NoRetries'
  BY <1>a, <1>c, FinishFields
<1>d. ASSUME NEW h \in Handlers, job' = job,
             \/ pc' = pc \/ pc' = [pc EXCEPT ![h] = "route"]
             \/ pc' = [pc EXCEPT ![h] = "call"] \/ pc' = [pc EXCEPT ![h] = "record"]
      PROVE  NoRetries'
  BY <1>d DEF NoRetries, TypeOK
<1>1. CASE Tick \/ UNCHANGED vars
  BY <1>1 DEF Tick, request, vars, NoRetries
<1>2. CASE Crash
  BY <1>2 DEF Crash, NoRetries
<1>3. ASSUME NEW h \in Handlers, Arrive(h) PROVE NoRetries'
  <2>1. PICK j \in {"request", "usage"} \cup OperatorJobs :
          /\ job' = [job EXCEPT ![h] = j]
          /\ pc' = [pc EXCEPT ![h] = FirstPC(j)]
    BY <1>3 DEF Arrive
  <2>2. j # "retry" /\ FirstPC(j) # "prepare"
    BY <2>1 DEF FirstPC
  <2>3. QED
    BY <2>1, <2>2 DEF NoRetries, TypeOK
<1>4. ASSUME NEW h \in Handlers, Load(h) \/ SaveSnapshot(h) PROVE NoRetries'
  BY <1>4, <1>d DEF Load, SaveSnapshot, request
<1>5. ASSUME NEW h \in Handlers, SavePrepare(h) PROVE NoRetries'
  BY <1>5 DEF SavePrepare, NoRetries
<1>6. ASSUME NEW h \in Handlers, Route(h) PROVE NoRetries'
  BY <1>6, <1>b DEF Route
<1>7. ASSUME NEW h \in Handlers, SaveClaim(h) PROVE NoRetries'
  BY <1>7, <1>b, <1>d DEF SaveClaim
<1>8. ASSUME NEW h \in Handlers, SaveRecord(h) \/ SaveAdmin(h) \/ Abandon(h)
      PROVE  NoRetries'
  BY <1>8, <1>b, <1>c DEF SaveRecord, SaveAdmin, Abandon
<1>9. ASSUME NEW h \in Handlers, NEW caught, CircuitFailure(h, caught)
      PROVE  NoRetries'
  BY <1>9, <1>d DEF CircuitFailure, Emit
<1>10. ASSUME NEW h \in Handlers, StoreFails(h) \/ RecordTwice(h) \/ Fail(h)
       PROVE  NoRetries'
  BY <1>10, <1>c, <1>9 DEF StoreFails, RecordTwice, Fail
<1>11. ASSUME NEW h \in Handlers, Succeed(h) \/ RateLimit(h) \/ Reject(h)
       PROVE  NoRetries'
  BY <1>11, <1>d DEF Succeed, RateLimit, Reject, Emit
<1>12. QED
  BY <1>1, <1>2, <1>3, <1>4, <1>5, <1>6, <1>7, <1>8, <1>10, <1>11
     DEF Next, HandlerStep
-----------------------------------------------------------------------------
(* OrdinaryRecords: a request that owns no probe records no half-open state,
   and opens a circuit for longer than a probe may last. *)

(* What a failure that follows no claim leaves in the runtime and to record. *)
LEMMA OrdinaryFailure ==
  ASSUME CoherentInv, NEW h \in Handlers, pc[h] \in {"call", "record"},
         NEW caught \in BOOLEAN, CircuitFailure(h, caught),
         claimedAt[h] = 0 /\ snap[h][target[h]].state # "closed"
           => snap[h][target[h]].failures >= Threshold,
         now' = now
  PROVE  OrdinaryRecord(h)'
<1> DEFINE c == snap[h][target[h]]
           halfOpen == claimedAt[h] # 0
           d == FailedRuntime(c, halfOpen)
           a == FailureAttempt(c, halfOpen, caught)
<1>1. TypeOK /\ target[h] \in Providers /\ c \in Stats /\ halfOpen \in BOOLEAN
  BY DEF CoherentInv, HandlerInv, TypeOK
<1>2. snap'[h][target[h]] = d /\ attempt'[h] = a /\ target' = target
  <2>1. /\ snap' = [snap EXCEPT ![h] = [snap[h] EXCEPT ![target[h]] = d]]
        /\ attempt' = [attempt EXCEPT ![h] = a]
        /\ target' = target
    BY DEF CircuitFailure, Emit
  <2> HIDE DEF c, d, a, halfOpen
  <2>2. QED
    BY <1>1, <2>1 DEF TypeOK
<1>3. /\ a.state = d.state /\ a.openUntil = d.openUntil
      /\ a.action = IF ~Opens(c, halfOpen) THEN "none"
                    ELSE IF halfOpen THEN "reopened" ELSE "opened"
  BY <1>1, FailureAttemptFacts
<1>4. CASE Opens(c, halfOpen)
  <2>1. d.failures >= Threshold /\ d.openUntil > now + ProbeHold
    BY <1>1, <1>4, FailedRuntimeFacts
  <2>2. a.action \in {"opened", "reopened"}
    BY <1>3, <1>4
  <2> HIDE DEF c, d, a, halfOpen
  <2>3. QED
    BY <1>2, <1>3, <2>1, <2>2 DEF OrdinaryRecord
<1>5. CASE ~Opens(c, halfOpen)
  <2>1. claimedAt[h] = 0 /\ c.failures < Threshold
    BY <1>1, <1>5, ThresholdAssumption DEF Opens, FailureCount, Stats
  <2>2. c.state = "closed"
    BY <1>1, <2>1, ThresholdAssumption DEF Stats
  <2>3. d.state = "closed"
    BY <1>1, <1>5, <2>2, FailedRuntimeFacts
  <2> HIDE DEF c, d, a, halfOpen
  <2>4. QED
    BY <1>2, <1>3, <1>5, <2>3 DEF OrdinaryRecord
<1>6. QED
  BY <1>4, <1>5

(* Every step keeps what ordinary requests are about to record. *)
LEMMA OrdinaryRecordsStep ==
  ASSUME CoherentInv, OrdinaryRecords, [Next]_vars
  PROVE  OrdinaryRecords'
<1>0. TypeOK /\ \A h \in Handlers : HandlerInv(h)
  BY DEF CoherentInv
<1>a. ASSUME NEW h \in Handlers, \A g \in Handlers \ {h} : Untouched(g), now' = now,
             pc'[h] = "record" /\ claimedAt'[h] = 0 => OrdinaryRecord(h)'
      PROVE  OrdinaryRecords'
  BY <1>a DEF OrdinaryRecords, OrdinaryRecord, Untouched
<1>c. ASSUME NEW h \in Handlers, now' = now,
             \A g \in Handlers \ {h} : Untouched(g), pc'[h] # "record"
      PROVE  OrdinaryRecords'
  BY <1>a, <1>c
<1>1. CASE Tick
  BY <1>1 DEF Tick, OrdinaryRecords
<1>2. CASE Crash
  BY <1>2 DEF Crash, OrdinaryRecords
<1>3. ASSUME NEW h \in Handlers,
             Arrive(h) \/ SavePrepare(h) \/ SaveSnapshot(h) \/ Grants(h)
      PROVE  OrdinaryRecords'
  <2>1. CASE Arrive(h)
    <3>1. pc'[h] # "record" /\ \A g \in Handlers \ {h} : Untouched(g)
      BY <1>0, <2>1, JobsAssumption DEF Arrive, FirstPC, TypeOK, Untouched
    <3>2. QED
      BY <2>1, <3>1, <1>c DEF Arrive
  <2>2. CASE SavePrepare(h) \/ SaveSnapshot(h) \/ Grants(h)
    <3>1. pc'[h] # "record" /\ \A g \in Handlers \ {h} : Untouched(g)
      BY <1>0, <2>2 DEF SavePrepare, SaveSnapshot, Grants, SaveClaim, request,
                        TypeOK, Untouched
    <3>2. QED
      BY <2>2, <3>1, <1>c DEF SavePrepare, SaveSnapshot, Grants, SaveClaim
  <2>3. QED
    BY <1>3, <2>1, <2>2
<1>4. CASE UNCHANGED <<now, pc, request>>
  BY <1>4 DEF request, OrdinaryRecords, OrdinaryRecord
<1>5. ASSUME NEW h \in Handlers, Route(h) PROVE OrdinaryRecords'
  <2>1. PICK eligible \in IF job[h] = "retry" THEN {{target[h]}} ELSE SUBSET Providers :
          LET free == {p \in eligible : snap[h][p].cooldownUntil <= now}
              closed == {p \in free : snap[h][p].state = "closed"}
              recoverable ==
                {p \in free : \/ snap[h][p].state = "half-open"
                              \/ /\ snap[h][p].state = "open"
                                 /\ snap[h][p].openUntil <= now}
          IN NextCandidate(h, recoverable, closed)
    BY <1>5 DEF Route
  <2>2. PICK R, C : NextCandidate(h, R, C)
    BY <2>1
  <2>3. QED
    BY <1>0, <1>5, <1>c, <2>2, NextCandidateFields DEF Route
<1>6. ASSUME NEW h \in Handlers, SaveClaim(h), ~Grants(h) PROVE OrdinaryRecords'
  <2>1. NextCandidate(h, claims[h], todo[h]) /\ now' = now
    BY <1>6 DEF SaveClaim, Grants
  <2>2. QED
    BY <1>0, <1>c, <2>1, NextCandidateFields
<1>7. ASSUME NEW h \in Handlers, SaveRecord(h) \/ SaveAdmin(h) \/ Abandon(h)
      PROVE  OrdinaryRecords'
  <2>1. now' = now /\ (Finish(h) \/ NextCandidate(h, {}, todo[h]))
    BY <1>7 DEF SaveRecord, SaveAdmin, Abandon
  <2>2. QED
    BY <1>0, <1>c, <2>1, FinishFields, NextCandidateFields
<1>8. ASSUME NEW h \in Handlers, NEW caught \in BOOLEAN, CircuitFailure(h, caught),
             pc[h] = "call" \/ pc[h] = "record", now' = now,
             claimedAt' \in {claimedAt, [claimedAt EXCEPT ![h] = 0]}
      PROVE  OrdinaryRecords'
  <2>1. \A g \in Handlers \ {h} : Untouched(g)
    BY <1>0, <1>8, CircuitFailureInv
  <2>2. claimedAt[h] = 0 /\ snap[h][target[h]].state # "closed"
          => snap[h][target[h]].failures >= Threshold
    BY <1>0, <1>8 DEF HandlerInv, OrdinaryRecords, OrdinaryRecord
  <2>3. OrdinaryRecord(h)'
    BY <1>8, <2>2, OrdinaryFailure
  <2>4. QED
    BY <1>8, <1>a, <2>1, <2>3
<1>9. ASSUME NEW h \in Handlers, StoreFails(h) PROVE OrdinaryRecords'
  <2>1. CASE Finish(h)
    BY <1>0, <1>9, <1>c, <2>1, FinishFields DEF StoreFails
  <2>2. CASE pc[h] = "record" /\ CircuitFailure(h, TRUE) /\ UNCHANGED claimedAt
    BY <1>9, <1>8, <2>2 DEF StoreFails
  <2>3. QED
    BY <1>9, <2>1, <2>2 DEF StoreFails
<1>10. ASSUME NEW h \in Handlers, Fail(h) \/ RecordTwice(h)
       PROVE  OrdinaryRecords'
  BY <1>10, <1>8 DEF Fail, RecordTwice
<1>11. ASSUME NEW h \in Handlers, Succeed(h) PROVE OrdinaryRecords'
  <2> DEFINE d == ClosedCircuit(snap[h][target[h]])
             a == [NoAttempt EXCEPT !.success = TRUE]
  <2>1. target[h] \in Providers /\ snap[h][target[h]] \in Stats
    BY <1>0, <1>11 DEF Succeed, HandlerInv, TypeOK
  <2>2. d.state = "closed" /\ a.success
    BY <2>1, ClosedCircuitFacts DEF NoAttempt
  <2>3. /\ snap' = [snap EXCEPT ![h] = [snap[h] EXCEPT ![target[h]] = d]]
        /\ Emit(h, a)
        /\ claimedAt' = claimedAt
    BY <1>11 DEF Succeed
  <2> HIDE DEF d, a
  <2>4. /\ snap'[h][target'[h]] = d /\ attempt'[h] = a
        /\ \A g \in Handlers \ {h} : Untouched(g)
    BY <1>0, <2>1, <2>3 DEF Emit, TypeOK, Untouched
  <2>5. OrdinaryRecord(h)'
    BY <2>2, <2>4 DEF OrdinaryRecord
  <2>6. QED
    BY <1>11, <1>a, <2>4, <2>5 DEF Succeed
<1>12. ASSUME NEW h \in Handlers, RateLimit(h) PROVE OrdinaryRecords'
  <2>1. CASE claimedAt[h] # 0
    <3>1. /\ claimedAt'[h] # 0 /\ now' = now
          /\ \A g \in Handlers \ {h} : Untouched(g)
      BY <1>0, <1>12, <2>1 DEF RateLimit, Emit, TypeOK, Untouched
    <3>2. QED
      BY <3>1, <1>a
  <2>2. CASE claimedAt[h] = 0
    <3> DEFINE c == snap[h][target[h]]
               d(len) == [c EXCEPT !.cooldownUntil = now + len]
               a(len) == [NoAttempt EXCEPT
                            !.action = "none", !.state = c.state,
                            !.failures = c.failures, !.opens = c.opens,
                            !.cooldownUntil = now + len]
    <3>1. PICK len \in CooldownLengths :
            /\ snap' = [snap EXCEPT ![h] = [snap[h] EXCEPT ![target[h]] = d(len)]]
            /\ Emit(h, a(len))
            /\ claimedAt' = claimedAt
      BY <1>12, <2>2 DEF RateLimit
    <3>2. target[h] \in Providers /\ c \in Stats /\ c.state = "closed"
      BY <1>0, <1>12, <2>2 DEF RateLimit, HandlerInv, TypeOK
    <3>3. /\ d(len).state = "closed" /\ a(len).state = "closed"
          /\ a(len).action = "none"
      BY <3>2 DEF Stats, NoAttempt
    <3> HIDE DEF c, d, a
    <3>4. /\ snap'[h][target'[h]] = d(len) /\ attempt'[h] = a(len)
          /\ \A g \in Handlers \ {h} : Untouched(g)
      BY <1>0, <3>1, <3>2 DEF Emit, TypeOK, Untouched
    <3>5. OrdinaryRecord(h)'
      BY <3>3, <3>4 DEF OrdinaryRecord
    <3>6. QED
      BY <1>12, <1>a, <3>4, <3>5 DEF RateLimit
  <2>3. QED
    BY <2>1, <2>2
<1>13. ASSUME NEW h \in Handlers, Reject(h) PROVE OrdinaryRecords'
  <2> DEFINE c == snap[h][target[h]]
             a == [NoAttempt EXCEPT !.state = c.state, !.failures = c.failures,
                                    !.opens = c.opens]
  <2>1. /\ Emit(h, a) /\ pc[h] = "call"
        /\ snap' = snap /\ now' = now /\ claimedAt' = claimedAt
    BY <1>13 DEF Reject
  <2>2. a.action = "none" /\ a.state = c.state
    BY DEF NoAttempt
  <2> HIDE DEF a
  <2>3. /\ attempt'[h] = a /\ target' = target /\ claimedAt' = claimedAt
        /\ \A g \in Handlers \ {h} : Untouched(g)
    BY <1>0, <2>1 DEF Emit, TypeOK, Untouched
  <2>4. claimedAt[h] = 0 => c.state = "closed"
    BY <1>0, <2>1 DEF HandlerInv
  <2>5. claimedAt[h] = 0 => OrdinaryRecord(h)'
    BY <2>1, <2>2, <2>3, <2>4 DEF OrdinaryRecord
  <2>6. QED
    BY <1>a, <2>1, <2>3, <2>5
<1>14. QED
  BY <1>1, <1>2, <1>3, <1>4, <1>5, <1>6, <1>7, <1>9, <1>10, <1>11, <1>12, <1>13
     DEF Next, HandlerStep, Load, vars, request
-----------------------------------------------------------------------------
(* ClaimsGuarded and OneProbe: nobody else can be granted a live claim. *)

(* Owners keep what guards them when the entries they own stay guarded. *)
LEMMA OwnersKept ==
  ASSUME TypeOK, TypeOK', \A g \in Handlers : HandlerInv(g),
         NoNewClaims, ClaimsGuarded, OneProbe, now' = now,
         \A g \in Handlers : claimedAt'[g] # 0 =>
           \/ store'[target[g]] = store[target[g]]
           \/ store'[target[g]].state = "closed"
           \/ /\ store'[target[g]].state = "open"
              /\ store'[target[g]].openUntil > now + ProbeHold
  PROVE  ClaimsGuarded' /\ OneProbe'
<1>1. OneProbe'
  BY DEF OneProbe, OwnsProbe, NoNewClaims
<1>2. SUFFICES ASSUME NEW g \in Handlers, claimedAt'[g] # 0
               PROVE  /\ claimedAt'[g] <= now' /\ now' <= claimedAt'[g] + ProbeHold
                      /\ Guarded(target[g], claimedAt[g])'
  BY <1>1 DEF ClaimsGuarded
<1>3. /\ claimedAt'[g] = claimedAt[g] /\ target'[g] = target[g]
      /\ claimedAt[g] <= now /\ now <= claimedAt[g] + ProbeHold
      /\ Guarded(target[g], claimedAt[g])
  BY <1>2 DEF NoNewClaims, ClaimsGuarded
<1>4. CASE store'[target[g]] = store[target[g]]
  BY <1>3, <1>4 DEF Guarded
<1>5. CASE store'[target[g]].state = "closed"
  BY <1>3, <1>5 DEF Guarded
<1>6. CASE /\ store'[target[g]].state = "open"
           /\ store'[target[g]].openUntil > now + ProbeHold
  <2>1. store'[target'[g]].state = "open"
    BY <1>3, <1>6
  <2>2. store'[target'[g]].openUntil > claimedAt'[g] + ProbeHold
    <3> DEFINE u == store'[target[g]].openUntil
    <3>0. target[g] \in Providers
      BY <1>2, <1>3 DEF HandlerInv
    <3>1. /\ u > now + ProbeHold /\ u \in Nat
          /\ now \in Nat /\ claimedAt[g] \in Nat /\ claimedAt[g] <= now
      BY <1>3, <1>6, <3>0 DEF TypeOK, Stats
    <3> HIDE DEF u
    <3>2. u > claimedAt[g] + ProbeHold
      BY <3>1, TimingAssumption
    <3>3. QED
      BY <1>3, <3>2 DEF u
  <2>3. QED
    BY <1>3, <2>1, <2>2 DEF Guarded
<1>7. QED
  BY <1>2, <1>3, <1>4, <1>5, <1>6

(* Every step keeps the circuits of the owned probes guarded. *)
LEMMA ClaimsGuardedStep ==
  ASSUME CoherentInv, SerialInv, [Next]_vars, TypeOK'
  PROVE  ClaimsGuarded' /\ OneProbe'
<1>0. /\ TypeOK /\ \A h \in Handlers : HandlerInv(h)
      /\ ClaimsGuarded /\ OneProbe /\ SerialStore /\ OrdinaryRecords /\ NoRetries
  BY DEF CoherentInv, SerialInv
<1>a. ASSUME NoNewClaims, now' = now, store' = store
      PROVE  ClaimsGuarded' /\ OneProbe'
  BY <1>0, <1>a, OwnersKept
<1>1. CASE Tick
  <2>1. OneProbe'
    BY <1>0, <1>1 DEF Tick, request, OneProbe, OwnsProbe
  <2>2. ClaimsGuarded'
    BY <1>0, <1>1, TimingAssumption DEF Tick, request, ClaimsGuarded, Guarded, TypeOK
  <2>3. QED
    BY <2>1, <2>2
<1>2. CASE Crash
  BY <1>2 DEF Crash, ClaimsGuarded, OneProbe, OwnsProbe
<1>3. ASSUME NEW h \in Handlers, Grants(h)
      PROVE  ClaimsGuarded' /\ OneProbe'
  <2> DEFINE p == target[h]
             c == store[p]
  <2>1. /\ pc[h] = "claim" /\ InStore(h) /\ loaded[h] = store
        /\ store' = [store EXCEPT ![p] = Claimed(c)]
        /\ claimedAt' = [claimedAt EXCEPT ![h] = now]
        /\ target' = target /\ now' = now /\ ClaimGranted(c)
    BY <1>0, <1>3 DEF Grants, SaveClaim, Save, SerialStore
  <2>2. p \in Providers /\ c \in Stats /\ claimedAt[h] = 0
    BY <1>0, <2>1 DEF HandlerInv, TypeOK
  <2>3. \A g \in Handlers : ~OwnsProbe(g, p)
    <3> SUFFICES ASSUME NEW g \in Handlers, OwnsProbe(g, p) PROVE FALSE
      OBVIOUS
    <3>1. /\ claimedAt[g] \in Nat \ {0} /\ now \in Nat
          /\ claimedAt[g] <= now /\ now <= claimedAt[g] + ProbeHold
          /\ Guarded(p, claimedAt[g])
      BY <1>0 DEF OwnsProbe, ClaimsGuarded, TypeOK
    <3>2. c.state # "closed"
      BY <2>1 DEF ClaimGranted
    <3>3. CASE c.state = "open" /\ c.openUntil > claimedAt[g] + ProbeHold
      <4>1. c.openUntil > now
        BY <2>2, <3>1, <3>3, TimingAssumption DEF Stats
      <4>2. QED
        BY <2>1, <3>3, <4>1 DEF ClaimGranted
    <3>4. CASE c.state = "half-open" /\ c.active /\ c.startedAt >= claimedAt[g]
      <4>1. c.startedAt # 0 /\ now < c.startedAt + ProbeStale
        <5> DEFINE s == c.startedAt
        <5>1. s \in Nat /\ s >= claimedAt[g]
          BY <2>2, <3>4 DEF Stats
        <5> HIDE DEF s
        <5>2. s # 0 /\ now < s + ProbeStale
          BY <3>1, <5>1, TimingAssumption
        <5>3. QED
          BY <5>2 DEF s
      <4>2. ~ProbeIsStale(c)
        BY <2>2, <3>1, <4>1, TimingAssumption DEF ProbeIsStale, Stats
      <4>3. QED
        BY <2>1, <3>4, <4>2 DEF ClaimGranted
    <3>5. QED
      BY <3>1, <3>2, <3>3, <3>4 DEF Guarded
  <2>4. OneProbe'
    BY <1>0, <2>1, <2>2, <2>3 DEF OneProbe, OwnsProbe, TypeOK
  <2>5. ASSUME NEW g \in Handlers, claimedAt'[g] # 0
        PROVE  /\ claimedAt'[g] <= now' /\ now' <= claimedAt'[g] + ProbeHold
               /\ Guarded(target[g], claimedAt[g])'
    <3>1. CASE g = h
      <4>1. claimedAt'[g] = now /\ target'[g] = p
        BY <1>0, <2>1, <3>1 DEF TypeOK
      <4>2. /\ store'[p] = Claimed(c) /\ Claimed(c).state = "half-open"
            /\ Claimed(c).active /\ Claimed(c).startedAt = now
        BY <1>0, <2>1, <2>2, ClaimedFacts DEF TypeOK
      <4>3. now' = now /\ now \in Nat
        BY <1>0, <2>1 DEF TypeOK
      <4> HIDE DEF c, p
      <4>4. QED
        BY <4>1, <4>2, <4>3, TimingAssumption DEF Guarded
    <3>2. CASE g # h
      <4>1. /\ claimedAt'[g] = claimedAt[g] /\ target'[g] = target[g]
            /\ target[g] # p
        BY <1>0, <2>1, <2>3, <2>5, <3>2 DEF OwnsProbe, TypeOK
      <4>2. store'[target[g]] = store[target[g]]
        <5>1. target[g] \in Providers
          BY <1>0, <2>5, <4>1 DEF HandlerInv
        <5>2. QED
          BY <1>0, <2>1, <4>1, <5>1 DEF TypeOK
      <4>3. QED
        BY <1>0, <2>1, <2>5, <4>1, <4>2 DEF ClaimsGuarded, Guarded
    <3>3. QED
      BY <3>1, <3>2
  <2>6. ClaimsGuarded'
    BY <2>5 DEF ClaimsGuarded
  <2>7. QED
    BY <2>4, <2>6
<1>4. CASE NoNewClaims
  <2>1. ASSUME NEW h \in Handlers, SavePrepare(h)
        PROVE  ClaimsGuarded' /\ OneProbe'
    BY <1>0, <2>1 DEF SavePrepare, NoRetries
  <2>2. ASSUME NEW h \in Handlers, SaveSnapshot(h)
        PROVE  ClaimsGuarded' /\ OneProbe'
    BY <1>0, <1>4, <1>a, <2>2 DEF SaveSnapshot, Save, SerialStore
  <2>3. ASSUME NEW h \in Handlers, SaveClaim(h)
        PROVE  ClaimsGuarded' /\ OneProbe'
    <3>1. CASE ~ClaimGranted(loaded[h][target[h]])
      BY <1>0, <1>4, <1>a, <2>3, <3>1 DEF SaveClaim, Save, SerialStore
    <3>2. QED
      BY <1>3, <2>3, <3>1 DEF Grants
  <2>4. ASSUME NEW h \in Handlers, SaveRecord(h) \/ RecordTwice(h)
        PROVE  ClaimsGuarded' /\ OneProbe'
    <3> DEFINE p == target[h]
               a == attempt[h]
               d == UpdateStats(store[p], a)
    <3>1. /\ pc[h] = "record" /\ InStore(h) /\ loaded[h] = store /\ now' = now
          /\ store' = [store EXCEPT ![p] = d]
      BY <1>0, <2>4 DEF SaveRecord, RecordTwice, SaveAttempt, Save, SerialStore
    <3>2. p \in Providers /\ a \in Attempts /\ ~a.active /\ store[p] \in Stats
      BY <1>0, <3>1 DEF HandlerInv, TypeOK
    <3>3. claimedAt'[h] = 0
      <4>1. \/ Finish(h) \/ NextCandidate(h, {}, todo[h])
            \/ claimedAt' = [claimedAt EXCEPT ![h] = 0]
        BY <2>4 DEF SaveRecord, RecordTwice
      <4>2. CASE Finish(h)
        BY <1>0, <4>2, FinishFields
      <4>3. CASE NextCandidate(h, {}, todo[h])
        BY <1>0, <4>2, <4>3 DEF NextCandidate, TypeOK
      <4>4. QED
        BY <1>0, <4>1, <4>2, <4>3 DEF TypeOK
    <3>4. ASSUME NEW g \in Handlers, claimedAt'[g] # 0, target[g] = p
          PROVE  \/ d.state = "closed"
                 \/ d.state = "open" /\ d.openUntil > now + ProbeHold
      <4>1. claimedAt[h] = 0
        <5>1. claimedAt[g] # 0 /\ g # h
          BY <1>4, <3>3, <3>4 DEF NoNewClaims
        <5>2. QED
          BY <1>0, <3>2, <3>4, <5>1 DEF OneProbe, OwnsProbe
      <4>2. OrdinaryRecord(h)
        BY <1>0, <3>1, <4>1 DEF OrdinaryRecords
      <4>u. /\ a.success => d.state = "closed"
            /\ ~a.success /\ a.action = "none" => d.state = a.state
        BY <3>2, UpdateStatsFacts
      <4> HIDE DEF d
      <4>3. CASE a.success
        BY <4>u, <4>3
      <4>4. CASE ~a.success /\ a.action = "none" /\ a.state = "closed"
        BY <4>u, <4>4
      <4>5. CASE /\ ~a.success /\ a.action \in {"opened", "reopened"}
                 /\ a.openUntil > now + ProbeHold
        <5>1. a.openUntil # 0
          BY <1>0, <3>2, <4>5, TimingAssumption DEF TypeOK, Attempts
        <5>2. d.state = "open" /\ d.openUntil = a.openUntil
          BY <3>2, <4>5, <5>1, UpdateStatsFacts DEF d
        <5>3. QED
          BY <4>5, <5>2
      <4>6. QED
        BY <4>2, <4>3, <4>4, <4>5 DEF OrdinaryRecord
    <3> HIDE DEF d
    <3>5. \A g \in Handlers : claimedAt'[g] # 0 =>
            \/ store'[target[g]] = store[target[g]]
            \/ store'[target[g]].state = "closed"
            \/ /\ store'[target[g]].state = "open"
               /\ store'[target[g]].openUntil > now + ProbeHold
      BY <1>0, <3>1, <3>2, <3>4 DEF TypeOK
    <3>6. QED
      BY <1>0, <1>4, <3>1, <3>5, OwnersKept
  <2>5. ASSUME NEW h \in Handlers, SaveAdmin(h)
        PROVE  ClaimsGuarded' /\ OneProbe'
    <3> DEFINE p == target[h]
               c == store[p]
    <3>1. /\ pc[h] = "admin" /\ InStore(h) /\ loaded[h] = store /\ now' = now
      BY <1>0, <2>5 DEF SaveAdmin, SerialStore
    <3>2. p \in Providers /\ c \in Stats
      BY <1>0, <3>1 DEF HandlerInv, TypeOK
    <3>3. CASE job[h] = "usage"
      BY <1>0, <1>4, <1>a, <2>5, <3>1, <3>3 DEF SaveAdmin, Save
    <3>4. CASE job[h] = "reset"
      <4>1. store' = [store EXCEPT ![p] = ClosedCircuit(c)]
        BY <2>5, <3>1, <3>4 DEF SaveAdmin, Save
      <4>2. ClosedCircuit(c).state = "closed"
        BY <3>2, ClosedCircuitFacts
      <4>3. \A g \in Handlers : \/ store'[target[g]] = store[target[g]]
                                \/ store'[target[g]].state = "closed"
        BY <1>0, <3>2, <4>1, <4>2 DEF TypeOK
      <4>4. QED
        BY <1>0, <1>4, <3>1, <4>3, OwnersKept
    <3>5. CASE job[h] = "clearCooldown"
      <4> DEFINE d == [c EXCEPT !.cooldownUntil = 0]
      <4>1. store' = [store EXCEPT ![p] = d]
        BY <2>5, <3>1, <3>5 DEF SaveAdmin, Save
      <4>2. /\ d.state = c.state /\ d.openUntil = c.openUntil
            /\ d.active = c.active /\ d.startedAt = c.startedAt
        BY <3>2 DEF Stats
      <4> HIDE DEF d, c, p
      <4>3. \A q \in Providers : /\ store'[q].state = store[q].state
                                /\ store'[q].openUntil = store[q].openUntil
                                /\ store'[q].active = store[q].active
                                /\ store'[q].startedAt = store[q].startedAt
        BY <1>0, <3>2, <4>1, <4>2 DEF TypeOK, c
      <4>4. ASSUME NEW g \in Handlers, claimedAt'[g] # 0
            PROVE  /\ claimedAt'[g] <= now' /\ now' <= claimedAt'[g] + ProbeHold
                   /\ Guarded(target[g], claimedAt[g])'
        <5>1. /\ claimedAt'[g] = claimedAt[g] /\ target'[g] = target[g]
              /\ target[g] \in Providers
          BY <1>0, <1>4, <4>4 DEF NoNewClaims, HandlerInv
        <5>2. /\ claimedAt[g] <= now /\ now <= claimedAt[g] + ProbeHold
              /\ Guarded(target[g], claimedAt[g])
          BY <1>0, <4>4, <5>1 DEF ClaimsGuarded
        <5>3. QED
          BY <3>1, <4>3, <5>1, <5>2 DEF Guarded
      <4>5. OneProbe'
        BY <1>0, <1>4 DEF OneProbe, OwnsProbe, NoNewClaims
      <4>6. QED
        BY <4>4, <4>5 DEF ClaimsGuarded
    <3>6. QED
      BY <2>5, <3>3, <3>4, <3>5 DEF SaveAdmin
  <2>6. CASE UNCHANGED <<now, store>>
    BY <1>4, <1>a, <2>6
  <2>7. QED
    BY <1>1, <1>2, <2>1, <2>2, <2>3, <2>4, <2>5, <2>6
       DEF Next, HandlerStep, vars, Arrive, Load, StoreFails, Route, Abandon,
           Succeed, Fail, RateLimit, Reject
<1>5. QED
  BY <1>3, <1>4, ClaimSteps

(* The serial invariant holds at the start, and every step keeps it. *)
LEMMA SerialInit ==
  ASSUME "retry" \notin OperatorJobs, Init
  PROVE  SerialInv
  BY DEF Init, SerialInv, SerialStore, InStore, NoRetries, OrdinaryRecords,
         ClaimsGuarded, OneProbe, OwnsProbe

LEMMA SerialStep ==
  ASSUME MaxOverlap = 1, "retry" \notin OperatorJobs, IsFiniteSet(Handlers),
         CoherentInv, SerialInv, [Next]_vars
  PROVE  SerialInv'
<1>1. TypeOK /\ TypeOK'
  BY CoherentStep DEF CoherentInv
<1>2. SerialStore'
  BY <1>1, SerialStoreStep DEF SerialInv
<1>3. NoRetries'
  BY <1>1, NoRetriesStep DEF SerialInv
<1>4. OrdinaryRecords'
  BY OrdinaryRecordsStep DEF SerialInv
<1>5. ClaimsGuarded' /\ OneProbe'
  BY <1>1, ClaimsGuardedStep
<1>6. QED
  BY <1>2, <1>3, <1>4, <1>5 DEF SerialInv

(* At most one handler owns the recovery probe of a provider, when mutations
   of the store do not overlap and no operator retry reopens the circuit. *)
THEOREM SingleProbe ==
  ASSUME MaxOverlap = 1, "retry" \notin OperatorJobs, IsFiniteSet(Handlers)
  PROVE  Spec => []OneProbe
<1>1. Init => CoherentInv /\ SerialInv
  BY CoherentInit, SerialInit
<1>2. CoherentInv /\ SerialInv /\ [Next]_vars => (CoherentInv /\ SerialInv)'
  BY CoherentStep, SerialStep
<1>3. SerialInv => OneProbe
  BY DEF SerialInv
<1>4. QED
  BY <1>1, <1>2, <1>3, PTL DEF Spec
=============================================================================

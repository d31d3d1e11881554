---------------------------- MODULE RouterFailover -----------------------------
(***************************************************************************)
(* One routed request: the providers it may use, their order, and the loop *)
(* of ProviderRouter.chatCompletion that calls one after another until a   *)
(* valid answer, a stop condition, the deadline or the client's departure. *)
(*                                                                         *)
(* A call is in flight from BeginCall to its outcome: it waits for headers *)
(* ("calling") and then, unless the answer is streamed, reads a body, that *)
(* of a success to validate it ("validating") or that of an error to learn *)
(* its message ("reading").  Each outcome is then recorded (onAttempt),    *)
(* which awaits the store, and only afterwards does the loop return, wait  *)
(* or go on.  The attempt's timer stays armed until the recording is over. *)
(* What the recordings do to the persisted circuit is the subject of       *)
(* CircuitBreaker; here the runtime copy of the request decides.           *)
(***************************************************************************)
EXTENDS ProviderOrdering

CONSTANTS
  Requests,   \* what a request finds when it arrives, described below
  MaxTime,    \* bound: the clock, in ticks, while the store is awaited
  MaxFaults   \* bound: store operations that fail

(* The answers of a provider the code tells apart: 429, 503, 501, 404, 400. *)
Statuses == {"rate limited", "server error", "not implemented", "not found", "rejected"}

Circuits == {"closed", "open", "expired", "half-open"}

(* roster: the providers' records, with the circuit and the cooldown the store
   had; policy: of the account, unless the alias has its own; eligible: the
   providers the alias names, or all of them; localOnly: an owned machine takes
   part in routing as the only kind of provider. *)
ASSUME FailoverAssumption ==
  /\ MaxTime \in Nat /\ MaxFaults \in Nat
  /\ \A r \in Requests :
       /\ DOMAIN r = {"roster", "policy", "settings", "eligible", "localOnly"}
       /\ r.settings.maxAttempts \in Nat \ {0}
       /\ r.settings.retryCodes \subseteq Statuses
       /\ {r.settings.timeout, r.settings.probeTimeout, r.settings.deadline}
            \subseteq 1..MaxTime
       /\ r.settings.backoff \in Nat /\ r.settings.maxBackoff \in Nat
       /\ r.settings.backoff <= r.settings.maxBackoff
       /\ r.settings.multiplier \in Nat \ {0}
       /\ r.policy.strategy \in {"priority", "round-robin", "measured"}
       /\ r.policy.cursor \in Nat
       /\ r.eligible \subseteq Providers
       /\ \A p \in Providers :
            /\ r.roster[p].circuit \in Circuits /\ r.roster[p].support \in Supports
            /\ r.roster[p].override \in Nat /\ r.roster[p].count \in Nat
            /\ r.roster[p].cooling \in BOOLEAN /\ r.roster[p].used \in Nat
            /\ r.roster[p].tier \in Int /\ r.roster[p].key \in Int
       /\ r.localOnly => \E p \in Providers : r.roster[p].local

VARIABLES
  request,     \* [roster, policy, settings, eligible, localOnly]
  phase,
  pool,        \* compatible providers with quota left
  candidates, index,
  runtime,     \* ProviderRuntime: circuit, failures counted, cooldown, timeout
  isHalfOpen,  \* whether the call was begun as a probe
  now,         \* ticks since the request began
  timer, timerAt,   \* the attempt's timer: off, armed, fired
  byDeadline,  \* deadlineControlsTimeout
  aborted,     \* requestSignal.aborted
  linked,      \* the client's departure aborts the call
  leftIn,      \* history: the phase in which the client left
  attempts,    \* providerAttempts
  stage,       \* whether the outcome is handled in the try or in its catch
  decision, resumeAt,
  answer,
  faults       \* history: store operations that failed

clock == <<now, timer, timerAt, byDeadline>>
client == <<aborted, linked, leftIn>>
route == <<pool, candidates>>
vars == <<request, phase, pool, candidates, index, runtime, isHalfOpen, now, timer,
          timerAt, byDeadline, aborted, linked, leftIn, attempts, stage, decision,
          resumeAt, answer, faults>>

Undecided == [retry |-> FALSE, delay |-> 0, stop |-> "none"]

NoAnswer == [kind |-> "none", stop |-> "none", alive |-> TRUE]

Init ==
  /\ request \in Requests
  /\ phase = "arrived"
  /\ pool = {} /\ candidates = <<>> /\ index = 1
  /\ runtime = [p \in Providers |->
       [circuit |-> "closed", count |-> 0, cooling |-> FALSE, timeout |-> 0]]
  /\ isHalfOpen = FALSE
  /\ now = 0 /\ timer = "off" /\ timerAt = 0 /\ byDeadline = FALSE
  /\ aborted = FALSE /\ linked = FALSE /\ leftIn = "none"
  /\ attempts = <<>> /\ stage = "try"
  /\ decision = Undecided /\ resumeAt = 0
  /\ answer = NoAnswer /\ faults = 0

settings == request.settings

InFlight == phase \in {"calling", "validating", "reading"}
-----------------------------------------------------------------------------
(* Assembling the candidates. *)

(* createRoutedProviderRouter: a local-only machine excludes the clouds, and
   an alias names the providers it may use. *)
Considered(r) ==
  {p \in r.eligible : r.localOnly => r.roster[p].local}

Compatible(r) ==
  {p \in Considered(r) :
     MatchLevel(r.roster[p].support, r.policy.unknownMode) # "incompatible"}

WithQuota(r) == {p \in Compatible(r) : ~Exhausted(r.roster[p].used)}

Usable(r) == {p \in WithQuota(r) : ~r.roster[p].cooling}

Recoverable(r) == {p \in Usable(r) : r.roster[p].circuit \in {"expired", "half-open"}}

ClosedCircuits(r) == {p \in Usable(r) : r.roster[p].circuit = "closed"}

(* The probe the store grants: of the first recoverable provider, or, as the
   store may refuse some that other requests hold, of any other one or none. *)
Probes(r) == {<<>>} \cup {<<p>> : p \in Recoverable(r)}

Ordered(r, probe) == probe \o OrderByMatch(ClosedCircuits(r), r.roster, r.policy)

(* The input limit of a local provider, compared with the serialised body. *)
WithinInputLimit(r, seq) == Kept(seq, {p \in Providers : ~r.roster[p].oversized})

RuntimeAt(r, probe) ==
  [p \in Providers |->
     [circuit |-> IF probe = <<p>> THEN "half-open" ELSE r.roster[p].circuit,
      count |-> r.roster[p].count,
      cooling |-> r.roster[p].cooling,
      timeout |-> r.roster[p].override]]

Answered(kind, stop) ==
  /\ phase' = "answered"
  /\ answer' = [kind |-> kind, stop |-> stop, alive |-> TRUE]

(* The ranking is not needed any more: the loop only knows the order. *)
Forget(r) == [r EXCEPT !.roster = <<>>, !.policy = <<>>]

RefuseUnroutable ==
  /\ phase = "arrived"
  /\ \/ Considered(request) = {} /\ Answered("no providers", "none")
     \/ /\ Considered(request) # {} /\ Compatible(request) = {}
        /\ Answered("incompatible", "none")
     \/ /\ Compatible(request) # {} /\ WithQuota(request) = {}
        /\ Answered("quota exhausted", "none")
  /\ UNCHANGED <<request, route, isHalfOpen, index, runtime, clock, client, attempts,
                 stage, decision, resumeAt, faults>>

(* orderedCandidates, then the filter on the local input limit. *)
Order ==
  /\ phase = "arrived"
  /\ WithQuota(request) # {}
  /\ \E probe \in Probes(request) :
       LET ordered == Ordered(request, probe)
       IN /\ candidates' = WithinInputLimit(request, ordered)
          /\ runtime' = RuntimeAt(request, probe)
          /\ \/ candidates' # <<>> /\ phase' = "loop" /\ UNCHANGED answer
             \/ /\ candidates' = <<>> /\ ordered # <<>>
                /\ Answered("failed", "no_more_candidates")
             \/ ordered = <<>> /\ Answered("unavailable", "none")
  /\ pool' = WithQuota(request)
  /\ request' = Forget(request)
  /\ UNCHANGED <<isHalfOpen, index, clock, client, attempts, stage, decision, resumeAt,
                 faults>>

(* The store refuses the claim of a probe: nothing was called. *)
ClaimFails ==
  /\ phase = "arrived" /\ Recoverable(request) # {} /\ faults < MaxFaults
  /\ faults' = faults + 1
  /\ Answered("store error", "none")
  /\ UNCHANGED <<request, route, isHalfOpen, index, runtime, clock, client, attempts,
                 stage, decision, resumeAt>>
-----------------------------------------------------------------------------
(* Decisions. *)

provider == candidates[index]

AttemptNumber == Len(attempts) + 1

(* Mutant: one attempt more than the settings allow. *)
LastAttemptOffByOne(number) == number > settings.maxAttempts

LastAttempt(number) == number >= settings.maxAttempts

(* Mutant: the last but one candidate is taken for the last. *)
LastCandidateEarly == index + 1 >= Len(candidates)

LastCandidate == index >= Len(candidates)

Stop(reason) == [retry |-> FALSE, delay |-> 0, stop |-> reason]

(* immediateFailoverDecision *)
ImmediateFailover(number) ==
  CASE LastAttempt(number) -> Stop("maximum_attempts_reached")
    [] ~LastAttempt(number) /\ LastCandidate -> Stop("no_more_candidates")
    [] ~LastAttempt(number) /\ ~LastCandidate /\ now >= settings.deadline ->
         Stop("total_request_deadline_exceeded")
    [] OTHER -> [retry |-> TRUE, delay |-> 0, stop |-> "none"]

(* retryDelayMs: exponential, capped, and spread by half when jitter is on. *)
Delays(number) ==
  LET exponential[k \in 0..(number - 1)] ==
        IF k = 0 THEN settings.backoff ELSE settings.multiplier * exponential[k - 1]
      base == IF exponential[number - 1] <= settings.maxBackoff
              THEN exponential[number - 1] ELSE settings.maxBackoff
  IN IF settings.jitter THEN (base + 1) \div 2 .. (3 * base) \div 2 ELSE {base}

(* retryDecision, as the set of decisions the jitter may lead to. *)
RetryDecisions(retryable, number) ==
  CASE ~retryable -> {Stop("error_not_retryable")}
    [] retryable /\ LastAttempt(number) -> {Stop("maximum_attempts_reached")}
    [] retryable /\ ~LastAttempt(number) /\ LastCandidate ->
         {Stop("no_more_candidates")}
    [] OTHER ->
         {IF now + d >= settings.deadline THEN Stop("total_request_deadline_exceeded")
          ELSE [retry |-> TRUE, delay |-> d, stop |-> "none"] : d \in Delays(number)}

(* providerFailoverReason and the statuses nobody configured for a retry. *)
Isolated(status) == status = "not found" \/ status \notin settings.retryCodes

StatusDecisions(status, number) ==
  IF Isolated(status) THEN {ImmediateFailover(number)}
  ELSE RetryDecisions(TRUE, number)

(* The number of the call in hand, fixed when it began: a first record of it
   may have been pushed since. *)
CallNumber == IF InFlight THEN AttemptNumber ELSE Len(attempts)
-----------------------------------------------------------------------------
(* The runtime copy after an outcome. *)

ClosedRuntime(r) == [r EXCEPT !.circuit = "closed", !.count = 0]

(* recordCircuitFailure.  Whether the call is a probe was settled when it began:
   a probe that succeeded, but was not recorded, reopens the circuit. *)
FailedRuntimeOf(r) ==
  LET count == IF isHalfOpen /\ r.count + 1 < 3 THEN 3 ELSE r.count + 1
  IN [r EXCEPT !.count = IF count > 3 THEN 3 ELSE count,
               !.circuit = IF isHalfOpen \/ count >= 3 THEN "open" ELSE @]

(* Mutant: a rate limited probe takes back the failure it stood for. *)
CooledUncounted(r) ==
  [r EXCEPT !.count = IF isHalfOpen THEN r.count - 3 ELSE @,
            !.circuit = IF isHalfOpen THEN "closed" ELSE @, !.cooling = TRUE]

(* 429 *)
CooledRuntime(r) ==
  [(IF isHalfOpen THEN ClosedRuntime(r) ELSE r) EXCEPT !.cooling = TRUE]

RuntimeAfter(r, status) ==
  CASE status = "rate limited" -> CooledRuntime(r)
    [] status \in {"server error", "not implemented"} -> FailedRuntimeOf(r)
    [] OTHER -> r

Attempted(success) == Append(attempts, [provider |-> provider, success |-> success])

(* What a handler of an outcome leaves behind before it awaits the store. *)
RecordOutcome(success, after, next, where) ==
  /\ attempts' = Attempted(success)
  /\ runtime' = [runtime EXCEPT ![provider] = after]
  /\ decision' = next
  /\ stage' = where
  /\ phase' = "recording"
-----------------------------------------------------------------------------
(* The loop. *)

TimeoutOf(p) ==
  IF runtime[p].circuit = "half-open" THEN settings.probeTimeout
  ELSE IF runtime[p].timeout > 0 THEN runtime[p].timeout ELSE settings.timeout

Remaining == settings.deadline - now

(* Mutant: an attempt's timer is not shortened to what is left. *)
CallTimeoutUncapped(p) == TimeoutOf(p)

CallTimeout(p) == IF TimeoutOf(p) <= Remaining THEN TimeoutOf(p) ELSE Remaining

MayBegin ==
  index <= Len(candidates) /\ Remaining > 0 /\ ~LastAttempt(Len(attempts))

(* A new call: its timer, and the client's signal if it has not fired yet. *)
BeginCall ==
  /\ phase = "loop" /\ MayBegin
  /\ phase' = "calling"
  /\ timer' = "armed"
  /\ timerAt' = now + CallTimeout(provider)
  /\ byDeadline' = (Remaining <= TimeoutOf(provider))
  /\ linked' = ~aborted
  /\ isHalfOpen' = (runtime[provider].circuit = "half-open")
  /\ stage' = "try"
  /\ UNCHANGED <<request, route, index, runtime, now, aborted, leftIn, attempts,
                 decision, resumeAt, answer, faults>>

(* throwIfEveryProviderUnavailable: a cooldown may have lapsed meanwhile. *)
NoneAvailable(lapsed) ==
  /\ pool # {}
  /\ \A p \in pool : \/ runtime[p].cooling /\ p \notin lapsed
                     \/ runtime[p].circuit # "closed"

GiveUp(stop) ==
  \E lapsed \in SUBSET {p \in pool : runtime[p].cooling} :
    Answered(IF NoneAvailable(lapsed) THEN "unavailable" ELSE "failed", stop)

StopReason ==
  CASE index > Len(candidates) -> "no_more_candidates"
    [] index <= Len(candidates) /\ Remaining <= 0 -> "total_request_deadline_exceeded"
    [] OTHER -> "maximum_attempts_reached"

StopLoop ==
  /\ phase = "loop" /\ ~MayBegin
  /\ GiveUp(StopReason)
  /\ UNCHANGED <<request, route, isHalfOpen, index, runtime, clock, client, attempts,
                 stage, decision, resumeAt, faults>>

(* The headers are there and the body is read: all of a success that is JSON,
   and of an error to learn its message. *)
HeadersArrive ==
  /\ phase = "calling"
  /\ phase' \in {"validating", "reading"}
  /\ UNCHANGED <<request, route, index, runtime, isHalfOpen, clock, client, attempts,
                 stage, decision, resumeAt, answer, faults>>

(* A stream, or a body of another type, is not read before it is returned. *)
Succeed ==
  /\ phase \in {"calling", "validating"}
  /\ RecordOutcome(TRUE, ClosedRuntime(runtime[provider]),
                   [Undecided EXCEPT !.stop = "answered"], "try")
  /\ UNCHANGED <<request, route, index, isHalfOpen, clock, client, resumeAt, answer,
                 faults>>

MalformedOutcome ==
  \E d \in RetryDecisions(settings.retryMalformed, CallNumber) :
    RecordOutcome(FALSE, FailedRuntimeOf(runtime[provider]), d, "try")

(* A 2xx that streams nothing, or whose body is not JSON or cannot be read. *)
Malformed ==
  /\ phase \in {"calling", "validating"}
  /\ MalformedOutcome
  /\ UNCHANGED <<request, route, index, isHalfOpen, clock, client, resumeAt, answer,
                 faults>>

ErrorOutcome ==
  \E status \in Statuses : \E d \in StatusDecisions(status, CallNumber) :
    RecordOutcome(FALSE, RuntimeAfter(runtime[provider], status), d, "try")

(* The status, with what its body says or, if that cannot be read, without. *)
ErrorStatus ==
  /\ phase = "reading"
  /\ ErrorOutcome
  /\ UNCHANGED <<request, route, index, isHalfOpen, clock, client, resumeAt, answer,
                 faults>>

(* An abort while a body is read ends in the catch of its reader, which takes
   it for an invalid body or for an error without a message. *)
BodyAborted ==
  \/ phase = "validating" /\ MalformedOutcome
  \/ phase = "reading" /\ ErrorOutcome

(* The catch of the loop: a network error, the attempt's timer, or whatever
   the handling of an outcome threw. *)
Caught(expired) ==
  \E d \in (IF expired /\ byDeadline THEN {Stop("total_request_deadline_exceeded")}
            ELSE RetryDecisions(settings.retryNetwork, CallNumber)) :
    RecordOutcome(FALSE, FailedRuntimeOf(runtime[provider]), d, "catch")

(* Nobody is told of a failure after the client has gone. *)
NetworkError ==
  /\ phase = "calling"
  /\ \/ ~aborted /\ Caught(FALSE) /\ UNCHANGED answer
     \/ /\ aborted /\ Answered("client gone", "none")
        /\ UNCHANGED <<runtime, attempts, decision, stage>>
  /\ UNCHANGED <<request, route, index, isHalfOpen, clock, client, resumeAt, faults>>

TimerDue ==
  (InFlight \/ phase = "recording") /\ timer = "armed" /\ now >= timerAt

(* Mutant: only the deadline of the request aborts a call. *)
TimerFiresForDeadline ==
  /\ TimerDue
  /\ timer' = "fired"
  /\ \/ phase = "calling" /\ byDeadline /\ Caught(TRUE)
     \/ BodyAborted
     \/ /\ phase = "calling" => ~byDeadline
        /\ phase \in {"calling", "recording"}
        /\ UNCHANGED <<attempts, runtime, decision, stage, phase>>
  /\ UNCHANGED <<request, route, index, isHalfOpen, now, timerAt, byDeadline, client,
                 resumeAt, answer, faults>>

(* It aborts a call in flight or the body that is being read; while an outcome
   is being recorded it aborts a body that nobody has read. *)
TimerFires ==
  /\ TimerDue
  /\ timer' = "fired"
  /\ \/ phase = "calling" /\ Caught(TRUE)
     \/ BodyAborted
     \/ phase = "recording" /\ UNCHANGED <<attempts, runtime, decision, stage, phase>>
  /\ UNCHANGED <<request, route, index, isHalfOpen, now, timerAt, byDeadline, client,
                 resumeAt, answer, faults>>

(* Mutant: the retry goes to the provider that has just failed. *)
NextIterationSame ==
  /\ phase' = "loop" /\ index' = index
  /\ UNCHANGED <<runtime, attempts, decision, stage, resumeAt, answer>>

NextIteration ==
  /\ phase' = "loop" /\ index' = index + 1
  /\ UNCHANGED <<runtime, attempts, decision, stage, resumeAt, answer>>

(* waitForRetryDelay: no wait for no delay, and a wait that a departed client
   ends at once.  The error it throws is caught by the loop if it was thrown
   in the try, and by nobody if it was thrown in the catch. *)
WaitRejected ==
  IF stage = "try" /\ timer = "fired"
  THEN Caught(TRUE) /\ UNCHANGED <<index, resumeAt, answer>>
  ELSE /\ Answered("client gone", "none")
       /\ UNCHANGED <<index, runtime, attempts, decision, stage, resumeAt>>

(* The body is dead if the attempt's timer, or the client, aborted the call
   after its headers came. *)
BodyAlive == timer = "armed" /\ ~(linked /\ aborted)

(* Mutant: a body that died while its success was recorded is replaced by a
   call to the next provider. *)
ReturnAlive ==
  IF BodyAlive
  THEN /\ phase' = "answered"
       /\ answer' = [kind |-> "response", stop |-> "none", alive |-> TRUE]
       /\ UNCHANGED <<index, runtime, attempts, decision, stage, resumeAt>>
  ELSE NextIteration

Return ==
  /\ phase' = "answered"
  /\ answer' = [kind |-> "response", stop |-> "none", alive |-> BodyAlive]
  /\ UNCHANGED <<index, runtime, attempts, decision, stage, resumeAt>>

Recorded ==
  /\ phase = "recording"
  /\ \/ decision.stop = "answered" /\ Return /\ UNCHANGED timer
     \/ /\ decision.stop # "answered" /\ ~decision.retry
        /\ GiveUp(decision.stop)
        /\ UNCHANGED <<index, runtime, attempts, decision, stage, resumeAt, timer>>
     \/ decision.retry /\ decision.delay = 0 /\ NextIteration /\ timer' = "off"
     \/ decision.retry /\ decision.delay > 0 /\ aborted /\ WaitRejected /\ UNCHANGED timer
     \/ /\ decision.retry /\ decision.delay > 0 /\ ~aborted
        /\ phase' = "waiting" /\ resumeAt' = now + decision.delay
        /\ timer' = IF timer = "armed" THEN "off" ELSE timer
        /\ UNCHANGED <<index, runtime, attempts, decision, stage, answer>>
  /\ UNCHANGED <<request, route, isHalfOpen, now, timerAt, byDeadline, client, faults>>

(* The store fails while an outcome is recorded. *)
RecordFails ==
  /\ phase = "recording" /\ faults < MaxFaults
  /\ faults' = faults + 1
  /\ \/ /\ stage = "catch"
        /\ Answered("store error", "none")
        /\ UNCHANGED <<runtime, attempts, decision, stage>>
     \/ /\ stage = "try" /\ aborted /\ timer # "fired"
        /\ Answered("client gone", "none")
        /\ UNCHANGED <<runtime, attempts, decision, stage>>
     \/ /\ stage = "try" /\ (aborted => timer = "fired")
        /\ Caught(timer = "fired") /\ UNCHANGED answer
  /\ UNCHANGED <<request, route, isHalfOpen, index, clock, client, resumeAt>>

Resume ==
  /\ phase = "waiting" /\ now >= resumeAt
  /\ timer' = "off"
  /\ NextIteration
  /\ UNCHANGED <<request, route, isHalfOpen, now, timerAt, byDeadline, client, faults>>

(* Mutant: nobody listens to the client during a backoff. *)
ClientLeavesUnheard ==
  /\ phase \notin {"answered"} /\ ~aborted
  /\ aborted' = TRUE /\ leftIn' = phase
  /\ UNCHANGED <<request, phase, route, isHalfOpen, index, runtime, clock, linked,
                 attempts, stage, decision, resumeAt, answer, faults>>

ClientLeaves ==
  /\ phase # "answered" /\ ~aborted
  /\ aborted' = TRUE /\ leftIn' = phase
  /\ \/ /\ phase = "calling" /\ Answered("client gone", "none")
        /\ UNCHANGED <<index, runtime, attempts, decision, stage, resumeAt>>
     \/ BodyAborted /\ UNCHANGED <<index, resumeAt, answer>>
     \/ phase = "waiting" /\ WaitRejected
     \/ /\ phase \in {"arrived", "loop", "recording"}
        /\ UNCHANGED <<phase, index, runtime, attempts, decision, stage, resumeAt,
                       answer>>
  /\ UNCHANGED <<request, route, isHalfOpen, clock, linked, faults>>

(* Timers fire when they are due: the assumption under which the deadline is
   a statement about the code and not about its host. *)
Tick ==
  /\ InFlight \/ phase \in {"recording", "waiting"}
  /\ phase # "waiting" => now < MaxTime
  /\ phase # "waiting" /\ timer = "armed" => now < timerAt
  /\ phase = "waiting" => now < resumeAt
  /\ now' = now + 1
  /\ UNCHANGED <<request, phase, route, isHalfOpen, index, runtime, timer, timerAt,
                 byDeadline, client, attempts, stage, decision, resumeAt, answer,
                 faults>>

Next ==
  \/ RefuseUnroutable \/ Order \/ ClaimFails
  \/ BeginCall \/ StopLoop
  \/ HeadersArrive \/ Succeed \/ Malformed \/ ErrorStatus \/ NetworkError \/ TimerFires
  \/ Recorded \/ RecordFails \/ Resume
  \/ ClientLeaves \/ Tick

(* The event loop runs what is due, and the store answers; a provider need
   not answer at all. *)
Fairness ==
  /\ WF_vars(RefuseUnroutable \/ Order) /\ WF_vars(BeginCall \/ StopLoop)
  /\ WF_vars(TimerFires) /\ WF_vars(Recorded) /\ WF_vars(Resume) /\ WF_vars(Tick)

Spec == Init /\ [][Next]_vars /\ Fairness
-----------------------------------------------------------------------------
Answers == {"none", "no providers", "incompatible", "quota exhausted", "unavailable",
            "failed", "response", "client gone", "store error"}

Stops == {"none", "answered", "no_more_candidates", "maximum_attempts_reached",
          "error_not_retryable", "total_request_deadline_exceeded"}

TypeOK ==
  /\ phase \in {"arrived", "loop", "calling", "validating", "reading", "recording",
               "waiting", "answered"}
  /\ pool \subseteq Providers
  /\ candidates \in Seq(Providers) /\ index \in Nat \ {0}
  /\ runtime \in [Providers -> [circuit : Circuits, count : Nat, cooling : BOOLEAN,
                                timeout : Nat]]
  /\ isHalfOpen \in BOOLEAN
  /\ now \in Nat /\ timer \in {"off", "armed", "fired"} /\ timerAt \in Nat
  /\ byDeadline \in BOOLEAN /\ aborted \in BOOLEAN /\ linked \in BOOLEAN
  /\ leftIn \in {"none", "arrived", "loop", "calling", "validating", "reading",
                "recording", "waiting"}
  /\ attempts \in Seq([provider : Providers, success : BOOLEAN])
  /\ stage \in {"try", "catch"}
  /\ decision \in [retry : BOOLEAN, delay : Nat, stop : Stops]
  /\ resumeAt \in Nat /\ faults \in Nat
  /\ answer \in [kind : Answers, stop : Stops, alive : BOOLEAN]

Called == IF phase \in {"arrived", "loop"} THEN index - 1 ELSE index

(* No request reaches more providers than the settings allow, however its
   attempts fail and whatever the store does (chatCompletion's loop head and
   the two decisions each check it). *)
CallsBounded == InFlight => Called <= settings.maxAttempts

(* The deadline of the request ends every call: each timer is cut to what the
   earlier attempts, backoffs and recordings have left. *)
DeadlineHolds == InFlight => now <= settings.deadline

(* The stop reason of a failed request is the bound that was reached. *)
StopReasonTrue ==
  answer.kind \in {"failed", "unavailable"} =>
    CASE answer.stop = "maximum_attempts_reached" ->
           Len(attempts) >= settings.maxAttempts
      [] answer.stop = "no_more_candidates" -> index >= Len(candidates)
      [] answer.stop = "total_request_deadline_exceeded" ->
           2 * now + 3 * settings.maxBackoff >= 2 * settings.deadline
      [] answer.stop = "error_not_retryable" ->
           ~settings.retryNetwork \/ ~settings.retryMalformed
      [] answer.stop = "none" -> attempts = <<>>
      [] OTHER -> FALSE

(* A client that leaves while its call waits for headers, or during a backoff,
   costs no further call, whatever the store does at the same time.  One that
   leaves while a body is read or an outcome is recorded still may: the readers
   of bodies swallow the abort, and the recording does not look at it. *)
AbortedRequestStops ==
  InFlight /\ aborted =>
    leftIn \in {"arrived", "loop", "validating", "reading", "recording"}

(* Unless the store fails, a valid answer is the last call of its request. *)
SuccessIsFinal ==
  InFlight /\ faults = 0 => \A k \in DOMAIN attempts : ~attempts[k].success

(* Each call is recorded once, for its own provider, while the store works and
   the client stays: the persisted counters and the circuit rest on it. *)
RecordedOnce ==
  faults = 0 /\ ~aborted =>
    \A j, k \in DOMAIN attempts :
      attempts[j].provider = attempts[k].provider => j = k

(* The providers tried are the usable ones, each once, a granted probe first
   and the others by their capabilities, what is left of their quotas, their
   tiers and the policy: the priority, the turn the cursor has come to, or the
   measure and then the priority.  The input limit only takes providers out. *)
RankedCandidates ==
  [][phase = "arrived" /\ phase' = "loop" =>
       LET roster == request.roster
           pooled == ClosedCircuits(request)
           fitting == {p \in pooled : ~roster[p].oversized}
           probing == runtime'[candidates'[1]].circuit = "half-open"
           rest == IF probing THEN Tail(candidates') ELSE candidates'
       IN WellRanked(rest, fitting, pooled, roster, request.policy)]_vars

(* Every request is answered, however silent its providers are. *)
EveryRequestAnswered == <>(phase = "answered")

=============================================================================

--------------------------- MODULE StreamRelayProofs ---------------------------
(***************************************************************************)
(* Theorems about StreamRelay, for any requests, pieces of text, tool       *)
(* names, indices and length of the streams: its types, that a failed       *)
(* stream of an owned machine is counted once, that the provider is told    *)
(* the whole conversation, that the clients of /v1/messages and of          *)
(* /v1/responses read only legal events and end with what the provider      *)
(* said, and that no client takes a broken stream for a complete answer.    *)
(*                                                                          *)
(* The translators and the clients are folds over sequences of any length.  *)
(* What a fold makes of one more member is FoldLemmas.  For /v1/messages    *)
(* what holds after every chunk (Following), after the end (Told) and after *)
(* a break (Cut) relates the translator, the client's reading of its events *)
(* and what was said; for /v1/responses these are Follows, Replied and      *)
(* ReplyCut, in the last part.  All are kept chunk by chunk.                *)
(***************************************************************************)
EXTENDS StreamRelay, SequenceLemmas

(* Where a request can be in each of its phases. *)
RelayTypes ==
  /\ request \in Requests
  /\ phase \in {"arrived", "routed", "relaying", "draining", "usage", "reconciling",
                "logging", "ended"}
  /\ upstream \in {"open", "closed", "broken", "none"}
  /\ sent \in Seq(request.chunks) /\ Len(sent) <= MaxChunks
  /\ status \in {"none", "ok", "error"}
  /\ nodeError \in BOOLEAN /\ client \in {"here", "gone"}
  /\ reclassified \in Nat /\ nodeFailures \in Nat
  /\ logged \in {"none", "success", "failure"} /\ faults \in 0..MaxFaults

Untold == writer = [events |-> <<>>]

PlaceInv ==
  /\ phase \in {"arrived", "routed"} => sent = <<>> /\ Untold
  /\ phase \in {"arrived", "routed", "relaying", "draining"} => upstream = "open"
  /\ phase \in {"relaying", "draining", "reconciling"} => request.streaming
  /\ phase = "draining" => ~translated
  /\ phase \in {"usage", "reconciling", "logging"} => upstream = "closed"
  /\ phase \in {"usage", "logging"} /\ ~request.streaming =>
       Untold /\ \E chunk \in request.chunks : IsWhole(chunk) /\ sent = <<chunk>>
  /\ upstream = "broken" => phase = "ended"

Failed(chunks) == \E k \in DOMAIN chunks : chunks[k].kind = "node error"

(* What has been counted and logged: nothing before the stream is reconciled, then
   what its failure calls for, each record at most once, and before the log. *)
CountInv ==
  /\ nodeError => request.local /\ request.streaming
  /\ phase \notin {"logging", "ended"} => reclassified = 0 /\ nodeFailures = 0
  /\ phase # "ended" => logged = "none"
  /\ phase = "logging" =>
       reclassified = (IF nodeError THEN 1 ELSE 0) /\ nodeFailures = reclassified
  /\ reclassified <= 1 /\ nodeFailures <= 1
  /\ reclassified # 0 \/ nodeFailures # 0 => nodeError /\ upstream = "closed"
  /\ nodeError /\ logged # "none" =>
       logged = "failure" /\ reclassified = 1 /\ nodeFailures = 1
  /\ phase = "ended" /\ faults = 0 /\ upstream = "closed" /\ nodeError =>
       logged = "failure"
  /\ upstream = "broken" => logged = "none"
  /\ phase = "ended" /\ upstream = "none" => logged = "failure" \/ faults # 0
  /\ Failed(sent) <=> nodeError

RelayInv == RelayTypes /\ PlaceInv /\ CountInv

LEMMA RelayInvInit == Init => RelayInv
<1> SUFFICES ASSUME Init PROVE RelayInv
  OBVIOUS
<1> USE DEF Init
<1>1. RelayTypes
  <2>1. sent \in Seq(request.chunks) /\ Len(sent) = 0
    OBVIOUS
  <2>2. MaxChunks \in Nat /\ MaxFaults \in Nat
    BY RelayAssumption
  <2>3. Len(sent) <= MaxChunks /\ faults \in 0..MaxFaults
    BY <2>1, <2>2
  <2>4. /\ request \in Requests /\ phase = "arrived" /\ upstream = "open"
        /\ status = "none" /\ nodeError = FALSE /\ client = "here" /\ logged = "none"
        /\ reclassified = 0 /\ nodeFailures = 0
    OBVIOUS
  <2> HIDE DEF Init
  <2>5. QED
    BY <2>1, <2>3, <2>4, Zenon DEF RelayTypes
<1>2. PlaceInv
  BY DEF PlaceInv, Untold
<1>3. CountInv
  BY DEF CountInv, Failed
<1>4. QED
  BY <1>1, <1>2, <1>3 DEF RelayInv

(* A chunk after others. *)
LEMMA OneMoreChunk ==
  ASSUME NEW C, NEW s \in Seq(C), NEW chunk \in C
  PROVE  /\ Append(s, chunk) \in Seq(C) /\ Len(Append(s, chunk)) = Len(s) + 1
         /\ Failed(Append(s, chunk)) <=> Failed(s) \/ chunk.kind = "node error"
<1>1. DOMAIN s = 1..Len(s) /\ Len(s) \in Nat /\ DOMAIN Append(s, chunk) = 1..Len(s) + 1
  OBVIOUS
<1>2. \A k \in 1..Len(s) : Append(s, chunk)[k] = s[k]
  OBVIOUS
<1>3. Append(s, chunk)[Len(s) + 1] = chunk
  OBVIOUS
<1>4. 1..Len(s) + 1 = 1..Len(s) \cup {Len(s) + 1}
  BY <1>1
<1>5. Append(s, chunk) \in Seq(C) /\ Len(Append(s, chunk)) = Len(s) + 1
  OBVIOUS
<1>6. Failed(Append(s, chunk)) <=>
        \E k \in 1..Len(s) \cup {Len(s) + 1} : Append(s, chunk)[k].kind = "node error"
  BY <1>1, <1>4, Zenon DEF Failed
<1>7. Failed(Append(s, chunk)) <=> Failed(s) \/ chunk.kind = "node error"
  BY <1>1, <1>2, <1>3, <1>6, Zenon DEF Failed
<1>8. QED
  BY <1>5, <1>7

LEMMA FirstChunk ==
  ASSUME NEW C, NEW chunk \in C
  PROVE  /\ <<chunk>> \in Seq(C) /\ Len(<<chunk>>) = 1
         /\ Failed(<<chunk>>) <=> chunk.kind = "node error"
<1>1. DOMAIN <<chunk>> = {1} /\ <<chunk>>[1] = chunk
  OBVIOUS
<1>2. Failed(<<chunk>>) <=> chunk.kind = "node error"
  BY <1>1, Zenon DEF Failed
<1>3. <<chunk>> \in Seq(C) /\ Len(<<chunk>>) = 1
  OBVIOUS
<1>4. QED
  BY <1>2, <1>3

LEMMA TypesStep == RelayInv /\ [Next]_vars => RelayTypes'
<1> SUFFICES ASSUME RelayInv, [Next]_vars PROVE RelayTypes'
  OBVIOUS
<1>0. RelayTypes /\ MaxChunks \in Nat \ {0} /\ MaxFaults \in Nat
  BY RelayAssumption DEF RelayInv
<1> USE <1>0 DEF RelayTypes
<1>1. ASSUME TranslateRequest PROVE RelayTypes'
  BY <1>1 DEF TranslateRequest, stored
<1>2. ASSUME RoutingFails PROVE RelayTypes'
  BY <1>2 DEF RoutingFails
<1>3. ASSUME NEW chunk \in request.chunks, Prime(chunk) PROVE RelayTypes'
  <2>1. sent' \in Seq(request.chunks) /\ Len(sent') <= MaxChunks /\ request' = request
    <3>1. sent' = <<chunk>> /\ request' = request
      BY <1>3 DEF Prime
    <3>2. <<chunk>> \in Seq(request.chunks) /\ Len(<<chunk>>) = 1
      BY FirstChunk
    <3>3. QED
      BY <3>1, <3>2
  <2>2. nodeError' \in BOOLEAN /\ phase' \in {"relaying", "draining"}
    BY <1>3 DEF Prime, Observed, Relayed
  <2>3. QED
    BY <1>3, <2>1, <2>2 DEF Prime, stored
<1>4. ASSUME PrimeEmpty PROVE RelayTypes'
  BY <1>4 DEF PrimeEmpty, stored
<1>5. ASSUME NEW chunk \in request.chunks, PrimeWhole(chunk) PROVE RelayTypes'
  <2>1. sent' \in Seq(request.chunks) /\ Len(sent') <= MaxChunks /\ request' = request
    <3>1. sent' = <<chunk>> /\ request' = request
      BY <1>5 DEF PrimeWhole
    <3>2. <<chunk>> \in Seq(request.chunks) /\ Len(<<chunk>>) = 1
      BY FirstChunk
    <3>3. QED
      BY <3>1, <3>2
  <2>2. QED
    BY <1>5, <2>1 DEF PrimeWhole, stored
<1>6. ASSUME PrimeBreaks PROVE RelayTypes'
  BY <1>6 DEF PrimeBreaks, stored
<1>7. ASSUME NEW chunk \in request.chunks, Relay(chunk) PROVE RelayTypes'
  <2>1. sent' \in Seq(request.chunks) /\ Len(sent') <= MaxChunks /\ request' = request
    BY <1>7 DEF Relay
  <2>2. nodeError' \in BOOLEAN /\ phase' \in {"relaying", "draining"}
    BY <1>7 DEF Relay, Observed, Relayed
  <2>3. QED
    BY <1>7, <2>1, <2>2 DEF Relay, stored
<1>8. ASSUME Drain PROVE RelayTypes'
  BY <1>8 DEF Drain, stored
<1>9. ASSUME UpstreamCloses PROVE RelayTypes'
  BY <1>9 DEF UpstreamCloses, stored
<1>10. ASSUME UpstreamBreaks PROVE RelayTypes'
  BY <1>10 DEF UpstreamBreaks, stored
<1>11. ASSUME NEW chunk \in request.chunks, ReadWhole(chunk) PROVE RelayTypes'
  <2>1. sent' \in Seq(request.chunks) /\ Len(sent') <= MaxChunks /\ request' = request
    <3>1. sent' = <<chunk>> /\ request' = request
      BY <1>11 DEF ReadWhole
    <3>2. <<chunk>> \in Seq(request.chunks) /\ Len(<<chunk>>) = 1
      BY FirstChunk
    <3>3. QED
      BY <3>1, <3>2
  <2>2. QED
    BY <1>11, <2>1 DEF ReadWhole, stored
<1>12. ASSUME RecordUsage PROVE RelayTypes'
  BY <1>12 DEF RecordUsage, stored
<1>13. ASSUME Reconcile PROVE RelayTypes'
  BY <1>13 DEF Reconcile
<1>14. ASSUME ReconcileFails PROVE RelayTypes'
  BY <1>14 DEF ReconcileFails
<1>15. ASSUME WriteLog PROVE RelayTypes'
  BY <1>15 DEF WriteLog
<1>16. ASSUME StoreFails PROVE RelayTypes'
  BY <1>16 DEF StoreFails
<1>17. ASSUME ClientLeaves PROVE RelayTypes'
  BY <1>17 DEF ClientLeaves, stored
<1>18. ASSUME UNCHANGED vars PROVE RelayTypes'
  BY <1>18 DEF vars, stored
<1>19. QED
  BY <1>1, <1>2, <1>3, <1>4, <1>5, <1>6, <1>7, <1>8, <1>9, <1>10, <1>11, <1>12, <1>13,
     <1>14, <1>15, <1>16, <1>17, <1>18 DEF Next, Upstream

LEMMA PlaceStep == RelayInv /\ [Next]_vars => PlaceInv'
<1> SUFFICES ASSUME RelayInv, [Next]_vars PROVE PlaceInv'
  OBVIOUS
<1>0. RelayTypes /\ PlaceInv
  BY DEF RelayInv
<1> USE <1>0 DEF PlaceInv, Untold, translated
<1>1. ASSUME TranslateRequest PROVE PlaceInv'
  BY <1>1 DEF TranslateRequest, stored
<1>2. ASSUME RoutingFails PROVE PlaceInv'
  BY <1>2 DEF RoutingFails
<1>3. ASSUME NEW chunk \in request.chunks, Prime(chunk) PROVE PlaceInv'
  BY <1>3 DEF Prime, stored, Relayed
<1>4. ASSUME PrimeEmpty PROVE PlaceInv'
  BY <1>4 DEF PrimeEmpty, stored
<1>5. ASSUME NEW chunk \in request.chunks, PrimeWhole(chunk) PROVE PlaceInv'
  BY <1>5 DEF PrimeWhole, stored
<1>6. ASSUME PrimeBreaks PROVE PlaceInv'
  BY <1>6 DEF PrimeBreaks, stored
<1>7. ASSUME NEW chunk \in request.chunks, Relay(chunk) PROVE PlaceInv'
  BY <1>7 DEF Relay, stored, Relayed
<1>8. ASSUME Drain PROVE PlaceInv'
  BY <1>8 DEF Drain, stored
<1>9. ASSUME UpstreamCloses PROVE PlaceInv'
  BY <1>9 DEF UpstreamCloses, stored
<1>10. ASSUME UpstreamBreaks PROVE PlaceInv'
  BY <1>10 DEF UpstreamBreaks, stored
<1>11. ASSUME NEW chunk \in request.chunks, ReadWhole(chunk) PROVE PlaceInv'
  BY <1>11 DEF ReadWhole, stored
<1>12. ASSUME RecordUsage PROVE PlaceInv'
  BY <1>12 DEF RecordUsage, stored
<1>13. ASSUME Reconcile PROVE PlaceInv'
  BY <1>13 DEF Reconcile
<1>14. ASSUME ReconcileFails PROVE PlaceInv'
  BY <1>14 DEF ReconcileFails
<1>15. ASSUME WriteLog PROVE PlaceInv'
  BY <1>15 DEF WriteLog
<1>16. ASSUME StoreFails PROVE PlaceInv'
  BY <1>16 DEF StoreFails
<1>17. ASSUME ClientLeaves PROVE PlaceInv'
  BY <1>17 DEF ClientLeaves, stored
<1>18. ASSUME UNCHANGED vars PROVE PlaceInv'
  BY <1>18 DEF vars, stored
<1>19. QED
  BY <1>1, <1>2, <1>3, <1>4, <1>5, <1>6, <1>7, <1>8, <1>9, <1>10, <1>11, <1>12, <1>13,
     <1>14, <1>15, <1>16, <1>17, <1>18 DEF Next, Upstream

(* Before the provider's first chunk no failure has been seen. *)
LEMMA Untouched == RelayInv /\ phase = "routed" => ~nodeError
<1> SUFFICES ASSUME RelayInv, phase = "routed" PROVE ~nodeError
  OBVIOUS
<1>1. sent = <<>> /\ (Failed(sent) <=> nodeError)
  BY DEF RelayInv, PlaceInv, CountInv
<1>2. ~Failed(<<>>)
  BY DEF Failed
<1>3. QED
  BY <1>1, <1>2

LEMMA CountStep == RelayInv /\ [Next]_vars => CountInv'
<1> SUFFICES ASSUME RelayInv, [Next]_vars PROVE CountInv'
  OBVIOUS
<1>0. RelayTypes /\ PlaceInv /\ CountInv /\ MaxFaults \in Nat
  BY RelayAssumption DEF RelayInv
<1>a. \A chunk \in request.chunks : chunk.kind = "node error" => request.local
  BY <1>0, RelayAssumption DEF RelayTypes
<1>b. faults \in Nat /\ faults + 1 # 0
  BY <1>0 DEF RelayTypes
<1> USE <1>0 DEF CountInv
<1>1. ASSUME TranslateRequest PROVE CountInv'
  BY <1>1 DEF TranslateRequest, stored, PlaceInv
<1>2. ASSUME RoutingFails PROVE CountInv'
  BY <1>2, <1>b, Untouched DEF RoutingFails, PlaceInv
<1>3. ASSUME NEW chunk \in request.chunks, Prime(chunk) PROVE CountInv'
  <2>1. ~nodeError
    BY <1>3, Untouched DEF Prime
  <2>2. nodeError' = (chunk.kind = "node error")
    BY <1>3, <2>1 DEF Prime, Observed
  <2>3. Failed(sent') <=> chunk.kind = "node error"
    BY <1>3, FirstChunk DEF Prime
  <2>4. /\ UNCHANGED <<request, upstream, stored>> /\ phase \notin {"logging", "ended"}
        /\ phase' \notin {"logging", "ended"} /\ request.streaming
    BY <1>3 DEF Prime, Relayed
  <2>5. QED
    BY <1>a, <2>2, <2>3, <2>4 DEF stored
<1>4. ASSUME PrimeEmpty PROVE CountInv'
  BY <1>4 DEF PrimeEmpty, stored
<1>5. ASSUME NEW chunk \in request.chunks, PrimeWhole(chunk) PROVE CountInv'
  <2>1. ~nodeError
    BY <1>5, Untouched DEF PrimeWhole
  <2>2. ~Failed(sent')
    BY <1>5, FirstChunk DEF PrimeWhole, IsWhole
  <2>3. QED
    BY <1>5, <2>1, <2>2 DEF PrimeWhole, stored
<1>6. ASSUME PrimeBreaks PROVE CountInv'
  BY <1>6, Untouched DEF PrimeBreaks, stored
<1>7. ASSUME NEW chunk \in request.chunks, Relay(chunk) PROVE CountInv'
  <2>2. nodeError' = (chunk.kind = "node error")
    BY <1>7 DEF Relay, Observed
  <2>3. Failed(sent') <=> chunk.kind = "node error"
    <3>1. sent' = Append(sent, chunk) /\ ~nodeError
      BY <1>7 DEF Relay
    <3>2. QED
      BY <3>1, OneMoreChunk DEF RelayTypes
  <2>4. /\ UNCHANGED <<request, upstream, stored>> /\ phase \notin {"logging", "ended"}
        /\ phase' \notin {"logging", "ended"} /\ request.streaming
    BY <1>7 DEF Relay, Relayed, PlaceInv
  <2>5. QED
    BY <1>a, <2>2, <2>3, <2>4 DEF stored
<1>8. ASSUME Drain PROVE CountInv'
  BY <1>8 DEF Drain, stored
<1>9. ASSUME UpstreamCloses PROVE CountInv'
  BY <1>9 DEF UpstreamCloses, stored
<1>10. ASSUME UpstreamBreaks PROVE CountInv'
  BY <1>10 DEF UpstreamBreaks, stored
<1>11. ASSUME NEW chunk \in request.chunks, ReadWhole(chunk) PROVE CountInv'
  <2>1. ~nodeError
    BY <1>11, Untouched DEF ReadWhole
  <2>2. ~Failed(sent')
    BY <1>11, FirstChunk DEF ReadWhole, IsWhole
  <2>3. QED
    BY <1>11, <2>1, <2>2 DEF ReadWhole, stored
<1>12. ASSUME RecordUsage PROVE CountInv'
  BY <1>12 DEF RecordUsage, stored
<1>13. ASSUME Reconcile PROVE CountInv'
  <2>1. Reconciled <=> nodeError
    BY DEF Reconciled
  <2>2. reclassified = 0 /\ nodeFailures = 0 /\ upstream = "closed"
    BY <1>13 DEF Reconcile, PlaceInv
  <2>3. /\ phase' = "logging" /\ UNCHANGED <<request, upstream, sent, nodeError, logged>>
        /\ reclassified' = (IF nodeError THEN 1 ELSE 0)
        /\ nodeFailures' = (IF nodeError THEN 1 ELSE 0)
    BY <1>13, <2>1, <2>2 DEF Reconcile
  <2>4. logged = "none" /\ upstream # "broken"
    BY <1>13, <2>2 DEF Reconcile
  <2>5. QED
    BY <2>2, <2>3, <2>4
<1>14. ASSUME ReconcileFails PROVE CountInv'
  <2>1. reclassified = 0 /\ nodeFailures = 0 /\ upstream = "closed"
    BY <1>14 DEF ReconcileFails, PlaceInv
  <2>2. /\ phase' = "ended" /\ UNCHANGED <<request, upstream, sent, nodeError, logged>>
        /\ faults' # 0 /\ logged = "none" /\ nodeError
    BY <1>14, <1>b DEF ReconcileFails, Reconciled
  <2>3. PICK one \in {<<0, 0>>, <<0, 1>>, <<1, 0>>} :
          reclassified' = reclassified + one[1] /\ nodeFailures' = nodeFailures + one[2]
    BY <1>14 DEF ReconcileFails
  <2>4. reclassified' <= 1 /\ nodeFailures' <= 1
    BY <2>1, <2>3
  <2>5. QED
    BY <2>1, <2>2, <2>4
<1>15. ASSUME WriteLog PROVE CountInv'
  BY <1>15 DEF WriteLog, Reconciled, PlaceInv
<1>16. ASSUME StoreFails PROVE CountInv'
  BY <1>16, <1>b DEF StoreFails, PlaceInv
<1>17. ASSUME ClientLeaves PROVE CountInv'
  BY <1>17 DEF ClientLeaves, stored
<1>18. ASSUME UNCHANGED vars PROVE CountInv'
  BY <1>18 DEF vars, stored
<1>19. QED
  BY <1>1, <1>2, <1>3, <1>4, <1>5, <1>6, <1>7, <1>8, <1>9, <1>10, <1>11, <1>12, <1>13,
     <1>14, <1>15, <1>16, <1>17, <1>18 DEF Next, Upstream

(* The invariant of every step of a request, from which its types and the count of
   its failure follow. *)
THEOREM RelayInvariant == Spec => []RelayInv
<1>1. RelayInv /\ [Next]_vars => RelayInv'
  BY TypesStep, PlaceStep, CountStep DEF RelayInv
<1>2. QED
  BY RelayInvInit, <1>1, PTL DEF Spec

(* Every variable keeps its type: server.ts never counts a failed stream twice. *)
THEOREM RelayTypesHold == Spec => []TypeOK
<1>1. RelayInv => TypeOK
  <2>1. ASSUME RelayInv PROVE ToSet(sent) \subseteq request.chunks
    BY <2>1 DEF RelayInv, RelayTypes, ToSet
  <2>2. ASSUME RelayInv PROVE reclassified \in 0..1 /\ nodeFailures \in 0..1
    <3>1. reclassified \in Nat /\ reclassified <= 1
      BY <2>2 DEF RelayInv, RelayTypes, CountInv
    <3>2. nodeFailures \in Nat /\ nodeFailures <= 1
      BY <2>2 DEF RelayInv, RelayTypes, CountInv
    <3>3. QED
      BY <3>1, <3>2
  <2>3. QED
    BY <2>1, <2>2 DEF RelayInv, RelayTypes, TypeOK
<1>2. QED
  BY RelayInvariant, <1>1, PTL

(* The error event of an owned machine's agent is counted at most once in each record,
   in both before it is logged, never logged as a success, and with a working store
   counted and logged (reconcileLocalStreamFailure); a stream that breaks off is
   neither counted nor logged. *)
THEOREM FailureCountedOnce == Spec => []FailureCounted
<1>1. ASSUME RelayInv PROVE FailureCounted
  <2> DEFINE failed == \E k \in DOMAIN sent : sent[k].kind = "node error"
  <2>1. failed <=> nodeError
    BY <1>1 DEF RelayInv, CountInv, Failed
  <2>a. MaxFaults \in Nat
    BY RelayAssumption
  <2>b. faults \in 0..MaxFaults
    BY <1>1 DEF RelayInv, RelayTypes
  <2>c. faults \in Nat
    BY <2>a, <2>b
  <2>2. /\ reclassified \in Nat /\ nodeFailures \in Nat /\ faults \in Nat
        /\ logged \in {"none", "success", "failure"}
    BY <1>1, <2>c DEF RelayInv, RelayTypes
  <2> HIDE DEF failed
  <2>3. <<reclassified, nodeFailures>> # <<0, 0>> => reclassified # 0 \/ nodeFailures # 0
    OBVIOUS
  <2>4. /\ reclassified <= 1 /\ nodeFailures <= 1
        /\ <<reclassified, nodeFailures>> # <<0, 0>> => failed /\ upstream = "closed"
    BY <1>1, <2>1, <2>3 DEF RelayInv, CountInv
  <2>5. failed => /\ logged # "success"
                  /\ logged = "failure" => <<reclassified, nodeFailures>> = <<1, 1>>
    BY <1>1, <2>1 DEF RelayInv, CountInv
  <2>6. /\ phase = "ended" /\ upstream = "closed" /\ failed /\ faults = 0 => logged = "failure"
        /\ phase = "ended" /\ upstream = "none" => logged = "failure" \/ faults > 0
    BY <1>1, <2>1, <2>2 DEF RelayInv, CountInv
  <2>7. upstream = "broken" => <<reclassified, nodeFailures>> = <<0, 0>> /\ logged = "none"
    BY <1>1 DEF RelayInv, CountInv
  <2>8. QED
    BY <2>4, <2>5, <2>6, <2>7 DEF FailureCounted, failed
<1>2. QED
  BY RelayInvariant, <1>1, PTL
-----------------------------------------------------------------------------
(* What the folds of the translators and of the clients do with one more member. *)

Messages == INSTANCE FoldLemmas WITH Op <- MessageEvent

Responses == INSTANCE FoldLemmas WITH Op <- ResponseEvent

Gathering == INSTANCE FoldLemmas WITH Op <- Accumulate

Tools == INSTANCE FoldLemmas WITH Op <- ToolFragment

Accumulated(base, fragments) == FoldLeft(Accumulate, base, fragments)

ToolsFolded(t, fragments) == FoldLeft(ToolFragment, t, fragments)

LEMMA Induction ==
  \A T : 0 \in T /\ (\A m \in Nat : m \in T => m + 1 \in T) => Nat \subseteq T
BY SetInduction

LEMMA ReadMessageIs == \A s : ReadMessage(s) = Messages!Fold(NoMessage, s)
BY DEF ReadMessage, FoldLeft, MapThenFoldSet, Max, Messages!Fold, Messages!Largest

LEMMA ReadNothing == ReadMessage(<<>>) = NoMessage
BY ReadMessageIs, Messages!FoldNothing, Induction

LEMMA ReadAppend ==
  ASSUME NEW E, NEW ev \in Seq(E), NEW e \in E
  PROVE  ReadMessage(Append(ev, e)) = MessageEvent(ReadMessage(ev), e)
BY ReadMessageIs, Messages!FoldAppend, Induction

LEMMA AccumulatedIs == \A base, s : Accumulated(base, s) = Gathering!Fold(base, s)
BY DEF Accumulated, FoldLeft, MapThenFoldSet, Max, Gathering!Fold, Gathering!Largest

LEMMA AccumulateNothing ==
  ASSUME NEW base
  PROVE  Accumulated(base, <<>>) = base
BY AccumulatedIs, Gathering!FoldNothing, Induction

LEMMA AccumulateAppend ==
  ASSUME NEW E, NEW base, NEW ev \in Seq(E), NEW e \in E
  PROVE  Accumulated(base, Append(ev, e)) = Accumulate(Accumulated(base, ev), e)
BY AccumulatedIs, Gathering!FoldAppend, Induction

LEMMA ReadResponseMore ==
  /\ ReadResponse(<<>>) = NoResponse
  /\ \A E : \A ev \in Seq(E), e \in E :
       ReadResponse(Append(ev, e)) = ResponseEvent(ReadResponse(ev), e)
<1>1. \A s : ReadResponse(s) = Responses!Fold(NoResponse, s)
  BY DEF ReadResponse, FoldLeft, MapThenFoldSet, Max, Responses!Fold, Responses!Largest
<1>2. ReadResponse(<<>>) = NoResponse
  BY <1>1, Responses!FoldNothing, Induction
<1>3. ASSUME NEW E, NEW ev \in Seq(E), NEW e \in E
      PROVE  ReadResponse(Append(ev, e)) = ResponseEvent(ReadResponse(ev), e)
  BY <1>1, Responses!FoldAppend, Induction
<1>4. QED
  BY <1>2, <1>3

LEMMA ToolsMore ==
  /\ \A t : ToolsFolded(t, <<>>) = t
  /\ \A E, t : \A s \in Seq(E), e \in E :
       ToolsFolded(t, Append(s, e)) = ToolFragment(ToolsFolded(t, s), e)
<1>1. \A t, s : ToolsFolded(t, s) = Tools!Fold(t, s)
  BY DEF ToolsFolded, FoldLeft, MapThenFoldSet, Max, Tools!Fold, Tools!Largest
<1>2. \A t : ToolsFolded(t, <<>>) = t
  BY <1>1, Tools!FoldNothing, Induction
<1>3. ASSUME NEW E, NEW t, NEW s \in Seq(E), NEW e \in E
      PROVE  ToolsFolded(t, Append(s, e)) = ToolFragment(ToolsFolded(t, s), e)
  BY <1>1, Tools!FoldAppend, Induction
<1>4. QED
  BY <1>2, <1>3
-----------------------------------------------------------------------------
(* The client of /v1/messages: what an event makes of what it has read. *)

(* The pieces of the events are those of the provider and the translator's own. *)
Own == {"text", "unknown", "tool_use", "max_tokens", "end_turn"}

Texts == Seq(Pieces \cup Own)

Kinds == {"message_start", "content_block_start", "content_block_delta",
          "content_block_stop", "message_delta", "message_stop", "error"}

Empty == <<>>

Events == [kind : Kinds, index : Int, name : Texts, body : Texts]

BlockSet == [name : Texts, body : Texts, closed : BOOLEAN]

Reading(legal, state, blocks, stop) ==
  [legal |-> legal, state |-> state, blocks |-> blocks, stop |-> stop]

(* A client that has read nothing but legal events. *)
Reader(state, blocks, stop) == Reading(TRUE, state, blocks, stop)

Part(name, body, closed) == [name |-> name, body |-> body, closed |-> closed]

Begun(bs, name, body) == Append(bs, Part(name, body, FALSE))

Ended(bs, name, body) == Append(bs, Part(name, body, TRUE))

Closed(blocks) == \A b \in DOMAIN blocks : blocks[b].closed

WithBlocks(c, legal, bs) == [c EXCEPT !.legal = legal, !.blocks = bs]

SetBlocks(c, bs) == [c EXCEPT !.blocks = bs]

SetBody(p, body) == [p EXCEPT !.body = body]

SetClosed(p, closed) == [p EXCEPT !.closed = closed]

LEMMA OneField ==
  ASSUME NEW legal, NEW state, NEW bs, NEW stop, NEW new
  PROVE  SetBlocks(Reading(legal, state, bs, stop), new) = Reading(legal, state, new, stop)
BY SMT DEF Reading, SetBlocks

LEMMA TwoFields ==
  ASSUME NEW legal, NEW state, NEW bs, NEW stop, NEW new, NEW ok
  PROVE  WithBlocks(Reading(legal, state, bs, stop), ok, new) = Reading(ok, state, new, stop)
<1> DEFINE r == Reading(legal, state, bs, stop)
           q == Reading(ok, state, new, stop)
           f == [k \in {"legal", "state", "blocks", "stop"} |->
                   IF k = "blocks" THEN new ELSE IF k = "legal" THEN ok ELSE r[k]]
<1>1. WithBlocks(r, ok, new) = f
  BY Zenon DEF Reading, WithBlocks
<1>2. q = f
  BY DEF Reading
<1>3. QED
  BY <1>1, <1>2

LEMMA OnlyBlocks ==
  ASSUME NEW state, NEW bs, NEW stop, NEW new
  PROVE  /\ SetBlocks(Reader(state, bs, stop), new) = Reader(state, new, stop)
         /\ WithBlocks(Reader(state, bs, stop), TRUE, new) = Reader(state, new, stop)
<1>1. SetBlocks(Reader(state, bs, stop), new) = Reader(state, new, stop)
  BY OneField, Zenon DEF Reader
<1>2. WithBlocks(Reader(state, bs, stop), TRUE, new) = Reader(state, new, stop)
  <2>1. SUFFICES ASSUME NEW yes, yes = TRUE
                 PROVE  WithBlocks(Reading(yes, state, bs, stop), yes, new)
                          = Reading(yes, state, new, stop)
    BY DEF Reader
  <2>2. QED
    BY TwoFields
<1>3. QED
  BY <1>1, <1>2

LEMMA OnlyClosed ==
  ASSUME NEW name, NEW body, NEW closed, NEW new
  PROVE  SetClosed(Part(name, body, closed), new) = Part(name, body, new)
BY SMT DEF Part, SetClosed

LEMMA OnlyBody ==
  ASSUME NEW name, NEW body, NEW closed, NEW new
  PROVE  SetBody(Part(name, body, closed), new) = Part(name, new, closed)
BY SMT DEF Part, SetBody

LEMMA ReadStart ==
  MessageEvent(NoMessage, Plainly("message_start")) = Reader("open", <<>>, "none")
BY Zenon DEF MessageEvent, NoMessage, Plainly, Event, Reader, Reading

LEMMA BlockStart ==
  ASSUME NEW bs \in Seq(BlockSet), Closed(bs), NEW name \in Texts, NEW body, NEW stop,
         NEW at, at = Len(bs)
  PROVE  MessageEvent(Reader("open", bs, stop),
                      Event("content_block_start", at, name, body))
           = Reader("open", Begun(bs, name, Empty), stop)
<1> DEFINE c == Reader("open", bs, stop)
           e == Event("content_block_start", at, name, body)
           new == Begun(bs, name, Empty)
<1>1. e.kind = "content_block_start" /\ e.index = at /\ e.name = name
  BY DEF Event
<1>2. c.legal = TRUE /\ c.state = "open" /\ c.blocks = bs /\ c.stop = stop
  BY DEF Reader, Reading
<1>3. MessageEvent(c, e) = Blocked(c, e)
  BY <1>1 DEF MessageEvent
<1>4. Blocked(c, e) = WithBlocks(c, TRUE, new)
  BY <1>1, <1>2, Zenon DEF Blocked, Closed, Part, WithBlocks, Begun, Ended, Empty
<1>5. WithBlocks(c, TRUE, new) = Reader("open", new, stop)
  <2> HIDE DEF new
  <2>1. QED
    BY OnlyBlocks, Zenon
<1>6. QED
  BY <1>3, <1>4, <1>5, Zenon

LEMMA BlockDelta ==
  ASSUME NEW bs \in Seq(BlockSet), NEW name \in Texts, NEW body \in Texts, NEW text \in Texts,
         NEW other, NEW stop, NEW at, at = Len(bs)
  PROVE  MessageEvent(Reader("open", Begun(bs, name, body), stop),
                      Event("content_block_delta", at, other, text))
           = Reader("open", Begun(bs, name, body \o text), stop)
<1> DEFINE old == Begun(bs, name, body)
           new == Begun(bs, name, body \o text)
           c == Reader("open", old, stop)
           e == Event("content_block_delta", at, other, text)
           i == Len(bs) + 1
<1>1. e.kind = "content_block_delta" /\ e.index = at /\ e.body = text
  BY DEF Event
<1>2. c.legal = TRUE /\ c.state = "open" /\ c.blocks = old /\ c.stop = stop
  BY DEF Reader, Reading
<1>3. MessageEvent(c, e) = Blocked(c, e)
  BY <1>1 DEF MessageEvent
<1>4. /\ i \in DOMAIN old /\ old[i] = Part(name, body, FALSE) /\ ~old[i].closed
      /\ old[i].body = body
  BY DEF Part, Begun, Ended
<1>5. Blocked(c, e) = [c EXCEPT !.blocks[i].body = @ \o text]
  BY <1>1, <1>2, <1>4, Zenon DEF Blocked
<1>6. At(old, i, SetBody(old[i], body \o text)) = new
  <2>1. SetBody(Part(name, body, FALSE), body \o text) = Part(name, body \o text, FALSE)
    BY OnlyBody, Zenon
  <2>2. At(old, i, Part(name, body \o text, FALSE)) = new
    <3>1. body \o text \in Texts
      BY DEF Texts
    <3>2. Part(name, body, FALSE) \in BlockSet /\ Part(name, body \o text, FALSE) \in BlockSet
      BY <3>1 DEF Part, BlockSet
    <3>3. QED
      BY <3>2, LastReplaced, Zenon DEF Begun, Ended
  <2>3. QED
    BY <1>4, <2>1, <2>2, Zenon
<1>7. [c EXCEPT !.blocks[i].body = @ \o text] = Reader("open", new, stop)
  <2>1. [c EXCEPT !.blocks[i].body = @ \o text]
          = SetBlocks(c, At(old, i, SetBody(old[i], body \o text)))
    BY <1>2, <1>4, Zenon DEF SetBlocks, At, SetBody
  <2>2. SetBlocks(c, new) = Reader("open", new, stop)
    <3> HIDE DEF old, new
    <3>1. QED
      BY OnlyBlocks, Zenon
  <2>3. QED
    BY <1>6, <2>1, <2>2, Zenon
<1>8. QED
  BY <1>3, <1>5, <1>7

LEMMA BlockStop ==
  ASSUME NEW bs \in Seq(BlockSet), NEW name \in Texts, NEW body \in Texts, NEW text,
         NEW other, NEW stop, NEW at, at = Len(bs)
  PROVE  MessageEvent(Reader("open", Begun(bs, name, body), stop),
                      Event("content_block_stop", at, other, text))
           = Reader("open", Ended(bs, name, body), stop)
<1> DEFINE old == Begun(bs, name, body)
           new == Ended(bs, name, body)
           c == Reader("open", old, stop)
           e == Event("content_block_stop", at, other, text)
           i == Len(bs) + 1
<1>1. e.kind = "content_block_stop" /\ e.index = at
  BY DEF Event
<1>2. c.legal = TRUE /\ c.state = "open" /\ c.blocks = old /\ c.stop = stop
  BY DEF Reader, Reading
<1>3. MessageEvent(c, e) = Blocked(c, e)
  BY <1>1 DEF MessageEvent
<1>4. /\ i \in DOMAIN old /\ old[i] = Part(name, body, FALSE) /\ ~old[i].closed
  BY DEF Part, Begun, Ended
<1>5. Blocked(c, e) = [c EXCEPT !.blocks[i].closed = TRUE]
  BY <1>1, <1>2, <1>4, Zenon DEF Blocked
<1>6. At(old, i, SetClosed(old[i], TRUE)) = new
  <2>1. SetClosed(Part(name, body, FALSE), TRUE) = Part(name, body, TRUE)
    BY OnlyClosed, Zenon
  <2>2. At(old, i, Part(name, body, TRUE)) = new
    <3>1. Part(name, body, FALSE) \in BlockSet /\ Part(name, body, TRUE) \in BlockSet
      BY DEF Part, BlockSet
    <3>2. QED
      BY <3>1, LastReplaced, Zenon DEF Begun, Ended
  <2>3. QED
    BY <1>4, <2>1, <2>2, Zenon
<1>7. [c EXCEPT !.blocks[i].closed = TRUE] = Reader("open", new, stop)
  <2>1. [c EXCEPT !.blocks[i].closed = TRUE]
          = SetBlocks(c, At(old, i, SetClosed(old[i], TRUE)))
    BY <1>2, <1>4, Zenon DEF SetBlocks, At, SetClosed
  <2>2. SetBlocks(c, new) = Reader("open", new, stop)
    BY OnlyBlocks, Zenon
  <2>3. QED
    BY <1>6, <2>1, <2>2, Zenon
<1>8. QED
  BY <1>3, <1>5, <1>7

LEMMA ReadEnd ==
  ASSUME NEW bs, Closed(bs), NEW stop, NEW reason
  PROVE  /\ MessageEvent(Reader("open", bs, stop),
                         Event("message_delta", Unset, <<reason>>, <<>>))
              = Reader("closing", bs, reason)
         /\ MessageEvent(Reader("closing", bs, reason), Plainly("message_stop"))
              = Reader("complete", bs, reason)
<1>1. MessageEvent(Reader("open", bs, stop),
                   Event("message_delta", Unset, <<reason>>, <<>>))
        = Reader("closing", bs, reason)
  BY Zenon DEF MessageEvent, Event, Reader, Reading, Closed
<1>2. MessageEvent(Reader("closing", bs, reason), Plainly("message_stop"))
        = Reader("complete", bs, reason)
  BY Zenon DEF MessageEvent, Event, Plainly, Reader, Reading
<1>3. QED
  BY <1>1, <1>2

LEMMA ReadError ==
  ASSUME NEW bs, NEW stop
  PROVE  /\ MessageEvent(Reader("open", bs, stop), Plainly("error"))
              = Reader("broken", bs, stop)
         /\ MessageEvent(Reader("complete", bs, stop), Plainly("error"))
              = Reader("complete", bs, stop)
<1>1. MessageEvent(Reader("open", bs, stop), Plainly("error"))
        = Reader("broken", bs, stop)
  BY Zenon DEF MessageEvent, Event, Plainly, Reader, Reading
<1>2. MessageEvent(Reader("complete", bs, stop), Plainly("error"))
        = Reader("complete", bs, stop)
  BY Zenon DEF MessageEvent, Event, Plainly, Reader, Reading
<1>3. QED
  BY <1>1, <1>2
-----------------------------------------------------------------------------
(* Several events more, and a tool call's block after the others. *)

(* Two events, three events more. *)
LEMMA AfterOne ==
  ASSUME NEW ev \in Seq(Events), NEW a \in Events
  PROVE  /\ ReadMessage(ev \o <<a>>) = MessageEvent(ReadMessage(ev), a)
         /\ ev \o <<a>> \in Seq(Events)
<1>1. ev \o <<a>> = Append(ev, a) /\ ev \o <<a>> \in Seq(Events)
  BY AppendIsConcat
<1>2. QED
  BY <1>1, ReadAppend, Zenon

LEMMA AfterTwo ==
  ASSUME NEW ev \in Seq(Events), NEW a \in Events, NEW b \in Events
  PROVE  /\ ReadMessage(ev \o <<a, b>>) = MessageEvent(MessageEvent(ReadMessage(ev), a), b)
         /\ ev \o <<a, b>> \in Seq(Events)
<1>1. ev \o <<a>> \in Seq(Events) /\ <<a>> \in Seq(Events) /\ <<a, b>> = Append(<<a>>, b)
  OBVIOUS
<1>2. ev \o Append(<<a>>, b) = Append(ev \o <<a>>, b)
  BY <1>1, AppendToConcat
<1>3. ReadMessage(Append(ev \o <<a>>, b)) = MessageEvent(ReadMessage(ev \o <<a>>), b)
  BY <1>1, ReadAppend, Zenon
<1>4. Append(ev \o <<a>>, b) \in Seq(Events)
  BY <1>1
<1>5. QED
  BY <1>1, <1>2, <1>3, <1>4, AfterOne, Zenon

LEMMA AfterThree ==
  ASSUME NEW ev \in Seq(Events), NEW a \in Events, NEW b \in Events, NEW c \in Events
  PROVE  /\ ReadMessage(ev \o <<a, b, c>>)
              = MessageEvent(MessageEvent(MessageEvent(ReadMessage(ev), a), b), c)
         /\ ev \o <<a, b, c>> \in Seq(Events)
<1>1. ev \o <<a, b>> \in Seq(Events) /\ <<a, b>> \in Seq(Events)
      /\ <<a, b, c>> = Append(<<a, b>>, c)
  OBVIOUS
<1>2. ev \o Append(<<a, b>>, c) = Append(ev \o <<a, b>>, c)
  BY <1>1, AppendToConcat
<1>3. ReadMessage(Append(ev \o <<a, b>>, c)) = MessageEvent(ReadMessage(ev \o <<a, b>>), c)
  BY <1>1, ReadAppend, Zenon
<1>4. Append(ev \o <<a, b>>, c) \in Seq(Events)
  BY <1>1
<1>5. QED
  BY <1>1, <1>2, <1>3, <1>4, AfterTwo, Zenon

LEMMA EventType ==
  ASSUME NEW kind \in Kinds, NEW index \in Int, NEW name \in Texts, NEW body \in Texts
  PROVE  Event(kind, index, name, body) \in Events
BY DEF Event, Events

LEMMA NoText == Empty \in Texts /\ <<"text">> \in Texts
BY DEF Texts, Empty, Own

LEMMA PartType ==
  ASSUME NEW name \in Texts, NEW body \in Texts, NEW closed \in BOOLEAN
  PROVE  Part(name, body, closed) \in BlockSet
BY DEF Part, BlockSet

LEMMA ClosedMore ==
  ASSUME NEW bs \in Seq(BlockSet), Closed(bs), NEW p \in BlockSet, p.closed
  PROVE  Append(bs, p) \in Seq(BlockSet) /\ Closed(Append(bs, p))
<1> DEFINE more == Append(bs, p)
<1>1. /\ more \in Seq(BlockSet) /\ Len(more) = Len(bs) + 1 /\ Len(bs) \in Nat
      /\ DOMAIN more = 1..Len(bs) + 1 /\ DOMAIN bs = 1..Len(bs)
      /\ more[Len(bs) + 1] = p /\ \A k \in 1..Len(bs) : more[k] = bs[k]
  OBVIOUS
<1> HIDE DEF more
<1>2. ASSUME NEW b \in 1..Len(bs) + 1 PROVE more[b].closed
  <2>1. b \in 1..Len(bs) \/ b = Len(bs) + 1
    BY <1>1
  <2>2. QED
    BY <1>1, <2>1, Zenon DEF Closed
<1>3. QED
  BY <1>1, <1>2 DEF Closed, more

(* A block of a tool: from its start to its end. *)
LEMMA ReadBlock ==
  ASSUME NEW ev \in Seq(Events), NEW bs \in Seq(BlockSet), Closed(bs), NEW stop,
         NEW name \in Texts, NEW body \in Texts, ReadMessage(ev) = Reader("open", bs, stop),
         NEW i, i = Len(bs)
  PROVE  /\ ReadMessage(ev \o Block(i, name, body))
              = Reader("open", Ended(bs, name, body), stop)
         /\ Block(i, name, body) \in Seq(Events)
         /\ ev \o Block(i, name, body) \in Seq(Events)
<1> DEFINE a == Event("content_block_start", i, name, Empty)
           b == Event("content_block_delta", i, Empty, body)
           c == Event("content_block_stop", i, Empty, Empty)
<1>0. i \in Int
  OBVIOUS
<1>1. a \in Events /\ b \in Events /\ c \in Events
  BY <1>0, NoText, EventType DEF Kinds
<1>2. MessageEvent(Reader("open", bs, stop), a)
        = Reader("open", Begun(bs, name, Empty), stop)
  BY BlockStart
<1>3. MessageEvent(Reader("open", Begun(bs, name, Empty), stop), b)
        = Reader("open", Begun(bs, name, body), stop)
  <2>1. Empty \o body = body
    BY DEF Texts, Empty
  <2>2. MessageEvent(Reader("open", Begun(bs, name, Empty), stop), b)
          = Reader("open", Begun(bs, name, Empty \o body), stop)
    BY NoText, BlockDelta
  <2>3. QED
    BY <2>1, <2>2
<1>4. MessageEvent(Reader("open", Begun(bs, name, body), stop), c)
        = Reader("open", Ended(bs, name, body), stop)
  BY BlockStop
<1>5. Block(i, name, body) = <<a, b, c>>
  BY DEF Block, Empty
<1> HIDE DEF a, b, c
<1>6. ReadMessage(ev \o <<a, b, c>>)
        = MessageEvent(MessageEvent(MessageEvent(ReadMessage(ev), a), b), c)
  BY <1>1, AfterThree
<1>7. <<a, b, c>> \in Seq(Events) /\ ev \o <<a, b, c>> \in Seq(Events)
  BY <1>1
<1>8. QED
  BY <1>2, <1>3, <1>4, <1>5, <1>6, <1>7, Zenon

LEMMA ReadBlockBehind ==
  ASSUME NEW ev \in Seq(Events), NEW before \in Seq(Events), NEW bs \in Seq(BlockSet),
         Closed(bs), NEW stop, NEW name \in Texts, NEW body \in Texts,
         ReadMessage(ev \o before) = Reader("open", bs, stop), NEW i, i = Len(bs)
  PROVE  ReadMessage(ev \o (before \o Block(i, name, body)))
           = Reader("open", Ended(bs, name, body), stop)
<1> DEFINE all == ev \o before
<1>1. all \in Seq(Events) /\ ReadMessage(all) = Reader("open", bs, stop)
  OBVIOUS
<1> HIDE DEF all
<1>2. /\ ReadMessage(all \o Block(i, name, body))
           = Reader("open", Ended(bs, name, body), stop)
      /\ Block(i, name, body) \in Seq(Events)
  BY <1>1, ReadBlock
<1>3. ev \o (before \o Block(i, name, body)) = all \o Block(i, name, body)
  BY <1>2, ConcatAssociates DEF all
<1>4. QED
  BY <1>2, <1>3

(* The beginning of a sequence, behind another one. *)
First(p, k) == [j \in 1..k |-> p[j]]

Behind(bs, p, k) == bs \o First(p, k)

LEMMA BehindMore ==
  ASSUME NEW E, NEW n \in Nat, NEW p \in [1..n -> E], NEW k \in 1..n, NEW bs \in Seq(E)
  PROVE  /\ Behind(bs, p, k) = Append(Behind(bs, p, k - 1), p[k])
         /\ Behind(bs, p, k - 1) \in Seq(E)
         /\ Len(Behind(bs, p, k - 1)) = Len(bs) + k - 1
<1> DEFINE old == First(p, k - 1)
           new == First(p, k)
<1>0. \A j \in 1..k : j \in 1..n /\ p[j] \in E
  OBVIOUS
<1>1. old \in Seq(E) /\ Len(old) = k - 1
  <2>1. old \in [1..(k - 1) -> E] /\ k - 1 \in Nat
    BY <1>0 DEF First
  <2>2. QED
    BY <2>1, FunctionIsSequence
<1>2. new \in Seq(E) /\ Len(new) = k
  <2>1. new \in [1..k -> E] /\ k \in Nat
    BY <1>0 DEF First
  <2>2. QED
    BY <2>1, FunctionIsSequence
<1>3. new[k] = p[k] /\ \A j \in 1..(k - 1) : new[j] = p[j] /\ old[j] = p[j]
  BY DEF First
<1> HIDE DEF old, new
<1>4. new = Append(old, p[k])
  <2> DEFINE q == Append(old, p[k])
  <2>1. /\ q \in Seq(E) /\ Len(q) = k /\ q[k] = p[k]
        /\ \A j \in 1..(k - 1) : q[j] = old[j]
    BY <1>0, <1>1
  <2>2. 1..k = 1..(k - 1) \cup {k}
    OBVIOUS
  <2> HIDE DEF q
  <2>3. \A j \in 1..k : new[j] = q[j]
    BY <1>3, <2>1, <2>2
  <2>4. new = q
    BY <1>2, <2>1, <2>3
  <2>5. QED
    BY <2>4 DEF q
<1>5. bs \o Append(old, p[k]) = Append(bs \o old, p[k])
  BY <1>0, <1>1, AppendToConcat
<1>6. bs \o old \in Seq(E) /\ Len(bs \o old) = Len(bs) + k - 1
  BY <1>1
<1>7. QED
  BY <1>4, <1>5, <1>6, Zenon DEF Behind, old, new

LEMMA BehindNothing ==
  ASSUME NEW E, NEW p, NEW bs \in Seq(E)
  PROVE  Behind(bs, p, 0) = bs
<1>1. First(p, 0) = <<>>
  BY DEF First
<1>2. bs \o <<>> = bs
  OBVIOUS
<1>3. QED
  BY <1>1, <1>2 DEF Behind

Parts(names, bodies, n) == [j \in 1..n |-> Part(names[j], bodies[j], TRUE)]

BlocksAt(at, names, bodies, n) == [k \in 1..n |-> Block(at + k - 1, names[k], bodies[k])]

(* A client that waits for the tools, or for the end. *)
ReadyToEnd(ev, bs, stop) ==
  /\ ev \in Seq(Events) /\ bs \in Seq(BlockSet) /\ Closed(bs)
  /\ ReadMessage(ev) = Reader("open", bs, stop)

ToTell(ev, bs, stop, n, names, bodies) ==
  /\ ReadyToEnd(ev, bs, stop) /\ n \in Nat
  /\ names \in [1..n -> Texts] /\ bodies \in [1..n -> Texts]

(* One block after the other. *)
LEMMA ReadBlocks ==
  ASSUME NEW ev, NEW bs, NEW stop, NEW n, NEW names, NEW bodies,
         ToTell(ev, bs, stop, n, names, bodies)
  PROVE  /\ ReadMessage(ev \o FlattenSeq(BlocksAt(Len(bs), names, bodies, n)))
              = Reader("open", Behind(bs, Parts(names, bodies, n), n), stop)
         /\ Closed(Behind(bs, Parts(names, bodies, n), n))
         /\ FlattenSeq(BlocksAt(Len(bs), names, bodies, n)) \in Seq(Events)
<1> SUFFICES ASSUME ev \in Seq(Events), bs \in Seq(BlockSet), Closed(bs),
                    ReadMessage(ev) = Reader("open", bs, stop), n \in Nat,
                    names \in [1..n -> Texts], bodies \in [1..n -> Texts]
             PROVE  /\ ReadMessage(ev \o FlattenSeq(BlocksAt(Len(bs), names, bodies, n)))
                         = Reader("open", Behind(bs, Parts(names, bodies, n), n), stop)
                    /\ Closed(Behind(bs, Parts(names, bodies, n), n))
                    /\ FlattenSeq(BlocksAt(Len(bs), names, bodies, n)) \in Seq(Events)
  BY DEF ToTell, ReadyToEnd
<1> DEFINE at == Len(bs)
<1> DEFINE p == Parts(names, bodies, n)
           s == BlocksAt(at, names, bodies, n)
<1>p. /\ p = [j \in 1..n |-> Part(names[j], bodies[j], TRUE)]
      /\ s = [k \in 1..n |-> Block(Len(bs) + k - 1, names[k], bodies[k])]
  BY DEF Parts, BlocksAt
<1> HIDE DEF p, s
<1>0. /\ p \in [1..n -> BlockSet]
      /\ \A k \in 1..n : /\ names[k] \in Texts /\ bodies[k] \in Texts
                         /\ p[k] = Part(names[k], bodies[k], TRUE) /\ p[k].closed
  BY <1>p, PartType, Zenon DEF Part
<1>b. \A k \in 1..n : /\ Behind(bs, p, k) = Append(Behind(bs, p, k - 1), p[k])
                      /\ Behind(bs, p, k - 1) \in Seq(BlockSet)
                      /\ Len(Behind(bs, p, k - 1)) = Len(bs) + k - 1
  <2>1. SUFFICES ASSUME NEW q \in [1..n -> BlockSet], NEW k \in 1..n
                 PROVE  /\ Behind(bs, q, k) = Append(Behind(bs, q, k - 1), q[k])
                        /\ Behind(bs, q, k - 1) \in Seq(BlockSet)
                        /\ Len(Behind(bs, q, k - 1)) = Len(bs) + k - 1
    BY <1>0, Zenon
  <2>2. QED
    BY BehindMore, Zenon
<1>1. s \in [1..n -> Seq(Events)]
  <2>1. ASSUME NEW i \in Int, NEW name \in Texts, NEW body \in Texts
        PROVE  Block(i, name, body) \in Seq(Events)
    <3> DEFINE a == Event("content_block_start", i, name, Empty)
               b == Event("content_block_delta", i, Empty, body)
               c == Event("content_block_stop", i, Empty, Empty)
    <3>1. a \in Events /\ b \in Events /\ c \in Events
      BY NoText, EventType DEF Kinds
    <3>2. Block(i, name, body) = <<a, b, c>>
      BY DEF Block, Empty
    <3> HIDE DEF a, b, c
    <3>3. QED
      BY <3>1, <3>2
  <2>2. \A k \in 1..n : Block(Len(bs) + k - 1, names[k], bodies[k]) \in Seq(Events)
    BY <2>1
  <2>3. QED
    BY <1>p, <2>2
<1>2. PICK h : Flattens(h, s, n, Events)
  BY <1>1, Flattening
<1>3. /\ h \in [0..n -> Seq(Events)] /\ h[0] = <<>> /\ FlattenSeq(s) = h[n]
      /\ \A k \in 1..n : h[k] = h[k - 1] \o s[k]
  BY <1>2, Zenon DEF Flattens
<1> DEFINE Good == {k \in 0..n : /\ ReadMessage(ev \o h[k]) = Reader("open", Behind(bs, p, k), stop)
                                 /\ Closed(Behind(bs, p, k))}
<1>4. 0 \in Good
  <2>1. Behind(bs, p, 0) = bs
    BY BehindNothing
  <2>2. ev \o h[0] = ev
    BY <1>3
  <2>3. 0 \in 0..n
    OBVIOUS
  <2>4. QED
    BY <2>1, <2>2, <2>3, Zenon
<1>5. ASSUME NEW k \in 1..n, k - 1 \in Good PROVE k \in Good
  <2>0. k - 1 \in 0..n /\ k \in 0..n
    OBVIOUS
  <2>1. /\ h[k] = h[k - 1] \o Block(Len(bs) + k - 1, names[k], bodies[k])
        /\ h[k - 1] \in Seq(Events)
    BY <1>p, <1>3, <2>0, Zenon
  <2>2. /\ Behind(bs, p, k) = Append(Behind(bs, p, k - 1), p[k])
        /\ Behind(bs, p, k - 1) \in Seq(BlockSet)
        /\ Len(Behind(bs, p, k - 1)) = Len(bs) + k - 1
    BY <1>b, Zenon
  <2>3. /\ ReadMessage(ev \o h[k - 1]) = Reader("open", Behind(bs, p, k - 1), stop)
        /\ Closed(Behind(bs, p, k - 1))
    BY <1>5
  <2>4. Ended(Behind(bs, p, k - 1), names[k], bodies[k]) = Behind(bs, p, k)
    BY <1>0, <2>2, Zenon DEF Begun, Ended
  <2>5. ReadMessage(ev \o h[k]) = Reader("open", Behind(bs, p, k), stop)
    <3> DEFINE before == h[k - 1]
               bsk == Behind(bs, p, k - 1)
               i == Len(bs) + k - 1
               name == names[k]
               body == bodies[k]
    <3>1. /\ before \in Seq(Events) /\ bsk \in Seq(BlockSet) /\ Closed(bsk)
          /\ ReadMessage(ev \o before) = Reader("open", bsk, stop)
          /\ i = Len(bsk) /\ name \in Texts /\ body \in Texts
      BY <1>0, <2>1, <2>2, <2>3
    <3> HIDE DEF before, bsk, i, name, body
    <3>2. ReadMessage(ev \o (before \o Block(i, name, body)))
            = Reader("open", Ended(bsk, name, body), stop)
      BY <3>1, ReadBlockBehind
    <3>3. QED
      BY <2>1, <2>4, <3>2 DEF before, bsk, i, name, body
  <2>6. Closed(Behind(bs, p, k))
    BY <1>0, <2>2, <2>3, ClosedMore, Zenon
  <2>7. QED
    BY <2>0, <2>5, <2>6
<1>6. n \in Good
  <2> HIDE DEF Good
  <2>1. \A k \in 0..n : k \in Good
    BY <1>4, <1>5, StepInduction, Zenon
  <2>2. QED
    BY <2>1
<1>7. FlattenSeq(s) \in Seq(Events)
  BY <1>1, FlattenType
<1>8. QED
  BY <1>3, <1>6, <1>7 DEF p, s
-----------------------------------------------------------------------------
(* The calls of fragments, each put together. *)
Indices(frags) == {f.index : f \in ToSet(frags)}

NamesOf(frags, i) == FlattenSeq([k \in DOMAIN frags |-> Mine(frags[k], i, frags[k].name)])

ArgsOf(frags, i) == FlattenSeq([k \in DOMAIN frags |-> Mine(frags[k], i, frags[k].args)])

Call(name, args) == [name |-> name, args |-> args]

Gathered(frags) == [i \in Indices(frags) |-> Call(NamesOf(frags, i), ArgsOf(frags, i))]

LEMMA IndicesMore ==
  ASSUME NEW frags \in Seq(Fragments), NEW f \in Fragments
  PROVE  Indices(Append(frags, f)) = Indices(frags) \cup {f.index}
BY MembersMore DEF Indices

LEMMA MineType ==
  ASSUME NEW f, NEW i, NEW part \in Seq(Pieces)
  PROVE  Mine(f, i, part) \in Seq(Pieces)
BY DEF Mine

LEMMA NamesType ==
  ASSUME NEW frags \in Seq(Fragments), NEW i
  PROVE  NamesOf(frags, i) \in Seq(Pieces) /\ ArgsOf(frags, i) \in Seq(Pieces)
<1> DEFINE n == Len(frags)
           s == [k \in 1..n |-> Mine(frags[k], i, frags[k].name)]
           u == [k \in 1..n |-> Mine(frags[k], i, frags[k].args)]
<1>1. n \in Nat /\ DOMAIN frags = 1..n /\ \A k \in 1..n : frags[k] \in Fragments
  OBVIOUS
<1> HIDE DEF n
<1>2. \A k \in 1..n : frags[k].name \in Seq(Pieces) /\ frags[k].args \in Seq(Pieces)
  BY <1>1 DEF Fragments
<1>3. s \in [1..n -> Seq(Pieces)] /\ u \in [1..n -> Seq(Pieces)]
  BY <1>2, MineType
<1>4. NamesOf(frags, i) = FlattenSeq(s) /\ ArgsOf(frags, i) = FlattenSeq(u)
  BY <1>1 DEF NamesOf, ArgsOf
<1> HIDE DEF s, u
<1>5. QED
  BY <1>1, <1>3, <1>4, FlattenType

LEMMA NamesMore ==
  ASSUME NEW frags \in Seq(Fragments), NEW f \in Fragments, NEW i
  PROVE  /\ NamesOf(Append(frags, f), i) = NamesOf(frags, i) \o Mine(f, i, f.name)
         /\ NamesOf(frags, i) \in Seq(Pieces)
         /\ ArgsOf(Append(frags, f), i) = ArgsOf(frags, i) \o Mine(f, i, f.args)
         /\ ArgsOf(frags, i) \in Seq(Pieces)
<1> DEFINE n == Len(frags)
           more == Append(frags, f)
<1>1. /\ n \in Nat /\ DOMAIN frags = 1..n /\ DOMAIN more = 1..n + 1 /\ more[n + 1] = f
      /\ \A k \in 1..n : more[k] = frags[k] /\ frags[k] \in Fragments
  OBVIOUS
<1>2. n + 1 \in 1..n + 1 /\ 1..n + 1 = 1..n \cup {n + 1}
  BY <1>1
<1> HIDE DEF more, n
<1>3. \A k \in 1..n + 1 : more[k] \in Fragments
  BY <1>1, <1>2
<1>4. /\ NamesOf(more, i) = NamesOf(frags, i) \o Mine(f, i, f.name)
      /\ NamesOf(frags, i) \in Seq(Pieces)
  <2> DEFINE s == [k \in 1..n |-> Mine(frags[k], i, frags[k].name)]
             u == [k \in 1..n + 1 |-> Mine(more[k], i, more[k].name)]
  <2>1. s \in [1..n -> Seq(Pieces)]
    <3>1. \A k \in 1..n : frags[k].name \in Seq(Pieces)
      BY <1>1 DEF Fragments
    <3>2. QED
      BY <3>1, MineType
  <2>2. u \in [1..n + 1 -> Seq(Pieces)]
    <3>1. \A k \in 1..n + 1 : more[k].name \in Seq(Pieces)
      BY <1>3 DEF Fragments
    <3>2. QED
      BY <3>1, MineType
  <2>3. (\A k \in 1..n : u[k] = s[k]) /\ u[n + 1] = Mine(f, i, f.name)
    BY <1>1, <1>2
  <2>4. NamesOf(more, i) = FlattenSeq(u) /\ NamesOf(frags, i) = FlattenSeq(s)
    BY <1>1 DEF NamesOf
  <2> HIDE DEF s, u
  <2>5. FlattenSeq(u) = FlattenSeq(s) \o u[n + 1] /\ FlattenSeq(s) \in Seq(Pieces)
    BY <1>1, <2>1, <2>2, <2>3, FlattenMore, FlattenType, Zenon
  <2>6. QED
    BY <2>3, <2>4, <2>5
<1>5. /\ ArgsOf(more, i) = ArgsOf(frags, i) \o Mine(f, i, f.args)
      /\ ArgsOf(frags, i) \in Seq(Pieces)
  <2> DEFINE s == [k \in 1..n |-> Mine(frags[k], i, frags[k].args)]
             u == [k \in 1..n + 1 |-> Mine(more[k], i, more[k].args)]
  <2>1. s \in [1..n -> Seq(Pieces)]
    <3>1. \A k \in 1..n : frags[k].args \in Seq(Pieces)
      BY <1>1 DEF Fragments
    <3>2. QED
      BY <3>1, MineType
  <2>2. u \in [1..n + 1 -> Seq(Pieces)]
    <3>1. \A k \in 1..n + 1 : more[k].args \in Seq(Pieces)
      BY <1>3 DEF Fragments
    <3>2. QED
      BY <3>1, MineType
  <2>3. (\A k \in 1..n : u[k] = s[k]) /\ u[n + 1] = Mine(f, i, f.args)
    BY <1>1, <1>2
  <2>4. ArgsOf(more, i) = FlattenSeq(u) /\ ArgsOf(frags, i) = FlattenSeq(s)
    BY <1>1 DEF ArgsOf
  <2> HIDE DEF s, u
  <2>5. FlattenSeq(u) = FlattenSeq(s) \o u[n + 1] /\ FlattenSeq(s) \in Seq(Pieces)
    BY <1>1, <2>1, <2>2, <2>3, FlattenMore, FlattenType, Zenon
  <2>6. QED
    BY <2>3, <2>4, <2>5
<1>6. QED
  BY <1>4, <1>5 DEF more

(* No part of a call that no fragment is about. *)
LEMMA NamesNone ==
  ASSUME NEW frags \in Seq(Fragments), NEW i, i \notin Indices(frags)
  PROVE  NamesOf(frags, i) = <<>> /\ ArgsOf(frags, i) = <<>>
<1>1. DOMAIN frags = 1..Len(frags) /\ Len(frags) \in Nat
  OBVIOUS
<1>2. \A k \in 1..Len(frags) : frags[k].index # i
  BY <1>1 DEF Indices, ToSet
<1>3. /\ [k \in 1..Len(frags) |-> Mine(frags[k], i, frags[k].name)]
           \in [1..Len(frags) -> {<<>>}]
      /\ [k \in 1..Len(frags) |-> Mine(frags[k], i, frags[k].args)]
           \in [1..Len(frags) -> {<<>>}]
  BY <1>2 DEF Mine
<1>4. QED
  BY <1>1, <1>3, FlattenNothing DEF NamesOf, ArgsOf

LEMMA GatherOne ==
  ASSUME NEW frags \in Seq(Fragments), NEW f \in Fragments
  PROVE  Accumulate(Gathered(frags), f) = Gathered(Append(frags, f))
<1> DEFINE old == Gathered(frags)
           new == Accumulate(old, f)
           at == f.index
           more == Append(frags, f)
<1>1. DOMAIN old = Indices(frags) /\ Indices(more) = Indices(frags) \cup {at}
  BY IndicesMore DEF Gathered
<1>2. \A i : /\ NamesOf(more, i) = NamesOf(frags, i) \o Mine(f, i, f.name)
             /\ NamesOf(frags, i) \in Seq(Pieces)
             /\ ArgsOf(more, i) = ArgsOf(frags, i) \o Mine(f, i, f.args)
             /\ ArgsOf(frags, i) \in Seq(Pieces)
  BY NamesMore, Zenon
<1>3. f.name \in Seq(Pieces) /\ f.args \in Seq(Pieces)
  BY DEF Fragments
<1> HIDE DEF more
<1> DEFINE name == IF at \in DOMAIN old THEN old[at].name ELSE <<>>
           args == IF at \in DOMAIN old THEN old[at].args ELSE <<>>
<1>4. name = NamesOf(frags, at) /\ args = ArgsOf(frags, at)
  <2>1. CASE at \in Indices(frags)
    BY <1>1, <2>1 DEF Gathered, Call
  <2>2. CASE at \notin Indices(frags)
    BY <1>1, <2>2, NamesNone
  <2>3. QED
    BY <2>1, <2>2
<1>5. new = [i \in {at} \cup DOMAIN old |->
               IF i = at THEN Call(name \o f.name, args \o f.args) ELSE old[i]]
  <2> DEFINE whole == Call(name \o f.name, args \o f.args)
  <2>1. new = With(old, at, whole)
    BY DEF Accumulate, Call
  <2> HIDE DEF whole, old, new
  <2>2. With(old, at, whole) = [i \in {at} \cup DOMAIN old |->
                                  IF i = at THEN whole ELSE old[i]]
    BY DEF With
  <2>3. QED
    BY <2>1, <2>2 DEF whole
<1> HIDE DEF name, args
<1>6. Call(name \o f.name, args \o f.args) = Call(NamesOf(more, at), ArgsOf(more, at))
  <2>1. Mine(f, at, f.name) = f.name /\ Mine(f, at, f.args) = f.args
    BY DEF Mine
  <2>2. QED
    BY <1>2, <1>4, <2>1, Zenon
<1>7. ASSUME NEW i \in Indices(frags), i # at
      PROVE  old[i] = Call(NamesOf(more, i), ArgsOf(more, i))
  <2>1. Mine(f, i, f.name) = <<>> /\ Mine(f, i, f.args) = <<>>
    BY <1>7 DEF Mine
  <2>2. NamesOf(more, i) = NamesOf(frags, i) /\ ArgsOf(more, i) = ArgsOf(frags, i)
    <3>1. \A p \in Seq(Pieces) : p \o <<>> = p
      OBVIOUS
    <3>2. QED
      BY <1>2, <2>1, <3>1, Zenon
  <2>3. QED
    BY <2>2 DEF Gathered
<1> HIDE DEF old, new
<1>8. new = [i \in Indices(more) |-> Call(NamesOf(more, i), ArgsOf(more, i))]
  BY <1>1, <1>5, <1>6, <1>7
<1>9. QED
  BY <1>8 DEF Gathered, more, new, old

LEMMA GatherNothing == Gathered(<<>>) = NoCalls
<1>1. Indices(<<>>) = {}
  BY DEF Indices, ToSet
<1>2. QED
  BY <1>1 DEF Gathered, NoCalls

LEMMA GatherAll ==
  ASSUME NEW frags \in Seq(Fragments), NEW more \in Seq(Fragments)
  PROVE  Accumulated(Gathered(frags), more) = Gathered(frags \o more)
<1> DEFINE S == {s \in Seq(Fragments) :
                   Accumulated(Gathered(frags), s) = Gathered(frags \o s)}
<1>1. <<>> \in S
  <2>1. frags \o <<>> = frags /\ <<>> \in Seq(Fragments)
    OBVIOUS
  <2>2. QED
    BY <2>1, AccumulateNothing
<1>2. ASSUME NEW s \in Seq(Fragments), NEW e \in Fragments, s \in S
      PROVE  Append(s, e) \in S
  <2>1. Append(s, e) \in Seq(Fragments) /\ frags \o s \in Seq(Fragments)
    OBVIOUS
  <2>2. Accumulated(Gathered(frags), Append(s, e))
          = Accumulate(Accumulated(Gathered(frags), s), e)
    BY AccumulateAppend
  <2>3. Accumulate(Gathered(frags \o s), e) = Gathered(Append(frags \o s, e))
    BY <2>1, GatherOne, Zenon
  <2>4. frags \o Append(s, e) = Append(frags \o s, e)
    BY AppendToConcat
  <2>5. QED
    BY <1>2, <2>1, <2>2, <2>3, <2>4, Zenon
<1>3. Seq(Fragments) \subseteq S
  <2> HIDE DEF S
  <2>1. QED
    BY <1>1, <1>2, SeqInduction
<1>4. QED
  BY <1>3

LEMMA IndicesFinite ==
  ASSUME NEW frags \in Seq(Fragments)
  PROVE  IsFiniteSet(Indices(frags)) /\ Indices(frags) \in SUBSET Int
<1> DEFINE S == {s \in Seq(Fragments) : IsFiniteSet(Indices(s))}
<1>1. <<>> \in S
  <2>1. Indices(<<>>) = {}
    BY DEF Indices, ToSet
  <2>2. QED
    BY <2>1, FS_EmptySet
<1>2. ASSUME NEW s \in Seq(Fragments), NEW e \in Fragments, s \in S
      PROVE  Append(s, e) \in S
  <2>1. Indices(Append(s, e)) = Indices(s) \cup {e.index}
    BY IndicesMore
  <2>2. IsFiniteSet(Indices(s) \cup {e.index})
    BY <1>2, FS_AddElement, Zenon
  <2>3. Append(s, e) \in Seq(Fragments)
    OBVIOUS
  <2>4. QED
    BY <2>1, <2>2, <2>3, Zenon
<1>3. Seq(Fragments) \subseteq S
  <2> HIDE DEF S
  <2>1. QED
    BY <1>1, <1>2, SeqInduction
<1>4. Indices(frags) \in SUBSET Int
  <2>1. ASSUME NEW k \in DOMAIN frags PROVE frags[k].index \in Int
    <3>1. frags[k] \in Fragments
      OBVIOUS
    <3>2. QED
      BY <3>1 DEF Fragments
  <2>2. QED
    BY <2>1 DEF Indices, ToSet
<1>5. QED
  BY <1>3, <1>4

(* The order of the calls is one of their indices. *)
LEMMA OrderType ==
  ASSUME NEW S \in SUBSET Int, IsFiniteSet(S)
  PROVE  /\ InOrder(S) \in [1..Cardinality(S) -> S]
         /\ DOMAIN InOrder(S) = 1..Cardinality(S) /\ Cardinality(S) \in Nat
<1>1. Cardinality(S) \in Nat
  BY FS_CardinalityType
<1>2. ASSUME NEW k \in 1..Cardinality(S)
      PROVE  (CHOOSE x \in S : Cardinality({y \in S : y < x}) = k - 1) \in S
  BY RankExists
<1>3. InOrder(S) = [k \in 1..Cardinality(S) |->
                      CHOOSE x \in S : Cardinality({y \in S : y < x}) = k - 1]
  BY DEF InOrder, SortedBy
<1>4. QED
  BY <1>1, <1>2, <1>3, Zenon
-----------------------------------------------------------------------------
(* What a provider's chunk may be. *)
Chunks(C) == \A c \in C : c.text \in Seq(Pieces) /\ c.calls \in Seq(Fragments)

LEMMA SaidMore ==
  ASSUME NEW C, Chunks(C), NEW said \in Seq(C), NEW c \in C
  PROVE  /\ TextOf(Append(said, c)) = TextOf(said) \o c.text
         /\ TextOf(said) \in Seq(Pieces)
         /\ FragmentsOf(Append(said, c)) = FragmentsOf(said) \o c.calls
         /\ FragmentsOf(said) \in Seq(Fragments)
<1> DEFINE n == Len(said)
           more == Append(said, c)
<1>1. /\ n \in Nat /\ DOMAIN said = 1..n /\ DOMAIN more = 1..n + 1 /\ more[n + 1] = c
      /\ \A k \in 1..n : more[k] = said[k] /\ said[k] \in C
  OBVIOUS
<1>2. n + 1 \in 1..n + 1 /\ 1..n + 1 = 1..n \cup {n + 1}
  BY <1>1
<1> HIDE DEF more, n
<1>3. \A k \in 1..n + 1 : more[k] \in C
  BY <1>1, <1>2
<1>4. TextOf(more) = TextOf(said) \o c.text /\ TextOf(said) \in Seq(Pieces)
  <2> DEFINE s == [k \in 1..n |-> said[k].text]
             u == [k \in 1..n + 1 |-> more[k].text]
  <2>1. s \in [1..n -> Seq(Pieces)]
    BY <1>1 DEF Chunks
  <2>2. u \in [1..n + 1 -> Seq(Pieces)]
    BY <1>3 DEF Chunks
  <2>3. (\A k \in 1..n : u[k] = s[k]) /\ u[n + 1] = c.text
    BY <1>1, <1>2
  <2>4. TextOf(more) = FlattenSeq(u) /\ TextOf(said) = FlattenSeq(s)
    BY <1>1 DEF TextOf
  <2> HIDE DEF s, u
  <2>5. FlattenSeq(u) = FlattenSeq(s) \o u[n + 1] /\ FlattenSeq(s) \in Seq(Pieces)
    BY <1>1, <2>1, <2>2, <2>3, FlattenMore, FlattenType, Zenon
  <2>6. QED
    BY <2>3, <2>4, <2>5
<1>5. FragmentsOf(more) = FragmentsOf(said) \o c.calls /\ FragmentsOf(said) \in Seq(Fragments)
  <2> DEFINE s == [k \in 1..n |-> said[k].calls]
             u == [k \in 1..n + 1 |-> more[k].calls]
  <2>1. s \in [1..n -> Seq(Fragments)]
    BY <1>1 DEF Chunks
  <2>2. u \in [1..n + 1 -> Seq(Fragments)]
    BY <1>3 DEF Chunks
  <2>3. (\A k \in 1..n : u[k] = s[k]) /\ u[n + 1] = c.calls
    BY <1>1, <1>2
  <2>4. FragmentsOf(more) = FlattenSeq(u) /\ FragmentsOf(said) = FlattenSeq(s)
    BY <1>1 DEF FragmentsOf
  <2> HIDE DEF s, u
  <2>5. FlattenSeq(u) = FlattenSeq(s) \o u[n + 1] /\ FlattenSeq(s) \in Seq(Fragments)
    BY <1>1, <2>1, <2>2, <2>3, FlattenMore, FlattenType, Zenon
  <2>6. QED
    BY <2>3, <2>4, <2>5
<1>6. QED
  BY <1>4, <1>5 DEF more

LEMMA SaidType ==
  ASSUME NEW C, Chunks(C), NEW said \in Seq(C)
  PROVE  TextOf(said) \in Seq(Pieces) /\ FragmentsOf(said) \in Seq(Fragments)
<1> DEFINE n == Len(said)
           s == [k \in 1..n |-> said[k].text]
           u == [k \in 1..n |-> said[k].calls]
<1>1. n \in Nat /\ DOMAIN said = 1..n /\ \A k \in 1..n : said[k] \in C
  OBVIOUS
<1> HIDE DEF n
<1>2. s \in [1..n -> Seq(Pieces)] /\ u \in [1..n -> Seq(Fragments)]
  BY <1>1 DEF Chunks
<1>3. TextOf(said) = FlattenSeq(s) /\ FragmentsOf(said) = FlattenSeq(u)
  BY <1>1 DEF TextOf, FragmentsOf
<1> HIDE DEF s, u
<1>4. QED
  BY <1>1, <1>2, <1>3, FlattenType

LEMMA SaidNothing == TextOf(<<>>) = <<>> /\ FragmentsOf(<<>>) = <<>> /\ Deltas(<<>>) = <<>>
<1> DEFINE none == [k \in 1..0 |-> <<>>]
<1>1. none \in [1..0 -> {<<>>}] /\ 0 \in Nat
  OBVIOUS
<1>2. FlattenSeq(none) = <<>>
  <2> HIDE DEF none
  <2>1. QED
    BY <1>1, FlattenNothing, Zenon
<1>3. DOMAIN <<>> = 1..0 /\ 1..0 = {}
  OBVIOUS
<1>4. /\ TextOf(<<>>) = FlattenSeq(none) /\ FragmentsOf(<<>>) = FlattenSeq(none)
      /\ Deltas(<<>>) = FlattenSeq(none)
  BY <1>3 DEF TextOf, FragmentsOf, Deltas
<1>5. QED
  BY <1>2, <1>4

LEMMA DeltasMore ==
  ASSUME NEW C, NEW chunks \in Seq(C), NEW c \in C
  PROVE  /\ c.kind = "delta" => Deltas(Append(chunks, c)) = Append(Deltas(chunks), c)
         /\ c.kind # "delta" => Deltas(Append(chunks, c)) = Deltas(chunks)
         /\ Deltas(chunks) \in Seq(C)
<1> DEFINE n == Len(chunks)
           more == Append(chunks, c)
           s == [k \in 1..n |-> IF chunks[k].kind = "delta" THEN <<chunks[k]>> ELSE <<>>]
           u == [k \in 1..n + 1 |-> IF more[k].kind = "delta" THEN <<more[k]>> ELSE <<>>]
<1>1. /\ n \in Nat /\ DOMAIN chunks = 1..n /\ DOMAIN more = 1..n + 1 /\ more[n + 1] = c
      /\ \A k \in 1..n : more[k] = chunks[k] /\ chunks[k] \in C
  OBVIOUS
<1>2. n + 1 \in 1..n + 1 /\ 1..n + 1 = 1..n \cup {n + 1}
  BY <1>1
<1>3. Deltas(chunks) = FlattenSeq(s) /\ Deltas(more) = FlattenSeq(u)
  BY <1>1 DEF Deltas
<1> HIDE DEF more, n
<1>4. \A k \in 1..n + 1 : more[k] \in C
  BY <1>1, <1>2
<1>5. s \in [1..n -> Seq(C)] /\ u \in [1..n + 1 -> Seq(C)]
  <2>1. \A x \in C : (IF x.kind = "delta" THEN <<x>> ELSE <<>>) \in Seq(C)
    OBVIOUS
  <2>2. QED
    BY <1>1, <1>4, <2>1
<1>6. /\ \A k \in 1..n : u[k] = s[k]
      /\ u[n + 1] = IF c.kind = "delta" THEN <<c>> ELSE <<>>
  BY <1>1, <1>2, Zenon
<1> HIDE DEF s, u
<1>7. FlattenSeq(u) = FlattenSeq(s) \o u[n + 1] /\ FlattenSeq(s) \in Seq(C)
  BY <1>1, <1>5, <1>6, FlattenMore, FlattenType, Zenon
<1>8. \A d \in Seq(C) : d \o <<c>> = Append(d, c) /\ d \o <<>> = d
  BY AppendIsConcat
<1>9. QED
  BY <1>3, <1>6, <1>7, <1>8 DEF more
-----------------------------------------------------------------------------
(* The translator, and what the client has read of it while the stream goes on. *)

Writing(open, next, text, calls, finish, events) ==
  [open |-> open, next |-> next, text |-> text, calls |-> calls, finish |-> finish,
   events |-> events]

Label == <<"text">>

Spoken(open, text) == IF open = Unset THEN Empty ELSE Begun(Empty, Label, text)

Following(t, said) ==
  /\ t = Writing(t.open, t.next, t.text, t.calls, t.finish, t.events)
  /\ \/ t.open = Unset /\ t.next = 0 /\ t.text = <<>>
     \/ t.open = 0 /\ t.next = 1 /\ t.text # <<>>
  /\ t.text = TextOf(said) /\ t.calls = Gathered(FragmentsOf(said))
  /\ t.events \in Seq(Events)
  /\ ReadMessage(t.events) = Reader("open", Spoken(t.open, t.text), "none")

LEMMA BeginFollows == Following(BeginMessage, <<>>)
<1> DEFINE t == BeginMessage
           e == Plainly("message_start")
           none == <<>>
<1>1. /\ t = Writing(t.open, t.next, t.text, t.calls, t.finish, t.events)
      /\ t.open = Unset /\ t.next = 0 /\ t.text = <<>> /\ t.calls = NoCalls
      /\ t.events = Append(none, e)
  BY DEF BeginMessage, Writing
<1>2. /\ TextOf(<<>>) = <<>> /\ Gathered(FragmentsOf(<<>>)) = NoCalls
  BY SaidNothing, GatherNothing
<1>3. e \in Events
  <2>1. Unset \in Int
    BY DEF Unset
  <2>2. QED
    BY <2>1, NoText, EventType DEF Kinds, Plainly, Empty
<1>4. none \in Seq(Events) /\ Append(none, e) \in Seq(Events)
  BY <1>3
<1>5. ReadMessage(Append(none, e)) = MessageEvent(ReadMessage(none), e)
  <2> HIDE DEF e, none
  <2>1. QED
    BY <1>3, <1>4, ReadAppend
<1>6. ReadMessage(Append(none, e)) = Reader("open", <<>>, "none")
  BY <1>5, ReadNothing, ReadStart
<1> HIDE DEF e, none, t
<1>7. Following(t, <<>>)
  BY <1>1, <1>2, <1>4, <1>6 DEF Following, Spoken, Empty
<1>8. QED
  BY <1>7 DEF t

(* The translator's record, changed field by field. *)
SetText(t, text) == [t EXCEPT !.text = text]

SetCalls(t, calls) == [t EXCEPT !.calls = calls]

SetEvents(t, events) == [t EXCEPT !.events = events]

SetOpen(t, open, next) == [t EXCEPT !.open = open, !.next = next]

LEMMA FieldsWritten ==
  ASSUME NEW open, NEW next, NEW text, NEW calls, NEW finish, NEW events
  PROVE  /\ Writing(open, next, text, calls, finish, events).open = open
         /\ Writing(open, next, text, calls, finish, events).next = next
         /\ Writing(open, next, text, calls, finish, events).text = text
         /\ Writing(open, next, text, calls, finish, events).calls = calls
         /\ Writing(open, next, text, calls, finish, events).finish = finish
         /\ Writing(open, next, text, calls, finish, events).events = events
BY DEF Writing

LEMMA TextWritten ==
  ASSUME NEW open, NEW next, NEW text, NEW calls, NEW finish, NEW events, NEW x
  PROVE  SetText(Writing(open, next, text, calls, finish, events), x)
           = Writing(open, next, x, calls, finish, events)
BY DEF Writing, SetText

LEMMA CallsWritten ==
  ASSUME NEW open, NEW next, NEW text, NEW calls, NEW finish, NEW events, NEW x
  PROVE  SetCalls(Writing(open, next, text, calls, finish, events), x)
           = Writing(open, next, text, x, finish, events)
BY DEF Writing, SetCalls

LEMMA OpenWritten ==
  ASSUME NEW open, NEW next, NEW text, NEW calls, NEW finish, NEW events, NEW x, NEW y
  PROVE  SetOpen(Writing(open, next, text, calls, finish, events), x, y)
           = Writing(x, y, text, calls, finish, events)
<1> DEFINE r == Writing(open, next, text, calls, finish, events)
           q == Writing(x, y, text, calls, finish, events)
           f == [k \in {"open", "next", "text", "calls", "finish", "events"} |->
                   IF k = "next" THEN y ELSE IF k = "open" THEN x ELSE r[k]]
<1>1. SetOpen(r, x, y) = f
  BY Zenon DEF Writing, SetOpen
<1>2. q = f
  BY DEF Writing
<1>3. QED
  BY <1>1, <1>2

LEMMA EventsWritten ==
  ASSUME NEW open, NEW next, NEW text, NEW calls, NEW finish, NEW events, NEW x
  PROVE  Emit(Writing(open, next, text, calls, finish, events), x)
           = Writing(open, next, text, calls, finish, events \o x)
<1>1. ASSUME NEW new
      PROVE  SetEvents(Writing(open, next, text, calls, finish, events), new)
               = Writing(open, next, text, calls, finish, new)
  BY DEF Writing, SetEvents
<1> DEFINE r == Writing(open, next, text, calls, finish, events)
<1>2. r.events = events
  BY FieldsWritten
<1>3. Emit(r, x) = SetEvents(r, events \o x)
  <2> HIDE DEF r
  <2>1. QED
    BY <1>2 DEF Emit, SetEvents
<1>4. QED
  BY <1>1, <1>3

LEMMA FinishWritten ==
  ASSUME NEW open, NEW next, NEW text, NEW calls, NEW finish, NEW events, NEW x
  PROVE  Finished(Writing(open, next, text, calls, finish, events), x)
           = Writing(open, next, text, calls, IF x = "none" THEN finish ELSE x, events)
BY DEF Writing, Finished

BlockStarts(index) == <<Event("content_block_start", index, <<"text">>, <<>>)>>

BlockGrows(index, text) == <<Event("content_block_delta", index, <<>>, text)>>

(* The text block is opened by the first text, and every text is a delta of it. *)
LEMMA TextWrites ==
  ASSUME NEW open, NEW next, NEW text, NEW calls, NEW finish, NEW events, NEW more,
         more # <<>>
  PROVE  Text(Writing(open, next, text, calls, finish, events), more) =
           IF open # Unset
           THEN Writing(open, next, text \o more, calls, finish,
                        events \o BlockGrows(open, more))
           ELSE Writing(next, next + 1, text \o more, calls, finish,
                        (events \o BlockStarts(next)) \o BlockGrows(next, more))
<1> DEFINE t == Writing(open, next, text, calls, finish, events)
           one == BlockStarts(next)
           o == OpenTextBlock(t)
<1>1. t.open = open /\ t.next = next
  BY FieldsWritten
<1>2. Text(t, more) = Emit(SetText(o, o.text \o more), BlockGrows(o.open, more))
  BY DEF Text, SetText, BlockGrows
<1>3. CASE open # Unset
  <2>1. o = t
    BY <1>1, <1>3 DEF OpenTextBlock
  <2>2. t.text = text
    BY FieldsWritten
  <2>3. Text(t, more) = Emit(SetText(t, text \o more), BlockGrows(open, more))
    BY <1>1, <1>2, <2>1, <2>2
  <2>4. QED
    BY <1>3, <2>3, TextWritten, EventsWritten
<1>4. CASE open = Unset
  <2>1. o = Emit(SetOpen(t, next, next + 1), one)
    BY <1>1, <1>4 DEF OpenTextBlock, SetOpen, BlockStarts
  <2>2. o = Writing(next, next + 1, text, calls, finish, events \o one)
    BY <2>1, OpenWritten, EventsWritten
  <2>3. o.open = next /\ o.text = text
    BY <2>2, FieldsWritten
  <2>4. Text(t, more) = Emit(SetText(o, text \o more), BlockGrows(next, more))
    BY <1>2, <2>3
  <2> HIDE DEF o, one, t
  <2>5. QED
    BY <1>4, <2>2, <2>4, TextWritten, EventsWritten DEF one, t
<1>5. QED
  BY <1>3, <1>4

LEMMA ChunkWrites ==
  ASSUME NEW open, NEW next, NEW text, NEW calls, NEW finish, NEW events, NEW c,
         c.kind = "delta"
  PROVE  MessageChunk(Writing(open, next, text, calls, finish, events), c) =
           LET kept == IF c.finish = "none" THEN finish ELSE c.finish
               all == Accumulated(calls, c.calls)
           IN IF c.text = <<>> THEN Writing(open, next, text, all, kept, events)
              ELSE IF open # Unset
              THEN Writing(open, next, text \o c.text, all, kept,
                           events \o BlockGrows(open, c.text))
              ELSE Writing(next, next + 1, text \o c.text, all, kept,
                           (events \o BlockStarts(next)) \o BlockGrows(next, c.text))
<1> DEFINE kept == IF c.finish = "none" THEN finish ELSE c.finish
           t == Writing(open, next, text, calls, finish, events)
           f == Writing(open, next, text, calls, kept, events)
           all == Accumulated(calls, c.calls)
           said == Text(f, c.text)
<1>1. Finished(t, c.finish) = f
  BY FinishWritten
<1>2. MessageChunk(t, c) = SetCalls(said, Accumulated(said.calls, c.calls))
  BY <1>1 DEF MessageChunk, Accumulated, SetCalls
<1> HIDE DEF kept, t
<1>3. CASE c.text = <<>>
  <2>1. said = f /\ f.calls = calls
    BY <1>3, FieldsWritten DEF Text
  <2>2. QED
    BY <1>2, <1>3, <2>1, CallsWritten DEF kept, t
<1>4. CASE c.text # <<>> /\ open # Unset
  <2>1. said = Writing(open, next, text \o c.text, calls, kept,
                       events \o BlockGrows(open, c.text))
    BY <1>4, TextWrites
  <2>2. said.calls = calls
    BY <2>1, FieldsWritten
  <2> HIDE DEF said
  <2>3. QED
    BY <1>2, <1>4, <2>1, <2>2, CallsWritten DEF kept, t
<1>5. CASE c.text # <<>> /\ open = Unset
  <2>1. said = Writing(next, next + 1, text \o c.text, calls, kept,
                       (events \o BlockStarts(next)) \o BlockGrows(next, c.text))
    BY <1>5, TextWrites
  <2>2. said.calls = calls
    BY <2>1, FieldsWritten
  <2> HIDE DEF said
  <2>3. QED
    BY <1>2, <1>5, <2>1, <2>2, CallsWritten DEF kept, t
<1>6. QED
  BY <1>3, <1>4, <1>5

LEMMA TextEvents ==
  ASSUME NEW text \in Texts
  PROVE  /\ Event("content_block_start", 0, Label, Empty) \in Events
         /\ Event("content_block_delta", 0, Empty, text) \in Events
         /\ Event("content_block_stop", 0, Empty, Empty) \in Events
         /\ BlockStarts(0) = <<Event("content_block_start", 0, Label, Empty)>>
         /\ BlockGrows(0, text) = <<Event("content_block_delta", 0, Empty, text)>>
         /\ Label \in Texts /\ Empty \in Texts /\ text \o Empty = text /\ Empty \o text = text
         /\ Empty \in Seq(BlockSet) /\ Closed(Empty) /\ Len(Empty) = 0
<1>1. Label \in Texts /\ Empty \in Texts
  BY NoText DEF Label
<1>2. /\ Event("content_block_start", 0, Label, Empty) \in Events
      /\ Event("content_block_delta", 0, Empty, text) \in Events
      /\ Event("content_block_stop", 0, Empty, Empty) \in Events
  BY <1>1, EventType DEF Kinds
<1>3. /\ BlockStarts(0) = <<Event("content_block_start", 0, Label, Empty)>>
      /\ BlockGrows(0, text) = <<Event("content_block_delta", 0, Empty, text)>>
  BY DEF BlockStarts, BlockGrows, Label, Empty
<1>4. text \o Empty = text /\ Empty \o text = text
  BY DEF Texts, Empty
<1>5. Empty \in Seq(BlockSet) /\ Closed(Empty) /\ Len(Empty) = 0
  BY DEF Empty, Closed
<1>6. QED
  BY <1>1, <1>2, <1>3, <1>4, <1>5

(* The first text, and every other one. *)
LEMMA ReadFirst ==
  ASSUME NEW ev \in Seq(Events), NEW stop, ReadMessage(ev) = Reader("open", Empty, stop)
  PROVE  /\ ReadMessage(ev \o BlockStarts(0)) = Reader("open", Begun(Empty, Label, Empty), stop)
         /\ ev \o BlockStarts(0) \in Seq(Events)
<1> DEFINE e == Event("content_block_start", 0, Label, Empty)
<1>1. /\ e \in Events /\ BlockStarts(0) = <<e>> /\ Label \in Texts /\ Empty \in Texts
      /\ Empty \in Seq(BlockSet) /\ Closed(Empty) /\ Len(Empty) = 0
  BY TextEvents, NoText
<1>2. MessageEvent(Reader("open", Empty, stop), e)
        = Reader("open", Begun(Empty, Label, Empty), stop)
  <2>1. ASSUME NEW bs \in Seq(BlockSet), Closed(bs), NEW name \in Texts, NEW at, at = Len(bs)
        PROVE  MessageEvent(Reader("open", bs, stop),
                            Event("content_block_start", at, name, Empty))
                 = Reader("open", Begun(bs, name, Empty), stop)
    BY <2>1, BlockStart
  <2>2. QED
    BY <1>1, <2>1, Zenon
<1> HIDE DEF e
<1>3. QED
  BY <1>1, <1>2, AfterOne, Zenon

LEMMA ReadText ==
  ASSUME NEW ev \in Seq(Events), NEW text \in Texts, NEW more \in Texts, NEW stop,
         ReadMessage(ev) = Reader("open", Begun(Empty, Label, text), stop)
  PROVE  /\ ReadMessage(ev \o BlockGrows(0, more))
              = Reader("open", Begun(Empty, Label, text \o more), stop)
         /\ ev \o BlockGrows(0, more) \in Seq(Events)
<1> DEFINE e == Event("content_block_delta", 0, Empty, more)
<1>1. /\ e \in Events /\ BlockGrows(0, more) = <<e>> /\ Label \in Texts
      /\ Empty \in Seq(BlockSet) /\ Len(Empty) = 0
  BY TextEvents
<1>2. MessageEvent(Reader("open", Begun(Empty, Label, text), stop), e)
        = Reader("open", Begun(Empty, Label, text \o more), stop)
  <2>1. ASSUME NEW bs \in Seq(BlockSet), NEW name \in Texts, NEW at, at = Len(bs)
        PROVE  MessageEvent(Reader("open", Begun(bs, name, text), stop),
                            Event("content_block_delta", at, Empty, more))
                 = Reader("open", Begun(bs, name, text \o more), stop)
    BY <2>1, BlockDelta
  <2>2. QED
    BY <1>1, <2>1, Zenon
<1> HIDE DEF e
<1>3. QED
  BY <1>1, <1>2, AfterOne, Zenon

LEMMA ReadTextEnd ==
  ASSUME NEW ev \in Seq(Events), NEW text \in Texts, NEW stop,
         ReadMessage(ev) = Reader("open", Begun(Empty, Label, text), stop)
  PROVE  LET e == Event("content_block_stop", 0, Empty, Empty)
         IN /\ ReadMessage(ev \o <<e>>) = Reader("open", Ended(Empty, Label, text), stop)
            /\ ev \o <<e>> \in Seq(Events)
<1> DEFINE e == Event("content_block_stop", 0, Empty, Empty)
<1>1. /\ e \in Events /\ Label \in Texts
      /\ Empty \in Seq(BlockSet) /\ Len(Empty) = 0
  BY TextEvents
<1>2. MessageEvent(Reader("open", Begun(Empty, Label, text), stop), e)
        = Reader("open", Ended(Empty, Label, text), stop)
  <2>1. ASSUME NEW bs \in Seq(BlockSet), NEW name \in Texts, NEW at, at = Len(bs)
        PROVE  MessageEvent(Reader("open", Begun(bs, name, text), stop),
                            Event("content_block_stop", at, Empty, Empty))
                 = Reader("open", Ended(bs, name, text), stop)
    BY <2>1, BlockStop
  <2>2. QED
    BY <1>1, <2>1, Zenon
<1> HIDE DEF e
<1>3. ReadMessage(ev \o <<e>>) = MessageEvent(ReadMessage(ev), e)
      /\ ev \o <<e>> \in Seq(Events)
  BY <1>1, AfterOne
<1>4. QED
  BY <1>2, <1>3 DEF e

(* One more chunk: the client has read what was said so far. *)
LEMMA ChunkFollows ==
  ASSUME NEW C, Chunks(C), NEW said \in Seq(C), NEW c \in C, c.kind = "delta",
         NEW t, Following(t, said)
  PROVE  Following(MessageChunk(t, c), Append(said, c))
<1> DEFINE kept == IF c.finish = "none" THEN t.finish ELSE c.finish
           all == Accumulated(t.calls, c.calls)
           new == MessageChunk(t, c)
           more == Append(said, c)
           ev == t.events
<1>1. /\ t = Writing(t.open, t.next, t.text, t.calls, t.finish, ev)
      /\ \/ t.open = Unset /\ t.next = 0 /\ t.text = <<>>
         \/ t.open = 0 /\ t.next = 1 /\ t.text # <<>>
      /\ t.text = TextOf(said) /\ t.calls = Gathered(FragmentsOf(said))
      /\ ev \in Seq(Events)
      /\ ReadMessage(ev) = Reader("open", Spoken(t.open, t.text), "none")
  BY DEF Following
<1>2. /\ TextOf(more) = t.text \o c.text /\ t.text \in Seq(Pieces)
      /\ FragmentsOf(more) = FragmentsOf(said) \o c.calls
      /\ FragmentsOf(said) \in Seq(Fragments)
  BY <1>1, SaidMore
<1>3. c.text \in Seq(Pieces) /\ c.calls \in Seq(Fragments)
  BY DEF Chunks
<1>4. all = Gathered(FragmentsOf(more))
  BY <1>1, <1>2, <1>3, GatherAll
<1>5. t.text \in Texts /\ c.text \in Texts
  BY <1>2, <1>3 DEF Texts
<1>6. new = IF c.text = <<>> THEN Writing(t.open, t.next, t.text, all, kept, ev)
            ELSE IF t.open # Unset
            THEN Writing(t.open, t.next, t.text \o c.text, all, kept,
                         ev \o BlockGrows(t.open, c.text))
            ELSE Writing(t.next, t.next + 1, t.text \o c.text, all, kept,
                         (ev \o BlockStarts(t.next)) \o BlockGrows(t.next, c.text))
  BY <1>1, ChunkWrites
<1> HIDE DEF kept, all, new, more, ev
<1>7. CASE c.text = <<>>
  <2>1. new = Writing(t.open, t.next, t.text, all, kept, ev)
    BY <1>6, <1>7
  <2>2. /\ new.open = t.open /\ new.next = t.next /\ new.text = t.text
        /\ new.calls = all /\ new.finish = kept /\ new.events = ev
    BY <2>1, FieldsWritten
  <2>3. TextOf(more) = t.text
    BY <1>2, <1>7
  <2>4. QED
    BY <1>1, <1>4, <2>1, <2>2, <2>3 DEF Following, new, more
<1>8. CASE c.text # <<>> /\ t.open # Unset
  <2>1. t.open = 0 /\ t.next = 1 /\ t.text # <<>> /\ 0 # Unset
    BY <1>1, <1>8 DEF Unset
  <2> DEFINE after == ev \o BlockGrows(0, c.text)
             text == t.text \o c.text
  <2>2. new = Writing(0, 1, text, all, kept, after)
    BY <1>6, <1>8, <2>1
  <2>3. ReadMessage(ev) = Reader("open", Begun(Empty, Label, t.text), "none")
    BY <1>1, <2>1 DEF Spoken
  <2>4. /\ ReadMessage(after) = Reader("open", Begun(Empty, Label, text), "none")
        /\ after \in Seq(Events)
    BY <1>1, <1>5, <2>3, ReadText
  <2>5. text # <<>>
    BY <1>2, <1>3, <2>1
  <2> HIDE DEF after, text
  <2>6. /\ new.open = 0 /\ new.next = 1 /\ new.text = text
        /\ new.calls = all /\ new.finish = kept /\ new.events = after
    BY <2>2, FieldsWritten
  <2>7. ReadMessage(after) = Reader("open", Spoken(0, text), "none")
    BY <2>1, <2>4 DEF Spoken
  <2>8. QED
    BY <1>2, <1>4, <2>2, <2>4, <2>5, <2>6, <2>7, Zenon DEF Following, new, more, text
<1>9. CASE c.text # <<>> /\ t.open = Unset
  <2>1. t.next = 0 /\ t.text = Empty /\ 0 # Unset
    BY <1>1, <1>9 DEF Unset, Empty
  <2> DEFINE begun == ev \o BlockStarts(0)
             after == begun \o BlockGrows(0, c.text)
  <2>2. new = Writing(0, 1, t.text \o c.text, all, kept, after)
    BY <1>6, <1>9, <2>1
  <2>3. ReadMessage(ev) = Reader("open", Empty, "none")
    BY <1>1, <1>9 DEF Spoken
  <2>4. /\ ReadMessage(begun) = Reader("open", Begun(Empty, Label, Empty), "none")
        /\ begun \in Seq(Events)
    BY <1>1, <2>3, ReadFirst
  <2>5. /\ ReadMessage(after) = Reader("open", Begun(Empty, Label, Empty \o c.text), "none")
        /\ after \in Seq(Events)
    <3> HIDE DEF begun
    <3>1. QED
      BY <1>5, <2>1, <2>4, ReadText
  <2>6. t.text \o c.text = c.text /\ Empty \o c.text = c.text
    BY <1>5, <2>1, TextEvents
  <2> HIDE DEF after, begun
  <2>7. new = Writing(0, 1, c.text, all, kept, after)
    BY <2>2, <2>6
  <2>8. /\ new.open = 0 /\ new.next = 1 /\ new.text = c.text
        /\ new.calls = all /\ new.finish = kept /\ new.events = after
    BY <2>7, FieldsWritten
  <2>9. ReadMessage(after) = Reader("open", Spoken(0, c.text), "none")
    BY <2>1, <2>5, <2>6 DEF Spoken
  <2>10. QED
    BY <1>2, <1>4, <1>9, <2>5, <2>6, <2>7, <2>8, <2>9 DEF Following, new, more
<1>10. QED
  BY <1>7, <1>8, <1>9

LEMMA DeltasType ==
  ASSUME NEW C, NEW chunks \in Seq(C)
  PROVE  Deltas(chunks) \in Seq(C)
<1> DEFINE n == Len(chunks)
           s == [k \in 1..n |-> IF chunks[k].kind = "delta" THEN <<chunks[k]>> ELSE <<>>]
<1>1. n \in Nat /\ DOMAIN chunks = 1..n /\ \A k \in 1..n : chunks[k] \in C
  OBVIOUS
<1>2. s \in [1..n -> Seq(C)]
  <2>1. \A x \in C : (IF x.kind = "delta" THEN <<x>> ELSE <<>>) \in Seq(C)
    OBVIOUS
  <2>2. QED
    BY <1>1, <2>1
<1>3. Deltas(chunks) = FlattenSeq(s)
  BY <1>1 DEF Deltas
<1> HIDE DEF n, s
<1>4. QED
  BY <1>1, <1>2, <1>3, FlattenType
-----------------------------------------------------------------------------
(* The translator after the end: the client holds what was said. *)
Told(t, said) ==
  /\ t = Writing(t.open, t.next, t.text, t.calls, t.finish, t.events)
  /\ t.events \in Seq(Events)
  /\ ReadMessage(t.events) =
       Reader("complete", BlocksOf(said), StopReason(t.finish, CallIndices(said) # {}))

StopsAt(index) == <<Event("content_block_stop", index, <<>>, <<>>)>>

LEMMA TextCloses ==
  ASSUME NEW open, NEW next, NEW text, NEW calls, NEW finish, NEW events
  PROVE  CloseTextBlock(Writing(open, next, text, calls, finish, events)) =
           IF open = Unset THEN Writing(open, next, text, calls, finish, events)
           ELSE Writing(Unset, next, text, calls, finish, events \o StopsAt(open))
<1> DEFINE t == Writing(open, next, text, calls, finish, events)
<1>1. t.open = open
  BY FieldsWritten
<1>2. ASSUME NEW x PROVE [t EXCEPT !.open = x] = Writing(x, next, text, calls, finish, events)
  BY DEF Writing
<1> HIDE DEF t
<1>3. CASE open = Unset
  BY <1>1, <1>3 DEF CloseTextBlock, t
<1>4. CASE open # Unset
  <2>1. CloseTextBlock(t) = Emit([t EXCEPT !.open = Unset], StopsAt(open))
    BY <1>1, <1>4 DEF CloseTextBlock, StopsAt
  <2>2. CloseTextBlock(t)
          = Emit(Writing(Unset, next, text, calls, finish, events), StopsAt(open))
    BY <1>2, <2>1
  <2>3. QED
    BY <1>4, <2>2, EventsWritten DEF t
<1>5. QED
  BY <1>3, <1>4

(* The text block at its end. *)
Whether(open, text) == IF open = Unset THEN Empty ELSE Ended(Empty, Label, text)

LEMMA CloseFollows ==
  ASSUME NEW C, Chunks(C), NEW said \in Seq(C), NEW t, Following(t, said)
  PROVE  LET u == CloseTextBlock(t)
         IN /\ u = Writing(Unset, t.next, t.text, t.calls, t.finish, u.events)
            /\ ReadyToEnd(u.events, Whether(t.open, t.text), "none")
            /\ Len(Whether(t.open, t.text)) = t.next
<1> DEFINE u == CloseTextBlock(t)
<1>1. /\ t = Writing(t.open, t.next, t.text, t.calls, t.finish, t.events)
      /\ \/ t.open = Unset /\ t.next = 0
         \/ t.open = 0 /\ t.next = 1
      /\ t.text = TextOf(said) /\ t.events \in Seq(Events)
      /\ ReadMessage(t.events) = Reader("open", Spoken(t.open, t.text), "none")
  BY DEF Following
<1>2. t.text \in Texts
  <2>1. TextOf(said) \in Seq(Pieces)
    BY SaidType
  <2>2. QED
    BY <1>1, <2>1 DEF Texts
<1>3. u = IF t.open = Unset THEN t
          ELSE Writing(Unset, t.next, t.text, t.calls, t.finish,
                       t.events \o StopsAt(t.open))
  BY <1>1, TextCloses
<1> HIDE DEF u
<1>4. CASE t.open = Unset
  <2>1. u = t /\ t.next = 0
    BY <1>1, <1>3, <1>4 DEF Unset
  <2>2. ReadMessage(t.events) = Reader("open", Empty, "none")
    BY <1>1, <1>4 DEF Spoken
  <2>3. Whether(t.open, t.text) = Empty
    BY <1>4 DEF Whether
  <2>4. Empty \in Seq(BlockSet) /\ Closed(Empty) /\ Len(Empty) = 0
    BY <1>2, TextEvents
  <2>5. QED
    BY <1>1, <1>4, <2>1, <2>2, <2>3, <2>4 DEF ReadyToEnd, u
<1>5. CASE t.open # Unset
  <2>1. t.open = 0 /\ t.next = 1
    BY <1>1, <1>5
  <2> DEFINE e == Event("content_block_stop", 0, Empty, Empty)
             after == t.events \o <<e>>
             bs == Ended(Empty, Label, t.text)
  <2>2. u = Writing(Unset, t.next, t.text, t.calls, t.finish, after)
    BY <1>3, <1>5, <2>1 DEF StopsAt, Empty
  <2>3. ReadMessage(t.events) = Reader("open", Begun(Empty, Label, t.text), "none")
    BY <1>1, <1>5 DEF Spoken
  <2>4. ReadMessage(after) = Reader("open", bs, "none") /\ after \in Seq(Events)
    BY <1>1, <1>2, <2>3, ReadTextEnd
  <2>5. Empty \in Seq(BlockSet) /\ Closed(Empty) /\ Len(Empty) = 0 /\ Label \in Texts
    BY <1>2, TextEvents
  <2>6. Part(Label, t.text, TRUE) \in BlockSet /\ Part(Label, t.text, TRUE).closed
    BY <1>2, <2>5 DEF Part, BlockSet
  <2>7. bs \in Seq(BlockSet) /\ Closed(bs) /\ Len(bs) = 1
    <3>1. ASSUME NEW q \in Seq(BlockSet), Closed(q), Len(q) = 0, NEW p \in BlockSet, p.closed
          PROVE  /\ Append(q, p) \in Seq(BlockSet) /\ Closed(Append(q, p))
                 /\ Len(Append(q, p)) = 1
      <4>1. Append(q, p) \in Seq(BlockSet) /\ Closed(Append(q, p))
        BY <3>1, ClosedMore, Zenon
      <4>2. Len(Append(q, p)) = 1
        BY <3>1
      <4>3. QED
        BY <4>1, <4>2
    <3>2. QED
      BY <2>5, <2>6, <3>1, Zenon DEF Ended
  <2> HIDE DEF after, bs
  <2>8. Whether(t.open, t.text) = bs
    BY <1>5 DEF Whether, bs
  <2>9. u.events = after
    BY <2>2, FieldsWritten
  <2>10. QED
    BY <2>1, <2>2, <2>4, <2>7, <2>8, <2>9 DEF ReadyToEnd, u
<1>6. QED
  BY <1>4, <1>5

(* The calls the translator has put together are those that were said. *)
LEMMA CallsSaid ==
  ASSUME NEW said
  PROVE  /\ CallIndices(said) = Indices(FragmentsOf(said))
         /\ \A i : CallOf(said, i) = Call(NamesOf(FragmentsOf(said), i),
                                          ArgsOf(FragmentsOf(said), i))
BY DEF CallIndices, Indices, CallOf, Call, NamesOf, ArgsOf

LEMMA NamedType ==
  ASSUME NEW name \in Seq(Pieces), NEW args \in Seq(Pieces)
  PROVE  /\ Named(Call(name, args)) \in Texts /\ Call(name, args).args = args
         /\ args \in Texts
<1>1. \A text \in Seq(Pieces) : text \in Texts
  BY DEF Texts
<1>2. <<"unknown">> \in Texts
  BY DEF Texts, Own
<1>3. Call(name, args).name = name /\ Call(name, args).args = args
  BY DEF Call
<1>4. QED
  BY <1>1, <1>2, <1>3 DEF Named

CallNames(said, order, n) == [k \in 1..n |-> Named(CallOf(said, order[k]))]

CallArgs(said, order, n) == [k \in 1..n |-> CallOf(said, order[k]).args]

LEMMA CallTypes ==
  ASSUME NEW C, Chunks(C), NEW said \in Seq(C), NEW order, NEW n,
         FragmentsOf(said) \in Seq(Fragments)
  PROVE  /\ CallNames(said, order, n) \in [1..n -> Texts]
         /\ CallArgs(said, order, n) \in [1..n -> Texts]
<1> DEFINE frags == FragmentsOf(said)
<1>1. ASSUME NEW i PROVE Named(CallOf(said, i)) \in Texts /\ CallOf(said, i).args \in Texts
  <2>1. NamesOf(frags, i) \in Seq(Pieces) /\ ArgsOf(frags, i) \in Seq(Pieces)
    BY NamesType
  <2>2. QED
    BY <2>1, CallsSaid, NamedType
<1>2. QED
  BY <1>1 DEF CallNames, CallArgs

(* What the client holds after the tools: all blocks of the answer. *)
LEMMA AllBlocks ==
  ASSUME NEW C, Chunks(C), NEW said \in Seq(C), NEW open,
         (open = Unset) <=> (TextOf(said) = <<>>), NEW order, NEW n \in Nat, DOMAIN order = 1..n,
         order = InOrder(CallIndices(said)), NEW p,
         p = Parts(CallNames(said, order, n), CallArgs(said, order, n), n)
  PROVE  Behind(Whether(open, TextOf(said)), p, n) = BlocksOf(said)
<1> DEFINE text == TextOf(said)
           calls == [k \in 1..n |->
                       [name |-> Named(CallOf(said, order[k])),
                        body |-> CallOf(said, order[k]).args, closed |-> TRUE]]
<1>1. First(p, n) = p
  BY DEF First, Parts
<1>2. p = calls
  BY DEF CallNames, CallArgs, Part, Parts
<1>3. Whether(open, text) = (IF text = <<>> THEN <<>>
                             ELSE <<[name |-> <<"text">>, body |-> text, closed |-> TRUE]>>)
  <2>1. ASSUME NEW x PROVE Append(<<>>, x) = <<x>>
    OBVIOUS
  <2>2. Part(Label, text, TRUE) = [name |-> <<"text">>, body |-> text, closed |-> TRUE]
    BY DEF Part, Label
  <2>3. Ended(Empty, Label, text) = <<[name |-> <<"text">>, body |-> text, closed |-> TRUE]>>
    BY <2>1, <2>2, Zenon DEF Ended, Empty
  <2>4. QED
    BY <2>3, Zenon DEF Whether, Empty
<1>4. BlocksOf(said) = (IF text = <<>> THEN <<>>
                        ELSE <<[name |-> <<"text">>, body |-> text, closed |-> TRUE]>>) \o calls
  BY Zenon DEF BlocksOf
<1>5. QED
  BY <1>1, <1>2, <1>3, <1>4 DEF Behind

LEMMA ToolsRead ==
  ASSUME NEW C, Chunks(C), NEW said \in Seq(C), NEW u, NEW bs, Len(bs) = u.next,
         u.calls = Gathered(FragmentsOf(said)), NEW stop, ReadyToEnd(u.events, bs, stop),
         NEW order, order = InOrder(CallIndices(said)), NEW n, n = Cardinality(CallIndices(said)),
         NEW p, p = Parts(CallNames(said, order, n), CallArgs(said, order, n), n)
  PROVE  /\ n \in Nat /\ DOMAIN order = 1..n
         /\ ReadMessage(u.events \o ToolBlocks(u)) = Reader("open", Behind(bs, p, n), stop)
         /\ Closed(Behind(bs, p, n)) /\ ToolBlocks(u) \in Seq(Events)
<1> DEFINE frags == FragmentsOf(said)
           S == Indices(frags)
           names == CallNames(said, order, n)
           bodies == CallArgs(said, order, n)
           s == BlocksAt(Len(bs), names, bodies, n)
<1>1. frags \in Seq(Fragments) /\ CallIndices(said) = S /\ DOMAIN u.calls = S
  BY SaidType, CallsSaid DEF Gathered
<1>2. order \in [1..n -> S] /\ DOMAIN order = 1..n /\ n \in Nat
  BY <1>1, IndicesFinite, OrderType
<1>3. names \in [1..n -> Texts] /\ bodies \in [1..n -> Texts]
  BY <1>1, CallTypes
<1>4. ToolBlocks(u) = FlattenSeq(s)
  <2>1. \A i \in S : u.calls[i] = CallOf(said, i)
    BY CallsSaid DEF Gathered
  <2>2. \A k \in 1..n : /\ Named(u.calls[order[k]]) = names[k]
                         /\ u.calls[order[k]].args = bodies[k]
    BY <1>2, <2>1 DEF CallNames, CallArgs
  <2>3. InOrder(DOMAIN u.calls) = order
    BY <1>1
  <2>4. ToolBlocks(u) =
          FlattenSeq([k \in 1..n |->
            Block(u.next + k - 1, Named(u.calls[order[k]]), u.calls[order[k]].args)])
    BY <1>2, <2>3 DEF ToolBlocks
  <2> HIDE DEF names, bodies
  <2>5. [k \in 1..n |-> Block(u.next + k - 1, Named(u.calls[order[k]]), u.calls[order[k]].args)]
          = s
    BY <2>2 DEF BlocksAt
  <2>6. QED
    BY <2>4, <2>5
<1> DEFINE ev == u.events
<1>5. ToTell(ev, bs, stop, n, names, bodies)
  BY <1>2, <1>3 DEF ToTell
<1>6. p = Parts(names, bodies, n)
  OBVIOUS
<1> HIDE DEF names, bodies, ev
<1>7. /\ ReadMessage(ev \o FlattenSeq(s)) = Reader("open", Behind(bs, p, n), stop)
      /\ Closed(Behind(bs, p, n)) /\ FlattenSeq(s) \in Seq(Events)
  <2> DEFINE q == Parts(names, bodies, n)
  <2>1. /\ ReadMessage(ev \o FlattenSeq(s)) = Reader("open", Behind(bs, q, n), stop)
        /\ Closed(Behind(bs, q, n)) /\ FlattenSeq(s) \in Seq(Events)
    BY <1>5, ReadBlocks
  <2> HIDE DEF q, s
  <2>2. q = p
    BY <1>6 DEF q
  <2>3. QED
    BY <2>1, <2>2
<1>8. QED
  BY <1>2, <1>4, <1>7 DEF ev

(* The end of the stream: the client holds all that was said. *)
LEMMA EndTold ==
  ASSUME NEW C, Chunks(C), NEW said \in Seq(C), NEW t, Following(t, said)
  PROVE  Told(EndMessage(t), said)
<1> DEFINE u == CloseTextBlock(t)
           bs == Whether(t.open, t.text)
           order == InOrder(CallIndices(said))
           n == Cardinality(CallIndices(said))
           p == Parts(CallNames(said, order, n), CallArgs(said, order, n), n)
           reason == StopReason(t.finish, CallIndices(said) # {})
           tools == ToolBlocks(u)
           a == Event("message_delta", Unset, <<reason>>, <<>>)
           b == Plainly("message_stop")
           told == u.events \o tools
           new == EndMessage(t)
<1>1. /\ t.text = TextOf(said) /\ t.calls = Gathered(FragmentsOf(said))
      /\ (t.open = Unset) <=> (t.text = <<>>)
  BY DEF Following, Unset
<1>2. /\ u = Writing(Unset, t.next, t.text, t.calls, t.finish, u.events)
      /\ ReadyToEnd(u.events, bs, "none") /\ Len(bs) = t.next
  BY CloseFollows
<1>3. u.next = t.next /\ u.calls = t.calls /\ u.finish = t.finish
  <2> HIDE DEF u, bs
  <2>1. QED
    BY <1>2, FieldsWritten
<1>4. /\ n \in Nat /\ DOMAIN order = 1..n
      /\ ReadMessage(told) = Reader("open", Behind(bs, p, n), "none")
      /\ Closed(Behind(bs, p, n)) /\ tools \in Seq(Events)
  <2> HIDE DEF u, bs, order, n, p
  <2>1. Len(bs) = u.next /\ u.calls = Gathered(FragmentsOf(said))
    BY <1>1, <1>2, <1>3
  <2>2. QED
    BY <1>2, <2>1, ToolsRead, Zenon DEF order, n, p
<1>5. Behind(bs, p, n) = BlocksOf(said)
  <2> HIDE DEF n, order
  <2>1. Behind(Whether(t.open, TextOf(said)), p, n) = BlocksOf(said)
    BY <1>1, <1>4, AllBlocks DEF order
  <2>2. QED
    BY <1>1, <2>1
<1>6. MessageStop(t) = <<a, b>>
  <2>1. DOMAIN t.calls = CallIndices(said)
    BY <1>1, CallsSaid DEF Gathered
  <2>2. QED
    BY <2>1 DEF MessageStop
<1>7. a \in Events /\ b \in Events
  <2>1. reason \in Own
    BY DEF StopReason, Own
  <2>2. <<reason>> \in Texts /\ <<>> \in Texts /\ Unset \in Int
    BY <2>1 DEF Texts, Unset
  <2> HIDE DEF reason
  <2>3. QED
    BY <2>2, EventType DEF Kinds, Plainly
<1>8. told \in Seq(Events) /\ u.events \in Seq(Events)
  BY <1>2, <1>4 DEF ReadyToEnd
<1>9. new = Emit(u, tools \o <<a, b>>)
  <2>1. ToolBlocks(u) = tools
    OBVIOUS
  <2>2. new = Emit(u, ToolBlocks(t) \o MessageStop(t))
    BY DEF EndMessage
  <2>3. ToolBlocks(t) = tools
    <3> HIDE DEF u
    <3>1. QED
      BY <1>3 DEF ToolBlocks
  <2>4. QED
    BY <1>6, <2>2, <2>3
<1> DEFINE after == told \o <<a, b>>
<1> HIDE DEF u, bs, order, n, p, reason, tools, a, b
<1>10. u.events \o (tools \o <<a, b>>) = after
  <2>1. <<a, b>> \in Seq(Events)
    BY <1>7
  <2>2. \A x, y, z \in Seq(Events) : x \o (y \o z) = (x \o y) \o z
    BY ConcatAssociates
  <2>3. QED
    BY <1>4, <1>8, <2>1, <2>2, Zenon
<1>11. new = Writing(Unset, t.next, t.text, t.calls, t.finish, after)
  <2>1. new = Writing(Unset, t.next, t.text, t.calls, t.finish,
                      u.events \o (tools \o <<a, b>>))
    <3>1. ASSUME NEW ev, NEW x
          PROVE  Emit(Writing(Unset, t.next, t.text, t.calls, t.finish, ev), x)
                   = Writing(Unset, t.next, t.text, t.calls, t.finish, ev \o x)
      BY EventsWritten
    <3>2. QED
      BY <1>2, <1>9, <3>1
  <2>2. QED
    BY <1>10, <2>1, Zenon
<1>12. ReadMessage(after) = Reader("complete", BlocksOf(said), reason) /\ after \in Seq(Events)
  <2>1. /\ ReadMessage(after) = MessageEvent(MessageEvent(ReadMessage(told), a), b)
        /\ after \in Seq(Events)
    <3> HIDE DEF told
    <3>1. QED
      BY <1>7, <1>8, AfterTwo
  <2>2. ReadMessage(told) = Reader("open", BlocksOf(said), "none") /\ Closed(BlocksOf(said))
    BY <1>4, <1>5
  <2>3. MessageEvent(MessageEvent(Reader("open", BlocksOf(said), "none"), a), b)
          = Reader("complete", BlocksOf(said), reason)
    BY <2>2, ReadEnd DEF a, b
  <2>4. QED
    BY <2>1, <2>2, <2>3
<1> HIDE DEF after, new
<1>13. /\ new.open = Unset /\ new.next = t.next /\ new.text = t.text
       /\ new.calls = t.calls /\ new.finish = t.finish /\ new.events = after
  BY <1>11, FieldsWritten
<1>14. QED
  BY <1>11, <1>12, <1>13 DEF Told, new, reason
-----------------------------------------------------------------------------
ErrorIs == Plainly("error")

(* The client of a stream that broke off. *)
Cut(t) ==
  /\ t.events # <<>> /\ Last(t.events).kind = "error"
  /\ \E blocks : ReadMessage(t.events) = Reader("broken", blocks, "none")

LEMMA ErrorType == ErrorIs \in Events /\ ErrorIs.kind = "error"
<1>1. <<>> \in Texts /\ Unset \in Int
  BY DEF Texts, Unset
<1>2. ErrorIs \in Events
  BY <1>1, EventType DEF ErrorIs, Plainly, Kinds
<1>3. QED
  BY <1>2 DEF ErrorIs, Plainly, Event

LEMMA ErrorAfterEnd ==
  ASSUME NEW t, NEW said, Told(t, said)
  PROVE  Told(Emit(t, <<ErrorIs>>), said)
<1> DEFINE reason == StopReason(t.finish, CallIndices(said) # {})
           blocks == BlocksOf(said)
           after == t.events \o <<ErrorIs>>
           new == Emit(t, <<ErrorIs>>)
<1>1. /\ t = Writing(t.open, t.next, t.text, t.calls, t.finish, t.events)
      /\ t.events \in Seq(Events) /\ ReadMessage(t.events) = Reader("complete", blocks, reason)
  BY DEF Told
<1>2. new = Writing(t.open, t.next, t.text, t.calls, t.finish, after)
  BY <1>1, EventsWritten
<1>3. ReadMessage(after) = MessageEvent(ReadMessage(t.events), ErrorIs) /\ after \in Seq(Events)
  BY <1>1, ErrorType, AfterOne
<1>4. MessageEvent(Reader("complete", blocks, reason), ErrorIs) = Reader("complete", blocks, reason)
  BY ReadError DEF ErrorIs
<1> HIDE DEF reason, blocks, after, new
<1>5. /\ new.open = t.open /\ new.next = t.next /\ new.text = t.text
      /\ new.calls = t.calls /\ new.finish = t.finish /\ new.events = after
  BY <1>2, FieldsWritten
<1>6. QED
  BY <1>1, <1>2, <1>3, <1>4, <1>5 DEF Told, new, reason, blocks

LEMMA ErrorCuts ==
  ASSUME NEW t, NEW said, Following(t, said)
  PROVE  Cut(Emit(t, <<ErrorIs>>))
<1> DEFINE blocks == Spoken(t.open, t.text)
           after == t.events \o <<ErrorIs>>
           new == Emit(t, <<ErrorIs>>)
<1>1. /\ t = Writing(t.open, t.next, t.text, t.calls, t.finish, t.events)
      /\ t.events \in Seq(Events) /\ ReadMessage(t.events) = Reader("open", blocks, "none")
  BY DEF Following
<1>2. new = Writing(t.open, t.next, t.text, t.calls, t.finish, after)
  BY <1>1, EventsWritten
<1>3. ReadMessage(after) = MessageEvent(ReadMessage(t.events), ErrorIs) /\ after \in Seq(Events)
  BY <1>1, ErrorType, AfterOne
<1>4. MessageEvent(Reader("open", blocks, "none"), ErrorIs) = Reader("broken", blocks, "none")
  BY ReadError DEF ErrorIs
<1>5. after # <<>> /\ Last(after) = ErrorIs
  <2>1. ASSUME NEW s \in Seq(Events), NEW e \in Events
        PROVE  s \o <<e>> # <<>> /\ Last(s \o <<e>>) = e
    BY DEF Last
  <2>2. QED
    BY <1>1, <2>1, ErrorType
<1> HIDE DEF blocks, after, new
<1>6. new.events = after
  BY <1>2, FieldsWritten
<1>7. QED
  BY <1>1, <1>3, <1>4, <1>5, <1>6, ErrorType DEF Cut, new

LEMMA WholeTold ==
  ASSUME NEW C, Chunks(C), NEW c \in C, c.kind = "delta"
  PROVE  Told(WholeMessage(c), Deltas(<<c>>))
<1>1. Deltas(<<c>>) = Append(<<>>, c) /\ <<c>> = Append(<<>>, c) /\ <<>> \in Seq(C)
  <2>1. <<c>> = Append(<<>>, c) /\ <<>> \in Seq(C)
    OBVIOUS
  <2>2. Deltas(<<>>) = <<>>
    BY SaidNothing
  <2>3. ASSUME NEW none \in Seq(C) PROVE Deltas(Append(none, c)) = Append(Deltas(none), c)
    BY DeltasMore
  <2>4. QED
    BY <2>1, <2>2, <2>3, Zenon
<1>2. Following(MessageChunk(BeginMessage, c), Append(<<>>, c))
  <2>1. ASSUME NEW none \in Seq(C), Following(BeginMessage, none)
        PROVE  Following(MessageChunk(BeginMessage, c), Append(none, c))
    BY <2>1, ChunkFollows
  <2>2. QED
    BY <1>1, <2>1, BeginFollows, Zenon
<1>3. Append(<<>>, c) \in Seq(C)
  OBVIOUS
<1>4. QED
  BY <1>1, <1>2, <1>3, EndTold, Zenon DEF WholeMessage

(* A chunk that is not a delta says nothing and writes nothing. *)
LEMMA RelayFollows ==
  ASSUME NEW C, Chunks(C), NEW chunks \in Seq(C), NEW c \in C,
         NEW t, Following(t, Deltas(chunks))
  PROVE  Following(MessageChunk(t, c), Deltas(Append(chunks, c)))
<1>1. Deltas(chunks) \in Seq(C)
  BY DeltasMore
<1>2. CASE c.kind = "delta"
  <2>1. Deltas(Append(chunks, c)) = Append(Deltas(chunks), c)
    BY <1>2, DeltasMore
  <2>2. QED
    BY <1>1, <1>2, <2>1, ChunkFollows
<1>3. CASE c.kind # "delta"
  <2>1. Deltas(Append(chunks, c)) = Deltas(chunks)
    BY <1>3, DeltasMore
  <2>2. QED
    BY <1>3, <2>1 DEF MessageChunk
<1>4. QED
  BY <1>2, <1>3

LEMMA ChunkTypes == RelayTypes => Chunks(request.chunks) /\ sent \in Seq(request.chunks)
BY RelayAssumption DEF RelayTypes, Chunks

MessageInv ==
  request.protocol = "messages" =>
    /\ phase = "relaying" => Following(writer, Deltas(sent))
    /\ request.streaming /\ phase \in {"usage", "reconciling", "logging"} =>
         Told(writer, Deltas(sent))
    /\ phase = "ended" => \/ Untold
                          \/ upstream = "closed" /\ Told(writer, Deltas(sent))
                          \/ upstream = "broken" /\ Cut(writer)

LEMMA RequestStays == [Next]_vars => request' = request
BY DEF Next, vars, TranslateRequest, RoutingFails, Upstream, Prime, PrimeWhole, Relay,
       ReadWhole, PrimeEmpty, PrimeBreaks, UpstreamCloses, UpstreamBreaks, Drain,
       RecordUsage, Reconcile, ReconcileFails, WriteLog, StoreFails, ClientLeaves

LEMMA MessageStep == RelayInv /\ MessageInv /\ [Next]_vars => MessageInv'
<1> SUFFICES ASSUME RelayInv, MessageInv, [Next]_vars, request.protocol = "messages"
             PROVE  MessageInv'
  <2>1. ASSUME [Next]_vars PROVE request' = request
    BY <2>1, RequestStays
  <2>2. QED
    BY <2>1 DEF MessageInv
<1> DEFINE C == request.chunks
<1>0. /\ Chunks(C) /\ sent \in Seq(C) /\ PlaceInv /\ translated
      /\ MessageInv
  BY ChunkTypes DEF RelayInv, translated
<1>a. ASSUME request' = request, sent' = sent, writer' = writer, upstream' = upstream
      PROVE  /\ Told(writer, Deltas(sent))' <=> Told(writer, Deltas(sent))
             /\ Following(writer, Deltas(sent))' <=> Following(writer, Deltas(sent))
             /\ Untold' <=> Untold
  BY <1>a, Zenon DEF Untold
<1>b. ErrorEvent = Emit(writer, <<ErrorIs>>)
  BY <1>0 DEF ErrorEvent, ErrorIs
<1>1. ASSUME TranslateRequest PROVE MessageInv'
  BY <1>0, <1>1 DEF TranslateRequest, MessageInv, PlaceInv, Untold
<1>2. ASSUME RoutingFails PROVE MessageInv'
  BY <1>0, <1>2 DEF RoutingFails, MessageInv, PlaceInv, Untold
<1>3. ASSUME NEW chunk \in C, Prime(chunk) PROVE MessageInv'
  <2>1. /\ sent' = <<chunk>> /\ writer' = MessageChunk(BeginMessage, chunk)
        /\ phase' = "relaying"
    BY <1>0, <1>3 DEF Prime, Relayed, Translate, Begin
  <2>2. Following(writer', Deltas(sent'))
    <3>1. <<chunk>> = Append(<<>>, chunk) /\ <<>> \in Seq(C)
      OBVIOUS
    <3>2. ASSUME NEW none, none = <<>>
          PROVE  Following(MessageChunk(BeginMessage, chunk), Deltas(Append(none, chunk)))
      <4>1. Following(BeginMessage, Deltas(none)) /\ none \in Seq(C)
        BY <3>2, BeginFollows, SaidNothing
      <4>2. QED
        BY <1>0, <4>1, RelayFollows
    <3>3. QED
      BY <2>1, <3>1, <3>2, Zenon
  <2>3. QED
    BY <2>1, <2>2 DEF MessageInv
<1>4. ASSUME PrimeEmpty PROVE MessageInv'
  <2>1. /\ writer' = EndMessage(BeginMessage) /\ sent' = sent /\ sent = <<>> /\ phase' = "usage"
    BY <1>0, <1>4 DEF PrimeEmpty, Begin, End, PlaceInv
  <2>2. Told(writer', Deltas(sent'))
    <3>1. ASSUME NEW none, none = <<>> PROVE Told(EndMessage(BeginMessage), none)
      <4>1. none \in Seq(C)
        BY <3>1
      <4>2. QED
        BY <1>0, <3>1, <4>1, BeginFollows, EndTold, Zenon
    <3>2. Deltas(sent') = <<>>
      BY <2>1, SaidNothing
    <3>3. QED
      BY <2>1, <3>1, <3>2
  <2>3. QED
    BY <2>1, <2>2 DEF MessageInv
<1>5. ASSUME NEW chunk \in C, PrimeWhole(chunk) PROVE MessageInv'
  <2>1. /\ writer' = WholeMessage(chunk) /\ sent' = <<chunk>> /\ phase' = "usage"
        /\ chunk.kind = "delta"
    BY <1>0, <1>5 DEF PrimeWhole, IsWhole, Whole
  <2>2. Told(writer', Deltas(sent'))
    BY <1>0, <2>1, WholeTold
  <2>3. QED
    BY <2>1, <2>2 DEF MessageInv
<1>6. ASSUME PrimeBreaks PROVE MessageInv'
  BY <1>0, <1>6 DEF PrimeBreaks, MessageInv, PlaceInv, Untold
<1>7. ASSUME NEW chunk \in C, Relay(chunk) PROVE MessageInv'
  <2>1. /\ sent' = Append(sent, chunk) /\ writer' = MessageChunk(writer, chunk)
        /\ phase' = "relaying" /\ phase = "relaying"
    BY <1>0, <1>7 DEF Relay, Relayed, Translate
  <2>2. Following(writer, Deltas(sent))
    BY <1>0, <2>1 DEF MessageInv
  <2>3. Following(writer', Deltas(sent'))
    BY <1>0, <2>1, <2>2, RelayFollows
  <2>4. QED
    BY <2>1, <2>3 DEF MessageInv
<1>8. ASSUME Drain PROVE MessageInv'
  BY <1>0, <1>8 DEF Drain, PlaceInv
<1>9. ASSUME UpstreamCloses PROVE MessageInv'
  <2>1. /\ writer' = EndMessage(writer) /\ sent' = sent /\ phase' = "usage"
        /\ phase = "relaying"
    BY <1>9 DEF UpstreamCloses, End
  <2>2. Following(writer, Deltas(sent)) /\ Deltas(sent) \in Seq(C)
    BY <1>0, <2>1, DeltasType DEF MessageInv
  <2>3. Told(writer', Deltas(sent'))
    BY <1>0, <2>1, <2>2, EndTold
  <2>4. QED
    BY <2>1, <2>3 DEF MessageInv
<1>10. ASSUME UpstreamBreaks PROVE MessageInv'
  <2>1. writer' = ErrorEvent /\ phase' = "ended" /\ upstream' = "broken" /\ phase = "relaying"
    BY <1>10 DEF UpstreamBreaks
  <2>2. Cut(writer')
    BY <1>0, <1>b, <2>1, ErrorCuts DEF MessageInv
  <2>3. QED
    BY <2>1, <2>2 DEF MessageInv
<1>11. ASSUME NEW chunk \in C, ReadWhole(chunk) PROVE MessageInv'
  BY <1>11 DEF ReadWhole, MessageInv
<1>12. ASSUME RecordUsage PROVE MessageInv'
  BY <1>0, <1>12 DEF RecordUsage, MessageInv
<1>13. ASSUME Reconcile PROVE MessageInv'
  BY <1>0, <1>13 DEF Reconcile, MessageInv, PlaceInv
<1>14. ASSUME ReconcileFails \/ (StoreFails /\ request.streaming) PROVE MessageInv'
  <2>1. /\ writer' = ErrorEvent /\ sent' = sent /\ upstream' = upstream /\ phase' = "ended"
        /\ upstream = "closed" /\ phase \in {"usage", "reconciling", "logging"}
        /\ request.streaming
    BY <1>0, <1>14 DEF ReconcileFails, StoreFails, PlaceInv
  <2>2. Told(writer', Deltas(sent'))
    BY <1>0, <1>b, <2>1, ErrorAfterEnd DEF MessageInv
  <2>3. QED
    BY <2>1, <2>2 DEF MessageInv
<1>15. ASSUME StoreFails, ~request.streaming PROVE MessageInv'
  BY <1>0, <1>15 DEF StoreFails, MessageInv, PlaceInv, Untold
<1>16. ASSUME WriteLog PROVE MessageInv'
  <2>1. /\ sent' = sent /\ upstream' = upstream /\ phase' = "ended" /\ upstream = "closed"
        /\ phase = "logging"
    BY <1>0, <1>16 DEF WriteLog, PlaceInv
  <2>2. CASE request.streaming
    <3>1. writer' = writer
      BY <1>16, <2>2 DEF WriteLog
    <3>2. Told(writer', Deltas(sent'))
      BY <1>0, <2>1, <2>2, <3>1 DEF MessageInv
    <3>3. QED
      BY <2>1, <3>2 DEF MessageInv
  <2>3. CASE ~request.streaming
    <3>1. PICK chunk \in C : chunk.kind = "delta" /\ sent = <<chunk>>
      BY <1>0, <2>1, <2>3 DEF PlaceInv, IsWhole
    <3>2. writer' = WholeMessage(chunk)
      BY <1>16, <2>3, <3>1 DEF WriteLog, Whole
    <3>3. Told(writer', Deltas(sent'))
      BY <1>0, <2>1, <3>1, <3>2, WholeTold
    <3>4. QED
      BY <2>1, <3>3 DEF MessageInv
  <2>4. QED
    BY <2>2, <2>3
<1>17. ASSUME ClientLeaves PROVE MessageInv'
  BY <1>0, <1>17 DEF ClientLeaves, MessageInv, Untold
<1>18. CASE UNCHANGED vars
  BY <1>0, <1>18 DEF vars, MessageInv, Untold
<1>19. QED
  BY <1>1, <1>2, <1>3, <1>4, <1>5, <1>6, <1>7, <1>8, <1>9, <1>10, <1>11, <1>12, <1>13, <1>14,
     <1>15, <1>16, <1>17, <1>18 DEF Next, Upstream

LEMMA MessageHolds == RelayInv /\ MessageInv => AnthropicFaithful
<1> SUFFICES ASSUME RelayInv, MessageInv, request.protocol = "messages", writer.events # <<>>
             PROVE  LET read == ReadMessage(writer.events)
                        said == Deltas(sent)
                    IN /\ read.legal
                       /\ read.state = "complete" =>
                            /\ read.blocks = BlocksOf(said)
                            /\ (read.stop = "tool_use") <=> (CallIndices(said) # {}
                                                             \/ writer.finish = "tool_calls")
  BY DEF AnthropicFaithful
<1> DEFINE read == ReadMessage(writer.events)
           said == Deltas(sent)
<1>1. \/ Following(writer, said) \/ Told(writer, said) \/ Cut(writer)
  <2>1. ~Untold
    BY DEF Untold
  <2>2. PlaceInv /\ RelayTypes /\ translated
    BY DEF RelayInv, translated
  <2>3. QED
    BY <2>1, <2>2 DEF PlaceInv, RelayTypes, MessageInv
<1> HIDE DEF read, said
<1>2. CASE Following(writer, said) \/ Cut(writer)
  <2>1. \E state, blocks : read = Reader(state, blocks, "none") /\ state # "complete"
    <3>1. CASE Following(writer, said)
      <4>1. read = Reader("open", Spoken(writer.open, writer.text), "none")
        BY <3>1 DEF Following, read
      <4>2. QED
        BY <4>1
    <3>2. CASE Cut(writer)
      <4>1. \E blocks : read = Reader("broken", blocks, "none")
        BY <3>2 DEF Cut, read
      <4>2. QED
        BY <4>1
    <3>3. QED
      BY <1>2, <3>1, <3>2
  <2>2. read.legal /\ read.state # "complete"
    BY <2>1 DEF Reader, Reading
  <2>3. QED
    BY <2>2 DEF read
<1>3. CASE Told(writer, said)
  <2> DEFINE reason == StopReason(writer.finish, CallIndices(said) # {})
  <2>1. read = Reader("complete", BlocksOf(said), reason)
    BY <1>3 DEF Told, read
  <2>2. (reason = "tool_use") <=> (CallIndices(said) # {} \/ writer.finish = "tool_calls")
    BY Zenon DEF StopReason
  <2> HIDE DEF reason
  <2>3. read.legal /\ read.blocks = BlocksOf(said) /\ read.stop = reason
    BY <2>1 DEF Reader, Reading
  <2>4. (read.stop = "tool_use") <=> (CallIndices(said) # {} \/ writer.finish = "tool_calls")
    BY <2>2, <2>3
  <2>5. QED
    BY <2>3, <2>4 DEF read, said
<1>4. QED
  BY <1>1, <1>2, <1>3
-----------------------------------------------------------------------------
(* The client of /v1/responses: as long as the translator has not written its
   last event, the client has not read a completed answer. *)

Unfinished(c) == "state" \in DOMAIN c /\ c.state # "complete"

LEMMA StillUnfinished ==
  ASSUME NEW c, Unfinished(c), NEW e, e.kind # "completed"
  PROVE  Unfinished(ResponseEvent(c, e))
<1>1. CASE e.kind = "created"
  <2>1. ASSUME NEW x
        PROVE  /\ "state" \in DOMAIN [c EXCEPT !.legal = x, !.state = "open"]
               /\ [c EXCEPT !.legal = x, !.state = "open"].state = "open"
    BY DEF Unfinished
  <2>2. QED
    BY <1>1, <2>1, Zenon DEF ResponseEvent, Unfinished
<1>2. ASSUME NEW x
      PROVE  "state" \in DOMAIN [c EXCEPT !.legal = x] /\ [c EXCEPT !.legal = x].state = c.state
  BY DEF Unfinished
<1>3. CASE e.kind = "in_progress"
  BY <1>2, <1>3 DEF ResponseEvent, Unfinished
<1>4. CASE e.kind = "error"
  BY <1>4 DEF ResponseEvent, Unfinished
<1>5. CASE e.kind \notin {"created", "in_progress", "error"}
  <2> DEFINE at == e.index + 1
             body == c.items[at].body \o e.body
             new == [id |-> e.name, body |-> <<>>, done |-> FALSE]
             d == ItemEvent(c, e)
  <2>1. ResponseEvent(c, e) = d
    BY <1>5 DEF ResponseEvent
  <2>2. \/ \E x : d = [c EXCEPT !.legal = x, !.items = Append(@, new)]
        \/ \E x : d = [c EXCEPT !.legal = x]
        \/ d = [c EXCEPT !.items[at].body = body]
        \/ \E x : d = [c EXCEPT !.legal = x, !.items[at].done = TRUE, !.items[at].body = e.body]
    BY Zenon DEF ItemEvent
  <2> HIDE DEF at, body, new, d
  <2>3. "state" \in DOMAIN d /\ d.state = c.state
    BY <2>2 DEF Unfinished
  <2>4. QED
    BY <2>1, <2>3 DEF Unfinished
<1>6. QED
  BY <1>1, <1>3, <1>4, <1>5

(* A translator that has not told the client the end. *)
Going(t) ==
  /\ "events" \in DOMAIN t
  /\ \E E : t.events \in Seq(E)
  /\ Unfinished(ReadResponse(t.events))

LEMMA OneEvent ==
  ASSUME NEW t, Going(t), NEW e, e.kind # "completed"
  PROVE  Going(Emit(t, <<e>>)) /\ Last(Emit(t, <<e>>).events) = e /\ Emit(t, <<e>>).events # <<>>
<1> DEFINE u == Emit(t, <<e>>)
<1>1. "events" \in DOMAIN u /\ u.events = t.events \o <<e>>
  BY DEF Emit, Going
<1>2. PICK E : t.events \in Seq(E)
  BY DEF Going
<1> DEFINE F == E \cup {e}
<1>3. t.events \in Seq(F) /\ e \in F
  BY <1>2
<1>4. t.events \o <<e>> = Append(t.events, e) /\ Append(t.events, e) \in Seq(F)
  BY <1>3, AppendIsConcat
<1>5. Unfinished(ReadResponse(Append(t.events, e)))
  <2>1. ReadResponse(Append(t.events, e)) = ResponseEvent(ReadResponse(t.events), e)
    BY <1>3, ReadResponseMore
  <2>2. QED
    BY <2>1, StillUnfinished DEF Going
<1>6. Last(Append(t.events, e)) = e /\ Append(t.events, e) # <<>>
  BY <1>3 DEF Last
<1> HIDE DEF u, F
<1>7. QED
  BY <1>1, <1>4, <1>5, <1>6, Zenon DEF Going, u

LEMMA TwoEvents ==
  ASSUME NEW t, Going(t), NEW a, NEW b, a.kind # "completed", b.kind # "completed"
  PROVE  Going(Emit(t, <<a, b>>))
<1> DEFINE u == Emit(t, <<a>>)
<1>1. Going(u)
  BY OneEvent
<1>2. Going(Emit(u, <<b>>))
  <2> HIDE DEF u
  <2>1. QED
    BY <1>1, OneEvent
<1>3. Emit(u, <<b>>) = Emit(t, <<a, b>>)
  <2>1. Emit(u, <<b>>) = [t EXCEPT !.events = (t.events \o <<a>>) \o <<b>>]
    BY Zenon DEF Emit, Going
  <2>2. (t.events \o <<a>>) \o <<b>> = t.events \o <<a, b>>
    <3>1. PICK E : t.events \in Seq(E)
      BY DEF Going
    <3> DEFINE F == E \cup {a, b}
    <3>2. t.events \in Seq(F) /\ a \in F /\ b \in F
      BY <3>1
    <3> HIDE DEF F
    <3>3. QED
      BY <3>2, OneByOne, Zenon
  <2>3. QED
    BY <2>1, <2>2 DEF Emit
<1>4. QED
  BY <1>2, <1>3

LEMMA NoEvent ==
  ASSUME NEW t, Going(t)
  PROVE  Going(Emit(t, <<>>))
<1>1. t.events \o <<>> = t.events
  BY DEF Going
<1>2. "events" \in DOMAIN Emit(t, <<>>) /\ Emit(t, <<>>).events = t.events
  BY <1>1 DEF Going, Emit
<1>3. QED
  BY <1>2 DEF Going

(* Fields other than the events do not matter. *)
LEMMA SameEvents ==
  ASSUME NEW t, Going(t), NEW u, "events" \in DOMAIN u, u.events = t.events
  PROVE  Going(u)
BY DEF Going

LEMMA KindIs == ASSUME NEW kind, NEW index, NEW name, NEW body
                PROVE  Event(kind, index, name, body).kind = kind
BY DEF Event

LEMMA BeginGoing == Going(BeginResponse)
<1> DEFINE a == Plainly("created")
           b == Plainly("in_progress")
           t == [BeginResponse EXCEPT !.events = <<>>]
<1>1. a.kind # "completed" /\ b.kind # "completed"
  BY KindIs DEF Plainly
<1>2. "events" \in DOMAIN t /\ t.events = <<>> /\ <<>> \in Seq({})
  BY DEF BeginResponse
<1>3. Going(t)
  <2>2. Unfinished(NoResponse)
    BY DEF Unfinished, NoResponse
  <2>3. QED
    BY <1>2, <2>2, ReadResponseMore DEF Going
<1>4. Emit(t, <<a, b>>) = BeginResponse
  <2>1. ASSUME NEW x PROVE [t EXCEPT !.events = x] = [BeginResponse EXCEPT !.events = x]
    BY Zenon DEF BeginResponse
  <2>2. ASSUME NEW x, NEW y PROVE <<>> \o <<x, y>> = <<x, y>>
    OBVIOUS
  <2>3. Emit(t, <<a, b>>) = [t EXCEPT !.events = <<a, b>>]
    BY <1>2, <2>2, Zenon DEF Emit
  <2>4. [BeginResponse EXCEPT !.events = <<a, b>>] = BeginResponse
    BY DEF BeginResponse
  <2>5. QED
    BY <2>1, <2>3, <2>4
<1> HIDE DEF t, a, b
<1>5. QED
  BY <1>1, <1>3, <1>4, TwoEvents

LEMMA FinishGoing ==
  ASSUME NEW t, Going(t), NEW finish
  PROVE  Going(Finished(t, finish))
BY SameEvents DEF Finished, Going

LEMMA TextGoing ==
  ASSUME NEW t, Going(t), NEW text
  PROVE  Going(TextItem(t, text))
<1> DEFINE u == EnsureTextItem(t)
           v == [u EXCEPT !.text = @ \o text]
<1>1. Going(u)
  <2>1. CASE t.textAt # Unset
    BY <2>1 DEF EnsureTextItem
  <2>2. CASE t.textAt = Unset
    <3> DEFINE w == [t EXCEPT !.textAt = t.next, !.next = @ + 1]
               a == Event("item_added", t.next, <<"msg">>, <<>>)
               b == Event("part_added", t.next, <<"msg">>, <<>>)
    <3>1. Going(w)
      BY SameEvents DEF Going
    <3>2. a.kind # "completed" /\ b.kind # "completed"
      BY KindIs
    <3>3. u = Emit(w, <<a, b>>)
      BY <2>2 DEF EnsureTextItem
    <3> HIDE DEF w, a, b, u
    <3>4. QED
      BY <3>1, <3>2, <3>3, TwoEvents
  <2>3. QED
    BY <2>1, <2>2
<1> DEFINE e == Event("text_delta", u.textAt, <<"msg">>, text)
<1>2. TextItem(t, text) = IF text = <<>> THEN t ELSE Emit(v, <<e>>)
  BY DEF TextItem
<1>3. e.kind # "completed"
  BY KindIs
<1> HIDE DEF u, e
<1>4. Going(v)
  BY <1>1, SameEvents DEF Going
<1> HIDE DEF v
<1>5. QED
  BY <1>2, <1>3, <1>4, OneEvent

LEMMA FragmentGoing ==
  ASSUME NEW t, Going(t), NEW f
  PROVE  Going(ToolFragment(t, f))
<1> DEFINE i == f.index
           known == Indexed(t, i)
           named == [known EXCEPT !.calls[i].name = @ \o f.name]
           ensured == EnsureToolItem(named, i)
           grown == [ensured EXCEPT !.calls[i].args = @ \o f.args]
           call == ensured.calls[i]
           e == Event("args_delta", call.at, <<"fc">>, f.args)
<1>1. Going(known)
  BY SameEvents DEF Indexed, Going
<1>2. Going(named)
  <2> HIDE DEF known
  <2>1. QED
    BY <1>1, SameEvents DEF Going
<1>3. Going(ensured)
  <2> HIDE DEF named
  <2>1. CASE named.calls[i].emitted \/ named.calls[i].name = <<>>
    BY <1>2, <2>1 DEF EnsureToolItem
  <2>2. CASE ~(named.calls[i].emitted \/ named.calls[i].name = <<>>)
    <3> DEFINE w == [named EXCEPT !.calls[i].emitted = TRUE]
               a == Event("item_added", named.calls[i].at, ItemId(named.calls[i].name), <<>>)
    <3>1. Going(w)
      BY <1>2, SameEvents DEF Going
    <3>2. a.kind # "completed"
      BY KindIs
    <3>3. ensured = Emit(w, <<a>>)
      BY <2>2 DEF EnsureToolItem
    <3> HIDE DEF w, a, ensured
    <3>4. QED
      BY <3>1, <3>2, <3>3, OneEvent
  <2>3. QED
    BY <2>1, <2>2
<1>4. ToolFragment(t, f) =
        IF f.args = <<>> THEN ensured
        ELSE Emit(grown, IF call.name \in CustomTools THEN <<>> ELSE <<e>>)
  BY DEF ToolFragment
<1>5. e.kind # "completed"
  BY DEF Event
<1> HIDE DEF known, named, ensured, call, e
<1>6. Going(grown)
  BY <1>3, SameEvents DEF Going
<1> HIDE DEF grown
<1>7. QED
  BY <1>3, <1>4, <1>5, <1>6, OneEvent, NoEvent

LEMMA ChunkGoing ==
  ASSUME NEW C, Chunks(C), NEW c \in C, NEW t, Going(t)
  PROVE  Going(ResponseChunk(t, c))
<1> DEFINE begun == TextItem(Finished(t, c.finish), c.text)
           Good == {s \in Seq(Fragments) : Going(ToolsFolded(begun, s))}
<1>1. Going(begun)
  BY FinishGoing, TextGoing
<1> HIDE DEF begun
<1>2. Seq(Fragments) \subseteq Good
  <2>1. <<>> \in Good
    BY <1>1, ToolsMore
  <2>2. ASSUME NEW s \in Seq(Fragments), NEW f \in Fragments, s \in Good
        PROVE  Append(s, f) \in Good
    <3>1. Going(ToolsFolded(begun, s)) /\ Append(s, f) \in Seq(Fragments)
      BY <2>2
    <3>2. ToolsFolded(begun, Append(s, f)) = ToolFragment(ToolsFolded(begun, s), f)
      BY ToolsMore
    <3>3. QED
      BY <3>1, <3>2, FragmentGoing
  <2> HIDE DEF Good
  <2>3. QED
    BY <2>1, <2>2, SeqInduction
<1>3. Going(ToolsFolded(begun, c.calls))
  BY <1>2 DEF Chunks
<1>4. CASE c.kind = "delta"
  BY <1>3, <1>4 DEF ResponseChunk, ToolsFolded, begun
<1>5. CASE c.kind # "delta"
  BY <1>5 DEF ResponseChunk
<1>6. QED
  BY <1>4, <1>5
-----------------------------------------------------------------------------
(* Where a stream for /v1/responses has not been completed. *)
ResponseInv ==
  request.protocol = "responses" =>
    /\ phase = "relaying" => Going(writer)
    /\ phase = "ended" /\ upstream # "closed" =>
         \/ Untold
         \/ Going(writer) /\ writer.events # <<>> /\ Last(writer.events).kind = "error"

LEMMA ResponseStep == RelayInv /\ ResponseInv /\ [Next]_vars => ResponseInv'
<1> SUFFICES ASSUME RelayInv, ResponseInv, [Next]_vars, request.protocol = "responses"
             PROVE  ResponseInv'
  <2>1. ASSUME [Next]_vars PROVE request' = request
    BY <2>1, RequestStays
  <2>2. QED
    BY <2>1 DEF ResponseInv
<1> DEFINE C == request.chunks
<1>0. Chunks(C) /\ sent \in Seq(C) /\ PlaceInv /\ translated /\ ResponseInv
  BY ChunkTypes DEF RelayInv, translated
<1> USE <1>0
<1>1. ASSUME TranslateRequest PROVE ResponseInv'
  BY <1>1 DEF TranslateRequest, ResponseInv, PlaceInv, Untold
<1>2. ASSUME RoutingFails PROVE ResponseInv'
  BY <1>2 DEF RoutingFails, ResponseInv, PlaceInv, Untold
<1>3. ASSUME NEW chunk \in C, Prime(chunk) PROVE ResponseInv'
  <2>1. writer' = ResponseChunk(BeginResponse, chunk) /\ phase' = "relaying"
    BY <1>3 DEF Prime, Relayed, Translate, Begin
  <2>2. Going(writer')
    BY <2>1, BeginGoing, ChunkGoing
  <2>3. QED
    BY <2>1, <2>2 DEF ResponseInv
<1>4. ASSUME NEW chunk \in C, Relay(chunk) PROVE ResponseInv'
  <2>1. /\ writer' = ResponseChunk(writer, chunk) /\ phase = "relaying"
        /\ phase' = "relaying"
    BY <1>4 DEF Relay, Relayed, Translate
  <2>2. Going(writer')
    BY <2>1, ChunkGoing DEF ResponseInv
  <2>3. QED
    BY <2>1, <2>2 DEF ResponseInv
<1>5. ASSUME UpstreamBreaks PROVE ResponseInv'
  <2> DEFINE e == Plainly("error")
  <2>1. writer' = Emit(writer, <<e>>) /\ phase' = "ended" /\ phase = "relaying"
    BY <1>5 DEF UpstreamBreaks, ErrorEvent
  <2>2. e.kind = "error"
    BY DEF Plainly, Event
  <2> HIDE DEF e
  <2>3. Going(writer') /\ writer'.events # <<>> /\ Last(writer'.events) = e
    BY <2>1, <2>2, OneEvent DEF ResponseInv
  <2>4. QED
    BY <2>1, <2>2, <2>3 DEF ResponseInv
<1>6. ASSUME PrimeBreaks PROVE ResponseInv'
  BY <1>6 DEF PrimeBreaks, ResponseInv, PlaceInv, Untold
<1>7. ASSUME \/ PrimeEmpty \/ UpstreamCloses
             \/ \E chunk \in C : PrimeWhole(chunk) \/ ReadWhole(chunk)
      PROVE  ResponseInv'
  BY <1>7 DEF PrimeEmpty, UpstreamCloses, PrimeWhole, ReadWhole, ResponseInv
<1>8. ASSUME RecordUsage \/ Reconcile \/ ReconcileFails \/ WriteLog \/ StoreFails
      PROVE  ResponseInv'
  BY <1>8 DEF RecordUsage, Reconcile, ReconcileFails, WriteLog, StoreFails, ResponseInv, PlaceInv
<1>9. ASSUME Drain PROVE ResponseInv'
  BY <1>9 DEF Drain, PlaceInv
<1>10. ASSUME ClientLeaves PROVE ResponseInv'
  BY <1>10 DEF ClientLeaves, ResponseInv, Untold
<1>11. CASE UNCHANGED vars
  BY <1>11 DEF vars, ResponseInv, Untold
<1>12. QED
  BY <1>1, <1>2, <1>3, <1>4, <1>5, <1>6, <1>7, <1>8, <1>9, <1>10, <1>11 DEF Next, Upstream

LEMMA AnswersInit == Init => MessageInv /\ ResponseInv
BY DEF Init, MessageInv, ResponseInv

LEMMA CompletionHolds == RelayInv /\ MessageInv /\ ResponseInv => CompletionMeansEnd
<1> SUFFICES ASSUME RelayInv, MessageInv, ResponseInv, translated, request.streaming,
                    writer.events # <<>>, upstream # "closed"
             PROVE  /\ request.protocol = "messages" =>
                         ReadMessage(writer.events).state # "complete"
                    /\ request.protocol = "responses" =>
                         ReadResponse(writer.events).state # "complete"
                    /\ phase = "ended" /\ upstream = "broken" =>
                         Last(writer.events).kind = "error"
  <2>1. ASSUME RelayInv, translated PROVE request.protocol \in {"messages", "responses"}
    <3>1. RelayTypes
      BY <2>1 DEF RelayInv
    <3>2. QED
      BY <2>1, <3>1, RelayAssumption DEF RelayTypes, translated, Protocols
  <2>2. QED
    BY <2>1, Zenon DEF CompletionMeansEnd
<1>1. ~Untold /\ PlaceInv /\ RelayTypes
  BY DEF Untold, RelayInv
<1>2. phase \in {"relaying", "ended"}
  BY <1>1 DEF PlaceInv, RelayTypes
<1>3. ASSUME request.protocol = "messages"
      PROVE  /\ ReadMessage(writer.events).state # "complete"
             /\ phase = "ended" => Last(writer.events).kind = "error"
  <2>1. CASE phase = "relaying"
    <3>1. \E blocks : ReadMessage(writer.events) = Reader("open", blocks, "none")
      BY <1>3, <2>1 DEF MessageInv, Following
    <3>2. QED
      BY <2>1, <3>1 DEF Reader, Reading
  <2>2. CASE phase = "ended"
    <3>1. Cut(writer)
      BY <1>1, <1>3, <2>2 DEF MessageInv
    <3>2. PICK blocks : ReadMessage(writer.events) = Reader("broken", blocks, "none")
      BY <3>1 DEF Cut
    <3>3. ReadMessage(writer.events).state = "broken"
      BY <3>2 DEF Reader, Reading
    <3>4. QED
      BY <3>1, <3>3 DEF Cut
  <2>3. QED
    BY <1>2, <2>1, <2>2
<1>4. ASSUME request.protocol = "responses"
      PROVE  /\ ReadResponse(writer.events).state # "complete"
             /\ phase = "ended" => Last(writer.events).kind = "error"
  BY <1>1, <1>2, <1>4 DEF ResponseInv, Going, Unfinished
<1>5. request.protocol \in {"messages", "responses"}
  BY <1>1, RelayAssumption DEF RelayTypes, translated, Protocols
<1>6. QED
  BY <1>3, <1>4, <1>5

(* Whatever a provider streams to a client of /v1/messages, the client reads no event
   out of place, and a complete message holds the text and the tool calls the provider
   sent (streamOpenAIAsAnthropic). *)
THEOREM AnthropicHolds == Spec => []AnthropicFaithful
<1>1. RelayInv /\ MessageInv /\ [Next]_vars => MessageInv'
  BY MessageStep
<1>2. Init => MessageInv
  BY AnswersInit
<1>3. RelayInv /\ MessageInv => AnthropicFaithful
  BY MessageHolds
<1>4. QED
  BY RelayInvariant, <1>1, <1>2, <1>3, PTL DEF Spec

(* A client that has read a complete message or response was sent everything, to the
   end of the provider's stream; one whose stream broke off reads an error last
   (the catch of the handlers of /v1/messages and /v1/responses). *)
THEOREM CompletionHonest == Spec => []CompletionMeansEnd
<1>1. RelayInv /\ MessageInv /\ ResponseInv /\ [Next]_vars => MessageInv' /\ ResponseInv'
  BY MessageStep, ResponseStep
<1>2. Init => MessageInv /\ ResponseInv
  BY AnswersInit
<1>3. RelayInv /\ MessageInv /\ ResponseInv => CompletionMeansEnd
  BY CompletionHolds
<1>4. QED
  BY RelayInvariant, <1>1, <1>2, <1>3, PTL DEF Spec
-----------------------------------------------------------------------------
(* What a conversation becomes: the folds over its blocks and its items. *)

Users == INSTANCE FoldLemmas WITH Op <- UserBlock

Inputs == INSTANCE FoldLemmas WITH Op <- Item

UsersFolded(base, blocks) == FoldLeft(UserBlock, base, blocks)

ItemsFolded(base, items) == FoldLeft(Item, base, items)

LEMMA UsersMore ==
  /\ \A base : UsersFolded(base, <<>>) = base
  /\ \A E, base : \A s \in Seq(E), e \in E :
       UsersFolded(base, Append(s, e)) = UserBlock(UsersFolded(base, s), e)
<1>1. \A base, s : UsersFolded(base, s) = Users!Fold(base, s)
  BY DEF UsersFolded, FoldLeft, MapThenFoldSet, Max, Users!Fold, Users!Largest
<1>2. \A base : UsersFolded(base, <<>>) = base
  BY <1>1, Users!FoldNothing, Induction
<1>3. ASSUME NEW E, NEW base, NEW s \in Seq(E), NEW e \in E
      PROVE  UsersFolded(base, Append(s, e)) = UserBlock(UsersFolded(base, s), e)
  BY <1>1, Users!FoldAppend, Induction
<1>4. QED
  BY <1>2, <1>3

LEMMA ItemsMore ==
  /\ \A base : ItemsFolded(base, <<>>) = base
  /\ \A E, base : \A s \in Seq(E), e \in E :
       ItemsFolded(base, Append(s, e)) = Item(ItemsFolded(base, s), e)
<1>1. \A base, s : ItemsFolded(base, s) = Inputs!Fold(base, s)
  BY DEF ItemsFolded, FoldLeft, MapThenFoldSet, Max, Inputs!Fold, Inputs!Largest
<1>2. \A base : ItemsFolded(base, <<>>) = base
  BY <1>1, Inputs!FoldNothing, Induction
<1>3. ASSUME NEW E, NEW base, NEW s \in Seq(E), NEW e \in E
      PROVE  ItemsFolded(base, Append(s, e)) = Item(ItemsFolded(base, s), e)
  BY <1>1, Inputs!FoldAppend, Induction
<1>4. QED
  BY <1>2, <1>3

-----------------------------------------------------------------------------
(* What the messages of a chat completion say. *)

Words == Contents \cup {"system"}

Messages1 ==
  [role : {"system", "user", "assistant", "tool"}, content : Seq(Words), calls : Seq(Words)]

Blocks == [kind : {"text", "image", "tool_use", "tool_result", "other"}, id : Contents]

LEMMA SaidOne ==
  ASSUME NEW ms \in Seq(Messages1), NEW m \in Messages1
  PROVE  /\ Said(Append(ms, m)) = Said(ms) \o (m.content \o m.calls)
         /\ Said(ms) \in Seq(Words) /\ Append(ms, m) \in Seq(Messages1)
<1> DEFINE n == Len(ms)
           more == Append(ms, m)
           s == [k \in 1..n |-> ms[k].content \o ms[k].calls]
           u == [k \in 1..n + 1 |-> more[k].content \o more[k].calls]
<1>1. /\ n \in Nat /\ DOMAIN ms = 1..n /\ DOMAIN more = 1..n + 1 /\ more[n + 1] = m
      /\ \A k \in 1..n : more[k] = ms[k] /\ ms[k] \in Messages1
      /\ more \in Seq(Messages1)
  OBVIOUS
<1>2. n + 1 \in 1..n + 1 /\ 1..n + 1 = 1..n \cup {n + 1}
  BY <1>1
<1> HIDE DEF more, n
<1>3. \A k \in 1..n + 1 : more[k] \in Messages1
  BY <1>1, <1>2
<1>4. \A x \in Messages1 : x.content \o x.calls \in Seq(Words)
  BY DEF Messages1
<1>5. s \in [1..n -> Seq(Words)] /\ u \in [1..n + 1 -> Seq(Words)]
  BY <1>1, <1>3, <1>4
<1>6. (\A k \in 1..n : u[k] = s[k]) /\ u[n + 1] = m.content \o m.calls
  BY <1>1, <1>2, Zenon
<1>7. Said(ms) = FlattenSeq(s) /\ Said(more) = FlattenSeq(u)
  BY <1>1 DEF Said
<1> HIDE DEF s, u
<1>8. FlattenSeq(u) = FlattenSeq(s) \o u[n + 1] /\ FlattenSeq(s) \in Seq(Words)
  BY <1>1, <1>5, <1>6, FlattenOne, Zenon
<1>9. QED
  BY <1>1, <1>6, <1>7, <1>8 DEF more

LEMMA SaidNone == Said(<<>>) = <<>>
<1> DEFINE none == [k \in 1..0 |-> <<>>]
<1>1. none \in [1..0 -> {<<>>}] /\ 0 \in Nat
  OBVIOUS
<1>2. FlattenSeq(none) = <<>>
  <2> HIDE DEF none
  <2>1. QED
    BY <1>1, FlattenNothing, Zenon
<1>3. DOMAIN <<>> = 1..0 /\ 1..0 = {}
  OBVIOUS
<1>4. Said(<<>>) = FlattenSeq(none)
  BY <1>3 DEF Said
<1>5. QED
  BY <1>2, <1>4

LEMMA SaidBoth ==
  ASSUME NEW ms \in Seq(Messages1), NEW ns \in Seq(Messages1)
  PROVE  /\ Said(ms \o ns) = Said(ms) \o Said(ns)
         /\ Said(ms) \in Seq(Words) /\ ms \o ns \in Seq(Messages1)
<1> DEFINE Good == {s \in Seq(Messages1) : Said(ms \o s) = Said(ms) \o Said(s)
                                           /\ Said(s) \in Seq(Words)}
<1>1. <<>> \in Good
  <2>1. ASSUME NEW E, NEW s \in Seq(E) PROVE s \o <<>> = s
    OBVIOUS
  <2>2. Said(ms) \in Seq(Words)
    <3>1. \A m \in Messages1 : Said(ms) \in Seq(Words)
      BY SaidOne, Zenon
    <3>2. [role |-> "user", content |-> <<>>, calls |-> <<>>] \in Messages1
      BY DEF Messages1
    <3>3. QED
      BY <3>1, <3>2
  <2>3. ms \o <<>> = ms /\ Said(ms) \o <<>> = Said(ms)
    BY <2>1, <2>2
  <2>4. <<>> \in Seq(Messages1) /\ <<>> \in Seq(Words)
    OBVIOUS
  <2>5. Said(ms \o <<>>) = Said(ms) \o Said(<<>>) /\ Said(<<>>) \in Seq(Words)
    BY <2>3, <2>4, SaidNone, Zenon
  <2>6. QED
    BY <2>4, <2>5
<1>2. ASSUME NEW s \in Seq(Messages1), NEW m \in Messages1, s \in Good
      PROVE  Append(s, m) \in Good
  <2> DEFINE p == m.content \o m.calls
  <2>1. Said(Append(s, m)) = Said(s) \o p /\ Append(s, m) \in Seq(Messages1)
    BY SaidOne, Zenon
  <2>2. ms \o Append(s, m) = Append(ms \o s, m) /\ ms \o s \in Seq(Messages1)
    BY AppendToConcat
  <2>3. Said(Append(ms \o s, m)) = Said(ms \o s) \o p /\ Said(ms) \in Seq(Words)
    BY <2>2, SaidOne, Zenon
  <2>4. p \in Seq(Words)
    BY DEF Messages1
  <2>5. Said(ms \o s) = Said(ms) \o Said(s) /\ Said(s) \in Seq(Words)
    BY <1>2
  <2> HIDE DEF p
  <2>6. (Said(ms) \o Said(s)) \o p = Said(ms) \o (Said(s) \o p) /\ Said(s) \o p \in Seq(Words)
    <3>1. \A x, y, z \in Seq(Words) : x \o (y \o z) = (x \o y) \o z /\ y \o z \in Seq(Words)
      BY ConcatAssociates
    <3>2. QED
      BY <2>3, <2>4, <2>5, <3>1, Zenon
  <2>7. QED
    BY <2>1, <2>2, <2>3, <2>5, <2>6, Zenon
<1> HIDE DEF Good
<1>3. Seq(Messages1) \subseteq Good
  BY <1>1, <1>2, SeqInduction
<1>4. ms \in Good /\ ns \in Good
  BY <1>3
<1>5. QED
  BY <1>4 DEF Good
-----------------------------------------------------------------------------
(* The identities of the blocks of some kinds. *)

Picked(blocks, kinds) == Ids(OfKind(blocks, kinds))

LEMMA OfKindMore ==
  ASSUME NEW B, NEW blocks \in Seq(B), NEW b \in B, NEW kinds
  PROVE  /\ OfKind(Append(blocks, b), kinds) =
              IF b.kind \in kinds THEN Append(OfKind(blocks, kinds), b)
              ELSE OfKind(blocks, kinds)
         /\ OfKind(blocks, kinds) \in Seq(B)
<1> DEFINE n == Len(blocks)
           more == Append(blocks, b)
           One(x) == IF x.kind \in kinds THEN <<x>> ELSE <<>>
           s == [k \in 1..n |-> One(blocks[k])]
           u == [k \in 1..n + 1 |-> One(more[k])]
<1>1. /\ n \in Nat /\ DOMAIN blocks = 1..n /\ DOMAIN more = 1..n + 1 /\ more[n + 1] = b
      /\ \A k \in 1..n : more[k] = blocks[k] /\ blocks[k] \in B
  OBVIOUS
<1>2. n + 1 \in 1..n + 1 /\ 1..n + 1 = 1..n \cup {n + 1}
  BY <1>1
<1>3. OfKind(blocks, kinds) = FlattenSeq(s) /\ OfKind(more, kinds) = FlattenSeq(u)
  BY <1>1 DEF OfKind
<1> HIDE DEF more, n
<1>4. \A k \in 1..n + 1 : more[k] \in B
  BY <1>1, <1>2
<1>5. \A x \in B : One(x) \in Seq(B)
  OBVIOUS
<1> HIDE DEF One
<1>6. s \in [1..n -> Seq(B)] /\ u \in [1..n + 1 -> Seq(B)]
  BY <1>1, <1>4, <1>5
<1>7. (\A k \in 1..n : u[k] = s[k]) /\ u[n + 1] = One(b)
  BY <1>1, <1>2
<1> HIDE DEF s, u
<1>8. FlattenSeq(u) = FlattenSeq(s) \o u[n + 1] /\ FlattenSeq(s) \in Seq(B)
  BY <1>1, <1>6, <1>7, FlattenOne, Zenon
<1>9. \A d \in Seq(B) : d \o <<b>> = Append(d, b) /\ d \o <<>> = d
  BY AppendIsConcat
<1>10. QED
  BY <1>3, <1>7, <1>8, <1>9 DEF more, One

LEMMA PickedMore ==
  ASSUME NEW B, \A x \in B : x.id \in Contents, NEW blocks \in Seq(B), NEW b \in B, NEW kinds
  PROVE  /\ Picked(Append(blocks, b), kinds) =
              IF b.kind \in kinds THEN Append(Picked(blocks, kinds), b.id)
              ELSE Picked(blocks, kinds)
         /\ Picked(blocks, kinds) \in Seq(Contents)
<1> DEFINE s == OfKind(blocks, kinds)
<1>1. /\ OfKind(Append(blocks, b), kinds) = IF b.kind \in kinds THEN Append(s, b) ELSE s
      /\ s \in Seq(B)
  BY OfKindMore
<1>2. \A q \in Seq(B) : Ids(Append(q, b)) = Append(Ids(q), b.id) /\ Ids(q) \in Seq(Contents)
  <2>1. ASSUME NEW q \in Seq(B)
        PROVE  Ids(Append(q, b)) = Append(Ids(q), b.id) /\ Ids(q) \in Seq(Contents)
    <3>1. /\ Ids(q) \in Seq(Contents) /\ Len(Ids(q)) = Len(q)
          /\ \A k \in 1..Len(q) : Ids(q)[k] = q[k].id
      BY DEF Ids
    <3>2. /\ DOMAIN Append(q, b) = 1..Len(q) + 1 /\ Append(q, b)[Len(q) + 1] = b
          /\ \A k \in 1..Len(q) : Append(q, b)[k] = q[k]
      OBVIOUS
    <3>3. \A k \in 1..Len(q) + 1 : Append(Ids(q), b.id)[k] = Append(q, b)[k].id
      <4>1. 1..Len(q) + 1 = 1..Len(q) \cup {Len(q) + 1}
        OBVIOUS
      <4>2. QED
        BY <3>1, <3>2, <4>1
    <3>4. Append(Ids(q), b.id) = [k \in 1..Len(q) + 1 |-> Append(q, b)[k].id]
      BY <3>1, <3>3
    <3>5. QED
      BY <3>1, <3>2, <3>4 DEF Ids
  <2>2. QED
    BY <2>1
<1> HIDE DEF s
<1>3. QED
  BY <1>1, <1>2, Zenon DEF Picked, s

LEMMA PickedNothing ==
  ASSUME NEW kinds
  PROVE  Picked(<<>>, kinds) = <<>>
<1> DEFINE none == [k \in 1..0 |-> <<>>]
<1>1. none \in [1..0 -> {<<>>}] /\ 0 \in Nat
  OBVIOUS
<1>2. FlattenSeq(none) = <<>>
  <2> HIDE DEF none
  <2>1. QED
    BY <1>1, FlattenNothing, Zenon
<1>3. DOMAIN <<>> = 1..0 /\ 1..0 = {}
  OBVIOUS
<1>4. OfKind(<<>>, kinds) = FlattenSeq(none)
  BY <1>3 DEF OfKind
<1>5. Ids(<<>>) = <<>>
  BY DEF Ids
<1>6. QED
  BY <1>2, <1>4, <1>5 DEF Picked
-----------------------------------------------------------------------------
(* /v1/messages: each turn says what its blocks are. *)

Texts1 == {"text", "image"}

Results == {"text", "image", "tool_result"}

GathersUser(acc, s) ==
  /\ acc = [out |-> acc.out, pending |-> acc.pending]
  /\ acc.out \in Seq(Messages1) /\ acc.pending \in Seq(Blocks)
  /\ Said(acc.out) \o Picked(acc.pending, Texts1) = Picked(s, Results)

LEMMA PickedBlocks ==
  ASSUME NEW s \in Seq(Blocks), NEW b \in Blocks, NEW kinds
  PROVE  /\ Picked(Append(s, b), kinds) =
              IF b.kind \in kinds THEN Append(Picked(s, kinds), b.id) ELSE Picked(s, kinds)
         /\ Picked(s, kinds) \in Seq(Contents) /\ Picked(s, kinds) \in Seq(Words)
<1>1. \A x \in Blocks : x.id \in Contents
  BY DEF Blocks
<1>2. /\ Picked(Append(s, b), kinds) =
           IF b.kind \in kinds THEN Append(Picked(s, kinds), b.id) ELSE Picked(s, kinds)
      /\ Picked(s, kinds) \in Seq(Contents)
  BY <1>1, PickedMore
<1>3. \A q \in Seq(Contents) : q \in Seq(Words)
  BY DEF Words
<1>4. QED
  BY <1>2, <1>3

LEMMA PickedType ==
  ASSUME NEW B, \A x \in B : x.id \in Contents, NEW s \in Seq(B), NEW kinds
  PROVE  Picked(s, kinds) \in Seq(Contents) /\ Picked(s, kinds) \in Seq(Words)
<1>1. \A q \in Seq(Contents) : q \in Seq(Words)
  BY DEF Words
<1>2. CASE s = <<>>
  <2>1. Picked(s, kinds) = <<>>
    BY <1>2, PickedNothing
  <2>2. QED
    BY <2>1
<1>3. CASE s # <<>>
  <2>1. s[1] \in B
    BY <1>3
  <2>2. QED
    BY <1>1, <2>1, PickedMore
<1>4. QED
  BY <1>2, <1>3

LEMMA FlushedSays ==
  ASSUME NEW acc, acc.out \in Seq(Messages1), acc.pending \in Seq(Blocks)
  PROVE  /\ Flushed(acc) \in Seq(Messages1)
         /\ Said(Flushed(acc)) = Said(acc.out) \o Picked(acc.pending, Texts1)
<1> DEFINE ids == Picked(acc.pending, Texts1)
           m == Message("user", ids, <<>>)
<1>1. ids \in Seq(Words)
  BY PickedType, Zenon DEF Blocks
<1>2. Said(acc.out) \in Seq(Words)
  BY SaidBoth
<1>3. CASE acc.pending = <<>>
  <2>1. ids = <<>>
    BY <1>3, PickedNothing
  <2>2. Said(acc.out) \o <<>> = Said(acc.out)
    BY <1>2
  <2>3. QED
    BY <1>3, <2>1, <2>2, Zenon DEF Flushed
<1>4. CASE acc.pending # <<>>
  <2>1. Flushed(acc) = Append(acc.out, m)
    BY <1>4 DEF Flushed, Picked, Texts1
  <2>2. m \in Messages1 /\ m.content \o m.calls = ids
    <3>1. <<>> \in Seq(Words) /\ ids \o <<>> = ids
      BY <1>1
    <3> HIDE DEF ids
    <3>2. QED
      BY <1>1, <3>1 DEF Message, Messages1
  <2> HIDE DEF m, ids
  <2>3. QED
    BY <2>1, <2>2, SaidOne, Zenon DEF ids
<1>5. QED
  BY <1>3, <1>4

LEMMA UserStep ==
  ASSUME NEW acc, NEW s \in Seq(Blocks), NEW b \in Blocks, GathersUser(acc, s)
  PROVE  GathersUser(UserBlock(acc, b), Append(s, b))
<1> DEFINE new == UserBlock(acc, b)
<1>1. /\ acc = [out |-> acc.out, pending |-> acc.pending]
      /\ acc.out \in Seq(Messages1) /\ acc.pending \in Seq(Blocks)
      /\ Said(acc.out) \o Picked(acc.pending, Texts1) = Picked(s, Results)
  BY DEF GathersUser
<1>2. /\ Picked(Append(s, b), Results) =
           IF b.kind \in Results THEN Append(Picked(s, Results), b.id) ELSE Picked(s, Results)
      /\ Picked(Append(acc.pending, b), Texts1) =
           IF b.kind \in Texts1 THEN Append(Picked(acc.pending, Texts1), b.id)
           ELSE Picked(acc.pending, Texts1)
      /\ Picked(acc.pending, Texts1) \in Seq(Words) /\ Picked(s, Results) \in Seq(Words)
      /\ Said(acc.out) \in Seq(Words) /\ b.id \in Words
  <2>1. b.id \in Words
    BY DEF Blocks, Words
  <2>2. QED
    BY <1>1, <2>1, PickedBlocks, SaidBoth
<1>3. CASE b.kind = "tool_result"
  <2> DEFINE m == ToolResult(b)
             out == Append(Flushed(acc), m)
  <2>1. new = [out |-> out, pending |-> <<>>]
    BY <1>3 DEF UserBlock
  <2>2. m \in Messages1 /\ m.content \o m.calls = <<b.id>>
    <3>1. <<b.id>> \in Seq(Words) /\ <<>> \in Seq(Words) /\ <<b.id>> \o <<>> = <<b.id>>
      BY <1>2
    <3>2. QED
      BY <3>1 DEF ToolResult, Message, Messages1
  <2>3. /\ Flushed(acc) \in Seq(Messages1)
        /\ Said(Flushed(acc)) = Picked(s, Results)
    BY <1>1, FlushedSays, Zenon
  <2> HIDE DEF m
  <2>4. out \in Seq(Messages1) /\ Said(out) = Picked(s, Results) \o <<b.id>>
    BY <2>2, <2>3, SaidOne, Zenon
  <2>5. Picked(s, Results) \o <<b.id>> = Append(Picked(s, Results), b.id)
    BY <1>2, AppendIsConcat
  <2>6. Picked(Append(s, b), Results) = Append(Picked(s, Results), b.id)
    BY <1>2, <1>3 DEF Results
  <2>7. new.out = out /\ new.pending = <<>> /\ new = [out |-> new.out, pending |-> new.pending]
    BY <2>1
  <2> HIDE DEF out, new
  <2>8. Said(out) \o Picked(<<>>, Texts1) = Said(out)
    <3>1. Said(out) \in Seq(Words)
      BY <2>4, SaidBoth, Zenon
    <3>2. QED
      BY <3>1, PickedNothing
  <2>9. <<>> \in Seq(Blocks)
    OBVIOUS
  <2>10. Said(new.out) \o Picked(new.pending, Texts1) = Picked(Append(s, b), Results)
    BY <2>4, <2>5, <2>6, <2>7, <2>8
  <2>11. QED
    BY <2>4, <2>7, <2>9, <2>10 DEF GathersUser, new
<1>4. CASE b.kind # "tool_result"
  <2> DEFINE pending == Append(acc.pending, b)
  <2>1. new = [out |-> acc.out, pending |-> pending]
    BY <1>1, <1>4, Zenon DEF UserBlock
  <2>2. /\ new.out = acc.out /\ new.pending = pending
        /\ new = [out |-> new.out, pending |-> new.pending]
    BY <2>1
  <2>3. pending \in Seq(Blocks)
    BY <1>1
  <2> HIDE DEF new
  <2>4. Said(acc.out) \o Picked(pending, Texts1) = Picked(Append(s, b), Results)
    <3>1. CASE b.kind \in Texts1
      <4>1. b.kind \in Results
        BY <3>1 DEF Texts1, Results
      <4>2. \A x, y \in Seq(Words) : \A w \in Words : x \o Append(y, w) = Append(x \o y, w)
        BY AppendToConcat
      <4>3. QED
        BY <1>1, <1>2, <3>1, <4>1, <4>2, Zenon
    <3>2. CASE b.kind \notin Texts1
      <4>1. b.kind \notin Results
        BY <1>4, <3>2 DEF Texts1, Results
      <4>2. QED
        BY <1>1, <1>2, <3>2, <4>1
    <3>3. QED
      BY <3>1, <3>2
  <2> HIDE DEF pending
  <2>5. QED
    BY <1>1, <2>2, <2>3, <2>4 DEF GathersUser, new
<1>5. QED
  BY <1>3, <1>4

LEMMA UserSays ==
  ASSUME NEW blocks \in Seq(Blocks)
  PROVE  /\ Said(ConvertUserMessage(blocks)) = Picked(blocks, Results)
         /\ ConvertUserMessage(blocks) \in Seq(Messages1)
<1> DEFINE base == [out |-> <<>>, pending |-> <<>>]
           Good == {s \in Seq(Blocks) : GathersUser(UsersFolded(base, s), s)}
           acc == UsersFolded(base, blocks)
           out == Flushed(acc)
           m == Message("user", <<>>, <<>>)
<1>1. <<>> \in Good
  <2>1. /\ base.out = <<>> /\ base.pending = <<>>
        /\ base = [out |-> base.out, pending |-> base.pending]
    OBVIOUS
  <2>2. /\ <<>> \in Seq(Messages1) /\ <<>> \in Seq(Blocks) /\ <<>> \o <<>> = <<>>
    OBVIOUS
  <2>3. Said(<<>>) = <<>> /\ Picked(<<>>, Texts1) = <<>> /\ Picked(<<>>, Results) = <<>>
    BY SaidNone, PickedNothing
  <2>4. UsersFolded(base, <<>>) = base
    BY UsersMore
  <2> HIDE DEF base
  <2>5. GathersUser(base, <<>>)
    BY <2>1, <2>2, <2>3, Zenon DEF GathersUser
  <2>6. QED
    BY <2>2, <2>4, <2>5
<1>2. ASSUME NEW s \in Seq(Blocks), NEW b \in Blocks, s \in Good
      PROVE  Append(s, b) \in Good
  <2> HIDE DEF base
  <2>1. UsersFolded(base, Append(s, b)) = UserBlock(UsersFolded(base, s), b)
    BY UsersMore
  <2>2. GathersUser(UsersFolded(base, s), s) /\ Append(s, b) \in Seq(Blocks)
    BY <1>2
  <2>3. QED
    BY <2>1, <2>2, UserStep
<1>3. GathersUser(acc, blocks)
  <2> HIDE DEF Good
  <2>1. Seq(Blocks) \subseteq Good
    BY <1>1, <1>2, SeqInduction
  <2>2. QED
    BY <2>1 DEF Good
<1>4. out \in Seq(Messages1) /\ Said(out) = Picked(blocks, Results)
  <2> HIDE DEF acc
  <2>1. QED
    BY <1>3, FlushedSays, Zenon DEF GathersUser
<1>5. ConvertUserMessage(blocks) = IF out = <<>> THEN <<m>> ELSE out
  BY DEF ConvertUserMessage, UsersFolded
<1>6. <<m>> \in Seq(Messages1) /\ Said(<<m>>) = <<>>
  <2>1. m \in Messages1 /\ m.content \o m.calls = <<>>
    BY DEF Message, Messages1
  <2> HIDE DEF m
  <2>2. <<m>> = Append(<<>>, m) /\ <<>> \in Seq(Messages1) /\ <<m>> \in Seq(Messages1)
    BY <2>1
  <2>3. Said(Append(<<>>, m)) = Said(<<>>) \o (m.content \o m.calls)
    BY <2>1, <2>2, SaidOne, Zenon
  <2>4. <<>> \o <<>> = <<>>
    OBVIOUS
  <2>5. QED
    BY <2>1, <2>2, <2>3, <2>4, SaidNone
<1>7. CASE out = <<>>
  BY <1>4, <1>5, <1>6, <1>7, SaidNone
<1>8. CASE out # <<>>
  BY <1>4, <1>5, <1>8
<1>9. QED
  BY <1>7, <1>8

TurnSays(message) ==
  CASE message.role = "user" -> Ids(OfKind(message.blocks, {"text", "image", "tool_result"}))
    [] message.role = "assistant" ->
         Ids(OfKind(message.blocks, {"text"})) \o Ids(OfKind(message.blocks, {"tool_use"}))
    [] OTHER -> <<>>

LEMMA TurnSaid ==
  ASSUME NEW turn \in Turns
  PROVE  /\ Said(ConvertMessage(turn)) = TurnSays(turn)
         /\ ConvertMessage(turn) \in Seq(Messages1) /\ TurnSays(turn) \in Seq(Words)
<1>1. turn.blocks \in Seq(Blocks) /\ turn.role \in {"user", "assistant", "other"}
  BY DEF Turns, Blocks
<1>2. \A kinds : Picked(turn.blocks, kinds) \in Seq(Words)
  BY <1>1, PickedType, Zenon DEF Blocks
<1>3. CASE turn.role = "user"
  <2>1. ConvertMessage(turn) = ConvertUserMessage(turn.blocks)
    BY <1>3 DEF ConvertMessage
  <2>2. TurnSays(turn) = Picked(turn.blocks, Results)
    BY <1>3 DEF TurnSays, Picked, Results
  <2>3. QED
    BY <1>1, <1>2, <2>1, <2>2, UserSays
<1>4. CASE turn.role = "assistant"
  <2> DEFINE a == Picked(turn.blocks, {"text"})
             b == Picked(turn.blocks, {"tool_use"})
             m == Message("assistant", a, b)
  <2>1. ConvertMessage(turn) = <<m>>
    BY <1>4 DEF ConvertMessage, ConvertAssistantMessage, Picked
  <2>2. TurnSays(turn) = a \o b
    BY <1>4 DEF TurnSays, Picked
  <2>3. a \in Seq(Words) /\ b \in Seq(Words)
    BY <1>2
  <2> HIDE DEF a, b
  <2>4. m \in Messages1 /\ m.content \o m.calls = a \o b
    BY <2>3 DEF Message, Messages1
  <2> HIDE DEF m
  <2>5. Said(<<m>>) = a \o b /\ <<m>> \in Seq(Messages1) /\ a \o b \in Seq(Words)
    <3>1. <<m>> = Append(<<>>, m) /\ <<>> \in Seq(Messages1) /\ <<m>> \in Seq(Messages1)
      BY <2>4
    <3>2. Said(Append(<<>>, m)) = Said(<<>>) \o (m.content \o m.calls)
      BY <2>4, <3>1, SaidOne, Zenon
    <3>3. a \o b \in Seq(Words) /\ <<>> \o (a \o b) = a \o b
      BY <2>3
    <3>4. QED
      BY <2>4, <3>1, <3>2, <3>3, SaidNone, Zenon
  <2>6. QED
    BY <2>1, <2>2, <2>5, Zenon
<1>5. CASE turn.role = "other"
  <2>1. ConvertMessage(turn) = <<>> /\ TurnSays(turn) = <<>>
    BY <1>5 DEF ConvertMessage, TurnSays
  <2>2. <<>> \in Seq(Messages1) /\ <<>> \in Seq(Words)
    OBVIOUS
  <2>3. QED
    BY <2>1, <2>2, SaidNone
<1>6. QED
  BY <1>1, <1>3, <1>4, <1>5

SystemSaid(body) == IF body.system THEN <<"system">> ELSE <<>>

LEMMA SystemSays ==
  ASSUME NEW body
  PROVE  /\ SystemMessage(body) \in Seq(Messages1)
         /\ Said(SystemMessage(body)) = SystemSaid(body)
<1> DEFINE m == Message("system", <<"system">>, <<>>)
<1>1. m \in Messages1 /\ m.content \o m.calls = <<"system">>
  <2>1. <<"system">> \in Seq(Words) /\ <<>> \in Seq(Words) /\ <<"system">> \o <<>> = <<"system">>
    BY DEF Words
  <2>2. QED
    BY <2>1 DEF Message, Messages1
<1>2. CASE body.system
  <2>1. SystemMessage(body) = <<m>>
    BY <1>2 DEF SystemMessage
  <2> HIDE DEF m
  <2>2. <<m>> = Append(<<>>, m) /\ <<>> \in Seq(Messages1) /\ <<m>> \in Seq(Messages1)
    BY <1>1
  <2>3. Said(Append(<<>>, m)) = Said(<<>>) \o <<"system">>
    BY <1>1, <2>2, SaidOne, Zenon
  <2>4. <<>> \o <<"system">> = <<"system">>
    OBVIOUS
  <2>5. QED
    BY <1>2, <2>1, <2>2, <2>3, <2>4, SaidNone DEF SystemSaid
<1>3. CASE ~body.system
  <2>1. SystemMessage(body) = <<>> /\ SystemSaid(body) = <<>> /\ <<>> \in Seq(Messages1)
    BY <1>3 DEF SystemMessage, SystemSaid
  <2>2. QED
    BY <2>1, SaidNone
<1>4. QED
  BY <1>2, <1>3

Converted(turns) == FlattenSeq([k \in DOMAIN turns |-> ConvertMessage(turns[k])])

AllSay(turns) == FlattenSeq([k \in DOMAIN turns |-> TurnSays(turns[k])])

LEMMA TurnsSaid ==
  ASSUME NEW turns \in Seq(Turns)
  PROVE  Said(Converted(turns)) = AllSay(turns) /\ Converted(turns) \in Seq(Messages1)
<1> DEFINE Good == {s \in Seq(Turns) : /\ Said(Converted(s)) = AllSay(s)
                                       /\ Converted(s) \in Seq(Messages1)}
<1>1. <<>> \in Good
  <2> DEFINE none == [k \in 1..0 |-> <<>>]
  <2>1. none \in [1..0 -> {<<>>}] /\ 0 \in Nat
    OBVIOUS
  <2>2. FlattenSeq(none) = <<>>
    <3> HIDE DEF none
    <3>1. QED
      BY <2>1, FlattenNothing, Zenon
  <2>3. DOMAIN <<>> = 1..0 /\ 1..0 = {}
    OBVIOUS
  <2>4. Converted(<<>>) = FlattenSeq(none) /\ AllSay(<<>>) = FlattenSeq(none)
    BY <2>3 DEF Converted, AllSay
  <2>5. <<>> \in Seq(Turns) /\ <<>> \in Seq(Messages1)
    OBVIOUS
  <2>6. QED
    BY <2>2, <2>4, <2>5, SaidNone, Zenon
<1>2. ASSUME NEW q \in Seq(Turns), NEW turn \in Turns, q \in Good
      PROVE  Append(q, turn) \in Good
  <2> DEFINE n == Len(q)
             more == Append(q, turn)
             s == [k \in 1..n |-> ConvertMessage(q[k])]
             u == [k \in 1..n + 1 |-> ConvertMessage(more[k])]
             v == [k \in 1..n |-> TurnSays(q[k])]
             w == [k \in 1..n + 1 |-> TurnSays(more[k])]
  <2>1. /\ n \in Nat /\ DOMAIN q = 1..n /\ DOMAIN more = 1..n + 1 /\ more[n + 1] = turn
        /\ \A k \in 1..n : more[k] = q[k] /\ q[k] \in Turns
        /\ more \in Seq(Turns)
    OBVIOUS
  <2>2. n + 1 \in 1..n + 1 /\ 1..n + 1 = 1..n \cup {n + 1}
    BY <2>1
  <2> HIDE DEF more, n
  <2>3. \A k \in 1..n + 1 : more[k] \in Turns
    BY <2>1, <2>2
  <2>4. \A x \in Turns : ConvertMessage(x) \in Seq(Messages1) /\ TurnSays(x) \in Seq(Words)
    BY TurnSaid
  <2>5. s \in [1..n -> Seq(Messages1)] /\ u \in [1..n + 1 -> Seq(Messages1)]
    BY <2>1, <2>3, <2>4
  <2>6. v \in [1..n -> Seq(Words)] /\ w \in [1..n + 1 -> Seq(Words)]
    BY <2>1, <2>3, <2>4
  <2>7. (\A k \in 1..n : u[k] = s[k]) /\ u[n + 1] = ConvertMessage(turn)
    BY <2>1, <2>2
  <2>15. (\A k \in 1..n : w[k] = v[k]) /\ w[n + 1] = TurnSays(turn)
    BY <2>1, <2>2
  <2>8. /\ Converted(q) = FlattenSeq(s) /\ Converted(more) = FlattenSeq(u)
        /\ AllSay(q) = FlattenSeq(v) /\ AllSay(more) = FlattenSeq(w)
    BY <2>1 DEF Converted, AllSay
  <2> HIDE DEF s, u, v, w
  <2>9. Converted(more) = Converted(q) \o ConvertMessage(turn)
    <3>1. FlattenSeq(u) = FlattenSeq(s) \o u[n + 1]
      BY <2>1, <2>5, <2>7, FlattenOne, Zenon
    <3>2. QED
      BY <2>7, <2>8, <3>1
  <2>10. AllSay(more) = AllSay(q) \o TurnSays(turn)
    <3>1. FlattenSeq(w) = FlattenSeq(v) \o w[n + 1]
      BY <2>1, <2>6, <2>15, FlattenOne, Zenon
    <3>2. QED
      BY <2>15, <2>8, <3>1
  <2>11. Said(Converted(q)) = AllSay(q) /\ Converted(q) \in Seq(Messages1)
    BY <1>2
  <2>12. Said(ConvertMessage(turn)) = TurnSays(turn) /\ ConvertMessage(turn) \in Seq(Messages1)
    BY TurnSaid
  <2>13. /\ Said(Converted(more)) = AllSay(more) /\ Converted(more) \in Seq(Messages1)
    BY <2>9, <2>10, <2>11, <2>12, SaidBoth, Zenon
  <2>14. QED
    BY <2>1, <2>13 DEF more
<1> HIDE DEF Good
<1>3. Seq(Turns) \subseteq Good
  BY <1>1, <1>2, SeqInduction
<1>4. QED
  BY <1>3 DEF Good

LEMMA AnthropicSaid ==
  ASSUME NEW body, body.messages \in Seq(Turns)
  PROVE  Said(AnthropicToOpenAI(body)) = SystemSaid(body) \o AnthropicSays(body)
<1>1. AnthropicToOpenAI(body) = SystemMessage(body) \o Converted(body.messages)
  BY DEF AnthropicToOpenAI, Converted
<1>2. AnthropicSays(body) = AllSay(body.messages)
  BY DEF AnthropicSays, AllSay, TurnSays
<1>3. Said(Converted(body.messages)) = AllSay(body.messages)
      /\ Converted(body.messages) \in Seq(Messages1)
  BY TurnsSaid
<1>4. /\ SystemMessage(body) \in Seq(Messages1)
      /\ Said(SystemMessage(body)) = SystemSaid(body)
  BY SystemSays
<1>5. \A x, y \in Seq(Messages1) : Said(x \o y) = Said(x) \o Said(y)
  BY SaidBoth
<1>6. QED
  BY <1>1, <1>2, <1>3, <1>4, <1>5, Zenon
-----------------------------------------------------------------------------
(* /v1/responses: each item says what it is, and the calls of one turn share a
   message. *)

Spoken1 == {"call", "output", "system", "user", "assistant"}

(* Whether the next call joins the last message. *)
Joins(ms) == ms # <<>> /\ Last(ms).role = "assistant" /\ Last(ms).content = <<>>

WithCall(m, id) == [m EXCEPT !.calls = Append(@, id)]

LEMMA CallJoins ==
  ASSUME NEW ms \in Seq(Messages1), Joins(ms), NEW id \in Words
  PROVE  /\ WithToolCall(ms, id) = Append(Front(ms), WithCall(Last(ms), id))
         /\ WithCall(Last(ms), id) \in Messages1
         /\ WithCall(Last(ms), id).role = "assistant" /\ WithCall(Last(ms), id).content = <<>>
         /\ WithCall(Last(ms), id).calls = Append(Last(ms).calls, id)
         /\ Last(ms) \in Messages1 /\ Last(ms).role = "assistant" /\ Last(ms).content = <<>>
<1>1. /\ WithToolCall(ms, id) = Append(Front(ms), WithCall(Last(ms), id))
      /\ Last(ms).role = "assistant" /\ Last(ms).content = <<>> /\ ms # <<>>
  BY DEF WithToolCall, WithCall, Joins
<1>2. Last(ms) \in Messages1
  BY <1>1, LastOne
<1>3. ASSUME NEW m \in Messages1
      PROVE  /\ WithCall(m, id) \in Messages1 /\ WithCall(m, id).role = m.role
             /\ WithCall(m, id).content = m.content /\ WithCall(m, id).calls = Append(m.calls, id)
  <2>1. /\ m.role \in {"system", "user", "assistant", "tool"} /\ m.content \in Seq(Words)
        /\ m.calls \in Seq(Words)
        /\ m = [role |-> m.role, content |-> m.content, calls |-> m.calls]
    BY DEF Messages1
  <2>2. Append(m.calls, id) \in Seq(Words)
    BY <2>1
  <2>3. WithCall(m, id) = [role |-> m.role, content |-> m.content, calls |-> Append(m.calls, id)]
    <3>1. \A r, c, d, e : [[role |-> r, content |-> c, calls |-> d] EXCEPT !.calls = e]
                            = [role |-> r, content |-> c, calls |-> e]
      OBVIOUS
    <3>2. WithCall(m, id) = [m EXCEPT !.calls = Append(m.calls, id)]
      BY DEF WithCall
    <3>3. QED
      BY <2>1, <3>1, <3>2, Zenon
  <2>4. QED
    BY <2>1, <2>2, <2>3 DEF Messages1
<1>4. QED
  BY <1>1, <1>2, <1>3

LEMMA CallSaid ==
  ASSUME NEW ms \in Seq(Messages1), NEW id \in Words
  PROVE  /\ WithToolCall(ms, id) \in Seq(Messages1)
         /\ Said(WithToolCall(ms, id)) = Append(Said(ms), id)
<1>1. CASE Joins(ms)
  <2> DEFINE old == Last(ms)
             new == WithCall(old, id)
             front == Front(ms)
  <2>1. ms = Append(front, old) /\ front \in Seq(Messages1)
    BY <1>1, LastOne DEF Joins
  <2>2. /\ WithToolCall(ms, id) = Append(front, new) /\ new \in Messages1 /\ old \in Messages1
        /\ new.content = <<>> /\ new.calls = Append(old.calls, id) /\ old.content = <<>>
    BY <1>1, CallJoins
  <2> HIDE DEF old, new, front
  <2>3. /\ Said(ms) = Said(front) \o (old.content \o old.calls) /\ Said(front) \in Seq(Words)
    BY <2>1, <2>2, SaidOne, Zenon
  <2>4. Said(Append(front, new)) = Said(front) \o (new.content \o new.calls)
    BY <2>1, <2>2, SaidOne, Zenon
  <2>5. old.calls \in Seq(Words) /\ new.calls \in Seq(Words)
    BY <2>2 DEF Messages1
  <2>6. \A x \in Seq(Words) : <<>> \o x = x
    OBVIOUS
  <2>7. Said(front) \o Append(old.calls, id) = Append(Said(front) \o old.calls, id)
    BY <2>3, <2>5, AppendToConcat
  <2>8. Said(Append(front, new)) = Append(Said(ms), id)
    BY <2>2, <2>3, <2>4, <2>5, <2>6, <2>7, Zenon
  <2>9. Append(front, new) \in Seq(Messages1)
    BY <2>1, <2>2
  <2>10. QED
    BY <2>2, <2>8, <2>9
<1>2. CASE ~Joins(ms)
  <2> DEFINE m == Message("assistant", <<>>, <<id>>)
  <2>1. WithToolCall(ms, id) = Append(ms, m)
    BY <1>2 DEF WithToolCall, Joins
  <2>2. m \in Messages1 /\ m.content \o m.calls = <<id>>
    <3>1. <<id>> \in Seq(Words) /\ <<>> \in Seq(Words) /\ <<>> \o <<id>> = <<id>>
      OBVIOUS
    <3>2. QED
      BY <3>1 DEF Message, Messages1
  <2> HIDE DEF m
  <2>3. /\ Said(Append(ms, m)) = Said(ms) \o <<id>> /\ Said(ms) \in Seq(Words)
        /\ Append(ms, m) \in Seq(Messages1)
    BY <2>2, SaidOne, Zenon
  <2>4. Said(ms) \o <<id>> = Append(Said(ms), id)
    BY <2>3, AppendIsConcat
  <2>5. QED
    BY <2>1, <2>3, <2>4
<1>3. QED
  BY <1>1, <1>2

LEMMA PlainSaid ==
  ASSUME NEW ms \in Seq(Messages1), NEW id \in Words,
         NEW role \in {"system", "user", "assistant", "tool"}
  PROVE  LET m == Message(role, <<id>>, <<>>)
         IN /\ Append(ms, m) \in Seq(Messages1) /\ Said(Append(ms, m)) = Append(Said(ms), id)
            /\ m.calls = <<>> /\ m.content # <<>>
<1> DEFINE m == Message(role, <<id>>, <<>>)
<1>1. m \in Messages1 /\ m.content \o m.calls = <<id>> /\ m.calls = <<>> /\ m.content # <<>>
  <2>1. <<id>> \in Seq(Words) /\ <<>> \in Seq(Words) /\ <<id>> \o <<>> = <<id>> /\ <<id>> # <<>>
    OBVIOUS
  <2>2. QED
    BY <2>1 DEF Message, Messages1
<1> HIDE DEF m
<1>2. /\ Said(Append(ms, m)) = Said(ms) \o <<id>> /\ Said(ms) \in Seq(Words)
      /\ Append(ms, m) \in Seq(Messages1)
  BY <1>1, SaidOne, Zenon
<1>3. Said(ms) \o <<id>> = Append(Said(ms), id)
  BY <1>2, AppendIsConcat
<1>4. QED
  BY <1>1, <1>2, <1>3 DEF m

LEMMA ItemSaid ==
  ASSUME NEW ms \in Seq(Messages1), NEW item \in Items
  PROVE  /\ Item(ms, item) \in Seq(Messages1)
         /\ Said(Item(ms, item)) =
              IF item.kind \in Spoken1 THEN Append(Said(ms), item.id) ELSE Said(ms)
<1>1. item.id \in Words /\ item.kind \in {"system", "user", "assistant", "call", "output",
                                           "reasoning", "item_reference", "unknown"}
  BY DEF Items, Words
<1>2. CASE item.kind = "call"
  BY <1>1, <1>2, CallSaid, Zenon DEF Item, Spoken1
<1>3. CASE item.kind = "output"
  <2>1. Item(ms, item) = Append(ms, Message("tool", <<item.id>>, <<>>))
    BY <1>3 DEF Item
  <2>2. QED
    BY <1>1, <1>3, <2>1, PlainSaid DEF Spoken1
<1>4. CASE item.kind \in {"system", "user", "assistant"}
  <2>1. Item(ms, item) = Append(ms, Message(item.kind, <<item.id>>, <<>>))
    BY <1>4 DEF Item
  <2>2. \A id \in Words, role \in {"system", "user", "assistant", "tool"} :
           /\ Append(ms, Message(role, <<id>>, <<>>)) \in Seq(Messages1)
           /\ Said(Append(ms, Message(role, <<id>>, <<>>))) = Append(Said(ms), id)
    BY PlainSaid
  <2>3. item.kind \in {"system", "user", "assistant", "tool"}
    BY <1>4
  <2>4. QED
    BY <1>1, <1>4, <2>1, <2>2, <2>3, Zenon DEF Spoken1
<1>5. CASE item.kind \in {"reasoning", "item_reference", "unknown"}
  BY <1>5 DEF Item, Spoken1
<1>6. QED
  BY <1>1, <1>2, <1>3, <1>4, <1>5

-----------------------------------------------------------------------------
(* The whole of a body for /v1/responses. *)

LEMMA ItemsSaid ==
  ASSUME NEW items \in Seq(Items)
  PROVE  /\ ItemsFolded(<<>>, items) \in Seq(Messages1)
         /\ Said(ItemsFolded(<<>>, items)) = Picked(items, Spoken1)
<1> DEFINE Good == {s \in Seq(Items) : /\ ItemsFolded(<<>>, s) \in Seq(Messages1)
                                       /\ Said(ItemsFolded(<<>>, s)) = Picked(s, Spoken1)}
<1>1. <<>> \in Good
  <2>1. <<>> \in Seq(Items) /\ <<>> \in Seq(Messages1) /\ ItemsFolded(<<>>, <<>>) = <<>>
    BY ItemsMore
  <2>2. Said(<<>>) = <<>> /\ Picked(<<>>, Spoken1) = <<>>
    BY SaidNone, PickedNothing
  <2>3. QED
    BY <2>1, <2>2, Zenon
<1>2. ASSUME NEW s \in Seq(Items), NEW item \in Items, s \in Good
      PROVE  Append(s, item) \in Good
  <2> DEFINE ms == ItemsFolded(<<>>, s)
             more == ItemsFolded(<<>>, Append(s, item))
  <2>1. ms \in Seq(Messages1) /\ Said(ms) = Picked(s, Spoken1)
    BY <1>2
  <2>2. more = Item(ms, item)
    BY ItemsMore
  <2> HIDE DEF ms, more
  <2>3. /\ Item(ms, item) \in Seq(Messages1)
        /\ Said(Item(ms, item)) =
             IF item.kind \in Spoken1 THEN Append(Said(ms), item.id) ELSE Said(ms)
    BY <2>1, ItemSaid, Zenon
  <2>4. Picked(Append(s, item), Spoken1) =
          IF item.kind \in Spoken1 THEN Append(Picked(s, Spoken1), item.id)
          ELSE Picked(s, Spoken1)
    <3>1. \A x \in Items : x.id \in Contents
      BY DEF Items
    <3>2. \A kinds : Picked(Append(s, item), kinds) =
            IF item.kind \in kinds THEN Append(Picked(s, kinds), item.id)
            ELSE Picked(s, kinds)
      BY <3>1, PickedMore
    <3>3. QED
      BY <3>2
  <2>5. more \in Seq(Messages1) /\ Said(more) = Picked(Append(s, item), Spoken1)
    BY <2>1, <2>2, <2>3, <2>4
  <2>6. Append(s, item) \in Seq(Items)
    OBVIOUS
  <2>7. QED
    BY <2>5, <2>6 DEF more
<1> HIDE DEF Good
<1>3. Seq(Items) \subseteq Good
  BY <1>1, <1>2, SeqInduction
<1>4. QED
  BY <1>3 DEF Good

LEMMA ResponsesSaid ==
  ASSUME NEW body, body.messages \in Seq(Items)
  PROVE  /\ Said(ResponsesToOpenAI(body)) = SystemSaid(body) \o ResponsesSays(body)
         /\ ItemsFolded(<<>>, body.messages) \in Seq(Messages1)
<1> DEFINE a == SystemMessage(body)
           b == ItemsFolded(<<>>, body.messages)
<1>1. ResponsesToOpenAI(body) = a \o b
  BY DEF ResponsesToOpenAI, ItemsFolded
<1>2. ResponsesSays(body) = Picked(body.messages, Spoken1)
  BY DEF ResponsesSays, Picked, Spoken1
<1>3. b \in Seq(Messages1) /\ Said(b) = Picked(body.messages, Spoken1)
  BY ItemsSaid
<1>4. a \in Seq(Messages1) /\ Said(a) = SystemSaid(body)
  BY SystemSays
<1>5. \A x, y \in Seq(Messages1) : Said(x \o y) = Said(x) \o Said(y)
  BY SaidBoth
<1> HIDE DEF a, b
<1>6. QED
  BY <1>1, <1>2, <1>3, <1>4, <1>5, Zenon DEF b
-----------------------------------------------------------------------------
(* The calls of one turn share one message: as long as only calls, and items that
   leave no message, follow a call, the last message takes the next call too. *)

Quiet == {"call", "reasoning", "item_reference", "unknown"}

(* Items i and j are calls that no other item separates. *)
Together(s, i, j) ==
  /\ i < j /\ s[i].kind = "call" /\ s[j].kind = "call"
  /\ \A k \in i..j : s[k].kind \in Quiet

(* Item i is a call of the turn that is still open. *)
OpenCall(s, i) == s[i].kind = "call" /\ \A k \in i..Len(s) : s[k].kind \in Quiet

Share(ms, x, y) == \E m \in DOMAIN ms : {x, y} \subseteq ToSet(ms[m].calls)

Shared(s, ms) ==
  /\ \A i \in 1..Len(s) : OpenCall(s, i) => Joins(ms) /\ s[i].id \in ToSet(Last(ms).calls)
  /\ \A i, j \in 1..Len(s) : Together(s, i, j) => Share(ms, s[i].id, s[j].id)

(* What one more item does: the messages stay, or one is added, or the last one
   gets one more call. *)
LEMMA OneMessageMore ==
  ASSUME NEW ms \in Seq(Messages1), NEW m \in Messages1
  PROVE  /\ Last(Append(ms, m)) = m /\ Append(ms, m) # <<>>
         /\ \A x, y : Share(ms, x, y) => Share(Append(ms, m), x, y)
<1> DEFINE more == Append(ms, m)
<1>1. /\ more \in Seq(Messages1) /\ Len(more) = Len(ms) + 1 /\ more[Len(ms) + 1] = m
      /\ Len(ms) \in Nat /\ DOMAIN ms = 1..Len(ms) /\ DOMAIN more = 1..Len(ms) + 1
      /\ \A k \in 1..Len(ms) : more[k] = ms[k]
  OBVIOUS
<1> HIDE DEF more
<1>2. Last(more) = m /\ more # <<>>
  BY <1>1 DEF Last
<1>3. \A k \in 1..Len(ms) : k \in 1..Len(ms) + 1
  BY <1>1
<1>4. \A x, y : Share(ms, x, y) => Share(more, x, y)
  BY <1>1, <1>3 DEF Share
<1>5. QED
  BY <1>2, <1>4 DEF more

LEMMA CallShares ==
  ASSUME NEW ms \in Seq(Messages1), NEW id \in Words
  PROVE  /\ Joins(WithToolCall(ms, id)) /\ id \in ToSet(Last(WithToolCall(ms, id)).calls)
         /\ \A x, y : Share(ms, x, y) => Share(WithToolCall(ms, id), x, y)
         /\ \A x : Joins(ms) /\ x \in ToSet(Last(ms).calls) =>
              /\ x \in ToSet(Last(WithToolCall(ms, id)).calls)
              /\ Share(WithToolCall(ms, id), x, id)
<1> DEFINE new == WithToolCall(ms, id)
<1>1. CASE Joins(ms)
  <2> DEFINE old == Last(ms)
             m == WithCall(old, id)
             front == Front(ms)
             n == Len(ms)
  <2>1. /\ ms = Append(front, old) /\ front \in Seq(Messages1) /\ old \in Messages1
        /\ Len(front) = n - 1 /\ old = ms[n] /\ \A k \in 1..(n - 1) : front[k] = ms[k]
    BY <1>1, LastOne DEF Joins
  <2>2. /\ new = Append(front, m) /\ m \in Messages1 /\ m.role = "assistant"
        /\ m.content = <<>> /\ m.calls = Append(old.calls, id) /\ old \in Messages1
    BY <1>1, CallJoins
  <2>3. old.calls \in Seq(Words)
    BY <2>2 DEF Messages1
  <2>4. ToSet(m.calls) = ToSet(old.calls) \cup {id}
    <3>1. \A c \in Seq(Words) : ToSet(Append(c, id)) = ToSet(c) \cup {id}
      BY MembersMore
    <3> HIDE DEF old, m
    <3>2. QED
      BY <2>2, <2>3, <3>1
  <2>5. n \in Nat /\ n # 0 /\ DOMAIN ms = 1..n
    BY <1>1 DEF Joins
  <2> HIDE DEF old, m, front, new, n
  <2>6. /\ Len(new) = n /\ new[n] = m /\ DOMAIN new = 1..n /\ new # <<>> /\ n \in 1..n
        /\ \A k \in 1..n : k # n => new[k] = ms[k]
    BY <2>1, <2>2, <2>5
  <2>7. Last(new) = m
    BY <2>6 DEF Last
  <2>8. Joins(new) /\ id \in ToSet(Last(new).calls)
    BY <2>2, <2>4, <2>6, <2>7, Zenon DEF Joins
  <2>9. \A k \in 1..n : ToSet(ms[k].calls) \subseteq ToSet(new[k].calls)
    BY <2>1, <2>4, <2>6
  <2>10. \A x, y : Share(ms, x, y) => Share(new, x, y)
    BY <2>5, <2>6, <2>9 DEF Share
  <2>11. \A x : x \in ToSet(old.calls) =>
           x \in ToSet(Last(new).calls) /\ Share(new, x, id)
    BY <2>4, <2>6, <2>7 DEF Share
  <2>12. QED
    BY <2>8, <2>10, <2>11 DEF old, new
<1>2. CASE ~Joins(ms)
  <2> DEFINE m == Message("assistant", <<>>, <<id>>)
  <2>1. new = Append(ms, m)
    BY <1>2 DEF WithToolCall, Joins
  <2>2. /\ m \in Messages1 /\ m.role = "assistant" /\ m.content = <<>>
        /\ id \in ToSet(m.calls)
    <3>1. <<id>> \in Seq(Words) /\ <<>> \in Seq(Words) /\ id \in ToSet(<<id>>)
      BY OneMember
    <3>2. QED
      BY <3>1 DEF Message, Messages1
  <2> HIDE DEF m, new
  <2>3. Last(new) = m /\ new # <<>> /\ \A x, y : Share(ms, x, y) => Share(new, x, y)
    BY <2>1, <2>2, OneMessageMore
  <2>4. Joins(new) /\ id \in ToSet(Last(new).calls)
    BY <2>2, <2>3 DEF Joins
  <2>5. QED
    BY <1>2, <2>3, <2>4 DEF new
<1>3. QED
  BY <1>1, <1>2

LEMMA ItemShares ==
  ASSUME NEW s \in Seq(Items), NEW item \in Items, NEW ms \in Seq(Messages1), Shared(s, ms)
  PROVE  Shared(Append(s, item), Item(ms, item))
<1> DEFINE n == Len(s)
           more == Append(s, item)
           new == Item(ms, item)
<1>1. /\ n \in Nat /\ Len(more) = n + 1 /\ more[n + 1] = item
      /\ \A k \in 1..n : more[k] = s[k]
  OBVIOUS
<1>2. item.id \in Words /\ item.kind \in {"system", "user", "assistant", "call", "output",
                                           "reasoning", "item_reference", "unknown"}
  BY DEF Items, Words
<1> HIDE DEF more, n
<1>3. /\ \A i \in 1..n : OpenCall(s, i) => Joins(ms) /\ s[i].id \in ToSet(Last(ms).calls)
      /\ \A i, j \in 1..n : Together(s, i, j) => Share(ms, s[i].id, s[j].id)
  BY DEF Shared, n
<1>4. \A x, y : Share(ms, x, y) => Share(new, x, y)
  <2>1. CASE item.kind = "call"
    BY <1>2, <2>1, CallShares DEF Item
  <2>2. CASE item.kind \in {"reasoning", "item_reference", "unknown"}
    BY <2>2 DEF Item
  <2>3. CASE item.kind \in {"system", "user", "assistant", "output"}
    <3>1. PICK m \in Messages1 : new = Append(ms, m)
      <4>1. \A role \in {"system", "user", "assistant", "tool"} :
              Message(role, <<item.id>>, <<>>) \in Messages1
        <5>1. <<item.id>> \in Seq(Words) /\ <<>> \in Seq(Words)
          BY <1>2
        <5>2. QED
          BY <5>1 DEF Message, Messages1
      <4>2. CASE item.kind = "output"
        BY <4>1, <4>2 DEF Item
      <4>3. CASE item.kind \in {"system", "user", "assistant"}
        <5>1. new = Append(ms, Message(item.kind, <<item.id>>, <<>>))
          BY <4>3 DEF Item
        <5>2. QED
          BY <4>1, <4>3, <5>1
      <4>4. QED
        BY <2>3, <4>2, <4>3
    <3>2. QED
      BY <3>1, OneMessageMore
  <2>4. QED
    BY <1>2, <2>1, <2>2, <2>3
<1>5. ASSUME NEW i \in 1..n + 1, OpenCall(more, i)
      PROVE  Joins(new) /\ more[i].id \in ToSet(Last(new).calls)
  <2>1. /\ more[i].kind = "call" /\ \A k \in i..n + 1 : more[k].kind \in Quiet
    BY <1>1, <1>5 DEF OpenCall
  <2>2. item.kind \in Quiet
    BY <1>1, <2>1
  <2>3. CASE i = n + 1
    <3>1. item.kind = "call" /\ more[i] = item
      BY <1>1, <2>1, <2>3
    <3>2. new = WithToolCall(ms, item.id)
      BY <3>1 DEF Item
    <3>3. QED
      BY <1>2, <3>1, <3>2, CallShares
  <2>4. CASE i \in 1..n
    <3>1. OpenCall(s, i) /\ more[i] = s[i]
      BY <1>1, <2>1, <2>4 DEF OpenCall, n
    <3>2. Joins(ms) /\ more[i].id \in ToSet(Last(ms).calls)
      BY <1>3, <2>4, <3>1
    <3>3. CASE item.kind = "call"
      <4>1. new = WithToolCall(ms, item.id)
        BY <3>3 DEF Item
      <4>2. QED
        BY <1>2, <3>2, <4>1, CallShares, Zenon
    <3>4. CASE item.kind # "call"
      <4>1. new = ms
        BY <2>2, <3>4 DEF Item, Quiet
      <4>2. QED
        BY <3>2, <4>1
    <3>5. QED
      BY <3>3, <3>4
  <2>5. QED
    BY <1>1, <2>3, <2>4
<1>6. ASSUME NEW i \in 1..n + 1, NEW j \in 1..n + 1, Together(more, i, j)
      PROVE  Share(new, more[i].id, more[j].id)
  <2>1. /\ i < j /\ more[i].kind = "call" /\ more[j].kind = "call"
        /\ \A k \in i..j : more[k].kind \in Quiet /\ i \in 1..n
    BY <1>1, <1>6 DEF Together
  <2>2. CASE j = n + 1
    <3>1. OpenCall(s, i) /\ more[i] = s[i] /\ more[j] = item
      BY <1>1, <2>1, <2>2 DEF OpenCall, n
    <3>2. Joins(ms) /\ more[i].id \in ToSet(Last(ms).calls)
      BY <1>3, <2>1, <3>1
    <3>3. new = WithToolCall(ms, item.id)
      BY <2>1, <3>1 DEF Item
    <3>4. QED
      BY <1>2, <3>1, <3>2, <3>3, CallShares
  <2>3. CASE j \in 1..n
    <3>1. Together(s, i, j) /\ more[i] = s[i] /\ more[j] = s[j]
      BY <1>1, <2>1, <2>3 DEF Together
    <3>2. QED
      BY <1>3, <1>4, <2>1, <2>3, <3>1
  <2>4. QED
    BY <1>1, <2>2, <2>3
<1>7. QED
  BY <1>1, <1>5, <1>6 DEF Shared, more

LEMMA ItemsShare ==
  ASSUME NEW items \in Seq(Items)
  PROVE  Shared(items, ItemsFolded(<<>>, items))
<1> DEFINE Good == {s \in Seq(Items) : Shared(s, ItemsFolded(<<>>, s))}
<1>1. <<>> \in Good
  <2>1. <<>> \in Seq(Items) /\ 1..Len(<<>>) = {}
    OBVIOUS
  <2>2. QED
    BY <2>1 DEF Shared
<1>2. ASSUME NEW s \in Seq(Items), NEW item \in Items, s \in Good
      PROVE  Append(s, item) \in Good
  <2> DEFINE ms == ItemsFolded(<<>>, s)
             more == ItemsFolded(<<>>, Append(s, item))
  <2>1. ms \in Seq(Messages1) /\ Shared(s, ms)
    BY <1>2, ItemsSaid
  <2>2. more = Item(ms, item)
    BY ItemsMore
  <2> HIDE DEF ms, more
  <2>3. Shared(Append(s, item), more)
    BY <2>1, <2>2, ItemShares
  <2>4. Append(s, item) \in Seq(Items)
    OBVIOUS
  <2>5. QED
    BY <2>3, <2>4 DEF more
<1> HIDE DEF Good
<1>3. Seq(Items) \subseteq Good
  BY <1>1, <1>2, SeqInduction
<1>4. QED
  BY <1>3 DEF Good

LEMMA ShareLater ==
  ASSUME NEW a \in Seq(Messages1), NEW b \in Seq(Messages1), NEW x, NEW y, Share(b, x, y)
  PROVE  Share(a \o b, x, y)
<1>1. PICK m \in 1..Len(b) : {x, y} \subseteq ToSet(b[m].calls)
  BY DEF Share
<1>2. Len(a) + m \in 1..Len(a \o b) /\ (a \o b)[Len(a) + m] = b[m]
      /\ DOMAIN (a \o b) = 1..Len(a \o b)
  OBVIOUS
<1>3. QED
  BY <1>1, <1>2 DEF Share

LEMMA TurnsShare ==
  ASSUME NEW body, body.messages \in Seq(Items),
         NEW i \in DOMAIN body.messages, NEW j \in DOMAIN body.messages, SameTurn(body, i, j)
  PROVE  Share(ResponsesToOpenAI(body), body.messages[i].id, body.messages[j].id)
<1> DEFINE a == SystemMessage(body)
           items == body.messages
           b == ItemsFolded(<<>>, items)
<1>1. ResponsesToOpenAI(body) = a \o b
  BY DEF ResponsesToOpenAI, ItemsFolded
<1>2. i \in 1..Len(items) /\ j \in 1..Len(items) /\ Together(items, i, j)
  BY DEF SameTurn, Together, Quiet
<1>3. a \in Seq(Messages1) /\ b \in Seq(Messages1)
  BY SystemSays, ItemsSaid
<1>4. Share(b, items[i].id, items[j].id)
  BY <1>2, ItemsShare DEF Shared
<1> HIDE DEF a, b, items
<1>5. QED
  BY <1>1, <1>3, <1>4, ShareLater DEF items

(* The router gets the translation of the request, and the messages are not touched
   after that. *)
TranslationInv == phase # "arrived" => messages = UpstreamMessages(request)

LEMMA TranslationStep == RelayInv /\ TranslationInv /\ [Next]_vars => TranslationInv'
<1> SUFFICES ASSUME RelayInv, TranslationInv, [Next]_vars
             PROVE  TranslationInv'
  OBVIOUS
<1>0. request' = request
  BY RequestStays
<1>1. CASE TranslateRequest
  BY <1>0, <1>1 DEF TranslateRequest, TranslationInv
<1>2. CASE ~TranslateRequest
  <2>1. messages' = messages /\ (phase = "arrived" => phase' = "arrived")
    BY <1>2 DEF Next, Upstream, vars, RoutingFails, Prime, PrimeWhole, PrimeBreaks, PrimeEmpty,
         Relay, Relayed, UpstreamBreaks, UpstreamCloses, ReadWhole, RecordUsage, Reconcile,
         ReconcileFails, WriteLog, StoreFails, Drain, ClientLeaves
  <2>2. QED
    BY <1>0, <2>1 DEF TranslationInv
<1>3. QED
  BY <1>1, <1>2

LEMMA ConversationIs == RelayInv /\ TranslationInv => ConversationKept
<1> SUFFICES ASSUME RelayInv, TranslationInv, phase # "arrived", translated
             PROVE  LET body == request.body
                        says == IF request.protocol = "messages" THEN AnthropicSays(body)
                                ELSE ResponsesSays(body)
                    IN /\ Said(messages) = (IF body.system THEN <<"system">> ELSE <<>>) \o says
                       /\ request.protocol = "responses" =>
                            \A i, j \in DOMAIN body.messages : SameTurn(body, i, j) =>
                              \E m \in DOMAIN messages :
                                {body.messages[i].id, body.messages[j].id}
                                  \subseteq ToSet(messages[m].calls)
  BY Zenon DEF ConversationKept
<1> DEFINE body == request.body
<1>1. /\ messages = UpstreamMessages(request)
      /\ request.protocol \in {"messages", "responses"}
      /\ request.protocol = "messages" => body.messages \in Seq(Turns)
      /\ request.protocol = "responses" => body.messages \in Seq(Items)
  BY RelayAssumption DEF TranslationInv, RelayInv, RelayTypes, translated, Protocols
<1> HIDE DEF body
<1>2. CASE request.protocol = "messages"
  <2>1. messages = AnthropicToOpenAI(body)
    BY <1>1, <1>2 DEF UpstreamMessages, body
  <2>2. Said(messages) = SystemSaid(body) \o AnthropicSays(body)
    BY <1>1, <1>2, <2>1, AnthropicSaid
  <2>3. QED
    BY <1>2, <2>2 DEF SystemSaid, body
<1>3. CASE request.protocol = "responses"
  <2>1. messages = ResponsesToOpenAI(body)
    BY <1>1, <1>3 DEF UpstreamMessages, body
  <2>2. Said(messages) = SystemSaid(body) \o ResponsesSays(body)
    BY <1>1, <1>3, <2>1, ResponsesSaid
  <2>3. ASSUME NEW i \in DOMAIN body.messages, NEW j \in DOMAIN body.messages,
               SameTurn(body, i, j)
        PROVE  \E m \in DOMAIN messages :
                 {body.messages[i].id, body.messages[j].id} \subseteq ToSet(messages[m].calls)
    <3>1. Share(ResponsesToOpenAI(body), body.messages[i].id, body.messages[j].id)
      BY <1>1, <1>3, <2>3, TurnsShare
    <3>2. QED
      BY <2>1, <3>1 DEF Share
  <2>4. QED
    BY <1>3, <2>2, <2>3 DEF SystemSaid, body
<1>4. QED
  BY <1>1, <1>2, <1>3, Zenon

(* Whatever conversation a body of /v1/messages or /v1/responses holds, the provider
   is told all of it, in its order, and the calls of one turn of the assistant share
   one message (anthropicToOpenAI, responsesToOpenAI). *)
THEOREM ConversationHolds == Spec => []ConversationKept
<1>1. RelayInv /\ TranslationInv /\ [Next]_vars => TranslationInv'
  BY TranslationStep
<1>2. Init => TranslationInv
  BY DEF Init, TranslationInv
<1>3. RelayInv /\ TranslationInv => ConversationKept
  BY ConversationIs
<1>4. QED
  BY RelayInvariant, <1>1, <1>2, <1>3, PTL DEF Spec

-----------------------------------------------------------------------------
(* The items of a response in the order in which they appear. *)
Noticing == INSTANCE FoldLemmas WITH Op <- CallNoticed

Appearing == INSTANCE FoldLemmas WITH Op <- ChunkNoticed

CallsNoticed(seen, fragments) == FoldLeft(CallNoticed, seen, fragments)

LEMMA CallsNoticedMore ==
  /\ \A seen : CallsNoticed(seen, <<>>) = seen
  /\ \A E, seen : \A s \in Seq(E), e \in E :
       CallsNoticed(seen, Append(s, e)) = CallNoticed(CallsNoticed(seen, s), e)
<1>1. \A seen, s : CallsNoticed(seen, s) = Noticing!Fold(seen, s)
  BY DEF CallsNoticed, FoldLeft, MapThenFoldSet, Max, Noticing!Fold, Noticing!Largest
<1>2. \A seen : CallsNoticed(seen, <<>>) = seen
  BY <1>1, Noticing!FoldNothing, Induction
<1>3. ASSUME NEW E, NEW seen, NEW s \in Seq(E), NEW e \in E
      PROVE  CallsNoticed(seen, Append(s, e)) = CallNoticed(CallsNoticed(seen, s), e)
  BY <1>1, Noticing!FoldAppend, Induction
<1>4. QED
  BY <1>2, <1>3

LEMMA AppearancesMore ==
  /\ Appearances(<<>>) = <<>>
  /\ \A E : \A s \in Seq(E), e \in E :
       Appearances(Append(s, e)) = ChunkNoticed(Appearances(s), e)
<1>1. \A s : Appearances(s) = Appearing!Fold(<<>>, s)
  BY DEF Appearances, FoldLeft, MapThenFoldSet, Max, Appearing!Fold, Appearing!Largest
<1>2. Appearances(<<>>) = <<>>
  BY <1>1, Appearing!FoldNothing, Induction
<1>3. ASSUME NEW E, NEW s \in Seq(E), NEW e \in E
      PROVE  Appearances(Append(s, e)) = ChunkNoticed(Appearances(s), e)
  BY <1>1, Appearing!FoldAppend, Induction
<1>4. QED
  BY <1>2, <1>3

Mentions == {Speech} \cup {CallAt(i) : i \in Int}

LEMMA MentionIs ==
  /\ \A i : CallAt(i) # Speech /\ CallAt(i)[1] = i
  /\ \A i, j : CallAt(i) = CallAt(j) => i = j
  /\ \A m \in Mentions : m = Speech \/ \E i \in Int : m = CallAt(i)
<1>1. \A i : CallAt(i) # Speech /\ CallAt(i)[1] = i
  BY DEF CallAt, Speech
<1>2. \A i, j : CallAt(i) = CallAt(j) => i = j
  BY <1>1
<1>3. QED
  BY <1>1, <1>2 DEF Mentions

(* An item per mention: the text's when there is text, a call's when there is a
   fragment of it. *)
Ledger(seen, text, frags) ==
  /\ seen \in Seq(Mentions) /\ text \in Seq(Pieces) /\ frags \in Seq(Fragments)
  /\ \A j, k \in 1..Len(seen) : seen[j] = seen[k] => j = k
  /\ Speech \in ToSet(seen) <=> text # <<>>
  /\ \A i : CallAt(i) \in ToSet(seen) <=> i \in Indices(frags)

LEMMA NoticedIs ==
  ASSUME NEW seen \in Seq(Mentions), NEW m \in Mentions,
         \A j, k \in 1..Len(seen) : seen[j] = seen[k] => j = k
  PROVE  LET more == Noticed(seen, m)
         IN /\ more \in Seq(Mentions) /\ ToSet(more) = ToSet(seen) \cup {m}
            /\ \A j, k \in 1..Len(more) : more[j] = more[k] => j = k
<1> DEFINE more == Noticed(seen, m)
<1>1. CASE m \in ToSet(seen)
  BY <1>1 DEF Noticed
<1>2. CASE m \notin ToSet(seen)
  <2>1. more = Append(seen, m)
    BY <1>2 DEF Noticed
  <2>2. /\ more \in Seq(Mentions) /\ Len(more) = Len(seen) + 1 /\ more[Len(seen) + 1] = m
        /\ \A k \in 1..Len(seen) : more[k] = seen[k]
    BY <2>1
  <2>3. \A k \in 1..Len(seen) : seen[k] # m
    BY <1>2 DEF ToSet
  <2>4. ToSet(more) = ToSet(seen) \cup {m}
    BY <2>1, MembersMore
  <2> HIDE DEF more
  <2>5. \A j, k \in 1..Len(more) : more[j] = more[k] => j = k
    BY <2>2, <2>3
  <2>6. QED
    BY <2>2, <2>4, <2>5 DEF more
<1>3. QED
  BY <1>1, <1>2

LEMMA NothingNoticed == Ledger(<<>>, <<>>, <<>>)
<1>1. ToSet(<<>>) = {} /\ Indices(<<>>) = {}
  BY DEF ToSet, Indices
<1>2. <<>> \in Seq(Mentions) /\ <<>> \in Seq(Pieces) /\ <<>> \in Seq(Fragments) /\ Len(<<>>) = 0
  OBVIOUS
<1>3. QED
  BY <1>1, <1>2 DEF Ledger

LEMMA TextNoticed ==
  ASSUME NEW seen, NEW text, NEW frags, Ledger(seen, text, frags),
         NEW x \in Seq(Pieces), x # <<>>
  PROVE  Ledger(Noticed(seen, Speech), text \o x, frags)
<1>1. /\ seen \in Seq(Mentions) /\ text \in Seq(Pieces) /\ frags \in Seq(Fragments)
      /\ \A j, k \in 1..Len(seen) : seen[j] = seen[k] => j = k
      /\ Speech \in ToSet(seen) <=> text # <<>>
      /\ \A i : CallAt(i) \in ToSet(seen) <=> i \in Indices(frags)
  BY DEF Ledger
<1> DEFINE more == Noticed(seen, Speech)
<1>2. Speech \in Mentions
  BY DEF Mentions
<1>3. /\ more \in Seq(Mentions) /\ ToSet(more) = ToSet(seen) \cup {Speech}
      /\ \A j, k \in 1..Len(more) : more[j] = more[k] => j = k
  BY <1>1, <1>2, NoticedIs
<1>4. text \o x \in Seq(Pieces) /\ text \o x # <<>>
  BY <1>1
<1> HIDE DEF more
<1>5. QED
  BY <1>1, <1>3, <1>4, MentionIs DEF Ledger, more

LEMMA FragmentNoticed ==
  ASSUME NEW seen, NEW text, NEW frags, Ledger(seen, text, frags), NEW f \in Fragments
  PROVE  Ledger(CallNoticed(seen, f), text, Append(frags, f))
<1>1. /\ seen \in Seq(Mentions) /\ text \in Seq(Pieces) /\ frags \in Seq(Fragments)
      /\ \A j, k \in 1..Len(seen) : seen[j] = seen[k] => j = k
      /\ Speech \in ToSet(seen) <=> text # <<>>
      /\ \A i : CallAt(i) \in ToSet(seen) <=> i \in Indices(frags)
  BY DEF Ledger
<1> DEFINE m == CallAt(f.index)
           more == Noticed(seen, m)
<1>2. m \in Mentions
  BY DEF Mentions, Fragments
<1>3. /\ more \in Seq(Mentions) /\ ToSet(more) = ToSet(seen) \cup {m}
      /\ \A j, k \in 1..Len(more) : more[j] = more[k] => j = k
  <2> HIDE DEF m
  <2>1. QED
    BY <1>1, <1>2, NoticedIs
<1>4. Append(frags, f) \in Seq(Fragments) /\ Indices(Append(frags, f)) = Indices(frags) \cup {f.index}
  BY <1>1, IndicesMore
<1>5. CallNoticed(seen, f) = more
  BY DEF CallNoticed
<1> HIDE DEF more
<1>6. QED
  BY <1>1, <1>3, <1>4, <1>5, MentionIs DEF Ledger

-----------------------------------------------------------------------------
(* The client of /v1/responses: what an event makes of what it has read. *)

Entry(id, body, done) == [id |-> id, body |-> body, done |-> done]

Replying(legal, state, items) == [legal |-> legal, state |-> state, items |-> items]

Reply(state, items) == Replying(TRUE, state, items)

ItemSet == [id : {<<"msg">>, <<"fc">>, <<"ctc">>}, body : Seq(Pieces), done : BOOLEAN]

Fresh(id) == Entry(id, Empty, FALSE)

Open(id, body) == Entry(id, body, FALSE)

Done(id, body) == Entry(id, body, TRUE)

SetItems(c, items) == [c EXCEPT !.items = items]

SetLegal(c, legal) == [c EXCEPT !.legal = legal]

WithItems(c, legal, items) == [c EXCEPT !.legal = legal, !.items = items]

LEMMA ReplyFields ==
  ASSUME NEW legal, NEW state, NEW items, NEW ok, NEW new
  PROVE  /\ SetItems(Replying(legal, state, items), new) = Replying(legal, state, new)
         /\ SetLegal(Replying(legal, state, items), ok) = Replying(ok, state, items)
         /\ WithItems(Replying(legal, state, items), ok, new) = Replying(ok, state, new)
<1> DEFINE r == Replying(legal, state, items)
           f(ok1, new1) == [k \in {"legal", "state", "items"} |->
                              IF k = "items" THEN new1 ELSE IF k = "legal" THEN ok1 ELSE r[k]]
<1>1. SetItems(r, new) = Replying(legal, state, new)
  BY SMT DEF SetItems, Replying
<1>2. SetLegal(r, ok) = Replying(ok, state, items)
  BY SMT DEF SetLegal, Replying
<1>3. WithItems(r, ok, new) = Replying(ok, state, new)
  <2>1. WithItems(r, ok, new) = f(ok, new)
    BY Zenon DEF WithItems, Replying
  <2>2. Replying(ok, state, new) = f(ok, new)
    BY DEF Replying
  <2>3. QED
    BY <2>1, <2>2
<1>4. QED
  BY <1>1, <1>2, <1>3

LEMMA OnlyItems ==
  ASSUME NEW state, NEW items, NEW new
  PROVE  /\ SetItems(Reply(state, items), new) = Reply(state, new)
         /\ SetLegal(Reply(state, items), TRUE) = Reply(state, items)
         /\ WithItems(Reply(state, items), TRUE, new) = Reply(state, new)
<1>1. SUFFICES ASSUME NEW yes, yes = TRUE
               PROVE  /\ SetItems(Replying(yes, state, items), new) = Replying(yes, state, new)
                      /\ SetLegal(Replying(yes, state, items), yes) = Replying(yes, state, items)
                      /\ WithItems(Replying(yes, state, items), yes, new)
                           = Replying(yes, state, new)
  BY DEF Reply
<1>2. QED
  BY ReplyFields

LEMMA ItemAdded ==
  ASSUME NEW items \in Seq(ItemSet), NEW at, at = Len(items), NEW id, NEW body
  PROVE  ResponseEvent(Reply("open", items), Event("item_added", at, id, body))
           = Reply("open", Append(items, Fresh(id)))
<1> DEFINE c == Reply("open", items)
           e == Event("item_added", at, id, body)
           new == Append(items, Fresh(id))
<1>1. e.kind = "item_added" /\ e.index = at /\ e.name = id
  BY DEF Event
<1>2. c.legal = TRUE /\ c.state = "open" /\ c.items = items
  BY DEF Reply, Replying
<1>3. ResponseEvent(c, e) = ItemEvent(c, e)
  BY <1>1 DEF ResponseEvent
<1>4. ItemEvent(c, e) = WithItems(c, TRUE, new)
  BY <1>1, <1>2, Zenon DEF ItemEvent, WithItems, Fresh, Entry, Empty
<1>5. WithItems(c, TRUE, new) = Reply("open", new)
  <2> HIDE DEF new
  <2>1. QED
    BY OnlyItems, Zenon
<1>6. QED
  BY <1>3, <1>4, <1>5, Zenon

(* The item an event is about: announced, not done yet. *)
Placed(items, at, id, body) ==
  at + 1 \in DOMAIN items /\ items[at + 1] = Open(id, body)

LEMMA PlacedIs ==
  ASSUME NEW items, NEW at, NEW id, NEW body, Placed(items, at, id, body)
  PROVE  /\ at + 1 \in DOMAIN items /\ items[at + 1].id = id
         /\ items[at + 1].body = body /\ ~items[at + 1].done
BY DEF Placed, Open, Entry

LEMMA PartAdded ==
  ASSUME NEW items, NEW at, NEW id, NEW old, NEW body, Placed(items, at, id, old)
  PROVE  ResponseEvent(Reply("open", items), Event("part_added", at, id, body))
           = Reply("open", items)
<1> DEFINE c == Reply("open", items)
           e == Event("part_added", at, id, body)
<1>1. e.kind = "part_added" /\ e.index = at /\ e.name = id
  BY DEF Event
<1>2. c.legal = TRUE /\ c.state = "open" /\ c.items = items
  BY DEF Reply, Replying
<1>3. ResponseEvent(c, e) = ItemEvent(c, e)
  BY <1>1 DEF ResponseEvent
<1>4. at + 1 \in DOMAIN c.items /\ ~c.items[at + 1].done /\ c.items[at + 1].id = id
  BY <1>2, PlacedIs
<1>5. ItemEvent(c, e) = SetLegal(c, TRUE)
  <2> HIDE DEF c, e
  <2>1. QED
    BY <1>1, <1>2, <1>4, Zenon DEF ItemEvent, SetLegal
<1>6. QED
  BY <1>3, <1>5, OnlyItems, Zenon

LEMMA ItemGrows ==
  ASSUME NEW items, NEW at, NEW id, NEW old, NEW body, Placed(items, at, id, old),
         NEW kind \in {"text_delta", "args_delta"}
  PROVE  ResponseEvent(Reply("open", items), Event(kind, at, id, body))
           = Reply("open", At(items, at + 1, Open(id, old \o body)))
<1> DEFINE c == Reply("open", items)
           e == Event(kind, at, id, body)
           i == at + 1
<1>1. e.kind = kind /\ e.index = at /\ e.name = id /\ e.body = body
  BY DEF Event
<1>2. c.legal = TRUE /\ c.state = "open" /\ c.items = items
  BY DEF Reply, Replying
<1>3. /\ e.kind \in {"text_delta", "args_delta"}
      /\ e.kind \notin {"created", "in_progress", "completed", "error", "item_added", "part_added"}
  BY <1>1
<1>4. /\ i \in DOMAIN c.items /\ ~c.items[i].done /\ c.items[i].id = id
      /\ c.items[i].body = old /\ c.items[i] = Open(id, old)
  BY <1>2, PlacedIs DEF Placed
<1>5. SetBody(Open(id, old), old \o body) = Open(id, old \o body)
  <2>1. ASSUME NEW o, NEW b, NEW d
        PROVE  SetBody(Entry(id, o, d), b) = Entry(id, b, d)
    BY SMT DEF SetBody, Entry
  <2>2. QED
    BY <2>1, Zenon DEF Open
<1>6. SetItems(c, At(items, i, Open(id, old \o body)))
        = Reply("open", At(items, i, Open(id, old \o body)))
  BY OnlyItems, Zenon
<1> HIDE DEF c, e, i
<1>7. ResponseEvent(c, e) = ItemEvent(c, e)
  BY <1>3, Zenon DEF ResponseEvent
<1>8. i = e.index + 1
  BY <1>1 DEF i
<1>9. ItemEvent(c, e) = [c EXCEPT !.items[i].body = @ \o body]
  BY <1>1, <1>3, <1>4, <1>8, Zenon DEF ItemEvent
<1>10. [c EXCEPT !.items[i].body = @ \o body]
         = SetItems(c, At(items, i, SetBody(Open(id, old), old \o body)))
  BY <1>2, <1>4, Zenon DEF SetItems, At, SetBody
<1>11. QED
  BY <1>5, <1>6, <1>7, <1>9, <1>10, Zenon DEF c, e, i

(* The whole of an item, told again: what was streamed of it, or nothing, is the
   same. *)
LEMMA ItemWhole ==
  ASSUME NEW items, NEW at, NEW id, NEW old, NEW body, Placed(items, at, id, old),
         old \in {<<>>, body}, NEW kind \in {"text_done", "part_done", "args_done"}
  PROVE  ResponseEvent(Reply("open", items), Event(kind, at, id, body))
           = Reply("open", items)
<1> DEFINE c == Reply("open", items)
           e == Event(kind, at, id, body)
<1>1. e.kind = kind /\ e.index = at /\ e.name = id /\ e.body = body
  BY DEF Event
<1>2. c.legal = TRUE /\ c.state = "open" /\ c.items = items
  BY DEF Reply, Replying
<1>3. /\ e.kind \in {"text_done", "part_done", "args_done"}
      /\ e.kind \notin {"created", "in_progress", "completed", "error", "item_added", "part_added",
                        "text_delta", "args_delta"}
  BY <1>1
<1>4. /\ at + 1 \in DOMAIN c.items /\ ~c.items[at + 1].done /\ c.items[at + 1].id = id
      /\ c.items[at + 1].body \in {<<>>, e.body}
  BY <1>1, <1>2, PlacedIs
<1> HIDE DEF c, e
<1>5. ResponseEvent(c, e) = ItemEvent(c, e)
  BY <1>3, Zenon DEF ResponseEvent
<1>6. ItemEvent(c, e) = SetLegal(c, TRUE)
  BY <1>1, <1>2, <1>3, <1>4, Zenon DEF ItemEvent, SetLegal
<1>7. QED
  BY <1>5, <1>6, OnlyItems, Zenon DEF c, e

SetDone(p, done, body) == [p EXCEPT !.done = done, !.body = body]

LEMMA DoneFields ==
  ASSUME NEW id, NEW old, NEW was, NEW done, NEW body
  PROVE  SetDone(Entry(id, old, was), done, body) = Entry(id, body, done)
<1> DEFINE p == Entry(id, old, was)
           f == [k \in {"id", "body", "done"} |->
                   IF k = "body" THEN body ELSE IF k = "done" THEN done ELSE p[k]]
<1>1. SetDone(p, done, body) = f
  BY Zenon DEF SetDone, Entry
<1>2. Entry(id, body, done) = f
  BY DEF Entry
<1>3. QED
  BY <1>1, <1>2

LEMMA ItemEnds ==
  ASSUME NEW items, NEW at, NEW id, NEW old, NEW body, Placed(items, at, id, old),
         old \in {<<>>, body}
  PROVE  ResponseEvent(Reply("open", items), Event("item_done", at, id, body))
           = Reply("open", At(items, at + 1, Done(id, body)))
<1> DEFINE c == Reply("open", items)
           e == Event("item_done", at, id, body)
           i == at + 1
<1>1. e.kind = "item_done" /\ e.index = at /\ e.name = id /\ e.body = body
  BY DEF Event
<1>2. c.legal = TRUE /\ c.state = "open" /\ c.items = items
  BY DEF Reply, Replying
<1>3. ResponseEvent(c, e) = ItemEvent(c, e)
  BY <1>1 DEF ResponseEvent
<1>4. /\ i \in DOMAIN c.items /\ ~c.items[i].done /\ c.items[i].id = id
      /\ c.items[i].body \in {<<>>, e.body} /\ items[i] = Open(id, old)
  BY <1>1, <1>2, PlacedIs DEF Placed
<1>5. SetDone(Open(id, old), TRUE, body) = Done(id, body)
  <2>1. SUFFICES ASSUME NEW yes, yes = TRUE, NEW no, no = FALSE
                 PROVE  SetDone(Entry(id, old, no), yes, body) = Entry(id, body, yes)
    BY DEF Open, Done
  <2>2. QED
    BY DoneFields
<1>6. WithItems(c, TRUE, At(items, i, Done(id, body))) = Reply("open", At(items, i, Done(id, body)))
  BY OnlyItems, Zenon
<1> HIDE DEF c, e, i
<1>7. i = e.index + 1
  BY <1>1 DEF i
<1>8. ItemEvent(c, e) = [c EXCEPT !.legal = TRUE, !.items[i].done = TRUE, !.items[i].body = body]
  BY <1>1, <1>2, <1>4, <1>7, Zenon DEF ItemEvent
<1>9. [c EXCEPT !.legal = TRUE, !.items[i].done = TRUE, !.items[i].body = body]
        = WithItems(c, TRUE, At(items, i, SetDone(items[i], TRUE, body)))
  BY <1>2, <1>4, Zenon DEF WithItems, At, SetDone
<1>10. QED
  BY <1>3, <1>4, <1>5, <1>6, <1>8, <1>9, Zenon DEF c, e, i

(* The last event: every item is done, and the list of the items is what was
   read. *)
Listed(output, items) ==
  /\ Len(output) = Len(items)
  /\ \A i \in DOMAIN items : /\ items[i].done /\ output[i].at = i - 1
                             /\ output[i].id = items[i].id /\ output[i].body = items[i].body

SetState(c, legal, state) == [c EXCEPT !.legal = legal, !.state = state]

LEMMA StateFields ==
  ASSUME NEW legal, NEW state, NEW items, NEW ok, NEW new
  PROVE  SetState(Replying(legal, state, items), ok, new) = Replying(ok, new, items)
<1> DEFINE r == Replying(legal, state, items)
           f == [k \in {"legal", "state", "items"} |->
                   IF k = "state" THEN new ELSE IF k = "legal" THEN ok ELSE r[k]]
<1>1. SetState(r, ok, new) = f
  BY Zenon DEF SetState, Replying
<1>2. Replying(ok, new, items) = f
  BY DEF Replying
<1>3. QED
  BY <1>1, <1>2

LEMMA OnlyState ==
  ASSUME NEW state, NEW items, NEW new
  PROVE  SetState(Reply(state, items), TRUE, new) = Reply(new, items)
<1>1. SUFFICES ASSUME NEW yes, yes = TRUE
               PROVE  SetState(Replying(yes, state, items), yes, new)
                        = Replying(yes, new, items)
  BY DEF Reply
<1>2. QED
  BY StateFields

LEMMA AnswerEnds ==
  ASSUME NEW items, NEW output, Listed(output, items), NEW at, NEW id
  PROVE  ResponseEvent(Reply("open", items), Event("completed", at, id, output))
           = Reply("complete", items)
<1> DEFINE c == Reply("open", items)
           e == Event("completed", at, id, output)
<1>1. e.kind = "completed" /\ e.body = output
  BY DEF Event
<1>2. c.legal = TRUE /\ c.state = "open" /\ c.items = items
  BY DEF Reply, Replying
<1>3. SetState(c, TRUE, "complete") = Reply("complete", items)
  BY OnlyState, Zenon
<1> HIDE DEF c, e
<1>4. /\ \A i \in DOMAIN c.items : c.items[i].done
      /\ Len(e.body) = Len(c.items)
      /\ \A i \in DOMAIN c.items : /\ e.body[i].at = i - 1
                                   /\ e.body[i].id = c.items[i].id
                                   /\ e.body[i].body = c.items[i].body
  BY <1>1, <1>2, Zenon DEF Listed
<1>5. ResponseEvent(c, e) = SetState(c, TRUE, "complete")
  BY <1>1, <1>2, <1>4, Zenon DEF ResponseEvent, SetState
<1>6. QED
  BY <1>3, <1>5 DEF c, e

LEMMA ReplyBreaks ==
  ASSUME NEW items
  PROVE  /\ ResponseEvent(Reply("open", items), ErrorIs) = Reply("broken", items)
         /\ ResponseEvent(Reply("complete", items), ErrorIs) = Reply("complete", items)
<1>1. ErrorIs.kind = "error"
  BY DEF ErrorIs, Plainly, Event
<1>2. ASSUME NEW state, NEW new
      PROVE  [Reply(state, items) EXCEPT !.state = new] = Reply(new, items)
  <2>1. ASSUME NEW yes
        PROVE  [Replying(yes, state, items) EXCEPT !.state = new] = Replying(yes, new, items)
    BY SMT DEF Replying
  <2>2. QED
    BY <2>1, Zenon DEF Reply
<1>3. Reply("open", items).state = "open" /\ Reply("complete", items).state = "complete"
  BY DEF Reply, Replying
<1>4. ResponseEvent(Reply("open", items), ErrorIs) = [Reply("open", items) EXCEPT !.state = "broken"]
  BY <1>1, <1>3, Zenon DEF ResponseEvent
<1>5. ResponseEvent(Reply("complete", items), ErrorIs)
        = [Reply("complete", items) EXCEPT !.state = "complete"]
  BY <1>1, <1>3, Zenon DEF ResponseEvent
<1>6. QED
  BY <1>2, <1>4, <1>5, Zenon

(* The client that has read the beginning. *)
LEMMA ReplyBegins ==
  /\ ResponseEvent(NoResponse, Plainly("created")) = Reply("open", Empty)
  /\ ResponseEvent(Reply("open", Empty), Plainly("in_progress")) = Reply("open", Empty)
<1> DEFINE a == Plainly("created")
           b == Plainly("in_progress")
           c == Reply("open", Empty)
<1>1. a.kind = "created" /\ b.kind = "in_progress"
  BY DEF Plainly, Event
<1>2. NoResponse.legal = TRUE /\ NoResponse.state = "new" /\ NoResponse = Reply("new", Empty)
  BY DEF NoResponse, Reply, Replying, Empty
<1>3. c.legal = TRUE /\ c.state = "open"
  BY DEF Reply, Replying
<1>4. SetState(Reply("new", Empty), TRUE, "open") = c
  BY OnlyState, Zenon
<1>5. SetLegal(c, TRUE) = c
  BY OnlyItems, Zenon
<1> HIDE DEF a, b, c
<1>6. ResponseEvent(NoResponse, a) = SetState(NoResponse, TRUE, "open")
  BY <1>1, <1>2, Zenon DEF ResponseEvent, SetState
<1>7. ResponseEvent(c, b) = SetLegal(c, TRUE)
  BY <1>1, <1>3, Zenon DEF ResponseEvent, SetLegal
<1>8. QED
  BY <1>2, <1>4, <1>5, <1>6, <1>7, Zenon DEF a, b, c

-----------------------------------------------------------------------------
(* The items of a stream that goes on, and the translator's record of them. *)

(* A custom tool's arguments are only told when the call is whole. *)
IdOf(m, frags) == IF m = Speech THEN <<"msg">> ELSE ItemId(NamesOf(frags, m[1]))

BodyOf(m, text, frags) == IF m = Speech THEN text ELSE ArgsOf(frags, m[1])

Streamed(m, text, frags) ==
  IF m # Speech /\ NamesOf(frags, m[1]) \in CustomTools THEN Empty ELSE BodyOf(m, text, frags)

Shown(m, text, frags) == Open(IdOf(m, frags), Streamed(m, text, frags))

ItemsNow(seen, text, frags) == [k \in 1..Len(seen) |-> Shown(seen[k], text, frags)]

PlaceOf(seen, m) == CHOOSE k \in 0..Len(seen) - 1 : seen[k + 1] = m

KnownAs(at, name, args, emitted) ==
  [at |-> at, name |-> name, args |-> args, emitted |-> emitted]

Known(at, name, args) == KnownAs(at, name, args, TRUE)

CallNow(seen, frags, i) == Known(PlaceOf(seen, CallAt(i)), NamesOf(frags, i), ArgsOf(frags, i))

CallsNow(seen, frags) == [i \in Indices(frags) |-> CallNow(seen, frags, i)]

TextPlace(seen, text) == IF text = <<>> THEN Unset ELSE PlaceOf(seen, Speech)

Noted(next, textAt, text, calls, finish, events) ==
  [next |-> next, textAt |-> textAt, text |-> text, calls |-> calls, finish |-> finish,
   events |-> events]

ItemKinds == {"created", "in_progress", "item_added", "part_added", "text_delta", "args_delta",
              "text_done", "part_done", "args_done", "item_done"}

OutputIds == {<<"msg">>, <<"fc">>, <<"ctc">>}

ItemEvents == [kind : ItemKinds, index : Int, name : OutputIds \cup {<<>>}, body : Seq(Pieces)]

(* No call is left without a name. *)
AllNamed(frags) == \A i \in Indices(frags) : NamesOf(frags, i) # <<>>

Tracks(t, seen, text, frags) ==
  /\ Ledger(seen, text, frags) /\ AllNamed(frags)
  /\ t = Noted(Len(seen), TextPlace(seen, text), text, CallsNow(seen, frags), t.finish,
               t.events)
  /\ t.events \in Seq(ItemEvents)
  /\ ReadResponse(t.events) = Reply("open", ItemsNow(seen, text, frags))

LEMMA ItemEventType ==
  ASSUME NEW kind \in ItemKinds, NEW index \in Int, NEW name \in OutputIds, NEW body \in Seq(Pieces)
  PROVE  Event(kind, index, name, body) \in ItemEvents
BY DEF Event, ItemEvents

(* The place of a mention is the one it has. *)
LEMMA PlaceIs ==
  ASSUME NEW seen \in Seq(Mentions), NEW m,
         \A j, k \in 1..Len(seen) : seen[j] = seen[k] => j = k
  PROVE  /\ \A k \in 1..Len(seen) : seen[k] = m => PlaceOf(seen, m) = k - 1
         /\ m \in ToSet(seen) => /\ PlaceOf(seen, m) \in 0..Len(seen) - 1
                                 /\ PlaceOf(seen, m) + 1 \in 1..Len(seen)
                                 /\ seen[PlaceOf(seen, m) + 1] = m
<1>1. ASSUME NEW k \in 1..Len(seen), seen[k] = m
      PROVE  /\ PlaceOf(seen, m) = k - 1 /\ PlaceOf(seen, m) \in 0..Len(seen) - 1
             /\ PlaceOf(seen, m) + 1 \in 1..Len(seen) /\ seen[PlaceOf(seen, m) + 1] = m
  <2>1. k - 1 \in 0..Len(seen) - 1 /\ seen[(k - 1) + 1] = m /\ Len(seen) \in Nat
    BY <1>1
  <2>2. PlaceOf(seen, m) \in 0..Len(seen) - 1 /\ seen[PlaceOf(seen, m) + 1] = m
    BY <2>1 DEF PlaceOf
  <2>3. PlaceOf(seen, m) + 1 \in 1..Len(seen)
    BY <2>1, <2>2
  <2>4. PlaceOf(seen, m) + 1 = k
    BY <1>1, <2>2, <2>3
  <2>5. QED
    BY <2>2, <2>3, <2>4
<1>2. m \in ToSet(seen) => \E k \in 1..Len(seen) : seen[k] = m
  BY DEF ToSet
<1>3. QED
  BY <1>1, <1>2

(* One more mention leaves the places of the others. *)
LEMMA PlacesMore ==
  ASSUME NEW seen \in Seq(Mentions), NEW x \in Mentions, x \notin ToSet(seen),
         \A j, k \in 1..Len(seen) : seen[j] = seen[k] => j = k
  PROVE  /\ PlaceOf(Append(seen, x), x) = Len(seen)
         /\ \A m \in ToSet(seen) : PlaceOf(Append(seen, x), m) = PlaceOf(seen, m)
<1> DEFINE more == Append(seen, x)
<1>1. /\ more \in Seq(Mentions) /\ Len(more) = Len(seen) + 1 /\ more[Len(seen) + 1] = x
      /\ Len(seen) \in Nat
      /\ \A k \in 1..Len(seen) : more[k] = seen[k]
  OBVIOUS
<1> HIDE DEF more
<1>2. \A k \in 1..Len(seen) : seen[k] # x
  BY DEF ToSet
<1>3. \A j, k \in 1..Len(more) : more[j] = more[k] => j = k
  BY <1>1, <1>2
<1>4. PlaceOf(more, x) = Len(seen)
  <2>1. Len(seen) + 1 \in 1..Len(more)
    BY <1>1
  <2>2. PlaceOf(more, x) = (Len(seen) + 1) - 1
    BY <1>1, <1>3, <2>1, PlaceIs
  <2>3. QED
    BY <1>1, <2>2
<1>5. ASSUME NEW m \in ToSet(seen) PROVE PlaceOf(more, m) = PlaceOf(seen, m)
  <2>1. PICK k \in 1..Len(seen) : seen[k] = m
    BY DEF ToSet
  <2>2. k \in 1..Len(more) /\ more[k] = m
    BY <1>1, <2>1
  <2>3. QED
    BY <1>1, <1>3, <2>1, <2>2, PlaceIs
<1>6. QED
  BY <1>4, <1>5 DEF more

LEMMA IdType ==
  ASSUME NEW m, NEW text \in Seq(Pieces), NEW frags \in Seq(Fragments)
  PROVE  /\ IdOf(m, frags) \in OutputIds /\ BodyOf(m, text, frags) \in Seq(Pieces)
         /\ Streamed(m, text, frags) \in Seq(Pieces)
         /\ Streamed(m, text, frags) \in {<<>>, BodyOf(m, text, frags)}
         /\ Shown(m, text, frags) \in ItemSet
<1>1. \A name : ItemId(name) \in OutputIds
  BY DEF ItemId, OutputIds
<1>2. IdOf(m, frags) \in OutputIds
  BY <1>1 DEF IdOf, OutputIds
<1>3. BodyOf(m, text, frags) \in Seq(Pieces)
  BY NamesType DEF BodyOf
<1>4. Empty \in Seq(Pieces) /\ Empty = <<>>
  BY DEF Empty
<1>5. Streamed(m, text, frags) \in {<<>>, BodyOf(m, text, frags)}
  BY <1>4 DEF Streamed
<1>6. Streamed(m, text, frags) \in Seq(Pieces)
  BY <1>3, <1>4, <1>5
<1>7. ASSUME NEW id \in OutputIds, NEW body \in Seq(Pieces) PROVE Open(id, body) \in ItemSet
  BY DEF Open, Entry, ItemSet, OutputIds
<1>8. QED
  BY <1>2, <1>3, <1>5, <1>6, <1>7 DEF Shown

LEMMA ItemsType ==
  ASSUME NEW seen \in Seq(Mentions), NEW text \in Seq(Pieces), NEW frags \in Seq(Fragments)
  PROVE  /\ ItemsNow(seen, text, frags) \in Seq(ItemSet)
         /\ Len(ItemsNow(seen, text, frags)) = Len(seen)
         /\ DOMAIN ItemsNow(seen, text, frags) = 1..Len(seen)
         /\ \A k \in 1..Len(seen) :
              ItemsNow(seen, text, frags)[k] = Shown(seen[k], text, frags)
<1> DEFINE items == ItemsNow(seen, text, frags)
<1>1. items \in [1..Len(seen) -> ItemSet] /\ Len(seen) \in Nat
  BY IdType DEF ItemsNow
<1>2. items \in Seq(ItemSet) /\ Len(items) = Len(seen)
  <2> HIDE DEF items
  <2>1. QED
    BY <1>1, FunctionIsSequence
<1>3. QED
  BY <1>2 DEF ItemsNow

(* A new item, or a new body of one of them. *)
LEMMA ItemsAppend ==
  ASSUME NEW seen \in Seq(Mentions), NEW m \in Mentions,
         NEW text \in Seq(Pieces), NEW frags \in Seq(Fragments),
         NEW text1 \in Seq(Pieces), NEW frags1 \in Seq(Fragments),
         \A k \in 1..Len(seen) : Shown(seen[k], text1, frags1) = Shown(seen[k], text, frags)
  PROVE  ItemsNow(Append(seen, m), text1, frags1)
           = Append(ItemsNow(seen, text, frags), Shown(m, text1, frags1))
<1> DEFINE more == Append(seen, m)
           items == ItemsNow(seen, text, frags)
           new == ItemsNow(more, text1, frags1)
           x == Shown(m, text1, frags1)
<1>1. /\ more \in Seq(Mentions) /\ Len(more) = Len(seen) + 1 /\ more[Len(seen) + 1] = m
      /\ Len(seen) \in Nat
      /\ \A k \in 1..Len(seen) : more[k] = seen[k]
  OBVIOUS
<1> HIDE DEF more
<1>2. /\ items \in Seq(ItemSet) /\ Len(items) = Len(seen) /\ x \in ItemSet
      /\ \A k \in 1..Len(seen) : items[k] = Shown(seen[k], text, frags)
  BY ItemsType, IdType
<1>3. /\ new \in Seq(ItemSet) /\ Len(new) = Len(seen) + 1
      /\ \A k \in 1..Len(seen) + 1 : new[k] = Shown(more[k], text1, frags1)
  <2>1. /\ new \in Seq(ItemSet) /\ Len(new) = Len(more)
        /\ \A k \in 1..Len(more) : new[k] = Shown(more[k], text1, frags1)
    BY <1>1, ItemsType
  <2> HIDE DEF new
  <2>2. QED
    BY <1>1, <2>1
<1> HIDE DEF items, new, x
<1> DEFINE app == Append(items, x)
<1>4. /\ app \in Seq(ItemSet) /\ Len(app) = Len(seen) + 1 /\ app[Len(seen) + 1] = x
      /\ \A k \in 1..Len(seen) : app[k] = items[k]
  BY <1>2
<1> HIDE DEF app
<1>5. \A k \in 1..Len(seen) + 1 : new[k] = app[k]
  <2>1. ASSUME NEW k \in 1..Len(seen) PROVE new[k] = app[k]
    BY <1>1, <1>2, <1>3, <1>4
  <2>2. new[Len(seen) + 1] = x
    BY <1>1, <1>3 DEF x
  <2>3. \A k \in 1..Len(seen) + 1 : k \in 1..Len(seen) \/ k = Len(seen) + 1
    BY <1>1
  <2>4. QED
    BY <1>4, <2>1, <2>2, <2>3, Zenon
<1>6. new = app
  BY <1>1, <1>3, <1>4, <1>5
<1>7. QED
  BY <1>6 DEF new, app, more, items, x

LEMMA ItemsAt ==
  ASSUME NEW seen \in Seq(Mentions), NEW m \in Mentions, m \in ToSet(seen),
         \A j, k \in 1..Len(seen) : seen[j] = seen[k] => j = k,
         NEW text \in Seq(Pieces), NEW frags \in Seq(Fragments),
         NEW text1 \in Seq(Pieces), NEW frags1 \in Seq(Fragments),
         \A k \in 1..Len(seen) : seen[k] # m =>
            Shown(seen[k], text1, frags1) = Shown(seen[k], text, frags)
  PROVE  ItemsNow(seen, text1, frags1)
           = At(ItemsNow(seen, text, frags), PlaceOf(seen, m) + 1, Shown(m, text1, frags1))
<1> DEFINE p == PlaceOf(seen, m) + 1
           items == ItemsNow(seen, text, frags)
           x == Shown(m, text1, frags1)
<1>1. p \in 1..Len(seen) /\ seen[p] = m
  BY PlaceIs
<1> HIDE DEF p
<1>2. /\ DOMAIN items = 1..Len(seen)
      /\ \A k \in 1..Len(seen) : items[k] = Shown(seen[k], text, frags)
  BY ItemsType
<1>3. At(items, p, x) = [k \in 1..Len(seen) |-> IF k = p THEN x ELSE items[k]]
  <2> HIDE DEF items, x
  <2>1. QED
    BY <1>2 DEF At
<1>4. \A k \in 1..Len(seen) : (IF k = p THEN x ELSE items[k]) = Shown(seen[k], text1, frags1)
  <2> HIDE DEF items
  <2>1. QED
    BY <1>1, <1>2
<1>5. ItemsNow(seen, text1, frags1) = [k \in 1..Len(seen) |-> IF k = p THEN x ELSE items[k]]
  <2> HIDE DEF items, x
  <2>1. QED
    BY <1>4 DEF ItemsNow
<1>6. QED
  BY <1>3, <1>5 DEF p

-----------------------------------------------------------------------------
(* The translator's record, changed field by field. *)

SetPlace(t, textAt, next) == [t EXCEPT !.textAt = textAt, !.next = next]

SetKnown(t, next, calls) == [t EXCEPT !.next = next, !.calls = calls]

LEMMA NotedFields ==
  ASSUME NEW next, NEW textAt, NEW text, NEW calls, NEW finish, NEW events
  PROVE  /\ Noted(next, textAt, text, calls, finish, events).next = next
         /\ Noted(next, textAt, text, calls, finish, events).textAt = textAt
         /\ Noted(next, textAt, text, calls, finish, events).text = text
         /\ Noted(next, textAt, text, calls, finish, events).calls = calls
         /\ Noted(next, textAt, text, calls, finish, events).finish = finish
         /\ Noted(next, textAt, text, calls, finish, events).events = events
BY DEF Noted

LEMMA NotedText ==
  ASSUME NEW next, NEW textAt, NEW text, NEW calls, NEW finish, NEW events, NEW x
  PROVE  /\ SetText(Noted(next, textAt, text, calls, finish, events), x)
              = Noted(next, textAt, x, calls, finish, events)
         /\ SetCalls(Noted(next, textAt, text, calls, finish, events), x)
              = Noted(next, textAt, text, x, finish, events)
         /\ SetEvents(Noted(next, textAt, text, calls, finish, events), x)
              = Noted(next, textAt, text, calls, finish, x)
<1>1. SetText(Noted(next, textAt, text, calls, finish, events), x)
        = Noted(next, textAt, x, calls, finish, events)
  BY DEF Noted, SetText
<1>2. SetCalls(Noted(next, textAt, text, calls, finish, events), x)
        = Noted(next, textAt, text, x, finish, events)
  BY DEF Noted, SetCalls
<1>3. SetEvents(Noted(next, textAt, text, calls, finish, events), x)
        = Noted(next, textAt, text, calls, finish, x)
  BY DEF Noted, SetEvents
<1>4. QED
  BY <1>1, <1>2, <1>3

LEMMA NotedPlace ==
  ASSUME NEW next, NEW textAt, NEW text, NEW calls, NEW finish, NEW events, NEW x, NEW y
  PROVE  /\ SetPlace(Noted(next, textAt, text, calls, finish, events), x, y)
              = Noted(y, x, text, calls, finish, events)
         /\ SetKnown(Noted(next, textAt, text, calls, finish, events), x, y)
              = Noted(x, textAt, text, y, finish, events)
<1> DEFINE r == Noted(next, textAt, text, calls, finish, events)
           D == {"next", "textAt", "text", "calls", "finish", "events"}
           f == [k \in D |-> IF k = "next" THEN y ELSE IF k = "textAt" THEN x ELSE r[k]]
           g == [k \in D |-> IF k = "calls" THEN y ELSE IF k = "next" THEN x ELSE r[k]]
<1>1. SetPlace(r, x, y) = f
  BY Zenon DEF Noted, SetPlace
<1>2. Noted(y, x, text, calls, finish, events) = f
  BY DEF Noted
<1>3. SetKnown(r, x, y) = g
  BY Zenon DEF Noted, SetKnown
<1>4. Noted(x, textAt, text, y, finish, events) = g
  BY DEF Noted
<1>5. QED
  BY <1>1, <1>2, <1>3, <1>4

LEMMA NotedEvents ==
  ASSUME NEW next, NEW textAt, NEW text, NEW calls, NEW finish, NEW events, NEW x
  PROVE  /\ Emit(Noted(next, textAt, text, calls, finish, events), x)
              = Noted(next, textAt, text, calls, finish, events \o x)
         /\ Finished(Noted(next, textAt, text, calls, finish, events), x)
              = Noted(next, textAt, text, calls, IF x = "none" THEN finish ELSE x, events)
<1> DEFINE r == Noted(next, textAt, text, calls, finish, events)
<1>1. r.events = events
  BY NotedFields
<1>2. SetEvents(r, events \o x) = Noted(next, textAt, text, calls, finish, events \o x)
  BY NotedText
<1>3. Emit(r, x) = SetEvents(r, events \o x)
  <2> HIDE DEF r
  <2>1. QED
    BY <1>1 DEF Emit, SetEvents
<1>4. Finished(r, x) = Noted(next, textAt, text, calls, IF x = "none" THEN finish ELSE x, events)
  BY DEF Noted, Finished
<1>5. QED
  BY <1>2, <1>3, <1>4

(* The record of a call, changed. *)
NameCall(t, i, name) == [t EXCEPT !.calls[i].name = name]

ArgsCall(t, i, args) == [t EXCEPT !.calls[i].args = args]

EmitCall(t, i, emitted) == [t EXCEPT !.calls[i].emitted = emitted]

SetName(call, name) == [call EXCEPT !.name = name]

SetArgs(call, args) == [call EXCEPT !.args = args]

SetEmitted(call, emitted) == [call EXCEPT !.emitted = emitted]

LEMMA CallFields ==
  ASSUME NEW at, NEW name, NEW args, NEW emitted, NEW x
  PROVE  /\ KnownAs(at, name, args, emitted).at = at
         /\ KnownAs(at, name, args, emitted).name = name
         /\ KnownAs(at, name, args, emitted).args = args
         /\ KnownAs(at, name, args, emitted).emitted = emitted
         /\ SetName(KnownAs(at, name, args, emitted), x) = KnownAs(at, x, args, emitted)
         /\ SetArgs(KnownAs(at, name, args, emitted), x) = KnownAs(at, name, x, emitted)
         /\ SetEmitted(KnownAs(at, name, args, emitted), x) = KnownAs(at, name, args, x)
<1>1. /\ KnownAs(at, name, args, emitted).at = at
      /\ KnownAs(at, name, args, emitted).name = name
      /\ KnownAs(at, name, args, emitted).args = args
      /\ KnownAs(at, name, args, emitted).emitted = emitted
  BY DEF KnownAs
<1>2. SetName(KnownAs(at, name, args, emitted), x) = KnownAs(at, x, args, emitted)
  BY SMT DEF KnownAs, SetName
<1>3. SetArgs(KnownAs(at, name, args, emitted), x) = KnownAs(at, name, x, emitted)
  BY SMT DEF KnownAs, SetArgs
<1>4. SetEmitted(KnownAs(at, name, args, emitted), x) = KnownAs(at, name, args, x)
  BY SMT DEF KnownAs, SetEmitted
<1>5. QED
  BY <1>1, <1>2, <1>3, <1>4

LEMMA CallSet ==
  ASSUME NEW t, NEW calls, "calls" \in DOMAIN t, t.calls = calls, NEW i \in DOMAIN calls, NEW x
  PROVE  /\ NameCall(t, i, x) = SetCalls(t, At(calls, i, SetName(calls[i], x)))
         /\ ArgsCall(t, i, x) = SetCalls(t, At(calls, i, SetArgs(calls[i], x)))
         /\ EmitCall(t, i, x) = SetCalls(t, At(calls, i, SetEmitted(calls[i], x)))
<1>1. NameCall(t, i, x) = SetCalls(t, At(calls, i, SetName(calls[i], x)))
  BY Zenon DEF NameCall, SetCalls, At, SetName
<1>2. ArgsCall(t, i, x) = SetCalls(t, At(calls, i, SetArgs(calls[i], x)))
  BY Zenon DEF ArgsCall, SetCalls, At, SetArgs
<1>3. EmitCall(t, i, x) = SetCalls(t, At(calls, i, SetEmitted(calls[i], x)))
  BY Zenon DEF EmitCall, SetCalls, At, SetEmitted
<1>4. QED
  BY <1>1, <1>2, <1>3

(* One event more. *)
LEMMA AfterEvent ==
  ASSUME NEW E, NEW ev \in Seq(E), NEW e \in E
  PROVE  /\ ReadResponse(ev \o <<e>>) = ResponseEvent(ReadResponse(ev), e)
         /\ ev \o <<e>> \in Seq(E)
<1>1. ev \o <<e>> = Append(ev, e) /\ ev \o <<e>> \in Seq(E)
  BY AppendIsConcat
<1>2. QED
  BY <1>1, ReadResponseMore, Zenon

LEMMA AfterEvents ==
  ASSUME NEW E, NEW ev \in Seq(E), NEW a \in E, NEW b \in E
  PROVE  /\ ReadResponse(ev \o <<a, b>>) = ResponseEvent(ResponseEvent(ReadResponse(ev), a), b)
         /\ ev \o <<a, b>> \in Seq(E)
<1>1. ev \o <<a>> \in Seq(E) /\ (ev \o <<a>>) \o <<b>> = ev \o <<a, b>>
  BY OneByOne
<1>2. ReadResponse((ev \o <<a>>) \o <<b>>) = ResponseEvent(ReadResponse(ev \o <<a>>), b)
  BY <1>1, AfterEvent
<1>3. ReadResponse(ev \o <<a>>) = ResponseEvent(ReadResponse(ev), a)
  BY AfterEvent
<1>4. ev \o <<a, b>> \in Seq(E)
  OBVIOUS
<1>5. QED
  BY <1>1, <1>2, <1>3, <1>4, Zenon

LEMMA AfterThreeEvents ==
  ASSUME NEW E, NEW ev \in Seq(E), NEW a \in E, NEW b \in E, NEW c \in E
  PROVE  /\ ReadResponse(ev \o <<a, b, c>>)
              = ResponseEvent(ResponseEvent(ResponseEvent(ReadResponse(ev), a), b), c)
         /\ ev \o <<a, b, c>> \in Seq(E)
<1>1. ev \o <<a, b>> \in Seq(E) /\ <<a, b>> \in Seq(E) /\ <<a, b, c>> = Append(<<a, b>>, c)
  OBVIOUS
<1>2. ev \o Append(<<a, b>>, c) = Append(ev \o <<a, b>>, c)
  BY <1>1, AppendToConcat
<1>3. ReadResponse(Append(ev \o <<a, b>>, c)) = ResponseEvent(ReadResponse(ev \o <<a, b>>), c)
  BY <1>1, ReadResponseMore
<1>4. ev \o <<a, b, c>> \in Seq(E)
  OBVIOUS
<1>5. ReadResponse(ev \o <<a, b>>) = ResponseEvent(ResponseEvent(ReadResponse(ev), a), b)
  BY AfterEvents
<1>6. QED
  BY <1>1, <1>2, <1>3, <1>4, <1>5, Zenon

LEMMA BeginTracks == Tracks(BeginResponse, <<>>, <<>>, <<>>)
<1> DEFINE a == Plainly("created")
           b == Plainly("in_progress")
           none == <<>>
           t == BeginResponse
<1>1. Indices(none) = {} /\ Len(none) = 0
  BY DEF Indices, ToSet
<1>2. CallsNow(none, none) = NoItems
  BY <1>1 DEF CallsNow, NoItems
<1>3. t = Noted(0, Unset, none, NoItems, t.finish, <<a, b>>) /\ t.events = <<a, b>>
  BY DEF BeginResponse, Noted
<1>4. a \in ItemEvents /\ b \in ItemEvents
  <2>1. Unset \in Int /\ <<>> \in Seq(Pieces)
    BY DEF Unset
  <2>2. QED
    BY <2>1 DEF Plainly, Event, ItemEvents, ItemKinds
<1>5. none \in Seq(ItemEvents) /\ none \o <<a, b>> = <<a, b>>
  BY <1>4
<1>6. ReadResponse(none) = NoResponse
  BY ReadResponseMore
<1>7. /\ ReadResponse(none \o <<a, b>>) = Reply("open", Empty)
      /\ <<a, b>> \in Seq(ItemEvents)
  <2>1. /\ ResponseEvent(NoResponse, a) = Reply("open", Empty)
        /\ ResponseEvent(Reply("open", Empty), b) = Reply("open", Empty)
    BY ReplyBegins
  <2> HIDE DEF a, b, none
  <2>2. QED
    BY <1>4, <1>5, <1>6, <2>1, AfterEvents
<1>8. ItemsNow(none, none, none) = Empty
  BY DEF ItemsNow, Empty
<1>9. TextPlace(none, none) = Unset /\ AllNamed(none)
  BY <1>1 DEF TextPlace, AllNamed
<1>10. Ledger(none, none, none)
  BY NothingNoticed
<1> HIDE DEF a, b, t, none
<1>11. Tracks(t, none, none, none)
  BY <1>1, <1>2, <1>3, <1>5, <1>7, <1>8, <1>9, <1>10 DEF Tracks
<1>12. QED
  BY <1>11 DEF t, none

-----------------------------------------------------------------------------
(* A text of a chunk. *)
TextStarts(at) ==
  <<Event("item_added", at, <<"msg">>, <<>>), Event("part_added", at, <<"msg">>, <<>>)>>

TextGrows(at, text) == <<Event("text_delta", at, <<"msg">>, text)>>

LEMMA TextItemIs ==
  ASSUME NEW next, NEW textAt, NEW text, NEW calls, NEW finish, NEW events, NEW x, x # <<>>
  PROVE  TextItem(Noted(next, textAt, text, calls, finish, events), x) =
           IF textAt # Unset
           THEN Noted(next, textAt, text \o x, calls, finish, events \o TextGrows(textAt, x))
           ELSE Noted(next + 1, next, text \o x, calls, finish,
                      (events \o TextStarts(next)) \o TextGrows(next, x))
<1> DEFINE t == Noted(next, textAt, text, calls, finish, events)
           o == EnsureTextItem(t)
<1>1. t.textAt = textAt /\ t.next = next /\ t.text = text
  BY NotedFields
<1>2. TextItem(t, x) = Emit(SetText(o, o.text \o x), TextGrows(o.textAt, x))
  BY DEF TextItem, SetText, TextGrows
<1>3. CASE textAt # Unset
  <2>1. o = t
    BY <1>1, <1>3 DEF EnsureTextItem
  <2>2. TextItem(t, x) = Emit(SetText(t, text \o x), TextGrows(textAt, x))
    BY <1>1, <1>2, <2>1
  <2>3. QED
    BY <1>3, <2>2, NotedText, NotedEvents
<1>4. CASE textAt = Unset
  <2>1. o = Emit(SetPlace(t, next, next + 1), TextStarts(next))
    BY <1>1, <1>4 DEF EnsureTextItem, SetPlace, TextStarts
  <2>2. o = Noted(next + 1, next, text, calls, finish, events \o TextStarts(next))
    BY <2>1, NotedPlace, NotedEvents
  <2>3. o.textAt = next /\ o.text = text
    BY <2>2, NotedFields
  <2>4. TextItem(t, x) = Emit(SetText(o, text \o x), TextGrows(next, x))
    BY <1>2, <2>3
  <2> HIDE DEF o, t
  <2>5. QED
    BY <1>4, <2>2, <2>4, NotedText, NotedEvents DEF t
<1>5. QED
  BY <1>3, <1>4

(* The client is told of the new item, and of its first text. *)
LEMMA TextItemRead ==
  ASSUME NEW ev \in Seq(ItemEvents), NEW items \in Seq(ItemSet), NEW at, at = Len(items),
         NEW x \in Seq(Pieces), ReadResponse(ev) = Reply("open", items)
  PROVE  /\ ReadResponse((ev \o TextStarts(at)) \o TextGrows(at, x))
              = Reply("open", Append(items, Open(<<"msg">>, x)))
         /\ (ev \o TextStarts(at)) \o TextGrows(at, x) \in Seq(ItemEvents)
<1> DEFINE id == <<"msg">>
           a == Event("item_added", at, id, <<>>)
           b == Event("part_added", at, id, <<>>)
           c == Event("text_delta", at, id, x)
           new == Append(items, Fresh(id))
<1>1. a \in ItemEvents /\ b \in ItemEvents /\ c \in ItemEvents
  <2>1. at \in Int /\ id \in OutputIds /\ <<>> \in Seq(Pieces)
    BY DEF OutputIds
  <2> HIDE DEF id
  <2>2. QED
    BY <2>1, ItemEventType DEF ItemKinds
<1>2. id \in OutputIds
  BY DEF OutputIds
<1> HIDE DEF id
<1>3. ResponseEvent(Reply("open", items), a) = Reply("open", new)
  BY ItemAdded
<1>4. new \in Seq(ItemSet) /\ Placed(new, at, id, Empty) /\ at + 1 = Len(items) + 1
  <2>1. Fresh(id) \in ItemSet /\ Fresh(id) = Open(id, Empty)
    BY <1>2 DEF Fresh, Open, Entry, ItemSet, OutputIds, Empty
  <2>2. new \in Seq(ItemSet) /\ Len(items) + 1 \in DOMAIN new /\ new[Len(items) + 1] = Fresh(id)
    BY <2>1
  <2>3. QED
    BY <2>1, <2>2 DEF Placed
<1>5. ResponseEvent(Reply("open", new), b) = Reply("open", new)
  <2> HIDE DEF new
  <2>1. QED
    BY <1>4, PartAdded
<1>6. ResponseEvent(Reply("open", new), c) = Reply("open", At(new, at + 1, Open(id, Empty \o x)))
  <2>1. ASSUME NEW old, old = Empty
        PROVE  ResponseEvent(Reply("open", new), c)
                 = Reply("open", At(new, at + 1, Open(id, old \o x)))
    <3> HIDE DEF new
    <3>1. QED
      BY <1>4, <2>1, ItemGrows
  <2>2. QED
    BY <2>1, Zenon
<1>7. At(new, at + 1, Open(id, Empty \o x)) = Append(items, Open(id, x))
  <2>1. Empty \o x = x
    BY DEF Empty
  <2>2. Fresh(id) \in ItemSet /\ Open(id, x) \in ItemSet
    BY <1>2 DEF Fresh, Open, Entry, ItemSet, OutputIds, Empty
  <2>3. At(new, Len(items) + 1, Open(id, x)) = Append(items, Open(id, x))
    BY <2>2, LastReplaced
  <2>4. QED
    BY <1>4, <2>1, <2>3, Zenon
<1>8. TextStarts(at) = <<a, b>> /\ TextGrows(at, x) = <<c>>
  BY DEF TextStarts, TextGrows, id
<1> HIDE DEF a, b, c, new
<1>9. ReadResponse(ev \o <<a, b>>) = Reply("open", new) /\ ev \o <<a, b>> \in Seq(ItemEvents)
  <2>1. /\ ReadResponse(ev \o <<a, b>>) = ResponseEvent(ResponseEvent(ReadResponse(ev), a), b)
        /\ ev \o <<a, b>> \in Seq(ItemEvents)
    BY <1>1, AfterEvents
  <2>2. QED
    BY <1>3, <1>5, <2>1
<1> DEFINE ev1 == ev \o <<a, b>>
<1>10. ev1 \in Seq(ItemEvents) /\ ReadResponse(ev1) = Reply("open", new)
  BY <1>9
<1> HIDE DEF ev1
<1>11. /\ ReadResponse(ev1 \o <<c>>) = ResponseEvent(ReadResponse(ev1), c)
       /\ ev1 \o <<c>> \in Seq(ItemEvents)
  BY <1>1, <1>10, AfterEvent
<1>12. QED
  BY <1>6, <1>7, <1>8, <1>10, <1>11, Zenon DEF ev1, id

LEMMA TextDelta ==
  ASSUME NEW items, NEW at, NEW id, NEW old, NEW x, Placed(items, at, id, old)
  PROVE  ResponseEvent(Reply("open", items), Event("text_delta", at, id, x))
           = Reply("open", At(items, at + 1, Open(id, old \o x)))
BY ItemGrows

LEMMA TextGrowsRead ==
  ASSUME NEW ev \in Seq(ItemEvents), NEW items, NEW at \in Int, NEW old,
         Placed(items, at, <<"msg">>, old),
         NEW x \in Seq(Pieces), ReadResponse(ev) = Reply("open", items)
  PROVE  /\ ReadResponse(ev \o TextGrows(at, x))
              = Reply("open", At(items, at + 1, Open(<<"msg">>, old \o x)))
         /\ ev \o TextGrows(at, x) \in Seq(ItemEvents)
<1> DEFINE id == <<"msg">>
           c == Event("text_delta", at, id, x)
<1>1. id \in OutputIds /\ TextGrows(at, x) = <<c>> /\ Placed(items, at, id, old)
  BY DEF OutputIds, TextGrows
<1> HIDE DEF id
<1>2. c \in ItemEvents
  BY <1>1, ItemEventType DEF ItemKinds
<1>3. ResponseEvent(Reply("open", items), c) = Reply("open", At(items, at + 1, Open(id, old \o x)))
  <2>1. Placed(items, at, id, old)
    BY <1>1
  <2>2. QED
    BY <2>1, TextDelta
<1> HIDE DEF c
<1>4. /\ ReadResponse(ev \o <<c>>) = ResponseEvent(ReadResponse(ev), c)
      /\ ev \o <<c>> \in Seq(ItemEvents)
  BY <1>2, AfterEvent
<1>5. QED
  BY <1>1, <1>3, <1>4, Zenon DEF id

(* What a text changes of the items. *)
LEMMA OthersKeepText ==
  ASSUME NEW m \in Mentions, m # Speech, NEW text, NEW text1, NEW frags
  PROVE  /\ Shown(m, text1, frags) = Shown(m, text, frags)
         /\ BodyOf(m, text1, frags) = BodyOf(m, text, frags)
BY DEF Shown, Streamed, BodyOf

LEMMA SpeechShown ==
  ASSUME NEW text, NEW frags
  PROVE  Shown(Speech, text, frags) = Open(<<"msg">>, text)
BY DEF Shown, Streamed, BodyOf, IdOf

LEMMA TracksIs ==
  ASSUME NEW t, NEW seen, NEW text, NEW frags, Tracks(t, seen, text, frags)
  PROVE  /\ seen \in Seq(Mentions) /\ text \in Seq(Pieces) /\ frags \in Seq(Fragments)
         /\ \A j, k \in 1..Len(seen) : seen[j] = seen[k] => j = k
         /\ Speech \in ToSet(seen) <=> text # <<>>
         /\ \A i : CallAt(i) \in ToSet(seen) <=> i \in Indices(frags)
         /\ AllNamed(frags) /\ t.events \in Seq(ItemEvents)
         /\ t = Noted(Len(seen), TextPlace(seen, text), text, CallsNow(seen, frags), t.finish,
                      t.events)
         /\ ReadResponse(t.events) = Reply("open", ItemsNow(seen, text, frags))
BY DEF Tracks, Ledger

LEMMA TextTracks ==
  ASSUME NEW t, NEW seen, NEW text, NEW frags, Tracks(t, seen, text, frags),
         NEW x \in Seq(Pieces), x # <<>>
  PROVE  Tracks(TextItem(t, x), Noticed(seen, Speech), text \o x, frags)
<1> DEFINE at == TextPlace(seen, text)
           calls == CallsNow(seen, frags)
           more == Noticed(seen, Speech)
           said == text \o x
           items == ItemsNow(seen, text, frags)
           ev == t.events
           new == TextItem(t, x)
<1>1. /\ seen \in Seq(Mentions) /\ text \in Seq(Pieces) /\ frags \in Seq(Fragments)
      /\ \A j, k \in 1..Len(seen) : seen[j] = seen[k] => j = k
      /\ Speech \in ToSet(seen) <=> text # <<>>
      /\ \A i : CallAt(i) \in ToSet(seen) <=> i \in Indices(frags)
      /\ AllNamed(frags) /\ ev \in Seq(ItemEvents)
      /\ t = Noted(Len(seen), at, text, calls, t.finish, ev)
      /\ ReadResponse(ev) = Reply("open", items)
  BY TracksIs
<1>2. Ledger(more, said, frags)
  BY TextNoticed DEF Tracks
<1>3. /\ items \in Seq(ItemSet) /\ Len(items) = Len(seen) /\ DOMAIN items = 1..Len(seen)
      /\ \A k \in 1..Len(seen) : items[k] = Shown(seen[k], text, frags)
  BY <1>1, ItemsType
<1>4. said \in Seq(Pieces) /\ said # <<>> /\ Speech \in Mentions
  BY <1>1 DEF Mentions
<1>5. new = IF at # Unset
            THEN Noted(Len(seen), at, said, calls, t.finish, ev \o TextGrows(at, x))
            ELSE Noted(Len(seen) + 1, Len(seen), said, calls, t.finish,
                       (ev \o TextStarts(Len(seen))) \o TextGrows(Len(seen), x))
  BY <1>1, TextItemIs
<1>6. \A k \in 1..Len(seen) : seen[k] # Speech =>
        Shown(seen[k], said, frags) = Shown(seen[k], text, frags)
  <2>1. \A k \in 1..Len(seen) : seen[k] \in Mentions
    BY <1>1
  <2> HIDE DEF said
  <2>2. QED
    BY <2>1, OthersKeepText, Zenon
<1>7. ASSUME Len(more) \in Nat, NEW next, NEW place, NEW events,
             new = Noted(next, place, said, calls, t.finish, events), next = Len(more),
             place = PlaceOf(more, Speech), calls = CallsNow(more, frags),
             events \in Seq(ItemEvents),
             ReadResponse(events) = Reply("open", ItemsNow(more, said, frags))
      PROVE  Tracks(new, more, said, frags)
  <2>1. new.finish = t.finish /\ new.events = events
    <3> HIDE DEF new, more, calls, said
    <3>1. QED
      BY <1>7, NotedFields
  <2>2. TextPlace(more, said) = place
    BY <1>4, <1>7 DEF TextPlace
  <2> HIDE DEF new, more, calls, said
  <2>3. QED
    BY <1>1, <1>2, <1>7, <2>1, <2>2 DEF Tracks
<1>8. CASE text # <<>>
  <2>1. Speech \in ToSet(seen) /\ more = seen /\ at = PlaceOf(seen, Speech)
    BY <1>1, <1>8 DEF Noticed, TextPlace
  <2>2. at \in 0..Len(seen) - 1 /\ at + 1 \in 1..Len(seen) /\ seen[at + 1] = Speech
    BY <1>1, <2>1, PlaceIs
  <2>3. at # Unset /\ at \in Int
    BY <2>2 DEF Unset
  <2>4. new = Noted(Len(seen), at, said, calls, t.finish, ev \o TextGrows(at, x))
    BY <1>5, <2>3
  <2>5. Placed(items, at, <<"msg">>, text)
    BY <1>3, <2>2, SpeechShown DEF Placed
  <2>6. ItemsNow(seen, said, frags) = At(items, at + 1, Open(<<"msg">>, said))
    <3>1. ItemsNow(seen, said, frags)
            = At(items, PlaceOf(seen, Speech) + 1, Shown(Speech, said, frags))
      <4> HIDE DEF said
      <4>1. QED
        BY <1>1, <1>4, <1>6, <2>1, ItemsAt
    <3>2. QED
      BY <2>1, <3>1, SpeechShown
  <2>7. /\ ReadResponse(ev \o TextGrows(at, x))
             = Reply("open", At(items, at + 1, Open(<<"msg">>, said)))
        /\ ev \o TextGrows(at, x) \in Seq(ItemEvents)
    <3> HIDE DEF items, ev, at
    <3>1. QED
      BY <1>1, <2>3, <2>5, TextGrowsRead
  <2> HIDE DEF items, ev, at, calls, new, said
  <2>8. Len(seen) \in Nat
    BY <1>1
  <2>9. calls = CallsNow(seen, frags)
    BY DEF calls
  <2>10. Tracks(new, more, said, frags)
    <3> HIDE DEF more
    <3>1. QED
      BY <1>7, <2>1, <2>4, <2>6, <2>7, <2>8, <2>9
  <2>11. QED
    BY <2>10 DEF new, said
<1>9. CASE text = <<>>
  <2>1. Speech \notin ToSet(seen) /\ more = Append(seen, Speech) /\ at = Unset
    BY <1>1, <1>9 DEF Noticed, TextPlace
  <2>2. new = Noted(Len(seen) + 1, Len(seen), said, calls, t.finish,
                    (ev \o TextStarts(Len(seen))) \o TextGrows(Len(seen), x))
    BY <1>5, <2>1
  <2>3. said = x
    BY <1>9
  <2>4. ItemsNow(more, said, frags) = Append(items, Open(<<"msg">>, x))
    <3>1. \A k \in 1..Len(seen) : seen[k] # Speech
      BY <2>1 DEF ToSet
    <3>2. ItemsNow(Append(seen, Speech), said, frags) = Append(items, Shown(Speech, said, frags))
      <4>1. \A k \in 1..Len(seen) : Shown(seen[k], said, frags) = Shown(seen[k], text, frags)
        BY <1>6, <3>1
      <4> HIDE DEF said
      <4>2. QED
        BY <1>1, <1>4, <4>1, ItemsAppend
    <3>3. QED
      BY <2>1, <2>3, <3>2, SpeechShown
  <2> DEFINE events == (ev \o TextStarts(Len(seen))) \o TextGrows(Len(seen), x)
  <2>5. ReadResponse(events) = Reply("open", Append(items, Open(<<"msg">>, x)))
        /\ events \in Seq(ItemEvents)
    <3> HIDE DEF items, ev
    <3>1. QED
      BY <1>1, <1>3, TextItemRead
  <2>6. /\ PlaceOf(more, Speech) = Len(seen) /\ Len(more) = Len(seen) + 1 /\ Len(more) \in Nat
        /\ \A m \in ToSet(seen) : PlaceOf(more, m) = PlaceOf(seen, m)
    BY <1>1, <1>4, <2>1, PlacesMore
  <2>7. calls = CallsNow(more, frags)
    <3>1. \A i \in Indices(frags) : CallNow(more, frags, i) = CallNow(seen, frags, i)
      BY <1>1, <2>6 DEF CallNow
    <3>2. QED
      BY <3>1 DEF CallsNow
  <2> HIDE DEF items, ev, at, calls, new, said, more, events
  <2>8. Tracks(new, more, said, frags)
    BY <1>7, <2>2, <2>4, <2>5, <2>6, <2>7 DEF events
  <2>9. QED
    BY <2>8 DEF new, said, more
<1>10. QED
  BY <1>8, <1>9

-----------------------------------------------------------------------------
(* A fragment of a call that is known: its arguments grow. *)
ArgsGrow(name, at, args) ==
  IF name \in CustomTools THEN <<>> ELSE <<Event("args_delta", at, <<"fc">>, args)>>

CallStarts(name, at) == <<Event("item_added", at, ItemId(name), <<>>)>>

LEMMA WithAt ==
  ASSUME NEW calls, NEW i, NEW a, NEW b
  PROVE  /\ At(With(calls, i, a), i, b) = With(calls, i, b)
         /\ With(calls, i, a)[i] = a /\ i \in DOMAIN With(calls, i, a)
BY DEF At, With

LEMMA WithKnown ==
  ASSUME NEW calls, NEW i, NEW at, NEW name, NEW args, NEW emitted
  PROVE  /\ With(calls, i, KnownAs(at, name, args, emitted))[i].at = at
         /\ With(calls, i, KnownAs(at, name, args, emitted))[i].name = name
         /\ With(calls, i, KnownAs(at, name, args, emitted))[i].args = args
         /\ With(calls, i, KnownAs(at, name, args, emitted))[i].emitted = emitted
         /\ i \in DOMAIN With(calls, i, KnownAs(at, name, args, emitted))
<1> DEFINE call == KnownAs(at, name, args, emitted)
<1>1. call.at = at /\ call.name = name /\ call.args = args /\ call.emitted = emitted
  BY DEF KnownAs
<1> HIDE DEF call
<1>2. With(calls, i, call)[i] = call /\ i \in DOMAIN With(calls, i, call)
  BY DEF With
<1>3. QED
  BY <1>1, <1>2, Zenon DEF call

LEMMA SameAt ==
  ASSUME NEW calls, NEW i \in DOMAIN calls, calls = [j \in DOMAIN calls |-> calls[j]]
  PROVE  At(calls, i, calls[i]) = calls
BY DEF At

LEMMA KnownFragment ==
  ASSUME NEW next, NEW textAt, NEW text, NEW calls, NEW finish, NEW events,
         NEW f, f.name = <<>>, f.index \in DOMAIN calls,
         calls = [j \in DOMAIN calls |-> calls[j]],
         NEW at, NEW name \in Seq(Pieces), NEW args,
         calls[f.index] = Known(at, name, args)
  PROVE  ToolFragment(Noted(next, textAt, text, calls, finish, events), f) =
           IF f.args = <<>> THEN Noted(next, textAt, text, calls, finish, events)
           ELSE Noted(next, textAt, text, At(calls, f.index, Known(at, name, args \o f.args)),
                      finish, events \o ArgsGrow(name, at, f.args))
<1> DEFINE t == Noted(next, textAt, text, calls, finish, events)
           i == f.index
           known == Indexed(t, i)
           named == NameCall(known, i, known.calls[i].name \o f.name)
           ensured == EnsureToolItem(named, i)
           call == ensured.calls[i]
<1>0. t.calls = calls /\ "calls" \in DOMAIN t
  BY DEF Noted
<1>1. SUFFICES ASSUME NEW yes, yes = TRUE, calls[i] = KnownAs(at, name, args, yes)
               PROVE  ToolFragment(t, f) =
                        IF f.args = <<>> THEN t
                        ELSE Noted(next, textAt, text,
                                   At(calls, i, KnownAs(at, name, args \o f.args, yes)),
                                   finish, events \o ArgsGrow(name, at, f.args))
  BY DEF Known
<1>2. /\ calls[i].at = at /\ calls[i].name = name /\ calls[i].args = args
      /\ calls[i].emitted = yes
      /\ SetName(calls[i], name) = calls[i]
      /\ SetArgs(calls[i], args \o f.args) = KnownAs(at, name, args \o f.args, yes)
  <2>1. ASSUME NEW call1, call1 = KnownAs(at, name, args, yes), NEW x
        PROVE  /\ call1.at = at /\ call1.name = name /\ call1.args = args /\ call1.emitted = yes
               /\ SetName(call1, name) = call1 /\ SetArgs(call1, x) = KnownAs(at, name, x, yes)
    BY <2>1, CallFields
  <2>2. QED
    BY <1>1, <2>1, Zenon
<1>3. ToolFragment(t, f) =
        IF f.args = <<>> THEN ensured
        ELSE Emit(ArgsCall(ensured, i, ensured.calls[i].args \o f.args),
                  ArgsGrow(call.name, call.at, f.args))
  BY Zenon DEF ToolFragment, ArgsCall, ArgsGrow, NameCall
<1>4. known = t
  BY <1>0 DEF Indexed
<1>5. named = t
  <2>1. named = NameCall(t, i, name)
    <3>1. name \o <<>> = name
      OBVIOUS
    <3>2. QED
      BY <1>0, <1>2, <1>4, <3>1
  <2>2. NameCall(t, i, name) = SetCalls(t, At(calls, i, SetName(calls[i], name)))
    <3> HIDE DEF t, i
    <3>1. i \in DOMAIN calls
      BY DEF i
    <3>2. QED
      BY <1>0, <3>1, CallSet
  <2>3. At(calls, i, calls[i]) = calls
    BY SameAt
  <2>4. SetCalls(t, calls) = t
    BY NotedText
  <2>5. QED
    BY <1>2, <2>1, <2>2, <2>3, <2>4, Zenon
<1>6. ensured = t
  <2> HIDE DEF t, known, named
  <2>1. t.calls[i].emitted
    BY <1>0, <1>1, <1>2
  <2>2. QED
    BY <1>5, <2>1 DEF EnsureToolItem
<1>7. CASE f.args = <<>>
  BY <1>3, <1>6, <1>7
<1>8. CASE f.args # <<>>
  <2>1. ToolFragment(t, f) = Emit(ArgsCall(t, i, args \o f.args), ArgsGrow(name, at, f.args))
    <3> HIDE DEF t, known, named, ensured
    <3>1. QED
      BY <1>0, <1>2, <1>3, <1>6, <1>8 
  <2>2. ArgsCall(t, i, args \o f.args)
          = SetCalls(t, At(calls, i, SetArgs(calls[i], args \o f.args)))
    <3> HIDE DEF t, i
    <3>1. i \in DOMAIN calls
      BY DEF i
    <3>2. QED
      BY <1>0, <3>1, CallSet
  <2> DEFINE new == At(calls, i, KnownAs(at, name, args \o f.args, yes))
             more == ArgsGrow(name, at, f.args)
  <2>3. ToolFragment(t, f) = Emit(SetCalls(t, new), more)
    BY <1>2, <2>1, <2>2, Zenon
  <2> HIDE DEF new, more
  <2>4. Emit(SetCalls(t, new), more) = Noted(next, textAt, text, new, finish, events \o more)
    BY NotedText, NotedEvents
  <2>5. QED
    BY <1>8, <2>3, <2>4 DEF new, more
<1>9. QED
  BY <1>7, <1>8

(* The first fragment of a call, which names it. *)
LEMMA FirstFragment ==
  ASSUME NEW next, NEW textAt, NEW text, NEW calls, NEW finish, NEW events,
         NEW f \in Fragments, f.name # <<>>, f.index \notin DOMAIN calls
  PROVE  ToolFragment(Noted(next, textAt, text, calls, finish, events), f) =
           IF f.args = <<>>
           THEN Noted(next + 1, textAt, text,
                      With(calls, f.index, Known(next, f.name, f.args)), finish,
                      events \o CallStarts(f.name, next))
           ELSE Noted(next + 1, textAt, text,
                      With(calls, f.index, Known(next, f.name, f.args)), finish,
                      (events \o CallStarts(f.name, next)) \o ArgsGrow(f.name, next, f.args))
<1> DEFINE t == Noted(next, textAt, text, calls, finish, events)
           i == f.index
           name == f.name
           known == Indexed(t, i)
           named == NameCall(known, i, known.calls[i].name \o f.name)
           ensured == EnsureToolItem(named, i)
           call == ensured.calls[i]
           starts == CallStarts(name, next)
           none == <<>>
<1>0. /\ t.calls = calls /\ t.next = next /\ none \o name = name /\ none \o f.args = f.args
      /\ f.args \in Seq(Pieces)
  BY DEF Noted, Fragments
<1>1. SUFFICES ASSUME NEW yes, yes = TRUE, NEW no, no = FALSE
               PROVE  ToolFragment(t, f) =
                        IF f.args = none
                        THEN Noted(next + 1, textAt, text,
                                   With(calls, i, KnownAs(next, name, f.args, yes)), finish,
                                   events \o starts)
                        ELSE Noted(next + 1, textAt, text,
                                   With(calls, i, KnownAs(next, name, f.args, yes)), finish,
                                   (events \o starts) \o ArgsGrow(name, next, f.args))
  BY DEF Known
<1>2. ToolFragment(t, f) =
        IF f.args = none THEN ensured
        ELSE Emit(ArgsCall(ensured, i, ensured.calls[i].args \o f.args),
                  ArgsGrow(call.name, call.at, f.args))
  BY Zenon DEF ToolFragment, ArgsCall, ArgsGrow, NameCall
<1> DEFINE first == With(calls, i, KnownAs(next, none, none, no))
           second == With(calls, i, KnownAs(next, name, none, no))
           third == With(calls, i, KnownAs(next, name, none, yes))
           fourth == With(calls, i, KnownAs(next, name, f.args, yes))
<1>3. known = Noted(next + 1, textAt, text, first, finish, events)
  <2>1. known = SetKnown(t, next + 1, first)
    BY <1>0, <1>1, Zenon DEF Indexed, SetKnown, KnownAs
  <2>2. QED
    BY <2>1, NotedPlace
<1> HIDE DEF none
<1>4. named = Noted(next + 1, textAt, text, second, finish, events)
  <2>1. known.calls = first /\ "calls" \in DOMAIN known
    BY <1>3 DEF Noted
  <2>2. first[i].name = none /\ i \in DOMAIN first
    BY WithKnown
  <2>3. named = NameCall(known, i, name)
    BY <1>0, <2>1, <2>2
  <2> HIDE DEF known, first
  <2>4. NameCall(known, i, name) = SetCalls(known, At(first, i, SetName(first[i], name)))
    BY <2>1, <2>2, CallSet
  <2>5. At(first, i, SetName(first[i], name)) = second
    BY WithAt, CallFields DEF first
  <2> HIDE DEF second
  <2>6. QED
    BY <1>3, <2>3, <2>4, <2>5, NotedText
<1>5. ensured = Noted(next + 1, textAt, text, third, finish, events \o starts)
  <2>1. named.calls = second /\ "calls" \in DOMAIN named
    BY <1>4 DEF Noted
  <2>2. /\ second[i].name = name /\ second[i].at = next /\ second[i].emitted = no
        /\ i \in DOMAIN second
    BY WithKnown
  <2>3. ensured = Emit(EmitCall(named, i, yes), starts)
    <3> HIDE DEF named, second
    <3>1. QED
      BY <1>1, <2>1, <2>2 DEF EnsureToolItem, EmitCall, CallStarts
  <2> HIDE DEF named, second
  <2>4. EmitCall(named, i, yes) = SetCalls(named, At(second, i, SetEmitted(second[i], yes)))
    BY <2>1, <2>2, CallSet
  <2>5. At(second, i, SetEmitted(second[i], yes)) = third
    BY WithAt, CallFields DEF second
  <2>6. SetCalls(named, third) = Noted(next + 1, textAt, text, third, finish, events)
    <3> HIDE DEF third
    <3>1. QED
      BY <1>4, NotedText
  <2> HIDE DEF ensured, third, starts
  <2>7. QED
    BY <2>3, <2>4, <2>5, <2>6, NotedEvents
<1>6. CASE f.args = none
  <2>1. third = fourth
    BY <1>6
  <2>2. QED
    BY <1>2, <1>5, <1>6, <2>1
<1>7. CASE f.args # none
  <2>1. ensured.calls = third /\ "calls" \in DOMAIN ensured
    BY <1>5 DEF Noted
  <2>2. third[i].name = name /\ third[i].at = next /\ third[i].args = none /\ i \in DOMAIN third
    BY WithKnown
  <2>3. ToolFragment(t, f) = Emit(ArgsCall(ensured, i, f.args), ArgsGrow(name, next, f.args))
    <3> HIDE DEF ensured, third
    <3>1. QED
      BY <1>0, <1>2, <1>7, <2>1, <2>2
  <2> HIDE DEF ensured
  <2>4. ArgsCall(ensured, i, f.args) = SetCalls(ensured, At(third, i, SetArgs(third[i], f.args)))
    <3> HIDE DEF third
    <3>1. QED
      BY <2>1, <2>2, CallSet
  <2>5. At(third, i, SetArgs(third[i], f.args)) = fourth
    BY WithAt, CallFields DEF third
  <2> DEFINE more == ArgsGrow(name, next, f.args)
  <2> HIDE DEF third, fourth, more, starts
  <2>6. SetCalls(ensured, fourth)
          = Noted(next + 1, textAt, text, fourth, finish, events \o starts)
    BY <1>5, NotedText
  <2>7. Emit(Noted(next + 1, textAt, text, fourth, finish, events \o starts), more)
          = Noted(next + 1, textAt, text, fourth, finish, (events \o starts) \o more)
    BY NotedEvents
  <2>8. ToolFragment(t, f)
          = Noted(next + 1, textAt, text, fourth, finish, (events \o starts) \o more)
    BY <2>3, <2>4, <2>5, <2>6, <2>7 DEF more
  <2>9. QED
    BY <1>7, <2>8 DEF fourth, more
<1>8. QED
  BY <1>6, <1>7

-----------------------------------------------------------------------------
LEMMA TracksBy ==
  ASSUME NEW t, NEW seen, NEW text, NEW frags, NEW finish, NEW events,
         Ledger(seen, text, frags), AllNamed(frags),
         t = Noted(Len(seen), TextPlace(seen, text), text, CallsNow(seen, frags), finish, events),
         events \in Seq(ItemEvents),
         ReadResponse(events) = Reply("open", ItemsNow(seen, text, frags))
  PROVE  Tracks(t, seen, text, frags)
<1>1. t.finish = finish /\ t.events = events
  BY NotedFields
<1>2. QED
  BY <1>1 DEF Tracks

(* The provider names a call in its first fragment, and only there. *)
Heads(frags, f) == f.name # <<>> <=> f.index \notin Indices(frags)

LEMMA ArgsGrowRead ==
  ASSUME NEW ev \in Seq(ItemEvents), NEW items, NEW at \in Int, NEW old, NEW name,
         NEW x \in Seq(Pieces), ReadResponse(ev) = Reply("open", items)
  PROVE  /\ name \notin CustomTools /\ Placed(items, at, ItemId(name), old) =>
              ReadResponse(ev \o ArgsGrow(name, at, x))
                = Reply("open", At(items, at + 1, Open(ItemId(name), old \o x)))
         /\ name \in CustomTools => ReadResponse(ev \o ArgsGrow(name, at, x)) = Reply("open", items)
         /\ ev \o ArgsGrow(name, at, x) \in Seq(ItemEvents)
<1> DEFINE id == <<"fc">>
           c == Event("args_delta", at, id, x)
<1>1. id \in OutputIds
  BY DEF OutputIds
<1>2. /\ name \notin CustomTools => ArgsGrow(name, at, x) = <<c>> /\ ItemId(name) = id
      /\ name \in CustomTools => ArgsGrow(name, at, x) = <<>>
  BY DEF ArgsGrow, ItemId
<1> HIDE DEF id
<1>3. c \in ItemEvents
  BY <1>1, ItemEventType DEF ItemKinds
<1>4. ASSUME Placed(items, at, id, old)
      PROVE  ResponseEvent(Reply("open", items), c)
               = Reply("open", At(items, at + 1, Open(id, old \o x)))
  BY <1>4, ItemGrows
<1> HIDE DEF c
<1>5. /\ ReadResponse(ev \o <<c>>) = ResponseEvent(ReadResponse(ev), c)
      /\ ev \o <<c>> \in Seq(ItemEvents)
  BY <1>3, AfterEvent
<1>6. ev \o <<>> = ev
  OBVIOUS
<1>7. QED
  BY <1>2, <1>4, <1>5, <1>6, Zenon

(* The client has read the events, and is at these items. *)
Tells(ev, items) == ev \in Seq(ItemEvents) /\ ReadResponse(ev) = Reply("open", items)

LEMMA ArgsGrowTell ==
  ASSUME NEW ev, NEW items, Tells(ev, items), NEW at \in Int, NEW old, NEW name,
         NEW x \in Seq(Pieces)
  PROVE  /\ name \notin CustomTools /\ Placed(items, at, ItemId(name), old) =>
              Tells(ev \o ArgsGrow(name, at, x), At(items, at + 1, Open(ItemId(name), old \o x)))
         /\ name \in CustomTools => Tells(ev \o ArgsGrow(name, at, x), items)
BY ArgsGrowRead DEF Tells

LEMMA CallStartsRead ==
  ASSUME NEW ev \in Seq(ItemEvents), NEW items \in Seq(ItemSet), NEW at, at = Len(items),
         NEW name, ReadResponse(ev) = Reply("open", items)
  PROVE  /\ ReadResponse(ev \o CallStarts(name, at))
              = Reply("open", Append(items, Open(ItemId(name), Empty)))
         /\ ev \o CallStarts(name, at) \in Seq(ItemEvents)
         /\ Append(items, Open(ItemId(name), Empty)) \in Seq(ItemSet)
         /\ Placed(Append(items, Open(ItemId(name), Empty)), at, ItemId(name), Empty)
<1> DEFINE id == ItemId(name)
           a == Event("item_added", at, id, <<>>)
           x == Open(id, Empty)
<1>1. id \in OutputIds /\ at \in Int /\ <<>> \in Seq(Pieces)
  BY DEF ItemId, OutputIds
<1> HIDE DEF id
<1>2. a \in ItemEvents
  BY <1>1, ItemEventType DEF ItemKinds
<1>3. ResponseEvent(Reply("open", items), a) = Reply("open", Append(items, x))
  BY ItemAdded DEF Fresh, Open
<1>4. x \in ItemSet
  BY <1>1 DEF Open, Entry, ItemSet, OutputIds, Empty
<1>5. Append(items, x) \in Seq(ItemSet) /\ Placed(Append(items, x), at, id, Empty)
  <2>1. /\ Append(items, x) \in Seq(ItemSet) /\ Len(items) + 1 \in DOMAIN Append(items, x)
        /\ Append(items, x)[Len(items) + 1] = x
    BY <1>4
  <2> HIDE DEF x
  <2>2. QED
    BY <2>1 DEF Placed, x
<1>6. CallStarts(name, at) = <<a>>
  BY DEF CallStarts, id
<1> HIDE DEF a, x
<1>7. /\ ReadResponse(ev \o <<a>>) = ResponseEvent(ReadResponse(ev), a)
      /\ ev \o <<a>> \in Seq(ItemEvents)
  BY <1>2, AfterEvent
<1>8. QED
  BY <1>3, <1>5, <1>6, <1>7, Zenon DEF x, id

(* What a fragment changes: one call, of which it names all or none. *)
LEMMA OthersKeepCall ==
  ASSUME NEW frags \in Seq(Fragments), NEW f \in Fragments, NEW text
  PROVE  /\ \A i : i # f.index =>
              /\ NamesOf(Append(frags, f), i) = NamesOf(frags, i)
              /\ ArgsOf(Append(frags, f), i) = ArgsOf(frags, i)
         /\ NamesOf(Append(frags, f), f.index) = NamesOf(frags, f.index) \o f.name
         /\ ArgsOf(Append(frags, f), f.index) = ArgsOf(frags, f.index) \o f.args
         /\ \A m \in Mentions : m # CallAt(f.index) =>
              /\ Shown(m, text, Append(frags, f)) = Shown(m, text, frags)
              /\ IdOf(m, Append(frags, f)) = IdOf(m, frags)
              /\ BodyOf(m, text, Append(frags, f)) = BodyOf(m, text, frags)
<1> DEFINE more == Append(frags, f)
<1>1. \A i : /\ NamesOf(more, i) = NamesOf(frags, i) \o Mine(f, i, f.name)
             /\ NamesOf(frags, i) \in Seq(Pieces)
             /\ ArgsOf(more, i) = ArgsOf(frags, i) \o Mine(f, i, f.args)
             /\ ArgsOf(frags, i) \in Seq(Pieces)
  BY NamesMore, Zenon
<1> HIDE DEF more
<1>2. \A p \in Seq(Pieces) : p \o <<>> = p
  OBVIOUS
<1>3. \A i : i # f.index => /\ NamesOf(more, i) = NamesOf(frags, i)
                            /\ ArgsOf(more, i) = ArgsOf(frags, i)
  BY <1>1, <1>2, Zenon DEF Mine
<1>4. /\ NamesOf(more, f.index) = NamesOf(frags, f.index) \o f.name
      /\ ArgsOf(more, f.index) = ArgsOf(frags, f.index) \o f.args
  BY <1>1, Zenon DEF Mine
<1>5. ASSUME NEW m \in Mentions, m # CallAt(f.index)
      PROVE  /\ Shown(m, text, more) = Shown(m, text, frags)
             /\ IdOf(m, more) = IdOf(m, frags)
             /\ BodyOf(m, text, more) = BodyOf(m, text, frags)
  <2>1. CASE m = Speech
    BY <2>1 DEF Shown, IdOf, Streamed, BodyOf
  <2>2. CASE m # Speech
    <3>1. PICK i \in Int : m = CallAt(i)
      BY <2>2, MentionIs
    <3>2. m[1] = i /\ i # f.index
      BY <1>5, <3>1, MentionIs
    <3>3. NamesOf(more, m[1]) = NamesOf(frags, m[1]) /\ ArgsOf(more, m[1]) = ArgsOf(frags, m[1])
      BY <1>3, <3>2
    <3>4. QED
      BY <3>3 DEF Shown, IdOf, Streamed, BodyOf
  <2>3. QED
    BY <2>1, <2>2
<1>6. QED
  BY <1>3, <1>4, <1>5, Zenon DEF more

LEMMA CallShown ==
  ASSUME NEW i, NEW text, NEW frags
  PROVE  /\ IdOf(CallAt(i), frags) = ItemId(NamesOf(frags, i))
         /\ BodyOf(CallAt(i), text, frags) = ArgsOf(frags, i)
         /\ Shown(CallAt(i), text, frags)
              = Open(ItemId(NamesOf(frags, i)),
                     IF NamesOf(frags, i) \in CustomTools THEN Empty ELSE ArgsOf(frags, i))
<1>1. CallAt(i) # Speech /\ CallAt(i)[1] = i
  BY MentionIs
<1>2. QED
  BY <1>1 DEF IdOf, BodyOf, Shown, Streamed

LEMMA KnownTracks ==
  ASSUME NEW t, NEW seen, NEW text, NEW frags, Tracks(t, seen, text, frags),
         NEW f \in Fragments, Heads(frags, f), f.index \in Indices(frags)
  PROVE  Tracks(ToolFragment(t, f), CallNoticed(seen, f), text, Append(frags, f))
<1> DEFINE i == f.index
           at == PlaceOf(seen, CallAt(i))
           name == NamesOf(frags, i)
           args == ArgsOf(frags, i)
           calls == CallsNow(seen, frags)
           more == Append(frags, f)
           items == ItemsNow(seen, text, frags)
           ev == t.events
           new == ToolFragment(t, f)
<1>1. /\ seen \in Seq(Mentions) /\ text \in Seq(Pieces) /\ frags \in Seq(Fragments)
      /\ \A j, k \in 1..Len(seen) : seen[j] = seen[k] => j = k
      /\ CallAt(i) \in ToSet(seen) /\ CallAt(i) \in Mentions
      /\ AllNamed(frags) /\ ev \in Seq(ItemEvents)
      /\ t = Noted(Len(seen), TextPlace(seen, text), text, calls, t.finish, ev)
      /\ ReadResponse(ev) = Reply("open", items)
  <2>1. /\ seen \in Seq(Mentions) /\ text \in Seq(Pieces) /\ frags \in Seq(Fragments)
        /\ \A j, k \in 1..Len(seen) : seen[j] = seen[k] => j = k
        /\ Speech \in ToSet(seen) <=> text # <<>>
        /\ \A j : CallAt(j) \in ToSet(seen) <=> j \in Indices(frags)
        /\ AllNamed(frags) /\ t.events \in Seq(ItemEvents)
        /\ t = Noted(Len(seen), TextPlace(seen, text), text, CallsNow(seen, frags), t.finish,
                     t.events)
        /\ ReadResponse(t.events) = Reply("open", ItemsNow(seen, text, frags))
    BY TracksIs
  <2>2. i \in Int
    BY DEF Fragments
  <2>3. CallAt(i) \in Mentions
    BY <2>2 DEF Mentions
  <2>4. QED
    BY <2>1, <2>3
<1>2. f.name = <<>> /\ f.args \in Seq(Pieces)
  BY DEF Heads, Fragments
<1>3. CallNoticed(seen, f) = seen
  BY <1>1 DEF CallNoticed, Noticed
<1>4. Ledger(seen, text, more)
  <2>1. Ledger(CallNoticed(seen, f), text, more)
    BY FragmentNoticed DEF Tracks
  <2>2. QED
    BY <1>3, <2>1
<1>5. more \in Seq(Fragments) /\ Indices(more) = Indices(frags) /\ i \in Indices(frags)
  <2>1. more \in Seq(Fragments) /\ Indices(more) = Indices(frags) \cup {f.index}
    BY <1>1, IndicesMore
  <2>2. QED
    BY <2>1
<1>6. /\ name \in Seq(Pieces) /\ args \in Seq(Pieces) /\ name \o <<>> = name
      /\ args \o <<>> = args
  BY <1>1, NamesType
<1>7. /\ \A j : j # i => /\ NamesOf(more, j) = NamesOf(frags, j)
                         /\ ArgsOf(more, j) = ArgsOf(frags, j)
      /\ NamesOf(more, i) = name /\ ArgsOf(more, i) = args \o f.args
      /\ \A m \in Mentions : m # CallAt(i) => Shown(m, text, more) = Shown(m, text, frags)
  <2> HIDE DEF more
  <2>1. /\ \A j : j # f.index => /\ NamesOf(more, j) = NamesOf(frags, j)
                                 /\ ArgsOf(more, j) = ArgsOf(frags, j)
        /\ NamesOf(more, f.index) = name \o f.name /\ ArgsOf(more, f.index) = args \o f.args
        /\ \A m \in Mentions : m # CallAt(f.index) =>
             Shown(m, text, more) = Shown(m, text, frags)
    BY <1>1, OthersKeepCall, Zenon DEF more
  <2>2. QED
    BY <1>2, <1>6, <2>1
<1> HIDE DEF more
<1>8. AllNamed(more)
  BY <1>1, <1>5, <1>7 DEF AllNamed
<1>9. /\ i \in DOMAIN calls /\ calls[i] = Known(at, name, args)
      /\ calls = [j \in DOMAIN calls |-> calls[j]] /\ DOMAIN calls = Indices(frags)
      /\ \A j \in Indices(frags) : calls[j] = CallNow(seen, frags, j)
  BY <1>5 DEF CallsNow, CallNow
<1>10. /\ at \in Int /\ at + 1 \in 1..Len(seen) /\ seen[at + 1] = CallAt(i)
  BY <1>1, PlaceIs
<1>11. CallsNow(seen, more) = At(calls, i, Known(at, name, args \o f.args))
  <2>1. CallNow(seen, more, i) = Known(at, name, args \o f.args)
    BY <1>7 DEF CallNow
  <2>2. \A j \in Indices(frags) : j # i => CallNow(seen, more, j) = calls[j]
    BY <1>7, <1>9 DEF CallNow
  <2> HIDE DEF calls
  <2>3. QED
    BY <1>5, <1>9, <2>1, <2>2 DEF CallsNow, At
<1>12. new = IF f.args = <<>> THEN t
             ELSE Noted(Len(seen), TextPlace(seen, text), text,
                        At(calls, i, Known(at, name, args \o f.args)), t.finish,
                        ev \o ArgsGrow(name, at, f.args))
  <2> HIDE DEF calls, ev, at, name, args
  <2>1. f.index \in DOMAIN calls /\ calls[f.index] = Known(at, name, args)
    BY <1>9
  <2>2. QED
    BY <1>1, <1>2, <1>6, <1>9, <2>1, KnownFragment
<1>13. \A k \in 1..Len(seen) : seen[k] \in Mentions
  BY <1>1
<1>14. name \in CustomTools \/ f.args = <<>> => ItemsNow(seen, text, more) = items
  <2>1. name \in CustomTools \/ f.args = <<>> =>
          Shown(CallAt(i), text, more) = Shown(CallAt(i), text, frags)
    BY <1>6, <1>7, CallShown
  <2>2. QED
    BY <1>7, <1>13, <2>1 DEF ItemsNow
<1> DEFINE grown == ev \o ArgsGrow(name, at, f.args)
<1>15. /\ ReadResponse(grown) = Reply("open", ItemsNow(seen, text, more))
       /\ grown \in Seq(ItemEvents)
  <2> DEFINE after == At(items, at + 1, Open(ItemId(name), args \o f.args))
  <2>1. /\ name \notin CustomTools /\ Placed(items, at, ItemId(name), args) =>
             Tells(grown, after)
        /\ name \in CustomTools => Tells(grown, items)
    <3> DEFINE x == f.args
    <3>1. x \in Seq(Pieces) /\ at \in Int /\ Tells(ev, items)
      BY <1>1, <1>2, <1>10 DEF Tells
    <3> HIDE DEF items, ev, at, name, args, x, i, calls, new, grown, after
    <3>2. /\ name \notin CustomTools /\ Placed(items, at, ItemId(name), args) =>
               Tells(ev \o ArgsGrow(name, at, x),
                     At(items, at + 1, Open(ItemId(name), args \o x)))
          /\ name \in CustomTools => Tells(ev \o ArgsGrow(name, at, x), items)
      BY <3>1, ArgsGrowTell, Zenon
    <3>3. QED
      BY <3>2, Zenon DEF x, grown, after
  <2>2. CASE name \in CustomTools
    BY <1>14, <2>1, <2>2 DEF Tells
  <2>3. CASE name \notin CustomTools
    <3>1. /\ Shown(CallAt(i), text, frags) = Open(ItemId(name), args)
          /\ Shown(CallAt(i), text, more) = Open(ItemId(name), args \o f.args)
      BY <1>7, <2>3, CallShown
    <3>2. Placed(items, at, ItemId(name), args)
      <4>1. at + 1 \in DOMAIN items /\ items[at + 1] = Shown(seen[at + 1], text, frags)
        BY <1>1, <1>10, ItemsType
      <4>2. QED
        BY <1>10, <3>1, <4>1 DEF Placed
    <3>3. ItemsNow(seen, text, more) = At(items, at + 1, Shown(CallAt(i), text, more))
      <4> DEFINE m == CallAt(i)
      <4>1. /\ m \in Mentions /\ m \in ToSet(seen)
            /\ \A k \in 1..Len(seen) : seen[k] # m =>
                 Shown(seen[k], text, more) = Shown(seen[k], text, frags)
        BY <1>1, <1>7, <1>13
      <4> HIDE DEF m
      <4>2. ItemsNow(seen, text, more)
              = At(items, PlaceOf(seen, m) + 1, Shown(m, text, more))
        BY <1>1, <1>5, <4>1, ItemsAt
      <4>3. QED
        BY <4>2 DEF m
    <3>4. after = ItemsNow(seen, text, more)
      BY <3>1, <3>3
    <3> HIDE DEF after, grown
    <3>5. QED
      BY <2>1, <2>3, <3>2, <3>4 DEF Tells
  <2>4. QED
    BY <2>2, <2>3
<1>16. Tracks(new, seen, text, more)
  <2>1. CASE f.args = <<>>
    <3>1. new = t /\ args \o f.args = args
      BY <1>6, <1>12, <2>1
    <3>2. CallsNow(seen, more) = calls
      <4>1. At(calls, i, calls[i]) = calls
        BY <1>9, SameAt
      <4>2. QED
        BY <1>9, <1>11, <3>1, <4>1
    <3>3. new = Noted(Len(seen), TextPlace(seen, text), text, CallsNow(seen, more), t.finish, ev)
      BY <1>1, <3>1, <3>2
    <3>4. ReadResponse(ev) = Reply("open", ItemsNow(seen, text, more))
      BY <1>1, <1>14, <2>1
    <3> HIDE DEF new, ev
    <3>5. QED
      BY <1>1, <1>4, <1>8, <3>3, <3>4, TracksBy
  <2>2. CASE f.args # <<>>
    <3>1. new = Noted(Len(seen), TextPlace(seen, text), text, CallsNow(seen, more), t.finish, grown)
      BY <1>11, <1>12, <2>2
    <3> HIDE DEF new, grown
    <3>2. QED
      BY <1>4, <1>8, <1>15, <3>1, TracksBy
  <2>3. QED
    BY <2>1, <2>2
<1>17. QED
  BY <1>3, <1>16 DEF more

-----------------------------------------------------------------------------
(* What the client reads of a new call: its item, and its first arguments. *)
LEMMA CallStartsTell ==
  ASSUME NEW ev, NEW items \in Seq(ItemSet), Tells(ev, items), NEW at, at = Len(items), NEW name
  PROVE  /\ Tells(ev \o CallStarts(name, at), Append(items, Open(ItemId(name), Empty)))
         /\ Placed(Append(items, Open(ItemId(name), Empty)), at, ItemId(name), Empty)
BY CallStartsRead DEF Tells

LEMMA NewCallTells ==
  ASSUME NEW ev, NEW items \in Seq(ItemSet), Tells(ev, items), NEW at, at = Len(items), NEW name,
         NEW x \in Seq(Pieces)
  PROVE  /\ Tells(ev \o CallStarts(name, at), Append(items, Open(ItemId(name), Empty)))
         /\ Tells((ev \o CallStarts(name, at)) \o ArgsGrow(name, at, x),
                  Append(items, Open(ItemId(name), IF name \in CustomTools THEN Empty ELSE x)))
<1> DEFINE id == ItemId(name)
           more == Append(items, Open(id, Empty))
           ev1 == ev \o CallStarts(name, at)
           ev2 == ev1 \o ArgsGrow(name, at, x)
<1>1. Tells(ev1, more) /\ Placed(more, at, id, Empty)
  BY CallStartsTell, Zenon
<1>2. at \in Int
  OBVIOUS
<1>3. ASSUME NEW old, old = Empty
      PROVE  /\ name \notin CustomTools /\ Placed(more, at, id, old) =>
                  Tells(ev2, At(more, at + 1, Open(id, old \o x)))
             /\ name \in CustomTools => Tells(ev2, more)
  <2> HIDE DEF more, ev1
  <2>1. QED
    BY <1>1, <1>2, ArgsGrowTell, Zenon
<1>4. Empty \o x = x
  BY DEF Empty
<1>5. At(more, at + 1, Open(id, x)) = Append(items, Open(id, x))
  <2>1. Open(id, Empty) \in ItemSet /\ Open(id, x) \in ItemSet
    BY DEF Open, Entry, ItemSet, ItemId, Empty
  <2>2. QED
    BY <2>1, LastReplaced
<1>6. CASE name \in CustomTools
  BY <1>1, <1>3, <1>6, Zenon
<1>7. CASE name \notin CustomTools
  <2>1. Tells(ev2, At(more, at + 1, Open(id, Empty \o x)))
    BY <1>1, <1>3, <1>7, Zenon
  <2> HIDE DEF ev2, more, ev1, id
  <2>2. Tells(ev2, Append(items, Open(id, x)))
    BY <1>4, <1>5, <2>1
  <2>3. QED
    BY <1>1, <1>7, <2>2 DEF ev2, more, ev1, id
<1>8. QED
  BY <1>6, <1>7

(* The record of a new call. *)
LEMMA CallsGrow ==
  ASSUME NEW seen \in Seq(Mentions), NEW text \in Seq(Pieces), NEW frags \in Seq(Fragments),
         Ledger(seen, text, frags),
         NEW f \in Fragments, f.index \notin Indices(frags)
  PROVE  LET more == Append(seen, CallAt(f.index))
         IN /\ CallNoticed(seen, f) = more /\ Ledger(more, text, Append(frags, f))
            /\ CallsNow(more, Append(frags, f))
                 = With(CallsNow(seen, frags), f.index, Known(Len(seen), f.name, f.args))
            /\ TextPlace(more, text) = TextPlace(seen, text)
<1> DEFINE i == f.index
           m == CallAt(i)
           more == Append(seen, m)
           mf == Append(frags, f)
           calls == CallsNow(seen, frags)
<1>1. /\ \A j, k \in 1..Len(seen) : seen[j] = seen[k] => j = k
      /\ Speech \in ToSet(seen) <=> text # <<>>
      /\ \A j : CallAt(j) \in ToSet(seen) <=> j \in Indices(frags)
  BY DEF Ledger
<1>2. m \in Mentions /\ m \notin ToSet(seen)
  <2>1. i \in Int
    BY DEF Fragments
  <2>2. QED
    BY <1>1, <2>1 DEF Mentions
<1>3. CallNoticed(seen, f) = more
  BY <1>2 DEF CallNoticed, Noticed
<1>4. Ledger(more, text, mf)
  <2>1. Ledger(CallNoticed(seen, f), text, mf)
    BY FragmentNoticed
  <2>2. QED
    BY <1>3, <2>1, Zenon
<1>5. /\ PlaceOf(more, m) = Len(seen)
      /\ \A x \in ToSet(seen) : PlaceOf(more, x) = PlaceOf(seen, x)
  <2> HIDE DEF m
  <2>1. QED
    BY <1>1, <1>2, PlacesMore
<1>6. TextPlace(more, text) = TextPlace(seen, text)
  <2> HIDE DEF more
  <2>1. QED
    BY <1>1, <1>5 DEF TextPlace
<1>7. /\ \A j : j # i => /\ NamesOf(mf, j) = NamesOf(frags, j)
                         /\ ArgsOf(mf, j) = ArgsOf(frags, j)
      /\ NamesOf(mf, i) = f.name /\ ArgsOf(mf, i) = f.args
  <2>1. /\ \A j : j # f.index => /\ NamesOf(mf, j) = NamesOf(frags, j)
                                 /\ ArgsOf(mf, j) = ArgsOf(frags, j)
        /\ NamesOf(mf, i) = NamesOf(frags, i) \o f.name
        /\ ArgsOf(mf, i) = ArgsOf(frags, i) \o f.args
    BY OthersKeepCall, Zenon
  <2>2. NamesOf(frags, i) = <<>> /\ ArgsOf(frags, i) = <<>>
    BY NamesNone
  <2>3. <<>> \o f.name = f.name /\ <<>> \o f.args = f.args
    BY DEF Fragments
  <2> HIDE DEF mf
  <2>4. QED
    BY <2>1, <2>2, <2>3
<1>8. Indices(mf) = Indices(frags) \cup {i} /\ i \notin Indices(frags)
  BY IndicesMore
<1>9. CallNow(more, mf, i) = Known(Len(seen), f.name, f.args)
  <2> HIDE DEF more, mf
  <2>1. QED
    BY <1>5, <1>7 DEF CallNow
<1>10. \A j \in Indices(frags) : CallNow(more, mf, j) = CallNow(seen, frags, j)
  <2> HIDE DEF more, mf
  <2>1. QED
    BY <1>1, <1>5, <1>7, <1>8 DEF CallNow
<1>11. CallsNow(more, mf) = With(calls, i, Known(Len(seen), f.name, f.args))
  <2> HIDE DEF more, mf, i
  <2>1. QED
    BY <1>8, <1>9, <1>10 DEF CallsNow, With
<1>12. QED
  BY <1>3, <1>4, <1>6, <1>11

LEMMA NewTracks ==
  ASSUME NEW t, NEW seen, NEW text, NEW frags, Tracks(t, seen, text, frags),
         NEW f \in Fragments, Heads(frags, f), f.index \notin Indices(frags)
  PROVE  Tracks(ToolFragment(t, f), CallNoticed(seen, f), text, Append(frags, f))
<1> DEFINE i == f.index
           n == Len(seen)
           name == f.name
           args == f.args
           calls == CallsNow(seen, frags)
           seen1 == Append(seen, CallAt(i))
           more == Append(frags, f)
           items == ItemsNow(seen, text, frags)
           ev == t.events
           new == ToolFragment(t, f)
<1>1. /\ seen \in Seq(Mentions) /\ text \in Seq(Pieces) /\ frags \in Seq(Fragments)
      /\ AllNamed(frags) /\ ev \in Seq(ItemEvents)
      /\ t = Noted(n, TextPlace(seen, text), text, calls, t.finish, ev)
      /\ ReadResponse(ev) = Reply("open", items)
  BY TracksIs
<1>2. Ledger(seen, text, frags)
  BY DEF Tracks
<1>3. name # <<>> /\ name \in Seq(Pieces) /\ args \in Seq(Pieces)
  BY DEF Heads, Fragments
<1>4. /\ CallNoticed(seen, f) = seen1 /\ Ledger(seen1, text, more)
      /\ CallsNow(seen1, more) = With(calls, i, Known(n, name, args))
      /\ TextPlace(seen1, text) = TextPlace(seen, text)
  BY <1>1, <1>2, CallsGrow
<1>5. Len(seen1) = n + 1
  BY <1>1
<1>6. i \notin DOMAIN calls
  BY DEF CallsNow
<1>7. new = IF args = <<>>
            THEN Noted(n + 1, TextPlace(seen, text), text,
                       With(calls, i, Known(n, name, args)), t.finish,
                       ev \o CallStarts(name, n))
            ELSE Noted(n + 1, TextPlace(seen, text), text,
                       With(calls, i, Known(n, name, args)), t.finish,
                       (ev \o CallStarts(name, n)) \o ArgsGrow(name, n, args))
  <2> HIDE DEF calls, ev, n
  <2>1. QED
    BY <1>1, <1>3, <1>6, FirstFragment
<1>8. /\ \A m \in Mentions : m # CallAt(i) => Shown(m, text, more) = Shown(m, text, frags)
      /\ \A j : j # i => NamesOf(more, j) = NamesOf(frags, j)
      /\ NamesOf(more, i) = name /\ ArgsOf(more, i) = args
  <2>1. /\ \A m \in Mentions : m # CallAt(f.index) =>
             Shown(m, text, more) = Shown(m, text, frags)
        /\ \A j : j # i => NamesOf(more, j) = NamesOf(frags, j)
        /\ NamesOf(more, i) = NamesOf(frags, i) \o f.name
        /\ ArgsOf(more, i) = ArgsOf(frags, i) \o f.args
    BY <1>1, OthersKeepCall, Zenon
  <2>2. NamesOf(frags, i) = <<>> /\ ArgsOf(frags, i) = <<>>
    BY <1>1, NamesNone
  <2>3. <<>> \o f.name = f.name /\ <<>> \o f.args = f.args
    BY <1>3
  <2> HIDE DEF more
  <2>4. QED
    BY <2>1, <2>2, <2>3
<1>9. AllNamed(more)
  <2>1. Indices(more) = Indices(frags) \cup {i}
    BY <1>1, IndicesMore
  <2> HIDE DEF more
  <2>2. QED
    BY <1>1, <1>3, <1>8, <2>1 DEF AllNamed
<1> DEFINE body == IF name \in CustomTools THEN Empty ELSE args
<1>10. /\ ItemsNow(seen1, text, more) = Append(items, Shown(CallAt(i), text, more))
       /\ Shown(CallAt(i), text, more) = Open(ItemId(name), body)
  <2>1. CallAt(i) \in Mentions
    <3>1. i \in Int
      BY DEF Fragments
    <3>2. QED
      BY <3>1 DEF Mentions
  <2>2. \A k \in 1..Len(seen) : Shown(seen[k], text, more) = Shown(seen[k], text, frags)
    <3>1. \A k \in 1..Len(seen) : seen[k] \in Mentions /\ seen[k] # CallAt(i)
      <4>1. CallAt(i) \notin ToSet(seen)
        BY <1>2 DEF Ledger
      <4>2. QED
        BY <1>1, <4>1 DEF ToSet
    <3> HIDE DEF more
    <3>2. QED
      BY <1>8, <3>1
  <2>3. more \in Seq(Fragments)
    BY <1>1
  <2>4. Shown(CallAt(i), text, more) = Open(ItemId(name), body)
    <3> HIDE DEF more
    <3>1. QED
      BY <1>8, CallShown
  <2> DEFINE m == CallAt(i)
  <2> HIDE DEF more, m
  <2>5. ItemsNow(Append(seen, m), text, more)
          = Append(ItemsNow(seen, text, frags), Shown(m, text, more))
    BY <1>1, <2>1, <2>2, <2>3, ItemsAppend DEF m
  <2>6. QED
    BY <2>4, <2>5 DEF m
<1>11. /\ Tells(ev \o CallStarts(name, n), Append(items, Open(ItemId(name), Empty)))
       /\ Tells((ev \o CallStarts(name, n)) \o ArgsGrow(name, n, args),
                Append(items, Open(ItemId(name), body)))
  <2>1. items \in Seq(ItemSet) /\ n = Len(items) /\ Tells(ev, items)
    BY <1>1, ItemsType DEF Tells
  <2>2. args \in Seq(Pieces)
    BY <1>3
  <2> HIDE DEF items, ev, n, name, args
  <2>3. QED
    BY <2>1, <2>2, NewCallTells
<1>12. ASSUME NEW events,
              new = Noted(n + 1, TextPlace(seen, text), text,
                          With(calls, i, Known(n, name, args)), t.finish, events),
              Tells(events, Append(items, Open(ItemId(name), body)))
       PROVE  Tracks(new, seen1, text, more)
  <2>1. new = Noted(Len(seen1), TextPlace(seen1, text), text, CallsNow(seen1, more), t.finish,
                    events)
    <3> HIDE DEF new, seen1, more, calls
    <3>1. QED
      BY <1>4, <1>5, <1>12
  <2>2. events \in Seq(ItemEvents)
        /\ ReadResponse(events) = Reply("open", ItemsNow(seen1, text, more))
    BY <1>10, <1>12 DEF Tells
  <2> HIDE DEF new, seen1, more
  <2>3. QED
    BY <1>4, <1>9, <2>1, <2>2, TracksBy
<1>13. Tracks(new, seen1, text, more)
  <2> HIDE DEF new, items, ev, calls, seen1, more
  <2>1. CASE args = <<>>
    <3>1. body = Empty
      BY <2>1 DEF Empty
    <3>2. QED
      BY <1>7, <1>11, <1>12, <2>1, <3>1
  <2>2. CASE args # <<>>
    BY <1>7, <1>11, <1>12, <2>2
  <2>3. QED
    BY <2>1, <2>2
<1>14. QED
  BY <1>4, <1>13

LEMMA FragmentTracks ==
  ASSUME NEW t, NEW seen, NEW text, NEW frags, Tracks(t, seen, text, frags),
         NEW f \in Fragments, Heads(frags, f)
  PROVE  Tracks(ToolFragment(t, f), CallNoticed(seen, f), text, Append(frags, f))
BY KnownTracks, NewTracks

-----------------------------------------------------------------------------
(* A chunk, and with it the stream so far. *)
Leading(frags) ==
  \A k \in DOMAIN frags :
    (frags[k].name # <<>>) <=> (\A j \in 1..(k - 1) : frags[j].index # frags[k].index)

LEMMA LeadingIs == \A said : NamedFirst(said) <=> Leading(FragmentsOf(said))
BY DEF NamedFirst, Leading

LEMMA LeadingMore ==
  ASSUME NEW frags \in Seq(Fragments), NEW f \in Fragments, Leading(Append(frags, f))
  PROVE  Leading(frags) /\ Heads(frags, f)
<1> DEFINE more == Append(frags, f)
           n == Len(frags)
<1>1. /\ n \in Nat /\ DOMAIN frags = 1..n /\ DOMAIN more = 1..n + 1 /\ more[n + 1] = f
      /\ \A k \in 1..n : more[k] = frags[k]
  OBVIOUS
<1>2. \A k \in 1..n + 1 :
        (more[k].name # <<>>) <=> (\A j \in 1..(k - 1) : more[j].index # more[k].index)
  BY <1>1 DEF Leading
<1> HIDE DEF more, n
<1>3. Leading(frags)
  <2>1. ASSUME NEW k \in 1..n
        PROVE  (frags[k].name # <<>>)
                 <=> (\A j \in 1..(k - 1) : frags[j].index # frags[k].index)
    <3>1. k \in 1..n + 1 /\ \A j \in 1..(k - 1) : j \in 1..n
      BY <1>1
    <3>2. more[k] = frags[k] /\ \A j \in 1..(k - 1) : more[j] = frags[j]
      BY <1>1, <3>1
    <3>3. (more[k].name # <<>>) <=> (\A j \in 1..(k - 1) : more[j].index # more[k].index)
      BY <1>2, <3>1
    <3>4. QED
      BY <3>2, <3>3
  <2>2. QED
    BY <1>1, <2>1 DEF Leading
<1>4. Heads(frags, f)
  <2>1. n + 1 \in 1..n + 1 /\ (n + 1) - 1 = n
    BY <1>1
  <2>2. (f.name # <<>>) <=> (\A j \in 1..n : more[j].index # f.index)
    BY <1>1, <1>2, <2>1
  <2>3. f.index \in Indices(frags) <=> \E j \in 1..n : frags[j].index = f.index
    BY <1>1 DEF Indices, ToSet
  <2>4. QED
    BY <1>1, <2>2, <2>3 DEF Heads
<1>5. QED
  BY <1>3, <1>4

LEMMA FragmentsTrack ==
  ASSUME NEW t, NEW seen, NEW text, NEW frags, Tracks(t, seen, text, frags),
         NEW new \in Seq(Fragments), Leading(frags \o new)
  PROVE  Tracks(ToolsFolded(t, new), CallsNoticed(seen, new), text, frags \o new)
<1> DEFINE Good == {s \in Seq(Fragments) :
                      Leading(frags \o s) =>
                        Tracks(ToolsFolded(t, s), CallsNoticed(seen, s), text, frags \o s)}
<1>1. frags \in Seq(Fragments)
  BY TracksIs
<1>2. <<>> \in Good
  <2>1. frags \o <<>> = frags /\ <<>> \in Seq(Fragments)
    BY <1>1
  <2>2. ToolsFolded(t, <<>>) = t /\ CallsNoticed(seen, <<>>) = seen
    BY ToolsMore, CallsNoticedMore
  <2>3. QED
    BY <2>1, <2>2
<1>3. ASSUME NEW s \in Seq(Fragments), NEW f \in Fragments, s \in Good
      PROVE  Append(s, f) \in Good
  <2> DEFINE more == Append(s, f)
             sofar == frags \o s
  <2>1. frags \o more = Append(sofar, f) /\ sofar \in Seq(Fragments) /\ more \in Seq(Fragments)
    BY <1>1, AppendToConcat
  <2>2. ToolsFolded(t, more) = ToolFragment(ToolsFolded(t, s), f)
    BY ToolsMore
  <2>3. CallsNoticed(seen, more) = CallNoticed(CallsNoticed(seen, s), f)
    BY CallsNoticedMore
  <2>4. SUFFICES ASSUME Leading(frags \o more)
                 PROVE  Tracks(ToolsFolded(t, more), CallsNoticed(seen, more), text,
                               frags \o more)
    BY <2>1
  <2>5. Leading(sofar) /\ Heads(sofar, f)
    BY <2>1, <2>4, LeadingMore
  <2>6. Tracks(ToolsFolded(t, s), CallsNoticed(seen, s), text, sofar)
    BY <1>3, <2>5
  <2> HIDE DEF sofar, more
  <2>7. QED
    BY <2>1, <2>2, <2>3, <2>5, <2>6, FragmentTracks
<1>4. Seq(Fragments) \subseteq Good
  <2> HIDE DEF Good
  <2>1. QED
    BY <1>2, <1>3, SeqInduction
<1>5. QED
  BY <1>4

LEMMA FinishTracks ==
  ASSUME NEW t, NEW seen, NEW text, NEW frags, Tracks(t, seen, text, frags), NEW x
  PROVE  Tracks(Finished(t, x), seen, text, frags)
<1> DEFINE finish == t.finish
           ev == t.events
           after == IF x = "none" THEN finish ELSE x
           new == Finished(t, x)
<1>1. /\ Ledger(seen, text, frags) /\ AllNamed(frags)
      /\ t = Noted(Len(seen), TextPlace(seen, text), text, CallsNow(seen, frags), finish, ev)
      /\ ev \in Seq(ItemEvents)
      /\ ReadResponse(ev) = Reply("open", ItemsNow(seen, text, frags))
  BY DEF Tracks
<1>2. new = Noted(Len(seen), TextPlace(seen, text), text, CallsNow(seen, frags), after, ev)
  <2> HIDE DEF finish, ev
  <2>1. QED
    BY <1>1, NotedEvents
<1> HIDE DEF finish, ev, after, new
<1>3. Tracks(new, seen, text, frags)
  BY <1>1, <1>2, TracksBy
<1>4. QED
  BY <1>3 DEF new

(* The stream so far. *)
Follows(t, said) == Tracks(t, Appearances(said), TextOf(said), FragmentsOf(said))

LEMMA BeginsFollowing == Follows(BeginResponse, <<>>)
<1>1. Appearances(<<>>) = <<>> /\ TextOf(<<>>) = <<>> /\ FragmentsOf(<<>>) = <<>>
  BY AppearancesMore, SaidNothing
<1>2. QED
  BY <1>1, BeginTracks DEF Follows

LEMMA ChunkTracks ==
  ASSUME NEW t, NEW seen, NEW text, NEW frags, Tracks(t, seen, text, frags),
         NEW c, c.kind = "delta", c.text \in Seq(Pieces), c.calls \in Seq(Fragments),
         Leading(frags \o c.calls)
  PROVE  Tracks(ResponseChunk(t, c), ChunkNoticed(seen, c), text \o c.text, frags \o c.calls)
<1> DEFINE first == Finished(t, c.finish)
           second == TextItem(first, c.text)
           heard == IF c.text = <<>> THEN seen ELSE Noticed(seen, Speech)
           said == text \o c.text
           calls == c.calls
<1>1. Tracks(first, seen, text, frags)
  BY FinishTracks
<1>2. Tracks(second, heard, said, frags)
  <2> HIDE DEF first
  <2>1. CASE c.text = <<>>
    <3>1. text \in Seq(Pieces)
      BY TracksIs
    <3>2. said = text
      BY <2>1, <3>1
    <3>3. second = first /\ heard = seen
      BY <2>1 DEF TextItem
    <3> HIDE DEF second, heard, said
    <3>4. QED
      BY <1>1, <3>2, <3>3
  <2>2. CASE c.text # <<>>
    <3>1. heard = Noticed(seen, Speech)
      BY <2>2
    <3> DEFINE x == c.text
    <3>2. x \in Seq(Pieces) /\ x # <<>>
      BY <2>2
    <3>3. second = TextItem(first, x) /\ said = text \o x
      OBVIOUS
    <3> HIDE DEF x, second, heard, said
    <3>4. Tracks(TextItem(first, x), Noticed(seen, Speech), text \o x, frags)
      BY <1>1, <3>2, TextTracks
    <3>5. QED
      BY <3>1, <3>3, <3>4
  <2>3. QED
    BY <2>1, <2>2
<1>3. ResponseChunk(t, c) = ToolsFolded(second, calls)
  BY DEF ResponseChunk, ToolsFolded
<1>4. ChunkNoticed(seen, c) = CallsNoticed(heard, calls)
  BY DEF ChunkNoticed, CallsNoticed
<1>5. calls \in Seq(Fragments) /\ Leading(frags \o calls)
  OBVIOUS
<1> HIDE DEF first, second, heard, said, calls
<1>6. Tracks(ToolsFolded(second, calls), CallsNoticed(heard, calls), said, frags \o calls)
  BY <1>2, <1>5, FragmentsTrack
<1>7. QED
  BY <1>3, <1>4, <1>6, Zenon DEF said, calls

LEMMA ChunkFollowed ==
  ASSUME NEW C, Chunks(C), NEW said \in Seq(C), NEW c \in C, c.kind = "delta",
         NEW t, Follows(t, said), NamedFirst(Append(said, c))
  PROVE  Follows(ResponseChunk(t, c), Append(said, c))
<1>1. /\ TextOf(Append(said, c)) = TextOf(said) \o c.text
      /\ FragmentsOf(Append(said, c)) = FragmentsOf(said) \o c.calls
  BY SaidMore
<1>2. Appearances(Append(said, c)) = ChunkNoticed(Appearances(said), c)
  BY AppearancesMore
<1>3. Leading(FragmentsOf(said) \o c.calls)
  BY <1>1, LeadingIs
<1>4. c.text \in Seq(Pieces) /\ c.calls \in Seq(Fragments)
  BY DEF Chunks
<1>5. Tracks(t, Appearances(said), TextOf(said), FragmentsOf(said))
  BY DEF Follows
<1>6. Tracks(ResponseChunk(t, c), ChunkNoticed(Appearances(said), c), TextOf(said) \o c.text,
             FragmentsOf(said) \o c.calls)
  BY <1>3, <1>4, <1>5, ChunkTracks
<1>7. QED
  BY <1>1, <1>2, <1>6 DEF Follows

LEMMA NamedBefore ==
  ASSUME NEW C, Chunks(C), NEW said \in Seq(C), NEW c \in C, NamedFirst(Append(said, c))
  PROVE  NamedFirst(said)
<1> DEFINE Good == {s \in Seq(Fragments) :
                      \A frags \in Seq(Fragments) : Leading(frags \o s) => Leading(frags)}
<1>1. <<>> \in Good
  OBVIOUS
<1>2. ASSUME NEW s \in Seq(Fragments), NEW f \in Fragments, s \in Good
      PROVE  Append(s, f) \in Good
  <2>1. ASSUME NEW frags \in Seq(Fragments), Leading(frags \o Append(s, f)) PROVE Leading(frags)
    <3>1. frags \o Append(s, f) = Append(frags \o s, f) /\ frags \o s \in Seq(Fragments)
      BY AppendToConcat
    <3>2. Leading(frags \o s)
      BY <2>1, <3>1, LeadingMore
    <3>3. QED
      BY <1>2, <3>2
  <2>2. QED
    BY <2>1
<1>3. Seq(Fragments) \subseteq Good
  <2> HIDE DEF Good
  <2>1. QED
    BY <1>1, <1>2, SeqInduction
<1>4. /\ FragmentsOf(Append(said, c)) = FragmentsOf(said) \o c.calls
      /\ FragmentsOf(said) \in Seq(Fragments) /\ c.calls \in Seq(Fragments)
  BY SaidMore DEF Chunks
<1>5. QED
  BY <1>3, <1>4, LeadingIs

-----------------------------------------------------------------------------
(* Sets in order. *)
LEMMA RangeCount == \A n \in Nat : IsFiniteSet(1..n) /\ Cardinality(1..n) = n
BY FS_Interval

LEMMA Counted ==
  ASSUME NEW n \in Nat, NEW S, NEW g \in [1..n -> S],
         \A j, k \in 1..n : g[j] = g[k] => j = k, \A y \in S : \E k \in 1..n : g[k] = y
  PROVE  Cardinality(S) = n
<1>1. g \in Surjection(1..n, S) /\ g \in Injection(1..n, S)
  BY DEF Surjection, Injection, IsInjective
<1>2. IsFiniteSet(1..n) /\ Cardinality(1..n) = n
  BY RangeCount
<1>3. Cardinality(S) = Cardinality(1..n)
  BY <1>1, <1>2, FS_Surjection
<1>4. QED
  BY <1>2, <1>3

(* The order of indices has each of them once. *)
LEMMA OrderIs ==
  ASSUME NEW S \in SUBSET Int, IsFiniteSet(S), NEW order, order = InOrder(S),
         NEW n, n = Cardinality(S)
  PROVE  /\ n \in Nat /\ order \in [1..n -> S] /\ DOMAIN order = 1..n
         /\ \A j, k \in 1..n : order[j] = order[k] => j = k
         /\ \A i \in S : \E k \in 1..n : order[k] = i
<1>1. n \in Nat /\ order \in [1..n -> S] /\ DOMAIN order = 1..n
  BY OrderType
<1>2. order = [k \in 1..n |-> CHOOSE x \in S : Cardinality({y \in S : y < x}) = k - 1]
  BY DEF InOrder, SortedBy
<1>3. ASSUME NEW k \in 1..n PROVE Cardinality({y \in S : y < order[k]}) = k - 1
  <2>1. \E x \in S : Cardinality({y \in S : y < x}) = k - 1
    BY RankExists
  <2>2. order[k] = CHOOSE x \in S : Cardinality({y \in S : y < x}) = k - 1
    BY <1>2
  <2>3. QED
    BY <2>1, <2>2
<1>4. ASSUME NEW j \in 1..n, NEW k \in 1..n, order[j] = order[k] PROVE j = k
  <2>1. j - 1 = k - 1
    BY <1>3, <1>4
  <2>2. QED
    BY <1>1, <2>1
<1>5. order \in Injection(1..n, S)
  BY <1>1, <1>4 DEF Injection, IsInjective
<1>6. IsFiniteSet(1..n) /\ Cardinality(1..n) = Cardinality(S)
  BY <1>1, RangeCount
<1>7. order \in Surjection(1..n, S)
  BY <1>5, <1>6, FS_Injection
<1>8. \A i \in S : \E k \in 1..n : order[k] = i
  BY <1>7 DEF Surjection
<1>9. QED
  BY <1>1, <1>4, <1>8

(* What has the places 0 to n-1 is in order. *)
LEMMA InPlace ==
  ASSUME NEW n \in Nat, NEW out, DOMAIN out = 1..n, out = [k \in 1..n |-> out[k]],
         \A k \in 1..n : out[k].at = k - 1
  PROVE  SortedBy({out[k] : k \in 1..n}, LAMBDA o : o.at) = out
<1> DEFINE S == {out[k] : k \in 1..n}
<1>1. \A j, k \in 1..n : out[j] = out[k] => j = k
  <2>1. SUFFICES ASSUME NEW j \in 1..n, NEW k \in 1..n, out[j] = out[k] PROVE j = k
    OBVIOUS
  <2>2. j - 1 = k - 1
    BY <2>1
  <2>3. QED
    BY <2>2
<1>2. Cardinality(S) = n
  <2> DEFINE g == [k \in 1..n |-> out[k]]
  <2>1. /\ g \in [1..n -> S] /\ (\A j, k \in 1..n : g[j] = g[k] => j = k)
        /\ \A y \in S : \E k \in 1..n : g[k] = y
    BY <1>1
  <2> HIDE DEF g, S
  <2>2. QED
    BY <2>1, Counted
<1>3. ASSUME NEW k \in 1..n PROVE Cardinality({y \in S : y.at < out[k].at}) = k - 1
  <2> DEFINE T == {y \in S : y.at < out[k].at}
             U == {out[j] : j \in 1..(k - 1)}
  <2>1. k - 1 \in Nat /\ \A j \in 1..(k - 1) : j \in 1..n
    OBVIOUS
  <2>2. Cardinality(U) = k - 1
    <3>1. \A i, j \in 1..(k - 1) : out[i] = out[j] => i = j
      BY <1>1, <2>1
    <3> DEFINE m == k - 1
               g == [j \in 1..m |-> out[j]]
    <3>2. /\ m \in Nat /\ g \in [1..m -> U]
          /\ (\A i, j \in 1..m : g[i] = g[j] => i = j)
          /\ \A y \in U : \E j \in 1..m : g[j] = y
      BY <2>1, <3>1
    <3> HIDE DEF m, U, T, g
    <3>3. Cardinality(U) = m
      BY <3>2, Counted
    <3>4. QED
      BY <3>3 DEF m
  <2>3. ASSUME NEW j \in 1..n PROVE out[j].at < out[k].at <=> j \in 1..(k - 1)
    BY <2>1
  <2>4. T = U
    <3>1. ASSUME NEW y \in T PROVE y \in U
      <4>1. PICK j \in 1..n : y = out[j]
        OBVIOUS
      <4>2. QED
        BY <2>3, <4>1
    <3>2. ASSUME NEW y \in U PROVE y \in T
      <4>1. PICK j \in 1..(k - 1) : y = out[j]
        OBVIOUS
      <4>2. j \in 1..n
        BY <2>1
      <4>3. QED
        BY <2>3, <4>1, <4>2
    <3>3. QED
      BY <3>1, <3>2
  <2>5. QED
    BY <2>2, <2>4
<1>4. ASSUME NEW k \in 1..n
      PROVE  (CHOOSE x \in S : Cardinality({y \in S : y.at < x.at}) = k - 1) = out[k]
  <2>1. out[k] \in S /\ Cardinality({y \in S : y.at < out[k].at}) = k - 1
    BY <1>3
  <2>2. ASSUME NEW x \in S, Cardinality({y \in S : y.at < x.at}) = k - 1 PROVE x = out[k]
    <3>1. PICK j \in 1..n : x = out[j]
      OBVIOUS
    <3>2. Cardinality({y \in S : y.at < x.at}) = j - 1
      BY <1>3, <3>1
    <3>3. j = k
      BY <2>2, <3>2
    <3>4. QED
      BY <3>1, <3>3
  <2> HIDE DEF S
  <2>3. QED
    BY <2>1, <2>2
<1>5. SortedBy(S, LAMBDA o : o.at)
        = [k \in 1..Cardinality(S) |->
             CHOOSE x \in S : Cardinality({y \in S : y.at < x.at}) = k - 1]
  BY DEF SortedBy
<1>6. [k \in 1..n |-> CHOOSE x \in S : Cardinality({y \in S : y.at < x.at}) = k - 1]
        = [k \in 1..n |-> out[k]]
  BY <1>4
<1>7. QED
  BY <1>2, <1>5, <1>6

-----------------------------------------------------------------------------
(* The end of the stream: one item after the other is done. *)

Finally(m, text, frags) == Done(IdOf(m, frags), BodyOf(m, text, frags))

ItemsTold(seen, text, frags, M) ==
  [k \in 1..Len(seen) |->
     IF seen[k] \in M THEN Finally(seen[k], text, frags) ELSE Shown(seen[k], text, frags)]

LEMMA OneTold ==
  ASSUME NEW seen, NEW text, NEW frags, Ledger(seen, text, frags), NEW M, NEW m, m \notin M,
         m \in ToSet(seen)
  PROVE  /\ ItemsTold(seen, text, frags, M \cup {m})
              = At(ItemsTold(seen, text, frags, M), PlaceOf(seen, m) + 1, Finally(m, text, frags))
         /\ Placed(ItemsTold(seen, text, frags, M), PlaceOf(seen, m), IdOf(m, frags),
                   Streamed(m, text, frags))
<1> DEFINE p == PlaceOf(seen, m) + 1
           items == ItemsTold(seen, text, frags, M)
           x == Finally(m, text, frags)
<1>1. /\ seen \in Seq(Mentions) /\ \A j, k \in 1..Len(seen) : seen[j] = seen[k] => j = k
  BY DEF Ledger
<1>2. p \in 1..Len(seen) /\ seen[p] = m
  BY <1>1, PlaceIs
<1>3. DOMAIN items = 1..Len(seen) /\ items[p] = Shown(m, text, frags)
  BY <1>2 DEF ItemsTold
<1>4. Placed(items, PlaceOf(seen, m), IdOf(m, frags), Streamed(m, text, frags))
  <2> HIDE DEF items
  <2>1. QED
    BY <1>2, <1>3 DEF Placed, Shown
<1> HIDE DEF p, x
<1>5. \A k \in 1..Len(seen) : k # p => seen[k] # m
  BY <1>1, <1>2
<1>6. ItemsTold(seen, text, frags, M \cup {m})
        = [k \in 1..Len(seen) |-> IF k = p THEN x ELSE items[k]]
  BY <1>2, <1>5 DEF ItemsTold, x
<1>7. At(items, p, x) = [k \in 1..Len(seen) |-> IF k = p THEN x ELSE items[k]]
  <2> HIDE DEF items
  <2>1. QED
    BY <1>3 DEF At
<1>8. QED
  BY <1>4, <1>6, <1>7 DEF p, x

SpeechEnds(at, id, text) ==
  <<Event("text_done", at, id, text), Event("part_done", at, id, text),
    Event("item_done", at, id, text)>>

CallEnds(at, id, args) == <<Event("args_done", at, id, args), Event("item_done", at, id, args)>>

LEMMA EndingsType ==
  ASSUME NEW at \in Int, NEW id \in OutputIds, NEW body \in Seq(Pieces)
  PROVE  SpeechEnds(at, id, body) \in Seq(ItemEvents) /\ CallEnds(at, id, body) \in Seq(ItemEvents)
<1> DEFINE a == Event("text_done", at, id, body)
           b == Event("part_done", at, id, body)
           c == Event("args_done", at, id, body)
           d == Event("item_done", at, id, body)
<1>1. a \in ItemEvents /\ b \in ItemEvents /\ c \in ItemEvents /\ d \in ItemEvents
  BY ItemEventType DEF ItemKinds
<1> HIDE DEF a, b, c, d
<1>2. <<a, b, d>> \in Seq(ItemEvents) /\ <<c, d>> \in Seq(ItemEvents)
  BY <1>1
<1>3. QED
  BY <1>2 DEF SpeechEnds, CallEnds, a, b, c, d

LEMMA EndsTell ==
  ASSUME NEW ev, NEW items, Tells(ev, items), NEW at \in Int, NEW id \in OutputIds, NEW old,
         NEW body \in Seq(Pieces), Placed(items, at, id, old), old \in {<<>>, body}
  PROVE  /\ Tells(ev \o SpeechEnds(at, id, body), At(items, at + 1, Done(id, body)))
         /\ Tells(ev \o CallEnds(at, id, body), At(items, at + 1, Done(id, body)))
<1> DEFINE a == Event("text_done", at, id, body)
           b == Event("part_done", at, id, body)
           c == Event("args_done", at, id, body)
           d == Event("item_done", at, id, body)
           after == At(items, at + 1, Done(id, body))
<1>1. ev \in Seq(ItemEvents) /\ ReadResponse(ev) = Reply("open", items)
  BY DEF Tells
<1>2. a \in ItemEvents /\ b \in ItemEvents /\ c \in ItemEvents /\ d \in ItemEvents
  BY ItemEventType DEF ItemKinds
<1>3. /\ ResponseEvent(Reply("open", items), a) = Reply("open", items)
      /\ ResponseEvent(Reply("open", items), b) = Reply("open", items)
      /\ ResponseEvent(Reply("open", items), c) = Reply("open", items)
  BY ItemWhole
<1>4. ResponseEvent(Reply("open", items), d) = Reply("open", after)
  BY ItemEnds
<1>5. SpeechEnds(at, id, body) = <<a, b, d>> /\ CallEnds(at, id, body) = <<c, d>>
  BY DEF SpeechEnds, CallEnds
<1> HIDE DEF a, b, c, d, after
<1>6. /\ ReadResponse(ev \o <<a, b, d>>)
           = ResponseEvent(ResponseEvent(ResponseEvent(ReadResponse(ev), a), b), d)
      /\ ev \o <<a, b, d>> \in Seq(ItemEvents)
  BY <1>1, <1>2, AfterThreeEvents
<1>7. /\ ReadResponse(ev \o <<c, d>>) = ResponseEvent(ResponseEvent(ReadResponse(ev), c), d)
      /\ ev \o <<c, d>> \in Seq(ItemEvents)
  BY <1>1, <1>2, AfterEvents
<1>8. Tells(ev \o <<a, b, d>>, after)
  BY <1>1, <1>3, <1>4, <1>6 DEF Tells
<1>9. Tells(ev \o <<c, d>>, after)
  BY <1>1, <1>3, <1>4, <1>7 DEF Tells
<1>10. QED
  BY <1>5, <1>8, <1>9, Zenon DEF after

LEMMA MentionEnds ==
  ASSUME NEW seen, NEW text, NEW frags, Ledger(seen, text, frags), NEW M, NEW m, m \notin M,
         m \in ToSet(seen), NEW ev, Tells(ev, ItemsTold(seen, text, frags, M)),
         NEW at, at = PlaceOf(seen, m), NEW id, id = IdOf(m, frags),
         NEW body, body = BodyOf(m, text, frags)
  PROVE  /\ Tells(ev \o SpeechEnds(at, id, body), ItemsTold(seen, text, frags, M \cup {m}))
         /\ Tells(ev \o CallEnds(at, id, body), ItemsTold(seen, text, frags, M \cup {m}))
<1> DEFINE items == ItemsTold(seen, text, frags, M)
           old == Streamed(m, text, frags)
           after == ItemsTold(seen, text, frags, M \cup {m})
<1>1. /\ seen \in Seq(Mentions) /\ text \in Seq(Pieces) /\ frags \in Seq(Fragments)
      /\ \A j, k \in 1..Len(seen) : seen[j] = seen[k] => j = k
  BY DEF Ledger
<1>2. at \in Int
  BY <1>1, PlaceIs
<1>3. id \in OutputIds /\ body \in Seq(Pieces) /\ old \in {<<>>, body}
  BY <1>1, IdType
<1>4. after = At(items, at + 1, Done(id, body)) /\ Placed(items, at, id, old)
  BY OneTold DEF Finally
<1>5. Tells(ev, items)
  OBVIOUS
<1> HIDE DEF items, old, after
<1>6. /\ Tells(ev \o SpeechEnds(at, id, body), At(items, at + 1, Done(id, body)))
      /\ Tells(ev \o CallEnds(at, id, body), At(items, at + 1, Done(id, body)))
  BY <1>2, <1>3, <1>4, <1>5, EndsTell
<1>7. QED
  BY <1>4, <1>6 DEF after

LEMMA NothingSaid == <<>> \in Seq(ItemEvents)
OBVIOUS

(* The text is done first, if there is any. *)
LEMMA TextEnds ==
  ASSUME NEW t, NEW seen, NEW text, NEW frags, Tracks(t, seen, text, frags)
  PROVE  /\ Tells(t.events \o TextDone(t), ItemsTold(seen, text, frags, {Speech}))
         /\ TextDone(t) \in Seq(ItemEvents)
<1> DEFINE ev == t.events
           at == TextPlace(seen, text)
<1>1. /\ Ledger(seen, text, frags) /\ ev \in Seq(ItemEvents)
      /\ t = Noted(Len(seen), at, text, CallsNow(seen, frags), t.finish, ev)
      /\ ReadResponse(ev) = Reply("open", ItemsNow(seen, text, frags))
  BY DEF Tracks
<1>2. /\ seen \in Seq(Mentions) /\ \A j, k \in 1..Len(seen) : seen[j] = seen[k] => j = k
      /\ Speech \in ToSet(seen) <=> text # <<>>
  BY <1>1 DEF Ledger
<1>3. t.textAt = at /\ t.text = text
  <2> HIDE DEF ev, at
  <2>1. QED
    BY <1>1, NotedFields
<1>4. Tells(ev, ItemsNow(seen, text, frags))
  BY <1>1 DEF Tells
<1>5. CASE text = <<>>
  <2>1. TextDone(t) = <<>>
    BY <1>3, <1>5 DEF TextPlace, TextDone
  <2>2. ItemsTold(seen, text, frags, {Speech}) = ItemsNow(seen, text, frags)
    <3>1. \A k \in 1..Len(seen) : seen[k] \notin {Speech}
      BY <1>2, <1>5 DEF ToSet
    <3>2. QED
      BY <3>1 DEF ItemsTold, ItemsNow
  <2>3. ev \o <<>> = ev
    BY <1>1
  <2> HIDE DEF ev
  <2>4. QED
    BY <1>4, <2>1, <2>2, <2>3, NothingSaid DEF ev
<1>6. CASE text # <<>>
  <2> DEFINE id == IdOf(Speech, frags)
             body == BodyOf(Speech, text, frags)
             m == Speech
  <2>1. at = PlaceOf(seen, m) /\ m \in ToSet(seen)
    BY <1>2, <1>6 DEF TextPlace
  <2>2. id = <<"msg">> /\ body = text
    BY DEF IdOf, BodyOf
  <2>3. at # Unset
    <3>1. at \in 0..Len(seen) - 1
      BY <1>2, <2>1, PlaceIs
    <3>2. QED
      BY <3>1 DEF Unset
  <2>4. TextDone(t) = SpeechEnds(at, <<"msg">>, text)
    BY <1>3, <2>3 DEF TextDone, SpeechEnds
  <2>5. TextDone(t) = SpeechEnds(at, id, body)
    BY <2>2, <2>4
  <2>6. ItemsTold(seen, text, frags, {}) = ItemsNow(seen, text, frags)
    BY DEF ItemsTold, ItemsNow
  <2>7. {} \cup {m} = {Speech} /\ m \notin {}
    OBVIOUS
  <2>8. Tells(ev, ItemsTold(seen, text, frags, {}))
    BY <1>4, <2>6
  <2>9. at = PlaceOf(seen, m) /\ id = IdOf(m, frags) /\ body = BodyOf(m, text, frags)
    BY <2>1
  <2> HIDE DEF ev, at, id, body, m
  <2> DEFINE none == {}
  <2>10. m \notin none /\ none \cup {m} = {Speech}
    BY <2>7
  <2>11. Tells(ev, ItemsTold(seen, text, frags, none))
    BY <2>8
  <2> HIDE DEF none
  <2>12. Tells(ev \o SpeechEnds(at, id, body), ItemsTold(seen, text, frags, none \cup {m}))
    BY <1>1, <2>1, <2>9, <2>10, <2>11, MentionEnds
  <2>13. TextDone(t) \in Seq(ItemEvents)
    <3>1. at \in Int /\ id \in OutputIds /\ body \in Seq(Pieces)
      BY <1>1, <1>2, <2>1, <2>9, PlaceIs, IdType DEF Ledger
    <3>2. QED
      BY <2>5, <3>1, EndingsType
  <2>14. QED
    BY <2>5, <2>10, <2>12, <2>13 DEF ev
<1>7. QED
  BY <1>5, <1>6

-----------------------------------------------------------------------------
(* The calls are done in the order of their indices. *)
CallEnding(seen, frags, i) ==
  CallEnds(PlaceOf(seen, CallAt(i)), ItemId(NamesOf(frags, i)), ArgsOf(frags, i))

LEMMA CallDone ==
  ASSUME NEW at, NEW name, NEW args
  PROVE  ToolDone(Known(at, name, args)) = CallEnds(at, ItemId(name), args)
<1>1. SUFFICES ASSUME NEW yes, yes = TRUE
               PROVE  ToolDone(KnownAs(at, name, args, yes)) = CallEnds(at, ItemId(name), args)
  BY DEF Known
<1> DEFINE call == KnownAs(at, name, args, yes)
<1>2. call.at = at /\ call.name = name /\ call.args = args /\ call.emitted = yes
  BY DEF KnownAs
<1> HIDE DEF call
<1>3. ToolDone(call) = <<>> \o CallEnds(at, ItemId(name), args)
  BY <1>1, <1>2 DEF ToolDone, CallEnds
<1>4. <<>> \o CallEnds(at, ItemId(name), args) = CallEnds(at, ItemId(name), args)
  BY DEF CallEnds
<1>5. QED
  BY <1>3, <1>4 DEF call

LEMMA CallEndingType ==
  ASSUME NEW at \in Int, NEW name, NEW args \in Seq(Pieces)
  PROVE  CallEnds(at, ItemId(name), args) \in Seq(ItemEvents)
<1>1. ItemId(name) \in OutputIds
  BY DEF ItemId, OutputIds
<1>2. QED
  BY <1>1, EndingsType

LEMMA EventsAssociate ==
  \A a, b, c \in Seq(ItemEvents) : a \o (b \o c) = (a \o b) \o c /\ a \o b \in Seq(ItemEvents)
<1>1. ASSUME NEW a \in Seq(ItemEvents), NEW b \in Seq(ItemEvents), NEW c \in Seq(ItemEvents)
      PROVE  a \o (b \o c) = (a \o b) \o c
  BY ConcatAssociates
<1>2. QED
  BY <1>1

LEMMA CallsEnd ==
  ASSUME NEW seen, NEW text, NEW frags, Ledger(seen, text, frags), NEW ev,
         Tells(ev, ItemsTold(seen, text, frags, {Speech})),
         NEW order, order = InOrder(Indices(frags)), NEW n, n = Cardinality(Indices(frags)),
         NEW s, s = [k \in 1..n |-> CallEnding(seen, frags, order[k])]
  PROVE  /\ \E M : /\ Tells(ev \o FlattenSeq(s), ItemsTold(seen, text, frags, M))
                   /\ ToSet(seen) \subseteq M
         /\ FlattenSeq(s) \in Seq(ItemEvents)
<1> DEFINE S == Indices(frags)
<1>1. /\ seen \in Seq(Mentions) /\ text \in Seq(Pieces) /\ frags \in Seq(Fragments)
      /\ \A j, k \in 1..Len(seen) : seen[j] = seen[k] => j = k
      /\ \A i : CallAt(i) \in ToSet(seen) <=> i \in S
  BY DEF Ledger
<1>2. /\ n \in Nat /\ order \in [1..n -> S] /\ DOMAIN order = 1..n
      /\ \A j, k \in 1..n : order[j] = order[k] => j = k
      /\ \A i \in S : \E k \in 1..n : order[k] = i
  <2>1. S \in SUBSET Int /\ IsFiniteSet(S)
    BY <1>1, IndicesFinite
  <2> HIDE DEF S
  <2>2. order = InOrder(S) /\ n = Cardinality(S)
    BY DEF S
  <2>3. QED
    BY <2>1, <2>2, OrderIs
<1>3. s \in [1..n -> Seq(ItemEvents)]
  <2>1. ASSUME NEW i \in S PROVE CallEnding(seen, frags, i) \in Seq(ItemEvents)
    <3>1. CallAt(i) \in ToSet(seen)
      BY <1>1
    <3>2. PlaceOf(seen, CallAt(i)) \in Int
      BY <1>1, <3>1, PlaceIs
    <3>3. ArgsOf(frags, i) \in Seq(Pieces)
      BY <1>1, NamesType
    <3>4. QED
      BY <3>2, <3>3, CallEndingType DEF CallEnding
  <2> HIDE DEF S
  <2>2. \A k \in 1..n : CallEnding(seen, frags, order[k]) \in Seq(ItemEvents)
    BY <1>2, <2>1
  <2>3. QED
    BY <2>2
<1>4. PICK h : Flattens(h, s, n, ItemEvents)
  BY <1>2, <1>3, Flattening
<1>5. /\ h \in [0..n -> Seq(ItemEvents)] /\ h[0] = <<>> /\ FlattenSeq(s) = h[n]
      /\ \A k \in 1..n : h[k] = h[k - 1] \o s[k]
  BY <1>4, Zenon DEF Flattens
<1> DEFINE Ended1(k) == {Speech} \cup {CallAt(order[j]) : j \in 1..k}
           Good == {k \in 0..n : Tells(ev \o h[k], ItemsTold(seen, text, frags, Ended1(k)))}
<1>6. 0 \in Good
  <2>1. Ended1(0) = {Speech}
    OBVIOUS
  <2>2. ev \in Seq(ItemEvents)
    BY DEF Tells
  <2>3. ev \o h[0] = ev
    BY <1>5, <2>2
  <2>4. 0 \in 0..n
    BY <1>2
  <2> HIDE DEF Ended1
  <2>5. QED
    BY <2>1, <2>3, <2>4
<1>7. ASSUME NEW k \in 1..n, k - 1 \in Good PROVE k \in Good
  <2> DEFINE i == order[k]
             m == CallAt(i)
             M == Ended1(k - 1)
             before == ev \o h[k - 1]
             at == PlaceOf(seen, m)
             id == IdOf(m, frags)
             body == BodyOf(m, text, frags)
  <2>0. k - 1 \in 0..n /\ k \in 0..n /\ k - 1 \in Nat /\ \A j \in 1..(k - 1) : j \in 1..n /\ j # k
    BY <1>2
  <2>1. i \in S /\ m \in ToSet(seen)
    BY <1>1, <1>2
  <2>2. m \notin M
    <3>1. \A j \in 1..(k - 1) : order[j] # i
      BY <1>2, <2>0
    <3>2. \A j \in 1..(k - 1) : CallAt(order[j]) # m
      BY <3>1, MentionIs
    <3>3. m # Speech
      BY MentionIs
    <3>4. QED
      BY <3>2, <3>3
  <2>3. Ended1(k) = M \cup {m}
    <3>1. 1..k = 1..(k - 1) \cup {k}
      BY <1>2
    <3>2. QED
      BY <3>1
  <2>4. s[k] = CallEnds(at, id, body)
    <3>1. s[k] = CallEnding(seen, frags, i)
      OBVIOUS
    <3>2. id = ItemId(NamesOf(frags, i)) /\ body = ArgsOf(frags, i)
      BY CallShown
    <3>3. QED
      BY <3>1, <3>2 DEF CallEnding
  <2>5. ev \o h[k] = before \o s[k]
    <3>1. ev \in Seq(ItemEvents)
      BY DEF Tells
    <3>2. h[k] = h[k - 1] \o s[k] /\ h[k - 1] \in Seq(ItemEvents) /\ s[k] \in Seq(ItemEvents)
      BY <1>3, <1>5, <2>0
    <3> DEFINE a == h[k - 1]
               b == s[k]
    <3>3. a \in Seq(ItemEvents) /\ b \in Seq(ItemEvents)
      BY <3>2
    <3> HIDE DEF a, b
    <3>4. ev \o (a \o b) = (ev \o a) \o b
      BY <3>1, <3>3, EventsAssociate, Zenon
    <3>5. QED
      BY <3>2, <3>4 DEF a, b
  <2>6. Tells(before, ItemsTold(seen, text, frags, M))
    BY <1>7
  <2>7. at = PlaceOf(seen, m) /\ id = IdOf(m, frags) /\ body = BodyOf(m, text, frags)
    OBVIOUS
  <2> HIDE DEF i, m, M, before, at, id, body
  <2>8. Tells(before \o CallEnds(at, id, body), ItemsTold(seen, text, frags, M \cup {m}))
    BY <2>1, <2>2, <2>6, <2>7, MentionEnds
  <2> HIDE DEF Ended1
  <2>9. QED
    BY <2>0, <2>3, <2>4, <2>5, <2>8
<1>8. n \in Good
  <2> HIDE DEF Good
  <2>1. \A k \in 0..n : k \in Good
    BY <1>2, <1>6, <1>7, StepInduction
  <2>2. QED
    BY <1>2, <2>1
<1>9. ToSet(seen) \subseteq Ended1(n)
  <2>1. ASSUME NEW m \in ToSet(seen) PROVE m \in Ended1(n)
    <3>1. m \in Mentions
      BY <1>1 DEF ToSet
    <3>2. CASE m = Speech
      BY <3>2
    <3>3. CASE m # Speech
      <4>1. PICK i \in Int : m = CallAt(i)
        BY <3>1, <3>3, MentionIs
      <4>2. i \in S
        BY <1>1, <4>1
      <4>3. PICK k \in 1..n : order[k] = i
        BY <1>2, <4>2
      <4>4. QED
        BY <4>1, <4>3
    <3>4. QED
      BY <3>2, <3>3
  <2>2. QED
    BY <2>1
<1>10. Tells(ev \o FlattenSeq(s), ItemsTold(seen, text, frags, Ended1(n)))
  BY <1>5, <1>8
<1>11. FlattenSeq(s) \in Seq(ItemEvents)
  BY <1>2, <1>3, FlattenType
<1> HIDE DEF Ended1
<1>12. QED
  BY <1>9, <1>10, <1>11

LEMMA ToolsEnd ==
  ASSUME NEW t, NEW seen, NEW text, NEW frags, Tracks(t, seen, text, frags)
  PROVE  /\ \E M : /\ Tells((t.events \o TextDone(t)) \o ToolsDone(t),
                            ItemsTold(seen, text, frags, M))
                   /\ ToSet(seen) \subseteq M
         /\ ToolsDone(t) \in Seq(ItemEvents)
<1> DEFINE ev == t.events \o TextDone(t)
           S == Indices(frags)
           order == InOrder(S)
           n == Cardinality(S)
           s == [k \in 1..n |-> CallEnding(seen, frags, order[k])]
           calls == CallsNow(seen, frags)
<1>1. Ledger(seen, text, frags) /\ t.calls = calls
  <2>1. /\ Ledger(seen, text, frags)
        /\ t = Noted(Len(seen), TextPlace(seen, text), text, CallsNow(seen, frags), t.finish,
                     t.events)
    BY DEF Tracks
  <2>2. QED
    BY <2>1, NotedFields
<1>2. Tells(ev, ItemsTold(seen, text, frags, {Speech}))
  BY TextEnds
<1>3. DOMAIN calls = S /\ \A i \in S : calls[i] = CallNow(seen, frags, i)
  BY DEF CallsNow
<1>4. /\ DOMAIN order = 1..n /\ order \in [1..n -> S]
  <2>1. S \in SUBSET Int /\ IsFiniteSet(S)
    BY <1>1, IndicesFinite DEF Ledger
  <2> HIDE DEF S
  <2>2. QED
    BY <2>1, OrderType
<1>5. \A i \in S : ToolDone(calls[i]) = CallEnding(seen, frags, i)
  <2>1. \A i \in S : ToolDone(CallNow(seen, frags, i)) = CallEnding(seen, frags, i)
    BY CallDone DEF CallNow, CallEnding
  <2> HIDE DEF calls, S
  <2>2. QED
    BY <1>3, <2>1
<1>6. ToolsDone(t) = FlattenSeq([k \in 1..n |-> ToolDone(calls[order[k]])])
  <2>1. InOrder(DOMAIN t.calls) = order
    BY <1>1, <1>3
  <2> HIDE DEF order, calls, n
  <2>2. QED
    BY <1>1, <1>4, <2>1 DEF ToolsDone
<1>7. [k \in 1..n |-> ToolDone(calls[order[k]])] = s
  <2> HIDE DEF order, calls, n, S
  <2>1. \A k \in 1..n : order[k] \in S
    BY <1>4
  <2>2. QED
    BY <1>5, <2>1
<1>8. order = InOrder(Indices(frags)) /\ n = Cardinality(Indices(frags))
  OBVIOUS
<1>9. s = [k \in 1..n |-> CallEnding(seen, frags, order[k])]
  OBVIOUS
<1> HIDE DEF ev, order, n, s
<1>10. /\ \E M : /\ Tells(ev \o FlattenSeq(s), ItemsTold(seen, text, frags, M))
                 /\ ToSet(seen) \subseteq M
       /\ FlattenSeq(s) \in Seq(ItemEvents)
  BY <1>1, <1>2, <1>8, <1>9, CallsEnd
<1>11. QED
  BY <1>6, <1>7, <1>10 DEF ev

-----------------------------------------------------------------------------
(* The completed items. *)
NameOr(name) == IF name = <<>> THEN <<"unknown">> ELSE name

Out(at, m, text, frags) ==
  IF m = Speech THEN Output(at, <<"msg">>, <<"text">>, text)
  ELSE Output(at, ItemId(NamesOf(frags, m[1])), NameOr(NamesOf(frags, m[1])),
              ArgsOf(frags, m[1]))

OutputNow(seen, text, frags) == [k \in 1..Len(seen) |-> Out(k - 1, seen[k], text, frags)]

LEMMA NamedIs ==
  ASSUME NEW name, NEW args
  PROVE  /\ Named(Call(name, args)) = NameOr(name) /\ Call(name, args).args = args
         /\ Call(name, args).name = name
BY DEF Named, NameOr, Call

LEMMA ItemsOfIs ==
  ASSUME NEW said, Appearances(said) \in Seq(Mentions)
  PROVE  ItemsOf(said) = OutputNow(Appearances(said), TextOf(said), FragmentsOf(said))
<1> DEFINE seen == Appearances(said)
           frags == FragmentsOf(said)
           item(k) == IF seen[k] = Speech
                      THEN Output(k - 1, <<"msg">>, <<"text">>, TextOf(said))
                      ELSE LET call == CallOf(said, seen[k][1])
                           IN Output(k - 1, ItemId(call.name), Named(call), call.args)
<1>1. DOMAIN seen = 1..Len(seen)
  OBVIOUS
<1>2. ItemsOf(said) = [k \in DOMAIN seen |-> item(k)]
  BY DEF ItemsOf
<1>3. \A i : /\ CallOf(said, i).name = NamesOf(frags, i)
             /\ Named(CallOf(said, i)) = NameOr(NamesOf(frags, i))
             /\ CallOf(said, i).args = ArgsOf(frags, i)
  BY CallsSaid, NamedIs
<1>4. ASSUME NEW k PROVE item(k) = Out(k - 1, seen[k], TextOf(said), frags)
  <2> HIDE DEF seen, frags
  <2>1. QED
    BY <1>3 DEF Out
<1> HIDE DEF seen, frags, item
<1>5. ItemsOf(said) = OutputNow(seen, TextOf(said), frags)
  BY <1>1, <1>2, <1>4 DEF OutputNow
<1>6. QED
  BY <1>5 DEF seen, frags

LEMMA OutputIs ==
  ASSUME NEW seen \in Seq(Mentions), NEW text, NEW frags
  PROVE  /\ OutputNow(seen, text, frags)
              = [k \in 1..Len(seen) |-> OutputNow(seen, text, frags)[k]]
         /\ DOMAIN OutputNow(seen, text, frags) = 1..Len(seen)
         /\ \A k \in 1..Len(seen) :
              /\ OutputNow(seen, text, frags)[k] = Out(k - 1, seen[k], text, frags)
              /\ OutputNow(seen, text, frags)[k].at = k - 1
              /\ OutputNow(seen, text, frags)[k].id = IdOf(seen[k], frags)
              /\ OutputNow(seen, text, frags)[k].body = BodyOf(seen[k], text, frags)
<1> DEFINE out == OutputNow(seen, text, frags)
<1>1. /\ out = [k \in 1..Len(seen) |-> out[k]] /\ DOMAIN out = 1..Len(seen)
      /\ \A k \in 1..Len(seen) : out[k] = Out(k - 1, seen[k], text, frags)
  BY DEF OutputNow
<1>2. ASSUME NEW at, NEW m
      PROVE  /\ Out(at, m, text, frags).at = at /\ Out(at, m, text, frags).id = IdOf(m, frags)
             /\ Out(at, m, text, frags).body = BodyOf(m, text, frags)
  BY DEF Out, Output, IdOf, BodyOf
<1> HIDE DEF out
<1>3. ASSUME NEW k \in 1..Len(seen)
      PROVE  /\ out[k].at = k - 1 /\ out[k].id = IdOf(seen[k], frags)
             /\ out[k].body = BodyOf(seen[k], text, frags)
  BY <1>1, <1>2
<1>4. QED
  BY <1>1, <1>3 DEF out

LEMMA CompletedBy ==
  ASSUME NEW t, NEW seen, NEW text, NEW frags, Ledger(seen, text, frags),
         t.textAt = TextPlace(seen, text), t.text = text, DOMAIN t.calls = Indices(frags),
         \A i \in Indices(frags) : /\ t.calls[i].at = PlaceOf(seen, CallAt(i))
                                   /\ t.calls[i].name = NamesOf(frags, i)
                                   /\ t.calls[i].args = ArgsOf(frags, i)
  PROVE  CompletedOutput(t) = OutputNow(seen, text, frags)
<1> DEFINE at == TextPlace(seen, text)
           out == OutputNow(seen, text, frags)
           n == Len(seen)
           I == Indices(frags)
<1>1. /\ t.textAt = at /\ t.text = text /\ DOMAIN t.calls = I
      /\ \A i \in I : /\ t.calls[i].at = PlaceOf(seen, CallAt(i))
                      /\ t.calls[i].name = NamesOf(frags, i)
                      /\ t.calls[i].args = ArgsOf(frags, i)
  OBVIOUS
<1>2. /\ seen \in Seq(Mentions) /\ \A j, k \in 1..n : seen[j] = seen[k] => j = k
      /\ Speech \in ToSet(seen) <=> text # <<>>
      /\ \A i : CallAt(i) \in ToSet(seen) <=> i \in I
  BY DEF Ledger
<1>4. /\ out = [k \in 1..n |-> out[k]] /\ DOMAIN out = 1..n
      /\ \A k \in 1..n : out[k] = Out(k - 1, seen[k], text, frags) /\ out[k].at = k - 1
  BY <1>2, OutputIs
<1>5. n \in Nat
  BY <1>2
<1> DEFINE spoken == IF at = Unset THEN {} ELSE {Output(at, <<"msg">>, <<"text">>, text)}
           tool(i) == Output(PlaceOf(seen, CallAt(i)), ItemId(NamesOf(frags, i)),
                             NameOr(NamesOf(frags, i)), ArgsOf(frags, i))
           tools == {tool(i) : i \in I}
           S == {out[k] : k \in 1..n}
<1>6. \A i : Out(PlaceOf(seen, CallAt(i)), CallAt(i), text, frags) = tool(i)
  BY MentionIs DEF Out
<1>7. Out(at, Speech, text, frags) = Output(at, <<"msg">>, <<"text">>, text)
  BY DEF Out
<1>8. CompletedOutput(t) = SortedBy(spoken \cup tools, LAMBDA o : o.at)
  <2>1. \A i \in I : Named(t.calls[i]) = NameOr(NamesOf(frags, i))
    BY <1>1 DEF Named, NameOr
  <2> HIDE DEF I, at
  <2>2. {Output(t.calls[i].at, ItemId(t.calls[i].name), Named(t.calls[i]), t.calls[i].args) :
           i \in DOMAIN t.calls} = tools
    BY <1>1, <2>1
  <2>3. (IF t.textAt = Unset THEN {} ELSE {Output(t.textAt, <<"msg">>, <<"text">>, t.text)})
          = spoken
    BY <1>1
  <2> HIDE DEF tools, spoken
  <2>4. QED
    BY <2>2, <2>3 DEF CompletedOutput
<1>9. spoken \cup tools \subseteq S
  <2>1. ASSUME at # Unset PROVE Output(at, <<"msg">>, <<"text">>, text) \in S
    <3>1. text # <<>> /\ at = PlaceOf(seen, Speech)
      BY <2>1 DEF TextPlace
    <3>2. at + 1 \in 1..n /\ seen[at + 1] = Speech /\ at \in Int
      BY <1>2, <3>1, PlaceIs
    <3> HIDE DEF at, out
    <3>3. out[at + 1] = Out((at + 1) - 1, Speech, text, frags) /\ (at + 1) - 1 = at
      BY <1>4, <3>2
    <3>4. QED
      BY <1>7, <3>2, <3>3
  <2>2. ASSUME NEW i \in I PROVE tool(i) \in S
    <3> DEFINE p == PlaceOf(seen, CallAt(i))
    <3>1. p + 1 \in 1..n /\ seen[p + 1] = CallAt(i) /\ p \in Int
      BY <1>2, PlaceIs
    <3>2. tool(i) = Out(p, CallAt(i), text, frags)
      BY <1>6
    <3> HIDE DEF p, out
    <3>3. out[p + 1] = Out((p + 1) - 1, CallAt(i), text, frags) /\ (p + 1) - 1 = p
      BY <1>4, <3>1
    <3> HIDE DEF tool
    <3>4. QED
      BY <3>1, <3>2, <3>3
  <2> HIDE DEF tool, at, out, I
  <2>3. QED
    BY <2>1, <2>2
<1>10. ASSUME NEW k \in 1..n PROVE out[k] \in spoken \cup tools
  <2>1. CASE seen[k] = Speech
    <3>1. text # <<>> /\ PlaceOf(seen, Speech) = k - 1
      BY <1>2, <2>1, PlaceIs DEF ToSet
    <3>2. at = k - 1 /\ k - 1 # Unset
      BY <3>1 DEF TextPlace, Unset
    <3>3. out[k] = Out(at, Speech, text, frags)
      BY <1>4, <2>1, <3>2
    <3> HIDE DEF out, at
    <3>4. QED
      BY <1>7, <3>2, <3>3
  <2>2. CASE seen[k] # Speech
    <3>1. PICK i \in Int : seen[k] = CallAt(i)
      BY <1>2, <2>2, MentionIs
    <3>2. i \in I /\ PlaceOf(seen, CallAt(i)) = k - 1
      BY <1>2, <3>1, PlaceIs DEF ToSet
    <3>3. out[k] = Out(PlaceOf(seen, CallAt(i)), CallAt(i), text, frags)
      BY <1>4, <3>1, <3>2
    <3>4. out[k] = tool(i)
      BY <1>6, <3>3
    <3> HIDE DEF out, tool, I
    <3>5. QED
      BY <3>2, <3>4
  <2>3. QED
    BY <2>1, <2>2
<1>11. spoken \cup tools = S
  <2> HIDE DEF spoken, tools, out
  <2>1. QED
    BY <1>9, <1>10
<1>12. SortedBy(S, LAMBDA o : o.at) = out
  <2> HIDE DEF n, out
  <2>1. QED
    BY <1>4, <1>5, InPlace
<1>13. QED
  <2> HIDE DEF spoken, tools, S, out
  <2>1. CompletedOutput(t) = out
    BY <1>8, <1>11, <1>12
  <2>2. QED
    BY <2>1 DEF out

LEMMA CompletedIs ==
  ASSUME NEW t, NEW seen, NEW text, NEW frags, Tracks(t, seen, text, frags)
  PROVE  CompletedOutput(t) = OutputNow(seen, text, frags)
<1> DEFINE ev == t.events
           at == TextPlace(seen, text)
           calls == CallsNow(seen, frags)
<1>1. /\ Ledger(seen, text, frags)
      /\ t = Noted(Len(seen), at, text, calls, t.finish, ev)
  BY DEF Tracks
<1>2. /\ DOMAIN calls = Indices(frags)
      /\ \A i \in Indices(frags) : /\ calls[i].at = PlaceOf(seen, CallAt(i))
                                    /\ calls[i].name = NamesOf(frags, i)
                                    /\ calls[i].args = ArgsOf(frags, i)
  BY DEF CallsNow, CallNow, Known, KnownAs
<1> HIDE DEF ev, at, calls
<1>3. t.textAt = at /\ t.text = text /\ t.calls = calls
  BY <1>1, NotedFields
<1>4. QED
  BY <1>1, <1>2, <1>3, CompletedBy DEF at

(* What is listed is what was read, once all of it is done. *)
LEMMA OutputListed ==
  ASSUME NEW seen, NEW text, NEW frags, Ledger(seen, text, frags), NEW M, ToSet(seen) \subseteq M
  PROVE  Listed(OutputNow(seen, text, frags), ItemsTold(seen, text, frags, M))
<1> DEFINE out == OutputNow(seen, text, frags)
           items == ItemsTold(seen, text, frags, M)
           n == Len(seen)
<1>1. seen \in Seq(Mentions) /\ n \in Nat
  BY DEF Ledger
<1>2. \A k \in 1..n : seen[k] \in M
  BY <1>1 DEF ToSet
<1>3. /\ out = [k \in 1..n |-> out[k]] /\ DOMAIN out = 1..n
      /\ \A k \in 1..n : /\ out[k].at = k - 1 /\ out[k].id = IdOf(seen[k], frags)
                         /\ out[k].body = BodyOf(seen[k], text, frags)
  BY <1>1, OutputIs
<1>4. /\ items = [k \in 1..n |-> items[k]] /\ DOMAIN items = 1..n
      /\ \A k \in 1..n : items[k] = Finally(seen[k], text, frags)
  BY <1>2 DEF ItemsTold
<1>5. \A m : /\ Finally(m, text, frags).done /\ Finally(m, text, frags).id = IdOf(m, frags)
             /\ Finally(m, text, frags).body = BodyOf(m, text, frags)
  BY DEF Finally, Done, Entry
<1> HIDE DEF out, items
<1>6. ASSUME NEW f, f = [k \in 1..n |-> f[k]] PROVE Len(f) = n
  <2> DEFINE E == {f[k] : k \in 1..n}
  <2>1. f \in [1..n -> E]
    BY <1>6
  <2> HIDE DEF E, n
  <2>2. QED
    BY <1>1, <2>1, FunctionIsSequence
<1>7. Len(out) = n /\ Len(items) = n
  BY <1>3, <1>4, <1>6
<1>8. Listed(out, items)
  BY <1>3, <1>4, <1>5, <1>7 DEF Listed
<1>9. QED
  BY <1>8 DEF out, items

-----------------------------------------------------------------------------
(* The end of the stream: the last event lists what was read. *)
FinalEvent(id, output) == Event("completed", Unset, id, output)

Answers(ev, output) ==
  \E told \in Seq(ItemEvents) : \E items, id :
    ev = told \o <<FinalEvent(id, output)>> /\ ReadResponse(ev) = Reply("complete", items)

FailsAfter(ev, output) ==
  \E told \in Seq(ItemEvents) : \E items, id :
    /\ ev = (told \o <<FinalEvent(id, output)>>) \o <<ErrorIs>>
    /\ ReadResponse(ev) = Reply("complete", items)

FailsBefore(ev) == \E items : ReadResponse(ev) = Reply("broken", items)

LEMMA FinalAnswers ==
  ASSUME NEW told, NEW items, Tells(told, items), NEW output, Listed(output, items), NEW id
  PROVE  Answers(told \o <<FinalEvent(id, output)>>, output)
<1> DEFINE e == FinalEvent(id, output)
           E == ItemEvents \cup {e}
<1>1. told \in Seq(ItemEvents) /\ ReadResponse(told) = Reply("open", items)
  BY DEF Tells
<1>2. ResponseEvent(Reply("open", items), e) = Reply("complete", items)
  <2>1. ASSUME NEW at, NEW id1
        PROVE  ResponseEvent(Reply("open", items), Event("completed", at, id1, output))
                 = Reply("complete", items)
    BY AnswerEnds
  <2>2. QED
    BY <2>1, Zenon DEF e, FinalEvent
<1> HIDE DEF e
<1>3. told \in Seq(E) /\ e \in E
  <2>1. ItemEvents \subseteq E /\ e \in E
    OBVIOUS
  <2> HIDE DEF E
  <2>2. QED
    BY <1>1, <2>1
<1> HIDE DEF E
<1>4. ReadResponse(told \o <<e>>) = Reply("complete", items)
  <2>1. ReadResponse(told \o <<e>>) = ResponseEvent(ReadResponse(told), e)
    BY <1>3, AfterEvent
  <2>2. QED
    BY <1>1, <1>2, <2>1, Zenon
<1>5. QED
  BY <1>1, <1>4 DEF Answers, e

LEMMA ErrorFollows ==
  ASSUME NEW ev, NEW output
  PROVE  /\ Answers(ev, output) => FailsAfter(ev \o <<ErrorIs>>, output)
         /\ \A items : Tells(ev, items) => FailsBefore(ev \o <<ErrorIs>>)
<1>1. ASSUME NEW E, ErrorIs \in E, NEW s \in Seq(E)
      PROVE  ReadResponse(s \o <<ErrorIs>>) = ResponseEvent(ReadResponse(s), ErrorIs)
  BY <1>1, AfterEvent
<1>2. ASSUME Answers(ev, output) PROVE FailsAfter(ev \o <<ErrorIs>>, output)
  <2>0. PICK told \in Seq(ItemEvents) : \E items, id :
          ev = told \o <<FinalEvent(id, output)>> /\ ReadResponse(ev) = Reply("complete", items)
    BY <1>2 DEF Answers
  <2>1. PICK items, id :
          ev = told \o <<FinalEvent(id, output)>> /\ ReadResponse(ev) = Reply("complete", items)
    BY <2>0
  <2> DEFINE e == FinalEvent(id, output)
             E == ItemEvents \cup {e, ErrorIs}
  <2>2. ItemEvents \subseteq E /\ e \in E /\ ErrorIs \in E
    OBVIOUS
  <2>3. ev = told \o <<e>>
    BY <2>1
  <2> HIDE DEF e, E
  <2>4. ev \in Seq(E)
    <3>1. told \in Seq(E) /\ <<e>> \in Seq(E)
      BY <2>2
    <3>2. QED
      BY <2>3, <3>1
  <2>5. ReadResponse(ev \o <<ErrorIs>>) = Reply("complete", items)
    BY <1>1, <2>1, <2>2, <2>4, ReplyBreaks, Zenon
  <2>6. QED
    BY <2>3, <2>5 DEF FailsAfter, e
<1>3. ASSUME NEW items, Tells(ev, items) PROVE FailsBefore(ev \o <<ErrorIs>>)
  <2> DEFINE E == ItemEvents \cup {ErrorIs}
  <2>1. ItemEvents \subseteq E /\ ErrorIs \in E
    OBVIOUS
  <2> HIDE DEF E
  <2>2. ev \in Seq(E) /\ ReadResponse(ev) = Reply("open", items)
    BY <1>3, <2>1 DEF Tells
  <2>3. ReadResponse(ev \o <<ErrorIs>>) = Reply("broken", items)
    BY <1>1, <2>1, <2>2, ReplyBreaks, Zenon
  <2>4. QED
    BY <2>3 DEF FailsBefore
<1>4. QED
  BY <1>2, <1>3

LEMMA FourAssociate ==
  ASSUME NEW E, NEW a \in Seq(E), NEW b \in Seq(E), NEW c \in Seq(E), NEW d \in Seq(E)
  PROVE  a \o ((b \o c) \o d) = ((a \o b) \o c) \o d
<1>1. b \o c \in Seq(E) /\ a \o b \in Seq(E)
  OBVIOUS
<1>2. a \o ((b \o c) \o d) = (a \o (b \o c)) \o d
  BY <1>1, ConcatAssociates
<1>3. a \o (b \o c) = (a \o b) \o c
  BY ConcatAssociates
<1>4. QED
  BY <1>2, <1>3

LEMMA EndAnswers ==
  ASSUME NEW t, NEW said, Follows(t, said)
  PROVE  /\ "events" \in DOMAIN EndResponse(t)
         /\ Answers(EndResponse(t).events, ItemsOf(said))
<1> DEFINE seen == Appearances(said)
           text == TextOf(said)
           frags == FragmentsOf(said)
           ev == t.events
           a == TextDone(t)
           b == ToolsDone(t)
           output == OutputNow(seen, text, frags)
           e == FinalEvent(CreatedId, output)
           calls == CallsNow(seen, frags)
           at == TextPlace(seen, text)
           finish == t.finish
<1>1. Tracks(t, seen, text, frags)
  BY DEF Follows
<1>2. /\ Ledger(seen, text, frags) /\ ev \in Seq(ItemEvents)
      /\ t = Noted(Len(seen), at, text, calls, finish, ev)
  BY <1>1 DEF Tracks
<1>3. CompletedOutput(t) = output
  <2> HIDE DEF seen, text, frags
  <2>1. QED
    BY <1>1, CompletedIs
<1>4. ItemsOf(said) = output
  <2>1. Appearances(said) \in Seq(Mentions)
    BY <1>2 DEF Ledger
  <2>2. QED
    BY <2>1, ItemsOfIs
<1> HIDE DEF seen, text, frags
<1>5. a \in Seq(ItemEvents) /\ b \in Seq(ItemEvents)
  BY <1>1, TextEnds, ToolsEnd
<1>6. PICK M : Tells((ev \o a) \o b, ItemsTold(seen, text, frags, M)) /\ ToSet(seen) \subseteq M
  BY <1>1, ToolsEnd
<1>7. Listed(output, ItemsTold(seen, text, frags, M))
  BY <1>2, <1>6, OutputListed
<1> HIDE DEF output
<1>8. Answers(((ev \o a) \o b) \o <<e>>, output)
  <2> DEFINE told == (ev \o a) \o b
             items == ItemsTold(seen, text, frags, M)
  <2>1. Tells(told, items) /\ Listed(output, items)
    BY <1>6, <1>7
  <2> HIDE DEF told, items
  <2>2. Answers(told \o <<FinalEvent(CreatedId, output)>>, output)
    BY <2>1, FinalAnswers
  <2>3. QED
    BY <2>2 DEF told
<1>9. Completed(t, CreatedId) = <<e>>
  BY <1>3 DEF Completed, FinalEvent
<1>10. ev \o ((a \o b) \o <<e>>) = ((ev \o a) \o b) \o <<e>>
  <2> DEFINE E == ItemEvents \cup {e}
  <2>1. ItemEvents \subseteq E /\ e \in E
    OBVIOUS
  <2> HIDE DEF E, e, a, b, ev
  <2>2. ev \in Seq(E) /\ a \in Seq(E) /\ b \in Seq(E) /\ <<e>> \in Seq(E)
    BY <1>2, <1>5, <2>1
  <2>3. QED
    BY <2>2, FourAssociate
<1> DEFINE x == (a \o b) \o <<e>>
<1>11. EndResponse(t) = Emit(t, x)
  <2> HIDE DEF a, b, e
  <2>1. EndResponse(t) = Emit(t, (a \o b) \o Completed(t, CreatedId))
    BY DEF EndResponse, a, b
  <2>2. QED
    BY <1>9, <2>1
<1> HIDE DEF x, at, calls, finish, ev
<1>12. Emit(t, x) = Noted(Len(seen), at, text, calls, finish, ev \o x)
  BY <1>2, NotedEvents
<1>13. EndResponse(t).events = ev \o x /\ "events" \in DOMAIN EndResponse(t)
  <2> DEFINE y == ev \o x
             n == Len(seen)
  <2> HIDE DEF y, n
  <2>1. /\ Noted(n, at, text, calls, finish, y).events = y
        /\ "events" \in DOMAIN Noted(n, at, text, calls, finish, y)
    BY DEF Noted
  <2>2. QED
    BY <1>11, <1>12, <2>1 DEF y, n
<1>14. QED
  BY <1>4, <1>8, <1>10, <1>13 DEF x, ev

(* The completion is the only one of its kind. *)
LEMMA LastCompleted ==
  ASSUME NEW ev, NEW output, Answers(ev, output) \/ FailsAfter(ev, output)
  PROVE  ev[SelectLastInSeq(ev, LAMBDA e : e.kind = "completed")].body = output
<1>a. PICK told \in Seq(ItemEvents) : \E id :
        \/ ev = told \o <<FinalEvent(id, output)>>
        \/ ev = (told \o <<FinalEvent(id, output)>>) \o <<ErrorIs>>
  BY DEF Answers, FailsAfter
<1>0. PICK id :
        \/ ev = told \o <<FinalEvent(id, output)>>
        \/ ev = (told \o <<FinalEvent(id, output)>>) \o <<ErrorIs>>
  BY <1>a
<1> DEFINE x == FinalEvent(id, output)
           E == ItemEvents \cup {x, ErrorIs}
<1>1. x.kind = "completed" /\ x.body = output
  BY DEF FinalEvent, Event
<1>2. ErrorIs.kind # "completed"
  BY DEF ErrorIs, Plainly, Event
<1>3. ItemEvents \subseteq E /\ x \in E /\ ErrorIs \in E
  OBVIOUS
<1>4. \A e \in ItemEvents : e.kind # "completed"
  BY DEF ItemEvents, ItemKinds
<1>5. ev = told \o <<x>> \/ ev = (told \o <<x>>) \o <<ErrorIs>>
  BY <1>0
<1> HIDE DEF x, E
<1> DEFINE n == Len(told)
           I == {i \in 1..Len(ev) : ev[i].kind = "completed"}
<1>6. n \in Nat /\ (\A k \in 1..n : told[k] \in ItemEvents) /\ told \in Seq(E)
  BY <1>3
<1>7. /\ n + 1 \in 1..Len(ev) /\ ev[n + 1] = x /\ Len(ev) \in Nat
      /\ \A k \in 1..Len(ev) : k # n + 1 => ev[k].kind # "completed"
  <2>1. told \o <<x>> = Append(told, x) /\ Append(told, x) \in Seq(E)
        /\ Append(told, x) \o <<ErrorIs>> = Append(Append(told, x), ErrorIs)
    BY <1>3, <1>6, AppendIsConcat
  <2> DEFINE one == Append(told, x)
             two == Append(one, ErrorIs)
  <2>2. /\ Len(one) = n + 1 /\ one[n + 1] = x /\ \A k \in 1..n : one[k] = told[k]
    BY <1>3, <1>6
  <2>3. one \in Seq(E)
    BY <2>1
  <2> HIDE DEF one, n
  <2>4. /\ Len(two) = n + 2 /\ two[n + 2] = ErrorIs
        /\ \A k \in 1..n + 1 : two[k] = one[k]
    BY <1>3, <1>6, <2>2, <2>3
  <2>5. ev = one \/ ev = two
    BY <1>5, <2>1 DEF one
  <2> HIDE DEF two
  <2>6. CASE ev = one
    <3>1. \A k \in 1..n + 1 : k # n + 1 => k \in 1..n
      BY <1>6
    <3>2. QED
      BY <1>4, <1>6, <2>2, <2>6, <3>1
  <2>7. CASE ev = two
    <3>1. \A k \in 1..n + 2 : k # n + 1 => k \in 1..n \/ k = n + 2
      BY <1>6
    <3>2. \A k \in 1..n : two[k] = told[k]
      BY <1>6, <2>2, <2>4
    <3>3. two[n + 1] = x /\ n + 1 \in 1..n + 2 /\ n + 2 \in Nat
      BY <1>6, <2>2, <2>4
    <3>4. QED
      BY <1>2, <1>4, <1>6, <2>4, <2>7, <3>1, <3>2, <3>3
  <2>8. QED
    BY <2>5, <2>6, <2>7
<1> HIDE DEF n
<1>8. I = {n + 1}
  BY <1>1, <1>7
<1>9. Max(I) = n + 1
  BY <1>7, <1>8 DEF Max
<1>10. SelectLastInSeq(ev, LAMBDA e : e.kind = "completed") = n + 1
  BY <1>8, <1>9 DEF SelectLastInSeq
<1>11. QED
  BY <1>1, <1>7, <1>10

-----------------------------------------------------------------------------
(* A whole completion: each call from its addition to its end. *)
CallWhole(at, id, args) ==
  <<Event("item_added", at, id, args), Event("args_delta", at, id, args),
    Event("args_done", at, id, args), Event("item_done", at, id, args)>>

LEMMA LastPlaced ==
  ASSUME NEW items \in Seq(ItemSet), NEW at, at = Len(items), NEW id \in OutputIds,
         NEW body \in Seq(Pieces)
  PROVE  /\ Placed(Append(items, Open(id, body)), at, id, body)
         /\ \A new \in Seq(Pieces) :
              /\ At(Append(items, Open(id, body)), at + 1, Open(id, new))
                   = Append(items, Open(id, new))
              /\ At(Append(items, Open(id, body)), at + 1, Done(id, new))
                   = Append(items, Done(id, new))
<1>1. ASSUME NEW b \in Seq(Pieces) PROVE Open(id, b) \in ItemSet /\ Done(id, b) \in ItemSet
  BY DEF Open, Done, Entry, ItemSet, OutputIds
<1> DEFINE x == Open(id, body)
<1>2. x \in ItemSet
  BY <1>1
<1>3. ASSUME NEW y \in ItemSet PROVE At(Append(items, x), at + 1, y) = Append(items, y)
  <2> HIDE DEF x
  <2>1. QED
    BY <1>2, <1>3, LastReplaced
<1>4. at + 1 \in DOMAIN Append(items, x) /\ Append(items, x)[at + 1] = x
  <2> HIDE DEF x
  <2>1. QED
    BY <1>2
<1>5. Placed(Append(items, x), at, id, body)
  BY <1>4 DEF Placed
<1>6. ASSUME NEW new \in Seq(Pieces)
      PROVE  /\ At(Append(items, x), at + 1, Open(id, new)) = Append(items, Open(id, new))
             /\ At(Append(items, x), at + 1, Done(id, new)) = Append(items, Done(id, new))
  <2> HIDE DEF x
  <2>1. Open(id, new) \in ItemSet /\ Done(id, new) \in ItemSet
    BY <1>1
  <2>2. QED
    BY <1>3, <2>1
<1>7. QED
  BY <1>5, <1>6

LEMMA FourTell ==
  ASSUME NEW ev \in Seq(ItemEvents), NEW a \in ItemEvents, NEW b \in ItemEvents,
         NEW c \in ItemEvents, NEW d \in ItemEvents, NEW items,
         Tells((ev \o <<a, b>>) \o <<c, d>>, items)
  PROVE  Tells(ev \o <<a, b, c, d>>, items) /\ <<a, b, c, d>> \in Seq(ItemEvents)
<1> DEFINE before == ev \o <<a, b>>
<1>1. /\ <<a, b>> \in Seq(ItemEvents) /\ <<a, b, c>> \in Seq(ItemEvents)
      /\ <<a, b, c, d>> \in Seq(ItemEvents)
      /\ <<a, b, c>> = Append(<<a, b>>, c) /\ <<a, b, c, d>> = Append(<<a, b, c>>, d)
      /\ before \in Seq(ItemEvents)
  OBVIOUS
<1>2. ev \o Append(<<a, b>>, c) = Append(before, c)
  BY <1>1, AppendToConcat
<1>3. ev \o Append(<<a, b, c>>, d) = Append(ev \o <<a, b, c>>, d)
  BY <1>1, AppendToConcat
<1>4. ev \o <<a, b, c, d>> = Append(Append(before, c), d)
  BY <1>1, <1>2, <1>3
<1> HIDE DEF before
<1>5. before \o <<c>> = Append(before, c) /\ Append(before, c) \in Seq(ItemEvents)
  BY <1>1, AppendIsConcat
<1>6. Append(before, c) \o <<d>> = Append(Append(before, c), d)
  BY <1>5, AppendIsConcat
<1>7. (before \o <<c>>) \o <<d>> = before \o <<c, d>>
  BY <1>1, OneByOne
<1>8. before \o <<c, d>> = ev \o <<a, b, c, d>>
  BY <1>4, <1>5, <1>6, <1>7
<1>9. Tells(before \o <<c, d>>, items)
  BY DEF before
<1>10. QED
  BY <1>1, <1>8, <1>9

LEMMA WholeCallTells ==
  ASSUME NEW ev, NEW items \in Seq(ItemSet), Tells(ev, items), NEW at, at = Len(items),
         NEW id \in OutputIds, NEW args \in Seq(Pieces)
  PROVE  /\ Tells(ev \o CallWhole(at, id, args), Append(items, Done(id, args)))
         /\ CallWhole(at, id, args) \in Seq(ItemEvents)
<1> DEFINE a == Event("item_added", at, id, args)
           b == Event("args_delta", at, id, args)
           c == Event("args_done", at, id, args)
           d == Event("item_done", at, id, args)
           one == Append(items, Open(id, <<>>))
           two == Append(items, Open(id, args))
           three == Append(items, Done(id, args))
<1>1. ev \in Seq(ItemEvents) /\ ReadResponse(ev) = Reply("open", items)
  BY DEF Tells
<1>2. at \in Int /\ <<>> \in Seq(Pieces)
  OBVIOUS
<1>3. a \in ItemEvents /\ b \in ItemEvents /\ c \in ItemEvents /\ d \in ItemEvents
  <2>1. ASSUME NEW body \in Seq(Pieces), NEW kind \in ItemKinds
        PROVE  Event(kind, at, id, body) \in ItemEvents
    BY <1>2, ItemEventType
  <2>2. QED
    BY <1>2, <2>1 DEF ItemKinds
<1>4. ResponseEvent(Reply("open", items), a) = Reply("open", one)
  <2>1. ASSUME NEW none
        PROVE  ResponseEvent(Reply("open", items), Event("item_added", at, id, none))
                 = Reply("open", Append(items, Fresh(id)))
    BY ItemAdded
  <2>2. Fresh(id) = Open(id, <<>>)
    BY DEF Fresh, Open, Empty
  <2>3. QED
    BY <2>1, <2>2, Zenon
<1>5. Placed(one, at, id, <<>>) /\ At(one, at + 1, Open(id, args)) = two
  BY <1>2, LastPlaced
<1>6. Placed(two, at, id, args) /\ At(two, at + 1, Done(id, args)) = three
  BY LastPlaced
<1>7. ResponseEvent(Reply("open", one), b) = Reply("open", two)
  <2>1. ASSUME NEW none, none = <<>>
        PROVE  ResponseEvent(Reply("open", one), b) = Reply("open", At(one, at + 1, Open(id, none \o args)))
    <3> HIDE DEF one
    <3>1. Placed(one, at, id, none)
      BY <1>5, <2>1
    <3>2. QED
      BY <3>1, ItemGrows
  <2>2. <<>> \o args = args
    OBVIOUS
  <2>3. QED
    BY <1>5, <2>1, <2>2, Zenon
<1> HIDE DEF one, two, three
<1>8. Tells(ev \o <<a, b>>, two)
  <2> HIDE DEF a, b
  <2>1. /\ ReadResponse(ev \o <<a, b>>) = ResponseEvent(ResponseEvent(ReadResponse(ev), a), b)
        /\ ev \o <<a, b>> \in Seq(ItemEvents)
    BY <1>1, <1>3, AfterEvents
  <2>2. QED
    BY <1>1, <1>4, <1>7, <2>1, Zenon DEF Tells
<1>9. Tells((ev \o <<a, b>>) \o <<c, d>>, three)
  <2> DEFINE before == ev \o <<a, b>>
  <2>1. Tells(before, two) /\ CallEnds(at, id, args) = <<c, d>>
    BY <1>8 DEF CallEnds
  <2> HIDE DEF before, c, d
  <2>2. Tells(before \o CallEnds(at, id, args), At(two, at + 1, Done(id, args)))
    BY <1>2, <1>6, <2>1, EndsTell
  <2>3. QED
    BY <1>6, <2>1, <2>2, Zenon DEF before
<1> HIDE DEF a, b, c, d
<1>10. Tells(ev \o <<a, b, c, d>>, three) /\ <<a, b, c, d>> \in Seq(ItemEvents)
  BY <1>1, <1>3, <1>9, FourTell
<1>12. CallWhole(at, id, args) = <<a, b, c, d>>
  BY DEF CallWhole, a, b, c, d
<1>13. QED
  BY <1>10, <1>12, Zenon DEF three

-----------------------------------------------------------------------------
(* The calls of a whole completion: each of them is one fragment. *)
Distinct(s) == \A j, k \in 1..Len(s) : s[j].index = s[k].index => j = k

Alone(s) ==
  \A k \in 1..Len(s) : /\ NamesOf(s, s[k].index) = s[k].name
                       /\ ArgsOf(s, s[k].index) = s[k].args

Lined(heard, seen, s) ==
  /\ seen \in Seq(Mentions) /\ Len(seen) = Len(heard) + Len(s)
  /\ \A j \in 1..Len(heard) : seen[j] = heard[j]
  /\ \A k \in 1..Len(s) : seen[Len(heard) + k] = CallAt(s[k].index)

LEMMA DistinctMore ==
  ASSUME NEW s \in Seq(Fragments), NEW f \in Fragments, Distinct(Append(s, f))
  PROVE  /\ Distinct(s) /\ \A k \in 1..Len(s) : s[k].index # f.index
         /\ f.index \notin Indices(s)
<1> DEFINE more == Append(s, f)
           n == Len(s)
<1>1. /\ n \in Nat /\ Len(more) = n + 1 /\ more[n + 1] = f
      /\ \A k \in 1..n : more[k] = s[k]
  OBVIOUS
<1>2. \A j, k \in 1..n + 1 : more[j].index = more[k].index => j = k
  BY <1>1 DEF Distinct
<1> HIDE DEF more
<1>3. Distinct(s) /\ \A k \in 1..n : s[k].index # f.index
  <2>1. \A k \in 1..n : k \in 1..n + 1 /\ k # n + 1
    BY <1>1
  <2>2. n + 1 \in 1..n + 1
    BY <1>1
  <2>3. QED
    BY <1>1, <1>2, <2>1, <2>2 DEF Distinct
<1>4. f.index \notin Indices(s)
  BY <1>3 DEF Indices, ToSet
<1>5. QED
  BY <1>3, <1>4

LEMMA AloneMore ==
  ASSUME NEW s \in Seq(Fragments), NEW f \in Fragments, Distinct(Append(s, f)), Alone(s)
  PROVE  Alone(Append(s, f))
<1> DEFINE more == Append(s, f)
           n == Len(s)
<1>1. /\ n \in Nat /\ Len(more) = n + 1 /\ more[n + 1] = f
      /\ \A k \in 1..n : more[k] = s[k]
  OBVIOUS
<1>2. (\A k \in 1..n : s[k].index # f.index) /\ f.index \notin Indices(s)
  BY DistinctMore
<1>3. /\ f.name \in Seq(Pieces) /\ f.args \in Seq(Pieces)
      /\ \A x \in Seq(Pieces) : x \o <<>> = x /\ <<>> \o x = x
  BY DEF Fragments
<1>4. \A i : /\ NamesOf(more, i) = NamesOf(s, i) \o Mine(f, i, f.name)
             /\ ArgsOf(more, i) = ArgsOf(s, i) \o Mine(f, i, f.args)
             /\ NamesOf(s, i) \in Seq(Pieces) /\ ArgsOf(s, i) \in Seq(Pieces)
  BY NamesMore
<1> HIDE DEF more
<1>5. ASSUME NEW k \in 1..n
      PROVE  /\ NamesOf(more, more[k].index) = more[k].name
             /\ ArgsOf(more, more[k].index) = more[k].args
  <2> DEFINE i == s[k].index
  <2>1. NamesOf(s, i) = s[k].name /\ ArgsOf(s, i) = s[k].args
    BY DEF Alone
  <2>2. Mine(f, i, f.name) = <<>> /\ Mine(f, i, f.args) = <<>>
    BY <1>2 DEF Mine
  <2>3. more[k] = s[k]
    BY <1>1
  <2> HIDE DEF i
  <2>4. NamesOf(more, i) = NamesOf(s, i) /\ ArgsOf(more, i) = ArgsOf(s, i)
    BY <1>3, <1>4, <2>2
  <2>5. QED
    BY <2>1, <2>3, <2>4 DEF i
<1>6. /\ NamesOf(more, f.index) = f.name /\ ArgsOf(more, f.index) = f.args
  <2> DEFINE i == f.index
  <2>1. NamesOf(s, i) = <<>> /\ ArgsOf(s, i) = <<>>
    BY <1>2, NamesNone
  <2>2. Mine(f, i, f.name) = f.name /\ Mine(f, i, f.args) = f.args
    BY DEF Mine
  <2> HIDE DEF i
  <2>3. NamesOf(more, i) = f.name /\ ArgsOf(more, i) = f.args
    BY <1>3, <1>4, <2>1, <2>2
  <2>4. QED
    BY <2>3 DEF i
<1>7. \A k \in 1..n + 1 : k \in 1..n \/ k = n + 1
  BY <1>1
<1>8. QED
  BY <1>1, <1>5, <1>6, <1>7, Zenon DEF Alone, more

LEMMA LinedMore ==
  ASSUME NEW heard \in Seq({Speech}), NEW seen, NEW s \in Seq(Fragments), NEW f \in Fragments,
         Lined(heard, seen, s), Distinct(Append(s, f))
  PROVE  Lined(heard, CallNoticed(seen, f), Append(s, f))
<1> DEFINE more == Append(s, f)
           n == Len(s)
           m == Len(heard)
           x == CallAt(f.index)
           new == Append(seen, x)
<1>1. /\ n \in Nat /\ Len(more) = n + 1 /\ more[n + 1] = f
      /\ \A k \in 1..n : more[k] = s[k]
  OBVIOUS
<1>2. m \in Nat /\ \A j \in 1..m : heard[j] = Speech
  OBVIOUS
<1>3. \A k \in 1..n : s[k].index # f.index
  BY DistinctMore
<1>4. /\ seen \in Seq(Mentions) /\ Len(seen) = m + n
      /\ \A j \in 1..m : seen[j] = heard[j]
      /\ \A k \in 1..n : seen[m + k] = CallAt(s[k].index)
  BY DEF Lined
<1>5. x \in Mentions
  BY DEF Mentions, Fragments
<1>6. x \notin ToSet(seen)
  <2>1. ASSUME NEW j \in 1..Len(seen) PROVE seen[j] # x
    <3>1. CASE j \in 1..m
      BY <1>2, <1>4, <3>1, MentionIs
    <3>2. CASE j \notin 1..m
      <4>1. j - m \in 1..n /\ m + (j - m) = j
        BY <1>1, <1>2, <1>4, <3>2
      <4>2. seen[j] = CallAt(s[j - m].index)
        BY <1>4, <4>1
      <4>3. QED
        BY <1>3, <4>1, <4>2, MentionIs
    <3>3. QED
      BY <3>1, <3>2
  <2> HIDE DEF x
  <2>2. QED
    BY <1>4, <2>1 DEF ToSet
<1>7. CallNoticed(seen, f) = new
  BY <1>6 DEF CallNoticed, Noticed
<1> HIDE DEF more, x, n, m
<1>8. /\ new \in Seq(Mentions) /\ Len(new) = m + (n + 1) /\ new[m + (n + 1)] = x
      /\ \A j \in 1..(m + n) : new[j] = seen[j]
  BY <1>1, <1>2, <1>4, <1>5
<1>9. /\ \A j \in 1..m : j \in 1..(m + n)
      /\ \A k \in 1..n : m + k \in 1..(m + n)
      /\ \A k \in 1..n + 1 : k \in 1..n \/ k = n + 1
  BY <1>1, <1>2
<1> HIDE DEF new
<1>10. \A j \in 1..m : new[j] = heard[j]
  BY <1>4, <1>8, <1>9
<1>11. ASSUME NEW k \in 1..n + 1 PROVE new[m + k] = CallAt(more[k].index)
  <2>1. CASE k \in 1..n
    BY <1>1, <1>4, <1>8, <1>9, <2>1
  <2>2. CASE k = n + 1
    BY <1>1, <1>8, <2>2 DEF x
  <2>3. QED
    BY <1>9, <2>1, <2>2
<1>12. Lined(heard, new, more)
  BY <1>1, <1>8, <1>10, <1>11 DEF Lined, m, n
<1>13. QED
  BY <1>7, <1>12 DEF more

LEMMA CallsInLine ==
  ASSUME NEW heard \in Seq({Speech}), NEW cs \in Seq(Fragments), Distinct(cs)
  PROVE  Alone(cs) /\ Lined(heard, CallsNoticed(heard, cs), cs)
<1> DEFINE Good == {s \in Seq(Fragments) :
                      Distinct(s) => Alone(s) /\ Lined(heard, CallsNoticed(heard, s), s)}
<1>1. <<>> \in Good
  <2>1. <<>> \in Seq(Fragments) /\ Len(<<>>) = 0
    OBVIOUS
  <2>2. CallsNoticed(heard, <<>>) = heard
    BY CallsNoticedMore
  <2>3. Speech \in Mentions
    BY DEF Mentions
  <2>4. heard \in Seq(Mentions) /\ Len(heard) + 0 = Len(heard)
    BY <2>3
  <2>5. ASSUME NEW none, none = <<>> PROVE Alone(none) /\ Lined(heard, heard, none)
    BY <2>4, <2>5 DEF Alone, Lined
  <2>6. QED
    BY <2>1, <2>2, <2>5
<1>2. ASSUME NEW s \in Seq(Fragments), NEW f \in Fragments, s \in Good
      PROVE  Append(s, f) \in Good
  <2>1. SUFFICES ASSUME Distinct(Append(s, f))
                 PROVE  /\ Alone(Append(s, f))
                        /\ Lined(heard, CallsNoticed(heard, Append(s, f)), Append(s, f))
    OBVIOUS
  <2>2. Alone(s) /\ Lined(heard, CallsNoticed(heard, s), s)
    BY <1>2, <2>1, DistinctMore
  <2>3. CallsNoticed(heard, Append(s, f)) = CallNoticed(CallsNoticed(heard, s), f)
    BY CallsNoticedMore
  <2>4. Alone(Append(s, f))
    BY <2>1, <2>2, AloneMore
  <2>5. Lined(heard, CallNoticed(CallsNoticed(heard, s), f), Append(s, f))
    <3> DEFINE seen == CallsNoticed(heard, s)
    <3>1. Lined(heard, seen, s)
      BY <2>2
    <3> HIDE DEF seen
    <3>2. Lined(heard, CallNoticed(seen, f), Append(s, f))
      BY <2>1, <3>1, LinedMore
    <3>3. QED
      BY <3>2 DEF seen
  <2>6. QED
    BY <2>3, <2>4, <2>5
<1>3. Seq(Fragments) \subseteq Good
  <2> HIDE DEF Good
  <2>1. QED
    BY <1>1, <1>2, SeqInduction
<1>4. QED
  BY <1>3

-----------------------------------------------------------------------------
WholeItems(seen, text, frags, n) == [j \in 1..n |-> Finally(seen[j], text, frags)]

LEMMA WholeItemsMore ==
  ASSUME NEW seen \in Seq(Mentions), NEW text \in Seq(Pieces), NEW frags \in Seq(Fragments),
         NEW n \in Nat
  PROVE  /\ WholeItems(seen, text, frags, n) \in Seq(ItemSet)
         /\ Len(WholeItems(seen, text, frags, n)) = n
         /\ WholeItems(seen, text, frags, n + 1)
              = Append(WholeItems(seen, text, frags, n), Finally(seen[n + 1], text, frags))
<1> DEFINE items == WholeItems(seen, text, frags, n)
           more == WholeItems(seen, text, frags, n + 1)
           x == Finally(seen[n + 1], text, frags)
           app == Append(items, x)
<1>1. \A m : Finally(m, text, frags) \in ItemSet
  <2>1. ASSUME NEW m PROVE Finally(m, text, frags) \in ItemSet
    <3>1. IdOf(m, frags) \in OutputIds /\ BodyOf(m, text, frags) \in Seq(Pieces)
      BY IdType
    <3>2. QED
      BY <3>1 DEF Finally, Done, Entry, ItemSet, OutputIds
  <2>2. QED
    BY <2>1
<1>2. /\ items \in [1..n -> ItemSet] /\ \A j \in 1..n : items[j] = Finally(seen[j], text, frags)
  BY <1>1 DEF WholeItems
<1>3. /\ more \in [1..n + 1 -> ItemSet]
      /\ \A j \in 1..n + 1 : more[j] = Finally(seen[j], text, frags)
  BY <1>1 DEF WholeItems
<1>4. x \in ItemSet
  BY <1>1
<1>5. more[n + 1] = x
  BY <1>3
<1> HIDE DEF items, more, x
<1>6. items \in Seq(ItemSet) /\ Len(items) = n
  BY <1>2, FunctionIsSequence
<1>7. n + 1 \in Nat
  OBVIOUS
<1>8. more \in Seq(ItemSet) /\ Len(more) = n + 1
  <2> DEFINE l == n + 1
  <2>1. l \in Nat /\ more \in [1..l -> ItemSet]
    BY <1>3, <1>7
  <2> HIDE DEF l
  <2>2. more \in Seq(ItemSet) /\ Len(more) = l
    BY <2>1, FunctionIsSequence
  <2>3. QED
    BY <2>2 DEF l
<1>9. /\ app \in Seq(ItemSet) /\ Len(app) = n + 1 /\ app[n + 1] = x
      /\ \A j \in 1..n : app[j] = items[j]
  BY <1>4, <1>6
<1> HIDE DEF app
<1>10. ASSUME NEW j \in 1..n + 1 PROVE more[j] = app[j]
  <2>1. j \in 1..n \/ j = n + 1
    OBVIOUS
  <2>2. QED
    BY <1>2, <1>3, <1>5, <1>9, <2>1
<1>11. more = app
  BY <1>8, <1>9, <1>10
<1>12. QED
  BY <1>6, <1>11 DEF items, more, app, x

(* The calls one after the other. *)
CallList(cs, m) ==
  [k \in 1..Len(cs) |-> CallWhole(m + k - 1, ItemId(cs[k].name), cs[k].args)]

LEMMA WholeCallsTell ==
  ASSUME NEW heard \in Seq({Speech}), NEW seen, NEW text \in Seq(Pieces),
         NEW cs \in Seq(Fragments), Alone(cs), Lined(heard, seen, cs),
         NEW ev, Tells(ev, WholeItems(seen, text, cs, Len(heard)))
  PROVE  /\ Tells(ev \o FlattenSeq(CallList(cs, Len(heard))),
                  WholeItems(seen, text, cs, Len(heard) + Len(cs)))
         /\ FlattenSeq(CallList(cs, Len(heard))) \in Seq(ItemEvents)
<1> DEFINE n == Len(cs)
           m == Len(heard)
           s == CallList(cs, m)
<1>1. /\ n \in Nat /\ m \in Nat /\ \A k \in 1..n : cs[k] \in Fragments
  OBVIOUS
<1>2. /\ seen \in Seq(Mentions) /\ Len(seen) = m + n
      /\ \A k \in 1..n : seen[m + k] = CallAt(cs[k].index)
  BY DEF Lined
<1>3. \A k \in 1..n : /\ NamesOf(cs, cs[k].index) = cs[k].name
                      /\ ArgsOf(cs, cs[k].index) = cs[k].args
  BY DEF Alone
<1>a. Tells(ev, WholeItems(seen, text, cs, m))
  OBVIOUS
<1> HIDE DEF n, m
<1> DEFINE at(k) == m + k - 1
           id(k) == ItemId(cs[k].name)
           args(k) == cs[k].args
           items(k) == WholeItems(seen, text, cs, m + k)
<1>4. \A name : ItemId(name) \in OutputIds
  BY DEF ItemId, OutputIds
<1>5. ASSUME NEW k \in 1..n
      PROVE  at(k) \in Nat /\ id(k) \in OutputIds /\ args(k) \in Seq(Pieces)
  <2>1. args(k) \in Seq(Pieces)
    BY <1>1 DEF Fragments
  <2>2. QED
    BY <1>1, <1>4, <2>1
<1>6. ASSUME NEW k \in 1..n PROVE Finally(seen[m + k], text, cs) = Done(id(k), args(k))
  BY <1>2, <1>3, MentionIs DEF Finally, IdOf, BodyOf
<1>7. ASSUME NEW k \in 1..n
      PROVE  /\ items(k - 1) \in Seq(ItemSet) /\ at(k) = Len(items(k - 1))
             /\ items(k) = Append(items(k - 1), Done(id(k), args(k)))
  <2> DEFINE l == m + (k - 1)
  <2>1. l \in Nat /\ l + 1 = m + k /\ l = at(k)
    BY <1>1
  <2>2. /\ items(k - 1) = WholeItems(seen, text, cs, l)
        /\ items(k) = WholeItems(seen, text, cs, l + 1)
    BY <2>1
  <2>3. Finally(seen[l + 1], text, cs) = Done(id(k), args(k))
    BY <1>6, <2>1
  <2> HIDE DEF l, items, at, id, args
  <2>4. /\ WholeItems(seen, text, cs, l) \in Seq(ItemSet)
        /\ Len(WholeItems(seen, text, cs, l)) = l
        /\ WholeItems(seen, text, cs, l + 1)
             = Append(WholeItems(seen, text, cs, l), Finally(seen[l + 1], text, cs))
    BY <1>2, <2>1, WholeItemsMore
  <2>5. QED
    BY <2>1, <2>2, <2>3, <2>4
<1>8. /\ \A k \in 1..n : s[k] = CallWhole(at(k), id(k), args(k))
      /\ DOMAIN s = 1..n /\ s = [k \in 1..n |-> s[k]]
  BY DEF CallList, n
<1> HIDE DEF at, id, args, items, s
<1>9. s \in [1..n -> Seq(ItemEvents)]
  <2>1. ASSUME NEW at1 \in Int, NEW id1 \in OutputIds, NEW args1 \in Seq(Pieces)
        PROVE  CallWhole(at1, id1, args1) \in Seq(ItemEvents)
    <3> DEFINE a == Event("item_added", at1, id1, args1)
               b == Event("args_delta", at1, id1, args1)
               c == Event("args_done", at1, id1, args1)
               d == Event("item_done", at1, id1, args1)
    <3>1. a \in ItemEvents
      BY ItemEventType DEF ItemKinds
    <3>2. b \in ItemEvents /\ c \in ItemEvents /\ d \in ItemEvents
      BY ItemEventType DEF ItemKinds
    <3> HIDE DEF a, b, c, d
    <3>3. <<a, b, c, d>> \in Seq(ItemEvents)
      BY <3>1, <3>2
    <3>4. QED
      BY <3>3 DEF CallWhole, a, b, c, d
  <2>2. \A k \in 1..n : s[k] \in Seq(ItemEvents)
    BY <1>5, <1>8, <2>1
  <2>3. QED
    BY <1>8, <2>2
<1>10. PICK h : Flattens(h, s, n, ItemEvents)
  BY <1>1, <1>9, Flattening
<1>11. /\ h \in [0..n -> Seq(ItemEvents)] /\ h[0] = <<>> /\ FlattenSeq(s) = h[n]
       /\ \A k \in 1..n : h[k] = h[k - 1] \o s[k]
  BY <1>10, Zenon DEF Flattens
<1> DEFINE Good == {k \in 0..n : Tells(ev \o h[k], items(k))}
<1>12. 0 \in Good
  <2>1. ev \in Seq(ItemEvents)
    BY DEF Tells
  <2>2. ev \o h[0] = ev /\ 0 \in 0..n /\ m + 0 = m
    BY <1>1, <1>11, <2>1
  <2>3. QED
    BY <1>a, <2>2 DEF items
<1>13. ASSUME NEW k \in 1..n, k - 1 \in Good PROVE k \in Good
  <2> DEFINE before == ev \o h[k - 1]
             x == s[k]
             p == at(k)
             q == id(k)
             r == args(k)
             old == items(k - 1)
  <2>0. k - 1 \in 0..n /\ k \in 0..n
    BY <1>1
  <2>1. Tells(before, old)
    BY <1>13
  <2>2. /\ old \in Seq(ItemSet) /\ p = Len(old) /\ q \in OutputIds /\ r \in Seq(Pieces)
        /\ x = CallWhole(p, q, r) /\ items(k) = Append(old, Done(q, r))
    BY <1>5, <1>7, <1>8
  <2>3. ev \o h[k] = before \o x
    <3>1. ev \in Seq(ItemEvents) /\ h[k - 1] \in Seq(ItemEvents) /\ x \in Seq(ItemEvents)
      BY <1>9, <1>11, <2>0 DEF Tells
    <3>2. h[k] = h[k - 1] \o x
      BY <1>11
    <3> HIDE DEF x
    <3>3. ev \o (h[k - 1] \o x) = (ev \o h[k - 1]) \o x
      BY <3>1, EventsAssociate, Zenon
    <3>4. QED
      BY <3>2, <3>3
  <2> HIDE DEF before, x, p, q, r, old
  <2>4. Tells(before \o CallWhole(p, q, r), Append(old, Done(q, r)))
    BY <2>1, <2>2, WholeCallTells
  <2>5. Tells(ev \o h[k], items(k))
    BY <2>2, <2>3, <2>4
  <2>6. QED
    BY <2>0, <2>5
<1>14. n \in Good
  <2> HIDE DEF Good
  <2>1. \A k \in 0..n : k \in Good
    BY <1>1, <1>12, <1>13, StepInduction
  <2>2. n \in 0..n
    BY <1>1
  <2>3. QED
    BY <2>1, <2>2
<1>15. Tells(ev \o FlattenSeq(s), items(n))
  BY <1>11, <1>14
<1>16. FlattenSeq(s) \in Seq(ItemEvents)
  BY <1>1, <1>9, FlattenType
<1>17. QED
  BY <1>15, <1>16 DEF items, s, n, m

-----------------------------------------------------------------------------
HeardText(text) == IF text = <<>> THEN <<>> ELSE <<Speech>>

LEMMA NotedSame ==
  \A n1, a1, x1, c1, f1, e1, n2, a2, x2, c2, f2, e2 :
    Noted(n1, a1, x1, c1, f1, e1) = Noted(n2, a2, x2, c2, f2, e2) =>
      n1 = n2 /\ a1 = a2 /\ x1 = x2 /\ c1 = c2 /\ f1 = f2 /\ e1 = e2
<1> SUFFICES ASSUME NEW n1, NEW a1, NEW x1, NEW c1, NEW f1, NEW e1,
                    NEW n2, NEW a2, NEW x2, NEW c2, NEW f2, NEW e2,
                    Noted(n1, a1, x1, c1, f1, e1) = Noted(n2, a2, x2, c2, f2, e2)
             PROVE  n1 = n2 /\ a1 = a2 /\ x1 = x2 /\ c1 = c2 /\ f1 = f2 /\ e1 = e2
  OBVIOUS
<1> DEFINE r == Noted(n1, a1, x1, c1, f1, e1)
<1>1. r.next = n1 /\ r.textAt = a1 /\ r.text = x1 /\ r.calls = c1 /\ r.finish = f1
      /\ r.events = e1
  BY DEF Noted
<1>2. r.next = n2 /\ r.textAt = a2 /\ r.text = x2 /\ r.calls = c2 /\ r.finish = f2
      /\ r.events = e2
  BY DEF Noted
<1> HIDE DEF r
<1>3. QED
  BY <1>1, <1>2

LEMMA NotedRead ==
  \A t, n, a, x, c, f, e :
    t = Noted(n, a, x, c, f, e) => t.finish = f /\ t.events = e
BY DEF Noted

SetFirst(t, next, textAt, text) == [t EXCEPT !.next = next, !.textAt = textAt, !.text = text]

LEMMA NotedFirst ==
  ASSUME NEW next, NEW at, NEW old, NEW calls, NEW f, NEW ev, NEW x, NEW y, NEW z
  PROVE  SetFirst(Noted(next, at, old, calls, f, ev), x, y, z) = Noted(x, y, z, calls, f, ev)
<1> DEFINE r == Noted(next, at, old, calls, f, ev)
           D == {"next", "textAt", "text", "calls", "finish", "events"}
           g == [k \in D |-> IF k = "next" THEN x ELSE IF k = "textAt" THEN y
                             ELSE IF k = "text" THEN z ELSE r[k]]
<1>1. SetFirst(r, x, y, z) = g
  BY Zenon DEF Noted, SetFirst
<1>2. Noted(x, y, z, calls, f, ev) = g
  BY DEF Noted
<1>3. QED
  BY <1>1, <1>2

LEMMA NotedSpoken ==
  ASSUME NEW ev, NEW text
  PROVE  /\ SetFirst(Noted(0, Unset, <<>>, NoItems, "none", ev), 1, 0, text)
              = Noted(1, 0, text, NoItems, "none", ev)
         /\ text # <<>> =>
              TextItem(Noted(0, Unset, <<>>, NoItems, "none", ev), text)
                = Noted(0 + 1, 0, <<>> \o text, NoItems, "none",
                        (ev \o TextStarts(0)) \o TextGrows(0, text))
<1>1. SetFirst(Noted(0, Unset, <<>>, NoItems, "none", ev), 1, 0, text)
        = Noted(1, 0, text, NoItems, "none", ev)
  BY NotedFirst
<1>2. ASSUME NEW at, NEW old, NEW next, NEW calls, NEW f, text # <<>>
      PROVE  TextItem(Noted(next, at, old, calls, f, ev), text) =
               IF at # Unset
               THEN Noted(next, at, old \o text, calls, f, ev \o TextGrows(at, text))
               ELSE Noted(next + 1, next, old \o text, calls, f,
                          (ev \o TextStarts(next)) \o TextGrows(next, text))
  BY <1>2, TextItemIs
<1>3. text # <<>> =>
        TextItem(Noted(0, Unset, <<>>, NoItems, "none", ev), text)
          = Noted(0 + 1, 0, <<>> \o text, NoItems, "none",
                  (ev \o TextStarts(0)) \o TextGrows(0, text))
  BY <1>2, Zenon
<1>4. QED
  BY <1>1, <1>3

(* What an item was announced with makes no difference to a client that takes the
   deltas. *)
LEMMA FilledTracks ==
  ASSUME NEW text \in Seq(Pieces), text # <<>>, NEW seen, NEW none, none = <<>>,
         Tracks(BeginResponse, none, none, none),
         Tracks(TextItem(BeginResponse, text), seen, text, none)
  PROVE  Tracks(SpokenWhole(text), seen, text, none)
<1> DEFINE id == <<"msg">>
           begin == BeginResponse.events
           a == Event("item_added", 0, id, <<>>)
           filled == Event("item_added", 0, id, text)
           b == Event("part_added", 0, id, <<>>)
           c == Event("text_delta", 0, id, text)
           open == Reply("open", Empty)
           new == Reply("open", Append(Empty, Fresh(id)))
<1>1. begin \in Seq(ItemEvents) /\ ReadResponse(begin) = open
  <2>1. ItemsNow(none, none, none) = Empty
    BY DEF ItemsNow, Empty
  <2>2. QED
    BY <2>1 DEF Tracks
<1>2. a \in ItemEvents /\ filled \in ItemEvents /\ b \in ItemEvents /\ c \in ItemEvents
  <2>1. 0 \in Int /\ id \in OutputIds /\ <<>> \in Seq(Pieces)
    BY DEF OutputIds
  <2> HIDE DEF id
  <2>2. QED
    BY <2>1, ItemEventType DEF ItemKinds
<1>3. ResponseEvent(open, a) = new /\ ResponseEvent(open, filled) = new
  <2>1. ASSUME NEW body
        PROVE  ResponseEvent(Reply("open", Empty), Event("item_added", 0, id, body))
                 = Reply("open", Append(Empty, Fresh(id)))
    <3>1. Empty \in Seq(ItemSet) /\ 0 = Len(Empty)
      BY DEF Empty
    <3> HIDE DEF id
    <3>2. QED
      BY <3>1, ItemAdded
  <2>2. QED
    BY <2>1, Zenon
<1>4. BeginResponse = Noted(0, Unset, <<>>, NoItems, "none", begin)
  BY DEF BeginResponse, Noted
<1>5. SpokenWhole(text) = Noted(1, 0, text, NoItems, "none", begin \o <<filled, b, c>>)
  <2>1. SpokenWhole(text)
          = Emit(SetFirst(BeginResponse, 1, 0, text), <<filled, b, c>>)
    BY DEF SpokenWhole, SetFirst
  <2>2. SetFirst(BeginResponse, 1, 0, text)
          = Noted(1, 0, text, NoItems, "none", begin)
    <3> HIDE DEF begin
    <3>1. QED
      BY <1>4, NotedSpoken
  <2> HIDE DEF begin, filled, b, c
  <2>3. QED
    BY <2>1, <2>2, NotedEvents
<1>6. TextItem(BeginResponse, text)
        = Noted(1, 0, text, NoItems, "none", (begin \o <<a, b>>) \o <<c>>)
  <2>1. TextItem(Noted(0, Unset, none, NoItems, "none", begin), text)
          = Noted(0 + 1, 0, none \o text, NoItems, "none",
                  (begin \o TextStarts(0)) \o TextGrows(0, text))
    <3> HIDE DEF begin
    <3>1. QED
      BY NotedSpoken
  <2>2. none \o text = text /\ 0 + 1 = 1
    OBVIOUS
  <2>3. TextStarts(0) = <<a, b>> /\ TextGrows(0, text) = <<c>>
    BY DEF TextStarts, TextGrows
  <2>4. QED
    BY <1>4, <2>1, <2>2, <2>3, Zenon
<1> DEFINE old == TextItem(BeginResponse, text)
           t == SpokenWhole(text)
<1>7. old.events = (begin \o <<a, b>>) \o <<c>> /\ t.events = begin \o <<filled, b, c>>
      /\ old.finish = "none" /\ t.finish = "none"
  <2> DEFINE x == (begin \o <<a, b>>) \o <<c>>
             y == begin \o <<filled, b, c>>
  <2>1. old = Noted(1, 0, text, NoItems, "none", x) /\ t = Noted(1, 0, text, NoItems, "none", y)
    BY <1>5, <1>6
  <2> HIDE DEF x, y, old, t
  <2>4. old.events = x /\ t.events = y /\ old.finish = "none" /\ t.finish = "none"
    BY <2>1, NotedRead
  <2>5. QED
    BY <2>4 DEF x, y
<1> HIDE DEF a, b, c, filled, begin, open, new
<1>8. /\ ReadResponse((begin \o <<a, b>>) \o <<c>>)
           = ResponseEvent(ResponseEvent(ResponseEvent(ReadResponse(begin), a), b), c)
      /\ (begin \o <<a, b>>) \o <<c>> \in Seq(ItemEvents)
  <2>1. /\ ReadResponse(begin \o <<a, b>>) = ResponseEvent(ResponseEvent(ReadResponse(begin), a), b)
        /\ begin \o <<a, b>> \in Seq(ItemEvents)
    BY <1>1, <1>2, AfterEvents
  <2> DEFINE ev == begin \o <<a, b>>
  <2>2. ev \in Seq(ItemEvents)
    BY <2>1
  <2>3. ReadResponse(ev) = ResponseEvent(ResponseEvent(ReadResponse(begin), a), b)
    BY <2>1
  <2> HIDE DEF ev
  <2>4. ReadResponse(ev \o <<c>>) = ResponseEvent(ReadResponse(ev), c)
        /\ ev \o <<c>> \in Seq(ItemEvents)
    BY <1>2, <2>2, AfterEvent
  <2>5. QED
    BY <2>3, <2>4 DEF ev
<1>9. /\ ReadResponse(begin \o <<filled, b, c>>)
           = ResponseEvent(ResponseEvent(ResponseEvent(ReadResponse(begin), filled), b), c)
      /\ begin \o <<filled, b, c>> \in Seq(ItemEvents)
  BY <1>1, <1>2, AfterThreeEvents
<1>10. ReadResponse(t.events) = ReadResponse(old.events) /\ t.events \in Seq(ItemEvents)
  <2>1. ReadResponse(t.events) = ResponseEvent(ResponseEvent(new, b), c)
    BY <1>1, <1>3, <1>7, <1>9, Zenon
  <2>2. ReadResponse(old.events) = ResponseEvent(ResponseEvent(new, b), c)
    BY <1>1, <1>3, <1>7, <1>8, Zenon
  <2>3. QED
    BY <1>7, <1>9, <2>1, <2>2
<1> HIDE DEF t, old
<1>11. /\ Ledger(seen, text, none) /\ AllNamed(none)
       /\ old = Noted(Len(seen), TextPlace(seen, text), text, CallsNow(seen, none), old.finish,
                      old.events)
       /\ ReadResponse(old.events) = Reply("open", ItemsNow(seen, text, none))
  BY DEF Tracks, old
<1>12. t = Noted(Len(seen), TextPlace(seen, text), text, CallsNow(seen, none), t.finish, t.events)
  <2> DEFINE n == Len(seen)
             at == TextPlace(seen, text)
             calls == CallsNow(seen, none)
             ev == old.events
             f == old.finish
             one == 1
             zero == 0
             no == "none"
  <2>1. Noted(n, at, text, calls, f, ev) = Noted(one, zero, text, NoItems, no, ev)
    BY <1>6, <1>7, <1>11 DEF old
  <2> HIDE DEF n, at, calls, ev, f, one, zero, no
  <2>a. n = one /\ at = zero /\ calls = NoItems
    BY <2>1, NotedSame
  <2>2. n = 1 /\ at = 0 /\ calls = NoItems
    BY <2>a DEF one, zero
  <2>3. t = Noted(1, 0, text, NoItems, t.finish, t.events)
    BY <1>5, <1>7 DEF t
  <2>4. QED
    BY <2>2, <2>3 DEF n, at, calls
<1>13. Tracks(t, seen, text, none)
  BY <1>10, <1>11, <1>12 DEF Tracks
<1>14. QED
  BY <1>13 DEF t

LEMMA WholeText ==
  ASSUME NEW text \in Seq(Pieces)
  PROVE  /\ Tracks(SpokenWhole(text), HeardText(text), text, <<>>)
         /\ HeardText(text) \in Seq({Speech})
<1>0. HeardText(text) \in Seq({Speech})
  <2>1. ASSUME NEW x PROVE <<>> \in Seq({x}) /\ <<x>> \in Seq({x})
    OBVIOUS
  <2>2. <<>> \in Seq({Speech}) /\ <<Speech>> \in Seq({Speech})
    BY <2>1, Zenon
  <2>3. QED
    BY <2>2 DEF HeardText
<1>1. CASE text = <<>>
  <2>1. SpokenWhole(text) = BeginResponse /\ HeardText(text) = <<>>
    BY <1>1 DEF SpokenWhole, HeardText
  <2>2. QED
    BY <1>0, <1>1, <2>1, BeginTracks
<1>2. CASE text # <<>>
  <2>1. Noticed(<<>>, Speech) = <<Speech>>
    <3>1. ASSUME NEW x PROVE Noticed(<<>>, x) = <<x>>
      <4>1. x \notin ToSet(<<>>)
        BY DEF ToSet
      <4>2. Append(<<>>, x) = <<x>>
        OBVIOUS
      <4>3. QED
        BY <4>1, <4>2 DEF Noticed
    <3>2. QED
      BY <3>1, Zenon
  <2>2. HeardText(text) = <<Speech>>
    BY <1>2 DEF HeardText
  <2>3. <<>> \o text = text
    OBVIOUS
  <2>4. Tracks(TextItem(BeginResponse, text), Noticed(<<>>, Speech), <<>> \o text, <<>>)
    <3>1. ASSUME NEW none, Tracks(BeginResponse, none, none, none)
          PROVE  Tracks(TextItem(BeginResponse, text), Noticed(none, Speech), none \o text, none)
      BY <1>2, <3>1, TextTracks
    <3>2. QED
      BY <3>1, BeginTracks, Zenon
  <2>5. Tracks(TextItem(BeginResponse, text), <<Speech>>, text, <<>>)
    BY <2>1, <2>3, <2>4, Zenon
  <2>6. ASSUME NEW none, Tracks(BeginResponse, none, none, none), NEW one, one # none,
               Tracks(TextItem(BeginResponse, text), one, text, none), none = <<>>,
               one = <<Speech>>
        PROVE  Tracks(SpokenWhole(text), one, text, none)
    BY <1>2, <2>6, FilledTracks
  <2>7. <<Speech>> # <<>>
    OBVIOUS
  <2>8. Tracks(SpokenWhole(text), <<Speech>>, text, <<>>)
    BY <2>5, <2>6, <2>7, BeginTracks, Zenon
  <2>9. QED
    BY <1>0, <2>2, <2>8, Zenon
<1>3. QED
  BY <1>1, <1>2

(* What a stream of one chunk is to say. *)
LEMMA OneChunk ==
  ASSUME NEW C, Chunks(C), NEW c \in C, c.kind = "delta", NamedFirst(<<c>>)
  PROVE  /\ TextOf(<<c>>) = c.text /\ FragmentsOf(<<c>>) = c.calls
         /\ Appearances(<<c>>) = CallsNoticed(HeardText(c.text), c.calls)
         /\ Ledger(CallsNoticed(HeardText(c.text), c.calls), c.text, c.calls)
<1> DEFINE heard == HeardText(c.text)
<1>1. c.text \in Seq(Pieces) /\ c.calls \in Seq(Fragments)
  BY DEF Chunks
<1>2. /\ TextOf(<<>>) = <<>> /\ FragmentsOf(<<>>) = <<>> /\ Appearances(<<>>) = <<>>
      /\ <<c>> = Append(<<>>, c) /\ <<>> \in Seq(C)
  BY SaidNothing, AppearancesMore
<1>3. ASSUME NEW none \in Seq(C), none = <<>>
      PROVE  /\ TextOf(Append(none, c)) = c.text /\ FragmentsOf(Append(none, c)) = c.calls
             /\ Appearances(Append(none, c)) = ChunkNoticed(<<>>, c)
             /\ Follows(ResponseChunk(BeginResponse, c), Append(none, c))
  <2>1. /\ TextOf(Append(none, c)) = TextOf(none) \o c.text
        /\ FragmentsOf(Append(none, c)) = FragmentsOf(none) \o c.calls
    BY SaidMore
  <2>2. <<>> \o c.text = c.text /\ <<>> \o c.calls = c.calls
    BY <1>1
  <2>3. Appearances(Append(none, c)) = ChunkNoticed(Appearances(none), c)
    BY AppearancesMore
  <2>4. Follows(BeginResponse, none) /\ NamedFirst(Append(none, c))
    BY <1>3, BeginsFollowing
  <2>5. Follows(ResponseChunk(BeginResponse, c), Append(none, c))
    BY <2>4, ChunkFollowed
  <2>6. QED
    BY <1>2, <1>3, <2>1, <2>2, <2>3, <2>5
<1>4. /\ TextOf(<<c>>) = c.text /\ FragmentsOf(<<c>>) = c.calls
      /\ Appearances(<<c>>) = ChunkNoticed(<<>>, c)
      /\ Follows(ResponseChunk(BeginResponse, c), <<c>>)
  BY <1>2, <1>3, Zenon
<1>5. ChunkNoticed(<<>>, c) = CallsNoticed(heard, c.calls)
  <2>1. CASE c.text = <<>>
    BY <2>1 DEF ChunkNoticed, CallsNoticed, HeardText
  <2>2. CASE c.text # <<>>
    <3>1. ASSUME NEW x PROVE Noticed(<<>>, x) = <<x>>
      <4>1. x \notin ToSet(<<>>)
        BY DEF ToSet
      <4>2. Append(<<>>, x) = <<x>>
        OBVIOUS
      <4>3. QED
        BY <4>1, <4>2 DEF Noticed
    <3>2. Noticed(<<>>, Speech) = heard
      BY <2>2, <3>1, Zenon DEF HeardText
    <3> HIDE DEF heard
    <3>3. QED
      BY <2>2, <3>2 DEF ChunkNoticed, CallsNoticed
  <2>3. QED
    BY <2>1, <2>2
<1>6. Ledger(Appearances(<<c>>), TextOf(<<c>>), FragmentsOf(<<c>>))
  BY <1>4 DEF Follows, Tracks
<1>7. QED
  BY <1>4, <1>5, <1>6, Zenon

(* The record of the calls of a whole completion. *)
WholeCall(cs, next, i) ==
  LET k == CHOOSE k \in DOMAIN cs : cs[k].index = i
  IN [at |-> next + k - 1, name |-> cs[k].name, args |-> cs[k].args, emitted |-> FALSE]

WholeCalls(cs, next) == [i \in {f.index : f \in ToSet(cs)} |-> WholeCall(cs, next, i)]

LEMMA WholeCallIs ==
  ASSUME NEW heard \in Seq({Speech}), NEW seen, NEW cs \in Seq(Fragments), Distinct(cs),
         Alone(cs), Lined(heard, seen, cs),
         \A j, k \in 1..Len(seen) : seen[j] = seen[k] => j = k
  PROVE  /\ DOMAIN WholeCalls(cs, Len(heard)) = Indices(cs)
         /\ \A k \in 1..Len(cs) : /\ WholeCalls(cs, Len(heard))[cs[k].index].at = Len(heard) + k - 1
                                  /\ cs[k].index \in Indices(cs)
         /\ \A i \in Indices(cs) :
              /\ WholeCalls(cs, Len(heard))[i].at = PlaceOf(seen, CallAt(i))
              /\ WholeCalls(cs, Len(heard))[i].name = NamesOf(cs, i)
              /\ WholeCalls(cs, Len(heard))[i].args = ArgsOf(cs, i)
<1> DEFINE m == Len(heard)
           calls == WholeCalls(cs, m)
           n == Len(cs)
<1>1. /\ n \in Nat /\ m \in Nat /\ DOMAIN cs = 1..n
  OBVIOUS
<1>2. /\ seen \in Seq(Mentions) /\ Len(seen) = m + n
      /\ \A k \in 1..n : seen[m + k] = CallAt(cs[k].index)
  BY DEF Lined
<1> HIDE DEF m
<1>3. DOMAIN calls = Indices(cs) /\ \A i \in Indices(cs) : calls[i] = WholeCall(cs, m, i)
  BY DEF WholeCalls, Indices
<1>4. \A k \in 1..n : cs[k].index \in Indices(cs)
  BY <1>1 DEF Indices, ToSet
<1>5. \A i \in Indices(cs) : \E k \in 1..n : cs[k].index = i
  BY <1>1 DEF Indices, ToSet
<1>6. ASSUME NEW k \in 1..n
      PROVE  LET i == cs[k].index
             IN /\ calls[i].at = m + k - 1 /\ calls[i].at = PlaceOf(seen, CallAt(i))
                /\ calls[i].name = NamesOf(cs, i) /\ calls[i].args = ArgsOf(cs, i)
  <2> DEFINE i == cs[k].index
             p == CHOOSE p \in DOMAIN cs : cs[p].index = i
  <2>1. p \in 1..n /\ cs[p].index = cs[k].index
    BY <1>1
  <2>2. p = k
    <3> HIDE DEF p
    <3>1. QED
      BY <2>1 DEF Distinct
  <2>3. calls[i] = [at |-> m + p - 1, name |-> cs[p].name, args |-> cs[p].args,
                    emitted |-> FALSE]
    <3>1. calls[i] = WholeCall(cs, m, i)
      BY <1>3, <1>4
    <3> HIDE DEF calls
    <3>2. QED
      BY <3>1 DEF WholeCall
  <2> HIDE DEF p, calls
  <2>4. /\ calls[i].at = m + k - 1 /\ calls[i].name = cs[k].name /\ calls[i].args = cs[k].args
    BY <2>2, <2>3
  <2>5. NamesOf(cs, i) = cs[k].name /\ ArgsOf(cs, i) = cs[k].args
    BY DEF Alone
  <2>6. m + k \in 1..Len(seen) /\ seen[m + k] = CallAt(i)
    BY <1>1, <1>2
  <2>7. PlaceOf(seen, CallAt(i)) = (m + k) - 1
    <3> DEFINE l == m + k
               x == CallAt(i)
    <3>1. l \in 1..Len(seen) /\ seen[l] = x
      BY <2>6
    <3> HIDE DEF l, x
    <3>2. \A j \in 1..Len(seen) : seen[j] = x => PlaceOf(seen, x) = j - 1
      BY <1>2, PlaceIs
    <3>3. PlaceOf(seen, x) = l - 1
      BY <3>1, <3>2
    <3>4. QED
      BY <3>3 DEF l, x
  <2>8. QED
    BY <1>1, <2>4, <2>5, <2>7
<1> HIDE DEF calls
<1>7. \A i \in Indices(cs) : /\ calls[i].at = PlaceOf(seen, CallAt(i))
                             /\ calls[i].name = NamesOf(cs, i) /\ calls[i].args = ArgsOf(cs, i)
  BY <1>5, <1>6
<1>8. QED
  BY <1>3, <1>4, <1>6, <1>7 DEF calls, m

-----------------------------------------------------------------------------
LEMMA NotedCalls ==
  ASSUME NEW next, NEW textAt, NEW text, NEW calls, NEW finish, NEW events, NEW new
  PROVE  SetCalls(Noted(next, textAt, text, calls, finish, events), new)
           = Noted(next, textAt, text, new, finish, events)
BY SMT DEF SetCalls, Noted

(* The events of a whole completion. *)
WholeTexts(c) == SpokenWhole(c.text)

WholeRecord(c) == SetCalls(WholeTexts(c), WholeCalls(c.calls, WholeTexts(c).next))

WholeTool(t, call) ==
  CallWhole(t.calls[call.index].at, ItemId(call.name), call.args)

LEMMA WholeIs ==
  ASSUME NEW c
  PROVE  WholeResponse(c)
           = Emit(WholeRecord(c),
                  (TextDone(WholeRecord(c))
                     \o FlattenSeq([k \in DOMAIN c.calls |->
                                      WholeTool(WholeRecord(c), c.calls[k])]))
                    \o Completed(WholeRecord(c), AnotherId))
BY Zenon DEF WholeResponse, WholeRecord, WholeTexts, SetCalls, WholeCalls, WholeCall, WholeTool,
   CallWhole

(* A whole completion is a complete answer. *)
LEMMA WholeAnswers ==
  ASSUME NEW C, Chunks(C), NEW c \in C, IsWhole(c), NamedFirst(<<c>>)
  PROVE  /\ "events" \in DOMAIN WholeResponse(c)
         /\ Answers(WholeResponse(c).events, ItemsOf(<<c>>))
<1> DEFINE text == c.text
           cs == c.calls
           n == Len(cs)
           heard == HeardText(text)
           m == Len(heard)
           seen == CallsNoticed(heard, cs)
           texts == WholeTexts(c)
           calls == WholeCalls(cs, m)
           t == WholeRecord(c)
           at == TextPlace(heard, text)
           ev == texts.events
           finish == texts.finish
           a == TextDone(t)
           s == [k \in 1..n |-> CallWhole(m + k - 1, ItemId(cs[k].name), cs[k].args)]
           b == FlattenSeq(s)
           output == OutputNow(seen, text, cs)
           e == FinalEvent(AnotherId, output)
           x == (a \o b) \o <<e>>
<1>1. /\ c.kind = "delta" /\ text \in Seq(Pieces) /\ cs \in Seq(Fragments)
      /\ DOMAIN cs = 1..n /\ n \in Nat
  BY DEF Chunks, IsWhole
<1>2. Distinct(cs)
  <2>1. \A k \in 1..n : cs[k].index \in Int
    <3> HIDE DEF cs
    <3>1. \A k \in 1..n : cs[k] \in Fragments
      BY <1>1
    <3>2. QED
      BY <3>1 DEF Fragments
  <2>2. \A j, k \in 1..n : j < k => cs[j].index < cs[k].index
    BY <1>1 DEF IsWhole
  <2>3. \A j, k \in 1..n : j < k \/ k < j \/ j = k
    BY <1>1
  <2> HIDE DEF cs, n
  <2>4. \A j, k \in 1..n : cs[j].index = cs[k].index => j = k
    BY <2>1, <2>2, <2>3
  <2>5. QED
    BY <2>4 DEF Distinct, n
<1>3. /\ TextOf(<<c>>) = text /\ FragmentsOf(<<c>>) = cs /\ Appearances(<<c>>) = seen
      /\ Ledger(seen, text, cs)
  BY <1>1, OneChunk
<1>4. seen \in Seq(Mentions) /\ \A j, k \in 1..Len(seen) : seen[j] = seen[k] => j = k
  BY <1>3 DEF Ledger
<1>5. Tracks(texts, heard, text, <<>>) /\ heard \in Seq({Speech}) /\ m \in Nat
  BY <1>1, WholeText DEF WholeTexts
<1>6. Alone(cs) /\ Lined(heard, seen, cs)
  BY <1>1, <1>2, <1>5, CallsInLine
<1>7. ItemsOf(<<c>>) = output
  <2> DEFINE said == <<c>>
  <2> HIDE DEF said
  <2>1. TextOf(said) = text /\ FragmentsOf(said) = cs /\ Appearances(said) = seen
    BY <1>3 DEF said
  <2> HIDE DEF text, cs, seen
  <2>2. ItemsOf(said) = OutputNow(Appearances(said), TextOf(said), FragmentsOf(said))
    BY <1>4, <2>1, ItemsOfIs
  <2>3. QED
    BY <2>1, <2>2 DEF said
<1> HIDE DEF text, cs, n, heard, m, seen, texts, calls
<1>8. /\ DOMAIN calls = Indices(cs)
      /\ \A k \in 1..n : calls[cs[k].index].at = m + k - 1 /\ cs[k].index \in Indices(cs)
      /\ \A i \in Indices(cs) :
           /\ calls[i].at = PlaceOf(seen, CallAt(i))
           /\ calls[i].name = NamesOf(cs, i) /\ calls[i].args = ArgsOf(cs, i)
  <2>1. m = Len(heard) /\ n = Len(cs)
    BY DEF m, n
  <2>2. /\ DOMAIN WholeCalls(cs, Len(heard)) = Indices(cs)
        /\ \A k \in 1..Len(cs) : /\ WholeCalls(cs, Len(heard))[cs[k].index].at = Len(heard) + k - 1
                                 /\ cs[k].index \in Indices(cs)
        /\ \A i \in Indices(cs) :
             /\ WholeCalls(cs, Len(heard))[i].at = PlaceOf(seen, CallAt(i))
             /\ WholeCalls(cs, Len(heard))[i].name = NamesOf(cs, i)
             /\ WholeCalls(cs, Len(heard))[i].args = ArgsOf(cs, i)
    BY <1>1, <1>2, <1>4, <1>5, <1>6, WholeCallIs
  <2>3. QED
    BY <2>1, <2>2 DEF calls
<1>9. /\ texts = Noted(m, at, text, CallsNow(heard, <<>>), finish, ev)
      /\ ev \in Seq(ItemEvents)
  BY <1>5 DEF Tracks, m
<1>10. texts.next = m
  BY <1>9, NotedFields
<1>11. t = Noted(m, at, text, calls, finish, ev)
  <2>1. t = SetCalls(texts, calls)
    BY <1>10 DEF WholeRecord, cs, calls, texts
  <2> DEFINE old == CallsNow(heard, <<>>)
  <2> HIDE DEF t, at, finish, ev, old
  <2>2. texts = Noted(m, at, text, old, finish, ev)
    BY <1>9 DEF old
  <2>3. QED
    BY <2>1, <2>2, NotedCalls
<1>12. texts.textAt = at /\ texts.text = text
  BY <1>9, NotedFields
<1> HIDE DEF t, at, finish, ev
<1>13. t.textAt = at /\ t.text = text /\ t.calls = calls
  BY <1>11, NotedFields
<1>14. TextPlace(seen, text) = at
  <2>1. CASE text = <<>>
    BY <2>1 DEF TextPlace, at
  <2>2. CASE text # <<>>
    <3>1. heard = <<Speech>>
      BY <2>2 DEF HeardText, heard
    <3>2. Len(heard) = 1 /\ heard[1] = Speech
      BY <3>1
    <3>3. m = 1
      BY <3>2 DEF m
    <3>4. /\ seen[1] = heard[1] /\ Len(seen) = m + n
      BY <1>6, <3>2 DEF Lined, m, n
    <3>5. 1 \in 1..Len(seen) /\ seen[1] = Speech
      BY <1>1, <3>2, <3>3, <3>4
    <3>6. PlaceOf(seen, Speech) = 1 - 1
      BY <1>4, <3>5, PlaceIs
    <3>7. PlaceOf(heard, Speech) = 1 - 1
      <4>1. heard \in Seq(Mentions)
        <5>1. Speech \in Mentions
          BY DEF Mentions
        <5>2. QED
          BY <1>5, <5>1
      <4>2. \A j, k \in 1..Len(heard) : heard[j] = heard[k] => j = k
        BY <3>2
      <4>3. 1 \in 1..Len(heard)
        BY <3>2
      <4>4. QED
        BY <3>2, <4>1, <4>2, <4>3, PlaceIs
    <3>8. QED
      BY <2>2, <3>6, <3>7 DEF TextPlace, at
  <2>3. QED
    BY <2>1, <2>2
<1>15. CompletedOutput(t) = output
  <2> DEFINE I == Indices(cs)
  <2>1. t.textAt = TextPlace(seen, text) /\ t.text = text /\ DOMAIN t.calls = I
    BY <1>8, <1>13, <1>14
  <2>2. \A i \in I : /\ t.calls[i].at = PlaceOf(seen, CallAt(i))
                     /\ t.calls[i].name = NamesOf(cs, i) /\ t.calls[i].args = ArgsOf(cs, i)
    BY <1>8, <1>13
  <2>3. QED
    BY <1>3, <2>1, <2>2, CompletedBy
<1>16. Completed(t, AnotherId) = <<e>>
  BY <1>15 DEF Completed, FinalEvent
<1>17. a = TextDone(texts)
  BY <1>12, <1>13 DEF TextDone
<1>18. /\ Tells(ev \o a, ItemsTold(heard, text, <<>>, {Speech})) /\ a \in Seq(ItemEvents)
  <2>1. ASSUME NEW none, Tracks(texts, heard, text, none)
        PROVE  /\ Tells(texts.events \o TextDone(texts), ItemsTold(heard, text, none, {Speech}))
               /\ TextDone(texts) \in Seq(ItemEvents)
    BY <2>1, TextEnds
  <2>2. /\ Tells(texts.events \o TextDone(texts), ItemsTold(heard, text, <<>>, {Speech}))
        /\ TextDone(texts) \in Seq(ItemEvents)
    BY <1>5, <2>1, Zenon
  <2>3. QED
    BY <1>17, <2>2, Zenon DEF ev
<1>19. ItemsTold(heard, text, <<>>, {Speech}) = WholeItems(seen, text, cs, m)
  <2>1. \A frags : Finally(Speech, text, frags) = Done(<<"msg">>, text)
    BY DEF Finally, IdOf, BodyOf
  <2>2. \A j \in 1..m : heard[j] = Speech /\ seen[j] = Speech
    BY <1>5, <1>6 DEF Lined, m
  <2>3. Len(heard) = m
    BY DEF m
  <2>4. QED
    BY <2>1, <2>2, <2>3 DEF ItemsTold, WholeItems
<1>20. Tells((ev \o a) \o b, WholeItems(seen, text, cs, m + n)) /\ b \in Seq(ItemEvents)
  <2> DEFINE before == ev \o a
  <2>1. Tells(before, WholeItems(seen, text, cs, m))
    BY <1>18, <1>19
  <2>2. m = Len(heard) /\ n = Len(cs)
    BY DEF m, n
  <2>3. Tells(before, WholeItems(seen, text, cs, Len(heard)))
    BY <2>1, <2>2
  <2> HIDE DEF before
  <2>4. Tells(before \o FlattenSeq(CallList(cs, Len(heard))),
              WholeItems(seen, text, cs, Len(heard) + Len(cs)))
        /\ FlattenSeq(CallList(cs, Len(heard))) \in Seq(ItemEvents)
    BY <1>1, <1>5, <1>6, <2>3, WholeCallsTell, Zenon
  <2>5. CallList(cs, Len(heard)) = s
    BY <2>2 DEF CallList
  <2>6. QED
    BY <2>2, <2>4, <2>5 DEF before
<1>21. WholeItems(seen, text, cs, m + n) = ItemsTold(seen, text, cs, ToSet(seen))
  <2>1. Len(seen) = m + n
    BY <1>6 DEF Lined, m, n
  <2>2. \A j \in 1..Len(seen) : seen[j] \in ToSet(seen)
    BY <1>4 DEF ToSet
  <2>3. QED
    BY <2>1, <2>2 DEF WholeItems, ItemsTold
<1> DEFINE told == (ev \o a) \o b
           items == ItemsTold(seen, text, cs, ToSet(seen))
<1>22. Tells(told, items) /\ Listed(output, items)
  <2>1. ASSUME NEW M, M = ToSet(seen) PROVE Listed(output, ItemsTold(seen, text, cs, M))
    BY <1>3, <2>1, OutputListed
  <2>2. QED
    BY <1>20, <1>21, <2>1
<1>23. FlattenSeq([k \in DOMAIN cs |-> WholeTool(t, cs[k])]) = b
  <2>1. ASSUME NEW k \in 1..n
        PROVE  WholeTool(t, cs[k]) = CallWhole(m + k - 1, ItemId(cs[k].name), cs[k].args)
    <3>1. t.calls[cs[k].index].at = m + k - 1
      BY <1>8, <1>13
    <3>2. QED
      BY <3>1 DEF WholeTool
  <2>2. [k \in DOMAIN cs |-> WholeTool(t, cs[k])] = s
    BY <1>1, <2>1
  <2>3. QED
    BY <2>2
<1> HIDE DEF items, output, a, b
<1>24. Answers(told \o <<e>>, output)
  <2> HIDE DEF told
  <2>1. QED
    BY <1>22, FinalAnswers
<1>25. WholeResponse(c) = Emit(t, x)
  <2>1. WholeResponse(c) = Emit(t, (TextDone(t) \o FlattenSeq([k \in DOMAIN cs |-> WholeTool(t, cs[k])]))
                                   \o Completed(t, AnotherId))
    BY WholeIs DEF t, cs
  <2>2. QED
    BY <1>16, <1>23, <2>1 DEF a
<1>26. ev \o x = told \o <<e>>
  <2> DEFINE E == ItemEvents \cup {e}
  <2>1. ItemEvents \subseteq E /\ e \in E
    OBVIOUS
  <2> HIDE DEF E, e
  <2>2. ev \in Seq(E) /\ a \in Seq(E) /\ b \in Seq(E) /\ <<e>> \in Seq(E)
    BY <1>9, <1>18, <1>20, <2>1
  <2>3. QED
    BY <2>2, FourAssociate
<1> HIDE DEF x, told, e
<1>27. Emit(t, x) = Noted(m, at, text, calls, finish, ev \o x)
  BY <1>11, NotedEvents
<1>28. WholeResponse(c).events = ev \o x /\ "events" \in DOMAIN WholeResponse(c)
  <2> DEFINE y == ev \o x
  <2> HIDE DEF y
  <2>1. /\ Noted(m, at, text, calls, finish, y).events = y
        /\ "events" \in DOMAIN Noted(m, at, text, calls, finish, y)
    BY DEF Noted
  <2>2. QED
    BY <1>25, <1>27, <2>1 DEF y
<1>29. QED
  BY <1>7, <1>24, <1>26, <1>28 

-----------------------------------------------------------------------------
Replied(t, said) == "events" \in DOMAIN t /\ Answers(t.events, ItemsOf(said))

(* An error behind the completed answer, or instead of it. *)
ReplyCut(t, said) == FailsAfter(t.events, ItemsOf(said)) \/ FailsBefore(t.events)

LEMMA EmitEvents ==
  ASSUME NEW t, "events" \in DOMAIN t, NEW x
  PROVE  Emit(t, x).events = t.events \o x
BY DEF Emit

LEMMA FollowsTells ==
  ASSUME NEW t, NEW said, Follows(t, said)
  PROVE  /\ "events" \in DOMAIN t
         /\ Tells(t.events,
                  ItemsNow(Appearances(said), TextOf(said), FragmentsOf(said)))
<1> DEFINE seen == Appearances(said)
           text == TextOf(said)
           frags == FragmentsOf(said)
           n == Len(seen)
           at == TextPlace(seen, text)
           calls == CallsNow(seen, frags)
           finish == t.finish
           ev == t.events
<1>1. /\ t = Noted(n, at, text, calls, finish, ev)
      /\ ev \in Seq(ItemEvents) /\ ReadResponse(ev) = Reply("open", ItemsNow(seen, text, frags))
  BY DEF Follows, Tracks
<1>2. "events" \in DOMAIN t
  <2> HIDE DEF n, at, text, calls, finish, ev
  <2>1. "events" \in DOMAIN Noted(n, at, text, calls, finish, ev)
    BY DEF Noted
  <2>2. QED
    BY <1>1, <2>1
<1>3. QED
  BY <1>1, <1>2 DEF Tells

LEMMA ErrorEnds ==
  ASSUME NEW t, NEW said, Follows(t, said) \/ Replied(t, said)
  PROVE  ReplyCut(Emit(t, <<ErrorIs>>), said)
<1> DEFINE items == ItemsNow(Appearances(said), TextOf(said), FragmentsOf(said))
           output == ItemsOf(said)
           ev == t.events
<1>1. "events" \in DOMAIN t
  BY FollowsTells DEF Replied
<1>2. Emit(t, <<ErrorIs>>).events = ev \o <<ErrorIs>>
  BY <1>1, EmitEvents
<1>3. CASE Follows(t, said)
  <2>1. Tells(ev, items)
    BY <1>3, FollowsTells
  <2> HIDE DEF items, ev
  <2>2. FailsBefore(ev \o <<ErrorIs>>)
    BY <2>1, ErrorFollows
  <2>3. QED
    BY <1>2, <2>2 DEF ReplyCut
<1>4. CASE Replied(t, said)
  <2>1. Answers(ev, output)
    BY <1>4 DEF Replied
  <2> HIDE DEF output, ev
  <2>2. FailsAfter(ev \o <<ErrorIs>>, output)
    BY <2>1, ErrorFollows
  <2>3. QED
    BY <1>2, <2>2 DEF ReplyCut, output
<1>5. QED
  BY <1>3, <1>4

(* A chunk that is not a delta says nothing and writes nothing. *)
LEMMA ReplyFollows ==
  ASSUME NEW C, Chunks(C), NEW chunks \in Seq(C), NEW c \in C,
         NamedFirst(Deltas(Append(chunks, c)))
  PROVE  /\ NamedFirst(Deltas(chunks))
         /\ \A t : Follows(t, Deltas(chunks)) =>
                     Follows(ResponseChunk(t, c), Deltas(Append(chunks, c)))
<1> DEFINE said == Deltas(chunks)
           more == Deltas(Append(chunks, c))
<1>1. said \in Seq(C) /\ NamedFirst(more)
  BY DeltasMore
<1>2. CASE c.kind = "delta"
  <2>1. more = Append(said, c)
    BY <1>2, DeltasMore
  <2> HIDE DEF said, more
  <2>2. NamedFirst(Append(said, c))
    BY <1>1, <2>1
  <2>3. NamedFirst(said)
    BY <1>1, <2>2, NamedBefore
  <2>4. ASSUME NEW t, Follows(t, said) PROVE Follows(ResponseChunk(t, c), Append(said, c))
    BY <1>1, <1>2, <2>2, <2>4, ChunkFollowed
  <2>5. QED
    BY <2>1, <2>3, <2>4 DEF said, more
<1>3. CASE c.kind # "delta"
  <2>1. more = said
    BY <1>3, DeltasMore
  <2>2. \A t : ResponseChunk(t, c) = t
    BY <1>3 DEF ResponseChunk
  <2> HIDE DEF said, more
  <2>3. QED
    BY <1>1, <2>1, <2>2 DEF said, more
<1>4. QED
  BY <1>2, <1>3

LEMMA EndReplied ==
  ASSUME NEW t, NEW said, Follows(t, said)
  PROVE  Replied(EndResponse(t), said)
BY EndAnswers DEF Replied

LEMMA WholeReplied ==
  ASSUME NEW C, Chunks(C), NEW c \in C, IsWhole(c), NamedFirst(Deltas(<<c>>))
  PROVE  Replied(WholeResponse(c), Deltas(<<c>>))
<1>1. Deltas(<<c>>) = <<c>>
  <2>1. <<c>> = Append(<<>>, c) /\ <<>> \in Seq(C)
    OBVIOUS
  <2>2. Deltas(<<>>) = <<>>
    BY SaidNothing
  <2>3. c.kind = "delta"
    BY DEF IsWhole
  <2>4. ASSUME NEW none \in Seq(C) PROVE Deltas(Append(none, c)) = Append(Deltas(none), c)
    BY <2>3, DeltasMore
  <2>5. QED
    BY <2>1, <2>2, <2>4, Zenon
<1>2. NamedFirst(<<c>>)
  BY <1>1
<1>3. "events" \in DOMAIN WholeResponse(c) /\ Answers(WholeResponse(c).events, ItemsOf(<<c>>))
  BY <1>2, WholeAnswers
<1>4. QED
  BY <1>1, <1>3 DEF Replied

ReplyPart ==
  /\ phase = "relaying" => Follows(writer, Deltas(sent))
  /\ request.streaming /\ phase \in {"usage", "reconciling", "logging"} =>
       Replied(writer, Deltas(sent))
  /\ phase = "ended" => \/ Untold
                        \/ Replied(writer, Deltas(sent))
                        \/ ReplyCut(writer, Deltas(sent))

ReplyInv == request.protocol = "responses" /\ NamedFirst(Deltas(sent)) => ReplyPart

LEMMA ReplyStep == RelayInv /\ ReplyInv /\ [Next]_vars => ReplyInv'
<1> SUFFICES ASSUME RelayInv, ReplyInv, [Next]_vars, request.protocol = "responses",
                    NamedFirst(Deltas(sent'))
             PROVE  ReplyPart'
  <2>1. ASSUME [Next]_vars PROVE request' = request
    BY <2>1, RequestStays
  <2>2. QED
    BY <2>1 DEF ReplyInv
<1> DEFINE C == request.chunks
<1>0. /\ Chunks(C) /\ sent \in Seq(C) /\ PlaceInv /\ translated
  BY ChunkTypes DEF RelayInv, translated
<1>a. ASSUME sent' = sent PROVE ReplyPart
  BY <1>a DEF ReplyInv
<1>b. ErrorEvent = Emit(writer, <<ErrorIs>>)
  BY <1>0 DEF ErrorEvent, ErrorIs
<1>1. ASSUME TranslateRequest PROVE ReplyPart'
  BY <1>0, <1>1 DEF TranslateRequest, ReplyPart, PlaceInv, Untold
<1>2. ASSUME RoutingFails PROVE ReplyPart'
  BY <1>0, <1>2 DEF RoutingFails, ReplyPart, PlaceInv, Untold
<1>3. ASSUME NEW chunk \in C, Prime(chunk) PROVE ReplyPart'
  <2>1. /\ sent' = <<chunk>> /\ writer' = ResponseChunk(BeginResponse, chunk)
        /\ phase' = "relaying"
    BY <1>0, <1>3 DEF Prime, Relayed, Translate, Begin
  <2>2. Follows(writer', Deltas(sent'))
    <3>1. <<chunk>> = Append(<<>>, chunk) /\ <<>> \in Seq(C)
      OBVIOUS
    <3>2. ASSUME NEW none, none = <<>>, NamedFirst(Deltas(Append(none, chunk)))
          PROVE  Follows(ResponseChunk(BeginResponse, chunk), Deltas(Append(none, chunk)))
      <4>1. Follows(BeginResponse, Deltas(none)) /\ none \in Seq(C)
        BY <3>2, BeginsFollowing, SaidNothing
      <4>2. QED
        BY <1>0, <3>2, <4>1, ReplyFollows
    <3>3. QED
      BY <2>1, <3>1, <3>2, Zenon
  <2>3. QED
    BY <2>1, <2>2 DEF ReplyPart
<1>4. ASSUME PrimeEmpty PROVE ReplyPart'
  <2>1. /\ writer' = EndResponse(BeginResponse) /\ sent' = sent /\ sent = <<>> /\ phase' = "usage"
    BY <1>0, <1>4 DEF PrimeEmpty, Begin, End, PlaceInv
  <2>2. Replied(writer', Deltas(sent'))
    <3>1. Deltas(sent') = <<>>
      BY <2>1, SaidNothing
    <3>2. Follows(BeginResponse, Deltas(sent'))
      BY <3>1, BeginsFollowing
    <3>3. QED
      BY <2>1, <3>2, EndReplied
  <2>3. QED
    BY <2>1, <2>2 DEF ReplyPart
<1>5. ASSUME NEW chunk \in C, PrimeWhole(chunk) PROVE ReplyPart'
  <2>1. /\ writer' = WholeResponse(chunk) /\ sent' = <<chunk>> /\ phase' = "usage"
        /\ IsWhole(chunk)
    BY <1>0, <1>5 DEF PrimeWhole, Whole
  <2>2. Replied(writer', Deltas(sent'))
    BY <1>0, <2>1, WholeReplied
  <2>3. QED
    BY <2>1, <2>2 DEF ReplyPart
<1>6. ASSUME PrimeBreaks PROVE ReplyPart'
  BY <1>0, <1>6 DEF PrimeBreaks, ReplyPart, PlaceInv, Untold
<1>7. ASSUME NEW chunk \in C, Relay(chunk) PROVE ReplyPart'
  <2>1. /\ sent' = Append(sent, chunk) /\ writer' = ResponseChunk(writer, chunk)
        /\ phase' = "relaying" /\ phase = "relaying"
    BY <1>0, <1>7 DEF Relay, Relayed, Translate
  <2>2. NamedFirst(Deltas(Append(sent, chunk)))
    BY <2>1
  <2>3. /\ NamedFirst(Deltas(sent))
        /\ Follows(writer, Deltas(sent)) =>
             Follows(ResponseChunk(writer, chunk), Deltas(Append(sent, chunk)))
    BY <1>0, <2>2, ReplyFollows
  <2>4. Follows(writer, Deltas(sent))
    BY <2>1, <2>3 DEF ReplyInv, ReplyPart
  <2>5. QED
    BY <2>1, <2>3, <2>4 DEF ReplyPart
<1>8. ASSUME Drain PROVE ReplyPart'
  BY <1>0, <1>8 DEF Drain, PlaceInv
<1>9. ASSUME UpstreamCloses PROVE ReplyPart'
  <2>1. /\ writer' = EndResponse(writer) /\ sent' = sent /\ phase' = "usage"
        /\ phase = "relaying"
    BY <1>9 DEF UpstreamCloses, End
  <2>2. Follows(writer, Deltas(sent))
    BY <1>a, <2>1 DEF ReplyPart
  <2>3. Replied(writer', Deltas(sent'))
    BY <2>1, <2>2, EndReplied
  <2>4. QED
    BY <2>1, <2>3 DEF ReplyPart
<1>10. ASSUME UpstreamBreaks PROVE ReplyPart'
  <2>1. /\ writer' = ErrorEvent /\ sent' = sent /\ phase' = "ended" /\ phase = "relaying"
    BY <1>10 DEF UpstreamBreaks
  <2>2. ReplyCut(writer', Deltas(sent'))
    BY <1>a, <1>b, <2>1, ErrorEnds DEF ReplyPart
  <2>3. QED
    BY <2>1, <2>2 DEF ReplyPart
<1>11. ASSUME NEW chunk \in C, ReadWhole(chunk) PROVE ReplyPart'
  BY <1>11 DEF ReadWhole, ReplyPart
<1>12. ASSUME RecordUsage PROVE ReplyPart'
  BY <1>0, <1>a, <1>12 DEF RecordUsage, ReplyPart
<1>13. ASSUME Reconcile PROVE ReplyPart'
  BY <1>0, <1>a, <1>13 DEF Reconcile, ReplyPart, PlaceInv
<1>14. ASSUME ReconcileFails \/ (StoreFails /\ request.streaming) PROVE ReplyPart'
  <2>1. /\ writer' = ErrorEvent /\ sent' = sent /\ phase' = "ended"
        /\ phase \in {"usage", "reconciling", "logging"} /\ request.streaming
    BY <1>0, <1>14 DEF ReconcileFails, StoreFails, PlaceInv
  <2>2. ReplyCut(writer', Deltas(sent'))
    BY <1>a, <1>b, <2>1, ErrorEnds DEF ReplyPart
  <2>3. QED
    BY <2>1, <2>2 DEF ReplyPart
<1>15. ASSUME StoreFails, ~request.streaming PROVE ReplyPart'
  BY <1>0, <1>15 DEF StoreFails, ReplyPart, PlaceInv, Untold
<1>16. ASSUME WriteLog PROVE ReplyPart'
  <2>1. sent' = sent /\ phase' = "ended" /\ phase = "logging"
    BY <1>16 DEF WriteLog
  <2>2. CASE request.streaming
    <3>1. writer' = writer
      BY <1>16, <2>2 DEF WriteLog
    <3>2. Replied(writer', Deltas(sent'))
      BY <1>a, <2>1, <2>2, <3>1 DEF ReplyPart
    <3>3. QED
      BY <2>1, <3>2 DEF ReplyPart
  <2>3. CASE ~request.streaming
    <3>1. PICK chunk \in C : IsWhole(chunk) /\ sent = <<chunk>>
      BY <1>0, <2>1, <2>3 DEF PlaceInv
    <3>2. writer' = WholeResponse(chunk)
      BY <1>16, <2>3, <3>1 DEF WriteLog, Whole
    <3>3. Replied(writer', Deltas(sent'))
      BY <1>0, <2>1, <3>1, <3>2, WholeReplied
    <3>4. QED
      BY <2>1, <3>3 DEF ReplyPart
  <2>4. QED
    BY <2>2, <2>3
<1>17. ASSUME ClientLeaves PROVE ReplyPart'
  BY <1>a, <1>17 DEF ClientLeaves, ReplyPart, Untold
<1>18. CASE UNCHANGED vars
  BY <1>a, <1>18 DEF vars, ReplyPart, Untold
<1>19. QED
  BY <1>1, <1>2, <1>3, <1>4, <1>5, <1>6, <1>7, <1>8, <1>9, <1>10, <1>11, <1>12, <1>13, <1>14,
     <1>15, <1>16, <1>17, <1>18 DEF Next, Upstream

-----------------------------------------------------------------------------
LEMMA ReplyHolds == RelayInv /\ ReplyInv => ResponsesFaithful
<1> SUFFICES ASSUME RelayInv, ReplyInv, request.protocol = "responses", writer.events # <<>>,
                    NamedFirst(Deltas(sent))
             PROVE  LET read == ReadResponse(writer.events)
                        last == SelectLastInSeq(writer.events, LAMBDA e : e.kind = "completed")
                    IN /\ read.legal
                       /\ read.state = "complete" =>
                            writer.events[last].body = ItemsOf(Deltas(sent))
  BY DEF ResponsesFaithful
<1> DEFINE said == Deltas(sent)
           ev == writer.events
           read == ReadResponse(ev)
           output == ItemsOf(said)
<1>1. \/ Follows(writer, said) \/ Replied(writer, said) \/ ReplyCut(writer, said)
  <2>1. ~Untold
    BY DEF Untold
  <2>2. PlaceInv /\ RelayTypes /\ translated /\ ReplyPart
    BY DEF RelayInv, translated, ReplyInv
  <2>3. QED
    BY <2>1, <2>2 DEF PlaceInv, RelayTypes, ReplyPart
<1>2. \A state, items : Reply(state, items).legal /\ Reply(state, items).state = state
  BY DEF Reply, Replying
<1>3. ASSUME NEW state, NEW items, read = Reply(state, items), state # "complete"
      PROVE  read.legal /\ read.state # "complete"
  BY <1>2, <1>3
<1>4. CASE Follows(writer, said)
  <2>1. read = Reply("open", ItemsNow(Appearances(said), TextOf(said), FragmentsOf(said)))
    BY <1>4, FollowsTells DEF Tells
  <2>2. read.legal /\ read.state # "complete"
    BY <1>3, <2>1
  <2>3. QED
    BY <2>2
<1>5. CASE FailsBefore(ev)
  <2>1. PICK items : read = Reply("broken", items)
    BY <1>5 DEF FailsBefore
  <2>2. read.legal /\ read.state # "complete"
    BY <1>3, <2>1
  <2>3. QED
    BY <2>2
<1>6. CASE Answers(ev, output) \/ FailsAfter(ev, output)
  <2>1. PICK items : read = Reply("complete", items)
    BY <1>6 DEF Answers, FailsAfter
  <2>2. read.legal
    BY <1>2, <2>1
  <2> HIDE DEF output, ev
  <2>3. ev[SelectLastInSeq(ev, LAMBDA e : e.kind = "completed")].body = output
    BY <1>6, LastCompleted
  <2>4. QED
    BY <2>2, <2>3 DEF ev, output
<1>7. QED
  BY <1>1, <1>4, <1>5, <1>6 DEF Replied, ReplyCut

(* A client of /v1/responses reads each item from its addition to its end, and
   the last event lists exactly the items it has read, with what the provider
   said (streamOpenAIAsResponses, openAIToResponses). *)
THEOREM ResponsesHold == Spec => []ResponsesFaithful
<1>1. Init => ReplyInv
  BY DEF Init, ReplyInv, ReplyPart, Untold
<1>2. RelayInv /\ ReplyInv /\ [Next]_vars => ReplyInv'
  BY ReplyStep
<1>3. RelayInv /\ ReplyInv => ResponsesFaithful
  BY ReplyHolds
<1>4. QED
  BY RelayInvariant, <1>1, <1>2, <1>3, PTL DEF Spec

================================================================================

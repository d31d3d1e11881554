--------------------------- MODULE ControlPlaneProofs ---------------------------
(***************************************************************************)
(* Theorems about ControlPlane, for any handlers, codes, nodes, users, keys *)
(* and bounds, with crashes, lost answers, commands and dashboards: the     *)
(* types of all parts, then pairing, revocation and the agent's exit for    *)
(* any number of lost locks and crashes, then the accounts.                 *)
(***************************************************************************)
EXTENDS ControlPlane, TLAPS

(* The strengthened type invariant: what is in the fields that a step reads. *)

Working == {"arrived", "admitted", "calling", "waiting", "holding"}

RecordOps == {"delete", "revoke", "leave"} \cup LiveOps

SlotFine(r) ==
  /\ r.pc \in Working => r.node \in Nodes /\ r.op \in RecordOps
  /\ r.pc = "done" /\ r.reply = "ok" => r.node \in Nodes
  /\ r.pc = "consumed" => r.code \in Codes

SlotsInv == \A s \in Slots : SlotFine(slots[s])

ConfFine(c) == c.there => c.node \in Nodes

(* Whoever runs or stops has loaded a config that names a node. *)
AgentFine(a) == a.config.node \in Nodes \/ (a.pc \in {"off", "killed"} /\ a.stop = "no")

CliFine(c) ==
  /\ c.pc = "idle" => c.op = "none"
  /\ c.pc # "idle" /\ c.op # "connect" => c.copy.node \in Nodes
  /\ c.pc = "ask" => c.op \in {"revoke", "rotate", "sync"}
  /\ c.pc = "await exit" => c.op = "rotate"
  /\ c.op = "connect" => c.pc = "asked"

MachineInv == ConfFine(conf) /\ AgentFine(agent) /\ CliFine(cli)

Changes == {"rename", "provide", "withdraw", "declare", "detect", "health"}

TaskFine(task) ==
  /\ task.pc \in {"record", "read", "write"} => task.key \in Keys
  /\ task.pc \in {"pointer", "record", "body"} => task.op = "create"
  /\ task.pc = "read" => task.op \in Changes
  /\ task.op = "create" => task.user \in Users

TasksInv == \A t \in Tasks : TaskFine(tasks[t])

TypeInv == TypeOK /\ SlotsInv /\ MachineInv /\ TasksInv

(* Every step seen from the router's nodes: a step of the machine only takes a
   reply, or stops to wait for one. *)

Turned(s) ==
  \/ slots'[s] = slots[s]
  \/ At(s, "done") /\ slots'[s] = FreeSlot
  \/ slots'[s] = [slots[s] EXCEPT !.caller = "other"]

SlotsTurn ==
  /\ slots' \in [Slots -> SlotRecord] /\ \A s \in Slots : Turned(s)
  /\ faults' \in 0..MaxFaults
  /\ UNCHANGED <<codes, aged, nodes, listed, locks, minted, lapses, origin>>

StartsAny(s) ==
  \E pc \in {"arrived", "waiting", "calling"}, op \in RecordOps, n \in Nodes,
     cred \in Credentials, caller \in Callers : Starts(s, pc, op, n, cred, caller)

SlotStep(s) ==
  \/ \E caller \in Callers, c \in Codes : Pair(s, caller, c) \/ PairUnknown(s, caller, c)
  \/ StartsAny(s)
  \/ WriteNode(s) \/ RefuseStale(s) \/ Authenticate(s) \/ Admit(s) \/ NodeAnswers(s)
  \/ NodeFails(s) \/ Acquire(s) \/ Store(s) \/ LockTimesOut(s) \/ Lapse(s) \/ Crash(s)

NodeStep ==
  \/ \E s \in Slots : SlotStep(s)
  \/ \E c \in Codes : CreateCode(c) \/ AgeCode(c)
  \/ \E n \in Nodes : DeadLockExpires(n) \/ Age(n)
  \/ SlotsTurn

LEMMA Empty ==
  AbsentNode \in Record /\ FreeSlot \in SlotRecord /\ 0 \in Credentials
<1>1. 0 \in Credentials
  BY LocalNodesAssumption DEF Credentials
<1>2. AbsentNode \in Record
  BY <1>1 DEF AbsentNode, Record
<1>3. FreeSlot \in SlotRecord
  BY <1>1, <1>2 DEF FreeSlot, SlotRecord, Callers, Phases
<1>4. QED
  BY <1>1, <1>2, <1>3

LEMMA FaultCounted ==
  ASSUME TypeInv, Fault
  PROVE  faults' \in 0..MaxFaults
BY LocalNodesAssumption DEF TypeInv, TypeOK, NodesTypeOK, Fault

LEMMA Still ==
  ASSUME TypeInv, UNCHANGED nodeVars
  PROVE  NodeStep
BY DEF TypeInv, TypeOK, NodesTypeOK, NodeStep, SlotsTurn, Turned, nodeVars

LEMMA HearsTurn ==
  ASSUME TypeInv, NEW s \in Slots, AgentHears(s) \/ CliHears(s)
  PROVE  SlotsTurn
<1>0. slots \in [Slots -> SlotRecord] /\ FreeSlot \in SlotRecord /\ faults \in 0..MaxFaults
  BY Empty DEF TypeInv, TypeOK, NodesTypeOK
<1>1. UNCHANGED <<codes, aged, nodes, listed, locks, minted, lapses, origin>>
  BY DEF AgentHears, CliHears
<1>2. CASE At(s, "done") /\ slots' = [slots EXCEPT ![s] = FreeSlot] /\ UNCHANGED faults
  BY <1>0, <1>1, <1>2 DEF SlotsTurn, Turned
<1>3. CASE slots' = [slots EXCEPT ![s].caller = "other"] /\ Fault
  <2>1. [slots[s] EXCEPT !.caller = "other"] \in SlotRecord
    BY <1>0 DEF SlotRecord, Callers
  <2>2. faults' \in 0..MaxFaults
    BY <1>3, FaultCounted
  <2>3. QED
    BY <1>0, <1>1, <1>3, <2>1, <2>2 DEF SlotsTurn, Turned
<1>4. QED
  BY <1>2, <1>3 DEF AgentHears, CliHears

LEMMA DisconnectedTurn ==
  ASSUME TypeInv, slots' = Disconnected, faults' \in 0..MaxFaults,
         UNCHANGED <<codes, aged, nodes, listed, locks, minted, lapses, origin>>
  PROVE  SlotsTurn
<1>1. ASSUME NEW s \in Slots
      PROVE  slots'[s] \in SlotRecord /\ Turned(s)
  <2>1. slots[s] \in SlotRecord /\ FreeSlot \in SlotRecord
    BY Empty DEF TypeInv, TypeOK, NodesTypeOK
  <2>2. [slots[s] EXCEPT !.caller = "other"] \in SlotRecord
    BY <2>1 DEF SlotRecord, Callers
  <2>3. slots'[s] = IF slots[s].caller # "agent" THEN slots[s]
                    ELSE IF At(s, "done") THEN FreeSlot ELSE [slots[s] EXCEPT !.caller = "other"]
    BY DEF Disconnected
  <2>4. QED
    BY <2>1, <2>2, <2>3 DEF Turned
<1>2. QED
  BY <1>1 DEF SlotsTurn, Disconnected

LEMMA AsksStart ==
  ASSUME TypeInv, NEW s \in Slots, AgentAsks(s) \/ CliAsks(s)
  PROVE  StartsAny(s)
<1>1. "arrived" \in {"arrived", "waiting", "calling"}
  OBVIOUS
<1>2. CASE AgentAsks(s)
  <2> DEFINE op == IF agent.pc = "beat" THEN "heartbeat" ELSE "endpoint"
  <2>1. agent.config.node \in Nodes /\ agent.config.cred \in Credentials
    BY <1>2 DEF AgentAsks, TypeInv, TypeOK, MachineTypeOK, MachineInv, AgentFine, Agent, Config
  <2>2. Starts(s, "arrived", op, agent.config.node, agent.config.cred, "agent")
    BY <1>2 DEF AgentAsks, DeviceCalls
  <2>3. op \in RecordOps /\ "agent" \in Callers
    BY DEF RecordOps, LiveOps, Callers
  <2> HIDE DEF op
  <2>4. QED
    BY <1>1, <2>1, <2>2, <2>3 DEF StartsAny
<1>3. CASE CliAsks(s)
  <2> DEFINE op == [revoke |-> "leave", rotate |-> "rotate", sync |-> "sync"][cli.op]
  <2>1. cli.copy.node \in Nodes /\ cli.copy.cred \in Credentials
        /\ cli.op \in {"revoke", "rotate", "sync"}
    BY <1>3 DEF CliAsks, TypeInv, TypeOK, MachineTypeOK, MachineInv, CliFine, Cli, Config
  <2>2. Starts(s, "arrived", op, cli.copy.node, cli.copy.cred, "cli")
    BY <1>3 DEF CliAsks, DeviceCalls
  <2>3. op \in RecordOps /\ "cli" \in Callers
    BY <2>1 DEF RecordOps, LiveOps, Callers
  <2> HIDE DEF op
  <2>4. QED
    BY <1>1, <2>1, <2>2, <2>3 DEF StartsAny
<1>4. QED
  BY <1>2, <1>3

LEMMA ConnectPairs ==
  ASSUME NEW s \in Slots, NEW c \in Codes, Connect(s, c)
  PROVE  SlotStep(s)
BY DEF Connect, SlotStep, Callers

LEMMA MachineTurn ==
  ASSUME TypeInv, MachineNext
  PROVE  NodeStep
<1>1. CASE \/ AgentStarts \/ Head \/ Spawn \/ Adopt \/ TunnelOpens \/ TunnelFails \/ Rest \/ Leave
           \/ StopServer \/ StopSave \/ DisconnectSaves \/ AgentGone \/ RevokeDeletes
           \/ StartAgent \/ Disconnect \/ RevokeOrSync \/ Rotate
  <2>1. UNCHANGED nodeVars
    BY <1>1 DEF AgentStarts, Head, Spawn, Adopt, TunnelOpens, TunnelFails, Rest, Leave,
                StopServer, StopSave, DisconnectSaves, AgentGone, RevokeDeletes, StartAgent, Disconnect,
                RevokeOrSync, Rotate
  <2>2. QED
    BY <2>1, Still
<1>2. CASE Observe \/ StartFails \/ TunnelDies
  <2>1. UNCHANGED <<codes, aged, nodes, listed, locks, slots, minted, lapses, origin>>
    BY <1>2 DEF Observe, StartFails, TunnelDies
  <2>2. Fault \/ UNCHANGED faults
    BY <1>2 DEF Observe, StartFails, TunnelDies
  <2>3. faults' \in 0..MaxFaults
    BY <2>2, FaultCounted DEF TypeInv, TypeOK, NodesTypeOK
  <2>4. QED
    BY <2>1, <2>3 DEF TypeInv, TypeOK, NodesTypeOK, NodeStep, SlotsTurn, Turned
<1>3. CASE AgentKilled \/ AgentDies
  <2>1. /\ UNCHANGED <<codes, aged, nodes, listed, locks, minted, lapses, origin>>
        /\ slots' = Disconnected /\ (Fault \/ UNCHANGED faults)
    BY <1>3 DEF AgentKilled, AgentDies
  <2>2. faults' \in 0..MaxFaults
    BY <2>1, FaultCounted DEF TypeInv, TypeOK, NodesTypeOK
  <2>3. QED
    BY <2>1, <2>2, DisconnectedTurn DEF NodeStep
<1>4. CASE \E s \in Slots : AgentAsks(s) \/ CliAsks(s)
  BY <1>4, AsksStart DEF NodeStep, SlotStep
<1>5. CASE \E s \in Slots : AgentHears(s) \/ CliHears(s)
  BY <1>5, HearsTurn DEF NodeStep
<1>6. CASE \E s \in Slots, c \in Codes : Connect(s, c)
  BY <1>6, ConnectPairs DEF NodeStep
<1>7. QED
  BY <1>1, <1>2, <1>3, <1>4, <1>5, <1>6 DEF MachineNext, Loop, CommandGoesOn

LEMMA TrafficSteps ==
  ASSUME TypeInv, NodeTraffic \/ OwnerTraffic
  PROVE  \E s \in Slots : SlotStep(s)
<1>0. /\ DeviceOps \subseteq RecordOps /\ OwnerOps \subseteq RecordOps
      /\ {"revoke", "delete", "test", "attempt"} \subseteq RecordOps
      /\ "other" \in Callers /\ 0 \in Credentials /\ 1..minted \subseteq Credentials
      /\ listed \subseteq Nodes
  BY Empty, LocalNodesAssumption
     DEF DeviceOps, OwnerOps, RecordOps, LiveOps, Callers, Credentials,
         TypeInv, TypeOK, NodesTypeOK
<1>1. CASE NodeTraffic
  <2>1. PICK s \in Slots :
          \/ \E c \in Codes : Pair(s, "other", c)
          \/ \E n \in Nodes :
               \/ \E op \in DeviceOps, cred \in 1..minted : DeviceCalls(s, "other", op, n, cred)
               \/ \E op \in OwnerOps : OwnerCalls(s, op, n)
               \/ RoutedTo(s, n) \/ OwnerPlays(s, n) \/ OwnerTests(s, n)
    BY <1>1 DEF NodeTraffic
  <2>2. CASE \E c \in Codes : Pair(s, "other", c)
    BY <1>0, <2>2 DEF SlotStep
  <2>3. CASE \E n \in Nodes : \E op \in DeviceOps, cred \in 1..minted :
               DeviceCalls(s, "other", op, n, cred)
    BY <1>0, <2>3 DEF SlotStep, StartsAny, DeviceCalls
  <2>4. CASE \E n \in Nodes : \E op \in OwnerOps : OwnerCalls(s, op, n)
    BY <1>0, <2>4 DEF SlotStep, StartsAny, OwnerCalls
  <2>5. CASE \E n \in Nodes : RoutedTo(s, n) \/ OwnerPlays(s, n) \/ OwnerTests(s, n)
    BY <1>0, <2>5 DEF SlotStep, StartsAny, RoutedTo, OwnerPlays, OwnerTests
  <2>6. QED
    BY <2>1, <2>2, <2>3, <2>4, <2>5
<1>2. CASE OwnerTraffic
  <2>1. PICK s \in Slots, n \in listed, op \in {"revoke", "delete"} : OwnerCalls(s, op, n)
    BY <1>2 DEF OwnerTraffic
  <2>2. QED
    BY <1>0, <2>1 DEF SlotStep, StartsAny, OwnerCalls
<1>3. QED
  BY <1>1, <1>2

LEMMA EveryStepIsANodeStep ==
  ASSUME TypeInv, [Next]_vars
  PROVE  NodeStep
<1>1. CASE AccountsStep \/ UNCHANGED vars
  BY <1>1, Still DEF AccountsStep, vars
<1>2. CASE NodeTraffic \/ OwnerTraffic
  BY <1>2, TrafficSteps DEF NodeStep
<1>3. CASE NodesStep
  BY <1>3 DEF NodesStep, NodesNext, HandlersNext, Serve, NodeStep, SlotStep
<1>4. CASE MachineStep
  BY <1>4, MachineTurn DEF MachineStep
<1>5. QED
  BY <1>1, <1>2, <1>3, <1>4 DEF Next

(* Each step leaves the nodes well-typed. *)

NodesInv == NodesTypeOK /\ SlotsInv

LEMMA OneSlot ==
  ASSUME TypeInv, NEW s \in Slots, NEW r \in SlotRecord, SlotFine(r),
         slots' = [slots EXCEPT ![s] = r]
  PROVE  slots' \in [Slots -> SlotRecord] /\ SlotsInv'
BY DEF TypeInv, TypeOK, NodesTypeOK, SlotsInv, SlotFine, Working

(* A reply, whoever waits for it. *)
LEMMA ReplyFine ==
  ASSUME NEW me \in SlotRecord, NEW reply \in {"none", "ok", "unauthorized", "refused", "failed"},
         NEW cred \in Credentials, reply = "ok" => me.node \in Nodes
  PROVE  Answered(me, reply, cred) \in SlotRecord /\ SlotFine(Answered(me, reply, cred))
<1>1. CASE me.caller = "other"
  BY <1>1, Empty DEF Answered, SlotFine, FreeSlot, Working
<1>2. CASE me.caller # "other"
  <2> DEFINE r == [pc |-> "done", op |-> me.op, node |-> me.node, code |-> "none",
                   cred |-> cred, loaded |-> AbsentNode, caller |-> me.caller, reply |-> reply]
  <2>1. Answered(me, reply, cred) = r
    BY <1>2 DEF Answered, FreeSlot
  <2>2. r \in SlotRecord
    BY Empty DEF SlotRecord, Phases
  <2>3. SlotFine(r)
    BY DEF SlotFine, Working
  <2>4. QED
    BY <2>1, <2>2, <2>3
<1>3. QED
  BY <1>1, <1>2

LEMMA RepliedFine ==
  ASSUME TypeInv, NEW s \in Slots, NEW reply \in {"none", "ok", "unauthorized", "refused", "failed"},
         NEW cred \in Credentials, reply = "ok" => slots[s].node \in Nodes,
         slots' = Replied(s, reply, cred)
  PROVE  slots' \in [Slots -> SlotRecord] /\ SlotsInv'
<1>1. slots[s] \in SlotRecord
  BY DEF TypeInv, TypeOK, NodesTypeOK
<1>2. slots' = [slots EXCEPT ![s] = Answered(slots[s], reply, cred)]
  BY DEF Replied
<1>3. QED
  BY <1>1, <1>2, ReplyFine, OneSlot

LEMMA TypedSlots ==
  TypeInv => /\ slots \in [Slots -> SlotRecord] /\ SlotsInv
             /\ \A s \in Slots : slots[s] \in SlotRecord /\ SlotFine(slots[s])
BY DEF TypeInv, TypeOK, NodesTypeOK, SlotsInv

LEMMA PairTyped ==
  ASSUME TypeInv, NEW s \in Slots, NEW caller \in Callers, NEW c \in Codes,
         Pair(s, caller, c) \/ PairUnknown(s, caller, c)
  PROVE  NodesInv'
<1>1. PICK r \in SlotRecord : SlotFine(r) /\ slots' = [slots EXCEPT ![s] = r]
  <2>1. CASE Pair(s, caller, c)
    <3> DEFINE r == [FreeSlot EXCEPT !.pc = "consumed", !.op = "pair", !.code = c, !.caller = caller]
    <3>1. r \in SlotRecord /\ SlotFine(r)
      BY Empty DEF SlotRecord, FreeSlot, SlotFine, Working, Phases
    <3>2. slots' = [slots EXCEPT ![s] = r]
      BY <2>1 DEF Pair
    <3>3. QED
      BY <3>1, <3>2
  <2>2. CASE PairUnknown(s, caller, c)
    <3> DEFINE r == [FreeSlot EXCEPT !.pc = "done", !.op = "pair",
                                     !.caller = caller, !.reply = "refused"]
    <3>1. r \in SlotRecord /\ SlotFine(r)
      BY Empty DEF SlotRecord, FreeSlot, SlotFine, Working, Phases
    <3>2. slots' = [slots EXCEPT ![s] = r]
      BY <2>2 DEF PairUnknown
    <3>3. QED
      BY <3>1, <3>2
  <2>3. QED
    BY <2>1, <2>2
<1>2. slots' \in [Slots -> SlotRecord] /\ SlotsInv'
  BY <1>1, OneSlot
<1>3. codes' \in [Codes -> {"unused", "stored", "spent"}]
  BY DEF Pair, PairUnknown, Consumed, TypeInv, TypeOK, NodesTypeOK
<1>4. UNCHANGED <<aged, nodes, listed, locks, minted, lapses, faults, origin>>
  BY DEF Pair, PairUnknown
<1>5. QED
  BY <1>2, <1>3, <1>4 DEF NodesInv, TypeInv, TypeOK, NodesTypeOK

LEMMA StartsTyped ==
  ASSUME TypeInv, NEW s \in Slots, StartsAny(s)
  PROVE  NodesInv'
<1>1. PICK pc \in {"arrived", "waiting", "calling"}, op \in RecordOps, n \in Nodes,
           cred \in Credentials, caller \in Callers : Starts(s, pc, op, n, cred, caller)
  BY DEF StartsAny
<1> DEFINE r == [FreeSlot EXCEPT !.pc = pc, !.op = op, !.node = n,
                                 !.cred = cred, !.caller = caller]
<1>2. r \in SlotRecord /\ SlotFine(r)
  BY Empty DEF SlotRecord, FreeSlot, SlotFine, Working, Phases, RecordOps, LiveOps,
               DeviceOps, OwnerOps
<1>3. /\ slots' = [slots EXCEPT ![s] = r]
      /\ UNCHANGED <<codes, aged, nodes, listed, locks, minted, lapses, faults, origin>>
  BY <1>1 DEF Starts
<1>4. slots' \in [Slots -> SlotRecord] /\ SlotsInv'
  BY <1>2, <1>3, OneSlot
<1>5. QED
  BY <1>3, <1>4 DEF NodesInv, TypeInv, TypeOK, NodesTypeOK

LEMMA WriteNodeTyped ==
  ASSUME TypeInv, NEW s \in Slots, WriteNode(s)
  PROVE  NodesInv'
<1> DEFINE fresh == CHOOSE n \in Nodes : origin[n] = "none"
           me == [slots[s] EXCEPT !.node = fresh]
<1>1. fresh \in Nodes
  BY DEF WriteNode
<1>2. /\ nodes' = [nodes EXCEPT ![fresh] = NewNode(minted + 1)]
      /\ listed' = listed \cup {fresh}
      /\ origin' = [origin EXCEPT ![fresh] = slots[s].code]
      /\ slots' = [slots EXCEPT ![s] = Answered(me, "ok", minted + 1)]
      /\ minted' = minted + 1 /\ minted < MaxCredentials /\ At(s, "consumed")
      /\ UNCHANGED <<codes, aged, locks, lapses, faults>>
  BY DEF WriteNode
<1>3. minted + 1 \in Credentials
  BY <1>2, LocalNodesAssumption DEF TypeInv, TypeOK, NodesTypeOK, Credentials
<1>4. NewNode(minted + 1) \in Record
  BY <1>3, Empty DEF NewNode, AbsentNode, Record
<1>5. slots[s] \in SlotRecord /\ slots[s].code \in Codes
  BY <1>2, TypedSlots DEF SlotFine, At
<1> HIDE DEF fresh
<1>6. me \in SlotRecord /\ me.node \in Nodes
  BY <1>1, <1>5 DEF SlotRecord
<1> HIDE DEF me
<1>7. Answered(me, "ok", minted + 1) \in SlotRecord /\ SlotFine(Answered(me, "ok", minted + 1))
  BY <1>3, <1>6, ReplyFine
<1>8. slots' \in [Slots -> SlotRecord] /\ SlotsInv'
  BY <1>2, <1>7, OneSlot
<1>9. /\ nodes' \in [Nodes -> Record] /\ listed' \subseteq Nodes
      /\ origin' \in [Nodes -> Codes \cup {"none"}]
  BY <1>1, <1>2, <1>4, <1>5 DEF TypeInv, TypeOK, NodesTypeOK
<1>10. QED
  BY <1>2, <1>3, <1>8, <1>9 DEF NodesInv, TypeInv, TypeOK, NodesTypeOK

(* A step that changes the program counter of one slot, or where it goes. *)
LEMMA Advanced ==
  ASSUME TypeInv, NEW s \in Slots, NEW pc \in Working,
         NEW op \in RecordOps, slots[s].pc \in Working,
         slots' = [slots EXCEPT ![s] = [@ EXCEPT !.pc = pc, !.op = op]]
  PROVE  slots' \in [Slots -> SlotRecord] /\ SlotsInv'
<1> DEFINE r == [slots[s] EXCEPT !.pc = pc, !.op = op]
<1>1. slots[s] \in SlotRecord /\ SlotFine(slots[s])
  BY TypedSlots
<1>2. r \in SlotRecord
  BY <1>1 DEF SlotRecord, Phases, Working, RecordOps, LiveOps, DeviceOps, OwnerOps
<1>3. SlotFine(r)
  BY <1>1 DEF SlotFine, SlotRecord, Working
<1>4. slots' = [slots EXCEPT ![s] = r]
  BY <1>1
<1>5. QED
  BY <1>2, <1>3, <1>4, OneSlot

LEMMA AdvanceTyped ==
  ASSUME TypeInv, NEW s \in Slots,
         Authenticate(s) \/ Admit(s) \/ NodeAnswers(s) \/ RefuseStale(s) \/ LockTimesOut(s)
  PROVE  NodesInv'
<1>1. UNCHANGED <<codes, aged, nodes, listed, locks, minted, lapses, faults, origin>>
  BY DEF Authenticate, Admit, NodeAnswers, RefuseStale, LockTimesOut
<1>2. slots[s] \in SlotRecord /\ slots \in [Slots -> SlotRecord] /\ SlotFine(slots[s])
  BY TypedSlots
<1>3. /\ slots' \in [Slots -> SlotRecord] /\ SlotsInv'
  <2>1. CASE \E reply \in {"none", "unauthorized", "refused", "failed"} : slots' = Replied(s, reply, 0)
    BY <2>1, RepliedFine, Empty
  <2>2. CASE /\ slots[s].pc \in Working
             /\ \E pc \in Working : slots' = [slots EXCEPT ![s].pc = pc]
    <3>1. slots[s].op \in RecordOps
      BY <1>2, <2>2 DEF SlotFine
    <3>2. PICK pc \in Working : slots' = [slots EXCEPT ![s].pc = pc]
      BY <2>2
    <3>3. slots' = [slots EXCEPT ![s] = [@ EXCEPT !.pc = pc, !.op = slots[s].op]]
      BY <1>2, <3>2 DEF SlotRecord
    <3>4. QED
      BY <2>2, <3>1, <3>3, Advanced
  <2>3. CASE At(s, "arrived") /\ slots' = [slots EXCEPT ![s].op = "denied", ![s].pc = "waiting"]
    <3>1. slots' = [slots EXCEPT ![s] = [@ EXCEPT !.pc = "waiting", !.op = "denied"]]
      BY <1>2, <2>3 DEF SlotRecord
    <3>2. "waiting" \in Working /\ slots[s].pc \in Working /\ "denied" \in RecordOps
      BY <2>3 DEF Working, RecordOps, LiveOps, At
    <3>3. QED
      BY <3>1, <3>2, Advanced
  <2>4. CASE Authenticate(s)
    BY <2>1, <2>2, <2>3, <2>4 DEF Authenticate, Working, At
  <2>5. CASE Admit(s)
    BY <2>1, <2>2, <2>5 DEF Admit, Working, At
  <2>6. CASE NodeAnswers(s)
    BY <2>2, <2>6 DEF NodeAnswers, Working, At
  <2>7. CASE RefuseStale(s) \/ LockTimesOut(s)
    BY <2>1, <2>7 DEF RefuseStale, LockTimesOut
  <2>8. QED
    BY <2>4, <2>5, <2>6, <2>7
<1>4. QED
  BY <1>1, <1>3 DEF NodesInv, TypeInv, TypeOK, NodesTypeOK

LEMMA FailTyped ==
  ASSUME TypeInv, NEW s \in Slots, NodeFails(s) \/ Crash(s)
  PROVE  NodesInv'
<1>1. /\ UNCHANGED <<codes, aged, nodes, listed, minted, lapses, origin>> /\ Fault
      /\ \E reply \in {"refused", "failed"} : slots' = Replied(s, reply, 0)
  BY DEF NodeFails, Crash
<1>2. slots' \in [Slots -> SlotRecord] /\ SlotsInv'
  BY <1>1, RepliedFine, Empty
<1>3. faults' \in 0..MaxFaults
  BY <1>1, FaultCounted
<1>4. locks' \in [Nodes -> Slots \cup {"free", "dead"}]
  BY DEF NodeFails, Crash, TypeInv, TypeOK, NodesTypeOK
<1>5. QED
  BY <1>1, <1>2, <1>3, <1>4 DEF NodesInv, TypeInv, TypeOK, NodesTypeOK

LEMMA AcquireTyped ==
  ASSUME TypeInv, NEW s \in Slots, Acquire(s)
  PROVE  NodesInv'
<1> DEFINE n == slots[s].node
<1>1. /\ slots[s] \in SlotRecord /\ SlotFine(slots[s]) /\ At(s, "waiting")
      /\ slots \in [Slots -> SlotRecord]
      /\ UNCHANGED <<codes, aged, nodes, listed, minted, lapses, faults, origin>>
  BY TypedSlots DEF Acquire
<1>2. n \in Nodes /\ slots[s].op \in RecordOps
  BY <1>1 DEF SlotFine, Working, At
<1>3. CASE nodes[n].state = "absent"
  <2>1. UNCHANGED locks /\ \E reply \in {"unauthorized", "refused"} : slots' = Replied(s, reply, 0)
    BY <1>3 DEF Acquire
  <2>2. slots' \in [Slots -> SlotRecord] /\ SlotsInv'
    BY <2>1, RepliedFine, Empty
  <2>3. QED
    BY <1>1, <2>1, <2>2 DEF NodesInv, TypeInv, TypeOK, NodesTypeOK
<1>4. CASE nodes[n].state # "absent"
  <2> DEFINE r == [slots[s] EXCEPT !.pc = "holding", !.loaded = nodes[n]]
  <2>1. nodes[n] \in Record
    BY <1>2 DEF TypeInv, TypeOK, NodesTypeOK
  <2>2. r \in SlotRecord /\ SlotFine(r)
    BY <1>1, <1>2, <2>1 DEF SlotRecord, SlotFine, Phases, Working, RecordOps
  <2>3. slots' = [slots EXCEPT ![s] = r] /\ locks' = [locks EXCEPT ![n] = s]
    BY <1>1, <1>4 DEF Acquire
  <2>4. slots' \in [Slots -> SlotRecord] /\ SlotsInv'
    BY <2>2, <2>3, OneSlot
  <2>5. locks' \in [Nodes -> Slots \cup {"free", "dead"}]
    BY <2>3 DEF TypeInv, TypeOK, NodesTypeOK
  <2>6. QED
    BY <1>1, <2>4, <2>5 DEF NodesInv, TypeInv, TypeOK, NodesTypeOK
<1>5. QED
  BY <1>3, <1>4

LEMMA UpdatedTyped ==
  ASSUME NEW op \in RecordOps, NEW loaded \in Record, NEW willing \in BOOLEAN,
         NEW cred \in Credentials
  PROVE  Updated(op, loaded, willing, cred) \in Record
<1>1. CASE op \in {"delete", "revoke", "leave"}
  BY <1>1, Empty DEF Updated, Revoked, Record, LiveOps
<1>2. CASE op \in LiveOps
  <2>1. Renewed(op, loaded, willing, cred) \in Record
    BY <1>2 DEF Renewed, LiveOps, Record
  <2>2. QED
    BY <1>2, <2>1 DEF Updated, LiveOps
<1>3. QED
  BY <1>1, <1>2 DEF RecordOps

LEMMA StoreTyped ==
  ASSUME TypeInv, NEW s \in Slots, Store(s)
  PROVE  NodesInv'
<1> DEFINE n == slots[s].node
           op == slots[s].op
           loaded == slots[s].loaded
           issues == op = "rotate" /\ loaded.state = "live"
<1>1. /\ slots[s] \in SlotRecord /\ SlotFine(slots[s]) /\ At(s, "holding")
      /\ UNCHANGED <<codes, aged, lapses, faults, origin>>
  BY TypedSlots DEF Store
<1>2. n \in Nodes /\ op \in RecordOps /\ loaded \in Record /\ slots[s].cred \in Credentials
  BY <1>1 DEF SlotFine, Working, At, SlotRecord
<1>3. /\ issues => minted < MaxCredentials
      /\ minted' = IF issues THEN minted + 1 ELSE minted
      /\ locks' = Released(s, n)
      /\ listed' = IF op = "delete" THEN listed \ {n} ELSE listed
  BY DEF Store
<1>4. minted' \in Credentials
  BY <1>3, LocalNodesAssumption DEF TypeInv, TypeOK, NodesTypeOK, Credentials
<1>5. nodes' \in [Nodes -> Record]
  <2>1. PICK willing \in BOOLEAN : nodes' = [nodes EXCEPT ![n] = Updated(op, loaded, willing, minted')]
    BY DEF Store
  <2>2. Updated(op, loaded, willing, minted') \in Record
    BY <1>2, <1>4, UpdatedTyped
  <2>3. QED
    BY <1>2, <2>1, <2>2 DEF TypeInv, TypeOK, NodesTypeOK
<1>6. slots' \in [Slots -> SlotRecord] /\ SlotsInv'
  <2>1. \E reply \in {"unauthorized", "refused", "ok"}, cred \in Credentials :
          slots' = Replied(s, reply, cred)
    <3>1. CASE op = "denied"
      BY <3>1, Empty DEF Store
    <3>2. CASE op = "rotate" /\ ~issues
      BY <3>2, Empty DEF Store
    <3>3. CASE op # "denied" /\ ~(op = "rotate" /\ ~issues)
      <4>1. slots' = Replied(s, "ok", IF issues THEN minted' ELSE slots[s].cred)
        BY <3>3 DEF Store
      <4>2. QED
        BY <1>2, <1>4, <4>1
    <3>4. QED
      BY <3>1, <3>2, <3>3
  <2>2. QED
    BY <1>2, <2>1, RepliedFine
<1>7. locks' \in [Nodes -> Slots \cup {"free", "dead"}] /\ listed' \subseteq Nodes
  BY <1>3 DEF Released, TypeInv, TypeOK, NodesTypeOK
<1>8. QED
  BY <1>1, <1>4, <1>5, <1>6, <1>7 DEF NodesInv, TypeInv, TypeOK, NodesTypeOK

LEMMA ClockTyped ==
  ASSUME TypeInv,
         \/ \E s \in Slots : Lapse(s)
         \/ \E n \in Nodes : DeadLockExpires(n)
         \/ \E c \in Codes : CreateCode(c) \/ AgeCode(c)
         \/ SlotsTurn
  PROVE  NodesInv'
<1>1. CASE \E s \in Slots : Lapse(s)
  <2>1. PICK s \in Slots : Lapse(s)
    BY <1>1
  <2>2. lapses' \in 0..MaxLapses
    BY <2>1, LocalNodesAssumption DEF Lapse, TypeInv, TypeOK, NodesTypeOK
  <2>3. locks' \in [Nodes -> Slots \cup {"free", "dead"}]
    BY <2>1 DEF Lapse, TypeInv, TypeOK, NodesTypeOK
  <2>4. SlotsInv'
    BY <2>1, TypedSlots DEF Lapse, SlotsInv
  <2>5. UNCHANGED <<codes, aged, nodes, listed, slots, minted, faults, origin>>
    BY <2>1 DEF Lapse
  <2>6. QED
    BY <2>2, <2>3, <2>4, <2>5 DEF NodesInv, TypeInv, TypeOK, NodesTypeOK
<1>2. CASE \E n \in Nodes : DeadLockExpires(n)
  BY <1>2 DEF DeadLockExpires, NodesInv, TypeInv, TypeOK, NodesTypeOK, SlotsInv, SlotFine
<1>3. CASE \E c \in Codes : CreateCode(c) \/ AgeCode(c)
  BY <1>3 DEF CreateCode, AgeCode, NodesInv, TypeInv, TypeOK, NodesTypeOK, SlotsInv, SlotFine
<1>4. CASE SlotsTurn
  <2>1. ASSUME NEW s \in Slots
        PROVE  SlotFine(slots'[s])
    <3>1. slots[s] \in SlotRecord /\ SlotFine(slots[s]) /\ Turned(s)
      BY <1>4, TypedSlots DEF SlotsTurn
    <3>2. CASE slots'[s] = FreeSlot
      BY <3>2 DEF SlotFine, FreeSlot, Working
    <3>3. CASE slots'[s] = [slots[s] EXCEPT !.caller = "other"]
      BY <3>1, <3>3 DEF SlotFine, SlotRecord
    <3>4. QED
      BY <3>1, <3>2, <3>3 DEF Turned
  <2>2. QED
    BY <1>4, <2>1 DEF SlotsTurn, NodesInv, TypeInv, TypeOK, NodesTypeOK, SlotsInv, SlotFine
<1>5. QED
  BY <1>1, <1>2, <1>3, <1>4

LEMMA AgeTyped ==
  ASSUME TypeInv, NEW n \in Nodes, Age(n)
  PROVE  NodesInv'
<1>1. \A h \in {"fresh", "late", "old"} : Older[h] \in {"fresh", "late", "old"}
  BY DEF Older
<1>2. UNCHANGED <<codes, aged, listed, locks, minted, lapses, faults, origin>>
  BY DEF Age
<1>3. nodes' \in [Nodes -> Record]
  <2>1. nodes[n] \in Record
    BY DEF TypeInv, TypeOK, NodesTypeOK
  <2>2. [nodes[n] EXCEPT !.heard = Older[@]] \in Record
    BY <1>1, <2>1 DEF Record
  <2>3. nodes' = [nodes EXCEPT ![n] = [nodes[n] EXCEPT !.heard = Older[@]]]
    BY <2>1 DEF Age
  <2>4. QED
    BY <2>2, <2>3 DEF TypeInv, TypeOK, NodesTypeOK
<1>4. ASSUME NEW s \in Slots
      PROVE  slots'[s] \in SlotRecord /\ SlotFine(slots'[s])
  <2>1. slots[s] \in SlotRecord /\ SlotFine(slots[s]) /\ slots[s].loaded \in Record
    BY TypedSlots DEF SlotRecord
  <2>2. [slots[s].loaded EXCEPT !.heard = Older[@]] \in Record
    BY <1>1, <2>1 DEF Record
  <2>3. \/ slots'[s] = slots[s]
        \/ slots'[s] = [slots[s] EXCEPT !.loaded = [slots[s].loaded EXCEPT !.heard = Older[@]]]
    BY <2>1 DEF Age
  <2>4. QED
    BY <2>1, <2>2, <2>3 DEF SlotRecord, SlotFine
<1>5. slots' \in [Slots -> SlotRecord] /\ SlotsInv'
  BY <1>4 DEF SlotsInv, SlotFine, Age
<1>6. QED
  BY <1>2, <1>3, <1>5 DEF NodesInv, TypeInv, TypeOK, NodesTypeOK

LEMMA NodesTypedStep ==
  ASSUME TypeInv, [Next]_vars
  PROVE  NodesInv'
<1>1. NodeStep
  BY EveryStepIsANodeStep
<1>2. ASSUME NEW s \in Slots, SlotStep(s)
      PROVE  NodesInv'
  BY <1>2, PairTyped, StartsTyped, WriteNodeTyped, AdvanceTyped, FailTyped, AcquireTyped,
     StoreTyped, ClockTyped DEF SlotStep
<1>3. QED
  BY <1>1, <1>2, ClockTyped, AgeTyped DEF NodeStep

(* Each step leaves the accounts well-typed. *)

AccountsInv == AccountsTypeOK /\ TasksInv

LEMMA NoTask ==
  /\ FreeTask \in Task /\ TaskFine(FreeTask) /\ 0 \in Names /\ NoAccount \in Account
  /\ NoFile \in File
<1>1. 0 \in Names
  BY AccountStoreAssumption DEF Names
<1>2. NoCapability \in Capability
  BY DEF NoCapability, Capability, Support, Sources
<1>3. NoAccount \in Account
  BY <1>1, <1>2 DEF NoAccount, Account
<1>4. NoFile \in File
  BY <1>3 DEF NoFile, File
<1>5. FreeTask \in Task
  BY <1>3, <1>4 DEF FreeTask, Task, Support, Sources
<1>6. QED
  BY <1>1, <1>3, <1>4, <1>5 DEF TaskFine, FreeTask

LEMMA OneTask ==
  ASSUME AccountsInv, NEW t \in Tasks, NEW task \in Task, TaskFine(task),
         tasks' = [tasks EXCEPT ![t] = task]
  PROVE  tasks' \in [Tasks -> Task] /\ TasksInv'
BY DEF AccountsInv, AccountsTypeOK, TasksInv, TaskFine

LEMMA BeginsFine ==
  ASSUME AccountsInv, NEW t \in Tasks, NEW task \in Task, TaskFine(task), Begins(t, task)
  PROVE  tasks' \in [Tasks -> Task] /\ TasksInv' /\ started' \in 0..MaxTasks
<1>1. tasks' \in [Tasks -> Task] /\ TasksInv'
  BY OneTask DEF Begins
<1>2. started' \in 0..MaxTasks
  BY AccountStoreAssumption DEF Begins, AccountsInv, AccountsTypeOK
<1>3. QED
  BY <1>1, <1>2

LEMMA VisitTyped ==
  ASSUME AccountsInv, NEW t \in Tasks, NEW u \in Users, Visit(t, u)
  PROVE  AccountsInv'
<1> DEFINE task == [FreeTask EXCEPT !.pc = "pointer", !.op = "create", !.user = u]
<1>1. task \in Task /\ TaskFine(task)
  BY NoTask DEF FreeTask, Task, TaskFine
<1>2. Begins(t, task) /\ UNCHANGED <<store, accounts, pointer, issued, told, overlapped>>
  BY DEF Visit
<1>3. tasks' \in [Tasks -> Task] /\ TasksInv' /\ started' \in 0..MaxTasks
  BY <1>1, <1>2, BeginsFine
<1>4. QED
  BY <1>2, <1>3 DEF AccountsInv, AccountsTypeOK

LEMMA ChangeTyped ==
  ASSUME AccountsInv, NEW t \in Tasks, NEW k \in Keys, NEW op \in Changes,
         NEW value \in Support, NEW source \in Sources, Change(t, k, op, value, source)
  PROVE  AccountsInv'
<1> DEFINE task == [FreeTask EXCEPT !.pc = "read", !.op = op, !.key = k,
                                    !.value = value, !.source = source]
<1>1. task \in Task /\ TaskFine(task)
  BY NoTask DEF FreeTask, Task, TaskFine, Changes
<1>2. /\ Begins(t, task) /\ UNCHANGED <<store, accounts, pointer, issued, told>>
      /\ overlapped' \subseteq overlapped \cup Keys
  BY DEF Change, Overlapping
<1>3. tasks' \in [Tasks -> Task] /\ TasksInv' /\ started' \in 0..MaxTasks
  BY <1>1, <1>2, BeginsFine
<1>4. QED
  BY <1>2, <1>3 DEF AccountsInv, AccountsTypeOK

LEMMA ChangesTyped ==
  ASSUME AccountsInv, NEW t \in Tasks, NEW k \in Keys,
         \/ Rename(t, k) \/ Provide(t, k) \/ Withdraw(t, k)
         \/ Declare(t, k) \/ Detect(t, k) \/ Attempted(t, k)
  PROVE  AccountsInv'
<1>1. \E op \in Changes, value \in Support, source \in Sources : Change(t, k, op, value, source)
  BY DEF Rename, Provide, Withdraw, Declare, Detect, Attempted, Changes, Support, Sources
<1>2. QED
  BY <1>1, ChangeTyped

LEMMA MovesTyped ==
  ASSUME AccountsInv, NEW t \in Tasks,
         ReadPointer(t) \/ ReadOwn(t) \/ FindOwn(t) \/ CreateAccount(t)
  PROVE  AccountsInv'
<1>0. tasks[t] \in Task /\ TaskFine(tasks[t])
  BY DEF AccountsInv, AccountsTypeOK, TasksInv
<1>1. CASE ReadPointer(t)
  <2> DEFINE key == pointer[tasks[t].user]
             task == [tasks[t] EXCEPT !.pc = IF key = "none" THEN "body" ELSE "record", !.key = key]
  <2>1. key \in Keys \cup {"none"} /\ tasks[t].op = "create" /\ tasks[t].user \in Users
    BY <1>0, <1>1 DEF ReadPointer, TaskFine, AccountsInv, AccountsTypeOK
  <2> HIDE DEF key
  <2>2. task \in Task /\ TaskFine(task)
    BY <1>0, <2>1 DEF Task, TaskFine
  <2>3. /\ tasks' = [tasks EXCEPT ![t] = task]
        /\ UNCHANGED <<store, accounts, pointer, started, issued, told, overlapped>>
    BY <1>1 DEF ReadPointer, Moves, key
  <2>4. tasks' \in [Tasks -> Task] /\ TasksInv'
    BY <2>2, <2>3, OneTask
  <2>5. QED
    BY <2>3, <2>4 DEF AccountsInv, AccountsTypeOK
<1>2. CASE ReadOwn(t)
  <2>1. /\ tasks[t].key \in Keys /\ tasks[t].op = "create" /\ tasks[t].user \in Users
        /\ UNCHANGED <<store, accounts, pointer, started, told, overlapped>>
    BY <1>0, <1>2 DEF ReadOwn, TaskFine
  <2> DEFINE task == [tasks[t] EXCEPT !.pc = "body", !.key = "none"]
  <2>2. task \in Task /\ TaskFine(task)
    BY <1>0, <2>1 DEF Task, TaskFine
  <2>3. \/ tasks' = [tasks EXCEPT ![t] = FreeTask]
        \/ tasks' = [tasks EXCEPT ![t] = task]
    BY <1>2 DEF ReadOwn, Moves
  <2>4. tasks' \in [Tasks -> Task] /\ TasksInv'
    BY <2>2, <2>3, NoTask, OneTask
  <2>5. issued' \subseteq Users \X Keys
    BY <1>2, <2>1 DEF ReadOwn, AccountsInv, AccountsTypeOK
  <2>6. QED
    BY <2>1, <2>4, <2>5 DEF AccountsInv, AccountsTypeOK
<1>3. CASE CreateAccount(t)
  <2>1. tasks[t].pc = "body" /\ tasks[t].op = "create" /\ tasks[t].user \in Users
    BY <1>0, <1>3 DEF CreateAccount, TaskFine
  <2> DEFINE mine == [NoAccount EXCEPT !.there = TRUE, !.owner = tasks[t].user]
             task(k) == [tasks[t] EXCEPT !.pc = "write", !.key = k, !.copy = mine,
                                         !.left = Writing]
  <2>2. mine \in Account
    BY <2>1, NoTask DEF NoAccount, Account
  <2>3. PICK k \in Keys : tasks' = [tasks EXCEPT ![t] = task(k)]
    BY <1>3 DEF CreateAccount, Moves
  <2> HIDE DEF mine
  <2>4. task(k) \in Task /\ TaskFine(task(k))
    BY <1>0, <2>1, <2>2 DEF Task, TaskFine, Writing
  <2>5. tasks' \in [Tasks -> Task] /\ TasksInv'
    BY <2>3, <2>4, OneTask
  <2>6. overlapped' \subseteq Keys
    BY <1>3 DEF CreateAccount, AccountsInv, AccountsTypeOK
  <2>7. QED
    BY <1>3, <2>5, <2>6 DEF CreateAccount, AccountsInv, AccountsTypeOK
<1>4. CASE FindOwn(t)
  <2>1. /\ tasks[t].op = "create" /\ tasks[t].user \in Users
        /\ UNCHANGED <<store, accounts, pointer, started, told, overlapped>>
    BY <1>0, <1>4 DEF FindOwn, TaskFine
  <2> DEFINE task == [tasks[t] EXCEPT !.pc = "body"]
  <2>2. task \in Task /\ TaskFine(task)
    BY <1>0, <2>1 DEF Task, TaskFine
  <2>3. \/ tasks' = [tasks EXCEPT ![t] = FreeTask]
        \/ tasks' = [tasks EXCEPT ![t] = task]
    BY <1>4 DEF FindOwn, Moves
  <2>4. tasks' \in [Tasks -> Task] /\ TasksInv'
    BY <2>2, <2>3, NoTask, OneTask
  <2>5. pointer[tasks[t].user] \in Keys \cup {"none"}
    BY <2>1 DEF AccountsInv, AccountsTypeOK
  <2>6. issued' \subseteq Users \X Keys
    BY <1>4, <2>1, <2>5 DEF FindOwn, AccountsInv, AccountsTypeOK
  <2>7. QED
    BY <2>1, <2>4, <2>6 DEF AccountsInv, AccountsTypeOK
<1>5. QED
  BY <1>1, <1>2, <1>3, <1>4

LEMMA ChangedTyped ==
  ASSUME NEW task \in Task, task.op \in Changes, NEW account \in Account, started \in 0..MaxTasks
  PROVE  Changed(task, account) \in Account
<1>1. started \in Names /\ 0 \in Names
  BY AccountStoreAssumption DEF Names
<1>2. task.value \in Support /\ task.source \in Sources /\ account.capability \in Capability
  BY DEF Task, Account
<1>3. Merged(account.capability, task.value, task.source) \in Capability
  BY <1>2 DEF Merged, Capability
<1>4. [value |-> task.value, source |-> "user"] \in Capability
  BY <1>2 DEF Capability, Sources
<1>5. CASE task.op \in {"rename", "provide", "withdraw"}
  BY <1>1, <1>5 DEF Changed, Account
<1>6. CASE task.op = "declare"
  BY <1>4, <1>6 DEF Changed, Account
<1>7. CASE task.op = "detect"
  BY <1>3, <1>7 DEF Changed, Account
<1>8. CASE task.op = "health"
  BY <1>8 DEF Changed, Account
<1>9. QED
  BY <1>5, <1>6, <1>7, <1>8 DEF Changes

LEMMA WritesTyped ==
  ASSUME AccountsInv, NEW t \in Tasks,
         \/ ReadAccount(t) \/ WriteRecord(t) \/ WritePointer(t)
         \/ LoadFile(t) \/ SaveFile(t) \/ Acknowledge(t)
  PROVE  AccountsInv'
<1>0. tasks[t] \in Task /\ TaskFine(tasks[t])
  BY DEF AccountsInv, AccountsTypeOK, TasksInv
<1>1. CASE ReadAccount(t)
  <2>1. tasks[t].key \in Keys /\ tasks[t].op \in Changes
    BY <1>0, <1>1 DEF ReadAccount, TaskFine
  <2> DEFINE account == accounts[tasks[t].key]
             new == Changed(tasks[t], account)
             task == [tasks[t] EXCEPT !.pc = "write", !.copy = new, !.left = Writing]
  <2>2. account \in Account
    BY <2>1 DEF AccountsInv, AccountsTypeOK
  <2>3. new \in Account
    BY <1>0, <2>1, <2>2, ChangedTyped DEF AccountsInv, AccountsTypeOK
  <2>4. tasks' = [tasks EXCEPT ![t] = task] \/ tasks' = [tasks EXCEPT ![t] = FreeTask]
    BY <1>1 DEF ReadAccount, Moves
  <2> HIDE DEF new
  <2>5. task \in Task /\ TaskFine(task)
    BY <1>0, <2>1, <2>3 DEF Task, TaskFine, Changes, Writing
  <2>6. tasks' \in [Tasks -> Task] /\ TasksInv'
    BY <2>4, <2>5, NoTask, OneTask
  <2>7. QED
    BY <1>1, <2>6 DEF ReadAccount, AccountsInv, AccountsTypeOK
<1>2. CASE WriteRecord(t) \/ WritePointer(t)
  <2>1. tasks[t].pc = "write" /\ tasks[t].key \in Keys /\ tasks[t].copy \in Account
    BY <1>0, <1>2 DEF WriteRecord, WritePointer, TaskFine, Task
  <2> DEFINE task(w) == [tasks[t] EXCEPT !.left = @ \ {w}]
  <2>2. PICK w \in {"record", "pointer"} : tasks' = [tasks EXCEPT ![t] = task(w)]
    BY <1>2 DEF WriteRecord, WritePointer, Moves
  <2>3. task(w) \in Task /\ TaskFine(task(w))
    BY <1>0, <2>1 DEF Task, TaskFine
  <2>4. tasks' \in [Tasks -> Task] /\ TasksInv'
    BY <2>2, <2>3, OneTask
  <2>5. accounts' \in [Keys -> Account] /\ pointer' \in [Users -> Keys \cup {"none"}]
    BY <1>2, <2>1 DEF WriteRecord, WritePointer, RecordKey, AccountsInv, AccountsTypeOK
  <2>6. UNCHANGED <<store, started, issued, told, overlapped>>
    BY <1>2 DEF WriteRecord, WritePointer
  <2>7. QED
    BY <2>4, <2>5, <2>6 DEF AccountsInv, AccountsTypeOK
<1>3. CASE Acknowledge(t)
  <2>1. /\ tasks[t].key \in Keys /\ tasks[t].copy \in Account /\ tasks[t].value \in Support
        /\ tasks[t].op = "create" => tasks[t].user \in Users
    BY <1>0, <1>3 DEF Acknowledge, TaskFine, Task
  <2>2. tasks[t].copy.name \in Names /\ tasks[t].copy.secret \in Names
    BY <2>1 DEF Account
  <2>3. /\ tasks' = [tasks EXCEPT ![t] = FreeTask]
        /\ UNCHANGED <<store, accounts, pointer, started, overlapped>>
    BY <1>3 DEF Acknowledge, Moves
  <2>4. tasks' \in [Tasks -> Task] /\ TasksInv'
    BY <2>3, NoTask, OneTask
  <2>5. issued' \subseteq Users \X Keys
    BY <1>3, <2>1 DEF Acknowledge, AccountsInv, AccountsTypeOK
  <2>6. told' \in [Keys -> [name : Names, secret : Names, declared : Support \cup {"none"}]]
    <3>0. told \in [Keys -> [name : Names, secret : Names, declared : Support \cup {"none"}]]
      BY DEF AccountsInv, AccountsTypeOK
    <3>1. CASE tasks[t].op = "rename"
      <4>1. told' = [told EXCEPT ![tasks[t].key].name = tasks[t].copy.name]
        BY <1>3, <3>1 DEF Acknowledge
      <4>2. QED
        BY <2>1, <2>2, <3>0, <4>1
    <3>2. CASE tasks[t].op \in {"provide", "withdraw"}
      <4>1. told' = [told EXCEPT ![tasks[t].key].secret = tasks[t].copy.secret]
        BY <1>3, <3>2 DEF Acknowledge
      <4>2. QED
        BY <2>1, <2>2, <3>0, <4>1
    <3>3. CASE tasks[t].op = "declare"
      <4>1. told' = [told EXCEPT ![tasks[t].key].declared = tasks[t].value]
        BY <1>3, <3>3 DEF Acknowledge
      <4>2. QED
        BY <2>1, <3>0, <4>1
    <3>4. CASE tasks[t].op \notin {"rename", "provide", "withdraw", "declare"}
      BY <1>3, <3>0, <3>4 DEF Acknowledge
    <3>5. QED
      BY <3>1, <3>2, <3>3, <3>4
  <2>7. QED
    BY <2>3, <2>4, <2>5, <2>6 DEF AccountsInv, AccountsTypeOK
<1>4. CASE LoadFile(t)
  <2> DEFINE file == [accounts |-> accounts, first |-> pointer]
             task == [tasks[t] EXCEPT !.left = {"save"}, !.file = file]
  <2>1. file \in File
    BY DEF File, AccountsInv, AccountsTypeOK
  <2>2. tasks' = [tasks EXCEPT ![t] = task]
    BY <1>4 DEF LoadFile, Moves
  <2> HIDE DEF file
  <2>3. task \in Task /\ TaskFine(task)
    BY <1>0, <2>1 DEF Task, TaskFine
  <2>4. tasks' \in [Tasks -> Task] /\ TasksInv'
    BY <2>2, <2>3, OneTask
  <2>5. UNCHANGED <<store, accounts, pointer, started, issued, told, overlapped>>
    BY <1>4 DEF LoadFile
  <2>6. QED
    BY <2>4, <2>5 DEF AccountsInv, AccountsTypeOK
<1>5. CASE SaveFile(t)
  <2> DEFINE task == [tasks[t] EXCEPT !.left = {}, !.file = NoFile]
  <2>1. /\ tasks[t].key \in Keys /\ tasks[t].copy \in Account /\ tasks[t].file \in File
        /\ tasks' = [tasks EXCEPT ![t] = task]
        /\ UNCHANGED <<store, started, issued, told, overlapped>>
    BY <1>0, <1>5 DEF SaveFile, Moves, TaskFine, Task
  <2>2. task \in Task /\ TaskFine(task)
    BY <1>0, NoTask DEF Task, TaskFine
  <2>3. tasks' \in [Tasks -> Task] /\ TasksInv'
    BY <2>1, <2>2, OneTask
  <2>4. /\ tasks[t].file.accounts \in [Keys -> Account]
        /\ tasks[t].file.first \in [Users -> Keys \cup {"none"}]
    BY <2>1 DEF File
  <2>5. accounts' \in [Keys -> Account]
    BY <1>5, <2>1, <2>4 DEF SaveFile, RecordKey
  <2>6. pointer' \in [Users -> Keys \cup {"none"}]
    BY <1>5, <2>1, <2>4 DEF SaveFile
  <2>7. QED
    BY <2>1, <2>3, <2>5, <2>6 DEF AccountsInv, AccountsTypeOK
<1>6. QED
  BY <1>1, <1>2, <1>3, <1>4, <1>5

LEMMA AccountsTypedStep ==
  ASSUME TypeInv, [Next]_vars
  PROVE  AccountsInv'
<1>1. AccountsInv
  BY DEF TypeInv, TypeOK, AccountsInv
<1>2. CASE AccountsNext
  BY <1>1, <1>2, VisitTyped, ChangesTyped, MovesTyped, WritesTyped DEF AccountsNext
<1>3. CASE UNCHANGED accountVars
  BY <1>1, <1>3 DEF accountVars, AccountsInv, AccountsTypeOK, TasksInv, Task
<1>4. QED
  BY <1>2, <1>3 DEF Next, AccountsStep, vars

(* Each step leaves the machine well-typed. *)

MachineFine == MachineTypeOK /\ MachineInv

LEMMA NothingYet ==
  NoConfig \in Config /\ ConfFine(NoConfig) /\ NoAgent \in Agent /\ AgentFine(NoAgent)
  /\ NoCommand \in Cli /\ CliFine(NoCommand)
<1>1. NoConfig \in Config
  BY Empty, AgentRunAssumption DEF NoConfig, Config, Pids
<1>2. NoAgent \in Agent
  BY <1>1, AgentRunAssumption DEF NoAgent, Agent, Pids, LoopPhases
<1>3. NoCommand \in Cli
  BY <1>1 DEF NoCommand, Cli
<1>4. QED
  BY <1>1, <1>2, <1>3 DEF ConfFine, NoConfig, AgentFine, NoAgent, CliFine, NoCommand

LEMMA TypedMachine ==
  ASSUME TypeInv
  PROVE  /\ agent \in Agent /\ AgentFine(agent) /\ agent.config \in Config
         /\ conf \in Config /\ ConfFine(conf) /\ cli \in Cli /\ CliFine(cli)
         /\ cli.copy \in Config /\ ngrok \in {"none", "own", "foreign"}
         /\ commands \in 0..MaxCommands
BY DEF TypeInv, TypeOK, MachineTypeOK, MachineInv, Agent, Cli

(* A running agent may save its config. *)
LEMMA Saves ==
  ASSUME TypeInv, agent.pc \notin {"off", "killed"}
  PROVE  agent.config \in Config /\ ConfFine(agent.config) /\ agent.config.node \in Nodes
BY TypedMachine DEF AgentFine, ConfFine

LEMMA TerminatedFine ==
  ASSUME TypeInv, NEW pid, Terminated(pid)
  PROVE  agent' \in Agent /\ AgentFine(agent') /\ ngrok' \in {"none", "own", "foreign"}
<1>0. /\ agent \in Agent /\ AgentFine(agent) /\ ngrok \in {"none", "own", "foreign"}
      /\ Closed(agent.handle) \in {"none", "own", "foreign"} /\ Orphaned \in {"none", "own", "foreign"}
  BY TypedMachine DEF Closed, Orphaned
<1>1. CASE UNCHANGED <<agent, ngrok>>
  BY <1>0, <1>1
<1>2. CASE agent' = [NoAgent EXCEPT !.pc = "killed"] /\ ngrok' = Orphaned
  <2>1. [NoAgent EXCEPT !.pc = "killed"] \in Agent
    BY NothingYet DEF Agent, LoopPhases
  <2>2. AgentFine([NoAgent EXCEPT !.pc = "killed"])
    BY DEF AgentFine, NoAgent
  <2>3. QED
    BY <1>0, <1>2, <2>1, <2>2
<1>3. CASE Alive /\ agent' = [(IF Stopped THEN agent ELSE Stopping(agent)) EXCEPT !.termed = TRUE]
           /\ ngrok' = IF Stopped THEN ngrok ELSE Closed(agent.handle)
  <2>1. agent' \in Agent
    BY <1>0, <1>3 DEF Stopping, Agent
  <2>2. AgentFine(agent')
    BY <1>0, <1>3 DEF Stopping, Agent, AgentFine, Alive
  <2>3. QED
    BY <1>0, <1>3, <2>1, <2>2
<1>4. QED
  BY <1>1, <1>2, <1>3 DEF Terminated

LEMMA StopAndLeaveFine ==
  ASSUME NEW a \in Agent, a.config.node \in Nodes
  PROVE  StopAndLeave(a) \in Agent /\ AgentFine(StopAndLeave(a))
BY DEF StopAndLeave, Stopping, Agent, AgentFine, LoopPhases

(* The loop goes on, with or without its tunnel. *)
LEMMA GoesFine ==
  ASSUME TypeInv, agent.pc \notin {"off", "killed"}, NEW pc \in LoopPhases,
         NEW handle \in {"none", "adopted", "own"},
         agent' = [agent EXCEPT !.pc = pc, !.handle = handle]
  PROVE  agent' \in Agent /\ AgentFine(agent')
BY TypedMachine DEF Agent, AgentFine

LEMMA LoopTyped ==
  ASSUME TypeInv,
         \/ AgentStarts \/ Head \/ Observe \/ Adopt \/ Spawn \/ TunnelOpens \/ TunnelFails
         \/ Rest \/ Leave \/ \E s \in Slots : AgentAsks(s)
  PROVE  MachineFine'
<1>0. /\ agent \in Agent /\ agent.handle \in {"none", "adopted", "own"}
      /\ \A handle : Closed(handle) \in {"none", "own", "foreign"}
  BY TypedMachine DEF Agent, Closed
<1>1. agent.pc \notin {"off", "killed"}
  BY DEF AgentStarts, Head, Observe, Adopt, Spawn, TunnelOpens, TunnelFails, Rest, Leave, AgentAsks
<1>2. \/ AgentStarts
      \/ \E pc \in LoopPhases, handle \in {"none", "adopted", "own"} :
           agent' = [agent EXCEPT !.pc = pc, !.handle = handle]
  <2>1. CASE \E pc \in LoopPhases : Goes(pc)
    <3>1. PICK pc \in LoopPhases : agent' = [agent EXCEPT !.pc = pc]
      BY <2>1 DEF Goes
    <3>2. agent' = [agent EXCEPT !.pc = pc, !.handle = agent.handle]
      BY <1>0, <3>1 DEF Agent
    <3>3. QED
      BY <1>0, <3>2
  <2>3. CASE TunnelOpens
    BY <2>3 DEF TunnelOpens, LoopPhases
  <2>4. CASE Observe
    <3>1. \/ agent' = [agent EXCEPT !.pc = "connect", !.handle = "none"]
          \/ \E pc \in LoopPhases : Goes(pc)
      BY <2>4 DEF Observe, LoopPhases
    <3>2. QED
      BY <2>1, <3>1 DEF LoopPhases
  <2>5. CASE Adopt
    BY <2>5 DEF Adopt, LoopPhases
  <2>6. CASE \E s \in Slots : AgentAsks(s)
    <3>1. \A pc \in {"register", "reregister", "beat"} : Asked[pc] \in LoopPhases
      <4>1. /\ Asked["register"] = "asked register" /\ Asked["reregister"] = "asked reregister"
            /\ Asked["beat"] = "asked beat"
        BY DEF Asked
      <4>2. QED
        BY <4>1 DEF LoopPhases
    <3>2. QED
      BY <2>1, <2>6, <3>1 DEF AgentAsks
  <2>7. CASE Head \/ Spawn \/ TunnelFails \/ Rest \/ Leave
    BY <2>1, <2>7 DEF Head, Spawn, TunnelFails, Rest, Leave, LoopPhases
  <2>8. QED
    BY <2>3, <2>4, <2>5, <2>6, <2>7
<1>3. agent' \in Agent /\ AgentFine(agent')
  <2>1. CASE AgentStarts
    BY <1>0, <2>1, TypedMachine DEF AgentStarts, Agent, AgentFine, LoopPhases
  <2>2. QED
    BY <1>1, <1>2, <2>1, GoesFine
<1>4. /\ ngrok' \in {"none", "own", "foreign"} /\ UNCHANGED <<cli, commands>>
      /\ conf' = conf \/ conf' = agent.config
  BY <1>0, TypedMachine
     DEF AgentStarts, Head, Observe, Adopt, Spawn, TunnelOpens, TunnelFails, Rest, Leave, AgentAsks
<1>5. conf' \in Config /\ ConfFine(conf')
  BY <1>1, <1>4, Saves, TypedMachine
<1>6. QED
  BY <1>3, <1>4, <1>5, TypedMachine DEF MachineFine, MachineTypeOK, MachineInv

LEMMA HearsTyped ==
  ASSUME TypeInv, NEW s \in Slots, AgentHears(s)
  PROVE  MachineFine'
<1>0. /\ agent \in Agent /\ agent.pc \in Awaiting /\ agent.handle \in {"none", "adopted", "own"}
      /\ \A handle : Closed(handle) \in {"none", "own", "foreign"}
      /\ ngrok \in {"none", "own", "foreign"} /\ UNCHANGED <<cli, commands>>
  BY TypedMachine DEF Agent, Closed, AgentHears
<1>1. agent.config.node \in Nodes /\ agent.pc \notin {"off", "killed"}
  BY <1>0, Saves DEF Awaiting
<1>2. ASSUME NEW pc \in LoopPhases, Goes(pc)
      PROVE  agent' \in Agent /\ AgentFine(agent')
  <2>1. agent' = [agent EXCEPT !.pc = pc, !.handle = agent.handle]
    BY <1>0, <1>2 DEF Goes, Agent
  <2>2. QED
    BY <1>0, <1>1, <2>1, GoesFine
<1>3. CASE Accepted
  <2>0. \/ Goes("rest") \/ Goes("beat")
        \/ agent' = [agent EXCEPT !.pc = "connect", !.handle = "none"]
    BY <1>3 DEF Accepted, Goes
  <2>1. agent' \in Agent /\ AgentFine(agent')
    <3>1. {"rest", "beat", "connect"} \subseteq LoopPhases /\ "none" \in {"none", "adopted", "own"}
      BY DEF LoopPhases
    <3>2. QED
      BY <1>1, <1>2, <2>0, <3>1, GoesFine
  <2>2. conf' = conf \/ conf' = agent.config
    BY <1>3 DEF Accepted
  <2>3. conf' \in Config /\ ConfFine(conf')
    BY <1>1, <2>2, Saves, TypedMachine
  <2>4. ngrok' = ngrok
    BY <1>3 DEF Accepted
  <2>5. QED
    BY <1>0, <2>1, <2>3, <2>4, TypedMachine DEF MachineFine, MachineTypeOK, MachineInv
<1>4. CASE \E reply : Failed(reply)
  <2>0. PICK reply : Failed(reply)
    BY <1>4
  <2>1. CASE RegistrationFailed(reply)
    <3> DEFINE a == [agent EXCEPT !.handle = "none"]
    <3>1. a \in Agent /\ a.config.node \in Nodes
      BY <1>0, <1>1 DEF Agent
    <3>2. agent' = StopAndLeave(a) \/ agent' = [a EXCEPT !.pc = "rest"]
      BY <2>1 DEF RegistrationFailed
    <3>3. [a EXCEPT !.pc = "rest"] \in Agent /\ AgentFine([a EXCEPT !.pc = "rest"])
      BY <3>1 DEF Agent, AgentFine, LoopPhases
    <3>4. agent' \in Agent /\ AgentFine(agent')
      BY <3>1, <3>2, <3>3, StopAndLeaveFine
    <3>5. conf' = conf /\ ngrok' \in {"none", "own", "foreign"}
      BY <1>0, <2>1 DEF RegistrationFailed
    <3>6. QED
      BY <1>0, <3>4, <3>5, TypedMachine DEF MachineFine, MachineTypeOK, MachineInv
  <2>2. CASE ReregistrationFailed
    <3>1. agent' \in Agent /\ AgentFine(agent')
      BY <1>0, <1>1, <2>2, StopAndLeaveFine DEF ReregistrationFailed
    <3>2. conf' = conf /\ ngrok' \in {"none", "own", "foreign"}
      BY <1>0, <2>2 DEF ReregistrationFailed
    <3>3. QED
      BY <1>0, <3>1, <3>2, TypedMachine DEF MachineFine, MachineTypeOK, MachineInv
  <2>3. CASE Goes("rest") /\ UNCHANGED <<ngrok, conf>>
    <3>1. agent' \in Agent /\ AgentFine(agent')
      BY <1>2, <2>3 DEF LoopPhases
    <3>2. QED
      BY <1>0, <2>3, <3>1, TypedMachine DEF MachineFine, MachineTypeOK, MachineInv
  <2>4. QED
    BY <2>0, <2>1, <2>2, <2>3 DEF Failed, HeartbeatFailed
<1>5. QED
  BY <1>3, <1>4 DEF AgentHears

LEMMA StopTyped ==
  ASSUME TypeInv, \/ StopServer \/ StopSave \/ AgentDies \/ AgentKilled \/ TunnelDies
                  \/ StartAgent \/ StartFails
  PROVE  MachineFine'
<1>1. CASE StopServer
  <2>1. agent' \in Agent /\ AgentFine(agent')
    BY <1>1, TypedMachine DEF StopServer, Agent, AgentFine
  <2>2. QED
    BY <1>1, <2>1, TypedMachine DEF StopServer, MachineFine, MachineTypeOK, MachineInv
<1>2. CASE StopSave
  <2>1. agent \in Agent /\ agent.config \in Config /\ agent.config.node \in Nodes /\ 0 \in Pids
    BY <1>2, TypedMachine, AgentRunAssumption DEF StopSave, AgentFine, Pids
  <2> DEFINE saved == [agent.config EXCEPT !.pid = 0]
  <2>2. saved \in Config /\ saved.node \in Nodes
    BY <2>1 DEF Config
  <2>3. agent' = [agent EXCEPT !.stop = "done", !.config = saved]
    BY <1>2, <2>1 DEF StopSave, Agent
  <2> HIDE DEF saved
  <2>4. agent' \in Agent /\ AgentFine(agent') /\ agent'.config = saved
    BY <2>1, <2>2, <2>3 DEF Agent, AgentFine
  <2>5. conf' = saved /\ UNCHANGED <<ngrok, cli, commands>>
    BY <1>2, <2>4 DEF StopSave
  <2>6. QED
    BY <2>2, <2>4, <2>5, TypedMachine DEF MachineFine, MachineTypeOK, MachineInv, ConfFine
<1>3. CASE AgentDies \/ AgentKilled \/ TunnelDies
  <2>1. /\ agent' \in {agent, NoAgent} /\ ngrok' \in {"none", "own", "foreign"}
        /\ UNCHANGED <<conf, cli, commands>>
    BY <1>3, TypedMachine DEF AgentDies, AgentKilled, TunnelDies, Orphaned
  <2>2. QED
    BY <2>1, TypedMachine, NothingYet DEF MachineFine, MachineTypeOK, MachineInv
<1>4. CASE StartAgent
  <2>1. conf.node \in Nodes /\ commands' \in 0..MaxCommands /\ commands' \in Pids /\ 0 \in Pids
    BY <1>4, TypedMachine, AgentRunAssumption DEF StartAgent, ConfFine, Pids
  <2> DEFINE copy == [conf EXCEPT !.pid = commands']
  <2>2. conf' = [conf EXCEPT !.pid = 0] /\ UNCHANGED cli
    BY <1>4 DEF StartAgent
  <2>3. conf' \in Config /\ conf'.node \in Nodes
    BY <2>1, <2>2, TypedMachine DEF Config
  <2>4. copy \in Config /\ copy.node \in Nodes
    BY <2>1, TypedMachine DEF Config
  <2>5. agent' = [NoAgent EXCEPT !.pc = "starting", !.pid = commands', !.termed = TRUE,
                                 !.config = copy, !.listening = TRUE]
    BY <1>4 DEF StartAgent
  <2> HIDE DEF copy
  <2>6. agent' \in Agent /\ AgentFine(agent')
    BY <2>1, <2>4, <2>5, NothingYet DEF Agent, AgentFine, NoAgent, LoopPhases
  <2>7. ngrok' \in {"none", "own", "foreign"}
    BY <1>4, TypedMachine DEF StartAgent
  <2>8. QED
    BY <2>1, <2>2, <2>3, <2>6, <2>7, TypedMachine
       DEF MachineFine, MachineTypeOK, MachineInv, ConfFine
<1>5. CASE StartFails
  <2>1. agent' = [agent EXCEPT !.pc = "stranded"] /\ agent.pc = "starting"
        /\ UNCHANGED <<ngrok, conf, cli, commands>>
    BY <1>5 DEF StartFails
  <2>2. agent' \in Agent /\ AgentFine(agent')
    BY <2>1, TypedMachine DEF Agent, AgentFine, LoopPhases
  <2>3. QED
    BY <2>1, <2>2, TypedMachine DEF MachineFine, MachineTypeOK, MachineInv
<1>6. QED
  BY <1>1, <1>2, <1>3, <1>4, <1>5

LEMMA CommandCounted ==
  ASSUME commands \in 0..MaxCommands, commands < MaxCommands, commands' = commands + 1
  PROVE  commands' \in 0..MaxCommands
BY AgentRunAssumption

LEMMA TypesFine ==
  ASSUME TypeInv, NEW op \in Commands, NEW pc \in {"ask", "asked", "await exit", "save"}, Types(op, pc),
         op = "connect" \/ conf.there, (op = "connect") <=> (pc = "asked"),
         pc = "ask" => op \in {"revoke", "rotate", "sync"}, pc = "await exit" => op = "rotate"
  PROVE  cli' \in Cli /\ CliFine(cli') /\ commands' \in 0..MaxCommands
<1>1. cli' = [pc |-> pc, op |-> op, copy |-> conf] /\ commands' \in 0..MaxCommands
  <2>1. commands \in 0..MaxCommands
    BY TypedMachine
  <2>2. cli' = [pc |-> pc, op |-> op, copy |-> conf]
    BY DEF Types
  <2>3. commands < MaxCommands /\ commands' = commands + 1 /\ MaxCommands \in Nat
    BY AgentRunAssumption DEF Types
  <2>4. commands' \in 0..MaxCommands
    BY <2>1, <2>3, CommandCounted
  <2>5. QED
    BY <2>2, <2>4
<1>2. cli' \in Cli
  BY <1>1, TypedMachine DEF Cli
<1>3. CliFine(cli')
  BY <1>1, TypedMachine DEF CliFine, ConfFine
<1>4. QED
  BY <1>1, <1>2, <1>3

LEMMA CommandTyped ==
  ASSUME TypeInv,
         \/ \E s \in Slots, c \in Codes : Connect(s, c)
         \/ Disconnect \/ RevokeOrSync \/ Rotate
  PROVE  MachineFine'
<1>1. conf' = conf
  BY DEF Connect, Disconnect, RevokeOrSync, Rotate
<1>2. agent' \in Agent /\ AgentFine(agent') /\ ngrok' \in {"none", "own", "foreign"}
  <2>1. UNCHANGED <<agent, ngrok>> \/ Terminated(conf.pid)
    BY DEF Connect, Disconnect, RevokeOrSync, Rotate
  <2>2. QED
    BY <2>1, TerminatedFine, TypedMachine
<1>3. cli' \in Cli /\ CliFine(cli') /\ commands' \in 0..MaxCommands
  <2>1. CASE \E s \in Slots, c \in Codes : Connect(s, c)
    BY <2>1, TypesFine DEF Connect, Commands
  <2>2. CASE Disconnect
    BY <2>2, TypesFine DEF Disconnect, Commands
  <2>3. CASE RevokeOrSync
    BY <2>3, TypesFine DEF RevokeOrSync, Commands
  <2>4. CASE Rotate
    BY <2>4, TypesFine DEF Rotate, Commands
  <2>5. QED
    BY <2>1, <2>2, <2>3, <2>4
<1>4. QED
  BY <1>1, <1>2, <1>3, TypedMachine DEF MachineFine, MachineTypeOK, MachineInv

LEMMA CliTyped ==
  ASSUME TypeInv,
         DisconnectSaves \/ AgentGone \/ RevokeDeletes \/ \E s \in Slots : CliAsks(s)
  PROVE  MachineFine'
<1>0. UNCHANGED <<agent, ngrok, commands>>
  BY DEF DisconnectSaves, AgentGone, RevokeDeletes, CliAsks
<1>1. conf' \in Config /\ ConfFine(conf')
  <2>1. CASE DisconnectSaves
    BY <2>1, TypedMachine, AgentRunAssumption
       DEF DisconnectSaves, Config, ConfFine, CliFine, Pids
  <2>2. CASE RevokeDeletes
    BY <2>2, NothingYet DEF RevokeDeletes
  <2>3. CASE UNCHANGED conf
    BY <2>3, TypedMachine
  <2>4. QED
    BY <2>1, <2>2, <2>3 DEF AgentGone, CliAsks
<1>2. cli' \in Cli /\ CliFine(cli')
  <2>1. CASE cli' = NoCommand
    BY <2>1, NothingYet
  <2>2. CASE AgentGone /\ cli' # NoCommand
    <3>1. PICK copy \in Config : cli' = [cli EXCEPT !.pc = "ask", !.copy = copy] /\ copy.node \in Nodes
      BY <2>2, TypedMachine DEF AgentGone, CliFine, ConfFine
    <3>2. QED
      BY <2>2, <3>1, TypedMachine DEF AgentGone, Cli, CliFine
  <2>3. CASE \E s \in Slots : CliAsks(s)
    BY <2>3, TypedMachine DEF CliAsks, Cli, CliFine
  <2>4. QED
    BY <2>1, <2>2, <2>3 DEF DisconnectSaves, RevokeDeletes
<1>3. QED
  BY <1>0, <1>1, <1>2, TypedMachine DEF MachineFine, MachineTypeOK, MachineInv

LEMMA CliHearsTyped ==
  ASSUME TypeInv, NEW s \in Slots, CliHears(s)
  PROVE  MachineFine'
<1>0. cli.pc = "asked" /\ UNCHANGED commands
  BY DEF CliHears
<1>1. CASE cli' = NoCommand /\ UNCHANGED <<agent, ngrok, conf>>
  BY <1>0, <1>1, TypedMachine, NothingYet DEF MachineFine, MachineTypeOK, MachineInv
<1>2. CASE /\ At(s, "done") /\ (slots[s].reply = "ok" \/ cli.op = "revoke")
           /\ CliSucceeds(slots[s])
  <2>0. /\ slots[s] \in SlotRecord /\ slots[s].cred \in Credentials
        /\ slots[s].reply = "ok" => slots[s].node \in Nodes
    BY <1>2, TypedSlots DEF SlotRecord, SlotFine, At
  <2>1. CASE cli' = NoCommand /\ UNCHANGED <<agent, ngrok>> /\ conf' \in Config /\ ConfFine(conf')
    BY <1>0, <2>1, TypedMachine, NothingYet DEF MachineFine, MachineTypeOK, MachineInv
  <2>2. CASE cli.op = "connect"
    <3>1. conf' = [there |-> TRUE, node |-> slots[s].node, cred |-> slots[s].cred, pid |-> 0]
      BY <1>2, <2>2 DEF CliSucceeds
    <3>2. conf' \in Config /\ ConfFine(conf')
      BY <1>2, <2>0, <2>2, <3>1, AgentRunAssumption DEF Config, Pids, ConfFine
    <3>3. QED
      BY <1>2, <2>1, <2>2, <3>2 DEF CliSucceeds
  <2>3. CASE cli.op \in {"rotate", "sync"}
    <3>1. cli.copy.node \in Nodes /\ cli.copy \in Config
      BY <1>0, <2>3, TypedMachine DEF CliFine
    <3>2. conf' = [cli.copy EXCEPT !.cred = slots[s].cred] \/ conf' = cli.copy
      BY <1>2, <2>3 DEF CliSucceeds
    <3>3. conf' \in Config /\ ConfFine(conf')
      BY <2>0, <3>1, <3>2 DEF Config, ConfFine
    <3>4. QED
      BY <1>2, <2>1, <2>3, <3>3 DEF CliSucceeds
  <2>4. CASE cli.op = "revoke"
    <3>1. Terminated(cli.copy.pid) /\ cli' = [cli EXCEPT !.pc = "delete"] /\ UNCHANGED conf
      BY <1>2, <2>4 DEF CliSucceeds
    <3>2. cli' \in Cli /\ CliFine(cli')
      BY <1>0, <2>4, <3>1, TypedMachine DEF Cli, CliFine
    <3>3. agent' \in Agent /\ AgentFine(agent') /\ ngrok' \in {"none", "own", "foreign"}
      BY <3>1, TerminatedFine
    <3>4. QED
      BY <1>0, <3>1, <3>2, <3>3, TypedMachine DEF MachineFine, MachineTypeOK, MachineInv
  <2>5. QED
    BY <1>2, <2>2, <2>3, <2>4 DEF CliSucceeds
<1>3. QED
  BY <1>1, <1>2 DEF CliHears

LEMMA MachineTypedStep ==
  ASSUME TypeInv, [Next]_vars
  PROVE  MachineFine'
<1>1. CASE UNCHANGED machineVars
  BY <1>1, TypedMachine DEF machineVars, MachineFine, MachineTypeOK, MachineInv
<1>2. CASE MachineNext
  BY <1>2, LoopTyped, HearsTyped, StopTyped, CommandTyped, CliTyped, CliHearsTyped
     DEF MachineNext, Loop, CommandGoesOn
<1>3. QED
  BY <1>1, <1>2 DEF Next, AccountsStep, NodeTraffic, OwnerTraffic, NodesStep, MachineStep, vars

LEMMA TypeInit ==
  Init => TypeInv
<1> SUFFICES ASSUME Init
             PROVE  TypeInv
  OBVIOUS
<1>1. NodesTypeOK
  BY Empty, LocalNodesAssumption DEF Init, NodesInit, NodesTypeOK
<1>2. SlotsInv
  BY DEF Init, NodesInit, SlotsInv, SlotFine, FreeSlot, Working
<1>3. MachineTypeOK /\ MachineInv
  BY NothingYet, AgentRunAssumption DEF Init, MachineInit, MachineTypeOK, MachineInv
<1>4. AccountsTypeOK
  BY NoTask, AccountStoreAssumption DEF Init, AccountsInit, AccountsTypeOK
<1>5. TasksInv
  BY NoTask DEF Init, AccountsInit, TasksInv
<1>6. subject \in Subjects /\ traffic \in 0..Scope[subject].traffic
  BY ScopeAssumption DEF Init
<1>7. QED
  BY <1>1, <1>2, <1>3, <1>4, <1>5, <1>6 DEF TypeInv, TypeOK

LEMMA TypeStep ==
  TypeInv /\ [Next]_vars => TypeInv'
<1> SUFFICES ASSUME TypeInv, [Next]_vars
             PROVE  TypeInv'
  OBVIOUS
<1>1. NodesInv' /\ AccountsInv' /\ MachineFine'
  BY NodesTypedStep, AccountsTypedStep, MachineTypedStep
<1>2. subject' \in Subjects /\ traffic' \in 0..Scope[subject'].traffic
  <2>1. /\ subject' = subject
        /\ UNCHANGED traffic \/ (traffic < Scope[subject].traffic /\ traffic' = traffic + 1)
    BY DEF Next, AccountsStep, NodeTraffic, OwnerTraffic, NodesStep, MachineStep, Request, vars
  <2>2. subject \in Subjects /\ traffic \in 0..Scope[subject].traffic
        /\ Scope[subject].traffic \in Nat
    BY ScopeAssumption DEF TypeInv, TypeOK
  <2>3. QED
    BY <2>1, <2>2
<1>3. QED
  BY <1>1, <1>2 DEF TypeInv, TypeOK, NodesInv, AccountsInv, MachineFine

THEOREM TypeInvariant == Spec => []TypeInv
<1>1. Init => TypeInv
  BY TypeInit
<1>2. TypeInv /\ [Next]_vars => TypeInv'
  BY TypeStep
<1>3. QED
  BY <1>1, <1>2, PTL DEF Spec

(* Nodes, accounts, agent, config and command are what the code takes them for,
   whatever the number of handlers, devices, commands and faults. *)
THEOREM TypeCorrect == Spec => []TypeOK
<1>1. TypeInv => TypeOK
  BY DEF TypeInv
<1>2. QED
  BY <1>1, TypeInvariant, PTL
-----------------------------------------------------------------------------
(* The safety of LocalNodes and AgentRun. *)

(* Where a code is between the store and a node: a pairing that has taken it out
   is the only one that has, and no node carries it yet. *)
CodesInv ==
  /\ \A m, n \in Nodes : origin[m] = origin[n] /\ origin[m] # "none" => m = n
  /\ \A n \in Nodes : origin[n] # "none" => codes[origin[n]] = "spent"
  /\ \A s \in Slots : At(s, "consumed") =>
       codes[slots[s].code] = "spent" /\ \A n \in Nodes : origin[n] # slots[s].code
  /\ \A r, s \in Slots :
       At(r, "consumed") /\ At(s, "consumed") /\ slots[r].code = slots[s].code => r = s

(* Records, and the copies of them that are about to be written back. *)
Dormant(record) ==
  /\ record.state = "absent" => record = AbsentNode
  /\ record.state = "revoked" => ~record.endpoint

RecordsInv ==
  /\ \A n \in Nodes : Dormant(nodes[n]) /\ (nodes[n].state # "absent" => origin[n] # "none")
  /\ \A s \in Slots : At(s, "holding") =>
       /\ Dormant(slots[s].loaded) /\ slots[s].loaded.state # "absent"
       /\ origin[slots[s].node] # "none"

(* Unless a lock was lost, its holder's copy is the record. *)
LockInv ==
  lapses = 0 => \A s \in Slots : At(s, "holding") =>
    locks[slots[s].node] = s /\ slots[s].loaded = nodes[slots[s].node]

NodeSafety == TypeInv /\ CodesInv /\ RecordsInv /\ LockInv

SafetyInv == CodesInv /\ RecordsInv /\ LockInv

(* Most steps of a handler take its slot where it neither keeps a code nor a
   lock, and change nothing else the invariant reads. *)
Quiet(s) ==
  /\ UNCHANGED <<codes, nodes, locks, lapses, origin>>
  /\ slots'[s].pc \notin {"consumed", "holding"}
  /\ \A r \in Slots \ {s} : slots'[r] = slots[r]

LEMMA NodeTypes ==
  ASSUME TypeInv
  PROVE  /\ codes \in [Codes -> {"unused", "stored", "spent"}] /\ nodes \in [Nodes -> Record]
         /\ locks \in [Nodes -> Slots \cup {"free", "dead"}] /\ slots \in [Slots -> SlotRecord]
         /\ origin \in [Nodes -> Codes \cup {"none"}] /\ lapses \in Nat
         /\ \A s \in Slots : slots[s] \in SlotRecord /\ SlotFine(slots[s])
         /\ \A s \in Slots : At(s, "holding") => slots[s].node \in Nodes
         /\ \A s \in Slots : At(s, "consumed") => slots[s].code \in Codes
<1>1. \A s \in Slots : slots[s] \in SlotRecord /\ SlotFine(slots[s])
  BY TypedSlots
<1>2. QED
  BY <1>1, LocalNodesAssumption DEF TypeInv, TypeOK, NodesTypeOK, SlotFine, Working, At

LEMMA RepliedQuiet ==
  ASSUME TypeInv, NEW s \in Slots, NEW reply, NEW cred, slots' = Replied(s, reply, cred)
  PROVE  slots'[s].pc \notin {"consumed", "holding"} /\ \A r \in Slots \ {s} : slots'[r] = slots[r]
<1>1. slots' = [slots EXCEPT ![s] = Answered(slots[s], reply, cred)]
  BY DEF Replied
<1>2. Answered(slots[s], reply, cred).pc \in {"free", "done"}
  BY DEF Answered, FreeSlot
<1>3. QED
  BY <1>1, <1>2, NodeTypes

LEMMA QuietSteps ==
  ASSUME TypeInv, NEW s \in Slots,
         \/ \E caller \in Callers, c \in Codes : PairUnknown(s, caller, c)
         \/ StartsAny(s) \/ RefuseStale(s) \/ Authenticate(s) \/ Admit(s) \/ NodeAnswers(s)
         \/ NodeFails(s) \/ LockTimesOut(s)
         \/ Acquire(s) /\ nodes[slots[s].node].state = "absent"
  PROVE  Quiet(s)
<1>0. slots \in [Slots -> SlotRecord] /\ slots[s] \in SlotRecord
  BY NodeTypes
<1>1. CASE \E reply, cred : slots' = Replied(s, reply, cred) /\ UNCHANGED <<codes, nodes, locks, lapses, origin>>
  BY <1>1, RepliedQuiet DEF Quiet
<1>2. CASE \E pc \in {"admitted", "calling", "waiting"} :
             slots' = [slots EXCEPT ![s].pc = pc] /\ UNCHANGED <<codes, nodes, locks, lapses, origin>>
  BY <1>0, <1>2 DEF Quiet, SlotRecord
<1>3. CASE Authenticate(s)
  <2>1. CASE slots' = [slots EXCEPT ![s].op = "denied", ![s].pc = "waiting"]
    BY <1>0, <1>3, <2>1 DEF Authenticate, Quiet, SlotRecord
  <2>2. QED
    BY <1>1, <1>2, <1>3, <2>1 DEF Authenticate
<1>4. CASE Admit(s) \/ NodeAnswers(s)
  BY <1>1, <1>2, <1>4 DEF Admit, NodeAnswers
<1>5. CASE RefuseStale(s) \/ NodeFails(s) \/ LockTimesOut(s)
  BY <1>1, <1>5 DEF RefuseStale, NodeFails, LockTimesOut
<1>6. CASE Acquire(s) /\ nodes[slots[s].node].state = "absent"
  BY <1>1, <1>6 DEF Acquire
<1>7. CASE StartsAny(s)
  <2>1. PICK pc \in {"arrived", "waiting", "calling"}, op \in RecordOps, n \in Nodes,
           cred \in Credentials, caller \in Callers : Starts(s, pc, op, n, cred, caller)
    BY <1>7 DEF StartsAny
  <2>2. slots'[s].pc = pc
    BY <1>0, <2>1 DEF Starts, FreeSlot
  <2>3. QED
    BY <1>0, <2>1, <2>2 DEF Starts, Quiet
<1>8. CASE \E caller \in Callers, c \in Codes : PairUnknown(s, caller, c)
  <2>1. slots'[s].pc = "done"
    BY <1>0, <1>8 DEF PairUnknown, FreeSlot
  <2>2. QED
    BY <1>0, <1>8, <2>1 DEF PairUnknown, Quiet
<1>9. QED
  BY <1>3, <1>4, <1>5, <1>6, <1>7, <1>8

LEMMA QuietSafe ==
  ASSUME NodeSafety, NEW s \in Slots, Quiet(s)
  PROVE  SafetyInv'
<1>1. \A r \in Slots : slots'[r].pc \in {"consumed", "holding"} => slots'[r] = slots[r]
  BY DEF Quiet
<1>2. CodesInv'
  BY <1>1 DEF NodeSafety, CodesInv, Quiet, At
<1>3. RecordsInv'
  BY <1>1 DEF NodeSafety, RecordsInv, Quiet, At
<1>4. LockInv'
  BY <1>1 DEF NodeSafety, LockInv, Quiet, At
<1>5. QED
  BY <1>2, <1>3, <1>4 DEF SafetyInv

(* The code is stored until this step: nobody else has taken it, no node has it. *)
LEMMA PairSafe ==
  ASSUME NodeSafety, NEW s \in Slots, NEW caller \in Callers, NEW c \in Codes, Pair(s, caller, c)
  PROVE  SafetyInv'
<1>0. TypeInv /\ slots \in [Slots -> SlotRecord] /\ codes \in [Codes -> {"unused", "stored", "spent"}]
      /\ origin \in [Nodes -> Codes \cup {"none"}]
  BY NodeTypes DEF NodeSafety
<1>1. /\ codes[c] = "stored" /\ codes' = [codes EXCEPT ![c] = "spent"]
      /\ UNCHANGED <<nodes, locks, lapses, origin>>
  BY DEF Pair, Consumed
<1>2. slots'[s].pc = "consumed" /\ slots'[s].code = c /\ \A r \in Slots \ {s} : slots'[r] = slots[r]
  BY <1>0 DEF Pair, FreeSlot
<1>3. /\ \A n \in Nodes : origin[n] # c
      /\ \A r \in Slots : At(r, "consumed") => slots[r].code # c /\ slots[r].code \in Codes
  BY <1>0, <1>1, NodeTypes, LocalNodesAssumption DEF NodeSafety, CodesInv
<1>4. CodesInv'
  <2>1. \A n \in Nodes : origin'[n] # "none" => codes'[origin'[n]] = "spent"
    BY <1>0, <1>1 DEF NodeSafety, CodesInv
  <2>2. \A r \in Slots : At(r, "consumed")' =>
          codes'[slots'[r].code] = "spent" /\ \A n \in Nodes : origin'[n] # slots'[r].code
    BY <1>0, <1>1, <1>2, <1>3 DEF NodeSafety, CodesInv, At
  <2>3. \A q, r \in Slots :
          At(q, "consumed")' /\ At(r, "consumed")' /\ slots'[q].code = slots'[r].code => q = r
    BY <1>2, <1>3 DEF NodeSafety, CodesInv, At
  <2>4. QED
    BY <1>1, <2>1, <2>2, <2>3 DEF NodeSafety, CodesInv
<1>5. \A r \in Slots : slots'[r].pc = "holding" => slots'[r] = slots[r]
  BY <1>2
<1>6. RecordsInv' /\ LockInv'
  BY <1>1, <1>5 DEF NodeSafety, RecordsInv, LockInv, At
<1>7. QED
  BY <1>4, <1>6 DEF SafetyInv

LEMMA WriteNodeSafe ==
  ASSUME NodeSafety, NEW s \in Slots, WriteNode(s)
  PROVE  SafetyInv'
<1> DEFINE fresh == CHOOSE n \in Nodes : origin[n] = "none"
           me == [slots[s] EXCEPT !.node = fresh]
<1>1. fresh \in Nodes /\ origin[fresh] = "none"
  BY DEF WriteNode
<1>2. /\ nodes' = [nodes EXCEPT ![fresh] = NewNode(minted + 1)]
      /\ origin' = [origin EXCEPT ![fresh] = slots[s].code]
      /\ slots' = [slots EXCEPT ![s] = Answered(me, "ok", minted + 1)]
      /\ UNCHANGED <<codes, locks, lapses>> /\ At(s, "consumed")
  BY DEF WriteNode
<1>3. Answered(me, "ok", minted + 1).pc \in {"free", "done"}
  BY DEF Answered, FreeSlot
<1> HIDE DEF fresh, me
<1>4. /\ slots \in [Slots -> SlotRecord] /\ origin \in [Nodes -> Codes \cup {"none"}]
      /\ nodes \in [Nodes -> Record] /\ slots[s].code \in Codes
      /\ slots[s].code # "none" /\ codes[slots[s].code] = "spent"
      /\ \A n \in Nodes : origin[n] # slots[s].code
  BY <1>2, NodeTypes, LocalNodesAssumption DEF NodeSafety, CodesInv
<1>5. \A r \in Slots : slots'[r].pc \in {"consumed", "holding"} => r # s /\ slots'[r] = slots[r]
  BY <1>2, <1>3, <1>4
<1>6. CodesInv'
  <2>1. \A n \in Nodes : origin'[n] = IF n = fresh THEN slots[s].code ELSE origin[n]
    BY <1>1, <1>2, <1>4
  <2>2. \A r \in Slots : At(r, "consumed")' => slots[r].code # slots[s].code
    BY <1>2, <1>5 DEF NodeSafety, CodesInv, At
  <2>3. \A r \in Slots : At(r, "consumed")' =>
          codes'[slots'[r].code] = "spent" /\ \A n \in Nodes : origin'[n] # slots'[r].code
    BY <1>2, <1>5, <2>1, <2>2 DEF NodeSafety, CodesInv, At
  <2>4. /\ \A m, n \in Nodes : origin'[m] = origin'[n] /\ origin'[m] # "none" => m = n
        /\ \A n \in Nodes : origin'[n] # "none" => codes'[origin'[n]] = "spent"
    BY <1>2, <1>4, <2>1 DEF NodeSafety, CodesInv
  <2>5. \A q, r \in Slots :
          At(q, "consumed")' /\ At(r, "consumed")' /\ slots'[q].code = slots'[r].code => q = r
    BY <1>5 DEF NodeSafety, CodesInv, At
  <2>6. QED
    BY <2>3, <2>4, <2>5 DEF CodesInv
<1>7. Dormant(NewNode(minted + 1))
  BY DEF Dormant, NewNode, AbsentNode
<1>8. RecordsInv'
  BY <1>1, <1>2, <1>4, <1>5, <1>7, NodeTypes DEF NodeSafety, RecordsInv, At
<1>9. LockInv'
  <2>1. \A r \in Slots : At(r, "holding") => slots[r].node # fresh /\ slots[r].node \in Nodes
    BY <1>1, NodeTypes DEF NodeSafety, RecordsInv
  <2>2. QED
    BY <1>2, <1>4, <1>5, <2>1 DEF NodeSafety, LockInv, At
<1>10. QED
  BY <1>6, <1>8, <1>9 DEF SafetyInv

LEMMA AcquireSafe ==
  ASSUME NodeSafety, NEW s \in Slots, Acquire(s), nodes[slots[s].node].state # "absent"
  PROVE  SafetyInv'
<1> DEFINE n == slots[s].node
<1>0. /\ slots \in [Slots -> SlotRecord] /\ slots[s] \in SlotRecord /\ n \in Nodes
      /\ locks \in [Nodes -> Slots \cup {"free", "dead"}]
  BY NodeTypes DEF NodeSafety, Acquire, SlotFine, Working, At
<1>1. /\ At(s, "waiting") /\ locks[n] = "free" /\ locks' = [locks EXCEPT ![n] = s]
      /\ slots' = [slots EXCEPT ![s].pc = "holding", ![s].loaded = nodes[n]]
      /\ UNCHANGED <<codes, nodes, lapses, origin>>
  BY DEF Acquire
<1>2. /\ slots'[s].pc = "holding" /\ slots'[s].loaded = nodes[n] /\ slots'[s].node = n
      /\ \A r \in Slots \ {s} : slots'[r] = slots[r]
  BY <1>0, <1>1 DEF SlotRecord
<1> HIDE DEF n
<1>3. CodesInv'
  <2>1. \A r \in Slots : slots'[r].pc = "consumed" => slots'[r] = slots[r]
    BY <1>2
  <2>2. UNCHANGED <<codes, origin>>
    BY <1>1
  <2>3. QED
    BY <2>1, <2>2 DEF NodeSafety, CodesInv, At
<1>4. Dormant(nodes[n]) /\ origin[n] # "none" /\ nodes[n].state # "absent"
  BY <1>0 DEF NodeSafety, RecordsInv, n
<1>5. RecordsInv'
  BY <1>1, <1>2, <1>4 DEF NodeSafety, RecordsInv, At
<1>6. LockInv'
  <2> SUFFICES ASSUME lapses = 0, NEW r \in Slots, slots'[r].pc = "holding"
               PROVE  locks'[slots'[r].node] = r /\ slots'[r].loaded = nodes'[slots'[r].node]
    BY <1>1 DEF LockInv, At
  <2>1. CASE r = s
    BY <1>0, <1>1, <1>2, <2>1
  <2>2. CASE r # s
    <3>1. locks[slots[r].node] = r /\ slots[r].loaded = nodes[slots[r].node]
      BY <1>2, <2>2 DEF NodeSafety, LockInv, At
    <3>2. slots[r].node # n
      BY <1>1, <3>1, LocalNodesAssumption
    <3>3. QED
      BY <1>0, <1>1, <1>2, <2>2, <3>1, <3>2
  <2>3. QED
    BY <2>1, <2>2
<1>7. QED
  BY <1>3, <1>5, <1>6 DEF SafetyInv

(* What a mutation writes is dormant when what it loaded was. *)
LEMMA UpdatedDormant ==
  ASSUME NEW op \in RecordOps, NEW loaded \in Record, Dormant(loaded), loaded.state # "absent",
         NEW willing \in BOOLEAN, NEW cred \in Credentials
  PROVE  Dormant(Updated(op, loaded, willing, cred))
<1>1. CASE op = "delete"
  <2>1. Updated(op, loaded, willing, cred) = AbsentNode
    BY <1>1 DEF Updated, LiveOps
  <2>2. AbsentNode.state = "absent"
    BY DEF AbsentNode
  <2>3. QED
    BY <2>1, <2>2 DEF Dormant
<1>2. CASE op \in {"revoke", "leave"}
  BY <1>2 DEF Updated, LiveOps, Revoked, Record, Dormant
<1>3. CASE op \in LiveOps
  <2>1. CASE loaded.state = "revoked"
    BY <1>3, <2>1 DEF Updated, LiveOps, Dormant
  <2>2. CASE loaded.state = "live"
    <3>1. Renewed(op, loaded, willing, cred).state = "live"
      BY <1>3, <2>2 DEF Renewed, LiveOps, Record
    <3>2. Updated(op, loaded, willing, cred) = Renewed(op, loaded, willing, cred)
      BY <1>3, <2>2 DEF Updated, LiveOps
    <3>3. QED
      BY <3>1, <3>2 DEF Dormant
  <2>3. QED
    BY <2>1, <2>2 DEF Record
<1>4. QED
  BY <1>1, <1>2, <1>3 DEF RecordOps

(* What nothing but revocation and deletion make of a revoked record. *)
LEMMA UpdatedRevoked ==
  ASSUME NEW op \in RecordOps, NEW loaded \in Record, loaded.state = "revoked", ~loaded.endpoint,
         NEW willing, NEW cred
  PROVE  LET new == Updated(op, loaded, willing, cred) IN
           new.state \in {"revoked", "absent"} /\ ~new.endpoint /\ new.cred \in {loaded.cred, 0}
<1>1. CASE op = "delete"
  BY <1>1 DEF Updated, AbsentNode
<1>2. CASE op \in {"revoke", "leave"}
  BY <1>2 DEF Updated, LiveOps, Revoked, Record
<1>3. CASE op \in LiveOps
  BY <1>3 DEF Updated, LiveOps
<1>4. QED
  BY <1>1, <1>2, <1>3 DEF RecordOps

LEMMA StoreEffect ==
  ASSUME TypeInv, NEW s \in Slots, Store(s)
  PROVE  /\ At(s, "holding") /\ slots[s].node \in Nodes /\ slots[s].op \in RecordOps
         /\ slots[s].loaded \in Record
         /\ \E willing \in BOOLEAN, cred \in Credentials :
              nodes' = [nodes EXCEPT ![slots[s].node] =
                          Updated(slots[s].op, slots[s].loaded, willing, cred)]
         /\ locks' = Released(s, slots[s].node)
         /\ UNCHANGED <<codes, lapses, origin>>
         /\ slots'[s].pc \notin {"consumed", "holding"}
         /\ \A r \in Slots \ {s} : slots'[r] = slots[r]
<1>1. At(s, "holding") /\ UNCHANGED <<codes, lapses, origin>> /\ locks' = Released(s, slots[s].node)
  BY DEF Store
<1>2. slots[s] \in SlotRecord /\ slots[s].node \in Nodes /\ slots[s].op \in RecordOps
      /\ slots[s].loaded \in Record
  BY <1>1, NodeTypes DEF SlotFine, Working, At, SlotRecord
<1>3. minted' \in Credentials
  BY StoreTyped DEF NodesInv, NodesTypeOK
<1>4. PICK willing \in BOOLEAN :
        nodes' = [nodes EXCEPT ![slots[s].node] =
                    Updated(slots[s].op, slots[s].loaded, willing, minted')]
  BY DEF Store
<1>5. \E reply, cred : slots' = Replied(s, reply, cred)
  <2>1. CASE slots[s].op = "denied"
    BY <2>1 DEF Store
  <2>2. CASE slots[s].op = "rotate" /\ slots[s].loaded.state # "live"
    BY <2>2 DEF Store
  <2>3. CASE slots[s].op # "denied" /\ ~(slots[s].op = "rotate" /\ slots[s].loaded.state # "live")
    <3> DEFINE cred == IF slots[s].op = "rotate" /\ slots[s].loaded.state = "live"
                       THEN minted' ELSE slots[s].cred
    <3>1. slots' = Replied(s, "ok", cred)
      BY <2>3 DEF Store
    <3>2. QED
      BY <3>1
  <2>4. QED
    BY <2>1, <2>2, <2>3
<1>6. slots'[s].pc \notin {"consumed", "holding"} /\ \A r \in Slots \ {s} : slots'[r] = slots[r]
  BY <1>5, RepliedQuiet
<1>7. QED
  BY <1>1, <1>2, <1>3, <1>4, <1>6

LEMMA StoreSafe ==
  ASSUME NodeSafety, NEW s \in Slots, Store(s)
  PROVE  SafetyInv'
<1> DEFINE n == slots[s].node
<1>1. /\ At(s, "holding") /\ n \in Nodes /\ slots[s].op \in RecordOps /\ slots[s].loaded \in Record
      /\ locks' = Released(s, n) /\ UNCHANGED <<codes, lapses, origin>>
      /\ \A r \in Slots : slots'[r].pc \in {"consumed", "holding"} => r # s /\ slots'[r] = slots[r]
      /\ nodes \in [Nodes -> Record] /\ locks \in [Nodes -> Slots \cup {"free", "dead"}]
  BY StoreEffect, NodeTypes DEF NodeSafety
<1>2. PICK new : Dormant(new) /\ nodes' = [nodes EXCEPT ![n] = new]
  <2>1. PICK willing \in BOOLEAN, cred \in Credentials :
              nodes' = [nodes EXCEPT ![n] = Updated(slots[s].op, slots[s].loaded, willing, cred)]
    BY StoreEffect DEF NodeSafety
  <2>2. Dormant(slots[s].loaded) /\ slots[s].loaded.state # "absent"
    BY <1>1 DEF NodeSafety, RecordsInv
  <2>3. Dormant(Updated(slots[s].op, slots[s].loaded, willing, cred))
    BY <1>1, <2>2, UpdatedDormant
  <2>4. QED
    BY <2>1, <2>3
<1>3. CodesInv'
  BY <1>1 DEF NodeSafety, CodesInv, At
<1>4. RecordsInv'
  <2>1. origin[n] # "none"
    BY <1>1 DEF NodeSafety, RecordsInv
  <2>2. QED
    BY <1>1, <1>2, <2>1 DEF NodeSafety, RecordsInv, At
<1>5. LockInv'
  <2> SUFFICES ASSUME lapses = 0, NEW r \in Slots, slots'[r].pc = "holding"
               PROVE  locks'[slots'[r].node] = r /\ slots'[r].loaded = nodes'[slots'[r].node]
    BY <1>1 DEF LockInv, At
  <2>1. r # s /\ slots'[r] = slots[r]
    BY <1>1
  <2>2. /\ locks[slots[r].node] = r /\ slots[r].loaded = nodes[slots[r].node] /\ locks[n] = s
        /\ slots[r].node \in Nodes
    BY <1>1, <2>1, NodeTypes DEF NodeSafety, LockInv, At
  <2>3. slots[r].node # n
    BY <2>1, <2>2
  <2>4. locks'[slots[r].node] = r /\ nodes'[slots[r].node] = nodes[slots[r].node]
    BY <1>1, <1>2, <2>2, <2>3 DEF Released
  <2>5. QED
    BY <2>1, <2>2, <2>4
<1>6. QED
  BY <1>3, <1>4, <1>5 DEF SafetyInv

LEMMA LockLostSafe ==
  ASSUME NodeSafety, NEW s \in Slots, Lapse(s) \/ Crash(s)
  PROVE  SafetyInv'
<1>1. UNCHANGED <<codes, nodes, origin>>
  BY DEF Lapse, Crash
<1>2. \A r \in Slots : slots'[r].pc \in {"consumed", "holding"} =>
        slots'[r] = slots[r] /\ (Crash(s) => r # s)
  <2>1. CASE Lapse(s)
    <3>1. UNCHANGED slots /\ ~Crash(s)
      <4>1. lapses' = lapses + 1 /\ lapses \in Nat
        BY <2>1, NodeTypes DEF Lapse, NodeSafety
      <4>2. QED
        BY <2>1, <4>1 DEF Lapse, Crash
    <3>2. QED
      BY <3>1
  <2>2. CASE Crash(s)
    BY <2>2, RepliedQuiet DEF Crash, NodeSafety
  <2>3. QED
    BY <2>1, <2>2
<1>3. CodesInv' /\ RecordsInv'
  BY <1>1, <1>2 DEF NodeSafety, CodesInv, RecordsInv, At
<1>4. LockInv'
  <2>1. CASE Lapse(s)
    BY <2>1, NodeTypes DEF Lapse, LockInv, NodeSafety
  <2>2. CASE Crash(s)
    <3>1. /\ lapses' = lapses
          /\ \A n \in Nodes : locks'[n] = IF locks[n] = s THEN "dead" ELSE locks[n]
      BY <2>2 DEF Crash
    <3>2. QED
      BY <1>1, <1>2, <2>2, <3>1, NodeTypes DEF LockInv, NodeSafety, At
  <2>3. QED
    BY <2>1, <2>2
<1>5. QED
  BY <1>3, <1>4 DEF SafetyInv

LEMMA ClockSafe ==
  ASSUME NodeSafety,
         \/ \E n \in Nodes : DeadLockExpires(n)
         \/ \E c \in Codes : CreateCode(c) \/ AgeCode(c)
         \/ SlotsTurn
  PROVE  SafetyInv'
<1>0. TypeInv
  BY DEF NodeSafety
<1>1. CASE \E n \in Nodes : DeadLockExpires(n)
  <2>1. PICK n \in Nodes : DeadLockExpires(n)
    BY <1>1
  <2>2. /\ locks[n] = "dead" /\ locks' = [locks EXCEPT ![n] = "free"]
        /\ UNCHANGED <<codes, nodes, slots, lapses, origin>>
    BY <2>1 DEF DeadLockExpires
  <2>3. CodesInv' /\ RecordsInv'
    BY <2>2 DEF NodeSafety, CodesInv, RecordsInv, At
  <2>4. LockInv'
    BY <1>0, <2>2, NodeTypes, LocalNodesAssumption DEF NodeSafety, LockInv, At
  <2>5. QED
    BY <2>3, <2>4 DEF SafetyInv
<1>2. CASE \E c \in Codes : CreateCode(c) \/ AgeCode(c)
  <2>1. PICK c \in Codes : CreateCode(c) \/ AgeCode(c)
    BY <1>2
  <2>2. /\ \A d \in Codes : codes[d] = "spent" => codes'[d] = "spent"
        /\ UNCHANGED <<nodes, locks, slots, lapses, origin>>
    BY <1>0, <2>1, NodeTypes DEF CreateCode, AgeCode
  <2>3. CodesInv'
    BY <1>0, <2>2, NodeTypes, LocalNodesAssumption DEF NodeSafety, CodesInv, At
  <2>4. RecordsInv' /\ LockInv'
    BY <2>2 DEF NodeSafety, RecordsInv, LockInv, At
  <2>5. QED
    BY <2>3, <2>4 DEF SafetyInv
<1>3. CASE SlotsTurn
  <2>1. UNCHANGED <<codes, nodes, locks, lapses, origin>>
    BY <1>3 DEF SlotsTurn
  <2>2. ASSUME NEW r \in Slots, slots'[r].pc \in {"consumed", "holding"}
        PROVE  /\ slots'[r].pc = slots[r].pc /\ slots'[r].code = slots[r].code
               /\ slots'[r].node = slots[r].node /\ slots'[r].loaded = slots[r].loaded
    <3>1. slots[r] \in SlotRecord /\ Turned(r)
      BY <1>0, <1>3, NodeTypes DEF SlotsTurn
    <3>2. slots'[r] # FreeSlot
      BY <2>2 DEF FreeSlot
    <3>3. QED
      BY <3>1, <3>2 DEF Turned, SlotRecord
  <2>3. CodesInv'
    BY <2>1, <2>2 DEF NodeSafety, CodesInv, At
  <2>4. RecordsInv' /\ LockInv'
    BY <2>1, <2>2 DEF NodeSafety, RecordsInv, LockInv, At
  <2>5. QED
    BY <2>3, <2>4 DEF SafetyInv
<1>4. QED
  BY <1>1, <1>2, <1>3

(* A heartbeat that ages, ages in the copies too. *)
LEMMA AgeSafe ==
  ASSUME NodeSafety, NEW n \in Nodes, Age(n)
  PROVE  SafetyInv'
<1> DEFINE Aged(record) == [record EXCEPT !.heard = Older[@]]
<1>0. /\ slots \in [Slots -> SlotRecord] /\ nodes \in [Nodes -> Record]
      /\ \A s \in Slots : At(s, "holding") => slots[s].node \in Nodes
  BY NodeTypes DEF NodeSafety
<1>1. /\ UNCHANGED <<codes, locks, lapses, origin>> /\ nodes[n].state = "live"
      /\ \A m \in Nodes : nodes'[m] = IF m = n THEN Aged(nodes[n]) ELSE nodes[m]
  BY <1>0 DEF Age
<1>2. ASSUME NEW s \in Slots
      PROVE  /\ slots'[s].pc = slots[s].pc /\ slots'[s].code = slots[s].code
             /\ slots'[s].node = slots[s].node
             /\ slots'[s].loaded = IF At(s, "holding") /\ slots[s].node = n
                                   THEN Aged(slots[s].loaded) ELSE slots[s].loaded
  <2>1. slots[s] \in SlotRecord /\ slots[s].loaded \in Record
    BY <1>0 DEF SlotRecord
  <2>2. slots'[s] = IF At(s, "holding") /\ slots[s].node = n
                    THEN [slots[s] EXCEPT !.loaded.heard = Older[@]] ELSE slots[s]
    BY DEF Age
  <2>3. QED
    BY <2>1, <2>2 DEF SlotRecord, Record
<1>3. ASSUME NEW record \in Record, Dormant(record), record.state # "absent"
      PROVE  Dormant(Aged(record)) /\ Aged(record).state = record.state
  BY <1>3 DEF Dormant, Record
<1> HIDE DEF Aged
<1>4. CodesInv'
  BY <1>1, <1>2 DEF NodeSafety, CodesInv, At
<1>5. RecordsInv'
  <2>1. ASSUME NEW m \in Nodes
        PROVE  Dormant(nodes'[m]) /\ (nodes'[m].state # "absent" => origin[m] # "none")
    BY <1>0, <1>1, <1>3 DEF NodeSafety, RecordsInv
  <2>2. ASSUME NEW s \in Slots, slots'[s].pc = "holding"
        PROVE  /\ Dormant(slots'[s].loaded) /\ slots'[s].loaded.state # "absent"
               /\ origin[slots'[s].node] # "none"
    <3>1. /\ At(s, "holding") /\ slots[s].loaded \in Record
          /\ Dormant(slots[s].loaded) /\ slots[s].loaded.state # "absent"
          /\ origin[slots[s].node] # "none"
      BY <1>0, <1>2, <2>2 DEF NodeSafety, RecordsInv, At, SlotRecord
    <3>2. QED
      BY <1>2, <1>3, <3>1
  <2>3. QED
    BY <1>1, <2>1, <2>2 DEF RecordsInv, At
<1>6. LockInv'
  BY <1>0, <1>1, <1>2 DEF NodeSafety, LockInv, At
<1>7. QED
  BY <1>4, <1>5, <1>6 DEF SafetyInv

LEMMA SafetyStep ==
  NodeSafety /\ [Next]_vars => NodeSafety'
<1> SUFFICES ASSUME NodeSafety, [Next]_vars
             PROVE  NodeSafety'
  OBVIOUS
<1>0. TypeInv /\ TypeInv' /\ NodeStep
  BY TypeStep, EveryStepIsANodeStep DEF NodeSafety
<1>1. ASSUME NEW s \in Slots, SlotStep(s)
      PROVE  SafetyInv'
  <2>1. CASE \E caller \in Callers, c \in Codes : Pair(s, caller, c)
    BY <2>1, PairSafe
  <2>2. CASE WriteNode(s)
    BY <2>2, WriteNodeSafe
  <2>3. CASE Acquire(s) /\ nodes[slots[s].node].state # "absent"
    BY <2>3, AcquireSafe
  <2>4. CASE Store(s)
    BY <2>4, StoreSafe
  <2>5. CASE Lapse(s) \/ Crash(s)
    BY <2>5, LockLostSafe
  <2>6. CASE Quiet(s)
    BY <2>6, QuietSafe
  <2>7. QED
    BY <1>0, <1>1, <2>1, <2>2, <2>3, <2>4, <2>5, <2>6, QuietSteps DEF SlotStep
<1>2. SafetyInv'
  BY <1>0, <1>1, ClockSafe, AgeSafe DEF NodeStep
<1>3. QED
  BY <1>0, <1>2 DEF NodeSafety, SafetyInv

LEMMA SafetyInit ==
  Init => NodeSafety
<1> SUFFICES ASSUME Init
             PROVE  NodeSafety
  OBVIOUS
<1>1. TypeInv
  BY TypeInit
<1>2. /\ \A n \in Nodes : nodes[n] = AbsentNode /\ origin[n] = "none"
      /\ \A s \in Slots : slots[s].pc = "free"
  BY DEF Init, NodesInit, FreeSlot
<1>3. CodesInv /\ LockInv
  BY <1>2 DEF CodesInv, LockInv, At
<1>4. RecordsInv
  BY <1>2 DEF RecordsInv, At, Dormant, AbsentNode
<1>5. QED
  BY <1>1, <1>3, <1>4 DEF NodeSafety

THEOREM NodeSafetyInvariant == Spec => []NodeSafety
<1>1. QED
  BY SafetyInit, SafetyStep, PTL DEF Spec

(* A pairing code pairs at most one node, whatever number of pairings it is sent
   to at once and whichever of them crash. *)
THEOREM PairedOnce == Spec => []CodePairsOnce
<1>1. NodeSafety => CodePairsOnce
  BY DEF NodeSafety, CodesInv, RecordsInv, CodePairsOnce
<1>2. QED
  BY <1>1, NodeSafetyInvariant, PTL

(* One step from a node that is revoked or deleted. *)
LEMMA RevokedStep ==
  ASSUME NodeSafety, [Next]_vars, NEW n \in Nodes, lapses' = 0, origin[n] # "none",
         nodes[n].state # "live"
  PROVE  /\ nodes'[n].state \in {nodes[n].state, "absent"}
         /\ ~nodes'[n].endpoint /\ nodes'[n].cred \in {nodes[n].cred, 0}
<1>0. TypeInv /\ NodeStep /\ nodes \in [Nodes -> Record]
  BY EveryStepIsANodeStep, NodeTypes DEF NodeSafety
<1>1. nodes[n] \in Record /\ ~nodes[n].endpoint /\ nodes[n].state \in {"absent", "revoked"}
  BY <1>0 DEF NodeSafety, RecordsInv, Dormant, AbsentNode, Record
<1>2. CASE nodes'[n] = nodes[n]
  BY <1>1, <1>2
<1>3. ASSUME NEW s \in Slots, SlotStep(s), nodes'[n] # nodes[n]
      PROVE  Store(s) /\ slots[s].node = n
  <2>1. CASE WriteNode(s)
    <3> DEFINE fresh == CHOOSE m \in Nodes : origin[m] = "none"
    <3>1. fresh \in Nodes /\ origin[fresh] = "none" /\ nodes' = [nodes EXCEPT ![fresh] = NewNode(minted + 1)]
      BY <2>1 DEF WriteNode
    <3> HIDE DEF fresh
    <3>2. QED
      BY <1>0, <1>3, <3>1
  <2>2. CASE Store(s)
    BY <1>0, <1>3, <2>2, StoreEffect
  <2>3. CASE /\ \/ Acquire(s) \/ Lapse(s) \/ Crash(s)
                \/ \E caller \in Callers, c \in Codes : Pair(s, caller, c)
    BY <1>3, <2>3 DEF Acquire, Lapse, Crash, Pair
  <2>4. CASE Quiet(s)
    BY <1>3, <2>4 DEF Quiet
  <2>5. QED
    BY <1>0, <1>3, <2>1, <2>2, <2>3, <2>4, QuietSteps DEF SlotStep
<1>4. ASSUME NEW s \in Slots, Store(s), slots[s].node = n
      PROVE  /\ nodes'[n].state \in {nodes[n].state, "absent"}
             /\ ~nodes'[n].endpoint /\ nodes'[n].cred \in {nodes[n].cred, 0}
  <2>1. /\ At(s, "holding") /\ lapses = 0 /\ slots[s].op \in RecordOps
    BY <1>0, <1>4, StoreEffect
  <2>2. slots[s].loaded = nodes[n] /\ nodes[n].state = "revoked"
    BY <1>1, <1>4, <2>1 DEF NodeSafety, LockInv, RecordsInv
  <2>3. PICK willing \in BOOLEAN, cred \in Credentials :
          nodes' = [nodes EXCEPT ![n] = Updated(slots[s].op, nodes[n], willing, cred)]
    BY <1>0, <1>4, <2>2, StoreEffect
  <2>4. nodes'[n] = Updated(slots[s].op, nodes[n], willing, cred)
    BY <1>0, <2>3
  <2>5. QED
    BY <1>1, <2>1, <2>2, <2>4, UpdatedRevoked
<1>5. ASSUME NEW m \in Nodes, Age(m)
      PROVE  nodes'[n] = nodes[n]
  BY <1>0, <1>5 DEF Age
<1>6. CASE \/ \E m \in Nodes : DeadLockExpires(m)
           \/ \E c \in Codes : CreateCode(c) \/ AgeCode(c)
           \/ SlotsTurn
  BY <1>2, <1>6 DEF DeadLockExpires, CreateCode, AgeCode, SlotsTurn
<1>7. QED
  BY <1>0, <1>2, <1>3, <1>4, <1>5, <1>6 DEF NodeStep

(* As long as no lock was lost by a slow holder, nothing that was under way gives
   a revoked node its life, an endpoint or a credential back. *)
THEOREM RevocationFinal == Spec => RevocationHolds
<1>1. NodeSafety /\ [Next]_vars =>
        [\A n \in Nodes :
           lapses' = 0 /\ origin[n] # "none" /\ nodes[n].state # "live" =>
             /\ nodes'[n].state \in {nodes[n].state, "absent"}
             /\ ~nodes'[n].endpoint /\ nodes'[n].cred \in {nodes[n].cred, 0}]_nodeVars
  BY RevokedStep
<1>2. QED
  BY <1>1, NodeSafetyInvariant, PTL DEF Spec, RevocationHolds
-----------------------------------------------------------------------------
(* The agent's exit.  Until stop() begins, a tunnel of this process is either being
   opened or in the loop's handle, which stop() closes.  Found where no tunnel is
   opened, the loop goes round to its head and opens none behind stop()'s back. *)

Opening == {"connect", "spawned", "observe", "reregister", "asked reregister"}

TunnelInv ==
  /\ agent.stop \in {"save", "done"} => ~agent.listening
  /\ agent.pc = "connect" => agent.handle = "none"
  /\ ngrok = "own" => /\ agent.pc \notin {"off", "killed"}
                      /\ agent.stop # "no" \/ agent.pc = "spawned" \/ agent.handle = "own"
  /\ agent.stop # "no" /\ agent.found \notin Opening =>
       ngrok # "own" /\ agent.pc \notin Opening

LEMMA TerminatedTunnel ==
  ASSUME TypeInv, TunnelInv, NEW pid, Terminated(pid)
  PROVE  TunnelInv'
<1>0. agent \in Agent
  BY TypedMachine
<1>1. CASE UNCHANGED <<agent, ngrok>>
  BY <1>1 DEF TunnelInv, Stopped
<1>2. CASE agent' = [NoAgent EXCEPT !.pc = "killed"] /\ ngrok' = Orphaned
  BY <1>2 DEF TunnelInv, NoAgent, Orphaned
<1>3. CASE /\ agent' = [(IF Stopped THEN agent ELSE Stopping(agent)) EXCEPT !.termed = TRUE]
           /\ ngrok' = IF Stopped THEN ngrok ELSE Closed(agent.handle)
  <2>1. CASE Stopped
    <3>1. agent' = [agent EXCEPT !.termed = TRUE] /\ ngrok' = ngrok
      BY <1>3, <2>1
    <3>2. QED
      BY <1>0, <2>1, <3>1 DEF TunnelInv, Stopped, Agent
  <2>2. CASE ~Stopped
    <3>1. /\ agent' = [agent EXCEPT !.stop = "server", !.found = agent.pc, !.termed = TRUE]
          /\ ngrok' = Closed(agent.handle)
      BY <1>0, <1>3, <2>2 DEF Stopping, Agent
    <3>2. QED
      BY <1>0, <2>2, <3>1 DEF TunnelInv, Stopped, Agent, Closed, Opening
  <2>3. QED
    BY <2>1, <2>2
<1>4. QED
  BY <1>1, <1>2, <1>3 DEF Terminated

(* await stop() in the loop, with the tunnel closed unless it has been. *)
LEMMA LeavesTunnel ==
  ASSUME TypeInv, TunnelInv, agent.pc \in Awaiting,
         NEW a \in {agent, [agent EXCEPT !.handle = "none"]}, agent' = StopAndLeave(a),
         ngrok' = Closed(agent.handle) \/ (Stopped /\ ngrok' = ngrok)
  PROVE  TunnelInv'
<1>0. agent \in Agent
  BY TypedMachine
<1>1. CASE agent.stop = "no"
  <2>1. /\ agent'.stop = "server" /\ agent'.pc = "stopping" /\ agent'.found = agent.pc
        /\ agent'.handle \in {agent.handle, "none"}
    BY <1>0, <1>1 DEF StopAndLeave, Stopping, Agent
  <2>2. ngrok' = "own" => FALSE
    BY <1>1 DEF TunnelInv, Stopped, Closed, Awaiting
  <2>3. QED
    BY <2>1, <2>2 DEF TunnelInv, Opening
<1>2. CASE agent.stop # "no"
  <2>1. /\ agent'.stop = agent.stop /\ agent'.pc = "left" /\ agent'.found = agent.found
        /\ agent'.listening = agent.listening
    BY <1>0, <1>2 DEF StopAndLeave, Agent
  <2>2. ngrok' = "own" => ngrok = "own"
    BY DEF Closed
  <2>3. QED
    BY <1>2, <2>1, <2>2 DEF TunnelInv, Opening, Awaiting
<1>3. QED
  BY <1>1, <1>2

LEMMA HearsTunnel ==
  ASSUME TypeInv, TunnelInv, NEW s \in Slots, AgentHears(s)
  PROVE  TunnelInv'
<1>0. agent \in Agent /\ agent.pc \in Awaiting
  BY TypedMachine DEF AgentHears
<1>1. CASE \E pc \in {"rest", "beat"} : Goes(pc) /\ UNCHANGED ngrok
  BY <1>0, <1>1 DEF Goes, TunnelInv, Agent, Awaiting, Opening
<1>2. ASSUME NEW reply, RegistrationFailed(reply)
      PROVE  TunnelInv'
  <2> DEFINE a == [agent EXCEPT !.handle = "none"]
  <2>1. CASE agent' = StopAndLeave(a)
    BY <1>0, <1>2, <2>1, LeavesTunnel DEF RegistrationFailed
  <2>2. CASE agent' = [a EXCEPT !.pc = "rest"]
    <3>1. ngrok' = Closed(agent.handle)
      BY <1>2 DEF RegistrationFailed
    <3>2. /\ agent'.pc = "rest" /\ agent'.stop = agent.stop /\ agent'.found = agent.found
          /\ agent'.listening = agent.listening
      BY <1>0, <2>2 DEF Agent
    <3>3. QED
      BY <1>0, <3>1, <3>2 DEF TunnelInv, Closed, Awaiting, Opening
  <2>3. QED
    BY <1>2, <2>1, <2>2 DEF RegistrationFailed
<1>3. CASE ReregistrationFailed
  BY <1>0, <1>3, LeavesTunnel DEF ReregistrationFailed
<1>4. CASE Accepted
  <2>1. CASE /\ agent.pc = "asked reregister" /\ agent.handle = "own" /\ ngrok # "own"
             /\ agent' = [agent EXCEPT !.pc = "connect", !.handle = "none"] /\ UNCHANGED ngrok
    BY <1>0, <2>1 DEF TunnelInv, Agent, Opening
  <2>2. QED
    BY <1>1, <1>4, <2>1 DEF Accepted, Goes
<1>5. QED
  BY <1>1, <1>2, <1>3, <1>4 DEF AgentHears, Failed, HeartbeatFailed

LEMMA LoopTunnel ==
  ASSUME TypeInv, TunnelInv,
         \/ AgentStarts \/ Head \/ Observe \/ Adopt \/ Spawn \/ TunnelOpens \/ TunnelFails
         \/ Rest \/ Leave \/ \E s \in Slots : AgentAsks(s)
  PROVE  TunnelInv'
<1>0. agent \in Agent
  BY TypedMachine
<1>1. CASE Head
  BY <1>0, <1>1 DEF Head, Goes, TunnelInv, Stopped, Agent, Opening
<1>2. CASE Observe
  <2>1. CASE agent' = [agent EXCEPT !.pc = "connect", !.handle = "none"] /\ ngrok' = Closed(agent.handle)
    <3>1. agent.pc = "observe"
      BY <1>2 DEF Observe
    <3>2. QED
      BY <1>0, <2>1, <3>1 DEF TunnelInv, Stopped, Agent, Opening, Closed
  <2>2. CASE (Goes("beat") \/ Goes("reregister")) /\ UNCHANGED ngrok
    BY <1>0, <1>2, <2>2 DEF Observe, Goes, TunnelInv, Stopped, Agent, Opening
  <2>3. QED
    BY <1>2, <2>1, <2>2 DEF Observe
<1>3. CASE Adopt
  BY <1>0, <1>3 DEF Adopt, TunnelInv, Stopped, Agent, Opening
<1>4. CASE Spawn
  BY <1>0, <1>4 DEF Spawn, Goes, TunnelInv, Stopped, Agent, Opening
<1>5. CASE TunnelOpens
  BY <1>0, <1>5 DEF TunnelOpens, TunnelInv, Stopped, Agent, Opening
<1>6. CASE TunnelFails
  BY <1>0, <1>6 DEF TunnelFails, Goes, TunnelInv, Stopped, Agent, Opening
<1>7. CASE Rest \/ Leave
  BY <1>0, <1>7 DEF Rest, Leave, Goes, TunnelInv, Stopped, Agent, Opening
<1>8. CASE \E s \in Slots : AgentAsks(s)
  <2>1. agent.pc \in {"register", "reregister", "beat"} /\ Goes(Asked[agent.pc]) /\ UNCHANGED ngrok
    BY <1>8 DEF AgentAsks
  <2>2. /\ Asked["register"] = "asked register" /\ Asked["reregister"] = "asked reregister"
        /\ Asked["beat"] = "asked beat"
    BY DEF Asked
  <2>3. Goes("asked register") \/ Goes("asked reregister") \/ Goes("asked beat")
    BY <2>1, <2>2
  <2>4. ASSUME Goes("asked reregister"), agent.pc = "reregister", UNCHANGED ngrok
        PROVE  TunnelInv'
    BY <1>0, <2>4 DEF Goes, TunnelInv, Agent, Opening
  <2>5. ASSUME Goes("asked register") \/ Goes("asked beat"), UNCHANGED ngrok,
               agent.pc \in {"register", "reregister", "beat"}
        PROVE  TunnelInv'
    BY <1>0, <2>5 DEF Goes, TunnelInv, Agent, Opening
  <2>6. Goes("asked reregister") => agent.pc = "reregister"
    BY <1>0, <2>1, <2>2 DEF Goes, Agent
  <2>7. QED
    BY <2>1, <2>3, <2>4, <2>5, <2>6
<1>9. CASE AgentStarts
  BY <1>0, <1>9 DEF AgentStarts, TunnelInv, Agent, Opening
<1>10. QED
  BY <1>1, <1>2, <1>3, <1>4, <1>5, <1>6, <1>7, <1>8, <1>9

LEMMA StopTunnel ==
  ASSUME TypeInv, TunnelInv,
         \/ StopServer \/ StopSave \/ AgentDies \/ AgentKilled \/ TunnelDies \/ StartAgent
         \/ StartFails
  PROVE  TunnelInv'
<1>0. agent \in Agent
  BY TypedMachine
<1>1. CASE StopServer
  BY <1>0, <1>1 DEF StopServer, TunnelInv, Stopped, Agent
<1>2. CASE StopSave
  BY <1>0, <1>2 DEF StopSave, TunnelInv, Stopped, Agent
<1>3. CASE AgentDies
  BY <1>3 DEF AgentDies, TunnelInv, NoAgent, Orphaned
<1>4. CASE AgentKilled
  BY <1>4 DEF AgentKilled, TunnelInv, NoAgent
<1>5. CASE TunnelDies
  BY <1>5 DEF TunnelDies, TunnelInv, Stopped
<1>6. CASE StartAgent
  <2>1. agent'.stop = "no" /\ agent'.pc = "starting" /\ ngrok' # "own"
    BY <1>6 DEF StartAgent, NoAgent
  <2>2. QED
    BY <2>1 DEF TunnelInv
<1>7. CASE StartFails
  BY <1>0, <1>7 DEF StartFails, TunnelInv, Agent, Opening
<1>8. QED
  BY <1>1, <1>2, <1>3, <1>4, <1>5, <1>6, <1>7

LEMMA TunnelStep ==
  TypeInv /\ TunnelInv /\ [Next]_vars => TunnelInv'
<1> SUFFICES ASSUME TypeInv, TunnelInv, [Next]_vars
             PROVE  TunnelInv'
  OBVIOUS
<1>1. CASE UNCHANGED <<agent, ngrok>>
  BY <1>1 DEF TunnelInv, Stopped
<1>2. CASE \E pid : Terminated(pid)
  BY <1>2, TerminatedTunnel
<1>3. CASE MachineNext
  <2>1. CASE \/ DisconnectSaves \/ AgentGone \/ RevokeDeletes \/ RevokeOrSync
             \/ \E s \in Slots : CliAsks(s) \/ \E c \in Codes : Connect(s, c)
    BY <1>1, <2>1 DEF DisconnectSaves, AgentGone, RevokeDeletes, RevokeOrSync, CliAsks, Connect
  <2>2. CASE Disconnect \/ Rotate \/ \E s \in Slots : CliHears(s)
    BY <1>1, <1>2, <2>2 DEF Disconnect, Rotate, CliHears, CliSucceeds
  <2>3. QED
    BY <1>3, <2>1, <2>2, LoopTunnel, HearsTunnel, StopTunnel DEF MachineNext, Loop, CommandGoesOn
<1>4. CASE UNCHANGED machineVars
  BY <1>1, <1>4 DEF machineVars
<1>5. QED
  BY <1>3, <1>4 DEF Next, AccountsStep, NodeTraffic, OwnerTraffic, NodesStep, MachineStep, vars

(* However the agent came to leave, by a signal, a command, a refused credential
   or an error, its port is closed; and so is its tunnel, unless stop() found the
   loop opening one or about to look whether it needs one. *)
THEOREM LeavesCleanly == Spec => []CleanExit
<1>1. Init => TunnelInv
  BY DEF Init, MachineInit, TunnelInv, NoAgent, Opening
<1>2. TunnelInv => CleanExit
  BY DEF TunnelInv, CleanExit, Opening
<1>3. QED
  BY <1>1, <1>2, TunnelStep, TypeInvariant, PTL DEF Spec
-----------------------------------------------------------------------------
(* Accounts: none is lost, handed to another user or left behind what its owner
   was told. *)

(* An account that is being made, and how far. *)
Makes(t, k) == tasks[t].op = "create" /\ tasks[t].pc = "write" /\ tasks[t].key = k

Alters(t, k) == tasks[t].op \in Changes /\ tasks[t].key = k

(* What is left of a write: the account itself, the pointer or the place in the file. *)
Due(left) == left \cap {"record", "load", "save"} # {}

PointerDue(left) == left \cap {"pointer", "load", "save"} # {}

(* The account under k is u's, or will be once its record arrives. *)
Grounded(u, k) ==
  \/ accounts[k].there /\ accounts[k].owner = u
  \/ \E t \in Tasks : Makes(t, k) /\ tasks[t].user = u /\ Due(tasks[t].left)

MakerFine(t) ==
  LET k == tasks[t].key IN
  /\ tasks[t].copy.owner = tasks[t].user
  /\ IF Due(tasks[t].left) THEN ~accounts[k].there
     ELSE accounts[k].there /\ accounts[k].owner = tasks[t].user
  /\ ~PointerDue(tasks[t].left) => pointer[tasks[t].user] # "none"
  /\ tasks[t].copy.name = 0 /\ tasks[t].copy.secret = 0

ChangerFine(t) ==
  LET k == tasks[t].key IN
  /\ k \in Keys /\ tasks[t].pc \in {"read", "write"} /\ \E u \in Users : <<u, k>> \in issued
  /\ tasks[t].op = "detect" => tasks[t].source # "user"
  /\ tasks[t].pc = "write" => tasks[t].copy.there /\ tasks[t].copy.owner = accounts[k].owner

TaskSafe(t) ==
  /\ tasks[t].op \in Changes \cup {"create", "none"}
  /\ tasks[t].op = "none" => tasks[t].key = "none" /\ tasks[t].pc = "free"
  /\ tasks[t].op # "none" => tasks[t].pc # "free"
  /\ tasks[t].pc = "write" => tasks[t].copy.there
  /\ tasks[t].pc = "record" =>
       Grounded(tasks[t].user, tasks[t].key) /\ pointer[tasks[t].user] # "none"
  /\ tasks[t].op = "create" /\ tasks[t].pc = "write" => MakerFine(t)
  /\ tasks[t].op \in Changes => ChangerFine(t)

TasksFine ==
  /\ \A t \in Tasks : TaskSafe(t)
  /\ \A r, t \in Tasks, k \in Keys : Makes(r, k) /\ Makes(t, k) => r = t

(* Who holds a key, and where the dashboard looks. *)
GrantsInv ==
  /\ \A u \in Users, k \in Keys : <<u, k>> \in issued =>
       accounts[k].there /\ accounts[k].owner = u /\ pointer[u] # "none"
  /\ \A u \in Users : pointer[u] # "none" =>
       /\ Grounded(u, pointer[u])
       /\ \/ <<u, pointer[u]>> \in issued
          \/ \E t \in Tasks : Makes(t, pointer[u]) /\ tasks[t].user = u

(* What a record holds, against what its owner was told. *)
Declared(account, k) ==
  told[k].declared # "none" =>
    account.capability = [value |-> told[k].declared, source |-> "user"]

Truthful(account, k) ==
  account.name = told[k].name /\ account.secret = told[k].secret /\ Declared(account, k)

(* A change on its way: it agrees with what was told in all it does not change. *)
Pending(t, k) ==
  LET copy == tasks[t].copy
      op == tasks[t].op
  IN
  /\ op # "rename" => copy.name = told[k].name
  /\ op \notin {"provide", "withdraw"} => copy.secret = told[k].secret
  /\ IF op = "declare" THEN copy.capability = [value |-> tasks[t].value, source |-> "user"]
     ELSE Declared(copy, k)
  /\ ~Due(tasks[t].left) => accounts[k] = copy

ToldInv ==
  /\ \A k \in Keys : ~accounts[k].there =>
       /\ accounts[k].name = 0 /\ accounts[k].secret = 0
       /\ told[k] = [name |-> 0, secret |-> 0, declared |-> "none"]
  /\ \A k \in Keys \ overlapped :
       /\ \A r, t \in Tasks : Alters(r, k) /\ Alters(t, k) => r = t
       /\ (\A t \in Tasks : Alters(t, k) => tasks[t].pc # "write") => Truthful(accounts[k], k)
       /\ \A t \in Tasks : Alters(t, k) /\ tasks[t].pc = "write" => Pending(t, k)

KeptInv == TasksFine /\ GrantsInv /\ ToldInv

(* The file, as long as no two writes of it have overlapped: one request at most is
   between its first read and its answer, so that what it loaded is what it replaces,
   and the first account of a user is there. *)
Left == IF store = "redis" THEN {"record", "pointer"} ELSE {"load", "save"}

LeftFine(t) == tasks[t].left \subseteq Left /\ (tasks[t].left # {} => tasks[t].pc = "write")

FileInv ==
  /\ \A t \in Tasks : LeftFine(t)
  /\ store = "file" =>
       /\ \A r, t \in Writers : r = t
       /\ \A t \in Tasks : "save" \in tasks[t].left =>
            tasks[t].file.accounts = accounts /\ tasks[t].file.first = pointer
       /\ \A u \in Users : pointer[u] # "none" =>
            accounts[pointer[u]].there /\ accounts[pointer[u]].owner = u

AccountSafety == AccountsInv /\ Exact /\ KeptInv /\ FileInv

LEMMA KeptTypes ==
  ASSUME AccountsInv
  PROVE  /\ accounts \in [Keys -> Account] /\ pointer \in [Users -> Keys \cup {"none"}]
         /\ tasks \in [Tasks -> Task] /\ issued \subseteq Users \X Keys
         /\ told \in [Keys -> [name : Names, secret : Names, declared : Support \cup {"none"}]]
         /\ \A t \in Tasks : tasks[t] \in Task /\ TaskFine(tasks[t])
         /\ "none" \notin Keys
BY AccountStoreAssumption DEF AccountsInv, AccountsTypeOK, TasksInv

(* A step of one task that writes nothing, and does not end the making of an
   account. *)
LEMMA PlainSafe ==
  ASSUME AccountSafety, NEW t \in Tasks, NEW task \in Task, tasks' = [tasks EXCEPT ![t] = task],
         UNCHANGED <<accounts, pointer>>, issued \subseteq issued',
         ~(tasks[t].op = "create" /\ tasks[t].pc = "write"),
         (\A u \in Users, k \in Keys : Grounded(u, k) => Grounded(u, k)') => TaskSafe(t)',
         task.op = "create" /\ task.pc = "write" => \A r \in Tasks : ~Makes(r, task.key),
         \A u \in Users, k \in Keys : <<u, k>> \in issued' \ issued =>
           accounts[k].there /\ accounts[k].owner = u /\ pointer[u] # "none"
  PROVE  TasksFine' /\ GrantsInv'
<1>0. /\ tasks \in [Tasks -> Task] /\ pointer \in [Users -> Keys \cup {"none"}]
      /\ \A r \in Tasks : TaskFine(tasks[r]) /\ TaskSafe(r)
  BY KeptTypes DEF AccountSafety, KeptInv, TasksFine
<1>1. tasks'[t] = task /\ \A r \in Tasks \ {t} : tasks'[r] = tasks[r]
  BY <1>0
<1>2. \A r \in Tasks, k \in Keys : Makes(r, k) => r # t /\ Makes(r, k)'
  BY <1>1 DEF Makes
<1>3. ASSUME NEW u, NEW k, Grounded(u, k)
      PROVE  Grounded(u, k)'
  <2>1. CASE accounts[k].there /\ accounts[k].owner = u
    BY <2>1 DEF Grounded
  <2>2. CASE \E r \in Tasks : Makes(r, k) /\ tasks[r].user = u /\ Due(tasks[r].left)
    <3>1. PICK r \in Tasks : Makes(r, k) /\ tasks[r].user = u /\ Due(tasks[r].left)
      BY <2>2
    <3>2. r # t
      BY <3>1 DEF Makes
    <3>3. tasks'[r] = tasks[r]
      BY <1>1, <3>2
    <3>4. QED
      BY <3>1, <3>3 DEF Grounded, Makes
  <2>3. QED
    BY <1>3, <2>1, <2>2 DEF Grounded
<1>4. ASSUME NEW r \in Tasks
      PROVE  TaskSafe(r)'
  <2>1. CASE r = t
    BY <1>3, <2>1
  <2>2. CASE r # t
    <3>1. tasks'[r] = tasks[r] /\ TaskSafe(r)
      BY <1>0, <1>1, <2>2
    <3>2. MakerFine(r) => MakerFine(r)'
      BY <3>1 DEF MakerFine
    <3>3. ChangerFine(r) => ChangerFine(r)'
      BY <3>1 DEF ChangerFine
    <3>4. Grounded(tasks[r].user, tasks[r].key) => Grounded(tasks[r].user, tasks[r].key)'
      BY <1>3, <3>1 DEF Grounded, Makes
    <3>5. QED
      BY <3>1, <3>2, <3>3, <3>4 DEF TaskSafe, Grounded, Makes
  <2>3. QED
    BY <2>1, <2>2
<1>5. \A q, r \in Tasks, k \in Keys : Makes(q, k)' /\ Makes(r, k)' => q = r
  <2>1. \A r \in Tasks \ {t}, k \in Keys : Makes(r, k)' => Makes(r, k)
    BY <1>1 DEF Makes
  <2>2. \A k \in Keys : Makes(t, k)' => \A r \in Tasks : ~Makes(r, k)
    BY <1>1 DEF Makes
  <2>3. QED
    BY <2>1, <2>2 DEF AccountSafety, KeptInv, TasksFine
<1>6. GrantsInv'
  <2>1. \A u \in Users, k \in Keys : <<u, k>> \in issued' =>
          accounts'[k].there /\ accounts'[k].owner = u /\ pointer'[u] # "none"
    BY DEF AccountSafety, KeptInv, GrantsInv
  <2>2. ASSUME NEW u \in Users, pointer[u] # "none"
        PROVE  /\ Grounded(u, pointer[u])'
               /\ \/ <<u, pointer[u]>> \in issued'
                  \/ \E r \in Tasks : Makes(r, pointer[u])' /\ tasks'[r].user = u
    <3>1. /\ Grounded(u, pointer[u]) /\ pointer[u] \in Keys
          /\ \/ <<u, pointer[u]>> \in issued
             \/ \E r \in Tasks : Makes(r, pointer[u]) /\ tasks[r].user = u
      BY <1>0, <2>2 DEF AccountSafety, KeptInv, GrantsInv
    <3>2. Grounded(u, pointer[u])'
      <4> DEFINE k == pointer[u]
      <4>1. Grounded(u, k) /\ k' = k
        BY <3>1
      <4>2. QED
        BY <1>3, <4>1 DEF Grounded, Makes
    <3>3. QED
      BY <1>1, <1>2, <3>1, <3>2 DEF Makes
  <2>3. QED
    BY <2>1, <2>2 DEF GrantsInv, Grounded, Makes
<1>7. QED
  BY <1>4, <1>5, <1>6 DEF TasksFine

(* A step that changes nothing told, and is about no change. *)
LEMMA ToldQuiet ==
  ASSUME AccountSafety, NEW t \in Tasks, NEW task \in Task, tasks' = [tasks EXCEPT ![t] = task],
         UNCHANGED <<accounts, told, overlapped>>, tasks[t].op \notin Changes, task.op \notin Changes
  PROVE  ToldInv'
<1>1. \A r \in Tasks, k \in Keys : Alters(r, k)' => Alters(r, k) /\ tasks'[r] = tasks[r]
  BY KeptTypes DEF AccountSafety, Alters
<1>2. \A r \in Tasks, k \in Keys : Alters(r, k) => Alters(r, k)' /\ tasks'[r] = tasks[r]
  BY KeptTypes DEF AccountSafety, Alters
<1>3. QED
  BY <1>1, <1>2 DEF AccountSafety, KeptInv, ToldInv, Truthful, Declared, Pending

LEMMA SafeTypes ==
  ASSUME AccountSafety, NEW t \in Tasks
  PROVE  /\ AccountsInv /\ tasks \in [Tasks -> Task] /\ tasks[t] \in Task
         /\ TaskFine(tasks[t]) /\ TaskSafe(t)
         /\ pointer \in [Users -> Keys \cup {"none"}] /\ accounts \in [Keys -> Account]
         /\ issued \subseteq Users \X Keys /\ "none" \notin Keys /\ LeftFine(t)
BY KeptTypes DEF AccountSafety, KeptInv, TasksFine, FileInv

LEMMA VisitSafe ==
  ASSUME AccountSafety, NEW t \in Tasks, NEW u \in Users, Visit(t, u)
  PROVE  KeptInv'
<1> DEFINE task == [FreeTask EXCEPT !.pc = "pointer", !.op = "create", !.user = u]
<1>0. task \in Task /\ task.pc = "pointer" /\ task.op = "create"
  BY NoTask DEF FreeTask, Task
<1>1. /\ tasks[t].pc = "free" /\ tasks' = [tasks EXCEPT ![t] = task]
      /\ UNCHANGED <<accounts, pointer, issued, told, overlapped>>
  BY DEF Visit, Begins
<1> HIDE DEF task
<1>2. tasks'[t] = task /\ tasks[t].op = "none"
  BY <1>1, SafeTypes DEF TaskSafe
<1>3. TaskSafe(t)'
  BY <1>0, <1>2 DEF TaskSafe, Changes
<1>4. TasksFine' /\ GrantsInv'
  BY <1>0, <1>1, <1>2, <1>3, PlainSafe
<1>5. ToldInv'
  BY <1>0, <1>1, <1>2, ToldQuiet DEF Changes
<1>6. QED
  BY <1>4, <1>5 DEF KeptInv

LEMMA ReadPointerSafe ==
  ASSUME AccountSafety, NEW t \in Tasks, ReadPointer(t)
  PROVE  KeptInv'
<1> DEFINE key == pointer[tasks[t].user]
           task == [tasks[t] EXCEPT !.pc = IF key = "none" THEN "body" ELSE "record", !.key = key]
<1>1. /\ tasks[t].pc = "pointer" /\ tasks' = [tasks EXCEPT ![t] = task]
      /\ UNCHANGED <<accounts, pointer, started, issued, told, overlapped>>
  BY DEF ReadPointer, Moves
<1>2. tasks[t] \in Task /\ tasks[t].op = "create" /\ tasks[t].user \in Users /\ key \in Keys \cup {"none"}
  BY <1>1, SafeTypes DEF TaskFine
<1>3. /\ task \in Task /\ task.op = "create" /\ task.user = tasks[t].user /\ task.key = key
      /\ task.pc = IF key = "none" THEN "body" ELSE "record"
  BY <1>2 DEF Task
<1>4. tasks'[t] = task
  BY <1>1, SafeTypes
<1> HIDE DEF task
<1>5. key # "none" => Grounded(tasks[t].user, key)
  BY <1>2 DEF AccountSafety, KeptInv, GrantsInv
<1>6. ASSUME \A u \in Users, k \in Keys : Grounded(u, k) => Grounded(u, k)'
      PROVE  TaskSafe(t)'
  <2>1. CASE key = "none"
    BY <1>3, <1>4, <2>1 DEF TaskSafe, Changes
  <2>2. CASE key # "none"
    <3>1. PICK u \in Users, k \in Keys : u = tasks[t].user /\ k = key
      BY <1>2, <2>2
    <3>2. Grounded(u, k)' /\ pointer'[u] # "none"
      BY <1>1, <1>5, <1>6, <2>2, <3>1
    <3>3. tasks'[t].user = u /\ tasks'[t].key = k /\ tasks'[t].op = "create" /\ tasks'[t].pc = "record"
      BY <1>3, <1>4, <2>2, <3>1
    <3>4. Grounded(tasks[t].user, tasks[t].key)'
      BY <3>2, <3>3 DEF Grounded, Makes
    <3>5. QED
      BY <3>2, <3>3, <3>4 DEF TaskSafe, Changes
  <2>3. QED
    BY <2>1, <2>2
<1>7. TasksFine' /\ GrantsInv'
  BY <1>1, <1>3, <1>6, PlainSafe
<1>8. ToldInv'
  BY <1>1, <1>2, <1>3, ToldQuiet DEF Changes
<1>9. QED
  BY <1>7, <1>8 DEF KeptInv

(* An account that is found under a user's pointer is that user's. *)
LEMMA ReadOwnSafe ==
  ASSUME AccountSafety, NEW t \in Tasks, ReadOwn(t)
  PROVE  KeptInv'
<1> DEFINE key == tasks[t].key
           other == [tasks[t] EXCEPT !.pc = "body", !.key = "none"]
<1>1. tasks[t].pc = "record" /\ UNCHANGED <<accounts, pointer, started, told, overlapped>>
  BY DEF ReadOwn
<1>2. /\ tasks[t] \in Task /\ tasks[t].op = "create" /\ tasks[t].user \in Users /\ key \in Keys
      /\ Grounded(tasks[t].user, key) /\ pointer[tasks[t].user] # "none"
  BY <1>1, SafeTypes DEF TaskFine, TaskSafe
<1>3. CASE accounts[key].there
  <2>1. tasks' = [tasks EXCEPT ![t] = FreeTask] /\ issued' = issued \cup {<<tasks[t].user, key>>}
    BY <1>3 DEF ReadOwn, Moves
  <2>2. accounts[key].owner = tasks[t].user
    BY <1>2, <1>3, SafeTypes DEF Grounded, Makes, TaskSafe, MakerFine, AccountSafety, KeptInv, TasksFine
  <2>3. tasks'[t] = FreeTask /\ FreeTask \in Task /\ FreeTask.op = "none" /\ FreeTask.pc = "free"
        /\ FreeTask.key = "none"
    BY <2>1, SafeTypes, NoTask DEF FreeTask
  <2>4. TaskSafe(t)'
    BY <2>3 DEF TaskSafe, Changes
  <2>5. \A u \in Users, k \in Keys : <<u, k>> \in issued' \ issued =>
          accounts[k].there /\ accounts[k].owner = u /\ pointer[u] # "none"
    BY <1>2, <1>3, <2>1, <2>2
  <2>6. TasksFine' /\ GrantsInv'
    BY <1>1, <2>1, <2>3, <2>4, <2>5, PlainSafe
  <2>7. ToldInv'
    BY <1>1, <1>2, <2>1, <2>3, ToldQuiet DEF Changes
  <2>8. QED
    BY <2>6, <2>7 DEF KeptInv
<1>4. CASE ~accounts[key].there
  <2>1. tasks' = [tasks EXCEPT ![t] = other] /\ issued' = issued
    BY <1>4 DEF ReadOwn, Moves
  <2>2. other \in Task /\ other.op = "create" /\ other.pc = "body"
    BY <1>2 DEF Task
  <2>3. tasks'[t] = other
    BY <2>1, SafeTypes
  <2> HIDE DEF other
  <2>4. TaskSafe(t)'
    BY <2>2, <2>3 DEF TaskSafe, Changes
  <2>5. TasksFine' /\ GrantsInv'
    BY <1>1, <2>1, <2>2, <2>4, PlainSafe
  <2>6. ToldInv'
    BY <1>1, <1>2, <2>1, <2>2, ToldQuiet DEF Changes
  <2>7. QED
    BY <2>5, <2>6 DEF KeptInv
<1>5. QED
  BY <1>3, <1>4

(* The first account of a user in the file is that user's. *)
LEMMA FindOwnSafe ==
  ASSUME AccountSafety, NEW t \in Tasks, FindOwn(t)
  PROVE  KeptInv'
<1> DEFINE key == pointer[tasks[t].user]
           other == [tasks[t] EXCEPT !.pc = "body"]
<1>1. /\ tasks[t].pc = "pointer" /\ store = "file"
      /\ UNCHANGED <<accounts, pointer, started, told, overlapped>>
  BY DEF FindOwn
<1>2. /\ tasks[t] \in Task /\ tasks[t].op = "create" /\ tasks[t].user \in Users
      /\ key \in Keys \cup {"none"}
  BY <1>1, SafeTypes DEF TaskFine
<1>3. CASE key # "none"
  <2>1. tasks' = [tasks EXCEPT ![t] = FreeTask] /\ issued' = issued \cup {<<tasks[t].user, key>>}
    BY <1>3 DEF FindOwn, Moves
  <2>2. accounts[key].there /\ accounts[key].owner = tasks[t].user
    BY <1>1, <1>2, <1>3 DEF AccountSafety, FileInv
  <2>3. tasks'[t] = FreeTask /\ FreeTask \in Task /\ FreeTask.op = "none" /\ FreeTask.pc = "free"
        /\ FreeTask.key = "none"
    BY <2>1, SafeTypes, NoTask DEF FreeTask
  <2>4. TaskSafe(t)'
    BY <2>3 DEF TaskSafe, Changes
  <2>5. \A u \in Users, k \in Keys : <<u, k>> \in issued' \ issued =>
          accounts[k].there /\ accounts[k].owner = u /\ pointer[u] # "none"
    BY <1>2, <1>3, <2>1, <2>2
  <2>6. TasksFine' /\ GrantsInv'
    BY <1>1, <2>1, <2>3, <2>4, <2>5, PlainSafe
  <2>7. ToldInv'
    BY <1>1, <1>2, <2>1, <2>3, ToldQuiet DEF Changes
  <2>8. QED
    BY <2>6, <2>7 DEF KeptInv
<1>4. CASE key = "none"
  <2>1. tasks' = [tasks EXCEPT ![t] = other] /\ issued' = issued
    BY <1>4 DEF FindOwn, Moves
  <2>2. other \in Task /\ other.op = "create" /\ other.pc = "body"
    BY <1>2 DEF Task
  <2>3. tasks'[t] = other
    BY <2>1, SafeTypes
  <2> HIDE DEF other
  <2>4. TaskSafe(t)'
    BY <2>2, <2>3 DEF TaskSafe, Changes
  <2>5. TasksFine' /\ GrantsInv'
    BY <1>1, <2>1, <2>2, <2>4, PlainSafe
  <2>6. ToldInv'
    BY <1>1, <1>2, <2>1, <2>2, ToldQuiet DEF Changes
  <2>7. QED
    BY <2>5, <2>6 DEF KeptInv
<1>5. QED
  BY <1>3, <1>4

LEMMA WritingDue ==
  Due(Writing) /\ PointerDue(Writing)
BY DEF Due, PointerDue, Writing

(* A new account has a key nobody has, nor is making an account for. *)
LEMMA CreateSafe ==
  ASSUME AccountSafety, NEW t \in Tasks, CreateAccount(t), UNCHANGED overlapped
  PROVE  KeptInv'
<1> DEFINE mine == [NoAccount EXCEPT !.there = TRUE, !.owner = tasks[t].user]
           task(k) == [tasks[t] EXCEPT !.pc = "write", !.key = k, !.copy = mine,
                                       !.left = Writing]
<1>1. tasks[t].pc = "body" /\ UNCHANGED <<accounts, pointer, started, issued, told, overlapped>>
  BY DEF CreateAccount
<1>2. PICK k \in Keys \ Taken : tasks' = [tasks EXCEPT ![t] = task(k)]
  BY DEF CreateAccount, Moves
<1>3. tasks[t] \in Task /\ tasks[t].op = "create" /\ tasks[t].user \in Users
  BY <1>1, SafeTypes DEF TaskFine
<1>4. /\ mine \in Account /\ mine.there /\ mine.owner = tasks[t].user
      /\ mine.name = 0 /\ mine.secret = 0
  BY <1>3, NoTask DEF NoAccount, Account
<1> HIDE DEF mine
<1> DEFINE new == task(k)
<1>5. /\ new \in Task /\ new.op = "create" /\ new.pc = "write" /\ new.key = k
      /\ new.user = tasks[t].user /\ new.copy = mine /\ new.left = Writing
  BY <1>3, <1>4 DEF Task, Writing
<1>6. ~accounts[k].there /\ \A r \in Tasks : tasks[r].key # k
  BY <1>2 DEF Taken
<1>7. tasks' = [tasks EXCEPT ![t] = new] /\ tasks'[t] = new
  BY <1>2, SafeTypes
<1> HIDE DEF new, task
<1>8. TaskSafe(t)'
  BY <1>1, <1>4, <1>5, <1>6, <1>7, WritingDue DEF TaskSafe, MakerFine, Changes
<1>9. \A r \in Tasks : ~Makes(r, new.key)
  BY <1>5, <1>6 DEF Makes
<1>10. TasksFine' /\ GrantsInv'
  BY <1>1, <1>5, <1>7, <1>8, <1>9, PlainSafe
<1>11. ToldInv'
  BY <1>1, <1>3, <1>5, <1>7, ToldQuiet DEF Changes
<1>12. QED
  BY <1>10, <1>11 DEF KeptInv

LEMMA ChangeSafe ==
  ASSUME AccountSafety, NEW t \in Tasks, NEW k \in Keys, NEW op \in Changes,
         NEW value \in Support, NEW source \in Sources, op = "detect" => source # "user",
         Change(t, k, op, value, source)
  PROVE  KeptInv'
<1> DEFINE task == [FreeTask EXCEPT !.pc = "read", !.op = op, !.key = k,
                                    !.value = value, !.source = source]
<1>1. /\ tasks[t].pc = "free" /\ tasks' = [tasks EXCEPT ![t] = task]
      /\ UNCHANGED <<accounts, pointer, issued, told>> /\ \E u \in Users : <<u, k>> \in issued
      /\ overlapped' = overlapped \cup Overlapping(k)
  BY DEF Change, Begins
<1>2. task \in Task /\ task.pc = "read" /\ task.op = op /\ task.key = k /\ task.source = source
  BY NoTask DEF FreeTask, Task, Changes
<1> HIDE DEF task
<1>3. tasks'[t] = task /\ tasks[t].op = "none" /\ \A r \in Tasks \ {t} : tasks'[r] = tasks[r]
  BY <1>1, SafeTypes DEF TaskSafe
<1>4. op \notin {"create", "none"}
  BY DEF Changes
<1>5. TaskSafe(t)'
  BY <1>1, <1>2, <1>3, <1>4 DEF TaskSafe, ChangerFine
<1>6. TasksFine' /\ GrantsInv'
  BY <1>1, <1>2, <1>3, <1>5, PlainSafe
<1>7. ASSUME NEW j \in Keys \ overlapped'
      PROVE  /\ \A q, r \in Tasks : Alters(q, j)' /\ Alters(r, j)' => q = r
             /\ (\A r \in Tasks : Alters(r, j)' => tasks'[r].pc # "write") => Truthful(accounts[j], j)'
             /\ \A r \in Tasks : Alters(r, j)' /\ tasks'[r].pc = "write" => Pending(r, j)'
  <2>0. /\ j \notin overlapped
        /\ \A q, r \in Tasks : Alters(q, j) /\ Alters(r, j) => q = r
        /\ (\A r \in Tasks : Alters(r, j) => tasks[r].pc # "write") => Truthful(accounts[j], j)
        /\ \A r \in Tasks : Alters(r, j) /\ tasks[r].pc = "write" => Pending(r, j)
    BY <1>1, <1>7 DEF AccountSafety, KeptInv, ToldInv
  <2>1. /\ \A r \in Tasks \ {t} : Alters(r, j)' <=> Alters(r, j)
        /\ ~Alters(t, j) /\ (Alters(t, j)' => j = k) /\ tasks'[t].pc = "read"
    BY <1>2, <1>3 DEF Alters, Changes
  <2>2. j = k => \A r \in Tasks : ~Alters(r, j)
    <3>1. ASSUME j = k, NEW r \in Tasks, Alters(r, k)
          PROVE  FALSE
      <4>1. r \in Changing(k) /\ r \in Writers
        BY <3>1, SafeTypes DEF Changing, Writers, Alters, Changes, TaskSafe, ChangerFine
      <4>2. store \in {"redis", "file"}
        BY AccountStoreAssumption DEF AccountSafety, AccountsInv, AccountsTypeOK
      <4>3. k \in Overlapping(k)
        BY <4>1, <4>2 DEF Overlapping
      <4>4. QED
        BY <1>1, <1>7, <3>1, <4>3
    <3>2. QED
      BY <3>1
  <2>3. Truthful(accounts[j], j) => Truthful(accounts[j], j)'
    BY <1>1 DEF Truthful, Declared
  <2>4. \A r \in Tasks \ {t} : Pending(r, j) => Pending(r, j)'
    BY <1>1, <1>3 DEF Pending, Declared
  <2>5. QED
    BY <1>3, <2>0, <2>1, <2>2, <2>3, <2>4
<1>8. ToldInv'
  BY <1>1, <1>7 DEF AccountSafety, KeptInv, ToldInv, Truthful, Declared
<1>9. QED
  BY <1>6, <1>8 DEF KeptInv

LEMMA ChangesSafe ==
  ASSUME AccountSafety, NEW t \in Tasks, NEW k \in Keys,
         \/ Rename(t, k) \/ Provide(t, k) \/ Withdraw(t, k)
         \/ Declare(t, k) \/ Detect(t, k) \/ Attempted(t, k)
  PROVE  KeptInv'
<1>1. \E op \in Changes, value \in Support, source \in Sources :
        (op = "detect" => source # "user") /\ Change(t, k, op, value, source)
  BY DEF Rename, Provide, Withdraw, Declare, Detect, Attempted, Changes, Support, Sources
<1>2. QED
  BY <1>1, ChangeSafe

(* What a change makes of an account that holds what was told. *)
LEMMA ChangedKeeps ==
  ASSUME NEW task \in Task, task.op \in Changes, NEW account \in Account
  PROVE  /\ Changed(task, account).there = account.there
         /\ Changed(task, account).owner = account.owner
         /\ task.op # "rename" => Changed(task, account).name = account.name
         /\ task.op \notin {"provide", "withdraw"} => Changed(task, account).secret = account.secret
         /\ task.op \notin {"declare", "detect"} =>
              Changed(task, account).capability = account.capability
         /\ task.op = "declare" =>
              Changed(task, account).capability = [value |-> task.value, source |-> "user"]
         /\ task.op = "detect" =>
              Changed(task, account).capability = Merged(account.capability, task.value, task.source)
<1>1. CASE task.op = "rename"
  BY <1>1 DEF Changed, Account
<1>2. CASE task.op = "provide"
  BY <1>2 DEF Changed, Account
<1>3. CASE task.op = "withdraw"
  BY <1>3 DEF Changed, Account
<1>4. CASE task.op = "declare"
  BY <1>4 DEF Changed, Account
<1>5. CASE task.op = "detect"
  BY <1>5 DEF Changed, Account
<1>6. CASE task.op = "health"
  BY <1>6 DEF Changed, Account
<1>7. QED
  BY <1>1, <1>2, <1>3, <1>4, <1>5, <1>6 DEF Changes

(* What a user declared stays in front of what a probe or an attempt reports. *)
LEMMA DeclaredStays ==
  ASSUME NEW current, current.source = "user", NEW value, NEW source \in Sources, source # "user"
  PROVE  Merged(current, value, source) = current
<1>1. Rank["user"] = 5 /\ Rank["probe"] = 4 /\ Rank["runtime"] = 3
  BY DEF Rank
<1>2. Rank["user"] > Rank[source]
  BY <1>1 DEF Sources
<1>3. QED
  BY <1>2 DEF Merged

LEMMA ReadAccountSafe ==
  ASSUME AccountSafety, NEW t \in Tasks, ReadAccount(t)
  PROVE  KeptInv'
<1>1. PICK k \in Keys : k = tasks[t].key
  BY SafeTypes DEF ReadAccount, TaskFine
<1>2. /\ tasks[t].pc = "read" /\ tasks[t].op \in Changes /\ tasks[t] \in Task /\ ChangerFine(t)
      /\ accounts[k] \in Account
      /\ UNCHANGED <<accounts, pointer, started, issued, told, overlapped>>
  BY <1>1, SafeTypes DEF ReadAccount, TaskFine, TaskSafe
<1>3. accounts[k].there
  BY <1>1, <1>2 DEF ChangerFine, AccountSafety, KeptInv, GrantsInv
<1> DEFINE new == Changed(tasks[t], accounts[k])
           task == [tasks[t] EXCEPT !.pc = "write", !.copy = new, !.left = Writing]
<1>4. tasks' = [tasks EXCEPT ![t] = task]
  BY <1>1, <1>3 DEF ReadAccount, Moves
<1>5. new \in Account
  BY <1>2, ChangedTyped, KeptTypes DEF AccountSafety, AccountsInv, AccountsTypeOK
<1>6. new.there /\ new.owner = accounts[k].owner
  BY <1>2, <1>3, ChangedKeeps
<1>7. Truthful(accounts[k], k) =>
        /\ tasks[t].op # "rename" => new.name = told[k].name
        /\ tasks[t].op \notin {"provide", "withdraw"} => new.secret = told[k].secret
        /\ IF tasks[t].op = "declare" THEN new.capability = [value |-> tasks[t].value, source |-> "user"]
           ELSE Declared(new, k)
  <2> SUFFICES ASSUME Truthful(accounts[k], k)
               PROVE  /\ tasks[t].op # "rename" => new.name = told[k].name
                      /\ tasks[t].op \notin {"provide", "withdraw"} => new.secret = told[k].secret
                      /\ IF tasks[t].op = "declare"
                         THEN new.capability = [value |-> tasks[t].value, source |-> "user"]
                         ELSE Declared(new, k)
    OBVIOUS
  <2>1. /\ tasks[t].op # "rename" => new.name = told[k].name
        /\ tasks[t].op \notin {"provide", "withdraw"} => new.secret = told[k].secret
        /\ tasks[t].op = "declare" => new.capability = [value |-> tasks[t].value, source |-> "user"]
    BY <1>2, ChangedKeeps DEF Truthful
  <2>2. CASE tasks[t].op \notin {"declare", "detect"}
    <3>1. new.capability = accounts[k].capability
      BY <1>2, <2>2, ChangedKeeps
    <3>2. QED
      BY <2>1, <2>2, <3>1 DEF Truthful, Declared
  <2>3. CASE tasks[t].op = "detect" /\ told[k].declared # "none"
    <3>1. accounts[k].capability = [value |-> told[k].declared, source |-> "user"]
      BY <2>3 DEF Truthful, Declared
    <3>2. tasks[t].source \in Sources /\ tasks[t].source # "user"
      BY <1>2, <2>3 DEF ChangerFine, Task
    <3>3. Merged(accounts[k].capability, tasks[t].value, tasks[t].source) = accounts[k].capability
      BY <3>1, <3>2, DeclaredStays
    <3>4. new.capability = accounts[k].capability
      BY <1>2, <2>3, <3>3, ChangedKeeps
    <3>5. QED
      BY <2>1, <2>3, <3>1, <3>4 DEF Declared
  <2>4. CASE tasks[t].op = "detect" /\ told[k].declared = "none"
    BY <2>1, <2>4 DEF Declared
  <2>5. QED
    BY <2>1, <2>2, <2>3, <2>4
<1> HIDE DEF new
<1>8. /\ task \in Task /\ task.pc = "write" /\ task.op = tasks[t].op /\ task.key = k
      /\ task.copy = new /\ task.left = Writing /\ task.source = tasks[t].source
      /\ task.value = tasks[t].value
  BY <1>1, <1>2, <1>5 DEF Task, Writing
<1> HIDE DEF task
<1>9. tasks'[t] = task /\ \A r \in Tasks \ {t} : tasks'[r] = tasks[r]
  BY <1>4, SafeTypes
<1>10. tasks[t].op \notin {"create", "none"}
  BY <1>2 DEF Changes
<1>11. TaskSafe(t)'
  <2>1. ChangerFine(t)'
    BY <1>1, <1>2, <1>6, <1>8, <1>9 DEF ChangerFine
  <2>2. QED
    BY <1>2, <1>6, <1>8, <1>9, <1>10, <2>1 DEF TaskSafe
<1>12. TasksFine' /\ GrantsInv'
  BY <1>2, <1>4, <1>8, <1>10, <1>11, PlainSafe
<1>13. ASSUME NEW j \in Keys \ overlapped
       PROVE  /\ \A q, r \in Tasks : Alters(q, j)' /\ Alters(r, j)' => q = r
              /\ (\A r \in Tasks : Alters(r, j)' => tasks'[r].pc # "write") => Truthful(accounts[j], j)'
              /\ \A r \in Tasks : Alters(r, j)' /\ tasks'[r].pc = "write" => Pending(r, j)'
  <2>0. /\ \A q, r \in Tasks : Alters(q, j) /\ Alters(r, j) => q = r
        /\ (\A r \in Tasks : Alters(r, j) => tasks[r].pc # "write") => Truthful(accounts[j], j)
        /\ \A r \in Tasks : Alters(r, j) /\ tasks[r].pc = "write" => Pending(r, j)
    BY DEF AccountSafety, KeptInv, ToldInv
  <2>1. /\ \A r \in Tasks : Alters(r, j)' <=> Alters(r, j)
        /\ Alters(t, j) => j = k
    BY <1>1, <1>8, <1>9 DEF Alters
  <2>2. Truthful(accounts[j], j) => Truthful(accounts[j], j)'
    BY <1>2 DEF Truthful, Declared
  <2>3. \A r \in Tasks \ {t} : Pending(r, j) => Pending(r, j)'
    BY <1>2, <1>9 DEF Pending, Declared
  <2>4. Alters(t, j) => Pending(t, j)'
    <3> SUFFICES ASSUME Alters(t, j)
                 PROVE  Pending(t, j)'
      OBVIOUS
    <3>1. j = k /\ Truthful(accounts[k], k)
      BY <1>2, <2>0, <2>1
    <3>2. QED
      BY <1>2, <1>7, <1>8, <1>9, <3>1, WritingDue DEF Pending, Declared
  <2>5. QED
    BY <1>2, <1>8, <1>9, <2>0, <2>1, <2>2, <2>3, <2>4
<1>14. ToldInv'
  BY <1>2, <1>13 DEF AccountSafety, KeptInv, ToldInv, Truthful, Declared
<1>15. QED
  BY <1>12, <1>14 DEF KeptInv

(* Whose account a write is about. *)
LEMMA WriterKnows ==
  ASSUME AccountSafety, NEW t \in Tasks, tasks[t].pc = "write", NEW k \in Keys, k = tasks[t].key
  PROVE  /\ tasks[t].copy.there
         /\ \/ Makes(t, k) /\ MakerFine(t) /\ tasks[t].user \in Users
            \/ /\ Alters(t, k) /\ accounts[k].there /\ tasks[t].copy.owner = accounts[k].owner
               /\ tasks[t].copy.owner \in Users /\ <<tasks[t].copy.owner, k>> \in issued
<1>1. TaskSafe(t) /\ TaskFine(tasks[t]) /\ tasks[t].op \in Changes \cup {"create"}
  BY SafeTypes DEF TaskSafe
<1>2. CASE tasks[t].op = "create"
  BY <1>1, <1>2 DEF TaskSafe, TaskFine, Makes
<1>3. CASE tasks[t].op \in Changes
  <2>1. PICK u \in Users : <<u, k>> \in issued
    BY <1>1, <1>3 DEF TaskSafe, ChangerFine
  <2>2. accounts[k].there /\ accounts[k].owner = u
    BY <2>1 DEF AccountSafety, KeptInv, GrantsInv
  <2>3. QED
    BY <1>1, <1>3, <2>1, <2>2 DEF TaskSafe, ChangerFine, Alters
<1>4. QED
  BY <1>1, <1>2, <1>3

LEMMA MakerAlone ==
  ASSUME AccountSafety, NEW k \in Keys, NEW r \in Tasks, Makes(r, k), Due(tasks[r].left)
  PROVE  /\ ~accounts[k].there
         /\ \A t \in Tasks : tasks[t].pc = "write" /\ tasks[t].key = k => t = r
         /\ \A t \in Tasks : ~Alters(t, k)
<1>1. TaskSafe(r) /\ tasks[r].key = k
  BY SafeTypes DEF Makes
<1>2. ~accounts[k].there
  BY <1>1 DEF TaskSafe, MakerFine, Makes
<1>3. ASSUME NEW t \in Tasks, Alters(t, k)
      PROVE  FALSE
  <2>1. \E u \in Users : <<u, k>> \in issued
    BY <1>3, SafeTypes DEF TaskSafe, ChangerFine, Alters
  <2>2. QED
    BY <1>2, <2>1 DEF AccountSafety, KeptInv, GrantsInv
<1>4. ASSUME NEW t \in Tasks, tasks[t].pc = "write", tasks[t].key = k
      PROVE  t = r
  <2>1. Makes(t, k)
    BY <1>3, <1>4, WriterKnows
  <2>2. QED
    BY <2>1 DEF AccountSafety, KeptInv, TasksFine
<1>5. QED
  BY <1>2, <1>3, <1>4

(* The record arrives, alone or together with the pointer to it. *)
LEMMA RecordArrives ==
  ASSUME AccountSafety, NEW t \in Tasks, NEW k \in Keys, k = tasks[t].key, tasks[t].pc = "write",
         Due(tasks[t].left), NEW copy, copy = tasks[t].copy, NEW task \in Task,
         task.pc = "write", task.op = tasks[t].op, task.key = k, task.copy = copy,
         task.user = tasks[t].user, task.source = tasks[t].source, task.value = tasks[t].value,
         ~Due(task.left), tasks' = [tasks EXCEPT ![t] = task],
         accounts' = [accounts EXCEPT ![k] = copy], UNCHANGED <<issued, told, overlapped>>,
         pointer' = pointer \/ pointer' = [pointer EXCEPT ![copy.owner] = k],
         \/ pointer'[copy.owner] # "none"
         \/ PointerDue(task.left) <=> PointerDue(tasks[t].left)
  PROVE  KeptInv'
<1>2. tasks[t] \in Task
  BY SafeTypes
<1>4. /\ tasks'[t] = task /\ \A r \in Tasks \ {t} : tasks'[r] = tasks[r]
      /\ accounts'[k] = copy /\ \A j \in Keys \ {k} : accounts'[j] = accounts[j]
  BY SafeTypes
<1>5. /\ copy.there /\ copy.owner \in Users
      /\ \/ Makes(t, k) /\ MakerFine(t) /\ copy.owner = tasks[t].user /\ ~accounts[k].there
         \/ Alters(t, k) /\ accounts[k].there /\ copy.owner = accounts[k].owner
            /\ <<copy.owner, k>> \in issued
  BY WriterKnows DEF MakerFine
<1>3. /\ \A u \in Users : pointer'[u] = pointer[u] \/ (u = copy.owner /\ pointer'[u] = k)
      /\ k # "none" /\ \A u \in Users : pointer[u] # "none" => pointer'[u] # "none"
  BY <1>5, SafeTypes
<1>6. \A j \in Keys : accounts[j].there => accounts'[j].there /\ accounts'[j].owner = accounts[j].owner
  BY <1>4, <1>5
<1>7. \A r \in Tasks, j \in Keys : Makes(r, j)' <=> Makes(r, j)
  BY <1>4 DEF Makes
<1>8. ASSUME NEW u \in Users, NEW j \in Keys, Grounded(u, j)
      PROVE  Grounded(u, j)'
  <2>1. CASE accounts[j].there /\ accounts[j].owner = u
    BY <1>6, <2>1 DEF Grounded
  <2>2. CASE \E r \in Tasks : Makes(r, j) /\ tasks[r].user = u /\ Due(tasks[r].left)
    <3>1. PICK r \in Tasks : Makes(r, j) /\ tasks[r].user = u /\ Due(tasks[r].left)
      BY <2>2
    <3>2. CASE r = t
      BY <1>4, <1>5, <3>1, <3>2 DEF Grounded, Makes, Alters, Changes
    <3>3. CASE r # t
      BY <1>4, <1>7, <3>1, <3>3 DEF Grounded
    <3>4. QED
      BY <3>2, <3>3
  <2>3. QED
    BY <1>8, <2>1, <2>2 DEF Grounded
<1>9. ASSUME NEW r \in Tasks
      PROVE  TaskSafe(r)'
  <2>0. TaskSafe(r) /\ TaskFine(tasks[r])
    BY SafeTypes
  <2>1. CASE r = t
    <3>1. Makes(t, k) => MakerFine(t)'
      <4> SUFFICES ASSUME Makes(t, k)
                   PROVE  MakerFine(t)'
        OBVIOUS
      <4>1. MakerFine(t) /\ copy.owner = tasks[t].user
        BY <1>5 DEF Makes, Alters, Changes
      <4>2. ~PointerDue(task.left) => pointer'[copy.owner] # "none"
        BY <1>3, <1>5, <4>1 DEF MakerFine
      <4>3. QED
        BY <1>4, <1>5, <4>1, <4>2 DEF MakerFine
    <3>2. Alters(t, k) => ChangerFine(t)'
      BY <1>4, <1>5, <2>0, <2>1 DEF TaskSafe, ChangerFine, Alters
    <3>3. QED
      BY <1>4, <1>5, <2>0, <2>1, <3>1, <3>2 DEF TaskSafe, Makes, Alters
  <2>2. CASE r # t
    <3>1. tasks'[r] = tasks[r]
      BY <1>4, <2>2
    <3>2. tasks[r].pc = "record" => Grounded(tasks[r].user, tasks[r].key)'
      <4> SUFFICES ASSUME tasks[r].pc = "record"
                   PROVE  Grounded(tasks[r].user, tasks[r].key)'
        OBVIOUS
      <4>1. PICK u \in Users, j \in Keys : u = tasks[r].user /\ j = tasks[r].key
        BY <2>0 DEF TaskFine
      <4>2. Grounded(u, j)'
        BY <1>8, <2>0, <4>1 DEF TaskSafe
      <4>3. QED
        BY <3>1, <4>1, <4>2 DEF Grounded, Makes
    <3>3. tasks[r].op = "create" /\ tasks[r].pc = "write" => MakerFine(r)'
      <4> SUFFICES ASSUME tasks[r].op = "create", tasks[r].pc = "write"
                   PROVE  MakerFine(r)'
        OBVIOUS
      <4>1. PICK j \in Keys : j = tasks[r].key
        BY <2>0 DEF TaskFine
      <4>2. Makes(r, j) /\ MakerFine(r)
        BY <2>0, <4>1 DEF Makes, TaskSafe
      <4>3. Due(tasks[r].left) => j # k
        BY <2>2, <4>2, MakerAlone
      <4>4. IF Due(tasks[r].left) THEN ~accounts'[j].there
            ELSE accounts'[j].there /\ accounts'[j].owner = tasks[r].user
        BY <1>4, <1>6, <4>1, <4>2, <4>3 DEF MakerFine
      <4>5. QED
        BY <1>3, <2>0, <3>1, <4>1, <4>2, <4>4 DEF MakerFine, TaskFine
    <3>4. tasks[r].op \in Changes => ChangerFine(r)'
      <4>1. ASSUME tasks[r].op \in Changes
            PROVE  accounts[tasks[r].key].there /\ tasks[r].key \in Keys
        BY <2>0, <4>1 DEF TaskSafe, ChangerFine, AccountSafety, KeptInv, GrantsInv
      <4>2. QED
        BY <1>6, <2>0, <3>1, <4>1 DEF TaskSafe, ChangerFine
    <3>5. tasks[r].pc = "record" => pointer'[tasks[r].user] # "none"
      BY <1>3, <2>0 DEF TaskSafe, TaskFine
    <3>6. QED
      BY <2>0, <3>1, <3>2, <3>3, <3>4, <3>5 DEF TaskSafe, Grounded, Makes
  <2>3. QED
    BY <2>1, <2>2
<1>10. TasksFine'
  BY <1>7, <1>9 DEF TasksFine, AccountSafety, KeptInv
<1>11. GrantsInv'
  <2>1. ASSUME NEW u \in Users, pointer'[u] # "none"
        PROVE  /\ Grounded(u, pointer[u])'
               /\ \/ <<u, pointer[u]>>' \in issued'
                  \/ \E r \in Tasks : Makes(r, pointer[u])' /\ tasks'[r].user = u
    <3>1. PICK j \in Keys : j = pointer'[u]
      BY <1>3, <2>1, SafeTypes
    <3>2. /\ Grounded(u, j)
          /\ \/ <<u, j>> \in issued
             \/ \E r \in Tasks : Makes(r, j) /\ tasks[r].user = u
      <4>1. CASE pointer'[u] = pointer[u]
        BY <2>1, <3>1, <4>1 DEF AccountSafety, KeptInv, GrantsInv
      <4>2. CASE u = copy.owner /\ j = k
        BY <1>5, <4>2 DEF Grounded, AccountSafety, KeptInv, GrantsInv
      <4>3. QED
        BY <1>3, <3>1, <4>1, <4>2
    <3>3. /\ Grounded(u, j)'
          /\ \/ <<u, j>> \in issued'
             \/ \E r \in Tasks : Makes(r, j)' /\ tasks'[r].user = u
      BY <1>4, <1>7, <1>8, <3>2
    <3>4. QED
      BY <3>1, <3>3 DEF Grounded, Makes
  <2>2. QED
    BY <1>3, <1>6, <2>1 DEF GrantsInv, AccountSafety, KeptInv, Grounded, Makes
<1>12. ASSUME NEW j \in Keys \ overlapped
       PROVE  /\ \A q, r \in Tasks : Alters(q, j)' /\ Alters(r, j)' => q = r
              /\ (\A r \in Tasks : Alters(r, j)' => tasks'[r].pc # "write") => Truthful(accounts[j], j)'
              /\ \A r \in Tasks : Alters(r, j)' /\ tasks'[r].pc = "write" => Pending(r, j)'
  <2>0. /\ \A q, r \in Tasks : Alters(q, j) /\ Alters(r, j) => q = r
        /\ (\A r \in Tasks : Alters(r, j) => tasks[r].pc # "write") => Truthful(accounts[j], j)
        /\ \A r \in Tasks : Alters(r, j) /\ tasks[r].pc = "write" => Pending(r, j)
    BY DEF AccountSafety, KeptInv, ToldInv
  <2>1. \A r \in Tasks : (Alters(r, j)' <=> Alters(r, j)) /\ tasks'[r].pc = tasks[r].pc
    BY <1>4 DEF Alters
  <2>2. CASE j # k
    <3>1. Truthful(accounts[j], j) => Truthful(accounts[j], j)'
      BY <1>4, <2>2 DEF Truthful, Declared
    <3>2. \A r \in Tasks : Alters(r, j) => r # t
      BY <2>2 DEF Alters
    <3>3. \A r \in Tasks \ {t} : Pending(r, j) => Pending(r, j)'
      BY <1>4, <2>2 DEF Pending, Declared
    <3>4. QED
      BY <2>0, <2>1, <3>1, <3>2, <3>3
  <2>3. CASE j = k /\ Alters(t, k)
    <3>1. Pending(t, k)'
      BY <1>4, <2>0, <2>3 DEF Pending, Declared
    <3>2. QED
      BY <2>0, <2>1, <2>3, <3>1
  <2>4. CASE j = k /\ ~Alters(t, k)
    <3>1. Makes(t, k) /\ MakerFine(t) /\ ~accounts[k].there /\ \A r \in Tasks : ~Alters(r, k)
      BY <1>5, <2>4, MakerAlone
    <3>2. told[k] = [name |-> 0, secret |-> 0, declared |-> "none"]
      BY <3>1 DEF AccountSafety, KeptInv, ToldInv
    <3>3. Truthful(accounts[k], k)'
      BY <1>4, <3>1, <3>2 DEF Truthful, Declared, MakerFine
    <3>4. QED
      BY <2>1, <2>4, <3>1, <3>3
  <2>5. QED
    BY <2>2, <2>3, <2>4
<1>13. ToldInv'
  BY <1>4, <1>5, <1>12 DEF AccountSafety, KeptInv, ToldInv
<1>14. QED
  BY <1>10, <1>11, <1>13 DEF KeptInv

LEMMA WriteRecordSafe ==
  ASSUME AccountSafety, NEW t \in Tasks, WriteRecord(t)
  PROVE  KeptInv'
<1>1. PICK k \in Keys : k = tasks[t].key
  BY SafeTypes DEF WriteRecord, TaskFine
<1>2. PICK copy : copy = tasks[t].copy
  OBVIOUS
<1> DEFINE task == [tasks[t] EXCEPT !.left = @ \ {"record"}]
<1>3. /\ tasks[t].pc = "write" /\ "record" \in tasks[t].left /\ tasks[t] \in Task
      /\ accounts' = [accounts EXCEPT ![k] = copy] /\ tasks' = [tasks EXCEPT ![t] = task]
      /\ UNCHANGED <<pointer, issued, told, overlapped>>
  BY <1>1, <1>2, SafeTypes DEF WriteRecord, RecordKey, Moves
<1>4. /\ task \in Task /\ task.pc = "write" /\ task.op = tasks[t].op /\ task.key = k
      /\ task.copy = copy /\ task.user = tasks[t].user /\ task.source = tasks[t].source
      /\ task.value = tasks[t].value /\ task.left = tasks[t].left \ {"record"}
  BY <1>1, <1>2, <1>3 DEF Task
<1> HIDE DEF task
<1>5. tasks[t].left \subseteq {"record", "pointer"}
  BY <1>3, SafeTypes DEF LeftFine, Left
<1>6. /\ Due(tasks[t].left) /\ ~Due(task.left)
      /\ PointerDue(task.left) <=> PointerDue(tasks[t].left)
  BY <1>3, <1>4, <1>5 DEF Due, PointerDue
<1>7. QED
  BY <1>1, <1>2, <1>3, <1>4, <1>6, RecordArrives

LEMMA WritePointerSafe ==
  ASSUME AccountSafety, NEW t \in Tasks, WritePointer(t)
  PROVE  KeptInv'
<1>1. PICK k \in Keys : k = tasks[t].key
  BY SafeTypes DEF WritePointer, TaskFine
<1> DEFINE task == [tasks[t] EXCEPT !.left = @ \ {"pointer"}]
<1>2. PICK owner : owner = tasks[t].copy.owner
  OBVIOUS
<1>3. /\ tasks[t].pc = "write" /\ tasks[t] \in Task
      /\ pointer' = [pointer EXCEPT ![owner] = k] /\ tasks' = [tasks EXCEPT ![t] = task]
      /\ UNCHANGED <<accounts, started, issued, told, overlapped>>
  BY <1>1, <1>2, SafeTypes DEF WritePointer, Moves
<1>4. /\ task.pc = "write" /\ task.op = tasks[t].op /\ task.key = k /\ task.copy = tasks[t].copy
      /\ task.user = tasks[t].user /\ task.source = tasks[t].source /\ task.value = tasks[t].value
      /\ Due(task.left) <=> Due(tasks[t].left)
  BY <1>1, <1>3 DEF Task, Due
<1> HIDE DEF task
<1>5. tasks'[t] = task /\ \A r \in Tasks \ {t} : tasks'[r] = tasks[r]
  BY <1>3, SafeTypes
<1>6. /\ tasks[t].copy.there /\ owner \in Users
      /\ \/ Makes(t, k) /\ MakerFine(t) /\ owner = tasks[t].user
         \/ Alters(t, k) /\ accounts[k].there /\ owner = accounts[k].owner /\ <<owner, k>> \in issued
  BY <1>1, <1>2, <1>3, WriterKnows DEF MakerFine
<1>7. /\ \A u \in Users : pointer'[u] = IF u = owner THEN k ELSE pointer[u]
      /\ k # "none" /\ \A u \in Users : pointer[u] # "none" => pointer'[u] # "none"
  BY <1>3, SafeTypes
<1>8. \A r \in Tasks : /\ tasks'[r].pc = tasks[r].pc /\ tasks'[r].op = tasks[r].op
                       /\ tasks'[r].key = tasks[r].key /\ tasks'[r].user = tasks[r].user
                       /\ tasks'[r].copy = tasks[r].copy /\ tasks'[r].source = tasks[r].source
                       /\ tasks'[r].value = tasks[r].value
                       /\ Due(tasks'[r].left) <=> Due(tasks[r].left)
  BY <1>1, <1>3, <1>4, <1>5
<1>9. /\ \A r \in Tasks, j \in Keys : (Makes(r, j)' <=> Makes(r, j)) /\ (Alters(r, j)' <=> Alters(r, j))
      /\ \A u \in Users, j \in Keys : Grounded(u, j)' <=> Grounded(u, j)
  BY <1>3, <1>8 DEF Makes, Alters, Grounded
<1>10. ASSUME NEW r \in Tasks
       PROVE  TaskSafe(r)'
  <2>0. TaskSafe(r) /\ TaskFine(tasks[r])
    BY SafeTypes
  <2>1. tasks[r].pc = "record" => Grounded(tasks[r].user, tasks[r].key)' /\ pointer'[tasks[r].user] # "none"
    <3> SUFFICES ASSUME tasks[r].pc = "record"
                 PROVE  Grounded(tasks[r].user, tasks[r].key)' /\ pointer'[tasks[r].user] # "none"
      OBVIOUS
    <3>1. PICK u \in Users, j \in Keys : u = tasks[r].user /\ j = tasks[r].key
      BY <2>0 DEF TaskFine
    <3>2. Grounded(u, j)' /\ pointer'[u] # "none"
      BY <1>7, <1>9, <2>0, <3>1 DEF TaskSafe
    <3>3. QED
      BY <1>8, <3>1, <3>2 DEF Grounded, Makes
  <2>2. tasks[r].op = "create" /\ tasks[r].pc = "write" => MakerFine(r)'
    <3> SUFFICES ASSUME tasks[r].op = "create", tasks[r].pc = "write"
                 PROVE  MakerFine(r)'
      OBVIOUS
    <3>1. MakerFine(r) /\ tasks[r].user \in Users
      BY <2>0 DEF TaskSafe, TaskFine
    <3>2. ~PointerDue(tasks'[r].left) => pointer'[tasks[r].user] # "none"
      <4>1. CASE r = t
        BY <1>1, <1>6, <1>7, <3>1, <4>1 DEF Alters, Changes
      <4>2. CASE r # t
        BY <1>5, <1>7, <3>1, <4>2 DEF MakerFine
      <4>3. QED
        BY <4>1, <4>2
    <3>3. QED
      BY <1>3, <1>8, <3>1, <3>2 DEF MakerFine
  <2>3. tasks[r].op \in Changes => ChangerFine(r)'
    BY <1>3, <1>8, <2>0 DEF TaskSafe, ChangerFine
  <2>4. QED
    BY <1>8, <2>0, <2>1, <2>2, <2>3 DEF TaskSafe, Grounded, Makes
<1>11. TasksFine'
  BY <1>9, <1>10 DEF TasksFine, AccountSafety, KeptInv
<1>12. GrantsInv'
  <2>1. ASSUME NEW u \in Users, pointer'[u] # "none"
        PROVE  /\ Grounded(u, pointer[u])'
               /\ \/ <<u, pointer[u]>>' \in issued'
                  \/ \E r \in Tasks : Makes(r, pointer[u])' /\ tasks'[r].user = u
    <3>1. PICK j \in Keys : j = pointer'[u]
      BY <1>7, <2>1, SafeTypes
    <3>2. /\ Grounded(u, j)
          /\ \/ <<u, j>> \in issued
             \/ \E r \in Tasks : Makes(r, j) /\ tasks[r].user = u
      <4>1. CASE u = owner
        <5>1. j = k
          BY <1>7, <3>1, <4>1
        <5>2. QED
          BY <1>6, <4>1, <5>1, <1>1, SafeTypes DEF Grounded, MakerFine
      <4>2. CASE u # owner
        BY <1>7, <2>1, <3>1, <4>2 DEF AccountSafety, KeptInv, GrantsInv
      <4>3. QED
        BY <4>1, <4>2
    <3>3. /\ Grounded(u, j)'
          /\ \/ <<u, j>> \in issued'
             \/ \E r \in Tasks : Makes(r, j)' /\ tasks'[r].user = u
      BY <1>3, <1>8, <1>9, <3>2
    <3>4. QED
      BY <3>1, <3>3 DEF Grounded, Makes
  <2>2. QED
    BY <1>3, <1>7, <2>1 DEF GrantsInv, AccountSafety, KeptInv, Grounded, Makes
<1>13. ToldInv'
  <2>1. \A r \in Tasks, j \in Keys : Pending(r, j)' <=> Pending(r, j)
    BY <1>3, <1>8 DEF Pending, Declared
  <2>2. \A j \in Keys : Truthful(accounts[j], j)' <=> Truthful(accounts[j], j)
    BY <1>3 DEF Truthful, Declared
  <2>3. QED
    BY <1>3, <1>8, <1>9, <2>1, <2>2 DEF AccountSafety, KeptInv, ToldInv
<1>14. QED
  BY <1>11, <1>12, <1>13 DEF KeptInv

(* Loading the file changes nothing but what the request knows. *)
LEMMA LoadFileSafe ==
  ASSUME AccountSafety, NEW t \in Tasks, LoadFile(t)
  PROVE  KeptInv'
<1> DEFINE file == [accounts |-> accounts, first |-> pointer]
           task == [tasks[t] EXCEPT !.left = {"save"}, !.file = file]
<1>1. /\ tasks[t].pc = "write" /\ "load" \in tasks[t].left /\ tasks[t] \in Task
      /\ tasks' = [tasks EXCEPT ![t] = task]
      /\ UNCHANGED <<accounts, pointer, issued, told, overlapped>>
  BY SafeTypes DEF LoadFile, Moves
<1> HIDE DEF file
<1>2. /\ task.pc = "write" /\ task.op = tasks[t].op /\ task.key = tasks[t].key
      /\ task.copy = tasks[t].copy /\ task.user = tasks[t].user
      /\ task.source = tasks[t].source /\ task.value = tasks[t].value /\ task.left = {"save"}
  BY <1>1 DEF Task
<1> HIDE DEF task
<1>3. /\ Due(task.left) /\ Due(tasks[t].left)
      /\ PointerDue(task.left) /\ PointerDue(tasks[t].left)
  BY <1>1, <1>2 DEF Due, PointerDue
<1>4. \A r \in Tasks : /\ tasks'[r].pc = tasks[r].pc /\ tasks'[r].op = tasks[r].op
                       /\ tasks'[r].key = tasks[r].key /\ tasks'[r].user = tasks[r].user
                       /\ tasks'[r].copy = tasks[r].copy /\ tasks'[r].source = tasks[r].source
                       /\ tasks'[r].value = tasks[r].value
                       /\ Due(tasks'[r].left) <=> Due(tasks[r].left)
                       /\ PointerDue(tasks'[r].left) <=> PointerDue(tasks[r].left)
  <2>1. tasks'[t] = task /\ \A r \in Tasks \ {t} : tasks'[r] = tasks[r]
    BY <1>1, SafeTypes
  <2>2. QED
    BY <1>1, <1>2, <1>3, <2>1
<1>5. /\ \A r \in Tasks, j \in Keys : (Makes(r, j)' <=> Makes(r, j)) /\ (Alters(r, j)' <=> Alters(r, j))
      /\ \A u \in Users, j \in Keys : Grounded(u, j)' <=> Grounded(u, j)
  BY <1>1, <1>4 DEF Makes, Alters, Grounded
<1>6. ASSUME NEW r \in Tasks
      PROVE  TaskSafe(r)'
  <2>0. TaskSafe(r) /\ TaskFine(tasks[r])
    BY SafeTypes
  <2>1. tasks[r].pc = "record" => Grounded(tasks[r].user, tasks[r].key)'
    <3> SUFFICES ASSUME tasks[r].pc = "record"
                 PROVE  Grounded(tasks[r].user, tasks[r].key)'
      OBVIOUS
    <3>1. PICK u \in Users, j \in Keys : u = tasks[r].user /\ j = tasks[r].key
      BY <2>0 DEF TaskFine
    <3>2. Grounded(u, j)'
      BY <1>5, <2>0, <3>1 DEF TaskSafe
    <3>3. QED
      BY <1>4, <3>1, <3>2 DEF Grounded, Makes
  <2>2. MakerFine(r) => MakerFine(r)'
    BY <1>1, <1>4 DEF MakerFine
  <2>3. ChangerFine(r) => ChangerFine(r)'
    BY <1>1, <1>4 DEF ChangerFine
  <2>4. QED
    BY <1>1, <1>4, <2>0, <2>1, <2>2, <2>3 DEF TaskSafe, Grounded, Makes
<1>7. TasksFine'
  BY <1>5, <1>6 DEF TasksFine, AccountSafety, KeptInv
<1>8. GrantsInv'
  <2>1. ASSUME NEW u \in Users, pointer[u] # "none"
        PROVE  /\ Grounded(u, pointer[u])'
               /\ \/ <<u, pointer[u]>>' \in issued'
                  \/ \E r \in Tasks : Makes(r, pointer[u])' /\ tasks'[r].user = u
    <3>1. PICK j \in Keys : j = pointer[u]
      BY <2>1, SafeTypes
    <3>2. /\ Grounded(u, j)
          /\ \/ <<u, j>> \in issued
             \/ \E r \in Tasks : Makes(r, j) /\ tasks[r].user = u
      BY <2>1, <3>1 DEF AccountSafety, KeptInv, GrantsInv
    <3>3. /\ Grounded(u, j)'
          /\ \/ <<u, j>> \in issued'
             \/ \E r \in Tasks : Makes(r, j)' /\ tasks'[r].user = u
      BY <1>1, <1>4, <1>5, <3>2
    <3>4. QED
      BY <1>1, <3>1, <3>3 DEF Grounded, Makes
  <2>2. QED
    BY <1>1, <2>1 DEF GrantsInv, AccountSafety, KeptInv, Grounded, Makes
<1>9. ToldInv'
  <2>1. \A r \in Tasks, j \in Keys : Pending(r, j)' <=> Pending(r, j)
    BY <1>1, <1>4 DEF Pending, Declared
  <2>2. \A j \in Keys : Truthful(accounts[j], j)' <=> Truthful(accounts[j], j)
    BY <1>1 DEF Truthful, Declared
  <2>3. QED
    BY <1>1, <1>4, <1>5, <2>1, <2>2 DEF AccountSafety, KeptInv, ToldInv
<1>10. QED
  BY <1>7, <1>8, <1>9 DEF KeptInv

(* What a request that nothing overlapped saves is the file with its account
   replaced, and its owner's place in it. *)
LEMMA SavedFile ==
  ASSUME AccountSafety, NEW t \in Tasks, SaveFile(t), NEW k \in Keys, k = tasks[t].key,
         NEW copy, copy = tasks[t].copy
  PROVE  /\ store = "file" /\ accounts' = [accounts EXCEPT ![k] = copy]
         /\ copy.owner \in Users /\ pointer'[copy.owner] # "none"
         /\ pointer' = pointer \/ pointer' = [pointer EXCEPT ![copy.owner] = k]
         /\ \A u \in Users : /\ pointer[u] # "none" => pointer'[u] = pointer[u]
                             /\ pointer[u] = "none" => pointer'[u] \in {"none", k}
                             /\ pointer'[u] # pointer[u] => u = copy.owner
<1>1. /\ tasks[t].pc = "write" /\ "save" \in tasks[t].left
      /\ accounts' = [tasks[t].file.accounts EXCEPT ![k] = copy]
      /\ pointer' = [tasks[t].file.first EXCEPT ![copy.owner] = IF @ = "none" THEN k ELSE @]
  BY DEF SaveFile, RecordKey
<1>2. store = "file"
  <2>1. store \in {"redis", "file"}
    BY AccountStoreAssumption DEF AccountSafety, AccountsInv, AccountsTypeOK
  <2>2. QED
    BY <1>1, <2>1, SafeTypes DEF LeftFine, Left
<1>3. tasks[t].file.accounts = accounts /\ tasks[t].file.first = pointer
  BY <1>1, <1>2 DEF AccountSafety, FileInv
<1>4. copy.owner \in Users /\ k # "none" /\ pointer \in [Users -> Keys \cup {"none"}]
  BY <1>1, WriterKnows, SafeTypes DEF MakerFine
<1>5. pointer' = [pointer EXCEPT ![copy.owner] = IF pointer[copy.owner] = "none" THEN k
                                                ELSE pointer[copy.owner]]
  BY <1>1, <1>3
<1>6. CASE pointer[copy.owner] = "none"
  BY <1>1, <1>2, <1>3, <1>4, <1>5, <1>6
<1>7. CASE pointer[copy.owner] # "none"
  <2>1. pointer' = pointer
    BY <1>4, <1>5, <1>7
  <2>2. QED
    BY <1>1, <1>2, <1>3, <1>4, <1>7, <2>1
<1>8. QED
  BY <1>6, <1>7

LEMMA SaveFileSafe ==
  ASSUME AccountSafety, NEW t \in Tasks, SaveFile(t)
  PROVE  KeptInv'
<1>1. PICK k \in Keys : k = tasks[t].key
  BY SafeTypes DEF SaveFile, TaskFine
<1>2. PICK copy : copy = tasks[t].copy
  OBVIOUS
<1> DEFINE task == [tasks[t] EXCEPT !.left = {}, !.file = NoFile]
<1>3. /\ tasks[t].pc = "write" /\ "save" \in tasks[t].left /\ tasks[t] \in Task
      /\ tasks' = [tasks EXCEPT ![t] = task] /\ UNCHANGED <<issued, told, overlapped>>
  BY SafeTypes DEF SaveFile, Moves
<1>4. /\ task \in Task /\ task.pc = "write" /\ task.op = tasks[t].op /\ task.key = k
      /\ task.copy = copy /\ task.user = tasks[t].user /\ task.source = tasks[t].source
      /\ task.value = tasks[t].value /\ task.left = {}
  BY <1>1, <1>2, <1>3, NoTask DEF Task
<1> HIDE DEF task
<1>5. Due(tasks[t].left) /\ ~Due(task.left)
  BY <1>3, <1>4 DEF Due
<1>6. /\ accounts' = [accounts EXCEPT ![k] = copy] /\ pointer'[copy.owner] # "none"
      /\ pointer' = pointer \/ pointer' = [pointer EXCEPT ![copy.owner] = k]
  BY <1>1, <1>2, SavedFile
<1>7. QED
  BY <1>1, <1>2, <1>3, <1>4, <1>5, <1>6, RecordArrives

(* The end of a request: what it made is granted, what it changed is told. *)
LEMMA AcknowledgeSafe ==
  ASSUME AccountSafety, NEW t \in Tasks, Acknowledge(t)
  PROVE  KeptInv'
<1>1. PICK k \in Keys : k = tasks[t].key
  BY SafeTypes DEF Acknowledge, TaskFine
<1>2. /\ tasks[t].pc = "write" /\ tasks[t].left = {} /\ tasks[t] \in Task
      /\ tasks' = [tasks EXCEPT ![t] = FreeTask]
      /\ UNCHANGED <<accounts, pointer, started, overlapped>>
      /\ issued' = IF tasks[t].op = "create" THEN issued \cup {<<tasks[t].user, k>>} ELSE issued
  BY <1>1, SafeTypes DEF Acknowledge, Moves
<1>3. /\ tasks'[t] = FreeTask /\ \A r \in Tasks \ {t} : tasks'[r] = tasks[r]
      /\ FreeTask.op = "none" /\ FreeTask.pc = "free" /\ FreeTask.key = "none"
  BY <1>2, SafeTypes DEF FreeTask
<1>4. /\ accounts[k].there
      /\ \/ /\ Makes(t, k) /\ MakerFine(t) /\ tasks[t].user \in Users /\ tasks[t].op = "create"
            /\ accounts[k].owner = tasks[t].user /\ pointer[tasks[t].user] # "none"
         \/ Alters(t, k) /\ tasks[t].op # "create"
  <2>1. ~Due(tasks[t].left) /\ ~PointerDue(tasks[t].left)
    BY <1>2 DEF Due, PointerDue
  <2>2. QED
    BY <1>1, <1>2, <2>1, WriterKnows DEF MakerFine, Makes, Alters, Changes
<1>5. issued \subseteq issued' /\ \A u \in Users, j \in Keys : <<u, j>> \in issued' \ issued =>
        j = k /\ u = tasks[t].user /\ tasks[t].op = "create"
  BY <1>2
<1>6. \A r \in Tasks, j \in Keys :
        (Makes(r, j)' <=> Makes(r, j) /\ r # t) /\ (Alters(r, j)' <=> Alters(r, j) /\ r # t)
  BY <1>3 DEF Makes, Alters, Changes
<1>7. ASSUME NEW u \in Users, NEW j \in Keys, Grounded(u, j)
      PROVE  Grounded(u, j)'
  <2>1. CASE accounts[j].there /\ accounts[j].owner = u
    BY <1>2, <2>1 DEF Grounded
  <2>2. CASE \E r \in Tasks : Makes(r, j) /\ tasks[r].user = u /\ Due(tasks[r].left)
    <3>1. ~Due(tasks[t].left)
      BY <1>2 DEF Due
    <3>2. QED
      BY <1>2, <1>3, <1>6, <2>2, <3>1 DEF Grounded
  <2>3. QED
    BY <1>7, <2>1, <2>2 DEF Grounded
<1>8. ASSUME NEW r \in Tasks
      PROVE  TaskSafe(r)'
  <2>0. TaskSafe(r) /\ TaskFine(tasks[r])
    BY SafeTypes
  <2>1. CASE r = t
    BY <1>3, <2>1 DEF TaskSafe, Changes
  <2>2. CASE r # t
    <3>1. tasks'[r] = tasks[r]
      BY <1>3, <2>2
    <3>2. tasks[r].pc = "record" => Grounded(tasks[r].user, tasks[r].key)'
      <4> SUFFICES ASSUME tasks[r].pc = "record"
                   PROVE  Grounded(tasks[r].user, tasks[r].key)'
        OBVIOUS
      <4>1. PICK u \in Users, j \in Keys : u = tasks[r].user /\ j = tasks[r].key
        BY <2>0 DEF TaskFine
      <4>2. Grounded(u, j)'
        BY <1>7, <2>0, <4>1 DEF TaskSafe
      <4>3. QED
        BY <3>1, <4>1, <4>2 DEF Grounded, Makes
    <3>3. (MakerFine(r) => MakerFine(r)') /\ (ChangerFine(r) => ChangerFine(r)')
      BY <1>2, <1>5, <3>1 DEF MakerFine, ChangerFine
    <3>4. QED
      BY <1>2, <2>0, <3>1, <3>2, <3>3 DEF TaskSafe, Grounded, Makes
  <2>3. QED
    BY <2>1, <2>2
<1>9. TasksFine'
  BY <1>6, <1>8 DEF TasksFine, AccountSafety, KeptInv
<1>10. GrantsInv'
  <2>1. \A u \in Users, j \in Keys : <<u, j>> \in issued' =>
          accounts'[j].there /\ accounts'[j].owner = u /\ pointer'[u] # "none"
    BY <1>2, <1>4, <1>5 DEF AccountSafety, KeptInv, GrantsInv
  <2>2. ASSUME NEW u \in Users, pointer[u] # "none"
        PROVE  /\ Grounded(u, pointer[u])'
               /\ \/ <<u, pointer[u]>>' \in issued'
                  \/ \E r \in Tasks : Makes(r, pointer[u])' /\ tasks'[r].user = u
    <3>1. PICK j \in Keys : j = pointer[u]
      BY <2>2, SafeTypes
    <3>2. /\ Grounded(u, j)
          /\ \/ <<u, j>> \in issued
             \/ \E r \in Tasks : Makes(r, j) /\ tasks[r].user = u
      BY <2>2, <3>1 DEF AccountSafety, KeptInv, GrantsInv
    <3>3. \/ <<u, j>> \in issued'
          \/ \E r \in Tasks : Makes(r, j)' /\ tasks'[r].user = u
      <4>1. CASE <<u, j>> \in issued
        BY <1>5, <4>1
      <4>2. CASE \E r \in Tasks : Makes(r, j) /\ tasks[r].user = u
        <5>1. PICK r \in Tasks : Makes(r, j) /\ tasks[r].user = u
          BY <4>2
        <5>2. CASE r = t
          BY <1>1, <1>2, <5>1, <5>2 DEF Makes
        <5>3. CASE r # t
          BY <1>3, <1>6, <5>1, <5>3
        <5>4. QED
          BY <5>2, <5>3
      <4>3. QED
        BY <3>2, <4>1, <4>2
    <3>4. Grounded(u, j)'
      BY <1>7, <3>2
    <3>5. QED
      BY <1>2, <3>1, <3>3, <3>4 DEF Grounded, Makes
  <2>3. QED
    BY <1>2, <2>1, <2>2 DEF GrantsInv, Grounded, Makes
<1>11. ToldInv'
  <2>1. \A j \in Keys \ {k} : told'[j] = told[j]
    BY <1>1 DEF Acknowledge
  <2>2. Alters(t, k) \/ told' = told
    BY <1>1, <1>4 DEF Acknowledge
  <2>3. \A j \in Keys : ~accounts[j].there => told'[j] = told[j]
    BY <1>4, <2>1
  <2>4. ASSUME NEW j \in Keys \ overlapped
        PROVE  /\ \A q, r \in Tasks : Alters(q, j)' /\ Alters(r, j)' => q = r
               /\ (\A r \in Tasks : Alters(r, j)' => tasks'[r].pc # "write") => Truthful(accounts[j], j)'
               /\ \A r \in Tasks : Alters(r, j)' /\ tasks'[r].pc = "write" => Pending(r, j)'
    <3>0. /\ \A q, r \in Tasks : Alters(q, j) /\ Alters(r, j) => q = r
          /\ (\A r \in Tasks : Alters(r, j) => tasks[r].pc # "write") => Truthful(accounts[j], j)
          /\ \A r \in Tasks : Alters(r, j) /\ tasks[r].pc = "write" => Pending(r, j)
      BY DEF AccountSafety, KeptInv, ToldInv
    <3>1. CASE told'[j] = told[j] /\ ~Alters(t, j)
      <4>1. Truthful(accounts[j], j) => Truthful(accounts[j], j)'
        BY <1>2, <3>1 DEF Truthful, Declared
      <4>2. \A r \in Tasks \ {t} : Pending(r, j) => Pending(r, j)'
        BY <1>2, <1>3, <3>1 DEF Pending, Declared
      <4>3. QED
        BY <1>3, <1>6, <3>0, <3>1, <4>1, <4>2
    <3>2. CASE j = k /\ Alters(t, k)
      <4>1. Pending(t, k) /\ accounts[k] = tasks[t].copy
        BY <1>2, <3>0, <3>2 DEF Pending, Due
      <4>2. \A r \in Tasks : ~Alters(r, k)'
        BY <1>6, <3>0, <3>2
      <4>3. tasks[t].op \in Changes
        BY <3>2 DEF Alters
      <4>4. told[k] \in [name : Names, secret : Names, declared : Support \cup {"none"}]
            /\ told \in [Keys -> [name : Names, secret : Names, declared : Support \cup {"none"}]]
        BY KeptTypes DEF AccountSafety
      <4>5. Truthful(accounts[k], k)'
        <5>1. CASE tasks[t].op = "rename"
          <6>1. told' = [told EXCEPT ![k].name = tasks[t].copy.name]
            BY <1>1, <5>1 DEF Acknowledge
          <6>2. told'[k].name = tasks[t].copy.name /\ told'[k].secret = told[k].secret
                /\ told'[k].declared = told[k].declared
            BY <4>4, <6>1
          <6>3. QED
            BY <1>2, <4>1, <5>1, <6>2 DEF Truthful, Declared, Pending
        <5>2. CASE tasks[t].op \in {"provide", "withdraw"}
          <6>1. told' = [told EXCEPT ![k].secret = tasks[t].copy.secret]
            BY <1>1, <5>2 DEF Acknowledge
          <6>2. told'[k].secret = tasks[t].copy.secret /\ told'[k].name = told[k].name
                /\ told'[k].declared = told[k].declared
            BY <4>4, <6>1
          <6>3. QED
            BY <1>2, <4>1, <5>2, <6>2 DEF Truthful, Declared, Pending
        <5>3. CASE tasks[t].op = "declare"
          <6>1. told' = [told EXCEPT ![k].declared = tasks[t].value]
            BY <1>1, <5>3 DEF Acknowledge
          <6>2. told'[k].declared = tasks[t].value /\ told'[k].name = told[k].name
                /\ told'[k].secret = told[k].secret
            BY <4>4, <6>1
          <6>3. QED
            BY <1>2, <4>1, <5>3, <6>2 DEF Truthful, Declared, Pending
        <5>4. CASE tasks[t].op \in {"detect", "health"}
          <6>1. told' = told
            BY <5>4 DEF Acknowledge
          <6>2. QED
            BY <1>2, <4>1, <5>4, <6>1 DEF Truthful, Declared, Pending
        <5>5. QED
          BY <4>3, <5>1, <5>2, <5>3, <5>4 DEF Changes
      <4>6. QED
        BY <3>2, <4>2, <4>5
    <3>3. QED
      BY <1>1, <2>1, <2>2, <3>1, <3>2 DEF Alters
  <2>5. QED
    BY <1>2, <2>3, <2>4 DEF AccountSafety, KeptInv, ToldInv
<1>12. QED
  BY <1>9, <1>10, <1>11 DEF KeptInv

(* The file, step by step. *)

LEMMA LeftStays ==
  ASSUME AccountSafety, NEW t \in Tasks, NEW task, task.left \subseteq Left,
         task.left # {} => task.pc = "write", tasks' = [tasks EXCEPT ![t] = task], UNCHANGED store
  PROVE  \A r \in Tasks : LeftFine(r)'
<1>1. tasks'[t] = task /\ \A r \in Tasks \ {t} : tasks'[r] = tasks[r]
  BY KeptTypes DEF AccountSafety
<1>2. \A r \in Tasks : LeftFine(r)
  BY DEF AccountSafety, FileInv
<1>3. QED
  BY <1>1, <1>2 DEF LeftFine, Left

(* A step that writes nothing and begins no writing beside another. *)
LEMMA FileQuiet ==
  ASSUME AccountSafety, NEW t \in Tasks, NEW task, task.left \subseteq Left,
         task.left # {} => task.pc = "write", tasks' = [tasks EXCEPT ![t] = task],
         UNCHANGED <<store, accounts, pointer>>,
         store = "file" /\ task.pc \in {"read", "write"} => t \in Writers \/ Writers = {},
         store = "file" /\ "save" \in task.left =>
           task.file.accounts = accounts /\ task.file.first = pointer
  PROVE  FileInv'
<1>1. tasks'[t] = task /\ \A r \in Tasks \ {t} : tasks'[r] = tasks[r]
  BY KeptTypes DEF AccountSafety
<1>2. \A r \in Tasks : LeftFine(r)'
  BY LeftStays
<1>3. ASSUME store = "file", NEW q \in Writers', NEW r \in Writers'
      PROVE  q = r
  <2>1. q \in Tasks /\ r \in Tasks
    BY DEF Writers
  <2>2. \A p \in Tasks \ {t} : p \in Writers' => p \in Writers
    BY <1>1 DEF Writers
  <2>3. t \in Writers' => t \in Writers \/ Writers = {}
    BY <1>1, <1>3 DEF Writers
  <2>4. \A p1, p2 \in Writers : p1 = p2
    BY <1>3 DEF AccountSafety, FileInv
  <2>5. QED
    BY <1>3, <2>1, <2>2, <2>3, <2>4
<1>4. ASSUME store = "file", NEW r \in Tasks, "save" \in tasks'[r].left
      PROVE  tasks'[r].file.accounts = accounts /\ tasks'[r].file.first = pointer
  BY <1>1, <1>4 DEF AccountSafety, FileInv
<1>5. QED
  BY <1>2, <1>3, <1>4 DEF AccountSafety, FileInv

LEMMA SaveFileFile ==
  ASSUME AccountSafety, NEW t \in Tasks, SaveFile(t)
  PROVE  FileInv'
<1>1. PICK k \in Keys : k = tasks[t].key
  BY SafeTypes DEF SaveFile, TaskFine
<1>2. PICK copy : copy = tasks[t].copy
  OBVIOUS
<1> DEFINE task == [tasks[t] EXCEPT !.left = {}, !.file = NoFile]
<1>3. /\ tasks[t].pc = "write" /\ tasks[t] \in Task /\ tasks' = [tasks EXCEPT ![t] = task]
      /\ UNCHANGED store
  BY SafeTypes DEF SaveFile, Moves
<1>4. task.left = {} /\ task.pc = "write"
  BY <1>3 DEF Task
<1> HIDE DEF task
<1>5. tasks'[t] = task /\ \A r \in Tasks \ {t} : tasks'[r] = tasks[r]
  BY <1>3, SafeTypes
<1>6. \A r \in Tasks : LeftFine(r)'
  BY <1>3, <1>4, LeftStays
<1>7. /\ store = "file" /\ accounts' = [accounts EXCEPT ![k] = copy] /\ copy.owner \in Users
      /\ \A u \in Users : /\ pointer[u] # "none" => pointer'[u] = pointer[u]
                          /\ pointer[u] = "none" => pointer'[u] \in {"none", k}
                          /\ pointer'[u] # pointer[u] => u = copy.owner
  BY <1>1, <1>2, SavedFile
<1>8. Writers' = Writers /\ t \in Writers /\ \A q, r \in Writers : q = r
  BY <1>3, <1>4, <1>5, <1>7 DEF Writers, AccountSafety, FileInv
<1>9. \A r \in Tasks : "save" \notin tasks'[r].left
  <2>1. ASSUME NEW r \in Tasks \ {t}
        PROVE  tasks[r].left = {}
    BY <1>8, SafeTypes DEF LeftFine, Writers
  <2>2. QED
    BY <1>4, <1>5, <2>1
<1>10. ASSUME NEW u \in Users, pointer'[u] # "none"
       PROVE  accounts'[pointer'[u]].there /\ accounts'[pointer'[u]].owner = u
  <2>1. /\ copy.there /\ accounts'[k] = copy /\ \A j \in Keys \ {k} : accounts'[j] = accounts[j]
        /\ accounts[k].there => copy.owner = accounts[k].owner
    <3>1. Due(tasks[t].left)
      BY DEF SaveFile, Due
    <3>2. QED
      BY <1>1, <1>2, <1>3, <1>7, <3>1, WriterKnows, SafeTypes DEF MakerFine
  <2>2. CASE pointer[u] # "none"
    <3>1. PICK j \in Keys : j = pointer[u]
      BY <2>2, SafeTypes
    <3>2. accounts[j].there /\ accounts[j].owner = u /\ pointer'[u] = j
      BY <1>7, <2>2, <3>1 DEF AccountSafety, FileInv
    <3>3. QED
      BY <2>1, <3>2
  <2>3. CASE pointer[u] = "none"
    BY <1>7, <1>10, <2>1, <2>3
  <2>4. QED
    BY <2>2, <2>3
<1>11. QED
  BY <1>6, <1>8, <1>9, <1>10 DEF FileInv

(* In Redis a write is only about its own keys. *)
LEMMA RedisWritesFile ==
  ASSUME AccountSafety, NEW t \in Tasks, WriteRecord(t) \/ WritePointer(t)
  PROVE  FileInv'
<1>1. PICK w \in {"record", "pointer"} : /\ w \in tasks[t].left /\ tasks[t].pc = "write"
                                        /\ tasks' = [tasks EXCEPT ![t] = [tasks[t] EXCEPT !.left = @ \ {w}]]
  BY DEF WriteRecord, WritePointer, Moves
<1> DEFINE task == [tasks[t] EXCEPT !.left = @ \ {w}]
<1>2. UNCHANGED store /\ tasks[t] \in Task /\ LeftFine(t)
  BY SafeTypes DEF WriteRecord, WritePointer
<1>3. task.left \subseteq tasks[t].left /\ task.pc = "write"
  BY <1>1, <1>2 DEF Task
<1>4. tasks' = [tasks EXCEPT ![t] = task]
  BY <1>1
<1> HIDE DEF task
<1>5. task.left \subseteq Left
  BY <1>2, <1>3 DEF LeftFine
<1>6. \A r \in Tasks : LeftFine(r)'
  BY <1>2, <1>3, <1>4, <1>5, LeftStays
<1>7. store # "file"
  BY <1>1, <1>2 DEF LeftFine, Left
<1>8. QED
  BY <1>2, <1>6, <1>7 DEF FileInv

LEMMA ReadsFile ==
  ASSUME AccountSafety, NEW t \in Tasks,
         \/ \E u \in Users : Visit(t, u)
         \/ ReadPointer(t) \/ ReadOwn(t) \/ FindOwn(t) \/ ReadAccount(t) \/ Acknowledge(t)
  PROVE  FileInv'
<1>1. tasks[t] \in Task /\ LeftFine(t) /\ FreeTask.left = {} /\ FreeTask.pc = "free"
  BY SafeTypes DEF FreeTask
<1>2. UNCHANGED <<store, accounts, pointer>>
  BY DEF Visit, ReadPointer, ReadOwn, FindOwn, ReadAccount, Acknowledge
<1>3. CASE tasks' = [tasks EXCEPT ![t] = FreeTask]
  BY <1>1, <1>2, <1>3, FileQuiet
<1>4. ASSUME NEW task, tasks' = [tasks EXCEPT ![t] = task], task.left = {},
             task.pc \notin {"read", "write"}
      PROVE  FileInv'
  BY <1>2, <1>4, FileQuiet
<1>5. CASE \E u \in Users : Visit(t, u)
  <2>1. PICK u \in Users : tasks' = [tasks EXCEPT ![t] =
                               [FreeTask EXCEPT !.pc = "pointer", !.op = "create", !.user = u]]
    BY <1>5 DEF Visit, Begins
  <2> DEFINE task == [FreeTask EXCEPT !.pc = "pointer", !.op = "create", !.user = u]
  <2>2. task.left = {} /\ task.pc = "pointer"
    BY DEF FreeTask
  <2>3. tasks' = [tasks EXCEPT ![t] = task]
    BY <2>1
  <2> HIDE DEF task
  <2>4. QED
    BY <1>4, <2>2, <2>3
<1>6. CASE ReadPointer(t) \/ ReadOwn(t) \/ FindOwn(t)
  <2>1. tasks[t].left = {}
    BY <1>1, <1>6 DEF ReadPointer, ReadOwn, FindOwn, LeftFine
  <2>2. \/ tasks' = [tasks EXCEPT ![t] = FreeTask]
        \/ \E pc \in {"body", "record"} : \E key :
             tasks' = [tasks EXCEPT ![t] = [tasks[t] EXCEPT !.pc = pc, !.key = key]]
        \/ tasks' = [tasks EXCEPT ![t] = [tasks[t] EXCEPT !.pc = "body"]]
    BY <1>6 DEF ReadPointer, ReadOwn, FindOwn, Moves
  <2>3. ASSUME NEW pc \in {"body", "record"}, NEW key,
               tasks' = [tasks EXCEPT ![t] = [tasks[t] EXCEPT !.pc = pc, !.key = key]]
        PROVE  FileInv'
    <3> DEFINE task == [tasks[t] EXCEPT !.pc = pc, !.key = key]
    <3>1. task.left = {} /\ task.pc = pc /\ tasks' = [tasks EXCEPT ![t] = task]
      BY <1>1, <2>1, <2>3 DEF Task
    <3> HIDE DEF task
    <3>2. QED
      BY <1>4, <3>1
  <2>4. CASE tasks' = [tasks EXCEPT ![t] = [tasks[t] EXCEPT !.pc = "body"]]
    <3> DEFINE task == [tasks[t] EXCEPT !.pc = "body"]
    <3>1. task.left = {} /\ task.pc = "body" /\ tasks' = [tasks EXCEPT ![t] = task]
      BY <1>1, <2>1, <2>4 DEF Task
    <3> HIDE DEF task
    <3>2. QED
      BY <1>4, <3>1
  <2>5. QED
    BY <1>3, <2>2, <2>3, <2>4
<1>7. CASE ReadAccount(t)
  <2>1. tasks[t].pc = "read" /\ t \in Writers
    BY <1>7 DEF ReadAccount, Writers
  <2>2. \/ tasks' = [tasks EXCEPT ![t] = FreeTask]
        \/ \E copy : tasks' = [tasks EXCEPT ![t] =
                       [tasks[t] EXCEPT !.pc = "write", !.copy = copy, !.left = Writing]]
    BY <1>7 DEF ReadAccount, Moves
  <2>3. ASSUME NEW copy, tasks' = [tasks EXCEPT ![t] =
                           [tasks[t] EXCEPT !.pc = "write", !.copy = copy, !.left = Writing]]
        PROVE  FileInv'
    <3> DEFINE task == [tasks[t] EXCEPT !.pc = "write", !.copy = copy, !.left = Writing]
    <3>1. task.left = Writing /\ task.pc = "write" /\ tasks' = [tasks EXCEPT ![t] = task]
      BY <1>1, <2>3 DEF Task
    <3> HIDE DEF task
    <3>2. Writing \subseteq Left /\ "save" \notin Writing
      BY DEF Writing, Left
    <3>3. QED
      BY <1>2, <2>1, <3>1, <3>2, FileQuiet
  <2>4. QED
    BY <1>3, <2>2, <2>3
<1>8. CASE Acknowledge(t)
  BY <1>3, <1>8 DEF Acknowledge, Moves
<1>9. QED
  BY <1>3, <1>5, <1>6, <1>7, <1>8

LEMMA LoadFileFile ==
  ASSUME AccountSafety, NEW t \in Tasks, LoadFile(t)
  PROVE  FileInv'
<1> DEFINE file == [accounts |-> accounts, first |-> pointer]
           task == [tasks[t] EXCEPT !.left = {"save"}, !.file = file]
<1>1. /\ tasks[t].pc = "write" /\ "load" \in tasks[t].left /\ tasks[t] \in Task /\ LeftFine(t)
      /\ tasks' = [tasks EXCEPT ![t] = task] /\ UNCHANGED <<store, accounts, pointer>>
  BY SafeTypes DEF LoadFile, Moves
<1>2. file.accounts = accounts /\ file.first = pointer
  OBVIOUS
<1> HIDE DEF file
<1>3. task.left = {"save"} /\ task.pc = "write" /\ task.file = file
  BY <1>1 DEF Task
<1> HIDE DEF task
<1>4. task.left \subseteq Left /\ t \in Writers
  BY <1>1, <1>3 DEF LeftFine, Left, Writers
<1>5. QED
  BY <1>1, <1>2, <1>3, <1>4, FileQuiet

(* A request that begins to write beside another loses the exactness. *)
LEMMA BeginsFile ==
  ASSUME AccountSafety, Exact', NEW t \in Tasks, NEW k \in Keys,
         \/ CreateAccount(t)
         \/ \E op \in Changes, value \in Support, source \in Sources : Change(t, k, op, value, source)
  PROVE  FileInv' /\ (CreateAccount(t) => UNCHANGED overlapped)
<1>1. tasks[t] \in Task /\ LeftFine(t) /\ FreeTask.left = {} /\ FreeTask.pc = "free"
  BY SafeTypes DEF FreeTask
<1>2. UNCHANGED <<store, accounts, pointer>> /\ store \in {"redis", "file"}
  BY AccountStoreAssumption DEF CreateAccount, Change, AccountSafety, AccountsInv, AccountsTypeOK
<1>3. store = "file" => overlapped' = {} /\ Writers = {}
  <2>1. store = "file" => overlapped' = {}
    BY <1>2 DEF Exact
  <2>2. store = "file" /\ Writers # {} => k \in overlapped'
    BY DEF CreateAccount, Change, Overlapping
  <2>3. QED
    BY <2>1, <2>2
<1>4. CASE CreateAccount(t)
  <2>1. PICK key, copy : tasks' = [tasks EXCEPT ![t] =
                           [tasks[t] EXCEPT !.pc = "write", !.key = key, !.left = Writing, !.copy = copy]]
    BY <1>4 DEF CreateAccount, Moves
  <2> DEFINE task == [tasks[t] EXCEPT !.pc = "write", !.key = key, !.left = Writing, !.copy = copy]
  <2>2. task.left = Writing /\ task.pc = "write" /\ tasks' = [tasks EXCEPT ![t] = task]
    BY <1>1, <2>1 DEF Task
  <2> HIDE DEF task
  <2>3. Writing \subseteq Left /\ "save" \notin Writing
    BY DEF Writing, Left
  <2>4. FileInv'
    BY <1>2, <1>3, <2>2, <2>3, FileQuiet
  <2>5. UNCHANGED overlapped
    BY <1>2, <1>3, <1>4 DEF CreateAccount
  <2>6. QED
    BY <2>4, <2>5
<1>5. CASE ~CreateAccount(t)
  <2>1. PICK op \in Changes, value \in Support, source \in Sources :
          tasks' = [tasks EXCEPT ![t] = [FreeTask EXCEPT !.pc = "read", !.op = op, !.key = k,
                                                        !.value = value, !.source = source]]
    BY <1>5 DEF Change, Begins
  <2> DEFINE task == [FreeTask EXCEPT !.pc = "read", !.op = op, !.key = k,
                                      !.value = value, !.source = source]
  <2>2. task.left = {} /\ task.pc = "read"
    BY DEF FreeTask
  <2>3. tasks' = [tasks EXCEPT ![t] = task]
    BY <2>1
  <2> HIDE DEF task
  <2>4. FileInv'
    BY <1>2, <1>3, <2>2, <2>3, FileQuiet
  <2>5. QED
    BY <1>5, <2>4
<1>6. QED
  BY <1>4, <1>5

LEMMA ChangesBegin ==
  ASSUME NEW t \in Tasks, NEW k \in Keys,
         \/ Rename(t, k) \/ Provide(t, k) \/ Withdraw(t, k)
         \/ Declare(t, k) \/ Detect(t, k) \/ Attempted(t, k)
  PROVE  \E op \in Changes, value \in Support, source \in Sources : Change(t, k, op, value, source)
BY DEF Rename, Provide, Withdraw, Declare, Detect, Attempted, Changes, Support, Sources

(* What is carried: all of it while the store is exact; afterwards only that in the
   file every account counts as overlapped. *)
KeptExactly ==
  /\ store = "file" => overlapped \in {{}, Keys}
  /\ Exact => KeptInv /\ FileInv

LEMMA ExactBefore ==
  ASSUME AccountsInv, AccountsNext
  PROVE  /\ UNCHANGED store /\ (Exact' => Exact)
         /\ (store = "file" => overlapped \in {{}, Keys}) =>
              (store' = "file" => overlapped' \in {{}, Keys})
<1>1. PICK t \in Tasks :
        \/ UNCHANGED <<store, overlapped>>
        \/ CreateAccount(t)
        \/ \E k \in Keys : \E op \in Changes, value \in Support, source \in Sources :
             Change(t, k, op, value, source)
  BY ChangesBegin DEF AccountsNext, Visit, ReadPointer, ReadOwn, FindOwn, ReadAccount, WriteRecord,
     WritePointer, LoadFile, SaveFile, Acknowledge
<1>2. overlapped \subseteq Keys /\ store \in {"redis", "file"}
  BY AccountStoreAssumption DEF AccountsInv, AccountsTypeOK
<1>3. CASE CreateAccount(t)
  <2>1. UNCHANGED store /\ overlapped' = IF store = "redis" \/ Writers = {} THEN overlapped ELSE Keys
    BY <1>3 DEF CreateAccount
  <2>2. QED
    BY <1>2, <2>1 DEF Exact
<1>4. CASE \E k \in Keys : \E op \in Changes, value \in Support, source \in Sources :
             Change(t, k, op, value, source)
  <2>1. PICK k \in Keys : UNCHANGED store /\ overlapped' = overlapped \cup Overlapping(k)
    BY <1>4 DEF Change
  <2>2. store = "file" => Overlapping(k) \in {{}, Keys}
    BY DEF Overlapping
  <2>3. QED
    BY <1>2, <2>1, <2>2 DEF Exact
<1>5. QED
  BY <1>1, <1>3, <1>4 DEF Exact

LEMMA ExactStep ==
  ASSUME AccountSafety, Exact', AccountsNext
  PROVE  KeptInv' /\ FileInv'
<1>1. PICK t \in Tasks :
        \/ \E u \in Users : Visit(t, u)
        \/ \E k \in Keys :
             \/ Rename(t, k) \/ Provide(t, k) \/ Withdraw(t, k)
             \/ Declare(t, k) \/ Detect(t, k) \/ Attempted(t, k)
        \/ ReadPointer(t) \/ ReadOwn(t) \/ FindOwn(t) \/ CreateAccount(t) \/ ReadAccount(t)
        \/ WriteRecord(t) \/ WritePointer(t) \/ LoadFile(t) \/ SaveFile(t) \/ Acknowledge(t)
  BY DEF AccountsNext
<1>2. CASE \/ \E u \in Users : Visit(t, u)
           \/ ReadPointer(t) \/ ReadOwn(t) \/ FindOwn(t) \/ ReadAccount(t) \/ Acknowledge(t)
  BY <1>2, ReadsFile, VisitSafe, ReadPointerSafe, ReadOwnSafe, FindOwnSafe, ReadAccountSafe,
     AcknowledgeSafe
<1>3. CASE WriteRecord(t) \/ WritePointer(t)
  BY <1>3, RedisWritesFile, WriteRecordSafe, WritePointerSafe
<1>4. CASE LoadFile(t) \/ SaveFile(t)
  BY <1>4, LoadFileFile, SaveFileFile, LoadFileSafe, SaveFileSafe
<1>5. CASE CreateAccount(t)
  <2>1. PICK k \in Keys : TRUE
    BY <1>5 DEF CreateAccount
  <2>2. FileInv' /\ UNCHANGED overlapped
    BY <1>5, BeginsFile
  <2>3. QED
    BY <1>5, <2>2, CreateSafe
<1>6. ASSUME NEW k \in Keys,
             \/ Rename(t, k) \/ Provide(t, k) \/ Withdraw(t, k)
             \/ Declare(t, k) \/ Detect(t, k) \/ Attempted(t, k)
      PROVE  KeptInv' /\ FileInv'
  <2>1. \E op \in Changes, value \in Support, source \in Sources : Change(t, k, op, value, source)
    BY <1>6, ChangesBegin
  <2>2. FileInv'
    BY <2>1, BeginsFile
  <2>3. QED
    BY <1>6, <2>2, ChangesSafe
<1>7. QED
  BY <1>1, <1>2, <1>3, <1>4, <1>5, <1>6

LEMMA KeptStep ==
  TypeInv /\ KeptExactly /\ [Next]_vars => KeptExactly'
<1> SUFFICES ASSUME TypeInv, KeptExactly, [Next]_vars
             PROVE  KeptExactly'
  OBVIOUS
<1>1. AccountsInv
  BY DEF TypeInv, TypeOK, AccountsInv
<1>2. CASE AccountsNext
  <2>1. Exact' => Exact
    BY <1>1, <1>2, ExactBefore
  <2>2. Exact' => KeptInv' /\ FileInv'
    BY <1>1, <1>2, <2>1, ExactStep DEF KeptExactly, AccountSafety
  <2>3. store' = "file" => overlapped' \in {{}, Keys}
    BY <1>1, <1>2, ExactBefore DEF KeptExactly
  <2>4. QED
    BY <2>2, <2>3 DEF KeptExactly
<1>3. CASE UNCHANGED accountVars
  <2>1. Exact' <=> Exact
    BY <1>3 DEF accountVars, Exact
  <2>2. KeptInv => KeptInv'
    BY <1>3 DEF accountVars, KeptInv, TasksFine, TaskSafe, MakerFine, ChangerFine, Grounded, Makes,
                Alters, GrantsInv, ToldInv, Truthful, Declared, Pending
  <2>3. FileInv => FileInv'
    BY <1>3 DEF accountVars, FileInv, LeftFine, Left, Writers
  <2>4. QED
    BY <1>3, <2>1, <2>2, <2>3 DEF KeptExactly, accountVars
<1>4. QED
  BY <1>2, <1>3 DEF Next, AccountsStep, vars

LEMMA KeptInit ==
  Init => KeptExactly
<1> SUFFICES ASSUME Init
             PROVE  KeptExactly
  OBVIOUS
<1>1. /\ \A t \in Tasks : tasks[t] = FreeTask
      /\ \A k \in Keys : /\ accounts[k] = NoAccount
                          /\ told[k] = [name |-> 0, secret |-> 0, declared |-> "none"]
      /\ \A u \in Users : pointer[u] = "none"
      /\ issued = {}
  BY DEF Init, AccountsInit
<1>2. FreeTask.op = "none" /\ FreeTask.pc = "free" /\ FreeTask.key = "none"
  BY DEF FreeTask
<1>3. TasksFine
  BY <1>1, <1>2 DEF TasksFine, TaskSafe, Makes, Changes
<1>4. GrantsInv
  BY <1>1 DEF GrantsInv
<1>5. NoAccount.name = 0 /\ NoAccount.secret = 0
  BY DEF NoAccount
<1>6. \A t \in Tasks, k \in Keys : ~Alters(t, k)
  BY <1>1, <1>2 DEF Alters, Changes
<1>7. ToldInv
  BY <1>1, <1>5, <1>6 DEF ToldInv, Truthful, Declared
<1>8. FileInv
  BY <1>1, <1>2 DEF FileInv, LeftFine, Left, Writers, FreeTask
<1>9. overlapped = {}
  BY DEF Init, AccountsInit
<1>10. QED
  BY <1>3, <1>4, <1>7, <1>8, <1>9 DEF KeptExactly, KeptInv

(* In Redis, whatever visits, changes, probes and attempts overlap and in whatever
   order their writes arrive, no account is lost and none goes to another user; in the
   file the same is true until the first overlap of two writes.  In both an account
   no two changes of which overlapped holds what its owner was told. *)
THEOREM AccountsStay == Spec => []AccountsKept
<1>1. TypeInv /\ KeptExactly => AccountsKept
  <2> SUFFICES ASSUME TypeInv, KeptExactly
               PROVE  AccountsKept
    OBVIOUS
  <2>1. /\ AccountsInv /\ pointer \in [Users -> Keys \cup {"none"}] /\ issued \subseteq Users \X Keys
        /\ overlapped \subseteq Keys /\ store \in {"redis", "file"}
    BY AccountStoreAssumption DEF TypeInv, TypeOK, AccountsInv, AccountsTypeOK
  <2>2. ASSUME Exact, NEW grant \in issued
        PROVE  /\ accounts[grant[2]].there /\ accounts[grant[2]].owner = grant[1]
               /\ (\A t \in Tasks : tasks[t].pc # "write") => <<grant[1], pointer[grant[1]]>> \in issued
    <3>1. PICK u \in Users, k \in Keys : grant = <<u, k>>
      BY <2>1, <2>2
    <3>2. accounts[k].there /\ accounts[k].owner = u /\ pointer[u] # "none"
      BY <2>2, <3>1 DEF KeptExactly, KeptInv, GrantsInv
    <3>3. (\A t \in Tasks : tasks[t].pc # "write") => <<u, pointer[u]>> \in issued
      BY <2>2, <3>2 DEF KeptExactly, KeptInv, GrantsInv, Makes
    <3>4. QED
      BY <3>1, <3>2, <3>3
  <2>3. ASSUME NEW k \in Keys \ overlapped, Changing(k) = {}
        PROVE  /\ accounts[k].name = told[k].name /\ accounts[k].secret = told[k].secret
               /\ told[k].declared # "none" =>
                    accounts[k].capability = [value |-> told[k].declared, source |-> "user"]
    <3>1. Exact
      BY <2>1, <2>3 DEF KeptExactly, Exact
    <3>2. \A t \in Tasks : ~Alters(t, k)
      BY <2>3 DEF Changing, Alters, Changes
    <3>3. Truthful(accounts[k], k)
      BY <3>1, <3>2 DEF KeptExactly, KeptInv, ToldInv
    <3>4. QED
      BY <3>3 DEF Truthful, Declared
  <2>4. QED
    BY <2>2, <2>3 DEF AccountsKept
<1>2. QED
  BY <1>1, KeptInit, KeptStep, TypeInvariant, PTL DEF Spec

=============================================================================

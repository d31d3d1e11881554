------------------------------- MODULE LocalNodes -------------------------------
(***************************************************************************)
(* The router's side of the local nodes: one-time pairing codes, the node  *)
(* records in the shared store with their per-node lock, the requests of   *)
(* paired devices and of owners, and the routing that reads the records.   *)
(* A handler is a slot; between two of its steps anything else may happen. *)
(* The lock is a Redis key that lapses after five seconds even when its    *)
(* holder is only slow; the file store is the case MaxLapses = 0.          *)
(***************************************************************************)
EXTENDS Naturals, FiniteSets

CONSTANTS
  Slots,           \* bound: handlers in flight
  Codes, Nodes,    \* pairing codes, node ids
  MaxCredentials,  \* bound: credentials issued
  MaxLapses,       \* bound: locks lost by a live holder
  MaxFaults        \* bound: crashes, lost answers, failed calls

ASSUME LocalNodesAssumption ==
  /\ IsFiniteSet(Slots) /\ IsFiniteSet(Nodes) /\ IsFiniteSet(Codes)
  /\ "free" \notin Slots /\ "dead" \notin Slots /\ "none" \notin Nodes \cup Codes
  /\ MaxCredentials \in Nat /\ MaxLapses \in Nat /\ MaxFaults \in Nat

VARIABLES
  codes,     \* code -> unused, stored, spent
  aged,      \* the codes whose ten minutes are over
  nodes,     \* node id -> its record
  listed,    \* the owner's index of node ids
  locks,     \* node id -> free, a slot, or dead (its holder crashed)
  slots,     \* slot -> the handler that runs in it
  minted,    \* credentials issued; each is the number it was issued with
  lapses, faults,
  origin     \* history: node id -> the code it was paired with, or none

nodeVars == <<codes, aged, nodes, listed, locks, slots, minted, lapses, faults, origin>>

Credentials == 0..MaxCredentials
DeviceOps == {"heartbeat", "endpoint", "sync", "rotate", "leave"}
OwnerOps == {"settings", "revoke", "delete"}
Callers == {"agent", "cli", "other"}

(* A record, by what authentication and routing read of it: willing stands for
   the owner's switch, a free place and a usable model; heard for the age of the
   last heartbeat.  revokedAt, status and credential.revokedAt are one thing:
   revokeLocalNode is the only writer of the three. *)
Record == [state : {"absent", "live", "revoked"}, endpoint : BOOLEAN,
           cred : Credentials, heard : {"fresh", "late", "old"}, willing : BOOLEAN]

AbsentNode == [state |-> "absent", endpoint |-> FALSE, cred |-> 0,
               heard |-> "old", willing |-> FALSE]

(* Mutant: the effective status is what is stored. *)
NewNodeOffline(cred) == [AbsentNode EXCEPT !.state = "offline", !.cred = cred, !.willing = TRUE]

NewNode(cred) == [AbsentNode EXCEPT !.state = "live", !.cred = cred, !.willing = TRUE]

Phases == {"free", "consumed", "arrived", "admitted", "calling", "waiting", "holding", "done"}

SlotRecord ==
  [pc : Phases, op : DeviceOps \cup OwnerOps \cup {"none", "pair", "test", "attempt", "denied"},
   node : Nodes \cup {"none"}, code : Codes \cup {"none"}, cred : Credentials,
   loaded : Record, caller : Callers,
   reply : {"none", "ok", "unauthorized", "refused", "failed"}]

FreeSlot ==
  [pc |-> "free", op |-> "none", node |-> "none", code |-> "none", cred |-> 0,
   loaded |-> AbsentNode, caller |-> "other", reply |-> "none"]

NodesTypeOK ==
  /\ codes \in [Codes -> {"unused", "stored", "spent"}] /\ aged \subseteq Codes
  /\ nodes \in [Nodes -> Record] /\ listed \subseteq Nodes
  /\ locks \in [Nodes -> Slots \cup {"free", "dead"}]
  /\ slots \in [Slots -> SlotRecord]
  /\ minted \in Credentials /\ lapses \in 0..MaxLapses /\ faults \in 0..MaxFaults
  /\ origin \in [Nodes -> Codes \cup {"none"}]

NodesInit ==
  /\ codes = [c \in Codes |-> "unused"] /\ aged = {}
  /\ nodes = [n \in Nodes |-> AbsentNode] /\ listed = {}
  /\ locks = [n \in Nodes |-> "free"]
  /\ slots = [s \in Slots |-> FreeSlot]
  /\ minted = 0 /\ lapses = 0 /\ faults = 0
  /\ origin = [n \in Nodes |-> "none"]
-----------------------------------------------------------------------------
(* Slots and locks. *)

At(s, pc) == slots[s].pc = pc

(* Slots are alike: a request takes any one that is free. *)
Takes(s) == At(s, "free") /\ s = CHOOSE r \in Slots : At(r, "free")

(* A reply frees the slot, unless somebody modelled waits for it. *)
Answered(me, reply, cred) ==
  IF me.caller = "other" THEN FreeSlot
  ELSE [FreeSlot EXCEPT !.pc = "done", !.op = me.op, !.node = me.node,
                        !.caller = me.caller, !.cred = cred, !.reply = reply]

Replied(s, reply, cred) == [slots EXCEPT ![s] = Answered(@, reply, cred)]

Released(s, n) == IF locks[n] = s THEN [locks EXCEPT ![n] = "free"] ELSE locks

Fault == faults < MaxFaults /\ faults' = faults + 1
-----------------------------------------------------------------------------
(* Pairing.  The code is taken out of the store by one atomic command; only
   then is its age looked at, and only then is the node written. *)

CreateCode(c) ==
  /\ codes[c] = "unused"
  /\ codes' = [codes EXCEPT ![c] = "stored"]
  /\ UNCHANGED <<aged, nodes, listed, locks, slots, minted, lapses, faults, origin>>

AgeCode(c) ==
  /\ codes[c] # "unused" /\ c \notin aged
  /\ codes[c] = "stored" \/ \E s \in Slots : At(s, "consumed") /\ slots[s].code = c
  /\ aged' = aged \cup {c}
  /\ UNCHANGED <<codes, nodes, listed, locks, slots, minted, lapses, faults, origin>>

(* Mutant: the code is read, and only deleted when it is found stale. *)
Kept(c) == IF c \in aged THEN [codes EXCEPT ![c] = "spent"] ELSE codes

Consumed(c) == [codes EXCEPT ![c] = "spent"]

Pair(s, caller, c) ==
  /\ Takes(s) /\ codes[c] = "stored"
  /\ codes' = Consumed(c)
  /\ slots' = [slots EXCEPT ![s] = [FreeSlot EXCEPT !.pc = "consumed", !.op = "pair",
                                                    !.code = c, !.caller = caller]]
  /\ UNCHANGED <<aged, nodes, listed, locks, minted, lapses, faults, origin>>

(* consumePairingCode found nothing. *)
PairUnknown(s, caller, c) ==
  /\ Takes(s) /\ codes[c] # "stored" /\ caller # "other"
  /\ slots' = [slots EXCEPT ![s] = [FreeSlot EXCEPT !.pc = "done", !.op = "pair",
                                      !.caller = caller, !.reply = "refused"]]
  /\ UNCHANGED <<codes, aged, nodes, listed, locks, minted, lapses, faults, origin>>

WriteNode(s) ==
  /\ At(s, "consumed") /\ slots[s].code \notin aged /\ minted < MaxCredentials
  /\ \E n \in Nodes : origin[n] = "none"
  /\ LET fresh == CHOOSE n \in Nodes : origin[n] = "none" IN
       /\ nodes' = [nodes EXCEPT ![fresh] = NewNode(minted + 1)]
       /\ listed' = listed \cup {fresh}
       /\ origin' = [origin EXCEPT ![fresh] = slots[s].code]
       /\ slots' = [slots EXCEPT ![s] = Answered([@ EXCEPT !.node = fresh], "ok", minted + 1)]
  /\ minted' = minted + 1
  /\ UNCHANGED <<codes, aged, locks, lapses, faults>>

RefuseStale(s) ==
  /\ At(s, "consumed") /\ slots[s].code \in aged
  /\ slots' = Replied(s, "refused", 0)
  /\ UNCHANGED <<codes, aged, nodes, listed, locks, minted, lapses, faults, origin>>
-----------------------------------------------------------------------------
(* Requests: a device's starts with its credential, an owner's goes to the lock
   at once, a test and a routed attempt first call the node. *)

Starts(s, pc, op, n, cred, caller) ==
  /\ Takes(s)
  /\ slots' = [slots EXCEPT ![s] = [FreeSlot EXCEPT !.pc = pc, !.op = op, !.node = n,
                                                    !.cred = cred, !.caller = caller]]
  /\ UNCHANGED <<codes, aged, nodes, listed, locks, minted, lapses, faults, origin>>

DeviceCalls(s, caller, op, n, cred) == Starts(s, "arrived", op, n, cred, caller)

OwnerCalls(s, op, n) == Starts(s, "waiting", op, n, 0, "other")

Online(n) == nodes[n].state = "live" /\ nodes[n].heard = "fresh"

(* eligibleLocalNodeProviders: what the router may choose from for one request;
   the provider keeps the endpoint it was listed with. *)
Eligible(n) == n \in listed /\ Online(n) /\ nodes[n].endpoint /\ nodes[n].willing

Testable(n) ==
  /\ nodes[n].state = "live" /\ nodes[n].heard # "old"
  /\ nodes[n].endpoint /\ nodes[n].willing

RoutedTo(s, n) == Eligible(n) /\ Starts(s, "calling", "attempt", n, 0, "other")

(* localNodePlaygroundRequest: the owner's prompt to one model, which counts and
   is recorded like a routed attempt. *)
OwnerPlays(s, n) == Online(n) /\ nodes[n].endpoint /\ RoutedTo(s, n)

OwnerTests(s, n) == Testable(n) /\ Starts(s, "calling", "test", n, 0, "other")

(* authenticateLocalNode reads without the lock.  A wrong credential of a live
   node is counted, under the lock, before the refusal. *)
Authenticate(s) ==
  LET n == slots[s].node
      known == nodes[n].cred = slots[s].cred
  IN
  /\ At(s, "arrived")
  /\ \/ /\ nodes[n].state = "live" /\ known
        /\ slots' = [slots EXCEPT ![s].pc =
                       IF slots[s].op = "endpoint" THEN "admitted" ELSE "waiting"]
     \/ /\ nodes[n].state = "live" /\ ~known
        /\ slots' = [slots EXCEPT ![s].op = "denied", ![s].pc = "waiting"]
     \/ /\ nodes[n].state # "live"
        /\ slots' = Replied(s, "unauthorized", 0)
  /\ UNCHANGED <<codes, aged, nodes, listed, locks, minted, lapses, faults, origin>>

(* registerLocalNodeEndpoint reads the record again, then asks the tunnel for
   its health; the answer is awaited for up to ten seconds. *)
Admit(s) ==
  /\ At(s, "admitted")
  /\ slots' = IF nodes[slots[s].node].state = "live"
              THEN [slots EXCEPT ![s].pc = "calling"]
              ELSE Replied(s, "refused", 0)
  /\ UNCHANGED <<codes, aged, nodes, listed, locks, minted, lapses, faults, origin>>

NodeAnswers(s) ==
  /\ At(s, "calling")
  /\ slots' = [slots EXCEPT ![s].pc = "waiting"]
  /\ UNCHANGED <<codes, aged, nodes, listed, locks, minted, lapses, faults, origin>>

(* No health, or no answer to a test: nothing is stored.  A routed attempt that
   fails is recorded like one that succeeds. *)
NodeFails(s) ==
  /\ At(s, "calling") /\ slots[s].op \in {"endpoint", "test"} /\ Fault
  /\ slots' = Replied(s, "refused", 0)
  /\ UNCHANGED <<codes, aged, nodes, listed, locks, minted, lapses, origin>>
-----------------------------------------------------------------------------
(* updateStoredLocalNode and deleteStoredLocalNode: lock, get, change, set,
   unlock. *)

Acquire(s) ==
  LET n == slots[s].node IN
  /\ At(s, "waiting") /\ locks[n] = "free"
  /\ IF nodes[n].state = "absent"
     THEN /\ slots' = Replied(s, IF slots[s].op = "denied" THEN "unauthorized" ELSE "refused", 0)
          /\ UNCHANGED locks
     ELSE /\ slots' = [slots EXCEPT ![s].pc = "holding", ![s].loaded = nodes[n]]
          /\ locks' = [locks EXCEPT ![n] = s]
  /\ UNCHANGED <<codes, aged, nodes, listed, minted, lapses, faults, origin>>

Revoked(loaded) == [loaded EXCEPT !.state = "revoked", !.endpoint = FALSE]

LiveOps == {"heartbeat", "sync", "settings", "endpoint", "rotate", "test", "attempt", "denied"}

(* A model's health (test, attempt) and the count of wrong credentials are not
   part of Record. *)
Renewed(op, loaded, willing, cred) ==
  CASE op = "heartbeat" -> [loaded EXCEPT !.heard = "fresh", !.willing = willing]
    [] op \in {"sync", "settings"} -> [loaded EXCEPT !.willing = willing]
    [] op = "endpoint" -> [loaded EXCEPT !.endpoint = TRUE]
    [] op = "rotate" -> [loaded EXCEPT !.cred = cred]
    [] op \in {"test", "attempt", "denied"} -> loaded

(* Mutant: the registration does not look at the record it loaded. *)
UpdatedUnchecked(op, loaded, willing, cred) ==
  CASE op = "delete" -> AbsentNode
    [] op \in {"revoke", "leave"} -> Revoked(loaded)
    [] op = "endpoint" -> [loaded EXCEPT !.endpoint = TRUE]
    [] op \in LiveOps \ {"endpoint"} ->
         IF loaded.state = "revoked" THEN loaded ELSE Renewed(op, loaded, willing, cred)

(* What each mutation makes of the record it loaded.  All but revocation leave a
   revoked record alone. *)
Updated(op, loaded, willing, cred) ==
  CASE op = "delete" -> AbsentNode
    [] op \in {"revoke", "leave"} -> Revoked(loaded)
    [] op \in LiveOps ->
         IF loaded.state = "revoked" THEN loaded ELSE Renewed(op, loaded, willing, cred)

Store(s) ==
  LET n == slots[s].node
      op == slots[s].op
      loaded == slots[s].loaded
      issues == op = "rotate" /\ loaded.state = "live"
  IN
  /\ At(s, "holding")
  /\ issues => minted < MaxCredentials
  /\ minted' = IF issues THEN minted + 1 ELSE minted
  /\ \E willing \in IF op \in {"heartbeat", "sync", "settings"} THEN BOOLEAN ELSE {TRUE} :
       nodes' = [nodes EXCEPT ![n] = Updated(op, loaded, willing, minted')]
  /\ listed' = IF op = "delete" THEN listed \ {n} ELSE listed
  /\ locks' = Released(s, n)
  /\ slots' = CASE op = "denied" -> Replied(s, "unauthorized", 0)
                [] op = "rotate" /\ ~issues -> Replied(s, "refused", 0)
                [] OTHER -> Replied(s, "ok", IF issues THEN minted' ELSE slots[s].cred)
  /\ UNCHANGED <<codes, aged, lapses, faults, origin>>

(* Fifty tries, twenty milliseconds apart. *)
LockTimesOut(s) ==
  /\ At(s, "waiting") /\ locks[slots[s].node] # "free"
  /\ slots' = Replied(s, "failed", 0)
  /\ UNCHANGED <<codes, aged, nodes, listed, locks, minted, lapses, faults, origin>>
-----------------------------------------------------------------------------
(* Time and failures. *)

(* The lock's five seconds end while its holder is still between get and set. *)
Lapse(s) ==
  /\ At(s, "holding") /\ locks[slots[s].node] = s /\ lapses < MaxLapses
  /\ locks' = [locks EXCEPT ![slots[s].node] = "free"]
  /\ lapses' = lapses + 1
  /\ UNCHANGED <<codes, aged, nodes, listed, slots, minted, faults, origin>>

(* A handler ends with its process. *)
Crash(s) ==
  /\ ~At(s, "free") /\ ~At(s, "done") /\ Fault
  /\ locks' = [n \in Nodes |-> IF locks[n] = s THEN "dead" ELSE locks[n]]
  /\ slots' = Replied(s, "failed", 0)
  /\ UNCHANGED <<codes, aged, nodes, listed, minted, lapses, origin>>

DeadLockExpires(n) ==
  /\ locks[n] = "dead"
  /\ locks' = [locks EXCEPT ![n] = "free"]
  /\ UNCHANGED <<codes, aged, nodes, listed, slots, minted, lapses, faults, origin>>

(* effectiveLocalNodeStatus: online for 45 seconds after a heartbeat, unstable
   for another 45, then offline. *)
Older == [fresh |-> "late", late |-> "old", old |-> "old"]

Age(n) ==
  /\ nodes[n].state = "live" /\ nodes[n].heard # "old"
  /\ nodes' = [nodes EXCEPT ![n].heard = Older[@]]
  /\ slots' = [s \in Slots |-> IF At(s, "holding") /\ slots[s].node = n
                               THEN [slots[s] EXCEPT !.loaded.heard = Older[@]]
                               ELSE slots[s]]
  /\ UNCHANGED <<codes, aged, listed, locks, minted, lapses, faults, origin>>

Serve(s) ==
  \/ WriteNode(s) \/ Authenticate(s) \/ Admit(s) \/ NodeAnswers(s)
  \/ Acquire(s) \/ Store(s) \/ LockTimesOut(s)

HandlersNext ==
  \/ \E s \in Slots : Serve(s) \/ NodeFails(s) \/ Crash(s)
  \/ \E n \in Nodes : DeadLockExpires(n)

NodesNext ==
  \/ HandlersNext
  \/ \E s \in Slots : RefuseStale(s)
  \/ \E c \in Codes : AgeCode(c)
  \/ \E s \in Slots : Lapse(s)
  \/ \E n \in Nodes : Age(n)

NodesFairness ==
  /\ \A s \in Slots : WF_nodeVars(Serve(s)) /\ WF_nodeVars(RefuseStale(s))
  /\ \A n \in Nodes : WF_nodeVars(DeadLockExpires(n))
-----------------------------------------------------------------------------
(* A pairing code pairs at most one node, however many pairings it is sent to at
   the same time, and every node and credential comes from a code that was taken
   out of the store (pairLocalNode, consumePairingCode). *)
CodePairsOnce ==
  /\ \A m, n \in Nodes : origin[m] = origin[n] /\ origin[m] # "none" => m = n
  /\ \A n \in Nodes :
       /\ nodes[n].state # "absent" => origin[n] # "none"
       /\ origin[n] # "none" => codes[origin[n]] = "spent"

(* As long as no lock was lost by a slow holder, nothing gives a revoked node its
   life, an endpoint or another credential back, nor a deleted node its record:
   not a registration that was waiting for the tunnel's health, a heartbeat, a
   rotation, an attempt or a test that began before (revokeLocalNode,
   registerLocalNodeEndpoint, updateStoredLocalNode). *)
RevocationHolds ==
  [][\A n \in Nodes :
       lapses' = 0 /\ origin[n] # "none" /\ nodes[n].state # "live" =>
         /\ nodes'[n].state \in {nodes[n].state, "absent"}
         /\ ~nodes'[n].endpoint /\ nodes'[n].cred \in {nodes[n].cred, 0}]_nodeVars
=============================================================================

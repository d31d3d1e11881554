------------------------------ MODULE ControlPlane ------------------------------
(***************************************************************************)
(* Accounts, local nodes and the owner's machine.  A behaviour is about one *)
(* of three things: the accounts; the router's nodes under the traffic of   *)
(* any devices, owners and routed requests; or one machine with its agent   *)
(* and commands, while its owner may revoke or delete the node; or a longer *)
(* run of commands on that machine alone.  Accounts and nodes share no      *)
(* state, so interleaving them shows nothing more.                          *)
(***************************************************************************)
EXTENDS AgentRun, AccountStore

CONSTANTS
  Subjects,
  Scope         \* bounds, per subject: requests of callers other than the machine,
                \* commands typed, faults

ASSUME ScopeAssumption ==
  Scope \in [Subjects -> [traffic : Nat, commands : Nat, faults : Nat]]

VARIABLES subject, traffic

vars == <<nodeVars, machineVars, accountVars, subject, traffic>>

Init ==
  /\ NodesInit /\ MachineInit /\ AccountsInit
  /\ subject \in Subjects /\ traffic = 0
  /\ subject # "accounts" => store = CHOOSE s \in Stores : TRUE   \* makes no difference there

TypeOK ==
  /\ NodesTypeOK /\ MachineTypeOK /\ AccountsTypeOK
  /\ subject \in Subjects /\ traffic \in 0..Scope[subject].traffic

Request == traffic < Scope[subject].traffic /\ traffic' = traffic + 1

(* What owners, devices and routed requests may send at any time. *)
NodeTraffic ==
  /\ subject = "nodes" /\ Request
  /\ \E s \in Slots :
       \/ \E c \in Codes : Pair(s, "other", c)
       \/ \E n \in Nodes :
            \/ \E op \in DeviceOps, cred \in 1..minted : DeviceCalls(s, "other", op, n, cred)
            \/ \E op \in OwnerOps : OwnerCalls(s, op, n)
            \/ RoutedTo(s, n) \/ OwnerPlays(s, n) \/ OwnerTests(s, n)
  /\ UNCHANGED <<machineVars>>

(* The dashboard beside one machine. *)
OwnerTraffic ==
  /\ subject = "machine" /\ Request
  /\ \E s \in Slots, n \in listed, op \in {"revoke", "delete"} : OwnerCalls(s, op, n)
  /\ UNCHANGED <<machineVars>>

(* A heartbeat's age and a lost lock are only of interest under the traffic. *)
NodesStep ==
  /\ \/ subject = "nodes" /\ NodesNext
     \/ subject \in {"machine", "commands"} /\ HandlersNext
     \/ subject # "accounts" /\ \E c \in Codes : CreateCode(c)
  /\ UNCHANGED <<machineVars, traffic>>

MachineStep ==
  /\ subject \in {"machine", "commands"} /\ MachineNext
  /\ commands' <= Scope[subject].commands
  /\ UNCHANGED traffic

AccountsStep ==
  /\ subject = "accounts" /\ AccountsNext
  /\ UNCHANGED <<nodeVars, machineVars, traffic>>

Next ==
  /\ UNCHANGED subject
  /\ \/ AccountsStep
     \/ (NodeTraffic \/ OwnerTraffic \/ NodesStep \/ MachineStep) /\ UNCHANGED accountVars
  /\ faults' <= Scope[subject].faults

Spec == Init /\ [][Next]_vars /\ NodesFairness /\ MachineFairness
=============================================================================

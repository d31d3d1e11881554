-------------------------------- MODULE AgentRun --------------------------------
(***************************************************************************)
(* The owner's machine: the agent process (runLocalNode: its loop, its     *)
(* tunnel, and stop(), which a signal runs beside the loop), the config    *)
(* file both the agent and the commands write, and the command line.  Its  *)
(* requests to the router are those of LocalNodes.  The device credential  *)
(* is kept in the config, as on Windows and where no keyring answers; the  *)
(* server that listens for prompts is LocalAgent.                          *)
(***************************************************************************)
EXTENDS LocalNodes

CONSTANT MaxCommands  \* bound: commands typed

ASSUME AgentRunAssumption == MaxCommands \in Nat

VARIABLES
  agent,     \* the agent process
  ngrok,     \* the tunnel to the agent's port: none, own (its child), foreign
  conf,      \* the config file
  cli,       \* the command that runs
  commands   \* commands typed so far

machineVars == <<agent, ngrok, conf, cli, commands>>
allVars == <<nodeVars, machineVars>>

Pids == 0..MaxCommands

(* The part of LocalAgentConfig that matters here; pid 0 is "no agentPid". *)
Config == [there : BOOLEAN, node : Nodes \cup {"none"}, cred : Credentials, pid : Pids]

NoConfig == [there |-> FALSE, node |-> "none", cred |-> 0, pid |-> 0]

LoopPhases == {"off", "starting", "stranded", "head", "observe", "connect", "spawned", "register", "reregister",
               "beat", "asked register", "asked reregister", "asked beat", "rest",
               "stopping", "left", "killed"}

Agent ==
  [pc : LoopPhases, pid : Pids, config : Config,
   stop : {"no", "server", "save", "done"},  \* stop(): not begun, or what it does next
   termed : BOOLEAN,                         \* it has no SIGTERM listener (any more)
   listening : BOOLEAN,
   handle : {"none", "adopted", "own"},      \* the loop's tunnel
   found : LoopPhases]      \* history: where stop() found the loop

NoAgent == [pc |-> "off", pid |-> 0, config |-> NoConfig, stop |-> "no", termed |-> FALSE,
            listening |-> FALSE, handle |-> "none", found |-> "off"]

Commands == {"connect", "disconnect", "revoke", "rotate", "sync"}

Cli == [pc : {"idle", "ask", "asked", "await exit", "save", "delete"},
        op : Commands \cup {"none"}, copy : Config]

NoCommand == [pc |-> "idle", op |-> "none", copy |-> NoConfig]

MachineTypeOK ==
  /\ agent \in Agent /\ ngrok \in {"none", "own", "foreign"}
  /\ conf \in Config /\ cli \in Cli /\ commands \in 0..MaxCommands

MachineInit ==
  /\ agent = NoAgent /\ ngrok = "none" /\ conf = NoConfig
  /\ cli = NoCommand /\ commands = 0
-----------------------------------------------------------------------------
(* The process.  One whose loop has ended lives on while stop() or a child
   does. *)

Stopped == agent.stop # "no"

Alive ==
  /\ agent.pc \notin {"off", "killed"}
  /\ ~(agent.pc = "left" /\ agent.stop = "done" /\ ngrok # "own")

(* free-llm start refuses while the process of the saved pid is alive and forgets
   that pid otherwise; the agent listens before its own is saved. *)
StartAgent ==
  /\ commands < MaxCommands /\ commands' = commands + 1
  /\ conf.there
  /\ agent.pc = "off" \/ (agent.pc = "left" /\ agent.stop = "done")
  /\ ~(Alive /\ conf.pid = agent.pid)
  /\ conf' = [conf EXCEPT !.pid = 0]
  /\ agent' = [NoAgent EXCEPT !.pc = "starting", !.pid = commands', !.termed = TRUE,
                              !.config = [conf EXCEPT !.pid = commands'], !.listening = TRUE]
  /\ ngrok' = IF ngrok = "none" THEN "none" ELSE "foreign"
  /\ UNCHANGED <<nodeVars, cli>>

(* The signals are listened to from here on.  If the config cannot be saved, the
   rejected command sets an exit code only: the server keeps the process alive. *)
AgentStarts ==
  /\ agent.pc = "starting"
  /\ agent' = [agent EXCEPT !.pc = "head", !.termed = FALSE]
  /\ conf' = agent.config
  /\ UNCHANGED <<nodeVars, ngrok, cli, commands>>

StartFails ==
  /\ agent.pc = "starting" /\ Fault
  /\ agent' = [agent EXCEPT !.pc = "stranded"]
  /\ UNCHANGED <<codes, aged, nodes, listed, locks, slots, minted, lapses, origin,
                 ngrok, conf, cli, commands>>

(* tunnel.close() kills the child; the handle of an adopted tunnel does nothing. *)
Closed(handle) == IF handle = "own" /\ ngrok = "own" THEN "none" ELSE ngrok

(* stop() takes the handle as it is now and closes it; the rest follows. *)
Stopping(a) == [a EXCEPT !.stop = "server", !.found = a.pc]

(* await stop() in the loop: nothing to wait for if it has begun before. *)
StopAndLeave(a) ==
  IF a.stop = "no" THEN [Stopping(a) EXCEPT !.pc = "stopping"] ELSE [a EXCEPT !.pc = "left"]

StopServer ==
  /\ agent.stop = "server"
  /\ agent' = [agent EXCEPT !.stop = "save", !.listening = FALSE]
  /\ UNCHANGED <<nodeVars, ngrok, conf, cli, commands>>

StopSave ==
  /\ agent.stop = "save"
  /\ agent' = [agent EXCEPT !.stop = "done", !.config.pid = 0]
  /\ conf' = agent'.config
  /\ UNCHANGED <<nodeVars, ngrok, cli, commands>>

Orphaned == IF ngrok = "own" THEN "foreign" ELSE ngrok

(* SIGTERM to the process of this pid: stop() once, the default action after. *)
Terminated(pid) ==
  IF pid = 0 \/ pid # agent.pid \/ ~Alive THEN UNCHANGED <<agent, ngrok>>
  ELSE IF agent.termed
       THEN /\ agent' = [NoAgent EXCEPT !.pc = "killed"]
            /\ ngrok' = Orphaned
       ELSE /\ agent' = [(IF Stopped THEN agent ELSE Stopping(agent)) EXCEPT !.termed = TRUE]
            /\ ngrok' = IF Stopped THEN ngrok ELSE Closed(agent.handle)

(* Nobody waits for the answers to a dead process. *)
Disconnected ==
  [s \in Slots |-> IF slots[s].caller # "agent" THEN slots[s]
                   ELSE IF At(s, "done") THEN FreeSlot ELSE [slots[s] EXCEPT !.caller = "other"]]

AgentDies ==
  /\ Alive /\ Fault
  /\ agent' = NoAgent /\ ngrok' = Orphaned
  /\ slots' = Disconnected
  /\ UNCHANGED <<codes, aged, nodes, listed, locks, minted, lapses, origin, conf, cli, commands>>

AgentKilled ==
  /\ agent.pc = "killed"
  /\ agent' = NoAgent
  /\ slots' = Disconnected
  /\ UNCHANGED <<codes, aged, nodes, listed, locks, minted, lapses, faults, origin,
                 ngrok, conf, cli, commands>>

TunnelDies ==
  /\ ngrok # "none" /\ agent.pc # "spawned" /\ Fault
  /\ ngrok' = "none"
  /\ UNCHANGED <<codes, aged, nodes, listed, locks, slots, minted, lapses, origin,
                 agent, conf, cli, commands>>
-----------------------------------------------------------------------------
(* The loop of runLocalNode.  Only its head looks at stopped. *)

Goes(pc) == agent' = [agent EXCEPT !.pc = pc]

Head ==
  /\ agent.pc = "head"
  /\ Goes(IF Stopped THEN "left" ELSE IF agent.handle = "none" THEN "connect" ELSE "observe")
  /\ UNCHANGED <<nodeVars, ngrok, conf, cli, commands>>

Observe ==
  /\ agent.pc = "observe"
  /\ \/ /\ ngrok = "none" \/ (agent.handle = "own" /\ ngrok = "foreign")
        /\ agent' = [agent EXCEPT !.pc = "connect", !.handle = "none"]
        /\ ngrok' = Closed(agent.handle)
        /\ UNCHANGED <<conf, faults>>
     \/ /\ ngrok # "none" /\ ~(agent.handle = "own" /\ ngrok = "foreign")
        /\ Goes("beat")
        /\ UNCHANGED <<ngrok, conf, faults>>
     \/ /\ ngrok # "none" /\ Fault     \* the tunnel has another address
        /\ Goes("reregister")
        /\ conf' = agent.config
        /\ UNCHANGED ngrok
  /\ UNCHANGED <<codes, aged, nodes, listed, locks, slots, minted, lapses, origin, cli, commands>>

(* startOrConnectNgrok: a tunnel to the port is adopted, otherwise one is
   spawned and waited for. *)
Adopt ==
  /\ agent.pc = "connect" /\ ngrok # "none"
  /\ agent' = [agent EXCEPT !.pc = "register", !.handle = "adopted"]
  /\ conf' = agent.config
  /\ UNCHANGED <<nodeVars, ngrok, cli, commands>>

Spawn ==
  /\ agent.pc = "connect" /\ ngrok = "none"
  /\ Goes("spawned")
  /\ ngrok' = "own"
  /\ UNCHANGED <<nodeVars, conf, cli, commands>>

TunnelOpens ==
  /\ agent.pc = "spawned"
  /\ agent' = [agent EXCEPT !.pc = "register", !.handle = "own"]
  /\ conf' = agent.config
  /\ UNCHANGED <<nodeVars, ngrok, cli, commands>>

(* ngrok cannot be started, exits or has no address within twenty seconds, as often
   as it likes. *)
TunnelFails ==
  /\ agent.pc = "spawned"
  /\ Goes("rest")
  /\ ngrok' = "none"
  /\ UNCHANGED <<nodeVars, conf, cli, commands>>

(* registerAgentEndpoint and sendLocalNodeHeartbeat. *)
Asked == [register |-> "asked register", reregister |-> "asked reregister",
          beat |-> "asked beat"]

Awaiting == {"asked register", "asked reregister", "asked beat"}

AgentAsks(s) ==
  /\ agent.pc \in {"register", "reregister", "beat"}
  /\ DeviceCalls(s, "agent", IF agent.pc = "beat" THEN "heartbeat" ELSE "endpoint",
                 agent.config.node, agent.config.cred)
  /\ Goes(Asked[agent.pc])
  /\ UNCHANGED <<ngrok, conf, cli, commands>>

(* Mutant: the handle is forgotten without closing the tunnel. *)
RegistrationForgets(reply) ==
  LET a == [agent EXCEPT !.handle = "none"] IN
  /\ agent' = IF reply = "unauthorized" THEN StopAndLeave(a) ELSE [a EXCEPT !.pc = "rest"]
  /\ UNCHANGED <<ngrok, conf>>

(* The catch of the tunnel's try: close, forget, and stop if revoked. *)
RegistrationFailed(reply) ==
  LET a == [agent EXCEPT !.handle = "none"] IN
  /\ ngrok' = Closed(agent.handle)
  /\ agent' = IF reply = "unauthorized" THEN StopAndLeave(a) ELSE [a EXCEPT !.pc = "rest"]
  /\ UNCHANGED conf

(* Outside every try: the exception ends the loop through its finally. *)
ReregistrationFailed ==
  /\ agent' = StopAndLeave(agent)
  /\ ngrok' = IF Stopped THEN ngrok ELSE Closed(agent.handle)
  /\ UNCHANGED conf

(* Mutant: a revoked credential is taken for a router that is away. *)
HeartbeatRetried(reply) == Goes("rest") /\ UNCHANGED <<ngrok, conf>>

HeartbeatFailed(reply) ==
  IF reply = "unauthorized" THEN ReregistrationFailed
  ELSE Goes("rest") /\ UNCHANGED <<ngrok, conf>>

(* What the loop makes of an answer; a heartbeat's is saved to the config.  Behind
   a changed address it looks once more whether its child is still there. *)
Accepted ==
  /\ agent' = CASE agent.pc = "asked beat" -> [agent EXCEPT !.pc = "rest"]
                [] agent.pc = "asked reregister" /\ agent.handle = "own" /\ ngrok # "own" ->
                     [agent EXCEPT !.pc = "connect", !.handle = "none"]
                [] OTHER -> [agent EXCEPT !.pc = "beat"]
  /\ conf' = IF agent.pc = "asked beat" THEN agent.config ELSE conf
  /\ UNCHANGED ngrok

Failed(reply) ==
  \/ agent.pc = "asked register" /\ RegistrationFailed(reply)
  \/ agent.pc = "asked reregister" /\ ReregistrationFailed
  \/ agent.pc = "asked beat" /\ HeartbeatFailed(reply)

AgentHears(s) ==
  /\ slots[s].caller = "agent" /\ agent.pc \in Awaiting
  /\ \/ /\ At(s, "done")
        /\ IF slots[s].reply = "ok" THEN Accepted ELSE Failed(slots[s].reply)
        /\ slots' = [slots EXCEPT ![s] = FreeSlot]
        /\ UNCHANGED faults
     \/ /\ ~At(s, "done") /\ Fault     \* the connection breaks or times out
        /\ Failed("failed")
        /\ slots' = [slots EXCEPT ![s].caller = "other"]
  /\ UNCHANGED <<codes, aged, nodes, listed, locks, minted, lapses, origin, cli, commands>>

(* Twenty seconds after a heartbeat, five after a failure. *)
Rest ==
  /\ agent.pc = "rest"
  /\ Goes("head")
  /\ UNCHANGED <<nodeVars, ngrok, conf, cli, commands>>

Leave ==
  /\ agent.pc = "stopping" /\ agent.stop = "done"
  /\ Goes("left")
  /\ UNCHANGED <<nodeVars, ngrok, conf, cli, commands>>
-----------------------------------------------------------------------------
(* The commands: each loads the config once and goes on with that copy. *)

Types(op, pc) ==
  /\ cli.pc = "idle" /\ commands < MaxCommands
  /\ commands' = commands + 1
  /\ cli' = [pc |-> pc, op |-> op, copy |-> conf]

Connect(s, c) ==
  /\ ~conf.there
  /\ Types("connect", "asked")
  /\ Pair(s, "cli", c) \/ PairUnknown(s, "cli", c)
  /\ UNCHANGED <<agent, ngrok, conf>>

Disconnect ==
  /\ conf.there
  /\ Types("disconnect", "save")
  /\ Terminated(conf.pid)
  /\ UNCHANGED <<nodeVars, conf>>

DisconnectSaves ==
  /\ cli.op = "disconnect" /\ cli.pc = "save"
  /\ conf' = [cli.copy EXCEPT !.pid = 0]
  /\ cli' = NoCommand
  /\ UNCHANGED <<nodeVars, agent, ngrok, commands>>

RevokeOrSync ==
  /\ conf.there
  /\ \E op \in {"revoke", "sync"} : Types(op, "ask")
  /\ UNCHANGED <<nodeVars, agent, ngrok, conf>>

(* The credential is only rotated once the agent's process is gone. *)
Rotate ==
  /\ conf.there
  /\ Types("rotate", IF conf.pid = 0 THEN "ask" ELSE "await exit")
  /\ Terminated(conf.pid)
  /\ UNCHANGED <<nodeVars, conf>>

AgentGone ==
  /\ cli.pc = "await exit"
  /\ cli' = IF Alive /\ cli.copy.pid = agent.pid
            THEN NoCommand     \* five seconds are over
            ELSE [cli EXCEPT !.pc = "ask", !.copy = IF conf.there THEN conf ELSE @]
  /\ UNCHANGED <<nodeVars, agent, ngrok, conf, commands>>

CliAsks(s) ==
  /\ cli.pc = "ask"
  /\ DeviceCalls(s, "cli", [revoke |-> "leave", rotate |-> "rotate", sync |-> "sync"][cli.op],
                 cli.copy.node, cli.copy.cred)
  /\ cli' = [cli EXCEPT !.pc = "asked"]
  /\ UNCHANGED <<agent, ngrok, conf, commands>>

CliSucceeds(reply) ==
  \/ /\ cli.op = "connect"
     /\ conf' = [there |-> TRUE, node |-> reply.node, cred |-> reply.cred, pid |-> 0]
     /\ cli' = NoCommand /\ UNCHANGED <<agent, ngrok>>
  \/ /\ cli.op = "rotate"
     /\ conf' = [cli.copy EXCEPT !.cred = reply.cred]
     /\ cli' = NoCommand /\ UNCHANGED <<agent, ngrok>>
  \/ /\ cli.op = "sync"
     /\ conf' = cli.copy
     /\ cli' = NoCommand /\ UNCHANGED <<agent, ngrok>>
  \/ /\ cli.op = "revoke"
     /\ Terminated(cli.copy.pid)
     /\ cli' = [cli EXCEPT !.pc = "delete"] /\ UNCHANGED conf

CliHears(s) ==
  /\ slots[s].caller = "cli" /\ cli.pc = "asked"
  /\ \/ /\ At(s, "done")
        /\ IF slots[s].reply = "ok" \/ (cli.op = "revoke" /\ slots[s].reply = "unauthorized")
           THEN CliSucceeds(slots[s])
           ELSE cli' = NoCommand /\ UNCHANGED <<agent, ngrok, conf>>
        /\ slots' = [slots EXCEPT ![s] = FreeSlot]
        /\ UNCHANGED faults
     \/ /\ ~At(s, "done") /\ Fault     \* the connection breaks or times out
        /\ cli' = NoCommand /\ UNCHANGED <<agent, ngrok, conf>>
        /\ slots' = [slots EXCEPT ![s].caller = "other"]
  /\ UNCHANGED <<codes, aged, nodes, listed, locks, minted, lapses, origin, commands>>

RevokeDeletes ==
  /\ cli.op = "revoke" /\ cli.pc = "delete"
  /\ conf' = NoConfig
  /\ cli' = NoCommand
  /\ UNCHANGED <<nodeVars, agent, ngrok, commands>>
-----------------------------------------------------------------------------
Loop ==
  \/ AgentStarts \/ Head \/ Observe \/ Adopt \/ Spawn \/ TunnelOpens \/ TunnelFails
  \/ Rest \/ Leave \/ AgentKilled
  \/ \E s \in Slots : AgentAsks(s) \/ AgentHears(s)

CommandGoesOn ==
  \/ DisconnectSaves \/ AgentGone \/ RevokeDeletes
  \/ \E s \in Slots : CliAsks(s) \/ CliHears(s)

MachineNext ==
  \/ Loop \/ StopServer \/ StopSave \/ CommandGoesOn
  \/ StartAgent \/ Disconnect \/ RevokeOrSync \/ Rotate
  \/ \E s \in Slots, c \in Codes : Connect(s, c)
  \/ StartFails \/ AgentDies \/ TunnelDies

(* The processes run, timers fire, every request is answered or times out, and a
   tunnel that is being opened opens or fails. *)
MachineFairness ==
  /\ WF_allVars(Loop) /\ WF_allVars(StopServer) /\ WF_allVars(StopSave)
  /\ WF_allVars(CommandGoesOn)
-----------------------------------------------------------------------------
(* When the loop and stop() are over, nobody listens on the port, and a tunnel of
   this process is left only if stop() found the loop where it opens one or may
   still open one, looking at the tunnel it had: a signal at any other moment, or a
   refusal, closes it (runLocalNode looks at stopped at the head of the loop only). *)
CleanExit ==
  agent.pc = "left" /\ agent.stop = "done" =>
    /\ ~agent.listening
    /\ ngrok = "own" => agent.found \in {"connect", "spawned", "observe", "reregister",
                                         "asked reregister"}

ListensInVain ==
  /\ agent.listening /\ agent.config.node \in Nodes
  /\ nodes[agent.config.node].state # "live"

(* The agent of a node that was revoked or deleted stops listening by itself: its
   next heartbeat or registration is refused (runLocalNode, credentialWasRevoked).
   Two things must not happen: ngrok failing for ever, behind which the loop never
   asks the router, and a start whose config could not be saved, which left a server
   without a loop. *)
RevokedAgentStops ==
  <>[][~TunnelFails]_allVars => []<>(ListensInVain => agent.pc = "stranded")
=============================================================================

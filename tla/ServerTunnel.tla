------------------------------ MODULE ServerTunnel ------------------------------
(***************************************************************************)
(* The public tunnel of one server, over its lifecycle. Once a JVM is        *)
(* attached, an agent is brought up over the network, off the start path;    *)
(* when it is up its stop handle goes into the entry (playit_stop), and       *)
(* whoever ends the run stops it. The switch (set_server_tunnel) brings an    *)
(* agent up, or stops the one in the entry, while the server runs.            *)
(***************************************************************************)
EXTENDS ServerLifecycle

CONSTANTS
    MaxAgents,    \* agents alive at once (bound)
    MaxSwitches   \* times the user turns the tunnel off or on (bound)

ASSUME BoundsAssumption == MaxAgents \in Nat /\ MaxSwitches \in Nat

VARIABLES
    enabled,   \* mserve.json tunnel_enabled
    wants,     \* the tunnel_enabled a start read when it began
    agent,     \* the agents: not running, coming up, or up, and for which run
    held,      \* the agent whose stop handle the entry holds, 0 if none
    switch,    \* where set_server_tunnel is (it runs on the main thread: one)
    switches   \* how often it was called

tunnelVars == <<enabled, wants, agent, held, switch, switches>>
tunnelledVars == <<vars, tunnelVars>>

Agents   == 1..MaxAgents
NoAgent  == [stage |-> "none", run |-> 0]
Switches == [step : {"idle", "on", "off"}, run : {0}] \union [step : {"launch"}, run : Gens]

TunnelTypeOK ==
    /\ enabled \in BOOLEAN
    /\ wants \in [Threads -> BOOLEAN]
    /\ agent \in [Agents -> {NoAgent} \union [stage : {"starting", "up"}, run : Gens]]
    /\ held \in Agents \union {0}
    /\ switch \in Switches
    /\ switches \in 0..MaxSwitches

TunnelInit ==
    /\ Init
    /\ enabled \in BOOLEAN
    /\ wants = [t \in Threads |-> FALSE]
    /\ agent = [a \in Agents |-> NoAgent]
    /\ held = 0
    /\ switch = [step |-> "idle", run |-> 0]
    /\ switches = 0

--------------------------------------------------------------------------------
(* Agents. *)

\* launch_tunnel for a run, whose config said so: nothing comes of it when no
\* account is connected.
Launch(run, on) ==
    \/ UNCHANGED agent
    \/ /\ on
       /\ \E a \in Agents :
             /\ agent[a] = NoAgent
             /\ \A b \in 1..(a - 1) : agent[b] # NoAgent
             /\ agent' = [agent EXCEPT ![a] = [stage |-> "starting", run |-> run]]

\* playit_stop.take() and stop_agent.
StopsHeld ==
    /\ held' = 0
    /\ agent' = IF held = 0 THEN agent ELSE [agent EXCEPT ![held] = NoAgent]

\* Mutant: attach to whatever run is in the map.
ServesAny(a) == entry.child /\ ~entry.stopRequested

\* Is the run an agent was brought up for still the one to attach it to?
Serves(a) == entry.gen = agent[a].run /\ entry.child /\ ~entry.stopRequested

\* The agent is up: attach it, or stop it at once.
AgentUp(a) ==
    /\ agent[a].stage = "starting"
    /\ IF Serves(a)
       THEN held' = a /\ agent' = [agent EXCEPT ![a].stage = "up"]
       ELSE held' = held /\ agent' = [agent EXCEPT ![a] = NoAgent]
    /\ UNCHANGED <<vars, enabled, wants, switch, switches>>

AgentFails(a) ==
    /\ agent[a].stage = "starting"
    /\ agent' = [agent EXCEPT ![a] = NoAgent]
    /\ UNCHANGED <<vars, enabled, wants, held, switch, switches>>

--------------------------------------------------------------------------------
(* set_server_tunnel. *)

\* The flag is written to mserve.json...
SwitchSaved ==
    /\ switches < MaxSwitches
    /\ switches' = switches + 1
    /\ switch.step = "idle"
    /\ \E on \in BOOLEAN :
          /\ enabled' = on
          /\ switch' = [step |-> IF on THEN "on" ELSE "off", run |-> 0]
    /\ UNCHANGED <<vars, wants, agent, held>>

\* ...then, turned on, a running server that has no agent is to get one...
SwitchOn ==
    /\ switch.step = "on"
    /\ switch' = IF entry.child /\ entry.state \notin {"offline", "crashed"} /\ held = 0
                 THEN [step |-> "launch", run |-> entry.gen]
                 ELSE [step |-> "idle", run |-> 0]
    /\ UNCHANGED <<vars, enabled, wants, agent, held, switches>>

SwitchLaunches ==
    /\ switch.step = "launch"
    /\ Launch(switch.run, enabled)
    /\ switch' = [step |-> "idle", run |-> 0]
    /\ UNCHANGED <<vars, enabled, wants, held, switches>>

\* ...and, turned off, the agent in the entry is stopped.
SwitchOff ==
    /\ switch.step = "off"
    /\ StopsHeld
    /\ switch' = [step |-> "idle", run |-> 0]
    /\ UNCHANGED <<vars, enabled, wants, switches>>

SwitchStep == SwitchSaved \/ SwitchOn \/ SwitchLaunches \/ SwitchOff

--------------------------------------------------------------------------------
(* The steps of the lifecycle that have to do with the tunnel. *)

\* A start reads mserve.json before anything else.
StartReads(t) ==
    /\ StartChecks(t)
    /\ wants' = [wants EXCEPT ![t] = enabled]
    /\ UNCHANGED <<agent, held>>

\* It launches the tunnel once its JVM is attached.
AttachLaunches(t) ==
    /\ AttachChild(t)
    /\ Launch(tgen[t], wants[t])
    /\ wants' = [wants EXCEPT ![t] = FALSE]
    /\ UNCHANGED held

\* The steps that take a run out of the map stop its agent (a delete does so
\* right after it, before it ends the JVM)...
EndsRun ==
    \/ \E t \in Threads : ClaimKey(t) \/ WakeFailed(t) \/ DeleteServer(t) \/ SettingsSaved(t)
    \/ \E g \in Gens : ExitTerminal(g) \/ BindFails(g)
    \/ StopSleeping

StopsItsAgent ==
    /\ EndsRun
    /\ IF entry'.gen # entry.gen THEN StopsHeld ELSE UNCHANGED <<agent, held>>
    /\ UNCHANGED wants

\* ...but for those whose runs never have one: were there a handle in such an
\* entry, it would be dropped with it.
NeverHadOne ==
    /\ \/ \E t \in Threads :
             \/ StartRefused(t) \/ SpawnJvm(t) \/ SpawnFails(t) \/ CancelStart(t)
             \/ ReleaseReservation(t) \/ RconAnswered(t) \/ PortKill(t) \/ RestartProceeds(t)
             \/ BackoffEnds(t) \/ TerminateRuntime(t) \/ TrashDirectory(t) \/ AdoptExternal(t)
             \/ StartServer(t) \/ StopOverRcon(t) \/ ForceKillAdopted(t) \/ RestartServer(t)
             \/ EditSettings(t) \/ ProbeUntracked(t)
       \/ \E g \in Gens :
             \/ SupervisorStops(g) \/ ExitToSleep(g) \/ Snapshot(g) \/ Escalate(g) \/ Probe(g)
             \/ Write(g) \/ FinishExit(g) \/ BindListener(g) \/ AttachListener(g)
             \/ ListenerStep(g) \/ JvmBinds(g) \/ JvmExits(g)
       \/ StopServer \/ SleepServer \/ ForceKill \/ ExternalServer
    /\ held' = IF entry'.gen = entry.gen THEN held ELSE 0
    /\ UNCHANGED <<agent, wants>>

RunStep ==
    /\ \/ \E t \in Threads : StartReads(t) \/ AttachLaunches(t)
       \/ StopsItsAgent
       \/ NeverHadOne
    /\ UNCHANGED <<enabled, switch, switches>>

TunnelNext ==
    \/ RunStep
    \/ SwitchStep
    \/ \E a \in Agents : AgentUp(a) \/ AgentFails(a)

TunnelSpec == TunnelInit /\ [][TunnelNext]_tunnelledVars

--------------------------------------------------------------------------------
(* Safety. *)

\* An agent whose handle the entry holds is up, was brought up for that run, and
\* fronts a JVM or the wake listener that stands in for it: traffic from the
\* tunnel never reaches the port of a server that is off or of another run.
HeldAgentServes ==
    held # 0 =>
        /\ agent[held].stage = "up" /\ agent[held].run = entry.gen
        /\ entry.child \/ entry.state = "sleeping"

\* Every agent that is up can be stopped: the entry holds its handle, through
\* every restart, sleep, wake, kill and delete. (Until the switch is used, which
\* may start a second agent for a run: AgentTiedToRun.)
NoLeakedAgent ==
    switches = 0 => \A a \in Agents : agent[a].stage = "up" => held = a

\* The agent the entry holds serves its run, and until the tunnel is switched no other is up
\* (launch_tunnel, stop_agent).
AgentsAccountedFor == TunnelTypeOK /\ HeldAgentServes /\ NoLeakedAgent

--------------------------------------------------------------------------------
(* What the comments promise and the code does not keep. *)

\* playit.rs: "Lifecycle is tied to the Minecraft process — the supervisor /
\* stop paths cancel the agent when the server goes down."
AgentTiedToRun == \A a \in Agents : agent[a].stage = "up" => entry.gen = agent[a].run

\* set_server_tunnel: "if the server is already running the tunnel is brought up
\* / torn down live." Once it is off and nothing is under way, none is up.
OffMeansDown ==
    ~enabled /\ switch.step = "idle" => held = 0
================================================================================

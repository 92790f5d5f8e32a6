----------------------------- MODULE PortAssignment -----------------------------
(***************************************************************************)
(* The ports of all servers: which host:port every entry of the map claims, *)
(* how a start picks one (find_next_available_port), who answers on it, and  *)
(* the adoption of servers found running. What happens within one entry is   *)
(* ServerLifecycle's; here an entry is what the others see of it.            *)
(***************************************************************************)
EXTENDS Integers, TLC

CONSTANTS
    Servers,       \* the keys of the map
    Hosts,         \* addresses a server is reached at
    DefaultPort,   \* DEFAULT_MC_PORT, 25565
    MaxPort        \* u16::MAX, 65535

ASSUME PortsAssumption ==
    /\ {DefaultPort, MaxPort} \subseteq Nat \ {0}
    /\ DefaultPort <= MaxPort

Ports     == 1..MaxPort
Addresses == [host : Hosts, port : Ports]

VARIABLES
    entry,      \* what each key's entry is, and the address it claims
    config,     \* the address mserve.json and server.properties give
    start,      \* each key's start: the address it read, or the one it claimed
    editing,    \* is update_server_settings at work, and on a server asleep?
    probed,     \* the address an adoption probe of the key found answering
    jvm,        \* each key's JVM: none, booting, or up at an address
    listener,   \* each key's wake listener: none, or an address
    strangers   \* addresses servers started outside mserve listen on

vars == <<entry, config, start, editing, probed, jvm, listener, strangers>>

None == [kind |-> "none"]

Entries    == {None} \union [kind : {"starting", "running", "sleeping", "external"}, at : Addresses]
Starts     == {None} \union [kind : {"claim", "persist", "spawn"}, at : Addresses]
Jvms       == {None} \union [kind : {"booting"}] \union [kind : {"up"}, at : Addresses]
Listening  == {None} \union [kind : {"up"}, at : Addresses]

PortsTypeOK ==
    /\ entry \in [Servers -> Entries]
    /\ config \in [Servers -> Addresses]
    /\ start \in [Servers -> Starts]
    /\ editing \in [Servers -> {"no", "offline", "asleep"}]
    /\ probed \in [Servers -> Listening]
    /\ jvm \in [Servers -> Jvms]
    /\ listener \in [Servers -> Listening]
    /\ strangers \in SUBSET Addresses

PortsInit ==
    /\ entry = [k \in Servers |-> None]
    /\ config \in [Servers -> Addresses]
    /\ start = [k \in Servers |-> None]
    /\ editing = [k \in Servers |-> "no"]
    /\ probed = [k \in Servers |-> None]
    /\ jvm = [k \in Servers |-> None]
    /\ listener = [k \in Servers |-> None]
    /\ strangers = {}

--------------------------------------------------------------------------------
(* Choosing a port. *)

\* LifecycleState::is_active: every entry in the map is, a sleeping one too.
IsActive(k) == entry[k].kind # "none"

\* No start goes ahead over one of these. (A run whose JVM has exited no longer
\* counts.)
Occupied(k) ==
    \/ entry[k].kind \in {"starting", "external"}
    \/ entry[k].kind = "running" /\ jvm[k] # None

\* is_port_claimed
Claimed(k, address) == \E other \in Servers \ {k} : IsActive(other) /\ entry[other].at = address

\* The ports of every other active server, whatever its host.
InUse(k) == {entry[other].at.port : other \in {o \in Servers \ {k} : IsActive(o)}}

\* The first port from DEFAULT_MC_PORT on that is not in use.
FirstFree(p, used) == p \notin used /\ \A q \in DefaultPort..(p - 1) : q \in used

\* find_next_available_port: the last port of all if every one is taken.
NextFree(used) ==
    IF \E p \in DefaultPort..MaxPort : FirstFree(p, used)
    THEN CHOOSE p \in DefaultPort..MaxPort : FirstFree(p, used)
    ELSE MaxPort

Assigned(k, address) ==
    IF Claimed(k, address)
    THEN [host |-> address.host, port |-> NextFree(InUse(k))]
    ELSE address

\* Does anything accept connections there?
Answers(address) ==
    \/ \E k \in Servers : \E p \in {jvm[k], listener[k]} : p.kind = "up" /\ p.at = address
    \/ address \in strangers

--------------------------------------------------------------------------------
(* A start. *)

\* resolve_telemetry_target, before the lock is taken.
StartReads(k) ==
    /\ start[k] = None
    /\ start' = [start EXCEPT ![k] = [kind |-> "claim", at |-> config[k]]]
    /\ UNCHANGED <<entry, config, editing, probed, jvm, listener, strangers>>

StartGivesUp(k) ==
    /\ start[k].kind = "claim"
    /\ start' = [start EXCEPT ![k] = None]
    /\ UNCHANGED <<entry, config, editing, probed, jvm, listener, strangers>>

\* The reservation carries the port, in the critical section that chose it. A
\* wake listener that is replaced lets go of the port on its own.
ClaimPort(k) ==
    LET read == start[k].at
        at   == Assigned(k, read)
    IN  /\ start[k].kind = "claim"
        /\ ~Occupied(k)
        /\ entry' = [entry EXCEPT ![k] = [kind |-> "starting", at |-> at]]
        /\ start' = [start EXCEPT ![k] =
                        [kind |-> IF at = read THEN "spawn" ELSE "persist", at |-> at]]
        /\ UNCHANGED <<config, editing, probed, jvm, listener, strangers>>

\* set_server_port and patch_mserve_json, whose errors are only printed.
PersistPort(k) ==
    /\ start[k].kind = "persist"
    /\ \/ UNCHANGED config
       \/ config' = [config EXCEPT ![k] = [host |-> config[k].host, port |-> start[k].at.port]]
    /\ start' = [start EXCEPT ![k] = [kind |-> "spawn", at |-> start[k].at]]
    /\ UNCHANGED <<entry, editing, probed, jvm, listener, strangers>>

\* The JVM is spawned and attached... (One JVM of a server at a time: that a
\* deleted one may still be ending is ServerLifecycle's matter.)
SpawnAttached(k) ==
    /\ start[k].kind = "spawn"
    /\ jvm[k] = None
    /\ jvm' = [jvm EXCEPT ![k] = [kind |-> "booting"]]
    /\ entry' = [entry EXCEPT ![k] = [kind |-> "running", at |-> entry[k].at]]
    /\ start' = [start EXCEPT ![k] = None]
    /\ UNCHANGED <<config, editing, probed, listener, strangers>>

\* ...or the spawn failed or was cancelled, and the reservation is released.
StartReleased(k) ==
    /\ start[k].kind \in {"persist", "spawn"}
    /\ entry' = [entry EXCEPT ![k] = None]
    /\ start' = [start EXCEPT ![k] = None]
    /\ UNCHANGED <<config, editing, probed, jvm, listener, strangers>>

--------------------------------------------------------------------------------
(* The processes on the ports. *)

\* The JVM reads server.properties as it boots, and binds what nobody holds.
JvmUp(k) ==
    /\ jvm[k].kind = "booting"
    /\ ~Answers(config[k])
    /\ jvm' = [jvm EXCEPT ![k] = [kind |-> "up", at |-> config[k]]]
    /\ UNCHANGED <<entry, config, start, editing, probed, listener, strangers>>

JvmEnds(k) ==
    /\ jvm[k] # None
    /\ jvm' = [jvm EXCEPT ![k] = None]
    /\ UNCHANGED <<entry, config, start, editing, probed, listener, strangers>>

\* A listener ends once its entry is not its sleeping run any more.
ListenerEnds(k) ==
    /\ listener[k] # None
    /\ entry[k].kind # "sleeping"
    /\ listener' = [listener EXCEPT ![k] = None]
    /\ UNCHANGED <<entry, config, start, editing, probed, jvm, strangers>>

StrangersChange ==
    /\ \E a \in Addresses :
          \/ a \in strangers /\ strangers' = strangers \ {a}
          \/ ~Answers(a) /\ strangers' = strangers \union {a}
    /\ UNCHANGED <<entry, config, start, editing, probed, jvm, listener>>

--------------------------------------------------------------------------------
(* The ends of an entry. *)

\* The supervisor sees the exit: the entry goes, or falls asleep.
RunEnds(k) ==
    /\ entry[k].kind = "running" /\ jvm[k] = None
    /\ \/ entry' = [entry EXCEPT ![k] = None]
       \/ entry' = [entry EXCEPT ![k] = [kind |-> "sleeping", at |-> entry[k].at]]
    /\ UNCHANGED <<config, start, editing, probed, jvm, listener, strangers>>

\* spawn_sleep_listener, at the address of the run that ended. (An earlier run's
\* listener has ended by then: it polls, and a JVM takes seconds to come up.)
ListenerBinds(k) ==
    /\ entry[k].kind = "sleeping" /\ listener[k] = None
    /\ IF Answers(entry[k].at)
       THEN entry' = [entry EXCEPT ![k] = None] /\ UNCHANGED listener
       ELSE listener' = [listener EXCEPT ![k] = [kind |-> "up", at |-> entry[k].at]] /\ UNCHANGED entry
    /\ UNCHANGED <<config, start, editing, probed, jvm, strangers>>

\* A stop or force-kill of a sleeping server, a failed wake.
SleeperReleased(k) ==
    /\ entry[k].kind = "sleeping"
    /\ entry' = [entry EXCEPT ![k] = None]
    /\ UNCHANGED <<config, start, editing, probed, jvm, listener, strangers>>

\* Mutant: delete takes a reservation out too.
DeleteServerStarting(k) ==
    /\ entry[k] # None
    /\ entry' = [entry EXCEPT ![k] = None]
    /\ UNCHANGED <<config, start, editing, probed, jvm, listener, strangers>>

\* delete_server takes the entry out before it ends the JVM.
DeleteServer(k) ==
    /\ entry[k].kind \in {"running", "sleeping", "external"}
    /\ entry' = [entry EXCEPT ![k] = None]
    /\ UNCHANGED <<config, start, editing, probed, jvm, listener, strangers>>

\* update_server_settings: a check under the lock, which takes a run for active
\* until its supervisor has seen it end...
EditSettings(k) ==
    /\ editing[k] = "no"
    /\ entry[k].kind \in {"none", "sleeping"}
    /\ editing' = [editing EXCEPT ![k] = IF entry[k] = None THEN "offline" ELSE "asleep"]
    /\ UNCHANGED <<entry, config, start, probed, jvm, listener, strangers>>

\* ...then the files, and last the entry, if they were written and it is still
\* the sleeping run that was checked.
SettingsSaved(k) ==
    /\ editing[k] # "no"
    /\ editing' = [editing EXCEPT ![k] = "no"]
    /\ \E a \in Addresses : config' = [config EXCEPT ![k] = a]
    /\ \/ UNCHANGED entry
       \/ /\ editing[k] = "asleep" /\ entry[k].kind = "sleeping"
          /\ entry' = [entry EXCEPT ![k] = None]
    /\ UNCHANGED <<start, probed, jvm, listener, strangers>>

--------------------------------------------------------------------------------
(* Adoption: get_server_runtime of a key that is not in the map. *)

ProbeUntracked(k) ==
    /\ entry[k] = None
    /\ probed[k] = None
    /\ ~Claimed(k, config[k])
    /\ Answers(config[k])
    /\ probed' = [probed EXCEPT ![k] = [kind |-> "up", at |-> config[k]]]
    /\ UNCHANGED <<entry, config, start, editing, jvm, listener, strangers>>

\* Mutant: adopt on the strength of the check made before the probe.
AdoptExternalUnchecked(k) ==
    /\ probed[k] # None
    /\ probed' = [probed EXCEPT ![k] = None]
    /\ entry' = IF entry[k] = None
                THEN [entry EXCEPT ![k] = [kind |-> "external", at |-> probed[k].at]]
                ELSE entry
    /\ UNCHANGED <<config, start, editing, jvm, listener, strangers>>

\* register_external, which looks again under the lock.
AdoptExternal(k) ==
    /\ probed[k] # None
    /\ probed' = [probed EXCEPT ![k] = None]
    /\ entry' = IF entry[k] = None /\ ~Claimed(k, probed[k].at)
                THEN [entry EXCEPT ![k] = [kind |-> "external", at |-> probed[k].at]]
                ELSE entry
    /\ UNCHANGED <<config, start, editing, jvm, listener, strangers>>

\* It stopped answering, for as many probes as it takes.
ExternalGone(k) ==
    /\ entry[k].kind = "external"
    /\ ~Answers(entry[k].at)
    /\ entry' = [entry EXCEPT ![k] = None]
    /\ UNCHANGED <<config, start, editing, probed, jvm, listener, strangers>>

StartStep(k) ==
    \/ StartReads(k) \/ StartGivesUp(k) \/ ClaimPort(k) \/ PersistPort(k)
    \/ SpawnAttached(k) \/ StartReleased(k)

ProcessStep(k) == JvmUp(k) \/ JvmEnds(k) \/ ListenerEnds(k)

EntryStep(k) ==
    \/ RunEnds(k) \/ ListenerBinds(k) \/ SleeperReleased(k) \/ DeleteServer(k)
    \/ EditSettings(k) \/ SettingsSaved(k)

AdoptionStep(k) == ProbeUntracked(k) \/ AdoptExternal(k) \/ ExternalGone(k)

PortsNext ==
    \/ \E k \in Servers : StartStep(k) \/ ProcessStep(k) \/ EntryStep(k) \/ AdoptionStep(k)
    \/ StrangersChange

PortsSpec == PortsInit /\ [][PortsNext]_vars

--------------------------------------------------------------------------------
(* Safety. *)

\* No two active servers claim one address, whoever started, slept, woke, was
\* deleted or was adopted in between, and however stale the address a start
\* read. (Only the last port of all may be shared: the search ends there.)
PortsApart ==
    \A k, l \in Servers :
        /\ k # l /\ IsActive(k) /\ IsActive(l)
        /\ entry[k].at = entry[l].at
        => entry[k].at.port = MaxPort

\* From its claim to its end a start finds the reservation it published, at the
\* port it is about to write down and to spawn the JVM for.
ReservationKept ==
    \A k \in Servers : start[k].kind \in {"persist", "spawn"} =>
        entry[k] = [kind |-> "starting", at |-> start[k].at]

--------------------------------------------------------------------------------
(* What the comments promise and the code does not keep. *)

\* get_server_runtime: "Guard against false adoption: ... a probe of *this*
\* server's port may actually hit a *different* managed server".
AdoptsNoSibling ==
    [][\A k \in Servers : \A l \in Servers \ {k} : \A p \in {jvm[l], listener[l]} :
          /\ entry'[k].kind = "external" /\ entry[k].kind = "none"
          /\ p.kind = "up"
          => p.at # entry'[k].at]_vars

--------------------------------------------------------------------------------
\* For TLC: the servers are interchangeable.
Symmetry == Permutations(Servers)
================================================================================

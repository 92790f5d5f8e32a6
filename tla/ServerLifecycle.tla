---------------------------- MODULE ServerLifecycle ----------------------------
(***************************************************************************)
(* The backend's runtime of ONE server: the entry the `processes` map keeps *)
(* under the server's key, the JVMs spawned for it, the supervisor thread   *)
(* of each run, the wake listener of a sleeping run, and the command        *)
(* threads that start, stop, sleep, restart, kill, delete, adopt and edit   *)
(* the server.                                                              *)
(*                                                                          *)
(* Every action is one critical section of the `processes` lock, or one     *)
(* step done without it, so that the interleavings are those of the code.   *)
(* A generation g identifies a run: its entry, its JVM (jvm[g]), its        *)
(* supervisor (spc[g]) and its listener (lst[g]).                           *)
(***************************************************************************)
EXTENDS Integers, FiniteSets

CONSTANTS
    Threads,       \* command, restart, auto-restart and wake threads (bound)
    MaxGen,        \* generations handed out in a behaviour (bound)
    AutoRestart,   \* mserve.json auto_restart, copied to each run
    SleepEnabled,  \* mserve.json sleep_enabled, copied to each run
    External       \* may a server mserve did not start answer on the port?

ASSUME MaxGenAssumption == MaxGen \in Nat \ {0}
ASSUME FlagsAssumption  == {AutoRestart, SleepEnabled, External} \subseteq BOOLEAN

VARIABLES
    entry,    \* the runtime in the `processes` map, Absent when the key is free
    lastGen,  \* NEXT_GENERATION: the last generation handed out
    jvm,      \* the java process of each generation
    spc,      \* where each generation's supervisor thread is
    snap,     \* the snapshot its last phase 1 took
    acc,      \* what its last port probe answered
    miss,     \* its external_miss_streak
    outcome,  \* what a terminal exit left it to do
    lst,      \* where each generation's wake listener thread is
    flag,     \* that listener's shutdown flag
    pc,       \* where each command thread is
    tgen,     \* the generation a command thread holds
    from,     \* the sleeping generation a wake thread starts for, 0 if none
    dir,      \* does the server's directory exist?
    ext       \* is a server mserve did not start listening on the port?

supervisorVars == <<spc, snap, acc, miss, outcome>>
listenerVars   == <<lst, flag>>
threadVars     == <<pc, tgen, from>>
vars == <<entry, lastGen, jvm, supervisorVars, listenerVars, threadVars, dir, ext>>

--------------------------------------------------------------------------------
Gens == 1..MaxGen

LifecycleStates == {"offline", "starting", "online", "stopping", "crashed",
                    "running-external", "sleeping"}

\* EXTERNAL_OFFLINE_STREAK: failed probes before an adopted server is off.
OfflineStreak == 3

\* Fields of a ServerRuntime the lifecycle reads. java is java_executable
\* (None for an adopted server), listener is sleep_stop.
Runtime == [gen : 0..MaxGen, state : LifecycleStates, child : BOOLEAN,
            java : BOOLEAN, stopRequested : BOOLEAN, sleepRequested : BOOLEAN,
            everOnline : BOOLEAN, forceKilled : BOOLEAN, listener : BOOLEAN]

NewRuntime(g, state, java) ==
    [gen |-> g, state |-> state, child |-> FALSE, java |-> java,
     stopRequested |-> FALSE, sleepRequested |-> FALSE, everOnline |-> FALSE,
     forceKilled |-> FALSE, listener |-> FALSE]

\* The key is not in the map.
Absent == NewRuntime(0, "offline", FALSE)

\* "none" before the spawn and once the Child was waited for and dropped.
JvmStates == {"none", "loading", "up", "killed", "clean", "failed"}
Live(g)   == jvm[g] \in {"loading", "up", "killed"}
Exited(g) == jvm[g] \in {"clean", "failed"}

SupervisorPcs == {"none", "poll", "probe", "write", "exited", "bind", "attach", "done"}
ListenerPcs   == {"none", "bound", "serving", "gone"}
ThreadPcs     == {"idle", "restarting", "backoff", "start", "claim", "spawn", "attach",
                  "release", "wakeFailed", "rcon", "portKill", "terminate",
                  "trash", "adopt", "settings"}

Snapshots == [state : LifecycleStates, child : BOOLEAN]
Outcomes  == [restart : BOOLEAN, backUp : BOOLEAN]

\* A thread's locals before they are set and after they are last read.
NoSnapshot == [state |-> "offline", child |-> FALSE]
NoOutcome  == [restart |-> FALSE, backUp |-> FALSE]

TypeOK ==
    /\ entry \in Runtime
    /\ lastGen \in 0..MaxGen
    /\ jvm \in [Gens -> JvmStates]
    /\ spc \in [Gens -> SupervisorPcs]
    /\ snap \in [Gens -> Snapshots]
    /\ acc \in [Gens -> BOOLEAN]
    /\ miss \in [Gens -> 0..OfflineStreak]
    /\ outcome \in [Gens -> Outcomes]
    /\ lst \in [Gens -> ListenerPcs]
    /\ flag \in [Gens -> BOOLEAN]
    /\ pc \in [Threads -> ThreadPcs]
    /\ tgen \in [Threads -> 0..MaxGen]
    /\ from \in [Threads -> 0..MaxGen]
    /\ dir \in BOOLEAN
    /\ ext \in BOOLEAN

Init ==
    /\ entry = Absent
    /\ lastGen = 0
    /\ jvm = [g \in Gens |-> "none"]
    /\ spc = [g \in Gens |-> "none"]
    /\ snap = [g \in Gens |-> NoSnapshot]
    /\ acc = [g \in Gens |-> FALSE]
    /\ miss = [g \in Gens |-> 0]
    /\ outcome = [g \in Gens |-> NoOutcome]
    /\ lst = [g \in Gens |-> "none"]
    /\ flag = [g \in Gens |-> FALSE]
    /\ pc = [t \in Threads |-> "idle"]
    /\ tgen = [t \in Threads |-> 0]
    /\ from = [t \in Threads |-> 0]
    /\ dir = TRUE
    /\ ext = FALSE

--------------------------------------------------------------------------------
(* What the handlers ask about the entry and the port. *)

InMap == entry.gen # 0

IsReservation(r) ==
    /\ r.gen # 0 /\ ~r.child /\ r.java
    /\ r.state \in {"starting", "stopping"}

IsAdopted(r) == r.gen # 0 /\ ~r.child /\ ~r.java

\* existing.child.try_wait() is Ok(None).
Alive(r) == r.child /\ Live(r.gen)

StillSleeping(g) == entry.gen = g /\ entry.state = "sleeping"

ListenerBound == \E g \in Gens : lst[g] \in {"bound", "serving"}
JvmBound      == \E g \in Gens : jvm[g] = "up"
PortBusy      == ext \/ ListenerBound \/ JvmBound

MarkStopping(r) ==
    [r EXCEPT !.stopRequested = TRUE,
              !.state = IF @ \in {"offline", "crashed"} THEN @ ELSE "stopping"]

\* Mutant: the listener is not told to stop.
FlagListenerNever == UNCHANGED flag

\* stop_sleep_listener on the entry: raise the flag of the listener it holds.
FlagListener ==
    flag' = IF entry.listener THEN [flag EXCEPT ![entry.gen] = TRUE] ELSE flag

\* Mutant: a run asked to stop is left in the map.
RemoveUnlessStopping(g) ==
    entry' = IF entry.gen = g /\ ~entry.stopRequested THEN Absent ELSE entry

\* remove_if_current: drop the entry only while it is the runtime of g.
RemoveIfCurrent(g) == entry' = IF entry.gen = g THEN Absent ELSE entry

\* Mutant: only a JVM that bound its port is killed.
KilledIfUp(g) == IF jvm[g] = "up" THEN [jvm EXCEPT ![g] = "killed"] ELSE jvm

\* kill a child: SIGKILL is pending until the system ends the process.
Killed(g) == IF Live(g) THEN [jvm EXCEPT ![g] = "killed"] ELSE jvm

\* The Child of g was waited for and dropped.
Reaped(g) == [jvm EXCEPT ![g] = "none"]

Goto(t, label) == pc' = [pc EXCEPT ![t] = label]

--------------------------------------------------------------------------------
(* start_server_internal: check, claim the key, spawn, attach. *)

\* An error before the key is claimed. A wake cleans up after it.
StartError(t) ==
    /\ Goto(t, IF from[t] # 0 THEN "wakeFailed" ELSE "idle")
    /\ tgen' = [tgen EXCEPT ![t] = 0]

\* The start_server command.
StartServer(t) ==
    /\ pc[t] = "idle"
    /\ Goto(t, "start")
    /\ UNCHANGED <<entry, lastGen, jvm, supervisorVars, listenerVars, tgen, from, dir, ext>>

\* The checks made without the lock: the directory, the config, Java, and
\* waiting for an automatic backup to end.
StartChecks(t) ==
    /\ pc[t] = "start"
    /\ dir
    /\ Goto(t, "claim")
    /\ UNCHANGED <<entry, lastGen, jvm, supervisorVars, listenerVars, tgen, from, dir, ext>>

\* Any refusal: no directory, already starting, already running, started outside mserve, and
\* what other components decide (no Java, a restore, a long backup).
StartRefused(t) ==
    /\ pc[t] \in {"start", "claim"}
    /\ StartError(t)
    /\ UNCHANGED <<entry, lastGen, jvm, supervisorVars, listenerVars, from, dir, ext>>

\* Mutant: a start that takes a reservation for an entry left over.
MayClaimOverReservation == ~Alive(entry) /\ ~IsAdopted(entry)

MayClaim == ~IsReservation(entry) /\ ~Alive(entry) /\ ~IsAdopted(entry)

\* Publish the reservation in the critical section that made the checks. (The
\* code draws the run's number just before it takes the lock; numbers are only
\* ever compared for equality, so drawing it here loses nothing.)
ClaimKey(t) ==
    /\ pc[t] = "claim"
    /\ MayClaim
    /\ lastGen < MaxGen
    /\ lastGen' = lastGen + 1
    /\ FlagListener
    /\ entry' = NewRuntime(lastGen + 1, "starting", TRUE)
    /\ tgen' = [tgen EXCEPT ![t] = lastGen + 1]
    /\ jvm' = IF entry.child THEN Reaped(entry.gen) ELSE jvm
    /\ Goto(t, "spawn")
    /\ UNCHANGED <<supervisorVars, lst, from, dir, ext>>

SpawnJvm(t) ==
    /\ pc[t] = "spawn"
    /\ dir
    /\ jvm' = [jvm EXCEPT ![tgen[t]] = "loading"]
    /\ Goto(t, "attach")
    /\ UNCHANGED <<entry, lastGen, supervisorVars, listenerVars, tgen, from, dir, ext>>

\* Mutant: the error path leaves the reservation behind.
SpawnFailsSilently(t) ==
    /\ pc[t] = "spawn"
    /\ StartError(t)
    /\ UNCHANGED <<entry, lastGen, jvm, supervisorVars, listenerVars, from, dir, ext>>

SpawnFails(t) ==
    /\ pc[t] = "spawn"
    /\ Goto(t, "release")
    /\ UNCHANGED <<entry, lastGen, jvm, supervisorVars, listenerVars, tgen, from, dir, ext>>

\* Mutant: attach to a reservation a stop has cancelled.
MayAttachStopped(t) == entry.gen = tgen[t]

MayAttach(t) == entry.gen = tgen[t] /\ ~entry.stopRequested

\* Give the child to the reservation and start its supervisor, which the code
\* spawns once it has let go of the lock; its first step is its first poll.
AttachChild(t) ==
    /\ pc[t] = "attach"
    /\ MayAttach(t)
    /\ entry' = [entry EXCEPT !.child = TRUE]
    /\ spc' = [spc EXCEPT ![tgen[t]] = "poll"]
    /\ Goto(t, "idle")
    /\ tgen' = [tgen EXCEPT ![t] = 0]
    /\ from' = [from EXCEPT ![t] = 0]
    /\ UNCHANGED <<lastGen, jvm, snap, acc, miss, outcome, listenerVars, dir, ext>>

\* Mutant: drop the handle of the fresh JVM, which leaves the process running.
CancelStartUnkilled(t) ==
    /\ pc[t] = "attach"
    /\ ~MayAttach(t)
    /\ Goto(t, "release")
    /\ UNCHANGED <<entry, lastGen, jvm, supervisorVars, listenerVars, tgen, from, dir, ext>>

\* The start was cancelled meanwhile: kill the fresh JVM and wait for it.
CancelStart(t) ==
    /\ pc[t] = "attach"
    /\ ~MayAttach(t)
    /\ jvm' = Reaped(tgen[t])
    /\ Goto(t, "release")
    /\ UNCHANGED <<entry, lastGen, supervisorVars, listenerVars, tgen, from, dir, ext>>

ReleaseReservation(t) ==
    /\ pc[t] = "release"
    /\ RemoveIfCurrent(tgen[t])
    /\ StartError(t)
    /\ UNCHANGED <<lastGen, jvm, supervisorVars, listenerVars, from, dir, ext>>

\* wake_server's clean-up: drop the sleeping runtime the wake was for.
WakeFailed(t) ==
    /\ pc[t] = "wakeFailed"
    /\ RemoveIfCurrent(from[t])
    /\ from' = [from EXCEPT ![t] = 0]
    /\ Goto(t, "idle")
    /\ UNCHANGED <<lastGen, jvm, supervisorVars, listenerVars, tgen, dir, ext>>

--------------------------------------------------------------------------------
(* The commands that stop a server. *)

\* release_sleeping: raise the listener's flag and drop the entry.
ReleaseSleeping ==
    /\ entry.state = "sleeping"
    /\ FlagListener
    /\ entry' = Absent
    /\ UNCHANGED <<lastGen, jvm, supervisorVars, lst, threadVars, dir, ext>>

\* stop_server on a sleeping server, and the same branch of force_kill_server.
StopSleeping == InMap /\ ReleaseSleeping

\* stop_server on a start in progress or an owned server. A console stop
\* command (send_server_command) takes the same step.
StopServer ==
    /\ IsReservation(entry) \/ entry.child
    /\ entry' = MarkStopping(entry)
    /\ UNCHANGED <<lastGen, jvm, supervisorVars, listenerVars, threadVars, dir, ext>>

\* stop_server on an adopted server: release the lock and connect over RCON.
StopOverRcon(t) ==
    /\ pc[t] = "idle"
    /\ IsAdopted(entry)
    /\ tgen' = [tgen EXCEPT ![t] = entry.gen]
    /\ Goto(t, "rcon")
    /\ UNCHANGED <<entry, lastGen, jvm, supervisorVars, listenerVars, from, dir, ext>>

\* mark_stopping_if_current once connected; nothing when the connect failed.
RconAnswered(t) ==
    /\ pc[t] = "rcon"
    /\ \/ /\ PortBusy
          /\ entry' = IF entry.gen = tgen[t] THEN MarkStopping(entry) ELSE entry
       \/ entry' = entry
    /\ Goto(t, "idle")
    /\ tgen' = [tgen EXCEPT ![t] = 0]
    /\ UNCHANGED <<lastGen, jvm, supervisorVars, listenerVars, from, dir, ext>>

SleepServer ==
    /\ entry.state = "online"
    /\ entry.child
    /\ entry' = [MarkStopping(entry) EXCEPT !.sleepRequested = TRUE]
    /\ UNCHANGED <<lastGen, jvm, supervisorVars, listenerVars, threadVars, dir, ext>>

\* force_kill_server on a start in progress is StopServer's step; on an owned
\* server it kills the process too.
ForceKill ==
    /\ entry.child
    /\ entry' = [MarkStopping(entry) EXCEPT !.forceKilled = TRUE]
    /\ jvm' = Killed(entry.gen)
    /\ UNCHANGED <<lastGen, supervisorVars, listenerVars, threadVars, dir, ext>>

\* force_kill_server on an adopted server, up to looking for the port's owner.
ForceKillAdopted(t) ==
    /\ pc[t] = "idle"
    /\ IsAdopted(entry)
    /\ entry' = MarkStopping(entry)
    /\ tgen' = [tgen EXCEPT ![t] = entry.gen]
    /\ Goto(t, "portKill")
    /\ UNCHANGED <<lastGen, jvm, supervisorVars, listenerVars, from, dir, ext>>

\* Kill the process listening on the port, then drop the runtime acted on.
\* (mserve itself holding the port ends the program: NeverKillsItself.)
PortKill(t) ==
    /\ pc[t] = "portKill"
    /\ ~ListenerBound
    /\ ext' = FALSE
    /\ jvm' = [g \in Gens |-> IF jvm[g] = "up" THEN "killed" ELSE jvm[g]]
    /\ RemoveIfCurrent(tgen[t])
    /\ tgen' = [tgen EXCEPT ![t] = 0]
    /\ Goto(t, "idle")
    /\ UNCHANGED <<lastGen, supervisorVars, listenerVars, from, dir>>

--------------------------------------------------------------------------------
(* restart_server, delete_server, update_server_settings, adoption. *)

RestartServer(t) ==
    /\ pc[t] = "idle"
    /\ ~IsAdopted(entry)
    /\ entry' = IF entry.child THEN MarkStopping(entry) ELSE entry
    /\ Goto(t, "restarting")
    /\ UNCHANGED <<lastGen, jvm, supervisorVars, listenerVars, tgen, from, dir, ext>>

\* The restart thread goes on when the child is gone, or after 200 polls.
RestartProceeds(t) ==
    /\ pc[t] = "restarting"
    /\ Goto(t, "start")
    /\ UNCHANGED <<entry, lastGen, jvm, supervisorVars, listenerVars, tgen, from, dir, ext>>

\* maybe_auto_restart's thread wakes up after AUTO_RESTART_BACKOFF.
BackoffEnds(t) ==
    /\ pc[t] = "backoff"
    /\ Goto(t, "start")
    /\ UNCHANGED <<entry, lastGen, jvm, supervisorVars, listenerVars, tgen, from, dir, ext>>

\* delete_server takes the runtime out of the map first; terminate_runtime
\* then raises the listener's flag and waits for the process.
DeleteServer(t) ==
    /\ pc[t] = "idle"
    /\ dir
    /\ ~IsReservation(entry)
    /\ FlagListener
    /\ entry' = Absent
    /\ Goto(t, IF entry.child THEN "terminate" ELSE "trash")
    /\ tgen' = [tgen EXCEPT ![t] = IF entry.child THEN entry.gen ELSE 0]
    /\ UNCHANGED <<lastGen, jvm, supervisorVars, lst, from, dir, ext>>

\* The process exited within about 5 s, or was killed and waited for.
TerminateRuntime(t) ==
    /\ pc[t] = "terminate"
    /\ jvm' = Reaped(tgen[t])
    /\ tgen' = [tgen EXCEPT ![t] = 0]
    /\ Goto(t, "trash")
    /\ UNCHANGED <<entry, lastGen, supervisorVars, listenerVars, from, dir, ext>>

TrashDirectory(t) ==
    /\ pc[t] = "trash"
    /\ dir' \in {FALSE, dir}    \* the system may refuse to move it
    /\ Goto(t, "idle")
    /\ UNCHANGED <<entry, lastGen, jvm, supervisorVars, listenerVars, tgen, from, ext>>

\* update_server_settings on a sleeping server notes its generation, edits the
\* files, and releases the runtime if it is still the one that was sleeping.
EditSettings(t) ==
    /\ pc[t] = "idle"
    /\ InMap /\ entry.state = "sleeping"
    /\ tgen' = [tgen EXCEPT ![t] = entry.gen]
    /\ Goto(t, "settings")
    /\ UNCHANGED <<entry, lastGen, jvm, supervisorVars, listenerVars, from, dir, ext>>

SettingsSaved(t) ==
    /\ pc[t] = "settings"
    /\ IF StillSleeping(tgen[t])
       THEN FlagListener /\ entry' = Absent
       ELSE flag' = flag /\ entry' = entry
    /\ tgen' = [tgen EXCEPT ![t] = 0]
    /\ Goto(t, "idle")
    /\ UNCHANGED <<lastGen, jvm, supervisorVars, lst, from, dir, ext>>

\* get_server_runtime found no entry and something answering on the port.
ProbeUntracked(t) ==
    /\ pc[t] = "idle"
    /\ ~InMap
    /\ PortBusy
    /\ Goto(t, "adopt")
    /\ UNCHANGED <<entry, lastGen, jvm, supervisorVars, listenerVars, tgen, from, dir, ext>>

\* register_external: adopt unless the key was taken since.
AdoptExternal(t) ==
    /\ pc[t] = "adopt"
    /\ IF InMap \/ lastGen = MaxGen
       THEN UNCHANGED <<entry, lastGen, spc>>
       ELSE /\ lastGen' = lastGen + 1
            /\ entry' = NewRuntime(lastGen + 1, "running-external", FALSE)
            /\ spc' = [spc EXCEPT ![lastGen + 1] = "poll"]
    /\ Goto(t, "idle")
    /\ UNCHANGED <<jvm, snap, acc, miss, outcome, listenerVars, tgen, from, dir, ext>>

--------------------------------------------------------------------------------
(* The supervisor of generation g. *)

Requested == entry.stopRequested \/ entry.state = "stopping"
ChildExited(g) == entry.gen = g /\ entry.child /\ Exited(g)

\* Mutant: the supervisor leaves a run that is being stopped.
SupervisorStopsEarly(g) ==
    /\ spc[g] = "poll"
    /\ entry.gen # g \/ entry.stopRequested
    /\ spc' = [spc EXCEPT ![g] = "done"]
    /\ UNCHANGED <<entry, lastGen, jvm, snap, acc, miss, outcome,
                   listenerVars, threadVars, dir, ext>>

\* Phase 1, the entry is gone or another run's.
SupervisorStops(g) ==
    /\ spc[g] = "poll"
    /\ entry.gen # g
    /\ spc' = [spc EXCEPT ![g] = "done"]
    /\ UNCHANGED <<entry, lastGen, jvm, snap, acc, miss, outcome,
                   listenerVars, threadVars, dir, ext>>

\* Phase 1, the child exited to go to sleep: the entry stays.
ExitToSleep(g) ==
    /\ spc[g] = "poll"
    /\ ChildExited(g)
    /\ entry.sleepRequested
    /\ entry' = [entry EXCEPT !.child = FALSE, !.state = "sleeping",
                              !.stopRequested = FALSE, !.sleepRequested = FALSE]
    /\ jvm' = Reaped(g)
    /\ spc' = [spc EXCEPT ![g] = "bind"]
    /\ UNCHANGED <<lastGen, snap, acc, miss, outcome, listenerVars,
                   threadVars, dir, ext>>

\* Phase 1, any other exit: the run ends and leaves the map.
ExitTerminal(g) ==
    /\ spc[g] = "poll"
    /\ ChildExited(g)
    /\ ~entry.sleepRequested
    /\ entry' = Absent
    /\ outcome' = [outcome EXCEPT ![g] =
          [restart |-> AutoRestart /\ ~Requested /\ entry.everOnline,
           backUp  |-> entry.everOnline /\ ~entry.forceKilled]]
    /\ jvm' = Reaped(g)
    /\ spc' = [spc EXCEPT ![g] = "exited"]
    /\ UNCHANGED <<lastGen, snap, acc, miss, listenerVars, threadVars, dir, ext>>

TakeSnapshot(g) ==
    /\ snap' = [snap EXCEPT ![g] = [state |-> entry.state, child |-> entry.child]]
    /\ spc' = [spc EXCEPT ![g] = "probe"]
    /\ UNCHANGED <<lastGen, acc, miss, outcome, listenerVars, threadVars, dir, ext>>

\* Phase 1, still running.
Snapshot(g) ==
    /\ spc[g] = "poll"
    /\ entry.gen = g
    /\ ~ChildExited(g)
    /\ TakeSnapshot(g)
    /\ UNCHANGED <<entry, jvm>>

\* Phase 1, still running STOP_GRACE after a stop was requested: kill it.
Escalate(g) ==
    /\ spc[g] = "poll"
    /\ entry.gen = g /\ entry.child /\ ~Exited(g)
    /\ entry.stopRequested
    /\ jvm' = Killed(g)
    /\ entry' = [entry EXCEPT !.forceKilled = TRUE]
    /\ TakeSnapshot(g)

\* Phase 2. A probe of a busy port may still time out.
Probe(g) ==
    /\ spc[g] = "probe"
    /\ \E answers \in IF PortBusy THEN BOOLEAN ELSE {FALSE} :
          acc' = [acc EXCEPT ![g] = answers]
    /\ spc' = [spc EXCEPT ![g] = "write"]
    /\ UNCHANGED <<entry, lastGen, jvm, snap, miss, outcome, listenerVars,
                   threadVars, dir, ext>>

\* Mutant: one probe too many before an adopted server is declared off.
NextStateLate(s, answers, streak) ==
    IF s.child
    THEN [state |-> IF s.state = "starting" /\ answers THEN "online" ELSE s.state,
          miss |-> 0, off |-> FALSE]
    ELSE IF answers THEN [state |-> "running-external", miss |-> 0, off |-> FALSE]
    ELSE [state |-> s.state, miss |-> streak + 1, off |-> streak + 1 > OfflineStreak]

\* next_state: the pure decision of one poll cycle.
NextState(s, answers, streak) ==
    LET missed == streak + 1
    IN  IF s.child
        THEN [state |-> IF s.state = "starting" /\ answers THEN "online" ELSE s.state,
              miss |-> 0, off |-> FALSE]
        ELSE IF answers
        THEN [state |-> IF s.state = "stopping" THEN "stopping" ELSE "running-external",
              miss |-> 0, off |-> FALSE]
        ELSE [state |-> IF missed >= OfflineStreak THEN "offline" ELSE s.state,
              miss |-> missed, off |-> missed >= OfflineStreak]

\* Mutant: phase 3 writes its snapshot's state back over a command.
WriteBackStale(g, new, sleepNow) ==
    IF sleepNow /\ entry.state = "online" /\ ~entry.stopRequested
    THEN [entry EXCEPT !.everOnline = TRUE, !.sleepRequested = TRUE,
                       !.stopRequested = TRUE, !.state = "stopping"]
    ELSE [entry EXCEPT !.everOnline = @ \/ new = "online", !.state = new]

\* The run as phase 3 leaves it: a command's transition is never overwritten.
WriteBack(g, new, sleepNow) ==
    LET latched == [entry EXCEPT !.everOnline = @ \/ new = "online"]
    IN  IF entry.state # snap[g].state THEN latched
        ELSE IF sleepNow /\ entry.state = "online" /\ ~entry.stopRequested
        THEN [latched EXCEPT !.sleepRequested = TRUE, !.stopRequested = TRUE,
                             !.state = "stopping"]
        ELSE [latched EXCEPT !.state = new]

\* Phase 3. Whether the server has been empty long enough to sleep is the
\* players' doing: sleepNow is free where should_sleep may hold.
Write(g) ==
    LET next == NextState(snap[g], acc[g], miss[g])
        mine == entry.gen = g
    IN  /\ spc[g] = "write"
        /\ miss' = [miss EXCEPT ![g] = next.miss]
        /\ snap' = [snap EXCEPT ![g] = NoSnapshot]
        /\ acc' = [acc EXCEPT ![g] = FALSE]
        /\ spc' = [spc EXCEPT ![g] = IF mine /\ ~next.off THEN "poll" ELSE "done"]
        /\ \E sleepNow \in {FALSE, SleepEnabled /\ snap[g].child /\ next.state = "online"} :
              entry' = IF ~mine THEN entry
                       ELSE IF next.off THEN Absent
                       ELSE WriteBack(g, next.state, sleepNow)
        /\ UNCHANGED <<lastGen, jvm, outcome, listenerVars, threadVars, dir, ext>>

\* After a terminal exit: maybe_auto_restart, unless the crash-loop cap is hit.
FinishExit(g) ==
    /\ spc[g] = "exited"
    /\ spc' = [spc EXCEPT ![g] = "done"]
    /\ outcome' = [outcome EXCEPT ![g] = NoOutcome]
    /\ \/ pc' = pc
       \/ /\ outcome[g].restart
          /\ \E t \in Threads : pc[t] = "idle" /\ Goto(t, "backoff")
    /\ UNCHANGED <<entry, lastGen, jvm, snap, acc, miss, listenerVars, tgen, from,
                   dir, ext>>

\* After a sleep exit: hand the port to a wake listener...
BindListener(g) ==
    /\ spc[g] = "bind"
    /\ ~PortBusy
    /\ lst' = [lst EXCEPT ![g] = "bound"]
    /\ spc' = [spc EXCEPT ![g] = "attach"]
    /\ UNCHANGED <<entry, lastGen, jvm, snap, acc, miss, outcome, flag,
                   threadVars, dir, ext>>

\* ...or, when it cannot bind, fall back to offline.
BindFails(g) ==
    /\ spc[g] = "bind"
    /\ RemoveIfCurrent(g)
    /\ spc' = [spc EXCEPT ![g] = "done"]
    /\ UNCHANGED <<lastGen, jvm, snap, acc, miss, outcome, listenerVars,
                   threadVars, dir, ext>>

AttachListener(g) ==
    /\ spc[g] = "attach"
    /\ spc' = [spc EXCEPT ![g] = "done"]
    /\ IF entry.gen = g
       THEN entry' = [entry EXCEPT !.listener = TRUE] /\ flag' = flag
       ELSE flag' = [flag EXCEPT ![g] = TRUE] /\ entry' = entry
    /\ UNCHANGED <<lastGen, jvm, snap, acc, miss, outcome, lst, threadVars, dir, ext>>

--------------------------------------------------------------------------------
(* The wake listener of generation g. *)

ListenerExits(g) ==
    /\ lst[g] = "bound"
    /\ flag[g] \/ ~StillSleeping(g)
    /\ lst' = [lst EXCEPT ![g] = "gone"]
    /\ UNCHANGED <<entry, lastGen, jvm, supervisorVars, flag, threadVars, dir, ext>>

\* Mutant: accept without looking at the flag and the entry.
ListenerAcceptsUnchecked(g) ==
    /\ lst[g] = "bound"
    /\ lst' = [lst EXCEPT ![g] = "serving"]
    /\ UNCHANGED <<entry, lastGen, jvm, supervisorVars, flag, threadVars, dir, ext>>

ListenerAccepts(g) ==
    /\ lst[g] = "bound"
    /\ ~flag[g] /\ StillSleeping(g)
    /\ lst' = [lst EXCEPT ![g] = "serving"]
    /\ UNCHANGED <<entry, lastGen, jvm, supervisorVars, flag, threadVars, dir, ext>>

\* A ping, or a connection that says nothing before the timeout.
ListenerServed(g) ==
    /\ lst[g] = "serving"
    /\ lst' = [lst EXCEPT ![g] = "bound"]
    /\ UNCHANGED <<entry, lastGen, jvm, supervisorVars, flag, threadVars, dir, ext>>

\* A join: release the port and start the server from this thread.
ListenerWakes(g, t) ==
    /\ lst[g] = "serving"
    /\ pc[t] = "idle"
    /\ lst' = [lst EXCEPT ![g] = "gone"]
    /\ flag' = [flag EXCEPT ![g] = TRUE]
    /\ from' = [from EXCEPT ![t] = g]
    /\ Goto(t, "start")
    /\ UNCHANGED <<entry, lastGen, jvm, supervisorVars, tgen, dir, ext>>

--------------------------------------------------------------------------------
(* The processes themselves. *)

JvmBinds(g) ==
    /\ jvm[g] = "loading"
    /\ ~PortBusy
    /\ jvm' = [jvm EXCEPT ![g] = "up"]
    /\ UNCHANGED <<entry, lastGen, supervisorVars, listenerVars, threadVars, dir, ext>>

\* A JVM may exit at any time, cleanly or not; a killed one does not exit cleanly.
JvmExits(g) ==
    /\ Live(g)
    /\ \E code \in {"clean", "failed"} :
          /\ jvm[g] = "killed" => code = "failed"
          /\ jvm' = [jvm EXCEPT ![g] = code]
    /\ UNCHANGED <<entry, lastGen, supervisorVars, listenerVars, threadVars, dir, ext>>

ExternalServer ==
    /\ External
    /\ ext \/ ~PortBusy
    /\ ext' = ~ext
    /\ UNCHANGED <<entry, lastGen, jvm, supervisorVars, listenerVars, threadVars, dir>>

--------------------------------------------------------------------------------
\* A start, once the checks have let it claim the key, and where it is refused.
SpawnStep(t) ==
    \/ StartRefused(t) \/ SpawnJvm(t) \/ SpawnFails(t) \/ AttachChild(t)
    \/ CancelStart(t) \/ ReleaseReservation(t) \/ WakeFailed(t)

\* What a command goes on with after the step that began it.
CommandGoesOn(t) ==
    \/ RconAnswered(t) \/ PortKill(t) \/ RestartProceeds(t) \/ BackoffEnds(t)
    \/ TerminateRuntime(t) \/ TrashDirectory(t) \/ SettingsSaved(t) \/ AdoptExternal(t)

ThreadStep(t) == StartChecks(t) \/ ClaimKey(t) \/ SpawnStep(t) \/ CommandGoesOn(t)

Command(t) ==
    \/ StartServer(t) \/ StopOverRcon(t) \/ ForceKillAdopted(t) \/ RestartServer(t)
    \/ DeleteServer(t) \/ EditSettings(t) \/ ProbeUntracked(t)

PollStep(g) ==
    \/ SupervisorStops(g) \/ ExitToSleep(g) \/ Snapshot(g) \/ Escalate(g) \/ Probe(g)
    \/ BindListener(g) \/ BindFails(g)

SupervisorStep(g) ==
    PollStep(g) \/ ExitTerminal(g) \/ Write(g) \/ FinishExit(g) \/ AttachListener(g)

ListenerStep(g) ==
    \/ ListenerExits(g) \/ ListenerAccepts(g) \/ ListenerServed(g)
    \/ \E t \in Threads : ListenerWakes(g, t)

\* Commands of one step, and what happens to processes.
OtherStep ==
    \/ \E g \in Gens : JvmBinds(g) \/ JvmExits(g)
    \/ StopSleeping \/ StopServer \/ SleepServer \/ ForceKill
    \/ ExternalServer

Next ==
    \/ \E t \in Threads : ThreadStep(t) \/ Command(t)
    \/ \E g \in Gens : SupervisorStep(g) \/ ListenerStep(g)
    \/ OtherStep

Spec == Init /\ [][Next]_vars

--------------------------------------------------------------------------------
(* Safety. *)

\* Every live JVM is somebody's: the entry's child, a start's that has not
\* attached it yet, or a delete's that is terminating it. No interleaving of
\* starts, cancels, kills, wakes and exits loses track of a java process.
NoOrphanJvm ==
    \A g \in Gens : Live(g) =>
        \/ entry.gen = g /\ entry.child
        \/ \E t \in Threads : tgen[t] = g /\ pc[t] \in {"attach", "terminate"}

\* Two JVMs of one server run at once only while a delete is terminating one of
\* them: concurrent starts, restarts, auto-restarts and wakes never both spawn.
BeingDeleted(g) == \E t \in Threads : pc[t] = "terminate" /\ tgen[t] = g
OneJvm ==
    \A g, h \in Gens :
        Live(g) /\ Live(h) /\ g # h => BeingDeleted(g) \/ BeingDeleted(h)

\* A reservation in the map always has its own start thread at work on it, so
\* "Server is already starting" cannot be the answer for ever.
ReservationOwned ==
    IsReservation(entry) =>
        \E t \in Threads : tgen[t] = entry.gen /\ pc[t] \in {"spawn", "attach", "release"}

\* A run with a child, and an adopted server, is watched by its supervisor.
RunSupervised ==
    entry.child \/ IsAdopted(entry) => spc[entry.gen] \in {"poll", "probe", "write"}

\* A sleeping server never sits in the map with nothing to wake it: its
\* listener is being bound, is bound and not told to stop, or a wake is under way.
SleepingIsWakeable ==
    entry.state = "sleeping" =>
        \/ spc[entry.gen] = "bind"
        \/ lst[entry.gen] \in {"bound", "serving"} /\ ~flag[entry.gen]
        \/ \E t \in Threads : from[t] = entry.gen /\ pc[t] # "idle"

\* Once a stop is requested the run stays `stopping`: a supervisor that
\* snapshotted `online` before the command never writes it back over the stop.
StopHolds == entry.stopRequested => entry.state = "stopping"

\* The listener of a run that is no longer asleep was told to stop, or is about
\* to be: it cannot keep the port for ever.
NoUnstoppableListener ==
    \A g \in Gens : lst[g] \in {"bound", "serving"} =>
        flag[g] \/ spc[g] = "attach" \/ (StillSleeping(g) /\ entry.listener)

\* Both ways: a sleeping server has a listener that wakes it, and no listener
\* outlives its run's sleep (sleep_listener.rs, release_sleeping).
ListenersHold == SleepingIsWakeable /\ NoUnstoppableListener

\* The run in the map, as ServerSlot sees it.
SlotPhase ==
    IF ~InMap THEN "free"
    ELSE IF entry.child THEN IF entry.stopRequested THEN "stopping" ELSE "running"
    ELSE IF IsAdopted(entry) THEN "adopted"
    ELSE IF entry.state = "sleeping" THEN "asleep"
    ELSE IF entry.stopRequested THEN "cancelled" ELSE "starting"

Slot == INSTANCE ServerSlot WITH
            Runs <- Gens, holder <- entry.gen, phase <- SlotPhase,
            last <- lastGen, live <- {g \in Gens : Live(g)}

\* The lifecycle implements the abstract slot: whatever the interleaving, the
\* key passes from run to run only as ServerSlot allows.
ImplementsSlot == Slot!Spec

--------------------------------------------------------------------------------
(* What the comments promise and the code does not keep. *)

\* force_kill_server says "Never fall through to the port-kill path (it would
\* target mserve's own PID)": an adopted server's port kill must never be
\* looking at mserve's own wake listener.
NeverKillsItself == ~(ListenerBound /\ \E t \in Threads : pc[t] = "portKill")

\* delete_server refuses a reservation because trashing the directory
\* "underneath the spawn would race the start": the directory must not be
\* trashed while a JVM runs in it.
NoJvmInTrashedDirectory == ~dir => \A g \in Gens : ~Live(g)

\* wake_server starts the server while "the entry is still `Sleeping`": a wake
\* must not start a server that was stopped after the player was accepted.
WakesOnlySleeping ==
    [][\A t \in Threads :
         ClaimKey(t) /\ from[t] # 0 => StillSleeping(from[t])]_vars

--------------------------------------------------------------------------------
(* Liveness. Threads are scheduled, a killed process ends, and a stop that     *)
(* overstays its grace is seen by some later poll.                              *)

Fairness ==
    /\ \A g \in Gens : /\ WF_vars(SupervisorStep(g))
                        /\ SF_vars(Escalate(g))
                        /\ WF_vars(ListenerStep(g))
                        /\ WF_vars(jvm[g] = "killed" /\ JvmExits(g))
    /\ \A t \in Threads : WF_vars(ThreadStep(t))

FairSpec == Spec /\ Fairness

\* A run asked to stop ends, whatever its JVM does with the request.
StopCompletes ==
    \A g \in Gens :
        (entry.gen = g /\ entry.child /\ entry.stopRequested)
            ~> ~(entry.gen = g /\ entry.child)

\* A reservation becomes a run or is released.
StartSettles ==
    \A g \in Gens :
        (entry.gen = g /\ IsReservation(entry))
            ~> ~(entry.gen = g /\ IsReservation(entry))

\* The port of a server that is no longer asleep is given back.
ListenerReleased ==
    \A g \in Gens :
        (lst[g] \in {"bound", "serving"} /\ ~StillSleeping(g)) ~> lst[g] = "gone"
================================================================================

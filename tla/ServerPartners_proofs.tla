------------------------ MODULE ServerPartners_proofs ------------------------
(***************************************************************************)
(* Proofs about what runs beside the lifecycle of a server, for any number  *)
(* of threads and runs: ServerBackups and ServerTunnel. Both take the       *)
(* lifecycle's inductive invariant over: its steps are steps of Next there. *)
(*                                                                          *)
(* Automatic backups and restores take turns. The invariant says in what    *)
(* state a restore finds the server; what is added is that a run's own      *)
(* backup exists only after the run (JobsAfterRuns), and that the key stays *)
(* free from the check of a restore on (KeyLeftAlone).                      *)
(*                                                                          *)
(* The agents of a server are accounted for, for any number of agents and   *)
(* switches. What a step of the lifecycle does to a run with an agent is    *)
(* taken from ServerSlot, which the lifecycle implements; what is added     *)
(* says which runs agents come up for.                                      *)
(***************************************************************************)
EXTENDS ServerBackups, ServerTunnel, ServerLifecycle_proofs

--------------------------------------------------------------------------------
(* Backups and restores.                                                    *)

\* A backup of a run's end is there only once its supervisor left the run.
JobsAfterRuns == \A g \in Gens : job[g] # "none" => spc[g] \in {"exited", "done"}

\* No run but an adopted one holds the key.
KeyUnclaimed == InMap => IsAdopted(entry)

\* From its check on, a restore has the key to itself.
KeyLeftAlone == restore \in {"checked", "copying"} => KeyUnclaimed

BInv == IInv /\ BackupTypeOK /\ OneAutoBackup /\ JobsAfterRuns /\ KeyLeftAlone

--------------------------------------------------------------------------------
(* What the steps of the lifecycle do to what backups look at. *)

\* While nothing but adoption takes the key, the only JVMs are being deleted.
LEMMA UnclaimedMeansAlone ==
    ASSUME IInv, KeyUnclaimed, NEW g \in Gens, Live(g) PROVE BeingDeleted(g)
<1>1. ~entry.child /\ ~IsReservation(entry)
    BY DEF IInv, TypeOK, Shape, KeyUnclaimed, InMap, IsAdopted, IsReservation, Absent,
       NewRuntime
<1>2. PICK t \in Threads : tgen[t] = g /\ pc[t] \in {"attach", "terminate"}
    BY <1>1 DEF IInv, NoOrphanJvm
<1>3. pc[t] # "attach" BY <1>1 DEF IInv, StartsOwn, StartPcs
<1>4. QED BY <1>2, <1>3 DEF BeingDeleted

\* Only a claim takes a key that is free, or that an adopted run holds.
LEMMA UnclaimedStays ==
    ASSUME IInv, KeyUnclaimed, [Next]_vars, \A t \in Threads : ~ClaimKey(t)
    PROVE  KeyUnclaimed'
<1>1. ~entry.child /\ ~IsReservation(entry) /\ entry.state # "sleeping"
    BY DEF IInv, TypeOK, Shape, KeyUnclaimed, InMap, IsAdopted, IsReservation, Absent,
       NewRuntime
<1>2. CASE entry' = entry BY <1>2 DEF KeyUnclaimed, InMap, IsAdopted
<1>3. CASE entry' = Absent BY <1>3 DEF KeyUnclaimed, InMap, Absent, NewRuntime
<1>4. CASE /\ entry'.gen = entry.gen /\ entry'.child = entry.child
           /\ entry'.java = entry.java
    BY <1>4 DEF KeyUnclaimed, InMap, IsAdopted
<1>5. ASSUME NEW t \in Threads, ThreadStep(t) PROVE KeyUnclaimed'
    <2>1. CASE RconAnswered(t)
        BY <1>2, <1>4, <2>1, MarkStoppingFields DEF RconAnswered, IInv, TypeOK
    <2>2. CASE AdoptExternal(t)
        BY <1>2, <2>2 DEF AdoptExternal, KeyUnclaimed, IsAdopted, InMap, NewRuntime
    <2>3. CASE AttachChild(t)
        BY <1>1, <2>3 DEF AttachChild, IInv, StartsOwn, StartPcs
    <2>4. CASE StartChecks(t) \/ StartRefused(t) \/ SpawnJvm(t) \/ SpawnFails(t)
               \/ CancelStart(t) \/ ReleaseReservation(t) \/ WakeFailed(t)
        BY <1>2, <1>3, <2>4 DEF StartChecks, StartRefused, SpawnJvm, SpawnFails,
           CancelStart, ReleaseReservation, WakeFailed, RemoveIfCurrent
    <2>5. CASE PortKill(t) \/ RestartProceeds(t) \/ BackoffEnds(t) \/ TerminateRuntime(t)
               \/ TrashDirectory(t) \/ SettingsSaved(t)
        BY <1>2, <1>3, <2>5 DEF PortKill, RestartProceeds, BackoffEnds, TerminateRuntime,
           TrashDirectory, SettingsSaved, RemoveIfCurrent
    <2>6. QED
        BY <1>5, <2>1, <2>2, <2>3, <2>4, <2>5 DEF ThreadStep, SpawnStep, CommandGoesOn
<1>6. ASSUME NEW t \in Threads, Command(t) PROVE KeyUnclaimed'
    BY <1>1, <1>2, <1>3, <1>4, <1>6, MarkStoppingFields
       DEF Command, StartServer, StopOverRcon, ForceKillAdopted, RestartServer,
           DeleteServer, EditSettings, ProbeUntracked, IInv, TypeOK
<1>7. ASSUME NEW g \in Gens, SupervisorStep(g) PROVE KeyUnclaimed'
    <2>1. CASE Write(g)
        <3>1. CASE entry.gen = g /\ entry' # Absent
            <4>1. \E new \in {NextState(snap[g], acc[g], miss[g]).state}, sleepNow \in BOOLEAN :
                      entry' = WriteBack(g, new, sleepNow)
                BY <2>1, <3>1, FlagsAssumption DEF Write
            <4>2. QED BY <1>4, <4>1 DEF WriteBack, IInv, TypeOK, Runtime
        <3>2. QED BY <1>2, <1>3, <2>1, <3>1 DEF Write
    <2>2. CASE AttachListener(g)
        BY <1>4, <2>2 DEF AttachListener, IInv, TypeOK, Runtime
    <2>3. CASE SupervisorStops(g) \/ Snapshot(g) \/ Probe(g) \/ BindListener(g)
               \/ BindFails(g) \/ ExitTerminal(g) \/ FinishExit(g)
        BY <1>2, <1>3, <2>3 DEF SupervisorStops, Snapshot, Probe, BindListener, BindFails,
           RemoveIfCurrent, ExitTerminal, FinishExit
    <2>4. QED
        BY <1>1, <1>7, <2>1, <2>2, <2>3
           DEF SupervisorStep, PollStep, ExitToSleep, Escalate, ChildExited
<1>8. CASE (\E g \in Gens : ListenerStep(g)) \/ OtherStep \/ UNCHANGED vars
    BY <1>1, <1>2, <1>3, <1>8
       DEF ListenerStep, ListenerExits, ListenerAccepts, ListenerServed, ListenerWakes,
           OtherStep, JvmBinds, JvmExits, StopSleeping, ReleaseSleeping, StopServer,
           SleepServer, ForceKill, ExternalServer, vars
<1>9. QED BY <1>5, <1>6, <1>7, <1>8 DEF Next

\* A supervisor that left its run does not come back to it.
LEMMA SupervisorsLeave ==
    ASSUME IInv, [Next]_vars, NEW g \in Gens, spc[g] \in {"exited", "done"}
    PROVE  spc'[g] \in {"exited", "done"}
<1>1. CASE spc' = spc BY <1>1
<1>2. ASSUME NEW t \in Threads, ThreadStep(t) PROVE spc'[g] \in {"exited", "done"}
    <2>1. CASE AttachChild(t)
        BY <2>1 DEF AttachChild, IInv, TypeOK, StartsOwn, StartPcs
    <2>2. CASE AdoptExternal(t)
        <3>1. lastGen + 1 # g
            <4>1. lastGen \in Nat /\ g \in Nat /\ g <= lastGen
                BY MaxGenAssumption DEF IInv, TypeOK, Fresh, Gens
            <4>2. QED BY <4>1
        <3>2. QED BY <2>2, <3>1 DEF AdoptExternal, IInv, TypeOK
    <2>3. QED
        BY <1>1, <1>2, <2>1, <2>2
           DEF ThreadStep, SpawnStep, CommandGoesOn, StartChecks, ClaimKey, StartRefused,
               SpawnJvm, SpawnFails, CancelStart, ReleaseReservation, WakeFailed,
               RconAnswered, PortKill, RestartProceeds, BackoffEnds, TerminateRuntime,
               TrashDirectory, SettingsSaved, supervisorVars
<1>3. ASSUME NEW t \in Threads, Command(t) PROVE spc'[g] \in {"exited", "done"}
    BY <1>1, <1>3
       DEF Command, StartServer, StopOverRcon, ForceKillAdopted, RestartServer,
           DeleteServer, EditSettings, ProbeUntracked, supervisorVars
<1>4. ASSUME NEW h \in Gens, SupervisorStep(h) PROVE spc'[g] \in {"exited", "done"}
    BY <1>4
       DEF SupervisorStep, PollStep, SupervisorStops, ExitToSleep, Snapshot, Escalate,
           TakeSnapshot, Probe, BindListener, BindFails, ExitTerminal, Write, FinishExit,
           AttachListener, IInv, TypeOK
<1>5. CASE (\E h \in Gens : ListenerStep(h)) \/ OtherStep \/ UNCHANGED vars
    BY <1>1, <1>5
       DEF ListenerStep, ListenerExits, ListenerAccepts, ListenerServed, ListenerWakes,
           OtherStep, JvmBinds, JvmExits, StopSleeping, ReleaseSleeping, StopServer,
           SleepServer, ForceKill, ExternalServer, vars, supervisorVars
<1>6. QED BY <1>2, <1>3, <1>4, <1>5 DEF Next

--------------------------------------------------------------------------------
(* Every step. *)

\* A step of the lifecycle among backups is a step of the lifecycle.
LEMMA LifecycleIsNext == ASSUME LifecycleStep PROVE Next
<1>1. CASE \E t \in Threads : StartGoesOn(t) \/ ClaimUnlessRestoring(t)
    BY <1>1 DEF StartGoesOn, ClaimUnlessRestoring, Next, ThreadStep
<1>2. CASE \E g \in Gens : RunEnds(g) \/ ExitSettled(g) \/ FallsAsleep(g) \/ WritesOnline(g)
    BY <1>2 DEF RunEnds, ExitSettled, FallsAsleep, WritesOnline, Next, SupervisorStep
<1>3. CASE \/ \E t \in Threads : SpawnStep(t) \/ CommandGoesOn(t) \/ Command(t)
           \/ \E g \in Gens : PollStep(g) \/ ListenerStep(g)
           \/ OtherStep
    BY <1>3 DEF Next, ThreadStep, SupervisorStep
<1>4. QED BY <1>1, <1>2, <1>3 DEF LifecycleStep

\* A claim that got past RESTORING finds no restore under way.
LEMMA ClaimsFindNoRestore ==
    ASSUME BInv, LifecycleStep, NEW t \in Threads, ClaimKey(t) PROVE restore = "idle"
<1>1. pc[t] = "claim" /\ pc'[t] = "spawn" /\ lastGen' = lastGen + 1 /\ lastGen' # lastGen
      /\ entry'.state = "starting" /\ entry'.java
    BY DEF ClaimKey, Goto, NewRuntime, BInv, IInv, TypeOK
<1>2. ~restoring /\ restore # "checked"
    <2>1. ASSUME NEW u \in Threads, StartGoesOn(u) PROVE FALSE
        BY <1>1, <2>1 DEF StartGoesOn, StartChecks
    <2>2. ASSUME NEW g \in Gens,
                 RunEnds(g) \/ ExitSettled(g) \/ FallsAsleep(g) \/ WritesOnline(g)
          PROVE  FALSE
        BY <1>1, <2>2
           DEF RunEnds, ExitSettled, FallsAsleep, WritesOnline, ExitTerminal, FinishExit,
               AttachListener, Write
    <2>3. ASSUME NEW u \in Threads, SpawnStep(u) \/ CommandGoesOn(u) \/ Command(u)
          PROVE  FALSE
        <3>1. ~SpawnStep(u)
            BY <1>1 DEF SpawnStep, StartRefused, SpawnJvm, SpawnFails, AttachChild,
               CancelStart, ReleaseReservation, WakeFailed
        <3>2. ~AdoptExternal(u) BY <1>1 DEF AdoptExternal, NewRuntime
        <3>3. ~CommandGoesOn(u)
            BY <1>1, <3>2 DEF CommandGoesOn, RconAnswered, PortKill, RestartProceeds,
               BackoffEnds, TerminateRuntime, TrashDirectory, SettingsSaved
        <3>4. ~Command(u)
            BY <1>1 DEF Command, StartServer, StopOverRcon, ForceKillAdopted,
               RestartServer, DeleteServer, EditSettings, ProbeUntracked
        <3>5. QED BY <2>3, <3>1, <3>3, <3>4
    <2>4. ASSUME NEW g \in Gens, PollStep(g) \/ ListenerStep(g) PROVE FALSE
        <3>1. ~PollStep(g)
            BY <1>1
               DEF PollStep, SupervisorStops, ExitToSleep, Snapshot, Escalate,
                   TakeSnapshot, Probe, BindListener, BindFails
        <3>2. ~ListenerStep(g)
            BY <1>1 DEF ListenerStep, ListenerExits, ListenerAccepts, ListenerServed,
               ListenerWakes
        <3>3. QED BY <2>4, <3>1, <3>2
    <2>5. ~OtherStep
        BY <1>1 DEF OtherStep, JvmBinds, JvmExits, StopSleeping, ReleaseSleeping,
           StopServer, SleepServer, ForceKill, ExternalServer
    <2>6. QED BY <2>1, <2>2, <2>3, <2>4, <2>5 DEF LifecycleStep, ClaimUnlessRestoring
<1>3. QED BY <1>2 DEF BInv, BackupTypeOK, RestoreStages

\* A step of the lifecycle begins a backup only where there is none.
LEMMA LifecycleJobs ==
    ASSUME BInv, LifecycleStep
    PROVE  \/ job' = job
           \/ \E j \in Jobs, stage \in {"early", "waiting", "spawned"} :
                 /\ job[j] = "none" /\ JobAt(j, stage)
                 /\ j \in Gens => spc'[j] \in {"exited", "done"}
<1>1. CASE job' = job BY <1>1
<1>2. ASSUME NEW g \in Gens, RunEnds(g), JobAt(g, "early")
      PROVE  job[g] = "none" /\ spc'[g] = "exited" /\ g \in Jobs
    BY <1>2 DEF RunEnds, ExitTerminal, BInv, JobsAfterRuns, IInv, TypeOK, Jobs
<1>3. ASSUME NEW g \in Gens, FallsAsleep(g), JobAt(g, "waiting")
      PROVE  job[g] = "none" /\ spc'[g] = "done" /\ g \in Jobs
    BY <1>3 DEF FallsAsleep, AttachListener, BInv, JobsAfterRuns, IInv, TypeOK, Jobs
<1>4. ASSUME NEW g \in Gens, WritesOnline(g), job' # job
      PROVE  job[Online] = "none" /\ JobAt(Online, "spawned") /\ Online \in Jobs
             /\ Online \notin Gens
    BY <1>4 DEF WritesOnline, Jobs, Online, Gens
<1>5. QED
    BY <1>1, <1>2, <1>3, <1>4
       DEF LifecycleStep, StartGoesOn, ClaimUnlessRestoring, RunEnds, ExitSettled,
           FallsAsleep

\* Steps of the lifecycle keep the invariant.
LEMMA LifecycleKeeps == ASSUME BInv, LifecycleStep PROVE BInv'
<1>1. Next BY LifecycleIsNext
<1>2. IInv' BY <1>1, NextInv DEF BInv
<1>3. UNCHANGED <<inFlight, restore, restoring>> BY DEF LifecycleStep
<1>4. KeyLeftAlone'
    <2>1. CASE restore = "idle" BY <1>3, <2>1 DEF KeyLeftAlone
    <2>2. CASE restore # "idle"
        <3>1. \A t \in Threads : ~ClaimKey(t) BY <2>2, ClaimsFindNoRestore
        <3>2. KeyUnclaimed BY <2>2 DEF BInv, KeyLeftAlone, BackupTypeOK, RestoreStages
        <3>3. KeyUnclaimed' BY <1>1, <3>1, <3>2, UnclaimedStays DEF BInv
        <3>4. QED BY <3>3 DEF KeyLeftAlone
    <2>3. QED BY <2>1, <2>2
<1>5. \A g \in Gens : spc[g] \in {"exited", "done"} => spc'[g] \in {"exited", "done"}
    BY <1>1, SupervisorsLeave DEF BInv
<1>6. CASE job' = job
    BY <1>2, <1>3, <1>4, <1>5, <1>6
       DEF BInv, BackupTypeOK, OneAutoBackup, JobsAfterRuns
<1>7. ASSUME NEW j \in Jobs, NEW stage \in {"early", "waiting", "spawned"},
             job[j] = "none", JobAt(j, stage),
             j \in Gens => spc'[j] \in {"exited", "done"}
      PROVE  BInv'
    <2>1. job' = [job EXCEPT ![j] = stage] BY <1>7 DEF JobAt
    <2>2. BackupTypeOK' BY <1>3, <2>1 DEF BInv, BackupTypeOK, JobStages
    <2>3. \A i \in Jobs : job'[i] \in {"claimed", "copying"} <=> job[i] \in {"claimed", "copying"}
        BY <1>7, <2>1 DEF BInv, BackupTypeOK
    <2>4. OneAutoBackup' BY <1>3, <2>3 DEF BInv, OneAutoBackup
    <2>5. JobsAfterRuns'
        BY <1>5, <1>7, <2>1 DEF BInv, JobsAfterRuns, BackupTypeOK, Jobs
    <2>6. QED BY <1>2, <1>4, <2>2, <2>4, <2>5 DEF BInv
<1>8. QED BY <1>6, <1>7, LifecycleJobs

\* Steps of a backup keep the invariant.
LEMMA JobKeeps == ASSUME BInv, NEW j \in Jobs, JobStep(j) PROVE BInv'
<1>1. UNCHANGED <<vars, restore, restoring>>
    BY DEF JobStep, Claims, FindsSlotTaken, StartsCopy, ReleasesSlot
<1>2. IInv' BY <1>1, StutterInv DEF BInv
<1>3. KeyLeftAlone' BY <1>1 DEF BInv, KeyLeftAlone, KeyUnclaimed, InMap, IsAdopted, vars
<1>4. PICK stage \in JobStages :
          /\ job[j] # "none" /\ job' = [job EXCEPT ![j] = stage]
          /\ \/ /\ job[j] \notin {"claimed", "copying"} /\ ~inFlight
                /\ stage = "claimed" /\ inFlight'
             \/ /\ job[j] \notin {"claimed", "copying"} /\ inFlight' = inFlight
                /\ stage \in {"waiting", "none"}
             \/ job[j] = "claimed" /\ stage = "copying" /\ inFlight' = inFlight
             \/ job[j] \in {"claimed", "copying"} /\ stage = "none" /\ ~inFlight'
    BY DEF JobStep, Claims, FindsSlotTaken, StartsCopy, ReleasesSlot, JobAt, JobStages
<1>5. BackupTypeOK'
    BY <1>1, <1>4 DEF BInv, BackupTypeOK, JobStep, Claims, FindsSlotTaken, StartsCopy,
       ReleasesSlot
<1>6. OneAutoBackup' BY <1>4 DEF BInv, BackupTypeOK, OneAutoBackup
<1>7. JobsAfterRuns'
    BY <1>1, <1>4 DEF BInv, BackupTypeOK, JobsAfterRuns, vars, supervisorVars
<1>8. QED BY <1>2, <1>3, <1>5, <1>6, <1>7 DEF BInv

\* Steps of a restore keep the invariant: its check finds the key free.
LEMMA RestoreKeeps == ASSUME BInv, RestoreStep PROVE BInv'
<1>1. UNCHANGED <<vars, inFlight, job>>
    BY DEF RestoreStep, RestoreChecks, RestoreClaims, RestoreEnds
<1>2. IInv' BY <1>1, StutterInv DEF BInv
<1>3. BackupTypeOK'
    BY <1>1 DEF BInv, BackupTypeOK, RestoreStages, RestoreStep, RestoreChecks,
       RestoreClaims, RestoreEnds
<1>4. OneAutoBackup' BY <1>1 DEF BInv, OneAutoBackup
<1>5. JobsAfterRuns' BY <1>1 DEF BInv, JobsAfterRuns, vars, supervisorVars
<1>6. KeyLeftAlone'
    <2>1. KeyUnclaimed' = KeyUnclaimed BY <1>1 DEF KeyUnclaimed, InMap, IsAdopted, vars
    <2>2. CASE RestoreChecks
        BY <2>1, <2>2 DEF RestoreChecks, BInv, IInv, Shape, KeyLeftAlone, KeyUnclaimed
    <2>3. CASE RestoreClaims BY <2>1, <2>3 DEF RestoreClaims, BInv, KeyLeftAlone
    <2>4. CASE RestoreEnds BY <2>4 DEF RestoreEnds, KeyLeftAlone
    <2>5. QED BY <2>2, <2>3, <2>4 DEF RestoreStep
<1>7. QED BY <1>2, <1>3, <1>4, <1>5, <1>6 DEF BInv

\* No backup and no restore is under way before the first run.
LEMMA BackupInitKeeps == ASSUME BackupInit PROVE BInv
<1>1. /\ IInv /\ restore = "idle" /\ restoring = FALSE /\ inFlight = FALSE
      /\ job = [j \in Jobs |-> "none"]
    BY InitInv DEF BackupInit
<1>2. \A j \in Jobs : job[j] = "none" BY <1>1
<1>3. BackupTypeOK BY <1>1 DEF BackupTypeOK, JobStages, RestoreStages
<1>4. OneAutoBackup BY <1>1, <1>2 DEF OneAutoBackup
<1>5. JobsAfterRuns BY <1>2 DEF JobsAfterRuns, Jobs
<1>6. KeyLeftAlone BY <1>1 DEF KeyLeftAlone
<1>7. QED BY <1>1, <1>3, <1>4, <1>5, <1>6 DEF BInv

\* No two automatic backups of a server, no restore and a start, and no restore
\* and a JVM but one being deleted, are ever at work on its world at once.
THEOREM BackupsAlwaysTakeTurns == BackupSpec => []BackupsTakeTurns
<1>1. BackupInit => BInv BY BackupInitKeeps
<1>2. BInv /\ [BackupNext]_allVars => BInv'
    <2>1. ASSUME BInv, BackupNext PROVE BInv'
        BY <2>1, LifecycleKeeps, RestoreKeeps, JobKeeps DEF BackupNext
    <2>2. ASSUME BInv, UNCHANGED allVars PROVE BInv'
        <3>1. UNCHANGED vars /\ UNCHANGED <<inFlight, job, restore, restoring>>
            BY <2>2 DEF allVars, backupVars
        <3>2. IInv' BY <2>2, <3>1, StutterInv DEF BInv
        <3>3. QED
            BY <2>2, <3>1, <3>2 DEF BInv, BackupTypeOK, OneAutoBackup, JobsAfterRuns,
               KeyLeftAlone, KeyUnclaimed, InMap, IsAdopted, vars, supervisorVars
    <2>3. QED BY <2>1, <2>2
<1>3. ASSUME BInv PROVE BackupsTakeTurns
    <2>1. restoring => KeyUnclaimed BY <1>3 DEF BInv, BackupTypeOK, KeyLeftAlone
    <2>2. RestoreAlone
        BY <1>3, <2>1, UnclaimedMeansAlone DEF BInv, RestoreAlone, KeyUnclaimed
    <2>3. QED BY <1>3, <2>2 DEF BInv, BackupsTakeTurns
<1>4. BInv => BackupsTakeTurns BY <1>3
<1>5. QED BY <1>1, <1>2, <1>4, PTL DEF BackupSpec

--------------------------------------------------------------------------------
(* The agents of the tunnel.                                                *)

\* An agent is brought up only for a run whose supervisor was started.
AgentsHaveRuns ==
    /\ \A a \in Agents : agent[a] # NoAgent => spc[agent[a].run] # "none"
    /\ switch.step = "launch" => spc[switch.run] # "none"

\* Until the switch is used it is idle, and a run gets one agent: none comes up
\* for a run that has one, and no two for the same run.
OneAgentARun ==
    switches = 0 =>
        /\ switch.step = "idle"
        /\ \A a \in Agents : agent[a].stage = "starting" /\ held # 0 =>
              agent[a].run # entry.gen
        /\ \A a, b \in Agents :
              /\ agent[a].stage = "starting" /\ agent[b].stage = "starting"
              /\ agent[a].run = agent[b].run
              => a = b

TInv == IInv /\ SleepersStop /\ TunnelTypeOK /\ HeldAgentServes /\ NoLeakedAgent
        /\ AgentsHaveRuns /\ OneAgentARun

\* A run that may have an agent: it has a JVM, or sleeps.
MayHaveAgent == entry.child \/ entry.state = "sleeping"

--------------------------------------------------------------------------------
(* What the steps of the lifecycle do to what the tunnel looks at. *)

\* A step of the lifecycle among tunnels is a step of the lifecycle.
LEMMA RunStepIsNext == ASSUME RunStep PROVE Next
<1>1. CASE \E t \in Threads : StartReads(t) \/ AttachLaunches(t)
    BY <1>1 DEF StartReads, AttachLaunches, Next, ThreadStep, SpawnStep
<1>2. CASE StopsItsAgent
    BY <1>2 DEF StopsItsAgent, EndsRun, Next, ThreadStep, SpawnStep, CommandGoesOn,
       Command, SupervisorStep, PollStep, OtherStep
<1>3. CASE NeverHadOne
    BY <1>3 DEF NeverHadOne, Next, ThreadStep, SpawnStep, CommandGoesOn, Command,
       SupervisorStep, PollStep, OtherStep
<1>4. QED BY <1>1, <1>2, <1>3 DEF RunStep

\* A run with a JVM, or asleep, stays one of the two for as long as it holds the
\* key: the slot allows nothing else.
LEMMA RunsStay ==
    ASSUME IInv, SleepersStop, [Next]_vars, MayHaveAgent, entry'.gen = entry.gen
    PROVE  MayHaveAgent'
<1>1. SlotStep /\ IInv' BY NextSlot, NextInv DEF Implements
<1>2. SlotPhase \in {"running", "stopping", "asleep"}
    BY PhaseFacts DEF MayHaveAgent, IInv, TypeOK, Runtime
<1>3. entry.gen # 0 /\ entry.gen <= lastGen /\ entry.gen \in Nat /\ lastGen \in Nat
    BY MaxGenAssumption
       DEF MayHaveAgent, IInv, TypeOK, Shape, Fresh, InMap, Absent, NewRuntime, Runtime
<1>4. SlotPhase' \in {"running", "stopping", "asleep"}
    BY <1>1, <1>2, <1>3
       DEF SlotStep, Slot!slot, Slot!Next, Slot!Claim, Slot!Adopt, Slot!TakenBy, Slot!Spawn,
           Slot!Run, Slot!Cancel, Slot!Stop, Slot!Sleep, Slot!Become, Slot!Leave,
           Slot!ProcessEnds
<1>5. QED BY <1>4 DEF SlotPhase, MayHaveAgent

\* A supervisor that was started is never unmade.
LEMMA SupervisorsRemain ==
    ASSUME IInv, [Next]_vars, NEW g \in Gens, spc[g] # "none" PROVE spc'[g] # "none"
<1>1. CASE spc' = spc BY <1>1
<1>2. ASSUME NEW t \in Threads, ThreadStep(t) PROVE spc'[g] # "none"
    BY <1>1, <1>2
       DEF ThreadStep, SpawnStep, CommandGoesOn, StartChecks, ClaimKey, StartRefused,
           SpawnJvm, SpawnFails, AttachChild, CancelStart, ReleaseReservation, WakeFailed,
           RconAnswered, PortKill, RestartProceeds, BackoffEnds, TerminateRuntime,
           TrashDirectory, SettingsSaved, AdoptExternal, supervisorVars, IInv, TypeOK
<1>3. ASSUME NEW t \in Threads, Command(t) PROVE spc'[g] # "none"
    BY <1>1, <1>3
       DEF Command, StartServer, StopOverRcon, ForceKillAdopted, RestartServer,
           DeleteServer, EditSettings, ProbeUntracked, supervisorVars
<1>4. ASSUME NEW h \in Gens, SupervisorStep(h) PROVE spc'[g] # "none"
    BY <1>4
       DEF SupervisorStep, PollStep, SupervisorStops, ExitToSleep, Snapshot, Escalate,
           TakeSnapshot, Probe, BindListener, BindFails, ExitTerminal, Write, FinishExit,
           AttachListener, IInv, TypeOK
<1>5. CASE (\E h \in Gens : ListenerStep(h)) \/ OtherStep \/ UNCHANGED vars
    BY <1>1, <1>5
       DEF ListenerStep, ListenerExits, ListenerAccepts, ListenerServed, ListenerWakes,
           OtherStep, JvmBinds, JvmExits, StopSleeping, ReleaseSleeping, StopServer,
           SleepServer, ForceKill, ExternalServer, vars, supervisorVars
<1>6. QED BY <1>2, <1>3, <1>4, <1>5 DEF Next

\* The runs that the steps which stop no agent take out of the map, or put into
\* it, have none: a start's, and an adopted server's.
LEMMA DroppedHadNone ==
    ASSUME IInv, NeverHadOne, entry'.gen # entry.gen PROVE ~MayHaveAgent
<1>1. IsReservation(entry) \/ IsAdopted(entry) \/ ~InMap => ~MayHaveAgent
    BY DEF IInv, TypeOK, Shape, MayHaveAgent, IsReservation, IsAdopted, InMap, Absent,
       NewRuntime
<1>2. ASSUME NEW t \in Threads,
             \/ StartRefused(t) \/ SpawnJvm(t) \/ SpawnFails(t) \/ CancelStart(t)
             \/ RestartProceeds(t) \/ BackoffEnds(t) \/ TerminateRuntime(t)
             \/ TrashDirectory(t) \/ StartServer(t) \/ StopOverRcon(t) \/ EditSettings(t)
             \/ ProbeUntracked(t)
      PROVE  FALSE
    BY <1>2 DEF StartRefused, SpawnJvm, SpawnFails, CancelStart, RestartProceeds,
       BackoffEnds, TerminateRuntime, TrashDirectory, StartServer, StopOverRcon,
       EditSettings, ProbeUntracked
<1>3. ASSUME NEW t \in Threads, RconAnswered(t) \/ ForceKillAdopted(t) \/ RestartServer(t)
      PROVE  FALSE
    BY <1>3, MarkStoppingFields DEF RconAnswered, ForceKillAdopted, RestartServer, IInv,
       TypeOK
<1>4. ASSUME NEW t \in Threads, ReleaseReservation(t) PROVE IsReservation(entry)
    BY <1>4 DEF ReleaseReservation, IInv, StartsOwn, StartPcs
<1>5. ASSUME NEW t \in Threads, PortKill(t) PROVE IsAdopted(entry)
    BY <1>5 DEF PortKill, RemoveIfCurrent, IInv, ThreadsHold
<1>6. ASSUME NEW t \in Threads, AdoptExternal(t) PROVE ~InMap
    BY <1>6 DEF AdoptExternal
<1>7. ASSUME NEW g \in Gens,
             \/ SupervisorStops(g) \/ Snapshot(g) \/ Probe(g) \/ FinishExit(g)
             \/ BindListener(g) \/ ListenerStep(g) \/ JvmBinds(g) \/ JvmExits(g)
      PROVE  FALSE
    BY <1>7 DEF SupervisorStops, Snapshot, TakeSnapshot, Probe, FinishExit, BindListener,
       ListenerStep, ListenerExits, ListenerAccepts, ListenerServed, ListenerWakes,
       JvmBinds, JvmExits
<1>8. ASSUME NEW g \in Gens, ExitToSleep(g) \/ Escalate(g) \/ AttachListener(g) PROVE FALSE
    BY <1>8 DEF ExitToSleep, Escalate, AttachListener, IInv, TypeOK, Runtime
<1>9. ASSUME NEW g \in Gens, Write(g) PROVE ~MayHaveAgent
    <2>1. entry.gen = g /\ spc[g] = "write" BY <1>9 DEF Write
    <2>2. entry.state # "sleeping" BY <2>1 DEF IInv, SleepersParked
    <2>3. CASE NextState(snap[g], acc[g], miss[g]).off
        <3>1. /\ snap[g] \in Snapshots /\ acc[g] \in BOOLEAN
              /\ miss[g] \in 0..OfflineStreak /\ miss[g] < OfflineStreak
            BY <2>1 DEF IInv, TypeOK, MissesCounted, ActivePcs
        <3>2. ~snap[g].child BY <2>3, <3>1, NextStateFacts
        <3>3. QED BY <2>1, <2>2, <3>2 DEF IInv, SnapshotsHold, MayHaveAgent
    <2>4. CASE ~NextState(snap[g], acc[g], miss[g]).off
        <3>1. \E new \in {NextState(snap[g], acc[g], miss[g]).state}, sleepNow \in BOOLEAN :
                  entry' = WriteBack(g, new, sleepNow)
            BY <1>9, <2>1, <2>4, FlagsAssumption DEF Write
        <3>2. entry'.gen = entry.gen BY <3>1 DEF WriteBack, IInv, TypeOK, Runtime
        <3>3. QED BY <3>2
    <2>5. QED BY <2>3, <2>4
<1>10. ASSUME StopServer \/ SleepServer \/ ForceKill \/ ExternalServer PROVE FALSE
    <2>1. MarkStopping(entry) \in Runtime /\ MarkStopping(entry).gen = entry.gen
        BY MarkStoppingFields DEF IInv, TypeOK
    <2>2. QED
        BY <1>10, <2>1 DEF StopServer, SleepServer, ForceKill, ExternalServer, Runtime
<1>11. QED
    BY <1>1, <1>2, <1>3, <1>4, <1>5, <1>6, <1>7, <1>8, <1>9, <1>10 DEF NeverHadOne

--------------------------------------------------------------------------------
(* Every step. *)

\* launch_tunnel brings up one new agent, for the run it was called for.
LEMMA LaunchFacts ==
    ASSUME TunnelTypeOK, NEW run \in Gens, NEW on, Launch(run, on)
    PROVE  \/ agent' = agent
           \/ \E a \in Agents :
                 /\ agent[a] = NoAgent
                 /\ agent' = [agent EXCEPT ![a] = [stage |-> "starting", run |-> run]]
BY DEF Launch

\* An agent is one of none, coming up for a run, and up for a run.
LEMMA AgentFacts ==
    ASSUME TunnelTypeOK, NEW a \in Agents
    PROVE  /\ a # 0
           /\ agent[a] = NoAgent <=> agent[a].stage = "none"
           /\ agent[a] # NoAgent => /\ agent[a].run \in Gens
                                    /\ agent[a].stage \in {"starting", "up"}
BY BoundsAssumption DEF TunnelTypeOK, NoAgent, Agents

\* A step of the lifecycle keeps what it says of itself.
LEMMA LifecycleFacts ==
    ASSUME TInv, RunStep
    PROVE  /\ IInv' /\ SleepersStop'
           /\ \A g \in Gens : spc[g] # "none" => spc'[g] # "none"
           /\ held # 0 /\ entry'.gen = entry.gen => MayHaveAgent'
           /\ UNCHANGED <<enabled, switch, switches>>
<1>1. Next BY RunStepIsNext
<1>2. IInv' /\ SleepersStop' BY <1>1, NextInv, NextSlot DEF TInv, Implements
<1>3. \A g \in Gens : spc[g] # "none" => spc'[g] # "none"
    BY <1>1, SupervisorsRemain DEF TInv
<1>4. held # 0 => MayHaveAgent BY DEF TInv, HeldAgentServes, MayHaveAgent
<1>5. held # 0 /\ entry'.gen = entry.gen => MayHaveAgent'
    BY <1>1, <1>4, RunsStay DEF TInv
<1>6. QED BY <1>2, <1>3, <1>5 DEF RunStep

\* A step that leaves the agents alone, and drops a handle only where there is
\* none.
LEMMA AgentsUntouched ==
    ASSUME TInv, RunStep, agent' = agent, wants' \in [Threads -> BOOLEAN],
           held' = held, entry'.gen # entry.gen => held = 0
    PROVE  TInv'
<1>1. IInv' /\ SleepersStop' /\ UNCHANGED <<enabled, switch, switches>>
    BY LifecycleFacts
<1>2. TunnelTypeOK' BY <1>1 DEF TInv, TunnelTypeOK
<1>3. HeldAgentServes'
    BY LifecycleFacts DEF TInv, HeldAgentServes, MayHaveAgent
<1>4. NoLeakedAgent' BY <1>1 DEF TInv, NoLeakedAgent
<1>5. AgentsHaveRuns'
    <2>1. \A a \in Agents : agent[a] # NoAgent => agent[a].run \in Gens
        BY AgentFacts DEF TInv
    <2>2. switch.step = "launch" => switch.run \in Gens
        BY DEF TInv, TunnelTypeOK, Switches
    <2>3. QED BY <1>1, <2>1, <2>2, LifecycleFacts DEF TInv, AgentsHaveRuns
<1>6. OneAgentARun' BY <1>1 DEF TInv, OneAgentARun
<1>7. QED BY <1>1, <1>2, <1>3, <1>4, <1>5, <1>6 DEF TInv

\* Stopping the agent in the entry leaves the others as they are, and none up
\* that nobody holds.
LEMMA StopsHeldKeeps ==
    ASSUME TInv, StopsHeld,
           IInv', SleepersStop', \A g \in Gens : spc[g] # "none" => spc'[g] # "none",
           enabled' \in BOOLEAN, wants' \in [Threads -> BOOLEAN], switches' = switches,
           switch' \in {switch, [step |-> "idle", run |-> 0]}
    PROVE  TInv'
<1>1. held' = 0 BY DEF StopsHeld
<1>2. \A a \in Agents : agent'[a] = IF a = held THEN NoAgent ELSE agent[a]
    BY AgentFacts DEF StopsHeld, TInv, TunnelTypeOK
<1>3. TunnelTypeOK'
    <2>1. agent' \in [Agents -> {NoAgent} \union [stage : {"starting", "up"}, run : Gens]]
        BY DEF StopsHeld, TInv, TunnelTypeOK
    <2>2. switch' \in Switches BY DEF TInv, TunnelTypeOK, Switches
    <2>3. QED BY <1>1, <2>1, <2>2 DEF TInv, TunnelTypeOK
<1>4. HeldAgentServes' BY <1>1 DEF HeldAgentServes
<1>5. NoLeakedAgent' BY <1>2 DEF TInv, NoLeakedAgent, NoAgent
<1>6. AgentsHaveRuns'
    <2>1. \A a \in Agents : agent[a] # NoAgent => agent[a].run \in Gens
        BY AgentFacts DEF TInv
    <2>2. switch.step = "launch" => switch.run \in Gens
        BY DEF TInv, TunnelTypeOK, Switches
    <2>3. QED BY <1>2, <2>1, <2>2 DEF TInv, AgentsHaveRuns
<1>7. OneAgentARun' BY <1>1, <1>2 DEF TInv, OneAgentARun, NoAgent
<1>8. QED BY <1>3, <1>4, <1>5, <1>6, <1>7 DEF TInv

\* The start that attaches its JVM launches the first agent of its run.
LEMMA AttachLaunchesKeeps ==
    ASSUME TInv, RunStep, NEW t \in Threads, AttachLaunches(t) PROVE TInv'
<1>1. /\ IsReservation(entry) /\ tgen[t] = entry.gen /\ spc[tgen[t]] = "none"
      /\ tgen[t] \in Gens
    BY DEF AttachLaunches, AttachChild, TInv, IInv, TypeOK, StartsOwn, StartPcs,
       IsReservation, Gens
<1>2. ~MayHaveAgent
    BY <1>1 DEF TInv, IInv, Shape, MayHaveAgent, IsReservation
<1>3. held = 0 /\ held' = 0
    BY <1>2 DEF TInv, HeldAgentServes, MayHaveAgent, AttachLaunches
<1>4. wants' \in [Threads -> BOOLEAN] BY DEF AttachLaunches, TInv, TunnelTypeOK
<1>5. CASE agent' = agent BY <1>3, <1>4, <1>5, AgentsUntouched
<1>6. CASE \E a \in Agents :
               /\ agent[a] = NoAgent
               /\ agent' = [agent EXCEPT ![a] = [stage |-> "starting", run |-> tgen[t]]]
    <2>1. PICK a \in Agents :
              /\ agent[a] = NoAgent
              /\ agent' = [agent EXCEPT ![a] = [stage |-> "starting", run |-> tgen[t]]]
        BY <1>6
    <2>2. IInv' /\ SleepersStop' /\ UNCHANGED <<enabled, switch, switches>>
        BY LifecycleFacts
    <2>3. \A b \in Agents : agent'[b] =
              IF b = a THEN [stage |-> "starting", run |-> tgen[t]] ELSE agent[b]
        BY <2>1 DEF TInv, TunnelTypeOK
    <2>4. TunnelTypeOK' BY <1>1, <1>3, <1>4, <2>1, <2>2 DEF TInv, TunnelTypeOK
    <2>5. HeldAgentServes' BY <1>3 DEF HeldAgentServes
    <2>6. NoLeakedAgent' BY <1>3, <2>2, <2>3 DEF TInv, NoLeakedAgent
    <2>7. spc'[tgen[t]] = "poll"
        BY <1>1 DEF AttachLaunches, AttachChild, TInv, IInv, TypeOK
    <2>8. \A b \in Agents : agent[b] # NoAgent => agent[b].run \in Gens
        BY AgentFacts DEF TInv
    <2>9. switch.step = "launch" => switch.run \in Gens
        BY DEF TInv, TunnelTypeOK, Switches
    <2>10. AgentsHaveRuns'
        BY <2>2, <2>3, <2>7, <2>8, <2>9, LifecycleFacts DEF TInv, AgentsHaveRuns
    <2>11. \A b \in Agents : agent[b].stage = "starting" => agent[b].run # tgen[t]
        BY <1>1, AgentFacts DEF TInv, AgentsHaveRuns, NoAgent
    <2>12. OneAgentARun' BY <1>3, <2>2, <2>3, <2>11 DEF TInv, OneAgentARun
    <2>13. QED BY <2>2, <2>4, <2>5, <2>6, <2>10, <2>12 DEF TInv
<1>7. QED BY <1>1, <1>5, <1>6, LaunchFacts DEF AttachLaunches, TInv

\* Steps of the lifecycle keep the invariant.
LEMMA RunStepKeeps == ASSUME TInv, RunStep PROVE TInv'
<1>1. CASE \E t \in Threads : StartReads(t)
    <2>1. PICK t \in Threads : StartReads(t) BY <1>1
    <2>2. wants' \in [Threads -> BOOLEAN] BY <2>1 DEF StartReads, TInv, TunnelTypeOK
    <2>3. entry' = entry BY <2>1 DEF StartReads, StartChecks
    <2>4. QED BY <2>1, <2>2, <2>3, AgentsUntouched DEF StartReads
<1>2. CASE \E t \in Threads : AttachLaunches(t) BY <1>2, AttachLaunchesKeeps
<1>3. CASE StopsItsAgent
    <2>1. wants' \in [Threads -> BOOLEAN] BY <1>3 DEF StopsItsAgent, TInv, TunnelTypeOK
    <2>2. CASE entry'.gen = entry.gen
        BY <1>3, <2>1, <2>2, AgentsUntouched DEF StopsItsAgent
    <2>3. CASE entry'.gen # entry.gen
        <3>1. enabled' \in BOOLEAN BY LifecycleFacts DEF TInv, TunnelTypeOK
        <3>2. QED
            BY <1>3, <2>1, <2>3, <3>1, LifecycleFacts, StopsHeldKeeps DEF StopsItsAgent
    <2>4. QED BY <2>2, <2>3
<1>4. CASE NeverHadOne
    <2>1. wants' \in [Threads -> BOOLEAN] BY <1>4 DEF NeverHadOne, TInv, TunnelTypeOK
    <2>2. entry'.gen # entry.gen => held = 0
        BY <1>4, DroppedHadNone DEF TInv, HeldAgentServes, MayHaveAgent
    <2>3. QED BY <1>4, <2>1, <2>2, AgentsUntouched DEF NeverHadOne
<1>5. QED BY <1>1, <1>2, <1>3, <1>4 DEF RunStep

\* An agent that comes up is the one its run holds, or is stopped at once.
LEMMA AgentKeeps ==
    ASSUME TInv, NEW a \in Agents, AgentUp(a) \/ AgentFails(a) PROVE TInv'
<1>1. UNCHANGED vars /\ UNCHANGED <<enabled, wants, switch, switches>>
    BY DEF AgentUp, AgentFails
<1>2. IInv' BY <1>1, StutterInv DEF TInv
<1>3. SleepersStop' /\ UNCHANGED <<entry, spc>>
    BY <1>1 DEF TInv, SleepersStop, vars, supervisorVars
<1>4. agent[a].stage = "starting" /\ agent[a] # NoAgent /\ agent[a].run \in Gens
    BY AgentFacts DEF AgentUp, AgentFails, TInv
<1>5. CASE held' = held /\ agent' = [agent EXCEPT ![a] = NoAgent]
    <2>1. \A b \in Agents : agent'[b] = IF b = a THEN NoAgent ELSE agent[b]
        BY <1>5 DEF TInv, TunnelTypeOK
    <2>2. TunnelTypeOK' BY <1>1, <1>5 DEF TInv, TunnelTypeOK
    <2>3. held # a BY <1>4, AgentFacts DEF TInv, HeldAgentServes
    <2>4. held # 0 => held \in Agents BY DEF TInv, TunnelTypeOK
    <2>5. HeldAgentServes' BY <1>3, <1>5, <2>1, <2>3, <2>4 DEF TInv, HeldAgentServes
    <2>6. NoLeakedAgent' BY <1>1, <1>5, <2>1 DEF TInv, NoLeakedAgent, NoAgent
    <2>7. AgentsHaveRuns' BY <1>1, <1>3, <2>1 DEF TInv, AgentsHaveRuns
    <2>8. OneAgentARun' BY <1>1, <1>3, <1>5, <2>1 DEF TInv, OneAgentARun, NoAgent
    <2>9. QED BY <1>2, <1>3, <2>2, <2>5, <2>6, <2>7, <2>8 DEF TInv
<1>6. CASE Serves(a) /\ held' = a /\ agent' = [agent EXCEPT ![a].stage = "up"]
    <2>1. \A b \in Agents :
              /\ b # a => agent'[b] = agent[b]
              /\ agent'[a].stage = "up" /\ agent'[a].run = agent[a].run
              /\ agent'[a] = [stage |-> "up", run |-> agent[a].run]
        BY <1>4, <1>6 DEF TInv, TunnelTypeOK, NoAgent
    <2>2. TunnelTypeOK'
        <3>1. agent' \in [Agents -> {NoAgent} \union [stage : {"starting", "up"}, run : Gens]]
            BY <1>4, <1>6, <2>1 DEF TInv, TunnelTypeOK
        <3>2. QED BY <1>1, <1>6, <3>1 DEF TInv, TunnelTypeOK
    <2>3. HeldAgentServes' BY <1>3, <1>6, <2>1 DEF HeldAgentServes, Serves
    <2>4. switches = 0 => held = 0
        BY <1>4, <1>6 DEF TInv, OneAgentARun, Serves
    <2>5. NoLeakedAgent'
        <3>1. switches = 0 => \A b \in Agents : agent[b].stage # "up"
            BY <2>4, AgentFacts DEF TInv, NoLeakedAgent
        <3>2. QED BY <1>1, <1>6, <2>1, <3>1 DEF NoLeakedAgent
    <2>6. AgentsHaveRuns' BY <1>1, <1>3, <1>4, <2>1 DEF TInv, AgentsHaveRuns
    <2>7. OneAgentARun'
        BY <1>1, <1>3, <1>4, <1>6, <2>1 DEF TInv, OneAgentARun, Serves
    <2>8. QED BY <1>2, <1>3, <2>2, <2>3, <2>5, <2>6, <2>7 DEF TInv
<1>7. QED BY <1>5, <1>6 DEF AgentUp, AgentFails

\* Steps of set_server_tunnel keep the invariant.
LEMMA SwitchKeeps == ASSUME TInv, SwitchStep PROVE TInv'
<1>1. UNCHANGED vars /\ UNCHANGED wants
    BY DEF SwitchStep, SwitchSaved, SwitchOn, SwitchLaunches, SwitchOff
<1>2. IInv' BY <1>1, StutterInv DEF TInv
<1>3. SleepersStop' /\ UNCHANGED <<entry, spc>>
    BY <1>1 DEF TInv, SleepersStop, vars, supervisorVars
<1>4. CASE SwitchSaved
    <2>1. switches' \in 1..MaxSwitches /\ switches' # 0
        BY <1>4, BoundsAssumption DEF SwitchSaved, TInv, TunnelTypeOK
    <2>2. TunnelTypeOK'
        BY <1>1, <1>4, <2>1, BoundsAssumption DEF SwitchSaved, TInv, TunnelTypeOK, Switches
    <2>3. HeldAgentServes' BY <1>3, <1>4 DEF SwitchSaved, TInv, HeldAgentServes
    <2>4. NoLeakedAgent' /\ OneAgentARun' BY <2>1 DEF NoLeakedAgent, OneAgentARun
    <2>5. AgentsHaveRuns' BY <1>3, <1>4 DEF SwitchSaved, TInv, AgentsHaveRuns
    <2>6. QED BY <1>2, <1>3, <2>2, <2>3, <2>4, <2>5 DEF TInv
<1>5. CASE SwitchOn
    <2>1. switches # 0 BY <1>5 DEF SwitchOn, TInv, OneAgentARun
    <2>2. entry.child => entry.gen \in Gens /\ spc[entry.gen] # "none"
        BY DEF TInv, IInv, TypeOK, Shape, RunSupervised, InMap, Absent, NewRuntime, Runtime,
           Gens
    <2>3. TunnelTypeOK' BY <1>1, <1>5, <2>2 DEF SwitchOn, TInv, TunnelTypeOK, Switches
    <2>4. HeldAgentServes' BY <1>3, <1>5 DEF SwitchOn, TInv, HeldAgentServes
    <2>5. NoLeakedAgent' /\ OneAgentARun'
        BY <1>5, <2>1 DEF SwitchOn, NoLeakedAgent, OneAgentARun
    <2>6. AgentsHaveRuns' BY <1>3, <1>5, <2>2 DEF SwitchOn, TInv, AgentsHaveRuns
    <2>7. QED BY <1>2, <1>3, <2>3, <2>4, <2>5, <2>6 DEF TInv
<1>6. CASE SwitchLaunches
    <2>1. switches # 0 /\ switch.run \in Gens /\ spc[switch.run] # "none"
        BY <1>6 DEF SwitchLaunches, TInv, OneAgentARun, AgentsHaveRuns, TunnelTypeOK,
           Switches
    <2>2. UNCHANGED <<enabled, held, switches>> /\ switch' = [step |-> "idle", run |-> 0]
        BY <1>6 DEF SwitchLaunches
    <2>3. \/ agent' = agent
          \/ \E a \in Agents :
                /\ agent[a] = NoAgent
                /\ agent' = [agent EXCEPT ![a] = [stage |-> "starting", run |-> switch.run]]
        BY <1>6, <2>1, LaunchFacts DEF SwitchLaunches, TInv
    <2>4. \A b \in Agents : \/ agent'[b] = agent[b]
                            \/ /\ agent[b] = NoAgent
                               /\ agent'[b] = [stage |-> "starting", run |-> switch.run]
        BY <2>3 DEF TInv, TunnelTypeOK
    <2>5. TunnelTypeOK'
        BY <1>1, <2>1, <2>2, <2>3 DEF TInv, TunnelTypeOK, Switches
    <2>6. HeldAgentServes'
        <3>1. held # 0 => held \in Agents /\ agent[held] # NoAgent
            BY DEF TInv, TunnelTypeOK, HeldAgentServes, NoAgent
        <3>2. QED BY <1>3, <2>2, <2>4, <3>1 DEF TInv, HeldAgentServes
    <2>7. NoLeakedAgent' /\ OneAgentARun' BY <2>1, <2>2 DEF NoLeakedAgent, OneAgentARun
    <2>8. AgentsHaveRuns' BY <1>3, <2>1, <2>2, <2>4 DEF TInv, AgentsHaveRuns
    <2>9. QED BY <1>2, <1>3, <2>5, <2>6, <2>7, <2>8 DEF TInv
<1>7. CASE SwitchOff
    BY <1>1, <1>2, <1>3, <1>7, StopsHeldKeeps DEF SwitchOff, TInv, TunnelTypeOK
<1>8. QED BY <1>4, <1>5, <1>6, <1>7 DEF SwitchStep

\* There is no agent before the first run.
LEMMA TunnelInitKeeps == ASSUME TunnelInit PROVE TInv
<1>1. IInv /\ SleepersStop
    <2>1. Init BY DEF TunnelInit
    <2>2. SleepersStop BY <2>1 DEF Init, SleepersStop, Absent, NewRuntime
    <2>3. QED BY <2>1, <2>2, InitInv
<1>2. /\ held = 0 /\ switches = 0 /\ switch = [step |-> "idle", run |-> 0]
      /\ agent = [a \in Agents |-> NoAgent]
    BY DEF TunnelInit
<1>3. TunnelTypeOK
    BY <1>2, BoundsAssumption DEF TunnelInit, TunnelTypeOK, Switches
<1>4. HeldAgentServes BY <1>2 DEF HeldAgentServes
<1>5. NoLeakedAgent /\ AgentsHaveRuns /\ OneAgentARun
    BY <1>2 DEF NoLeakedAgent, AgentsHaveRuns, OneAgentARun, NoAgent
<1>6. QED BY <1>1, <1>3, <1>4, <1>5 DEF TInv

\* Whatever starts, stops, sleeps, wakes and deletes race with an agent that is
\* coming up, the one the entry holds serves its run; and until the user turns
\* the tunnel off or on, no other is up.
THEOREM AgentsAlwaysAccountedFor == TunnelSpec => []AgentsAccountedFor
<1>1. TunnelInit => TInv BY TunnelInitKeeps
<1>2. TInv /\ [TunnelNext]_tunnelledVars => TInv'
    <2>1. ASSUME TInv, TunnelNext PROVE TInv'
        BY <2>1, RunStepKeeps, SwitchKeeps, AgentKeeps DEF TunnelNext
    <2>2. ASSUME TInv, UNCHANGED tunnelledVars PROVE TInv'
        <3>1. UNCHANGED vars /\ UNCHANGED <<enabled, wants, agent, held, switch, switches>>
            BY <2>2 DEF tunnelledVars, tunnelVars
        <3>2. IInv' BY <2>2, <3>1, StutterInv DEF TInv
        <3>3. UNCHANGED <<entry, spc>> BY <3>1 DEF vars, supervisorVars
        <3>4. QED
            BY <2>2, <3>1, <3>2, <3>3 DEF TInv, SleepersStop, TunnelTypeOK, HeldAgentServes,
               NoLeakedAgent, AgentsHaveRuns, OneAgentARun
    <2>3. QED BY <2>1, <2>2
<1>3. TInv => AgentsAccountedFor BY DEF TInv, AgentsAccountedFor
<1>4. QED BY <1>1, <1>2, <1>3, PTL DEF TunnelSpec
================================================================================

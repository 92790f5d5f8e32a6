----------------------------- MODULE ServerBackups -----------------------------
(***************************************************************************)
(* The automatic backups and the restores of one server, over its          *)
(* lifecycle. A backup runs on the supervisor thread that saw its run end   *)
(* (on close, or on falling asleep), or on a thread of its own while the    *)
(* server is online (on start, on an interval). All of them share one slot, *)
(* IN_FLIGHT, that starts wait for and restores look at; a restore marks    *)
(* RESTORING, that starts and backups look at. The slot and the mark have   *)
(* locks of their own: only the steps below say what is atomic with what.   *)
(***************************************************************************)
EXTENDS ServerLifecycle

VARIABLES
    inFlight,    \* does IN_FLIGHT hold the server's key?
    job,         \* where each automatic backup is
    restore,     \* where the restore command is (bound: one at a time)
    restoring    \* does RESTORING hold the server's key?

backupVars == <<inFlight, job, restore, restoring>>
allVars    == <<vars, backupVars>>

\* The backup of a run's end is named by the run; Online is the one a running
\* server's supervisor spawns (bound: one such thread at a time).
Online == 0
Jobs   == Gens \union {Online}

JobStages     == {"none", "early", "waiting", "spawned", "claimed", "copying"}
RestoreStages == {"idle", "checked", "copying"}

BackupTypeOK ==
    /\ inFlight \in BOOLEAN
    /\ job \in [Jobs -> JobStages]
    /\ restore \in RestoreStages
    /\ restoring = (restore = "copying")

BackupInit ==
    /\ Init
    /\ inFlight = FALSE
    /\ job = [j \in Jobs |-> "none"]
    /\ restore = "idle"
    /\ restoring = FALSE

--------------------------------------------------------------------------------
(* run_auto_backup. *)

JobAt(j, stage) == job' = [job EXCEPT ![j] = stage]

\* InFlight::claim on a free slot.
Claims(j) ==
    /\ job[j] \in {"early", "waiting", "spawned"}
    /\ ~inFlight
    /\ inFlight' = TRUE
    /\ JobAt(j, "claimed")
    /\ UNCHANGED <<vars, restore, restoring>>

\* The slot is taken: an on-close backup waits for it, the others are skipped.
FindsSlotTaken(j) ==
    /\ job[j] \in {"early", "spawned"}
    /\ inFlight
    /\ JobAt(j, IF job[j] = "early" THEN "waiting" ELSE "none")
    /\ UNCHANGED <<vars, inFlight, restore, restoring>>

\* The mode is enabled, now that the settings are read, and no restore runs.
StartsCopy(j) ==
    /\ job[j] = "claimed"
    /\ ~restoring
    /\ JobAt(j, "copying")
    /\ UNCHANGED <<vars, inFlight, restore, restoring>>

\* Mutant: an early return keeps the slot.
KeepsSlot(j) ==
    /\ job[j] \in {"claimed", "copying"}
    /\ inFlight' = (job[j] = "claimed")
    /\ JobAt(j, "none")
    /\ UNCHANGED <<vars, restore, restoring>>

\* Skipped after the claim, copied, or failed: the claim is dropped.
ReleasesSlot(j) ==
    /\ job[j] \in {"claimed", "copying"}
    /\ inFlight' = FALSE
    /\ JobAt(j, "none")
    /\ UNCHANGED <<vars, restore, restoring>>

JobStep(j) == Claims(j) \/ FindsSlotTaken(j) \/ StartsCopy(j) \/ ReleasesSlot(j)

--------------------------------------------------------------------------------
(* restore_server_backup. *)

\* claim_stopped_server, under the processes lock: nothing active, no backup...
RestoreChecks ==
    /\ restore = "idle"
    /\ entry.state \in {"offline", "crashed"}
    /\ ~inFlight
    /\ restore' = "checked"
    /\ UNCHANGED <<vars, inFlight, job, restoring>>

\* ...then, still under it, claim_restore.
RestoreClaims ==
    /\ restore = "checked"
    /\ restoring' = TRUE
    /\ restore' = "copying"
    /\ UNCHANGED <<vars, inFlight, job>>

\* The pre-restore snapshot and the copy are over, or failed.
RestoreEnds ==
    /\ restore = "copying"
    /\ restoring' = FALSE
    /\ restore' = "idle"
    /\ UNCHANGED <<vars, inFlight, job>>

RestoreStep == RestoreChecks \/ RestoreClaims \/ RestoreEnds

--------------------------------------------------------------------------------
(* The steps of the lifecycle that look at the backups or begin one. *)

\* wait_for_auto_backup lets a start go on. (StartRefused covers its time limit.)
StartGoesOn(t) == StartChecks(t) /\ ~inFlight /\ UNCHANGED job

\* Mutant: a start that does not look at RESTORING.
ClaimAnyTime(t) == ClaimKey(t) /\ UNCHANGED job

\* In the critical section that claims the key.
ClaimUnlessRestoring(t) == ClaimKey(t) /\ ~restoring /\ UNCHANGED job

\* A run that was online and was not killed is backed up when it ends...
RunEnds(g) ==
    /\ ExitTerminal(g)
    /\ IF outcome'[g].backUp THEN JobAt(g, "early") ELSE UNCHANGED job

\* ...before its supervisor restarts it...
ExitSettled(g) == job[g] = "none" /\ FinishExit(g) /\ UNCHANGED job

\* ...and when it falls asleep.
FallsAsleep(g) ==
    /\ AttachListener(g)
    /\ IF entry.gen = g THEN JobAt(g, "waiting") ELSE UNCHANGED job

\* A supervisor that leaves its own run online may have a backup due.
WritesOnline(g) ==
    /\ Write(g)
    /\ \/ UNCHANGED job
       \/ /\ entry.gen = g /\ snap[g].child
          /\ NextState(snap[g], acc[g], miss[g]).state = "online"
          /\ job[Online] = "none"
          /\ JobAt(Online, "spawned")

\* While a restore holds the processes lock the lifecycle stands still: the
\* steps that need no lock neither see nor disturb what the restore does.
LifecycleStep ==
    /\ restore # "checked"
    /\ \/ \E t \in Threads : StartGoesOn(t) \/ ClaimUnlessRestoring(t)
       \/ \E g \in Gens : RunEnds(g) \/ ExitSettled(g) \/ FallsAsleep(g) \/ WritesOnline(g)
       \/ /\ \/ \E t \in Threads : SpawnStep(t) \/ CommandGoesOn(t) \/ Command(t)
             \/ \E g \in Gens : PollStep(g) \/ ListenerStep(g)
             \/ OtherStep
          /\ UNCHANGED job
    /\ UNCHANGED <<inFlight, restore, restoring>>

BackupNext == LifecycleStep \/ RestoreStep \/ \E j \in Jobs : JobStep(j)

BackupSpec == BackupInit /\ [][BackupNext]_allVars

--------------------------------------------------------------------------------
(* Safety. *)

\* The slot is held exactly while one automatic backup is at work: two never
\* copy one server at once, and no early return leaves it taken for ever.
OneAutoBackup ==
    /\ \A i, j \in Jobs : {job[i], job[j]} \subseteq {"claimed", "copying"} => i = j
    /\ inFlight <=> \E j \in Jobs : job[j] \in {"claimed", "copying"}

\* While a restore rewrites the world no run holds the key but a server found
\* on the port, and the only JVM alive is one a delete is ending: no start,
\* restart, auto-restart or wake gets in.
RestoreAlone ==
    restoring =>
        /\ InMap => IsAdopted(entry)
        /\ \A g \in Gens : Live(g) => BeingDeleted(g)

\* Whoever copies or rewrites the world does so alone (auto_backup.rs,
\* commands/backups.rs).
BackupsTakeTurns == BackupTypeOK /\ OneAutoBackup /\ RestoreAlone

--------------------------------------------------------------------------------
(* What the comments promise and the code does not keep. *)

\* try_claim_auto_backup is taken "before it announces the exit, so no start can
\* slip in between the process exiting and the backup beginning".
NoJvmUnderClosingBackup ==
    \A g \in Gens : job[g] = "copying" => \A h \in Gens : ~Live(h)

\* AutoBackupClaim: "While it's held, starts wait and restores are refused."
NoRestoreUnderBackup == ~(restoring /\ \E j \in Jobs : job[j] = "copying")

\* ServerRuntime.force_killed: "The user force-killed this run, so its exit skips
\* the on-close backup (the world wasn't saved)."
CutOffSaveNotBackedUp ==
    \A g \in Gens : job[g] = "copying" /\ entry.gen = g => ~entry.forceKilled

--------------------------------------------------------------------------------
(* Liveness. A copy ends, and a waiting backup polls often enough to see the   *)
(* slot free between two backups of an online server, a minute apart at least. *)

BackupFairness ==
    \A j \in Jobs : WF_allVars(JobStep(j)) /\ SF_allVars(Claims(j))

FairBackupSpec == BackupSpec /\ BackupFairness

\* The backup of a run that ended takes place or is skipped: it does not wait for
\* ever behind the backups of the server's next runs, so neither does the
\* auto-restart that follows it.
ClosingBackupSettles == \A g \in Gens : job[g] # "none" ~> job[g] = "none"
================================================================================

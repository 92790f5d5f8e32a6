# Verification of mserve

mserve is a desktop application (a Tauri backend in Rust, a React frontend) that
creates, runs and looks after Minecraft servers. This directory holds TLA+
models of the parts of both where something can happen in an order nobody wrote
down: threads of the backend, and in the window the user, the answers of the
backend and the timers of the code. TLC checks them on small instances, and
TLAPS proves the properties that matter most for every value of the constants.
Backend paths below are relative to `src/src-tauri/src/app/`, frontend paths to
`src/src/`, unless they begin with `src/`.

## 1. The system

### The backend

| component | where | state it keeps | operations |
|---|---|---|---|
| server lifecycle | `commands/runtime.rs`, `support/supervisor.rs`, `support/sleep_listener.rs`, `support/runtime_io.rs`, `commands/settings.rs` | `RuntimeState.processes`: a map from server key to `ServerRuntime`, behind one mutex; the JVMs; a supervisor thread per run; a wake listener per sleeping run | start, stop, sleep, wake, restart, auto-restart, force-kill, delete, adopt, update settings |
| automatic backups | `support/auto_backup.rs` | `IN_FLIGHT`, the keys with a backup at work, behind its own mutex | claim, wait, run, release |
| restores | `commands/backups.rs`, `support/backups.rs` | `RESTORING`, the keys being restored, behind its own mutex | claim, snapshot, copy, release |
| backup store | `support/backups.rs` | the directories under `.backups`, each with metadata; no lock | snapshot, retention, restore, delete, lock |
| public tunnel | `commands/runtime.rs`, `support/playit.rs` | `playit_stop` in the runtime entry; `tunnel_enabled` in mserve.json; the agents | launch, attach, switch, stop |
| port assignment | `commands/runtime.rs` | `server_port` of every entry | assign at start, check at adoption |
| crash-loop protection | `support/supervisor.rs` | `RESTART_HISTORY` | count, record |
| telemetry | `support/telemetry*.rs` | samples in SQLite | sample, store, query |
| configuration | `support/mserve_config.rs`, `support/scan.rs` | mserve.json | read, repair, patch |
| auto RAM | `support/auto_ram.rs` | none (a computation at start) | estimate, plan |
| players, protocol | `support/players.rs`, `rcon.rs`, `mc_protocol.rs` | files, sockets | read, ping, command |
| items, content, downloads | `support/items.rs`, `download.rs`, `commands/items.rs`, `modrinth.rs`, `modpack.rs`, `providers.rs` | files | install, toggle, remove, fetch |
| networks, gateway, firewall | `support/gateway.rs`, `*_firewall.rs`, `commands/network*.rs` | a list of networks, port mappings | map, open, save |
| Java | `commands/java*.rs` | installed runtimes | detect, download |

### The window

| component | where | state it keeps | what changes it |
|---|---|---|---|
| status of a server | `pages/server/hooks/use-server-runtime.ts`, `components/server-runtime-monitor.tsx`, `lib/server-controls.ts`, `lib/server-start-recovery.ts` | the status in the store, a record of each failing boot | events, snapshots, commands, crashes |
| Java | `lib/java-*.ts`, `data/java-download.tsx` | the queue of requests, one dialog, the list of Javas | starts, downloads, scans |
| create-server wizard | `pages/create-server/` | the draft, which outlives the page | slides, checks, downloads, the creation |
| list of servers | `data/servers.tsx`, `components/mserve-repair-dialog.tsx`, `import-server.tsx` | the list, in memory and in storage | load, sweep, import, repair, edits |
| networks | `lib/network-*.ts`, `data/networks.tsx`, `pages/network/` | members, aliases, ports, networks.json | edits, plans, apply, start and stop of the whole |
| settings of a server | `components/edit-server-settings-form.tsx`, `server-jar-update-section.tsx` | the form against what is saved | typing, saves, jar updates, telemetry |
| backups and items | `pages/server/hooks/use-server-backup-actions.ts`, `components/server-item-list.tsx` | a list scanned from disk | scans, actions, on-disk changes |
| configuration files | `components/server-config-file-editor/`, `lib/toml-patch.ts` | the file as read, the edits | typing, saves, the running game |
| players | `pages/server/server-players-panel.tsx`, `hooks/use-online-players.ts` | who is online, who is listed | polls, commands, a change of server |
| console, activity | `hooks/use-server-terminal.ts`, `lib/console-events.ts`, `lib/telemetry-alerts.ts` | lines, events, alerts | output, timers, samples |
| jars and projects | `lib/server-update-service.ts`, `data/server-updates.tsx`, `components/jar-browser/`, `components/modrinth/` | what is offered, what is picked | fetches, filters, installs |
| settings check | `lib/server-security-*.ts`, `pages/server/security/` | findings, a count per server | scans, fixes, the file |
| MOTD editor | `components/motd-editor.tsx`, `lib/motd-format.ts` | lines of styled runs, or their source | typing, styles, pastes, both modes |
| preferences | `data/user.tsx`, `components/onboarding/`, `pages/dashboard/`, `pages/settings/` | what the user set, in memory and stored | clicks, the tour, a drag, another version |
| guide to hosting | `pages/setup/`, `hooks/use-playit-account.ts`, `pages/server/hooks/use-server-tunnel.ts` | the slide, the account, the tunnel, the firewall | clicks, look-ups, events |
| pickers | `components/duration-picker.tsx`, `hooks/use-storage-recommendation.ts` | a duration against the form's, a drive's free space | clicks, scrolls, look-ups |

### How they interact

* A **command** (`start_server`, `stop_server`, ...) runs on a pool thread or on
  the main thread. It takes the `processes` lock for one or more short critical
  sections and does slow work (spawning, waiting, I/O) between them.
* A **supervisor** thread belongs to one run (one *generation*). Each poll has
  three phases: a critical section that looks for the exit and takes a snapshot,
  probes without the lock, a critical section that writes back.
* A **wake listener** thread holds the port of a sleeping server. It ends when
  its flag is set or the entry is no longer its sleeping run; on a join it calls
  the start path itself.
* The supervisor that sees a run end makes the **on-close backup** on its own
  thread before it considers an **auto-restart**. Starts wait for the backup
  slot, look at `RESTORING` in the critical section that claims the key, and
  restores look at both the map and the slot.
* The **tunnel**'s agent comes up on an async task after the JVM was attached,
  and is attached to the entry if the run is still the same.
* The **retention** pass follows every snapshot and every change of the backup
  settings, on whatever thread that happens.
* The **window** calls commands and hears events. A call is answered after any
  number of other steps: the page may have been left, the server shown may be
  another, the file may have been rewritten. What the code does about it (a
  flag `cancelled`, a comparison of keys, a queue, a reload) is what the
  frontend modules are about.

### What is hard

Everything above interleaves: the start path releases the lock between claim,
spawn and attach; supervisors decide from stale snapshots; two mutexes
(`IN_FLIGHT`, `RESTORING`) are taken beside the main one; the backup store has
no lock; agents and listeners come up late for runs that may be over; mserve may
end at any time, which loses the memory and keeps the disk; the window decides
from what it read before an `await`. The hazards are listed one by one, each at
its line, in `PROJECT.json`. Some are known and not listed there because no
property covers them: a second click on Stop resets `stop_requested_at`
(`commands/runtime.rs`, so a user who keeps clicking keeps putting the forced
kill off), the two critical sections around the window of restarts
(`support/supervisor.rs`), concurrent writers of mserve.json
(`patch_mserve_json`), auto RAM that reads free memory while another server
starts, the quit path between a claim and its attach, a restore that fails
between the deletion of a world and its copy, a settings save that moves a
directory a start has just read.

## 2. The modules

### Backend

| module | models | state ↔ code |
|---|---|---|
| `ServerSlot` | what the backend promises about a key | abstract: holder, phase, last number, live processes |
| `ServerLifecycle` | the runtime of one server | `entry` is the map's `ServerRuntime`; `jvm`, `spc`, `lst` are the processes and threads of each run; `pc`, `tgen`, `from` are command threads and their locals |
| `MCServerLifecycle` | symmetry for TLC | |
| `ServerLifecycle_proofs` | the TLAPS proofs of the lifecycle's invariants, and that it implements `ServerSlot` | |
| `ServerBackups` | automatic backups and restores over the lifecycle (EXTENDS it) | `inFlight` = `IN_FLIGHT`, `restoring` = `RESTORING`, `job` = each backup's thread, `restore` = the restore command |
| `MCServerBackups` | symmetry for TLC | |
| `RetentionPolicy` | `enforce_backup_retention` and `ensure_backup_fits` as operators | |
| `MCRetention` | every short history of backups, and what the caps mean without loops | |
| `BackupStore` | the `.backups` directory and its callers (EXTENDS `RetentionPolicy`) | `onDisk`, `content`, `meta`, `noted` (the size in the metadata) are the file system; `pc`, `mine`, `source`, `doomed` are a caller's locals |
| `MCBackupStore` | composes a caller alone, callers side by side, and the policy by itself | |
| `BackupStore_proofs` | the TLAPS proofs of the policy and of the store | |
| `ServerTunnel` | the tunnel over the lifecycle (EXTENDS it) | `held` = `playit_stop`, `agent` = the agents, `enabled` = mserve.json, `wants` = the config a start read, `switch` = `set_server_tunnel` |
| `ServerPartners_proofs` | the TLAPS proofs about `ServerBackups` and `ServerTunnel` | |
| `PortAssignment` | the addresses of all servers | `entry` = what each map entry is and its `host` and `server_port`; `config` = the address its files give; `start`, `editing`, `probed` = the locals of a start, a settings update, an adoption; `jvm`, `listener`, `strangers` = who listens |
| `PortAssignment_proofs` | the TLAPS proofs | |

### Window

| module | models | state ↔ code |
|---|---|---|
| `ServerView` | what the window shows of one server | `shown` = the store, `loops` = the page's listener and the monitor, `tasks` = crashes being handled, `wire` = events and answers on their way |
| `JavaChoice` | pure rules: which Java a version needs and a server gets, what comes after a failed boot | operators |
| `JavaPrompts` | requests for a Java | `queue`, `dialog`, `fetches`, `scans` |
| `CreateServer` | the wizard, and the catalogue of providers it offers | `draft`, `calls` in flight, `folders` on disk, `listed` |
| `ServersStore` | the list of servers | `disk`, `saved` (storage), `store` (memory), `sweep`, `import`, `repair` |
| `NetworkPlan`, `NetworkRun`, `NetworksStore` | a network's members and files; operations on the whole; networks.json | `drawer` and plan; `ops` and tasks; `onDisk` per root |
| `ServerSettings` | the form of a server's settings | `form`, `shown`, `conf`, `jar`, the saves and updates in flight |
| `ServerContents` | backups and items of a server | `folder` (disk), `list` (page), the scans and actions in flight |
| `ConfigFile`, `TomlPatch` | a configuration file and its editors; the TOML patcher | `text`, the rows, the edits; operators over lines |
| `MCRules` | every short document and every cycle of failed boots | |
| `MCWindow` | composes the modules above, and names what is assumed of their constants | |
| `Window_proofs`, `Network_proofs` | the TLAPS proofs about it | |
| `PlayersPanel` | the players of a server | `data`, `keep`, `call`, `queued`, what was `sent` |
| `ServerTerminal` | the console | `allLines`, `pendingLines`, the timers, what is stored |
| `ActivityFeed` | feed and alerts | `lines`, `readAt`, `alerts`, `tracker` |
| `JarUpdates`, `JarBrowser`, `ModrinthBrowser` | what is offered, and what is installed of it | `entry`, `checks`; `rows`, `fetches`, `selected`; `result`, `searches`, `versions` |
| `ServerAudit` | the settings check | `file`, `findings`, `scans`, `count` |
| `MotdEditor` | a message and its two notations | `value`, `shown`, `pendingStyle`, `sourceMode` |
| `AppSettings` | the user's preferences | `user`, `stored`, `tour`, `updater` |
| `HostingSetup` | the guide to hosting | `slide`, `acct`, `tun`, `lookup`, the `calls` and events under way |
| `DurationPicker`, `StorageAdvice` | a duration; the limit recommended for backups | `minutes`, `custom`, `scroll`; `disk`, `mountPoints`, `gathers` |
| `MCPanels` | composes the panels, fixes the lists and drives they work on, and names what is assumed of the other constants | |
| `Panels_proofs`, `AlertsPrefs_proofs` | the TLAPS proofs about it | |

`MCWindow` and `MCPanels` put many parts into one run each. The parts share no
state that one of them changes under another, so a variable `focus` chooses one
of them in the initial state and the others stand still: the run checks the
union of the parts, not their product, which would tell nothing more.

### ServerLifecycle, action by action

One action is one critical section, or one step between two of them.

* **Start** (`start_server_internal`): `StartServer` begins one;
  `StartChecks` are the checks before the lock; `ClaimKey` is the critical
  section that publishes a reservation, `StartRefused` its refusals; `SpawnJvm`
  or `SpawnFails`; `AttachChild` if the reservation still stands,
  `CancelStart` (kill the fresh JVM and wait for it) if not; `ReleaseReservation`
  after an error.
* **Stop**: `StopSleeping`, `StopServer`, and for an adopted server
  `StopOverRcon` then `RconAnswered`. `SleepServer` is the manual sleep.
  `ForceKill`, and for an adopted server `ForceKillAdopted` then `PortKill`.
* **Restart**: `RestartServer` stops, `RestartProceeds` starts when the old run
  is gone or gives up.
* **Delete**: `DeleteServer` takes the entry out, `TerminateRuntime` ends the
  JVM, `TrashDirectory`.
* **Settings**: `EditSettings` begins (refused while active), `SettingsSaved`
  releases a run that is still asleep.
* **Adoption**: `ProbeUntracked` finds something on the port, `AdoptExternal`
  registers it unless the key was taken.
* **Supervisor**: `SupervisorStops` (not its run any more), `ExitTerminal`,
  `ExitToSleep`, or `Snapshot` (with `Escalate` when the grace is over), `Probe`,
  `Write` (with `NextState`, and the decision to sleep), `FinishExit`
  (auto-restart: `BackoffEnds` is its thread's start).
* **Listener**: `BindListener` or `BindFails`, `AttachListener`,
  `ListenerExits`, `ListenerAccepts`, `ListenerServed`, `ListenerWakes`,
  `WakeFailed`.
* **Environment**: `JvmBinds`, `JvmExits`, `ExternalServer`.

Time is abstracted: a grace period, a backoff or a wait with a limit may end at
any step. The idle clock of sleep mode is a choice of `Write`. Ports are one
port (the server's); several servers interact only through port numbers, which
are `PortAssignment`'s, and RAM plans.

### ServerBackups

A backup's stages are *early* (the supervisor is about to take the slot without
waiting), *waiting* (polling for it), *spawned* (an online backup about to try),
*claimed* and *copying*. `ExitTerminal`, `FinishExit`, `AttachListener`, `Write`,
`StartChecks` and `ClaimKey` of the lifecycle are replaced by versions that look
at or begin a backup; everything else is the lifecycle's own. `RestoreChecks` and
`RestoreClaims` are two steps because backups take neither of the locks the
restore holds, and every lifecycle step is barred between the two because it
does hold the `processes` lock.

### BackupStore

Every file-system operation is a step: creating a snapshot's directory, copying
one of its folders, writing its metadata, deleting one doomed backup, putting
one folder back. Deleting a directory is one step (`remove_dir_all` and the
trash), which hides only that a directory may be seen half deleted; or it fails
(`NotRemoved`), and leaves all of the directory, part of it, or what it held
without its metadata. A failed deletion of a pass ends the pass and has the fresh
snapshot thrown away (`DeleteFails`, `Undoes`); so has a refusal (`Refuses`) and a
mserve.json that cannot be read again (`SettingsUnread`). A folder is a unit of
size. A pass believes the size in the metadata (`noted`) and measures only where
there is none. Names are numbers in the order of creation; the code's timestamps
with suffixes are unique in the same way as long as nothing is deleted and made
again within one second. Buckets use months of 30 days and UTC: the code asks
the calendar and the local zone, which changes where buckets end, not how they
are used.

### ServerTunnel

`Launch` is the decision to bring an agent up, `AgentUp` the moment it is
attached or stopped, `AgentFails` every failure of playit's service. Agents are
slots: `MaxAgents` of them may be alive at once. `set_server_tunnel` is a
synchronous command on the main thread, hence one `switch`. A deleted run's agent
is stopped when its entry is removed; in the code this follows right after, on
the thread that removed it.

### PortAssignment

The one module with several keys. Of each entry it keeps what the others see: its
kind (starting, running, sleeping, external) and the address it claims.
`StartReads` reads the files without the lock, `ClaimPort` picks a port
(`Claimed`, `NextFree`) in the critical section that publishes the reservation,
`PersistPort` writes a changed port to the files (either outcome: errors are only
printed), `SpawnAttached` or `StartReleased` ends the start. `JvmUp` binds what
the files say by then. `ProbeUntracked` and `AdoptExternal` are the check before
the probe and the check under the lock. `config` is one address where the program
has two copies of the port, `telemetry_port` in mserve.json and `server-port` in
server.properties; a write that reaches only one of them is not told apart from
one that reaches both or neither. A server has one JVM and one listener at a time
here; what happens when it has two is `ServerLifecycle`'s matter. The address of
a moved directory (a new key) is not followed.


### The modules of the window

What they have in common: a handler that awaits is two actions, the click (which
captures what the closure captures) and the landing (which writes what it
captured, or checks the flag the code checks); an effect's clean-up is part of
the step that leaves; a timer may fire at any step once it is set; each call may
fail. Bounds count clicks and happenings, not answers, so everything that was
started may still land.

* `ServerView`: `Deliver` hands an event to the loop in charge (the page's or the
  monitor's, `OpenPage` and `ClosePage` change it); `Snapshot` and `SnapshotLands`
  are a question and its late answer, `handleStart` and its kin the guess and
  `Reply` what became of it; `BootFails` begins a recovery, which `StripDone`,
  `DownloadDone` and `RetryReply` continue. What a Java needs and which comes
  next are `JavaChoice`'s operators.
* `JavaPrompts`: `ensureJava` queues a request or joins one, `startDownload` and
  `settle` end it, `Dismiss` and `handleOpenGuide` answer nobody; `rescan` lands late.
* `CreateServer`: the slides in their order, each action with the slide's own
  guards; `CheckName`, `CheckJar`, `DownloadJar`, `InstallModpack` are calls that
  land in whatever the draft is by then. The creation itself is a chain of four
  calls, each of which may fail. Which providers can be picked is the catalogue's.
* `ServersStore`: `SweepReads`, `SweepSkips` and `SweepRebuilds` are the sweep's
  steps between its awaits; a repair request opens the dialog or waits for it.
* `NetworkPlan`: every edit goes through `normalizeNetwork`; `ShowPlan` reads the
  files, `applyNetworkPlan` writes them one by one and may fail between two. Members
  are kept in try order, and what the code sorts and filters is picked by rank
  (`nth`, `pick`).
  `NetworkRun` is `startAll`, `stopAll` and `restartAll` in both modes. `NetworksStore` is loading,
  saving and the changes of the root around both.
* `ServerSettings`: one record for each of the form, what the list shows and what
  mserve.json says; the jar is one of its own place and of the pick's.
* `ServerContents`: a handler is a job that walks what it captured and scans; a
  scan is a read of the directory that lands later.
* `ConfigFile`: three kinds of file under one editor; `OthersWrite` and `GameTurns`
  are the game. `TomlPatch` is the algorithm, over lines.
* `PlayersPanel`, `ServerTerminal`, `ActivityFeed`: a page whose server changes
  under polls, timers and samples.
* `JarUpdates`, `JarBrowser`, `ModrinthBrowser`: a provider's list is a constant;
  which rows are answered when is the model's choice.
* `ServerAudit`: the rules that depend on one another, with what each fix writes.
* `MotdEditor`: a line of source is a sequence of tokens (a code, or a
  character), a line of the editor a sequence of glyphs with their styles.
  Parsing, serialising, clamping and aligning are translated as they are.
* `AppSettings`, `HostingSetup`, `DurationPicker`, `StorageAdvice`: the state of a
  page or a picker beside what is stored, the form or the backend.

## 3. The runs

Bounds common to the lifecycle runs: `MaxGen = 2` runs (a run and the one that
replaces it: every race between two generations is one between an old and a new
one), one or two command threads (each may be any command, a restart's
continuation, an auto-restart or a wake), every feature flag on unless a run says
otherwise. Deadlock is not checked in any run: a server nobody starts may rest
for ever, the supply of run numbers ends, and so do the user's clicks.

| run | bounds | shows |
|---|---|---|
| `lifecycle` | 2 threads, 2 runs, 1.2 M states | types (`TypeOK`); no JVM is lost (`NoOrphanJvm`) or doubled (`OneJvm`); a reservation has its thread (`ReservationOwned`); a run its supervisor (`RunSupervised`); a stop is not written over (`StopHolds`); a sleeping server can be woken and a listener nobody needs will end (`ListenersHold`); the refinement of `ServerSlot` (`ImplementsSlot`) |
| `lifecycle_live` | 1 thread, 2 runs, no external server | `StopCompletes`, `StartSettles`, `ListenerReleased` |
| `backups` | 1 thread, 2 runs, 1.1 M states | `BackupsTakeTurns`: one automatic backup at a time, the slot never left taken (`OneAutoBackup`), and no JVM during a restore (`RestoreAlone`) |
| `backups_live` | 1 thread, 2 runs | a closing backup settles (`ClosingBackupSettles`) |
| `backup_store` | alone: 1 caller, 4 snapshots, removals that fail; side by side: 2 callers (alike: symmetry), the user, 3 snapshots; both with 2 folders, cap 1 and crashes; histories of up to 4 backups out of 5 ages and 2 sizes, locked or not, under 24 settings; 2.4 M states | a caller alone leaves no half copy and finishes none unless mserve ends or a removal stops halfway (`LoneBackupsAreWhole`), keeps a backup and the one it restores (`LoneKeepsABackup`), both in `LoneCallerKeepsItsWord`; callers side by side never share a directory or turn on their own snapshot (`SharedOwnDirectory`); the four loops of the policy do what a loop-free reading of the settings says, and the check before a snapshot agrees with the pass after it (`RetentionDoesWhatItSays`) |
| `tunnel` | 1 thread, 2 runs, 2 agents, 1 use of the switch, 2.6 M states | `AgentsAccountedFor`: the agent in the entry fronts this run's JVM or listener (`HeldAgentServes`), and as long as the switch is not used each agent that is up can be stopped (`NoLeakedAgent`) |
| `ports` | 2 servers, 1 host, ports 1 and 2, search from 1, 2.2 M states | `PortsApart`, `ReservationKept` |
| `window` | per part in `Window.cfg`, 2.0 M states | one property or two per part, below |
| `panels` | per part in `Panels.cfg`, 1.8 M states | the same for the panels |
| `kills_itself`, `restore_under_backup`, `saved_jar` | small | section 4 |

| property of `window` | says |
|---|---|
| `QuietViewIsTrue` | everything delivered, the status shown is the backend's, unless a command guessed or raced |
| `PromptShowsOldest` | the Java dialog asks for the oldest request exactly while somebody waits, and says it downloads only while it does |
| `FallbackTriesEachOnce` | recovery from failed boots tries each Java once and ends |
| `DraftHoldsTogether` | the wizard's draft fits every slide behind the user |
| `ListIsTrue` | a stored server stays until it is removed; after the sweep the list is what the files say |
| `NetworkHoldsTogether` | no two members share a port; an applied network routes each alias to its backend |
| `OperationDoesWhatItTells` | the proxy is up only behind its backends, whoever crashes; the toast tells what happened |
| `NothingGoesUnasked` | an unreadable networks.json is never written over; Clear All deletes only what was listed; what was typed survives samples and states |
| `SettingsAgree` | jar, mserve.json and list agree, except after the overlaps the model names |
| `QuietListIsTrue` | at rest the page lists what the directory holds |
| `SaveWritesOnlyEdits` | a save of a configuration file changes what the user typed and nothing else |
| `PatchIsExact` | patching TOML gives exactly what was asked and keeps every comment |

| property of `panels` | says |
|---|---|
| `PanelShowsItsServer` | at rest the players panel is its server's, and the console holds the last lines it was given |
| `FeedTellsWhatHappened` | the feed tells each recognised line and alert once, in order, at its time |
| `AlertsAreDeserved` | an alert is raised exactly when its metric was bad all through the wait, and recovered and cooled down since the last one |
| `OffersFit` | an update is newer; a jar that can be confirmed is in the table; a page is that of its search and what is installed fits |
| `FixesHelp` | the fix of a finding makes it pass and no other worse |
| `MotdReadsBack` | a message reads back as it was edited, from its source and from its file; aligning moves lines only |
| `PrefsAreTheUsers` | what the next start reads is what the user set, every card once; the level was chosen (`PrefsAreKept`); and in each step that drops a card it lands where the dashboard showed it, the hidden cards keeping their order (`DropLandsWhereShown`) |
| `PickersAdviseTruly` | a duration handed over is within its limits and the still picker shows the form's; the recommended limit is of this drive and leaves its margin |
| `GuideKeepsItsWord` | every spinner waits for something; the guide is done only once a player could get in |

Why the bounds are enough. The ages of the policy put two backups in one day's
bucket, two in one week's and one in a month's, with the newest inside the
keep-all window; caps of 0, 1 and 2 and a limit of 2 or 4 against sizes of 1 and
2 make every pass bite and every pair of passes interact. One folder of two is
enough for a half copy; three snapshots are enough for a good one, a new one and
a rival. Removals fail only for the caller alone: side by side they would double
the states for a property the proof covers. In `ports` a server that finds its port claimed has exactly one port
left, which is the last: port 1 is where the run can see two entries meet, and
the boundary at the last port is left to the proof, which covers it. In the
window a race needs a call in flight and one thing that overtakes it; every part
has at least two calls or clicks, two servers (folders, keys, roots) where the
code compares keys, and two values of what is written where it compares values.
The feed's day is five units and its clock starts two before midnight, so that lines
are stamped, and read, on both sides of it. The line of a message is 16 pixels wide, two or three characters, so that every
clamp bites; a terminal keeps two lines.

Properties name their exceptions by a variable that remembers the cause:
`crashed` (a crash does leave half copies), `torn` (so does a removal that stops
halfway), `switches` (the tunnel's switch can
start a second agent), `strayed`, `halfSaved`, `crossed`, `raced`, `guessed` and
the like in the window. Each exception stands for something the code does, told
in section 4 or where the variable is declared.

### Fairness

`FairSpec` assumes of the code's own threads only that they are scheduled: weak
fairness of each supervisor, each listener and each command thread *in the
middle* of a command (no fairness makes a user click). Of the world it assumes
that a process that was sent a kill ends. Strong fairness of `Escalate` says that
the grace, ten seconds of wall-clock time, is over at some poll: polls repeat
every second, each may find it over or not, and the clock settles it. No
fairness is assumed of a JVM that was asked nicely, of players, or of servers
outside. `BackupFairness` adds that a copy ends, and strong fairness of `Claims`:
a waiting backup polls four times a second and the slot is free for most of a
minute between two backups of an online server. The window's modules state
safety only: their properties are about what is shown once nothing is in flight,
which asks nothing of the scheduler.

## 4. Findings

Three runs expect a violation; each checks one sentence of the repository against
the code.

| run | sentence | what happens |
|---|---|---|
| `kills_itself` | "Never fall through to the port-kill path (it would target mserve's own PID)" | the check that a server is adopted and the kill of its port's owner are separate critical sections; a run that takes the key between them and falls asleep puts mserve's listener on that port |
| `restore_under_backup` | "While it's held, starts wait and restores are refused." | backup and restore each look at the other's mark before they set their own |
| `saved_jar` | "The jar is swapped in when you save." | a save exchanges the jars and then fails to move the directory; the form keeps the pick, and the save that succeeds exchanges them back |

More disagreements were met, and each is a predicate of its module that no cfg
here lists: naming it as an `INVARIANT` (an action predicate as a `PROPERTY`) in
the component's run shows the behaviour.

Backend:

| predicate, module | sentence | what happens |
|---|---|---|
| `NoJvmInTrashedDirectory`, `ServerLifecycle` | "trashing it underneath the spawn would race the start" | the entry is removed before the directory is trashed, and a start may come in between |
| `WakesOnlySleeping`, `ServerLifecycle` | "(the entry is still `Sleeping`, which is its wake path)" | a client accepted before a stop wakes the server after it |
| `NoJvmUnderClosingBackup`, `ServerBackups` | "so no start can slip in between the process exiting and the backup beginning" | a start that passed the wait, or claims over the dead child before the supervisor's poll, runs beside the backup |
| `CutOffSaveNotBackedUp`, `ServerBackups` | "its exit skips the on-close backup (the world wasn't saved)" | not when it is killed on its way to sleep |
| `KeepsABackup`, `BackupStore` | "old backups are only deleted once a good replacement exists" | two passes at once delete each other's snapshot; for one caller a half copy left by a crash, or by a removal that stopped halfway, counts as the newest backup; and a deletion that stops halfway has taken the old backup when the fresh snapshot is thrown away for it |
| `SourceStays`, `BackupStore` | "(e.g. the one being restored) are never deleted" | by another caller's pass they are |
| `FinishedMeansWhole`, `BackupStore` | "A half-copied snapshot must never be listed" | a snapshot deleted by another caller's pass while it is copied comes back with the rest of it and is completed |
| `LockedStay`, `BackupStore` | "Locked backups are never removed by retention policies" | when locked between the scan and the deletions |
| `AgentTiedToRun`, `ServerTunnel` | "Lifecycle is tied to the Minecraft process" | switching on during a launch starts a second agent; the second handle overwrites the first, which nothing stops |
| `OffMeansDown`, `ServerTunnel` | "the tunnel is brought up / torn down live" | switching off while it comes up stops nothing |
| `AdoptsNoSibling`, `PortAssignment` | "Guard against false adoption: ... a probe of *this* server's port may actually hit a *different* managed server" | a deleted server is out of the map while its JVM still ends; a sibling with the same port adopts it |

Window:

| predicate, module | what is expected | what happens |
|---|---|---|
| `WaitingIsShown`, `ServersStore` | a request for a rebuild is shown | closing the dialog does not take the next request from the queue; it waits until another one comes |
| `UpdateKeepsSettings`, `ServerSettings` | the Updates row changes the build | it writes back the settings it read at the click, over a save that landed meanwhile |
| `DoneMeansCreated`, `CreateServer` | "Server created" is said of a server that was created | a call that is answered after its slide was left moves the wizard on all the same, to the last slide in the end (`strayed`) |
| `BackendsAboveBase`, `NetworkPlan` | "Backend sub-ports are auto-assigned upward from `basePort + 1`" | a new backend starts from the *default* base port and keeps it, below a base that was raised |
| `AbsentKeepsItsDefault`, `ConfigFile` | a setting the file leaves out stays at its default | saving another one writes it: a checkbox without a value as off |
| `ToggleIsTakenBack`, `PlayersPanel` | a checkbox shows what the server last said | a toggle that fails puts back what was shown before it, over an answer that came meanwhile |
| `LinesKeptPerServer`, `ServerTerminal` | "Lines kept per server" | what a command reports after the page turned to another server is put among that one's lines, and stored with them |
| `SnapshotsAreMajor`, `JarUpdates` | "treat it as major so the user is warned" (of a snapshot id) | only an id without numbers is; `25w36a` to `25w37a` is minor |
| `NoneMissed`, `ForwardOnly`, `JarUpdates` | updates go forward, and none is missed | `1.21.9-pre1` compares below `25w37a` by its numbers and is not offered; a check begun before the jar was exchanged in the settings offers, and installs, what is older than the new jar |
| `RecordIsTheJar`, `NoOfferOfInstalled`, `JarUpdates` | the record is the jar; what is installed is not offered | a build published between offer and download is installed under the offer's name; an offer outlives the exchange of the jar for the one offered |
| `PageExists`, `RowsBesideError`, `ModrinthBrowser` | the pager stops at the last page; rows are of the search above | a search that fails leaves the rows and the pager of the one before, whose next page the new search may not have |
| `FindingsAreOfRole`, `CountIsTrue`, `ServerAudit` | the findings are of what the server is; the count is dropped "after its security settings changed" | a scan begun before the server went behind a proxy lands after the one begun then; an edit made elsewhere drops no count |
| `LeftIsLeft`, `PasteReplacesSelection`, `MotdEditor` | a line aligned left begins with its text; a paste replaces the selection | an indentation with a style stands behind a code and stays; over both lines, the end's offset is used in the first |
| `EveryStampIsDated`, `ActivityFeed` | a stamp is "the most recent such time at or before `now`", with "a minute of slack for clock skew" | a log whose clock passed midnight before ours says 00:00 and is dated this morning: the line stands a day too early in its list's times, and what came before it is shown after it, until the lines are read again after our own midnight |
| `LevelIsTheLastClicked`, `AppSettings` (needs `MaxPrefEdits = 4`) | the level is the last one clicked | a tour that is replayed writes the level of its first run |
| `InstallsOnce`, `AppSettings` | an update is installed once | leaving the page forgets the installation under way |
| `RootFieldShowsRoot`, `AppSettings` | "Empty input reverts to the last saved value" | with none saved the field stays blank |
| `GuideShowsASlide`, `HostingSetup` | the guide shows a slide | the firewall's late answer takes it past the last one |
| `SpinningTunnelIsComing`, `TunnelShownIsTrue`, `HostingSetup` | "an idle tunnel is about to start"; the state shown is the tunnel's | a tunnel that failed is shown as starting by the next visit; snapshots overwrite newer events |
| `NoErrorOnceConnected`, `HostingSetup` | a connected account shows no error | a claim left behind runs out of time after its successor connected |
| `LockedPickerShowsValue`, `OutsideRedecides`, `DurationPicker` | "A value that changes from outside re-decides between chip and Custom" | not when it is the last value the picker handed over; a column scrolled when the form is locked stays where it is |
| `AdviceCountsEveryServer`, `StorageAdvice` | every other server on the drive is counted | one whose look-up failed is not, and it is not tried again before the list changes |

In each case the reachable state needs two threads, an answer that is overtaken,
or a crash, in a window the code leaves open; the runs that pass say what holds
all the same. Read in the code and not shown by a predicate: the snapshots of
configuration files that "Apply" works from may be stale by then
(`lib/network-config-engine.ts`); `handleSetBackupLocked` writes back the list it
captured (`pages/server/hooks/use-server-backup-actions.ts`); a failed Clear All
is not followed by a scan; a configuration file that cannot be read keeps its
editor editable (`components/server-config-file-editor/`); an import of a copied
folder with the id of a server listed already adds nothing
(`components/import-server.tsx`); events between the page's claim of a server and
the registration of its listener are lost to both loops
(`components/server-runtime-monitor.tsx`).

## 5. Proofs

`ServerLifecycle_proofs` proves, for every set of threads, every number of runs
and every setting of the flags, seven invariants of `Spec`: `TypeOK`,
`NoOrphanJvm`, `OneJvm`, `ReservationOwned`, `RunSupervised`, `StopHolds` and
`ListenersHold`. The only
assumptions are those the module names: `MaxGenAssumption` and `FlagsAssumption`.

None of them is inductive. The invariant that is, `IInv`, adds to the first six:

* `Shape`: which fields of an entry go together (a run in the map is never
  `offline` or `crashed`; a child means an owned run in one of three states; a
  request to stop shows in the state);
* `Fresh`: nothing exists of a generation not handed out yet;
* `StartsOwn`: a thread between claim and release owns the reservation in the
  map, there is at most one such thread, and no JVM exists before the spawn;
* `SleepersParked`, `ListenersAsleep`: supervisors of sleeping runs have stopped
  polling, listeners belong to sleeping runs;
* `SnapshotsHold`: between a supervisor's two critical sections the entry of its
  run neither gains nor loses its child, which is what makes the stale snapshot
  harmless;
* `MissesCounted`: a supervisor that still polls is below its limit of misses;
* `ThreadsHold`: what a thread remembers of an entry (a sleeping run to wake, an
  adopted run to kill, a removed run to terminate) is still so or is not that
  entry any more.

Each action has a lemma that it preserves `IInv`, with one step per conjunct it
can disturb; `NextInv` assembles them and `SpecInv` is the temporal step.
`OneJvm` follows from `NoOrphanJvm` and `StartsOwn`: two live JVMs would both have
to be the entry's child or a start's.

`ListenersHold` needs a second layer, `LInv`, on top of `IInv`: what a wake thread
knows of the run it takes over from (`WakesUnderWay`, `WakesFlagged`), how far a
supervisor has come with handing its listener over (`AttachersHold`,
`HandlesAttached`, `ListenersFollow`), and what wakes a sleeping run meanwhile
(`Wakeable`). A sleeping run without a listener is all right only while a wake
thread has taken over or the supervisor is still binding, and no invariant of the
entry alone says so.

The same module proves the refinement, `Spec => ImplementsSlot`: the initial
state maps to the slot's, and every step is a step of the slot or a stutter. `IInv`
says in what state each step finds the run; what it lacks is `SleepersStop` (only a
run that was asked to stop goes to sleep): the slot lets no other fall asleep.

`ServerPartners_proofs` is about what runs beside the lifecycle, whose invariant holds
there too: its steps are steps of `Next`.

It proves `BackupSpec => []BackupsTakeTurns`. `BInv` is `IInv`,
the types, and three facts of the jobs: one automatic backup holds the flag
(`OneAutoBackup`), a closing backup has a run that ended (`JobsAfterRuns`), and
from the check of a restore on no run but an adopted one holds the key
(`KeyLeftAlone`): only a claim could take it, and a claim that got past `RESTORING`
finds no restore under way.

It proves `TunnelSpec => []AgentsAccountedFor`. `TInv` is `IInv`,
`SleepersStop`, the types, and: the agent an entry holds fronts this run
(`HeldAgentServes`), no agent is lost (`NoLeakedAgent`), agents belong to runs handed
out (`AgentsHaveRuns`), and a run has one agent until the switch is used
(`OneAgentARun`). It assumes `BoundsAssumption`: the model's two bounds are natural
numbers.

`BackupStore_proofs` is in three parts.

*The policy.* `RetentionKeepsItsWord`: for every history of backups and all
settings, the four loops delete exactly what a reading of the settings without
loops says, and never refuse a snapshot that `ensure_backup_fits` let in. A loop is
a fold, and a fold is a recursive definition over sets; what it computes is proved
turn by turn. `LoopIsDefined` shows that the recursion of the fold over `1..n` has a
solution, by exhibiting it as a function on `0..n` (the chain `Turned`), `LoopTurns`
that the loop's result is that function's last value, and `EveryTurn` carries an
invariant along the turns: induction over numbers as a fact about subsets of
`0..n`, which the provers here can use, where the library's induction theorems
take an operator they cannot. Each pass then has its lemma (`ThinningIs`,
`CountingIs`, `StoringIs`), all four together `RetentionIs`, and what the later parts
need: a locked backup is spared (`RetentionSparesTheLocked`), and so is the newest
where none is locked and it fits (`NewestIsKept`). `PolicyAssumption` says what the
code's types say: hours are whole, sizes, caps and limits not negative.

*Callers side by side.* `DirectoriesStayOwn`, and `CallersKeepOutOfEachOthersWay` for
the composition the run checks: for every number of callers, snapshots and folders,
with crashes, failing removals and the user. `SharedInv` adds that a directory's
number is new and given up by none but its caller (`OwnInv`), and that a caller
not in its pass has nothing doomed (`AtWork`). That a pass spares what it protects
(`PassSpares`) is the policy's.

*A caller alone.* `LoneCallerLeavesNoDebris` and `LoneCallerKeepsABackup`, for every
number of snapshots and folders, every cap and limit. `LoneInv` says how a snapshot
grows, and that its metadata is written last (`LoneStage`); that what is doomed is
there and spares both the snapshot and the source (`LoneDoomed`); what each
directory is as long as nothing was cut off (`LoneDirectories`); and, for the second
theorem, that once a backup was made one stays that no pass has doomed and which is
not the snapshot under way, as that may still be thrown away (`LoneKept`). The two
hard steps are `LoneLooks`, where the pass by itself may doom everything but the
newest (`NewestIsKept`: no snapshot is ever larger than a limit that let one in), and
`LoneDeleteFails`: the pass ends, the snapshot is about to go, and the backup that
stays is the very one that could not be deleted.

`PortAssignment_proofs` proves, for every set of servers and hosts and every range
of ports (`PortsAssumption`: both bounds are positive and in order), `PortsTypeOK`,
`ReservationKept` and `PortsApart`. The three together are inductive, and each
needs the others: `PortsApart` survives `SpawnAttached` only because the entry it
turns into a running one is the start's own reservation, at the port already
claimed. The argument is in four lemmas about the choice: `NextFree` returns a
port nobody uses or the last one, so `Assigned` returns an address nobody claims
or one at the last port; a step after which one entry claims a new address keeps
`PortsApart` if nobody else claims it (`OneNewClaimed`), and a step after which
nobody claims anything new keeps it always (`NothingNewClaimed`).

`Window_proofs` proves nine properties of `MCWindow`'s `Spec`, for any number of
clicks, calls and files. A step of the window is a step of the part in focus and
leaves the others alone (`WindowStep`), so each theorem rests on the invariant of
its own part:

* `WindowPromptShowsOldest`: `PromptInv`, the types and both facts, is inductive. A
  late download may settle a request that is not the one shown, and the dialog
  stays right only because removing an element behind the head leaves the head
  (`RemoveAtKeepsOrder`).
* `WindowDraftHoldsTogether`: `WizardInv` says of each call in flight what the draft
  was when it was made (`Belongs`) as long as its slide is shown, and of the draft
  what every slide behind the user needs (`Fits`). The property holds from the
  moment a call lands only because `Belongs` held until then.
* `WindowListIsTrue`: `ListInv` follows a folder from the list as it was loaded to
  what its file says. Until the sweep has come to a server, its entry is what was
  loaded or what its file says (`TrueOrDue`); a broken file keeps its loaded entry
  (`BrokenIsAsLoaded`); what the sweep has read is still what the file says
  (`ReadIsTrue`), or the folder is excused; who waits for a repair is where the
  dialog will answer it (`DialogInv`).
* `WindowSettingsAgree`: `SettingsInv` adds what each save and update captured
  (`CallsShaped`), that the pick is the jar beside the server's until a save
  exchanges them (`PickHeld`), and what has to be crossed for a disagreement
  (`NothingCrossed`).
* `WindowQuietListIsTrue`: `ContentsInv` numbers the scans. The list is that of the
  scan that landed last (`LastScanSaw`); scans land in the order they were begun or
  the last one was (`ReadsOrdered`); a job alone on the page knows what is on disk
  (`AloneKnows`).
* `WindowNothingGoesUnasked`: an action property. `NetworksInv` (a root that is saved
  to was not found unreadable), `ContentsInv` and `SettingsInv`.
* `WindowSaveWritesOnlyEdits`: an action property. `EditorInv`: what a write carries is
  the draft of the rows (`WriteIsTheDraft`), and while nobody else wrote, the rows
  differ from the file only where the user typed (`FreshIsLoaded`).
* `WindowQuietViewIsTrue`: `ViewInv`. The last event on the wire tells what the backend
  is (`WireEnds`); a snapshot that will still be shown, because no event was heard since
  it was asked for, is true once everything sent before it was delivered
  (`SnapshotsAreTrue`); and with the wire empty, what is shown is true, or a task, a
  question or a command that will set it right is under way (`ShownIsKnown`). "At rest"
  is when none of the three is, which is all the property adds. The model was
  taken as it was: what makes the status wrong for good is exactly what `doubt` names.
* `WindowFallbackTriesEachOnce`: `RecoveryInv` carries one cycle of failed boots
  (`Cycle`): what was tried is a list of installed Javas without repetition, in which one
  that is too old comes only after all that fit (`TriedInTurn`), but for a downloaded
  one at its end, and once a download was offered, nothing installed is left. The
  work is `NextIsLeft`: the next attempt is an installed Java not tried, one that
  fits while there is one. It rests on `LeastAndGreatest` (a finite set of numbers has
  both), by well-founded induction over its size.

`Network_proofs` proves two more, for any number of backends:

* `WindowOperationTells`: `RunInv` follows an operation that nobody interferes with.
  It is the only one (`AloneInv`), its stages come in an order in which no stop
  follows a start and nothing but the proxy follows the proxy's start
  (`InStageOrder`, which `StagesFit` finds in the stages of both modes), and what it
  owes a server no more is done and stays done (`Reached`). At its end it owes
  nothing, which is what the toast says; and while it starts the proxy, it owes the
  backends nothing. A success that was reported leaves nothing under way
  (`NewsIsFresh`).
* `WindowNetworkHoldsTogether`: `PlanInv`. `PortsAreAssigned` is the counting behind
  the ports: the members that keep theirs take at most that many of the ports above
  the base, so the rest find enough. `PlanIsRight` says that a plan, written to its
  end over what the files say now, leaves every file right (`Fulfils`), which rests on
  `VelocityIsRight` for the entries of the proxy: who had a member's address under
  another name goes, and what the user added beside stays. `WritingFulfils`
  says that writing a plan's first change carries that plan on and undoes no plan
  that is shown; `PlanFulfils` lists whose plans are still right: the one in an open
  drawer, made while nothing was written, and the one being written, unless the
  network was edited since.

`Panels_proofs` proves five properties of `MCPanels`' `Spec`, each from the invariant
of the panels it is about:

* `PanelsGuideKeepsItsWord`: `HostInv` says of each spinner what drives it: an
  account that is read has a question in flight (`AccountIsRead`), an approval that is
  waited for has a claim, a connection or its end on the wire (`ApprovalIsDriven`), and
  a "pending" on the wire is followed by an end or still has its claim
  (`PendingEnds`): events may come in any pace, but not in any order. `UpMeansReached`
  gathers everything that may ever say "online" and ties it to a player having got in.
* `PanelsShowTheirServer`: of the players, `PlayersInv`: whatever is shown is of the
  server the page is at (`ShownOrDue`), and is true, unless a later question is owed
  (`Owed`) or the game changed unheard of (`ShownIsTrue`, and `ReadIsTrue` for the
  answer on its way); the checkbox is as answered or a question that sets it is due
  (`BoxIsAnswered`). Of the console, `ConsoleInv`: the lines buffered and shown, cut to
  the limit, are the lines heard, cut to the limit, which needs that cutting and
  joining commute (`KeptOfAppended` and its kin) and that a timer belongs to the open
  console (`TimersAreItsOwn`).
* `PanelsOffersFit`: three invariants. `UpdateInv`: a row a check resolved heads its
  channel, so nothing the check was asked about stands above it, although rows are
  published meanwhile (`HeadIsFirst`). `BrowserInv`: one fetch is live at most and is the
  open tab's, which is why a late table never lands under another tab.
  `ModrinthInv`: the loads that are live are those of what the filters name now.
* `PanelsFixesHelp`: about the audit of *every* file and role, not of reachable states:
  `Helped` says what writing the keys of a fix may do to one finding, each rule has its
  lemma, and the audit is the rules one after another.
* `PanelsPickersAdviseTruly`: `PickerInv` ties columns and number to the form's
  value unless they are under the user's hand (`WheelInv`, `NumberInv`); the arithmetic
  (`ClockFacts`, `AmountReadsBack`) shows that hours are written and read back to the
  minute. `AdviceInv` says that what is known of a drive is known of the folder in the
  field; the growth is a fold over the folders and a natural number for every finite set
  of them, again by well-founded induction.

`AlertsPrefs_proofs` proves three more, about what the app tells of a server and what
it remembers of its user:

* `PanelsAlertsAreDeserved`: `AlertInv` reads the samples of a run as sets of times at
  which a metric was bad or good, and its alerts as the times they were raised. The
  watch of a metric holds three values; `Knows` says what they are of these sets (since
  when it has been bad, when the last alert was, whether it has been good since), and
  `WatchSteps` that one sample takes this knowledge to the next time and fires exactly
  when an alert is deserved. Both metrics are one lemma.
* `PanelsFeedTellsWhatHappened`. `FeedInv` says of the lines that their stamps are of their
  moments, give or take the slack, and of the alerts that each has its time. The rest is
  about the two loops. What is true of the rows is put so that one push keeps it: no row
  is later than another after it by more than the slack (`PushedInOrder`), nor than a time
  that bounds them all (`PushedAtMost`); keys stay apart (`PushedOwn`); one more is told
  (`PushedTells`, with a running total as the witness, which `ToldIs` shows to be the only
  one). `ReadSoFar` is the invariant of the reading: no row is later than the time last
  seen. `MergedSoFar` is the one of the merging: no row is later than an event or an alert
  still to come. Both loops are recursive functions, so each is first shown to be defined
  (`ReadingGoesOn`, `MergingGoesOn`), and `StampDated` is the arithmetic of days: away from
  a midnight that only one clock has passed, a stamp has one meaning.
* `PanelsPrefsAreTheUsers`, in two parts. Of `PanelsPrefsAreKept`, `PrefInv` says that what is stored may be anything a version
  left until it is read, and is the preferences in use from then on. It rests on
  `NormalizedOnce` (whatever order was stored, each card comes out once) and
  `NormalizedStays` (an order of all the cards comes out as it is), both about `pick`,
  the elements at some places in their order, which counts the places up to each.
  Of the level it says that the tour holds one only if it was clicked. Of
  `PanelsDropLandsWhereShown`: sequences without repetition are told by their elements
  and the order of these (`OrderTells`). `MoveOrder` says who comes before whom after a
  move, in the words of the order before; leaving cards out keeps the order of the rest
  (`WithoutOrder`); so a move among all the cards and one among those shown agree on the
  ones shown (`ShownMove`).

Assumed of the constants of the panels, and named in `MCPanels`: the waits of the alerts
and the slack are natural numbers, and a day has some length (`FeedAssumption`); a jar nobody lists is
not listed and pins are Booleans (`OfferAssumption`); durations are natural numbers
(`PickerAssumption`); folders are finitely many, have a name, and sizes are natural
numbers (`AdviceAssumption`); the number of lines kept is a natural number and no key is
empty (`TerminalAssumption`). What the providers list, the two drives, the limits
of the pickers and the dashboard's cards are definitions of `MCPanels`, and the proofs are about those; the
bounds, the servers, names, jars and everything a user does are arbitrary.

Assumed of the constants of the window, and named in `MCWindow`: 0 is not a major, as it stands for
"none" (`PromptsAssumption`); "none" is neither a name nor a source
(`WizardAssumption`); folders are finitely many and some configuration exists
(`ListAssumption`); some RAM can be shown and builds are numbers
(`SettingsAssumption`); items and backups are finite and apart
(`ContentsAssumption`); backends are finitely many and none is called as the proxy
(`RunAssumption`); base ports are ports (`PlanAssumption`);
Javas are finitely many, have positive numbers, and none is called as a download is
(`JavaAssumption`).

The proofs changed the models. In `CreateServer` a name or a jar could not be
changed while its check was in flight, which the slides allow: `setServerName` may
now clear the field and `ClearJar` is an action, and an answer to a question that is
no longer the user's counts as astray (`AsAsked`). In `ServersStore` a file that an
import has rebuilt while the sweep's dialog was open is rebuilt again from what the
list said; the folder is excused then, and the run's bound (`MaxEvents = 3`) reaches
the case. In `BackupStore` every removal succeeded unless somebody else had removed
the directory first, so that `LoneCallerKeepsABackup` held for want of failures; a
removal may now fail, and stop halfway (`NotRemoved`; the history variable `torn`
says that one did, which is where the promise ends). The backups of a scan were
sorted by a recursive definition and are now ordered by rank (`InOrder`), and their
sizes are the recorded ones. The order in which a network's backends are started is
any order of the constant `Backends`, the stages of a sequential start and a plan's
changes are functions of their index, where they were flattened by a recursive operator, and the changes that
are needed are picked by rank.

For the proofs of the panels and of the recovery, what was said by position or with a
library operator nothing is known about is said by places: the channel of a jar is a
set of places in the published list, of which the head is the least
(`JarUpdates`), the first runtime of a major is that at the least place, and the order in
which Javas are listed is a descending function (`JavaChoice`, `MCRules`). The states
reached are the same. In `DurationPicker` the branch of `Settled` that finds the
column where it should be now moves it there when the list under it got shorter, as
the code does. In `AppSettings` the order of the cards is normalised, and cards are left
out, by picking places in their order, where a filter of the library was used; what the
provers are to compute with has a name (`LastPort`), and a text that is empty is "blank".
In `ActivityFeed` the clock starts shortly before midnight (`Evening`), where it used to stop
short of it: designing the proof showed that a stamp from beyond midnight is misread, and
TLC shows it now. The lines are dated when the page reads them, which it does when they
change or when it is opened, and not at every moment (`readAt`, `Visit`); reading and
merging are recursive functions with a step of their own, where the library's folds were.
The alerts are judged within a run, by every sample the run counted,
and the drops of the dashboard are a property of the step, which also says what becomes
of the hidden cards.

Model-checked only:

* *Liveness* (`StopCompletes`, `StartSettles`, `ListenerReleased`,
  `ClosingBackupSettles`): fairness and `ENABLED` are beyond the proof system's backends.
* `PatchIsExact`, `MotdReadsBack`: each says that a parser reads back what an
  algorithm wrote. Both are recursions over lines and tokens; the proof is an induction
  over the text in which parser and writer advance together, and the library's
  induction theorems take an operator the provers here cannot instantiate. TLC checks
  them over every document and line up to its bounds, where each case of the grammar
  occurs next to each other.

## 6. What is not modelled, and why

* The crash-loop window is a count of times: `ServerLifecycle` lets each
  candidate restart happen or not, which covers both of its answers.
* Auto RAM is arithmetic on floating-point sizes. mserve.json's concurrent
  writers differ by the fields they touch; where two of them meet is in
  `ServerSettings`, `ServersStore` and `PortAssignment`.
* Telemetry storage, protocol encodings, scanning, downloads, Java detection,
  firewalls, UPnP, setup: formats and I/O of one command each, with no state
  another component depends on.
* The quit path (`force_kill_all_servers`): it ends every thread of the model.
* Of the window: layout, charts, help texts, menus; which words of a console
  line mean what; how providers' and Modrinth's answers are parsed; gradients and
  hover texts of a message; a jar picked with "Browse", whose build nothing
  records. `DurationPicker`'s number input is modelled although every page uses
  the wheel at present.

## 7. Plan

1. *Done*: the runtime of one server (`ServerSlot`, `ServerLifecycle`, proofs), what
   runs on top of it (`ServerBackups`, `ServerTunnel`), the disk (`RetentionPolicy`,
   `BackupStore`), several servers (`PortAssignment`, proofs).
2. *Done*: the window, page by page, in two runs; the proofs about its dialog of
   Javas, wizard, list, settings, backups, networks, configuration files, and about the
   status of a server and the recovery from failed boots.
3. *Done*: the proofs of `ListenersHold`, of the refinement of `ServerSlot`, of
   `BackupsTakeTurns`, of `AgentsAccountedFor`; of the retention policy and of all
   the store promises.
4. *Done*: the proofs about the panels, but for the MOTD editor.
5. *Not begun*: what section 6 leaves out. Of it, the concurrent writers of mserve.json
   and the quit path touch what is modelled, and would come first.

## 8. Running the checks

    tlc -config ServerLifecycle.cfg MCServerLifecycle
    tlc -config Window.cfg MCWindow
    tlapm ServerLifecycle_proofs.tla
    tlapm PortAssignment_proofs.tla
    tlapm ServerPartners_proofs.tla
    tlapm BackupStore_proofs.tla
    tlapm Window_proofs.tla
    tlapm Network_proofs.tla
    tlapm Panels_proofs.tla
    tlapm AlertsPrefs_proofs.tla

Every run, with its module, configuration and properties, is listed in
`PROJECT.json`, which also maps every definition to the lines it models.

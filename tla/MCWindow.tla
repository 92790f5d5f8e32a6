-------------------------------- MODULE MCWindow --------------------------------
(* The window's parts for TLC. They share no state that one changes under       *)
(* another, so each runs alone: focus says which one, and the rest stand still. *)
EXTENDS Naturals, Sequences, FiniteSets

CONSTANTS
    MaxRuns, MaxOpens, MaxViewClicks,                               \* the status
    JavaMajors, MaxDownloads, MaxAsks,                              \* Java prompts
    Names, Sources, Advanced, MaxCalls,                             \* the wizard
    Dirs, Configs, MaxEvents,                                       \* the list
    Backends, Plugins, ServerNames, BasePorts, DEFAULT_NETWORK_BASE_PORT, MaxPort,
    MaxEdits, MaxOps, MaxTroubles, Roots, MaxChanges,               \* networks
    Rams, Versions, MaxTouches,                                     \* settings
    Backups, Items, MaxClicks,                                      \* contents
    Flags, Enums, Others, MaxTyping,                                \* config files
    TomlKeys, Tables, TomlValues, MaxLines, RuleMajors                  \* rules

VARIABLES
    focus,
    srv, wire, viewShown, page, loops, viewTasks, cmd, config, doubt, used,
    queue, dialog, fetches, scans, runtimes, installed, asked, started,
    draft, calls, folders, listed, made, strayed,
    disk, store, saved, isReady, sweep, import, repair, owed, excused, spent,
    network, names, files, drawer, applying, running, synced, edits,
    states, boots, ops, tasks, busy, toasted, clicked, troubles,
    networks, onDisk, local, ready, root, saveTo, loads, unsaved, changes,
    conf, place, jar, picks, shown, online, form, saving, updating, syncing,
    touches, halfSaved, crossed,
    folder, list, isBusy, busyFile, jobs, clicks, reads, shownAt, needed,
    kind, text, readable, gameRuns, rows, originalRows, source, reading, writing,
    error, typing, outside, typed, fresh,
    doc, wanted, server, env, boot

\* Java's majors are positive.
ASSUME PromptsAssumption == 0 \notin JavaMajors

\* "none" is what the wizard's fields hold before the user fills them.
ASSUME WizardAssumption == "none" \notin Sources \union Names

\* Finitely many folders, and an mserve.json says something.
ASSUME ListAssumption == IsFiniteSet(Dirs) /\ Configs # {}

\* The settings form has a RAM to show, and builds are numbered.
ASSUME SettingsAssumption == Rams # {} /\ Versions \subseteq Nat

\* A directory holds finitely many things; a backup is no world, mod or plugin.
ASSUME ContentsAssumption ==
    IsFiniteSet(Backups) /\ IsFiniteSet(Items) /\ Backups \intersect Items = {}

\* The backends are finitely many, and the proxy is none of them.
ASSUME RunAssumption == IsFiniteSet(Backends) /\ "proxy" \notin Backends

\* A base port is a port.
ASSUME PlanAssumption ==
    /\ MaxPort \in Nat /\ BasePorts \subseteq 1..MaxPort
    /\ DEFAULT_NETWORK_BASE_PORT \in 1..MaxPort

viewVars     == <<srv, wire, viewShown, page, loops, viewTasks, cmd, config, doubt, used>>
promptVars   == <<queue, dialog, fetches, scans, runtimes, installed, asked, started>>
wizardVars   == <<draft, calls, folders, listed, made, strayed>>
storeVars    == <<disk, store, saved, isReady, sweep, import, repair, owed, excused, spent>>
planVars     == <<network, names, files, drawer, applying, running, synced, edits>>
runVars      == <<states, boots, ops, tasks, busy, toasted, clicked, troubles>>
networksVars == <<networks, onDisk, local, ready, root, saveTo, loads, unsaved, changes>>
settingsVars == <<conf, place, jar, picks, shown, online, form, saving, updating, syncing,
                  touches, halfSaved, crossed>>
contentVars  == <<folder, list, isBusy, busyFile, jobs, clicks, reads, shownAt, needed>>
configVars   == <<kind, text, readable, gameRuns, rows, originalRows, source, reading,
                  writing, error, typing, outside, typed, fresh>>
rulesVars    == <<doc, wanted, server, env, boot>>

\* Two Javas installed, the older one too old for the server.
TwoJavas == <<[path |-> "j21", major |-> 21], [path |-> "j8", major |-> 8]>>
Modern   == [minimum |-> 17, recommended |-> 21, confidence |-> "high"]

View     == INSTANCE ServerView WITH Runtimes <- TwoJavas, Need <- Modern,
                MaxClicks <- MaxViewClicks, shown <- viewShown, tasks <- viewTasks
Prompts  == INSTANCE JavaPrompts
Wizard   == INSTANCE CreateServer
Listing  == INSTANCE ServersStore
Plan     == INSTANCE NetworkPlan
Networks == INSTANCE NetworksStore
Settings == INSTANCE ServerSettings
Contents == INSTANCE ServerContents
TryOrder == Contents!SetToSeq(Backends)
Run      == INSTANCE NetworkRun
Editor   == INSTANCE ConfigFile
Rules    == INSTANCE MCRules

\* A Java has a number, and none is called what a download is.
ASSUME JavaAssumption ==
    /\ IsFiniteSet(RuleMajors) /\ RuleMajors \subseteq Nat \ {0}
    /\ \A m \in RuleMajors : Rules!Java!ToString(m) # "new"

--------------------------------------------------------------------------------
At(part) == focus = part

\* A part that stands still has one initial state.
Init ==
    /\ focus \in {"view", "prompts", "wizard", "list", "plan", "run", "networks",
                  "settings", "contents", "editor", "rules"}
    /\ View!Init /\ Prompts!PromptInit /\ Settings!SettingsInit
    /\ Wizard!WizardInit
    /\ At("wizard") \/ \A n \in Names : folders[n] = "absent"
    /\ Listing!StoreInit
    /\ At("list") \/ /\ saved = {}
                     /\ \A d \in Dirs : disk[d].valid /\ disk[d].config = CHOOSE c \in Configs : TRUE
    /\ Plan!PlanInit
    /\ At("plan") \/ \A b \in Backends : names[b] = CHOOSE n \in ServerNames : TRUE
    /\ Run!RunInit
    /\ At("run") \/ \A s \in DOMAIN states : states[s] = "offline"
    /\ Networks!NetworksInit
    /\ At("networks") \/ /\ root = CHOOSE r \in Roots : TRUE
                         /\ \A r \in Roots : onDisk[r] = Networks!Absent
    /\ Contents!ContentInit
    /\ At("contents") \/ \A e \in DOMAIN folder : folder[e] = "absent"
    /\ Editor!ConfigInit
    /\ At("editor") \/ /\ kind = "list"
                       /\ \A k \in DOMAIN text : text[k] = "absent"
    /\ Rules!RulesInit
    /\ At("rules") \/ (Rules!AnyMachine /\ env.globalDefault = "")


Next ==
    \/ /\ At("view") /\ View!Next
       /\ UNCHANGED <<focus, promptVars, wizardVars, storeVars, planVars, runVars,
                      networksVars, settingsVars, contentVars, configVars, rulesVars>>
    \/ /\ At("prompts") /\ Prompts!PromptNext
       /\ UNCHANGED <<focus, viewVars, wizardVars, storeVars, planVars, runVars,
                      networksVars, settingsVars, contentVars, configVars, rulesVars>>
    \/ /\ At("wizard") /\ Wizard!WizardNext
       /\ UNCHANGED <<focus, viewVars, promptVars, storeVars, planVars, runVars,
                      networksVars, settingsVars, contentVars, configVars, rulesVars>>
    \/ /\ At("list") /\ Listing!StoreNext
       /\ UNCHANGED <<focus, viewVars, promptVars, wizardVars, planVars, runVars,
                      networksVars, settingsVars, contentVars, configVars, rulesVars>>
    \/ /\ At("plan") /\ Plan!PlanNext
       /\ UNCHANGED <<focus, viewVars, promptVars, wizardVars, storeVars, runVars,
                      networksVars, settingsVars, contentVars, configVars, rulesVars>>
    \/ /\ At("run") /\ Run!RunNext
       /\ UNCHANGED <<focus, viewVars, promptVars, wizardVars, storeVars, planVars,
                      networksVars, settingsVars, contentVars, configVars, rulesVars>>
    \/ /\ At("networks") /\ Networks!NetworksNext
       /\ UNCHANGED <<focus, viewVars, promptVars, wizardVars, storeVars, planVars,
                      runVars, settingsVars, contentVars, configVars, rulesVars>>
    \/ /\ At("settings") /\ Settings!SettingsNext
       /\ UNCHANGED <<focus, viewVars, promptVars, wizardVars, storeVars, planVars,
                      runVars, networksVars, contentVars, configVars, rulesVars>>
    \/ /\ At("contents") /\ Contents!ContentNext
       /\ UNCHANGED <<focus, viewVars, promptVars, wizardVars, storeVars, planVars,
                      runVars, networksVars, settingsVars, configVars, rulesVars>>
    \/ /\ At("editor") /\ Editor!ConfigNext
       /\ UNCHANGED <<focus, viewVars, promptVars, wizardVars, storeVars, planVars,
                      runVars, networksVars, settingsVars, contentVars, rulesVars>>
    \/ /\ At("rules") /\ Rules!RulesNext
       /\ UNCHANGED <<focus, viewVars, promptVars, wizardVars, storeVars, planVars,
                      runVars, networksVars, settingsVars, contentVars, configVars>>

vars == <<focus, viewVars, promptVars, wizardVars, storeVars, planVars, runVars,
          networksVars, settingsVars, contentVars, configVars, rulesVars>>

Spec == Init /\ [][Next]_vars

--------------------------------------------------------------------------------
\* The parts' properties, under the names the run gives them.

\* Everything delivered, the status shown is the backend's (use-server-runtime.ts,
\* server-runtime-monitor.tsx).
QuietViewIsTrue == View!QuietViewIsTrue

\* The Java dialog asks for the oldest request, and downloads when it says so
\* (java-download.tsx).
PromptShowsOldest == Prompts!PromptShowsOldest /\ Prompts!DownloadingIsReal

\* The wizard's draft fits the slides behind the user (CreateServerContext.tsx).
DraftHoldsTogether == Wizard!DraftHoldsTogether

\* A persisted server stays so until it is removed, and after its sweep the list
\* is what the mserve.json files say (data/servers.tsx).
ListIsTrue == Listing!PersistedServersSurvive /\ Listing!ListMatchesDisk

\* No two servers of a network share a port, and an applied one routes each alias
\* to its backend (network-schema.ts, network-config-engine.ts).
NetworkHoldsTogether == Plan!PortsApart /\ Plan!AppliedNetworkRoutes

\* The proxy is up only behind its backends, and the toast over an operation
\* tells what happened (use-network-orchestration.ts).
OperationDoesWhatItTells == Run!ProxyComesLast /\ Run!ToastIsTrue

\* Nothing of the user's goes unasked: a networks.json that cannot be read is
\* never written over (data/networks.tsx), Clear All spares what it did not list
\* (use-server-backup-actions.ts), and what was typed stays through every sample
\* and status (edit-server-settings-form.tsx).
NothingGoesUnasked ==
    Networks!UnreadableFileIsKept /\ Contents!ClearsOnlyWhatWasListed /\ Settings!TypingSurvives

\* Jar, mserve.json and list agree about a server (edit-server-settings-form.tsx,
\* server-jar-update-section.tsx).
SettingsAgree == Settings!JarIsRecorded /\ Settings!ShownIsSaved

\* With nothing in flight the page lists what the directory holds
\* (server-item-list.tsx, use-server-backup-actions.ts).
QuietListIsTrue == Contents!QuietListIsTrue

\* An editor's save changes what the user typed, and nothing else
\* (use-managed-config-file.ts and the format modules).
SaveWritesOnlyEdits == Editor!SaveWritesOnlyEdits

\* Patching a TOML file gives exactly what was asked, and keeps every comment
\* (toml-patch.ts).
PatchIsExact == Rules!PatchIsExact

\* Recovery from failed boots tries each Java once and ends (java-resolution.ts,
\* server-start-recovery.ts).
FallbackTriesEachOnce == Rules!FallbackTriesEachOnce
================================================================================

-------------------------------- MODULE MCPanels --------------------------------
(* The window's panels and dialogs for TLC, composed as MCWindow composes its    *)
(* parts: they share no state that one changes under another, so focus says      *)
(* which one runs.                                                               *)
EXTENDS Naturals, FiniteSets, TLC

CONSTANTS
    Servers, MaxHappenings, TerminalKeys, TERMINAL_LINE_LIMIT, MaxSteps,     \* players, terminal
    Day, Slack, Warmup, Sustain, RamSustain, Cooldown, MaxNow, MaxLines, MaxSamples,
    Unlisted, Hidden, MaxBuild, MaxChecks,                          \* jar updates
    JavaKnown, MaxClicks,                                           \* the jar browser
    LoaderPinned, GamePinned, Games, PageSize, MaxEdits, MaxRequests, MaxInstalls,
    Faulty, MaxAuditEvents, Chars, LineBudget,                      \* settings check, MOTD
    MaxPrefEdits, MaxReleases, MaxMoves,                            \* preferences, guide
    Presets, Durations, Typed, WHEEL_MAX_HOURS, MaxPicks,           \* durations
    Folders, Uses, Limit, DEFAULT_STORAGE_LIMIT_GB, LEGACY_DEFAULT_STORAGE_LIMIT_GB, MaxTurns

VARIABLES
    focus,
    game, directory, data, panelError, keep, counted, call, queued, timers, isSending,
    sent, banTarget, blind, undone, happenings,
    storeKey, allLines, pendingLines, flushTimer, persistTimer, storedLines, waiting,
    heard, missed, late, steps,
    topic, now, lines, readAt, alerts, tracker, samples,
    unpublished, newest, conf, jar, entry, checks, confirm, isUpdating, update,
    browser, rows, fetches, filters, selected, picks, clicks,
    typed, search, result, searches, loading, error, hit, versions, details, unstable,
    busy, installing, installed, edits,
    file, role, heap, status, findings, scans, isLoading, isApplying, count, counting,
    world, auditEvents,
    host, value, shown, pendingStyle, sourceMode, motdEdits,
    user, stored, isReady, tour, page, rootField, picked, kept, updater, mounts,
    released, pluginCalls, prefEdits,
    place, slide, path, port, seat, acct, tun, ip, outcome, lookup, calls, wire, secret,
    claims, flag, agent, running, rules, worked, taught, reached, moves,
    limits, custom, minutes, locked, customPicked, customEmitted, scroll, settling, unit, text,
    typing, emitted, last, cut, pickSteps,
    target, listed, disk, unavailable, looks, promises, mountPointCache, gathers, mountPoints, turns

playerVars   == <<game, directory, data, panelError, keep, counted, call, queued, timers,
                  isSending, sent, banTarget, blind, undone, happenings>>
terminalVars == <<storeKey, allLines, pendingLines, flushTimer, persistTimer, storedLines,
                  waiting, heard, missed, late, steps>>
feedVars     == <<topic, now, lines, readAt, alerts, tracker, samples>>
updateVars   == <<unpublished, newest, conf, jar, entry, checks, confirm, isUpdating, update>>
browserVars  == <<browser, rows, fetches, filters, selected, picks, clicks>>
modrinthVars == <<typed, search, result, searches, loading, error, hit, versions, details,
                  unstable, busy, installing, installed, edits>>
auditVars    == <<file, role, heap, status, findings, scans, isLoading, isApplying, count,
                  counting, world, auditEvents>>
motdVars     == <<host, value, shown, pendingStyle, sourceMode, motdEdits>>
prefVars     == <<user, stored, isReady, tour, page, rootField, picked, kept, updater,
                  mounts, released, pluginCalls, prefEdits>>
hostVars     == <<place, slide, path, port, seat, acct, tun, ip, outcome, lookup, calls, wire,
                  secret, claims, flag, agent, running, rules, worked, taught, reached, moves>>
pickVars     == <<limits, custom, minutes, locked, customPicked, customEmitted, scroll, settling,
                  unit, text, typing, emitted, last, cut, pickSteps>>
adviceVars   == <<target, listed, disk, unavailable, looks, promises, mountPointCache, gathers,
                  mountPoints, turns>>

\* Vanilla lists its snapshots newest first; Paper a pre-release and two families.
Row(p, v, s) == [provider |-> p, version |-> v, stability |-> s]
Listed  == <<Row("vanilla", "1.21.9-pre1", "snapshot"), Row("vanilla", "25w37a", "snapshot"),
             Row("vanilla", "25w36a", "snapshot"), Row("paper", "1.22-pre1", "unstable"),
             Row("paper", "1.21.1", "stable"), Row("paper", "1.20.6", "stable")>>
Numbers == ("1.21.1" :> <<1, 21, 1>>) @@ ("1.20.6" :> <<1, 20, 6>>) @@ ("1.21.9-pre1" :> <<1, 21, 9>>)
           @@ ("25w37a" :> <<25>>) @@ ("25w36a" :> <<25>>) @@ ("1.22-dev" :> <<1, 22>>)
           @@ ("1.22-pre1" :> <<1, 22>>) @@ ("custom" :> <<>>) @@ ("unknown" :> <<>>)

\* Two tabs of builds, stable and not, for this Java and not.
JarRows == [tab : {"plugin"}, provider : {"paper", "folia"}, stability : {"stable", "unstable"},
            compatible : BOOLEAN]
    \union [tab : {"vanilla"}, provider : {"vanilla"}, stability : {"stable", "unstable"},
            compatible : {TRUE}]

\* Two projects on Modrinth; only the second is found by what may be typed.
Version(p, l, g, c) == [project |-> p, loader |-> l, game |-> g, channel |-> c]
Versions == {Version("p1", "pinned", "pinned", "release"), Version("p1", "pinned", "other", "release"),
             Version("p1", "other", "pinned", "beta"), Version("p2", "pinned", "pinned", "beta"),
             Version("p2", "other", "other", "release")}
Matches == ("" :> <<"p1", "p2">>) @@ ("b" :> <<"p2">>)

\* Three of the dashboard's cards, and an order that another version stored.
DASHBOARD_CARD_IDS == <<"servers", "storage", "activity">>
OldCards == {<<"activity", "gone", "activity", "servers">>}

\* The limits every page sets, and the ones of a test; two drives, the first shared.
Limits == {[min |-> 1, max |-> 100000], [min |-> 8, max |-> 98]}
Drive  == ("f1" :> "C") @@ ("f2" :> "C") @@ ("f3" :> "D")
Disks  == [total : {500, 10000}, available : {150, 330, 5000}]

Players  == INSTANCE PlayersPanel WITH MaxEvents <- MaxHappenings, events <- happenings,
                error <- panelError
Terminal == INSTANCE ServerTerminal WITH Keys <- TerminalKeys, stored <- storedLines
Feed     == INSTANCE ActivityFeed
Updates  == INSTANCE JarUpdates
Browser  == INSTANCE JarBrowser WITH picked <- picks
Modrinth == INSTANCE ModrinthBrowser
Audit    == INSTANCE ServerAudit WITH MaxEvents <- MaxAuditEvents, events <- auditEvents
Motd     == INSTANCE MotdEditor
Prefs    == INSTANCE AppSettings WITH calls <- pluginCalls
Hosting  == INSTANCE HostingSetup
Picker   == INSTANCE DurationPicker
Advice   == INSTANCE StorageAdvice WITH mounts <- mountPoints

\* The clock and the options of the alerts count in whole units of time.
ASSUME FeedAssumption ==
    /\ Day \in Nat \ {0} /\ Slack \in Nat /\ Warmup \in Nat /\ Cooldown \in Nat
    /\ Sustain \in Nat /\ RamSustain \in Nat

\* What nobody lists is not listed, and a provider pins the loader or it does not.
ASSUME OfferAssumption ==
    /\ \A i \in DOMAIN Listed : Listed[i].version \notin Unlisted
    /\ LoaderPinned \in BOOLEAN /\ GamePinned \in BOOLEAN

\* Durations are whole minutes, sizes whole tenths, and there is no folder without a name.
ASSUME PickerAssumption ==
    /\ Durations \subseteq Nat /\ Presets \subseteq Nat /\ Typed \subseteq Nat
    /\ WHEEL_MAX_HOURS \in Nat
ASSUME AdviceAssumption ==
    /\ IsFiniteSet(Folders) /\ Advice!NoFolder \notin Folders /\ Uses \subseteq Nat
    /\ Limit \in Nat /\ DEFAULT_STORAGE_LIMIT_GB \in Nat

\* Some number of lines is kept, and a server has a directory.
ASSUME TerminalAssumption == TERMINAL_LINE_LIMIT \in Nat /\ Terminal!NoKey \notin TerminalKeys

--------------------------------------------------------------------------------
At(part) == focus = part

\* A part that stands still has one initial state.
Init ==
    /\ focus \in {"players", "terminal", "feed", "updates", "browser", "modrinth", "audit",
                  "motd", "prefs", "hosting", "picker", "advice"}
    /\ Players!PanelInit
    /\ At("players") \/ directory = CHOOSE s \in Servers : TRUE
    /\ Terminal!TerminalInit /\ Browser!BrowserInit /\ Modrinth!ModrinthInit
    /\ Feed!FeedInit
    /\ At("feed") \/ topic = "lines"
    /\ Updates!UpdateInit
    /\ At("updates") \/ (unpublished = 0 /\ conf = Updates!Published(Listed[5]))
    /\ Audit!AuditInit
    /\ At("audit") \/ (role = "alone" /\ file = CHOOSE f \in Audit!Files : TRUE)
    /\ Motd!MotdInit
    /\ At("motd") \/ (host = "literal" /\ value = <<<<>>, <<>>>>)
    /\ Prefs!PrefInit
    /\ At("prefs") \/ stored = user
    /\ Hosting!HostInit
    /\ At("hosting") \/ (path = "none" /\ ~secret /\ ~flag /\ ~running)
    /\ Picker!PickInit
    /\ At("picker") \/ (minutes = 60 /\ custom = "wheel" /\ limits.min = 1)
    /\ Advice!AdviceInit
    /\ At("advice") \/ listed = <<>>

Next ==
    \/ /\ At("players") /\ Players!PanelNext
       /\ UNCHANGED <<focus, terminalVars, feedVars, updateVars, browserVars, modrinthVars,
                      auditVars, motdVars, prefVars, hostVars,
                      pickVars, adviceVars>>
    \/ /\ At("terminal") /\ Terminal!TerminalNext
       /\ UNCHANGED <<focus, playerVars, feedVars, updateVars, browserVars, modrinthVars,
                      auditVars, motdVars, prefVars, hostVars,
                      pickVars, adviceVars>>
    \/ /\ At("feed") /\ Feed!FeedNext
       /\ UNCHANGED <<focus, playerVars, terminalVars, updateVars, browserVars, modrinthVars,
                      auditVars, motdVars, prefVars, hostVars,
                      pickVars, adviceVars>>
    \/ /\ At("updates") /\ Updates!UpdateNext
       /\ UNCHANGED <<focus, playerVars, terminalVars, feedVars, browserVars, modrinthVars,
                      auditVars, motdVars, prefVars, hostVars,
                      pickVars, adviceVars>>
    \/ /\ At("browser") /\ Browser!BrowserNext
       /\ UNCHANGED <<focus, playerVars, terminalVars, feedVars, updateVars, modrinthVars,
                      auditVars, motdVars, prefVars, hostVars,
                      pickVars, adviceVars>>
    \/ /\ At("modrinth") /\ Modrinth!ModrinthNext
       /\ UNCHANGED <<focus, playerVars, terminalVars, feedVars, updateVars, browserVars,
                      auditVars, motdVars, prefVars, hostVars,
                      pickVars, adviceVars>>
    \/ /\ At("audit") /\ Audit!AuditNext
       /\ UNCHANGED <<focus, playerVars, terminalVars, feedVars, updateVars, browserVars,
                      modrinthVars, motdVars, prefVars, hostVars,
                      pickVars, adviceVars>>
    \/ /\ At("motd") /\ Motd!MotdNext
       /\ UNCHANGED <<focus, playerVars, terminalVars, feedVars, updateVars, browserVars,
                      modrinthVars, auditVars, prefVars, hostVars,
                      pickVars, adviceVars>>
    \/ /\ At("prefs") /\ Prefs!PrefNext
       /\ UNCHANGED <<focus, playerVars, terminalVars, feedVars, updateVars, browserVars,
                      modrinthVars, auditVars, motdVars, hostVars,
                      pickVars, adviceVars>>
    \/ /\ At("hosting") /\ Hosting!HostNext
       /\ UNCHANGED <<focus, playerVars, terminalVars, feedVars, updateVars, browserVars,
                      modrinthVars, auditVars, motdVars, prefVars,
                      pickVars, adviceVars>>
    \/ /\ At("picker") /\ Picker!PickNext
       /\ UNCHANGED <<focus, playerVars, terminalVars, feedVars, updateVars, browserVars,
                      modrinthVars, auditVars, motdVars, prefVars, hostVars, adviceVars>>
    \/ /\ At("advice") /\ Advice!AdviceNext
       /\ UNCHANGED <<focus, playerVars, terminalVars, feedVars, updateVars, browserVars,
                      modrinthVars, auditVars, motdVars, prefVars, hostVars, pickVars>>

Spec == Init /\ [][Next]_<<focus, playerVars, terminalVars, feedVars, updateVars, browserVars,
                           modrinthVars, auditVars, motdVars, prefVars, hostVars, pickVars,
                           adviceVars>>

--------------------------------------------------------------------------------
(* The panels' properties, under the names the run gives them: each of its own    *)
(* part, which stands at its initial state elsewhere.                             *)

\* The players panel at rest shows its server as it is (use-online-players.ts), and the
\* console shows the last lines its server was given (use-server-terminal.ts).
PanelShowsItsServer ==
    /\ At("players") => Players!QuietPanelIsTrue
    /\ At("terminal") => Terminal!TerminalKeepsLines

\* The activity feed tells every recognised line and alert once, in order, at its time
\* (console-events.ts).
FeedTellsWhatHappened == At("feed") => Feed!FeedIsTrue

\* An alert is raised exactly when it is deserved (telemetry-alerts.ts).
AlertsAreDeserved == At("feed") => Feed!AlertsAreDeserved

\* What is offered fits what was asked: a jar update is newer (server-update-service.ts),
\* a jar that can be confirmed is in the table (jar-browser.tsx), a page of projects is
\* that of its search and a version installed has the loader and the game asked for
\* (modrinth-browser.tsx, modrinth-project-detail.tsx).
OffersFit ==
    /\ At("updates") => Updates!OffersAreNewer
    /\ At("browser") => Browser!PickIsShown
    /\ At("modrinth") => Modrinth!InstallsWhatFits /\ Modrinth!PageIsOfSearch

\* The fix of a finding makes it pass and no other worse (server-security-audit.ts).
FixesHelp == At("audit") => Audit!FixesHelp

\* A MOTD reads back as it was edited, from its source and from its file, and aligning
\* moves its lines only (motd-editor.tsx, motd-format.ts).
MotdReadsBack ==
    At("motd") => Motd!EditorReadsItself /\ Motd!StoredIsEdited /\ Motd!AlignmentMovesOnly

\* The preferences read at the next start are the user's, and the level is one the user
\* had or clicked (user.tsx, onboarding-overlay.tsx).
PrefsAreKept == At("prefs") => Prefs!PrefsSurvive /\ Prefs!LevelWasChosen

\* A card lands where the dashboard showed it (dashboard-bento.tsx).
DropLandsWhereShown == Prefs!DropLandsWhereShown

\* Both, as the run checks them.
PrefsAreTheUsers == []PrefsAreKept /\ DropLandsWhereShown

\* A picker hands over what its limits allow and shows the form's value once it is still;
\* the limit recommended for backups is of this folder's drive and leaves its safety
\* margin free (duration-picker.tsx, use-storage-recommendation.ts,
\* storage-recommendation.ts).
PickersAdviseTruly ==
    /\ At("picker") => Picker!HandsOverWithinLimits /\ Picker!QuietPickerShowsValue
    /\ At("advice") => Advice!AdviceIsOfTarget /\ Advice!AdviceLeavesRoom

\* In the hosting guide every spinner waits for something, and the guide is done only
\* once a player could get in (use-playit-account.ts, SlideFriendTest.tsx).
GuideKeepsItsWord == At("hosting") => Hosting!NothingSpinsAlone /\ Hosting!TaughtMeansReached
================================================================================

------------------------------- MODULE ServerView -------------------------------
(* What the window shows of one server. Two loops apply the backend's events   *)
(* to the store: the page of the server while it is open, the app-wide monitor *)
(* otherwise. Beside the events the store is written by snapshots asked for    *)
(* earlier, by commands that guess, and by the recovery of a failed boot.      *)
EXTENDS JavaChoice, Naturals, FiniteSets, TLC

CONSTANTS
    Runtimes,     \* the installed Javas, newest first
    Need,         \* what the server requires
    MaxRuns,      \* JVMs that may be started (bound)
    MaxOpens,     \* times the page may be opened (bound)
    MaxClicks     \* commands the user may give (bound)

VARIABLES
    srv,          \* the backend's state of the server
    wire,         \* events sent and not delivered yet, oldest first
    shown,        \* the store's status
    page,         \* closed, opening (claimed, its listener not registered), open
    loops,        \* of either loop: its snapshot, its seen flag, its recovery
    tasks,        \* crashes whose handling waits for something
    cmd,          \* the command in flight
    config,       \* the server's pin and whether --nogui is among its flags
    doubt,        \* why the status may be wrong since the last event heard
    used          \* how much of each bound is spent

vars == <<srv, wire, shown, page, loops, tasks, cmd, config, doubt, used>>

Loops    == {"page", "monitor"}
Server   == config
Env      == [globalDefault |-> None, runtimes |-> Runtimes, need |-> Need]
Fresh    == createStartRecovery(None, 0)
Idle     == [kind |-> "none", by |-> "page", at |-> "none", answer |-> "none"]

mapRuntimeStateToStatus(state) ==
    CASE state \in {"online", "running-external"} -> "online"
      [] state = "stopping" -> "closing"
      [] state \in {"starting", "crashed", "sleeping", "offline"} -> state

\* What get_server_runtime answers: a run that ended is out of the map.
Snapshot == CASE srv = "crashed" -> "offline"
              [] srv \in {"dozing", "restarting"} -> "stopping"
              [] srv \notin {"crashed", "dozing", "restarting"} -> srv

isStoppedStatus(s) == s \in {"offline", "crashed"}
isRunningStatus(s) == s \in {"online", "starting"}
Offered(kind) ==    \* the buttons, and the terminal's input line
    CASE kind = "start"   -> isStoppedStatus(shown) \/ shown = "sleeping"
      [] kind = "stop"    -> isRunningStatus(shown) \/ shown = "sleeping"
      [] kind = "restart" -> isRunningStatus(shown)
      [] kind = "kill"    -> ~isStoppedStatus(shown)
      [] kind = "sleep"   -> shown = "online"
      [] kind = "type"    -> shown \notin {"offline", "closing"}

Init ==
    /\ srv = "offline" /\ wire = <<>> /\ shown = "offline" /\ page = "closed"
    /\ loops = [l \in Loops |->
                  [sync |-> IF l = "monitor" THEN "asked" ELSE "none",
                   seen |-> FALSE, has |-> l = "page", rec |-> Fresh]]
    /\ tasks = {} /\ cmd = Idle /\ doubt = {}
    /\ config = [pin |-> None, nogui |-> TRUE]
    /\ used = [runs |-> 0, opens |-> 0, clicks |-> 0]

--------------------------------------------------------------------------------
(* The backend, as far as its events show.                                     *)
Sends(events) == wire' = wire \o events
CanRun        == used.runs < MaxRuns
CountRun      == used' = [used EXCEPT !.runs = @ + 1]

\* A line that names a cause may precede either end of a boot.
Lines == {<<>>, <<"javaError">>, <<"noguiError">>}

JvmUp ==
    /\ srv = "starting" /\ srv' = "online"
    /\ \E line \in Lines : Sends(line \o <<"online">>)
    /\ UNCHANGED <<shown, page, loops, tasks, cmd, config, doubt, used>>

BootFails ==
    /\ srv = "starting"
    /\ \E line \in Lines, end \in {"crashed", "offline"} :
          srv' = end /\ Sends(line \o <<end>>)
    /\ UNCHANGED <<shown, page, loops, tasks, cmd, config, doubt, used>>

JvmEnds ==
    /\ \/ srv = "online" /\ srv' \in {"crashed", "offline"}
       \/ srv \in {"stopping", "running-external"} /\ srv' = "offline"
       \/ srv = "dozing" /\ srv' \in {"sleeping", "offline"}
    /\ Sends(<<srv'>>)
    /\ UNCHANGED <<shown, page, loops, tasks, cmd, config, doubt, used>>

\* An auto-restart, a wake, the second half of a restart.
BackendStarts ==
    /\ srv \in {"crashed", "sleeping", "restarting"} /\ CanRun /\ CountRun
    /\ srv' = "starting"
    /\ Sends(IF srv = "restarting" THEN <<"offline", "starting">> ELSE <<"starting">>)
    /\ UNCHANGED <<shown, page, loops, tasks, cmd, config, doubt>>

AdoptsExternal ==
    /\ srv = "offline" /\ CanRun /\ CountRun
    /\ srv' = "running-external" /\ Sends(<<"running-external">>)
    /\ UNCHANGED <<shown, page, loops, tasks, cmd, config, doubt>>

\* start_server: refused while the key is taken; a spawn that fails is announced.
StartReply(ok) ==
    IF srv \in {"offline", "crashed", "sleeping"} /\ CanRun
    THEN /\ CountRun
         /\ \/ ok /\ srv' = "starting" /\ Sends(<<"starting">>)
            \/ ~ok /\ srv' = "offline" /\ Sends(<<"offline">>)
    ELSE ~ok /\ UNCHANGED <<srv, wire, used>>

--------------------------------------------------------------------------------
(* Applying an event.                                                          *)
SetRec(l, r)   == loops' = [loops EXCEPT ![l].rec = r, ![l].has = TRUE, ![l].seen = TRUE]
Forget(l)      == loops' = [loops EXCEPT ![l].rec = Fresh, ![l].has = l = "page", ![l].seen = TRUE]
Orphan(l)      == {IF t.loop = l THEN [t EXCEPT !.mine = FALSE] ELSE t : t \in tasks}
Task(l, at)    == [loop |-> l, at |-> at, alive |-> TRUE, mine |-> TRUE, exe |-> None]
getRecovery(l) == IF loops[l].has THEN loops[l].rec
                  ELSE createResolvedStartRecovery(Server, Env)

Heard(status) == shown' = status /\ doubt' = {}

\* The crash is shown, or the boot is tried again, now or after an await.
HandleCrash(l) ==
    LET r == recoverFromBootCrash(getRecovery(l), Server, Env)
    IN  \/ /\ r.does \in {"none", "failed"}
           /\ Forget(l) /\ tasks' = Orphan(l) /\ Heard("crashed")
        \/ /\ r.does = "retry"
           /\ SetRec(l, r.rec) /\ Heard("starting")
           /\ tasks' = tasks \union {Task(l, "retry")}
        \/ /\ r.does \in {"strip", "download"}
           /\ SetRec(l, r.rec) /\ doubt' = {} /\ UNCHANGED shown
           /\ tasks' = tasks \union {Task(l, r.does)}

ApplyState(l, e) ==
    \/ /\ e \in {"online", "running-external"}
       /\ SetRec(l, noteRecoveryOnline(getRecovery(l))) /\ Heard("online")
       /\ \/ UNCHANGED config
          \/ /\ pinFoundOnline(getRecovery(l), Server) # None    \* saved
             /\ config' = [config EXCEPT !.pin = pinFoundOnline(getRecovery(l), Server)]
       /\ UNCHANGED tasks
    \/ /\ e = "starting"
       /\ IF l = "page" /\ loops[l].rec.everRunning
          THEN SetRec(l, createResolvedStartRecovery(Server, Env)) /\ tasks' = Orphan(l)
          ELSE SetRec(l, getRecovery(l)) /\ UNCHANGED tasks
       /\ Heard("starting") /\ UNCHANGED config
    \/ /\ e = "stopping"
       /\ loops' = [loops EXCEPT ![l].seen = TRUE]
       /\ Heard("closing") /\ UNCHANGED <<tasks, config>>
    \/ /\ e = "sleeping"
       /\ Forget(l) /\ tasks' = Orphan(l) /\ Heard("sleeping") /\ UNCHANGED config
    \/ /\ e = "crashed" \/ (e = "offline" /\ loops[l].has /\ hasFlaggedBootFailure(loops[l].rec))
       /\ HandleCrash(l) /\ UNCHANGED config
    \/ /\ e = "offline" /\ ~(loops[l].has /\ hasFlaggedBootFailure(loops[l].rec))
       /\ Forget(l) /\ tasks' = Orphan(l) /\ Heard("offline") /\ UNCHANGED config

ApplyOutput(l, e) ==
    /\ loops' = [loops EXCEPT ![l].rec = noteRecoveryOutput(getRecovery(l), Server, e),
                              ![l].has = TRUE]
    /\ UNCHANGED <<shown, tasks, config, doubt>>

IsLine(e) == e \in {"javaError", "noguiError"}

\* The page's listener, the monitor's while nobody claims the server.
Deliver(l) ==
    /\ wire # <<>> /\ wire' = Tail(wire)
    /\ page = IF l = "page" THEN "open" ELSE "closed"
    /\ IF IsLine(Head(wire)) THEN ApplyOutput(l, Head(wire)) ELSE ApplyState(l, Head(wire))
    /\ UNCHANGED <<srv, page, cmd, used>>

\* Claimed, and the page's listener is not registered yet: nobody hears it. Its
\* snapshot makes up for that if it is still to be taken.
Unheard ==
    /\ wire # <<>> /\ wire' = Tail(wire) /\ page = "opening"
    /\ doubt' = IF IsLine(Head(wire)) \/ loops["page"].sync = "asked"
                THEN doubt ELSE doubt \union {"unheard"}
    /\ UNCHANGED <<srv, shown, page, loops, tasks, cmd, config, used>>

--------------------------------------------------------------------------------
(* The page opens and closes; the snapshots.                                   *)
OpenPage ==
    /\ page = "closed" /\ used.opens < MaxOpens
    /\ page' = "opening" /\ used' = [used EXCEPT !.opens = @ + 1]
    /\ loops' = [loops EXCEPT !["page"] =
                   [sync |-> "asked", seen |-> FALSE, has |-> TRUE, rec |-> Fresh]]
    /\ UNCHANGED <<srv, wire, shown, tasks, cmd, config, doubt>>

PageListens ==
    /\ page = "opening" /\ page' = "open"
    /\ UNCHANGED <<srv, wire, shown, loops, tasks, cmd, config, doubt, used>>

\* What an awaiting handler of a closed page still does, it does to the disk.
ClosePage ==
    /\ page = "open" /\ page' = "closed"
    /\ tasks' = {IF t.loop = "page" THEN [t EXCEPT !.alive = FALSE, !.mine = FALSE] ELSE t :
                 t \in tasks}
    /\ loops' = [loops EXCEPT !["page"].sync = "none"]
    /\ doubt' = IF loops["page"].sync \notin {"none", "done"}
                   \/ \E t \in tasks : t.loop = "page"
                THEN doubt \union {"abandoned"} ELSE doubt
    /\ UNCHANGED <<srv, wire, shown, cmd, config, used>>

TakeSnapshot(l) ==
    /\ loops[l].sync = "asked"
    /\ loops' = [loops EXCEPT ![l].sync = Snapshot]
    /\ UNCHANGED <<srv, wire, shown, page, tasks, cmd, config, doubt, used>>

SnapshotLandsAnyway(l) ==    \* a mutant: does not ask what landed first
    /\ loops[l].sync \notin {"none", "asked", "done"}
    /\ loops' = [loops EXCEPT ![l].sync = "done"]
    /\ shown' = mapRuntimeStateToStatus(loops[l].sync)
    /\ UNCHANGED <<srv, wire, page, tasks, cmd, config, doubt, used>>

\* An event that landed first is newer. The monitor asks its own listener only.
SnapshotLands(l) ==
    /\ loops[l].sync \notin {"none", "asked", "done"}
    /\ LET answer == loops[l].sync
           up     == answer \in {"online", "running-external"}
       IN  IF loops[l].seen
           THEN /\ loops' = [loops EXCEPT ![l].sync = "done"]
                /\ UNCHANGED <<shown, doubt>>
           ELSE /\ shown' = mapRuntimeStateToStatus(answer)
                /\ loops' = [loops EXCEPT ![l].sync = "done",
                                ![l].has = @ \/ up,
                                ![l].rec = IF up THEN [getRecovery(l) EXCEPT !.everRunning = TRUE]
                                           ELSE @]
                /\ doubt' = IF l = "monitor" /\ used.opens > 0
                            THEN doubt \union {"monitorSnapshot"} ELSE doubt
    /\ UNCHANGED <<srv, wire, page, tasks, cmd, config, used>>

--------------------------------------------------------------------------------
(* After an await of a crash's handling.                                       *)
Finished(t)  == tasks' = tasks \ {t}
Becomes(t, u) == tasks' = (tasks \ {t}) \union {u}
Mutated(t, r) == IF t.mine THEN [loops EXCEPT ![t.loop].rec = r] ELSE loops

\* Retry, unless the page is gone; nothing asks what happened in between.
Retries(t, r) ==
    IF t.alive
    THEN /\ Becomes(t, [t EXCEPT !.at = "retry"])
         /\ shown' = "starting" /\ doubt' = doubt \union {"verdict"} /\ loops' = Mutated(t, r)
    ELSE Finished(t) /\ UNCHANGED <<shown, doubt>> /\ loops' = Mutated(t, r)

GivesUp(t) ==
    IF t.alive
    THEN /\ Finished(t) /\ shown' = "crashed" /\ doubt' = doubt \union {"verdict"}
         /\ loops' = [loops EXCEPT ![t.loop].rec = Fresh, ![t.loop].has = t.loop = "page"]
    ELSE Finished(t) /\ UNCHANGED <<shown, doubt, loops>>

StripDone(t) ==
    /\ t.at = "strip"
    /\ \/ /\ config' = [config EXCEPT !.nogui = FALSE]
          /\ Retries(t, FlagsSaved(loops[t.loop].rec, Server, Env))
       \/ UNCHANGED config /\ GivesUp(t)
    /\ UNCHANGED <<srv, wire, page, cmd, used>>

DownloadDone(t) ==
    /\ t.at = "download"
    /\ \/ Retries(t, Downloaded(loops[t.loop].rec,
                                [path |-> "downloaded", major |-> Need.recommended]))
       \/ GivesUp(t)
    /\ UNCHANGED <<srv, wire, page, cmd, config, used>>

\* The retry's own start_server.
RetryStarts(t) ==
    /\ t.at = "retry"
    /\ \E ok \in BOOLEAN :
          /\ StartReply(ok)
          /\ Becomes(t, [t EXCEPT !.at = IF ok THEN "started" ELSE "refused"])
    /\ UNCHANGED <<shown, page, loops, cmd, config, doubt>>

RetryReply(t) ==
    /\ t.at \in {"started", "refused"} /\ Finished(t)
    /\ IF t.at = "started" THEN UNCHANGED <<shown, doubt, loops>>
       ELSE /\ shown' = "offline" /\ doubt' = doubt \union {"refused"}
            /\ IF t.loop = "monitor"
               THEN loops' = [loops EXCEPT !["monitor"].rec = Fresh, !["monitor"].has = FALSE]
               ELSE UNCHANGED loops
    /\ UNCHANGED <<srv, wire, page, cmd, config, used>>

--------------------------------------------------------------------------------
(* Commands: the optimistic status, the backend's part, the reply.             *)
AtPage == page = "open"
AtCard == page = "closed"    \* a tile, a card, a node's menu, the overview

Click(kind, by, optimistic) ==
    /\ cmd = Idle /\ used.clicks < MaxClicks /\ Offered(kind)
    /\ used' = [used EXCEPT !.clicks = @ + 1]
    /\ cmd' = [kind |-> kind, by |-> by, at |-> "sent", answer |-> "none"]
    /\ shown' = optimistic
    /\ UNCHANGED <<srv, wire, page, config, doubt>>

SameCycle == UNCHANGED <<loops, tasks>>
NewCycle  == /\ loops' = [loops EXCEPT !["page"].rec = createResolvedStartRecovery(Server, Env)]
             /\ tasks' = Orphan("page")

handleStart     == AtPage /\ Click("start", "page", "starting") /\ NewCycle
handleStop      == AtPage /\ Click("stop", "page", "closing") /\ SameCycle
handleSleep     == AtPage /\ Click("sleep", "page", "closing") /\ SameCycle
handleRestart   == AtPage /\ Click("restart", "page", "closing") /\ NewCycle
handleForceKill == AtPage /\ Click("kill", "page", "closing") /\ SameCycle
handleTerminalCommandSubmit ==    \* a stop command, typed
    AtPage /\ Click("type", "page", "closing") /\ SameCycle

startServer     == AtCard /\ Click("start", "card", "starting") /\ SameCycle
stopServer      == AtCard /\ Click("stop", "card", "closing") /\ SameCycle
sleepServer     == AtCard /\ Click("sleep", "card", "closing") /\ SameCycle
restartServer   == AtCard /\ Click("restart", "card", "closing") /\ SameCycle
forceKillServer == AtCard /\ Click("kill", "card", "closing") /\ SameCycle

Answered(ok) == cmd' = [cmd EXCEPT !.at = IF ok THEN "ok" ELSE "err"]
StopsTo(s)   == srv' = s /\ Sends(<<"stopping">>) /\ Answered(TRUE) /\ UNCHANGED used
Refuses      == Answered(FALSE) /\ UNCHANGED <<srv, wire, used>>

Execute ==
    /\ cmd.at = "sent"
    /\ \/ cmd.kind = "start" /\ \E ok \in BOOLEAN : StartReply(ok) /\ Answered(ok)
       \/ /\ cmd.kind \in {"stop", "type", "kill"}
          /\ \/ srv \in {"starting", "online", "stopping", "dozing", "restarting"}
                /\ StopsTo("stopping")
             \/ srv = "running-external" /\ (StopsTo("stopping") \/ Refuses)
             \/ srv = "sleeping" /\ cmd.kind # "type" /\ srv' = "offline"
                /\ Sends(<<"offline">>) /\ Answered(TRUE) /\ UNCHANGED used
             \/ srv \in {"offline", "crashed"} /\ cmd.kind = "kill"
                /\ Answered(TRUE) /\ UNCHANGED <<srv, wire, used>>
             \/ srv \in {"offline", "crashed"} /\ cmd.kind # "kill" /\ Refuses
             \/ srv = "sleeping" /\ cmd.kind = "type" /\ Refuses
       \/ /\ cmd.kind = "sleep"
          /\ IF srv = "online" THEN StopsTo("dozing") ELSE Refuses
       \/ /\ cmd.kind = "restart"
          /\ \/ srv \in {"starting", "online", "stopping", "dozing"} /\ StopsTo("restarting")
             \/ srv = "running-external" /\ Refuses
             \/ srv \in {"offline", "crashed", "sleeping", "restarting"}
                /\ Answered(TRUE) /\ UNCHANGED <<srv, wire, used>>
    /\ UNCHANGED <<shown, page, loops, tasks, config, doubt>>

\* A failed command guesses what the server does now; a card asks again instead.
Guess == CASE cmd.kind = "sleep" -> "online"
           [] cmd.kind = "type"  -> shown
           [] cmd.kind \notin {"sleep", "type"} -> "offline"

Reply ==
    /\ cmd.at \in {"ok", "err"}
    /\ \/ /\ cmd.at = "ok" /\ ~(cmd.by = "card" /\ cmd.kind = "kill")
          /\ cmd' = Idle /\ UNCHANGED <<shown, doubt>>
       \/ /\ cmd.by = "card" /\ cmd.kind = "kill"
          /\ cmd' = Idle /\ shown' = "offline" /\ doubt' = doubt \union {"guess"}
       \/ /\ cmd.at = "err" /\ cmd.by = "card" /\ cmd.kind \in {"stop", "restart"}
          /\ cmd' = [cmd EXCEPT !.at = "asked"] /\ UNCHANGED <<shown, doubt>>
       \/ /\ cmd.at = "err" /\ ~(cmd.by = "card" /\ cmd.kind \in {"stop", "restart", "kill"})
          /\ cmd' = Idle /\ shown' = Guess /\ doubt' = doubt \union {"guess"}
    /\ UNCHANGED <<srv, wire, page, loops, tasks, config, used>>

refreshStatus ==
    /\ \/ cmd.at = "asked" /\ cmd' = [cmd EXCEPT !.at = "read", !.answer = Snapshot]
          /\ UNCHANGED <<shown, doubt>>
       \/ cmd.at = "read" /\ cmd' = Idle /\ shown' = mapRuntimeStateToStatus(cmd.answer)
          /\ doubt' = doubt \union {"guess"}
    /\ UNCHANGED <<srv, wire, page, loops, tasks, config, used>>

--------------------------------------------------------------------------------
Next ==
    \/ JvmUp \/ BootFails \/ JvmEnds \/ BackendStarts \/ AdoptsExternal
    \/ Unheard \/ OpenPage \/ PageListens \/ ClosePage
    \/ \E l \in Loops : Deliver(l) \/ TakeSnapshot(l) \/ SnapshotLands(l)
    \/ \E t \in tasks : StripDone(t) \/ DownloadDone(t) \/ RetryStarts(t) \/ RetryReply(t)
    \/ handleStart \/ handleStop \/ handleSleep \/ handleRestart \/ handleForceKill
    \/ handleTerminalCommandSubmit
    \/ startServer \/ stopServer \/ sleepServer \/ restartServer \/ forceKillServer
    \/ Execute \/ Reply \/ refreshStatus

Spec == Init /\ [][Next]_vars

--------------------------------------------------------------------------------
Quiet == /\ wire = <<>> /\ tasks = {} /\ cmd = Idle /\ page # "opening"
         /\ \A l \in Loops : loops[l].sync \in {"none", "done"}

\* A crash leaves nothing to ask the backend about: it is shown until the next run.
Agrees == \/ shown = mapRuntimeStateToStatus(Snapshot)
          \/ shown = "crashed" /\ Snapshot = "offline"

\* Once everything sent has arrived, the status is the backend's, whatever raced
\* before, unless since the last event heard the status was guessed after a
\* failed command, decided after an await, or an event went unheard.
QuietViewIsTrue == Quiet /\ doubt = {} => Agrees
================================================================================

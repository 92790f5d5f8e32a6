------------------------------- MODULE NetworkRun -------------------------------
(* Starting, stopping and restarting a whole network: backends before the proxy *)
(* on the way up, the proxy first on the way down, one by one or staged. An      *)
(* operation runs on when its page is left, and forgets there that it is busy.   *)
EXTENDS Naturals, Sequences, SequencesExt, FiniteSets

CONSTANTS
    TryOrder,      \* the backends, a sequence
    MaxOps,        \* operations clicked (bound)
    MaxTroubles    \* crashes, the user's own starts and stops (bound)

VARIABLES
    states,      \* the backend's state of each server
    boots,       \* how often each was started
    ops,         \* operations under way
    tasks,       \* what they wait for
    busy,        \* the page shows an operation and takes no other
    toasted,     \* the success last reported, while it is news
    clicked,
    troubles

runVars == <<states, boots, ops, tasks, busy, toasted, clicked, troubles>>

Proxy == "proxy"

NetServers == ToSet(TryOrder) \union {Proxy}
isUp(state)       == state \in {"online", "starting"}
isStopped(state)  == state \in {"offline", "crashed"}

Nothing == [kind |-> "none", before |-> [s \in NetServers |-> 0]]

--------------------------------------------------------------------------------
(* An operation is a list of stages; the tasks of a stage run side by side.     *)
Stage(verb, servers) == {[verb |-> verb, server |-> s] : s \in servers}

\* variant: the proxy comes up with the rest
runStartTogether(mode) == <<Stage("start", NetServers), Stage("ready", NetServers)>>

runStart(mode) ==
    (IF mode = "sequential"
     THEN [i \in 1..(2 * Len(TryOrder)) |->
              Stage(IF i % 2 = 1 THEN "start" ELSE "ready", {TryOrder[(i + 1) \div 2]})]
     ELSE <<Stage("start", ToSet(TryOrder)), Stage("ready", ToSet(TryOrder))>>)
    \o <<Stage("start", {Proxy}), Stage("ready", {Proxy})>>

runStop(mode) ==
    <<Stage("stop", {Proxy})>>
    \o IF mode = "sequential" THEN [i \in DOMAIN TryOrder |-> Stage("stop", {TryOrder[i]})]
       ELSE <<Stage("stop", ToSet(TryOrder))>>

Stages(kind, mode) ==
    CASE kind = "start" -> runStart(mode)
      [] kind = "stop"  -> runStop(mode)
      [] OTHER          -> runStop(mode) \o runStart(mode)

RunInit ==
    /\ \E up \in {"offline", "online"} : states = [s \in NetServers |-> up]
    /\ boots = [s \in NetServers |-> 0]
    /\ ops = {} /\ tasks = {} /\ busy = FALSE /\ toasted = Nothing
    /\ clicked = 0 /\ troubles = 0

\* An operation keeps the statuses of the render it was clicked in.
withBusy(kind, mode) ==
    /\ ~busy /\ clicked < MaxOps
    /\ busy' = TRUE /\ clicked' = clicked + 1 /\ toasted' = Nothing
    /\ ops' = {[o EXCEPT !.alone = FALSE] : o \in ops} \union
              {[id |-> clicked, kind |-> kind, left |-> Stages(kind, mode), seen |-> states,
                before |-> boots, alone |-> ops = {} /\ tasks = {},
                here |-> TRUE]}
    /\ UNCHANGED <<states, boots, tasks, troubles>>

LeavePage ==
    /\ busy /\ busy' = FALSE /\ ops' = {[o EXCEPT !.here = FALSE] : o \in ops}
    /\ UNCHANGED <<states, boots, tasks, toasted, clicked, troubles>>

TasksOf(o) == {t \in tasks : t.op = o.id}

NextStage(o) ==
    /\ o.left # <<>> /\ TasksOf(o) = {}
    /\ tasks' = tasks \union {[op |-> o.id, verb |-> t.verb, server |-> t.server, at |-> "asked"] :
                              t \in Head(o.left)}
    /\ ops' = (ops \ {o}) \union {[o EXCEPT !.left = Tail(@)]}
    /\ UNCHANGED <<states, boots, busy, toasted, clicked, troubles>>

Ends(o) == ops' = ops \ {o} /\ busy' = (busy /\ ~o.here)

Succeeds(o) ==
    /\ o.left = <<>> /\ TasksOf(o) = {} /\ Ends(o)
    /\ toasted' = IF o.alone THEN [kind |-> o.kind, before |-> o.before] ELSE toasted
    /\ UNCHANGED <<states, boots, tasks, clicked, troubles>>

\* One task fails: the operation is over, its other tasks are not.
Fails(t) ==
    /\ tasks' = tasks \ {t}
    /\ IF \E o \in ops : o.id = t.op THEN Ends(CHOOSE o \in ops : o.id = t.op)
       ELSE UNCHANGED <<ops, busy>>
    /\ UNCHANGED <<states, boots, toasted, clicked, troubles>>

TaskDone(t) == tasks' = tasks \ {t} /\ UNCHANGED <<ops, busy, toasted, clicked, troubles>>
TaskGoesOn(t, at) ==
    /\ tasks' = (tasks \ {t}) \union {[t EXCEPT !.at = at]}
    /\ UNCHANGED <<ops, busy, toasted, clicked, troubles>>

Boots(s) == states' = [states EXCEPT ![s] = "starting"] /\ boots' = [boots EXCEPT ![s] = @ + 1]

--------------------------------------------------------------------------------

\* Up or coming up is left alone, by the backend's word, not the list's.
startOne(t) ==
    /\ t.verb = "start" /\ t.at = "asked" /\ UNCHANGED <<states, boots>>
    /\ IF isUp(states[t.server]) THEN TaskDone(t) ELSE TaskGoesOn(t, "java")

\* The Java is found, perhaps by a dialog; a server that is closing or up refuses.
StartsWithJava(t) ==
    /\ t.verb = "start" /\ t.at = "java"
    /\ isStopped(states[t.server]) \/ states[t.server] = "sleeping"
    /\ Boots(t.server) /\ TaskDone(t)

awaitReady(t) ==
    /\ t.verb = "ready" /\ states[t.server] = "online"
    /\ TaskDone(t) /\ UNCHANGED <<states, boots>>

\* Skipped for a server the click saw stopped; refused by one that is.
stopOne(t) ==
    /\ t.verb = "stop" /\ t.at = "asked" /\ UNCHANGED boots
    /\ \/ /\ \E o \in ops : o.id = t.op /\ isStopped(o.seen[t.server])
          /\ TaskDone(t) /\ UNCHANGED states
       \/ /\ \E o \in ops : o.id = t.op /\ ~isStopped(o.seen[t.server])
          /\ ~isStopped(states[t.server])
          /\ states' = [states EXCEPT ![t.server] = IF @ = "sleeping" THEN "offline" ELSE "closing"]
          /\ TaskGoesOn(t, "sent")

StopAwaited(t) ==
    /\ t.verb = "stop" /\ t.at = "sent" /\ isStopped(states[t.server])
    /\ TaskDone(t) /\ UNCHANGED <<states, boots>>

\* No Java, a refusal, or one of the bounded waits that ran out.
TaskFails(t) ==
    /\ \/ t.verb = "start" /\ t.at = "java"
       \/ t.verb = "ready" /\ states[t.server] # "online"
       \/ t.verb = "stop" /\ t.at = "asked"
          /\ ~\E o \in ops : o.id = t.op /\ isStopped(o.seen[t.server])
       \/ t.verb = "stop" /\ t.at = "sent" /\ ~isStopped(states[t.server])
    /\ Fails(t)

--------------------------------------------------------------------------------
(* The servers.                                                                 *)
ComesUp(s) ==
    /\ states[s] = "starting" /\ states' = [states EXCEPT ![s] = "online"]
    /\ UNCHANGED <<boots, ops, tasks, busy, toasted, clicked, troubles>>
GoesDown(s) ==
    /\ states[s] = "closing" /\ states' = [states EXCEPT ![s] = "offline"]
    /\ UNCHANGED <<boots, ops, tasks, busy, toasted, clicked, troubles>>

\* A crash, a sleep, the user's own start or stop: no operation is alone any more.
Trouble(s) ==
    /\ troubles < MaxTroubles /\ troubles' = troubles + 1
    /\ \/ isUp(states[s]) /\ states' = [states EXCEPT ![s] = "crashed"] /\ UNCHANGED boots
       \/ states[s] = "online" /\ states' = [states EXCEPT ![s] = "sleeping"] /\ UNCHANGED boots
       \/ isUp(states[s]) /\ states' = [states EXCEPT ![s] = "closing"] /\ UNCHANGED boots
       \/ (isStopped(states[s]) \/ states[s] = "sleeping") /\ Boots(s)
    /\ ops' = {[o EXCEPT !.alone = FALSE] : o \in ops} /\ toasted' = Nothing
    /\ UNCHANGED <<tasks, busy, clicked>>

RunNext ==
    \/ \E kind \in {"start", "stop", "restart"}, mode \in {"sequential", "staged"} :
          withBusy(kind, mode)
    \/ LeavePage
    \/ \E o \in ops : NextStage(o) \/ Succeeds(o)
    \/ \E t \in tasks : startOne(t) \/ StartsWithJava(t) \/ awaitReady(t) \/ stopOne(t)
                        \/ StopAwaited(t) \/ TaskFails(t)
    \/ \E s \in NetServers : ComesUp(s) \/ GoesDown(s) \/ Trouble(s)

RunSpec == RunInit /\ [][RunNext]_runVars

--------------------------------------------------------------------------------
\* The proxy is started by an operation nobody interferes with only behind
\* backends that are all up: players never reach a proxy without a server.
ProxyComesLast ==
    \A o \in ops : \A t \in TasksOf(o) :
        o.alone /\ t.verb \in {"start", "ready"} /\ t.server = Proxy =>
            \A s \in ToSet(TryOrder) : states[s] = "online"

\* "Network started", "stopped", "restarted" is what happened: all online, all
\* down, or all online in a process younger than the click.
ToastIsTrue ==
    /\ toasted.kind \in {"start", "restart"} => \A s \in NetServers : states[s] = "online"
    /\ toasted.kind = "stop" => \A s \in NetServers : isStopped(states[s])
    /\ toasted.kind = "restart" => \A s \in NetServers : boots[s] > toasted.before[s]
================================================================================

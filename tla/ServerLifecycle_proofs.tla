------------------------- MODULE ServerLifecycle_proofs ------------------------
(***************************************************************************)
(* Proofs about ServerLifecycle, for any number of threads and runs.        *)
(***************************************************************************)
EXTENDS ServerLifecycle, TLAPS

StartPcs  == {"spawn", "attach", "release"}
ActivePcs == {"poll", "probe", "write"}

\* The fields of the entry fit together.
Shape ==
    /\ ~InMap => entry = Absent
    /\ InMap => entry.state \notin {"offline", "crashed"}
    /\ entry.child => /\ entry.java
                      /\ entry.state \in {"starting", "online", "stopping"}
    /\ InMap /\ ~entry.child /\ entry.java =>
          entry.state \in {"starting", "stopping", "sleeping"}
    /\ InMap /\ ~entry.java => entry.state \in {"running-external", "stopping"}
    /\ entry.state = "sleeping" => entry.java /\ ~entry.child
    /\ entry.stopRequested => entry.state = "stopping"

\* Generations are fresh: nothing exists yet of those not handed out.
Fresh ==
    /\ entry.gen <= lastGen
    /\ \A t \in Threads : tgen[t] <= lastGen /\ from[t] <= lastGen
    /\ \A g \in Gens : g > lastGen => jvm[g] = "none" /\ spc[g] = "none" /\ lst[g] = "none"

\* A reservation and its start thread belong to each other.
StartsOwn ==
    /\ \A t \in Threads : pc[t] \in StartPcs =>
          IsReservation(entry) /\ tgen[t] = entry.gen
    /\ \A t, u \in Threads : pc[t] \in StartPcs /\ pc[u] \in StartPcs => t = u
    /\ IsReservation(entry) =>
          /\ spc[entry.gen] = "none"
          /\ \E t \in Threads : pc[t] \in StartPcs /\ tgen[t] = entry.gen
    /\ \A t \in Threads : pc[t] \in {"spawn", "release"} => jvm[tgen[t]] = "none"

\* A sleeping run's supervisor has finished polling.
SleepersParked ==
    entry.state = "sleeping" => spc[entry.gen] \in {"bind", "attach", "done"}

\* Only a sleeping run's listener may be that of the run in the map.
ListenersAsleep ==
    \A g \in Gens : lst[g] # "none" /\ entry.gen = g => entry.state = "sleeping"

\* A run does not gain or lose its child between a snapshot and its use.
SnapshotsHold ==
    \A g \in Gens : spc[g] \in {"probe", "write"} /\ entry.gen = g =>
        snap[g].child = entry.child

\* A supervisor that is polling, or has yet to, has not missed its limit.
MissesCounted ==
    \A g \in Gens : spc[g] \in ActivePcs \union {"none"} => miss[g] < OfflineStreak

\* What the other threads hold on to.
ThreadsHold ==
    /\ \A t \in Threads : from[t] # 0 /\ entry.gen = from[t] => entry.state = "sleeping"
    /\ \A t \in Threads : pc[t] \in {"rcon", "portKill"} =>
          tgen[t] # 0 /\ (entry.gen = tgen[t] => IsAdopted(entry))
    /\ \A t \in Threads : pc[t] = "terminate" => tgen[t] # 0 /\ entry.gen # tgen[t]

IInv == TypeOK /\ Shape /\ Fresh /\ StartsOwn /\ RunSupervised /\ SleepersParked
        /\ ListenersAsleep /\ SnapshotsHold /\ MissesCounted /\ ThreadsHold /\ NoOrphanJvm

--------------------------------------------------------------------------------
(* What the helpers return. *)

\* A runtime built from a run's number, a state and whether mserve owns it is
\* well typed, and so is the absence of one.
LEMMA NewRuntimeType ==
    ASSUME NEW g \in 0..MaxGen, NEW s \in LifecycleStates, NEW java \in BOOLEAN
    PROVE  NewRuntime(g, s, java) \in Runtime
BY DEF NewRuntime, Runtime

\* The absence of an entry is well typed.
LEMMA AbsentType == Absent \in Runtime
<1>1. 0 \in 0..MaxGen BY MaxGenAssumption
<1>2. QED BY <1>1, NewRuntimeType DEF Absent, LifecycleStates

\* mark_stopping changes nothing but the two fields it is about.
LEMMA MarkStoppingFields ==
    ASSUME NEW r \in Runtime
    PROVE  /\ MarkStopping(r) \in Runtime
           /\ MarkStopping(r).stopRequested
           /\ MarkStopping(r).state = IF r.state \in {"offline",
                 "crashed"} THEN r.state ELSE "stopping"
           /\ MarkStopping(r).gen = r.gen
           /\ MarkStopping(r).child = r.child
           /\ MarkStopping(r).java = r.java
           /\ MarkStopping(r).listener = r.listener
BY DEF MarkStopping, Runtime, LifecycleStates

\* next_state keeps the states of an owned run among those of an owned run, and
\* an adopted one's among those of an adopted one, until it declares it off.
LEMMA NextStateFacts ==
    ASSUME NEW s \in Snapshots, NEW answers \in BOOLEAN, NEW streak \in 0..OfflineStreak,
           streak < OfflineStreak, NEW n, n = NextState(s, answers, streak)
    PROVE  /\ n.state \in LifecycleStates
           /\ n.miss \in 0..OfflineStreak
           /\ ~n.off => n.miss < OfflineStreak
           /\ s.child => ~n.off /\ n.state \in {s.state, "online"}
           /\ s.child /\ n.state # s.state => s.state = "starting"
           /\ ~n.off /\ ~s.child => n.state \in {s.state, "running-external"}
           /\ s.state = "stopping" /\ ~n.off => n.state = "stopping"
<1>1. CASE s.child
    <2>1. n = [state |-> IF s.state = "starting" /\ answers THEN "online" ELSE s.state,
               miss |-> 0, off |-> FALSE]
        BY <1>1 DEF NextState
    <2>2. ~n.off /\ n.miss = 0 BY <2>1
    <2>3. n.state = IF s.state = "starting" /\ answers THEN "online" ELSE s.state BY <2>1
    <2>4. QED BY <1>1, <2>2, <2>3 DEF Snapshots, LifecycleStates, OfflineStreak
<1>2. CASE ~s.child /\ answers
    <2>1. n = [state |-> IF s.state = "stopping" THEN "stopping" ELSE "running-external",
               miss |-> 0, off |-> FALSE]
        BY <1>2 DEF NextState
    <2>2. ~n.off /\ n.miss = 0 BY <2>1
    <2>3. /\ s.state = "stopping" => n.state = "stopping"
          /\ s.state # "stopping" => n.state = "running-external"
        BY <2>1
    <2>4. n.miss \in 0..OfflineStreak /\ n.miss < OfflineStreak BY <2>2 DEF OfflineStreak
    <2>5. QED BY <1>2, <2>2, <2>3, <2>4 DEF Snapshots, LifecycleStates
<1>3. CASE ~s.child /\ ~answers /\ streak + 1 < OfflineStreak
    <2>1. n = [state |-> s.state, miss |-> streak + 1, off |-> FALSE]
        <3>1. (streak + 1 >= OfflineStreak) = FALSE BY <1>3 DEF OfflineStreak
        <3>2. QED BY <1>3, <3>1 DEF NextState
    <2>2. QED BY <1>3, <2>1 DEF Snapshots, LifecycleStates, OfflineStreak
<1>4. CASE ~s.child /\ ~answers /\ ~(streak + 1 < OfflineStreak)
    <2>1. n = [state |-> "offline", miss |-> streak + 1, off |-> TRUE]
        <3>1. (streak + 1 >= OfflineStreak) = TRUE BY <1>4 DEF OfflineStreak
        <3>2. QED BY <1>4, <3>1 DEF NextState
    <2>2. QED BY <1>4, <2>1 DEF Snapshots, LifecycleStates, OfflineStreak
<1>5. QED BY <1>1, <1>2, <1>3, <1>4

--------------------------------------------------------------------------------
(* Every action keeps the invariant. *)

\* StartServer keeps the invariant.
LEMMA StartServerInv ==
    ASSUME NEW t \in Threads, IInv, StartServer(t) PROVE IInv'
<1>1. TypeOK'
  <2>1. pc' \in [Threads -> ThreadPcs]
      BY MaxGenAssumption DEF IInv, TypeOK, StartServer, listenerVars, supervisorVars,
          Goto, ThreadPcs
  <2>2. QED BY <2>1 DEF IInv, TypeOK, StartServer, listenerVars, supervisorVars
<1>2. StartsOwn'
    BY DEF IInv, TypeOK, StartsOwn, IsReservation, StartPcs, Gens, StartServer,
        listenerVars, supervisorVars, Goto
<1>3. ThreadsHold'
    BY DEF IInv, TypeOK, ThreadsHold, IsAdopted, StartServer, listenerVars, supervisorVars,
        Goto
<1>4. NoOrphanJvm'
    BY DEF IInv, TypeOK, NoOrphanJvm, Live, Gens, StartServer, listenerVars,
        supervisorVars, Goto
<1>5. Shape' /\ Fresh' /\ RunSupervised' /\ SleepersParked' /\ ListenersAsleep'
      /\ SnapshotsHold' /\ MissesCounted'
    BY DEF IInv, Shape, Fresh, RunSupervised, SleepersParked, ListenersAsleep,
        SnapshotsHold, MissesCounted, InMap, Gens, IsAdopted, ActivePcs, OfflineStreak,
        Absent, StartServer, listenerVars, supervisorVars
<1>6. QED BY <1>1, <1>2, <1>3, <1>4, <1>5 DEF IInv

\* StartChecks keeps the invariant.
LEMMA StartChecksInv ==
    ASSUME NEW t \in Threads, IInv, StartChecks(t) PROVE IInv'
<1>1. TypeOK'
  <2>1. pc' \in [Threads -> ThreadPcs]
      BY MaxGenAssumption DEF IInv, TypeOK, StartChecks, listenerVars, supervisorVars,
          Goto, ThreadPcs
  <2>2. QED BY <2>1 DEF IInv, TypeOK, StartChecks, listenerVars, supervisorVars
<1>2. StartsOwn'
    BY DEF IInv, TypeOK, StartsOwn, IsReservation, StartPcs, Gens, StartChecks,
        listenerVars, supervisorVars, Goto
<1>3. ThreadsHold'
    BY DEF IInv, TypeOK, ThreadsHold, IsAdopted, StartChecks, listenerVars, supervisorVars,
        Goto
<1>4. NoOrphanJvm'
    BY DEF IInv, TypeOK, NoOrphanJvm, Live, Gens, StartChecks, listenerVars,
        supervisorVars, Goto
<1>5. Shape' /\ Fresh' /\ RunSupervised' /\ SleepersParked' /\ ListenersAsleep'
      /\ SnapshotsHold' /\ MissesCounted'
    BY DEF IInv, Shape, Fresh, RunSupervised, SleepersParked, ListenersAsleep,
        SnapshotsHold, MissesCounted, InMap, Gens, IsAdopted, ActivePcs, OfflineStreak,
        Absent, StartChecks, listenerVars, supervisorVars
<1>6. QED BY <1>1, <1>2, <1>3, <1>4, <1>5 DEF IInv

\* StartRefused keeps the invariant.
LEMMA StartRefusedInv ==
    ASSUME NEW t \in Threads, IInv, StartRefused(t) PROVE IInv'
<1>1. CASE from[t] = 0
  <2>1. TypeOK'
    <3>1. pc' \in [Threads -> ThreadPcs]
        BY <1>1, MaxGenAssumption DEF IInv, TypeOK, StartRefused, listenerVars,
            supervisorVars, StartError, Goto, ThreadPcs
    <3>2. tgen' \in [Threads -> 0..MaxGen]
        BY <1>1, MaxGenAssumption DEF IInv, TypeOK, StartRefused, listenerVars,
            supervisorVars, StartError, Goto, Runtime, Gens
    <3>3. QED BY <3>1, <3>2 DEF IInv, TypeOK, StartRefused, listenerVars, supervisorVars
  <2>2. Fresh'
      BY <1>1, MaxGenAssumption DEF IInv, TypeOK, Fresh, Gens, StartRefused, listenerVars,
          supervisorVars, StartError, Goto
  <2>3. StartsOwn'
      BY <1>1 DEF IInv, TypeOK, StartsOwn, IsReservation, StartPcs, Gens, StartRefused,
          listenerVars, supervisorVars, StartError, Goto
  <2>4. ThreadsHold'
      BY <1>1 DEF IInv, TypeOK, ThreadsHold, IsAdopted, StartRefused, listenerVars,
          supervisorVars, StartError, Goto
  <2>5. NoOrphanJvm'
      BY <1>1 DEF IInv, TypeOK, NoOrphanJvm, Live, Gens, StartRefused, listenerVars,
          supervisorVars, StartError, Goto
  <2>6. Shape' /\ RunSupervised' /\ SleepersParked' /\ ListenersAsleep' /\ SnapshotsHold'
        /\ MissesCounted'
      BY <1>1 DEF IInv, Shape, RunSupervised, SleepersParked, ListenersAsleep,
          SnapshotsHold, MissesCounted, InMap, IsAdopted, ActivePcs, Gens, OfflineStreak,
          Absent, StartRefused, listenerVars, supervisorVars
  <2>7. QED BY <2>1, <2>2, <2>3, <2>4, <2>5, <2>6 DEF IInv
<1>2. CASE from[t] # 0
  <2>1. TypeOK'
    <3>1. pc' \in [Threads -> ThreadPcs]
        BY <1>2, MaxGenAssumption DEF IInv, TypeOK, StartRefused, listenerVars,
            supervisorVars, StartError, Goto, ThreadPcs
    <3>2. tgen' \in [Threads -> 0..MaxGen]
        BY <1>2, MaxGenAssumption DEF IInv, TypeOK, StartRefused, listenerVars,
            supervisorVars, StartError, Goto, Runtime, Gens
    <3>3. QED BY <3>1, <3>2 DEF IInv, TypeOK, StartRefused, listenerVars, supervisorVars
  <2>2. Fresh'
      BY <1>2, MaxGenAssumption DEF IInv, TypeOK, Fresh, Gens, StartRefused, listenerVars,
          supervisorVars, StartError, Goto
  <2>3. StartsOwn'
      BY <1>2 DEF IInv, TypeOK, StartsOwn, IsReservation, StartPcs, Gens, StartRefused,
          listenerVars, supervisorVars, StartError, Goto
  <2>4. ThreadsHold'
      BY <1>2 DEF IInv, TypeOK, ThreadsHold, IsAdopted, StartRefused, listenerVars,
          supervisorVars, StartError, Goto
  <2>5. NoOrphanJvm'
      BY <1>2 DEF IInv, TypeOK, NoOrphanJvm, Live, Gens, StartRefused, listenerVars,
          supervisorVars, StartError, Goto
  <2>6. Shape' /\ RunSupervised' /\ SleepersParked' /\ ListenersAsleep' /\ SnapshotsHold'
        /\ MissesCounted'
      BY <1>2 DEF IInv, Shape, RunSupervised, SleepersParked, ListenersAsleep,
          SnapshotsHold, MissesCounted, InMap, IsAdopted, ActivePcs, Gens, OfflineStreak,
          Absent, StartRefused, listenerVars, supervisorVars
  <2>7. QED BY <2>1, <2>2, <2>3, <2>4, <2>5, <2>6 DEF IInv
<1>3. QED BY <1>1, <1>2

\* ClaimKey keeps the invariant.
LEMMA ClaimKeyInv ==
    ASSUME NEW t \in Threads, IInv, ClaimKey(t) PROVE IInv'
<1>1. CASE entry.child
  <2>1. TypeOK'
    <3>1. entry' \in Runtime
        BY <1>1, MaxGenAssumption DEF IInv, TypeOK, ClaimKey, supervisorVars, MayClaim,
            FlagListener, Goto, Reaped, Alive, Live, IsReservation, IsAdopted, NewRuntime,
            Runtime, LifecycleStates, Gens
    <3>2. lastGen' \in 0..MaxGen
        BY <1>1, MaxGenAssumption DEF IInv, TypeOK, ClaimKey, supervisorVars, MayClaim,
            FlagListener, Goto, Reaped, Alive, Live, IsReservation, IsAdopted, NewRuntime,
            Runtime, LifecycleStates
    <3>3. jvm' \in [Gens -> JvmStates]
        BY <1>1, MaxGenAssumption DEF IInv, TypeOK, ClaimKey, supervisorVars, MayClaim,
            FlagListener, Goto, Reaped, Alive, Live, IsReservation, IsAdopted, NewRuntime,
            Runtime, LifecycleStates, JvmStates, Gens
    <3>4. flag' \in [Gens -> BOOLEAN]
        BY <1>1, MaxGenAssumption DEF IInv, TypeOK, ClaimKey, supervisorVars, MayClaim,
            FlagListener, Goto, Reaped, Alive, Live, IsReservation, IsAdopted, NewRuntime,
            Runtime, LifecycleStates, Gens
    <3>5. pc' \in [Threads -> ThreadPcs]
        BY <1>1, MaxGenAssumption DEF IInv, TypeOK, ClaimKey, supervisorVars, MayClaim,
            FlagListener, Goto, Reaped, Alive, Live, IsReservation, IsAdopted, NewRuntime,
            Runtime, LifecycleStates, ThreadPcs
    <3>6. tgen' \in [Threads -> 0..MaxGen]
        BY <1>1, MaxGenAssumption DEF IInv, TypeOK, ClaimKey, supervisorVars, MayClaim,
            FlagListener, Goto, Reaped, Alive, Live, IsReservation, IsAdopted, NewRuntime,
            Runtime, LifecycleStates, Gens
    <3>7. QED BY <3>1, <3>2, <3>3, <3>4, <3>5, <3>6 DEF IInv, TypeOK, ClaimKey, supervisorVars
  <2>2. Shape'
      BY <1>1 DEF IInv, TypeOK, Shape, InMap, ClaimKey, supervisorVars, MayClaim,
          FlagListener, Goto, Reaped, Alive, Live, IsReservation, IsAdopted, Absent,
          NewRuntime, Runtime, LifecycleStates
  <2>3. Fresh'
      BY <1>1, MaxGenAssumption DEF IInv, TypeOK, Fresh, Gens, ClaimKey, supervisorVars,
          MayClaim, FlagListener, Goto, Reaped, Alive, Live, IsReservation, IsAdopted,
          NewRuntime, Runtime, LifecycleStates
  <2>4. StartsOwn'
      BY <1>1, MaxGenAssumption DEF IInv, TypeOK, Shape, Fresh, StartsOwn, InMap, Gens,
          IsReservation, StartPcs, ClaimKey, supervisorVars, MayClaim, FlagListener, Goto,
          Reaped, Alive, Live, IsAdopted, Absent, NewRuntime, Runtime, LifecycleStates
  <2>5. RunSupervised'
      BY <1>1 DEF IInv, TypeOK, RunSupervised, IsAdopted, ActivePcs, ClaimKey,
          supervisorVars, MayClaim, FlagListener, Goto, Reaped, Alive, Live, IsReservation,
          NewRuntime, Runtime, LifecycleStates
  <2>6. SleepersParked'
      BY <1>1 DEF IInv, TypeOK, SleepersParked, ClaimKey, supervisorVars, MayClaim,
          FlagListener, Goto, Reaped, Alive, Live, IsReservation, IsAdopted, NewRuntime,
          Runtime, LifecycleStates
  <2>7. ListenersAsleep'
      BY <1>1, MaxGenAssumption DEF IInv, TypeOK, Shape, Fresh, StartsOwn, ListenersAsleep,
          InMap, Gens, IsReservation, StartPcs, ClaimKey, supervisorVars, MayClaim,
          FlagListener, Goto, Reaped, Alive, Live, IsAdopted, Absent, NewRuntime, Runtime,
          LifecycleStates
  <2>8. SnapshotsHold'
      BY <1>1, MaxGenAssumption DEF IInv, TypeOK, Shape, Fresh, StartsOwn, SnapshotsHold,
          InMap, Gens, IsReservation, StartPcs, ClaimKey, supervisorVars, MayClaim,
          FlagListener, Goto, Reaped, Alive, Live, IsAdopted, Absent, NewRuntime, Runtime,
          LifecycleStates
  <2>9. ThreadsHold'
      BY <1>1, MaxGenAssumption DEF IInv, TypeOK, Shape, Fresh, StartsOwn, ThreadsHold,
          InMap, Gens, IsReservation, StartPcs, IsAdopted, ClaimKey, supervisorVars,
          MayClaim, FlagListener, Goto, Reaped, Alive, Live, Absent, NewRuntime, Runtime,
          LifecycleStates
  <2>10. NoOrphanJvm'
      BY <1>1 DEF IInv, TypeOK, NoOrphanJvm, Live, Gens, ClaimKey, supervisorVars,
          MayClaim, FlagListener, Goto, Reaped, Alive, IsReservation, IsAdopted,
          NewRuntime, Runtime, LifecycleStates
  <2>11. MissesCounted'
      BY <1>1 DEF IInv, MissesCounted, Gens, OfflineStreak, ActivePcs, ClaimKey,
          supervisorVars
  <2>12. QED BY <2>1, <2>2, <2>3, <2>4, <2>5, <2>6, <2>7, <2>8, <2>9, <2>10, <2>11 DEF IInv
<1>2. CASE ~entry.child
  <2>1. TypeOK'
    <3>1. entry' \in Runtime
        BY <1>2, MaxGenAssumption DEF IInv, TypeOK, ClaimKey, supervisorVars, MayClaim,
            FlagListener, Goto, Reaped, Alive, Live, IsReservation, IsAdopted, NewRuntime,
            Runtime, LifecycleStates, Gens
    <3>2. lastGen' \in 0..MaxGen
        BY <1>2, MaxGenAssumption DEF IInv, TypeOK, ClaimKey, supervisorVars, MayClaim,
            FlagListener, Goto, Reaped, Alive, Live, IsReservation, IsAdopted, NewRuntime,
            Runtime, LifecycleStates
    <3>3. jvm' \in [Gens -> JvmStates]
        BY <1>2, MaxGenAssumption DEF IInv, TypeOK, ClaimKey, supervisorVars, MayClaim,
            FlagListener, Goto, Reaped, Alive, Live, IsReservation, IsAdopted, NewRuntime,
            Runtime, LifecycleStates, JvmStates, Gens
    <3>4. flag' \in [Gens -> BOOLEAN]
        BY <1>2, MaxGenAssumption DEF IInv, TypeOK, ClaimKey, supervisorVars, MayClaim,
            FlagListener, Goto, Reaped, Alive, Live, IsReservation, IsAdopted, NewRuntime,
            Runtime, LifecycleStates, Gens
    <3>5. pc' \in [Threads -> ThreadPcs]
        BY <1>2, MaxGenAssumption DEF IInv, TypeOK, ClaimKey, supervisorVars, MayClaim,
            FlagListener, Goto, Reaped, Alive, Live, IsReservation, IsAdopted, NewRuntime,
            Runtime, LifecycleStates, ThreadPcs
    <3>6. tgen' \in [Threads -> 0..MaxGen]
        BY <1>2, MaxGenAssumption DEF IInv, TypeOK, ClaimKey, supervisorVars, MayClaim,
            FlagListener, Goto, Reaped, Alive, Live, IsReservation, IsAdopted, NewRuntime,
            Runtime, LifecycleStates, Gens
    <3>7. QED BY <3>1, <3>2, <3>3, <3>4, <3>5, <3>6 DEF IInv, TypeOK, ClaimKey, supervisorVars
  <2>2. Shape'
      BY <1>2 DEF IInv, TypeOK, Shape, InMap, ClaimKey, supervisorVars, MayClaim,
          FlagListener, Goto, Reaped, Alive, Live, IsReservation, IsAdopted, Absent,
          NewRuntime, Runtime, LifecycleStates
  <2>3. Fresh'
      BY <1>2, MaxGenAssumption DEF IInv, TypeOK, Fresh, Gens, ClaimKey, supervisorVars,
          MayClaim, FlagListener, Goto, Reaped, Alive, Live, IsReservation, IsAdopted,
          NewRuntime, Runtime, LifecycleStates
  <2>4. StartsOwn'
      BY <1>2, MaxGenAssumption DEF IInv, TypeOK, Shape, Fresh, StartsOwn, InMap, Gens,
          IsReservation, StartPcs, ClaimKey, supervisorVars, MayClaim, FlagListener, Goto,
          Reaped, Alive, Live, IsAdopted, Absent, NewRuntime, Runtime, LifecycleStates
  <2>5. RunSupervised'
      BY <1>2 DEF IInv, TypeOK, RunSupervised, IsAdopted, ActivePcs, ClaimKey,
          supervisorVars, MayClaim, FlagListener, Goto, Reaped, Alive, Live, IsReservation,
          NewRuntime, Runtime, LifecycleStates
  <2>6. SleepersParked'
      BY <1>2 DEF IInv, TypeOK, SleepersParked, ClaimKey, supervisorVars, MayClaim,
          FlagListener, Goto, Reaped, Alive, Live, IsReservation, IsAdopted, NewRuntime,
          Runtime, LifecycleStates
  <2>7. ListenersAsleep'
      BY <1>2, MaxGenAssumption DEF IInv, TypeOK, Shape, Fresh, StartsOwn, ListenersAsleep,
          InMap, Gens, IsReservation, StartPcs, ClaimKey, supervisorVars, MayClaim,
          FlagListener, Goto, Reaped, Alive, Live, IsAdopted, Absent, NewRuntime, Runtime,
          LifecycleStates
  <2>8. SnapshotsHold'
      BY <1>2, MaxGenAssumption DEF IInv, TypeOK, Shape, Fresh, StartsOwn, SnapshotsHold,
          InMap, Gens, IsReservation, StartPcs, ClaimKey, supervisorVars, MayClaim,
          FlagListener, Goto, Reaped, Alive, Live, IsAdopted, Absent, NewRuntime, Runtime,
          LifecycleStates
  <2>9. ThreadsHold'
      BY <1>2, MaxGenAssumption DEF IInv, TypeOK, Shape, Fresh, StartsOwn, ThreadsHold,
          InMap, Gens, IsReservation, StartPcs, IsAdopted, ClaimKey, supervisorVars,
          MayClaim, FlagListener, Goto, Reaped, Alive, Live, Absent, NewRuntime, Runtime,
          LifecycleStates
  <2>10. NoOrphanJvm'
      BY <1>2 DEF IInv, TypeOK, NoOrphanJvm, Live, Gens, ClaimKey, supervisorVars,
          MayClaim, FlagListener, Goto, Reaped, Alive, IsReservation, IsAdopted,
          NewRuntime, Runtime, LifecycleStates
  <2>11. MissesCounted'
      BY <1>2 DEF IInv, MissesCounted, Gens, OfflineStreak, ActivePcs, ClaimKey,
          supervisorVars
  <2>12. QED BY <2>1, <2>2, <2>3, <2>4, <2>5, <2>6, <2>7, <2>8, <2>9, <2>10, <2>11 DEF IInv
<1>3. QED BY <1>1, <1>2

\* SpawnJvm keeps the invariant.
LEMMA SpawnJvmInv ==
    ASSUME NEW t \in Threads, IInv, SpawnJvm(t) PROVE IInv'
<1>1. TypeOK'
  <2>1. jvm' \in [Gens -> JvmStates]
      BY MaxGenAssumption DEF IInv, TypeOK, SpawnJvm, listenerVars, supervisorVars, Goto,
          JvmStates, Gens
  <2>2. pc' \in [Threads -> ThreadPcs]
      BY MaxGenAssumption DEF IInv, TypeOK, SpawnJvm, listenerVars, supervisorVars, Goto,
          ThreadPcs
  <2>3. QED BY <2>1, <2>2 DEF IInv, TypeOK, SpawnJvm, listenerVars, supervisorVars
<1>2. Fresh'
    BY MaxGenAssumption DEF IInv, TypeOK, Fresh, Gens, SpawnJvm, listenerVars,
        supervisorVars, Goto
<1>3. StartsOwn'
    BY DEF IInv, TypeOK, StartsOwn, IsReservation, StartPcs, Gens, SpawnJvm, listenerVars,
        supervisorVars, Goto
<1>4. ThreadsHold'
    BY DEF IInv, TypeOK, ThreadsHold, IsAdopted, SpawnJvm, listenerVars, supervisorVars,
        Goto
<1>5. NoOrphanJvm'
    BY DEF IInv, TypeOK, NoOrphanJvm, Live, Gens, SpawnJvm, listenerVars, supervisorVars,
        Goto
<1>6. Shape' /\ RunSupervised' /\ SleepersParked' /\ ListenersAsleep' /\ SnapshotsHold'
      /\ MissesCounted'
    BY DEF IInv, Shape, RunSupervised, SleepersParked, ListenersAsleep, SnapshotsHold,
        MissesCounted, InMap, IsAdopted, ActivePcs, Gens, OfflineStreak, Absent, SpawnJvm,
        listenerVars, supervisorVars
<1>7. QED BY <1>1, <1>2, <1>3, <1>4, <1>5, <1>6 DEF IInv

\* SpawnFails keeps the invariant.
LEMMA SpawnFailsInv ==
    ASSUME NEW t \in Threads, IInv, SpawnFails(t) PROVE IInv'
<1>1. TypeOK'
  <2>1. pc' \in [Threads -> ThreadPcs]
      BY MaxGenAssumption DEF IInv, TypeOK, SpawnFails, listenerVars, supervisorVars, Goto,
          ThreadPcs
  <2>2. QED BY <2>1 DEF IInv, TypeOK, SpawnFails, listenerVars, supervisorVars
<1>2. StartsOwn'
    BY DEF IInv, TypeOK, StartsOwn, IsReservation, StartPcs, Gens, SpawnFails,
        listenerVars, supervisorVars, Goto
<1>3. ThreadsHold'
    BY DEF IInv, TypeOK, ThreadsHold, IsAdopted, SpawnFails, listenerVars, supervisorVars,
        Goto
<1>4. NoOrphanJvm'
    BY DEF IInv, TypeOK, NoOrphanJvm, Live, Gens, SpawnFails, listenerVars, supervisorVars,
        Goto
<1>5. Shape' /\ Fresh' /\ RunSupervised' /\ SleepersParked' /\ ListenersAsleep'
      /\ SnapshotsHold' /\ MissesCounted'
    BY DEF IInv, Shape, Fresh, RunSupervised, SleepersParked, ListenersAsleep,
        SnapshotsHold, MissesCounted, InMap, Gens, IsAdopted, ActivePcs, OfflineStreak,
        Absent, SpawnFails, listenerVars, supervisorVars
<1>6. QED BY <1>1, <1>2, <1>3, <1>4, <1>5 DEF IInv

\* AttachChild keeps the invariant.
LEMMA AttachChildInv ==
    ASSUME NEW t \in Threads, IInv, AttachChild(t) PROVE IInv'
<1>1. TypeOK'
  <2>1. entry' \in Runtime
      BY MaxGenAssumption DEF IInv, TypeOK, AttachChild, listenerVars, MayAttach, Goto,
          Runtime, LifecycleStates, Gens
  <2>2. spc' \in [Gens -> SupervisorPcs]
      BY MaxGenAssumption DEF IInv, TypeOK, AttachChild, listenerVars, MayAttach, Goto,
          Runtime, LifecycleStates, SupervisorPcs, Gens
  <2>3. pc' \in [Threads -> ThreadPcs]
      BY MaxGenAssumption DEF IInv, TypeOK, AttachChild, listenerVars, MayAttach, Goto,
          Runtime, LifecycleStates, ThreadPcs
  <2>4. tgen' \in [Threads -> 0..MaxGen]
      BY MaxGenAssumption DEF IInv, TypeOK, AttachChild, listenerVars, MayAttach, Goto,
          Runtime, LifecycleStates, Gens
  <2>5. from' \in [Threads -> 0..MaxGen]
      BY MaxGenAssumption DEF IInv, TypeOK, AttachChild, listenerVars, MayAttach, Goto,
          Runtime, LifecycleStates, Gens
  <2>6. QED BY <2>1, <2>2, <2>3, <2>4, <2>5 DEF IInv, TypeOK, AttachChild, listenerVars
<1>2. Shape'
    BY MaxGenAssumption DEF IInv, TypeOK, Shape, Fresh, StartsOwn, InMap, Gens,
        IsReservation, StartPcs, AttachChild, listenerVars, MayAttach, Goto, Absent,
        NewRuntime, Runtime, LifecycleStates
<1>3. Fresh'
    BY MaxGenAssumption DEF IInv, TypeOK, Fresh, Gens, AttachChild, listenerVars,
        MayAttach, Goto, Runtime, LifecycleStates
<1>4. StartsOwn'
    BY DEF IInv, TypeOK, StartsOwn, IsReservation, StartPcs, Gens, AttachChild,
        listenerVars, MayAttach, Goto, Runtime, LifecycleStates
<1>5. RunSupervised'
    BY MaxGenAssumption DEF IInv, TypeOK, Shape, Fresh, StartsOwn, RunSupervised, InMap,
        Gens, IsReservation, StartPcs, IsAdopted, ActivePcs, AttachChild, listenerVars,
        MayAttach, Goto, Absent, NewRuntime, Runtime, LifecycleStates
<1>6. SleepersParked'
    BY MaxGenAssumption DEF IInv, TypeOK, Shape, Fresh, StartsOwn, SleepersParked, InMap,
        Gens, IsReservation, StartPcs, AttachChild, listenerVars, MayAttach, Goto, Absent,
        NewRuntime, Runtime, LifecycleStates
<1>7. ListenersAsleep'
    BY DEF IInv, TypeOK, ListenersAsleep, Gens, AttachChild, listenerVars, MayAttach, Goto,
        Runtime, LifecycleStates
<1>8. SnapshotsHold'
    BY DEF IInv, TypeOK, SnapshotsHold, Gens, AttachChild, listenerVars, MayAttach, Goto,
        Runtime, LifecycleStates
<1>9. MissesCounted'
    BY MaxGenAssumption DEF IInv, TypeOK, Shape, Fresh, StartsOwn, MissesCounted, InMap,
        Gens, IsReservation, StartPcs, OfflineStreak, ActivePcs, AttachChild, listenerVars,
        MayAttach, Goto, Absent, NewRuntime, Runtime, LifecycleStates
<1>10. ThreadsHold'
    BY MaxGenAssumption DEF IInv, TypeOK, Shape, Fresh, StartsOwn, ThreadsHold, InMap,
        Gens, IsReservation, StartPcs, IsAdopted, AttachChild, listenerVars, MayAttach,
        Goto, Absent, NewRuntime, Runtime, LifecycleStates
<1>11. NoOrphanJvm'
    BY DEF IInv, TypeOK, NoOrphanJvm, Live, Gens, AttachChild, listenerVars, MayAttach,
        Goto, Runtime, LifecycleStates
<1>12. QED BY <1>1, <1>2, <1>3, <1>4, <1>5, <1>6, <1>7, <1>8, <1>9, <1>10, <1>11 DEF IInv

\* CancelStart keeps the invariant.
LEMMA CancelStartInv ==
    ASSUME NEW t \in Threads, IInv, CancelStart(t) PROVE IInv'
<1>1. TypeOK'
  <2>1. jvm' \in [Gens -> JvmStates]
      BY MaxGenAssumption DEF IInv, TypeOK, CancelStart, listenerVars, supervisorVars,
          MayAttach, Goto, Reaped, JvmStates, Gens
  <2>2. pc' \in [Threads -> ThreadPcs]
      BY MaxGenAssumption DEF IInv, TypeOK, CancelStart, listenerVars, supervisorVars,
          MayAttach, Goto, Reaped, ThreadPcs
  <2>3. QED BY <2>1, <2>2 DEF IInv, TypeOK, CancelStart, listenerVars, supervisorVars
<1>2. Fresh'
    BY MaxGenAssumption DEF IInv, TypeOK, Fresh, Gens, CancelStart, listenerVars,
        supervisorVars, MayAttach, Goto, Reaped
<1>3. StartsOwn'
    BY DEF IInv, TypeOK, StartsOwn, IsReservation, StartPcs, Gens, CancelStart,
        listenerVars, supervisorVars, MayAttach, Goto, Reaped
<1>4. ThreadsHold'
    BY DEF IInv, TypeOK, ThreadsHold, IsAdopted, CancelStart, listenerVars, supervisorVars,
        MayAttach, Goto, Reaped
<1>5. NoOrphanJvm'
    BY DEF IInv, TypeOK, NoOrphanJvm, Live, Gens, CancelStart, listenerVars,
        supervisorVars, MayAttach, Goto, Reaped
<1>6. Shape' /\ RunSupervised' /\ SleepersParked' /\ ListenersAsleep' /\ SnapshotsHold'
      /\ MissesCounted'
    BY DEF IInv, Shape, RunSupervised, SleepersParked, ListenersAsleep, SnapshotsHold,
        MissesCounted, InMap, IsAdopted, ActivePcs, Gens, OfflineStreak, Absent,
        CancelStart, listenerVars, supervisorVars
<1>7. QED BY <1>1, <1>2, <1>3, <1>4, <1>5, <1>6 DEF IInv

\* ReleaseReservation keeps the invariant.
LEMMA ReleaseReservationInv ==
    ASSUME NEW t \in Threads, IInv, ReleaseReservation(t) PROVE IInv'
<1>1. TypeOK'
  <2>1. entry' \in Runtime
      BY MaxGenAssumption DEF IInv, TypeOK, ReleaseReservation, listenerVars,
          supervisorVars, RemoveIfCurrent, StartError, Goto, Absent, NewRuntime, Runtime,
          LifecycleStates, Gens
  <2>2. pc' \in [Threads -> ThreadPcs]
      BY MaxGenAssumption DEF IInv, TypeOK, ReleaseReservation, listenerVars,
          supervisorVars, RemoveIfCurrent, StartError, Goto, Absent, NewRuntime, Runtime,
          LifecycleStates, ThreadPcs
  <2>3. tgen' \in [Threads -> 0..MaxGen]
      BY MaxGenAssumption DEF IInv, TypeOK, ReleaseReservation, listenerVars,
          supervisorVars, RemoveIfCurrent, StartError, Goto, Absent, NewRuntime, Runtime,
          LifecycleStates, Gens
  <2>4. QED BY <2>1, <2>2, <2>3 DEF IInv, TypeOK, ReleaseReservation, listenerVars, supervisorVars
<1>2. Shape'
    BY DEF IInv, TypeOK, Shape, InMap, ReleaseReservation, listenerVars, supervisorVars,
        RemoveIfCurrent, StartError, Goto, Absent, NewRuntime, Runtime, LifecycleStates
<1>3. Fresh'
    BY MaxGenAssumption DEF IInv, TypeOK, Fresh, Gens, ReleaseReservation, listenerVars,
        supervisorVars, RemoveIfCurrent, StartError, Goto, Absent, NewRuntime, Runtime,
        LifecycleStates
<1>4. StartsOwn'
    BY DEF IInv, TypeOK, StartsOwn, IsReservation, StartPcs, Gens, ReleaseReservation,
        listenerVars, supervisorVars, RemoveIfCurrent, StartError, Goto, Absent,
        NewRuntime, Runtime, LifecycleStates
<1>5. RunSupervised'
    BY DEF IInv, TypeOK, RunSupervised, IsAdopted, ActivePcs, ReleaseReservation,
        listenerVars, supervisorVars, RemoveIfCurrent, StartError, Goto, Absent,
        NewRuntime, Runtime, LifecycleStates
<1>6. SleepersParked'
    BY DEF IInv, TypeOK, SleepersParked, ReleaseReservation, listenerVars, supervisorVars,
        RemoveIfCurrent, StartError, Goto, Absent, NewRuntime, Runtime, LifecycleStates
<1>7. ListenersAsleep'
    BY DEF IInv, TypeOK, ListenersAsleep, Gens, ReleaseReservation, listenerVars,
        supervisorVars, RemoveIfCurrent, StartError, Goto, Absent, NewRuntime, Runtime,
        LifecycleStates
<1>8. SnapshotsHold'
    BY MaxGenAssumption DEF IInv, TypeOK, Shape, Fresh, StartsOwn, SnapshotsHold, InMap,
        Gens, IsReservation, StartPcs, ReleaseReservation, listenerVars, supervisorVars,
        RemoveIfCurrent, StartError, Goto, Absent, NewRuntime, Runtime, LifecycleStates
<1>9. ThreadsHold'
    BY DEF IInv, TypeOK, ThreadsHold, IsAdopted, ReleaseReservation, listenerVars,
        supervisorVars, RemoveIfCurrent, StartError, Goto, Absent, NewRuntime, Runtime,
        LifecycleStates
<1>10. NoOrphanJvm'
    BY MaxGenAssumption DEF IInv, TypeOK, Shape, Fresh, StartsOwn, NoOrphanJvm, InMap,
        Gens, IsReservation, StartPcs, Live, ReleaseReservation, listenerVars,
        supervisorVars, RemoveIfCurrent, StartError, Goto, Absent, NewRuntime, Runtime,
        LifecycleStates
<1>11. MissesCounted'
    BY DEF IInv, MissesCounted, Gens, OfflineStreak, ActivePcs, ReleaseReservation,
        listenerVars, supervisorVars
<1>12. QED BY <1>1, <1>2, <1>3, <1>4, <1>5, <1>6, <1>7, <1>8, <1>9, <1>10, <1>11 DEF IInv

\* WakeFailed keeps the invariant.
LEMMA WakeFailedInv ==
    ASSUME NEW t \in Threads, IInv, WakeFailed(t) PROVE IInv'
<1>1. CASE entry.gen = from[t]
  <2>1. TypeOK'
    <3>1. entry' \in Runtime
        BY <1>1, MaxGenAssumption DEF IInv, TypeOK, WakeFailed, listenerVars,
            supervisorVars, RemoveIfCurrent, Goto, Absent, NewRuntime, Runtime,
            LifecycleStates, Gens
    <3>2. pc' \in [Threads -> ThreadPcs]
        BY <1>1, MaxGenAssumption DEF IInv, TypeOK, WakeFailed, listenerVars,
            supervisorVars, RemoveIfCurrent, Goto, Absent, NewRuntime, Runtime,
            LifecycleStates, ThreadPcs
    <3>3. from' \in [Threads -> 0..MaxGen]
        BY <1>1, MaxGenAssumption DEF IInv, TypeOK, WakeFailed, listenerVars,
            supervisorVars, RemoveIfCurrent, Goto, Absent, NewRuntime, Runtime,
            LifecycleStates, Gens
    <3>4. QED BY <3>1, <3>2, <3>3 DEF IInv, TypeOK, WakeFailed, listenerVars, supervisorVars
  <2>2. Shape'
      BY <1>1 DEF IInv, TypeOK, Shape, InMap, WakeFailed, listenerVars, supervisorVars,
          RemoveIfCurrent, Goto, Absent, NewRuntime, Runtime, LifecycleStates
  <2>3. Fresh'
      BY <1>1, MaxGenAssumption DEF IInv, TypeOK, Fresh, Gens, WakeFailed, listenerVars,
          supervisorVars, RemoveIfCurrent, Goto, Absent, NewRuntime, Runtime,
          LifecycleStates
  <2>4. StartsOwn'
      BY <1>1, MaxGenAssumption DEF IInv, TypeOK, Shape, Fresh, StartsOwn, ThreadsHold,
          NoOrphanJvm, ListenersAsleep, InMap, Gens, IsReservation, StartPcs, IsAdopted,
          Live, WakeFailed, listenerVars, supervisorVars, RemoveIfCurrent, Goto, Absent,
          NewRuntime, Runtime, LifecycleStates
  <2>5. RunSupervised'
      BY <1>1 DEF IInv, TypeOK, RunSupervised, IsAdopted, ActivePcs, WakeFailed,
          listenerVars, supervisorVars, RemoveIfCurrent, Goto, Absent, NewRuntime, Runtime,
          LifecycleStates
  <2>6. SleepersParked'
      BY <1>1 DEF IInv, TypeOK, SleepersParked, WakeFailed, listenerVars, supervisorVars,
          RemoveIfCurrent, Goto, Absent, NewRuntime, Runtime, LifecycleStates
  <2>7. ListenersAsleep'
      BY <1>1 DEF IInv, TypeOK, ListenersAsleep, Gens, WakeFailed, listenerVars,
          supervisorVars, RemoveIfCurrent, Goto, Absent, NewRuntime, Runtime,
          LifecycleStates
  <2>8. SnapshotsHold'
      BY <1>1 DEF IInv, TypeOK, SnapshotsHold, Gens, WakeFailed, listenerVars,
          supervisorVars, RemoveIfCurrent, Goto, Absent, NewRuntime, Runtime,
          LifecycleStates
  <2>9. ThreadsHold'
      BY <1>1 DEF IInv, TypeOK, ThreadsHold, IsAdopted, WakeFailed, listenerVars,
          supervisorVars, RemoveIfCurrent, Goto, Absent, NewRuntime, Runtime,
          LifecycleStates
  <2>10. NoOrphanJvm'
      BY <1>1, MaxGenAssumption DEF IInv, TypeOK, Shape, Fresh, StartsOwn, ThreadsHold,
          NoOrphanJvm, ListenersAsleep, InMap, Gens, IsReservation, StartPcs, IsAdopted,
          Live, WakeFailed, listenerVars, supervisorVars, RemoveIfCurrent, Goto, Absent,
          NewRuntime, Runtime, LifecycleStates
  <2>11. MissesCounted'
      BY <1>1 DEF IInv, MissesCounted, Gens, OfflineStreak, ActivePcs, WakeFailed,
          listenerVars, supervisorVars
  <2>12. QED BY <2>1, <2>2, <2>3, <2>4, <2>5, <2>6, <2>7, <2>8, <2>9, <2>10, <2>11 DEF IInv
<1>2. CASE entry.gen # from[t]
  <2>1. TypeOK'
    <3>1. entry' \in Runtime
        BY <1>2, MaxGenAssumption DEF IInv, TypeOK, WakeFailed, listenerVars,
            supervisorVars, RemoveIfCurrent, Goto, Absent, NewRuntime, Runtime,
            LifecycleStates, Gens
    <3>2. pc' \in [Threads -> ThreadPcs]
        BY <1>2, MaxGenAssumption DEF IInv, TypeOK, WakeFailed, listenerVars,
            supervisorVars, RemoveIfCurrent, Goto, Absent, NewRuntime, Runtime,
            LifecycleStates, ThreadPcs
    <3>3. from' \in [Threads -> 0..MaxGen]
        BY <1>2, MaxGenAssumption DEF IInv, TypeOK, WakeFailed, listenerVars,
            supervisorVars, RemoveIfCurrent, Goto, Absent, NewRuntime, Runtime,
            LifecycleStates, Gens
    <3>4. QED BY <3>1, <3>2, <3>3 DEF IInv, TypeOK, WakeFailed, listenerVars, supervisorVars
  <2>2. Shape'
      BY <1>2 DEF IInv, TypeOK, Shape, InMap, WakeFailed, listenerVars, supervisorVars,
          RemoveIfCurrent, Goto, Absent, NewRuntime, Runtime, LifecycleStates
  <2>3. Fresh'
      BY <1>2, MaxGenAssumption DEF IInv, TypeOK, Fresh, Gens, WakeFailed, listenerVars,
          supervisorVars, RemoveIfCurrent, Goto, Absent, NewRuntime, Runtime,
          LifecycleStates
  <2>4. StartsOwn'
      BY <1>2 DEF IInv, TypeOK, StartsOwn, IsReservation, StartPcs, Gens, WakeFailed,
          listenerVars, supervisorVars, RemoveIfCurrent, Goto, Absent, NewRuntime, Runtime,
          LifecycleStates
  <2>5. RunSupervised'
      BY <1>2 DEF IInv, TypeOK, RunSupervised, IsAdopted, ActivePcs, WakeFailed,
          listenerVars, supervisorVars, RemoveIfCurrent, Goto, Absent, NewRuntime, Runtime,
          LifecycleStates
  <2>6. SleepersParked'
      BY <1>2 DEF IInv, TypeOK, SleepersParked, WakeFailed, listenerVars, supervisorVars,
          RemoveIfCurrent, Goto, Absent, NewRuntime, Runtime, LifecycleStates
  <2>7. ListenersAsleep'
      BY <1>2 DEF IInv, TypeOK, ListenersAsleep, Gens, WakeFailed, listenerVars,
          supervisorVars, RemoveIfCurrent, Goto, Absent, NewRuntime, Runtime,
          LifecycleStates
  <2>8. SnapshotsHold'
      BY <1>2 DEF IInv, TypeOK, SnapshotsHold, Gens, WakeFailed, listenerVars,
          supervisorVars, RemoveIfCurrent, Goto, Absent, NewRuntime, Runtime,
          LifecycleStates
  <2>9. ThreadsHold'
      BY <1>2 DEF IInv, TypeOK, ThreadsHold, IsAdopted, WakeFailed, listenerVars,
          supervisorVars, RemoveIfCurrent, Goto, Absent, NewRuntime, Runtime,
          LifecycleStates
  <2>10. NoOrphanJvm'
      BY <1>2 DEF IInv, TypeOK, NoOrphanJvm, Live, Gens, WakeFailed, listenerVars,
          supervisorVars, RemoveIfCurrent, Goto, Absent, NewRuntime, Runtime,
          LifecycleStates
  <2>11. MissesCounted'
      BY <1>2 DEF IInv, MissesCounted, Gens, OfflineStreak, ActivePcs, WakeFailed,
          listenerVars, supervisorVars
  <2>12. QED BY <2>1, <2>2, <2>3, <2>4, <2>5, <2>6, <2>7, <2>8, <2>9, <2>10, <2>11 DEF IInv
<1>3. QED BY <1>1, <1>2

\* StopOverRcon keeps the invariant.
LEMMA StopOverRconInv ==
    ASSUME NEW t \in Threads, IInv, StopOverRcon(t) PROVE IInv'
<1>1. TypeOK'
  <2>1. pc' \in [Threads -> ThreadPcs]
      BY MaxGenAssumption DEF IInv, TypeOK, StopOverRcon, listenerVars, supervisorVars,
          IsAdopted, Goto, ThreadPcs
  <2>2. tgen' \in [Threads -> 0..MaxGen]
      BY MaxGenAssumption DEF IInv, TypeOK, StopOverRcon, listenerVars, supervisorVars,
          IsAdopted, Goto, Runtime, Gens
  <2>3. QED BY <2>1, <2>2 DEF IInv, TypeOK, StopOverRcon, listenerVars, supervisorVars
<1>2. Fresh'
    BY MaxGenAssumption DEF IInv, TypeOK, Fresh, Gens, StopOverRcon, listenerVars,
        supervisorVars, IsAdopted, Goto
<1>3. StartsOwn'
    BY DEF IInv, TypeOK, StartsOwn, IsReservation, StartPcs, Gens, StopOverRcon,
        listenerVars, supervisorVars, IsAdopted, Goto
<1>4. ThreadsHold'
    BY DEF IInv, TypeOK, ThreadsHold, IsAdopted, StopOverRcon, listenerVars,
        supervisorVars, Goto
<1>5. NoOrphanJvm'
    BY DEF IInv, TypeOK, NoOrphanJvm, Live, Gens, StopOverRcon, listenerVars,
        supervisorVars, IsAdopted, Goto
<1>6. Shape' /\ RunSupervised' /\ SleepersParked' /\ ListenersAsleep' /\ SnapshotsHold'
      /\ MissesCounted'
    BY DEF IInv, Shape, RunSupervised, SleepersParked, ListenersAsleep, SnapshotsHold,
        MissesCounted, InMap, IsAdopted, ActivePcs, Gens, OfflineStreak, Absent,
        StopOverRcon, listenerVars, supervisorVars
<1>7. QED BY <1>1, <1>2, <1>3, <1>4, <1>5, <1>6 DEF IInv

\* RconAnswered keeps the invariant.
LEMMA RconAnsweredInv ==
    ASSUME NEW t \in Threads, IInv, RconAnswered(t) PROVE IInv'
<1>1. CASE entry.gen = tgen[t] /\ entry' = MarkStopping(entry)
  <2>1. TypeOK'
    <3>1. entry' \in Runtime
        BY <1>1, MaxGenAssumption DEF IInv, TypeOK, RconAnswered, listenerVars,
            supervisorVars, MarkStopping, Goto, Runtime, LifecycleStates, Gens
    <3>2. pc' \in [Threads -> ThreadPcs]
        BY <1>1, MaxGenAssumption DEF IInv, TypeOK, RconAnswered, listenerVars,
            supervisorVars, MarkStopping, Goto, Runtime, LifecycleStates, ThreadPcs
    <3>3. tgen' \in [Threads -> 0..MaxGen]
        BY <1>1, MaxGenAssumption DEF IInv, TypeOK, RconAnswered, listenerVars,
            supervisorVars, MarkStopping, Goto, Runtime, LifecycleStates, Gens
    <3>4. QED BY <3>1, <3>2, <3>3 DEF IInv, TypeOK, RconAnswered, listenerVars, supervisorVars
  <2>2. Shape'
      BY <1>1, MaxGenAssumption DEF IInv, TypeOK, Shape, Fresh, StartsOwn, ThreadsHold,
          NoOrphanJvm, ListenersAsleep, InMap, Gens, IsReservation, StartPcs, IsAdopted,
          Live, RconAnswered, listenerVars, supervisorVars, MarkStopping, Goto, Absent,
          NewRuntime, Runtime, LifecycleStates
  <2>3. Fresh'
      BY <1>1, MaxGenAssumption DEF IInv, TypeOK, Fresh, Gens, RconAnswered, listenerVars,
          supervisorVars, MarkStopping, Goto, Runtime, LifecycleStates
  <2>4. StartsOwn'
      BY <1>1, MaxGenAssumption DEF IInv, TypeOK, Shape, Fresh, StartsOwn, ThreadsHold,
          NoOrphanJvm, ListenersAsleep, InMap, Gens, IsReservation, StartPcs, IsAdopted,
          Live, RconAnswered, listenerVars, supervisorVars, MarkStopping, Goto, Absent,
          NewRuntime, Runtime, LifecycleStates
  <2>5. RunSupervised'
      BY <1>1 DEF IInv, TypeOK, RunSupervised, IsAdopted, ActivePcs, RconAnswered,
          listenerVars, supervisorVars, MarkStopping, Goto, Runtime, LifecycleStates
  <2>6. SleepersParked'
      BY <1>1 DEF IInv, TypeOK, SleepersParked, RconAnswered, listenerVars, supervisorVars,
          MarkStopping, Goto, Runtime, LifecycleStates
  <2>7. ListenersAsleep'
      BY <1>1, MaxGenAssumption DEF IInv, TypeOK, Shape, Fresh, StartsOwn, ThreadsHold,
          NoOrphanJvm, ListenersAsleep, InMap, Gens, IsReservation, StartPcs, IsAdopted,
          Live, RconAnswered, listenerVars, supervisorVars, MarkStopping, Goto, Absent,
          NewRuntime, Runtime, LifecycleStates
  <2>8. SnapshotsHold'
      BY <1>1 DEF IInv, TypeOK, SnapshotsHold, Gens, RconAnswered, listenerVars,
          supervisorVars, MarkStopping, Goto, Runtime, LifecycleStates
  <2>9. ThreadsHold'
      BY <1>1 DEF IInv, TypeOK, Shape, ThreadsHold, InMap, IsAdopted, RconAnswered,
          listenerVars, supervisorVars, MarkStopping, Goto, Absent, NewRuntime, Runtime,
          LifecycleStates, Gens
  <2>10. NoOrphanJvm'
      BY <1>1 DEF IInv, TypeOK, NoOrphanJvm, Live, Gens, RconAnswered, listenerVars,
          supervisorVars, MarkStopping, Goto, Runtime, LifecycleStates
  <2>11. MissesCounted'
      BY <1>1 DEF IInv, MissesCounted, Gens, OfflineStreak, ActivePcs, RconAnswered,
          listenerVars, supervisorVars
  <2>12. QED BY <2>1, <2>2, <2>3, <2>4, <2>5, <2>6, <2>7, <2>8, <2>9, <2>10, <2>11 DEF IInv
<1>2. CASE entry' = entry
  <2>1. TypeOK'
    <3>1. entry' \in Runtime
        BY <1>2, MaxGenAssumption DEF IInv, TypeOK, RconAnswered, listenerVars,
            supervisorVars, MarkStopping, Goto, Runtime, LifecycleStates, Gens
    <3>2. pc' \in [Threads -> ThreadPcs]
        BY <1>2, MaxGenAssumption DEF IInv, TypeOK, RconAnswered, listenerVars,
            supervisorVars, MarkStopping, Goto, Runtime, LifecycleStates, ThreadPcs
    <3>3. tgen' \in [Threads -> 0..MaxGen]
        BY <1>2, MaxGenAssumption DEF IInv, TypeOK, RconAnswered, listenerVars,
            supervisorVars, MarkStopping, Goto, Runtime, LifecycleStates, Gens
    <3>4. QED BY <3>1, <3>2, <3>3 DEF IInv, TypeOK, RconAnswered, listenerVars, supervisorVars
  <2>2. Shape'
      BY <1>2 DEF IInv, TypeOK, Shape, InMap, RconAnswered, listenerVars, supervisorVars,
          MarkStopping, Goto, Absent, NewRuntime, Runtime, LifecycleStates
  <2>3. Fresh'
      BY <1>2, MaxGenAssumption DEF IInv, TypeOK, Fresh, Gens, RconAnswered, listenerVars,
          supervisorVars, MarkStopping, Goto, Runtime, LifecycleStates
  <2>4. StartsOwn'
      BY <1>2 DEF IInv, TypeOK, StartsOwn, IsReservation, StartPcs, Gens, RconAnswered,
          listenerVars, supervisorVars, MarkStopping, Goto, Runtime, LifecycleStates
  <2>5. RunSupervised'
      BY <1>2 DEF IInv, TypeOK, RunSupervised, IsAdopted, ActivePcs, RconAnswered,
          listenerVars, supervisorVars, MarkStopping, Goto, Runtime, LifecycleStates
  <2>6. SleepersParked'
      BY <1>2 DEF IInv, TypeOK, SleepersParked, RconAnswered, listenerVars, supervisorVars,
          MarkStopping, Goto, Runtime, LifecycleStates
  <2>7. ListenersAsleep'
      BY <1>2 DEF IInv, TypeOK, ListenersAsleep, Gens, RconAnswered, listenerVars,
          supervisorVars, MarkStopping, Goto, Runtime, LifecycleStates
  <2>8. SnapshotsHold'
      BY <1>2 DEF IInv, TypeOK, SnapshotsHold, Gens, RconAnswered, listenerVars,
          supervisorVars, MarkStopping, Goto, Runtime, LifecycleStates
  <2>9. ThreadsHold'
      BY <1>2 DEF IInv, TypeOK, ThreadsHold, IsAdopted, RconAnswered, listenerVars,
          supervisorVars, MarkStopping, Goto, Runtime, LifecycleStates
  <2>10. NoOrphanJvm'
      BY <1>2 DEF IInv, TypeOK, NoOrphanJvm, Live, Gens, RconAnswered, listenerVars,
          supervisorVars, MarkStopping, Goto, Runtime, LifecycleStates
  <2>11. MissesCounted'
      BY <1>2 DEF IInv, MissesCounted, Gens, OfflineStreak, ActivePcs, RconAnswered,
          listenerVars, supervisorVars
  <2>12. QED BY <2>1, <2>2, <2>3, <2>4, <2>5, <2>6, <2>7, <2>8, <2>9, <2>10, <2>11 DEF IInv
<1>3. QED BY <1>1, <1>2 DEF RconAnswered

\* ForceKillAdopted keeps the invariant.
LEMMA ForceKillAdoptedInv ==
    ASSUME NEW t \in Threads, IInv, ForceKillAdopted(t) PROVE IInv'
<1>1. TypeOK'
  <2>1. entry' \in Runtime
      BY MaxGenAssumption DEF IInv, TypeOK, ForceKillAdopted, listenerVars, supervisorVars,
          IsAdopted, MarkStopping, Goto, Runtime, LifecycleStates, Gens
  <2>2. pc' \in [Threads -> ThreadPcs]
      BY MaxGenAssumption DEF IInv, TypeOK, ForceKillAdopted, listenerVars, supervisorVars,
          IsAdopted, MarkStopping, Goto, Runtime, LifecycleStates, ThreadPcs
  <2>3. tgen' \in [Threads -> 0..MaxGen]
      BY MaxGenAssumption DEF IInv, TypeOK, ForceKillAdopted, listenerVars, supervisorVars,
          IsAdopted, MarkStopping, Goto, Runtime, LifecycleStates, Gens
  <2>4. QED BY <2>1, <2>2, <2>3 DEF IInv, TypeOK, ForceKillAdopted, listenerVars, supervisorVars
<1>2. Shape'
    BY DEF IInv, TypeOK, Shape, InMap, ForceKillAdopted, listenerVars, supervisorVars,
        IsAdopted, MarkStopping, Goto, Absent, NewRuntime, Runtime, LifecycleStates
<1>3. Fresh'
    BY MaxGenAssumption DEF IInv, TypeOK, Fresh, Gens, ForceKillAdopted, listenerVars,
        supervisorVars, IsAdopted, MarkStopping, Goto, Runtime, LifecycleStates
<1>4. StartsOwn'
    BY DEF IInv, TypeOK, StartsOwn, IsReservation, StartPcs, Gens, ForceKillAdopted,
        listenerVars, supervisorVars, IsAdopted, MarkStopping, Goto, Runtime,
        LifecycleStates
<1>5. RunSupervised'
    BY DEF IInv, TypeOK, RunSupervised, IsAdopted, ActivePcs, ForceKillAdopted,
        listenerVars, supervisorVars, MarkStopping, Goto, Runtime, LifecycleStates
<1>6. SleepersParked'
    BY DEF IInv, TypeOK, SleepersParked, ForceKillAdopted, listenerVars, supervisorVars,
        IsAdopted, MarkStopping, Goto, Runtime, LifecycleStates
<1>7. ListenersAsleep'
    BY DEF IInv, TypeOK, Shape, ListenersAsleep, InMap, Gens, ForceKillAdopted,
        listenerVars, supervisorVars, IsAdopted, MarkStopping, Goto, Absent, NewRuntime,
        Runtime, LifecycleStates
<1>8. SnapshotsHold'
    BY DEF IInv, TypeOK, SnapshotsHold, Gens, ForceKillAdopted, listenerVars,
        supervisorVars, IsAdopted, MarkStopping, Goto, Runtime, LifecycleStates
<1>9. ThreadsHold'
    BY DEF IInv, TypeOK, Shape, ThreadsHold, InMap, IsAdopted, ForceKillAdopted,
        listenerVars, supervisorVars, MarkStopping, Goto, Absent, NewRuntime, Runtime,
        LifecycleStates, Gens
<1>10. NoOrphanJvm'
    BY DEF IInv, TypeOK, NoOrphanJvm, Live, Gens, ForceKillAdopted, listenerVars,
        supervisorVars, IsAdopted, MarkStopping, Goto, Runtime, LifecycleStates
<1>11. MissesCounted'
    BY DEF IInv, MissesCounted, Gens, OfflineStreak, ActivePcs, ForceKillAdopted,
        listenerVars, supervisorVars
<1>12. QED BY <1>1, <1>2, <1>3, <1>4, <1>5, <1>6, <1>7, <1>8, <1>9, <1>10, <1>11 DEF IInv

\* PortKill keeps the invariant.
LEMMA PortKillInv ==
    ASSUME NEW t \in Threads, IInv, PortKill(t) PROVE IInv'
<1>1. CASE entry.gen = tgen[t]
  <2>1. TypeOK'
    <3>1. entry' \in Runtime
        BY <1>1, MaxGenAssumption DEF IInv, TypeOK, PortKill, listenerVars, supervisorVars,
            RemoveIfCurrent, Goto, Absent, NewRuntime, Runtime, LifecycleStates, Gens
    <3>2. jvm' \in [Gens -> JvmStates]
        BY <1>1, MaxGenAssumption DEF IInv, TypeOK, PortKill, listenerVars, supervisorVars,
            RemoveIfCurrent, Goto, Absent, NewRuntime, Runtime, LifecycleStates, JvmStates,
            Gens
    <3>3. pc' \in [Threads -> ThreadPcs]
        BY <1>1, MaxGenAssumption DEF IInv, TypeOK, PortKill, listenerVars, supervisorVars,
            RemoveIfCurrent, Goto, Absent, NewRuntime, Runtime, LifecycleStates, ThreadPcs
    <3>4. tgen' \in [Threads -> 0..MaxGen]
        BY <1>1, MaxGenAssumption DEF IInv, TypeOK, PortKill, listenerVars, supervisorVars,
            RemoveIfCurrent, Goto, Absent, NewRuntime, Runtime, LifecycleStates, Gens
    <3>5. ext' \in BOOLEAN
        BY <1>1, MaxGenAssumption DEF IInv, TypeOK, PortKill, listenerVars, supervisorVars,
            RemoveIfCurrent, Goto, Absent, NewRuntime, Runtime, LifecycleStates
    <3>6. QED BY <3>1, <3>2, <3>3, <3>4, <3>5 DEF IInv, TypeOK, PortKill, listenerVars,
          supervisorVars
  <2>2. Shape'
      BY <1>1 DEF IInv, TypeOK, Shape, InMap, PortKill, listenerVars, supervisorVars,
          RemoveIfCurrent, Goto, Absent, NewRuntime, Runtime, LifecycleStates
  <2>3. Fresh'
      BY <1>1, MaxGenAssumption DEF IInv, TypeOK, Fresh, Gens, PortKill, listenerVars,
          supervisorVars, RemoveIfCurrent, Goto, Absent, NewRuntime, Runtime,
          LifecycleStates
  <2>4. StartsOwn'
      BY <1>1, MaxGenAssumption DEF IInv, TypeOK, Shape, Fresh, StartsOwn, ThreadsHold,
          NoOrphanJvm, ListenersAsleep, InMap, Gens, IsReservation, StartPcs, IsAdopted,
          Live, PortKill, listenerVars, supervisorVars, RemoveIfCurrent, Goto, Absent,
          NewRuntime, Runtime, LifecycleStates
  <2>5. RunSupervised'
      BY <1>1 DEF IInv, TypeOK, RunSupervised, IsAdopted, ActivePcs, PortKill,
          listenerVars, supervisorVars, RemoveIfCurrent, Goto, Absent, NewRuntime, Runtime,
          LifecycleStates
  <2>6. SleepersParked'
      BY <1>1 DEF IInv, TypeOK, SleepersParked, PortKill, listenerVars, supervisorVars,
          RemoveIfCurrent, Goto, Absent, NewRuntime, Runtime, LifecycleStates
  <2>7. ListenersAsleep'
      BY <1>1 DEF IInv, TypeOK, ListenersAsleep, Gens, PortKill, listenerVars,
          supervisorVars, RemoveIfCurrent, Goto, Absent, NewRuntime, Runtime,
          LifecycleStates
  <2>8. SnapshotsHold'
      BY <1>1 DEF IInv, TypeOK, SnapshotsHold, Gens, PortKill, listenerVars,
          supervisorVars, RemoveIfCurrent, Goto, Absent, NewRuntime, Runtime,
          LifecycleStates
  <2>9. ThreadsHold'
      BY <1>1 DEF IInv, TypeOK, ThreadsHold, IsAdopted, PortKill, listenerVars,
          supervisorVars, RemoveIfCurrent, Goto, Absent, NewRuntime, Runtime,
          LifecycleStates
  <2>10. NoOrphanJvm'
      BY <1>1, MaxGenAssumption DEF IInv, TypeOK, Shape, Fresh, StartsOwn, ThreadsHold,
          NoOrphanJvm, ListenersAsleep, InMap, Gens, IsReservation, StartPcs, IsAdopted,
          Live, PortKill, listenerVars, supervisorVars, RemoveIfCurrent, Goto, Absent,
          NewRuntime, Runtime, LifecycleStates
  <2>11. MissesCounted'
      BY <1>1 DEF IInv, MissesCounted, Gens, OfflineStreak, ActivePcs, PortKill,
          listenerVars, supervisorVars
  <2>12. QED BY <2>1, <2>2, <2>3, <2>4, <2>5, <2>6, <2>7, <2>8, <2>9, <2>10, <2>11 DEF IInv
<1>2. CASE entry.gen # tgen[t]
  <2>1. TypeOK'
    <3>1. entry' \in Runtime
        BY <1>2, MaxGenAssumption DEF IInv, TypeOK, PortKill, listenerVars, supervisorVars,
            RemoveIfCurrent, Goto, Absent, NewRuntime, Runtime, LifecycleStates, Gens
    <3>2. jvm' \in [Gens -> JvmStates]
        BY <1>2, MaxGenAssumption DEF IInv, TypeOK, PortKill, listenerVars, supervisorVars,
            RemoveIfCurrent, Goto, Absent, NewRuntime, Runtime, LifecycleStates, JvmStates,
            Gens
    <3>3. pc' \in [Threads -> ThreadPcs]
        BY <1>2, MaxGenAssumption DEF IInv, TypeOK, PortKill, listenerVars, supervisorVars,
            RemoveIfCurrent, Goto, Absent, NewRuntime, Runtime, LifecycleStates, ThreadPcs
    <3>4. tgen' \in [Threads -> 0..MaxGen]
        BY <1>2, MaxGenAssumption DEF IInv, TypeOK, PortKill, listenerVars, supervisorVars,
            RemoveIfCurrent, Goto, Absent, NewRuntime, Runtime, LifecycleStates, Gens
    <3>5. ext' \in BOOLEAN
        BY <1>2, MaxGenAssumption DEF IInv, TypeOK, PortKill, listenerVars, supervisorVars,
            RemoveIfCurrent, Goto, Absent, NewRuntime, Runtime, LifecycleStates
    <3>6. QED BY <3>1, <3>2, <3>3, <3>4, <3>5 DEF IInv, TypeOK, PortKill, listenerVars,
          supervisorVars
  <2>2. Shape'
      BY <1>2 DEF IInv, TypeOK, Shape, InMap, PortKill, listenerVars, supervisorVars,
          RemoveIfCurrent, Goto, Absent, NewRuntime, Runtime, LifecycleStates
  <2>3. Fresh'
      BY <1>2, MaxGenAssumption DEF IInv, TypeOK, Fresh, Gens, PortKill, listenerVars,
          supervisorVars, RemoveIfCurrent, Goto, Absent, NewRuntime, Runtime,
          LifecycleStates
  <2>4. StartsOwn'
      BY <1>2 DEF IInv, TypeOK, StartsOwn, IsReservation, StartPcs, Gens, PortKill,
          listenerVars, supervisorVars, RemoveIfCurrent, Goto, Absent, NewRuntime, Runtime,
          LifecycleStates
  <2>5. RunSupervised'
      BY <1>2 DEF IInv, TypeOK, RunSupervised, IsAdopted, ActivePcs, PortKill,
          listenerVars, supervisorVars, RemoveIfCurrent, Goto, Absent, NewRuntime, Runtime,
          LifecycleStates
  <2>6. SleepersParked'
      BY <1>2 DEF IInv, TypeOK, SleepersParked, PortKill, listenerVars, supervisorVars,
          RemoveIfCurrent, Goto, Absent, NewRuntime, Runtime, LifecycleStates
  <2>7. ListenersAsleep'
      BY <1>2 DEF IInv, TypeOK, ListenersAsleep, Gens, PortKill, listenerVars,
          supervisorVars, RemoveIfCurrent, Goto, Absent, NewRuntime, Runtime,
          LifecycleStates
  <2>8. SnapshotsHold'
      BY <1>2 DEF IInv, TypeOK, SnapshotsHold, Gens, PortKill, listenerVars,
          supervisorVars, RemoveIfCurrent, Goto, Absent, NewRuntime, Runtime,
          LifecycleStates
  <2>9. ThreadsHold'
      BY <1>2 DEF IInv, TypeOK, ThreadsHold, IsAdopted, PortKill, listenerVars,
          supervisorVars, RemoveIfCurrent, Goto, Absent, NewRuntime, Runtime,
          LifecycleStates
  <2>10. NoOrphanJvm'
      BY <1>2 DEF IInv, TypeOK, NoOrphanJvm, Live, Gens, PortKill, listenerVars,
          supervisorVars, RemoveIfCurrent, Goto, Absent, NewRuntime, Runtime,
          LifecycleStates
  <2>11. MissesCounted'
      BY <1>2 DEF IInv, MissesCounted, Gens, OfflineStreak, ActivePcs, PortKill,
          listenerVars, supervisorVars
  <2>12. QED BY <2>1, <2>2, <2>3, <2>4, <2>5, <2>6, <2>7, <2>8, <2>9, <2>10, <2>11 DEF IInv
<1>3. QED BY <1>1, <1>2

\* RestartServer keeps the invariant.
LEMMA RestartServerInv ==
    ASSUME NEW t \in Threads, IInv, RestartServer(t) PROVE IInv'
<1>1. CASE entry.child
  <2>1. TypeOK'
    <3>1. entry' \in Runtime
        BY <1>1, MaxGenAssumption DEF IInv, TypeOK, RestartServer, listenerVars,
            supervisorVars, IsAdopted, MarkStopping, Goto, Runtime, LifecycleStates, Gens
    <3>2. pc' \in [Threads -> ThreadPcs]
        BY <1>1, MaxGenAssumption DEF IInv, TypeOK, RestartServer, listenerVars,
            supervisorVars, IsAdopted, MarkStopping, Goto, Runtime, LifecycleStates,
            ThreadPcs
    <3>3. QED BY <3>1, <3>2 DEF IInv, TypeOK, RestartServer, listenerVars, supervisorVars
  <2>2. Shape'
      BY <1>1 DEF IInv, TypeOK, Shape, InMap, RestartServer, listenerVars, supervisorVars,
          IsAdopted, MarkStopping, Goto, Absent, NewRuntime, Runtime, LifecycleStates
  <2>3. Fresh'
      BY <1>1, MaxGenAssumption DEF IInv, TypeOK, Fresh, Gens, RestartServer, listenerVars,
          supervisorVars, IsAdopted, MarkStopping, Goto, Runtime, LifecycleStates
  <2>4. StartsOwn'
      BY <1>1 DEF IInv, TypeOK, StartsOwn, IsReservation, StartPcs, Gens, RestartServer,
          listenerVars, supervisorVars, IsAdopted, MarkStopping, Goto, Runtime,
          LifecycleStates
  <2>5. RunSupervised'
      BY <1>1 DEF IInv, TypeOK, RunSupervised, IsAdopted, ActivePcs, RestartServer,
          listenerVars, supervisorVars, MarkStopping, Goto, Runtime, LifecycleStates
  <2>6. SleepersParked'
      BY <1>1 DEF IInv, TypeOK, SleepersParked, RestartServer, listenerVars,
          supervisorVars, IsAdopted, MarkStopping, Goto, Runtime, LifecycleStates
  <2>7. ListenersAsleep'
      BY <1>1 DEF IInv, TypeOK, Shape, ListenersAsleep, InMap, Gens, RestartServer,
          listenerVars, supervisorVars, IsAdopted, MarkStopping, Goto, Absent, NewRuntime,
          Runtime, LifecycleStates
  <2>8. SnapshotsHold'
      BY <1>1 DEF IInv, TypeOK, SnapshotsHold, Gens, RestartServer, listenerVars,
          supervisorVars, IsAdopted, MarkStopping, Goto, Runtime, LifecycleStates
  <2>9. ThreadsHold'
      BY <1>1 DEF IInv, TypeOK, Shape, ThreadsHold, InMap, IsAdopted, RestartServer,
          listenerVars, supervisorVars, MarkStopping, Goto, Absent, NewRuntime, Runtime,
          LifecycleStates, Gens
  <2>10. NoOrphanJvm'
      BY <1>1 DEF IInv, TypeOK, NoOrphanJvm, Live, Gens, RestartServer, listenerVars,
          supervisorVars, IsAdopted, MarkStopping, Goto, Runtime, LifecycleStates
  <2>11. MissesCounted'
      BY <1>1 DEF IInv, MissesCounted, Gens, OfflineStreak, ActivePcs, RestartServer,
          listenerVars, supervisorVars
  <2>12. QED BY <2>1, <2>2, <2>3, <2>4, <2>5, <2>6, <2>7, <2>8, <2>9, <2>10, <2>11 DEF IInv
<1>2. CASE ~entry.child
  <2>1. TypeOK'
    <3>1. entry' \in Runtime
        BY <1>2, MaxGenAssumption DEF IInv, TypeOK, RestartServer, listenerVars,
            supervisorVars, IsAdopted, MarkStopping, Goto, Runtime, LifecycleStates, Gens
    <3>2. pc' \in [Threads -> ThreadPcs]
        BY <1>2, MaxGenAssumption DEF IInv, TypeOK, RestartServer, listenerVars,
            supervisorVars, IsAdopted, MarkStopping, Goto, Runtime, LifecycleStates,
            ThreadPcs
    <3>3. QED BY <3>1, <3>2 DEF IInv, TypeOK, RestartServer, listenerVars, supervisorVars
  <2>2. Shape'
      BY <1>2 DEF IInv, TypeOK, Shape, InMap, RestartServer, listenerVars, supervisorVars,
          IsAdopted, MarkStopping, Goto, Absent, NewRuntime, Runtime, LifecycleStates
  <2>3. Fresh'
      BY <1>2, MaxGenAssumption DEF IInv, TypeOK, Fresh, Gens, RestartServer, listenerVars,
          supervisorVars, IsAdopted, MarkStopping, Goto, Runtime, LifecycleStates
  <2>4. StartsOwn'
      BY <1>2 DEF IInv, TypeOK, StartsOwn, IsReservation, StartPcs, Gens, RestartServer,
          listenerVars, supervisorVars, IsAdopted, MarkStopping, Goto, Runtime,
          LifecycleStates
  <2>5. RunSupervised'
      BY <1>2 DEF IInv, TypeOK, RunSupervised, IsAdopted, ActivePcs, RestartServer,
          listenerVars, supervisorVars, MarkStopping, Goto, Runtime, LifecycleStates
  <2>6. SleepersParked'
      BY <1>2 DEF IInv, TypeOK, SleepersParked, RestartServer, listenerVars,
          supervisorVars, IsAdopted, MarkStopping, Goto, Runtime, LifecycleStates
  <2>7. ListenersAsleep'
      BY <1>2 DEF IInv, TypeOK, ListenersAsleep, Gens, RestartServer, listenerVars,
          supervisorVars, IsAdopted, MarkStopping, Goto, Runtime, LifecycleStates
  <2>8. SnapshotsHold'
      BY <1>2 DEF IInv, TypeOK, SnapshotsHold, Gens, RestartServer, listenerVars,
          supervisorVars, IsAdopted, MarkStopping, Goto, Runtime, LifecycleStates
  <2>9. ThreadsHold'
      BY <1>2 DEF IInv, TypeOK, ThreadsHold, IsAdopted, RestartServer, listenerVars,
          supervisorVars, MarkStopping, Goto, Runtime, LifecycleStates
  <2>10. NoOrphanJvm'
      BY <1>2 DEF IInv, TypeOK, NoOrphanJvm, Live, Gens, RestartServer, listenerVars,
          supervisorVars, IsAdopted, MarkStopping, Goto, Runtime, LifecycleStates
  <2>11. MissesCounted'
      BY <1>2 DEF IInv, MissesCounted, Gens, OfflineStreak, ActivePcs, RestartServer,
          listenerVars, supervisorVars
  <2>12. QED BY <2>1, <2>2, <2>3, <2>4, <2>5, <2>6, <2>7, <2>8, <2>9, <2>10, <2>11 DEF IInv
<1>3. QED BY <1>1, <1>2

\* RestartProceeds keeps the invariant.
LEMMA RestartProceedsInv ==
    ASSUME NEW t \in Threads, IInv, RestartProceeds(t) PROVE IInv'
<1>1. TypeOK'
  <2>1. pc' \in [Threads -> ThreadPcs]
      BY MaxGenAssumption DEF IInv, TypeOK, RestartProceeds, listenerVars, supervisorVars,
          Goto, ThreadPcs
  <2>2. QED BY <2>1 DEF IInv, TypeOK, RestartProceeds, listenerVars, supervisorVars
<1>2. StartsOwn'
    BY DEF IInv, TypeOK, StartsOwn, IsReservation, StartPcs, Gens, RestartProceeds,
        listenerVars, supervisorVars, Goto
<1>3. ThreadsHold'
    BY DEF IInv, TypeOK, ThreadsHold, IsAdopted, RestartProceeds, listenerVars,
        supervisorVars, Goto
<1>4. NoOrphanJvm'
    BY DEF IInv, TypeOK, NoOrphanJvm, Live, Gens, RestartProceeds, listenerVars,
        supervisorVars, Goto
<1>5. Shape' /\ Fresh' /\ RunSupervised' /\ SleepersParked' /\ ListenersAsleep'
      /\ SnapshotsHold' /\ MissesCounted'
    BY DEF IInv, Shape, Fresh, RunSupervised, SleepersParked, ListenersAsleep,
        SnapshotsHold, MissesCounted, InMap, Gens, IsAdopted, ActivePcs, OfflineStreak,
        Absent, RestartProceeds, listenerVars, supervisorVars
<1>6. QED BY <1>1, <1>2, <1>3, <1>4, <1>5 DEF IInv

\* BackoffEnds keeps the invariant.
LEMMA BackoffEndsInv ==
    ASSUME NEW t \in Threads, IInv, BackoffEnds(t) PROVE IInv'
<1>1. TypeOK'
  <2>1. pc' \in [Threads -> ThreadPcs]
      BY MaxGenAssumption DEF IInv, TypeOK, BackoffEnds, listenerVars, supervisorVars,
          Goto, ThreadPcs
  <2>2. QED BY <2>1 DEF IInv, TypeOK, BackoffEnds, listenerVars, supervisorVars
<1>2. StartsOwn'
    BY DEF IInv, TypeOK, StartsOwn, IsReservation, StartPcs, Gens, BackoffEnds,
        listenerVars, supervisorVars, Goto
<1>3. ThreadsHold'
    BY DEF IInv, TypeOK, ThreadsHold, IsAdopted, BackoffEnds, listenerVars, supervisorVars,
        Goto
<1>4. NoOrphanJvm'
    BY DEF IInv, TypeOK, NoOrphanJvm, Live, Gens, BackoffEnds, listenerVars,
        supervisorVars, Goto
<1>5. Shape' /\ Fresh' /\ RunSupervised' /\ SleepersParked' /\ ListenersAsleep'
      /\ SnapshotsHold' /\ MissesCounted'
    BY DEF IInv, Shape, Fresh, RunSupervised, SleepersParked, ListenersAsleep,
        SnapshotsHold, MissesCounted, InMap, Gens, IsAdopted, ActivePcs, OfflineStreak,
        Absent, BackoffEnds, listenerVars, supervisorVars
<1>6. QED BY <1>1, <1>2, <1>3, <1>4, <1>5 DEF IInv

\* DeleteServer keeps the invariant.
LEMMA DeleteServerInv ==
    ASSUME NEW t \in Threads, IInv, DeleteServer(t) PROVE IInv'
<1>1. CASE entry.child
  <2>1. TypeOK'
    <3>1. entry' \in Runtime
        BY <1>1, MaxGenAssumption DEF IInv, TypeOK, DeleteServer, supervisorVars,
            IsReservation, FlagListener, Goto, Absent, NewRuntime, Runtime,
            LifecycleStates, Gens
    <3>2. flag' \in [Gens -> BOOLEAN]
        BY <1>1, MaxGenAssumption DEF IInv, TypeOK, DeleteServer, supervisorVars,
            IsReservation, FlagListener, Goto, Absent, NewRuntime, Runtime,
            LifecycleStates, Gens
    <3>3. pc' \in [Threads -> ThreadPcs]
        BY <1>1, MaxGenAssumption DEF IInv, TypeOK, DeleteServer, supervisorVars,
            IsReservation, FlagListener, Goto, Absent, NewRuntime, Runtime,
            LifecycleStates, ThreadPcs
    <3>4. tgen' \in [Threads -> 0..MaxGen]
        BY <1>1, MaxGenAssumption DEF IInv, TypeOK, DeleteServer, supervisorVars,
            IsReservation, FlagListener, Goto, Absent, NewRuntime, Runtime,
            LifecycleStates, Gens
    <3>5. QED BY <3>1, <3>2, <3>3, <3>4 DEF IInv, TypeOK, DeleteServer, supervisorVars
  <2>2. Shape'
      BY <1>1 DEF IInv, TypeOK, Shape, InMap, DeleteServer, supervisorVars, IsReservation,
          FlagListener, Goto, Absent, NewRuntime, Runtime, LifecycleStates
  <2>3. Fresh'
      BY <1>1, MaxGenAssumption DEF IInv, TypeOK, Fresh, Gens, DeleteServer,
          supervisorVars, IsReservation, FlagListener, Goto, Absent, NewRuntime, Runtime,
          LifecycleStates
  <2>4. StartsOwn'
      BY <1>1 DEF IInv, TypeOK, StartsOwn, IsReservation, StartPcs, Gens, DeleteServer,
          supervisorVars, FlagListener, Goto, Absent, NewRuntime, Runtime, LifecycleStates
  <2>5. RunSupervised'
      BY <1>1 DEF IInv, TypeOK, RunSupervised, IsAdopted, ActivePcs, DeleteServer,
          supervisorVars, IsReservation, FlagListener, Goto, Absent, NewRuntime, Runtime,
          LifecycleStates
  <2>6. SleepersParked'
      BY <1>1 DEF IInv, TypeOK, SleepersParked, DeleteServer, supervisorVars,
          IsReservation, FlagListener, Goto, Absent, NewRuntime, Runtime, LifecycleStates
  <2>7. ListenersAsleep'
      BY <1>1 DEF IInv, TypeOK, ListenersAsleep, Gens, DeleteServer, supervisorVars,
          IsReservation, FlagListener, Goto, Absent, NewRuntime, Runtime, LifecycleStates
  <2>8. SnapshotsHold'
      BY <1>1 DEF IInv, TypeOK, SnapshotsHold, Gens, DeleteServer, supervisorVars,
          IsReservation, FlagListener, Goto, Absent, NewRuntime, Runtime, LifecycleStates
  <2>9. ThreadsHold'
      BY <1>1 DEF IInv, TypeOK, Shape, ThreadsHold, InMap, IsAdopted, DeleteServer,
          supervisorVars, IsReservation, FlagListener, Goto, Absent, NewRuntime, Runtime,
          LifecycleStates, Gens
  <2>10. NoOrphanJvm'
      BY <1>1 DEF IInv, TypeOK, NoOrphanJvm, Live, Gens, DeleteServer, supervisorVars,
          IsReservation, FlagListener, Goto, Absent, NewRuntime, Runtime, LifecycleStates
  <2>11. MissesCounted'
      BY <1>1 DEF IInv, MissesCounted, Gens, OfflineStreak, ActivePcs, DeleteServer,
          supervisorVars
  <2>12. QED BY <2>1, <2>2, <2>3, <2>4, <2>5, <2>6, <2>7, <2>8, <2>9, <2>10, <2>11 DEF IInv
<1>2. CASE ~entry.child
  <2>1. TypeOK'
    <3>1. entry' \in Runtime
        BY <1>2, MaxGenAssumption DEF IInv, TypeOK, DeleteServer, supervisorVars,
            IsReservation, FlagListener, Goto, Absent, NewRuntime, Runtime,
            LifecycleStates, Gens
    <3>2. flag' \in [Gens -> BOOLEAN]
        BY <1>2, MaxGenAssumption DEF IInv, TypeOK, DeleteServer, supervisorVars,
            IsReservation, FlagListener, Goto, Absent, NewRuntime, Runtime,
            LifecycleStates, Gens
    <3>3. pc' \in [Threads -> ThreadPcs]
        BY <1>2, MaxGenAssumption DEF IInv, TypeOK, DeleteServer, supervisorVars,
            IsReservation, FlagListener, Goto, Absent, NewRuntime, Runtime,
            LifecycleStates, ThreadPcs
    <3>4. tgen' \in [Threads -> 0..MaxGen]
        BY <1>2, MaxGenAssumption DEF IInv, TypeOK, DeleteServer, supervisorVars,
            IsReservation, FlagListener, Goto, Absent, NewRuntime, Runtime,
            LifecycleStates, Gens
    <3>5. QED BY <3>1, <3>2, <3>3, <3>4 DEF IInv, TypeOK, DeleteServer, supervisorVars
  <2>2. Shape'
      BY <1>2 DEF IInv, TypeOK, Shape, InMap, DeleteServer, supervisorVars, IsReservation,
          FlagListener, Goto, Absent, NewRuntime, Runtime, LifecycleStates
  <2>3. Fresh'
      BY <1>2, MaxGenAssumption DEF IInv, TypeOK, Fresh, Gens, DeleteServer,
          supervisorVars, IsReservation, FlagListener, Goto, Absent, NewRuntime, Runtime,
          LifecycleStates
  <2>4. StartsOwn'
      BY <1>2 DEF IInv, TypeOK, StartsOwn, IsReservation, StartPcs, Gens, DeleteServer,
          supervisorVars, FlagListener, Goto, Absent, NewRuntime, Runtime, LifecycleStates
  <2>5. RunSupervised'
      BY <1>2 DEF IInv, TypeOK, RunSupervised, IsAdopted, ActivePcs, DeleteServer,
          supervisorVars, IsReservation, FlagListener, Goto, Absent, NewRuntime, Runtime,
          LifecycleStates
  <2>6. SleepersParked'
      BY <1>2 DEF IInv, TypeOK, SleepersParked, DeleteServer, supervisorVars,
          IsReservation, FlagListener, Goto, Absent, NewRuntime, Runtime, LifecycleStates
  <2>7. ListenersAsleep'
      BY <1>2 DEF IInv, TypeOK, ListenersAsleep, Gens, DeleteServer, supervisorVars,
          IsReservation, FlagListener, Goto, Absent, NewRuntime, Runtime, LifecycleStates
  <2>8. SnapshotsHold'
      BY <1>2 DEF IInv, TypeOK, SnapshotsHold, Gens, DeleteServer, supervisorVars,
          IsReservation, FlagListener, Goto, Absent, NewRuntime, Runtime, LifecycleStates
  <2>9. ThreadsHold'
      BY <1>2 DEF IInv, TypeOK, ThreadsHold, IsAdopted, DeleteServer, supervisorVars,
          IsReservation, FlagListener, Goto, Absent, NewRuntime, Runtime, LifecycleStates
  <2>10. NoOrphanJvm'
      BY <1>2 DEF IInv, TypeOK, NoOrphanJvm, Live, Gens, DeleteServer, supervisorVars,
          IsReservation, FlagListener, Goto, Absent, NewRuntime, Runtime, LifecycleStates
  <2>11. MissesCounted'
      BY <1>2 DEF IInv, MissesCounted, Gens, OfflineStreak, ActivePcs, DeleteServer,
          supervisorVars
  <2>12. QED BY <2>1, <2>2, <2>3, <2>4, <2>5, <2>6, <2>7, <2>8, <2>9, <2>10, <2>11 DEF IInv
<1>3. QED BY <1>1, <1>2

\* TerminateRuntime keeps the invariant.
LEMMA TerminateRuntimeInv ==
    ASSUME NEW t \in Threads, IInv, TerminateRuntime(t) PROVE IInv'
<1>1. TypeOK'
  <2>1. jvm' \in [Gens -> JvmStates]
      BY MaxGenAssumption DEF IInv, TypeOK, TerminateRuntime, listenerVars, supervisorVars,
          Reaped, Goto, JvmStates, Gens
  <2>2. pc' \in [Threads -> ThreadPcs]
      BY MaxGenAssumption DEF IInv, TypeOK, TerminateRuntime, listenerVars, supervisorVars,
          Reaped, Goto, ThreadPcs
  <2>3. tgen' \in [Threads -> 0..MaxGen]
      BY MaxGenAssumption DEF IInv, TypeOK, TerminateRuntime, listenerVars, supervisorVars,
          Reaped, Goto, Runtime, Gens
  <2>4. QED BY <2>1, <2>2, <2>3 DEF IInv, TypeOK, TerminateRuntime, listenerVars, supervisorVars
<1>2. Fresh'
    BY MaxGenAssumption DEF IInv, TypeOK, Fresh, Gens, TerminateRuntime, listenerVars,
        supervisorVars, Reaped, Goto
<1>3. StartsOwn'
    BY DEF IInv, TypeOK, Shape, StartsOwn, InMap, IsReservation, StartPcs, Gens,
        TerminateRuntime, listenerVars, supervisorVars, Reaped, Goto, Absent, NewRuntime,
        Runtime, LifecycleStates
<1>4. ThreadsHold'
    BY DEF IInv, TypeOK, ThreadsHold, IsAdopted, TerminateRuntime, listenerVars,
        supervisorVars, Reaped, Goto
<1>5. NoOrphanJvm'
    BY DEF IInv, TypeOK, NoOrphanJvm, Live, Gens, TerminateRuntime, listenerVars,
        supervisorVars, Reaped, Goto
<1>6. Shape' /\ RunSupervised' /\ SleepersParked' /\ ListenersAsleep' /\ SnapshotsHold'
      /\ MissesCounted'
    BY DEF IInv, Shape, RunSupervised, SleepersParked, ListenersAsleep, SnapshotsHold,
        MissesCounted, InMap, IsAdopted, ActivePcs, Gens, OfflineStreak, Absent,
        TerminateRuntime, listenerVars, supervisorVars
<1>7. QED BY <1>1, <1>2, <1>3, <1>4, <1>5, <1>6 DEF IInv

\* TrashDirectory keeps the invariant.
LEMMA TrashDirectoryInv ==
    ASSUME NEW t \in Threads, IInv, TrashDirectory(t) PROVE IInv'
<1>1. TypeOK'
  <2>1. pc' \in [Threads -> ThreadPcs]
      BY MaxGenAssumption DEF IInv, TypeOK, TrashDirectory, listenerVars, supervisorVars,
          Goto, ThreadPcs
  <2>2. dir' \in BOOLEAN
      BY MaxGenAssumption DEF IInv, TypeOK, TrashDirectory, listenerVars, supervisorVars,
          Goto
  <2>3. QED BY <2>1, <2>2 DEF IInv, TypeOK, TrashDirectory, listenerVars, supervisorVars
<1>2. StartsOwn'
    BY DEF IInv, TypeOK, StartsOwn, IsReservation, StartPcs, Gens, TrashDirectory,
        listenerVars, supervisorVars, Goto
<1>3. ThreadsHold'
    BY DEF IInv, TypeOK, ThreadsHold, IsAdopted, TrashDirectory, listenerVars,
        supervisorVars, Goto
<1>4. NoOrphanJvm'
    BY DEF IInv, TypeOK, NoOrphanJvm, Live, Gens, TrashDirectory, listenerVars,
        supervisorVars, Goto
<1>5. Shape' /\ Fresh' /\ RunSupervised' /\ SleepersParked' /\ ListenersAsleep'
      /\ SnapshotsHold' /\ MissesCounted'
    BY DEF IInv, Shape, Fresh, RunSupervised, SleepersParked, ListenersAsleep,
        SnapshotsHold, MissesCounted, InMap, Gens, IsAdopted, ActivePcs, OfflineStreak,
        Absent, TrashDirectory, listenerVars, supervisorVars
<1>6. QED BY <1>1, <1>2, <1>3, <1>4, <1>5 DEF IInv

\* EditSettings keeps the invariant.
LEMMA EditSettingsInv ==
    ASSUME NEW t \in Threads, IInv, EditSettings(t) PROVE IInv'
<1>1. TypeOK'
  <2>1. pc' \in [Threads -> ThreadPcs]
      BY MaxGenAssumption DEF IInv, TypeOK, EditSettings, listenerVars, supervisorVars,
          InMap, Goto, ThreadPcs
  <2>2. tgen' \in [Threads -> 0..MaxGen]
      BY MaxGenAssumption DEF IInv, TypeOK, EditSettings, listenerVars, supervisorVars,
          InMap, Goto, Runtime, Gens
  <2>3. QED BY <2>1, <2>2 DEF IInv, TypeOK, EditSettings, listenerVars, supervisorVars
<1>2. Fresh'
    BY MaxGenAssumption DEF IInv, TypeOK, Fresh, Gens, EditSettings, listenerVars,
        supervisorVars, InMap, Goto
<1>3. StartsOwn'
    BY DEF IInv, TypeOK, StartsOwn, IsReservation, StartPcs, Gens, EditSettings,
        listenerVars, supervisorVars, InMap, Goto
<1>4. ThreadsHold'
    BY DEF IInv, TypeOK, ThreadsHold, IsAdopted, EditSettings, listenerVars,
        supervisorVars, InMap, Goto
<1>5. NoOrphanJvm'
    BY DEF IInv, TypeOK, NoOrphanJvm, Live, Gens, EditSettings, listenerVars,
        supervisorVars, InMap, Goto
<1>6. Shape' /\ RunSupervised' /\ SleepersParked' /\ ListenersAsleep' /\ SnapshotsHold'
      /\ MissesCounted'
    BY DEF IInv, Shape, RunSupervised, SleepersParked, ListenersAsleep, SnapshotsHold,
        MissesCounted, InMap, IsAdopted, ActivePcs, Gens, OfflineStreak, Absent,
        EditSettings, listenerVars, supervisorVars
<1>7. QED BY <1>1, <1>2, <1>3, <1>4, <1>5, <1>6 DEF IInv

\* SettingsSaved keeps the invariant.
LEMMA SettingsSavedInv ==
    ASSUME NEW t \in Threads, IInv, SettingsSaved(t) PROVE IInv'
<1>1. CASE StillSleeping(tgen[t])
  <2>1. TypeOK'
    <3>1. entry' \in Runtime
        BY <1>1, AbsentType DEF SettingsSaved
    <3>2. flag' \in [Gens -> BOOLEAN]
        BY <1>1, MaxGenAssumption DEF IInv, TypeOK, SettingsSaved, supervisorVars,
            StillSleeping, FlagListener, Goto, Absent, NewRuntime, Runtime,
            LifecycleStates, Gens
    <3>3. pc' \in [Threads -> ThreadPcs]
        BY <1>1, MaxGenAssumption DEF IInv, TypeOK, SettingsSaved, supervisorVars,
            StillSleeping, FlagListener, Goto, Absent, NewRuntime, Runtime,
            LifecycleStates, ThreadPcs
    <3>4. tgen' \in [Threads -> 0..MaxGen]
        BY <1>1, MaxGenAssumption DEF IInv, TypeOK, SettingsSaved, supervisorVars,
            StillSleeping, FlagListener, Goto, Absent, NewRuntime, Runtime,
            LifecycleStates, Gens
    <3>5. QED BY <3>1, <3>2, <3>3, <3>4 DEF IInv, TypeOK, SettingsSaved, supervisorVars
  <2>2. Shape'
      BY <1>1 DEF IInv, TypeOK, Shape, InMap, SettingsSaved, supervisorVars, StillSleeping,
          FlagListener, Goto, Absent, NewRuntime, Runtime, LifecycleStates
  <2>3. Fresh'
      BY <1>1, MaxGenAssumption DEF IInv, TypeOK, Fresh, Gens, SettingsSaved,
          supervisorVars, StillSleeping, FlagListener, Goto, Absent, NewRuntime, Runtime,
          LifecycleStates
  <2>4. StartsOwn'
      BY <1>1 DEF IInv, TypeOK, StartsOwn, IsReservation, StartPcs, Gens, SettingsSaved,
          supervisorVars, StillSleeping, FlagListener, Goto, Absent, NewRuntime, Runtime,
          LifecycleStates
  <2>5. RunSupervised'
      BY <1>1 DEF IInv, TypeOK, RunSupervised, IsAdopted, ActivePcs, SettingsSaved,
          supervisorVars, StillSleeping, FlagListener, Goto, Absent, NewRuntime, Runtime,
          LifecycleStates
  <2>6. SleepersParked'
      BY <1>1 DEF IInv, TypeOK, SleepersParked, SettingsSaved, supervisorVars,
          StillSleeping, FlagListener, Goto, Absent, NewRuntime, Runtime, LifecycleStates
  <2>7. ListenersAsleep'
      BY <1>1 DEF IInv, TypeOK, ListenersAsleep, Gens, SettingsSaved, supervisorVars,
          StillSleeping, FlagListener, Goto, Absent, NewRuntime, Runtime, LifecycleStates
  <2>8. SnapshotsHold'
      BY <1>1 DEF IInv, TypeOK, SnapshotsHold, Gens, SettingsSaved, supervisorVars,
          StillSleeping, FlagListener, Goto, Absent, NewRuntime, Runtime, LifecycleStates
  <2>9. ThreadsHold'
      BY <1>1 DEF IInv, TypeOK, ThreadsHold, IsAdopted, SettingsSaved, supervisorVars,
          StillSleeping, FlagListener, Goto, Absent, NewRuntime, Runtime, LifecycleStates
  <2>10. NoOrphanJvm'
      BY <1>1 DEF IInv, TypeOK, Shape, NoOrphanJvm, InMap, Live, Gens, SettingsSaved,
          supervisorVars, StillSleeping, FlagListener, Goto, Absent, NewRuntime, Runtime,
          LifecycleStates
  <2>11. MissesCounted'
      BY <1>1 DEF IInv, MissesCounted, Gens, OfflineStreak, ActivePcs, SettingsSaved,
          supervisorVars
  <2>12. QED BY <2>1, <2>2, <2>3, <2>4, <2>5, <2>6, <2>7, <2>8, <2>9, <2>10, <2>11 DEF IInv
<1>2. CASE ~StillSleeping(tgen[t])
  <2>1. TypeOK'
    <3>1. entry' \in Runtime
        BY <1>2, MaxGenAssumption DEF IInv, TypeOK, SettingsSaved, supervisorVars,
            StillSleeping, FlagListener, Goto, Absent, NewRuntime, Runtime,
            LifecycleStates, Gens
    <3>2. flag' \in [Gens -> BOOLEAN]
        BY <1>2, MaxGenAssumption DEF IInv, TypeOK, SettingsSaved, supervisorVars,
            StillSleeping, FlagListener, Goto, Absent, NewRuntime, Runtime,
            LifecycleStates, Gens
    <3>3. pc' \in [Threads -> ThreadPcs]
        BY <1>2, MaxGenAssumption DEF IInv, TypeOK, SettingsSaved, supervisorVars,
            StillSleeping, FlagListener, Goto, Absent, NewRuntime, Runtime,
            LifecycleStates, ThreadPcs
    <3>4. tgen' \in [Threads -> 0..MaxGen]
        BY <1>2, MaxGenAssumption DEF IInv, TypeOK, SettingsSaved, supervisorVars,
            StillSleeping, FlagListener, Goto, Absent, NewRuntime, Runtime,
            LifecycleStates, Gens
    <3>5. QED BY <3>1, <3>2, <3>3, <3>4 DEF IInv, TypeOK, SettingsSaved, supervisorVars
  <2>2. Shape'
      BY <1>2 DEF IInv, TypeOK, Shape, InMap, SettingsSaved, supervisorVars, StillSleeping,
          FlagListener, Goto, Absent, NewRuntime, Runtime, LifecycleStates
  <2>3. Fresh'
      BY <1>2, MaxGenAssumption DEF IInv, TypeOK, Fresh, Gens, SettingsSaved,
          supervisorVars, StillSleeping, FlagListener, Goto, Absent, NewRuntime, Runtime,
          LifecycleStates
  <2>4. StartsOwn'
      BY <1>2 DEF IInv, TypeOK, StartsOwn, IsReservation, StartPcs, Gens, SettingsSaved,
          supervisorVars, StillSleeping, FlagListener, Goto, Absent, NewRuntime, Runtime,
          LifecycleStates
  <2>5. RunSupervised'
      BY <1>2 DEF IInv, TypeOK, RunSupervised, IsAdopted, ActivePcs, SettingsSaved,
          supervisorVars, StillSleeping, FlagListener, Goto, Absent, NewRuntime, Runtime,
          LifecycleStates
  <2>6. SleepersParked'
      BY <1>2 DEF IInv, TypeOK, SleepersParked, SettingsSaved, supervisorVars,
          StillSleeping, FlagListener, Goto, Absent, NewRuntime, Runtime, LifecycleStates
  <2>7. ListenersAsleep'
      BY <1>2 DEF IInv, TypeOK, ListenersAsleep, Gens, SettingsSaved, supervisorVars,
          StillSleeping, FlagListener, Goto, Absent, NewRuntime, Runtime, LifecycleStates
  <2>8. SnapshotsHold'
      BY <1>2 DEF IInv, TypeOK, SnapshotsHold, Gens, SettingsSaved, supervisorVars,
          StillSleeping, FlagListener, Goto, Absent, NewRuntime, Runtime, LifecycleStates
  <2>9. ThreadsHold'
      BY <1>2 DEF IInv, TypeOK, ThreadsHold, IsAdopted, SettingsSaved, supervisorVars,
          StillSleeping, FlagListener, Goto, Absent, NewRuntime, Runtime, LifecycleStates
  <2>10. NoOrphanJvm'
      BY <1>2 DEF IInv, TypeOK, Shape, NoOrphanJvm, InMap, Live, Gens, SettingsSaved,
          supervisorVars, StillSleeping, FlagListener, Goto, Absent, NewRuntime, Runtime,
          LifecycleStates
  <2>11. MissesCounted'
      BY <1>2 DEF IInv, MissesCounted, Gens, OfflineStreak, ActivePcs, SettingsSaved,
          supervisorVars
  <2>12. QED BY <2>1, <2>2, <2>3, <2>4, <2>5, <2>6, <2>7, <2>8, <2>9, <2>10, <2>11 DEF IInv
<1>3. QED BY <1>1, <1>2

\* ProbeUntracked keeps the invariant.
LEMMA ProbeUntrackedInv ==
    ASSUME NEW t \in Threads, IInv, ProbeUntracked(t) PROVE IInv'
<1>1. TypeOK'
  <2>1. pc' \in [Threads -> ThreadPcs]
      BY MaxGenAssumption DEF IInv, TypeOK, ProbeUntracked, listenerVars, supervisorVars,
          InMap, Goto, ThreadPcs
  <2>2. QED BY <2>1 DEF IInv, TypeOK, ProbeUntracked, listenerVars, supervisorVars
<1>2. StartsOwn'
    BY DEF IInv, TypeOK, StartsOwn, IsReservation, StartPcs, Gens, ProbeUntracked,
        listenerVars, supervisorVars, InMap, Goto
<1>3. ThreadsHold'
    BY DEF IInv, TypeOK, ThreadsHold, IsAdopted, ProbeUntracked, listenerVars,
        supervisorVars, InMap, Goto
<1>4. NoOrphanJvm'
    BY DEF IInv, TypeOK, NoOrphanJvm, Live, Gens, ProbeUntracked, listenerVars,
        supervisorVars, InMap, Goto
<1>5. Shape' /\ Fresh' /\ RunSupervised' /\ SleepersParked' /\ ListenersAsleep'
      /\ SnapshotsHold' /\ MissesCounted'
    BY DEF IInv, Shape, Fresh, RunSupervised, SleepersParked, ListenersAsleep,
        SnapshotsHold, MissesCounted, InMap, Gens, IsAdopted, ActivePcs, OfflineStreak,
        Absent, ProbeUntracked, listenerVars, supervisorVars
<1>6. QED BY <1>1, <1>2, <1>3, <1>4, <1>5 DEF IInv

\* AdoptExternal keeps the invariant.
LEMMA AdoptExternalInv ==
    ASSUME NEW t \in Threads, IInv, AdoptExternal(t) PROVE IInv'
<1>1. CASE InMap \/ lastGen = MaxGen
  <2>1. TypeOK'
    <3>1. entry' \in Runtime
        BY <1>1, MaxGenAssumption DEF IInv, TypeOK, AdoptExternal, listenerVars, InMap,
            Goto, NewRuntime, Runtime, LifecycleStates, Gens
    <3>2. lastGen' \in 0..MaxGen
        BY <1>1, MaxGenAssumption DEF IInv, TypeOK, AdoptExternal, listenerVars, InMap,
            Goto, NewRuntime, Runtime, LifecycleStates
    <3>3. spc' \in [Gens -> SupervisorPcs]
        BY <1>1, MaxGenAssumption DEF IInv, TypeOK, AdoptExternal, listenerVars, InMap,
            Goto, NewRuntime, Runtime, LifecycleStates, SupervisorPcs, Gens
    <3>4. pc' \in [Threads -> ThreadPcs]
        BY <1>1, MaxGenAssumption DEF IInv, TypeOK, AdoptExternal, listenerVars, InMap,
            Goto, NewRuntime, Runtime, LifecycleStates, ThreadPcs
    <3>5. QED BY <3>1, <3>2, <3>3, <3>4 DEF IInv, TypeOK, AdoptExternal, listenerVars
  <2>2. Shape'
      BY <1>1 DEF IInv, TypeOK, Shape, InMap, AdoptExternal, listenerVars, Goto, Absent,
          NewRuntime, Runtime, LifecycleStates
  <2>3. Fresh'
      BY <1>1, MaxGenAssumption DEF IInv, TypeOK, Fresh, Gens, AdoptExternal, listenerVars,
          InMap, Goto, NewRuntime, Runtime, LifecycleStates
  <2>4. StartsOwn'
      BY <1>1 DEF IInv, TypeOK, StartsOwn, IsReservation, StartPcs, Gens, AdoptExternal,
          listenerVars, InMap, Goto, NewRuntime, Runtime, LifecycleStates
  <2>5. RunSupervised'
      BY <1>1 DEF IInv, TypeOK, RunSupervised, IsAdopted, ActivePcs, AdoptExternal,
          listenerVars, InMap, Goto, NewRuntime, Runtime, LifecycleStates
  <2>6. SleepersParked'
      BY <1>1 DEF IInv, TypeOK, SleepersParked, AdoptExternal, listenerVars, InMap, Goto,
          NewRuntime, Runtime, LifecycleStates
  <2>7. ListenersAsleep'
      BY <1>1 DEF IInv, TypeOK, ListenersAsleep, Gens, AdoptExternal, listenerVars, InMap,
          Goto, NewRuntime, Runtime, LifecycleStates
  <2>8. SnapshotsHold'
      BY <1>1 DEF IInv, TypeOK, SnapshotsHold, Gens, AdoptExternal, listenerVars, InMap,
          Goto, NewRuntime, Runtime, LifecycleStates
  <2>9. MissesCounted'
      BY <1>1 DEF IInv, TypeOK, MissesCounted, Gens, OfflineStreak, ActivePcs,
          AdoptExternal, listenerVars, InMap, Goto, NewRuntime, Runtime, LifecycleStates
  <2>10. ThreadsHold'
      BY <1>1 DEF IInv, TypeOK, ThreadsHold, IsAdopted, AdoptExternal, listenerVars, InMap,
          Goto, NewRuntime, Runtime, LifecycleStates
  <2>11. NoOrphanJvm'
      BY <1>1, MaxGenAssumption DEF IInv, TypeOK, Shape, Fresh, StartsOwn, NoOrphanJvm,
          InMap, Gens, IsReservation, StartPcs, Live, AdoptExternal, listenerVars, Goto,
          Absent, NewRuntime, Runtime, LifecycleStates
  <2>12. QED BY <2>1, <2>2, <2>3, <2>4, <2>5, <2>6, <2>7, <2>8, <2>9, <2>10, <2>11 DEF IInv
<1>2. CASE ~(InMap \/ lastGen = MaxGen)
  <2>1. TypeOK'
    <3>1. entry' \in Runtime
        <4>1. lastGen + 1 \in 0..MaxGen BY <1>2, MaxGenAssumption DEF IInv, TypeOK
        <4>2. QED BY <1>2, <4>1, NewRuntimeType DEF AdoptExternal, LifecycleStates
    <3>2. lastGen' \in 0..MaxGen
        BY <1>2, MaxGenAssumption DEF IInv, TypeOK, AdoptExternal, listenerVars, InMap,
            Goto, NewRuntime, Runtime, LifecycleStates
    <3>3. spc' \in [Gens -> SupervisorPcs]
        BY <1>2, MaxGenAssumption DEF IInv, TypeOK, AdoptExternal, listenerVars, InMap,
            Goto, NewRuntime, Runtime, LifecycleStates, SupervisorPcs, Gens
    <3>4. pc' \in [Threads -> ThreadPcs]
        BY <1>2, MaxGenAssumption DEF IInv, TypeOK, AdoptExternal, listenerVars, InMap,
            Goto, NewRuntime, Runtime, LifecycleStates, ThreadPcs
    <3>5. QED BY <3>1, <3>2, <3>3, <3>4 DEF IInv, TypeOK, AdoptExternal, listenerVars
  <2>2. Shape'
      BY <1>2 DEF IInv, TypeOK, Shape, InMap, AdoptExternal, listenerVars, Goto, Absent,
          NewRuntime, Runtime, LifecycleStates
  <2>3. Fresh'
      BY <1>2, MaxGenAssumption DEF IInv, TypeOK, Fresh, Gens, AdoptExternal, listenerVars,
          InMap, Goto, NewRuntime, Runtime, LifecycleStates
  <2>4. StartsOwn'
      BY <1>2 DEF IInv, TypeOK, StartsOwn, IsReservation, StartPcs, Gens, AdoptExternal,
          listenerVars, InMap, Goto, NewRuntime, Runtime, LifecycleStates
  <2>5. RunSupervised'
      BY <1>2, MaxGenAssumption DEF IInv, TypeOK, Shape, Fresh, StartsOwn, RunSupervised,
          InMap, Gens, IsReservation, StartPcs, IsAdopted, ActivePcs, AdoptExternal,
          listenerVars, Goto, Absent, NewRuntime, Runtime, LifecycleStates
  <2>6. SleepersParked'
      BY <1>2 DEF IInv, TypeOK, SleepersParked, AdoptExternal, listenerVars, InMap, Goto,
          NewRuntime, Runtime, LifecycleStates
  <2>7. ListenersAsleep'
      BY <1>2, MaxGenAssumption DEF IInv, TypeOK, Shape, Fresh, StartsOwn, ListenersAsleep,
          InMap, Gens, IsReservation, StartPcs, AdoptExternal, listenerVars, Goto, Absent,
          NewRuntime, Runtime, LifecycleStates
  <2>8. SnapshotsHold'
      BY <1>2, MaxGenAssumption DEF IInv, TypeOK, Shape, Fresh, StartsOwn, SnapshotsHold,
          InMap, Gens, IsReservation, StartPcs, AdoptExternal, listenerVars, Goto, Absent,
          NewRuntime, Runtime, LifecycleStates
  <2>9. MissesCounted'
      BY <1>2, MaxGenAssumption DEF IInv, TypeOK, Shape, Fresh, StartsOwn, MissesCounted,
          InMap, Gens, IsReservation, StartPcs, OfflineStreak, ActivePcs, AdoptExternal,
          listenerVars, Goto, Absent, NewRuntime, Runtime, LifecycleStates
  <2>10. ThreadsHold'
      BY <1>2, MaxGenAssumption DEF IInv, TypeOK, Shape, Fresh, StartsOwn, ThreadsHold,
          InMap, Gens, IsReservation, StartPcs, IsAdopted, AdoptExternal, listenerVars,
          Goto, Absent, NewRuntime, Runtime, LifecycleStates
  <2>11. NoOrphanJvm'
      BY <1>2 DEF IInv, TypeOK, Shape, NoOrphanJvm, InMap, Live, Gens, AdoptExternal,
          listenerVars, Goto, Absent, NewRuntime, Runtime, LifecycleStates
  <2>12. QED BY <2>1, <2>2, <2>3, <2>4, <2>5, <2>6, <2>7, <2>8, <2>9, <2>10, <2>11 DEF IInv
<1>3. QED BY <1>1, <1>2

\* StopSleeping keeps the invariant.
LEMMA StopSleepingInv ==
    ASSUME IInv, StopSleeping PROVE IInv'
<1>1. TypeOK'
  <2>1. entry' \in Runtime
      BY MaxGenAssumption DEF IInv, TypeOK, StopSleeping, supervisorVars, threadVars,
          ReleaseSleeping, FlagListener, InMap, Absent, NewRuntime, Runtime,
          LifecycleStates, Gens
  <2>2. flag' \in [Gens -> BOOLEAN]
      BY MaxGenAssumption DEF IInv, TypeOK, StopSleeping, supervisorVars, threadVars,
          ReleaseSleeping, FlagListener, InMap, Absent, NewRuntime, Runtime,
          LifecycleStates, Gens
  <2>3. QED BY <2>1, <2>2 DEF IInv, TypeOK, StopSleeping, supervisorVars, threadVars,
        ReleaseSleeping
<1>2. Shape'
    BY DEF IInv, TypeOK, Shape, InMap, StopSleeping, supervisorVars, threadVars,
        ReleaseSleeping, FlagListener, Absent, NewRuntime, Runtime, LifecycleStates
<1>3. Fresh'
    BY MaxGenAssumption DEF IInv, TypeOK, Fresh, Gens, StopSleeping, supervisorVars,
        threadVars, ReleaseSleeping, FlagListener, InMap, Absent, NewRuntime, Runtime,
        LifecycleStates
<1>4. StartsOwn'
    BY DEF IInv, TypeOK, StartsOwn, IsReservation, StartPcs, Gens, StopSleeping,
        supervisorVars, threadVars, ReleaseSleeping, FlagListener, InMap, Absent,
        NewRuntime, Runtime, LifecycleStates
<1>5. RunSupervised'
    BY DEF IInv, TypeOK, RunSupervised, IsAdopted, ActivePcs, StopSleeping, supervisorVars,
        threadVars, ReleaseSleeping, FlagListener, InMap, Absent, NewRuntime, Runtime,
        LifecycleStates
<1>6. SleepersParked'
    BY DEF IInv, TypeOK, SleepersParked, StopSleeping, supervisorVars, threadVars,
        ReleaseSleeping, FlagListener, InMap, Absent, NewRuntime, Runtime, LifecycleStates
<1>7. ListenersAsleep'
    BY DEF IInv, TypeOK, ListenersAsleep, Gens, StopSleeping, supervisorVars, threadVars,
        ReleaseSleeping, FlagListener, InMap, Absent, NewRuntime, Runtime, LifecycleStates
<1>8. SnapshotsHold'
    BY DEF IInv, TypeOK, SnapshotsHold, Gens, StopSleeping, supervisorVars, threadVars,
        ReleaseSleeping, FlagListener, InMap, Absent, NewRuntime, Runtime, LifecycleStates
<1>9. ThreadsHold'
    BY DEF IInv, TypeOK, ThreadsHold, IsAdopted, StopSleeping, supervisorVars, threadVars,
        ReleaseSleeping, FlagListener, InMap, Absent, NewRuntime, Runtime, LifecycleStates
<1>10. NoOrphanJvm'
    BY DEF IInv, TypeOK, Shape, NoOrphanJvm, InMap, Live, Gens, StopSleeping,
        supervisorVars, threadVars, ReleaseSleeping, FlagListener, Absent, NewRuntime,
        Runtime, LifecycleStates
<1>11. MissesCounted'
    BY DEF IInv, MissesCounted, Gens, OfflineStreak, ActivePcs, StopSleeping,
        supervisorVars, threadVars, ReleaseSleeping
<1>12. QED BY <1>1, <1>2, <1>3, <1>4, <1>5, <1>6, <1>7, <1>8, <1>9, <1>10, <1>11 DEF IInv

\* StopServer keeps the invariant.
LEMMA StopServerInv ==
    ASSUME IInv, StopServer PROVE IInv'
<1>1. TypeOK'
  <2>1. entry' \in Runtime
      BY MaxGenAssumption DEF IInv, TypeOK, StopServer, listenerVars, supervisorVars,
          threadVars, MarkStopping, IsReservation, Runtime, LifecycleStates, Gens
  <2>2. QED BY <2>1 DEF IInv, TypeOK, StopServer, listenerVars, supervisorVars, threadVars
<1>2. Shape'
    BY DEF IInv, TypeOK, Shape, InMap, StopServer, listenerVars, supervisorVars,
        threadVars, MarkStopping, IsReservation, Absent, NewRuntime, Runtime,
        LifecycleStates
<1>3. Fresh'
    BY MaxGenAssumption DEF IInv, TypeOK, Fresh, Gens, StopServer, listenerVars,
        supervisorVars, threadVars, MarkStopping, IsReservation, Runtime, LifecycleStates
<1>4. StartsOwn'
    BY DEF IInv, TypeOK, StartsOwn, IsReservation, StartPcs, Gens, StopServer,
        listenerVars, supervisorVars, threadVars, MarkStopping, Runtime, LifecycleStates
<1>5. RunSupervised'
    BY DEF IInv, TypeOK, RunSupervised, IsAdopted, ActivePcs, StopServer, listenerVars,
        supervisorVars, threadVars, MarkStopping, IsReservation, Runtime, LifecycleStates
<1>6. SleepersParked'
    BY DEF IInv, TypeOK, SleepersParked, StopServer, listenerVars, supervisorVars,
        threadVars, MarkStopping, IsReservation, Runtime, LifecycleStates
<1>7. ListenersAsleep'
    BY DEF IInv, TypeOK, Shape, ListenersAsleep, InMap, Gens, StopServer, listenerVars,
        supervisorVars, threadVars, MarkStopping, IsReservation, Absent, NewRuntime,
        Runtime, LifecycleStates
<1>8. SnapshotsHold'
    BY DEF IInv, TypeOK, SnapshotsHold, Gens, StopServer, listenerVars, supervisorVars,
        threadVars, MarkStopping, IsReservation, Runtime, LifecycleStates
<1>9. ThreadsHold'
    BY DEF IInv, TypeOK, Shape, ThreadsHold, InMap, IsAdopted, StopServer, listenerVars,
        supervisorVars, threadVars, MarkStopping, IsReservation, Absent, NewRuntime,
        Runtime, LifecycleStates, Gens
<1>10. NoOrphanJvm'
    BY DEF IInv, TypeOK, NoOrphanJvm, Live, Gens, StopServer, listenerVars, supervisorVars,
        threadVars, MarkStopping, IsReservation, Runtime, LifecycleStates
<1>11. MissesCounted'
    BY DEF IInv, MissesCounted, Gens, OfflineStreak, ActivePcs, StopServer, listenerVars,
        supervisorVars, threadVars
<1>12. QED BY <1>1, <1>2, <1>3, <1>4, <1>5, <1>6, <1>7, <1>8, <1>9, <1>10, <1>11 DEF IInv

\* SleepServer keeps the invariant.
LEMMA SleepServerInv ==
    ASSUME IInv, SleepServer PROVE IInv'
<1>1. TypeOK'
  <2>1. entry' \in Runtime
      BY MaxGenAssumption DEF IInv, TypeOK, SleepServer, listenerVars, supervisorVars,
          threadVars, MarkStopping, Runtime, LifecycleStates, Gens
  <2>2. QED BY <2>1 DEF IInv, TypeOK, SleepServer, listenerVars, supervisorVars, threadVars
<1>2. Shape'
    BY DEF IInv, TypeOK, Shape, InMap, SleepServer, listenerVars, supervisorVars,
        threadVars, MarkStopping, Absent, NewRuntime, Runtime, LifecycleStates
<1>3. Fresh'
    BY MaxGenAssumption DEF IInv, TypeOK, Fresh, Gens, SleepServer, listenerVars,
        supervisorVars, threadVars, MarkStopping, Runtime, LifecycleStates
<1>4. StartsOwn'
    BY DEF IInv, TypeOK, StartsOwn, IsReservation, StartPcs, Gens, SleepServer,
        listenerVars, supervisorVars, threadVars, MarkStopping, Runtime, LifecycleStates
<1>5. RunSupervised'
    BY DEF IInv, TypeOK, RunSupervised, IsAdopted, ActivePcs, SleepServer, listenerVars,
        supervisorVars, threadVars, MarkStopping, Runtime, LifecycleStates
<1>6. SleepersParked'
    BY DEF IInv, TypeOK, SleepersParked, SleepServer, listenerVars, supervisorVars,
        threadVars, MarkStopping, Runtime, LifecycleStates
<1>7. ListenersAsleep'
    BY DEF IInv, TypeOK, ListenersAsleep, Gens, SleepServer, listenerVars, supervisorVars,
        threadVars, MarkStopping, Runtime, LifecycleStates
<1>8. SnapshotsHold'
    BY DEF IInv, TypeOK, SnapshotsHold, Gens, SleepServer, listenerVars, supervisorVars,
        threadVars, MarkStopping, Runtime, LifecycleStates
<1>9. ThreadsHold'
    BY DEF IInv, TypeOK, ThreadsHold, IsAdopted, SleepServer, listenerVars, supervisorVars,
        threadVars, MarkStopping, Runtime, LifecycleStates
<1>10. NoOrphanJvm'
    BY DEF IInv, TypeOK, NoOrphanJvm, Live, Gens, SleepServer, listenerVars,
        supervisorVars, threadVars, MarkStopping, Runtime, LifecycleStates
<1>11. MissesCounted'
    BY DEF IInv, MissesCounted, Gens, OfflineStreak, ActivePcs, SleepServer, listenerVars,
        supervisorVars, threadVars
<1>12. QED BY <1>1, <1>2, <1>3, <1>4, <1>5, <1>6, <1>7, <1>8, <1>9, <1>10, <1>11 DEF IInv

\* ForceKill keeps the invariant.
LEMMA ForceKillInv ==
    ASSUME IInv, ForceKill PROVE IInv'
<1>1. TypeOK'
  <2>1. entry' \in Runtime
      BY MaxGenAssumption DEF IInv, TypeOK, ForceKill, listenerVars, supervisorVars,
          threadVars, MarkStopping, Killed, Live, Runtime, LifecycleStates, Gens
  <2>2. jvm' \in [Gens -> JvmStates]
      BY MaxGenAssumption DEF IInv, TypeOK, ForceKill, listenerVars, supervisorVars,
          threadVars, MarkStopping, Killed, Live, Runtime, LifecycleStates, JvmStates, Gens
  <2>3. QED BY <2>1, <2>2 DEF IInv, TypeOK, ForceKill, listenerVars, supervisorVars, threadVars
<1>2. Shape'
    BY DEF IInv, TypeOK, Shape, InMap, ForceKill, listenerVars, supervisorVars, threadVars,
        MarkStopping, Killed, Live, Absent, NewRuntime, Runtime, LifecycleStates
<1>3. Fresh'
    BY MaxGenAssumption DEF IInv, TypeOK, Fresh, Gens, ForceKill, listenerVars,
        supervisorVars, threadVars, MarkStopping, Killed, Live, Runtime, LifecycleStates
<1>4. StartsOwn'
    BY DEF IInv, TypeOK, StartsOwn, IsReservation, StartPcs, Gens, ForceKill, listenerVars,
        supervisorVars, threadVars, MarkStopping, Killed, Live, Runtime, LifecycleStates
<1>5. RunSupervised'
    BY DEF IInv, TypeOK, RunSupervised, IsAdopted, ActivePcs, ForceKill, listenerVars,
        supervisorVars, threadVars, MarkStopping, Killed, Live, Runtime, LifecycleStates
<1>6. SleepersParked'
    BY DEF IInv, TypeOK, SleepersParked, ForceKill, listenerVars, supervisorVars,
        threadVars, MarkStopping, Killed, Live, Runtime, LifecycleStates
<1>7. ListenersAsleep'
    BY DEF IInv, TypeOK, Shape, ListenersAsleep, InMap, Gens, ForceKill, listenerVars,
        supervisorVars, threadVars, MarkStopping, Killed, Live, Absent, NewRuntime,
        Runtime, LifecycleStates
<1>8. SnapshotsHold'
    BY DEF IInv, TypeOK, SnapshotsHold, Gens, ForceKill, listenerVars, supervisorVars,
        threadVars, MarkStopping, Killed, Live, Runtime, LifecycleStates
<1>9. ThreadsHold'
    BY DEF IInv, TypeOK, Shape, ThreadsHold, InMap, IsAdopted, ForceKill, listenerVars,
        supervisorVars, threadVars, MarkStopping, Killed, Live, Absent, NewRuntime,
        Runtime, LifecycleStates, Gens
<1>10. NoOrphanJvm'
    BY DEF IInv, TypeOK, NoOrphanJvm, Live, Gens, ForceKill, listenerVars, supervisorVars,
        threadVars, MarkStopping, Killed, Runtime, LifecycleStates
<1>11. MissesCounted'
    BY DEF IInv, MissesCounted, Gens, OfflineStreak, ActivePcs, ForceKill, listenerVars,
        supervisorVars, threadVars
<1>12. QED BY <1>1, <1>2, <1>3, <1>4, <1>5, <1>6, <1>7, <1>8, <1>9, <1>10, <1>11 DEF IInv

\* ExternalServer keeps the invariant.
LEMMA ExternalServerInv ==
    ASSUME IInv, ExternalServer PROVE IInv'
<1>1. TypeOK'
  <2>1. ext' \in BOOLEAN
      BY MaxGenAssumption DEF IInv, TypeOK, ExternalServer, listenerVars, supervisorVars,
          threadVars
  <2>2. QED BY <2>1 DEF IInv, TypeOK, ExternalServer, listenerVars, supervisorVars, threadVars
<1>2. Shape' /\ Fresh' /\ StartsOwn' /\ RunSupervised' /\ SleepersParked' /\ ListenersAsleep'
      /\ SnapshotsHold' /\ MissesCounted' /\ ThreadsHold' /\ NoOrphanJvm'
    BY DEF IInv, Shape, Fresh, StartsOwn, RunSupervised, SleepersParked, ListenersAsleep,
        SnapshotsHold, MissesCounted, ThreadsHold, NoOrphanJvm, InMap, Gens, IsReservation,
        StartPcs, IsAdopted, ActivePcs, OfflineStreak, Live, Absent, ExternalServer,
        listenerVars, supervisorVars, threadVars
<1>3. QED BY <1>1, <1>2 DEF IInv

\* SupervisorStops keeps the invariant.
LEMMA SupervisorStopsInv ==
    ASSUME NEW g \in Gens, IInv, SupervisorStops(g) PROVE IInv'
<1>1. TypeOK'
  <2>1. spc' \in [Gens -> SupervisorPcs]
      BY MaxGenAssumption DEF IInv, TypeOK, SupervisorStops, listenerVars, threadVars,
          SupervisorPcs, Gens
  <2>2. QED BY <2>1 DEF IInv, TypeOK, SupervisorStops, listenerVars, threadVars
<1>2. Fresh'
    BY MaxGenAssumption DEF IInv, TypeOK, Fresh, Gens, SupervisorStops, listenerVars,
        threadVars
<1>3. StartsOwn'
    BY DEF IInv, TypeOK, StartsOwn, IsReservation, StartPcs, Gens, SupervisorStops,
        listenerVars, threadVars
<1>4. RunSupervised'
    BY DEF IInv, TypeOK, RunSupervised, IsAdopted, ActivePcs, SupervisorStops,
        listenerVars, threadVars
<1>5. SleepersParked'
    BY DEF IInv, TypeOK, SleepersParked, SupervisorStops, listenerVars, threadVars
<1>6. SnapshotsHold'
    BY DEF IInv, TypeOK, SnapshotsHold, Gens, SupervisorStops, listenerVars, threadVars
<1>7. MissesCounted'
    BY DEF IInv, TypeOK, MissesCounted, Gens, OfflineStreak, ActivePcs, SupervisorStops,
        listenerVars, threadVars
<1>8. Shape' /\ ListenersAsleep' /\ ThreadsHold' /\ NoOrphanJvm'
    BY DEF IInv, Shape, ListenersAsleep, ThreadsHold, NoOrphanJvm, InMap, Gens, IsAdopted,
        Live, Absent, SupervisorStops, listenerVars, threadVars
<1>9. QED BY <1>1, <1>2, <1>3, <1>4, <1>5, <1>6, <1>7, <1>8 DEF IInv

\* ExitToSleep keeps the invariant.
LEMMA ExitToSleepInv ==
    ASSUME NEW g \in Gens, IInv, ExitToSleep(g) PROVE IInv'
<1>1. TypeOK'
  <2>1. entry' \in Runtime
      BY MaxGenAssumption DEF IInv, TypeOK, ExitToSleep, listenerVars, threadVars,
          ChildExited, Exited, Reaped, Runtime, LifecycleStates, Gens
  <2>2. jvm' \in [Gens -> JvmStates]
      BY MaxGenAssumption DEF IInv, TypeOK, ExitToSleep, listenerVars, threadVars,
          ChildExited, Exited, Reaped, Runtime, LifecycleStates, JvmStates, Gens
  <2>3. spc' \in [Gens -> SupervisorPcs]
      BY MaxGenAssumption DEF IInv, TypeOK, ExitToSleep, listenerVars, threadVars,
          ChildExited, Exited, Reaped, Runtime, LifecycleStates, SupervisorPcs, Gens
  <2>4. QED BY <2>1, <2>2, <2>3 DEF IInv, TypeOK, ExitToSleep, listenerVars, threadVars
<1>2. Shape'
    BY DEF IInv, TypeOK, Shape, InMap, ExitToSleep, listenerVars, threadVars, ChildExited,
        Exited, Reaped, Absent, NewRuntime, Runtime, LifecycleStates
<1>3. Fresh'
    BY MaxGenAssumption DEF IInv, TypeOK, Fresh, Gens, ExitToSleep, listenerVars,
        threadVars, ChildExited, Exited, Reaped, Runtime, LifecycleStates
<1>4. StartsOwn'
    BY DEF IInv, TypeOK, StartsOwn, IsReservation, StartPcs, Gens, ExitToSleep,
        listenerVars, threadVars, ChildExited, Exited, Reaped, Runtime, LifecycleStates
<1>5. RunSupervised'
    BY DEF IInv, TypeOK, Shape, RunSupervised, InMap, IsAdopted, ActivePcs, ExitToSleep,
        listenerVars, threadVars, ChildExited, Exited, Reaped, Absent, NewRuntime, Runtime,
        LifecycleStates, Gens
<1>6. SleepersParked'
    BY DEF IInv, TypeOK, SleepersParked, ExitToSleep, listenerVars, threadVars,
        ChildExited, Exited, Reaped, Runtime, LifecycleStates
<1>7. ListenersAsleep'
    BY DEF IInv, TypeOK, ListenersAsleep, Gens, ExitToSleep, listenerVars, threadVars,
        ChildExited, Exited, Reaped, Runtime, LifecycleStates
<1>8. SnapshotsHold'
    BY DEF IInv, TypeOK, SnapshotsHold, Gens, ExitToSleep, listenerVars, threadVars,
        ChildExited, Exited, Reaped, Runtime, LifecycleStates
<1>9. MissesCounted'
    BY DEF IInv, TypeOK, MissesCounted, Gens, OfflineStreak, ActivePcs, ExitToSleep,
        listenerVars, threadVars, ChildExited, Exited, Reaped, Runtime, LifecycleStates
<1>10. ThreadsHold'
    BY DEF IInv, TypeOK, ThreadsHold, IsAdopted, ExitToSleep, listenerVars, threadVars,
        ChildExited, Exited, Reaped, Runtime, LifecycleStates
<1>11. NoOrphanJvm'
    BY DEF IInv, TypeOK, NoOrphanJvm, Live, Gens, ExitToSleep, listenerVars, threadVars,
        ChildExited, Exited, Reaped, Runtime, LifecycleStates
<1>12. QED BY <1>1, <1>2, <1>3, <1>4, <1>5, <1>6, <1>7, <1>8, <1>9, <1>10, <1>11 DEF IInv

\* ExitTerminal keeps the invariant.
LEMMA ExitTerminalInv ==
    ASSUME NEW g \in Gens, IInv, ExitTerminal(g) PROVE IInv'
<1>1. TypeOK'
  <2>1. entry' \in Runtime
      BY MaxGenAssumption, FlagsAssumption DEF IInv, TypeOK, ExitTerminal, listenerVars,
          threadVars, ChildExited, Exited, Reaped, Absent, NewRuntime, Runtime,
          LifecycleStates, Gens
  <2>2. jvm' \in [Gens -> JvmStates]
      BY MaxGenAssumption DEF IInv, TypeOK, ExitTerminal, listenerVars, threadVars,
          ChildExited, Exited, Reaped, Absent, NewRuntime, Runtime, LifecycleStates,
          JvmStates, Gens
  <2>3. spc' \in [Gens -> SupervisorPcs]
      BY MaxGenAssumption DEF IInv, TypeOK, ExitTerminal, listenerVars, threadVars,
          ChildExited, Exited, Reaped, Absent, NewRuntime, Runtime, LifecycleStates,
          SupervisorPcs, Gens
  <2>4. outcome' \in [Gens -> Outcomes]
      BY MaxGenAssumption, FlagsAssumption DEF IInv, TypeOK, ExitTerminal, listenerVars,
          threadVars, ChildExited, Exited, Reaped, Absent, NewRuntime, Runtime,
          LifecycleStates, Outcomes, NoOutcome, Gens
  <2>5. QED BY <2>1, <2>2, <2>3, <2>4 DEF IInv, TypeOK, ExitTerminal, listenerVars, threadVars
<1>2. Shape'
    BY DEF IInv, TypeOK, Shape, InMap, ExitTerminal, listenerVars, threadVars, ChildExited,
        Exited, Reaped, Absent, NewRuntime, Runtime, LifecycleStates
<1>3. Fresh'
    BY MaxGenAssumption DEF IInv, TypeOK, Fresh, Gens, ExitTerminal, listenerVars,
        threadVars, ChildExited, Exited, Reaped, Absent, NewRuntime, Runtime,
        LifecycleStates
<1>4. StartsOwn'
    BY DEF IInv, TypeOK, StartsOwn, IsReservation, StartPcs, Gens, ExitTerminal,
        listenerVars, threadVars, ChildExited, Exited, Reaped, Absent, NewRuntime, Runtime,
        LifecycleStates
<1>5. RunSupervised'
    BY DEF IInv, TypeOK, RunSupervised, IsAdopted, ActivePcs, ExitTerminal, listenerVars,
        threadVars, ChildExited, Exited, Reaped, Absent, NewRuntime, Runtime,
        LifecycleStates
<1>6. SleepersParked'
    BY DEF IInv, TypeOK, SleepersParked, ExitTerminal, listenerVars, threadVars,
        ChildExited, Exited, Reaped, Absent, NewRuntime, Runtime, LifecycleStates
<1>7. ListenersAsleep'
    BY DEF IInv, TypeOK, ListenersAsleep, Gens, ExitTerminal, listenerVars, threadVars,
        ChildExited, Exited, Reaped, Absent, NewRuntime, Runtime, LifecycleStates
<1>8. SnapshotsHold'
    BY DEF IInv, TypeOK, SnapshotsHold, Gens, ExitTerminal, listenerVars, threadVars,
        ChildExited, Exited, Reaped, Absent, NewRuntime, Runtime, LifecycleStates
<1>9. MissesCounted'
    BY DEF IInv, TypeOK, MissesCounted, Gens, OfflineStreak, ActivePcs, ExitTerminal,
        listenerVars, threadVars, ChildExited, Exited, Reaped, Absent, NewRuntime, Runtime,
        LifecycleStates
<1>10. ThreadsHold'
    BY DEF IInv, TypeOK, ThreadsHold, IsAdopted, ExitTerminal, listenerVars, threadVars,
        ChildExited, Exited, Reaped, Absent, NewRuntime, Runtime, LifecycleStates
<1>11. NoOrphanJvm'
    BY DEF IInv, TypeOK, NoOrphanJvm, Live, Gens, ExitTerminal, listenerVars, threadVars,
        ChildExited, Exited, Reaped, Absent, NewRuntime, Runtime, LifecycleStates
<1>12. QED BY <1>1, <1>2, <1>3, <1>4, <1>5, <1>6, <1>7, <1>8, <1>9, <1>10, <1>11 DEF IInv

\* Snapshot keeps the invariant.
LEMMA SnapshotInv ==
    ASSUME NEW g \in Gens, IInv, Snapshot(g) PROVE IInv'
<1>1. TypeOK'
  <2>1. spc' \in [Gens -> SupervisorPcs]
      BY MaxGenAssumption DEF IInv, TypeOK, Snapshot, listenerVars, threadVars,
          ChildExited, TakeSnapshot, SupervisorPcs, Gens
  <2>2. snap' \in [Gens -> Snapshots]
      BY MaxGenAssumption DEF IInv, TypeOK, Snapshot, listenerVars, threadVars,
          ChildExited, TakeSnapshot, Snapshots, NoSnapshot, LifecycleStates, Runtime, Gens
  <2>3. QED BY <2>1, <2>2 DEF IInv, TypeOK, Snapshot, listenerVars, threadVars, TakeSnapshot
<1>2. Fresh'
    BY MaxGenAssumption DEF IInv, TypeOK, Fresh, Gens, Snapshot, listenerVars, threadVars,
        ChildExited, TakeSnapshot
<1>3. StartsOwn'
    BY DEF IInv, TypeOK, StartsOwn, IsReservation, StartPcs, Gens, Snapshot, listenerVars,
        threadVars, ChildExited, TakeSnapshot
<1>4. RunSupervised'
    BY DEF IInv, TypeOK, RunSupervised, IsAdopted, ActivePcs, Snapshot, listenerVars,
        threadVars, ChildExited, TakeSnapshot
<1>5. SleepersParked'
    BY DEF IInv, TypeOK, SleepersParked, Snapshot, listenerVars, threadVars, ChildExited,
        TakeSnapshot
<1>6. SnapshotsHold'
    BY DEF IInv, TypeOK, SnapshotsHold, Gens, Snapshot, listenerVars, threadVars,
        ChildExited, TakeSnapshot
<1>7. MissesCounted'
    BY DEF IInv, TypeOK, MissesCounted, Gens, OfflineStreak, ActivePcs, Snapshot,
        listenerVars, threadVars, ChildExited, TakeSnapshot
<1>8. Shape' /\ ListenersAsleep' /\ ThreadsHold' /\ NoOrphanJvm'
    BY DEF IInv, Shape, ListenersAsleep, ThreadsHold, NoOrphanJvm, InMap, Gens, IsAdopted,
        Live, Absent, Snapshot, listenerVars, threadVars, TakeSnapshot
<1>9. QED BY <1>1, <1>2, <1>3, <1>4, <1>5, <1>6, <1>7, <1>8 DEF IInv

\* Escalate keeps the invariant.
LEMMA EscalateInv ==
    ASSUME NEW g \in Gens, IInv, Escalate(g) PROVE IInv'
<1>1. TypeOK'
  <2>1. entry' \in Runtime
      BY MaxGenAssumption DEF IInv, TypeOK, Escalate, listenerVars, threadVars,
          TakeSnapshot, Killed, Live, Runtime, LifecycleStates, Gens
  <2>2. jvm' \in [Gens -> JvmStates]
      BY MaxGenAssumption DEF IInv, TypeOK, Escalate, listenerVars, threadVars,
          TakeSnapshot, Killed, Live, Runtime, LifecycleStates, JvmStates, Gens
  <2>3. spc' \in [Gens -> SupervisorPcs]
      BY MaxGenAssumption DEF IInv, TypeOK, Escalate, listenerVars, threadVars,
          TakeSnapshot, Killed, Live, Runtime, LifecycleStates, SupervisorPcs, Gens
  <2>4. snap' \in [Gens -> Snapshots]
      BY MaxGenAssumption DEF IInv, TypeOK, Escalate, listenerVars, threadVars,
          TakeSnapshot, Killed, Live, Runtime, LifecycleStates, Snapshots, NoSnapshot, Gens
  <2>5. QED BY <2>1, <2>2, <2>3, <2>4 DEF IInv, TypeOK, Escalate, listenerVars, threadVars,
        TakeSnapshot
<1>2. Shape'
    BY DEF IInv, TypeOK, Shape, InMap, Escalate, listenerVars, threadVars, TakeSnapshot,
        Killed, Live, Absent, NewRuntime, Runtime, LifecycleStates
<1>3. Fresh'
    BY MaxGenAssumption DEF IInv, TypeOK, Fresh, Gens, Escalate, listenerVars, threadVars,
        TakeSnapshot, Killed, Live, Runtime, LifecycleStates
<1>4. StartsOwn'
    BY DEF IInv, TypeOK, StartsOwn, IsReservation, StartPcs, Gens, Escalate, listenerVars,
        threadVars, TakeSnapshot, Killed, Live, Runtime, LifecycleStates
<1>5. RunSupervised'
    BY DEF IInv, TypeOK, RunSupervised, IsAdopted, ActivePcs, Escalate, listenerVars,
        threadVars, TakeSnapshot, Killed, Live, Runtime, LifecycleStates
<1>6. SleepersParked'
    BY DEF IInv, TypeOK, SleepersParked, Escalate, listenerVars, threadVars, TakeSnapshot,
        Killed, Live, Runtime, LifecycleStates
<1>7. ListenersAsleep'
    BY DEF IInv, TypeOK, ListenersAsleep, Gens, Escalate, listenerVars, threadVars,
        TakeSnapshot, Killed, Live, Runtime, LifecycleStates
<1>8. SnapshotsHold'
    BY DEF IInv, TypeOK, SnapshotsHold, Gens, Escalate, listenerVars, threadVars,
        TakeSnapshot, Killed, Live, Runtime, LifecycleStates
<1>9. MissesCounted'
    BY DEF IInv, TypeOK, MissesCounted, Gens, OfflineStreak, ActivePcs, Escalate,
        listenerVars, threadVars, TakeSnapshot, Killed, Live, Runtime, LifecycleStates
<1>10. ThreadsHold'
    BY DEF IInv, TypeOK, ThreadsHold, IsAdopted, Escalate, listenerVars, threadVars,
        TakeSnapshot, Killed, Live, Runtime, LifecycleStates
<1>11. NoOrphanJvm'
    BY DEF IInv, TypeOK, NoOrphanJvm, Live, Gens, Escalate, listenerVars, threadVars,
        TakeSnapshot, Killed, Runtime, LifecycleStates
<1>12. QED BY <1>1, <1>2, <1>3, <1>4, <1>5, <1>6, <1>7, <1>8, <1>9, <1>10, <1>11 DEF IInv

\* Probe keeps the invariant.
LEMMA ProbeInv ==
    ASSUME NEW g \in Gens, IInv, Probe(g) PROVE IInv'
<1>1. TypeOK'
  <2>1. spc' \in [Gens -> SupervisorPcs]
      BY MaxGenAssumption DEF IInv, TypeOK, Probe, listenerVars, threadVars, SupervisorPcs,
          Gens
  <2>2. acc' \in [Gens -> BOOLEAN]
      BY MaxGenAssumption DEF IInv, TypeOK, Probe, listenerVars, threadVars, Gens
  <2>3. QED BY <2>1, <2>2 DEF IInv, TypeOK, Probe, listenerVars, threadVars
<1>2. Fresh'
    BY MaxGenAssumption DEF IInv, TypeOK, Fresh, Gens, Probe, listenerVars, threadVars
<1>3. StartsOwn'
    BY DEF IInv, TypeOK, StartsOwn, IsReservation, StartPcs, Gens, Probe, listenerVars,
        threadVars
<1>4. RunSupervised'
    BY DEF IInv, TypeOK, RunSupervised, IsAdopted, ActivePcs, Probe, listenerVars,
        threadVars
<1>5. SleepersParked'
    BY DEF IInv, TypeOK, SleepersParked, Probe, listenerVars, threadVars
<1>6. SnapshotsHold'
    BY DEF IInv, TypeOK, SnapshotsHold, Gens, Probe, listenerVars, threadVars
<1>7. MissesCounted'
    BY DEF IInv, TypeOK, MissesCounted, Gens, OfflineStreak, ActivePcs, Probe,
        listenerVars, threadVars
<1>8. Shape' /\ ListenersAsleep' /\ ThreadsHold' /\ NoOrphanJvm'
    BY DEF IInv, Shape, ListenersAsleep, ThreadsHold, NoOrphanJvm, InMap, Gens, IsAdopted,
        Live, Absent, Probe, listenerVars, threadVars
<1>9. QED BY <1>1, <1>2, <1>3, <1>4, <1>5, <1>6, <1>7, <1>8 DEF IInv

\* Write keeps the invariant.
LEMMA WriteInv ==
    ASSUME NEW g \in Gens, IInv, Write(g) PROVE IInv'
<1> DEFINE n == NextState(snap[g], acc[g], miss[g])
           keep == entry.gen = g /\ ~n.off
<1>1. /\ n.state \in LifecycleStates
      /\ n.miss \in 0..OfflineStreak
      /\ ~n.off => n.miss < OfflineStreak
      /\ snap[g].child => ~n.off /\ n.state \in {snap[g].state, "online"}
      /\ snap[g].child /\ n.state # snap[g].state => snap[g].state = "starting"
      /\ ~n.off /\ ~snap[g].child => n.state \in {snap[g].state, "running-external"}
      /\ snap[g].state = "stopping" /\ ~n.off => n.state = "stopping"
    <2>1. snap[g] \in Snapshots /\ acc[g] \in BOOLEAN /\ miss[g] \in 0..OfflineStreak
        BY DEF IInv, TypeOK
    <2>2. miss[g] < OfflineStreak BY DEF IInv, MissesCounted, ActivePcs, Write
    <2>3. QED BY <2>1, <2>2, NextStateFacts
<1>2. \E sleepNow \in BOOLEAN :
         entry' = IF entry.gen # g THEN entry
                  ELSE IF n.off THEN Absent ELSE WriteBack(g, n.state, sleepNow)
    BY FlagsAssumption DEF Write
<1>3. /\ spc[g] = "write"
      /\ miss' = [miss EXCEPT ![g] = n.miss]
      /\ snap' = [snap EXCEPT ![g] = NoSnapshot]
      /\ acc' = [acc EXCEPT ![g] = FALSE]
      /\ spc' = [spc EXCEPT ![g] = IF keep THEN "poll" ELSE "done"]
      /\ UNCHANGED <<lastGen, jvm, outcome, lst, flag, pc, tgen, from, dir, ext>>
    BY DEF Write, listenerVars, threadVars
<1> HIDE DEF n
<1>4. entry.gen = g =>
         /\ entry.state # "sleeping"
         /\ entry.child \/ IsAdopted(entry)
         /\ snap[g].child = entry.child
    BY <1>3 DEF IInv, TypeOK, Runtime, Gens, Shape, InMap, StartsOwn, SleepersParked,
        SnapshotsHold, IsAdopted, IsReservation
<1>5. ASSUME keep
      PROVE  /\ entry' \in Runtime
             /\ entry'.gen = entry.gen /\ entry'.child = entry.child
             /\ entry'.java = entry.java
             /\ entry'.state # "sleeping"
             /\ entry.child => entry'.state \in {"starting", "online", "stopping"}
             /\ ~entry.child => entry'.state \in {"running-external", "stopping"}
             /\ entry'.stopRequested => entry'.state = "stopping"
    <2>1. PICK sleepNow \in BOOLEAN : entry' = WriteBack(g, n.state, sleepNow)
        BY <1>2, <1>5
    <2>2. entry \in Runtime /\ Shape /\ InMap BY <1>5 DEF IInv, TypeOK, InMap, Gens
    <2> DEFINE latched == [entry EXCEPT !.everOnline = @ \/ n.state = "online"]
    <2>3. CASE entry.state # snap[g].state
        <3>1. entry' = latched BY <2>1, <2>3 DEF WriteBack
        <3>2. QED BY <3>1, <2>2, <1>4, <1>5 DEF Shape, IsAdopted, Runtime, LifecycleStates
    <2>4. CASE /\ entry.state = snap[g].state
               /\ sleepNow /\ entry.state = "online" /\ ~entry.stopRequested
        <3>1. entry' = [latched EXCEPT !.sleepRequested = TRUE, !.stopRequested = TRUE,
                                       !.state = "stopping"]
            BY <2>1, <2>4 DEF WriteBack
        <3>2. QED BY <3>1, <2>2, <1>4, <1>5 DEF Shape, IsAdopted, Runtime, LifecycleStates
    <2>5. CASE /\ entry.state = snap[g].state
               /\ ~(sleepNow /\ entry.state = "online" /\ ~entry.stopRequested)
        <3>1. entry' = [latched EXCEPT !.state = n.state] BY <2>1, <2>5 DEF WriteBack
        <3>2. QED BY <3>1, <2>2, <2>5, <1>1, <1>4, <1>5
                DEF Shape, IsAdopted, Runtime, LifecycleStates
    <2>6. QED BY <2>3, <2>4, <2>5
<1>6. ~keep => entry' = IF entry.gen = g THEN Absent ELSE entry
    BY <1>2
<1>7. TypeOK'
    <2>1. entry' \in Runtime BY <1>5, <1>6, AbsentType DEF IInv, TypeOK
    <2>2. miss' \in [Gens -> 0..OfflineStreak] BY <1>1, <1>3 DEF IInv, TypeOK
    <2>3. snap' \in [Gens -> Snapshots]
        BY <1>3 DEF IInv, TypeOK, Snapshots, NoSnapshot, LifecycleStates
    <2>4. acc' \in [Gens -> BOOLEAN] BY <1>3 DEF IInv, TypeOK
    <2>5. spc' \in [Gens -> SupervisorPcs] BY <1>3 DEF IInv, TypeOK, SupervisorPcs
    <2>6. QED BY <1>3, <2>1, <2>2, <2>3, <2>4, <2>5 DEF IInv, TypeOK
<1>8. Shape'
    <2>1. CASE keep BY <2>1, <1>4, <1>5 DEF IInv, Shape, InMap, IsAdopted, Runtime, Gens
    <2>2. CASE ~keep BY <2>2, <1>6 DEF IInv, Shape, InMap, Absent, NewRuntime
    <2>3. QED BY <2>1, <2>2
<1>9. Fresh'
    BY <1>3, <1>5, <1>6, MaxGenAssumption
    DEF IInv, TypeOK, Fresh, Gens, Absent, NewRuntime
<1>10. StartsOwn'
    <2>1. CASE entry.gen = g
        <3>1. ~IsReservation(entry) BY <2>1, <1>4 DEF IsReservation, IsAdopted
        <3>2. \A t \in Threads : pc[t] \notin StartPcs BY <3>1 DEF IInv, StartsOwn
        <3>3. ~IsReservation(entry')
            BY <1>4, <1>5, <1>6, <2>1
            DEF IsReservation, IsAdopted, Absent, NewRuntime
        <3>4. QED BY <1>3, <3>2, <3>3 DEF StartsOwn, StartPcs
    <2>2. CASE entry.gen # g
        BY <2>2, <1>3, <1>6 DEF IInv, TypeOK, StartsOwn, StartPcs, IsReservation, Gens
    <2>3. QED BY <2>1, <2>2
<1>11. RunSupervised'
    BY <1>3, <1>5, <1>6
    DEF IInv, TypeOK, RunSupervised, IsAdopted, ActivePcs, Absent, NewRuntime, Gens
<1>12. SleepersParked'
    BY <1>3, <1>5, <1>6 DEF IInv, TypeOK, SleepersParked, Absent, NewRuntime, Gens
<1>13. ListenersAsleep'
    BY <1>3, <1>4, <1>5, <1>6 DEF IInv, ListenersAsleep, Absent, NewRuntime, Gens
<1>14. SnapshotsHold'
    BY <1>3, <1>5, <1>6 DEF IInv, TypeOK, SnapshotsHold, Absent, NewRuntime, Gens
<1>15. MissesCounted'
    BY <1>1, <1>3 DEF IInv, TypeOK, MissesCounted, ActivePcs
<1>16. ThreadsHold'
    BY <1>3, <1>4, <1>5, <1>6
    DEF IInv, TypeOK, ThreadsHold, IsAdopted, Absent, NewRuntime, Gens
<1>17. NoOrphanJvm'
    <2>1. CASE keep BY <2>1, <1>3, <1>5 DEF IInv, NoOrphanJvm, Live
    <2>2. CASE entry.gen # g BY <2>2, <1>3, <1>6 DEF IInv, NoOrphanJvm, Live
    <2>3. CASE entry.gen = g /\ n.off
        <3>1. ~entry.child BY <2>3, <1>1, <1>4
        <3>2. QED BY <2>3, <3>1, <1>3, <1>6 DEF IInv, NoOrphanJvm, Live
    <2>4. QED BY <2>1, <2>2, <2>3
<1>18. QED BY <1>7, <1>8, <1>9, <1>10, <1>11, <1>12, <1>13, <1>14, <1>15, <1>16, <1>17 DEF IInv

\* FinishExit keeps the invariant.
LEMMA FinishExitInv ==
    ASSUME NEW g \in Gens, IInv, FinishExit(g) PROVE IInv'
<1>1. TypeOK'
  <2>1. spc' \in [Gens -> SupervisorPcs]
      BY MaxGenAssumption DEF IInv, TypeOK, FinishExit, listenerVars, Goto, NoOutcome,
          SupervisorPcs, Gens
  <2>2. outcome' \in [Gens -> Outcomes]
      BY MaxGenAssumption DEF IInv, TypeOK, FinishExit, listenerVars, Goto, NoOutcome,
          Outcomes, Runtime, Gens
  <2>3. pc' \in [Threads -> ThreadPcs]
      BY MaxGenAssumption DEF IInv, TypeOK, FinishExit, listenerVars, Goto, NoOutcome,
          ThreadPcs
  <2>4. QED BY <2>1, <2>2, <2>3 DEF IInv, TypeOK, FinishExit, listenerVars
<1>2. Fresh'
    BY MaxGenAssumption DEF IInv, TypeOK, Fresh, Gens, FinishExit, listenerVars, Goto,
        NoOutcome
<1>3. StartsOwn'
    BY DEF IInv, TypeOK, StartsOwn, IsReservation, StartPcs, Gens, FinishExit,
        listenerVars, Goto, NoOutcome
<1>4. RunSupervised'
    BY DEF IInv, TypeOK, RunSupervised, IsAdopted, ActivePcs, FinishExit, listenerVars,
        Goto, NoOutcome
<1>5. SleepersParked'
    BY DEF IInv, TypeOK, SleepersParked, FinishExit, listenerVars, Goto, NoOutcome
<1>6. SnapshotsHold'
    BY DEF IInv, TypeOK, SnapshotsHold, Gens, FinishExit, listenerVars, Goto, NoOutcome
<1>7. MissesCounted'
    BY DEF IInv, TypeOK, MissesCounted, Gens, OfflineStreak, ActivePcs, FinishExit,
        listenerVars, Goto, NoOutcome
<1>8. ThreadsHold'
    BY DEF IInv, TypeOK, ThreadsHold, IsAdopted, FinishExit, listenerVars, Goto, NoOutcome
<1>9. NoOrphanJvm'
    BY DEF IInv, TypeOK, NoOrphanJvm, Live, Gens, FinishExit, listenerVars, Goto, NoOutcome
<1>10. Shape' /\ ListenersAsleep'
    BY DEF IInv, Shape, ListenersAsleep, InMap, Gens, Absent, FinishExit, listenerVars
<1>11. QED BY <1>1, <1>2, <1>3, <1>4, <1>5, <1>6, <1>7, <1>8, <1>9, <1>10 DEF IInv

\* BindListener keeps the invariant.
LEMMA BindListenerInv ==
    ASSUME NEW g \in Gens, IInv, BindListener(g) PROVE IInv'
<1>1. TypeOK'
  <2>1. spc' \in [Gens -> SupervisorPcs]
      BY MaxGenAssumption DEF IInv, TypeOK, BindListener, threadVars, SupervisorPcs, Gens
  <2>2. lst' \in [Gens -> ListenerPcs]
      BY MaxGenAssumption DEF IInv, TypeOK, BindListener, threadVars, ListenerPcs, Gens
  <2>3. QED BY <2>1, <2>2 DEF IInv, TypeOK, BindListener, threadVars
<1>2. Fresh'
    BY MaxGenAssumption DEF IInv, TypeOK, Fresh, Gens, BindListener, threadVars
<1>3. StartsOwn'
    BY DEF IInv, TypeOK, StartsOwn, IsReservation, StartPcs, Gens, BindListener, threadVars
<1>4. RunSupervised'
    BY DEF IInv, TypeOK, RunSupervised, IsAdopted, ActivePcs, BindListener, threadVars
<1>5. SleepersParked'
    BY DEF IInv, TypeOK, SleepersParked, BindListener, threadVars
<1>6. ListenersAsleep'
    BY MaxGenAssumption DEF IInv, TypeOK, Shape, Fresh, StartsOwn, RunSupervised,
        SleepersParked, ListenersAsleep, SnapshotsHold, MissesCounted, ThreadsHold,
        NoOrphanJvm, InMap, Gens, IsReservation, StartPcs, IsAdopted, ActivePcs,
        OfflineStreak, Live, BindListener, threadVars, Absent, NewRuntime, Runtime,
        LifecycleStates, Exited, JvmStates, Outcomes, Snapshots
<1>7. SnapshotsHold'
    BY DEF IInv, TypeOK, SnapshotsHold, Gens, BindListener, threadVars
<1>8. MissesCounted'
    BY DEF IInv, TypeOK, MissesCounted, Gens, OfflineStreak, ActivePcs, BindListener,
        threadVars
<1>9. Shape' /\ ThreadsHold' /\ NoOrphanJvm'
    BY DEF IInv, Shape, ThreadsHold, NoOrphanJvm, InMap, IsAdopted, Live, Gens, Absent,
        BindListener, threadVars
<1>10. QED BY <1>1, <1>2, <1>3, <1>4, <1>5, <1>6, <1>7, <1>8, <1>9 DEF IInv

\* BindFails keeps the invariant.
LEMMA BindFailsInv ==
    ASSUME NEW g \in Gens, IInv, BindFails(g) PROVE IInv'
<1>1. CASE entry.gen = g
  <2>1. TypeOK'
    <3>1. entry' \in Runtime
        BY <1>1, MaxGenAssumption DEF IInv, TypeOK, BindFails, listenerVars, threadVars,
            RemoveIfCurrent, Absent, NewRuntime, Runtime, LifecycleStates, Gens
    <3>2. spc' \in [Gens -> SupervisorPcs]
        BY <1>1, MaxGenAssumption DEF IInv, TypeOK, BindFails, listenerVars, threadVars,
            RemoveIfCurrent, Absent, NewRuntime, Runtime, LifecycleStates, SupervisorPcs,
            Gens
    <3>3. QED BY <3>1, <3>2 DEF IInv, TypeOK, BindFails, listenerVars, threadVars
  <2>2. Shape'
      BY <1>1 DEF IInv, TypeOK, Shape, InMap, BindFails, listenerVars, threadVars,
          RemoveIfCurrent, Absent, NewRuntime, Runtime, LifecycleStates
  <2>3. Fresh'
      BY <1>1, MaxGenAssumption DEF IInv, TypeOK, Fresh, Gens, BindFails, listenerVars,
          threadVars, RemoveIfCurrent, Absent, NewRuntime, Runtime, LifecycleStates
  <2>4. StartsOwn'
      BY <1>1 DEF IInv, TypeOK, StartsOwn, IsReservation, StartPcs, Gens, BindFails,
          listenerVars, threadVars, RemoveIfCurrent, Absent, NewRuntime, Runtime,
          LifecycleStates
  <2>5. RunSupervised'
      BY <1>1 DEF IInv, TypeOK, RunSupervised, IsAdopted, ActivePcs, BindFails,
          listenerVars, threadVars, RemoveIfCurrent, Absent, NewRuntime, Runtime,
          LifecycleStates
  <2>6. SleepersParked'
      BY <1>1 DEF IInv, TypeOK, SleepersParked, BindFails, listenerVars, threadVars,
          RemoveIfCurrent, Absent, NewRuntime, Runtime, LifecycleStates
  <2>7. ListenersAsleep'
      BY <1>1 DEF IInv, TypeOK, ListenersAsleep, Gens, BindFails, listenerVars, threadVars,
          RemoveIfCurrent, Absent, NewRuntime, Runtime, LifecycleStates
  <2>8. SnapshotsHold'
      BY <1>1 DEF IInv, TypeOK, SnapshotsHold, Gens, BindFails, listenerVars, threadVars,
          RemoveIfCurrent, Absent, NewRuntime, Runtime, LifecycleStates
  <2>9. MissesCounted'
      BY <1>1 DEF IInv, TypeOK, MissesCounted, Gens, OfflineStreak, ActivePcs, BindFails,
          listenerVars, threadVars, RemoveIfCurrent, Absent, NewRuntime, Runtime,
          LifecycleStates
  <2>10. ThreadsHold'
      BY <1>1 DEF IInv, TypeOK, ThreadsHold, IsAdopted, BindFails, listenerVars,
          threadVars, RemoveIfCurrent, Absent, NewRuntime, Runtime, LifecycleStates
  <2>11. NoOrphanJvm'
      BY <1>1, MaxGenAssumption DEF IInv, TypeOK, Shape, Fresh, StartsOwn, RunSupervised,
          SleepersParked, ListenersAsleep, SnapshotsHold, MissesCounted, ThreadsHold,
          NoOrphanJvm, InMap, Gens, IsReservation, StartPcs, IsAdopted, ActivePcs,
          OfflineStreak, Live, BindFails, listenerVars, threadVars, RemoveIfCurrent,
          Absent, NewRuntime, Runtime, LifecycleStates, Exited, JvmStates, Outcomes,
          Snapshots
  <2>12. QED BY <2>1, <2>2, <2>3, <2>4, <2>5, <2>6, <2>7, <2>8, <2>9, <2>10, <2>11 DEF IInv
<1>2. CASE entry.gen # g
  <2>1. TypeOK'
    <3>1. entry' \in Runtime
        BY <1>2, MaxGenAssumption DEF IInv, TypeOK, BindFails, listenerVars, threadVars,
            RemoveIfCurrent, Absent, NewRuntime, Runtime, LifecycleStates, Gens
    <3>2. spc' \in [Gens -> SupervisorPcs]
        BY <1>2, MaxGenAssumption DEF IInv, TypeOK, BindFails, listenerVars, threadVars,
            RemoveIfCurrent, Absent, NewRuntime, Runtime, LifecycleStates, SupervisorPcs,
            Gens
    <3>3. QED BY <3>1, <3>2 DEF IInv, TypeOK, BindFails, listenerVars, threadVars
  <2>2. Shape'
      BY <1>2 DEF IInv, TypeOK, Shape, InMap, BindFails, listenerVars, threadVars,
          RemoveIfCurrent, Absent, NewRuntime, Runtime, LifecycleStates
  <2>3. Fresh'
      BY <1>2, MaxGenAssumption DEF IInv, TypeOK, Fresh, Gens, BindFails, listenerVars,
          threadVars, RemoveIfCurrent, Absent, NewRuntime, Runtime, LifecycleStates
  <2>4. StartsOwn'
      BY <1>2 DEF IInv, TypeOK, StartsOwn, IsReservation, StartPcs, Gens, BindFails,
          listenerVars, threadVars, RemoveIfCurrent, Absent, NewRuntime, Runtime,
          LifecycleStates
  <2>5. RunSupervised'
      BY <1>2 DEF IInv, TypeOK, RunSupervised, IsAdopted, ActivePcs, BindFails,
          listenerVars, threadVars, RemoveIfCurrent, Absent, NewRuntime, Runtime,
          LifecycleStates
  <2>6. SleepersParked'
      BY <1>2 DEF IInv, TypeOK, SleepersParked, BindFails, listenerVars, threadVars,
          RemoveIfCurrent, Absent, NewRuntime, Runtime, LifecycleStates
  <2>7. ListenersAsleep'
      BY <1>2 DEF IInv, TypeOK, ListenersAsleep, Gens, BindFails, listenerVars, threadVars,
          RemoveIfCurrent, Absent, NewRuntime, Runtime, LifecycleStates
  <2>8. SnapshotsHold'
      BY <1>2 DEF IInv, TypeOK, SnapshotsHold, Gens, BindFails, listenerVars, threadVars,
          RemoveIfCurrent, Absent, NewRuntime, Runtime, LifecycleStates
  <2>9. MissesCounted'
      BY <1>2 DEF IInv, TypeOK, MissesCounted, Gens, OfflineStreak, ActivePcs, BindFails,
          listenerVars, threadVars, RemoveIfCurrent, Absent, NewRuntime, Runtime,
          LifecycleStates
  <2>10. ThreadsHold'
      BY <1>2 DEF IInv, TypeOK, ThreadsHold, IsAdopted, BindFails, listenerVars,
          threadVars, RemoveIfCurrent, Absent, NewRuntime, Runtime, LifecycleStates
  <2>11. NoOrphanJvm'
      BY <1>2 DEF IInv, TypeOK, NoOrphanJvm, Live, Gens, BindFails, listenerVars,
          threadVars, RemoveIfCurrent, Absent, NewRuntime, Runtime, LifecycleStates
  <2>12. QED BY <2>1, <2>2, <2>3, <2>4, <2>5, <2>6, <2>7, <2>8, <2>9, <2>10, <2>11 DEF IInv
<1>3. QED BY <1>1, <1>2

\* AttachListener keeps the invariant.
LEMMA AttachListenerInv ==
    ASSUME NEW g \in Gens, IInv, AttachListener(g) PROVE IInv'
<1>1. CASE entry.gen = g
  <2>1. TypeOK'
    <3>1. entry' \in Runtime
        BY <1>1, MaxGenAssumption DEF IInv, TypeOK, AttachListener, threadVars, Runtime,
            LifecycleStates, Gens
    <3>2. spc' \in [Gens -> SupervisorPcs]
        BY <1>1, MaxGenAssumption DEF IInv, TypeOK, AttachListener, threadVars, Runtime,
            LifecycleStates, SupervisorPcs, Gens
    <3>3. flag' \in [Gens -> BOOLEAN]
        BY <1>1, MaxGenAssumption DEF IInv, TypeOK, AttachListener, threadVars, Runtime,
            LifecycleStates, Gens
    <3>4. QED BY <3>1, <3>2, <3>3 DEF IInv, TypeOK, AttachListener, threadVars
  <2>2. Shape'
      <3>1. entry' = [entry EXCEPT !.listener = TRUE] BY <1>1 DEF AttachListener
      <3>2. entry'.gen # 0 BY <3>1, <1>1 DEF IInv, TypeOK, Runtime, Gens
      <3>3. QED BY <3>1, <3>2, <1>1 DEF IInv, TypeOK, Shape, Runtime, InMap, Gens
  <2>3. Fresh'
      BY <1>1, MaxGenAssumption DEF IInv, TypeOK, Fresh, Gens, AttachListener, threadVars,
          Runtime, LifecycleStates
  <2>4. StartsOwn'
      BY <1>1 DEF IInv, TypeOK, StartsOwn, IsReservation, StartPcs, Gens, AttachListener,
          threadVars, Runtime, LifecycleStates
  <2>5. RunSupervised'
      BY <1>1 DEF IInv, TypeOK, RunSupervised, IsAdopted, ActivePcs, AttachListener,
          threadVars, Runtime, LifecycleStates
  <2>6. SleepersParked'
      BY <1>1 DEF IInv, TypeOK, SleepersParked, AttachListener, threadVars, Runtime,
          LifecycleStates
  <2>7. ListenersAsleep'
      BY <1>1 DEF IInv, TypeOK, ListenersAsleep, Gens, AttachListener, threadVars, Runtime,
          LifecycleStates
  <2>8. SnapshotsHold'
      BY <1>1 DEF IInv, TypeOK, SnapshotsHold, Gens, AttachListener, threadVars, Runtime,
          LifecycleStates
  <2>9. MissesCounted'
      BY <1>1 DEF IInv, TypeOK, MissesCounted, Gens, OfflineStreak, ActivePcs,
          AttachListener, threadVars, Runtime, LifecycleStates
  <2>10. ThreadsHold'
      BY <1>1 DEF IInv, TypeOK, ThreadsHold, IsAdopted, AttachListener, threadVars,
          Runtime, LifecycleStates
  <2>11. NoOrphanJvm'
      BY <1>1, MaxGenAssumption DEF IInv, TypeOK, Shape, Fresh, StartsOwn, RunSupervised,
          SleepersParked, ListenersAsleep, SnapshotsHold, MissesCounted, ThreadsHold,
          NoOrphanJvm, InMap, Gens, IsReservation, StartPcs, IsAdopted, ActivePcs,
          OfflineStreak, Live, AttachListener, threadVars, Absent, NewRuntime, Runtime,
          LifecycleStates, Exited, JvmStates, Outcomes, Snapshots
  <2>12. QED BY <2>1, <2>2, <2>3, <2>4, <2>5, <2>6, <2>7, <2>8, <2>9, <2>10, <2>11 DEF IInv
<1>2. CASE entry.gen # g
  <2>1. TypeOK'
    <3>1. entry' \in Runtime
        BY <1>2, MaxGenAssumption DEF IInv, TypeOK, AttachListener, threadVars, Runtime,
            LifecycleStates, Gens
    <3>2. spc' \in [Gens -> SupervisorPcs]
        BY <1>2, MaxGenAssumption DEF IInv, TypeOK, AttachListener, threadVars, Runtime,
            LifecycleStates, SupervisorPcs, Gens
    <3>3. flag' \in [Gens -> BOOLEAN]
        BY <1>2, MaxGenAssumption DEF IInv, TypeOK, AttachListener, threadVars, Runtime,
            LifecycleStates, Gens
    <3>4. QED BY <3>1, <3>2, <3>3 DEF IInv, TypeOK, AttachListener, threadVars
  <2>2. Shape'
      BY <1>2 DEF IInv, TypeOK, Shape, InMap, AttachListener, threadVars, Absent,
          NewRuntime, Runtime, LifecycleStates
  <2>3. Fresh'
      BY <1>2, MaxGenAssumption DEF IInv, TypeOK, Fresh, Gens, AttachListener, threadVars,
          Runtime, LifecycleStates
  <2>4. StartsOwn'
      BY <1>2 DEF IInv, TypeOK, StartsOwn, IsReservation, StartPcs, Gens, AttachListener,
          threadVars, Runtime, LifecycleStates
  <2>5. RunSupervised'
      BY <1>2 DEF IInv, TypeOK, RunSupervised, IsAdopted, ActivePcs, AttachListener,
          threadVars, Runtime, LifecycleStates
  <2>6. SleepersParked'
      BY <1>2 DEF IInv, TypeOK, SleepersParked, AttachListener, threadVars, Runtime,
          LifecycleStates
  <2>7. ListenersAsleep'
      BY <1>2 DEF IInv, TypeOK, ListenersAsleep, Gens, AttachListener, threadVars, Runtime,
          LifecycleStates
  <2>8. SnapshotsHold'
      BY <1>2 DEF IInv, TypeOK, SnapshotsHold, Gens, AttachListener, threadVars, Runtime,
          LifecycleStates
  <2>9. MissesCounted'
      BY <1>2 DEF IInv, TypeOK, MissesCounted, Gens, OfflineStreak, ActivePcs,
          AttachListener, threadVars, Runtime, LifecycleStates
  <2>10. ThreadsHold'
      BY <1>2 DEF IInv, TypeOK, ThreadsHold, IsAdopted, AttachListener, threadVars,
          Runtime, LifecycleStates
  <2>11. NoOrphanJvm'
      BY <1>2 DEF IInv, TypeOK, NoOrphanJvm, Live, Gens, AttachListener, threadVars,
          Runtime, LifecycleStates
  <2>12. QED BY <2>1, <2>2, <2>3, <2>4, <2>5, <2>6, <2>7, <2>8, <2>9, <2>10, <2>11 DEF IInv
<1>3. QED BY <1>1, <1>2

\* ListenerExits keeps the invariant.
LEMMA ListenerExitsInv ==
    ASSUME NEW g \in Gens, IInv, ListenerExits(g) PROVE IInv'
<1>1. TypeOK'
  <2>1. lst' \in [Gens -> ListenerPcs]
      BY MaxGenAssumption DEF IInv, TypeOK, ListenerExits, supervisorVars, threadVars,
          ListenerPcs, Gens
  <2>2. QED BY <2>1 DEF IInv, TypeOK, ListenerExits, supervisorVars, threadVars
<1>2. Fresh'
    BY MaxGenAssumption DEF IInv, TypeOK, Fresh, Gens, ListenerExits, supervisorVars,
        threadVars
<1>3. ListenersAsleep'
    BY DEF IInv, TypeOK, ListenersAsleep, Gens, ListenerExits, supervisorVars, threadVars
<1>4. Shape' /\ StartsOwn' /\ RunSupervised' /\ SleepersParked' /\ SnapshotsHold'
      /\ MissesCounted' /\ ThreadsHold' /\ NoOrphanJvm'
    BY DEF IInv, Shape, StartsOwn, RunSupervised, SleepersParked, SnapshotsHold,
        MissesCounted, ThreadsHold, NoOrphanJvm, InMap, IsReservation, StartPcs, Gens,
        IsAdopted, ActivePcs, OfflineStreak, Live, Absent, ListenerExits, supervisorVars,
        threadVars
<1>5. QED BY <1>1, <1>2, <1>3, <1>4 DEF IInv

\* ListenerAccepts keeps the invariant.
LEMMA ListenerAcceptsInv ==
    ASSUME NEW g \in Gens, IInv, ListenerAccepts(g) PROVE IInv'
<1>1. TypeOK'
  <2>1. lst' \in [Gens -> ListenerPcs]
      BY MaxGenAssumption DEF IInv, TypeOK, ListenerAccepts, supervisorVars, threadVars,
          ListenerPcs, Gens
  <2>2. QED BY <2>1 DEF IInv, TypeOK, ListenerAccepts, supervisorVars, threadVars
<1>2. Fresh'
    BY MaxGenAssumption DEF IInv, TypeOK, Fresh, Gens, ListenerAccepts, supervisorVars,
        threadVars
<1>3. ListenersAsleep'
    BY DEF IInv, TypeOK, ListenersAsleep, Gens, ListenerAccepts, supervisorVars, threadVars
<1>4. Shape' /\ StartsOwn' /\ RunSupervised' /\ SleepersParked' /\ SnapshotsHold'
      /\ MissesCounted' /\ ThreadsHold' /\ NoOrphanJvm'
    BY DEF IInv, Shape, StartsOwn, RunSupervised, SleepersParked, SnapshotsHold,
        MissesCounted, ThreadsHold, NoOrphanJvm, InMap, IsReservation, StartPcs, Gens,
        IsAdopted, ActivePcs, OfflineStreak, Live, Absent, ListenerAccepts, supervisorVars,
        threadVars
<1>5. QED BY <1>1, <1>2, <1>3, <1>4 DEF IInv

\* ListenerServed keeps the invariant.
LEMMA ListenerServedInv ==
    ASSUME NEW g \in Gens, IInv, ListenerServed(g) PROVE IInv'
<1>1. TypeOK'
  <2>1. lst' \in [Gens -> ListenerPcs]
      BY MaxGenAssumption DEF IInv, TypeOK, ListenerServed, supervisorVars, threadVars,
          ListenerPcs, Gens
  <2>2. QED BY <2>1 DEF IInv, TypeOK, ListenerServed, supervisorVars, threadVars
<1>2. Fresh'
    BY MaxGenAssumption DEF IInv, TypeOK, Fresh, Gens, ListenerServed, supervisorVars,
        threadVars
<1>3. ListenersAsleep'
    BY DEF IInv, TypeOK, ListenersAsleep, Gens, ListenerServed, supervisorVars, threadVars
<1>4. Shape' /\ StartsOwn' /\ RunSupervised' /\ SleepersParked' /\ SnapshotsHold'
      /\ MissesCounted' /\ ThreadsHold' /\ NoOrphanJvm'
    BY DEF IInv, Shape, StartsOwn, RunSupervised, SleepersParked, SnapshotsHold,
        MissesCounted, ThreadsHold, NoOrphanJvm, InMap, IsReservation, StartPcs, Gens,
        IsAdopted, ActivePcs, OfflineStreak, Live, Absent, ListenerServed, supervisorVars,
        threadVars
<1>5. QED BY <1>1, <1>2, <1>3, <1>4 DEF IInv

\* JvmBinds keeps the invariant.
LEMMA JvmBindsInv ==
    ASSUME NEW g \in Gens, IInv, JvmBinds(g) PROVE IInv'
<1>1. TypeOK'
  <2>1. jvm' \in [Gens -> JvmStates]
      BY MaxGenAssumption DEF IInv, TypeOK, JvmBinds, listenerVars, supervisorVars,
          threadVars, JvmStates, Gens
  <2>2. QED BY <2>1 DEF IInv, TypeOK, JvmBinds, listenerVars, supervisorVars, threadVars
<1>2. Fresh'
    BY MaxGenAssumption DEF IInv, TypeOK, Fresh, Gens, JvmBinds, listenerVars,
        supervisorVars, threadVars
<1>3. StartsOwn'
    BY DEF IInv, TypeOK, StartsOwn, IsReservation, StartPcs, Gens, JvmBinds, listenerVars,
        supervisorVars, threadVars
<1>4. NoOrphanJvm'
    BY DEF IInv, TypeOK, NoOrphanJvm, Live, Gens, JvmBinds, listenerVars, supervisorVars,
        threadVars
<1>5. Shape' /\ RunSupervised' /\ SleepersParked' /\ ListenersAsleep' /\ SnapshotsHold'
      /\ MissesCounted' /\ ThreadsHold'
    BY DEF IInv, Shape, RunSupervised, SleepersParked, ListenersAsleep, SnapshotsHold,
        MissesCounted, ThreadsHold, InMap, IsAdopted, ActivePcs, Gens, OfflineStreak,
        Absent, JvmBinds, listenerVars, supervisorVars, threadVars
<1>6. QED BY <1>1, <1>2, <1>3, <1>4, <1>5 DEF IInv

\* JvmExits keeps the invariant.
LEMMA JvmExitsInv ==
    ASSUME NEW g \in Gens, IInv, JvmExits(g) PROVE IInv'
<1>1. TypeOK'
  <2>1. jvm' \in [Gens -> JvmStates]
      BY MaxGenAssumption DEF IInv, TypeOK, JvmExits, listenerVars, supervisorVars,
          threadVars, Live, JvmStates, Gens
  <2>2. QED BY <2>1 DEF IInv, TypeOK, JvmExits, listenerVars, supervisorVars, threadVars
<1>2. Fresh'
    BY MaxGenAssumption DEF IInv, TypeOK, Fresh, Gens, JvmExits, listenerVars,
        supervisorVars, threadVars, Live
<1>3. StartsOwn'
    BY DEF IInv, TypeOK, StartsOwn, IsReservation, StartPcs, Gens, JvmExits, listenerVars,
        supervisorVars, threadVars, Live
<1>4. NoOrphanJvm'
    BY DEF IInv, TypeOK, NoOrphanJvm, Live, Gens, JvmExits, listenerVars, supervisorVars,
        threadVars
<1>5. Shape' /\ RunSupervised' /\ SleepersParked' /\ ListenersAsleep' /\ SnapshotsHold'
      /\ MissesCounted' /\ ThreadsHold'
    BY DEF IInv, Shape, RunSupervised, SleepersParked, ListenersAsleep, SnapshotsHold,
        MissesCounted, ThreadsHold, InMap, IsAdopted, ActivePcs, Gens, OfflineStreak,
        Absent, JvmExits, listenerVars, supervisorVars, threadVars
<1>6. QED BY <1>1, <1>2, <1>3, <1>4, <1>5 DEF IInv

\* ListenerWakes keeps the invariant.
LEMMA ListenerWakesInv ==
    ASSUME NEW g \in Gens, NEW t \in Threads, IInv, ListenerWakes(g, t) PROVE IInv'
<1>1. TypeOK'
  <2>1. lst' \in [Gens -> ListenerPcs]
      BY MaxGenAssumption DEF IInv, TypeOK, ListenerWakes, supervisorVars, Goto,
          ListenerPcs, Gens
  <2>2. flag' \in [Gens -> BOOLEAN]
      BY MaxGenAssumption DEF IInv, TypeOK, ListenerWakes, supervisorVars, Goto, Gens,
          Runtime
  <2>3. pc' \in [Threads -> ThreadPcs]
      BY MaxGenAssumption DEF IInv, TypeOK, ListenerWakes, supervisorVars, Goto, ThreadPcs
  <2>4. from' \in [Threads -> 0..MaxGen]
      BY MaxGenAssumption DEF IInv, TypeOK, ListenerWakes, supervisorVars, Goto, Gens
  <2>5. QED BY <2>1, <2>2, <2>3, <2>4 DEF IInv, TypeOK, ListenerWakes, supervisorVars
<1>2. Fresh'
    BY MaxGenAssumption DEF IInv, TypeOK, Fresh, Gens, ListenerWakes, supervisorVars, Goto
<1>3. StartsOwn'
    BY DEF IInv, TypeOK, StartsOwn, IsReservation, StartPcs, Gens, ListenerWakes,
        supervisorVars, Goto
<1>4. ListenersAsleep'
    BY DEF IInv, TypeOK, ListenersAsleep, Gens, ListenerWakes, supervisorVars, Goto
<1>5. ThreadsHold'
    BY MaxGenAssumption DEF IInv, TypeOK, Shape, Fresh, StartsOwn, ThreadsHold,
        NoOrphanJvm, ListenersAsleep, InMap, Gens, IsReservation, StartPcs, IsAdopted,
        Live, ListenerWakes, supervisorVars, Goto, Absent, NewRuntime, Runtime,
        LifecycleStates
<1>6. NoOrphanJvm'
    BY DEF IInv, TypeOK, NoOrphanJvm, Live, Gens, ListenerWakes, supervisorVars, Goto
<1>7. Shape' /\ RunSupervised' /\ SleepersParked' /\ SnapshotsHold' /\ MissesCounted'
    BY DEF IInv, Shape, RunSupervised, SleepersParked, SnapshotsHold, MissesCounted, InMap,
        IsAdopted, ActivePcs, Gens, OfflineStreak, Absent, ListenerWakes, supervisorVars
<1>8. QED BY <1>1, <1>2, <1>3, <1>4, <1>5, <1>6, <1>7 DEF IInv


--------------------------------------------------------------------------------
(* The invariant and what follows from it. *)

\* The invariant holds before anything is started.
LEMMA InitInv == ASSUME Init PROVE IInv
<1>1. TypeOK
    <2>1. 0 \in 0..MaxGen BY MaxGenAssumption
    <2>2. entry \in Runtime BY AbsentType DEF Init
    <2>3. /\ jvm \in [Gens -> JvmStates] /\ spc \in [Gens -> SupervisorPcs]
          /\ lst \in [Gens -> ListenerPcs] /\ flag \in [Gens -> BOOLEAN]
          /\ acc \in [Gens -> BOOLEAN] /\ pc \in [Threads -> ThreadPcs]
        BY DEF Init, JvmStates, SupervisorPcs, ListenerPcs, ThreadPcs
    <2>4. snap \in [Gens -> Snapshots]
        BY DEF Init, Snapshots, NoSnapshot, LifecycleStates
    <2>5. outcome \in [Gens -> Outcomes] BY DEF Init, Outcomes, NoOutcome
    <2>6. miss \in [Gens -> 0..OfflineStreak] BY DEF Init, OfflineStreak
    <2>7. /\ lastGen \in 0..MaxGen /\ dir \in BOOLEAN /\ ext \in BOOLEAN
          /\ tgen \in [Threads -> 0..MaxGen] /\ from \in [Threads -> 0..MaxGen]
        BY <2>1 DEF Init
    <2>8. QED BY <2>2, <2>3, <2>4, <2>5, <2>6, <2>7 DEF TypeOK
<1>2. Shape BY DEF Init, Shape, InMap, Absent, NewRuntime
<1>3. Fresh /\ StartsOwn
    BY MaxGenAssumption
    DEF Init, Fresh, StartsOwn, IsReservation, StartPcs, Absent, NewRuntime, Gens
<1>4. RunSupervised /\ SleepersParked /\ ListenersAsleep
    BY DEF Init, RunSupervised, SleepersParked, ListenersAsleep, IsAdopted, Absent, NewRuntime
<1>5. SnapshotsHold /\ MissesCounted /\ ThreadsHold /\ NoOrphanJvm
    BY DEF Init, SnapshotsHold, MissesCounted, ThreadsHold, NoOrphanJvm, Live, OfflineStreak
<1>6. QED BY <1>1, <1>2, <1>3, <1>4, <1>5 DEF IInv

\* A stuttering step keeps it.
LEMMA StutterInv == ASSUME IInv, UNCHANGED vars PROVE IInv'
BY DEF IInv, vars, supervisorVars, listenerVars, threadVars, TypeOK, Shape, Fresh, StartsOwn,
       RunSupervised, SleepersParked, ListenersAsleep, SnapshotsHold, MissesCounted, ThreadsHold,
       NoOrphanJvm, InMap, IsReservation, IsAdopted, Live

\* Every step keeps the invariant.
LEMMA NextInv == ASSUME IInv, [Next]_vars PROVE IInv'
<1>1. ASSUME NEW t \in Threads, ThreadStep(t) PROVE IInv'
    <2>1. CASE SpawnStep(t)
        BY <2>1, StartRefusedInv, SpawnJvmInv, SpawnFailsInv, AttachChildInv, CancelStartInv,
           ReleaseReservationInv, WakeFailedInv DEF SpawnStep
    <2>2. CASE CommandGoesOn(t)
        BY <2>2, RconAnsweredInv, PortKillInv, RestartProceedsInv, BackoffEndsInv,
           TerminateRuntimeInv, TrashDirectoryInv, SettingsSavedInv, AdoptExternalInv
           DEF CommandGoesOn
    <2>3. QED BY <1>1, <2>1, <2>2, StartChecksInv, ClaimKeyInv DEF ThreadStep
<1>2. ASSUME NEW t \in Threads, Command(t) PROVE IInv'
    BY <1>2, StartServerInv, StopOverRconInv, ForceKillAdoptedInv, RestartServerInv,
       DeleteServerInv, EditSettingsInv, ProbeUntrackedInv DEF Command
<1>3. ASSUME NEW g \in Gens, SupervisorStep(g) PROVE IInv'
    BY <1>3, SupervisorStopsInv, ExitToSleepInv, ExitTerminalInv, SnapshotInv, EscalateInv,
       ProbeInv, WriteInv, FinishExitInv, BindListenerInv, BindFailsInv, AttachListenerInv
       DEF SupervisorStep, PollStep
<1>4. ASSUME NEW g \in Gens, ListenerStep(g) PROVE IInv'
    BY <1>4, ListenerExitsInv, ListenerAcceptsInv, ListenerServedInv, ListenerWakesInv
       DEF ListenerStep
<1>5. QED
    BY <1>1, <1>2, <1>3, <1>4, JvmBindsInv, JvmExitsInv, StopSleepingInv, StopServerInv,
       SleepServerInv, ForceKillInv, ExternalServerInv, StutterInv DEF Next, OtherStep

\* The invariant holds in every state of every behaviour.
LEMMA SpecInv == Spec => []IInv
<1>1. Init => IInv BY InitInv
<1>2. IInv /\ [Next]_vars => IInv' BY NextInv
<1>3. QED BY <1>1, <1>2, PTL DEF Spec

\* Every variable keeps its type: in particular a supervisor's count of failed
\* probes never passes its limit, and no run is numbered beyond the last one.
THEOREM TypeCorrect == Spec => []TypeOK
<1>1. IInv => TypeOK BY DEF IInv
<1>2. QED BY <1>1, SpecInv, PTL

\* However many commands interleave, no java process is lost track of.
THEOREM JvmsAccountedFor == Spec => []NoOrphanJvm
<1>1. IInv => NoOrphanJvm BY DEF IInv
<1>2. QED BY <1>1, SpecInv, PTL

\* However many starts, restarts and wakes race, two JVMs of one server live at
\* once only while a delete is terminating one of them.
THEOREM OneJvmAtATime == Spec => []OneJvm
<1>1. ASSUME IInv PROVE OneJvm
    <2>1. SUFFICES ASSUME NEW g \in Gens, NEW h \in Gens, Live(g), Live(h), g # h,
                          ~BeingDeleted(g), ~BeingDeleted(h)
                   PROVE  FALSE
        BY DEF OneJvm
    <2>2. ASSUME NEW k \in Gens, Live(k), ~BeingDeleted(k)
          PROVE  entry.gen = k
        <3>1. CASE entry.gen = k /\ entry.child BY <3>1
        <3>2. CASE \E t \in Threads : tgen[t] = k /\ pc[t] \in {"attach", "terminate"}
            <4>1. PICK t \in Threads : tgen[t] = k /\ pc[t] \in {"attach", "terminate"} BY <3>2
            <4>2. pc[t] = "attach" BY <4>1, <2>2 DEF BeingDeleted
            <4>3. QED BY <1>1, <4>1, <4>2 DEF IInv, StartsOwn, StartPcs
        <3>3. QED BY <1>1, <2>2, <3>1, <3>2 DEF IInv, NoOrphanJvm
    <2>3. QED BY <2>1, <2>2
<1>2. IInv => OneJvm BY <1>1
<1>3. QED BY <1>2, SpecInv, PTL

\* "Server is already starting" is never the answer of a start that is over.
THEOREM ReservationsOwned == Spec => []ReservationOwned
<1>1. IInv => ReservationOwned BY DEF IInv, StartsOwn, StartPcs, ReservationOwned
<1>2. QED BY <1>1, SpecInv, PTL

\* No run with a child and no adopted server is ever without its supervisor.
THEOREM RunsSupervised == Spec => []RunSupervised
<1>1. IInv => RunSupervised BY DEF IInv
<1>2. QED BY <1>1, SpecInv, PTL

\* No snapshot is ever written back over a stop.
THEOREM StopsHold == Spec => []StopHolds
<1>1. IInv => StopHolds BY DEF IInv, Shape, StopHolds
<1>2. QED BY <1>1, SpecInv, PTL

--------------------------------------------------------------------------------
(* The wake listeners. ListenersHold is not inductive: whether a listener can  *)
(* still be told to stop depends on how far its supervisor has come with       *)
(* handing it over, and a sleeping run whose listener is gone depends on the   *)
(* wake thread that took over from it. LInv adds both.                         *)

\* Where a thread is while it starts a server for a wake.
WakePcs == {"start", "claim", "spawn", "attach", "release", "wakeFailed"}

\* A thread that holds a sleeping run is on its way to start it or clean up.
WakesUnderWay == \A t \in Threads : from[t] # 0 => pc[t] \in WakePcs

\* The listener a wake came from was told to stop.
WakesFlagged == \A t \in Threads : from[t] # 0 => flag[from[t]]

\* A listener is bound, and told to stop, only after its supervisor bound it...
ListenersFollow ==
    \A g \in Gens : flag[g] \/ lst[g] # "none" => spc[g] \in {"attach", "done"}

\* ...and a supervisor that hands a listener over has bound one.
AttachersHold == \A g \in Gens : spc[g] = "attach" => lst[g] # "none"

\* The entry holds a listener only while it sleeps, and once it was handed over.
HandlesAttached ==
    entry.listener => entry.state = "sleeping" /\ spc[entry.gen] = "done"

\* SleepingIsWakeable, without where the wake is: WakesUnderWay says that.
Wakeable ==
    entry.state = "sleeping" =>
        \/ spc[entry.gen] = "bind"
        \/ lst[entry.gen] \in {"bound", "serving"} /\ ~flag[entry.gen]
        \/ \E t \in Threads : from[t] = entry.gen

LInv == /\ WakesUnderWay /\ WakesFlagged /\ ListenersFollow /\ AttachersHold
        /\ HandlesAttached /\ Wakeable /\ NoUnstoppableListener

--------------------------------------------------------------------------------
(* What most steps have in common. *)

\* A step after which each wake thread is where a wake may be, or has ended.
WakesGoOn ==
    \A t \in Threads : from'[t] # 0 => from'[t] = from[t] /\ pc'[t] \in WakePcs

\* A supervisor moves, but not to or from where it deals with a listener.
PollsOnly ==
    \A g \in Gens : spc'[g] # spc[g] =>
        spc[g] \notin {"bind", "attach", "done"} /\ spc'[g] \notin {"bind", "attach"}

\* The run in the map stays what it is to a listener...
SameRun ==
    /\ entry'.gen = entry.gen /\ entry'.state = entry.state
    /\ entry'.listener = entry.listener /\ from' = from

\* ...or it neither slept nor sleeps.
AwakeRun ==
    entry.state # "sleeping" /\ entry'.state # "sleeping" /\ ~entry'.listener

\* Listeners do not notice a step that is none of theirs.
LEMMA QuietStep ==
    ASSUME IInv, LInv, WakesGoOn, PollsOnly, UNCHANGED <<lst, flag>>,
           SameRun \/ AwakeRun
    PROVE  LInv'
<1>1. WakesUnderWay' /\ WakesFlagged' BY DEF LInv, WakesUnderWay, WakesFlagged, WakesGoOn
<1>2. ListenersFollow' BY DEF LInv, ListenersFollow, PollsOnly
<1>3. AttachersHold' BY DEF LInv, AttachersHold, PollsOnly
<1>4. entry.state = "sleeping" => entry.gen \in Gens
    BY DEF IInv, TypeOK, Shape, InMap, Absent, NewRuntime, Runtime, Gens
<1>5. CASE SameRun
    <2>1. HandlesAttached' BY <1>4, <1>5 DEF LInv, HandlesAttached, SameRun, PollsOnly
    <2>2. Wakeable' BY <1>4, <1>5 DEF LInv, Wakeable, SameRun, PollsOnly
    <2>3. NoUnstoppableListener'
        BY <1>5 DEF LInv, NoUnstoppableListener, StillSleeping, SameRun, PollsOnly
    <2>4. QED BY <1>1, <1>2, <1>3, <2>1, <2>2, <2>3 DEF LInv
<1>6. CASE AwakeRun
    <2>1. HandlesAttached' /\ Wakeable' BY <1>6 DEF HandlesAttached, Wakeable, AwakeRun
    <2>2. NoUnstoppableListener'
        BY <1>6 DEF LInv, NoUnstoppableListener, StillSleeping, AwakeRun, PollsOnly
    <2>3. QED BY <1>1, <1>2, <1>3, <2>1, <2>2 DEF LInv
<1>7. QED BY <1>5, <1>6

\* A step that takes the run out of the map, or puts one that does not sleep in
\* its place, leaves no listener behind, since it raises the flag of the
\* listener the entry holds and a listener not handed over yet is still its
\* supervisor's to stop.
LEMMA ReplacingStep ==
    ASSUME IInv, LInv, WakesGoOn, FlagListener, UNCHANGED <<lst, spc>>,
           entry'.state # "sleeping", ~entry'.listener
    PROVE  LInv'
<1>1. entry.listener => entry.gen \in Gens /\ spc[entry.gen] = "done"
    BY DEF IInv, TypeOK, Shape, InMap, Absent, NewRuntime, Runtime, Gens, LInv, HandlesAttached
<1>2. \A g \in Gens : flag'[g] = (flag[g] \/ (entry.listener /\ g = entry.gen))
    BY <1>1, Zenon DEF FlagListener, IInv, TypeOK
<1>3. WakesUnderWay' BY DEF LInv, WakesUnderWay, WakesGoOn
<1>4. WakesFlagged'
    <2>1. \A t \in Threads : from'[t] # 0 => from'[t] \in Gens /\ flag[from'[t]]
        BY DEF IInv, TypeOK, Gens, LInv, WakesFlagged, WakesGoOn
    <2>2. QED BY <1>2, <2>1 DEF WakesFlagged
<1>5. ListenersFollow' BY <1>1, <1>2 DEF LInv, ListenersFollow
<1>6. AttachersHold' BY DEF LInv, AttachersHold
<1>7. HandlesAttached' /\ Wakeable' BY DEF HandlesAttached, Wakeable
<1>8. NoUnstoppableListener' BY <1>2 DEF LInv, NoUnstoppableListener, StillSleeping
<1>9. QED BY <1>3, <1>4, <1>5, <1>6, <1>7, <1>8 DEF LInv

\* A thread that is not in a wake may go anywhere, one that is may go on.
LEMMA ThreadMoves ==
    ASSUME NEW t \in Threads, NEW label, IInv, LInv, Goto(t, label), from' = from,
           pc[t] \notin WakePcs \/ label \in WakePcs
    PROVE  WakesGoOn
BY DEF Goto, IInv, TypeOK, LInv, WakesUnderWay, WakesGoOn

\* Nothing moves the threads.
LEMMA ThreadsStay ==
    ASSUME LInv, UNCHANGED <<pc, from>> PROVE WakesGoOn
BY DEF LInv, WakesUnderWay, WakesGoOn

\* The run of a start, an owned run and an adopted one hold no listener and
\* do not sleep; neither does a free key.
LEMMA AwakeFacts ==
    ASSUME IInv, LInv, \/ IsReservation(entry) \/ entry.child
                       \/ IsAdopted(entry) \/ ~InMap
    PROVE  entry.state # "sleeping" /\ ~entry.listener
BY DEF IInv, TypeOK, Shape, LInv, HandlesAttached, IsReservation, IsAdopted, InMap,
       Absent, NewRuntime

\* A thread goes on and touches neither the entry nor a listener.
LEMMA ThreadStepListens ==
    ASSUME NEW t \in Threads, NEW label, IInv, LInv, Goto(t, label),
           pc[t] \notin WakePcs \/ label \in WakePcs,
           UNCHANGED <<entry, spc, lst, flag, from>>
    PROVE  LInv'
<1>1. WakesGoOn BY ThreadMoves
<1>2. PollsOnly /\ SameRun BY DEF PollsOnly, SameRun
<1>3. QED BY <1>1, <1>2, QuietStep

\* A thread changes a run that neither slept nor sleeps.
LEMMA AwakeStepListens ==
    ASSUME NEW t \in Threads, NEW label, IInv, LInv, Goto(t, label),
           pc[t] \notin WakePcs \/ label \in WakePcs,
           UNCHANGED <<spc, lst, flag, from>>, AwakeRun
    PROVE  LInv'
<1>1. WakesGoOn BY ThreadMoves
<1>2. PollsOnly BY DEF PollsOnly
<1>3. QED BY <1>1, <1>2, QuietStep

\* mark_stopping never touches a sleeping run, nor makes one of a run.
LEMMA MarkStoppingAwake ==
    ASSUME IInv, LInv, InMap, IsReservation(entry) \/ entry.child \/ IsAdopted(entry)
    PROVE  /\ entry.state # "sleeping"
           /\ MarkStopping(entry).state # "sleeping"
           /\ ~MarkStopping(entry).listener
BY AwakeFacts, MarkStoppingFields DEF IInv, TypeOK

--------------------------------------------------------------------------------
(* start_server_internal and wake_server's clean-up. *)

\* The steps of a start that leave the entry alone.
LEMMA StartListens ==
    ASSUME NEW t \in Threads, IInv, LInv,
           \/ StartServer(t) \/ StartChecks(t) \/ StartRefused(t) \/ SpawnJvm(t)
           \/ SpawnFails(t) \/ CancelStart(t) \/ RestartProceeds(t) \/ BackoffEnds(t)
    PROVE  LInv'
<1>1. CASE StartServer(t)
    BY <1>1, ThreadStepListens DEF StartServer, WakePcs, supervisorVars, listenerVars
<1>2. CASE StartChecks(t)
    BY <1>2, ThreadStepListens DEF StartChecks, WakePcs, supervisorVars, listenerVars
<1>3. CASE StartRefused(t)
    <2>1. CASE from[t] = 0
        <3>1. WakesGoOn
            BY <1>3, <2>1 DEF StartRefused, StartError, Goto, IInv, TypeOK, LInv,
               WakesUnderWay, WakesGoOn
        <3>2. PollsOnly /\ SameRun /\ UNCHANGED <<lst, flag>>
            BY <1>3 DEF StartRefused, PollsOnly, SameRun, supervisorVars, listenerVars
        <3>3. QED BY <3>1, <3>2, QuietStep
    <2>2. CASE from[t] # 0
        BY <1>3, <2>2, ThreadStepListens
           DEF StartRefused, StartError, WakePcs, supervisorVars, listenerVars
    <2>3. QED BY <2>1, <2>2
<1>4. CASE SpawnJvm(t)
    BY <1>4, ThreadStepListens DEF SpawnJvm, WakePcs, supervisorVars, listenerVars
<1>5. CASE SpawnFails(t)
    BY <1>5, ThreadStepListens DEF SpawnFails, WakePcs, supervisorVars, listenerVars
<1>6. CASE CancelStart(t)
    BY <1>6, ThreadStepListens DEF CancelStart, WakePcs, supervisorVars, listenerVars
<1>7. CASE RestartProceeds(t)
    BY <1>7, ThreadStepListens DEF RestartProceeds, WakePcs, supervisorVars, listenerVars
<1>8. CASE BackoffEnds(t)
    BY <1>8, ThreadStepListens DEF BackoffEnds, WakePcs, supervisorVars, listenerVars
<1>9. QED BY <1>1, <1>2, <1>3, <1>4, <1>5, <1>6, <1>7, <1>8

\* A claim stops the listener of the sleeping run whose key it takes.
LEMMA ClaimKeyListens ==
    ASSUME NEW t \in Threads, IInv, LInv, ClaimKey(t) PROVE LInv'
<1>1. WakesGoOn BY ThreadMoves DEF ClaimKey, WakePcs
<1>2. entry'.state # "sleeping" /\ ~entry'.listener BY DEF ClaimKey, NewRuntime
<1>3. FlagListener /\ UNCHANGED <<lst, spc>> BY DEF ClaimKey, supervisorVars
<1>4. QED BY <1>1, <1>2, <1>3, ReplacingStep

\* The run a child is attached to is a reservation, and stays awake.
LEMMA AttachChildListens ==
    ASSUME NEW t \in Threads, IInv, LInv, AttachChild(t) PROVE LInv'
<1>1. IsReservation(entry) /\ tgen[t] = entry.gen /\ spc[tgen[t]] = "none"
    BY DEF AttachChild, IInv, StartsOwn, StartPcs
<1>2. AwakeRun BY <1>1, AwakeFacts DEF AttachChild, AwakeRun, IInv, TypeOK, Runtime
<1>3. WakesGoOn BY DEF AttachChild, Goto, IInv, TypeOK, LInv, WakesUnderWay, WakesGoOn
<1>4. PollsOnly /\ UNCHANGED <<lst, flag>>
    BY <1>1 DEF AttachChild, PollsOnly, IInv, TypeOK, listenerVars
<1>5. QED BY <1>2, <1>3, <1>4, QuietStep

\* The reservation a failed start gives up holds no listener.
LEMMA ReleaseReservationListens ==
    ASSUME NEW t \in Threads, IInv, LInv, ReleaseReservation(t) PROVE LInv'
<1>1. IsReservation(entry) BY DEF ReleaseReservation, IInv, StartsOwn, StartPcs
<1>2. AwakeRun
    BY <1>1, AwakeFacts DEF ReleaseReservation, RemoveIfCurrent, AwakeRun, Absent, NewRuntime
<1>3. WakesGoOn
    BY DEF ReleaseReservation, StartError, Goto, IInv, TypeOK, LInv, WakesUnderWay,
       WakesGoOn, WakePcs
<1>4. PollsOnly /\ UNCHANGED <<lst, flag>>
    BY DEF ReleaseReservation, PollsOnly, supervisorVars, listenerVars
<1>5. QED BY <1>2, <1>3, <1>4, QuietStep

\* The sleeping run a failed wake drops had its listener told to stop when the
\* wake began; that of another run is left alone, with its own wakes.
LEMMA WakeFailedListens ==
    ASSUME NEW t \in Threads, IInv, LInv, WakeFailed(t) PROVE LInv'
<1>1. from[t] \in Gens \union {0} BY DEF IInv, TypeOK, Gens
<1>2. UNCHANGED <<spc, lst, flag>> BY DEF WakeFailed, supervisorVars, listenerVars
<1>3. WakesGoOn
    BY DEF WakeFailed, Goto, IInv, TypeOK, LInv, WakesUnderWay, WakesGoOn
<1>4. WakesUnderWay' /\ WakesFlagged'
    BY <1>2, <1>3 DEF LInv, WakesUnderWay, WakesFlagged, WakesGoOn
<1>5. ListenersFollow' /\ AttachersHold' BY <1>2 DEF LInv, ListenersFollow, AttachersHold
<1>6. CASE entry.gen = from[t]
    <2>1. entry' = Absent BY <1>6 DEF WakeFailed, RemoveIfCurrent
    <2>2. HandlesAttached' /\ Wakeable'
        BY <2>1 DEF HandlesAttached, Wakeable, Absent, NewRuntime
    <2>3. entry.state = "sleeping" => flag[entry.gen]
        BY <1>6 DEF LInv, WakesFlagged, IInv, Shape, InMap, Absent, NewRuntime
    <2>4. NoUnstoppableListener'
        BY <1>2, <2>3 DEF LInv, NoUnstoppableListener, StillSleeping
    <2>5. QED BY <1>4, <1>5, <2>2, <2>4 DEF LInv
<1>7. CASE entry.gen # from[t]
    <2>1. entry' = entry BY <1>7 DEF WakeFailed, RemoveIfCurrent
    <2>2. \A u \in Threads : from[u] = entry.gen => from'[u] = entry.gen
        BY <1>7 DEF WakeFailed, IInv, TypeOK
    <2>3. HandlesAttached' /\ Wakeable'
        BY <1>2, <2>1, <2>2 DEF LInv, HandlesAttached, Wakeable
    <2>4. NoUnstoppableListener'
        BY <1>2, <2>1 DEF LInv, NoUnstoppableListener, StillSleeping
    <2>5. QED BY <1>4, <1>5, <2>3, <2>4 DEF LInv
<1>8. QED BY <1>6, <1>7

--------------------------------------------------------------------------------
(* The commands. *)

\* The steps of a command that leave the entry alone.
LEMMA CommandListens ==
    ASSUME NEW t \in Threads, IInv, LInv,
           \/ StopOverRcon(t) \/ TerminateRuntime(t) \/ TrashDirectory(t)
           \/ EditSettings(t) \/ ProbeUntracked(t)
    PROVE  LInv'
<1>1. CASE StopOverRcon(t)
    BY <1>1, ThreadStepListens DEF StopOverRcon, WakePcs, supervisorVars, listenerVars
<1>2. CASE TerminateRuntime(t)
    BY <1>2, ThreadStepListens DEF TerminateRuntime, WakePcs, supervisorVars, listenerVars
<1>3. CASE TrashDirectory(t)
    BY <1>3, ThreadStepListens DEF TrashDirectory, WakePcs, supervisorVars, listenerVars
<1>4. CASE EditSettings(t)
    BY <1>4, ThreadStepListens DEF EditSettings, WakePcs, supervisorVars, listenerVars
<1>5. CASE ProbeUntracked(t)
    BY <1>5, ThreadStepListens DEF ProbeUntracked, WakePcs, supervisorVars, listenerVars
<1>6. QED BY <1>1, <1>2, <1>3, <1>4, <1>5

\* A stop of an adopted run marks a run that neither sleeps nor listens.
LEMMA StopListens ==
    ASSUME NEW t \in Threads, IInv, LInv, RconAnswered(t) \/ ForceKillAdopted(t)
    PROVE  LInv'
<1>1. CASE RconAnswered(t)
    <2>1. pc[t] \notin WakePcs /\ Goto(t, "idle") BY <1>1 DEF RconAnswered, WakePcs
    <2>2. UNCHANGED <<spc, lst, flag, from>>
        BY <1>1 DEF RconAnswered, supervisorVars, listenerVars
    <2>3. CASE entry' = entry BY <2>1, <2>2, <2>3, ThreadStepListens
    <2>4. CASE entry.gen = tgen[t] /\ entry' = MarkStopping(entry)
        <3>1. InMap /\ IsAdopted(entry)
            BY <1>1, <2>4 DEF RconAnswered, IInv, ThreadsHold, InMap
        <3>2. AwakeRun BY <2>4, <3>1, MarkStoppingAwake DEF AwakeRun
        <3>3. QED BY <2>1, <2>2, <3>2, AwakeStepListens
    <2>5. QED BY <1>1, <2>3, <2>4 DEF RconAnswered
<1>2. CASE ForceKillAdopted(t)
    <2>1. pc[t] \notin WakePcs /\ Goto(t, "portKill") BY <1>2 DEF ForceKillAdopted, WakePcs
    <2>2. UNCHANGED <<spc, lst, flag, from>>
        BY <1>2 DEF ForceKillAdopted, supervisorVars, listenerVars
    <2>3. InMap /\ IsAdopted(entry) BY <1>2 DEF ForceKillAdopted, IsAdopted, InMap
    <2>4. AwakeRun BY <1>2, <2>3, MarkStoppingAwake DEF AwakeRun, ForceKillAdopted
    <2>5. QED BY <2>1, <2>2, <2>4, AwakeStepListens
<1>3. QED BY <1>1, <1>2

\* What a port kill drops is the adopted run it acted on.
LEMMA PortKillListens ==
    ASSUME NEW t \in Threads, IInv, LInv, PortKill(t) PROVE LInv'
<1>1. pc[t] \notin WakePcs /\ Goto(t, "idle") BY DEF PortKill, WakePcs
<1>2. UNCHANGED <<spc, lst, flag, from>> BY DEF PortKill, supervisorVars, listenerVars
<1>3. CASE entry.gen # tgen[t]
    BY <1>1, <1>2, <1>3, ThreadStepListens DEF PortKill, RemoveIfCurrent
<1>4. CASE entry.gen = tgen[t]
    <2>1. IsAdopted(entry) BY <1>4 DEF PortKill, IInv, ThreadsHold
    <2>2. AwakeRun
        BY <1>4, <2>1, AwakeFacts
           DEF PortKill, RemoveIfCurrent, AwakeRun, Absent, NewRuntime
    <2>3. QED BY <1>1, <1>2, <2>2, AwakeStepListens
<1>5. QED BY <1>3, <1>4

\* A restart marks an owned run stopping; it leaves a sleeping one asleep.
LEMMA RestartServerListens ==
    ASSUME NEW t \in Threads, IInv, LInv, RestartServer(t) PROVE LInv'
<1>1. pc[t] \notin WakePcs /\ Goto(t, "restarting") BY DEF RestartServer, WakePcs
<1>2. UNCHANGED <<spc, lst, flag, from>> BY DEF RestartServer, supervisorVars, listenerVars
<1>3. CASE ~entry.child BY <1>1, <1>2, <1>3, ThreadStepListens DEF RestartServer
<1>4. CASE entry.child
    <2>1. InMap BY <1>4 DEF IInv, Shape, Absent, NewRuntime
    <2>2. AwakeRun BY <1>4, <2>1, MarkStoppingAwake DEF AwakeRun, RestartServer
    <2>3. QED BY <1>1, <1>2, <2>2, AwakeStepListens
<1>5. QED BY <1>3, <1>4

\* A delete stops the listener of the sleeping server it deletes.
LEMMA DeleteServerListens ==
    ASSUME NEW t \in Threads, IInv, LInv, DeleteServer(t) PROVE LInv'
<1>1. WakesGoOn BY ThreadMoves DEF DeleteServer, WakePcs
<1>2. entry'.state # "sleeping" /\ ~entry'.listener BY DEF DeleteServer, Absent, NewRuntime
<1>3. FlagListener /\ UNCHANGED <<lst, spc>> BY DEF DeleteServer, supervisorVars
<1>4. QED BY <1>1, <1>2, <1>3, ReplacingStep

\* Settings saved on a server that still sleeps release it, and no other.
LEMMA SettingsSavedListens ==
    ASSUME NEW t \in Threads, IInv, LInv, SettingsSaved(t) PROVE LInv'
<1>1. pc[t] \notin WakePcs /\ Goto(t, "idle") BY DEF SettingsSaved, WakePcs
<1>2. UNCHANGED <<spc, lst, from>> BY DEF SettingsSaved, supervisorVars
<1>3. CASE StillSleeping(tgen[t])
    <2>1. WakesGoOn BY <1>1, <1>2, ThreadMoves
    <2>2. FlagListener /\ entry' = Absent BY <1>3 DEF SettingsSaved
    <2>3. entry'.state # "sleeping" /\ ~entry'.listener BY <2>2 DEF Absent, NewRuntime
    <2>4. QED BY <1>2, <2>1, <2>2, <2>3, ReplacingStep
<1>4. CASE ~StillSleeping(tgen[t])
    BY <1>1, <1>2, <1>4, ThreadStepListens DEF SettingsSaved
<1>5. QED BY <1>3, <1>4

\* An adopted run takes a free key only, under a number nobody listens for.
LEMMA AdoptExternalListens ==
    ASSUME NEW t \in Threads, IInv, LInv, AdoptExternal(t) PROVE LInv'
<1>1. pc[t] \notin WakePcs /\ Goto(t, "idle") /\ UNCHANGED <<lst, flag, from>>
    BY DEF AdoptExternal, WakePcs, listenerVars
<1>2. CASE InMap \/ lastGen = MaxGen
    BY <1>1, <1>2, ThreadStepListens DEF AdoptExternal
<1>3. CASE ~InMap /\ lastGen # MaxGen
    <2>1. entry' = NewRuntime(lastGen + 1, "running-external", FALSE)
        BY <1>3 DEF AdoptExternal
    <2>2. AwakeRun BY <1>3, <2>1, AwakeFacts DEF AwakeRun, NewRuntime
    <2>3. spc[lastGen + 1] = "none" /\ spc' = [spc EXCEPT ![lastGen + 1] = "poll"]
        <3>1. lastGen + 1 \in Gens /\ lastGen + 1 > lastGen
            BY <1>3, MaxGenAssumption DEF IInv, TypeOK, Gens
        <3>2. QED BY <1>3, <3>1 DEF AdoptExternal, IInv, Fresh
    <2>4. PollsOnly BY <2>3 DEF PollsOnly, IInv, TypeOK
    <2>5. WakesGoOn BY <1>1, ThreadMoves
    <2>6. QED BY <1>1, <2>2, <2>4, <2>5, QuietStep
<1>4. QED BY <1>2, <1>3

\* The commands of one step: releasing a sleeping run stops its listener, the
\* others act on a run that is awake.
LEMMA OneStepListens ==
    ASSUME IInv, LInv, StopSleeping \/ StopServer \/ SleepServer \/ ForceKill
    PROVE  LInv'
<1>1. WakesGoOn
    BY ThreadsStay DEF StopSleeping, ReleaseSleeping, StopServer, SleepServer, ForceKill,
       threadVars
<1>2. CASE StopSleeping
    <2>1. entry'.state # "sleeping" /\ ~entry'.listener
        BY <1>2 DEF StopSleeping, ReleaseSleeping, Absent, NewRuntime
    <2>2. FlagListener /\ UNCHANGED <<lst, spc>>
        BY <1>2 DEF StopSleeping, ReleaseSleeping, supervisorVars
    <2>3. QED BY <1>1, <2>1, <2>2, ReplacingStep
<1>3. CASE StopServer \/ SleepServer \/ ForceKill
    <2>1. IsReservation(entry) \/ entry.child
        BY <1>3 DEF StopServer, SleepServer, ForceKill
    <2>2. InMap
        BY <2>1 DEF IsReservation, InMap, IInv, Shape, Absent, NewRuntime
    <2>3. /\ entry.state # "sleeping" /\ MarkStopping(entry).state # "sleeping"
          /\ ~MarkStopping(entry).listener /\ MarkStopping(entry) \in Runtime
        BY <2>1, <2>2, MarkStoppingAwake, MarkStoppingFields DEF IInv, TypeOK
    <2>4. entry'.state = MarkStopping(entry).state
          /\ entry'.listener = MarkStopping(entry).listener
        BY <1>3, <2>3 DEF StopServer, SleepServer, ForceKill, Runtime
    <2>5. PollsOnly /\ UNCHANGED <<lst, flag>>
        BY <1>3 DEF StopServer, SleepServer, ForceKill, PollsOnly, supervisorVars,
           listenerVars
    <2>6. QED BY <1>1, <2>3, <2>4, <2>5, QuietStep DEF AwakeRun
<1>4. QED BY <1>2, <1>3

--------------------------------------------------------------------------------
(* The supervisor. *)

\* The steps that poll, probe, end a run or leave it, and back a run up.
LEMMA PollListens ==
    ASSUME NEW g \in Gens, IInv, LInv,
           SupervisorStops(g) \/ Snapshot(g) \/ Escalate(g) \/ Probe(g)
    PROVE  LInv'
<1>1. WakesGoOn
    BY ThreadsStay
       DEF SupervisorStops, Snapshot, Escalate, Probe, TakeSnapshot, threadVars
<1>2. PollsOnly /\ UNCHANGED <<lst, flag>>
    BY DEF SupervisorStops, Snapshot, Escalate, Probe, TakeSnapshot, PollsOnly, IInv,
       TypeOK, listenerVars
<1>3. SameRun
    BY DEF SupervisorStops, Snapshot, Escalate, Probe, TakeSnapshot, SameRun, IInv,
       TypeOK, Runtime, threadVars
<1>4. QED BY <1>1, <1>2, <1>3, QuietStep

\* A run that ends for good was not asleep.
LEMMA ExitTerminalListens ==
    ASSUME NEW g \in Gens, IInv, LInv, ExitTerminal(g) PROVE LInv'
<1>1. WakesGoOn BY ThreadsStay DEF ExitTerminal, threadVars
<1>2. PollsOnly /\ UNCHANGED <<lst, flag>>
    BY DEF ExitTerminal, PollsOnly, IInv, TypeOK, listenerVars
<1>3. AwakeRun
    BY AwakeFacts DEF ExitTerminal, ChildExited, AwakeRun, Absent, NewRuntime
<1>4. QED BY <1>1, <1>2, <1>3, QuietStep

\* Backing a run up, or going on to restart it, is not a wake.
LEMMA FinishExitListens ==
    ASSUME NEW g \in Gens, IInv, LInv, FinishExit(g) PROVE LInv'
<1>1. WakesGoOn
    <2>1. CASE pc' = pc BY <2>1, ThreadsStay DEF FinishExit
    <2>2. CASE \E t \in Threads : pc[t] = "idle" /\ Goto(t, "backoff")
        BY <2>2, ThreadMoves DEF FinishExit, WakePcs
    <2>3. QED BY <2>1, <2>2 DEF FinishExit
<1>2. PollsOnly /\ UNCHANGED <<lst, flag>>
    BY DEF FinishExit, PollsOnly, IInv, TypeOK, listenerVars
<1>3. SameRun BY DEF FinishExit, SameRun
<1>4. QED BY <1>1, <1>2, <1>3, QuietStep

\* Phase 3 never puts a run to sleep itself, nor meets one that sleeps.
LEMMA WriteListens ==
    ASSUME NEW g \in Gens, IInv, LInv, Write(g), IInv' PROVE LInv'
<1>1. WakesGoOn BY ThreadsStay DEF Write, threadVars
<1>2. spc[g] = "write" /\ spc'[g] \in {"poll", "done"} BY DEF Write, IInv, TypeOK
<1>3. PollsOnly /\ UNCHANGED <<lst, flag>>
    BY <1>2 DEF Write, PollsOnly, IInv, TypeOK, listenerVars
<1>4. CASE entry.gen # g BY <1>1, <1>3, <1>4, QuietStep DEF Write, SameRun, threadVars
<1>5. CASE entry.gen = g
    <2>1. entry.state # "sleeping" /\ ~entry.listener
        BY <1>2, <1>5 DEF IInv, SleepersParked, LInv, HandlesAttached
    <2>2. CASE entry' = Absent
        BY <1>1, <1>3, <2>1, <2>2, QuietStep DEF AwakeRun, Absent, NewRuntime
    <2>3. CASE entry' # Absent
        <3>1. /\ spc'[g] = "poll"
              /\ \E new \in {NextState(snap[g], acc[g], miss[g]).state},
                    sleepNow \in BOOLEAN : entry' = WriteBack(g, new, sleepNow)
            BY <1>5, <2>3, FlagsAssumption DEF Write, IInv, TypeOK
        <3>2. entry'.gen = entry.gen /\ entry'.listener = entry.listener
            BY <3>1 DEF WriteBack, IInv, TypeOK, Runtime
        <3>3. entry'.state # "sleeping"
            BY <1>5, <3>1, <3>2 DEF IInv, SleepersParked
        <3>4. QED BY <1>1, <1>3, <2>1, <3>2, <3>3, QuietStep DEF AwakeRun
    <2>4. QED BY <2>2, <2>3
<1>6. QED BY <1>4, <1>5

\* A run that goes to sleep has no listener yet, and its supervisor is about to
\* bind one.
LEMMA ExitToSleepListens ==
    ASSUME NEW g \in Gens, IInv, LInv, ExitToSleep(g) PROVE LInv'
<1>1. entry.gen = g /\ entry.child /\ spc[g] = "poll"
    BY DEF ExitToSleep, ChildExited
<1>2. ~entry.listener /\ entry.state # "sleeping" BY <1>1, AwakeFacts
<1>3. /\ entry'.gen = g /\ entry'.state = "sleeping" /\ ~entry'.listener
      /\ spc' = [spc EXCEPT ![g] = "bind"]
      /\ UNCHANGED <<lst, flag, pc, from>>
    BY <1>1, <1>2 DEF ExitToSleep, IInv, TypeOK, Runtime, listenerVars, threadVars
<1>4. lst[g] = "none" /\ ~flag[g] BY <1>1 DEF LInv, ListenersFollow
<1>5. WakesUnderWay' /\ WakesFlagged'
    BY <1>3 DEF LInv, WakesUnderWay, WakesFlagged
<1>6. ListenersFollow' /\ AttachersHold'
    BY <1>3, <1>4 DEF LInv, ListenersFollow, AttachersHold, IInv, TypeOK
<1>7. HandlesAttached' /\ Wakeable'
    BY <1>3 DEF HandlesAttached, Wakeable, IInv, TypeOK
<1>8. NoUnstoppableListener'
    BY <1>1, <1>2, <1>3, <1>4
       DEF LInv, NoUnstoppableListener, StillSleeping, IInv, TypeOK
<1>9. QED BY <1>5, <1>6, <1>7, <1>8 DEF LInv

\* A listener just bound is its supervisor's to hand over or to stop.
LEMMA BindListenerListens ==
    ASSUME NEW g \in Gens, IInv, LInv, BindListener(g) PROVE LInv'
<1>1. /\ spc[g] = "bind" /\ spc' = [spc EXCEPT ![g] = "attach"]
      /\ lst' = [lst EXCEPT ![g] = "bound"]
      /\ UNCHANGED <<entry, flag, pc, from>>
    BY DEF BindListener, threadVars
<1>2. ~flag[g] BY <1>1 DEF LInv, ListenersFollow
<1>3. WakesUnderWay' /\ WakesFlagged'
    BY <1>1 DEF LInv, WakesUnderWay, WakesFlagged
<1>4. ListenersFollow' /\ AttachersHold'
    BY <1>1 DEF LInv, ListenersFollow, AttachersHold, IInv, TypeOK
<1>5. HandlesAttached' BY <1>1 DEF LInv, HandlesAttached, IInv, TypeOK
<1>6. Wakeable' BY <1>1, <1>2 DEF LInv, Wakeable, IInv, TypeOK
<1>7. NoUnstoppableListener'
    BY <1>1 DEF LInv, NoUnstoppableListener, StillSleeping, IInv, TypeOK
<1>8. QED BY <1>3, <1>4, <1>5, <1>6, <1>7 DEF LInv

\* A run whose port could not be bound has no listener to leave behind.
LEMMA BindFailsListens ==
    ASSUME NEW g \in Gens, IInv, LInv, BindFails(g) PROVE LInv'
<1>1. /\ spc[g] = "bind" /\ spc' = [spc EXCEPT ![g] = "done"]
      /\ entry' = IF entry.gen = g THEN Absent ELSE entry
      /\ UNCHANGED <<lst, flag, pc, from>>
    BY DEF BindFails, RemoveIfCurrent, listenerVars, threadVars
<1>2. ~flag[g] /\ lst[g] = "none" BY <1>1 DEF LInv, ListenersFollow
<1>3. WakesUnderWay' /\ WakesFlagged'
    BY <1>1 DEF LInv, WakesUnderWay, WakesFlagged
<1>4. ListenersFollow' /\ AttachersHold'
    BY <1>1 DEF LInv, ListenersFollow, AttachersHold, IInv, TypeOK
<1>5. HandlesAttached'
    BY <1>1 DEF LInv, HandlesAttached, IInv, TypeOK, Absent, NewRuntime
<1>6. Wakeable' BY <1>1 DEF LInv, Wakeable, IInv, TypeOK, Absent, NewRuntime
<1>7. NoUnstoppableListener'
    BY <1>1, <1>2 DEF LInv, NoUnstoppableListener, StillSleeping, IInv, TypeOK
<1>8. QED BY <1>3, <1>4, <1>5, <1>6, <1>7 DEF LInv

\* A listener is handed to the run it is for, or told to stop.
LEMMA AttachListenerListens ==
    ASSUME NEW g \in Gens, IInv, LInv, AttachListener(g) PROVE LInv'
<1>1. /\ spc[g] = "attach" /\ spc' = [spc EXCEPT ![g] = "done"]
      /\ UNCHANGED <<lst, pc, from>>
    BY DEF AttachListener, threadVars
<1>2. lst[g] # "none" BY <1>1 DEF LInv, AttachersHold
<1>3. WakesUnderWay' BY <1>1 DEF LInv, WakesUnderWay
<1>4. AttachersHold' BY <1>1 DEF LInv, AttachersHold, IInv, TypeOK
<1>5. CASE entry.gen = g
    <2>1. /\ entry'.gen = g /\ entry'.state = entry.state /\ entry'.listener
          /\ flag' = flag
        BY <1>5 DEF AttachListener, IInv, TypeOK, Runtime
    <2>2. entry.state = "sleeping" BY <1>2, <1>5 DEF IInv, ListenersAsleep
    <2>3. WakesFlagged' /\ ListenersFollow'
        BY <1>1, <2>1 DEF LInv, WakesFlagged, ListenersFollow, IInv, TypeOK
    <2>4. HandlesAttached' BY <1>1, <2>1, <2>2 DEF HandlesAttached, IInv, TypeOK
    <2>5. Wakeable' BY <1>1, <1>5, <2>1, <2>2 DEF LInv, Wakeable
    <2>6. NoUnstoppableListener'
        BY <1>1, <1>5, <2>1, <2>2
           DEF LInv, NoUnstoppableListener, StillSleeping, IInv, TypeOK
    <2>7. QED BY <1>3, <1>4, <2>3, <2>4, <2>5, <2>6 DEF LInv
<1>6. CASE entry.gen # g
    <2>1. flag' = [flag EXCEPT ![g] = TRUE] /\ entry' = entry
        BY <1>6 DEF AttachListener
    <2>2. \A h \in Gens : flag'[h] = (flag[h] \/ h = g) BY <2>1, Zenon DEF IInv, TypeOK
    <2>3. WakesFlagged'
        BY <1>1, <2>2 DEF LInv, WakesFlagged, IInv, TypeOK, Gens
    <2>4. ListenersFollow'
        BY <1>1, <2>2 DEF LInv, ListenersFollow, IInv, TypeOK
    <2>5. HandlesAttached'
        BY <1>1, <1>6, <2>1 DEF LInv, HandlesAttached, IInv, TypeOK
    <2>6. Wakeable'
        BY <1>1, <1>6, <2>1 DEF LInv, Wakeable, IInv, TypeOK
    <2>7. NoUnstoppableListener'
        BY <1>1, <2>1, <2>2 DEF LInv, NoUnstoppableListener, StillSleeping, IInv, TypeOK
    <2>8. QED BY <1>3, <1>4, <2>3, <2>4, <2>5, <2>6, <2>7 DEF LInv
<1>7. QED BY <1>5, <1>6

--------------------------------------------------------------------------------
(* The listener. *)

\* A listener that goes on, or exits because its run no longer sleeps or it was
\* told to, takes no wake away from a run that sleeps.
LEMMA ListenerGoesOnListens ==
    ASSUME NEW g \in Gens, IInv, LInv,
           ListenerExits(g) \/ ListenerAccepts(g) \/ ListenerServed(g)
    PROVE  LInv'
<1>1. /\ lst[g] \in {"bound", "serving"}
      /\ \A h \in Gens : h # g => lst'[h] = lst[h]
      /\ lst'[g] \in {"bound", "serving", "gone"}
      /\ lst'[g] = "gone" => flag[g] \/ ~StillSleeping(g)
    BY DEF ListenerExits, ListenerAccepts, ListenerServed, IInv, TypeOK
<1>2. UNCHANGED <<entry, spc, flag, pc, from>>
    BY DEF ListenerExits, ListenerAccepts, ListenerServed, supervisorVars, threadVars
<1>3. WakesUnderWay' /\ WakesFlagged'
    BY <1>2 DEF LInv, WakesUnderWay, WakesFlagged
<1>4. ListenersFollow' /\ AttachersHold' /\ HandlesAttached'
    BY <1>1, <1>2 DEF LInv, ListenersFollow, AttachersHold, HandlesAttached
<1>5. Wakeable'
    <2>1. CASE entry.gen = g
        BY <1>1, <1>2, <2>1 DEF LInv, Wakeable, StillSleeping
    <2>2. CASE entry.gen # g
        <3>1. entry.state = "sleeping" => lst'[entry.gen] = lst[entry.gen]
            BY <1>1, <2>2
               DEF IInv, TypeOK, Shape, InMap, Absent, NewRuntime, Runtime, Gens
        <3>2. QED BY <1>2, <3>1 DEF LInv, Wakeable
    <2>3. QED BY <2>1, <2>2
<1>6. NoUnstoppableListener'
    BY <1>1, <1>2 DEF LInv, NoUnstoppableListener, StillSleeping
<1>7. QED BY <1>3, <1>4, <1>5, <1>6 DEF LInv

\* A listener that wakes its server hands over to the thread it starts.
LEMMA ListenerWakesListens ==
    ASSUME NEW g \in Gens, NEW t \in Threads, IInv, LInv, ListenerWakes(g, t)
    PROVE  LInv'
<1>1. /\ lst[g] = "serving" /\ lst' = [lst EXCEPT ![g] = "gone"]
      /\ flag' = [flag EXCEPT ![g] = TRUE]
      /\ from' = [from EXCEPT ![t] = g] /\ pc' = [pc EXCEPT ![t] = "start"]
      /\ UNCHANGED <<entry, spc>>
    BY DEF ListenerWakes, Goto, supervisorVars
<1>2. \A h \in Gens : flag'[h] = (flag[h] \/ h = g) BY <1>1, Zenon DEF IInv, TypeOK
<1>3. WakesUnderWay'
    BY <1>1 DEF LInv, WakesUnderWay, WakePcs, IInv, TypeOK
<1>4. WakesFlagged' BY <1>1, <1>2 DEF LInv, WakesFlagged, IInv, TypeOK, Gens
<1>5. ListenersFollow'
    BY <1>1, <1>2 DEF LInv, ListenersFollow, IInv, TypeOK
<1>6. AttachersHold' BY <1>1 DEF LInv, AttachersHold, IInv, TypeOK
<1>7. HandlesAttached' BY <1>1 DEF LInv, HandlesAttached
<1>8. Wakeable'
    <2>1. CASE entry.gen = g BY <1>1, <2>1 DEF Wakeable, IInv, TypeOK
    <2>2. CASE entry.gen # g
        <3>1. SUFFICES ASSUME entry.state = "sleeping", spc[entry.gen] # "bind"
                       PROVE  \/ lst'[entry.gen] \in {"bound", "serving"} /\ ~flag'[entry.gen]
                              \/ \E u \in Threads : from'[u] = entry.gen
            BY <1>1 DEF Wakeable
        <3>2. entry.gen \in Gens
            BY <3>1 DEF IInv, TypeOK, Shape, InMap, Absent, NewRuntime, Runtime, Gens
        <3>3. from[t] = 0
            BY DEF ListenerWakes, LInv, WakesUnderWay, WakePcs
        <3>4. QED
            BY <1>1, <1>2, <2>2, <3>1, <3>2, <3>3 DEF LInv, Wakeable, IInv, TypeOK, Gens
    <2>3. QED BY <2>1, <2>2
<1>9. NoUnstoppableListener'
    BY <1>1, <1>2 DEF LInv, NoUnstoppableListener, StillSleeping, IInv, TypeOK
<1>10. QED BY <1>3, <1>4, <1>5, <1>6, <1>7, <1>8, <1>9 DEF LInv

--------------------------------------------------------------------------------
(* Every step, and every behaviour. *)

\* What happens to processes, and stuttering.
LEMMA ProcessListens ==
    ASSUME IInv, LInv,
           \/ \E g \in Gens : JvmBinds(g) \/ JvmExits(g)
           \/ ExternalServer
           \/ UNCHANGED vars
    PROVE  LInv'
<1>1. UNCHANGED <<entry, spc, lst, flag, pc, from>>
    BY DEF JvmBinds, JvmExits, ExternalServer, vars, supervisorVars, listenerVars,
       threadVars
<1>2. WakesGoOn BY <1>1, ThreadsStay
<1>3. PollsOnly /\ SameRun BY <1>1 DEF PollsOnly, SameRun
<1>4. QED BY <1>1, <1>2, <1>3, QuietStep

\* No listener is bound before the first run.
LEMMA InitListens == ASSUME Init PROVE LInv
BY DEF Init, LInv, WakesUnderWay, WakesFlagged, ListenersFollow, AttachersHold,
   HandlesAttached, Wakeable, NoUnstoppableListener, Absent, NewRuntime

\* Every step of the lifecycle keeps LInv.
LEMMA NextListens == ASSUME IInv, LInv, [Next]_vars PROVE LInv'
<1>1. IInv' BY NextInv
<1>2. ASSUME NEW t \in Threads, ThreadStep(t) PROVE LInv'
    BY <1>2, StartListens, ClaimKeyListens, AttachChildListens, ReleaseReservationListens,
       WakeFailedListens, CommandListens, StopListens, PortKillListens,
       SettingsSavedListens, AdoptExternalListens
       DEF ThreadStep, SpawnStep, CommandGoesOn
<1>3. ASSUME NEW t \in Threads, Command(t) PROVE LInv'
    BY <1>3, StartListens, CommandListens, StopListens, RestartServerListens,
       DeleteServerListens DEF Command
<1>4. ASSUME NEW g \in Gens, SupervisorStep(g) PROVE LInv'
    BY <1>1, <1>4, PollListens, ExitTerminalListens, FinishExitListens, WriteListens,
       ExitToSleepListens, BindListenerListens, BindFailsListens, AttachListenerListens
       DEF SupervisorStep, PollStep
<1>5. ASSUME NEW g \in Gens, ListenerStep(g) PROVE LInv'
    BY <1>5, ListenerGoesOnListens, ListenerWakesListens DEF ListenerStep
<1>6. QED
    BY <1>2, <1>3, <1>4, <1>5, OneStepListens, ProcessListens DEF Next, OtherStep

\* A sleeping server always has something that wakes it, and the listener of one
\* that no longer sleeps was told to stop or is about to be: whatever starts,
\* stops, deletes and wakes race for it.
THEOREM ListenersStayHeld == Spec => []ListenersHold
<1>1. Init => IInv /\ LInv BY InitInv, InitListens
<1>2. (IInv /\ LInv) /\ [Next]_vars => (IInv /\ LInv)' BY NextInv, NextListens
<1>3. ASSUME IInv, LInv PROVE ListenersHold
    <2>1. SleepingIsWakeable
        BY <1>3 DEF IInv, Shape, InMap, Absent, NewRuntime, LInv, Wakeable,
           WakesUnderWay, WakePcs, SleepingIsWakeable
    <2>2. QED BY <1>3, <2>1 DEF LInv, ListenersHold
<1>4. IInv /\ LInv => ListenersHold BY <1>3
<1>5. QED BY <1>1, <1>2, <1>4, PTL DEF Spec

--------------------------------------------------------------------------------
(* The lifecycle implements ServerSlot, for any number of threads and runs:       *)
(* every step of every behaviour is a step of the slot or leaves it alone. The     *)
(* inductive invariant says in what state each step finds the run; what it lacks   *)
(* is that only a run that was asked to stop goes to sleep (SleepersStop).         *)

\* A run asked to go to sleep was asked to stop.
SleepersStop == entry.sleepRequested => entry.stopRequested

\* The processes the slot sees.
LiveRuns == {g \in Gens : Live(g)}

\* A step of the slot, or none.
SlotStep == [Slot!Next]_(Slot!slot)

\* What is shown of every step of the lifecycle.
Implements == SleepersStop' /\ SlotStep

--------------------------------------------------------------------------------
(* The steps the slot sees. *)

\* The phases of a run, one by one.
LEMMA PhaseFacts ==
    ASSUME IInv
    PROVE  /\ SlotPhase = "free" <=> ~InMap
           /\ SlotPhase \in {"starting", "cancelled"} <=> IsReservation(entry)
           /\ SlotPhase = "running" <=> entry.child /\ ~entry.stopRequested
           /\ SlotPhase = "stopping" <=> entry.child /\ entry.stopRequested
           /\ SlotPhase = "asleep" <=> entry.state = "sleeping"
           /\ SlotPhase = "adopted" <=> IsAdopted(entry)
BY DEF IInv, TypeOK, Shape, SlotPhase, InMap, IsReservation, IsAdopted, Runtime, Absent,
       NewRuntime

\* The run in the map stays, and so do the processes.
LEMMA NothingSeen ==
    ASSUME SleepersStop, UNCHANGED <<entry, lastGen>>, LiveRuns' = LiveRuns
    PROVE  Implements
BY DEF Implements, SleepersStop, SlotStep, Slot!slot, SlotPhase, InMap, IsAdopted, LiveRuns

\* The run in the map stays, and one process may end.
LEMMA ProcessEndsStep ==
    ASSUME NEW g \in Gens, SleepersStop, UNCHANGED <<entry, lastGen>>,
           LiveRuns' = LiveRuns \ {g}
    PROVE  Implements
<1>1. SleepersStop' BY DEF SleepersStop
<1>2. UNCHANGED <<entry.gen, SlotPhase, lastGen>> BY DEF SlotPhase, InMap, IsAdopted
<1>3. CASE Live(g)
    BY <1>1, <1>2, <1>3 DEF Implements, SlotStep, Slot!Next, Slot!ProcessEnds, LiveRuns
<1>4. CASE ~Live(g) BY <1>4, NothingSeen DEF LiveRuns
<1>5. QED BY <1>3, <1>4

\* The run leaves the map; that of a start only when no process of it lives.
LEMMA LeaveStep ==
    ASSUME IInv, SleepersStop, entry' = Absent, lastGen' = lastGen, LiveRuns' = LiveRuns,
           IsReservation(entry) => ~Live(entry.gen)
    PROVE  Implements
<1>1. SleepersStop' BY DEF SleepersStop, Absent, NewRuntime
<1>2. CASE ~InMap BY <1>2, NothingSeen DEF IInv, Shape
<1>3. CASE InMap
    <2>1. entry'.gen = 0 /\ SlotPhase' = "free"
        BY DEF SlotPhase, InMap, Absent, NewRuntime
    <2>2. SlotPhase # "free" BY <1>3, PhaseFacts
    <2>3. SlotPhase \in {"starting", "cancelled"} => entry.gen \notin LiveRuns
        BY PhaseFacts DEF LiveRuns
    <2>4. Slot!Leave BY <2>1, <2>2, <2>3 DEF Slot!Leave, Slot!ProcessOver, LiveRuns
    <2>5. QED BY <1>1, <2>4 DEF Implements, SlotStep, Slot!Next
<1>4. QED BY <1>2, <1>3

\* A run that does not sleep is changed, and no request to stop it is taken back.
LEMMA StopStep ==
    ASSUME IInv, IInv', UNCHANGED <<lastGen>>, LiveRuns' = LiveRuns,
           entry'.gen = entry.gen, entry'.child = entry.child, entry'.java = entry.java,
           entry.state # "sleeping", entry'.state # "sleeping",
           entry.stopRequested => entry'.stopRequested,
           entry'.sleepRequested => entry'.stopRequested
    PROVE  Implements
<1>1. SleepersStop' BY DEF SleepersStop
<1>2. CASE entry'.stopRequested = entry.stopRequested
    <2>1. SlotPhase' = SlotPhase BY <1>2 DEF SlotPhase, InMap, IsAdopted
    <2>2. QED BY <1>1, <2>1 DEF Implements, SlotStep, Slot!slot, LiveRuns
<1>3. CASE ~entry.stopRequested /\ entry'.stopRequested
    <2>1. \/ SlotPhase' = SlotPhase
          \/ SlotPhase = "starting" /\ SlotPhase' = "cancelled"
          \/ SlotPhase = "running" /\ SlotPhase' = "stopping"
        BY <1>3 DEF SlotPhase, InMap, IsAdopted
    <2>2. QED
        BY <1>1, <2>1 DEF Implements, SlotStep, Slot!slot, Slot!Next, Slot!Cancel,
           Slot!Stop, Slot!Become, LiveRuns
<1>4. QED BY <1>2, <1>3 DEF IInv, TypeOK, Runtime

\* mark_stopping is such a change.
LEMMA MarkStoppingStep ==
    ASSUME IInv, IInv', SleepersStop, lastGen' = lastGen, LiveRuns' = LiveRuns,
           IsReservation(entry) \/ entry.child \/ IsAdopted(entry),
           /\ entry'.gen = entry.gen /\ entry'.child = entry.child
           /\ entry'.java = entry.java
           /\ entry'.state = MarkStopping(entry).state
           /\ entry'.stopRequested
    PROVE  Implements
<1>1. entry.state # "sleeping"
    BY DEF IInv, Shape, IsReservation, IsAdopted, InMap
<1>2. entry'.state # "sleeping" BY <1>1, MarkStoppingFields DEF IInv, TypeOK
<1>3. QED BY <1>1, <1>2, StopStep

\* Killing a process leaves it alive until the system has ended it.
LEMMA KilledStillLives ==
    ASSUME IInv, NEW g \in Gens, jvm' = Killed(g) PROVE LiveRuns' = LiveRuns
BY DEF IInv, TypeOK, Killed, Live, LiveRuns

\* A process that is waited for lives no more.
LEMMA ReapedEnds ==
    ASSUME IInv, NEW g \in Gens, jvm' = Reaped(g) PROVE LiveRuns' = LiveRuns \ {g}
BY DEF IInv, TypeOK, Reaped, Live, LiveRuns

--------------------------------------------------------------------------------
(* The threads. *)

\* Steps the slot does not see.
LEMMA ThreadQuietSlot ==
    ASSUME NEW t \in Threads, SleepersStop,
           \/ StartServer(t) \/ StartChecks(t) \/ StartRefused(t) \/ SpawnFails(t)
           \/ StopOverRcon(t) \/ RestartProceeds(t) \/ BackoffEnds(t)
           \/ TrashDirectory(t) \/ EditSettings(t) \/ ProbeUntracked(t)
    PROVE  Implements
<1>1. UNCHANGED <<entry, lastGen, jvm>>
    BY DEF StartServer, StartChecks, StartRefused, SpawnFails, StopOverRcon,
       RestartProceeds, BackoffEnds, TrashDirectory, EditSettings, ProbeUntracked
<1>2. LiveRuns' = LiveRuns BY <1>1 DEF LiveRuns, Live
<1>3. QED BY <1>1, <1>2, NothingSeen

\* A claim takes the key from a run whose process is over.
LEMMA ClaimKeySlot ==
    ASSUME NEW t \in Threads, IInv, SleepersStop, ClaimKey(t) PROVE Implements
<1>1. /\ entry' = NewRuntime(lastGen + 1, "starting", TRUE) /\ lastGen' = lastGen + 1
      /\ lastGen + 1 \in Gens /\ MayClaim
    BY MaxGenAssumption DEF ClaimKey, IInv, TypeOK, Gens
<1>2. SleepersStop' /\ entry'.gen = lastGen + 1 /\ SlotPhase' = "starting"
    BY <1>1, MaxGenAssumption
       DEF SleepersStop, NewRuntime, SlotPhase, InMap, IsAdopted, IInv, TypeOK
<1>3. entry.child => entry.gen \in Gens /\ ~Live(entry.gen)
    BY <1>1 DEF MayClaim, Alive, IInv, TypeOK, Shape, InMap, Absent, NewRuntime, Runtime,
       Gens
<1>4. LiveRuns' = LiveRuns
    <2>1. CASE entry.child
        BY <1>3, <2>1, ReapedEnds DEF ClaimKey, LiveRuns
    <2>2. CASE ~entry.child BY <2>2 DEF ClaimKey, LiveRuns, Live
    <2>3. QED BY <2>1, <2>2
<1>5. \/ SlotPhase \in {"free", "asleep"}
      \/ SlotPhase \in {"running", "stopping"} /\ entry.gen \notin LiveRuns
    <2>1. SlotPhase \notin {"starting", "cancelled", "adopted"}
        BY <1>1, PhaseFacts DEF MayClaim
    <2>2. SlotPhase \in {"running", "stopping"} => entry.child BY PhaseFacts
    <2>3. QED BY <1>3, <2>1, <2>2 DEF SlotPhase, LiveRuns
<1>6. Slot!Claim
    BY <1>1, <1>2, <1>4, <1>5 DEF Slot!Claim, Slot!TakenBy, Slot!ProcessOver, LiveRuns
<1>7. QED BY <1>2, <1>6 DEF Implements, SlotStep, Slot!Next

\* What is spawned is the process of the reservation.
LEMMA SpawnJvmSlot ==
    ASSUME NEW t \in Threads, IInv, SleepersStop, SpawnJvm(t) PROVE Implements
<1>1. IsReservation(entry) /\ tgen[t] = entry.gen /\ jvm[entry.gen] = "none"
    BY DEF SpawnJvm, IInv, StartsOwn, StartPcs
<1>2. entry.gen \in Gens BY <1>1 DEF IsReservation, IInv, TypeOK, Runtime, Gens
<1>3. UNCHANGED <<entry, lastGen>> /\ jvm' = [jvm EXCEPT ![entry.gen] = "loading"]
    BY <1>1 DEF SpawnJvm
<1>4. LiveRuns' = LiveRuns \union {entry.gen} /\ entry.gen \notin LiveRuns
    BY <1>1, <1>2, <1>3 DEF LiveRuns, Live, IInv, TypeOK
<1>5. SlotPhase \in {"starting", "cancelled"} BY <1>1, PhaseFacts
<1>6. UNCHANGED SlotPhase BY <1>3 DEF SlotPhase, InMap, IsAdopted
<1>7. Slot!Spawn BY <1>3, <1>4, <1>5, <1>6 DEF Slot!Spawn, Slot!ProcessOver, LiveRuns
<1>8. SleepersStop' BY <1>3 DEF SleepersStop
<1>9. QED BY <1>7, <1>8 DEF Implements, SlotStep, Slot!Next

\* A start that was not cancelled becomes a run.
LEMMA AttachChildSlot ==
    ASSUME NEW t \in Threads, IInv, SleepersStop, AttachChild(t) PROVE Implements
<1>1. IsReservation(entry) /\ ~entry.stopRequested
    BY DEF AttachChild, MayAttach, IInv, StartsOwn, StartPcs
<1>2. /\ entry'.gen = entry.gen /\ entry'.child /\ ~entry'.stopRequested
      /\ entry'.sleepRequested = entry.sleepRequested
      /\ UNCHANGED <<lastGen, jvm>>
    BY <1>1 DEF AttachChild, IInv, TypeOK, Runtime
<1>3. SlotPhase = "starting" /\ SlotPhase' = "running"
    BY <1>1, <1>2 DEF IsReservation, SlotPhase, InMap, IsAdopted
<1>4. Slot!Run BY <1>2, <1>3 DEF Slot!Run, Slot!Become, Live
<1>5. SleepersStop' BY <1>1, <1>2 DEF SleepersStop
<1>6. QED BY <1>4, <1>5 DEF Implements, SlotStep, Slot!Next

\* A cancelled start, and a delete, wait for the process they end.
LEMMA ThreadReapsSlot ==
    ASSUME NEW t \in Threads, IInv, SleepersStop, CancelStart(t) \/ TerminateRuntime(t)
    PROVE  Implements
<1>1. tgen[t] \in Gens
    BY DEF CancelStart, TerminateRuntime, IInv, TypeOK, StartsOwn, StartPcs, ThreadsHold,
       IsReservation, Gens
<1>2. UNCHANGED <<entry, lastGen>> /\ jvm' = Reaped(tgen[t])
    BY DEF CancelStart, TerminateRuntime
<1>3. QED BY <1>1, <1>2, ReapedEnds, ProcessEndsStep

\* What a failed start and a failed wake drop has no process left.
LEMMA StartGivesUpSlot ==
    ASSUME NEW t \in Threads, IInv, SleepersStop, ReleaseReservation(t) \/ WakeFailed(t)
    PROVE  Implements
<1>1. UNCHANGED <<lastGen, jvm>> /\ LiveRuns' = LiveRuns
    BY DEF ReleaseReservation, WakeFailed, LiveRuns, Live
<1>2. CASE entry' = entry BY <1>1, <1>2, NothingSeen
<1>3. CASE entry' # entry
    <2>1. entry' = Absent
        BY <1>3 DEF ReleaseReservation, WakeFailed, RemoveIfCurrent
    <2>2. CASE ReleaseReservation(t)
        <3>1. jvm[entry.gen] = "none"
            BY <2>2 DEF ReleaseReservation, IInv, StartsOwn, StartPcs
        <3>2. QED BY <1>1, <2>1, <3>1, LeaveStep DEF Live
    <2>3. CASE WakeFailed(t)
        <3>1. entry.gen = from[t] BY <1>3, <2>3 DEF WakeFailed, RemoveIfCurrent
        <3>2. ~IsReservation(entry)
            BY <3>1 DEF IInv, ThreadsHold, IsReservation
        <3>3. QED BY <1>1, <2>1, <3>2, LeaveStep
    <2>4. QED BY <2>2, <2>3
<1>4. QED BY <1>2, <1>3

\* A port kill, a delete and saved settings take a run out of the map that is no
\* start's, whatever its process does.
LEMMA CommandDropsSlot ==
    ASSUME NEW t \in Threads, IInv, SleepersStop,
           PortKill(t) \/ DeleteServer(t) \/ SettingsSaved(t)
    PROVE  Implements
<1>1. lastGen' = lastGen BY DEF PortKill, DeleteServer, SettingsSaved
<1>2. LiveRuns' = LiveRuns
    BY DEF PortKill, DeleteServer, SettingsSaved, LiveRuns, Live
<1>3. CASE entry' = entry BY <1>1, <1>2, <1>3, NothingSeen
<1>4. CASE entry' # entry
    <2>1. entry' = Absent
        BY <1>4 DEF PortKill, RemoveIfCurrent, DeleteServer, SettingsSaved
    <2>2. ~IsReservation(entry)
        BY <1>4 DEF PortKill, RemoveIfCurrent, DeleteServer, SettingsSaved, StillSleeping,
           IsReservation, IsAdopted, IInv, ThreadsHold
    <2>3. QED BY <1>1, <1>2, <2>1, <2>2, LeaveStep
<1>5. QED BY <1>3, <1>4

\* Stopping an adopted server, and restarting one, mark the run stopping.
LEMMA CommandMarksSlot ==
    ASSUME NEW t \in Threads, IInv, IInv', SleepersStop,
           RconAnswered(t) \/ ForceKillAdopted(t) \/ RestartServer(t)
    PROVE  Implements
<1>1. UNCHANGED <<lastGen, jvm>> /\ LiveRuns' = LiveRuns
    BY DEF RconAnswered, ForceKillAdopted, RestartServer, LiveRuns, Live
<1>2. CASE entry' = entry BY <1>1, <1>2, NothingSeen
<1>3. CASE entry' # entry
    <2>1. entry' = MarkStopping(entry) /\ (entry.child \/ IsAdopted(entry))
        BY <1>3 DEF RconAnswered, ForceKillAdopted, RestartServer, IInv, ThreadsHold
    <2>2. QED
        BY <1>1, <2>1, MarkStoppingFields, MarkStoppingStep DEF IInv, TypeOK
<1>4. QED BY <1>2, <1>3

\* Only a free key is adopted.
LEMMA AdoptExternalSlot ==
    ASSUME NEW t \in Threads, IInv, SleepersStop, AdoptExternal(t) PROVE Implements
<1>1. LiveRuns' = LiveRuns BY DEF AdoptExternal, LiveRuns, Live
<1>2. CASE InMap \/ lastGen = MaxGen
    BY <1>1, <1>2, NothingSeen DEF AdoptExternal
<1>3. CASE ~InMap /\ lastGen # MaxGen
    <2>1. /\ entry' = NewRuntime(lastGen + 1, "running-external", FALSE)
          /\ lastGen' = lastGen + 1
        BY <1>3 DEF AdoptExternal
    <2>2. lastGen + 1 \in Gens /\ lastGen + 1 # 0
        BY <1>3, MaxGenAssumption DEF IInv, TypeOK, Gens
    <2>3. SleepersStop' /\ entry'.gen = lastGen + 1 /\ SlotPhase' = "adopted"
        BY <2>1, <2>2 DEF SleepersStop, NewRuntime, SlotPhase, InMap, IsAdopted
    <2>4. SlotPhase = "free" BY <1>3 DEF SlotPhase
    <2>5. Slot!Adopt
        BY <1>1, <2>1, <2>2, <2>3, <2>4 DEF Slot!Adopt, Slot!TakenBy, LiveRuns
    <2>6. QED BY <2>3, <2>5 DEF Implements, SlotStep, Slot!Next
<1>4. QED BY <1>2, <1>3

\* The commands of one step.
LEMMA OneStepSlot ==
    ASSUME IInv, IInv', SleepersStop, StopSleeping \/ StopServer \/ SleepServer \/ ForceKill
    PROVE  Implements
<1>1. CASE StopSleeping
    <2>1. entry' = Absent /\ ~IsReservation(entry) /\ UNCHANGED <<lastGen, jvm>>
        BY <1>1 DEF StopSleeping, ReleaseSleeping, IsReservation
    <2>2. LiveRuns' = LiveRuns BY <2>1 DEF LiveRuns, Live
    <2>3. QED BY <2>1, <2>2, LeaveStep
<1>2. CASE StopServer \/ SleepServer \/ ForceKill
    <2>1. IsReservation(entry) \/ entry.child
        BY <1>2 DEF StopServer, SleepServer, ForceKill
    <2>2. entry.gen \in Gens
        BY <2>1 DEF IsReservation, IInv, TypeOK, Shape, InMap, Absent, NewRuntime, Runtime,
           Gens
    <2>3. lastGen' = lastGen /\ LiveRuns' = LiveRuns
        <3>1. CASE ForceKill BY <2>2, <3>1, KilledStillLives DEF ForceKill
        <3>2. CASE ~ForceKill BY <1>2, <3>2 DEF StopServer, SleepServer, LiveRuns, Live
        <3>3. QED BY <3>1, <3>2
    <2>4. MarkStopping(entry) \in Runtime BY MarkStoppingFields DEF IInv, TypeOK
    <2>5. /\ entry'.gen = MarkStopping(entry).gen
          /\ entry'.child = MarkStopping(entry).child
          /\ entry'.java = MarkStopping(entry).java
          /\ entry'.state = MarkStopping(entry).state
          /\ entry'.stopRequested = MarkStopping(entry).stopRequested
        BY <1>2, <2>4 DEF StopServer, SleepServer, ForceKill, Runtime
    <2>6. QED
        BY <2>1, <2>3, <2>5, MarkStoppingFields, MarkStoppingStep DEF IInv, TypeOK
<1>3. QED BY <1>1, <1>2

--------------------------------------------------------------------------------
(* The supervisors, the listeners and the processes. *)

\* Steps the slot does not see.
LEMMA WatchersQuietSlot ==
    ASSUME NEW g \in Gens, SleepersStop,
           \/ SupervisorStops(g) \/ Snapshot(g) \/ Probe(g) \/ FinishExit(g)
           \/ BindListener(g) \/ ListenerExits(g) \/ ListenerAccepts(g)
           \/ ListenerServed(g) \/ \E t \in Threads : ListenerWakes(g, t)
    PROVE  Implements
<1>1. UNCHANGED <<entry, lastGen, jvm>>
    BY DEF SupervisorStops, Snapshot, TakeSnapshot, Probe, FinishExit, BindListener,
       ListenerExits, ListenerAccepts, ListenerServed, ListenerWakes
<1>2. LiveRuns' = LiveRuns BY <1>1 DEF LiveRuns, Live
<1>3. QED BY <1>1, <1>2, NothingSeen

\* A JVM that binds its port lives on, one that exits ends.
LEMMA ProcessSlot ==
    ASSUME IInv, SleepersStop,
           \/ \E g \in Gens : JvmBinds(g) \/ JvmExits(g)
           \/ ExternalServer
           \/ UNCHANGED vars
    PROVE  Implements
<1>1. UNCHANGED <<entry, lastGen>> BY DEF JvmBinds, JvmExits, ExternalServer, vars
<1>2. ASSUME NEW g \in Gens, JvmBinds(g) PROVE Implements
    <2>1. LiveRuns' = LiveRuns BY <1>2 DEF JvmBinds, LiveRuns, Live, IInv, TypeOK
    <2>2. QED BY <1>1, <2>1, NothingSeen
<1>3. ASSUME NEW g \in Gens, JvmExits(g) PROVE Implements
    <2>1. LiveRuns' = LiveRuns \ {g}
        BY <1>3 DEF JvmExits, LiveRuns, Live, IInv, TypeOK
    <2>2. QED BY <1>1, <2>1, ProcessEndsStep
<1>4. CASE ExternalServer \/ UNCHANGED vars
    <2>1. LiveRuns' = LiveRuns BY <1>4 DEF ExternalServer, vars, LiveRuns, Live
    <2>2. QED BY <1>1, <2>1, NothingSeen
<1>5. QED BY <1>2, <1>3, <1>4

\* Only a stopping run, whose process is over, goes to sleep.
LEMMA ExitToSleepSlot ==
    ASSUME NEW g \in Gens, IInv, SleepersStop, ExitToSleep(g) PROVE Implements
<1>1. entry.gen = g /\ entry.child /\ entry.stopRequested /\ ~Live(g) /\ InMap
    BY DEF ExitToSleep, ChildExited, SleepersStop, Exited, Live, IInv, TypeOK, InMap, Gens
<1>2. /\ entry'.gen = g /\ ~entry'.child /\ entry'.state = "sleeping"
      /\ entry'.java = entry.java /\ ~entry'.sleepRequested /\ ~entry'.stopRequested
      /\ UNCHANGED lastGen /\ jvm' = Reaped(g)
    BY <1>1 DEF ExitToSleep, IInv, TypeOK, Runtime
<1>3. LiveRuns' = LiveRuns BY <1>1, <1>2, ReapedEnds DEF LiveRuns
<1>4. SlotPhase = "stopping" /\ SlotPhase' = "asleep"
    BY <1>1, <1>2 DEF SlotPhase, InMap, IsAdopted, IInv, Shape
<1>5. Slot!Sleep
    BY <1>1, <1>2, <1>3, <1>4 DEF Slot!Sleep, Slot!ProcessOver, Slot!Become, LiveRuns
<1>6. SleepersStop' BY <1>2 DEF SleepersStop
<1>7. QED BY <1>5, <1>6 DEF Implements, SlotStep, Slot!Next

\* A run that ended, or whose port could not be bound, was no start.
LEMMA SupervisorDropsSlot ==
    ASSUME NEW g \in Gens, IInv, SleepersStop, ExitTerminal(g) \/ BindFails(g)
    PROVE  Implements
<1>1. lastGen' = lastGen BY DEF ExitTerminal, BindFails
<1>2. LiveRuns' = LiveRuns
    <2>1. CASE ExitTerminal(g)
        <3>1. ~Live(g) BY <2>1 DEF ExitTerminal, ChildExited, Exited, Live
        <3>2. QED BY <2>1, <3>1, ReapedEnds DEF ExitTerminal, LiveRuns
    <2>2. CASE BindFails(g) BY <2>2 DEF BindFails, LiveRuns, Live
    <2>3. QED BY <2>1, <2>2
<1>3. CASE entry' = entry BY <1>1, <1>2, <1>3, NothingSeen
<1>4. CASE entry' # entry
    <2>1. entry' = Absent /\ entry.gen = g /\ spc[g] # "none"
        BY <1>4 DEF ExitTerminal, ChildExited, BindFails, RemoveIfCurrent
    <2>2. ~IsReservation(entry) BY <2>1 DEF IInv, StartsOwn
    <2>3. QED BY <1>1, <1>2, <2>1, <2>2, LeaveStep
<1>5. QED BY <1>3, <1>4

\* Handing over the listener changes nothing else of the run.
LEMMA AttachListenerSlot ==
    ASSUME NEW g \in Gens, IInv, SleepersStop, AttachListener(g) PROVE Implements
<1>1. /\ UNCHANGED <<lastGen, jvm>>
      /\ entry'.gen = entry.gen /\ entry'.state = entry.state
      /\ entry'.child = entry.child /\ entry'.java = entry.java
      /\ entry'.stopRequested = entry.stopRequested
      /\ entry'.sleepRequested = entry.sleepRequested
    BY DEF AttachListener, IInv, TypeOK, Runtime
<1>2. UNCHANGED SlotPhase BY <1>1 DEF SlotPhase, InMap, IsAdopted
<1>3. UNCHANGED Slot!slot BY <1>1, <1>2 DEF Slot!slot, Live
<1>4. SleepersStop' BY <1>1 DEF SleepersStop
<1>5. QED BY <1>3, <1>4 DEF Implements, SlotStep

\* A kill that follows a stop leaves the run stopping.
LEMMA EscalateSlot ==
    ASSUME NEW g \in Gens, IInv, SleepersStop, Escalate(g) PROVE Implements
<1>1. jvm' = Killed(g) /\ lastGen' = lastGen BY DEF Escalate, TakeSnapshot
<1>2. /\ entry'.gen = entry.gen /\ entry'.state = entry.state
      /\ entry'.child = entry.child /\ entry'.java = entry.java
      /\ entry'.stopRequested = entry.stopRequested
      /\ entry'.sleepRequested = entry.sleepRequested
    BY DEF Escalate, IInv, TypeOK, Runtime
<1>3. LiveRuns' = LiveRuns BY <1>1, KilledStillLives
<1>4. UNCHANGED SlotPhase BY <1>2 DEF SlotPhase, InMap, IsAdopted
<1>5. UNCHANGED Slot!slot BY <1>1, <1>2, <1>3, <1>4 DEF Slot!slot, LiveRuns
<1>6. SleepersStop' BY <1>2 DEF SleepersStop
<1>7. QED BY <1>5, <1>6 DEF Implements, SlotStep

\* Phase 3 drops an adopted run that went off, or writes a run that is awake
\* back, which takes no request to stop away from it.
LEMMA WriteSlot ==
    ASSUME NEW g \in Gens, IInv, IInv', SleepersStop, Write(g) PROVE Implements
<1>1. lastGen' = lastGen /\ jvm' = jvm BY DEF Write
<1>2. LiveRuns' = LiveRuns BY <1>1 DEF LiveRuns, Live
<1>3. spc[g] = "write" /\ spc'[g] \in {"poll", "done"} BY DEF Write, IInv, TypeOK
<1>4. CASE entry' = entry BY <1>1, <1>2, <1>4, NothingSeen
<1>5. CASE entry' = Absent
    <2>1. CASE entry.gen = g
        <3>1. ~IsReservation(entry) BY <1>3, <2>1 DEF IInv, StartsOwn
        <3>2. QED BY <1>1, <1>2, <1>5, <3>1, LeaveStep
    <2>2. CASE entry.gen # g BY <1>1, <1>2, <2>2, NothingSeen DEF Write
    <2>3. QED BY <2>1, <2>2
<1>6. CASE entry' # entry /\ entry' # Absent
    <2>1. /\ entry.gen = g /\ spc'[g] = "poll"
          /\ \E new \in {NextState(snap[g], acc[g], miss[g]).state}, sleepNow \in BOOLEAN :
                entry' = WriteBack(g, new, sleepNow)
        BY <1>6, FlagsAssumption DEF Write, IInv, TypeOK
    <2>2. /\ entry'.gen = entry.gen /\ entry'.child = entry.child
          /\ entry'.java = entry.java
          /\ \/ /\ entry'.stopRequested = entry.stopRequested
                /\ entry'.sleepRequested = entry.sleepRequested
             \/ entry'.stopRequested
        BY <2>1 DEF WriteBack, IInv, TypeOK, Runtime
    <2>3. entry.state # "sleeping" /\ entry'.state # "sleeping"
        BY <1>3, <2>1, <2>2 DEF IInv, SleepersParked
    <2>4. QED BY <1>1, <1>2, <2>2, <2>3, StopStep DEF SleepersStop
<1>7. QED BY <1>4, <1>5, <1>6

--------------------------------------------------------------------------------
(* Every step, and every behaviour. *)

\* Every step of the lifecycle is a step of the slot, or none.
LEMMA NextSlot == ASSUME IInv, SleepersStop, [Next]_vars PROVE Implements
<1>1. IInv' BY NextInv
<1>2. ASSUME NEW t \in Threads, ThreadStep(t) PROVE Implements
    BY <1>1, <1>2, ThreadQuietSlot, ClaimKeySlot, SpawnJvmSlot, AttachChildSlot,
       ThreadReapsSlot, StartGivesUpSlot, CommandDropsSlot, CommandMarksSlot,
       AdoptExternalSlot DEF ThreadStep, SpawnStep, CommandGoesOn
<1>3. ASSUME NEW t \in Threads, Command(t) PROVE Implements
    BY <1>1, <1>3, ThreadQuietSlot, CommandDropsSlot, CommandMarksSlot DEF Command
<1>4. ASSUME NEW g \in Gens, SupervisorStep(g) PROVE Implements
    BY <1>1, <1>4, WatchersQuietSlot, ExitToSleepSlot, SupervisorDropsSlot, EscalateSlot,
       WriteSlot, AttachListenerSlot DEF SupervisorStep, PollStep
<1>5. ASSUME NEW g \in Gens, ListenerStep(g) PROVE Implements
    BY <1>5, WatchersQuietSlot DEF ListenerStep
<1>6. QED
    BY <1>1, <1>2, <1>3, <1>4, <1>5, OneStepSlot, ProcessSlot DEF Next, OtherStep

\* Whatever starts, stops, sleeps, wakes, restarts and deletes race for a server,
\* its key passes from run to run only as ServerSlot allows.
THEOREM LifecycleIsASlot == Spec => ImplementsSlot
<1>1. Init => IInv /\ SleepersStop
    <2>1. Init => SleepersStop BY DEF Init, SleepersStop, Absent, NewRuntime
    <2>2. QED BY <2>1, InitInv
<1>2. Init => Slot!Init
    BY DEF Init, Slot!Init, SlotPhase, InMap, Absent, NewRuntime, Live
<1>3. (IInv /\ SleepersStop) /\ [Next]_vars =>
          (IInv /\ SleepersStop)' /\ [Slot!Next]_(Slot!slot)
    BY NextInv, NextSlot DEF Implements, SlotStep
<1>4. QED BY <1>1, <1>2, <1>3, PTL DEF Spec, ImplementsSlot, Slot!Spec
================================================================================

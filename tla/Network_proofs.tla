------------------------------ MODULE Network_proofs ------------------------------
(***************************************************************************)
(* Proofs about the networks the window plans and runs, for any number of    *)
(* backends: an operation over the whole network tells what it did, and the  *)
(* plan of a network, written whole, leaves its files agreeing.              *)
(***************************************************************************)
EXTENDS Window_proofs

--------------------------------------------------------------------------------
(* Operations on a whole network.                                               *)

Verbs   == {"start", "ready", "stop"}
Steps   == [verb : Verbs, server : Run!NetServers]
Phases  == {"offline", "crashed", "online", "sleeping", "starting", "closing"}
Kinds   == {"start", "stop", "restart"}
Counts  == [Run!NetServers -> Nat]
Operations ==
    [id : Nat, kind : Kinds, left : Seq(SUBSET Steps), seen : [Run!NetServers -> Phases],
     before : Counts, alone : BOOLEAN, here : BOOLEAN]
StepTasks == [op : Nat, verb : Verbs, server : Run!NetServers, at : {"asked", "java", "sent"}]

RunTypeOK ==
    /\ states \in [Run!NetServers -> Phases] /\ boots \in Counts
    /\ ops \subseteq Operations /\ tasks \subseteq StepTasks
    /\ clicked \in Nat /\ busy \in BOOLEAN /\ troubles \in Nat

\* What an operation has still to do: its tasks, and the stages to come.
Owes(o, verb, s) ==
    \/ \E t \in tasks : t.op = o.id /\ t.verb = verb /\ t.server = s
    \/ \E i \in DOMAIN o.left : [verb |-> verb, server |-> s] \in o.left[i]

\* After a start comes no stop, and after the proxy's start nothing but the proxy.
Before(x, y) ==
    /\ x.verb # "stop" => y.verb # "stop"
    /\ x.verb # "stop" /\ x.server = Run!Proxy => y.server = Run!Proxy

InStageOrder(o) ==
    /\ \A i, j \in DOMAIN o.left : i <= j =>
          \A x \in o.left[i], y \in o.left[j] : Before(x, y)
    /\ \A t \in tasks :
          /\ \A u \in tasks : Before(t, u)
          /\ \A i \in DOMAIN o.left : \A y \in o.left[i] : Before(t, y)

\* What an operation that nobody interferes with has reached for a server: what it
\* does not owe any more is done, and stays done.
Reached(o, s) ==
    /\ o.before[s] <= boots[s]
    /\ o.kind # "stop" /\ ~Owes(o, "start", s) =>
          Run!isUp(states[s]) /\ (o.kind = "restart" => boots[s] > o.before[s])
    /\ o.kind # "stop" /\ ~Owes(o, "ready", s) => states[s] = "online"
    /\ o.kind # "start" /\ ~Owes(o, "stop", s) =>
          Run!isStopped(states[s]) \/ (o.kind = "restart" /\ boots[s] > o.before[s])
    /\ Owes(o, "stop", s) /\ Run!isStopped(o.seen[s]) => Run!isStopped(states[s])
    /\ o.kind = "start" => ~Owes(o, "stop", s)
    /\ o.kind = "stop"  => ~Owes(o, "start", s) /\ ~Owes(o, "ready", s)
    /\ o.kind = "restart" /\ Owes(o, "stop", s) =>
          \A r \in Run!NetServers : Owes(o, "start", r) /\ Owes(o, "ready", r)

AloneInv ==
    \A o \in ops : o.alone =>
        /\ ops = {o} /\ \A t \in tasks : t.op = o.id
        /\ InStageOrder(o) /\ \A s \in Run!NetServers : Reached(o, s)

\* Once an operation reported its success, nothing is under way.
NewsIsFresh == toasted.kind # "none" => ops = {} /\ tasks = {}

RunInv == RunTypeOK /\ AloneInv /\ NewsIsFresh /\ Run!ToastIsTrue

LEMMA TryOrderIsASeq ==
    /\ TryOrder \in Seq(Run!NetServers)
    /\ Run!NetServers = {TryOrder[i] : i \in DOMAIN TryOrder} \union {Run!Proxy}
    /\ \A i \in DOMAIN TryOrder : TryOrder[i] # Run!Proxy
<1>1. TryOrder \in Seq(Backends)
  BY RunAssumption, SeqOfSet DEF TryOrder
<1>2. Run!NetServers = {TryOrder[i] : i \in DOMAIN TryOrder} \union {Run!Proxy}
  BY DEF Run!NetServers, Run!ToSet
<1>3. TryOrder \in [1..Len(TryOrder) -> Run!NetServers] /\ Len(TryOrder) \in Nat
  BY <1>1, <1>2, LenProperties, ElementOfSeq
<1>4. TryOrder \in Seq(Run!NetServers) BY <1>3
<1> QED
  BY <1>1, <1>2, <1>4, RunAssumption, LenProperties, ElementOfSeq DEF Run!Proxy

\* Every stage before every later one, and what the stages ask for.
Ordered(left) ==
    \A i, j \in DOMAIN left : i <= j => \A x \in left[i], y \in left[j] : Before(x, y)
Asks(left, verb, s) == \E i \in DOMAIN left : [verb |-> verb, server |-> s] \in left[i]

LEMMA StagesFollow ==
    ASSUME NEW l \in Seq(SUBSET Steps), NEW m \in Seq(SUBSET Steps), Ordered(l), Ordered(m),
           \A i \in DOMAIN l, j \in DOMAIN m : \A x \in l[i], y \in m[j] : Before(x, y)
    PROVE  /\ l \o m \in Seq(SUBSET Steps) /\ Ordered(l \o m)
           /\ \A verb, s : Asks(l \o m, verb, s) <=> Asks(l, verb, s) \/ Asks(m, verb, s)
<1>1. /\ l \o m \in Seq(SUBSET Steps) /\ Len(l \o m) = Len(l) + Len(m)
      /\ \A i \in 1..(Len(l) + Len(m)) :
            (l \o m)[i] = IF i <= Len(l) THEN l[i] ELSE m[i - Len(l)]
  BY ConcatProperties
<1>2. /\ DOMAIN l = 1..Len(l) /\ DOMAIN m = 1..Len(m) /\ Len(l) \in Nat /\ Len(m) \in Nat
      /\ DOMAIN (l \o m) = 1..(Len(l) + Len(m))
  BY <1>1, LenProperties
<1>3. Ordered(l \o m)
  <2> SUFFICES ASSUME NEW i \in 1..(Len(l) + Len(m)), NEW j \in 1..(Len(l) + Len(m)), i <= j,
                      NEW x \in (l \o m)[i], NEW y \in (l \o m)[j]
               PROVE  Before(x, y)
    BY <1>2 DEF Ordered
  <2>1. CASE j <= Len(l)
    BY <2>1, <1>1, <1>2 DEF Ordered
  <2>2. CASE i > Len(l)
    <3>1. i - Len(l) \in 1..Len(m) /\ j - Len(l) \in 1..Len(m) /\ i - Len(l) <= j - Len(l)
      BY <2>2, <1>2
    <3>2. x \in m[i - Len(l)] /\ y \in m[j - Len(l)]
      BY <2>2, <1>1, <1>2
    <3> QED BY <3>1, <3>2, <1>2 DEF Ordered
  <2>3. CASE i <= Len(l) /\ j > Len(l)
    <3>1. i \in 1..Len(l) /\ j - Len(l) \in 1..Len(m)
      BY <2>3, <1>2
    <3>2. x \in l[i] /\ y \in m[j - Len(l)]
      BY <2>3, <1>1, <1>2
    <3> QED BY <3>1, <3>2, <1>2
  <2> QED BY <2>1, <2>2, <2>3, <1>2
<1>4. ASSUME NEW verb, NEW s
      PROVE  Asks(l \o m, verb, s) <=> Asks(l, verb, s) \/ Asks(m, verb, s)
  <2> DEFINE a == [verb |-> verb, server |-> s]
  <2>1. ASSUME NEW i \in 1..(Len(l) + Len(m)), a \in (l \o m)[i]
        PROVE  Asks(l, verb, s) \/ Asks(m, verb, s)
    <3>1. CASE i <= Len(l) BY <2>1, <3>1, <1>1, <1>2 DEF Asks
    <3>2. CASE i > Len(l)
      <4>1. i - Len(l) \in 1..Len(m) /\ a \in m[i - Len(l)]
        BY <2>1, <3>2, <1>1, <1>2
      <4> QED BY <4>1, <1>2 DEF Asks
    <3> QED BY <3>1, <3>2, <1>2
  <2>2. ASSUME NEW i \in 1..Len(l), a \in l[i] PROVE Asks(l \o m, verb, s)
    <3>1. i \in 1..(Len(l) + Len(m)) /\ a \in (l \o m)[i]
      BY <2>2, <1>1, <1>2
    <3> QED BY <3>1, <1>2 DEF Asks
  <2>3. ASSUME NEW i \in 1..Len(m), a \in m[i] PROVE Asks(l \o m, verb, s)
    <3>1. i + Len(l) \in 1..(Len(l) + Len(m)) /\ a \in (l \o m)[i + Len(l)]
      BY <2>3, <1>1, <1>2
    <3> QED BY <3>1, <1>2 DEF Asks
  <2> QED BY <2>1, <2>2, <2>3, <1>2 DEF Asks
<1> QED BY <1>1, <1>3, <1>4

Modes == {"sequential", "staged"}

LEMMA OddAndEven ==
    ASSUME NEW k \in Nat, NEW i \in 1..k
    PROVE  /\ 2 * i - 1 \in 1..(2 * k) /\ (2 * i - 1) % 2 = 1 /\ (2 * i - 1 + 1) \div 2 = i
           /\ 2 * i \in 1..(2 * k) /\ (2 * i) % 2 # 1 /\ (2 * i + 1) \div 2 = i
<1>1. 2 * i - 1 \in 1..(2 * k) /\ 2 * i \in 1..(2 * k) OBVIOUS
<1>2. (2 * i - 1) % 2 = 1 OBVIOUS
<1>3. (2 * i) % 2 = 0 OBVIOUS
<1>4. (2 * i - 1 + 1) \div 2 = i OBVIOUS
<1>5. (2 * i + 1) \div 2 = i OBVIOUS
<1> QED BY <1>1, <1>2, <1>3, <1>4, <1>5

LEMMA StartStages ==
    ASSUME NEW mode \in Modes
    PROVE  /\ Run!runStart(mode) \in Seq(SUBSET Steps) /\ Ordered(Run!runStart(mode))
           /\ \A s \in Run!NetServers :
                 /\ Asks(Run!runStart(mode), "start", s) /\ Asks(Run!runStart(mode), "ready", s)
                 /\ ~Asks(Run!runStart(mode), "stop", s)
<1> DEFINE n == Len(TryOrder)
           one == [i \in 1..(2 * n) |->
                     Run!Stage(IF i % 2 = 1 THEN "start" ELSE "ready", {TryOrder[(i + 1) \div 2]})]
           all == <<Run!Stage("start", Run!ToSet(TryOrder)), Run!Stage("ready", Run!ToSet(TryOrder))>>
           pro == <<Run!Stage("start", {Run!Proxy}), Run!Stage("ready", {Run!Proxy})>>
           back == IF mode = "sequential" THEN one ELSE all
<1>1. /\ n \in Nat /\ DOMAIN TryOrder = 1..n /\ \A i \in 1..n : TryOrder[i] \in Run!NetServers
      /\ Run!ToSet(TryOrder) = {TryOrder[i] : i \in 1..n} /\ Run!Proxy \in Run!NetServers
      /\ \A s \in Run!NetServers : s # Run!Proxy => \E i \in 1..n : s = TryOrder[i]
      /\ \A i \in 1..n : TryOrder[i] # Run!Proxy
  BY TryOrderIsASeq, LenProperties, ElementOfSeq DEF Run!ToSet
<1>2. /\ back \in Seq(SUBSET Steps)
      /\ \A i \in DOMAIN back : \A x \in back[i] :
            x \in Steps /\ x.verb \in {"start", "ready"} /\ x.server # Run!Proxy
      /\ \A i \in 1..n : Asks(back, "start", TryOrder[i]) /\ Asks(back, "ready", TryOrder[i])
  <2>1. CASE mode = "sequential"
    <3>1. \A i \in 1..(2 * n) : (i + 1) \div 2 \in 1..n BY <1>1
    <3>2. \A i \in 1..(2 * n) : \A x \in one[i] :
             x \in Steps /\ x.verb \in {"start", "ready"} /\ x.server # Run!Proxy
      BY <3>1, <1>1 DEF Run!Stage, Steps, Verbs
    <3>3. one \in Seq(SUBSET Steps) /\ DOMAIN one = 1..(2 * n)
      <4>1. \A i \in 1..(2 * n) : one[i] \in SUBSET Steps BY <3>2
      <4>2. 2 * n \in Nat BY <1>1
      <4>3. one \in [1..(2 * n) -> SUBSET Steps] BY <4>1
      <4>4. DOMAIN one = 1..(2 * n) OBVIOUS
      <4> HIDE DEF one, n
      <4> QED BY <4>2, <4>3, <4>4
    <3>4. ASSUME NEW i \in 1..n
          PROVE  Asks(one, "start", TryOrder[i]) /\ Asks(one, "ready", TryOrder[i])
      <4>1. /\ 2 * i - 1 \in 1..(2 * n) /\ (2 * i - 1) % 2 = 1 /\ (2 * i - 1 + 1) \div 2 = i
            /\ 2 * i \in 1..(2 * n) /\ (2 * i) % 2 # 1 /\ (2 * i + 1) \div 2 = i
        BY <1>1, OddAndEven
      <4>2. /\ one[2 * i - 1] = Run!Stage("start", {TryOrder[i]})
            /\ one[2 * i] = Run!Stage("ready", {TryOrder[i]})
        BY <4>1
      <4>3. /\ [verb |-> "start", server |-> TryOrder[i]] \in one[2 * i - 1]
            /\ [verb |-> "ready", server |-> TryOrder[i]] \in one[2 * i]
        BY <4>2 DEF Run!Stage
      <4> QED BY <4>1, <4>3, <3>3 DEF Asks
    <3>5. back = one BY <2>1
    <3> QED BY <3>2, <3>3, <3>4, <3>5
  <2>2. CASE mode = "staged"
    <3>1. /\ DOMAIN all = {1, 2} /\ all[1] = Run!Stage("start", Run!ToSet(TryOrder))
          /\ all[2] = Run!Stage("ready", Run!ToSet(TryOrder))
      OBVIOUS
    <3>2. \A i \in {1, 2} : \A x \in all[i] :
             x \in Steps /\ x.verb \in {"start", "ready"} /\ x.server # Run!Proxy
      BY <3>1, <1>1 DEF Run!Stage, Steps, Verbs
    <3>3. all[1] \in SUBSET Steps /\ all[2] \in SUBSET Steps BY <3>2
    <3>4. all \in Seq(SUBSET Steps) BY <3>1, <3>3
    <3>5. ASSUME NEW i \in 1..n
          PROVE  Asks(all, "start", TryOrder[i]) /\ Asks(all, "ready", TryOrder[i])
      <4>1. /\ [verb |-> "start", server |-> TryOrder[i]] \in all[1]
            /\ [verb |-> "ready", server |-> TryOrder[i]] \in all[2]
        BY <3>1, <1>1 DEF Run!Stage
      <4> QED BY <4>1, <3>1 DEF Asks
    <3>6. back = all BY <2>2
    <3> QED BY <3>1, <3>2, <3>4, <3>5, <3>6
  <2> QED BY <2>1, <2>2 DEF Modes
<1>3. /\ DOMAIN pro = {1, 2} /\ pro[1] = {[verb |-> "start", server |-> Run!Proxy]}
      /\ pro[2] = {[verb |-> "ready", server |-> Run!Proxy]} /\ pro \in Seq(SUBSET Steps)
  <2>1. Run!Stage("start", {Run!Proxy}) = {[verb |-> "start", server |-> Run!Proxy]}
    BY DEF Run!Stage
  <2>2. Run!Stage("ready", {Run!Proxy}) = {[verb |-> "ready", server |-> Run!Proxy]}
    BY DEF Run!Stage
  <2>3. Run!Stage("start", {Run!Proxy}) \in SUBSET Steps /\ Run!Stage("ready", {Run!Proxy}) \in SUBSET Steps
    <3>1. \A verb \in Verbs : [verb |-> verb, server |-> Run!Proxy] \in Steps
      BY <1>1 DEF Steps
    <3>2. "start" \in Verbs /\ "ready" \in Verbs BY DEF Verbs
    <3> QED BY <2>1, <2>2, <3>1, <3>2
  <2> HIDE DEF Steps
  <2> QED BY <2>1, <2>2, <2>3
<1>7. Run!runStart(mode) = back \o pro
  BY DEF Run!runStart
<1> HIDE DEF back, pro
<1>4. Ordered(back) BY <1>2 DEF Ordered, Before
<1>5. Ordered(pro) BY <1>3 DEF Ordered, Before
<1>6. \A i \in DOMAIN back, j \in DOMAIN pro : \A x \in back[i], y \in pro[j] : Before(x, y)
  BY <1>2, <1>3 DEF Before
<1>8. /\ back \o pro \in Seq(SUBSET Steps) /\ Ordered(back \o pro)
      /\ \A verb, s : Asks(back \o pro, verb, s) <=> Asks(back, verb, s) \/ Asks(pro, verb, s)
  BY <1>2, <1>3, <1>4, <1>5, <1>6, StagesFollow
<1>9. ASSUME NEW s \in Run!NetServers
      PROVE  /\ Asks(back \o pro, "start", s) /\ Asks(back \o pro, "ready", s)
             /\ ~Asks(back \o pro, "stop", s)
  <2>1. ~Asks(back, "stop", s) BY <1>2 DEF Asks
  <2>2. ~Asks(pro, "stop", s) BY <1>3 DEF Asks
  <2>3. CASE s = Run!Proxy
    <3>1. Asks(pro, "start", s) /\ Asks(pro, "ready", s) BY <2>3, <1>3 DEF Asks
    <3> QED BY <3>1, <2>1, <2>2, <1>8
  <2>4. CASE s # Run!Proxy
    <3>1. PICK i \in 1..n : s = TryOrder[i] BY <2>4, <1>1
    <3>2. Asks(back, "start", s) /\ Asks(back, "ready", s) BY <3>1, <1>2
    <3> QED BY <3>2, <2>1, <2>2, <1>8
  <2> QED BY <2>3, <2>4
<1> QED BY <1>7, <1>8, <1>9

LEMMA StopStages ==
    ASSUME NEW mode \in Modes
    PROVE  /\ Run!runStop(mode) \in Seq(SUBSET Steps) /\ Ordered(Run!runStop(mode))
           /\ \A s \in Run!NetServers :
                 /\ Asks(Run!runStop(mode), "stop", s) /\ ~Asks(Run!runStop(mode), "start", s)
                 /\ ~Asks(Run!runStop(mode), "ready", s)
           /\ \A i \in DOMAIN Run!runStop(mode) : \A x \in Run!runStop(mode)[i] : x.verb = "stop"
<1> DEFINE n == Len(TryOrder)
           one == [i \in DOMAIN TryOrder |-> Run!Stage("stop", {TryOrder[i]})]
           all == <<Run!Stage("stop", Run!ToSet(TryOrder))>>
           pro == <<Run!Stage("stop", {Run!Proxy})>>
           back == IF mode = "sequential" THEN one ELSE all
<1>1. /\ n \in Nat /\ DOMAIN TryOrder = 1..n /\ \A i \in 1..n : TryOrder[i] \in Run!NetServers
      /\ Run!ToSet(TryOrder) = {TryOrder[i] : i \in 1..n} /\ Run!Proxy \in Run!NetServers
      /\ \A s \in Run!NetServers : s # Run!Proxy => \E i \in 1..n : s = TryOrder[i]
  BY TryOrderIsASeq, LenProperties, ElementOfSeq DEF Run!ToSet
<1>2. /\ back \in Seq(SUBSET Steps)
      /\ \A i \in DOMAIN back : \A x \in back[i] : x.verb = "stop"
      /\ \A i \in 1..n : Asks(back, "stop", TryOrder[i])
  <2>1. CASE mode = "sequential"
    <3>1. /\ DOMAIN one = 1..n
          /\ \A i \in 1..n : one[i] = Run!Stage("stop", {TryOrder[i]})
      BY <1>1
    <3>2. \A i \in 1..n : \A x \in one[i] : x \in Steps /\ x.verb = "stop"
      BY <3>1, <1>1 DEF Run!Stage, Steps, Verbs
    <3>3. one \in Seq(SUBSET Steps)
      <4>1. \A i \in 1..n : one[i] \in SUBSET Steps BY <3>2
      <4>2. one = [i \in 1..n |-> one[i]] BY <1>1
      <4> HIDE DEF one, n
      <4> QED BY <4>1, <4>2, <1>1
    <3>4. \A i \in 1..n : Asks(one, "stop", TryOrder[i])
      BY <3>1 DEF Asks, Run!Stage
    <3>5. back = one BY <2>1
    <3> QED BY <3>1, <3>2, <3>3, <3>4, <3>5
  <2>2. CASE mode = "staged"
    <3>1. DOMAIN all = {1} /\ all[1] = Run!Stage("stop", Run!ToSet(TryOrder)) OBVIOUS
    <3>2. \A x \in all[1] : x \in Steps /\ x.verb = "stop"
      BY <3>1, <1>1 DEF Run!Stage, Steps, Verbs
    <3>3. all[1] \in SUBSET Steps BY <3>2
    <3>4. all \in Seq(SUBSET Steps) BY <3>1, <3>3
    <3>5. \A i \in 1..n : [verb |-> "stop", server |-> TryOrder[i]] \in all[1]
      BY <3>1, <1>1 DEF Run!Stage
    <3>6. \A i \in 1..n : Asks(all, "stop", TryOrder[i])
      BY <3>1, <3>5 DEF Asks
    <3>7. back = all BY <2>2
    <3> QED BY <3>1, <3>2, <3>4, <3>6, <3>7
  <2> QED BY <2>1, <2>2 DEF Modes
<1>3. /\ DOMAIN pro = {1} /\ pro[1] = {[verb |-> "stop", server |-> Run!Proxy]}
      /\ pro \in Seq(SUBSET Steps)
  <2>1. Run!Stage("stop", {Run!Proxy}) = {[verb |-> "stop", server |-> Run!Proxy]}
    BY DEF Run!Stage
  <2>2. [verb |-> "stop", server |-> Run!Proxy] \in Steps
    BY <1>1 DEF Steps, Verbs
  <2> HIDE DEF Steps
  <2> QED BY <2>1, <2>2
<1>4. Run!runStop(mode) = pro \o back
  BY <1>1 DEF Run!runStop
<1> HIDE DEF back, pro
<1>5. /\ Ordered(back) /\ Ordered(pro)
      /\ \A i \in DOMAIN pro, j \in DOMAIN back : \A x \in pro[i], y \in back[j] : Before(x, y)
  BY <1>2, <1>3 DEF Ordered, Before
<1>6. /\ pro \o back \in Seq(SUBSET Steps) /\ Ordered(pro \o back)
      /\ \A verb, s : Asks(pro \o back, verb, s) <=> Asks(pro, verb, s) \/ Asks(back, verb, s)
  BY <1>2, <1>3, <1>5, StagesFollow
<1>7. ASSUME NEW s \in Run!NetServers
      PROVE  /\ Asks(pro \o back, "stop", s) /\ ~Asks(pro \o back, "start", s)
             /\ ~Asks(pro \o back, "ready", s)
  <2>1. ~Asks(back, "start", s) /\ ~Asks(back, "ready", s) BY <1>2 DEF Asks
  <2>2. ~Asks(pro, "start", s) /\ ~Asks(pro, "ready", s) BY <1>3 DEF Asks
  <2>3. CASE s = Run!Proxy
    <3>1. Asks(pro, "stop", s) BY <2>3, <1>3 DEF Asks
    <3> QED BY <3>1, <2>1, <2>2, <1>6
  <2>4. CASE s # Run!Proxy
    <3>1. PICK i \in 1..n : s = TryOrder[i] BY <2>4, <1>1
    <3>2. Asks(back, "stop", s) BY <3>1, <1>2
    <3> QED BY <3>2, <2>1, <2>2, <1>6
  <2> QED BY <2>3, <2>4
<1>8. \A i \in DOMAIN (pro \o back) : \A x \in (pro \o back)[i] : x.verb = "stop"
  <2>1. /\ Len(pro \o back) = Len(pro) + Len(back)
        /\ \A i \in 1..(Len(pro) + Len(back)) :
              (pro \o back)[i] = IF i <= Len(pro) THEN pro[i] ELSE back[i - Len(pro)]
    BY <1>2, <1>3, ConcatProperties
  <2>2. /\ DOMAIN (pro \o back) = 1..Len(pro \o back)
        /\ DOMAIN pro = 1..Len(pro) /\ DOMAIN back = 1..Len(back)
        /\ Len(pro) \in Nat /\ Len(back) \in Nat
    BY <1>2, <1>3, <1>6, LenProperties
  <2>3. \A x \in pro[1] : x.verb = "stop" BY <1>3
  <2>4. SUFFICES ASSUME NEW i \in 1..(Len(pro) + Len(back)), NEW x \in (pro \o back)[i]
                 PROVE  x.verb = "stop"
    BY <2>1, <2>2
  <2>5. CASE i <= Len(pro)
    <3>1. i \in DOMAIN pro /\ x \in pro[i] BY <2>1, <2>2, <2>5
    <3> QED BY <3>1, <2>3, <1>3
  <2>6. CASE i > Len(pro)
    <3>1. i - Len(pro) \in DOMAIN back /\ x \in back[i - Len(pro)] BY <2>1, <2>2, <2>6
    <3> QED BY <3>1, <1>2
  <2> QED BY <2>2, <2>5, <2>6
<1> QED BY <1>4, <1>6, <1>7, <1>8

LEMMA StagesFit ==
    ASSUME NEW k \in Kinds, NEW mode \in Modes
    PROVE  /\ Run!Stages(k, mode) \in Seq(SUBSET Steps) /\ Ordered(Run!Stages(k, mode))
           /\ \A s \in Run!NetServers :
                 /\ Asks(Run!Stages(k, mode), "start", s) <=> k # "stop"
                 /\ Asks(Run!Stages(k, mode), "ready", s) <=> k # "stop"
                 /\ Asks(Run!Stages(k, mode), "stop", s) <=> k # "start"
<1> DEFINE up == Run!runStart(mode)  down == Run!runStop(mode)
<1>1. /\ up \in Seq(SUBSET Steps) /\ Ordered(up)
      /\ \A s \in Run!NetServers :
            Asks(up, "start", s) /\ Asks(up, "ready", s) /\ ~Asks(up, "stop", s)
  BY StartStages
<1>2. /\ down \in Seq(SUBSET Steps) /\ Ordered(down)
      /\ \A s \in Run!NetServers :
            Asks(down, "stop", s) /\ ~Asks(down, "start", s) /\ ~Asks(down, "ready", s)
      /\ \A i \in DOMAIN down : \A x \in down[i] : x.verb = "stop"
  BY StopStages
<1>3. Run!Stages(k, mode) = IF k = "start" THEN up ELSE IF k = "stop" THEN down ELSE down \o up
  BY DEF Run!Stages, Kinds
<1> HIDE DEF up, down
<1>4. \A i \in DOMAIN down, j \in DOMAIN up : \A x \in down[i], y \in up[j] : Before(x, y)
  BY <1>2 DEF Before
<1>5. /\ down \o up \in Seq(SUBSET Steps) /\ Ordered(down \o up)
      /\ \A verb, s : Asks(down \o up, verb, s) <=> Asks(down, verb, s) \/ Asks(up, verb, s)
  BY <1>1, <1>2, <1>4, StagesFollow
<1> QED BY <1>1, <1>2, <1>3, <1>5 DEF Kinds

LEMMA RunStarts == ASSUME Init PROVE RunInv
<1>1. Run!RunInit BY DEF Init
<1>2. RunTypeOK
  BY <1>1 DEF Run!RunInit, RunTypeOK, Phases, Counts
<1>3. ops = {} /\ tasks = {} /\ toasted.kind = "none"
  BY <1>1 DEF Run!RunInit, Run!Nothing
<1> QED BY <1>2, <1>3 DEF RunInv, AloneInv, NewsIsFresh, Run!ToastIsTrue

LEMMA OperationChanges ==
    ASSUME NEW o \in Operations
    PROVE  /\ [o EXCEPT !.alone = FALSE] \in Operations
           /\ [o EXCEPT !.here = FALSE] \in Operations
           /\ o.left # <<>> => [o EXCEPT !.left = Tail(@)] \in Operations
<1>1. o.left \in Seq(SUBSET Steps) BY DEF Operations
<1>2. o.left # <<>> => Tail(o.left) \in Seq(SUBSET Steps) BY <1>1, HeadTailProperties
<1> QED BY <1>2 DEF Operations

LEMMA TaskChanges ==
    ASSUME NEW t \in StepTasks, NEW at \in {"asked", "java", "sent"}
    PROVE  [t EXCEPT !.at = at] \in StepTasks
BY DEF StepTasks

LEMMA StageTasks ==
    ASSUME NEW o \in Operations, o.left # <<>>
    PROVE  /\ Head(o.left) \subseteq Steps
           /\ {[op |-> o.id, verb |-> t.verb, server |-> t.server, at |-> "asked"] :
                  t \in Head(o.left)} \subseteq StepTasks
<1>1. o.left \in Seq(SUBSET Steps) /\ o.id \in Nat BY DEF Operations
<1>2. Head(o.left) \in SUBSET Steps BY <1>1, HeadTailProperties
<1> QED BY <1>1, <1>2 DEF Steps, StepTasks

LEMMA RunTyped == ASSUME RunTypeOK, [Run!RunNext]_runVars PROVE RunTypeOK'
<1> USE DEF RunTypeOK
<1>1. CASE UNCHANGED runVars BY <1>1 DEF runVars
<1>2. ASSUME NEW k \in Kinds, NEW mode \in Modes, Run!withBusy(k, mode) PROVE RunTypeOK'
  <2> DEFINE new == [id |-> clicked, kind |-> k, left |-> Run!Stages(k, mode), seen |-> states,
                     before |-> boots, alone |-> ops = {} /\ tasks = {}, here |-> TRUE]
  <2>1. new \in Operations BY StagesFit DEF Operations
  <2>2. ops' = {[o EXCEPT !.alone = FALSE] : o \in ops} \union {new}
    BY <1>2 DEF Run!withBusy
  <2> HIDE DEF new
  <2>3. ops' \subseteq Operations BY <2>1, <2>2, OperationChanges
  <2> QED BY <1>2, <2>3 DEF Run!withBusy
<1>3. ASSUME Run!LeavePage PROVE RunTypeOK'
  BY <1>3, OperationChanges DEF Run!LeavePage
<1>4. ASSUME NEW o \in ops, Run!NextStage(o) PROVE RunTypeOK'
  <2>1. ops' \subseteq Operations BY <1>4, OperationChanges DEF Run!NextStage
  <2>2. tasks' \subseteq StepTasks BY <1>4, StageTasks DEF Run!NextStage
  <2> QED BY <1>4, <2>1, <2>2 DEF Run!NextStage
<1>5. ASSUME NEW o \in ops, Run!Succeeds(o) PROVE RunTypeOK'
  BY <1>5 DEF Run!Succeeds, Run!Ends
<1>6. ASSUME NEW t \in tasks,
             Run!startOne(t) \/ Run!StartsWithJava(t) \/ Run!awaitReady(t) \/ Run!stopOne(t)
             \/ Run!StopAwaited(t)
      PROVE  RunTypeOK'
  <2>1. t \in StepTasks /\ t.server \in Run!NetServers BY DEF StepTasks
  <2>2. ops' = ops /\ clicked' = clicked /\ busy' = busy /\ troubles' = troubles
    BY <1>6 DEF Run!startOne, Run!StartsWithJava, Run!awaitReady, Run!stopOne, Run!StopAwaited,
                Run!TaskDone, Run!TaskGoesOn
  <2>3. tasks' = tasks \ {t} \/ \E at \in {"asked", "java", "sent"} :
                                    tasks' = (tasks \ {t}) \union {[t EXCEPT !.at = at]}
    BY <1>6 DEF Run!startOne, Run!StartsWithJava, Run!awaitReady, Run!stopOne, Run!StopAwaited,
                Run!TaskDone, Run!TaskGoesOn
  <2>4. tasks' \subseteq StepTasks BY <2>1, <2>3, TaskChanges
  <2>5. states' = states \/ \E p \in Phases : states' = [states EXCEPT ![t.server] = p]
    BY <1>6, <2>1 DEF Run!startOne, Run!StartsWithJava, Run!awaitReady, Run!stopOne,
                Run!StopAwaited, Run!Boots, Phases
  <2>6. boots' = boots \/ boots' = [boots EXCEPT ![t.server] = @ + 1]
    BY <1>6 DEF Run!startOne, Run!StartsWithJava, Run!awaitReady, Run!stopOne,
                Run!StopAwaited, Run!Boots
  <2> QED BY <2>1, <2>2, <2>4, <2>5, <2>6 DEF Counts
<1>7. ASSUME NEW t \in tasks, Run!TaskFails(t) PROVE RunTypeOK'
  <2>1. /\ tasks' = tasks \ {t} /\ ops' \subseteq ops /\ busy' \in BOOLEAN
        /\ UNCHANGED <<states, boots, clicked, troubles>>
    BY <1>7 DEF Run!TaskFails, Run!Fails, Run!Ends
  <2> QED BY <2>1
<1>8. ASSUME NEW s \in Run!NetServers, Run!ComesUp(s) \/ Run!GoesDown(s) PROVE RunTypeOK'
  BY <1>8 DEF Run!ComesUp, Run!GoesDown, Phases
<1>9. ASSUME NEW s \in Run!NetServers, Run!Trouble(s) PROVE RunTypeOK'
  <2>1. ops' \subseteq Operations BY <1>9, OperationChanges DEF Run!Trouble
  <2>2. states' \in [Run!NetServers -> Phases] /\ boots' \in Counts
    BY <1>9 DEF Run!Trouble, Run!Boots, Phases, Counts
  <2> QED BY <1>9, <2>1, <2>2 DEF Run!Trouble
<1> QED
  BY <1>1, <1>2, <1>3, <1>4, <1>5, <1>6, <1>7, <1>8, <1>9 DEF Run!RunNext, Kinds, Modes

\* A task that ends is owed no more; one that goes on is.
LEMMA TaskEnds ==
    ASSUME RunInv, NEW o \in ops, o.alone, NEW t \in tasks, tasks' = tasks \ {t}
    PROVE  /\ InStageOrder(o)' /\ \A u \in tasks' : u.op = o.id
           /\ \A verb, s : Owes(o, verb, s)' => Owes(o, verb, s)
           /\ \A verb, s : Owes(o, verb, s) /\ (verb # t.verb \/ s # t.server) => Owes(o, verb, s)'
BY DEF RunInv, AloneInv, InStageOrder, Owes

LEMMA TaskStays ==
    ASSUME RunInv, NEW o \in ops, o.alone, NEW t \in tasks, NEW at,
           tasks' = (tasks \ {t}) \union {[t EXCEPT !.at = at]}
    PROVE  /\ InStageOrder(o)' /\ \A u \in tasks' : u.op = o.id
           /\ \A verb, s : Owes(o, verb, s)' <=> Owes(o, verb, s)
<1> DEFINE u == [t EXCEPT !.at = at]
<1>1. t \in StepTasks BY DEF RunInv, RunTypeOK
<1>2. u.op = t.op /\ u.verb = t.verb /\ u.server = t.server BY <1>1 DEF StepTasks
<1>3. tasks' = (tasks \ {t}) \union {u} OBVIOUS
<1>4. InStageOrder(o) /\ \A v \in tasks : v.op = o.id BY DEF RunInv, AloneInv
<1> HIDE DEF u
<1>5. \A v \in tasks' : \E w \in tasks : w.op = v.op /\ w.verb = v.verb /\ w.server = v.server
  BY <1>2, <1>3
<1>6. \A w \in tasks : \E v \in tasks' : w.op = v.op /\ w.verb = v.verb /\ w.server = v.server
  BY <1>2, <1>3
<1>7. InStageOrder(o)' BY <1>4, <1>5 DEF InStageOrder, Before
<1>8. \A v \in tasks' : v.op = o.id BY <1>4, <1>5
<1>9. \A verb, s : Owes(o, verb, s)' <=> Owes(o, verb, s) BY <1>5, <1>6 DEF Owes
<1> QED BY <1>7, <1>8, <1>9

RunGood == AloneInv /\ NewsIsFresh /\ Run!ToastIsTrue

\* With a task or an operation under way nothing was reported.
LEMMA NothingReported ==
    ASSUME RunInv, ops # {} \/ tasks # {}, toasted' = toasted
    PROVE  NewsIsFresh' /\ Run!ToastIsTrue'
BY DEF RunInv, NewsIsFresh, Run!ToastIsTrue

\* What holds of a task of an operation nobody interferes with.
LEMMA TaskOfTheOne ==
    ASSUME RunInv, NEW o \in ops, o.alone, NEW t \in tasks
    PROVE  /\ ops = {o} /\ t.op = o.id /\ t.server \in Run!NetServers /\ t.verb \in Verbs
           /\ o.kind \in Kinds /\ o.before \in Counts /\ boots \in Counts
           /\ Owes(o, t.verb, t.server)
           /\ t.verb # "stop" => \A s : ~Owes(o, "stop", s)
           /\ \A s \in Run!NetServers : Reached(o, s)
<1>1. t \in StepTasks /\ o \in Operations BY DEF RunInv, RunTypeOK
<1>2. /\ ops = {o} /\ \A u \in tasks : u.op = o.id
      /\ InStageOrder(o) /\ \A s \in Run!NetServers : Reached(o, s)
  BY DEF RunInv, AloneInv
<1>3. ASSUME t.verb # "stop", NEW s PROVE ~Owes(o, "stop", s)
  <2>1. \A u \in tasks : u.verb # "stop" BY <1>2, <1>3 DEF InStageOrder, Before
  <2>2. \A i \in DOMAIN o.left : [verb |-> "stop", server |-> s] \notin o.left[i]
    BY <1>2, <1>3 DEF InStageOrder, Before
  <2> QED BY <2>1, <2>2 DEF Owes
<1>4. Owes(o, t.verb, t.server) BY <1>2 DEF Owes
<1> QED BY <1>1, <1>2, <1>3, <1>4 DEF StepTasks, Operations, RunInv, RunTypeOK

LEMMA RunClicked ==
    ASSUME RunInv, NEW k \in Kinds, NEW mode \in Modes, Run!withBusy(k, mode) PROVE RunGood'
<1>0. PICK new : new = [id |-> clicked, kind |-> k, left |-> Run!Stages(k, mode), seen |-> states,
                        before |-> boots, alone |-> ops = {} /\ tasks = {}, here |-> TRUE]
  OBVIOUS
<1>5. /\ new.left = Run!Stages(k, mode) /\ new.kind = k /\ new.seen = states /\ new.before = boots
      /\ new.alone <=> (ops = {} /\ tasks = {})
  BY <1>0
<1>1. /\ ops' = {[o EXCEPT !.alone = FALSE] : o \in ops} \union {new} /\ toasted' = Run!Nothing
      /\ UNCHANGED <<states, boots, tasks>>
  BY <1>0 DEF Run!withBusy
<1>2. toasted'.kind = "none" BY <1>1 DEF Run!Nothing
<1>3. ASSUME NEW p \in ops', p.alone PROVE p = new /\ ops = {} /\ tasks = {}
  <2>1. \A o \in ops : ~[o EXCEPT !.alone = FALSE].alone
    BY DEF RunInv, RunTypeOK, Operations
  <2>2. p = new BY <1>1, <1>3, <2>1
  <2> QED BY <1>3, <1>5, <2>2
<1>4. /\ Run!Stages(k, mode) \in Seq(SUBSET Steps) /\ Ordered(Run!Stages(k, mode))
      /\ \A s \in Run!NetServers :
            /\ Asks(Run!Stages(k, mode), "start", s) <=> k # "stop"
            /\ Asks(Run!Stages(k, mode), "ready", s) <=> k # "stop"
            /\ Asks(Run!Stages(k, mode), "stop", s) <=> k # "start"
  BY StagesFit
<1>6. ASSUME ops = {}, tasks = {}
      PROVE  /\ ops' = {new} /\ tasks' = {} /\ InStageOrder(new)'
             /\ \A s \in Run!NetServers : Reached(new, s)'
  <2>1. ops' = {new} /\ tasks' = {} BY <1>1, <1>6
  <2>2. InStageOrder(new)' BY <2>1, <1>4, <1>5 DEF InStageOrder, Ordered
  <2>3. ASSUME NEW s \in Run!NetServers
        PROVE  /\ Owes(new, "start", s)' <=> k # "stop"
               /\ Owes(new, "ready", s)' <=> k # "stop"
               /\ Owes(new, "stop", s)' <=> k # "start"
    BY <2>1, <1>4, <1>5 DEF Owes, Asks
  <2>4. \A s \in Run!NetServers : boots[s] <= boots[s]
    BY DEF RunInv, RunTypeOK, Counts
  <2>5. \A s \in Run!NetServers : Reached(new, s)'
    BY <2>3, <2>4, <1>1, <1>5 DEF Reached, Kinds
  <2> QED BY <2>1, <2>2, <2>5
<1>7. AloneInv' BY <1>3, <1>6 DEF AloneInv
<1> QED BY <1>2, <1>7 DEF RunGood, NewsIsFresh, Run!ToastIsTrue

LEMMA PageLeft == ASSUME RunInv, Run!LeavePage PROVE RunGood'
<1>1. /\ ops' = {[o EXCEPT !.here = FALSE] : o \in ops}
      /\ UNCHANGED <<states, boots, tasks, toasted>>
  BY DEF Run!LeavePage
<1>2. NewsIsFresh' /\ Run!ToastIsTrue'
  BY <1>1 DEF RunInv, NewsIsFresh, Run!ToastIsTrue
<1>3. ASSUME NEW p \in ops', p.alone
      PROVE  /\ ops' = {p} /\ \A t \in tasks' : t.op = p.id
             /\ InStageOrder(p)' /\ \A s \in Run!NetServers : Reached(p, s)'
  <2>1. PICK o \in ops : p = [o EXCEPT !.here = FALSE] BY <1>1
  <2>2. /\ p.id = o.id /\ p.kind = o.kind /\ p.left = o.left /\ p.seen = o.seen
        /\ p.before = o.before /\ p.alone = o.alone
    BY <2>1 DEF RunInv, RunTypeOK, Operations
  <2>3. /\ ops = {o} /\ \A t \in tasks : t.op = o.id
        /\ InStageOrder(o) /\ \A s \in Run!NetServers : Reached(o, s)
    BY <1>3, <2>2 DEF RunInv, AloneInv
  <2>4. InStageOrder(p)' BY <2>2, <2>3, <1>1 DEF InStageOrder
  <2>5. \A verb, s : Owes(p, verb, s)' <=> Owes(o, verb, s)
    BY <2>2, <1>1 DEF Owes
  <2>6. \A s \in Run!NetServers : Reached(p, s)'
    BY <2>2, <2>3, <2>5, <1>1 DEF Reached
  <2> QED BY <2>1, <2>2, <2>3, <2>4, <2>6, <1>1
<1> QED BY <1>2, <1>3 DEF RunGood, AloneInv

LEMMA StageBegins == ASSUME RunInv, NEW o \in ops, Run!NextStage(o) PROVE RunGood'
<1> DEFINE new == {[op |-> o.id, verb |-> t.verb, server |-> t.server, at |-> "asked"] :
                      t \in Head(o.left)}
           p == [o EXCEPT !.left = Tail(@)]
<1>1. /\ o.left # <<>> /\ Run!TasksOf(o) = {} /\ tasks' = tasks \union new
      /\ ops' = (ops \ {o}) \union {p}
      /\ UNCHANGED <<states, boots, toasted>>
  BY DEF Run!NextStage
<1>2. NewsIsFresh' /\ Run!ToastIsTrue' BY <1>1, NothingReported
<1>3. /\ o \in Operations /\ p.id = o.id /\ p.kind = o.kind /\ p.left = Tail(o.left)
      /\ p.seen = o.seen /\ p.before = o.before /\ p.alone = o.alone
  BY DEF RunInv, RunTypeOK, Operations
<1>4. ASSUME NEW q \in ops', q.alone PROVE q = p /\ ops = {o} /\ o.alone
  BY <1>1, <1>3, <1>4 DEF RunInv, AloneInv
<1>5. /\ o.left \in Seq(SUBSET Steps) /\ Len(o.left) \in Nat /\ DOMAIN o.left = 1..Len(o.left)
      /\ Len(o.left) >= 1 /\ Head(o.left) = o.left[1]
      /\ DOMAIN Tail(o.left) = 1..(Len(o.left) - 1)
      /\ \A i \in 1..(Len(o.left) - 1) : Tail(o.left)[i] = o.left[i + 1]
  <2>1. o.left \in Seq(SUBSET Steps) BY <1>3 DEF Operations
  <2>2. /\ Len(o.left) \in Nat /\ DOMAIN o.left = 1..Len(o.left) /\ Head(o.left) = o.left[1]
        /\ Tail(o.left) \in Seq(SUBSET Steps) /\ Len(Tail(o.left)) = Len(o.left) - 1
        /\ \A i \in 1..Len(Tail(o.left)) : Tail(o.left)[i] = o.left[i + 1]
    BY <2>1, <1>1, HeadTailProperties, LenProperties
  <2>3. Len(o.left) # 0 BY <2>1, <1>1, EmptySeq
  <2> QED BY <2>1, <2>2, <2>3, LenProperties
<1>6. ASSUME o.alone
      PROVE  /\ ops' = {p} /\ \A t \in tasks' : t.op = p.id
             /\ InStageOrder(p)' /\ \A s \in Run!NetServers : Reached(p, s)'
  <2>1. /\ ops = {o} /\ \A t \in tasks : t.op = o.id
        /\ InStageOrder(o) /\ \A s \in Run!NetServers : Reached(o, s)
    BY <1>6 DEF RunInv, AloneInv
  <2>2. tasks = {} /\ tasks' = new BY <2>1, <1>1 DEF Run!TasksOf
  <2>3. \A t \in new : \E x \in o.left[1] :
           t.op = o.id /\ t.verb = x.verb /\ t.server = x.server
    BY <1>5
  <2>4. \A x \in o.left[1] : \E t \in new :
           t.op = o.id /\ t.verb = x.verb /\ t.server = x.server
    <3>1. SUFFICES ASSUME NEW x \in o.left[1]
                   PROVE  \E t \in new : t.op = o.id /\ t.verb = x.verb /\ t.server = x.server
      OBVIOUS
    <3>2. [op |-> o.id, verb |-> x.verb, server |-> x.server, at |-> "asked"] \in new
      BY <1>5
    <3> HIDE DEF new
    <3> QED BY <3>2
  <2> HIDE DEF new, p
  <2>5. InStageOrder(p)'
    <3>1. \A i, j \in DOMAIN p.left : i <= j => \A x \in p.left[i], y \in p.left[j] : Before(x, y)
      BY <2>1, <1>3, <1>5 DEF InStageOrder
    <3>2. \A t \in new, u \in new : Before(t, u)
      BY <2>1, <2>3, <1>5 DEF InStageOrder, Before
    <3>3. \A t \in new : \A i \in DOMAIN p.left : \A y \in p.left[i] : Before(t, y)
      BY <2>1, <2>3, <1>3, <1>5 DEF InStageOrder, Before
    <3> QED BY <3>1, <3>2, <3>3, <2>2 DEF InStageOrder
  <2>6. ASSUME NEW verb, NEW s PROVE Owes(p, verb, s)' <=> Owes(o, verb, s)
    <3> DEFINE a == [verb |-> verb, server |-> s]
    <3>1. a.verb = verb /\ a.server = s OBVIOUS
    <3>2. \A x \in o.left[1] : x.verb = verb /\ x.server = s => x = a
      BY <1>5 DEF Steps
    <3> HIDE DEF a
    <3>3. (\E t \in new : t.op = p.id /\ t.verb = verb /\ t.server = s) <=> a \in o.left[1]
      BY <3>1, <3>2, <2>3, <2>4, <1>3
    <3>4. (\E i \in DOMAIN p.left : a \in p.left[i])
             <=> \E i \in 2..Len(o.left) : a \in o.left[i]
      <4>1. ASSUME NEW i \in 2..Len(o.left)
            PROVE  i - 1 \in 1..(Len(o.left) - 1) /\ o.left[i] = Tail(o.left)[i - 1]
        BY <1>5
      <4>2. ASSUME NEW i \in 1..(Len(o.left) - 1)
            PROVE  i + 1 \in 2..Len(o.left) /\ o.left[i + 1] = Tail(o.left)[i]
        BY <1>5
      <4>3. DOMAIN p.left = 1..(Len(o.left) - 1) /\ p.left = Tail(o.left) BY <1>3, <1>5
      <4> QED BY <4>1, <4>2, <4>3
    <3>5. (\E i \in DOMAIN o.left : a \in o.left[i])
             <=> (a \in o.left[1] \/ \E i \in 2..Len(o.left) : a \in o.left[i])
      BY <1>5
    <3>6. Owes(p, verb, s)' <=> \/ \E t \in new : t.op = p.id /\ t.verb = verb /\ t.server = s
                                \/ \E i \in DOMAIN p.left : a \in p.left[i]
      BY <2>2 DEF Owes, a
    <3>7. Owes(o, verb, s) <=> \E i \in DOMAIN o.left : a \in o.left[i]
      BY <2>2 DEF Owes, a
    <3> QED BY <3>3, <3>4, <3>5, <3>6, <3>7
  <2>7. \A s \in Run!NetServers : Reached(p, s)'
    BY <2>1, <2>6, <1>1, <1>3 DEF Reached
  <2>8. \A t \in new : t.op = p.id BY <2>3, <1>3
  <2> QED BY <2>1, <2>2, <2>5, <2>7, <2>8, <1>1
<1> HIDE DEF p, new
<1>7. AloneInv' BY <1>4, <1>6 DEF AloneInv
<1> QED BY <1>2, <1>7 DEF RunGood

LEMMA RunSucceeds == ASSUME RunInv, NEW o \in ops, Run!Succeeds(o) PROVE RunGood'
<1>1. /\ o.left = <<>> /\ Run!TasksOf(o) = {} /\ ops' = ops \ {o}
      /\ UNCHANGED <<states, boots, tasks>>
      /\ toasted' = IF o.alone THEN [kind |-> o.kind, before |-> o.before] ELSE toasted
  BY DEF Run!Succeeds, Run!Ends
<1>2. AloneInv' BY <1>1 DEF RunInv, AloneInv
<1>3. CASE o.alone
  <2>1. /\ ops = {o} /\ \A t \in tasks : t.op = o.id /\ o.kind \in Kinds
        /\ \A s \in Run!NetServers : Reached(o, s)
    BY <1>3 DEF RunInv, RunTypeOK, AloneInv, Operations
  <2>2. tasks = {} BY <2>1, <1>1 DEF Run!TasksOf
  <2>3. o.kind \in Kinds BY DEF RunInv, RunTypeOK, Operations
  <2>4. \A verb, s : ~Owes(o, verb, s) BY <2>2, <1>1 DEF Owes
  <2>5. toasted'.kind = o.kind /\ toasted'.before = o.before BY <1>1, <1>3
  <2>6. ops' = {} /\ tasks' = {} BY <2>1, <2>2, <1>1
  <2>7. Run!ToastIsTrue' BY <2>1, <2>3, <2>4, <2>5, <1>1 DEF Reached, Kinds, Run!ToastIsTrue
  <2> QED BY <2>6, <2>7, <1>2 DEF RunGood, NewsIsFresh
<1>4. CASE ~o.alone
  BY <1>1, <1>2, <1>4, NothingReported DEF RunGood
<1> QED BY <1>3, <1>4

\* What is left to show of a step of a task, which no operation's record sees.
LEMMA TaskSteps ==
    ASSUME RunInv, NEW t \in tasks, ops' = ops, toasted' = toasted,
           \A o \in ops : o.alone =>
               /\ \A u \in tasks' : u.op = o.id
               /\ InStageOrder(o)' /\ \A s \in Run!NetServers : Reached(o, s)'
    PROVE  RunGood'
<1>1. NewsIsFresh' /\ Run!ToastIsTrue' BY NothingReported
<1>2. AloneInv' BY DEF RunInv, AloneInv
<1> QED BY <1>1, <1>2 DEF RunGood

LEMMA TaskStarts ==
    ASSUME RunInv, NEW t \in tasks, Run!startOne(t) \/ Run!StartsWithJava(t) PROVE RunGood'
<1>1. ops' = ops /\ toasted' = toasted /\ t.verb = "start"
  BY DEF Run!startOne, Run!StartsWithJava, Run!TaskDone, Run!TaskGoesOn
<1>2. SUFFICES ASSUME NEW o \in ops, o.alone
               PROVE  /\ \A u \in tasks' : u.op = o.id
                      /\ InStageOrder(o)' /\ \A s \in Run!NetServers : Reached(o, s)'
  BY <1>1, TaskSteps
<1>3. /\ t.server \in Run!NetServers /\ o.kind \in Kinds /\ o.before \in Counts /\ boots \in Counts
      /\ Owes(o, "start", t.server) /\ \A s : ~Owes(o, "stop", s)
      /\ \A s \in Run!NetServers : Reached(o, s)
  BY <1>2, <1>1, TaskOfTheOne
<1>4. CASE Run!startOne(t) /\ ~Run!isUp(states[t.server])
  <2>1. /\ UNCHANGED <<states, boots>>
        /\ tasks' = (tasks \ {t}) \union {[t EXCEPT !.at = "java"]}
    BY <1>4 DEF Run!startOne, Run!TaskGoesOn
  <2>2. /\ InStageOrder(o)' /\ \A u \in tasks' : u.op = o.id
        /\ \A verb, s : Owes(o, verb, s)' <=> Owes(o, verb, s)
    BY <1>2, <2>1, TaskStays
  <2> QED BY <2>1, <2>2, <1>3 DEF Reached
<1>5. ASSUME tasks' = tasks \ {t}
      PROVE  /\ InStageOrder(o)' /\ \A u \in tasks' : u.op = o.id
             /\ \A verb, s : Owes(o, verb, s)' => Owes(o, verb, s)
             /\ \A verb, s : Owes(o, verb, s) /\ (verb # "start" \/ s # t.server)
                                => Owes(o, verb, s)'
  BY <1>2, <1>1, <1>5, TaskEnds
<1>6. CASE Run!startOne(t) /\ Run!isUp(states[t.server])
  <2>1. UNCHANGED <<states, boots>> /\ tasks' = tasks \ {t}
    BY <1>6 DEF Run!startOne, Run!TaskDone
  <2>2. ~Run!isStopped(states[t.server]) BY <1>6 DEF Run!isUp, Run!isStopped
  <2>3. \A s \in Run!NetServers : Reached(o, s)'
    BY <2>1, <2>2, <1>3, <1>5, <1>6 DEF Reached, Kinds
  <2> QED BY <2>1, <2>3, <1>5
<1>7. CASE Run!StartsWithJava(t)
  <2>1. /\ states' = [states EXCEPT ![t.server] = "starting"]
        /\ boots' = [boots EXCEPT ![t.server] = @ + 1] /\ tasks' = tasks \ {t}
        /\ Run!isStopped(states[t.server]) \/ states[t.server] = "sleeping"
    BY <1>7 DEF Run!StartsWithJava, Run!Boots, Run!TaskDone
  <2>2. states \in [Run!NetServers -> Phases] BY DEF RunInv, RunTypeOK
  <2>3. states[t.server] # "online" BY <2>1 DEF Run!isStopped
  <2>4. ASSUME NEW s \in Run!NetServers PROVE Reached(o, s)'
    <3>1. CASE s # t.server
      <4>1. states'[s] = states[s] /\ boots'[s] = boots[s]
        BY <2>1, <2>2, <1>3, <3>1 DEF Counts
      <4> QED BY <4>1, <3>1, <2>1, <1>3, <1>5 DEF Reached
    <3>2. CASE s = t.server
      <4>1. /\ states'[s] = "starting" /\ boots'[s] = boots[s] + 1
            /\ boots[s] \in Nat /\ o.before[s] \in Nat
        BY <2>1, <2>2, <1>3, <3>2 DEF Counts
      <4>2. o.before[s] <= boots[s] /\ (o.kind # "stop" => Owes(o, "ready", s))
        BY <2>3, <3>2, <1>3 DEF Reached
      <4>3. o.before[s] <= boots'[s] /\ boots'[s] > o.before[s] BY <4>1, <4>2
      <4>4. /\ ~Owes(o, "stop", s)' /\ Owes(o, "ready", s)'
            /\ o.kind # "stop"
        BY <4>2, <2>1, <1>3, <1>5, <3>2 DEF Reached
      <4>5. o.kind = "start" \/ o.kind = "restart" BY <4>4, <1>3 DEF Kinds
      <4> QED BY <4>1, <4>3, <4>4, <4>5 DEF Reached, Run!isUp
    <3> QED BY <3>1, <3>2
  <2> QED BY <2>1, <2>4, <1>5
<1> QED BY <1>4, <1>6, <1>7

LEMMA TaskIsReady == ASSUME RunInv, NEW t \in tasks, Run!awaitReady(t) PROVE RunGood'
<1>1. /\ ops' = ops /\ toasted' = toasted /\ t.verb = "ready" /\ states[t.server] = "online"
      /\ tasks' = tasks \ {t} /\ UNCHANGED <<states, boots>>
  BY DEF Run!awaitReady, Run!TaskDone
<1>2. SUFFICES ASSUME NEW o \in ops, o.alone
               PROVE  /\ \A u \in tasks' : u.op = o.id
                      /\ InStageOrder(o)' /\ \A s \in Run!NetServers : Reached(o, s)'
  BY <1>1, TaskSteps
<1>3. /\ \A s : ~Owes(o, "stop", s)
      /\ \A s \in Run!NetServers : Reached(o, s)
  BY <1>2, <1>1, TaskOfTheOne
<1>4. /\ InStageOrder(o)' /\ \A u \in tasks' : u.op = o.id
      /\ \A verb, s : Owes(o, verb, s)' => Owes(o, verb, s)
      /\ \A verb, s : Owes(o, verb, s) /\ (verb # "ready" \/ s # t.server) => Owes(o, verb, s)'
  BY <1>2, <1>1, TaskEnds
<1> QED BY <1>1, <1>3, <1>4 DEF Reached

LEMMA TaskStops ==
    ASSUME RunInv, NEW t \in tasks, Run!stopOne(t) \/ Run!StopAwaited(t) PROVE RunGood'
<1>1. ops' = ops /\ toasted' = toasted /\ t.verb = "stop" /\ boots' = boots
  BY DEF Run!stopOne, Run!StopAwaited, Run!TaskDone, Run!TaskGoesOn
<1>2. SUFFICES ASSUME NEW o \in ops, o.alone
               PROVE  /\ \A u \in tasks' : u.op = o.id
                      /\ InStageOrder(o)' /\ \A s \in Run!NetServers : Reached(o, s)'
  BY <1>1, TaskSteps
<1>3. /\ t.server \in Run!NetServers /\ o.kind \in Kinds /\ ops = {o}
      /\ Owes(o, "stop", t.server) /\ \A s \in Run!NetServers : Reached(o, s)
  BY <1>2, <1>1, TaskOfTheOne
<1>4. CASE tasks' = tasks \ {t} /\ states' = states /\ Run!isStopped(states[t.server])
  <2>1. /\ InStageOrder(o)' /\ \A u \in tasks' : u.op = o.id
        /\ \A verb, s : Owes(o, verb, s)' => Owes(o, verb, s)
        /\ \A verb, s : Owes(o, verb, s) /\ (verb # "stop" \/ s # t.server) => Owes(o, verb, s)'
    BY <1>2, <1>1, <1>4, TaskEnds
  <2>2. ASSUME NEW s \in Run!NetServers PROVE Reached(o, s)'
    <3>1. \A r : /\ Owes(o, "start", r)' <=> Owes(o, "start", r)
                 /\ Owes(o, "ready", r)' <=> Owes(o, "ready", r)
      BY <2>1
    <3>2. Owes(o, "stop", s)' => Owes(o, "stop", s) BY <2>1
    <3>3. s # t.server => (Owes(o, "stop", s)' <=> Owes(o, "stop", s)) BY <2>1
    <3>4. s = t.server => Run!isStopped(states[s]) BY <1>4
    <3> QED BY <3>1, <3>2, <3>3, <3>4, <1>1, <1>3, <1>4 DEF Reached
  <2> QED BY <2>1, <2>2
<1>5. CASE /\ tasks' = (tasks \ {t}) \union {[t EXCEPT !.at = "sent"]}
           /\ ~Run!isStopped(o.seen[t.server])
           /\ states' = [states EXCEPT ![t.server] = IF @ = "sleeping" THEN "offline" ELSE "closing"]
  <2>1. /\ InStageOrder(o)' /\ \A u \in tasks' : u.op = o.id
        /\ \A verb, s : Owes(o, verb, s)' <=> Owes(o, verb, s)
    BY <1>2, <1>5, TaskStays
  <2>2. states \in [Run!NetServers -> Phases] BY DEF RunInv, RunTypeOK
  <2>3. ASSUME NEW s \in Run!NetServers PROVE Reached(o, s)'
    <3>1. CASE s # t.server
      <4>1. states'[s] = states[s] BY <2>2, <1>5, <3>1
      <4> QED BY <4>1, <2>1, <1>1, <1>3 DEF Reached
    <3>2. CASE s = t.server
      <4>1. /\ Owes(o, "stop", s) /\ ~Run!isStopped(o.seen[s])
            /\ (o.kind = "restart" => Owes(o, "start", s) /\ Owes(o, "ready", s))
            /\ o.kind # "start"
        BY <3>2, <1>3, <1>5 DEF Reached
      <4> QED BY <4>1, <3>2, <2>1, <1>1, <1>3 DEF Reached, Kinds
    <3> QED BY <3>1, <3>2
  <2> QED BY <2>1, <2>3
<1>6. CASE Run!StopAwaited(t)
  BY <1>4, <1>6 DEF Run!StopAwaited, Run!TaskDone
<1>7. CASE Run!stopOne(t)
  <2>1. CASE /\ \E p \in ops : p.id = t.op /\ Run!isStopped(p.seen[t.server])
             /\ Run!TaskDone(t) /\ UNCHANGED states
    <3>1. Run!isStopped(o.seen[t.server]) BY <2>1, <1>3
    <3>2. Run!isStopped(states[t.server]) BY <3>1, <1>3 DEF Reached
    <3> QED BY <3>2, <2>1, <1>4 DEF Run!TaskDone
  <2>2. CASE /\ \E p \in ops : p.id = t.op /\ ~Run!isStopped(p.seen[t.server])
             /\ states' = [states EXCEPT ![t.server] = IF @ = "sleeping" THEN "offline" ELSE "closing"]
             /\ Run!TaskGoesOn(t, "sent")
    BY <2>2, <1>3, <1>5 DEF Run!TaskGoesOn
  <2> QED BY <1>7, <2>1, <2>2 DEF Run!stopOne
<1> QED BY <1>6, <1>7

LEMMA TaskFailed == ASSUME RunInv, NEW t \in tasks, Run!TaskFails(t) PROVE RunGood'
<1>1. toasted' = toasted /\ tasks' = tasks \ {t} /\ UNCHANGED <<states, boots>>
  BY DEF Run!TaskFails, Run!Fails
<1>2. CASE \E o \in ops : o.id = t.op
  <2>1. PICK p \in ops : ops' = ops \ {p}
    <3> DEFINE p == CHOOSE o \in ops : o.id = t.op
    <3>1. p \in ops BY <1>2
    <3>2. ops' = ops \ {p} BY <1>2 DEF Run!TaskFails, Run!Fails, Run!Ends
    <3> QED BY <3>1, <3>2
  <2>2. \A o \in ops' : ~o.alone BY <2>1 DEF RunInv, AloneInv
  <2> QED BY <2>2, <1>1, NothingReported DEF RunGood, AloneInv
<1>3. CASE ~\E o \in ops : o.id = t.op
  <2>1. ops' = ops BY <1>3 DEF Run!TaskFails, Run!Fails
  <2>2. \A o \in ops' : ~o.alone BY <2>1, <1>3, TaskOfTheOne
  <2> QED BY <2>2, <1>1, NothingReported DEF RunGood, AloneInv
<1> QED BY <1>2, <1>3

LEMMA ServerMoves ==
    ASSUME RunInv, NEW s \in Run!NetServers, Run!ComesUp(s) \/ Run!GoesDown(s) PROVE RunGood'
<1>1. /\ \/ states[s] = "starting" /\ states' = [states EXCEPT ![s] = "online"]
         \/ states[s] = "closing" /\ states' = [states EXCEPT ![s] = "offline"]
      /\ UNCHANGED <<boots, ops, tasks, toasted>>
  BY DEF Run!ComesUp, Run!GoesDown
<1>2. states \in [Run!NetServers -> Phases] BY DEF RunInv, RunTypeOK
<1>3. \A r \in Run!NetServers :
         /\ states[r] = "online" => states'[r] = "online"
         /\ Run!isUp(states[r]) => Run!isUp(states'[r])
         /\ Run!isStopped(states[r]) => Run!isStopped(states'[r])
  BY <1>1, <1>2 DEF Run!isUp, Run!isStopped
<1>4. NewsIsFresh' /\ Run!ToastIsTrue'
  BY <1>1, <1>3 DEF RunInv, NewsIsFresh, Run!ToastIsTrue
<1>5. ASSUME NEW o \in ops, o.alone
      PROVE  InStageOrder(o)' /\ \A r \in Run!NetServers : Reached(o, r)'
  <2>1. InStageOrder(o) /\ \A r \in Run!NetServers : Reached(o, r)
    BY <1>5 DEF RunInv, AloneInv
  <2>2. \A verb, r : Owes(o, verb, r)' <=> Owes(o, verb, r) BY <1>1 DEF Owes
  <2>3. InStageOrder(o)' BY <2>1, <1>1 DEF InStageOrder
  <2>4. \A r \in Run!NetServers : Reached(o, r)'
    BY <2>1, <2>2, <1>1, <1>3 DEF Reached
  <2> QED BY <2>3, <2>4
<1> QED BY <1>1, <1>4, <1>5 DEF RunGood, RunInv, AloneInv

LEMMA TroubleComes ==
    ASSUME RunInv, NEW s \in Run!NetServers, Run!Trouble(s) PROVE RunGood'
<1>1. ops' = {[o EXCEPT !.alone = FALSE] : o \in ops} /\ toasted' = Run!Nothing
  BY DEF Run!Trouble
<1>2. \A o \in ops' : ~o.alone BY <1>1 DEF RunInv, RunTypeOK, Operations
<1>3. toasted'.kind = "none" BY <1>1 DEF Run!Nothing
<1> QED BY <1>2, <1>3 DEF RunGood, AloneInv, NewsIsFresh, Run!ToastIsTrue

LEMMA RunSteps == ASSUME RunInv, [Run!RunNext]_runVars PROVE RunInv'
<1>1. RunTypeOK' BY RunTyped DEF RunInv
<1>2. CASE UNCHANGED runVars
  <2>1. UNCHANGED <<states, boots, ops, tasks, toasted>> BY <1>2 DEF runVars
  <2>2. \A o \in ops : InStageOrder(o)' <=> InStageOrder(o)
    BY <2>1 DEF InStageOrder
  <2>3. \A o \in ops : \A s \in Run!NetServers : Reached(o, s)' <=> Reached(o, s)
    BY <2>1 DEF Reached, Owes
  <2> QED
    BY <1>1, <2>1, <2>2, <2>3 DEF RunInv, AloneInv, NewsIsFresh, Run!ToastIsTrue
<1>3. CASE Run!RunNext
  BY <1>1, <1>3, RunClicked, PageLeft, StageBegins, RunSucceeds, TaskStarts, TaskIsReady, TaskStops,
     TaskFailed, ServerMoves, TroubleComes DEF Run!RunNext, RunInv, RunGood, Kinds, Modes
<1> QED BY <1>2, <1>3

LEMMA ProxyIsLast == ASSUME RunInv PROVE Run!ProxyComesLast
<1>1. SUFFICES ASSUME NEW o \in ops, NEW t \in Run!TasksOf(o), o.alone,
                      t.verb \in {"start", "ready"}, t.server = Run!Proxy,
                      NEW s \in Run!ToSet(TryOrder)
               PROVE  states[s] = "online"
  BY DEF Run!ProxyComesLast
<1>2. t \in tasks /\ t.op = o.id BY <1>1 DEF Run!TasksOf
<1>3. s \in Run!NetServers /\ s # Run!Proxy
  BY TryOrderIsASeq DEF Run!NetServers, Run!ToSet
<1>4. /\ InStageOrder(o) /\ Reached(o, s) /\ Reached(o, t.server) /\ Owes(o, t.verb, t.server)
      /\ \A u \in tasks : u.op = o.id
  BY <1>1, <1>2, <1>3, TaskOfTheOne DEF RunInv, AloneInv
<1>5. ~Owes(o, "ready", s)
  <2>1. \A u \in tasks : u.server = Run!Proxy BY <1>1, <1>2, <1>4 DEF InStageOrder, Before
  <2>2. \A i \in DOMAIN o.left : [verb |-> "ready", server |-> s] \notin o.left[i]
    BY <1>1, <1>2, <1>3, <1>4 DEF InStageOrder, Before
  <2> QED BY <2>1, <2>2, <1>3 DEF Owes
<1>6. o.kind # "stop" BY <1>1, <1>4 DEF Reached
<1> QED BY <1>4, <1>5, <1>6 DEF Reached

\* The proxy is started only behind backends that are all online, and the toast over a
\* start, a stop or a restart tells what happened: in networks of any size, whatever
\* the operations, crashes and clicks of the user's own
\* (use-network-orchestration.ts, runStart and withBusy).
THEOREM WindowOperationTells == Spec => []OperationDoesWhatItTells
<1>1. Init => RunInv BY RunStarts
<1>2. RunInv /\ [Next]_vars => RunInv' BY WindowStep, RunSteps
<1>3. RunInv => OperationDoesWhatItTells
  BY ProxyIsLast DEF RunInv, OperationDoesWhatItTells
<1> QED BY <1>1, <1>2, <1>3, PTL DEF Spec

--------------------------------------------------------------------------------
(* The plan of a network.                                                       *)

Member   == [server : Backends, port : Nat, inTry : BOOLEAN]
Planned  == [proxy : BOOLEAN, members : Seq(Member), base : 1..MaxPort, secret : Nat]
Aliases  == (ServerNames \union {"lobby"}) \X Nat
Velocities ==
    [bind : Nat, servers : SUBSET (Aliases \X Nat), forced : SUBSET Aliases, try : Seq(Aliases)]
VelocityToml == Plan!File("velocity", "proxy")
ConfigFiles ==
    {Plan!File("properties", s) : s \in Backends} \union {Plan!File("paper", s) : s \in Plugins}
    \union {VelocityToml, Plan!File("secret", "proxy")}
Changes == [file : ConfigFiles, after : Nat \union Velocities]

OncePerServer(members) ==
    \A i, j \in DOMAIN members : members[i].server = members[j].server => i = j

\* Forced hosts name servers the proxy knows.
Sound(toml) == toml \in Velocities /\ toml.forced \subseteq {r[1] : r \in toml.servers}
SoundPlan(plan) ==
    plan \in Seq(Changes) /\ \A k \in DOMAIN plan :
        plan[k].file = VelocityToml => Sound(plan[k].after)

PlanTypeOK ==
    /\ network \in Planned
    /\ OncePerServer(network.members)
    /\ names \in [Backends -> ServerNames]
    /\ files \in [ConfigFiles -> Nat \union Velocities] /\ Sound(files[VelocityToml])
    /\ drawer \in [open : BOOLEAN, plan : [known : BOOLEAN, clean : BOOLEAN, changes : Seq(Changes)]]
    /\ applying \in [on : BOOLEAN, left : Seq(Changes), clean : BOOLEAN, for : Nat]
    /\ SoundPlan(drawer.plan.changes) /\ SoundPlan(applying.left)
    /\ edits \in Nat /\ synced \in BOOLEAN

AliasNow == Plan!buildNetworkAliasMap(network.members)

\* What velocity.toml must say for a network whose members have these aliases.
Routes(net, alias, toml) ==
    LET mem == net.members
    IN  /\ toml.bind = net.base
        /\ \A i \in DOMAIN mem : {r \in toml.servers : r[2] = mem[i].port} = {<<alias[i], mem[i].port>>}
        /\ \A i, j \in DOMAIN toml.try : toml.try[i] = toml.try[j] => i = j
        /\ Plan!ToSet(toml.try) \union toml.forced \subseteq {r[1] : r \in toml.servers}

Right(net, alias, f, says) ==
    /\ f = VelocityToml => Routes(net, alias, says)
    /\ f = Plan!File("secret", "proxy") => says = net.secret
    /\ \A i \in DOMAIN net.members :
          /\ f = Plan!File("properties", net.members[i].server) => says = net.members[i].port
          /\ f = Plan!File("paper", net.members[i].server) => says = net.secret

\* Written to its end over what the files say, the plan leaves every file right.
Fulfils(net, alias, says, plan) ==
    \A f \in ConfigFiles :
        /\ \A k \in DOMAIN plan : plan[k].file = f => Right(net, alias, f, plan[k].after)
        /\ Right(net, alias, f, says[f]) \/ \E k \in DOMAIN plan : plan[k].file = f

\* A drawer that is open lets nobody change the network it plans for; a plan made while
\* nothing was written is still right, its own writes only carry it out.
PlanFulfils ==
    /\ drawer.open => ~Plan!networkHasBlockingErrors(network)
    /\ applying.for <= edits
    /\ drawer.open /\ drawer.plan.clean =>
          /\ Fulfils(network, AliasNow, files, drawer.plan.changes)
          /\ applying.on => applying.clean /\ applying.for = edits
    /\ applying.on /\ applying.clean /\ applying.for = edits =>
          Fulfils(network, AliasNow, files, applying.left)
    /\ synced => Fulfils(network, AliasNow, files, <<>>)

PlanInv == PlanTypeOK /\ Plan!PortsApart /\ PlanFulfils

LEMMA PlanCounts == \A S : Plan!Cardinality(S) = Cardinality(S)
BY DEF Plan!Cardinality, Cardinality

\* The members of S up to n, counted: each number has its own count.
UpTo(S, n) == {m \in S : m <= n}

LEMMA CountsTellApart ==
    ASSUME NEW S \in SUBSET Nat, IsFiniteSet(S), NEW n \in S
    PROVE  /\ Cardinality(UpTo(S, n)) \in 1..Cardinality(S)
           /\ \A m \in S : Cardinality(UpTo(S, m)) = Cardinality(UpTo(S, n)) => m = n
<1>1. \A m : UpTo(S, m) \in SUBSET S BY DEF UpTo
<1>2. \A m : IsFiniteSet(UpTo(S, m)) /\ Cardinality(UpTo(S, m)) \in Nat
             /\ Cardinality(UpTo(S, m)) <= Cardinality(S)
  BY <1>1, FS_Subset, FS_CardinalityType
<1>3. Cardinality(S) \in Nat BY FS_CardinalityType
<1>4. n \in UpTo(S, n) BY DEF UpTo
<1>5. Cardinality(UpTo(S, n)) # 0 BY <1>2, <1>4, FS_EmptySet
<1>6. ASSUME NEW a \in S, NEW b \in S, a < b,
             Cardinality(UpTo(S, a)) = Cardinality(UpTo(S, b))
      PROVE  FALSE
  <2>1. UpTo(S, a) \in SUBSET UpTo(S, b)
    <3>1. \A m \in S : m <= a => m <= b BY <1>6
    <3> QED BY <3>1 DEF UpTo
  <2>2. b \in UpTo(S, b) /\ b \notin UpTo(S, a) BY <1>6 DEF UpTo
  <2>3. UpTo(S, b) = UpTo(S, a) BY <1>2, <1>6, <2>1, FS_Subset
  <2> QED BY <2>2, <2>3
<1>7. ASSUME NEW m \in S, Cardinality(UpTo(S, m)) = Cardinality(UpTo(S, n)) PROVE m = n
  <2>1. ~(m < n) /\ ~(n < m) BY <1>6, <1>7
  <2> QED BY <2>1
<1> QED BY <1>2, <1>3, <1>5, <1>7

LEMMA NthIsThere ==
    ASSUME NEW S \in SUBSET Nat, IsFiniteSet(S), NEW k \in 1..Cardinality(S)
    PROVE  Plan!nth(S, k) \in S /\ Cardinality(UpTo(S, Plan!nth(S, k))) = k
<1> DEFINE count == [n \in S |-> Cardinality(UpTo(S, n))]
           N == Cardinality(S)
<1>1. N \in Nat BY FS_CardinalityType
<1>2. count \in [S -> 1..N] BY CountsTellApart
<1>3. \A m, n \in S : count[m] = count[n] => m = n BY CountsTellApart
<1>4. count \in Injection(S, 1..N) BY <1>2, <1>3 DEF Injection, IsInjective
<1>5. IsFiniteSet(1..N) /\ Cardinality(1..N) = N BY <1>1, FS_Interval
<1>6. count \in Surjection(S, 1..N) BY <1>4, <1>5, FS_Injection
<1>7. PICK n \in S : count[n] = k BY <1>6 DEF Surjection
<1>8. \E m \in S : Cardinality(UpTo(S, m)) = k BY <1>7
<1>9. Plan!nth(S, k) = CHOOSE m \in S : Cardinality(UpTo(S, m)) = k
  BY PlanCounts DEF Plan!nth, UpTo
<1> QED BY <1>8, <1>9

LEMMA NthTakesAll ==
    ASSUME NEW S \in SUBSET Nat, IsFiniteSet(S), NEW n \in S
    PROVE  \E k \in 1..Cardinality(S) : Plan!nth(S, k) = n
<1> DEFINE k == Cardinality(UpTo(S, n))
<1>1. k \in 1..Cardinality(S) BY CountsTellApart
<1>2. Plan!nth(S, k) \in S /\ Cardinality(UpTo(S, Plan!nth(S, k))) = k BY <1>1, NthIsThere
<1>3. \A m \in S : Cardinality(UpTo(S, m)) = k => m = n BY CountsTellApart
<1> HIDE DEF k
<1>4. Plan!nth(S, k) = n BY <1>2, <1>3
<1> QED BY <1>1, <1>4

LEMMA PickSelects ==
    ASSUME NEW X, NEW s \in Seq(X), NEW I \in SUBSET DOMAIN s
    PROVE  /\ Plan!pick(s, I) \in Seq(X)
           /\ \A k \in DOMAIN Plan!pick(s, I) : \E i \in I : Plan!pick(s, I)[k] = s[i]
           /\ \A i \in I : \E k \in DOMAIN Plan!pick(s, I) : Plan!pick(s, I)[k] = s[i]
           /\ (\A i, j \in I : s[i] = s[j] => i = j) =>
                 \A k, l \in DOMAIN Plan!pick(s, I) :
                     Plan!pick(s, I)[k] = Plan!pick(s, I)[l] => k = l
<1> DEFINE N == Cardinality(I)
<1>1. DOMAIN s = 1..Len(s) /\ Len(s) \in Nat /\ \A i \in DOMAIN s : s[i] \in X
  BY LenProperties, ElementOfSeq
<1>2. IsFiniteSet(DOMAIN s) BY <1>1, FS_Interval
<1>3. IsFiniteSet(I) /\ N \in Nat /\ I \in SUBSET Nat
  BY <1>1, <1>2, FS_Subset, FS_CardinalityType
<1>4. \A k \in 1..N : Plan!nth(I, k) \in I /\ Cardinality(UpTo(I, Plan!nth(I, k))) = k
  BY <1>3, NthIsThere
<1>5. \A i \in I : \E k \in 1..N : Plan!nth(I, k) = i BY <1>3, NthTakesAll
<1>6. Plan!pick(s, I) = [k \in 1..N |-> s[Plan!nth(I, k)]] BY PlanCounts DEF Plan!pick
<1>7. Plan!pick(s, I) \in [1..N -> X] BY <1>1, <1>4, <1>6
<1>8. Plan!pick(s, I) \in Seq(X) BY <1>3, <1>7
<1>9. \A k, l \in 1..N : Plan!nth(I, k) = Plan!nth(I, l) => k = l BY <1>4
<1> HIDE DEF N
<1> QED BY <1>4, <1>5, <1>6, <1>8, <1>9

\* Two members of a network have two aliases.
LEMMA AliasesTellApart ==
    ASSUME NEW mem \in Seq(Member), names \in [Backends -> ServerNames]
    PROVE  LET alias == Plan!buildNetworkAliasMap(mem)
           IN  /\ alias \in Seq(Aliases) /\ DOMAIN alias = DOMAIN mem
               /\ \A i, j \in DOMAIN mem : alias[i] = alias[j] => i = j
<1> DEFINE same(i) == {k \in 1..i : names[mem[k].server] = names[mem[i].server]}
           alias == Plan!buildNetworkAliasMap(mem)
<1>1. /\ DOMAIN mem = 1..Len(mem) /\ Len(mem) \in Nat
      /\ \A i \in DOMAIN mem : mem[i].server \in Backends
  <2>1. DOMAIN mem = 1..Len(mem) /\ Len(mem) \in Nat BY LenProperties
  <2>2. \A i \in DOMAIN mem : mem[i] \in Member BY <2>1, ElementOfSeq
  <2> QED BY <2>1, <2>2 DEF Member
<1>2. alias = [i \in DOMAIN mem |-> <<names[mem[i].server], Cardinality(same(i))>>]
  BY PlanCounts DEF Plan!buildNetworkAliasMap
<1>3. \A i \in DOMAIN mem : IsFiniteSet(same(i)) /\ Cardinality(same(i)) \in Nat
  <2> SUFFICES ASSUME NEW i \in DOMAIN mem
               PROVE  IsFiniteSet(same(i)) /\ Cardinality(same(i)) \in Nat
    OBVIOUS
  <2>1. IsFiniteSet(1..i) BY <1>1, FS_Interval
  <2>2. same(i) \in SUBSET (1..i) OBVIOUS
  <2> HIDE DEF same
  <2> QED BY <2>1, <2>2, FS_Subset, FS_CardinalityType
<1>4. alias \in [1..Len(mem) -> Aliases]
  <2>1. \A i \in DOMAIN mem : names[mem[i].server] \in ServerNames BY <1>1
  <2> HIDE DEF same
  <2>2. \A i \in DOMAIN mem : alias[i] \in Aliases BY <1>2, <1>3, <2>1 DEF Aliases
  <2> QED BY <1>1, <1>2, <2>2
<1>5. ASSUME NEW i \in DOMAIN mem, NEW j \in DOMAIN mem, alias[i] = alias[j], i < j PROVE FALSE
  <2>1. names[mem[i].server] = names[mem[j].server]
        /\ Cardinality(same(i)) = Cardinality(same(j))
    BY <1>2, <1>5
  <2>2. same(i) \in SUBSET same(j)
    <3>1. \A k \in 1..i : k \in 1..j BY <1>1, <1>5
    <3> QED BY <3>1, <2>1
  <2>3. j \in same(j) /\ j \notin same(i) BY <1>1, <1>5
  <2> HIDE DEF same
  <2>4. same(i) = same(j) BY <1>3, <2>1, <2>2, FS_Subset
  <2> QED BY <2>3, <2>4
<1>6. ASSUME NEW i \in DOMAIN mem, NEW j \in DOMAIN mem, alias[i] = alias[j] PROVE i = j
  <2>1. ~(i < j) /\ ~(j < i) BY <1>5, <1>6
  <2> QED BY <1>1, <2>1
<1>7. alias \in Seq(Aliases) /\ DOMAIN alias = DOMAIN mem BY <1>1, <1>4
<1> HIDE DEF alias
<1> QED BY <1>6, <1>7 DEF alias

\* Members that may come in: their ports are whatever they were.
LEMMA PortsAreAssigned ==
    ASSUME NEW mem \in Seq(Member), NEW base \in 1..MaxPort
    PROVE  LET now == Plan!assignMemberPorts(mem, base)
           IN  /\ now \in Seq(Member) /\ Len(now) = Len(mem)
               /\ \A i \in DOMAIN mem : now[i].server = mem[i].server
               /\ base + Len(mem) <= MaxPort =>
                     \A i \in DOMAIN mem :
                        /\ Plan!ValidPort(now[i].port) /\ now[i].port # base
                        /\ \A j \in DOMAIN mem : now[i].port = now[j].port => i = j
<1> DEFINE keeps(i) == /\ Plan!ValidPort(mem[i].port) /\ mem[i].port # base
                       /\ \A j \in 1..(i - 1) : mem[j].port # mem[i].port
           K == {i \in DOMAIN mem : keeps(i)}
           L == {i \in DOMAIN mem : ~keeps(i)}
           taken == {base} \union {mem[i].port : i \in K}
           from  == IF base < MaxPort THEN base + 1 ELSE MaxPort
           free  == (from..MaxPort) \ taken
           rank(i) == Cardinality({j \in 1..i : ~keeps(j)})
           port(i) == IF rank(i) <= Cardinality(free) THEN Plan!nth(free, rank(i)) ELSE base + 1
           now == Plan!assignMemberPorts(mem, base)
<1>1. /\ DOMAIN mem = 1..Len(mem) /\ Len(mem) \in Nat /\ MaxPort \in Nat /\ base \in Nat
      /\ \A i \in DOMAIN mem : mem[i] \in Member /\ mem[i].port \in Nat
  <2>1. DOMAIN mem = 1..Len(mem) /\ Len(mem) \in Nat BY LenProperties
  <2>2. \A i \in DOMAIN mem : mem[i] \in Member BY <2>1, ElementOfSeq
  <2>3. \A i \in DOMAIN mem : mem[i].port \in Nat BY <2>2 DEF Member
  <2>4. MaxPort \in Nat /\ base \in Nat BY PlanAssumption
  <2> QED BY <2>1, <2>2, <2>3, <2>4
<1>2. now = [i \in DOMAIN mem |-> IF keeps(i) THEN mem[i] ELSE [mem[i] EXCEPT !.port = port(i)]]
  BY PlanCounts DEF Plan!assignMemberPorts
<1>3. IsFiniteSet(K) /\ IsFiniteSet(L) /\ Cardinality(K) \in Nat /\ Cardinality(L) \in Nat
      /\ Cardinality(K) + Cardinality(L) = Len(mem)
  <2>1. IsFiniteSet(DOMAIN mem) /\ Cardinality(DOMAIN mem) = Len(mem) BY <1>1, FS_Interval
  <2>2. L = DOMAIN mem \ K /\ K \in SUBSET DOMAIN mem /\ DOMAIN mem \cap K = K OBVIOUS
  <2> DEFINE D == DOMAIN mem
  <2> HIDE DEF K, L, D
  <2>3. IsFiniteSet(K) /\ IsFiniteSet(L) BY <2>1, <2>2, FS_Subset DEF D
  <2>4. Cardinality(K) \in Nat /\ Cardinality(L) \in Nat BY <2>3, FS_CardinalityType
  <2>5. Cardinality(L) = Cardinality(D) - Cardinality(K)
    <3>1. IsFiniteSet(D) BY <2>1 DEF D
    <3>2. Cardinality(D \ K) = Cardinality(D) - Cardinality(D \cap K) BY <3>1, FS_Difference
    <3> QED BY <2>2, <3>2 DEF D
  <2> QED BY <2>1, <2>3, <2>4, <2>5, <1>1 DEF D
<1>4. free \in SUBSET Nat /\ IsFiniteSet(free) /\ Cardinality(free) \in Nat
  <2>1. from \in Nat BY <1>1
  <2> HIDE DEF taken, from
  <2>2. IsFiniteSet(from..MaxPort) /\ (from..MaxPort) \in SUBSET Nat BY <1>1, <2>1, FS_Interval
  <2>3. free \in SUBSET (from..MaxPort) OBVIOUS
  <2> QED BY <2>2, <2>3, FS_Subset, FS_CardinalityType
<1>5. \A i \in DOMAIN mem : rank(i) \in Nat /\ (~keeps(i) => rank(i) >= 1)
  <2> SUFFICES ASSUME NEW i \in DOMAIN mem
               PROVE  rank(i) \in Nat /\ (~keeps(i) => rank(i) >= 1)
    OBVIOUS
  <2> DEFINE R == {j \in 1..i : ~keeps(j)}
  <2>1. IsFiniteSet(1..i) /\ R \in SUBSET (1..i) BY <1>1, FS_Interval
  <2>2. ~keeps(i) => i \in R BY <1>1
  <2>3. rank(i) = Cardinality(R) OBVIOUS
  <2> HIDE DEF R, keeps, rank
  <2>4. IsFiniteSet(R) BY <2>1, FS_Subset
  <2>5. Cardinality(R) \in Nat /\ (Cardinality(R) = 0 <=> R = {}) BY <2>4, FS_CardinalityType, FS_EmptySet
  <2> QED BY <2>2, <2>3, <2>5
<1>6. \A i \in DOMAIN mem : ~keeps(i) => port(i) \in Nat
  <2> HIDE DEF free, keeps, rank
  <2>1. ASSUME NEW i \in DOMAIN mem, ~keeps(i), rank(i) <= Cardinality(free)
        PROVE  Plan!nth(free, rank(i)) \in free
    <3>1. rank(i) \in 1..Cardinality(free) BY <1>4, <1>5, <2>1
    <3> QED BY <3>1, <1>4, NthIsThere
  <2>2. \A i \in DOMAIN mem : ~keeps(i) /\ rank(i) <= Cardinality(free)
                                => Plan!nth(free, rank(i)) \in Nat
    BY <2>1, <1>4
  <2>3. base + 1 \in Nat BY <1>1
  <2> QED BY <2>2, <2>3
<1>7. /\ now \in [1..Len(mem) -> Member] /\ \A i \in DOMAIN mem : now[i].server = mem[i].server
      /\ \A i \in DOMAIN mem : now[i].port = IF keeps(i) THEN mem[i].port ELSE port(i)
  <2> HIDE DEF keeps, port, now
  <2>1. ASSUME NEW i \in DOMAIN mem
        PROVE  /\ now[i] \in Member /\ now[i].server = mem[i].server
               /\ now[i].port = IF keeps(i) THEN mem[i].port ELSE port(i)
    BY <1>1, <1>2, <1>6 DEF Member
  <2> QED BY <2>1, <1>1, <1>2
<1>8. now \in Seq(Member) /\ Len(now) = Len(mem) BY <1>1, <1>7
<1>9. ASSUME base + Len(mem) <= MaxPort, NEW e \in DOMAIN mem
      PROVE  from = base + 1 /\ Cardinality(L) <= Cardinality(free)
  <2>1. base < MaxPort BY <1>1, <1>9
  <2>2. from = base + 1 BY <2>1
  <2> DEFINE all == (base + 1)..MaxPort
             both == all \cap taken
  <2>3. IsFiniteSet(all) /\ Cardinality(all) = MaxPort - base
    <3>1. base + 1 \in Int /\ MaxPort \in Int /\ ~(base + 1 > MaxPort) BY <1>1, <2>1
    <3>2. Cardinality(all) = MaxPort - (base + 1) + 1 /\ IsFiniteSet(all) BY <3>1, FS_Interval
    <3> HIDE DEF all
    <3> QED BY <3>2, <1>1
  <2>4. free = all \ taken BY <2>2
  <2>5. \A p \in both : \E i \in K : mem[i].port = p BY <1>1
  <2>6. IsFiniteSet(both) /\ Cardinality(both) \in Nat BY <2>3, FS_Intersection, FS_CardinalityType
  <2> DEFINE owner == [p \in both |-> CHOOSE i \in K : mem[i].port = p]
  <2> HIDE DEF both, K
  <2>7. owner \in Injection(both, K)
    <3>1. \A p \in both : owner[p] \in K /\ mem[owner[p]].port = p BY <2>5
    <3>2. owner \in [both -> K] BY <3>1
    <3> HIDE DEF owner
    <3> QED BY <3>1, <3>2 DEF Injection, IsInjective
  <2>8. Cardinality(both) <= Cardinality(K) BY <2>7, <1>3, FS_Injection
  <2>9. Cardinality(free) = Cardinality(all) - Cardinality(both) BY <2>3, <2>4, FS_Difference DEF both
  <2> HIDE DEF all, free, from, L
  <2> QED BY <1>1, <1>3, <1>9, <2>2, <2>3, <2>6, <2>8, <2>9
<1>10. ASSUME base + Len(mem) <= MaxPort, NEW i \in L
       PROVE  /\ port(i) \in free /\ \A j \in L : port(i) = port(j) => i = j
  <2>1. \A j \in L : rank(j) = Cardinality(UpTo(L, j))
    <3>1. ASSUME NEW j \in L PROVE {k \in 1..j : ~keeps(k)} = UpTo(L, j)
      <4>1. \A k \in 1..j : k \in DOMAIN mem BY <1>1
      <4>2. \A k \in DOMAIN mem : k <= j <=> k \in 1..j BY <1>1
      <4> HIDE DEF keeps
      <4> QED BY <4>1, <4>2 DEF UpTo
    <3> QED BY <3>1
  <2>2. L \in SUBSET Nat /\ L \in SUBSET DOMAIN mem BY <1>1
  <2> HIDE DEF L, rank, free, keeps
  <2>3. \A j \in L : /\ rank(j) \in 1..Cardinality(L)
                     /\ \A k \in L : rank(k) = rank(j) => k = j
    BY <1>3, <2>1, <2>2, CountsTellApart
  <2>4. Cardinality(L) <= Cardinality(free) BY <1>9, <1>10, <2>2
  <2>5. \A j \in L : rank(j) \in 1..Cardinality(free) BY <2>3, <2>4, <1>3, <1>4
  <2>6. \A j \in L : /\ port(j) = Plan!nth(free, rank(j)) /\ port(j) \in free
                     /\ Cardinality(UpTo(free, port(j))) = rank(j)
    BY <2>5, <1>4, NthIsThere
  <2> HIDE DEF port
  <2> QED BY <2>3, <2>6
<1>11. ASSUME base + Len(mem) <= MaxPort, NEW i \in DOMAIN mem
       PROVE  /\ Plan!ValidPort(now[i].port) /\ now[i].port # base
              /\ \A j \in DOMAIN mem : now[i].port = now[j].port => i = j
  <2>1. from = base + 1 BY <1>9, <1>11
  <2>2. \A k \in L : port(k) \in free /\ \A j \in L : port(k) = port(j) => k = j BY <1>10, <1>11
  <2>3. \A p \in free : Plan!ValidPort(p) /\ p # base /\ \A k \in K : mem[k].port # p
    BY <2>1, <1>1 DEF Plan!ValidPort
  <2>4. \A k, j \in K : mem[k].port = mem[j].port => k = j
    <3>1. \A k, j \in K : k < j => mem[k].port # mem[j].port BY <1>1
    <3> QED BY <3>1, <1>1
  <2>5. \A k \in K : Plan!ValidPort(mem[k].port) /\ mem[k].port # base OBVIOUS
  <2>6. \A k \in DOMAIN mem :
            (k \in K /\ now[k].port = mem[k].port) \/ (k \in L /\ now[k].port = port(k))
    <3>1. \A k \in DOMAIN mem : (k \in K <=> keeps(k)) /\ (k \in L <=> ~keeps(k)) OBVIOUS
    <3> HIDE DEF now, port, keeps, K, L
    <3> QED BY <3>1, <1>7
  <2> HIDE DEF K, L, free, port, now, keeps
  <2> QED BY <2>2, <2>3, <2>4, <2>5, <2>6, <1>11
<1> QED BY <1>1, <1>7, <1>8, <1>11

\* Normalising a network keeps its servers and gives each a port of its own.
LEMMA NetworkIsNormalized ==
    ASSUME NEW n \in Planned, OncePerServer(n.members)
    PROVE  LET now == Plan!normalizeNetwork(n)
           IN  /\ now \in Planned /\ OncePerServer(now.members)
               /\ now.base + Len(now.members) <= MaxPort =>
                     \A i \in DOMAIN now.members :
                        /\ Plan!ValidPort(now.members[i].port) /\ now.members[i].port # now.base
                        /\ \A j \in DOMAIN now.members :
                              now.members[i].port = now.members[j].port => i = j
<1> DEFINE mem == n.members
           first == [i \in DOMAIN mem |-> Plan!normalizeMember(mem[i], i)]
           given == Plan!assignMemberPorts(first, n.base)
           now == Plan!normalizeNetwork(n)
<1>1. /\ mem \in Seq(Member) /\ n.base \in 1..MaxPort /\ n.proxy \in BOOLEAN /\ n.secret \in Nat
      /\ n = [proxy |-> n.proxy, members |-> n.members, base |-> n.base, secret |-> n.secret]
  BY DEF Planned
<1>2. DOMAIN mem = 1..Len(mem) /\ Len(mem) \in Nat /\ \A i \in DOMAIN mem : mem[i] \in Member
  BY <1>1, LenProperties, ElementOfSeq
<1>3. /\ first \in [1..Len(mem) -> Member]
      /\ \A i \in DOMAIN mem : first[i].server = mem[i].server
  <2>1. ASSUME NEW i \in DOMAIN mem
        PROVE  /\ Plan!normalizeMember(mem[i], i) \in Member
               /\ Plan!normalizeMember(mem[i], i).server = mem[i].server
    <3>1. DEFAULT_NETWORK_BASE_PORT + i \in Nat BY PlanAssumption, <1>2
    <3>2. mem[i] \in Member BY <1>2
    <3> HIDE DEF mem
    <3> QED BY <3>1, <3>2 DEF Plan!normalizeMember, Member
  <2> HIDE DEF mem
  <2> QED BY <2>1, <1>2
<1>4. first \in Seq(Member) /\ Len(first) = Len(mem) /\ DOMAIN first = DOMAIN mem
  BY <1>2, <1>3
<1> HIDE DEF mem, first
<1>5. /\ given \in Seq(Member) /\ Len(given) = Len(first)
      /\ \A i \in DOMAIN first : given[i].server = first[i].server
      /\ n.base + Len(first) <= MaxPort =>
            \A i \in DOMAIN first :
                /\ Plan!ValidPort(given[i].port) /\ given[i].port # n.base
                /\ \A j \in DOMAIN first : given[i].port = given[j].port => i = j
  BY <1>1, <1>4, PortsAreAssigned
<1>6. DOMAIN given = DOMAIN mem BY <1>2, <1>4, <1>5, LenProperties
<1>7. now = [proxy |-> n.proxy, members |-> given, base |-> n.base, secret |-> n.secret]
  BY <1>1 DEF Plan!normalizeNetwork, mem, first
<1> HIDE DEF given, now
<1>8. now \in Planned BY <1>1, <1>5, <1>7 DEF Planned
<1>9. OncePerServer(now.members)
  BY <1>3, <1>4, <1>5, <1>6, <1>7 DEF OncePerServer, mem
<1>10. now.members = given /\ now.base = n.base BY <1>7
<1> QED BY <1>4, <1>5, <1>6, <1>8, <1>9, <1>10 DEF now

\* An edit makes every plan under way one for another network.
LEMMA EditKeepsPlan ==
    ASSUME PlanInv, NEW n \in Planned, OncePerServer(n.members), Plan!Becomes(n)
    PROVE  PlanInv'
<1>1. PlanTypeOK /\ PlanFulfils BY DEF PlanInv
<1>2. /\ edits' = edits + 1 /\ synced' = FALSE /\ ~drawer.open
      /\ network' = Plan!normalizeNetwork(n)
      /\ UNCHANGED <<names, files, drawer, applying, running>>
  BY DEF Plan!Becomes, Plan!Edits
<1>3. network' \in Planned /\ OncePerServer(network'.members) /\ Plan!PortsApart'
  BY <1>2, NetworkIsNormalized DEF Plan!PortsApart
<1>4. PlanTypeOK'
  <2>1. edits' \in Nat /\ synced' \in BOOLEAN
    <3>1. edits \in Nat BY <1>1 DEF PlanTypeOK
    <3>2. edits' \in Nat BY <1>2, <3>1
    <3> QED BY <1>2, <3>2
  <2>2. Sound(files[VelocityToml])' /\ SoundPlan(drawer.plan.changes)' /\ SoundPlan(applying.left)'
    BY <1>1, <1>2 DEF PlanTypeOK, SoundPlan, VelocityToml
  <2> QED BY <1>1, <1>2, <1>3, <2>1, <2>2 DEF PlanTypeOK
<1>5. PlanFulfils'
  <2>1. applying.for \in Nat /\ applying.for <= edits /\ edits \in Nat
    BY <1>1 DEF PlanTypeOK, PlanFulfils
  <2>2. applying.for <= edits' /\ applying.for # edits' BY <1>2, <2>1
  <2> QED BY <1>2, <2>2 DEF PlanFulfils
<1> QED BY <1>3, <1>4, <1>5 DEF PlanInv

LEMMA AddBackendKeepsPlan ==
    ASSUME PlanInv, NEW s \in Backends, Plan!addBackend(s) PROVE PlanInv'
<1> DEFINE mem == network.members
           new == [server |-> s, port |-> 0, inTry |-> TRUE]
           n == [network EXCEPT !.members = Append(@, new)]
<1>1. network \in Planned /\ OncePerServer(mem) BY DEF PlanInv, PlanTypeOK
<1>2. /\ mem \in Seq(Member) /\ DOMAIN mem = 1..Len(mem) /\ Len(mem) \in Nat
  BY <1>1, LenProperties DEF Planned
<1>3. \A i \in DOMAIN mem : mem[i].server # s BY DEF Plan!addBackend, Plan!MemberServers
<1>4. new \in Member /\ new.server = s BY DEF Member
<1>5. n \in Planned /\ n.members = Append(mem, new)
  BY <1>1, <1>2, <1>4, AppendProperties DEF Planned
<1>6. OncePerServer(n.members)
  <2> HIDE DEF mem, new
  <2> DEFINE all == Append(mem, new)
  <2>1. /\ Len(all) = Len(mem) + 1 /\ all[Len(mem) + 1] = new
        /\ \A i \in 1..Len(mem) : all[i] = mem[i]
        /\ DOMAIN all = 1..(Len(mem) + 1)
    BY <1>2, <1>4, AppendProperties, LenProperties
  <2> HIDE DEF all
  <2>2. OncePerServer(all) BY <1>1, <1>2, <1>3, <1>4, <2>1 DEF OncePerServer
  <2> QED BY <1>5, <2>2 DEF all
<1>7. Plan!Becomes(n) BY DEF Plan!addBackend
<1> HIDE DEF n
<1> QED BY <1>5, <1>6, <1>7, EditKeepsPlan

LEMMA RemoveMemberKeepsPlan ==
    ASSUME PlanInv, NEW i \in DOMAIN network.members, Plan!removeMember(i) PROVE PlanInv'
<1> DEFINE mem == network.members
           all == Plan!RemoveAt(mem, i)
           n == [network EXCEPT !.members = all]
<1>1. network \in Planned /\ OncePerServer(mem) BY DEF PlanInv, PlanTypeOK
<1>2. mem \in Seq(Member) /\ DOMAIN mem = 1..Len(mem) /\ Len(mem) \in Nat
  BY <1>1, LenProperties DEF Planned
<1>3. all = Prompts!RemoveAt(mem, i) BY DEF Plan!RemoveAt, Prompts!RemoveAt
<1>4. /\ all \in Seq(Member) /\ Len(all) = Len(mem) - 1
      /\ \A k \in 1..(Len(mem) - 1) : all[k] = IF k < i THEN mem[k] ELSE mem[k + 1]
  BY <1>2, <1>3, RemoveAtKeepsOrder
<1>5. Plan!Becomes(n) BY DEF Plan!removeMember
<1> HIDE DEF all
<1>6. n \in Planned /\ n.members = all BY <1>1, <1>4 DEF Planned
<1>7. OncePerServer(n.members)
  <2>1. DOMAIN all = 1..(Len(mem) - 1) BY <1>4, LenProperties
  <2>2. i \in 1..Len(mem) BY <1>2
  <2> HIDE DEF mem
  <2> DEFINE from(k) == IF k < i THEN k ELSE k + 1
  <2>3. \A k \in DOMAIN all : all[k] = mem[from(k)] /\ from(k) \in DOMAIN mem
    BY <1>2, <1>4, <2>1, <2>2
  <2>4. \A k, l \in DOMAIN all : from(k) = from(l) => k = l BY <1>2, <2>1, <2>2
  <2> HIDE DEF from
  <2>5. OncePerServer(all) BY <1>1, <2>3, <2>4 DEF OncePerServer
  <2> QED BY <1>6, <2>5
<1> HIDE DEF n
<1> QED BY <1>5, <1>6, <1>7, EditKeepsPlan

LEMMA MoveMemberKeepsPlan ==
    ASSUME PlanInv, NEW i \in DOMAIN network.members, Plan!moveMember(i) PROVE PlanInv'
<1> DEFINE mem == network.members
           before == SubSeq(mem, 1, i - 2)
           two == <<mem[i], mem[i - 1]>>
           after == SubSeq(mem, i + 1, Len(mem))
           all == before \o two \o after
           n == [network EXCEPT !.members = all]
<1>1. network \in Planned /\ OncePerServer(mem) BY DEF PlanInv, PlanTypeOK
<1>2. mem \in Seq(Member) /\ DOMAIN mem = 1..Len(mem) /\ Len(mem) \in Nat
  BY <1>1, LenProperties DEF Planned
<1>3. i \in 2..Len(mem) BY <1>2 DEF Plan!moveMember
<1>4. Plan!Becomes(n) BY DEF Plan!moveMember
<1> HIDE DEF mem
<1>5. \A k \in 1..Len(mem) : mem[k] \in Member BY <1>2, ElementOfSeq
<1>6. before \in Seq(Member) /\ Len(before) = i - 2 /\ \A k \in 1..(i - 2) : before[k] = mem[k]
  <2>1. i - 2 \in Int /\ \A k \in 1..(i - 2) : mem[k] \in Member BY <1>3, <1>5
  <2>2. /\ before \in Seq(Member)
        /\ Len(before) = IF 1 <= i - 2 THEN (i - 2) - 1 + 1 ELSE 0
        /\ \A k \in 1..((i - 2) - 1 + 1) : before[k] = mem[1 + k - 1]
    BY <2>1, SubSeqProperties
  <2> QED BY <1>3, <2>2
<1>7. /\ after \in Seq(Member) /\ Len(after) = Len(mem) - i
      /\ \A k \in 1..(Len(mem) - i) : after[k] = mem[i + k]
  <2>1. i + 1 \in Int /\ Len(mem) \in Int /\ \A k \in (i + 1)..Len(mem) : mem[k] \in Member
    BY <1>2, <1>3, <1>5
  <2>2. /\ after \in Seq(Member)
        /\ Len(after) = IF i + 1 <= Len(mem) THEN Len(mem) - (i + 1) + 1 ELSE 0
        /\ \A k \in 1..(Len(mem) - (i + 1) + 1) : after[k] = mem[(i + 1) + k - 1]
    BY <2>1, SubSeqProperties
  <2> QED BY <1>2, <1>3, <2>2
<1>8. two \in Seq(Member) /\ Len(two) = 2 /\ two[1] = mem[i] /\ two[2] = mem[i - 1]
  BY <1>3, <1>5
<1> HIDE DEF before, two, after
<1>9. /\ before \o two \in Seq(Member) /\ Len(before \o two) = i
      /\ \A k \in 1..i : (before \o two)[k] = IF k <= i - 2 THEN before[k] ELSE two[k - (i - 2)]
  <2>1. i \in Nat /\ (i - 2) + 2 = i BY <1>2, <1>3
  <2>2. /\ before \o two \in Seq(Member) /\ Len(before \o two) = Len(before) + Len(two)
        /\ \A k \in 1..(Len(before) + Len(two)) :
              (before \o two)[k] = IF k <= Len(before) THEN before[k] ELSE two[k - Len(before)]
    BY <1>6, <1>8, ConcatProperties
  <2> QED BY <1>6, <1>8, <2>1, <2>2
<1>10. /\ all \in Seq(Member) /\ Len(all) = Len(mem)
       /\ \A k \in 1..Len(mem) : all[k] = IF k <= i THEN (before \o two)[k] ELSE after[k - i]
  <2> DEFINE early == before \o two
  <2> HIDE DEF early
  <2>1. early \in Seq(Member) /\ Len(early) = i BY <1>9 DEF early
  <2>2. /\ early \o after \in Seq(Member) /\ Len(early \o after) = Len(early) + Len(after)
        /\ \A k \in 1..(Len(early) + Len(after)) :
              (early \o after)[k] = IF k <= Len(early) THEN early[k] ELSE after[k - Len(early)]
    BY <1>7, <2>1, ConcatProperties
  <2>3. i + (Len(mem) - i) = Len(mem) BY <1>2, <1>3
  <2>4. Len(early \o after) = Len(mem)
        /\ \A k \in 1..Len(mem) : (early \o after)[k] = IF k <= i THEN early[k] ELSE after[k - i]
    BY <1>7, <2>1, <2>2, <2>3
  <2>5. all = early \o after BY DEF early
  <2> HIDE DEF all
  <2> QED BY <2>2, <2>4, <2>5 DEF early
<1> HIDE DEF all
<1>11. \A k \in 1..Len(mem) :
          all[k] = mem[IF k = i THEN i - 1 ELSE IF k = i - 1 THEN i ELSE k]
  <2> SUFFICES ASSUME NEW k \in 1..Len(mem)
               PROVE  all[k] = mem[IF k = i THEN i - 1 ELSE IF k = i - 1 THEN i ELSE k]
    OBVIOUS
  <2>1. CASE k = i BY <1>3, <1>8, <1>9, <1>10, <2>1
  <2>2. CASE k = i - 1
    <3>1. k <= i /\ k \in 1..i /\ ~(k <= i - 2) /\ k - (i - 2) = 1 /\ k # i
      BY <1>2, <1>3, <2>2
    <3>2. all[k] = (before \o two)[k] BY <1>10, <3>1
    <3>3. all[k] = two[1] BY <1>9, <3>1, <3>2
    <3> QED BY <1>8, <2>2, <3>1, <3>3
  <2>3. CASE k < i - 1
    <3>1. k \in 1..(i - 2) /\ k \in 1..i /\ k <= i /\ k <= i - 2 /\ k # i /\ k # i - 1
      BY <1>2, <1>3, <2>3
    <3>2. all[k] = (before \o two)[k] BY <1>10, <3>1
    <3>3. (before \o two)[k] = before[k] BY <1>9, <3>1
    <3> QED BY <1>6, <3>1, <3>2, <3>3
  <2>4. CASE k > i
    <3>1. k - i \in 1..(Len(mem) - i) /\ i + (k - i) = k BY <1>2, <1>3, <2>4
    <3>2. all[k] = mem[k] BY <1>3, <1>7, <1>10, <2>4, <3>1
    <3> QED BY <1>3, <2>4, <3>2
  <2> QED BY <1>3, <2>1, <2>2, <2>3, <2>4
<1>12. n \in Planned /\ n.members = all BY <1>1, <1>10 DEF Planned
<1>13. OncePerServer(n.members)
  <2>1. DOMAIN all = 1..Len(mem) BY <1>10, LenProperties
  <2>2. OncePerServer(all) BY <1>1, <1>2, <1>3, <1>11, <2>1 DEF OncePerServer
  <2> QED BY <1>12, <2>2
<1> HIDE DEF n
<1> QED BY <1>4, <1>12, <1>13, EditKeepsPlan

\* The edits that leave the members where they are.
LEMMA SmallEditKeepsPlan ==
    ASSUME PlanInv,
           \/ \E i \in DOMAIN network.members : Plan!setInTry(i)
           \/ \E p \in BasePorts : Plan!commitBasePort(p)
           \/ \E on \in BOOLEAN : Plan!chooseProxy(on)
           \/ Plan!regenerateSecret
    PROVE  PlanInv'
<1> DEFINE mem == network.members
<1>1. network \in Planned /\ OncePerServer(mem) BY DEF PlanInv, PlanTypeOK
<1>2. mem \in Seq(Member) /\ DOMAIN mem = 1..Len(mem) /\ Len(mem) \in Nat
  BY <1>1, LenProperties DEF Planned
<1>3. ASSUME NEW i \in DOMAIN mem, Plan!setInTry(i) PROVE PlanInv'
  <2> DEFINE n == [network EXCEPT !.members[i].inTry = ~@]
             all == [mem EXCEPT ![i].inTry = ~@]
  <2>1. \A k \in DOMAIN mem : mem[k] \in Member BY <1>2, ElementOfSeq
  <2>2. /\ DOMAIN all = DOMAIN mem
        /\ \A k \in DOMAIN mem : all[k] \in Member /\ all[k].server = mem[k].server
    BY <2>1 DEF Member
  <2>3. n.members = all /\ n = [network EXCEPT !.members = all] BY <1>1 DEF Planned
  <2>4. Plan!Becomes(n) BY <1>3 DEF Plan!setInTry
  <2>5. all \in Seq(Member)
    <3> HIDE DEF mem
    <3>1. all = [k \in 1..Len(mem) |-> all[k]] BY <1>2
    <3> HIDE DEF all
    <3>2. all \in [1..Len(mem) -> Member] BY <1>2, <2>2, <3>1
    <3> QED BY <1>2, <3>2
  <2> HIDE DEF all, n
  <2>6. n \in Planned BY <1>1, <2>3, <2>5 DEF Planned
  <2>7. OncePerServer(n.members) BY <1>1, <2>2, <2>3 DEF OncePerServer
  <2> QED BY <2>4, <2>6, <2>7, EditKeepsPlan
<1>4. ASSUME NEW p \in BasePorts, Plan!commitBasePort(p) PROVE PlanInv'
  <2> DEFINE n == [network EXCEPT !.base = p]
  <2>1. p \in 1..MaxPort BY PlanAssumption
  <2>2. n \in Planned /\ n.members = mem BY <1>1, <2>1 DEF Planned
  <2>3. Plan!Becomes(n) BY <1>4 DEF Plan!commitBasePort
  <2> HIDE DEF n
  <2> QED BY <1>1, <2>2, <2>3, EditKeepsPlan
<1>5. ASSUME NEW on \in BOOLEAN, Plan!chooseProxy(on) PROVE PlanInv'
  <2> DEFINE n == [network EXCEPT !.proxy = on]
  <2>1. n \in Planned /\ n.members = mem BY <1>1 DEF Planned
  <2>2. Plan!Becomes(n) BY <1>5 DEF Plan!chooseProxy
  <2> HIDE DEF n
  <2> QED BY <1>1, <2>1, <2>2, EditKeepsPlan
<1>6. ASSUME Plan!regenerateSecret PROVE PlanInv'
  <2> DEFINE n == [network EXCEPT !.secret = @ + 1]
  <2>1. n \in Planned /\ n.members = mem BY <1>1 DEF Planned
  <2>2. Plan!Becomes(n) BY <1>6 DEF Plan!regenerateSecret
  <2> HIDE DEF n
  <2> QED BY <1>1, <2>1, <2>2, EditKeepsPlan
<1> QED BY <1>3, <1>4, <1>5, <1>6

LEMMA FilesTellApart ==
    \A one, other, s, t : Plan!File(one, s) = Plan!File(other, t) <=> one = other /\ s = t
BY DEF Plan!File

\* What the proxy is told of a network whose ports are apart.
LEMMA VelocityIsRight ==
    ASSUME PlanInv, ~Plan!networkHasBlockingErrors(network)
    PROVE  LET toml == Plan!buildVelocityChange(network)
           IN  Sound(toml) /\ Routes(network, AliasNow, toml)
<1> DEFINE mem == network.members
           alias == AliasNow
           now == files[VelocityToml]
           stale == Plan!staleAliases(network)
           old == {r \in now.servers \ stale : \A i \in DOMAIN alias : r[1] # alias[i]}
           new == {<<alias[i], mem[i].port>> : i \in DOMAIN alias}
           inTry == {i \in DOMAIN alias : mem[i].inTry}
           try == Plan!pick(alias, inTry)
           gone == {r[1] : r \in stale}
           toml == Plan!buildVelocityChange(network)
<1>1. network \in Planned /\ names \in [Backends -> ServerNames] /\ Sound(now)
  BY DEF PlanInv, PlanTypeOK
<1>2. /\ mem \in Seq(Member) /\ network.base \in Nat
      /\ DOMAIN mem = 1..Len(mem) /\ Len(mem) \in Nat
  BY <1>1, PlanAssumption, LenProperties DEF Planned
<1>3. \A i \in DOMAIN mem : mem[i].port \in Nat
  <2>1. \A i \in DOMAIN mem : mem[i] \in Member BY <1>2, ElementOfSeq
  <2> QED BY <2>1 DEF Member
<1>4. /\ alias \in Seq(Aliases) /\ DOMAIN alias = DOMAIN mem
      /\ \A i, j \in DOMAIN mem : alias[i] = alias[j] => i = j
  BY <1>1, <1>2, AliasesTellApart DEF AliasNow
<1>5. \A i \in DOMAIN alias : alias[i] \in Aliases BY <1>4, ElementOfSeq
<1>6. \A i, j \in DOMAIN mem : mem[i].port = mem[j].port => i = j
  BY DEF Plan!networkHasBlockingErrors
<1>7. toml = [bind |-> network.base, servers |-> old \union new,
              forced |-> now.forced \ gone, try |-> try]
  BY DEF Plan!buildVelocityChange, AliasNow, VelocityToml
<1>8. stale = {r \in now.servers : /\ \A i \in DOMAIN alias : r[1] # alias[i]
                                   /\ \E i \in DOMAIN alias : r[2] = mem[i].port}
  BY DEF Plan!staleAliases, AliasNow, VelocityToml
<1>9. now.servers \in SUBSET (Aliases \X Nat) /\ now.forced \in SUBSET Aliases
      /\ \A f \in now.forced : \E r \in now.servers : r[1] = f
  BY <1>1 DEF Sound, Velocities
<1> HIDE DEF alias, mem, now, stale, toml
<1>10. old \union new \in SUBSET (Aliases \X Nat)
  <2>1. \A r \in old : r \in Aliases \X Nat BY <1>9
  <2>2. \A r \in new : r \in Aliases \X Nat BY <1>3, <1>4, <1>5
  <2> HIDE DEF old, new
  <2> QED BY <2>1, <2>2
<1>11. /\ try \in Seq(Aliases)
       /\ \A k \in DOMAIN try : \E i \in DOMAIN alias : try[k] = alias[i]
       /\ \A k, l \in DOMAIN try : try[k] = try[l] => k = l
  <2>1. inTry \in SUBSET DOMAIN alias OBVIOUS
  <2> HIDE DEF inTry
  <2>2. \A i, j \in inTry : alias[i] = alias[j] => i = j BY <1>4, <2>1
  <2> QED BY <1>4, <2>1, <2>2, PickSelects
<1>12. \A i \in DOMAIN mem :
          {r \in old \union new : r[2] = mem[i].port} = {<<alias[i], mem[i].port>>}
  <2> SUFFICES ASSUME NEW i \in DOMAIN mem
               PROVE  {r \in old \union new : r[2] = mem[i].port} = {<<alias[i], mem[i].port>>}
    OBVIOUS
  <2>1. \A r \in old : r[2] # mem[i].port BY <1>4, <1>8
  <2>2. \A r \in new : r[2] = mem[i].port => r = <<alias[i], mem[i].port>> BY <1>4, <1>6
  <2>3. <<alias[i], mem[i].port>> \in new BY <1>4
  <2> HIDE DEF old, new
  <2>4. \A r \in old \union new : r[2] = mem[i].port <=> r = <<alias[i], mem[i].port>>
    BY <2>1, <2>2, <2>3
  <2> QED BY <2>3, <2>4
<1>13. \A f \in now.forced \ gone : \E r \in old \union new : r[1] = f
  <2> SUFFICES ASSUME NEW f \in now.forced, f \notin gone
               PROVE  \E r \in old \union new : r[1] = f
    OBVIOUS
  <2>1. PICK r \in now.servers : r[1] = f BY <1>9
  <2>2. r \notin stale BY <2>1
  <2>3. CASE \A i \in DOMAIN alias : f # alias[i]
    <3>1. r \in old BY <2>1, <2>2, <2>3
    <3> QED BY <2>1, <3>1
  <2>4. CASE \E i \in DOMAIN alias : f = alias[i]
    <3>1. PICK i \in DOMAIN alias : f = alias[i] BY <2>4
    <3>2. <<alias[i], mem[i].port>> \in new OBVIOUS
    <3> HIDE DEF old, new
    <3>3. <<alias[i], mem[i].port>>[1] = f BY <3>1
    <3> QED BY <3>2, <3>3
  <2> QED BY <2>3, <2>4
<1>14. \A k \in DOMAIN try : \E r \in old \union new : r[1] = try[k]
  <2> SUFFICES ASSUME NEW k \in DOMAIN try PROVE \E r \in old \union new : r[1] = try[k]
    OBVIOUS
  <2>1. PICK i \in DOMAIN alias : try[k] = alias[i] BY <1>11
  <2>2. <<alias[i], mem[i].port>> \in new OBVIOUS
  <2> HIDE DEF old, new, try
  <2>3. <<alias[i], mem[i].port>>[1] = try[k] BY <2>1
  <2> QED BY <2>2, <2>3
<1> DEFINE all == old \union new
<1> HIDE DEF old, new, try, gone, all
<1>15. /\ toml.bind = network.base /\ toml.servers = all /\ toml.try = try
       /\ toml.forced = now.forced \ gone
  BY <1>7 DEF all
<1>16. toml \in Velocities BY <1>2, <1>7, <1>9, <1>10, <1>11 DEF Velocities, all
<1>17. toml.forced \subseteq {r[1] : r \in toml.servers} BY <1>13, <1>15 DEF all
<1>18. Plan!ToSet(toml.try) \subseteq {r[1] : r \in toml.servers}
  BY <1>14, <1>15 DEF all, Plan!ToSet
<1>19. Routes(network, alias, toml)
  BY <1>11, <1>12, <1>15, <1>17, <1>18 DEF Routes, mem, all
<1> QED BY <1>16, <1>17, <1>19 DEF Sound, toml, alias

\* The plan of a network whose ports are apart carries it out.
LEMMA PlanIsRight ==
    ASSUME PlanInv, ~Plan!networkHasBlockingErrors(network)
    PROVE  LET plan == Plan!planNetworkApply(network)
           IN  SoundPlan(plan) /\ Fulfils(network, AliasNow, files, plan)
<1> DEFINE mem == network.members
           N == Len(mem)
           back == Plan!backendChanges(network)
           toml == Plan!buildVelocityChange(network)
           proxy == Plan!Change("velocity", "proxy", toml)
           secret == Plan!Change("secret", "proxy", network.secret)
           two == <<proxy, secret>>
           all == back \o two
           differs == {k \in DOMAIN all : all[k].file \in DOMAIN files
                                            /\ files[all[k].file] # all[k].after}
           plan == Plan!planNetworkApply(network)
           Props(i) == Plan!File("properties", mem[i].server)
           Paper(i) == Plan!File("paper", mem[i].server)
<1>1. /\ network \in Planned /\ OncePerServer(mem) /\ DOMAIN files = ConfigFiles
      /\ mem \in Seq(Member) /\ network.secret \in Nat
  BY DEF PlanInv, PlanTypeOK, Planned
<1>2. DOMAIN mem = 1..N /\ N \in Nat BY <1>1, LenProperties
<1>3. \A i \in DOMAIN mem : mem[i].port \in Nat
  <2>1. \A i \in DOMAIN mem : mem[i] \in Member BY <1>1, ElementOfSeq
  <2> QED BY <2>1 DEF Member
<1>4. Sound(toml) /\ Routes(network, AliasNow, toml) BY VelocityIsRight
<1>5. plan = Plan!pick(all, differs) BY DEF Plan!planNetworkApply, Plan!buildForwardingSecretChange
<1>6. back = [k \in 1..(2 * N) |->
                IF k % 2 = 1
                THEN [file |-> Props((k + 1) \div 2), after |-> mem[(k + 1) \div 2].port]
                ELSE [file |-> Paper((k + 1) \div 2), after |-> network.secret]]
  BY DEF Plan!backendChanges, Plan!buildBackendPropertiesChange, Plan!buildPaperGlobalChange,
         Plan!Change
<1> HIDE DEF mem, toml, back, plan
<1>7. proxy = [file |-> VelocityToml, after |-> toml]
      /\ secret = [file |-> Plan!File("secret", "proxy"), after |-> network.secret]
  BY DEF Plan!Change, VelocityToml
<1> HIDE DEF proxy, secret, Props, Paper
<1> DEFINE X == {back[k] : k \in 1..(2 * N)} \union {proxy, secret}
<1>8. back \in Seq(X) /\ Len(back) = 2 * N
  <2>1. 2 * N \in Nat BY <1>2
  <2>2. \A k \in 1..(2 * N) : back[k] \in X OBVIOUS
  <2> HIDE DEF X, N
  <2>3. back \in [1..(2 * N) -> X] BY <1>6, <2>2
  <2> QED BY <2>1, <2>3
<1>9. two \in Seq(X) /\ Len(two) = 2 /\ two[1] = proxy /\ two[2] = secret
  OBVIOUS
<1> HIDE DEF two, X, N
<1>10. /\ all \in Seq(X) /\ Len(all) = 2 * N + 2
       /\ \A k \in 1..(2 * N + 2) : all[k] = IF k <= 2 * N THEN back[k] ELSE two[k - 2 * N]
  <2>1. /\ all \in Seq(X) /\ Len(all) = Len(back) + Len(two)
        /\ \A k \in 1..(Len(back) + Len(two)) :
              all[k] = IF k <= Len(back) THEN back[k] ELSE two[k - Len(back)]
    BY <1>8, <1>9, ConcatProperties
  <2> HIDE DEF all
  <2> QED BY <1>8, <1>9, <2>1
<1> HIDE DEF all
<1>11. /\ DOMAIN all = 1..(2 * N + 2)
       /\ all[2 * N + 1] = proxy /\ all[2 * N + 2] = secret
       /\ \A k \in 1..(2 * N) : all[k] = back[k]
  <2>1. DOMAIN all = 1..(2 * N + 2) BY <1>10, LenProperties
  <2>2. all[2 * N + 1] = two[1] /\ all[2 * N + 2] = two[2] BY <1>2, <1>10
  <2>3. \A k \in 1..(2 * N) : all[k] = back[k] BY <1>2, <1>10
  <2> QED BY <1>9, <2>1, <2>2, <2>3
<1>12. ASSUME NEW i \in DOMAIN mem
       PROVE  /\ \E k \in DOMAIN all : all[k] = [file |-> Props(i), after |-> mem[i].port]
              /\ \E k \in DOMAIN all : all[k] = [file |-> Paper(i), after |-> network.secret]
  <2>1. /\ 2 * i - 1 \in 1..(2 * N) /\ (2 * i - 1) % 2 = 1 /\ (2 * i - 1 + 1) \div 2 = i
        /\ 2 * i \in 1..(2 * N) /\ (2 * i) % 2 # 1 /\ (2 * i + 1) \div 2 = i
    BY <1>2, OddAndEven
  <2>2. all[2 * i - 1] = [file |-> Props(i), after |-> mem[i].port] BY <1>6, <1>11, <2>1
  <2>3. all[2 * i] = [file |-> Paper(i), after |-> network.secret] BY <1>6, <1>11, <2>1
  <2>4. 2 * i - 1 \in DOMAIN all /\ 2 * i \in DOMAIN all
    <3>1. \A k \in 1..(2 * N) : k \in 1..(2 * N + 2) BY <1>2
    <3> QED BY <1>11, <2>1, <3>1
  <2> QED BY <2>2, <2>3, <2>4
<1>13. ASSUME NEW k \in DOMAIN all
       PROVE  \/ \E i \in DOMAIN mem :
                    \/ all[k] = [file |-> Props(i), after |-> mem[i].port]
                    \/ all[k] = [file |-> Paper(i), after |-> network.secret]
              \/ all[k] = proxy
              \/ all[k] = secret
  <2>1. CASE k \in 1..(2 * N)
    <3>1. (k + 1) \div 2 \in DOMAIN mem BY <1>2, <2>1
    <3>2. \/ all[k] = [file |-> Props((k + 1) \div 2), after |-> mem[(k + 1) \div 2].port]
          \/ all[k] = [file |-> Paper((k + 1) \div 2), after |-> network.secret]
      BY <1>6, <1>11, <2>1
    <3> QED BY <3>1, <3>2
  <2>2. CASE k \notin 1..(2 * N)
    <3>1. k = 2 * N + 1 \/ k = 2 * N + 2 BY <1>2, <1>11, <2>2
    <3> QED BY <1>11, <3>1
  <2> QED BY <2>1, <2>2
<1>14. ASSUME NEW k \in DOMAIN all
       PROVE  /\ all[k].after \in Nat \union Velocities
              /\ all[k].file = VelocityToml => Sound(all[k].after)
              /\ Right(network, AliasNow, all[k].file, all[k].after)
  <2>1. ASSUME NEW i \in DOMAIN mem, all[k] = [file |-> Props(i), after |-> mem[i].port]
        PROVE  Right(network, AliasNow, all[k].file, all[k].after) /\ all[k].file # VelocityToml
    <3>1. Props(i) # VelocityToml /\ Props(i) # Plan!File("secret", "proxy")
      BY FilesTellApart DEF Props, VelocityToml
    <3>2. \A j \in DOMAIN mem : Props(i) # Paper(j) BY FilesTellApart DEF Props, Paper
    <3>3. \A j \in DOMAIN mem : Props(i) = Props(j) => i = j
      BY <1>1, FilesTellApart DEF Props, OncePerServer
    <3> QED BY <2>1, <3>1, <3>2, <3>3 DEF Right, Props, Paper, mem
  <2>2. ASSUME NEW i \in DOMAIN mem, all[k] = [file |-> Paper(i), after |-> network.secret]
        PROVE  Right(network, AliasNow, all[k].file, all[k].after) /\ all[k].file # VelocityToml
    <3>1. Paper(i) # VelocityToml /\ Paper(i) # Plan!File("secret", "proxy")
      BY FilesTellApart DEF Paper, VelocityToml
    <3>2. \A j \in DOMAIN mem : Paper(i) # Props(j) BY FilesTellApart DEF Props, Paper
    <3> QED BY <2>2, <3>1, <3>2 DEF Right, Props, Paper, mem
  <2>3. ASSUME all[k] = proxy
        PROVE  Right(network, AliasNow, all[k].file, all[k].after)
    <3>1. VelocityToml # Plan!File("secret", "proxy") BY FilesTellApart DEF VelocityToml
    <3>2. \A j \in DOMAIN mem : VelocityToml # Props(j) /\ VelocityToml # Paper(j)
      BY FilesTellApart DEF Props, Paper, VelocityToml
    <3> QED BY <1>4, <1>7, <2>3, <3>1, <3>2 DEF Right, Props, Paper, mem
  <2>4. ASSUME all[k] = secret
        PROVE  Right(network, AliasNow, all[k].file, all[k].after) /\ all[k].file # VelocityToml
    <3>1. VelocityToml # Plan!File("secret", "proxy") BY FilesTellApart DEF VelocityToml
    <3>2. \A j \in DOMAIN mem : /\ Plan!File("secret", "proxy") # Props(j)
                                /\ Plan!File("secret", "proxy") # Paper(j)
      BY FilesTellApart DEF Props, Paper
    <3> QED BY <1>7, <2>4, <3>1, <3>2 DEF Right, Props, Paper, mem
  <2>5. toml \in Velocities BY <1>4 DEF Sound
  <2> QED BY <1>1, <1>3, <1>4, <1>7, <1>13, <2>1, <2>2, <2>3, <2>4, <2>5
<1>15. ASSUME NEW f \in ConfigFiles
       PROVE  Right(network, AliasNow, f, files[f]) \/ \E k \in DOMAIN all : all[k].file = f
  <2>1. CASE f = VelocityToml \/ f = Plan!File("secret", "proxy")
    <3>1. 2 * N + 1 \in DOMAIN all /\ 2 * N + 2 \in DOMAIN all BY <1>2, <1>11
    <3> QED BY <1>7, <1>11, <2>1, <3>1
  <2>2. CASE \E i \in DOMAIN mem : f = Props(i) \/ f = Paper(i)
    BY <1>12, <2>2
  <2>3. CASE /\ f # VelocityToml /\ f # Plan!File("secret", "proxy")
             /\ \A i \in DOMAIN mem : f # Props(i) /\ f # Paper(i)
    BY <2>3 DEF Right, Props, Paper, mem
  <2> QED BY <2>1, <2>2, <2>3
<1>16. /\ plan \in Seq(X)
       /\ \A k \in DOMAIN plan : \E i \in differs : plan[k] = all[i]
       /\ \A i \in differs : \E k \in DOMAIN plan : plan[k] = all[i]
  <2>1. differs \in SUBSET DOMAIN all OBVIOUS
  <2> HIDE DEF differs
  <2> QED BY <1>5, <1>10, <2>1, PickSelects
<1>17. ASSUME NEW k \in DOMAIN plan
       PROVE  /\ plan[k] \in Changes
              /\ plan[k].file = VelocityToml => Sound(plan[k].after)
              /\ Right(network, AliasNow, plan[k].file, plan[k].after)
  <2>1. PICK i \in differs : plan[k] = all[i] BY <1>16
  <2>2. i \in DOMAIN all /\ all[i].file \in ConfigFiles BY <1>1
  <2>3. all[i] = [file |-> all[i].file, after |-> all[i].after] BY <1>7, <1>13, <2>2
  <2> QED BY <1>14, <2>1, <2>2, <2>3 DEF Changes
<1>18. SoundPlan(plan)
  <2>1. DOMAIN plan = 1..Len(plan) /\ Len(plan) \in Nat BY <1>16, LenProperties
  <2>2. plan = [k \in 1..Len(plan) |-> plan[k]] BY <1>16
  <2>3. plan \in Seq(Changes) BY <1>17, <2>1, <2>2
  <2> QED BY <1>17, <2>3 DEF SoundPlan
<1>19. ASSUME NEW f \in ConfigFiles
       PROVE  Right(network, AliasNow, f, files[f]) \/ \E k \in DOMAIN plan : plan[k].file = f
  <2>1. CASE \E k \in DOMAIN all : all[k].file = f
    <3>1. PICK k \in DOMAIN all : all[k].file = f BY <2>1
    <3>2. CASE files[f] = all[k].after
      BY <1>14, <3>1, <3>2
    <3>3. CASE files[f] # all[k].after
      <4>1. k \in differs BY <1>1, <3>1, <3>3
      <4> QED BY <1>16, <3>1, <4>1
    <3> QED BY <3>2, <3>3
  <2> QED BY <1>15, <2>1
<1>20. Fulfils(network, AliasNow, files, plan) BY <1>17, <1>19 DEF Fulfils
<1> QED BY <1>18, <1>20 DEF plan

\* Writing the plan's first file carries it on, and undoes no other plan that fits it.
LEMMA WritingFulfils ==
    ASSUME NEW net, NEW alias, NEW says, NEW left \in Seq(Changes), left # <<>>,
           DOMAIN says = ConfigFiles, Fulfils(net, alias, says, left)
    PROVE  LET now == [says EXCEPT ![Head(left).file] = Head(left).after]
           IN  /\ Fulfils(net, alias, now, Tail(left))
               /\ \A plan : Fulfils(net, alias, says, plan) => Fulfils(net, alias, now, plan)
<1> DEFINE h == left[1]
           now == [says EXCEPT ![h.file] = h.after]
<1>1. /\ Head(left) = h /\ Tail(left) \in Seq(Changes) /\ Len(left) \in Nat \ {0}
      /\ DOMAIN left = 1..Len(left) /\ Len(Tail(left)) = Len(left) - 1
      /\ \A k \in 1..Len(Tail(left)) : Tail(left)[k] = left[k + 1]
  BY HeadTailProperties, LenProperties, EmptySeq
<1>2. h \in Changes /\ 1 \in DOMAIN left BY <1>1, ElementOfSeq
<1>3. h.file \in ConfigFiles BY <1>2 DEF Changes
<1>4. Right(net, alias, h.file, h.after) BY <1>2, <1>3 DEF Fulfils
<1>5. \A f \in ConfigFiles : now[f] = IF f = h.file THEN h.after ELSE says[f] OBVIOUS
<1> HIDE DEF now, h
<1>6. \A f \in ConfigFiles : Right(net, alias, f, says[f]) => Right(net, alias, f, now[f])
  BY <1>4, <1>5
<1>7. \A plan : Fulfils(net, alias, says, plan) => Fulfils(net, alias, now, plan)
  BY <1>6 DEF Fulfils
<1>8. ASSUME NEW f \in ConfigFiles
      PROVE  /\ \A k \in DOMAIN Tail(left) : Tail(left)[k].file = f
                                               => Right(net, alias, f, Tail(left)[k].after)
             /\ Right(net, alias, f, now[f]) \/ \E k \in DOMAIN Tail(left) : Tail(left)[k].file = f
  <2>1. \A k \in DOMAIN Tail(left) : k + 1 \in DOMAIN left /\ Tail(left)[k] = left[k + 1]
    BY <1>1, LenProperties
  <2>2. \A k \in DOMAIN Tail(left) : Tail(left)[k].file = f
                                       => Right(net, alias, f, Tail(left)[k].after)
    BY <2>1 DEF Fulfils
  <2>3. CASE f = h.file
    BY <1>4, <1>5, <2>2, <2>3
  <2>4. CASE f # h.file /\ \E k \in DOMAIN left : left[k].file = f
    <3>1. PICK k \in DOMAIN left : left[k].file = f BY <2>4
    <3>2. k # 1 BY <2>4, <3>1 DEF h
    <3>3. k - 1 \in DOMAIN Tail(left) /\ (k - 1) + 1 = k BY <1>1, <3>2, LenProperties
    <3> QED BY <2>1, <2>2, <3>1, <3>3
  <2>5. CASE f # h.file /\ ~\E k \in DOMAIN left : left[k].file = f
    <3>1. Right(net, alias, f, says[f]) BY <2>5 DEF Fulfils
    <3> QED BY <1>6, <2>2, <3>1
  <2> QED BY <2>3, <2>4, <2>5
<1>9. Fulfils(net, alias, now, Tail(left)) BY <1>8 DEF Fulfils
<1> QED BY <1>1, <1>7, <1>9 DEF now

LEMMA PlanStarts == Plan!PlanInit => PlanInv
<1> SUFFICES ASSUME Plan!PlanInit PROVE PlanInv
  OBVIOUS
<1> DEFINE lobby == <<"lobby", 1>>
           toml == Plan!HandMade
<1>1. /\ network = [proxy |-> FALSE, members |-> <<>>, base |-> DEFAULT_NETWORK_BASE_PORT,
                    secret |-> 1]
      /\ names \in [Backends -> ServerNames]
      /\ drawer = [open |-> FALSE, plan |-> [known |-> FALSE, clean |-> FALSE, changes |-> <<>>]]
      /\ applying = [on |-> FALSE, left |-> <<>>, clean |-> FALSE, for |-> 0]
      /\ synced = FALSE /\ edits = 0
      /\ files = [f \in ConfigFiles |-> IF f = VelocityToml THEN toml ELSE 0]
  BY DEF Plan!PlanInit, Plan!NoPlan, Plan!Idle, ConfigFiles, VelocityToml
<1>2. DEFAULT_NETWORK_BASE_PORT \in 1..MaxPort /\ DEFAULT_NETWORK_BASE_PORT \in Nat
  BY PlanAssumption
<1>3. lobby \in Aliases BY DEF Aliases
<1>4. /\ toml.bind = 0 /\ toml.forced = {lobby} /\ toml.try = <<lobby>>
      /\ toml.servers = {<<lobby, DEFAULT_NETWORK_BASE_PORT + 1>>}
      /\ toml = [bind |-> toml.bind, servers |-> toml.servers, forced |-> toml.forced,
                 try |-> toml.try]
  BY DEF Plan!HandMade
<1> HIDE DEF lobby, toml
<1>5. Sound(toml)
  <2>1. <<lobby>> \in Seq(Aliases) BY <1>3
  <2>2. {<<lobby, DEFAULT_NETWORK_BASE_PORT + 1>>} \in SUBSET (Aliases \X Nat) BY <1>2, <1>3
  <2>3. toml \in Velocities BY <1>3, <1>4, <2>1, <2>2 DEF Velocities
  <2>4. toml.forced \subseteq {r[1] : r \in toml.servers}
    <3>1. <<lobby, DEFAULT_NETWORK_BASE_PORT + 1>>[1] = lobby OBVIOUS
    <3> QED BY <1>4, <3>1
  <2> QED BY <2>3, <2>4 DEF Sound
<1>6. VelocityToml \in ConfigFiles BY DEF ConfigFiles
<1>7. files \in [ConfigFiles -> Nat \union Velocities] /\ Sound(files[VelocityToml])
  <2>1. toml \in Velocities BY <1>5 DEF Sound
  <2> QED BY <1>1, <1>5, <1>6, <2>1
<1>8. network \in Planned BY <1>1, <1>2 DEF Planned
<1>9. OncePerServer(network.members) BY <1>1 DEF OncePerServer
<1>10. SoundPlan(<<>>) BY DEF SoundPlan
<1>11. drawer \in [open : BOOLEAN, plan : [known : BOOLEAN, clean : BOOLEAN, changes : Seq(Changes)]]
       /\ applying \in [on : BOOLEAN, left : Seq(Changes), clean : BOOLEAN, for : Nat]
  BY <1>1
<1>12. PlanTypeOK BY <1>1, <1>7, <1>8, <1>9, <1>10, <1>11 DEF PlanTypeOK
<1>13. Plan!PortsApart BY <1>1 DEF Plan!PortsApart
<1>14. PlanFulfils BY <1>1 DEF PlanFulfils
<1> QED BY <1>12, <1>13, <1>14 DEF PlanInv

\* What only the network and the names decide stays with them.
LEMMA PlannedForStays ==
    ASSUME PlanInv, UNCHANGED <<network, names>>
    PROVE  /\ AliasNow' = AliasNow /\ Plan!PortsApart'
           /\ network' \in Planned /\ OncePerServer(network'.members)
           /\ names' \in [Backends -> ServerNames]
<1>1. AliasNow' = AliasNow BY DEF AliasNow, Plan!buildNetworkAliasMap
<1>2. Plan!PortsApart' BY DEF PlanInv, Plan!PortsApart
<1> QED BY <1>1, <1>2 DEF PlanInv, PlanTypeOK

LEMMA RenameKeepsPlan ==
    ASSUME PlanInv, NEW s \in Backends, NEW name \in ServerNames, Plan!Rename(s, name)
    PROVE  PlanInv'
<1>1. PlanTypeOK /\ PlanFulfils BY DEF PlanInv
<1>2. /\ edits' = edits + 1 /\ synced' = FALSE /\ ~drawer.open
      /\ names' = [names EXCEPT ![s] = name]
      /\ UNCHANGED <<network, files, drawer, applying, running>>
  BY DEF Plan!Rename, Plan!Edits
<1>3. Plan!PortsApart' BY <1>2 DEF PlanInv, Plan!PortsApart
<1>4. applying.for \in Nat /\ applying.for <= edits /\ edits \in Nat
  BY <1>1 DEF PlanTypeOK, PlanFulfils
<1>5. PlanTypeOK'
  <2>1. edits' \in Nat BY <1>2, <1>4
  <2>2. synced' \in BOOLEAN BY <1>2
  <2>3. Sound(files[VelocityToml])' /\ SoundPlan(drawer.plan.changes)' /\ SoundPlan(applying.left)'
    BY <1>1, <1>2 DEF PlanTypeOK, SoundPlan, VelocityToml
  <2>4. names' \in [Backends -> ServerNames] BY <1>1, <1>2 DEF PlanTypeOK
  <2> QED BY <1>1, <1>2, <2>1, <2>2, <2>3, <2>4 DEF PlanTypeOK
<1>6. applying.for <= edits' /\ applying.for # edits' BY <1>2, <1>4
<1>7. PlanFulfils' BY <1>2, <1>6 DEF PlanFulfils
<1> QED BY <1>3, <1>5, <1>7 DEF PlanInv

\* The drawer opens, shows its plan and closes.
LEMMA DrawerKeepsPlan ==
    ASSUME PlanInv, Plan!OpenDrawer \/ Plan!ShowPlan \/ Plan!CloseDrawer
    PROVE  PlanInv'
<1>1. PlanTypeOK /\ PlanFulfils BY DEF PlanInv
<1>2. UNCHANGED <<network, names, files, applying, synced, edits>>
  BY DEF Plan!OpenDrawer, Plan!ShowPlan, Plan!CloseDrawer
<1>3. /\ AliasNow' = AliasNow /\ Plan!PortsApart'
      /\ network' \in Planned /\ OncePerServer(network'.members)
      /\ names' \in [Backends -> ServerNames]
  BY <1>2, PlannedForStays
<1>4. /\ files' \in [ConfigFiles -> Nat \union Velocities] /\ Sound(files[VelocityToml])'
      /\ applying' \in [on : BOOLEAN, left : Seq(Changes), clean : BOOLEAN, for : Nat]
      /\ SoundPlan(applying.left)' /\ edits' \in Nat /\ synced' \in BOOLEAN
  BY <1>1, <1>2 DEF PlanTypeOK, SoundPlan, VelocityToml
<1>5. /\ applying'.for <= edits'
      /\ applying'.on /\ applying'.clean /\ applying'.for = edits' =>
            Fulfils(network', AliasNow', files', applying'.left)
      /\ synced' => Fulfils(network', AliasNow', files', <<>>)
  BY <1>1, <1>2, <1>3 DEF PlanFulfils
<1>6. ASSUME NEW open \in BOOLEAN, open => ~Plan!networkHasBlockingErrors(network),
             drawer' = [open |-> open,
                        plan |-> [known |-> FALSE, clean |-> FALSE, changes |-> <<>>]]
      PROVE  PlanInv'
  <2>1. SoundPlan(drawer'.plan.changes)
    <3>1. drawer'.plan.changes = <<>> BY <1>6
    <3> QED BY <3>1 DEF SoundPlan
  <2>2. drawer' \in [open : BOOLEAN, plan : [known : BOOLEAN, clean : BOOLEAN, changes : Seq(Changes)]]
    BY <1>6
  <2>3. PlanTypeOK' BY <1>3, <1>4, <2>1, <2>2 DEF PlanTypeOK
  <2>4. ~drawer'.plan.clean BY <1>6
  <2>5. drawer'.open => ~Plan!networkHasBlockingErrors(network') BY <1>2, <1>6
  <2>6. PlanFulfils' BY <1>5, <2>4, <2>5 DEF PlanFulfils
  <2> QED BY <1>3, <2>3, <2>6 DEF PlanInv
<1>7. CASE Plan!OpenDrawer
  <2>1. drawer' = [open |-> TRUE, plan |-> [known |-> FALSE, clean |-> FALSE, changes |-> <<>>]]
        /\ ~Plan!networkHasBlockingErrors(network)
    BY <1>7 DEF Plan!OpenDrawer, Plan!NoPlan
  <2> QED BY <1>6, <2>1
<1>8. CASE Plan!CloseDrawer
  <2>1. drawer' = [open |-> FALSE, plan |-> [known |-> FALSE, clean |-> FALSE, changes |-> <<>>]]
    BY <1>8 DEF Plan!CloseDrawer, Plan!NoPlan
  <2> QED BY <1>6, <2>1
<1>9. CASE Plan!ShowPlan
  <2> DEFINE plan == Plan!planNetworkApply(network)
  <2>1. /\ drawer.open /\ drawer' = [drawer EXCEPT !.plan = [known |-> TRUE,
                                                             clean |-> ~applying.on, changes |-> plan]]
    BY <1>9 DEF Plan!ShowPlan
  <2>2. ~Plan!networkHasBlockingErrors(network) BY <1>1, <2>1 DEF PlanFulfils
  <2>3. SoundPlan(plan) /\ Fulfils(network, AliasNow, files, plan) BY <2>2, PlanIsRight
  <2> HIDE DEF plan
  <2>4. /\ drawer \in [open : BOOLEAN,
                       plan : [known : BOOLEAN, clean : BOOLEAN, changes : Seq(Changes)]]
        /\ applying.on \in BOOLEAN
    BY <1>1 DEF PlanTypeOK
  <2>5. /\ drawer'.plan.changes = plan /\ drawer'.plan.clean = ~applying.on
        /\ drawer'.open = drawer.open
    BY <2>1, <2>4
  <2>6. plan \in Seq(Changes) BY <2>3 DEF SoundPlan
  <2>7. drawer' \in [open : BOOLEAN, plan : [known : BOOLEAN, clean : BOOLEAN, changes : Seq(Changes)]]
    BY <2>1, <2>4, <2>6
  <2>8. PlanTypeOK' BY <1>3, <1>4, <2>3, <2>5, <2>7 DEF PlanTypeOK
  <2>9. /\ drawer'.open => ~Plan!networkHasBlockingErrors(network')
        /\ drawer'.open /\ drawer'.plan.clean =>
              /\ Fulfils(network', AliasNow', files', drawer'.plan.changes)
              /\ applying'.on => applying'.clean /\ applying'.for = edits'
    BY <1>2, <1>3, <2>2, <2>3, <2>5
  <2>10. PlanFulfils' BY <1>5, <2>9 DEF PlanFulfils
  <2> QED BY <1>3, <2>8, <2>10 DEF PlanInv
<1> QED BY <1>7, <1>8, <1>9

\* The plan is taken, written file by file, and done or given up.
LEMMA ApplyKeepsPlan ==
    ASSUME PlanInv, Plan!handleApply \/ Plan!applyNetworkPlan \/ Plan!Applied \/ Plan!ApplyFails
    PROVE  PlanInv'
<1>1. PlanTypeOK /\ PlanFulfils BY DEF PlanInv
<1>2. UNCHANGED <<network, names>>
  BY DEF Plan!handleApply, Plan!applyNetworkPlan, Plan!Applied, Plan!ApplyFails
<1>3. /\ AliasNow' = AliasNow /\ Plan!PortsApart'
      /\ network' \in Planned /\ OncePerServer(network'.members)
      /\ names' \in [Backends -> ServerNames]
  BY <1>2, PlannedForStays
<1>4. /\ files \in [ConfigFiles -> Nat \union Velocities] /\ Sound(files[VelocityToml])
      /\ drawer \in [open : BOOLEAN,
                     plan : [known : BOOLEAN, clean : BOOLEAN, changes : Seq(Changes)]]
      /\ applying \in [on : BOOLEAN, left : Seq(Changes), clean : BOOLEAN, for : Nat]
      /\ SoundPlan(drawer.plan.changes) /\ SoundPlan(applying.left) /\ edits \in Nat
      /\ synced \in BOOLEAN
  BY <1>1 DEF PlanTypeOK
<1>5. SoundPlan(<<>>) /\ <<>> \in Seq(Changes) BY DEF SoundPlan
<1>6. CASE Plan!handleApply
  <2>1. /\ drawer.open /\ edits' = edits + 1 /\ UNCHANGED <<files, drawer, synced>>
        /\ applying' = [on |-> TRUE, left |-> drawer.plan.changes, clean |-> drawer.plan.clean,
                        for |-> edits']
    BY <1>6 DEF Plan!handleApply
  <2>2. /\ applying'.on /\ applying'.left = drawer.plan.changes
        /\ applying'.clean = drawer.plan.clean /\ applying'.for = edits'
    BY <2>1
  <2>3. edits' \in Nat /\ edits' <= edits' BY <1>4, <2>1
  <2>4. applying' \in [on : BOOLEAN, left : Seq(Changes), clean : BOOLEAN, for : Nat]
    BY <1>4, <2>1, <2>3
  <2>5. SoundPlan(applying'.left) BY <1>4, <2>2
  <2>6. Sound(files'[VelocityToml]) /\ SoundPlan(drawer'.plan.changes) BY <1>4, <2>1
  <2>7. PlanTypeOK' BY <1>3, <1>4, <2>1, <2>3, <2>4, <2>5, <2>6 DEF PlanTypeOK, VelocityToml
  <2>8. PlanFulfils' BY <1>1, <1>2, <1>3, <2>1, <2>2, <2>3 DEF PlanFulfils
  <2> QED BY <1>3, <2>7, <2>8 DEF PlanInv
<1>7. CASE Plan!applyNetworkPlan
  <2> DEFINE left == applying.left
             h == Head(left)
  <2>1. /\ applying.on /\ left # <<>> /\ files' = [files EXCEPT ![h.file] = h.after]
        /\ applying' = [applying EXCEPT !.left = Tail(left)]
        /\ synced' = FALSE /\ UNCHANGED <<drawer, edits>>
    BY <1>7 DEF Plan!applyNetworkPlan
  <2>2. left \in Seq(Changes) BY <1>4
  <2>3. /\ applying'.on /\ applying'.left = Tail(left) /\ applying'.clean = applying.clean
        /\ applying'.for = applying.for
    BY <1>4, <2>1
  <2> HIDE DEF left
  <2>4. /\ h = left[1] /\ 1 \in DOMAIN left /\ Tail(left) \in Seq(Changes)
        /\ \A k \in DOMAIN Tail(left) : k + 1 \in DOMAIN left /\ Tail(left)[k] = left[k + 1]
    <3>1. /\ h = left[1] /\ Tail(left) \in Seq(Changes) /\ Len(left) \in Nat \ {0}
          /\ DOMAIN left = 1..Len(left) /\ Len(Tail(left)) = Len(left) - 1
          /\ \A k \in 1..Len(Tail(left)) : Tail(left)[k] = left[k + 1]
      BY <2>1, <2>2, HeadTailProperties, LenProperties, EmptySeq
    <3>2. DOMAIN Tail(left) = 1..(Len(left) - 1) BY <3>1, LenProperties
    <3> HIDE DEF h
    <3> QED BY <3>1, <3>2
  <2> HIDE DEF h
  <2>5. h \in Changes /\ (h.file = VelocityToml => Sound(h.after))
    BY <1>4, <2>2, <2>4, ElementOfSeq DEF SoundPlan, left
  <2>6. h.file \in ConfigFiles /\ h.after \in Nat \union Velocities BY <2>5 DEF Changes
  <2>7. files' \in [ConfigFiles -> Nat \union Velocities] BY <1>4, <2>1, <2>6
  <2>8. VelocityToml \in ConfigFiles BY DEF ConfigFiles
  <2>9. Sound(files'[VelocityToml]) BY <1>4, <2>1, <2>5, <2>6, <2>8
  <2>10. SoundPlan(applying'.left) BY <1>4, <2>3, <2>4 DEF SoundPlan, left
  <2>11. applying' \in [on : BOOLEAN, left : Seq(Changes), clean : BOOLEAN, for : Nat]
    BY <1>4, <2>1, <2>4
  <2>12. SoundPlan(drawer'.plan.changes) /\ synced' \in BOOLEAN /\ edits' \in Nat
    BY <1>4, <2>1
  <2>13. PlanTypeOK'
    BY <1>3, <1>4, <2>1, <2>7, <2>9, <2>10, <2>11, <2>12 DEF PlanTypeOK, VelocityToml
  <2>14. ASSUME applying.clean, applying.for = edits
         PROVE  /\ Fulfils(network, AliasNow, files', Tail(left))
                /\ \A plan : Fulfils(network, AliasNow, files, plan)
                               => Fulfils(network, AliasNow, files', plan)
    <3>1. Fulfils(network, AliasNow, files, left) BY <1>1, <2>1, <2>14 DEF PlanFulfils, left
    <3>2. DOMAIN files = ConfigFiles BY <1>4
    <3> QED BY <2>1, <2>2, <3>1, <3>2, WritingFulfils DEF h
  <2>15. PlanFulfils' BY <1>1, <1>2, <1>3, <2>1, <2>3, <2>14 DEF PlanFulfils
  <2> QED BY <1>3, <2>13, <2>15 DEF PlanInv
<1>8. CASE Plan!Applied
  <2>1. /\ applying.on /\ applying.left = <<>> /\ UNCHANGED <<files, edits>>
        /\ applying' = [on |-> FALSE, left |-> <<>>, clean |-> FALSE, for |-> 0]
        /\ drawer' = [open |-> FALSE,
                      plan |-> [known |-> FALSE, clean |-> FALSE, changes |-> <<>>]]
        /\ synced' = (applying.clean /\ applying.for = edits)
    BY <1>8 DEF Plan!Applied, Plan!Idle, Plan!NoPlan
  <2>2. /\ drawer' \in [open : BOOLEAN,
                        plan : [known : BOOLEAN, clean : BOOLEAN, changes : Seq(Changes)]]
        /\ applying' \in [on : BOOLEAN, left : Seq(Changes), clean : BOOLEAN, for : Nat]
        /\ drawer'.plan.changes = <<>> /\ applying'.left = <<>>
        /\ drawer'.open = FALSE /\ applying'.on = FALSE /\ applying'.for = 0
    BY <1>5, <2>1
  <2>3. synced' \in BOOLEAN BY <2>1
  <2>4. PlanTypeOK' BY <1>3, <1>4, <1>5, <2>1, <2>2, <2>3 DEF PlanTypeOK, VelocityToml
  <2>5. synced' => Fulfils(network, AliasNow, files, <<>>) BY <1>1, <2>1 DEF PlanFulfils
  <2>6. applying'.for <= edits' BY <1>4, <2>1, <2>2
  <2>7. PlanFulfils' BY <1>2, <1>3, <2>1, <2>2, <2>5, <2>6 DEF PlanFulfils
  <2> QED BY <1>3, <2>4, <2>7 DEF PlanInv
<1>9. CASE Plan!ApplyFails
  <2>1. /\ UNCHANGED <<files, drawer, synced, edits>>
        /\ applying' = [on |-> FALSE, left |-> <<>>, clean |-> FALSE, for |-> 0]
    BY <1>9 DEF Plan!ApplyFails, Plan!Idle
  <2>2. /\ applying' \in [on : BOOLEAN, left : Seq(Changes), clean : BOOLEAN, for : Nat]
        /\ applying'.left = <<>> /\ applying'.on = FALSE /\ applying'.for = 0
    BY <1>5, <2>1
  <2>3. PlanTypeOK' BY <1>3, <1>4, <1>5, <2>1, <2>2 DEF PlanTypeOK, VelocityToml
  <2>4. applying'.for <= edits' BY <1>4, <2>1, <2>2
  <2>5. PlanFulfils' BY <1>1, <1>2, <1>3, <2>1, <2>2, <2>4 DEF PlanFulfils
  <2> QED BY <1>3, <2>3, <2>5 DEF PlanInv
<1> QED BY <1>6, <1>7, <1>8, <1>9

LEMMA NothingKeepsPlan ==
    ASSUME PlanInv, UNCHANGED planVars \/ Plan!StartStop PROVE PlanInv'
<1>1. UNCHANGED <<network, names, files, drawer, applying, synced, edits>>
  BY DEF planVars, Plan!StartStop
<1>2. /\ AliasNow' = AliasNow /\ Plan!PortsApart'
      /\ network' \in Planned /\ OncePerServer(network'.members)
      /\ names' \in [Backends -> ServerNames]
  BY <1>1, PlannedForStays
<1>3. PlanTypeOK /\ PlanFulfils BY DEF PlanInv
<1>4. PlanTypeOK' BY <1>1, <1>2, <1>3 DEF PlanTypeOK, VelocityToml
<1>5. PlanFulfils' BY <1>1, <1>2, <1>3 DEF PlanFulfils
<1> QED BY <1>2, <1>4, <1>5 DEF PlanInv

LEMMA PlanKept == PlanInv /\ [Plan!PlanNext]_planVars => PlanInv'
<1> SUFFICES ASSUME PlanInv, [Plan!PlanNext]_planVars PROVE PlanInv'
  OBVIOUS
<1>1. CASE Plan!PlanNext
  BY <1>1, AddBackendKeepsPlan, RenameKeepsPlan, RemoveMemberKeepsPlan, MoveMemberKeepsPlan,
     SmallEditKeepsPlan, DrawerKeepsPlan, ApplyKeepsPlan, NothingKeepsPlan DEF Plan!PlanNext
<1>2. CASE UNCHANGED planVars
  BY <1>2, NothingKeepsPlan
<1> QED BY <1>1, <1>2

\* What was written in full is what the network needs.
LEMMA PlanHolds == PlanInv => NetworkHoldsTogether
<1> SUFFICES ASSUME PlanInv PROVE NetworkHoldsTogether
  OBVIOUS
<1> DEFINE mem == network.members
           toml == files[VelocityToml]
<1>1. Plan!PortsApart /\ PlanTypeOK /\ PlanFulfils BY DEF PlanInv
<1>2. ASSUME synced
      PROVE  /\ Routes(network, AliasNow, toml)
             /\ files[Plan!File("secret", "proxy")] = network.secret
             /\ \A i \in DOMAIN mem :
                   /\ files[Plan!File("properties", mem[i].server)] = mem[i].port
                   /\ mem[i].server \in Plugins =>
                         files[Plan!File("paper", mem[i].server)] = network.secret
  <2>1. \A f \in ConfigFiles : Right(network, AliasNow, f, files[f])
    BY <1>1, <1>2 DEF PlanFulfils, Fulfils
  <2>2. /\ VelocityToml \in ConfigFiles /\ Plan!File("secret", "proxy") \in ConfigFiles
        /\ \A s \in Backends : Plan!File("properties", s) \in ConfigFiles
        /\ \A s \in Plugins : Plan!File("paper", s) \in ConfigFiles
    BY DEF ConfigFiles
  <2>3. \A i \in DOMAIN mem : mem[i].server \in Backends
    <3>1. mem \in Seq(Member) BY <1>1 DEF PlanTypeOK, Planned
    <3>2. \A i \in DOMAIN mem : mem[i] \in Member BY <3>1, ElementOfSeq, LenProperties
    <3> QED BY <3>2 DEF Member
  <2> QED BY <2>1, <2>2, <2>3 DEF Right
<1>3. Plan!AppliedNetworkRoutes
  <2> SUFFICES ASSUME synced
               PROVE  /\ toml.bind = network.base
                      /\ \A i \in DOMAIN mem :
                            /\ {r \in toml.servers :
                                  r[2] = files[Plan!File("properties", mem[i].server)]}
                                 = {<<AliasNow[i], mem[i].port>>}
                            /\ mem[i].server \in Plugins =>
                                  files[Plan!File("paper", mem[i].server)]
                                    = files[Plan!File("secret", "proxy")]
                      /\ \A i, j \in DOMAIN toml.try : toml.try[i] = toml.try[j] => i = j
                      /\ Plan!ToSet(toml.try) \union toml.forced
                           \subseteq {r[1] : r \in toml.servers}
    BY DEF Plan!AppliedNetworkRoutes, Plan!Velocity, AliasNow, VelocityToml
  <2> HIDE DEF toml
  <2> QED BY <1>2 DEF Routes
<1> QED BY <1>1, <1>3 DEF NetworkHoldsTogether

\* Whatever edits are made, in whatever order, each backend keeps a port of its own, and
\* a plan written whole leaves the files of any number of backends agreeing with the
\* network: no plan made before an edit, or over one being written, counts as whole.
THEOREM WindowNetworkHoldsTogether == Spec => []NetworkHoldsTogether
<1>1. Init => PlanInv BY PlanStarts DEF Init
<1>2. PlanInv /\ [Next]_vars => PlanInv' BY PlanKept, WindowStep
<1>3. PlanInv => NetworkHoldsTogether BY PlanHolds
<1> QED BY <1>1, <1>2, <1>3, PTL DEF Spec
================================================================================

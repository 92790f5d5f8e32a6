--------------------------- MODULE AlertsPrefs_proofs --------------------------
(***************************************************************************)
(* Proofs about the window's panels, for every bound: what the app tells of  *)
(* a server and what it remembers of its user. Alerts come when a metric     *)
(* deserves one; the feed tells what the lines and the alerts say, once and  *)
(* in order; the preferences read back as they were set; and a dropped card  *)
(* of the dashboard stands where it was shown.                               *)
(***************************************************************************)
EXTENDS MCPanels, SequenceTheorems, FiniteSetTheorems, WellFoundedInduction, TLAPS

AllVars == <<focus, playerVars, terminalVars, feedVars, updateVars, browserVars, modrinthVars,
             auditVars, motdVars, prefVars, hostVars, pickVars, adviceVars>>
--------------------------------------------------------------------------------
(* The alerts of the activity feed.                                             *)

Metrics == {"low-tps", "high-ram"}
Ratings == {"bad", "mid", "good"}
Readings == [at : Nat, low : Ratings, high : Ratings]
Notices  == [kind : Metrics, id : Metrics \X Nat, no : Nat, at : Nat, count : Nat]
Moments  == Nat \cup {Feed!None}
Watches  == [badSince : Moments, firing : BOOLEAN, lastAlertAt : Moments]

LevelOf(s, kind) == IF kind = "low-tps" THEN s.low ELSE s.high
WaitOf(kind)     == IF kind = "low-tps" THEN Sustain ELSE RamSustain
WatchOf(t, kind) == IF kind = "low-tps" THEN t.tps ELSE t.ram

\* The samples of a run after its warm-up, by the time they were taken, and its alerts.
Counted(s) == {i \in DOMAIN s : s[i].at - s[1].at >= Warmup}
TimesIn(s, kind, level) == {s[i].at : i \in {j \in Counted(s) : LevelOf(s[j], kind) = level}}
RaisedIn(l, kind, first) ==
    {l[j].at : j \in {x \in DOMAIN l : l[x].kind = kind /\ l[x].at >= first}}

\* An alert at t, of a metric that was bad at times B and good at G, after those at R.
Deserves(t, wait, a, B, G, R) ==
    /\ a <= t - wait /\ (t - wait)..t \subseteq B
    /\ \A u \in R : u < t => t - u >= Cooldown /\ \E g \in G : u <= g /\ g <= t
RightUntil(m, wait, a, B, G, R) ==
    \A t \in a..(m - 1) : t \in R <=> Deserves(t, wait, a, B, G, R)

\* What the watch of a metric knows before the sample at m.
Knows(w, a, m, B, G, R) ==
    /\ w.badSince = Feed!None => m - 1 \notin B
    /\ w.badSince # Feed!None => /\ w.badSince \in a..(m - 1) /\ w.badSince - 1 \notin B
                                 /\ w.badSince..(m - 1) \subseteq B
    /\ w.lastAlertAt = Feed!None => R = {} /\ ~w.firing
    /\ w.lastAlertAt # Feed!None => /\ w.lastAlertAt \in R /\ \A u \in R : u <= w.lastAlertAt
                                    /\ w.firing <=> \A g \in G : g < w.lastAlertAt
Within(a, m, B, G, R) ==
    B \subseteq a..(m - 1) /\ G \subseteq a..(m - 1) /\ R \subseteq a..(m - 1) /\ B \cap G = {}


\* So it is of one metric, in a run that began at first.
WatchIsRight(kind, first, s, l, t, m) ==
    LET a == first + Warmup
        B == TimesIn(s, kind, "bad")
        G == TimesIn(s, kind, "good")
        R == RaisedIn(l, kind, first)
    IN  /\ Within(a, m, B, G, R) /\ Knows(WatchOf(t, kind), a, m, B, G, R)
        /\ RightUntil(m, WaitOf(kind), a, B, G, R)

Trackers(first) == [firstSampleAt : {first}, tps : Watches, ram : Watches]

SampledUntil(m, s, l, t) ==
    /\ s \in Seq(Readings) /\ \A i \in DOMAIN s : s[i].at + Len(s) + 1 = m + i
    /\ l \in Seq(Notices) /\ \A j \in DOMAIN l : l[j].at < m
    /\ s = <<>> => t = Feed!NoTracker
    /\ s # <<>> => /\ t \in Trackers(s[1].at)
                   /\ \A kind \in Metrics : WatchIsRight(kind, s[1].at, s, l, t, m)

AlertInv == now \in Nat /\ (topic = "samples" => SampledUntil(now, samples, alerts, tracker))

LEMMA NoMoment == Feed!None \in Int /\ Feed!None \notin Nat
BY DEF Feed!None

\* One sample moves the watch of one metric: what it knew before, it knows after, and it
\* fires exactly when an alert is deserved.
LEMMA WatchSteps ==
    ASSUME now \in Nat, NEW w \in Watches, NEW a \in Nat, a <= now, NEW level \in Ratings,
           NEW B, NEW G, NEW R, NEW wait \in Nat,
           Within(a, now, B, G, R), Knows(w, a, now, B, G, R), RightUntil(now, wait, a, B, G, R),
           NEW C, C = (IF level = "bad" THEN B \cup {now} ELSE B),
           NEW H, H = (IF level = "good" THEN G \cup {now} ELSE G),
           NEW s, s = Feed!stepWatch(w, level, wait),
           NEW S, S = (IF s.fire THEN R \cup {now} ELSE R)
    PROVE  /\ s.watch \in Watches /\ Within(a, now + 1, C, H, S)
           /\ Knows(s.watch, a, now + 1, C, H, S) /\ RightUntil(now + 1, wait, a, C, H, S)
<1> DEFINE since == IF w.badSince = Feed!None THEN now ELSE w.badSince
           fires == /\ level = "bad" /\ now - since >= wait /\ ~w.firing
                    /\ w.lastAlertAt = Feed!None \/ now - w.lastAlertAt >= Cooldown
<1>1. /\ s.fire = fires
      /\ s.watch = IF level # "bad"
                   THEN [w EXCEPT !.badSince = Feed!None, !.firing = @ /\ level # "good"]
                   ELSE IF fires THEN [badSince |-> since, firing |-> TRUE, lastAlertAt |-> now]
                   ELSE [w EXCEPT !.badSince = since]
  BY DEF Feed!stepWatch
<1>2. /\ w.badSince \in Moments /\ w.firing \in BOOLEAN /\ w.lastAlertAt \in Moments
      /\ \A x \in Moments : x # Feed!None => x \in Nat
  BY DEF Watches, Moments
<1>3. since \in Nat /\ Cooldown \in Nat BY <1>2, FeedAssumption
<1>4. /\ B \subseteq a..(now - 1) /\ G \subseteq a..(now - 1) /\ R \subseteq a..(now - 1)
      /\ B \cap G = {}
  BY DEF Within
<1>5. fires \in BOOLEAN OBVIOUS
<1>6. since \in a..now /\ since..now \subseteq B \cup {now} /\ since - 1 \notin B
  BY <1>2, <1>4 DEF Knows
<1>7. Within(a, now + 1, C, H, S)
  BY <1>4, NoMoment DEF Within, Ratings
<1> HIDE DEF since, fires
<1>8. /\ s.watch \in Watches
      /\ s.watch.badSince = IF level = "bad" THEN since ELSE Feed!None
      /\ s.watch.firing = IF level = "bad" THEN (fires \/ w.firing) ELSE (w.firing /\ level # "good")
      /\ s.watch.lastAlertAt = IF fires THEN now ELSE w.lastAlertAt
  <2>1. w = [badSince |-> w.badSince, firing |-> w.firing, lastAlertAt |-> w.lastAlertAt]
    BY DEF Watches
  <2>2. fires => level = "bad" BY DEF fires
  <2>3. now \in Moments /\ since \in Moments /\ Feed!None \in Moments BY <1>3 DEF Moments
  <2>4. CASE level # "bad"
    <3>1. s.watch = [badSince |-> Feed!None, firing |-> w.firing /\ level # "good",
                     lastAlertAt |-> w.lastAlertAt]
      BY <1>1, <2>1, <2>4
    <3> QED BY <1>2, <2>2, <2>3, <2>4, <3>1 DEF Watches
  <2>5. CASE level = "bad" /\ fires
    <3>1. s.watch = [badSince |-> since, firing |-> TRUE, lastAlertAt |-> now]
      BY <1>1, <2>5
    <3>2. s.watch.badSince = since /\ s.watch.firing = TRUE /\ s.watch.lastAlertAt = now
      BY <3>1
    <3>3. s.watch \in Watches BY <2>3, <3>1 DEF Watches
    <3> QED BY <2>5, <3>2, <3>3
  <2>6. CASE level = "bad" /\ ~fires
    <3>1. s.watch = [badSince |-> since, firing |-> w.firing, lastAlertAt |-> w.lastAlertAt]
      BY <1>1, <2>1, <2>6
    <3> QED BY <1>2, <2>3, <2>6, <3>1 DEF Watches
  <2> QED BY <2>4, <2>5, <2>6
<1>9. Knows(s.watch, a, now + 1, C, H, S)
  <2>1. (now + 1) - 1 = now OBVIOUS
  <2>2. s.watch.badSince = Feed!None => now \notin C
    BY <1>3, <1>4, <1>8, NoMoment
  <2>3. s.watch.badSince # Feed!None => /\ s.watch.badSince \in a..now /\ s.watch.badSince - 1 \notin C
                                        /\ s.watch.badSince..now \subseteq C
    <3>1. level = "bad" /\ s.watch.badSince = since /\ C = B \cup {now}
          => since - 1 \notin C
      BY <1>6
    <3> QED BY <1>6, <1>8, <3>1
  <2>4. s.watch.lastAlertAt = Feed!None => S = {} /\ ~s.watch.firing
    BY <1>1, <1>8, NoMoment DEF Knows
  <2>5. s.watch.lastAlertAt # Feed!None => /\ s.watch.lastAlertAt \in S
                                           /\ \A u \in S : u <= s.watch.lastAlertAt
    BY <1>1, <1>4, <1>8, NoMoment DEF Knows
  <2>6. s.watch.lastAlertAt # Feed!None => (s.watch.firing <=> \A g \in H : g < s.watch.lastAlertAt)
    <3>1. CASE fires
      <4>1. level = "bad" BY <3>1 DEF fires
      <4>2. H = G /\ \A g \in G : g < now BY <1>4, <4>1
      <4> QED BY <1>8, <3>1, <4>1, <4>2
    <3>2. CASE ~fires /\ level # "good"
      <4>1. H = G BY <3>2
      <4>2. s.watch.firing = w.firing /\ s.watch.lastAlertAt = w.lastAlertAt BY <1>2, <1>8, <3>2
      <4> QED BY <4>1, <4>2 DEF Knows
    <3>3. CASE ~fires /\ level = "good"
      <4>1. s.watch.firing = FALSE /\ s.watch.lastAlertAt = w.lastAlertAt /\ now \in H
        BY <1>8, <3>3
      <4>2. w.lastAlertAt # Feed!None => w.lastAlertAt < now
        <5>1. w.lastAlertAt # Feed!None => w.lastAlertAt \in R BY DEF Knows
        <5>2. \A u \in R : u < now BY <1>4
        <5> QED BY <5>1, <5>2
      <4> QED BY <1>2, <4>1, <4>2
    <3> QED BY <3>1, <3>2, <3>3
  <2> QED BY <2>1, <2>2, <2>3, <2>4, <2>5, <2>6 DEF Knows
<1>10. fires <=> Deserves(now, wait, a, C, H, S)
  <2>1. ASSUME fires PROVE Deserves(now, wait, a, C, H, S)
    <3>1. level = "bad" /\ now - since >= wait /\ ~w.firing
          /\ (w.lastAlertAt = Feed!None \/ now - w.lastAlertAt >= Cooldown)
      BY <2>1 DEF fires
    <3>2. a <= now - wait /\ (now - wait)..now \subseteq C
      BY <1>3, <1>6, <3>1
    <3>3. ASSUME NEW u \in S, u < now
          PROVE  now - u >= Cooldown /\ \E g \in H : u <= g /\ g <= now
      <4>1. u \in R BY <1>1, <3>3
      <4>2. w.lastAlertAt # Feed!None /\ u <= w.lastAlertAt BY <4>1 DEF Knows
      <4>3. w.lastAlertAt \in Nat /\ u \in Int BY <1>2, <1>4, <4>1, <4>2
      <4>4. PICK g \in G : ~(g < w.lastAlertAt) BY <3>1, <4>2 DEF Knows
      <4>5. g \in H /\ g \in Int /\ u <= g /\ g <= now BY <1>4, <4>2, <4>3, <4>4
      <4> QED BY <1>3, <3>1, <4>2, <4>3, <4>5
    <3> QED BY <3>2, <3>3 DEF Deserves
  <2>2. ASSUME Deserves(now, wait, a, C, H, S) PROVE fires
    <3>1. a <= now - wait /\ (now - wait)..now \subseteq C
      BY <2>2 DEF Deserves
    <3>2. level = "bad"
      <4>1. now \in (now - wait)..now OBVIOUS
      <4> QED BY <1>4, <3>1, <4>1
    <3>3. now - since >= wait
      <4> SUFFICES ASSUME ~(now - since >= wait) PROVE FALSE
        OBVIOUS
      <4>1. since - 1 \in (now - wait)..now /\ since - 1 # now
        BY <1>3, <1>6
      <4> QED BY <1>6, <3>1, <4>1
    <3>4. w.lastAlertAt # Feed!None =>
              /\ w.lastAlertAt \in Nat /\ w.lastAlertAt < now /\ now - w.lastAlertAt >= Cooldown
              /\ \E g \in G : w.lastAlertAt <= g
      <4> SUFFICES ASSUME w.lastAlertAt # Feed!None
                   PROVE  /\ w.lastAlertAt \in Nat /\ w.lastAlertAt < now
                          /\ now - w.lastAlertAt >= Cooldown /\ \E g \in G : w.lastAlertAt <= g
        OBVIOUS
      <4>1. w.lastAlertAt \in S /\ w.lastAlertAt \in Nat /\ w.lastAlertAt < now
        BY <1>2, <1>4 DEF Knows
      <4>2. H = G BY <3>2
      <4> QED BY <2>2, <4>1, <4>2 DEF Deserves
    <3>5. ~w.firing
      <4>1. CASE w.lastAlertAt = Feed!None BY <4>1 DEF Knows
      <4>2. CASE w.lastAlertAt # Feed!None
        <5>1. PICK g \in G : w.lastAlertAt <= g BY <3>4, <4>2
        <5>2. ~(g < w.lastAlertAt) BY <1>4, <3>4, <4>2, <5>1
        <5> QED BY <4>2, <5>2 DEF Knows
      <4> QED BY <4>1, <4>2
    <3> QED BY <3>2, <3>3, <3>4, <3>5 DEF fires
  <2> QED BY <2>1, <2>2
<1>11. RightUntil(now + 1, wait, a, C, H, S)
  <2> SUFFICES ASSUME NEW t \in a..now PROVE t \in S <=> Deserves(t, wait, a, C, H, S)
    BY DEF RightUntil
  <2>1. CASE t = now
    <3>1. now \in S <=> fires BY <1>1, <1>4, <1>5
    <3> QED BY <1>10, <2>1, <3>1
  <2>2. CASE t # now
    <3>1. t \in a..(now - 1) BY <2>2
    <3>2. t \in S <=> t \in R BY <2>2
    <3>3. (t - wait)..t \subseteq C <=> (t - wait)..t \subseteq B BY <3>1
    <3>4. \A u \in S : u < t <=> u \in R /\ u < t BY <3>1
    <3>5. \A u : (\E g \in H : u <= g /\ g <= t) <=> (\E g \in G : u <= g /\ g <= t) BY <3>1
    <3>6. t \in R <=> Deserves(t, wait, a, B, G, R) BY <3>1 DEF RightUntil
    <3>7. Deserves(t, wait, a, B, G, R) <=> Deserves(t, wait, a, C, H, S)
      BY <3>3, <3>4, <3>5 DEF Deserves
    <3> QED BY <3>2, <3>6, <3>7
  <2> QED BY <2>1, <2>2
<1> QED BY <1>7, <1>8, <1>9, <1>11

\* Samples that do not count yet.
LEMMA WatchWaits ==
    ASSUME now \in Nat, NEW w \in Watches, NEW a \in Nat, now < a, NEW B, NEW G, NEW R, NEW wait \in Nat,
           Within(a, now, B, G, R), Knows(w, a, now, B, G, R)
    PROVE  Within(a, now + 1, B, G, R) /\ Knows(w, a, now + 1, B, G, R)
           /\ RightUntil(now + 1, wait, a, B, G, R)
<1>1. B = {} /\ G = {} /\ R = {} BY DEF Within
<1>2. w.badSince = Feed!None /\ w.lastAlertAt = Feed!None /\ ~w.firing BY <1>1 DEF Knows
<1>3. a..((now + 1) - 1) = {} OBVIOUS
<1> QED BY <1>1, <1>2, <1>3 DEF Within, Knows, RightUntil

\* The samples s up to m with r, taken at m; the alerts l with r, if it is raised.
SampledOnce(m, s, r, t) ==
    /\ t \in Seq(Readings) /\ t # <<>> /\ Len(t) = Len(s) + 1
    /\ t[1].at = (IF s = <<>> THEN m ELSE s[1].at) /\ t[1].at \in Nat /\ t[1].at <= m
    /\ \A i \in DOMAIN t : t[i].at + Len(t) + 1 = (m + 1) + i
    /\ \A kind \in Metrics, level \in Ratings :
          TimesIn(t, kind, level) =
              TimesIn(s, kind, level)
              \cup (IF m - t[1].at >= Warmup /\ LevelOf(r, kind) = level THEN {m} ELSE {})
RaisedOnce(l, r, isRaised, k) ==
    /\ k \in Seq(Notices)
    /\ \A j \in DOMAIN k : (k[j] = r /\ isRaised) \/ \E i \in DOMAIN l : k[j] = l[i]
    /\ \A kind, first : RaisedIn(k, kind, first) =
           RaisedIn(l, kind, first)
           \cup (IF isRaised /\ r.kind = kind /\ r.at >= first THEN {r.at} ELSE {})

LEMMA OneMoreSample ==
    ASSUME NEW m \in Nat, NEW s \in Seq(Readings),
           \A i \in DOMAIN s : s[i].at + Len(s) + 1 = m + i,
           NEW r \in Readings, r.at = m, NEW t, t = Append(s, r)
    PROVE  SampledOnce(m, s, r, t)
<1> DEFINE n == Len(s)
<1>1. n \in Nat /\ DOMAIN s = 1..n /\ \A i \in 1..n : s[i] \in Readings /\ s[i].at \in Nat
  <2>1. n \in Nat /\ DOMAIN s = 1..n BY LenProperties
  <2>2. \A i \in 1..n : s[i] \in Readings BY ElementOfSeq
  <2>3. \A q \in Readings : q.at \in Nat BY DEF Readings
  <2> QED BY <2>1, <2>2, <2>3
<1>2. /\ t \in Seq(Readings) /\ Len(t) = n + 1 /\ DOMAIN t = 1..(n + 1)
      /\ t[n + 1] = r /\ \A i \in 1..n : t[i] = s[i]
  BY AppendProperties, LenProperties
<1>3. t # <<>> /\ (s = <<>> <=> n = 0) BY <1>1, <1>2, EmptySeq
<1>4. t[1].at = (IF s = <<>> THEN m ELSE s[1].at) /\ t[1].at \in Nat /\ t[1].at <= m
  <2>1. CASE n = 0 BY <1>2, <1>3, <2>1
  <2>2. CASE n # 0
    <3>1. 1 \in 1..n BY <1>1, <2>2
    <3>2. s[1].at + n + 1 = m + 1 /\ s[1].at \in Nat BY <1>1, <3>1
    <3> QED BY <1>1, <1>2, <1>3, <2>2, <3>1, <3>2
  <2> QED BY <2>1, <2>2
<1>5. ASSUME NEW i \in 1..(n + 1) PROVE t[i].at + (n + 1) + 1 = (m + 1) + i
  <2>1. CASE i = n + 1
    <3>1. t[i].at = m BY <1>2, <2>1
    <3> QED BY <1>1, <2>1, <3>1
  <2>2. CASE i # n + 1
    <3>1. i \in 1..n BY <1>1, <2>2
    <3>2. s[i].at + n + 1 = m + i /\ s[i].at \in Nat /\ t[i] = s[i] BY <1>1, <1>2, <3>1
    <3> QED BY <1>1, <3>1, <3>2
  <2> QED BY <2>1, <2>2
<1>6. ASSUME NEW kind \in Metrics, NEW level \in Ratings
      PROVE  TimesIn(t, kind, level) =
                 TimesIn(s, kind, level)
                 \cup (IF m - t[1].at >= Warmup /\ LevelOf(r, kind) = level THEN {m} ELSE {})
  <2>1. n # 0 => t[1].at = s[1].at BY <1>3, <1>4
  <2>2. \A i \in 1..n : i \in Counted(t) <=> i \in Counted(s)
    <3>1. \A i \in 1..n : n # 0 BY <1>1
    <3> QED BY <1>1, <1>2, <2>1, <3>1 DEF Counted
  <2>3. n + 1 \in Counted(t) <=> m - t[1].at >= Warmup BY <1>1, <1>2 DEF Counted
  <2>4. Counted(t) \subseteq 1..(n + 1) /\ Counted(s) \subseteq 1..n BY <1>1, <1>2 DEF Counted
  <2>5. ASSUME NEW x \in TimesIn(t, kind, level)
        PROVE  x \in TimesIn(s, kind, level)
               \/ (x = m /\ m - t[1].at >= Warmup /\ LevelOf(r, kind) = level)
    <3>1. PICK i \in Counted(t) : x = t[i].at /\ LevelOf(t[i], kind) = level BY DEF TimesIn
    <3>2. CASE i = n + 1 BY <1>2, <2>3, <3>1, <3>2
    <3>3. CASE i # n + 1
      <4>1. i \in 1..n BY <1>1, <2>4, <3>3
      <4>2. i \in Counted(s) /\ t[i] = s[i] BY <1>2, <2>2, <4>1
      <4> QED BY <3>1, <4>2 DEF TimesIn
    <3> QED BY <3>2, <3>3
  <2>6. ASSUME NEW x \in TimesIn(s, kind, level) PROVE x \in TimesIn(t, kind, level)
    <3>1. PICK i \in Counted(s) : x = s[i].at /\ LevelOf(s[i], kind) = level BY DEF TimesIn
    <3>2. i \in Counted(t) /\ t[i] = s[i] BY <1>2, <2>2, <2>4
    <3> QED BY <3>1, <3>2 DEF TimesIn
  <2>7. m - t[1].at >= Warmup /\ LevelOf(r, kind) = level => m \in TimesIn(t, kind, level)
    BY <1>2, <2>3 DEF TimesIn
  <2> QED BY <2>5, <2>6, <2>7
<1> QED BY <1>2, <1>3, <1>4, <1>5, <1>6 DEF SampledOnce

LEMMA OneMoreAlert ==
    ASSUME NEW l \in Seq(Notices), NEW r \in Notices, NEW f \in BOOLEAN,
           NEW k, k = l \o (IF f THEN <<r>> ELSE <<>>)
    PROVE  RaisedOnce(l, r, f, k)
<1> DEFINE n == Len(l)
<1>1. n \in Nat /\ DOMAIN l = 1..n BY LenProperties
<1>2. CASE ~f
  <2>1. k = l BY <1>2, ConcatEmptySeq
  <2> QED BY <1>2, <2>1 DEF RaisedOnce
<1>3. CASE f
  <2>1. k = Append(l, r)
    <3>1. k = l \o <<r>> BY <1>3
    <3> QED BY <3>1, AppendIsConcat
  <2>2. /\ k \in Seq(Notices) /\ DOMAIN k = 1..(n + 1)
        /\ k[n + 1] = r /\ \A i \in 1..n : k[i] = l[i]
    BY <2>1, AppendProperties, LenProperties
  <2>3. \A j \in 1..(n + 1) : j = n + 1 \/ j \in 1..n BY <1>1
  <2>4. \A j \in DOMAIN k : k[j] = r \/ \E i \in DOMAIN l : k[j] = l[i] BY <1>1, <2>2, <2>3
  <2>5. ASSUME NEW kind, NEW first
        PROVE  RaisedIn(k, kind, first) =
                   RaisedIn(l, kind, first) \cup (IF r.kind = kind /\ r.at >= first THEN {r.at} ELSE {})
    <3>1. ASSUME NEW x \in RaisedIn(k, kind, first)
          PROVE  x \in RaisedIn(l, kind, first) \/ (x = r.at /\ r.kind = kind /\ r.at >= first)
      <4>1. PICK j \in DOMAIN k : x = k[j].at /\ k[j].kind = kind /\ k[j].at >= first BY DEF RaisedIn
      <4> QED BY <1>1, <2>2, <2>3, <4>1 DEF RaisedIn
    <3>2. ASSUME NEW x \in RaisedIn(l, kind, first) PROVE x \in RaisedIn(k, kind, first)
      <4>1. PICK j \in DOMAIN l : x = l[j].at /\ l[j].kind = kind /\ l[j].at >= first BY DEF RaisedIn
      <4>2. j \in DOMAIN k /\ k[j] = l[j] BY <1>1, <2>2
      <4> QED BY <4>1, <4>2 DEF RaisedIn
    <3>3. r.kind = kind /\ r.at >= first => r.at \in RaisedIn(k, kind, first)
      <4>1. n + 1 \in DOMAIN k BY <1>1, <2>2
      <4> QED BY <2>2, <4>1 DEF RaisedIn
    <3> QED BY <3>1, <3>2, <3>3
  <2> QED BY <1>3, <2>2, <2>4, <2>5 DEF RaisedOnce
<1> QED BY <1>2, <1>3

\* Before a sample the watches are right, those of a run that begins with it included.
LEMMA WatchesReady ==
    ASSUME now \in Nat, SampledUntil(now, samples, alerts, tracker),
           NEW first, first = (IF samples = <<>> THEN now ELSE samples[1].at),
           NEW state, state = (IF tracker = Feed!NoTracker
                               THEN [firstSampleAt |-> now, tps |-> Feed!Idle, ram |-> Feed!Idle]
                               ELSE tracker)
    PROVE  /\ state \in Trackers(first)
           /\ \A kind \in Metrics : WatchIsRight(kind, first, samples, alerts, state, now)
<1>1. Warmup \in Nat /\ Feed!Idle \in Watches /\ NoMoment
  <2>1. Warmup \in Nat BY FeedAssumption
  <2>2. Feed!Idle \in Watches BY DEF Feed!Idle, Watches, Moments
  <2> QED BY <2>1, <2>2, NoMoment
<1>2. CASE samples = <<>>
  <2>1. tracker = Feed!NoTracker /\ first = now BY <1>2 DEF SampledUntil
  <2>2. state = [firstSampleAt |-> now, tps |-> Feed!Idle, ram |-> Feed!Idle] BY <2>1
  <2>3. state \in Trackers(first) BY <1>1, <2>1, <2>2 DEF Trackers
  <2>4. ASSUME NEW kind \in Metrics PROVE WatchIsRight(kind, first, samples, alerts, state, now)
    <3>1. \A level : TimesIn(samples, kind, level) = {}
      BY <1>2, EmptySeq DEF TimesIn, Counted
    <3>2. RaisedIn(alerts, kind, first) = {}
      <4>1. \A j \in DOMAIN alerts : alerts[j].at \in Nat /\ alerts[j].at < now
        <5>1. alerts \in Seq(Notices) /\ \A j \in DOMAIN alerts : alerts[j].at < now
          BY DEF SampledUntil
        <5>2. \A j \in DOMAIN alerts : alerts[j] \in Notices BY <5>1, ElementOfSeq, LenProperties
        <5>3. \A n \in Notices : n.at \in Nat BY DEF Notices
        <5> QED BY <5>1, <5>2, <5>3
      <4> QED BY <2>1, <4>1 DEF RaisedIn
    <3>3. WatchOf(state, kind) = Feed!Idle BY <2>2 DEF WatchOf
    <3>4. (first + Warmup)..(now - 1) = {} BY <1>1, <2>1
    <3>5. Within(first + Warmup, now, {}, {}, {}) BY DEF Within
    <3>6. Knows(Feed!Idle, first + Warmup, now, {}, {}, {}) BY DEF Knows, Feed!Idle
    <3>7. RightUntil(now, WaitOf(kind), first + Warmup, {}, {}, {}) BY <3>4 DEF RightUntil
    <3> QED BY <3>1, <3>2, <3>3, <3>5, <3>6, <3>7 DEF WatchIsRight
  <2> QED BY <2>3, <2>4
<1>3. CASE samples # <<>>
  <2>1. first = samples[1].at /\ tracker \in Trackers(first)
        /\ \A kind \in Metrics : WatchIsRight(kind, first, samples, alerts, tracker, now)
    BY <1>3 DEF SampledUntil
  <2>2. first \in Nat
    <3>1. samples \in Seq(Readings) BY DEF SampledUntil
    <3>2. samples[1] \in Readings BY <1>3, <3>1, ElementOfSeq, EmptySeq, LenProperties
    <3> QED BY <2>1, <3>2 DEF Readings
  <2>3. tracker # Feed!NoTracker
    <3>1. tracker.firstSampleAt = first BY <2>1 DEF Trackers
    <3>2. Feed!NoTracker.firstSampleAt = Feed!None BY DEF Feed!NoTracker
    <3> QED BY <2>2, <3>1, <3>2, NoMoment
  <2> QED BY <2>1, <2>3
<1> QED BY <1>2, <1>3

\* A sample moves both watches, and what they raise is in the list.
LEMMA SampleNoted ==
    ASSUME AlertInv, topic = "samples", topic' = topic, now' = now + 1, NEW v \in Feed!Samples,
           Feed!noteTelemetrySample(v),
           samples' = Append(samples, [at |-> now, low |-> v.tps, high |-> v.ram])
    PROVE  AlertInv'
<1>1. now \in Nat /\ SampledUntil(now, samples, alerts, tracker) BY DEF AlertInv
<1>2. PICK first : first = IF samples = <<>> THEN now ELSE samples[1].at OBVIOUS
<1>3. PICK state : state = IF tracker = Feed!NoTracker
                           THEN [firstSampleAt |-> now, tps |-> Feed!Idle, ram |-> Feed!Idle]
                           ELSE tracker
  OBVIOUS
<1>4. /\ state \in Trackers(first)
      /\ \A kind \in Metrics : WatchIsRight(kind, first, samples, alerts, state, now)
  BY <1>1, <1>2, <1>3, WatchesReady
<1>5. PICK r : r = [at |-> now, low |-> v.tps, high |-> v.ram] OBVIOUS
<1>6. r \in Readings /\ r.at = now /\ v.tps \in Ratings /\ v.ram \in Ratings
      /\ LevelOf(r, "low-tps") = v.tps /\ LevelOf(r, "high-ram") = v.ram
  BY <1>1, <1>5 DEF Feed!Samples, Readings, Ratings, LevelOf
<1>7. samples \in Seq(Readings) /\ (\A i \in DOMAIN samples : samples[i].at + Len(samples) + 1 = now + i)
      /\ alerts \in Seq(Notices) /\ \A j \in DOMAIN alerts : alerts[j].at < now
  BY <1>1 DEF SampledUntil
<1>8. /\ samples' \in Seq(Readings) /\ samples' # <<>>
      /\ samples'[1].at = first /\ first \in Nat /\ first <= now
      /\ \A i \in DOMAIN samples' : samples'[i].at + Len(samples') + 1 = (now + 1) + i
      /\ \A kind \in Metrics, level \in Ratings :
            TimesIn(samples', kind, level) =
                TimesIn(samples, kind, level)
                \cup (IF now - first >= Warmup /\ LevelOf(r, kind) = level THEN {now} ELSE {})
  <2>1. samples' = Append(samples, r) BY <1>5
  <2>2. SampledOnce(now, samples, r, samples') BY <1>1, <1>6, <1>7, <2>1, OneMoreSample
  <2>3. samples'[1].at = first BY <1>2, <2>2 DEF SampledOnce
  <2> QED BY <2>2, <2>3 DEF SampledOnce
<1>9. Warmup \in Nat /\ \A kind \in Metrics : WaitOf(kind) \in Nat
  BY FeedAssumption DEF WaitOf
<1>10. "low-tps" \in Metrics /\ "high-ram" \in Metrics /\ \A k \in Metrics : k = "low-tps" \/ k = "high-ram"
  BY DEF Metrics
<1>11. state.firstSampleAt = first /\ state.tps \in Watches /\ state.ram \in Watches
       /\ \A kind \in Metrics : WatchOf(state, kind) \in Watches
  BY <1>4 DEF Trackers, WatchOf
<1> DEFINE a == first + Warmup
<1>12. ASSUME NEW kind \in Metrics
       PROVE  /\ Within(a, now, TimesIn(samples, kind, "bad"), TimesIn(samples, kind, "good"),
                        RaisedIn(alerts, kind, first))
              /\ Knows(WatchOf(state, kind), a, now, TimesIn(samples, kind, "bad"),
                       TimesIn(samples, kind, "good"), RaisedIn(alerts, kind, first))
              /\ RightUntil(now, WaitOf(kind), a, TimesIn(samples, kind, "bad"),
                            TimesIn(samples, kind, "good"), RaisedIn(alerts, kind, first))
  BY <1>4 DEF WatchIsRight
<1>13. "bad" \in Ratings /\ "good" \in Ratings BY DEF Ratings
<1>14. CASE now - first < Warmup
  <2>1. tracker' = state /\ alerts' = alerts
    BY <1>3, <1>11, <1>14 DEF Feed!noteTelemetrySample
  <2>2. \A kind \in Metrics, level \in Ratings :
            TimesIn(samples', kind, level) = TimesIn(samples, kind, level)
    <3>1. ~(now - first >= Warmup) BY <1>1, <1>8, <1>9, <1>14
    <3> SUFFICES ASSUME NEW kind \in Metrics, NEW level \in Ratings
                 PROVE  TimesIn(samples', kind, level) = TimesIn(samples, kind, level)
      OBVIOUS
    <3>2. TimesIn(samples', kind, level) =
              TimesIn(samples, kind, level)
              \cup (IF now - first >= Warmup /\ LevelOf(r, kind) = level THEN {now} ELSE {})
      BY <1>8
    <3> QED BY <3>1, <3>2
  <2>3. now < a /\ a \in Nat BY <1>1, <1>8, <1>9, <1>14
  <2>4. ASSUME NEW kind \in Metrics
        PROVE  WatchIsRight(kind, first, samples', alerts', tracker', now + 1)
    <3>1. /\ TimesIn(samples', kind, "bad") = TimesIn(samples, kind, "bad")
          /\ TimesIn(samples', kind, "good") = TimesIn(samples, kind, "good")
      BY <1>13, <2>2
    <3>2. /\ Within(a, now + 1, TimesIn(samples, kind, "bad"), TimesIn(samples, kind, "good"),
                    RaisedIn(alerts, kind, first))
          /\ Knows(WatchOf(state, kind), a, now + 1, TimesIn(samples, kind, "bad"),
                   TimesIn(samples, kind, "good"), RaisedIn(alerts, kind, first))
          /\ RightUntil(now + 1, WaitOf(kind), a, TimesIn(samples, kind, "bad"),
                        TimesIn(samples, kind, "good"), RaisedIn(alerts, kind, first))
      <4> HIDE DEF a
      <4> QED BY <1>1, <1>9, <1>11, <1>12, <2>3, WatchWaits
    <3> QED BY <2>1, <3>1, <3>2 DEF WatchIsRight
  <2>5. now + 1 \in Nat /\ \A j \in DOMAIN alerts : alerts[j].at < now + 1
    <3>1. \A j \in DOMAIN alerts : alerts[j].at \in Nat
      <4>1. \A j \in DOMAIN alerts : alerts[j] \in Notices BY <1>7, ElementOfSeq, LenProperties
      <4> QED BY <4>1 DEF Notices
    <3> QED BY <1>1, <1>7, <3>1
  <2>6. SampledUntil(now + 1, samples', alerts', tracker')
    BY <1>4, <1>7, <1>8, <2>1, <2>4, <2>5 DEF SampledUntil
  <2> QED BY <2>5, <2>6 DEF AlertInv
<1>15. CASE ~(now - first < Warmup)
  <2>1. PICK tps : tps = Feed!stepWatch(state.tps, v.tps, Sustain) OBVIOUS
  <2>2. PICK ram : ram = Feed!stepWatch(state.ram, v.ram, RamSustain) OBVIOUS
  <2>3. PICK lo : lo = [kind |-> "low-tps", id |-> <<"low-tps", now>>, no |-> now, at |-> now,
                        count |-> 1]
    BY Zenon
  <2>4. PICK hi : hi = [kind |-> "high-ram", id |-> <<"high-ram", now>>, no |-> now, at |-> now,
                        count |-> 1]
    BY Zenon
  <2>5. PICK k : k = alerts \o (IF tps.fire THEN <<lo>> ELSE <<>>) OBVIOUS
  <2>6. /\ tracker' = [state EXCEPT !.tps = tps.watch, !.ram = ram.watch]
        /\ alerts' = k \o (IF ram.fire THEN <<hi>> ELSE <<>>)
    <3> HIDE DEF a
    <3> QED BY <1>3, <1>11, <1>15, <2>1, <2>2, <2>3, <2>4, <2>5 DEF Feed!noteTelemetrySample
  <2>21. first \in Nat /\ first <= now BY <1>8
  <2>7. tps.fire \in BOOLEAN /\ ram.fire \in BOOLEAN BY <2>1, <2>2 DEF Feed!stepWatch
  <2>8. lo \in Notices /\ hi \in Notices /\ lo.at = now /\ hi.at = now
        /\ lo.kind = "low-tps" /\ hi.kind = "high-ram"
    BY <1>1, <1>10, <2>3, <2>4 DEF Notices
  <2>9. /\ k \in Seq(Notices)
        /\ \A j \in DOMAIN k : k[j] = lo \/ \E i \in DOMAIN alerts : k[j] = alerts[i]
        /\ RaisedIn(k, "low-tps", first) = RaisedIn(alerts, "low-tps", first) \cup (IF tps.fire THEN {now} ELSE {})
        /\ RaisedIn(k, "high-ram", first) = RaisedIn(alerts, "high-ram", first)
    <3>1. RaisedOnce(alerts, lo, tps.fire, k) BY <1>7, <2>5, <2>7, <2>8, OneMoreAlert
    <3>2. \A kd : RaisedIn(k, kd, first) =
              RaisedIn(alerts, kd, first) \cup (IF tps.fire /\ lo.kind = kd /\ lo.at >= first THEN {lo.at} ELSE {})
      BY <3>1 DEF RaisedOnce
    <3>3. now >= first BY <1>1, <2>21
    <3>4. RaisedIn(k, "low-tps", first) = RaisedIn(alerts, "low-tps", first) \cup (IF tps.fire THEN {now} ELSE {})
      BY <2>8, <3>2, <3>3
    <3>5. RaisedIn(k, "high-ram", first) = RaisedIn(alerts, "high-ram", first)
      BY <2>8, <3>2
    <3> QED BY <3>1, <3>4, <3>5 DEF RaisedOnce
  <2>10. /\ alerts' \in Seq(Notices)
         /\ \A j \in DOMAIN alerts' : alerts'[j] = hi \/ \E i \in DOMAIN k : alerts'[j] = k[i]
         /\ RaisedIn(alerts', "low-tps", first) = RaisedIn(k, "low-tps", first)
         /\ RaisedIn(alerts', "high-ram", first) = RaisedIn(k, "high-ram", first) \cup (IF ram.fire THEN {now} ELSE {})
    <3>1. RaisedOnce(k, hi, ram.fire, alerts')
      <4>1. alerts' = k \o (IF ram.fire THEN <<hi>> ELSE <<>>) BY <2>6
      <4> QED BY <2>7, <2>8, <2>9, <4>1, OneMoreAlert
    <3>2. \A kd : RaisedIn(alerts', kd, first) =
              RaisedIn(k, kd, first) \cup (IF ram.fire /\ hi.kind = kd /\ hi.at >= first THEN {hi.at} ELSE {})
      BY <3>1 DEF RaisedOnce
    <3>3. now >= first BY <1>1, <2>21
    <3>4. RaisedIn(alerts', "high-ram", first) = RaisedIn(k, "high-ram", first) \cup (IF ram.fire THEN {now} ELSE {})
      BY <2>8, <3>2, <3>3
    <3>5. RaisedIn(alerts', "low-tps", first) = RaisedIn(k, "low-tps", first)
      BY <2>8, <3>2
    <3> QED BY <3>1, <3>4, <3>5 DEF RaisedOnce
  <2>11. RaisedIn(alerts', "low-tps", first) =
             (IF tps.fire THEN RaisedIn(alerts, "low-tps", first) \cup {now}
              ELSE RaisedIn(alerts, "low-tps", first))
    BY <2>9, <2>10
  <2>12. RaisedIn(alerts', "high-ram", first) =
             (IF ram.fire THEN RaisedIn(alerts, "high-ram", first) \cup {now}
              ELSE RaisedIn(alerts, "high-ram", first))
    BY <2>9, <2>10
  <2>13. a \in Nat /\ a <= now /\ now - first >= Warmup BY <1>1, <1>8, <1>9, <1>15
  <2>14. \A kd \in Metrics :
            /\ TimesIn(samples', kd, "bad") = (IF LevelOf(r, kd) = "bad" THEN TimesIn(samples, kd, "bad") \cup {now}
                                               ELSE TimesIn(samples, kd, "bad"))
            /\ TimesIn(samples', kd, "good") = (IF LevelOf(r, kd) = "good" THEN TimesIn(samples, kd, "good") \cup {now}
                                                ELSE TimesIn(samples, kd, "good"))
      <3>1. ASSUME NEW kd \in Metrics, NEW level \in Ratings
          PROVE  TimesIn(samples', kd, level) =
                     (IF LevelOf(r, kd) = level THEN TimesIn(samples, kd, level) \cup {now}
                      ELSE TimesIn(samples, kd, level))
      <4>1. TimesIn(samples', kd, level) =
                TimesIn(samples, kd, level)
                \cup (IF now - first >= Warmup /\ LevelOf(r, kd) = level THEN {now} ELSE {})
        BY <1>8
      <4> QED BY <2>13, <4>1
    <3> QED BY <1>13, <3>1
  <2>15. /\ tps.watch \in Watches
         /\ WatchIsRight("low-tps", first, samples', alerts', tracker', now + 1)
    <3>1. WatchOf(state, "low-tps") = state.tps /\ WaitOf("low-tps") = Sustain
      BY DEF WatchOf, WaitOf
    <3>2. /\ tps.watch \in Watches
          /\ Within(a, now + 1, TimesIn(samples', "low-tps", "bad"), TimesIn(samples', "low-tps", "good"),
                    RaisedIn(alerts', "low-tps", first))
          /\ Knows(tps.watch, a, now + 1, TimesIn(samples', "low-tps", "bad"),
                   TimesIn(samples', "low-tps", "good"), RaisedIn(alerts', "low-tps", first))
          /\ RightUntil(now + 1, Sustain, a, TimesIn(samples', "low-tps", "bad"),
                        TimesIn(samples', "low-tps", "good"), RaisedIn(alerts', "low-tps", first))
      <4>1. /\ Within(a, now, TimesIn(samples, "low-tps", "bad"), TimesIn(samples, "low-tps", "good"),
                      RaisedIn(alerts, "low-tps", first))
            /\ Knows(state.tps, a, now, TimesIn(samples, "low-tps", "bad"),
                     TimesIn(samples, "low-tps", "good"), RaisedIn(alerts, "low-tps", first))
            /\ RightUntil(now, Sustain, a, TimesIn(samples, "low-tps", "bad"),
                          TimesIn(samples, "low-tps", "good"), RaisedIn(alerts, "low-tps", first))
        BY <1>10, <1>12, <3>1
      <4>2. Sustain \in Nat BY FeedAssumption
      <4>3. /\ TimesIn(samples', "low-tps", "bad") =
                   (IF v.tps = "bad" THEN TimesIn(samples, "low-tps", "bad") \cup {now}
                    ELSE TimesIn(samples, "low-tps", "bad"))
            /\ TimesIn(samples', "low-tps", "good") =
                   (IF v.tps = "good" THEN TimesIn(samples, "low-tps", "good") \cup {now}
                    ELSE TimesIn(samples, "low-tps", "good"))
        BY <1>6, <1>10, <2>14
      <4> HIDE DEF a
      <4> QED BY <1>1, <1>6, <1>11, <2>1, <2>11, <2>13, <4>1, <4>2, <4>3, WatchSteps
    <3>3. WatchOf(tracker', "low-tps") = tps.watch
      BY <1>4, <2>6 DEF WatchOf, Trackers
    <3> QED BY <3>1, <3>2, <3>3 DEF WatchIsRight
  <2>16. /\ ram.watch \in Watches
         /\ WatchIsRight("high-ram", first, samples', alerts', tracker', now + 1)
    <3>1. WatchOf(state, "high-ram") = state.ram /\ WaitOf("high-ram") = RamSustain
      BY DEF WatchOf, WaitOf
    <3>2. /\ ram.watch \in Watches
          /\ Within(a, now + 1, TimesIn(samples', "high-ram", "bad"), TimesIn(samples', "high-ram", "good"),
                    RaisedIn(alerts', "high-ram", first))
          /\ Knows(ram.watch, a, now + 1, TimesIn(samples', "high-ram", "bad"),
                   TimesIn(samples', "high-ram", "good"), RaisedIn(alerts', "high-ram", first))
          /\ RightUntil(now + 1, RamSustain, a, TimesIn(samples', "high-ram", "bad"),
                        TimesIn(samples', "high-ram", "good"), RaisedIn(alerts', "high-ram", first))
      <4>1. /\ Within(a, now, TimesIn(samples, "high-ram", "bad"), TimesIn(samples, "high-ram", "good"),
                      RaisedIn(alerts, "high-ram", first))
            /\ Knows(state.ram, a, now, TimesIn(samples, "high-ram", "bad"),
                     TimesIn(samples, "high-ram", "good"), RaisedIn(alerts, "high-ram", first))
            /\ RightUntil(now, RamSustain, a, TimesIn(samples, "high-ram", "bad"),
                          TimesIn(samples, "high-ram", "good"), RaisedIn(alerts, "high-ram", first))
        BY <1>10, <1>12, <3>1
      <4>2. RamSustain \in Nat BY FeedAssumption
      <4>3. /\ TimesIn(samples', "high-ram", "bad") =
                   (IF v.ram = "bad" THEN TimesIn(samples, "high-ram", "bad") \cup {now}
                    ELSE TimesIn(samples, "high-ram", "bad"))
            /\ TimesIn(samples', "high-ram", "good") =
                   (IF v.ram = "good" THEN TimesIn(samples, "high-ram", "good") \cup {now}
                    ELSE TimesIn(samples, "high-ram", "good"))
        BY <1>6, <1>10, <2>14
      <4> HIDE DEF a
      <4> QED BY <1>1, <1>6, <1>11, <2>2, <2>12, <2>13, <4>1, <4>2, <4>3, WatchSteps
    <3>3. WatchOf(tracker', "high-ram") = ram.watch
      BY <1>4, <2>6 DEF WatchOf, Trackers
    <3> QED BY <3>1, <3>2, <3>3 DEF WatchIsRight
  <2>17. tracker' \in Trackers(first)
    BY <1>4, <2>6, <2>15, <2>16 DEF Trackers
  <2>18. now + 1 \in Nat /\ \A j \in DOMAIN alerts' : alerts'[j].at < now + 1
    <3>1. \A j \in DOMAIN alerts : alerts[j].at < now + 1
      <4>1. \A j \in DOMAIN alerts : alerts[j] \in Notices BY <1>7, ElementOfSeq, LenProperties
      <4>2. \A j \in DOMAIN alerts : alerts[j].at \in Nat BY <4>1 DEF Notices
      <4> QED BY <1>1, <1>7, <4>2
    <3>2. \A j \in DOMAIN k : k[j].at < now + 1 BY <1>1, <2>8, <2>9, <3>1
    <3> QED BY <1>1, <2>8, <2>10, <3>2
  <2>19. \A kind \in Metrics : WatchIsRight(kind, first, samples', alerts', tracker', now + 1)
    BY <1>10, <2>15, <2>16
  <2>20. SampledUntil(now + 1, samples', alerts', tracker')
    BY <1>8, <2>10, <2>17, <2>18, <2>19 DEF SampledUntil
  <2> QED BY <2>18, <2>20 DEF AlertInv
<1> QED BY <1>14, <1>15

LEMMA AlertsStart == Init => AlertInv
<1> SUFFICES ASSUME Init PROVE AlertInv
  OBVIOUS
<1>1. now \in Nat /\ samples = <<>> /\ alerts = <<>> /\ tracker = Feed!NoTracker
  <2>1. now = 2 * Day - 2 /\ samples = <<>> /\ alerts = <<>> /\ tracker = Feed!NoTracker
    BY DEF Init, Feed!FeedInit, Feed!Evening
  <2> QED BY <2>1, FeedAssumption
<1>2. <<>> \in Seq(Readings) /\ <<>> \in Seq(Notices) /\ DOMAIN <<>> = {}
  BY EmptySeq
<1> QED BY <1>1, <1>2 DEF AlertInv, SampledUntil

LEMMA AlertSteps == AlertInv /\ [Next]_AllVars => AlertInv'
<1> SUFFICES ASSUME AlertInv, [Next]_AllVars PROVE AlertInv'
  OBVIOUS
<1>1. CASE Feed!noteServerTelemetry
  <2>1. PICK v \in Feed!Samples :
            /\ Feed!noteTelemetrySample(v)
            /\ samples' = Append(samples, [at |-> now, low |-> v.tps, high |-> v.ram])
    BY <1>1 DEF Feed!noteServerTelemetry
  <2>2. topic = "samples" /\ topic' = topic /\ now' = now + 1
    BY <1>1 DEF Feed!noteServerTelemetry
  <2> QED BY <2>1, <2>2, SampleNoted
<1>2. CASE Feed!resetTelemetryTracker
  <2>1. topic = "samples" /\ tracker' = Feed!NoTracker /\ samples' = <<>>
        /\ now' = now /\ alerts' = alerts /\ topic' = topic
    BY <1>2 DEF Feed!resetTelemetryTracker
  <2>2. <<>> \in Seq(Readings) /\ DOMAIN <<>> = {} BY EmptySeq
  <2>3. alerts \in Seq(Notices) /\ (\A j \in DOMAIN alerts : alerts[j].at < now) /\ now \in Nat
    BY <2>1 DEF AlertInv, SampledUntil
  <2> QED BY <2>1, <2>2, <2>3 DEF AlertInv, SampledUntil
<1>3. CASE topic = "lines" /\ topic' = topic /\ now' \in {now, now + 1}
  BY <1>3 DEF AlertInv
<1>4. CASE UNCHANGED feedVars
  BY <1>4 DEF AlertInv, SampledUntil, feedVars, WatchIsRight, TimesIn, RaisedIn, Counted
<1>5. CASE Feed!Line \/ Feed!Alert \/ Feed!TimePasses \/ Feed!Visit
  <2>1. topic = "lines" /\ topic' = topic /\ now' \in {now, now + 1}
    BY <1>5 DEF Feed!Line, Feed!Alert, Feed!TimePasses, Feed!Visit
  <2> QED BY <1>3, <2>1
<1> QED BY <1>1, <1>2, <1>4, <1>5 DEF Next, AllVars, Feed!FeedNext

\* The samples are one moment apart, so the times of those that count are an interval.
LEMMA AlertsShow == AlertInv => Feed!AlertsAreDeserved
<1> SUFFICES ASSUME AlertInv, topic = "samples" PROVE Feed!AlertsAreDeserved
  BY DEF Feed!AlertsAreDeserved
<1> DEFINE C == Counted(samples)
           a == samples[1].at + Warmup
           B(kd) == TimesIn(samples, kd, "bad")
           G(kd) == TimesIn(samples, kd, "good")
           R(kd) == RaisedIn(alerts, kd, samples[1].at)
           Past(kd, i) == \E j \in C : samples[j].at <= samples[i].at - WaitOf(kd)
           Bad(kd, i) == \A j \in C : samples[j].at \in (samples[i].at - WaitOf(kd))..samples[i].at
                                      => LevelOf(samples[j], kd) = "bad"
           Recovered(kd, i, u) == \E j \in C : samples[j].at \in u..samples[i].at
                                               /\ LevelOf(samples[j], kd) = "good"
           Rested(kd, i) == \A u \in R(kd) : u < samples[i].at =>
                                samples[i].at - u >= Cooldown /\ Recovered(kd, i, u)
           Fair(kd) == \A i \in C : samples[i].at \in R(kd) <=> Past(kd, i) /\ Bad(kd, i) /\ Rested(kd, i)
<1>1. ASSUME NEW kd \in Metrics, NEW i \in C
      PROVE  samples[i].at \in R(kd) <=> Past(kd, i) /\ Bad(kd, i) /\ Rested(kd, i)
  <2>1. SampledUntil(now, samples, alerts, tracker) /\ now \in Nat BY DEF AlertInv
  <2>2. PICK t : t = samples[i].at OBVIOUS
  <2>3. PICK wait : wait = WaitOf(kd) OBVIOUS
  <2>4. wait \in Nat /\ Warmup \in Nat BY <2>3, FeedAssumption DEF WaitOf
  <2>5. PICK n : n = Len(samples) OBVIOUS
  <2>6. /\ n \in Nat /\ DOMAIN samples = 1..n /\ i \in 1..n /\ 1 \in 1..n
        /\ \A j \in 1..n : samples[j].at \in Nat
        /\ \A j \in 1..n : samples[j].at + n + 1 = now + j
    <3>1. samples \in Seq(Readings) /\ \A j \in DOMAIN samples : samples[j].at + Len(samples) + 1 = now + j
      BY <2>1 DEF SampledUntil
    <3>2. n \in Nat /\ DOMAIN samples = 1..n BY <2>5, <3>1, LenProperties
    <3>3. i \in 1..n BY <3>2 DEF Counted
    <3>4. \A j \in 1..n : samples[j] \in Readings BY <2>5, <3>1, ElementOfSeq
    <3>5. \A r \in Readings : r.at \in Nat BY DEF Readings
    <3>6. 1 \in 1..n BY <3>2, <3>3
    <3>7. \A j \in 1..n : samples[j].at \in Nat BY <3>4, <3>5
    <3>8. \A j \in 1..n : samples[j].at + n + 1 = now + j BY <2>5, <3>1, <3>2
    <3> QED BY <3>2, <3>3, <3>6, <3>7, <3>8
  <2>7. samples # <<>> BY <2>6, EmptySeq
  <2>8. WatchIsRight(kd, samples[1].at, samples, alerts, tracker, now)
    BY <2>1, <2>7 DEF SampledUntil
  <2>9. Within(a, now, B(kd), G(kd), R(kd)) /\ RightUntil(now, wait, a, B(kd), G(kd), R(kd))
    BY <2>3, <2>8 DEF WatchIsRight
  <2>10. PICK first : first = samples[1].at OBVIOUS
  <2>11. first \in Nat /\ a = first + Warmup /\ now = first + n
    <3>1. samples[1].at \in Nat /\ samples[1].at + n + 1 = now + 1 BY <2>6
    <3>2. n \in Nat /\ now \in Nat BY <2>1, <2>6
    <3>3. first \in Nat /\ first + n + 1 = now + 1 BY <2>10, <3>1
    <3>4. now = first + n BY <3>2, <3>3
    <3>5. a = first + Warmup BY <2>10
    <3> QED BY <3>3, <3>4, <3>5
  <2>12. \A j \in 1..n : samples[j].at = first + j - 1
    <3> SUFFICES ASSUME NEW j \in 1..n PROVE samples[j].at = first + j - 1
      OBVIOUS
    <3>1. samples[j].at \in Nat /\ samples[j].at + n + 1 = now + j BY <2>6
    <3>2. n \in Nat /\ j \in Int /\ first \in Nat /\ now = first + n BY <2>6, <2>11
    <3> HIDE DEF a
    <3> QED BY <3>1, <3>2
  <2>13. \A j : j \in C <=> j \in 1..n /\ samples[j].at >= a
    <3> SUFFICES ASSUME NEW j PROVE j \in C <=> j \in 1..n /\ samples[j].at >= a
      OBVIOUS
    <3>1. j \in C <=> j \in 1..n /\ samples[j].at - first >= Warmup BY <2>6, <2>10 DEF Counted
    <3>2. j \in 1..n => (samples[j].at - first >= Warmup <=> samples[j].at >= a)
      <4>1. j \in 1..n => samples[j].at \in Nat BY <2>6
      <4> HIDE DEF C
      <4> QED BY <2>4, <2>11, <4>1
    <3> QED BY <3>1, <3>2
  <2>14. \A x \in a..(now - 1) : x - first + 1 \in C /\ samples[x - first + 1].at = x
    <3> SUFFICES ASSUME NEW x \in a..(now - 1)
                 PROVE  x - first + 1 \in C /\ samples[x - first + 1].at = x
      OBVIOUS
    <3>1. x - first + 1 \in 1..n BY <2>1, <2>4, <2>6, <2>11
    <3>2. samples[x - first + 1].at = x BY <2>4, <2>11, <2>12, <3>1
    <3> QED BY <2>4, <2>11, <2>13, <3>1, <3>2
  <2>15. t \in a..(now - 1)
    <3>1. t >= a /\ t = first + i - 1 /\ i \in 1..n BY <2>2, <2>6, <2>12, <2>13
    <3> QED BY <2>4, <2>6, <2>11, <3>1
  <2>16. t \in R(kd) <=> Deserves(t, wait, a, B(kd), G(kd), R(kd))
    BY <2>9, <2>15 DEF RightUntil
  <2>17. a \in Nat BY <2>4, <2>11
  <2>18. \A level : TimesIn(samples, kd, level) = {samples[j].at : j \in {x \in C : LevelOf(samples[x], kd) = level}}
    BY DEF TimesIn
  <2> HIDE DEF a, C, R
  <2>19. Past(kd, i) <=> a <= t - wait
    <3>1. ASSUME Past(kd, i) PROVE a <= t - wait
      <4>1. PICK j \in C : samples[j].at <= t - wait BY <2>2, <2>3, <3>1
      <4>2. j \in 1..n /\ samples[j].at >= a BY <2>13, <4>1
      <4> QED BY <2>4, <2>6, <2>15, <2>17, <4>1, <4>2
    <3>2. ASSUME a <= t - wait PROVE Past(kd, i)
      <4>1. a \in a..(now - 1) BY <2>1, <2>15, <2>17
      <4>2. PICK j : j \in C /\ samples[j].at = a BY <2>14, <4>1
      <4>3. samples[j].at <= samples[i].at - WaitOf(kd) BY <2>2, <2>3, <3>2, <4>2
      <4> QED BY <4>2, <4>3
    <3> QED BY <3>1, <3>2
  <2>20. ASSUME a <= t - wait PROVE Bad(kd, i) <=> (t - wait)..t \subseteq B(kd)
    <3>1. ASSUME Bad(kd, i), NEW x \in (t - wait)..t PROVE x \in B(kd)
      <4>1. x \in a..(now - 1) BY <2>1, <2>4, <2>15, <2>17, <2>20
      <4>2. PICK j : j \in C /\ samples[j].at = x BY <2>14, <4>1
      <4>3. LevelOf(samples[j], kd) = "bad" BY <2>2, <2>3, <3>1, <4>2
      <4> QED BY <2>18, <4>2, <4>3
    <3>2. ASSUME (t - wait)..t \subseteq B(kd), NEW j \in C, samples[j].at \in (t - wait)..t
          PROVE  LevelOf(samples[j], kd) = "bad"
      <4>1. samples[j].at \in B(kd) BY <3>2
      <4>2. PICK x \in C : LevelOf(samples[x], kd) = "bad" /\ samples[x].at = samples[j].at
        BY <2>18, <4>1
      <4>3. x = j
        <5>1. x \in 1..n /\ j \in 1..n BY <2>13, <4>2
        <5>2. samples[x].at = first + x - 1 /\ samples[j].at = first + j - 1 BY <2>12, <5>1
        <5>3. x \in Int /\ j \in Int BY <2>6, <5>1
        <5>4. first + x - 1 = first + j - 1 BY <4>2, <5>2
        <5>5. first \in Nat BY <2>11
        <5> QED BY <5>3, <5>4, <5>5
      <4> QED BY <4>2, <4>3
    <3> QED BY <2>2, <2>3, <3>1, <3>2
  <2>21. \A u \in Int : Recovered(kd, i, u) <=> \E g \in G(kd) : u <= g /\ g <= t
    <3>1. ASSUME NEW u \in Int, Recovered(kd, i, u) PROVE \E g \in G(kd) : u <= g /\ g <= t
      BY <2>2, <2>18, <3>1
    <3>2. ASSUME NEW u \in Int, NEW g \in G(kd), u <= g, g <= t PROVE Recovered(kd, i, u)
      <4>1. PICK j \in C : LevelOf(samples[j], kd) = "good" /\ samples[j].at = g BY <2>18
      <4>2. g \in Int /\ t \in Int BY <2>6, <2>13, <2>15, <2>17, <4>1
      <4>3. samples[j].at \in u..samples[i].at BY <2>2, <3>2, <4>1, <4>2
      <4> QED BY <4>1, <4>3
    <3> QED BY <3>1, <3>2
  <2>22. \A u \in R(kd) : u \in Int BY <2>9 DEF Within
  <2>23. Rested(kd, i) <=> \A u \in R(kd) : u < t => t - u >= Cooldown /\ \E g \in G(kd) : u <= g /\ g <= t
    BY <2>2, <2>21, <2>22
  <2> HIDE DEF B, G, Past, Bad, Rested
  <2> QED BY <2>2, <2>16, <2>19, <2>20, <2>23 DEF Deserves
<1>2. Fair("low-tps") /\ Fair("high-ram") BY <1>1 DEF Metrics
<1> QED BY <1>2 DEF Feed!AlertsAreDeserved, Counted, RaisedIn, LevelOf, WaitOf

\* For any options of the alerts: in a run each alert comes exactly when its metric was
\* bad all through the wait, after the warm-up, and recovered since the last one, the
\* cooldown over (telemetry-alerts.ts).
THEOREM PanelsAlertsAreDeserved == Spec => []AlertsAreDeserved
<1>1. AlertInv => AlertsAreDeserved BY AlertsShow DEF AlertsAreDeserved
<1> QED BY AlertsStart, AlertSteps, <1>1, PTL DEF Spec, AllVars
--------------------------------------------------------------------------------
(* The rows of the activity feed: what the lines say, then what is merged.        *)

FeedKinds == {"player-joined", "server-slow", "chat", "other", "low-tps"}
FeedRows  == [kind : FeedKinds, id : {"line", "low-tps"} \X Nat, no : Nat, at : Int, count : Nat]
Printed   == [stream : {"stdout", "system"}, says : {"player-joined", "server-slow", "other"},
              chat : BOOLEAN, no : Nat, real : Nat, stamp : Int]
Reads     == [at : Int, events : Seq(FeedRows)]

\* A property of the turns of a loop, as the set of those at which it holds.
LEMMA EveryTurn ==
    ASSUME NEW n \in Nat, NEW S, 0 \in S, \A k \in 0..(n - 1) : k \in S => k + 1 \in S
    PROVE  \A k \in 0..n : k \in S
<1> DEFINE Less == OpToRel(<, Nat)
           Missed == {k \in 0..n : k \notin S}
<1> SUFFICES ASSUME Missed # {} PROVE FALSE OBVIOUS
<1>1. IsWellFoundedOn(Less, Nat) BY NatLessThanWellFounded
<1>2. Missed \subseteq Nat OBVIOUS
<1> HIDE DEF Less
<1>3. PICK k \in Missed : \A j \in Missed : <<j, k>> \notin Less BY <1>1, <1>2, WFMin
<1>4. k \in 1..n OBVIOUS
<1>5. k - 1 \in 0..(n - 1) /\ k - 1 + 1 = k BY <1>4
<1>6. k - 1 \in S => k \in S BY <1>5
<1>7. k - 1 \in Missed BY <1>5, <1>6
<1>8. <<k - 1, k>> \in Less BY <1>5 DEF Less, OpToRel
<1> QED BY <1>3, <1>7, <1>8

--------------------------------------------------------------------------------
(* Rows.                                                                        *)

\* What pushing e makes of the rows: one more, or the last one tells of e as well.
Pushed(s, e, t) ==
    LET n == Len(s)
    IN  \/ /\ Len(t) = n + 1 /\ t[n + 1] = e /\ \A i \in 1..n : t[i] = s[i]
        \/ /\ n # 0 /\ Len(t) = n /\ \A i \in 1..(n - 1) : t[i] = s[i]
           /\ t[n].kind = s[n].kind /\ s[n].kind = e.kind /\ t[n].id = s[n].id
           /\ t[n].count = s[n].count + e.count
           /\ t[n].at = IF e.at = Feed!None THEN s[n].at ELSE e.at

LEMMA PushIs ==
    ASSUME NEW s \in Seq(FeedRows), NEW e \in FeedRows
    PROVE  /\ Feed!pushCollapsed(s, e) \in Seq(FeedRows)
           /\ Pushed(s, e, Feed!pushCollapsed(s, e))
<1> DEFINE n == Len(s)
           r == [e EXCEPT !.id = s[n].id, !.count = s[n].count + e.count,
                          !.at = IF e.at = Feed!None THEN s[n].at ELSE e.at]
<1>1. n \in Nat /\ DOMAIN s = 1..n BY LenProperties
<1>2. CASE n # 0 /\ Feed!collapseKey(s[n]) = Feed!collapseKey(e)
  <2>1. n \in 1..Len(s) /\ s[n] \in FeedRows BY <1>1, <1>2, ElementOfSeq
  <2>2. s[n].kind = e.kind
    <3>1. Feed!collapseKey(s[n])[1] = s[n].kind /\ Feed!collapseKey(e)[1] = e.kind
      BY DEF Feed!collapseKey
    <3> QED BY <1>2, <3>1
  <2>3. PICK w : w = r OBVIOUS
  <2>4. /\ w \in FeedRows /\ w.kind = e.kind /\ w.id = s[n].id /\ w.count = s[n].count + e.count
        /\ w.at = IF e.at = Feed!None THEN s[n].at ELSE e.at
    <3> DEFINE at == IF e.at = Feed!None THEN s[n].at ELSE e.at
    <3>1. e = [kind |-> e.kind, id |-> e.id, no |-> e.no, at |-> e.at, count |-> e.count]
      BY DEF FeedRows
    <3>2. w = [kind |-> e.kind, id |-> s[n].id, no |-> e.no, at |-> at,
               count |-> s[n].count + e.count]
      BY <2>3, <3>1
    <3>3. e.kind \in FeedKinds /\ e.no \in Nat /\ e.at \in Int /\ e.count \in Nat BY DEF FeedRows
    <3>4. s[n].id \in {"line", "low-tps"} \X Nat /\ s[n].at \in Int /\ s[n].count \in Nat
      BY <2>1 DEF FeedRows
    <3>5. at \in Int /\ s[n].count + e.count \in Nat BY <3>3, <3>4
    <3>6. w \in FeedRows BY <3>2, <3>3, <3>4, <3>5 DEF FeedRows
    <3> QED BY <3>2, <3>6
  <2>5. Feed!pushCollapsed(s, e) = [s EXCEPT ![n] = w] BY <1>2, <2>3 DEF Feed!pushCollapsed
  <2>6. PICK t : t = [s EXCEPT ![n] = w] OBVIOUS
  <2>7. /\ t \in Seq(FeedRows) /\ Len(t) = n
        /\ \A j \in 1..n : t[j] = IF j = n THEN w ELSE s[j]
    BY <2>1, <2>4, <2>6, ExceptSeq
  <2>8. t[n] = w /\ \A i \in 1..(n - 1) : t[i] = s[i]
    <3>2. t[n] = w BY <2>1, <2>7
    <3> HIDE DEF n
    <3>1. \A i \in 1..(n - 1) : i \in 1..n /\ i # n BY <1>1
    <3> QED BY <2>7, <3>1, <3>2
  <2>9. Pushed(s, e, t) BY <1>1, <1>2, <2>2, <2>4, <2>7, <2>8 DEF Pushed
  <2> QED BY <2>5, <2>6, <2>7, <2>9
<1>3. CASE ~(n # 0 /\ Feed!collapseKey(s[n]) = Feed!collapseKey(e))
  <2>1. Feed!pushCollapsed(s, e) = Append(s, e) BY <1>3 DEF Feed!pushCollapsed
  <2>2. PICK t : t = Append(s, e) OBVIOUS
  <2>3. /\ t \in Seq(FeedRows) /\ Len(t) = n + 1 /\ t[n + 1] = e
        /\ \A i \in 1..n : t[i] = s[i]
    BY <2>2, AppendProperties
  <2>4. Pushed(s, e, t) BY <2>3 DEF Pushed
  <2> QED BY <2>1, <2>2, <2>3, <2>4
<1> QED BY <1>2, <1>3

InOrder(s) ==
    \A i, j \in 1..Len(s) : i < j /\ s[i].at # Feed!None /\ s[j].at # Feed!None
                            => s[i].at <= s[j].at + Slack
AtMost(s, b) == \A i \in 1..Len(s) : s[i].at # Feed!None => s[i].at <= b

\* No two rows have one key, and each goes back to one of the keys in D, with its kind.
Own(s, D) == /\ \A i \in 1..Len(s) : <<s[i].id, s[i].kind>> \in D
             /\ \A i, j \in 1..Len(s) : s[i].id = s[j].id => i = j

RunningTotal(F, s) ==
    /\ F = [n \in 0..Len(s) |-> IF n = 0 THEN 0 ELSE F[n - 1] + s[n].count]
Tells(s, k) == \E F : RunningTotal(F, s) /\ F[Len(s)] = k

LEMMA PushedInOrder ==
    ASSUME NEW s \in Seq(FeedRows), NEW e \in FeedRows, NEW t \in Seq(FeedRows), Pushed(s, e, t),
           InOrder(s), e.at # Feed!None => AtMost(s, e.at + Slack)
    PROVE  InOrder(t)
<1> DEFINE n == Len(s)
<1>1. n \in Nat /\ Len(t) \in Nat BY LenProperties
<1>2. (\A i \in 1..n : s[i].at \in Int) /\ e.at \in Int
  <2>1. \A i \in 1..n : s[i] \in FeedRows BY ElementOfSeq
  <2> QED BY <2>1 DEF FeedRows
<1>3. CASE Len(t) = n + 1 /\ t[n + 1] = e /\ \A i \in 1..n : t[i] = s[i]
  <2> SUFFICES ASSUME NEW i \in 1..Len(t), NEW j \in 1..Len(t), i < j,
                      t[i].at # Feed!None, t[j].at # Feed!None
               PROVE  t[i].at <= t[j].at + Slack
    BY DEF InOrder
  <2>1. i \in 1..n /\ t[i] = s[i] BY <1>1, <1>3
  <2>2. CASE j = n + 1 BY <1>3, <2>1, <2>2 DEF AtMost
  <2>3. CASE j # n + 1
    <3>1. j \in 1..n /\ t[j] = s[j] BY <1>1, <1>3, <2>3
    <3> QED BY <2>1, <3>1 DEF InOrder
  <2> QED BY <2>2, <2>3
<1>4. CASE /\ n # 0 /\ Len(t) = n /\ \A i \in 1..(n - 1) : t[i] = s[i]
           /\ t[n].at = IF e.at = Feed!None THEN s[n].at ELSE e.at
  <2> SUFFICES ASSUME NEW i \in 1..Len(t), NEW j \in 1..Len(t), i < j,
                      t[i].at # Feed!None, t[j].at # Feed!None
               PROVE  t[i].at <= t[j].at + Slack
    BY DEF InOrder
  <2>1. i \in 1..(n - 1) /\ i \in 1..n /\ j \in 1..n /\ t[i] = s[i] BY <1>1, <1>4
  <2>2. CASE j = n
    <3>1. CASE e.at = Feed!None
      <4>1. t[j].at = s[j].at BY <1>4, <2>2, <3>1
      <4> QED BY <2>1, <4>1 DEF InOrder
    <3>2. CASE e.at # Feed!None
      <4>1. t[j].at = e.at BY <1>4, <2>2, <3>2
      <4> QED BY <2>1, <3>2, <4>1 DEF AtMost
    <3> QED BY <3>1, <3>2
  <2>3. CASE j # n
    <3>1. j \in 1..(n - 1) /\ t[j] = s[j] BY <1>1, <1>4, <2>1, <2>3
    <3> QED BY <2>1, <3>1 DEF InOrder
  <2> QED BY <2>2, <2>3
<1> QED BY <1>3, <1>4 DEF Pushed

LEMMA PushedAtMost ==
    ASSUME NEW s \in Seq(FeedRows), NEW e \in FeedRows, NEW t \in Seq(FeedRows), Pushed(s, e, t),
           NEW b \in Int, AtMost(s, b), e.at # Feed!None => e.at <= b
    PROVE  AtMost(t, b)
<1> DEFINE n == Len(s)
<1>1. n \in Nat /\ Len(t) \in Nat BY LenProperties
<1>2. \A i \in 1..Len(t) : t[i].at \in {e.at} \/ \E j \in 1..n : t[i].at = s[j].at
  BY <1>1 DEF Pushed
<1> QED BY <1>2 DEF AtMost

LEMMA PushedOwn ==
    ASSUME NEW s \in Seq(FeedRows), NEW e \in FeedRows, NEW t \in Seq(FeedRows), Pushed(s, e, t),
           NEW D, Own(s, D), NEW C, C = D \cup {<<e.id, e.kind>>}, \A i \in 1..Len(s) : s[i].id # e.id
    PROVE  Own(t, C)
<1> DEFINE n == Len(s)
<1>1. n \in Nat /\ Len(t) \in Nat BY LenProperties
<1>2. CASE Len(t) = n + 1 /\ t[n + 1] = e /\ \A i \in 1..n : t[i] = s[i]
  <2>1. \A i \in 1..Len(t) : i = n + 1 \/ i \in 1..n BY <1>1, <1>2
  <2>2. \A i \in 1..Len(t) : <<t[i].id, t[i].kind>> \in C BY <1>2, <2>1 DEF Own
  <2>3. \A i, j \in 1..Len(t) : t[i].id = t[j].id => i = j BY <1>2, <2>1 DEF Own
  <2> QED BY <2>2, <2>3 DEF Own
<1>3. CASE /\ n # 0 /\ Len(t) = n /\ \A i \in 1..(n - 1) : t[i] = s[i]
           /\ t[n].kind = s[n].kind /\ t[n].id = s[n].id
  <2>1. \A i \in 1..n : i = n \/ i \in 1..(n - 1) BY <1>1
  <2>2. \A i \in 1..n : t[i].id = s[i].id /\ t[i].kind = s[i].kind BY <1>3, <2>1
  <2> QED BY <1>3, <2>2 DEF Own
<1> QED BY <1>2, <1>3 DEF Pushed

LEMMA TotalIsNat ==
    ASSUME NEW s \in Seq(FeedRows), NEW F, RunningTotal(F, s)
    PROVE  \A i \in 0..Len(s) : F[i] \in Nat
<1> DEFINE n == Len(s)
           Fine == {i \in 0..n : F[i] \in Nat}
<1>1. n \in Nat BY LenProperties
<1>2. F[0] = 0 /\ \A i \in 1..n : F[i] = F[i - 1] + s[i].count BY <1>1 DEF RunningTotal
<1>3. 0 \in Fine BY <1>1, <1>2
<1>4. \A i \in 0..(n - 1) : i \in Fine => i + 1 \in Fine
  <2> SUFFICES ASSUME NEW i \in 0..(n - 1), i \in Fine PROVE i + 1 \in Fine OBVIOUS
  <2>1. i + 1 \in 1..n /\ (i + 1) - 1 = i BY <1>1
  <2>2. F[i + 1] = F[i] + s[i + 1].count BY <1>2, <2>1
  <2>3. s[i + 1] \in FeedRows BY <2>1, ElementOfSeq
  <2>4. s[i + 1].count \in Nat BY <2>3 DEF FeedRows
  <2> QED BY <2>1, <2>2, <2>4
<1> HIDE DEF Fine
<1>5. \A i \in 0..n : i \in Fine BY <1>1, <1>3, <1>4, EveryTurn
<1> QED BY <1>5 DEF Fine

LEMMA PushedTells ==
    ASSUME NEW s \in Seq(FeedRows), NEW e \in FeedRows, NEW t \in Seq(FeedRows), Pushed(s, e, t),
           NEW k \in Nat, Tells(s, k)
    PROVE  Tells(t, k + e.count)
<1> DEFINE n == Len(s)
<1>1. n \in Nat /\ Len(t) \in Nat BY LenProperties
<1>2. (\A i \in 1..n : s[i].count \in Nat) /\ e.count \in Nat
  <2>1. \A i \in 1..n : s[i] \in FeedRows BY ElementOfSeq
  <2> QED BY <2>1 DEF FeedRows
<1>3. PICK F : RunningTotal(F, s) /\ F[n] = k BY DEF Tells
<1>4. DOMAIN F = 0..n /\ F[0] = 0 /\ \A i \in 1..n : F[i] = F[i - 1] + s[i].count
  <2>1. F = [i \in 0..n |-> IF i = 0 THEN 0 ELSE F[i - 1] + s[i].count] BY <1>3 DEF RunningTotal
  <2>2. DOMAIN F = 0..n BY <2>1
  <2>3. \A i \in 0..n : F[i] = IF i = 0 THEN 0 ELSE F[i - 1] + s[i].count BY <2>1
  <2> QED BY <1>1, <2>2, <2>3
<1> DEFINE G == [i \in 0..Len(t) |-> IF i = Len(t) THEN k + e.count ELSE F[i]]
<1>5. /\ Len(t) # 0
      /\ \A i \in 1..Len(t) : G[i] = G[i - 1] + t[i].count
  <2>1. CASE Len(t) = n + 1 /\ t[n + 1] = e /\ \A i \in 1..n : t[i] = s[i]
    <3>1. \A i \in 1..Len(t) : i = n + 1 \/ i \in 1..n BY <1>1, <2>1
    <3>2. G[n + 1] = G[n] + t[n + 1].count BY <1>1, <1>3, <2>1
    <3>3. \A i \in 1..n : G[i] = F[i] /\ G[i - 1] = F[i - 1] BY <1>1, <2>1
    <3>4. \A i \in 1..n : G[i] = G[i - 1] + t[i].count BY <1>4, <2>1, <3>3
    <3>5. Len(t) # 0 BY <1>1, <2>1
    <3> HIDE DEF G
    <3> QED BY <2>1, <3>1, <3>2, <3>4, <3>5
  <2>2. CASE /\ n # 0 /\ Len(t) = n /\ \A i \in 1..(n - 1) : t[i] = s[i]
             /\ t[n].count = s[n].count + e.count
    <3>1. \A i \in 1..n : i = n \/ i \in 1..(n - 1) BY <1>1
    <3>2. G[n] = G[n - 1] + t[n].count
      <4>1. n \in 1..n /\ n - 1 \in 0..n /\ n - 1 # n /\ n \in 0..n BY <1>1, <2>2
      <4>2. G[n] = k + e.count /\ G[n - 1] = F[n - 1] BY <2>2, <4>1
      <4>3. k = F[n - 1] + s[n].count BY <1>3, <1>4, <4>1
      <4>4. F[n - 1] \in Int BY <1>3, <4>1, TotalIsNat
      <4>5. s[n].count \in Int BY <1>2, <4>1
      <4> HIDE DEF G
      <4> QED BY <1>2, <2>2, <4>2, <4>3, <4>4, <4>5
    <3>3. \A i \in 1..(n - 1) : G[i] = F[i] /\ G[i - 1] = F[i - 1] BY <1>1, <2>2
    <3>4. \A i \in 1..(n - 1) : G[i] = G[i - 1] + t[i].count BY <1>1, <1>4, <2>2, <3>3
    <3> QED BY <2>2, <3>1, <3>2, <3>4
  <2> QED BY <2>1, <2>2 DEF Pushed
<1>6. G[0] = 0 BY <1>1, <1>4, <1>5
<1>7. G[Len(t)] = k + e.count /\ DOMAIN G = 0..Len(t) BY <1>1
<1>8. RunningTotal(G, t)
  <2>1. \A i \in 0..Len(t) : G[i] = IF i = 0 THEN 0 ELSE G[i - 1] + t[i].count
    <3>1. \A i \in 0..Len(t) : i = 0 \/ i \in 1..Len(t) BY <1>1
    <3> HIDE DEF G
    <3> QED BY <1>5, <1>6, <3>1
  <2>2. G = [i \in 0..Len(t) |-> G[i]] OBVIOUS
  <2> HIDE DEF G
  <2> QED BY <2>1, <2>2 DEF RunningTotal
<1> HIDE DEF G
<1> QED BY <1>7, <1>8 DEF Tells

\* What is told of rows is told once.
LEMMA ToldIs ==
    ASSUME NEW s \in Seq(FeedRows), NEW k, Tells(s, k)
    PROVE  Feed!told(s) = k
<1> DEFINE n == Len(s)
<1>1. n \in Nat BY LenProperties
<1>2. PICK F : RunningTotal(F, s) /\ F[n] = k BY DEF Tells
<1> DEFINE C == CHOOSE G : RunningTotal(G, s)
<1>3. RunningTotal(C, s) BY <1>2, Zenon
<1>4. Feed!told(s) = C[n] BY DEF Feed!told, RunningTotal
<1> HIDE DEF C
<1> DEFINE Same == {i \in 0..n : C[i] = F[i]}
<1>5. 0 \in Same BY <1>1, <1>2, <1>3 DEF RunningTotal
<1>6. \A i \in 0..(n - 1) : i \in Same => i + 1 \in Same
  <2> SUFFICES ASSUME NEW i \in 0..(n - 1), i \in Same PROVE i + 1 \in Same OBVIOUS
  <2>1. i + 1 \in 0..n /\ i + 1 # 0 /\ (i + 1) - 1 = i BY <1>1
  <2>2. F[i + 1] = F[i] + s[i + 1].count BY <1>2, <2>1 DEF RunningTotal
  <2>3. C[i + 1] = C[i] + s[i + 1].count BY <1>3, <2>1 DEF RunningTotal
  <2> QED BY <2>1, <2>2, <2>3
<1> HIDE DEF Same
<1>7. \A i \in 0..n : i \in Same BY <1>1, <1>5, <1>6, EveryTurn
<1>8. n \in Same BY <1>1, <1>7
<1> QED BY <1>2, <1>4, <1>8 DEF Same

--------------------------------------------------------------------------------
(* Times.                                                                       *)

\* What is told of the lines and the alerts at t.
Recorded(t) ==
    /\ lines \in Seq(Printed) /\ alerts \in Seq(FeedRows) /\ readAt \in Nat /\ readAt <= t
    /\ \A i \in 1..Len(lines) :
          /\ lines[i].real <= readAt
          /\ lines[i].stamp \in {Feed!None, lines[i].real % Day, (lines[i].real + Slack) % Day}
    /\ \A i, j \in 1..Len(lines) : i < j => lines[i].real <= lines[j].real
    /\ \A i \in 1..Len(alerts) :
          /\ alerts[i].kind = "low-tps" /\ alerts[i].id = <<"low-tps", alerts[i].at>>
          /\ alerts[i].at \in Nat /\ alerts[i].at < t /\ alerts[i].count = 1
    /\ \A i, j \in 1..Len(alerts) : i < j => alerts[i].at < alerts[j].at

FeedInv == now \in Nat /\ (topic = "lines" => Recorded(now))

\* A moment is so many days and a part of a day, in one way.
LEMMA DayAndTime ==
    ASSUME NEW t \in Nat
    PROVE  /\ t \div Day \in Nat /\ t % Day \in 0..(Day - 1)
           /\ t = (t \div Day) * Day + (t % Day)
<1>1. Day \in Nat \ {0} BY FeedAssumption
<1>2. t % Day \in 0..(Day - 1) BY <1>1
<1>3. t \div Day \in Nat BY <1>1
<1>4. t = (t \div Day) * Day + (t % Day) BY <1>1
<1> QED BY <1>2, <1>3, <1>4

LEMMA OneDay ==
    ASSUME NEW p \in Int, NEW q \in Int, NEW x \in 0..(Day - 1), NEW y \in Int,
           p * Day + x = q * Day + y, y \in 0..(Day - 1)
    PROVE  p = q /\ x = y
<1>1. Day \in Nat /\ Day > 0 BY FeedAssumption
<1>2. (p - q) * Day = y - x BY <1>1
<1>3. ~(p - q >= 1)
  <2> SUFFICES ASSUME p - q >= 1 PROVE FALSE OBVIOUS
  <2>1. (p - q) * Day >= Day BY <1>1
  <2> QED BY <1>1, <1>2, <2>1
<1>4. ~(q - p >= 1)
  <2> SUFFICES ASSUME q - p >= 1 PROVE FALSE OBVIOUS
  <2>1. (q - p) * Day >= Day BY <1>1
  <2>2. (q - p) * Day = x - y BY <1>1, <1>2
  <2> QED BY <1>1, <2>1, <2>2
<1>5. p = q BY <1>3, <1>4
<1> QED BY <1>1, <1>2, <1>5

\* A stamp that is not a day old, nor waits for a midnight, is resolved to its moment.
LEMMA StampDated ==
    ASSUME readAt \in Nat, NEW r \in Nat, r <= readAt, readAt - r < Day - Slack,
           NEW stamp \in {r % Day, (r + Slack) % Day},
           ~(stamp < r % Day /\ readAt \div Day = r \div Day)
    PROVE  Feed!resolveLogTimestamp(stamp) \in r..(r + Slack)
<1>1. Day \in Nat /\ Day > 0 /\ Slack \in Nat /\ Slack < Day /\ r + Slack \in Nat BY FeedAssumption
<1> DEFINE q == readAt \div Day
           p == r \div Day
           x == r % Day
<1>2. /\ q \in Nat /\ readAt % Day \in 0..(Day - 1) /\ readAt = q * Day + (readAt % Day)
      /\ p \in Nat /\ x \in 0..(Day - 1) /\ r = p * Day + x
  BY DayAndTime
<1>3. PICK z : z = readAt % Day OBVIOUS
<1>4. PICK today : today = q * Day + stamp OBVIOUS
<1>5. Feed!resolveLogTimestamp(stamp) = IF today > readAt + Slack THEN today - Day ELSE today
  BY <1>4, Zenon DEF Feed!resolveLogTimestamp
<1> HIDE DEF q, p, x
<1>6. PICK P : P = p * Day OBVIOUS
<1>7. PICK Q : Q = q * Day OBVIOUS
<1>8. P \in Int /\ Q \in Int BY <1>1, <1>2, <1>6, <1>7
<1>9. Q = P \/ (Q = P + Day /\ q # p)
  <2>1. q = p \/ q = p + 1
    <3>1. (q - p) * Day = Q - P BY <1>1, <1>2, <1>6, <1>7
    <3>2. Q - P < 2 * Day /\ Q - P > -Day BY <1>1, <1>2, <1>3, <1>6, <1>7, <1>8
    <3>3. ~(q - p >= 2)
      <4> SUFFICES ASSUME q - p >= 2 PROVE FALSE OBVIOUS
      <4>1. (q - p) * Day >= 2 * Day BY <1>1, <1>2
      <4> QED BY <1>1, <1>8, <3>1, <3>2, <4>1
    <3>4. ~(q - p <= -1)
      <4> SUFFICES ASSUME q - p <= -1 PROVE FALSE OBVIOUS
      <4>1. (q - p) * Day <= -Day BY <1>1, <1>2
      <4> QED BY <1>1, <1>8, <3>1, <3>2, <4>1
    <3> QED BY <1>2, <3>3, <3>4
  <2>2. (p + 1) * Day = p * Day + Day BY <1>1, <1>2
  <2> QED BY <1>2, <1>6, <1>7, <2>1, <2>2
<1>10. CASE stamp = x
  <2>1. stamp = x /\ r = P + x BY <1>2, <1>6, <1>10
  <2>2. CASE Q = P BY <1>1, <1>4, <1>7, <1>8, <1>5, <2>1, <2>2
  <2>3. CASE Q = P + Day BY <1>1, <1>2, <1>4, <1>7, <1>8, <1>5, <2>1, <2>3
  <2> QED BY <1>9, <2>2, <2>3
<1>11. CASE stamp = (r + Slack) % Day
  <2> DEFINE w == (r + Slack) \div Day
  <2>1. w \in Nat /\ stamp \in 0..(Day - 1) /\ r + Slack = w * Day + stamp
    BY <1>1, <1>11, DayAndTime
  <2> HIDE DEF w
  <2>2. CASE x + Slack < Day
    <3>1. p * Day + (x + Slack) = w * Day + stamp /\ x + Slack \in 0..(Day - 1)
      BY <1>1, <1>2, <2>1, <2>2
    <3>2. stamp = x + Slack BY <1>2, <2>1, <3>1, OneDay
    <3>3. r = P + x BY <1>2, <1>6
    <3>4. CASE Q = P BY <1>1, <1>2, <1>4, <1>7, <1>8, <1>5, <3>2, <3>3, <3>4
    <3>5. CASE Q = P + Day BY <1>1, <1>2, <1>4, <1>7, <1>8, <1>5, <3>2, <3>3, <3>5
    <3> QED BY <1>9, <3>4, <3>5
  <2>3. CASE x + Slack >= Day
    <3>1. (p + 1) * Day + (x + Slack - Day) = w * Day + stamp /\ x + Slack - Day \in 0..(Day - 1)
      <4>1. (p + 1) * Day = p * Day + Day BY <1>1, <1>2
      <4> QED BY <1>1, <1>2, <2>1, <2>3, <4>1
    <3>2. stamp = x + Slack - Day BY <1>2, <2>1, <3>1, OneDay
    <3>3. r = P + x /\ stamp < x BY <1>1, <1>2, <1>6, <3>2
    <3>4. q # p BY <3>3 DEF p, q, x
    <3>5. Q = P + Day
      <4>1. q = p => Q = P BY <1>6, <1>7
      <4>2. Q = P => q = p
        <5> SUFFICES ASSUME Q = P PROVE q = p OBVIOUS
        <5>1. q * Day + 0 = p * Day + 0 /\ 0 \in 0..(Day - 1) BY <1>1, <1>6, <1>7
        <5> QED BY <1>2, <5>1, OneDay
      <4> QED BY <1>9, <3>4, <4>2
    <3> QED BY <1>1, <1>2, <1>4, <1>7, <1>8, <1>5, <3>2, <3>3, <3>5
  <2> QED BY <1>1, <1>2, <2>2, <2>3
<1> QED BY <1>10, <1>11 DEF x

LEMMA FeedStarts == Init => FeedInv
<1> SUFFICES ASSUME Init PROVE FeedInv OBVIOUS
<1>1. now = 2 * Day - 2 /\ readAt = now /\ lines = <<>> /\ alerts = <<>>
  BY DEF Init, Feed!FeedInit, Feed!Evening
<1>2. now \in Nat BY <1>1, FeedAssumption
<1>3. <<>> \in Seq(Printed) /\ <<>> \in Seq(FeedRows) /\ Len(<<>>) = 0 BY EmptySeq
<1> QED BY <1>1, <1>2, <1>3 DEF FeedInv, Recorded

LEMMA LinePrinted ==
    ASSUME FeedInv, Feed!Line
    PROVE  FeedInv'
<1>1. now \in Nat /\ topic = "lines" /\ Recorded(now) /\ now' = now /\ topic' = topic /\ alerts' = alerts
      /\ readAt' = now
  BY DEF FeedInv, Feed!Line
<1>2. PICK l \in Feed!Shapes, stamp \in {Feed!None, now % Day, (now + Slack) % Day} :
          lines' = Append(lines, [stream |-> l.stream, says |-> l.says, chat |-> l.chat,
                                  no |-> Len(lines), real |-> now, stamp |-> stamp])
  BY DEF Feed!Line
<1>3. PICK r : r = [stream |-> l.stream, says |-> l.says, chat |-> l.chat,
                    no |-> Len(lines), real |-> now, stamp |-> stamp]
  OBVIOUS
<1>4. lines \in Seq(Printed) /\ Len(lines) \in Nat BY <1>1, LenProperties DEF Recorded
<1>5. r \in Printed
  <2>1. stamp \in Int
    <3>1. Slack \in Nat /\ now + Slack \in Nat BY <1>1, FeedAssumption
    <3> QED BY <1>1, <3>1, NoMoment, DayAndTime
  <2>2. l.stream \in {"stdout", "system"} /\ l.says \in {"player-joined", "server-slow", "other"}
        /\ l.chat \in BOOLEAN
    BY DEF Feed!Shapes
  <2> QED BY <1>1, <1>3, <1>4, <2>1, <2>2 DEF Printed
<1>6. r.real = now /\ r.stamp = stamp BY <1>3
<1>7. PICK n : n = Len(lines) OBVIOUS
<1>8. /\ lines' \in Seq(Printed) /\ Len(lines') = n + 1 /\ lines'[n + 1] = r
      /\ \A i \in 1..n : lines'[i] = lines[i]
  BY <1>2, <1>3, <1>4, <1>5, <1>7, AppendProperties
<1>9. n \in Nat /\ \A i \in 1..(n + 1) : i = n + 1 \/ i \in 1..n BY <1>4, <1>7
<1>10. \A i \in 1..n : /\ lines[i].real <= now
                       /\ lines[i].stamp \in {Feed!None, lines[i].real % Day,
                                              (lines[i].real + Slack) % Day}
  <2>1. readAt \in Nat /\ readAt <= now BY <1>1 DEF Recorded
  <2>2. \A i \in 1..n : lines[i].real \in Nat
    <3>1. \A i \in 1..n : lines[i] \in Printed BY <1>4, <1>7, ElementOfSeq
    <3> QED BY <3>1 DEF Printed
  <2> QED BY <1>1, <1>7, <2>1, <2>2 DEF Recorded
<1>11. \A i \in 1..Len(lines') :
          /\ lines'[i].real <= readAt'
          /\ lines'[i].stamp \in {Feed!None, lines'[i].real % Day, (lines'[i].real + Slack) % Day}
  BY <1>1, <1>2, <1>6, <1>8, <1>9, <1>10
<1>12. \A i, j \in 1..Len(lines') : i < j => lines'[i].real <= lines'[j].real
  <2> SUFFICES ASSUME NEW i \in 1..Len(lines'), NEW j \in 1..Len(lines'), i < j
               PROVE  lines'[i].real <= lines'[j].real
    OBVIOUS
  <2>1. i \in 1..n /\ lines'[i] = lines[i] BY <1>8, <1>9
  <2>2. CASE j = n + 1 BY <1>6, <1>8, <1>10, <2>1, <2>2
  <2>3. CASE j # n + 1
    <3>1. j \in 1..n /\ lines'[j] = lines[j] BY <1>8, <1>9, <2>3
    <3> QED BY <1>1, <1>7, <2>1, <3>1 DEF Recorded
  <2> QED BY <2>2, <2>3
<1> QED BY <1>1, <1>8, <1>11, <1>12 DEF FeedInv, Recorded

LEMMA AlertTold ==
    ASSUME FeedInv, Feed!Alert
    PROVE  FeedInv'
<1>1. /\ now \in Nat /\ topic = "lines" /\ Recorded(now) /\ now' = now + 1 /\ topic' = topic
      /\ lines' = lines /\ readAt' = readAt
  BY DEF FeedInv, Feed!Alert
<1>2. PICK r : r = [kind |-> "low-tps", id |-> <<"low-tps", now>>, no |-> now, at |-> now,
                    count |-> 1]
  OBVIOUS
<1>3. alerts' = Append(alerts, r) BY <1>2 DEF Feed!Alert
<1>4. alerts \in Seq(FeedRows) /\ Len(alerts) \in Nat BY <1>1, LenProperties DEF Recorded
<1>5. r \in FeedRows BY <1>1, <1>2 DEF FeedRows, FeedKinds
<1>6. PICK n : n = Len(alerts) OBVIOUS
<1>7. /\ alerts' \in Seq(FeedRows) /\ Len(alerts') = n + 1 /\ alerts'[n + 1] = r
      /\ \A i \in 1..n : alerts'[i] = alerts[i]
  BY <1>3, <1>4, <1>5, <1>6, AppendProperties
<1>8. n \in Nat /\ \A i \in 1..(n + 1) : i = n + 1 \/ i \in 1..n BY <1>4, <1>6
<1>9. r.kind = "low-tps" /\ r.id = <<"low-tps", r.at>> /\ r.at = now /\ r.count = 1 BY <1>2
<1>10. \A i \in 1..n :
          /\ alerts[i].kind = "low-tps" /\ alerts[i].id = <<"low-tps", alerts[i].at>>
          /\ alerts[i].at \in Nat /\ alerts[i].at < now /\ alerts[i].count = 1
  BY <1>1, <1>6 DEF Recorded
<1>11. \A i \in 1..Len(alerts') :
          /\ alerts'[i].kind = "low-tps" /\ alerts'[i].id = <<"low-tps", alerts'[i].at>>
          /\ alerts'[i].at \in Nat /\ alerts'[i].at < now' /\ alerts'[i].count = 1
  <2>1. \A i \in 1..n :
          /\ alerts'[i].kind = "low-tps" /\ alerts'[i].id = <<"low-tps", alerts'[i].at>>
          /\ alerts'[i].at \in Nat /\ alerts'[i].at < now' /\ alerts'[i].count = 1
    BY <1>1, <1>7, <1>10
  <2> QED BY <1>1, <1>7, <1>8, <1>9, <2>1
<1>12. \A i, j \in 1..Len(alerts') : i < j => alerts'[i].at < alerts'[j].at
  <2> SUFFICES ASSUME NEW i \in 1..Len(alerts'), NEW j \in 1..Len(alerts'), i < j
               PROVE  alerts'[i].at < alerts'[j].at
    OBVIOUS
  <2>1. i \in 1..n /\ alerts'[i] = alerts[i] BY <1>7, <1>8
  <2>2. CASE j = n + 1 BY <1>7, <1>9, <1>10, <2>1, <2>2
  <2>3. CASE j # n + 1
    <3>1. j \in 1..n /\ alerts'[j] = alerts[j] BY <1>7, <1>8, <2>3
    <3> QED BY <1>1, <1>6, <2>1, <3>1 DEF Recorded
  <2> QED BY <2>2, <2>3
<1>13. readAt \in Nat /\ readAt <= now + 1 BY <1>1 DEF Recorded
<1> QED BY <1>1, <1>7, <1>11, <1>12, <1>13 DEF FeedInv, Recorded

LEMMA FeedSteps == FeedInv /\ [Next]_AllVars => FeedInv'
<1> SUFFICES ASSUME FeedInv, [Next]_AllVars PROVE FeedInv' OBVIOUS
<1>1. now \in Nat BY DEF FeedInv
<1>2. CASE Feed!noteServerTelemetry
  <2>1. topic' = "samples" /\ now' = now + 1 BY <1>2 DEF Feed!noteServerTelemetry
  <2> QED BY <1>1, <2>1 DEF FeedInv
<1>3. CASE Feed!resetTelemetryTracker
  <2>1. topic' = "samples" /\ now' = now BY <1>3 DEF Feed!resetTelemetryTracker
  <2> QED BY <1>1, <2>1 DEF FeedInv
<1>4. CASE Feed!TimePasses
  <2>1. topic = "lines" /\ topic' = topic /\ lines' = lines /\ alerts' = alerts /\ now' = now + 1
        /\ readAt' = readAt
    BY <1>4 DEF Feed!TimePasses
  <2>2. Recorded(now) BY <2>1 DEF FeedInv
  <2>3. readAt \in Nat /\ readAt <= now + 1 BY <1>1, <2>2 DEF Recorded
  <2>4. \A i \in 1..Len(alerts) : alerts[i].at \in Nat /\ alerts[i].at < now + 1
    BY <1>1, <2>2 DEF Recorded
  <2>5. Recorded(now + 1) BY <2>2, <2>3, <2>4 DEF Recorded
  <2> QED BY <1>1, <2>1, <2>5 DEF FeedInv, Recorded
<1>5. CASE UNCHANGED feedVars BY <1>5 DEF FeedInv, Recorded, feedVars
<1>6. CASE Feed!Visit
  <2>1. topic = "lines" /\ topic' = topic /\ lines' = lines /\ alerts' = alerts /\ now' = now
        /\ readAt' = now
    BY <1>6 DEF Feed!Visit
  <2>2. Recorded(now) BY <2>1 DEF FeedInv
  <2>3. \A i \in 1..Len(lines) : lines[i].real <= now
    <3>1. lines \in Seq(Printed) /\ readAt \in Nat /\ readAt <= now BY <2>2 DEF Recorded
    <3>2. \A i \in 1..Len(lines) : lines[i] \in Printed BY <3>1, ElementOfSeq
    <3>3. \A i \in 1..Len(lines) : lines[i].real \in Nat /\ lines[i].real <= readAt
      BY <2>2, <3>2 DEF Recorded, Printed
    <3> QED BY <1>1, <3>1, <3>3
  <2> QED BY <1>1, <2>1, <2>2, <2>3 DEF FeedInv, Recorded
<1> QED BY <1>2, <1>3, <1>4, <1>5, <1>6, LinePrinted, AlertTold DEF Next, AllVars, Feed!FeedNext

--------------------------------------------------------------------------------
(* What is read of the lines.                                                    *)

Unread == [at |-> Feed!None, events |-> <<>>]

\* The loop over the lines is defined.
LEMMA ReadingGoesOn ==
    ASSUME NEW N \in Nat
    PROVE  \E f : f = [n \in 0..N |-> IF n = 0 THEN Unread ELSE Feed!readLine(f[n - 1], n)]
<1> DEFINE Fine == {m \in 0..N :
                \E f : f = [n \in 0..m |-> IF n = 0 THEN Unread ELSE Feed!readLine(f[n - 1], n)]}
<1>1. 0 \in Fine
  <2> DEFINE f == [n \in 0..0 |-> Unread]
  <2>1. f = [n \in 0..0 |-> IF n = 0 THEN Unread ELSE Feed!readLine(f[n - 1], n)] OBVIOUS
  <2> HIDE DEF f
  <2> QED BY <2>1
<1>2. \A m \in 0..(N - 1) : m \in Fine => m + 1 \in Fine
  <2> SUFFICES ASSUME NEW m \in 0..(N - 1), m \in Fine PROVE m + 1 \in Fine OBVIOUS
  <2>1. PICK f : f = [n \in 0..m |-> IF n = 0 THEN Unread ELSE Feed!readLine(f[n - 1], n)] OBVIOUS
  <2> DEFINE g == [n \in 0..(m + 1) |-> IF n = m + 1 THEN Feed!readLine(f[m], m + 1) ELSE f[n]]
  <2>2. \A n \in 0..m : f[n] = IF n = 0 THEN Unread ELSE Feed!readLine(f[n - 1], n) BY <2>1
  <2>3. g[m + 1] = Feed!readLine(f[m], m + 1) /\ \A n \in 0..m : g[n] = f[n] OBVIOUS
  <2>4. g = [n \in 0..(m + 1) |-> g[n]] OBVIOUS
  <2> HIDE DEF g
  <2>5. \A n \in 0..(m + 1) : g[n] = IF n = 0 THEN Unread ELSE Feed!readLine(g[n - 1], n)
    <3> SUFFICES ASSUME NEW n \in 0..(m + 1)
                 PROVE  g[n] = IF n = 0 THEN Unread ELSE Feed!readLine(g[n - 1], n)
      OBVIOUS
    <3>1. CASE n = m + 1
      <4>1. n - 1 = m /\ n # 0 /\ m \in 0..m BY <3>1
      <4> QED BY <2>3, <3>1, <4>1
    <3>2. CASE n # m + 1
      <4>1. n \in 0..m /\ (n # 0 => n - 1 \in 0..m) BY <3>2
      <4> QED BY <2>2, <2>3, <4>1
    <3> QED BY <3>1, <3>2
  <2>6. g = [n \in 0..(m + 1) |-> IF n = 0 THEN Unread ELSE Feed!readLine(g[n - 1], n)]
    BY <2>4, <2>5
  <2>7. m + 1 \in 0..N OBVIOUS
  <2> QED BY <2>6, <2>7
<1>3. \A n \in 0..N : n \in Fine
  <2> HIDE DEF Fine
  <2> QED BY <1>1, <1>2, EveryTurn
<1>4. N \in Fine BY <1>3
<1> QED BY <1>4

LEMMA ConsoleIs ==
    ASSUME NEW N \in Nat, N = Len(lines)
    PROVE  \E f : /\ f[0] = Unread /\ \A n \in 1..N : f[n] = Feed!readLine(f[n - 1], n)
                  /\ Feed!buildConsoleActivity = f[N].events
<1> DEFINE C == CHOOSE f : f = [n \in 0..N |-> IF n = 0 THEN Unread ELSE Feed!readLine(f[n - 1], n)]
<1>1. C = [n \in 0..N |-> IF n = 0 THEN Unread ELSE Feed!readLine(C[n - 1], n)]
  BY ReadingGoesOn, Zenon
<1>2. Feed!buildConsoleActivity = C[N].events BY Zenon DEF Feed!buildConsoleActivity, Unread
<1> HIDE DEF C
<1>3. C[0] = Unread BY <1>1
<1>4. \A n \in 1..N : C[n] = Feed!readLine(C[n - 1], n) BY <1>1
<1> QED BY <1>2, <1>3, <1>4

KindOf(i)  == Feed!parseConsoleLine(lines[i])
Shown(n)   == {i \in 1..n : KindOf(i) # "other"}
KeyOf(i)   == <<<<"line", i>>, KindOf(i)>>
Said(n)    == {KeyOf(i) : i \in Shown(n)}
Dated      == \A i \in 1..Len(lines) : Feed!hasStamp(lines[i]) =>
                  Feed!resolveLogTimestamp(lines[i].stamp) \in lines[i].real..(lines[i].real + Slack)

\* After n lines: rows in order, each line that is shown told once, nothing later than
\* the time last seen.
ReadSoFar(c, n) ==
    /\ c.at \in Int /\ c.events \in Seq(FeedRows)
    /\ InOrder(c.events) /\ Own(c.events, Said(n)) /\ Tells(c.events, Cardinality(Shown(n)))
    /\ c.at = Feed!None => \A i \in 1..Len(c.events) : c.events[i].at = Feed!None
    /\ c.at # Feed!None => /\ n # 0 /\ c.at <= lines[n].real + Slack
                           /\ AtMost(c.events, c.at + Slack)
                           /\ AtMost(c.events, lines[n].real + Slack)

LEMMA NothingTold == InOrder(<<>>) /\ Tells(<<>>, 0) /\ (\A D : Own(<<>>, D)) /\ \A b : AtMost(<<>>, b)
<1>1. Len(<<>>) = 0 /\ 1..0 = {} BY EmptySeq
<1> DEFINE F == [n \in 0..0 |-> 0]
<1>2. F = [n \in 0..0 |-> IF n = 0 THEN 0 ELSE F[n - 1] + <<>>[n].count] OBVIOUS
<1>3. F[0] = 0 OBVIOUS
<1> HIDE DEF F
<1>4. Tells(<<>>, 0) BY <1>1, <1>2, <1>3 DEF Tells, RunningTotal
<1> QED BY <1>1, <1>4 DEF InOrder, Own, AtMost

LEMMA OwnMore == ASSUME NEW s, NEW D, NEW C, D \subseteq C, Own(s, D) PROVE Own(s, C)
BY DEF Own

LEMMA ShownGrows ==
    ASSUME NEW n \in Nat \ {0}
    PROVE  /\ Cardinality(Shown(n)) \in Nat /\ Cardinality(Shown(n - 1)) \in Nat
           /\ Cardinality(Shown(n)) = IF KindOf(n) = "other" THEN Cardinality(Shown(n - 1))
                                      ELSE Cardinality(Shown(n - 1)) + 1
           /\ Said(n) = IF KindOf(n) = "other" THEN Said(n - 1) ELSE Said(n - 1) \cup {KeyOf(n)}
<1>1. \A k \in Nat : IsFiniteSet(Shown(k)) /\ Cardinality(Shown(k)) \in Nat
  <2> TAKE k \in Nat
  <2>1. IsFiniteSet(1..k) BY FS_Interval
  <2>2. Shown(k) \in SUBSET (1..k) BY DEF Shown
  <2> QED BY <2>1, <2>2, FS_Subset, FS_CardinalityType
<1>2. n - 1 \in Nat /\ \A i : i \in 1..n <=> (i = n \/ i \in 1..(n - 1)) OBVIOUS
<1>3. Shown(n) = IF KindOf(n) = "other" THEN Shown(n - 1) ELSE Shown(n - 1) \cup {n}
  BY <1>2 DEF Shown
<1>4. n \notin Shown(n - 1) BY DEF Shown
<1>5. Said(n) = IF KindOf(n) = "other" THEN Said(n - 1) ELSE Said(n - 1) \cup {KeyOf(n)}
  BY <1>3 DEF Said
<1>6. Cardinality(Shown(n - 1) \cup {n}) = Cardinality(Shown(n - 1)) + 1
  BY <1>1, <1>2, <1>4, FS_AddElement
<1> QED BY <1>1, <1>2, <1>3, <1>5, <1>6

LEMMA KindIs ==
    ASSUME NEW i, lines[i] \in Printed
    PROVE  /\ KindOf(i) \in FeedKinds \ {"low-tps"}
           /\ KindOf(i) # "other" => (KindOf(i) = "chat" <=> lines[i].chat)
BY DEF KindOf, Feed!parseConsoleLine, Feed!PatternOf, Printed, FeedKinds

\* One more line is read.
LEMMA LineRead ==
    ASSUME FeedInv, topic = "lines", Dated, NEW n \in 1..Len(lines), NEW c, ReadSoFar(c, n - 1)
    PROVE  ReadSoFar(Feed!readLine(c, n), n)
<1>1. now \in Nat /\ Recorded(now) BY DEF FeedInv
<1>2. lines \in Seq(Printed) /\ Len(lines) \in Nat BY <1>1, LenProperties DEF Recorded
<1>3. lines[n] \in Printed /\ n \in Nat \ {0} BY <1>2, ElementOfSeq
<1>4. lines[n].real \in Nat /\ lines[n].no \in Nat /\ Slack \in Nat BY <1>3, FeedAssumption DEF Printed
<1> DEFINE at == IF Feed!hasStamp(lines[n]) THEN Feed!resolveLogTimestamp(lines[n].stamp) ELSE c.at
<1>5. PICK t : t = at OBVIOUS
<1>6. PICK e : e = [kind |-> KindOf(n), id |-> <<"line", n>>, no |-> lines[n].no, at |-> t,
                    count |-> 1]
  OBVIOUS
<1>7. PICK d : d = Feed!readLine(c, n) OBVIOUS
<1>8. d.at = t /\ d.events = IF KindOf(n) = "other" THEN c.events ELSE Feed!pushCollapsed(c.events, e)
  BY <1>5, <1>6, <1>7 DEF Feed!readLine, KindOf
<1>9. c.at \in Int /\ c.events \in Seq(FeedRows) /\ Len(c.events) \in Nat
      /\ \A i \in 1..Len(c.events) : c.events[i].at \in Int
  <2>1. c.at \in Int /\ c.events \in Seq(FeedRows) BY DEF ReadSoFar
  <2>2. \A i \in 1..Len(c.events) : c.events[i] \in FeedRows BY <2>1, ElementOfSeq
  <2> QED BY <2>1, <2>2, LenProperties DEF FeedRows
<1>10. t \in Int /\ (Feed!hasStamp(lines[n]) => t \in lines[n].real..(lines[n].real + Slack))
  BY <1>4, <1>5, <1>9 DEF Dated
<1>11. t # Feed!None => /\ t <= lines[n].real + Slack
                        /\ AtMost(c.events, t + Slack) /\ AtMost(c.events, lines[n].real + Slack)
  <2> SUFFICES ASSUME t # Feed!None
               PROVE  /\ t <= lines[n].real + Slack /\ AtMost(c.events, t + Slack)
                      /\ AtMost(c.events, lines[n].real + Slack)
    OBVIOUS
  <2>1. CASE c.at = Feed!None
    <3>1. Feed!hasStamp(lines[n]) BY <1>5, <2>1
    <3>2. \A b : AtMost(c.events, b) BY <2>1 DEF ReadSoFar, AtMost
    <3> QED BY <1>4, <1>10, <3>1, <3>2
  <2>2. CASE c.at # Feed!None
    <3>1. /\ n - 1 # 0 /\ c.at <= lines[n - 1].real + Slack /\ AtMost(c.events, c.at + Slack)
          /\ AtMost(c.events, lines[n - 1].real + Slack)
      BY <2>2 DEF ReadSoFar
    <3>2. n - 1 \in 1..Len(lines) /\ n - 1 < n BY <1>2, <1>3, <3>1
    <3>3. lines[n - 1].real \in Nat /\ lines[n - 1].real <= lines[n].real
      <4>1. lines[n - 1] \in Printed BY <1>2, <3>2, ElementOfSeq
      <4> QED BY <1>1, <3>2, <4>1 DEF Recorded, Printed
    <3>4. AtMost(c.events, lines[n].real + Slack)
      BY <1>4, <1>9, <3>1, <3>3 DEF AtMost
    <3>5. CASE Feed!hasStamp(lines[n])
      <4>1. t \in lines[n].real..(lines[n].real + Slack) BY <1>10, <3>5
      <4>2. AtMost(c.events, t + Slack) BY <1>4, <1>9, <1>10, <3>4, <4>1 DEF AtMost
      <4> QED BY <1>4, <3>4, <4>1, <4>2
    <3>6. CASE ~Feed!hasStamp(lines[n])
      <4>1. t = c.at BY <1>5, <3>6
      <4> QED BY <1>4, <1>9, <3>1, <3>3, <3>4, <4>1
    <3> QED BY <3>5, <3>6
  <2> QED BY <2>1, <2>2
<1>12. t = Feed!None => \A i \in 1..Len(c.events) : c.events[i].at = Feed!None
  <2> SUFFICES ASSUME t = Feed!None PROVE \A i \in 1..Len(c.events) : c.events[i].at = Feed!None
    OBVIOUS
  <2>1. ~Feed!hasStamp(lines[n])
    <3>1. \A x \in lines[n].real..(lines[n].real + Slack) : x \in Nat BY <1>4
    <3> QED BY <1>10, <3>1, NoMoment
  <2>2. c.at = Feed!None BY <1>5, <2>1
  <2> QED BY <2>2 DEF ReadSoFar
<1>13. CASE KindOf(n) = "other"
  <2>1. d.at = t /\ d.events = c.events BY <1>8, <1>13
  <2>2. Own(c.events, Said(n)) /\ Tells(c.events, Cardinality(Shown(n))) /\ InOrder(c.events)
    BY <1>3, <1>13, ShownGrows DEF ReadSoFar
  <2>3. ReadSoFar(d, n) BY <1>3, <1>9, <1>10, <1>11, <1>12, <2>1, <2>2 DEF ReadSoFar
  <2> QED BY <1>7, <2>3
<1>14. CASE KindOf(n) # "other"
  <2>1. e \in FeedRows
    <3>1. KindOf(n) \in FeedKinds BY <1>3, KindIs
    <3>2. <<"line", n>> \in {"line", "low-tps"} \X Nat BY <1>3
    <3> QED BY <1>4, <1>6, <1>10, <3>1, <3>2 DEF FeedRows
  <2>2. e.at = t /\ e.count = 1 /\ <<e.id, e.kind>> = KeyOf(n) /\ e.id = <<"line", n>>
    BY <1>6 DEF KeyOf
  <2>3. PICK s : s = Feed!pushCollapsed(c.events, e) OBVIOUS
  <2>4. s \in Seq(FeedRows) /\ Pushed(c.events, e, s) BY <1>9, <2>1, <2>3, PushIs
  <2>5. d.at = t /\ d.events = s BY <1>8, <1>14, <2>3
  <2>6. InOrder(s)
    <3>1. InOrder(c.events) BY DEF ReadSoFar
    <3> QED BY <1>9, <1>11, <2>1, <2>2, <2>4, <3>1, PushedInOrder
  <2>7. Own(s, Said(n))
    <3>1. Said(n) = Said(n - 1) \cup {<<e.id, e.kind>>} BY <1>3, <1>14, <2>2, ShownGrows
    <3>2. Own(c.events, Said(n - 1)) BY DEF ReadSoFar
    <3>3. ASSUME NEW i \in 1..Len(c.events) PROVE c.events[i].id # e.id
      <4>1. PICK k \in 1..(n - 1) : <<c.events[i].id, c.events[i].kind>> = <<<<"line", k>>, KindOf(k)>>
        BY <3>2 DEF Own, Said, Shown, KeyOf
      <4>2. c.events[i].id = <<"line", k>> BY <4>1
      <4>3. k # n BY <1>3
      <4> QED BY <2>2, <4>2, <4>3
    <3> QED BY <1>9, <2>1, <2>4, <3>1, <3>2, <3>3, PushedOwn
  <2>8. Tells(s, Cardinality(Shown(n)))
    <3>1. Tells(c.events, Cardinality(Shown(n - 1))) BY DEF ReadSoFar
    <3>2. Cardinality(Shown(n - 1)) \in Nat /\ Cardinality(Shown(n)) = Cardinality(Shown(n - 1)) + e.count
      BY <1>3, <1>14, <2>2, ShownGrows
    <3> QED BY <1>9, <2>1, <2>4, <3>1, <3>2, PushedTells
  <2>9. t # Feed!None => AtMost(s, t + Slack) /\ AtMost(s, lines[n].real + Slack)
    <3> SUFFICES ASSUME t # Feed!None PROVE AtMost(s, t + Slack) /\ AtMost(s, lines[n].real + Slack)
      OBVIOUS
    <3>1. t + Slack \in Int /\ lines[n].real + Slack \in Int /\ t <= t + Slack BY <1>4, <1>10
    <3>2. AtMost(s, t + Slack) BY <1>9, <1>11, <2>1, <2>2, <2>4, <3>1, PushedAtMost
    <3>3. AtMost(s, lines[n].real + Slack) BY <1>9, <1>11, <2>1, <2>2, <2>4, <3>1, PushedAtMost
    <3> QED BY <3>2, <3>3
  <2>10. t = Feed!None => \A i \in 1..Len(s) : s[i].at = Feed!None
    BY <1>9, <1>12, <2>2, <2>4 DEF Pushed
  <2>11. ReadSoFar(d, n) BY <1>3, <1>10, <1>11, <2>4, <2>5, <2>6, <2>7, <2>8, <2>9, <2>10 DEF ReadSoFar
  <2> QED BY <1>7, <2>11
<1> QED BY <1>13, <1>14

LEMMA ConsoleTold ==
    ASSUME FeedInv, topic = "lines", Dated, NEW E, E = Feed!buildConsoleActivity
    PROVE  /\ E \in Seq(FeedRows) /\ InOrder(E) /\ Own(E, Said(Len(lines)))
           /\ Tells(E, Cardinality(Shown(Len(lines))))
<1>1. Recorded(now) BY DEF FeedInv
<1>2. PICK N \in Nat : N = Len(lines) BY <1>1, LenProperties DEF Recorded
<1>3. PICK f : /\ f[0] = Unread /\ \A n \in 1..N : f[n] = Feed!readLine(f[n - 1], n)
               /\ Feed!buildConsoleActivity = f[N].events
  BY <1>2, ConsoleIs
<1> DEFINE Fine == {n \in 0..N : ReadSoFar(f[n], n)}
<1>4. 0 \in Fine
  <2>1. Unread.at = Feed!None /\ Unread.events = <<>> BY DEF Unread
  <2>2. Shown(0) = {} /\ Cardinality({}) = 0 BY FS_EmptySet DEF Shown
  <2>3. <<>> \in Seq(FeedRows) /\ Len(<<>>) = 0 BY EmptySeq
  <2>4. ReadSoFar(Unread, 0) BY <2>1, <2>2, <2>3, NothingTold, NoMoment DEF ReadSoFar
  <2> QED BY <1>3, <2>4
<1>5. \A n \in 0..(N - 1) : n \in Fine => n + 1 \in Fine
  <2> SUFFICES ASSUME NEW n \in 0..(N - 1), n \in Fine PROVE n + 1 \in Fine OBVIOUS
  <2>1. n + 1 \in 1..N /\ (n + 1) - 1 = n /\ n + 1 \in 0..N OBVIOUS
  <2>2. ReadSoFar(Feed!readLine(f[n], n + 1), n + 1) BY <1>2, <2>1, LineRead
  <2>3. f[n + 1] = Feed!readLine(f[n], n + 1) BY <1>3, <2>1
  <2> QED BY <2>1, <2>2, <2>3
<1>6. \A n \in 0..N : n \in Fine
  <2> HIDE DEF Fine
  <2> QED BY <1>4, <1>5, EveryTurn
<1>7. ReadSoFar(f[N], N) BY <1>6
<1> QED BY <1>2, <1>3, <1>7 DEF ReadSoFar

--------------------------------------------------------------------------------
(* What is merged of the console and the alerts.                                  *)

Unmerged == [event |-> 0, alert |-> 0, rows |-> <<>>]

\* The loop over the events and the alerts is defined.
LEMMA MergingGoesOn ==
    ASSUME NEW N \in Nat, NEW E
    PROVE  \E f : f = [n \in 0..N |-> IF n = 0 THEN Unmerged ELSE Feed!mergeNext(f[n - 1], E)]
<1> DEFINE Fine == {m \in 0..N :
                \E f : f = [n \in 0..m |-> IF n = 0 THEN Unmerged ELSE Feed!mergeNext(f[n - 1], E)]}
<1>1. 0 \in Fine
  <2> DEFINE f == [n \in 0..0 |-> Unmerged]
  <2>1. f = [n \in 0..0 |-> IF n = 0 THEN Unmerged ELSE Feed!mergeNext(f[n - 1], E)] OBVIOUS
  <2> HIDE DEF f
  <2> QED BY <2>1
<1>2. \A m \in 0..(N - 1) : m \in Fine => m + 1 \in Fine
  <2> SUFFICES ASSUME NEW m \in 0..(N - 1), m \in Fine PROVE m + 1 \in Fine OBVIOUS
  <2>1. PICK f : f = [n \in 0..m |-> IF n = 0 THEN Unmerged ELSE Feed!mergeNext(f[n - 1], E)] OBVIOUS
  <2> DEFINE g == [n \in 0..(m + 1) |-> IF n = m + 1 THEN Feed!mergeNext(f[m], E) ELSE f[n]]
  <2>2. \A n \in 0..m : f[n] = IF n = 0 THEN Unmerged ELSE Feed!mergeNext(f[n - 1], E) BY <2>1
  <2>3. g[m + 1] = Feed!mergeNext(f[m], E) /\ \A n \in 0..m : g[n] = f[n] OBVIOUS
  <2>4. g = [n \in 0..(m + 1) |-> g[n]] OBVIOUS
  <2> HIDE DEF g
  <2>5. \A n \in 0..(m + 1) : g[n] = IF n = 0 THEN Unmerged ELSE Feed!mergeNext(g[n - 1], E)
    <3> SUFFICES ASSUME NEW n \in 0..(m + 1)
                 PROVE  g[n] = IF n = 0 THEN Unmerged ELSE Feed!mergeNext(g[n - 1], E)
      OBVIOUS
    <3>1. CASE n = m + 1
      <4>1. n - 1 = m /\ n # 0 /\ m \in 0..m BY <3>1
      <4> QED BY <2>3, <3>1, <4>1
    <3>2. CASE n # m + 1
      <4>1. n \in 0..m /\ (n # 0 => n - 1 \in 0..m) BY <3>2
      <4> QED BY <2>2, <2>3, <4>1
    <3> QED BY <3>1, <3>2
  <2>6. g = [n \in 0..(m + 1) |-> IF n = 0 THEN Unmerged ELSE Feed!mergeNext(g[n - 1], E)]
    BY <2>4, <2>5
  <2>7. m + 1 \in 0..N OBVIOUS
  <2> QED BY <2>6, <2>7
<1>3. \A n \in 0..N : n \in Fine
  <2> HIDE DEF Fine
  <2> QED BY <1>1, <1>2, EveryTurn
<1>4. N \in Fine BY <1>3
<1> QED BY <1>4

LEMMA MergeIs ==
    ASSUME NEW E, NEW N \in Nat, N = Len(E) + Len(alerts)
    PROVE  \E f : /\ f[0] = Unmerged /\ \A n \in 1..N : f[n] = Feed!mergeNext(f[n - 1], E)
                  /\ Feed!mergeActivityEvents(E) = f[N].rows
<1> DEFINE C == CHOOSE f : f = [n \in 0..N |-> IF n = 0 THEN Unmerged ELSE Feed!mergeNext(f[n - 1], E)]
<1>1. C = [n \in 0..N |-> IF n = 0 THEN Unmerged ELSE Feed!mergeNext(C[n - 1], E)]
  BY MergingGoesOn, Zenon
<1>2. Feed!mergeActivityEvents(E) = C[N].rows BY Zenon DEF Feed!mergeActivityEvents, Unmerged
<1> HIDE DEF C
<1>3. C[0] = Unmerged BY <1>1
<1>4. \A n \in 1..N : C[n] = Feed!mergeNext(C[n - 1], E) BY <1>1
<1> QED BY <1>2, <1>3, <1>4

\* The keys of the first k of s, each with its kind.
Keys(s, k) == {<<s[i].id, s[i].kind>> : i \in 1..k}

\* After n pushes: no row is later than an event or an alert still to come.
MergedSoFar(m, n, E, F) ==
    /\ m.event \in 0..Len(E) /\ m.alert \in 0..Len(alerts) /\ m.event + m.alert = n
    /\ m.rows \in Seq(FeedRows) /\ InOrder(m.rows)
    /\ \A j \in (m.event + 1)..Len(E) : E[j].at # Feed!None => AtMost(m.rows, E[j].at + Slack)
    /\ \A j \in (m.alert + 1)..Len(alerts) : AtMost(m.rows, alerts[j].at + Slack)
    /\ Own(m.rows, Keys(E, m.event) \cup Keys(alerts, m.alert))
    /\ Tells(m.rows, F[m.event] + m.alert)

\* The keys of what was pushed are told from the key of what is.
LEMMA KeysGrow ==
    ASSUME NEW s, NEW k \in Nat
    PROVE  Keys(s, k + 1) = Keys(s, k) \cup {<<s[k + 1].id, s[k + 1].kind>>}
<1>1. \A i : i \in 1..(k + 1) <=> (i = k + 1 \/ i \in 1..k) OBVIOUS
<1> QED BY <1>1 DEF Keys

LEMMA NextMerged ==
    ASSUME FeedInv, topic = "lines", NEW E \in Seq(FeedRows), InOrder(E), NEW K, Own(E, Said(K)),
           NEW F, RunningTotal(F, E), NEW n \in 0..(Len(E) + Len(alerts) - 1),
           NEW m, MergedSoFar(m, n, E, F)
    PROVE  MergedSoFar(Feed!mergeNext(m, E), n + 1, E, F)
<1>1. now \in Nat /\ Recorded(now) BY DEF FeedInv
<1>2. PICK L : L = Len(E) OBVIOUS
<1>3. PICK M : M = Len(alerts) OBVIOUS
<1>4. alerts \in Seq(FeedRows) /\ L \in Nat /\ M \in Nat /\ Slack \in Nat
  BY <1>1, <1>2, <1>3, LenProperties, FeedAssumption DEF Recorded
<1>5. PICK a : a = m.alert OBVIOUS
<1>6. PICK v : v = m.event OBVIOUS
<1>7. PICK s : s = m.rows OBVIOUS
<1>8. /\ v \in 0..L /\ a \in 0..M /\ v + a = n /\ s \in Seq(FeedRows) /\ InOrder(s)
      /\ \A j \in (v + 1)..L : E[j].at # Feed!None => AtMost(s, E[j].at + Slack)
      /\ \A j \in (a + 1)..M : AtMost(s, alerts[j].at + Slack)
      /\ Own(s, Keys(E, v) \cup Keys(alerts, a)) /\ Tells(s, F[v] + a)
  BY <1>2, <1>3, <1>5, <1>6, <1>7 DEF MergedSoFar
<1>9. \A j \in 1..L : E[j] \in FeedRows /\ E[j].at \in Int /\ E[j].count \in Nat
  <2>1. \A j \in 1..L : E[j] \in FeedRows BY <1>2, ElementOfSeq
  <2> QED BY <2>1 DEF FeedRows
<1>10. \A j \in 1..M : /\ alerts[j] \in FeedRows /\ alerts[j].at \in Nat /\ alerts[j].count = 1
                       /\ alerts[j].id = <<"low-tps", alerts[j].at>>
  <2>1. \A j \in 1..M : alerts[j] \in FeedRows BY <1>3, <1>4, ElementOfSeq
  <2> QED BY <1>1, <1>3, <2>1 DEF Recorded
<1>11. \A i, j \in 1..M : i < j => alerts[i].at < alerts[j].at BY <1>1, <1>3 DEF Recorded
<1>12. \A j \in 1..L : \E k : E[j].id = <<"line", k>>
  <2> SUFFICES ASSUME NEW j \in 1..L PROVE \E k : E[j].id = <<"line", k>> OBVIOUS
  <2>1. PICK k : <<E[j].id, E[j].kind>> = <<<<"line", k>>, KindOf(k)>>
    BY <1>2 DEF Own, Said, KeyOf
  <2> QED BY <2>1
<1>13. \A i, j \in 1..L : E[i].id = E[j].id => i = j BY <1>2 DEF Own
<1>14. \A i \in 1..Len(s) : \/ \E k \in 1..v : s[i].id = E[k].id
                            \/ \E k \in 1..a : s[i].id = alerts[k].id
  <2> SUFFICES ASSUME NEW i \in 1..Len(s)
               PROVE  \/ \E k \in 1..v : s[i].id = E[k].id
                      \/ \E k \in 1..a : s[i].id = alerts[k].id
    OBVIOUS
  <2>1. <<s[i].id, s[i].kind>> \in Keys(E, v) \cup Keys(alerts, a) BY <1>8 DEF Own
  <2> QED BY <2>1 DEF Keys
<1>15. F[v] \in Nat /\ \A i \in 1..L : F[i] = F[i - 1] + E[i].count
  <2>1. F[v] \in Nat BY <1>2, <1>8, TotalIsNat
  <2>2. \A i \in 1..L : F[i] = F[i - 1] + E[i].count BY <1>2, <1>4 DEF RunningTotal
  <2> QED BY <2>1, <2>2
<1> DEFINE due == /\ a < M
                  /\ (v = L \/ (E[v + 1].at # Feed!None /\ alerts[a + 1].at < E[v + 1].at))
<1>16. CASE due
  <2>1. PICK e : e = alerts[a + 1] OBVIOUS
  <2>2. a + 1 \in 1..M /\ \A j \in 1..a : j \in 1..M /\ j < a + 1 BY <1>4, <1>8, <1>16
  <2>3. /\ e \in FeedRows /\ e.at \in Nat /\ e.at # Feed!None /\ e.count = 1
        /\ e.id = <<"low-tps", e.at>>
    BY <1>10, <2>1, <2>2, NoMoment
  <2>4. PICK t : t = Feed!pushCollapsed(s, e) OBVIOUS
  <2>5. Feed!mergeNext(m, E) = [event |-> v, alert |-> a + 1, rows |-> t]
    BY <1>2, <1>3, <1>5, <1>6, <1>7, <1>16, <2>1, <2>4 DEF Feed!mergeNext
  <2>6. t \in Seq(FeedRows) /\ Pushed(s, e, t) BY <1>8, <2>3, <2>4, PushIs
  <2>7. AtMost(s, e.at + Slack) BY <1>8, <2>1, <2>2
  <2>8. InOrder(t) BY <1>8, <2>3, <2>6, <2>7, PushedInOrder
  <2>9. ASSUME NEW j \in (v + 1)..L, E[j].at # Feed!None PROVE AtMost(t, E[j].at + Slack)
    <3>1. v # L /\ v + 1 \in 1..L /\ j \in 1..L BY <1>4, <1>8
    <3>2. E[v + 1].at # Feed!None /\ e.at < E[v + 1].at BY <1>16, <2>1, <3>1
    <3>3. E[v + 1].at <= E[j].at + Slack
      <4>1. CASE j = v + 1 BY <1>4, <1>9, <3>1, <4>1
      <4>2. CASE j # v + 1
        <5>1. v + 1 < j BY <1>4, <1>8, <4>2
        <5> QED BY <1>2, <2>9, <3>1, <3>2, <5>1 DEF InOrder
      <4> QED BY <4>1, <4>2
    <3>4. E[j].at + Slack \in Int /\ e.at <= E[j].at + Slack BY <1>4, <1>9, <2>3, <3>1, <3>2, <3>3
    <3>5. AtMost(s, E[j].at + Slack) BY <1>8, <2>9
    <3> QED BY <1>8, <2>3, <2>6, <3>4, <3>5, PushedAtMost
  <2>10. ASSUME NEW j \in (a + 2)..M PROVE AtMost(t, alerts[j].at + Slack)
    <3>1. j \in 1..M /\ j \in (a + 1)..M /\ a + 1 < j BY <1>4, <1>8
    <3>2. alerts[a + 1].at < alerts[j].at /\ alerts[j].at \in Nat BY <1>10, <1>11, <2>2, <3>1
    <3>3. alerts[j].at + Slack \in Int /\ e.at <= alerts[j].at + Slack BY <1>4, <2>1, <2>3, <3>2
    <3>4. AtMost(s, alerts[j].at + Slack) BY <1>8, <3>1
    <3> QED BY <1>8, <2>3, <2>6, <3>3, <3>4, PushedAtMost
  <2>11. Own(t, Keys(E, v) \cup Keys(alerts, a + 1))
    <3>1. Keys(alerts, a + 1) = Keys(alerts, a) \cup {<<e.id, e.kind>>}
      <4>1. a \in Nat BY <1>8
      <4>2. Keys(alerts, a + 1) = Keys(alerts, a) \cup {<<alerts[a + 1].id, alerts[a + 1].kind>>}
        BY <4>1, KeysGrow
      <4> QED BY <2>1, <4>2
    <3>2. Keys(E, v) \cup Keys(alerts, a + 1) = (Keys(E, v) \cup Keys(alerts, a)) \cup {<<e.id, e.kind>>}
      BY <3>1
    <3>3. ASSUME NEW i \in 1..Len(s) PROVE s[i].id # e.id
      <4>1. CASE \E k \in 1..v : s[i].id = E[k].id
        <5>1. PICK k \in 1..v : s[i].id = E[k].id BY <4>1
        <5>2. k \in 1..L BY <1>4, <1>8
        <5>3. PICK x : E[k].id = <<"line", x>> BY <1>12, <5>2
        <5> QED BY <2>3, <5>1, <5>3
      <4>2. CASE \E k \in 1..a : s[i].id = alerts[k].id
        <5>1. PICK k \in 1..a : s[i].id = alerts[k].id BY <4>2
        <5>2. k \in 1..M /\ k < a + 1 BY <2>2
        <5>3. alerts[k].at < e.at /\ alerts[k].at \in Nat BY <1>10, <1>11, <2>1, <2>2, <5>2
        <5>4. alerts[k].id = <<"low-tps", alerts[k].at>> BY <1>10, <5>2
        <5> QED BY <2>3, <5>1, <5>3, <5>4
      <4> QED BY <1>14, <4>1, <4>2
    <3> QED BY <1>8, <2>3, <2>6, <3>2, <3>3, PushedOwn
  <2>12. Tells(t, F[v] + (a + 1))
    <3>1. F[v] + a \in Nat /\ (F[v] + a) + e.count = F[v] + (a + 1) BY <1>8, <1>15, <2>3
    <3>2. Tells(t, (F[v] + a) + e.count) BY <1>8, <2>3, <2>6, <3>1, PushedTells
    <3> QED BY <3>1, <3>2
  <2>13. v + (a + 1) = n + 1 /\ (a + 1) + 1 = a + 2 /\ a + 1 \in 0..M BY <1>4, <1>8, <2>2
  <2> QED BY <1>2, <1>3, <1>8, <2>5, <2>6, <2>8, <2>9, <2>10, <2>11, <2>12, <2>13 DEF MergedSoFar
<1>17. CASE ~due
  <2>1. PICK e : e = E[v + 1] OBVIOUS
  <2>2. v + 1 \in 1..L
    <3>1. v = L => a = M BY <1>4, <1>8, <1>17
    <3>2. n < L + M BY <1>2, <1>3, <1>4
    <3> QED BY <1>4, <1>8, <3>1, <3>2
  <2>3. e \in FeedRows /\ e.at \in Int /\ e.count \in Nat BY <1>9, <2>1, <2>2
  <2>4. PICK t : t = Feed!pushCollapsed(s, e) OBVIOUS
  <2>5. Feed!mergeNext(m, E) = [event |-> v + 1, alert |-> a, rows |-> t]
    BY <1>2, <1>3, <1>5, <1>6, <1>7, <1>17, <2>1, <2>4 DEF Feed!mergeNext
  <2>6. t \in Seq(FeedRows) /\ Pushed(s, e, t) BY <1>8, <2>3, <2>4, PushIs
  <2>7. e.at # Feed!None => AtMost(s, e.at + Slack)
    <3>1. v + 1 \in (v + 1)..L BY <2>2
    <3> QED BY <1>8, <2>1, <3>1
  <2>8. InOrder(t) BY <1>8, <2>3, <2>6, <2>7, PushedInOrder
  <2>9. ASSUME NEW j \in (v + 2)..L, E[j].at # Feed!None PROVE AtMost(t, E[j].at + Slack)
    <3>1. j \in 1..L /\ j \in (v + 1)..L /\ v + 1 < j BY <1>4, <1>8
    <3>2. e.at # Feed!None => e.at <= E[j].at + Slack BY <1>2, <2>1, <2>2, <2>9, <3>1 DEF InOrder
    <3>3. E[j].at + Slack \in Int /\ AtMost(s, E[j].at + Slack) BY <1>4, <1>8, <1>9, <2>9, <3>1
    <3> QED BY <1>8, <2>3, <2>6, <3>2, <3>3, PushedAtMost
  <2>10. ASSUME NEW j \in (a + 1)..M PROVE AtMost(t, alerts[j].at + Slack)
    <3>1. j \in 1..M /\ a + 1 \in 1..M /\ a < M BY <1>4, <1>8
    <3>2. e.at # Feed!None => e.at <= alerts[a + 1].at
      <4>1. v # L BY <1>4, <2>2
      <4> QED BY <1>10, <1>17, <2>1, <2>3, <3>1, <4>1
    <3>3. alerts[a + 1].at <= alerts[j].at
      <4>1. CASE j = a + 1 BY <1>10, <3>1, <4>1
      <4>2. CASE j # a + 1
        <5>1. a + 1 < j BY <1>4, <1>8, <4>2
        <5> QED BY <1>10, <1>11, <3>1, <5>1
      <4> QED BY <4>1, <4>2
    <3>4. alerts[j].at + Slack \in Int /\ (e.at # Feed!None => e.at <= alerts[j].at + Slack)
      <4>1. alerts[j].at \in Nat /\ alerts[a + 1].at \in Nat BY <1>10, <3>1
      <4> QED BY <1>4, <2>3, <3>2, <3>3, <4>1
    <3>5. AtMost(s, alerts[j].at + Slack) BY <1>8
    <3> QED BY <1>8, <2>3, <2>6, <3>4, <3>5, PushedAtMost
  <2>11. Own(t, Keys(E, v + 1) \cup Keys(alerts, a))
    <3>1. Keys(E, v + 1) = Keys(E, v) \cup {<<e.id, e.kind>>} BY <1>8, <2>1, KeysGrow
    <3>2. Keys(E, v + 1) \cup Keys(alerts, a) = (Keys(E, v) \cup Keys(alerts, a)) \cup {<<e.id, e.kind>>}
      BY <3>1
    <3>3. ASSUME NEW i \in 1..Len(s) PROVE s[i].id # e.id
      <4>1. CASE \E k \in 1..v : s[i].id = E[k].id
        <5>1. PICK k \in 1..v : s[i].id = E[k].id BY <4>1
        <5>2. k \in 1..L /\ k # v + 1 BY <1>4, <1>8
        <5> QED BY <1>13, <2>1, <2>2, <5>1, <5>2
      <4>2. CASE \E k \in 1..a : s[i].id = alerts[k].id
        <5>1. PICK k \in 1..a : s[i].id = alerts[k].id BY <4>2
        <5>2. k \in 1..M BY <1>4, <1>8
        <5>3. alerts[k].id = <<"low-tps", alerts[k].at>> BY <1>10, <5>2
        <5>4. PICK x : e.id = <<"line", x>> BY <1>12, <2>1, <2>2
        <5> QED BY <5>1, <5>3, <5>4
      <4> QED BY <1>14, <4>1, <4>2
    <3> QED BY <1>8, <2>3, <2>6, <3>2, <3>3, PushedOwn
  <2>12. Tells(t, F[v + 1] + a)
    <3>1. F[v + 1] = F[v] + e.count
      <4>1. (v + 1) - 1 = v BY <1>8
      <4> QED BY <1>15, <2>1, <2>2, <4>1
    <3>2. F[v] + a \in Nat /\ (F[v] + a) + e.count = F[v + 1] + a BY <1>8, <1>15, <2>3, <3>1
    <3>3. Tells(t, (F[v] + a) + e.count) BY <1>8, <2>3, <2>6, <3>2, PushedTells
    <3> QED BY <3>2, <3>3
  <2>13. (v + 1) + a = n + 1 /\ (v + 1) + 1 = v + 2 /\ v + 1 \in 0..L BY <1>4, <1>8, <2>2
  <2> QED BY <1>2, <1>3, <1>8, <2>5, <2>6, <2>8, <2>9, <2>10, <2>11, <2>12, <2>13 DEF MergedSoFar
<1> QED BY <1>16, <1>17

LEMMA AllMerged ==
    ASSUME FeedInv, topic = "lines", NEW E \in Seq(FeedRows), InOrder(E), NEW K, Own(E, Said(K)),
           NEW k \in Nat, Tells(E, k), NEW s, s = Feed!mergeActivityEvents(E)
    PROVE  /\ s \in Seq(FeedRows) /\ InOrder(s)
           /\ Own(s, Said(K) \cup Keys(alerts, Len(alerts)))
           /\ Tells(s, k + Len(alerts))
<1>1. Recorded(now) BY DEF FeedInv
<1>2. Len(E) \in Nat /\ Len(alerts) \in Nat BY <1>1, LenProperties DEF Recorded
<1>3. PICK N \in Nat : N = Len(E) + Len(alerts) BY <1>2
<1>4. PICK f : /\ f[0] = Unmerged /\ \A n \in 1..N : f[n] = Feed!mergeNext(f[n - 1], E)
               /\ Feed!mergeActivityEvents(E) = f[N].rows
  BY <1>3, MergeIs
<1>5. PICK F : RunningTotal(F, E) /\ F[Len(E)] = k BY DEF Tells
<1> DEFINE Fine == {n \in 0..N : MergedSoFar(f[n], n, E, F)}
<1>6. 0 \in Fine
  <2>1. Unmerged.event = 0 /\ Unmerged.alert = 0 /\ Unmerged.rows = <<>> BY DEF Unmerged
  <2>2. <<>> \in Seq(FeedRows) BY EmptySeq
  <2>3. F[0] = 0 BY <1>2, <1>5 DEF RunningTotal
  <2>4. MergedSoFar(Unmerged, 0, E, F) BY <1>2, <2>1, <2>2, <2>3, NothingTold DEF MergedSoFar
  <2> QED BY <1>4, <2>4
<1>7. \A n \in 0..(N - 1) : n \in Fine => n + 1 \in Fine
  <2> SUFFICES ASSUME NEW n \in 0..(N - 1), n \in Fine PROVE n + 1 \in Fine OBVIOUS
  <2>1. n + 1 \in 1..N /\ (n + 1) - 1 = n /\ n + 1 \in 0..N OBVIOUS
  <2>2. MergedSoFar(Feed!mergeNext(f[n], E), n + 1, E, F) BY <1>3, <1>5, NextMerged
  <2>3. f[n + 1] = Feed!mergeNext(f[n], E) BY <1>4, <2>1
  <2> QED BY <2>1, <2>2, <2>3
<1>8. \A n \in 0..N : n \in Fine
  <2> HIDE DEF Fine
  <2> QED BY <1>6, <1>7, EveryTurn
<1>9. MergedSoFar(f[N], N, E, F) BY <1>8
<1>10. f[N].event = Len(E) /\ f[N].alert = Len(alerts)
  <2>1. /\ f[N].event \in 0..Len(E) /\ f[N].alert \in 0..Len(alerts)
        /\ f[N].event + f[N].alert = N
    BY <1>9 DEF MergedSoFar
  <2> QED BY <1>2, <1>3, <2>1
<1>11. s \in Seq(FeedRows) /\ InOrder(s) /\ Tells(s, k + Len(alerts))
       /\ Own(s, Keys(E, Len(E)) \cup Keys(alerts, Len(alerts)))
  BY <1>4, <1>5, <1>9, <1>10 DEF MergedSoFar
<1>12. Keys(E, Len(E)) \subseteq Said(K) BY DEF Keys, Own
<1>13. Own(s, Said(K) \cup Keys(alerts, Len(alerts))) BY <1>11, <1>12, OwnMore
<1> QED BY <1>11, <1>13

LEMMA FeedCounts == \A S : Feed!Cardinality(S) = Cardinality(S)
BY DEF Feed!Cardinality, Cardinality

LEMMA FeedShows == FeedInv => Feed!FeedIsTrue
<1> SUFFICES ASSUME FeedInv, topic = "lines",
                    \A i \in DOMAIN lines : /\ readAt - lines[i].real < Day - Slack
                                            /\ ~Feed!AheadOfMidnight(lines[i])
             PROVE  Feed!FeedIsTrue
  BY Zenon DEF Feed!FeedIsTrue
<1>1. now \in Nat /\ Recorded(now) BY DEF FeedInv
<1>2. PICK N \in Nat : N = Len(lines) BY <1>1, LenProperties DEF Recorded
<1>3. lines \in Seq(Printed) /\ DOMAIN lines = 1..N /\ \A i \in 1..N : lines[i] \in Printed
  BY <1>1, <1>2, LenProperties, ElementOfSeq DEF Recorded
<1>4. Dated
  <2> SUFFICES ASSUME NEW i \in 1..N, Feed!hasStamp(lines[i])
               PROVE  Feed!resolveLogTimestamp(lines[i].stamp)
                        \in lines[i].real..(lines[i].real + Slack)
    BY <1>2 DEF Dated
  <2>1. PICK r : r = lines[i].real OBVIOUS
  <2>2. PICK stamp : stamp = lines[i].stamp OBVIOUS
  <2>3. stamp # Feed!None BY <2>2 DEF Feed!hasStamp
  <2>4. r \in Nat BY <1>3, <2>1 DEF Printed
  <2>5. r <= readAt /\ readAt \in Nat /\ stamp \in {r % Day, (r + Slack) % Day} BY <1>1, <1>2, <2>1, <2>2, <2>3 DEF Recorded
  <2>6. readAt - r < Day - Slack BY <1>3, <2>1
  <2>7. ~(stamp < r % Day /\ readAt \div Day = r \div Day)
    BY <1>3, <2>1, <2>2, <2>3 DEF Feed!AheadOfMidnight
  <2>8. Feed!resolveLogTimestamp(stamp) \in r..(r + Slack) BY <1>1, <2>4, <2>5, <2>6, <2>7, StampDated
  <2> QED BY <2>1, <2>2, <2>8
<1>5. PICK E : E = Feed!buildConsoleActivity OBVIOUS
<1>6. PICK feed : feed = Feed!Feed OBVIOUS
<1>7. feed = Feed!mergeActivityEvents(E) BY <1>5, <1>6 DEF Feed!Feed
<1>8. /\ E \in Seq(FeedRows) /\ InOrder(E) /\ Own(E, Said(N)) /\ Tells(E, Cardinality(Shown(N)))
  BY <1>2, <1>4, <1>5, ConsoleTold
<1>9. Cardinality(Shown(N)) \in Nat
  <2>1. IsFiniteSet(1..N) BY <1>2, FS_Interval
  <2>2. Shown(N) \in SUBSET (1..N) BY DEF Shown
  <2> QED BY <2>1, <2>2, FS_Subset, FS_CardinalityType
<1>10. /\ feed \in Seq(FeedRows) /\ InOrder(feed)
       /\ Own(feed, Said(N) \cup Keys(alerts, Len(alerts)))
       /\ Tells(feed, Cardinality(Shown(N)) + Len(alerts))
  BY <1>7, <1>8, <1>9, AllMerged
<1>11. DOMAIN feed = 1..Len(feed) BY <1>10, LenProperties
<1>12. Feed!told(feed) = Feed!Cardinality({i \in DOMAIN lines : Feed!parseConsoleLine(lines[i]) # "other"})
                         + Len(alerts)
  <2>1. {i \in DOMAIN lines : Feed!parseConsoleLine(lines[i]) # "other"} = Shown(N)
    BY <1>3 DEF Shown, KindOf
  <2>2. Feed!told(feed) = Cardinality(Shown(N)) + Len(alerts) BY <1>10, ToldIs
  <2> QED BY <2>1, <2>2, FeedCounts
<1>13. \A i, j \in DOMAIN feed : feed[i].id = feed[j].id => i = j BY <1>10, <1>11 DEF Own
<1>14. \A i, j \in DOMAIN feed :
          i < j /\ feed[i].at # Feed!None /\ feed[j].at # Feed!None => feed[i].at <= feed[j].at + Slack
  BY <1>10, <1>11 DEF InOrder
<1>15. ASSUME NEW i \in DOMAIN feed
       PROVE  feed[i].kind = "chat" <=> feed[i].id[1] = "line" /\ lines[feed[i].id[2]].chat
  <2>1. <<feed[i].id, feed[i].kind>> \in Said(N) \cup Keys(alerts, Len(alerts))
    BY <1>10, <1>11 DEF Own
  <2>2. CASE <<feed[i].id, feed[i].kind>> \in Said(N)
    <3>1. PICK k \in Shown(N) : <<feed[i].id, feed[i].kind>> = <<<<"line", k>>, KindOf(k)>>
      BY <2>2 DEF Said, KeyOf
    <3>2. feed[i].id = <<"line", k>> /\ feed[i].kind = KindOf(k) BY <3>1
    <3>3. k \in 1..N /\ KindOf(k) # "other" BY DEF Shown
    <3>4. KindOf(k) = "chat" <=> lines[k].chat BY <1>3, <3>3, KindIs
    <3>5. feed[i].id[1] = "line" /\ feed[i].id[2] = k BY <3>2
    <3> QED BY <3>2, <3>4, <3>5
  <2>3. CASE <<feed[i].id, feed[i].kind>> \in Keys(alerts, Len(alerts))
    <3>1. PICK k \in 1..Len(alerts) : <<feed[i].id, feed[i].kind>> = <<alerts[k].id, alerts[k].kind>>
      BY <2>3 DEF Keys
    <3>2. alerts[k].kind = "low-tps" /\ alerts[k].id = <<"low-tps", alerts[k].at>>
      BY <1>1 DEF Recorded
    <3>3. feed[i].kind = "low-tps" /\ feed[i].id = <<"low-tps", alerts[k].at>> BY <3>1, <3>2
    <3> QED BY <3>3
  <2> QED BY <2>1, <2>2, <2>3
<1>16. \A i \in DOMAIN lines : Feed!hasStamp(lines[i]) =>
          Feed!resolveLogTimestamp(lines[i].stamp) \in lines[i].real..(lines[i].real + Slack)
  BY <1>2, <1>3, <1>4 DEF Dated
<1> QED BY <1>6, <1>12, <1>13, <1>14, <1>15, <1>16 DEF Feed!FeedIsTrue

\* For any clock, slack and number of lines and alerts: the feed tells every recognised
\* line and alert once, in order, at its time (console-events.ts).
THEOREM PanelsFeedTellsWhatHappened == Spec => []FeedTellsWhatHappened
<1>1. FeedInv => FeedTellsWhatHappened BY FeedShows DEF FeedTellsWhatHappened
<1> QED BY FeedStarts, FeedSteps, <1>1, PTL DEF Spec, AllVars
--------------------------------------------------------------------------------
(* The preferences: the order of the dashboard's cards, and what is stored.      *)

LEMMA PrefsCounts == \A S : Prefs!Cardinality(S) = Cardinality(S)
BY DEF Prefs!Cardinality, Cardinality

\* The members of S up to n, counted: each number has its own count.
UpTo(S, n) == {m \in S : m <= n}

LEMMA CountsTellApart ==
    ASSUME NEW S \in SUBSET Nat, IsFiniteSet(S), NEW n \in S
    PROVE  /\ Cardinality(UpTo(S, n)) \in 1..Cardinality(S)
           /\ \A m \in S : Cardinality(UpTo(S, m)) = Cardinality(UpTo(S, n)) => m = n
<1>1. \A m : UpTo(S, m) \in SUBSET S BY DEF UpTo
<1>2. \A m : IsFiniteSet(UpTo(S, m)) /\ Cardinality(UpTo(S, m)) \in Nat
             /\ Cardinality(UpTo(S, m)) <= Cardinality(S)
  BY <1>1, FS_Subset, FS_CardinalityType
<1>3. Cardinality(S) \in Nat BY FS_CardinalityType
<1>4. n \in UpTo(S, n) BY DEF UpTo
<1>5. Cardinality(UpTo(S, n)) # 0 BY <1>2, <1>4, FS_EmptySet
<1>6. ASSUME NEW a \in S, NEW b \in S, a < b,
             Cardinality(UpTo(S, a)) = Cardinality(UpTo(S, b))
      PROVE  FALSE
  <2>1. UpTo(S, a) \in SUBSET UpTo(S, b)
    <3>1. \A m \in S : m <= a => m <= b BY <1>6
    <3> QED BY <3>1 DEF UpTo
  <2>2. b \in UpTo(S, b) /\ b \notin UpTo(S, a) BY <1>6 DEF UpTo
  <2>3. UpTo(S, b) = UpTo(S, a) BY <1>2, <1>6, <2>1, FS_Subset
  <2> QED BY <2>2, <2>3
<1>7. ASSUME NEW m \in S, Cardinality(UpTo(S, m)) = Cardinality(UpTo(S, n)) PROVE m = n
  <2>1. ~(m < n) /\ ~(n < m) BY <1>6, <1>7
  <2> QED BY <2>1
<1> QED BY <1>2, <1>3, <1>5, <1>7

LEMMA NthIsThere ==
    ASSUME NEW S \in SUBSET Nat, IsFiniteSet(S), NEW k \in 1..Cardinality(S)
    PROVE  Prefs!nth(S, k) \in S /\ Cardinality(UpTo(S, Prefs!nth(S, k))) = k
<1> DEFINE rank == [n \in S |-> Cardinality(UpTo(S, n))]
           N == Cardinality(S)
<1>1. N \in Nat BY FS_CardinalityType
<1>2. rank \in [S -> 1..N] BY CountsTellApart
<1>3. \A m, n \in S : rank[m] = rank[n] => m = n BY CountsTellApart
<1>4. rank \in Injection(S, 1..N) BY <1>2, <1>3 DEF Injection, IsInjective
<1>5. IsFiniteSet(1..N) /\ Cardinality(1..N) = N BY <1>1, FS_Interval
<1>6. rank \in Surjection(S, 1..N) BY <1>4, <1>5, FS_Injection
<1>7. PICK n \in S : rank[n] = k BY <1>6 DEF Surjection
<1>8. \E m \in S : Cardinality(UpTo(S, m)) = k BY <1>7
<1>9. Prefs!nth(S, k) = CHOOSE m \in S : Cardinality(UpTo(S, m)) = k
  BY PrefsCounts DEF Prefs!nth, UpTo
<1> QED BY <1>8, <1>9

LEMMA NthTakesAll ==
    ASSUME NEW S \in SUBSET Nat, IsFiniteSet(S), NEW n \in S
    PROVE  \E k \in 1..Cardinality(S) : Prefs!nth(S, k) = n
<1> DEFINE k == Cardinality(UpTo(S, n))
<1>1. k \in 1..Cardinality(S) BY CountsTellApart
<1>2. Prefs!nth(S, k) \in S /\ Cardinality(UpTo(S, Prefs!nth(S, k))) = k BY <1>1, NthIsThere
<1>3. \A m \in S : Cardinality(UpTo(S, m)) = k => m = n BY CountsTellApart
<1> HIDE DEF k
<1>4. Prefs!nth(S, k) = n BY <1>2, <1>3
<1> QED BY <1>1, <1>4

LEMMA PickSelects ==
    ASSUME NEW X, NEW s \in Seq(X), NEW I \in SUBSET DOMAIN s
    PROVE  /\ Prefs!pick(s, I) \in Seq(X)
           /\ \A k \in DOMAIN Prefs!pick(s, I) : \E i \in I : Prefs!pick(s, I)[k] = s[i]
           /\ \A i \in I : \E k \in DOMAIN Prefs!pick(s, I) : Prefs!pick(s, I)[k] = s[i]
           /\ (\A i, j \in I : s[i] = s[j] => i = j) =>
                 \A k, l \in DOMAIN Prefs!pick(s, I) :
                     Prefs!pick(s, I)[k] = Prefs!pick(s, I)[l] => k = l
<1> DEFINE N == Cardinality(I)
<1>1. DOMAIN s = 1..Len(s) /\ Len(s) \in Nat /\ \A i \in DOMAIN s : s[i] \in X
  BY LenProperties, ElementOfSeq
<1>2. IsFiniteSet(DOMAIN s) BY <1>1, FS_Interval
<1>3. IsFiniteSet(I) /\ N \in Nat /\ I \in SUBSET Nat
  BY <1>1, <1>2, FS_Subset, FS_CardinalityType
<1>4. \A k \in 1..N : Prefs!nth(I, k) \in I /\ Cardinality(UpTo(I, Prefs!nth(I, k))) = k
  BY <1>3, NthIsThere
<1>5. \A i \in I : \E k \in 1..N : Prefs!nth(I, k) = i BY <1>3, NthTakesAll
<1>6. Prefs!pick(s, I) = [k \in 1..N |-> s[Prefs!nth(I, k)]] BY PrefsCounts DEF Prefs!pick
<1>7. Prefs!pick(s, I) \in [1..N -> X] BY <1>1, <1>4, <1>6
<1>8. Prefs!pick(s, I) \in Seq(X) BY <1>3, <1>7
<1>9. \A k, l \in 1..N : Prefs!nth(I, k) = Prefs!nth(I, l) => k = l BY <1>4
<1> HIDE DEF N
<1> QED BY <1>4, <1>5, <1>6, <1>8, <1>9

LEMMA NthGrows ==
    ASSUME NEW S \in SUBSET Nat, IsFiniteSet(S), NEW k \in 1..Cardinality(S), NEW l \in 1..Cardinality(S)
    PROVE  k < l <=> Prefs!nth(S, k) < Prefs!nth(S, l)
<1>1. ASSUME NEW a \in 1..Cardinality(S), NEW b \in 1..Cardinality(S), a < b
      PROVE  Prefs!nth(S, a) < Prefs!nth(S, b)
  <2>1. PICK x : x = Prefs!nth(S, a) OBVIOUS
  <2>2. PICK y : y = Prefs!nth(S, b) OBVIOUS
  <2>3. x \in S /\ Cardinality(UpTo(S, x)) = a /\ y \in S /\ Cardinality(UpTo(S, y)) = b
    BY <2>1, <2>2, NthIsThere
  <2>4. ASSUME y <= x PROVE FALSE
    <3>1. UpTo(S, y) \in SUBSET UpTo(S, x)
      <4>1. \A m \in S : m <= y => m <= x BY <2>3, <2>4
      <4> QED BY <4>1 DEF UpTo
    <3>2. IsFiniteSet(UpTo(S, x))
      <4>1. UpTo(S, x) \in SUBSET S BY DEF UpTo
      <4> QED BY <4>1, FS_Subset
    <3>3. b <= a BY <2>3, <3>1, <3>2, FS_Subset
    <3>4. Cardinality(S) \in Nat BY FS_CardinalityType
    <3> QED BY <1>1, <3>3, <3>4
  <2>5. x \in Nat /\ y \in Nat BY <2>3
  <2> QED BY <2>1, <2>2, <2>4, <2>5
<1>2. Cardinality(S) \in Nat BY FS_CardinalityType
<1>3. Prefs!nth(S, k) \in Nat /\ Prefs!nth(S, l) \in Nat BY NthIsThere
<1>4. k < l => Prefs!nth(S, k) < Prefs!nth(S, l) BY <1>1
<1>5. l < k => Prefs!nth(S, l) < Prefs!nth(S, k) BY <1>1
<1>6. k = l => Prefs!nth(S, k) = Prefs!nth(S, l) OBVIOUS
<1> QED BY <1>2, <1>3, <1>4, <1>5, <1>6

LEMMA PickAll ==
    ASSUME NEW X, NEW s \in Seq(X)
    PROVE  Prefs!pick(s, DOMAIN s) = s
<1>1. DOMAIN s = 1..Len(s) /\ Len(s) \in Nat /\ s \in [1..Len(s) -> X] BY LenProperties
<1>2. PICK N : N = Len(s) OBVIOUS
<1>3. IsFiniteSet(1..N) /\ Cardinality(1..N) = N
  <2>1. N \in Nat BY <1>1, <1>2
  <2> QED BY <2>1, FS_Interval
<1>4. ASSUME NEW k \in 1..N PROVE Prefs!nth(1..N, k) = k
  <2>1. UpTo(1..N, k) = 1..k BY <1>1, <1>2 DEF UpTo
  <2>2. Cardinality(UpTo(1..N, k)) = k BY <1>1, <1>2, <2>1, FS_Interval
  <2>3. 1..N \in SUBSET Nat /\ k \in 1..Cardinality(1..N) BY <1>1, <1>2, <1>3
  <2>4. Prefs!nth(1..N, k) \in 1..N /\ Cardinality(UpTo(1..N, Prefs!nth(1..N, k))) = k
    BY <1>3, <2>3, NthIsThere
  <2>5. \A m \in 1..N : Cardinality(UpTo(1..N, m)) = Cardinality(UpTo(1..N, k)) => m = k
    BY <1>3, <2>3, CountsTellApart
  <2> QED BY <2>2, <2>4, <2>5
<1>5. Prefs!pick(s, DOMAIN s) = [k \in 1..N |-> s[Prefs!nth(1..N, k)]]
  BY <1>1, <1>2, <1>3, PrefsCounts DEF Prefs!pick
<1>6. \A k \in 1..N : s[Prefs!nth(1..N, k)] = s[k] BY <1>4
<1>7. Prefs!pick(s, DOMAIN s) = [k \in 1..N |-> s[k]] BY <1>5, <1>6
<1> QED BY <1>1, <1>2, <1>7

LEMMA PickNone == \A s : Prefs!pick(s, {}) = <<>>
<1>1. Cardinality({}) = 0 BY FS_EmptySet
<1>2. 1..0 = {} OBVIOUS
<1>3. ASSUME NEW s PROVE Prefs!pick(s, {}) = <<>>
  <2>1. Prefs!pick(s, {}) = [k \in {} |-> s[Prefs!nth({}, k)]]
    BY <1>1, <1>2, PrefsCounts DEF Prefs!pick
  <2> QED BY <2>1
<1> QED BY <1>3

\* Every card once, and nothing else.
CardsOnce(c) ==
    /\ c \in Seq(Prefs!Cards)
    /\ \A i, j \in DOMAIN c : c[i] = c[j] => i = j
    /\ \A x \in Prefs!Cards : \E i \in DOMAIN c : c[i] = x

LEMMA FirstOrder == CardsOnce(DASHBOARD_CARD_IDS) /\ Prefs!Cards = {"servers", "storage", "activity"}
<1>1. DASHBOARD_CARD_IDS = <<"servers", "storage", "activity">> BY DEF DASHBOARD_CARD_IDS
<1>2. Prefs!Cards = {"servers", "storage", "activity"} BY <1>1 DEF Prefs!Cards, Prefs!ToSet
<1> QED BY <1>1, <1>2 DEF CardsOnce

LEMMA AsManyCards ==
    ASSUME NEW c, CardsOnce(c)
    PROVE  /\ Len(c) = Cardinality(Prefs!Cards) /\ IsFiniteSet(Prefs!Cards)
           /\ Prefs!ToSet(c) = Prefs!Cards
<1>1. DOMAIN c = 1..Len(c) /\ Len(c) \in Nat /\ c \in [1..Len(c) -> Prefs!Cards]
  BY LenProperties DEF CardsOnce
<1>2. c \in Bijection(1..Len(c), Prefs!Cards)
  BY <1>1 DEF CardsOnce, Bijection, Injection, Surjection, IsInjective
<1>3. ExistsBijection(1..Len(c), Prefs!Cards) BY <1>2 DEF ExistsBijection
<1>4. IsFiniteSet(1..Len(c)) /\ Cardinality(1..Len(c)) = Len(c)
  <2>1. PICK n : n = Len(c) OBVIOUS
  <2>2. n \in Nat BY <1>1, <2>1
  <2>3. IsFiniteSet(1..n) /\ Cardinality(1..n) = n BY <2>2, FS_Interval
  <2> QED BY <2>1, <2>3
<1>5. IsFiniteSet(Prefs!Cards) /\ Cardinality(Prefs!Cards) = Len(c) BY <1>3, <1>4, FS_Bijection
<1>6. Prefs!ToSet(c) = Prefs!Cards BY <1>1 DEF CardsOnce, Prefs!ToSet
<1> QED BY <1>5, <1>6

\* Whatever was stored, each card is there once; an order of all the cards stays as it is.
LEMMA NormalizedOnce ==
    ASSUME NEW X, NEW s \in Seq(X)
    PROVE  CardsOnce(Prefs!normalizeDashboardCardOrder(s))
<1> DEFINE I == {i \in DOMAIN s : s[i] \in Prefs!Cards /\ \A j \in 1..(i - 1) : s[j] # s[i]}
           once == Prefs!pick(s, I)
           ids == DASHBOARD_CARD_IDS
           J == {i \in DOMAIN ids : ids[i] \notin Prefs!ToSet(once)}
           rest == Prefs!pick(ids, J)
           all == once \o rest
<1>1. Prefs!normalizeDashboardCardOrder(s) = all
  BY DEF Prefs!normalizeDashboardCardOrder, Prefs!Without
<1>2. DOMAIN s = 1..Len(s) /\ Len(s) \in Nat BY LenProperties
<1>3. \A i, j \in I : s[i] = s[j] => i = j
  <2> SUFFICES ASSUME NEW i \in I, NEW j \in I, s[i] = s[j], i < j PROVE FALSE
    BY <1>2
  <2>1. i \in 1..(j - 1) BY <1>2
  <2> QED BY <2>1
<1>4. /\ once \in Seq(X)
      /\ \A k \in DOMAIN once : \E i \in I : once[k] = s[i]
      /\ \A k, l \in DOMAIN once : once[k] = once[l] => k = l
  <2>1. I \in SUBSET DOMAIN s OBVIOUS
  <2> HIDE DEF I
  <2> QED BY <1>3, <2>1, PickSelects
<1>5. \A k \in DOMAIN once : once[k] \in Prefs!Cards BY <1>4
<1>6. /\ rest \in Seq(Prefs!Cards)
      /\ \A k \in DOMAIN rest : \E i \in J : rest[k] = ids[i]
      /\ \A i \in J : \E k \in DOMAIN rest : rest[k] = ids[i]
      /\ \A k, l \in DOMAIN rest : rest[k] = rest[l] => k = l
  <2>1. J \in SUBSET DOMAIN ids OBVIOUS
  <2>2. ids \in Seq(Prefs!Cards) /\ \A i, j \in J : ids[i] = ids[j] => i = j
    BY FirstOrder DEF CardsOnce
  <2> HIDE DEF J, ids
  <2> QED BY <2>1, <2>2, PickSelects
<1>7. \A k \in DOMAIN rest : rest[k] \notin Prefs!ToSet(once) BY <1>6
<1>8. \A x \in Prefs!Cards : x \in Prefs!ToSet(once) \/ \E k \in DOMAIN rest : rest[k] = x
  <2>1. \A x \in Prefs!Cards : \E i \in DOMAIN ids : ids[i] = x BY FirstOrder DEF CardsOnce
  <2> QED BY <1>6, <2>1
<1> HIDE DEF once, rest
<1>9. once \in Seq(Prefs!Cards)
  <2>1. DOMAIN once = 1..Len(once) /\ Len(once) \in Nat /\ once \in [1..Len(once) -> X]
    BY <1>4, LenProperties
  <2>2. once \in [1..Len(once) -> Prefs!Cards] BY <1>5, <2>1
  <2> QED BY <2>1, <2>2
<1>10. /\ all \in Seq(Prefs!Cards) /\ Len(all) = Len(once) + Len(rest)
       /\ \A i \in 1..(Len(once) + Len(rest)) :
             all[i] = IF i <= Len(once) THEN once[i] ELSE rest[i - Len(once)]
  BY <1>6, <1>9, ConcatProperties
<1>11. PICK m : m = Len(once) OBVIOUS
<1>12. PICK n : n = Len(rest) OBVIOUS
<1>13. m \in Nat /\ n \in Nat /\ DOMAIN once = 1..m /\ DOMAIN rest = 1..n /\ DOMAIN all = 1..(m + n)
  BY <1>6, <1>9, <1>10, <1>11, <1>12, LenProperties
<1>14. \A i \in 1..(m + n) : all[i] = IF i <= m THEN once[i] ELSE rest[i - m]
  BY <1>10, <1>11, <1>12
<1> HIDE DEF all
<1>15. ASSUME NEW i \in 1..(m + n), NEW j \in 1..(m + n), all[i] = all[j] PROVE i = j
  <2>1. CASE i <= m /\ j <= m
    <3>1. i \in 1..m /\ j \in 1..m BY <1>13, <2>1
    <3>2. once[i] = once[j] BY <1>14, <1>15, <2>1
    <3> QED BY <1>4, <1>13, <3>1, <3>2
  <2>2. CASE ~(i <= m) /\ ~(j <= m)
    <3>1. i - m \in 1..n /\ j - m \in 1..n BY <1>13, <2>2
    <3>2. rest[i - m] = rest[j - m] BY <1>14, <1>15, <2>2
    <3>3. i - m = j - m BY <1>6, <1>13, <3>1, <3>2
    <3> QED BY <1>13, <3>3
  <2>3. ASSUME NEW a \in 1..(m + n), NEW b \in 1..(m + n), a <= m, ~(b <= m), all[a] = all[b] PROVE FALSE
    <3>1. a \in 1..m /\ b - m \in 1..n BY <1>13, <2>3
    <3>2. once[a] = rest[b - m] BY <1>14, <2>3
    <3>3. once[a] \in Prefs!ToSet(once) BY <1>13, <3>1 DEF Prefs!ToSet
    <3> QED BY <1>7, <1>13, <3>1, <3>2, <3>3
  <2> QED BY <1>13, <1>15, <2>1, <2>2, <2>3
<1>16. ASSUME NEW x \in Prefs!Cards PROVE \E i \in 1..(m + n) : all[i] = x
  <2>1. CASE x \in Prefs!ToSet(once)
    <3>1. PICK k \in 1..m : once[k] = x BY <1>13, <2>1 DEF Prefs!ToSet
    <3>2. k \in 1..(m + n) /\ k <= m BY <1>13
    <3> QED BY <1>14, <3>1, <3>2
  <2>2. CASE x \notin Prefs!ToSet(once)
    <3>1. PICK k \in 1..n : rest[k] = x BY <1>8, <1>13, <2>2
    <3>2. m + k \in 1..(m + n) /\ ~(m + k <= m) /\ (m + k) - m = k BY <1>13
    <3> QED BY <1>14, <3>1, <3>2
  <2> QED BY <2>1, <2>2
<1> QED BY <1>1, <1>10, <1>13, <1>15, <1>16 DEF CardsOnce

LEMMA NormalizedStays ==
    ASSUME NEW c, CardsOnce(c)
    PROVE  Prefs!normalizeDashboardCardOrder(c) = c
<1>1. c \in Seq(Prefs!Cards) BY DEF CardsOnce
<1>2. DOMAIN c = 1..Len(c) /\ Len(c) \in Nat /\ \A i \in DOMAIN c : c[i] \in Prefs!Cards
  BY <1>1, LenProperties, ElementOfSeq
<1>3. {i \in DOMAIN c : c[i] \in Prefs!Cards /\ \A j \in 1..(i - 1) : c[j] # c[i]} = DOMAIN c
  <2> SUFFICES ASSUME NEW i \in DOMAIN c, NEW j \in 1..(i - 1) PROVE c[j] # c[i]
    BY <1>2
  <2>1. j \in DOMAIN c /\ j # i BY <1>2
  <2> QED BY <2>1 DEF CardsOnce
<1>4. Prefs!pick(c, DOMAIN c) = c BY <1>1, PickAll
<1>5. {i \in DOMAIN DASHBOARD_CARD_IDS : DASHBOARD_CARD_IDS[i] \notin Prefs!ToSet(c)} = {}
  <2>1. Prefs!ToSet(c) = Prefs!Cards BY AsManyCards
  <2>2. \A i \in DOMAIN DASHBOARD_CARD_IDS : DASHBOARD_CARD_IDS[i] \in Prefs!Cards
    BY FirstOrder, LenProperties, ElementOfSeq DEF CardsOnce
  <2> QED BY <2>1, <2>2
<1>6. c \o <<>> = c BY <1>1, ConcatEmptySeq
<1> QED BY <1>3, <1>4, <1>5, <1>6, PickNone DEF Prefs!normalizeDashboardCardOrder, Prefs!Without

\* What is stored, by any version, and what the program keeps of it.
Words == {"blank", "absent", "java", "jdk", "d:/mc", "home/servers", "follow", "hidden", "shown",
          "standard", "beginner", "advanced", "expert", "none", "gone", "servers", "storage", "activity"}
Drafts == [level : Words, java : Words, root : Words, cards : Seq(Words), hidden : SUBSET Words,
           toured : BOOLEAN, stats : Words, ports : SUBSET Nat]
Users == {u \in Drafts : /\ u.level \in Prefs!Levels /\ u.java \notin {"absent", "java"}
                         /\ CardsOnce(u.cards) /\ u.hidden \subseteq Prefs!Cards
                         /\ u.ports \subseteq 1..Prefs!LastPort}

PrefInv ==
    /\ user \in Drafts /\ stored \in Drafts /\ kept \subseteq Prefs!Levels
    /\ isReady => user \in Users /\ stored = user /\ user.level \in kept
    /\ tour \in [slide : Nat, choice : Words] /\ tour.choice \in kept \cup {"none"}
    /\ ~isReady => tour.choice = "none"
    /\ rootField \in [text : Words, default : Words, asked : BOOLEAN]

LEMMA LevelsAre == Prefs!Levels = {"beginner", "standard", "advanced"}
BY DEF Prefs!Levels, Prefs!EXPERIENCE_LEVELS, Prefs!ToSet

LEMMA CardsAreWords ==
    /\ Prefs!Cards \subseteq Words
    /\ \A c : CardsOnce(c) => c \in Seq(Words)
<1>1. Prefs!Cards \subseteq Words BY FirstOrder DEF Words
<1>2. ASSUME NEW c, CardsOnce(c) PROVE c \in Seq(Words)
  BY <1>1, <1>2, SeqMonotonic DEF CardsOnce
<1> QED BY <1>1, <1>2

LEMMA DefaultIsUser == Prefs!createDefaultUserData \in Users /\ Prefs!createDefaultUserData.level = "standard"
<1>1. Prefs!createDefaultUserData =
          [level |-> "standard", java |-> "blank", root |-> "blank", cards |-> DASHBOARD_CARD_IDS,
           hidden |-> {}, toured |-> FALSE, stats |-> "follow", ports |-> {}]
  BY DEF Prefs!createDefaultUserData
<1>2. DASHBOARD_CARD_IDS \in Seq(Words) BY FirstOrder, CardsAreWords
<1>3. "standard" \in Words /\ "blank" \in Words /\ "follow" \in Words BY DEF Words
<1>4. Prefs!createDefaultUserData \in Drafts BY <1>1, <1>2, <1>3 DEF Drafts
<1> QED BY <1>1, <1>4, FirstOrder, LevelsAre DEF Users

\* The known part of what was stored is kept, and once kept it stays.
LEMMA NormalizedIsUser ==
    ASSUME NEW u \in Drafts
    PROVE  LET n == Prefs!normalizeUserData(u)
           IN  /\ n \in Users /\ n.level = (IF u.level \in Prefs!Levels THEN u.level ELSE "standard")
               /\ n.cards = Prefs!normalizeDashboardCardOrder(u.cards)
               /\ n.hidden = u.hidden \cap Prefs!Cards
<1> DEFINE n == Prefs!normalizeUserData(u)
           level == IF u.level \in Prefs!Levels THEN u.level ELSE "standard"
           java == IF u.java \in {"absent", "java"} THEN "blank" ELSE u.java
           cards == Prefs!normalizeDashboardCardOrder(u.cards)
           hid == u.hidden \cap Prefs!Cards
           ports == u.ports \cap 1..Prefs!LastPort
<1>1. n = [level |-> level, java |-> java, root |-> u.root, cards |-> cards, hidden |-> hid,
           toured |-> u.toured, stats |-> u.stats, ports |-> ports]
  BY DEF Prefs!normalizeUserData
<1>2. u.level \in Words /\ u.java \in Words /\ u.root \in Words /\ u.cards \in Seq(Words)
      /\ u.hidden \subseteq Words /\ u.toured \in BOOLEAN /\ u.stats \in Words /\ u.ports \subseteq Nat
  BY DEF Drafts
<1>3. level \in Words /\ level \in Prefs!Levels BY <1>2, LevelsAre DEF Words
<1>4. java \in Words /\ java \notin {"absent", "java"} BY <1>2 DEF Words
<1>5. CardsOnce(cards) /\ cards \in Seq(Words) BY <1>2, NormalizedOnce, CardsAreWords
<1>6. hid \subseteq Words /\ hid \subseteq Prefs!Cards
  <2>1. u.hidden \subseteq Words BY <1>2
  <2> QED BY <2>1
<1>7. ports \subseteq Nat /\ ports \subseteq 1..Prefs!LastPort BY <1>2
<1> HIDE DEF n, level, java, cards, hid, ports
<1>8. n \in Drafts BY <1>1, <1>2, <1>3, <1>4, <1>5, <1>6, <1>7 DEF Drafts
<1>9. n.level = level /\ n.java = java /\ n.cards = cards /\ n.hidden = hid /\ n.ports = ports
  BY <1>1
<1>10. n \in Users BY <1>3, <1>4, <1>5, <1>6, <1>7, <1>8, <1>9 DEF Users
<1> QED BY <1>9, <1>10 DEF n, level, cards, hid

LEMMA UserStays == ASSUME NEW u \in Users PROVE Prefs!normalizeUserData(u) = u
<1>1. u = [level |-> u.level, java |-> u.java, root |-> u.root, cards |-> u.cards,
           hidden |-> u.hidden, toured |-> u.toured, stats |-> u.stats, ports |-> u.ports]
  BY DEF Users, Drafts
<1>2. u.level \in Prefs!Levels /\ u.java \notin {"absent", "java"} /\ CardsOnce(u.cards)
      /\ u.hidden \subseteq Prefs!Cards /\ u.ports \subseteq 1..Prefs!LastPort
  BY DEF Users
<1>3. Prefs!normalizeDashboardCardOrder(u.cards) = u.cards BY <1>2, NormalizedStays
<1>4. u.ports \cap 1..Prefs!LastPort = u.ports /\ u.hidden \cap Prefs!Cards = u.hidden BY <1>2
<1>5. Prefs!normalizeUserData(u) =
          [level |-> u.level, java |-> u.java, root |-> u.root, cards |-> u.cards,
           hidden |-> u.hidden, toured |-> u.toured, stats |-> u.stats, ports |-> u.ports]
  BY <1>2, <1>3, <1>4 DEF Prefs!normalizeUserData
<1> QED BY <1>1, <1>5

LEMMA PrefsStart == Init => PrefInv
<1> SUFFICES ASSUME Init PROVE PrefInv
  OBVIOUS
<1>0. Prefs!PrefInit BY DEF Init
<1>1. /\ user = Prefs!createDefaultUserData /\ isReady = FALSE /\ kept = {}
      /\ tour = [slide |-> 1, choice |-> "none"]
      /\ rootField = [text |-> "blank", default |-> "blank", asked |-> FALSE]
  BY <1>0, Zenon DEF Prefs!PrefInit, Prefs!NewTour
<1>2. "none" \in Words /\ "blank" \in Words BY DEF Words
<1>3. user \in Drafts BY <1>1, DefaultIsUser DEF Users
<1>4. stored \in Drafts
  <2>1. \/ stored = Prefs!createDefaultUserData
        \/ \E l \in {"absent", "expert", "advanced"}, j \in {"absent", "java"}, c \in OldCards,
              h \in {{}, {"gone", DASHBOARD_CARD_IDS[1]}} :
              stored = [Prefs!createDefaultUserData EXCEPT !.level = l, !.java = j, !.cards = c,
                                                           !.hidden = h, !.toured = TRUE]
    BY <1>0, Zenon DEF Prefs!PrefInit
  <2>2. ASSUME NEW l \in {"absent", "expert", "advanced"}, NEW j \in {"absent", "java"},
               NEW c \in OldCards, NEW h \in {{}, {"gone", DASHBOARD_CARD_IDS[1]}},
               stored = [Prefs!createDefaultUserData EXCEPT !.level = l, !.java = j, !.cards = c,
                                                            !.hidden = h, !.toured = TRUE]
        PROVE  stored \in Drafts
    <3>2. stored = [level |-> l, java |-> j, root |-> "blank", cards |-> c,
                    hidden |-> h, toured |-> TRUE, stats |-> "follow", ports |-> {}]
      BY <2>2 DEF Prefs!createDefaultUserData
    <3>3. DASHBOARD_CARD_IDS[1] = "servers" BY DEF DASHBOARD_CARD_IDS
    <3>4. l \in Words /\ j \in Words /\ "blank" \in Words /\ "follow" \in Words /\ h \in SUBSET Words
      BY <3>3 DEF Words
    <3>5. c \in Seq(Words)
      <4>1. c = <<"activity", "gone", "activity", "servers">> BY DEF OldCards
      <4>2. "activity" \in Words /\ "gone" \in Words /\ "servers" \in Words BY DEF Words
      <4> QED BY <4>1, <4>2
    <3> QED BY <3>2, <3>4, <3>5 DEF Drafts
  <2>3. stored = Prefs!createDefaultUserData => stored \in Drafts BY DefaultIsUser DEF Users
  <2> QED BY <2>1, <2>2, <2>3, Zenon
<1> QED BY <1>1, <1>2, <1>3, <1>4 DEF PrefInv

\* What an action saves is normal, and its own.
LEMMA UserSaved ==
    ASSUME PrefInv, NEW d \in Drafts, Prefs!updateUser(d)
    PROVE  LET n == Prefs!normalizeUserData(d)
           IN  /\ isReady /\ user' = n /\ stored' = n /\ n \in Users /\ n \in Drafts
               /\ n.level = (IF d.level \in Prefs!Levels THEN d.level ELSE "standard")
               /\ user \in Users /\ user \in Drafts /\ user.level \in kept /\ user.level \in Prefs!Levels
<1>1. isReady /\ user' = Prefs!normalizeUserData(d) /\ stored' = user'
  BY DEF Prefs!updateUser
<1>2. Prefs!normalizeUserData(d) \in Users
      /\ Prefs!normalizeUserData(d).level = (IF d.level \in Prefs!Levels THEN d.level ELSE "standard")
  BY NormalizedIsUser
<1>3. user \in Users /\ user.level \in kept BY <1>1 DEF PrefInv
<1> QED BY <1>1, <1>2, <1>3 DEF Users

\* Every field but the level may be saved; the level stays.
LEMMA SavedKeeps ==
    ASSUME PrefInv, NEW d \in Drafts, d.level = user.level, Prefs!updateUser(d),
           isReady' = isReady, kept' = kept, tour' = tour,
           rootField' \in [text : Words, default : Words, asked : BOOLEAN]
    PROVE  PrefInv'
<1>1. /\ isReady /\ user' \in Users /\ user' \in Drafts /\ stored' = user' /\ user'.level = user.level
      /\ user.level \in kept
  BY UserSaved
<1> QED BY <1>1 DEF PrefInv

LEMMA DroppedIsDraft ==
    ASSUME NEW c, CardsOnce(c), NEW a, NEW o, {a, o} \subseteq Prefs!Cards
    PROVE  Prefs!arrayMove(c, Prefs!IndexIn(c, a), Prefs!IndexIn(c, o)) \in Seq(Words)
<1>1. PICK f : f = Prefs!IndexIn(c, a) OBVIOUS
<1>2. PICK t : t = Prefs!IndexIn(c, o) OBVIOUS
<1>3. f \in DOMAIN c /\ t \in DOMAIN c
  <2>1. (\E i \in DOMAIN c : c[i] = a) /\ \E i \in DOMAIN c : c[i] = o BY DEF CardsOnce
  <2> QED BY <1>1, <1>2, <2>1 DEF Prefs!IndexIn
<1>4. c \in Seq(Words) BY CardsAreWords
<1>5. PICK n : n = Len(c) OBVIOUS
<1>6. n \in Nat /\ DOMAIN c = 1..n /\ f \in 1..n /\ t \in 1..n /\ \A i \in 1..n : c[i] \in Words
  BY <1>3, <1>4, <1>5, LenProperties, ElementOfSeq
<1>7. PICK left : left = SubSeq(c, 1, f - 1) \o SubSeq(c, f + 1, n) OBVIOUS
<1>8. left \in Seq(Words) /\ Len(left) = n - 1
  <2>1. /\ SubSeq(c, 1, f - 1) \in Seq(Words) /\ Len(SubSeq(c, 1, f - 1)) = f - 1
    <3>1. \A i \in 1..(f - 1) : c[i] \in Words BY <1>6
    <3> QED BY <1>6, <3>1, SubSeqProperties
  <2>2. /\ SubSeq(c, f + 1, n) \in Seq(Words) /\ Len(SubSeq(c, f + 1, n)) = n - f
    <3>1. \A i \in (f + 1)..n : c[i] \in Words BY <1>6
    <3> QED BY <1>6, <3>1, SubSeqProperties
  <2>3. left \in Seq(Words) /\ Len(left) = Len(SubSeq(c, 1, f - 1)) + Len(SubSeq(c, f + 1, n))
    BY <1>7, <2>1, <2>2, ConcatProperties
  <2> QED BY <1>6, <2>1, <2>2, <2>3
<1>9. Prefs!arrayMove(c, f, t) = SubSeq(left, 1, t - 1) \o <<c[f]>> \o SubSeq(left, t, Len(left))
  BY <1>5, <1>7 DEF Prefs!arrayMove, Prefs!InsertAt, Prefs!RemoveAt
<1>10. SubSeq(left, 1, t - 1) \in Seq(Words) /\ SubSeq(left, t, Len(left)) \in Seq(Words)
  <2>1. \A i \in 1..(n - 1) : left[i] \in Words BY <1>8, ElementOfSeq
  <2>2. (\A i \in 1..(t - 1) : left[i] \in Words) /\ \A i \in t..(n - 1) : left[i] \in Words
    BY <1>6, <2>1
  <2>3. SubSeq(left, 1, t - 1) \in Seq(Words) BY <1>6, <2>2, SubSeqProperties
  <2>4. SubSeq(left, t, n - 1) \in Seq(Words) BY <1>6, <2>2, SubSeqProperties
  <2> QED BY <1>8, <2>3, <2>4
<1>11. <<c[f]>> \in Seq(Words) BY <1>6
<1>12. SubSeq(left, 1, t - 1) \o <<c[f]>> \in Seq(Words) BY <1>10, <1>11, ConcatProperties
<1> QED BY <1>1, <1>2, <1>9, <1>10, <1>12, ConcatProperties

\* The tour, the dashboard and the guide.
LEMMA PrefsTour ==
    ASSUME PrefInv,
           \/ \E next \in DOMAIN Prefs!SLIDES : Prefs!goTo(next)
           \/ \E l \in Prefs!Levels : Prefs!setLevelChoice(l)
           \/ Prefs!finish
    PROVE  PrefInv'
<1>1. ASSUME NEW next \in DOMAIN Prefs!SLIDES, Prefs!goTo(next) PROVE PrefInv'
  <2>1. next \in Nat
    <3>1. DOMAIN Prefs!SLIDES = 1..5 BY DEF Prefs!SLIDES
    <3> QED BY <3>1
  <2>2. /\ tour' = [tour EXCEPT !.slide = next] /\ isReady
        /\ user' = user /\ stored' = stored /\ isReady' = isReady /\ kept' = kept /\ rootField' = rootField
    BY <1>1 DEF Prefs!goTo, Prefs!Covered, Prefs!SettingsPage
  <2>3. tour' \in [slide : Nat, choice : Words] /\ tour'.choice = tour.choice
    BY <2>1, <2>2 DEF PrefInv
  <2> QED BY <2>2, <2>3 DEF PrefInv
<1>2. ASSUME NEW l \in Prefs!Levels, Prefs!setLevelChoice(l) PROVE PrefInv'
  <2>1. /\ tour' = [tour EXCEPT !.choice = l] /\ isReady /\ kept' = kept \cup {l}
        /\ user' = user /\ stored' = stored /\ isReady' = isReady /\ rootField' = rootField
    BY <1>2 DEF Prefs!setLevelChoice, Prefs!Covered, Prefs!Picks, Prefs!SettingsPage
  <2>2. l \in Words BY LevelsAre DEF Words
  <2>3. tour' \in [slide : Nat, choice : Words] /\ tour'.choice = l
    BY <2>1, <2>2 DEF PrefInv
  <2> QED BY <2>1, <2>3 DEF PrefInv
<1>3. ASSUME Prefs!finish PROVE PrefInv'
  <2>1. PICK d : d = Prefs!finished OBVIOUS
  <2>2. /\ Prefs!updateUser(d) /\ isReady' = isReady /\ tour' = tour /\ kept' = kept
        /\ rootField' = rootField /\ isReady
    BY <1>3, <2>1 DEF Prefs!finish, Prefs!updateUser
  <2>3. user \in Drafts /\ user.level \in kept /\ kept \subseteq Prefs!Levels
        /\ tour.choice \in Words /\ tour.choice \in kept \cup {"none"}
    BY <2>2 DEF PrefInv
  <2>4. PICK level : level = IF tour.choice = "none" THEN user.level ELSE tour.choice OBVIOUS
  <2>5. level \in kept /\ level \in Prefs!Levels /\ level \in Words
    BY <2>3, <2>4, LevelsAre DEF Words
  <2>6. d = [user EXCEPT !.toured = TRUE, !.level = level]
    BY <2>1, <2>4 DEF Prefs!finished
  <2>7. d \in Drafts /\ d.level = level BY <2>3, <2>5, <2>6 DEF Drafts
  <2>8. user' \in Users /\ user' \in Drafts /\ stored' = user' /\ user'.level = level
    BY <2>2, <2>5, <2>7, UserSaved
  <2> QED BY <2>2, <2>5, <2>8 DEF PrefInv
<1> QED BY <1>1, <1>2, <1>3

LEMMA PrefsBoard ==
    ASSUME PrefInv,
           \/ \E a, o \in Prefs!Cards : Prefs!handleDragEnd(a, o)
           \/ \E id \in Prefs!Cards : Prefs!hide(id) \/ Prefs!unhide(id)
           \/ \E p \in {0, Prefs!GamePort} : Prefs!handleWorked(p)
    PROVE  PrefInv'
<1>1. user \in Drafts /\ rootField \in [text : Words, default : Words, asked : BOOLEAN] BY DEF PrefInv
<1>2. user.hidden \in SUBSET Words /\ user.ports \in SUBSET Nat BY <1>1 DEF Drafts
<1>3. ASSUME NEW a \in Prefs!Cards, NEW o \in Prefs!Cards, Prefs!handleDragEnd(a, o) PROVE PrefInv'
  <2>1. PICK c : c = Prefs!dropped(a, o) OBVIOUS
  <2>2. /\ Prefs!updateUser([user EXCEPT !.cards = c]) /\ isReady
        /\ isReady' = isReady /\ tour' = tour /\ kept' = kept /\ rootField' = rootField
    BY <1>3, <2>1 DEF Prefs!handleDragEnd, Prefs!Clear, Prefs!SettingsPage
  <2>3. CardsOnce(user.cards) BY <2>2 DEF PrefInv, Users
  <2>4. c \in Seq(Words) BY <2>1, <2>3, DroppedIsDraft DEF Prefs!dropped
  <2>5. PICK d : d = [user EXCEPT !.cards = c] OBVIOUS
  <2>6. d \in Drafts /\ d.level = user.level BY <1>1, <2>4, <2>5 DEF Drafts
  <2>7. Prefs!updateUser(d) BY <2>2, <2>5
  <2> QED BY <1>1, <2>2, <2>6, <2>7, SavedKeeps
<1>4. ASSUME NEW id \in Prefs!Cards, NEW hid, hid \in {user.hidden \cup {id}, user.hidden \ {id}},
             Prefs!updateUser([user EXCEPT !.hidden = hid]),
             isReady' = isReady, tour' = tour, kept' = kept, rootField' = rootField
      PROVE  PrefInv'
  <2>1. id \in Words BY CardsAreWords
  <2>2. hid \in SUBSET Words BY <1>2, <1>4, <2>1
  <2>3. PICK d : d = [user EXCEPT !.hidden = hid] OBVIOUS
  <2>4. d \in Drafts /\ d.level = user.level BY <1>1, <2>2, <2>3 DEF Drafts
  <2>5. Prefs!updateUser(d) BY <1>4, <2>3
  <2> QED BY <1>1, <1>4, <2>4, <2>5, SavedKeeps
<1>5. ASSUME NEW id \in Prefs!Cards, Prefs!hide(id) \/ Prefs!unhide(id) PROVE PrefInv'
  <2>1. CASE Prefs!hide(id)
    BY <1>4, <2>1 DEF Prefs!hide, Prefs!SettingsPage
  <2>2. CASE Prefs!unhide(id)
    BY <1>4, <2>2 DEF Prefs!unhide, Prefs!SettingsPage
  <2> QED BY <1>5, <2>1, <2>2
<1>6. ASSUME NEW p \in {0, Prefs!GamePort}, Prefs!handleWorked(p) PROVE PrefInv'
  <2>1. PICK ports : ports = user.ports \cup {p} OBVIOUS
  <2>2. /\ Prefs!updateUser([user EXCEPT !.ports = ports])
        /\ isReady' = isReady /\ tour' = tour /\ kept' = kept /\ rootField' = rootField
    BY <1>6, <2>1 DEF Prefs!handleWorked, Prefs!SettingsPage
  <2>3. p \in Nat BY DEF Prefs!GamePort
  <2>4. ports \in SUBSET Nat BY <1>2, <2>1, <2>3
  <2>5. PICK d : d = [user EXCEPT !.ports = ports] OBVIOUS
  <2>6. d \in Drafts /\ d.level = user.level BY <1>1, <2>4, <2>5 DEF Drafts
  <2>7. Prefs!updateUser(d) BY <2>2, <2>5
  <2> QED BY <1>1, <2>2, <2>6, <2>7, SavedKeeps
<1> QED BY <1>3, <1>5, <1>6

\* The Settings page.
LEMMA PrefsPage ==
    ASSUME PrefInv,
           \/ \E l \in Prefs!Levels : Prefs!setLevel(l)
           \/ \E j \in {"blank", "java", "jdk"} : Prefs!commitJavaDefault(j)
           \/ Prefs!handlePrefChange \/ Prefs!followLevel \/ Prefs!replayTour
           \/ Prefs!DefaultRootArrives \/ Prefs!handleResetServersRootPath \/ Prefs!handleClearAllData
           \/ \E root \in {"blank", "d:/mc"} : Prefs!commitServersRootPath(root)
           \/ \E to \in {"dashboard", "settings", "other"} : Prefs!navigate(to)
    PROVE  PrefInv'
<1> USE DEF Prefs!SettingsPage
<1>1. /\ user \in Drafts /\ rootField \in [text : Words, default : Words, asked : BOOLEAN]
      /\ user.root \in Words /\ rootField.text \in Words /\ rootField.default \in Words
  BY DEF PrefInv, Drafts
<1>2. /\ "blank" \in Words /\ "java" \in Words /\ "jdk" \in Words /\ "d:/mc" \in Words
      /\ "home/servers" \in Words /\ "follow" \in Words /\ "hidden" \in Words /\ "shown" \in Words
  BY DEF Words
<1>3. ASSUME NEW l \in Prefs!Levels, Prefs!setLevel(l) PROVE PrefInv'
  <2>1. /\ Prefs!updateUser([user EXCEPT !.level = l]) /\ kept' = kept \cup {l} /\ isReady
        /\ isReady' = isReady /\ tour' = tour /\ rootField' = rootField
    BY <1>3 DEF Prefs!setLevel, Prefs!Picks, Prefs!Clear
  <2>2. l \in Words BY LevelsAre DEF Words
  <2>3. PICK d : d = [user EXCEPT !.level = l] OBVIOUS
  <2>4. d \in Drafts /\ d.level = l BY <1>1, <2>2, <2>3 DEF Drafts
  <2>5. Prefs!updateUser(d) BY <2>1, <2>3
  <2>6. user' \in Users /\ user' \in Drafts /\ stored' = user' /\ user'.level = l
    BY <2>4, <2>5, UserSaved
  <2> QED BY <2>1, <2>6 DEF PrefInv
<1>4. ASSUME NEW j \in {"blank", "java", "jdk"}, Prefs!commitJavaDefault(j) PROVE PrefInv'
  <2>1. /\ Prefs!updateUser([user EXCEPT !.java = j])
        /\ isReady' = isReady /\ tour' = tour /\ kept' = kept /\ rootField' = rootField
    BY <1>4 DEF Prefs!commitJavaDefault
  <2>2. PICK d : d = [user EXCEPT !.java = j] OBVIOUS
  <2>3. d \in Drafts /\ d.level = user.level BY <1>1, <1>2, <2>2 DEF Drafts
  <2>4. Prefs!updateUser(d) BY <2>1, <2>2
  <2> QED BY <1>1, <2>1, <2>3, <2>4, SavedKeeps
<1>5. ASSUME Prefs!handlePrefChange \/ Prefs!followLevel PROVE PrefInv'
  <2>1. PICK x \in Words : Prefs!updateUser([user EXCEPT !.stats = x])
    BY <1>2, <1>5 DEF Prefs!handlePrefChange, Prefs!followLevel
  <2>2. isReady' = isReady /\ tour' = tour /\ kept' = kept /\ rootField' = rootField
    BY <1>5 DEF Prefs!handlePrefChange, Prefs!followLevel
  <2>3. PICK d : d = [user EXCEPT !.stats = x] OBVIOUS
  <2>4. d \in Drafts /\ d.level = user.level BY <1>1, <2>1, <2>3 DEF Drafts
  <2>5. Prefs!updateUser(d) BY <2>1, <2>3
  <2> QED BY <1>1, <2>2, <2>4, <2>5, SavedKeeps
<1>6. ASSUME Prefs!replayTour PROVE PrefInv'
  <2>1. /\ Prefs!updateUser([user EXCEPT !.toured = FALSE])
        /\ isReady' = isReady /\ tour' = tour /\ kept' = kept /\ rootField' = rootField
    BY <1>6 DEF Prefs!replayTour
  <2>2. PICK d : d = [user EXCEPT !.toured = FALSE] OBVIOUS
  <2>3. d \in Drafts /\ d.level = user.level BY <1>1, <2>2 DEF Drafts
  <2>4. Prefs!updateUser(d) BY <2>1, <2>2
  <2> QED BY <1>1, <2>1, <2>3, <2>4, SavedKeeps
<1>7. ASSUME Prefs!DefaultRootArrives PROVE PrefInv'
  <2>1. PICK d \in {"blank", Prefs!DefaultRoot} :
            rootField' = [text |-> IF d = rootField.default THEN rootField.text
                                   ELSE IF user.root = "blank" THEN d ELSE user.root,
                          default |-> d, asked |-> FALSE]
    BY <1>7 DEF Prefs!DefaultRootArrives
  <2>2. d \in Words BY <1>2 DEF Prefs!DefaultRoot
  <2>3. rootField' \in [text : Words, default : Words, asked : BOOLEAN] BY <1>1, <2>1, <2>2
  <2>4. UNCHANGED <<user, stored, isReady, kept, tour>> BY <1>7 DEF Prefs!DefaultRootArrives
  <2> QED BY <2>3, <2>4 DEF PrefInv
<1>8. ASSUME Prefs!handleResetServersRootPath PROVE PrefInv'
  <2>1. /\ Prefs!updateUser([user EXCEPT !.root = rootField.default])
        /\ rootField' = [rootField EXCEPT !.text = rootField.default]
        /\ isReady' = isReady /\ tour' = tour /\ kept' = kept
    BY <1>8 DEF Prefs!handleResetServersRootPath
  <2>2. PICK d : d = [user EXCEPT !.root = rootField.default] OBVIOUS
  <2>4. d \in Drafts /\ d.level = user.level BY <1>1, <2>2 DEF Drafts
  <2>5. Prefs!updateUser(d) BY <2>1, <2>2
  <2>3. rootField' \in [text : Words, default : Words, asked : BOOLEAN] BY <1>1, <2>1
  <2> QED BY <2>1, <2>3, <2>4, <2>5, SavedKeeps
<1>9. ASSUME Prefs!handleClearAllData PROVE PrefInv'
  <2>1. /\ Prefs!updateUser(Prefs!createDefaultUserData) /\ kept' = kept \cup {"standard"}
        /\ rootField' = [rootField EXCEPT !.text = IF user.root # "blank" THEN rootField.default ELSE @]
        /\ isReady' = isReady /\ tour' = tour /\ isReady
    BY <1>9 DEF Prefs!handleClearAllData, Prefs!Clear
  <2>2. Prefs!createDefaultUserData \in Drafts /\ Prefs!createDefaultUserData.level = "standard"
        /\ "standard" \in Prefs!Levels
    BY DefaultIsUser, LevelsAre DEF Users
  <2>3. user' \in Users /\ user' \in Drafts /\ stored' = user' /\ user'.level = "standard"
    BY <2>1, <2>2, UserSaved
  <2>4. rootField' \in [text : Words, default : Words, asked : BOOLEAN] BY <1>1, <2>1
  <2> QED BY <2>1, <2>2, <2>3, <2>4 DEF PrefInv
<1>10. ASSUME NEW entered \in {"blank", "d:/mc"}, Prefs!commitServersRootPath(entered) PROVE PrefInv'
  <2>1. /\ rootField' = [rootField EXCEPT !.text = IF entered = "blank" THEN user.root ELSE entered]
        /\ isReady' = isReady /\ tour' = tour /\ kept' = kept
        /\ Prefs!updateUser([user EXCEPT !.root = entered]) \/ UNCHANGED <<user, stored>>
    BY <1>10 DEF Prefs!commitServersRootPath
  <2>2. rootField' \in [text : Words, default : Words, asked : BOOLEAN] BY <1>1, <1>2, <2>1
  <2>3. PICK d : d = [user EXCEPT !.root = entered] OBVIOUS
  <2>6. d \in Drafts /\ d.level = user.level BY <1>1, <1>2, <2>3 DEF Drafts
  <2>4. CASE Prefs!updateUser([user EXCEPT !.root = entered])
    <3>1. Prefs!updateUser(d) BY <2>3, <2>4
    <3> QED BY <2>1, <2>2, <2>6, <3>1, SavedKeeps
  <2>5. CASE UNCHANGED <<user, stored>> BY <2>1, <2>2, <2>5 DEF PrefInv
  <2> QED BY <2>1, <2>4, <2>5
<1>11. ASSUME NEW to \in {"dashboard", "settings", "other"}, Prefs!navigate(to) PROVE PrefInv'
  <2>1. UNCHANGED <<user, stored, isReady, kept, tour>> BY <1>11 DEF Prefs!navigate
  <2>3. (rootField' = [text |-> user.root, default |-> "blank", asked |-> TRUE] \/ rootField' = rootField)
    BY <1>11 DEF Prefs!navigate
  <2>2. rootField' \in [text : Words, default : Words, asked : BOOLEAN]
    <3>1. [text |-> user.root, default |-> "blank", asked |-> TRUE]
          \in [text : Words, default : Words, asked : BOOLEAN]
      BY <1>1, <1>2
    <3> QED BY <1>1, <2>3, <3>1
  <2> QED BY <2>1, <2>2 DEF PrefInv
<1> QED BY <1>3, <1>4, <1>5, <1>6, <1>7, <1>8, <1>9, <1>10, <1>11

LEMMA PrefsLoad == ASSUME PrefInv, Prefs!Load PROVE PrefInv'
<1>1. /\ ~isReady /\ isReady' /\ user' = Prefs!normalizeUserData(stored) /\ stored' = user'
      /\ kept' = {user'.level} /\ tour' = tour /\ rootField' = rootField
  BY DEF Prefs!Load, Prefs!SettingsPage
<1>2. stored \in Drafts BY DEF PrefInv
<1>3. user' \in Users BY <1>1, <1>2, NormalizedIsUser
<1>4. user' \in Drafts /\ user'.level \in Prefs!Levels BY <1>3 DEF Users
<1> QED BY <1>1, <1>3, <1>4 DEF PrefInv

LEMMA PrefsRestart == ASSUME PrefInv, Prefs!Restart PROVE PrefInv'
<1>1. /\ isReady /\ isReady' = FALSE /\ user' = Prefs!createDefaultUserData
      /\ tour' = [slide |-> 1, choice |-> "none"]
      /\ rootField' = [text |-> "blank", default |-> "blank", asked |-> FALSE]
      /\ stored' = stored /\ kept' = kept
  BY DEF Prefs!Restart, Prefs!NewTour
<1>2. user' \in Drafts BY <1>1, DefaultIsUser DEF Users
<1>3. "none" \in Words /\ "blank" \in Words BY DEF Words
<1>4. tour' \in [slide : Nat, choice : Words] /\ tour'.choice = "none" BY <1>1, <1>3
<1>5. rootField' \in [text : Words, default : Words, asked : BOOLEAN] BY <1>1, <1>3
<1> QED BY <1>1, <1>2, <1>4, <1>5 DEF PrefInv

LEMMA PrefsSteps == PrefInv /\ [Next]_AllVars => PrefInv'
<1> SUFFICES ASSUME PrefInv, [Next]_AllVars PROVE PrefInv'
  OBVIOUS
<1>1. CASE Prefs!PrefNext
  <2>1. CASE Prefs!Load BY <2>1, PrefsLoad
  <2>2. CASE Prefs!Restart BY <2>2, PrefsRestart
  <2>3. CASE \/ \E next \in DOMAIN Prefs!SLIDES : Prefs!goTo(next)
             \/ \E l \in Prefs!Levels : Prefs!setLevelChoice(l)
             \/ Prefs!finish
    BY <2>3, PrefsTour
  <2>4. CASE \/ \E a, o \in Prefs!Cards : Prefs!handleDragEnd(a, o)
             \/ \E id \in Prefs!Cards : Prefs!hide(id) \/ Prefs!unhide(id)
             \/ \E p \in {0, Prefs!GamePort} : Prefs!handleWorked(p)
    BY <2>4, PrefsBoard
  <2>5. CASE \/ \E l \in Prefs!Levels : Prefs!setLevel(l)
             \/ \E j \in {"blank", "java", "jdk"} : Prefs!commitJavaDefault(j)
             \/ Prefs!handlePrefChange \/ Prefs!followLevel \/ Prefs!replayTour
             \/ Prefs!DefaultRootArrives \/ Prefs!handleResetServersRootPath \/ Prefs!handleClearAllData
             \/ \E root \in {"blank", "d:/mc"} : Prefs!commitServersRootPath(root)
             \/ \E to \in {"dashboard", "settings", "other"} : Prefs!navigate(to)
    BY <2>5, PrefsPage
  <2>6. CASE Prefs!Release \/ Prefs!checkForUpdates \/ Prefs!installUpdate \/ \E c \in pluginCalls : Prefs!Answered(c)
    <3>1. UNCHANGED <<user, stored, isReady, tour, kept, rootField>>
      BY <2>6 DEF Prefs!Release, Prefs!checkForUpdates, Prefs!installUpdate, Prefs!Answered
    <3> QED BY <3>1 DEF PrefInv
  <2> QED BY <1>1, <2>1, <2>2, <2>3, <2>4, <2>5, <2>6 DEF Prefs!PrefNext
<1>2. CASE UNCHANGED prefVars
  BY <1>2 DEF prefVars, PrefInv
<1> QED BY <1>1, <1>2 DEF Next, AllVars

LEMMA PrefsShow == PrefInv => Prefs!PrefsSurvive /\ Prefs!LevelWasChosen
<1> SUFFICES ASSUME PrefInv, isReady PROVE Prefs!PrefsSurvive /\ Prefs!LevelWasChosen
  BY DEF Prefs!PrefsSurvive, Prefs!LevelWasChosen
<1>1. user \in Users /\ stored = user /\ user.level \in kept BY DEF PrefInv
<1>2. Prefs!normalizeUserData(stored) = user BY <1>1, UserStays
<1>3. CardsOnce(user.cards) BY <1>1 DEF Users
<1>4. /\ Len(user.cards) = Cardinality(Prefs!Cards) /\ Prefs!ToSet(user.cards) = Prefs!Cards
      /\ Len(DASHBOARD_CARD_IDS) = Cardinality(Prefs!Cards)
  BY <1>3, FirstOrder, AsManyCards
<1> QED BY <1>1, <1>2, <1>4 DEF Prefs!PrefsSurvive, Prefs!LevelWasChosen

\* For any bound on edits and releases: what the storage holds reads back as the
\* preferences in use, each card once, whatever another version left there, and the level
\* is one that was read or clicked (user.tsx, onboarding-overlay.tsx).
THEOREM PanelsPrefsAreKept == Spec => []PrefsAreKept
<1>1. PrefInv => PrefsAreKept BY PrefsShow DEF PrefsAreKept
<1> QED BY PrefsStart, PrefsSteps, <1>1, PTL DEF Spec, AllVars

--------------------------------------------------------------------------------
(* Where a dropped card lands: sequences without repetition are told by their    *)
(* elements and the order of these.                                              *)

Distinct(s) == \A i, j \in DOMAIN s : s[i] = s[j] => i = j
Before(s, x, y) == \E i, j \in DOMAIN s : i < j /\ s[i] = x /\ s[j] = y

LEMMA BeforeIs ==
    ASSUME NEW s, Distinct(s), NEW i \in DOMAIN s, NEW j \in DOMAIN s
    PROVE  Before(s, s[i], s[j]) <=> i < j
BY DEF Distinct, Before

LEMMA PlaceIsCount ==
    ASSUME NEW X, NEW s \in Seq(X), Distinct(s), NEW k \in DOMAIN s
    PROVE  Cardinality({y \in Prefs!ToSet(s) : y = s[k] \/ Before(s, y, s[k])}) = k
<1> DEFINE P == {y \in Prefs!ToSet(s) : y = s[k] \/ Before(s, y, s[k])}
           part == [j \in 1..k |-> s[j]]
<1>1. DOMAIN s = 1..Len(s) /\ Len(s) \in Nat /\ k \in Nat BY LenProperties
<1>2. \A j \in 1..k : j \in DOMAIN s BY <1>1
<1>3. \A j \in 1..k : s[j] \in P
  <2> SUFFICES ASSUME NEW j \in 1..k PROVE s[j] \in P
    OBVIOUS
  <2>1. j \in DOMAIN s /\ s[j] \in Prefs!ToSet(s) BY <1>2 DEF Prefs!ToSet
  <2>2. j = k \/ j < k BY <1>1
  <2>3. j < k => Before(s, s[j], s[k]) BY <2>1 DEF Before
  <2> QED BY <2>1, <2>2, <2>3
<1>4. \A y \in P : \E j \in 1..k : s[j] = y
  <2> SUFFICES ASSUME NEW y \in P PROVE \E j \in 1..k : s[j] = y
    OBVIOUS
  <2>1. CASE y = s[k]
    <3>1. k \in 1..k BY <1>1
    <3> QED BY <2>1, <3>1
  <2>2. CASE Before(s, y, s[k])
    <3>1. PICK i \in DOMAIN s, j \in DOMAIN s : i < j /\ s[i] = y /\ s[j] = s[k] BY <2>2 DEF Before
    <3>2. j = k BY <3>1 DEF Distinct
    <3>3. i \in 1..k BY <1>1, <3>1, <3>2
    <3> QED BY <3>1, <3>3
  <2> QED BY <2>1, <2>2
<1> HIDE DEF P
<1>5. part \in [1..k -> P] BY <1>3
<1>6. \A i, j \in 1..k : part[i] = part[j] => i = j BY <1>2 DEF Distinct
<1>7. \A y \in P : \E j \in 1..k : part[j] = y BY <1>4
<1> HIDE DEF part
<1>8. part \in Bijection(1..k, P)
  BY <1>5, <1>6, <1>7 DEF Bijection, Injection, Surjection, IsInjective
<1>9. ExistsBijection(1..k, P) BY <1>8 DEF ExistsBijection
<1>10. IsFiniteSet(1..k) /\ Cardinality(1..k) = k BY <1>1, FS_Interval
<1>11. Cardinality(P) = k BY <1>9, <1>10, FS_Bijection
<1> QED BY <1>11 DEF P

LEMMA OrderTells ==
    ASSUME NEW X, NEW s \in Seq(X), NEW t \in Seq(X), Distinct(s), Distinct(t),
           Prefs!ToSet(s) = Prefs!ToSet(t),
           \A x, y \in Prefs!ToSet(s) : x # y => (Before(s, x, y) <=> Before(t, x, y))
    PROVE  s = t
<1>1. DOMAIN s = 1..Len(s) /\ Len(s) \in Nat /\ DOMAIN t = 1..Len(t) /\ Len(t) \in Nat
  BY LenProperties
<1>2. ASSUME NEW i \in DOMAIN s PROVE i \in DOMAIN t /\ t[i] = s[i]
  <2>1. s[i] \in Prefs!ToSet(t) BY DEF Prefs!ToSet
  <2>2. PICK k \in DOMAIN t : t[k] = s[i] BY <2>1 DEF Prefs!ToSet
  <2>3. {y \in Prefs!ToSet(s) : y = s[i] \/ Before(s, y, s[i])}
        = {y \in Prefs!ToSet(t) : y = t[k] \/ Before(t, y, t[k])}
    BY <2>1, <2>2
  <2>4. Cardinality({y \in Prefs!ToSet(s) : y = s[i] \/ Before(s, y, s[i])}) = i BY PlaceIsCount
  <2>5. Cardinality({y \in Prefs!ToSet(t) : y = t[k] \/ Before(t, y, t[k])}) = k BY PlaceIsCount
  <2>6. i = k BY <2>3, <2>4, <2>5
  <2> QED BY <2>2, <2>6
<1>3. ASSUME NEW i \in DOMAIN t PROVE i \in DOMAIN s
  <2>1. t[i] \in Prefs!ToSet(s) BY DEF Prefs!ToSet
  <2>2. PICK k \in DOMAIN s : s[k] = t[i] BY <2>1 DEF Prefs!ToSet
  <2>3. k \in DOMAIN t /\ t[k] = t[i] BY <1>2, <2>2
  <2> QED BY <2>2, <2>3 DEF Distinct
<1>4. Len(s) = Len(t)
  <2>1. PICK m : m = Len(s) OBVIOUS
  <2>2. PICK n : n = Len(t) OBVIOUS
  <2>3. m \in Nat /\ n \in Nat /\ DOMAIN s = 1..m /\ DOMAIN t = 1..n BY <1>1, <2>1, <2>2
  <2>4. (\A i \in 1..m : i \in 1..n) /\ \A i \in 1..n : i \in 1..m BY <1>2, <1>3, <2>3
  <2>5. m # 0 => m \in 1..n BY <2>3, <2>4
  <2>6. n # 0 => n \in 1..m BY <2>3, <2>4
  <2>7. m = n BY <2>3, <2>5, <2>6
  <2> QED BY <2>1, <2>2, <2>7
<1> QED BY <1>1, <1>2, <1>4, SeqEqual

LEMMA WithoutOrder ==
    ASSUME NEW X, NEW s \in Seq(X), Distinct(s), NEW H, NEW w, w = Prefs!Without(s, H)
    PROVE  /\ w \in Seq(X) /\ Distinct(w) /\ Prefs!ToSet(w) = Prefs!ToSet(s) \ H
           /\ \A x, y \in Prefs!ToSet(w) : Before(w, x, y) <=> Before(s, x, y)
<1> DEFINE I == {i \in DOMAIN s : s[i] \notin H}
           N == Cardinality(I)
<1>1. DOMAIN s = 1..Len(s) /\ Len(s) \in Nat /\ \A i \in DOMAIN s : s[i] \in X
  BY LenProperties, ElementOfSeq
<1>2. IsFiniteSet(DOMAIN s) BY <1>1, FS_Interval
<1>3. I \in SUBSET DOMAIN s /\ I \in SUBSET Nat /\ \A i : i \in I <=> i \in DOMAIN s /\ s[i] \notin H
  BY <1>1
<1>4. w = Prefs!pick(s, I) BY DEF Prefs!Without
<1> HIDE DEF I
<1>5. IsFiniteSet(I) /\ N \in Nat BY <1>2, <1>3, FS_Subset, FS_CardinalityType
<1>6. w = [k \in 1..N |-> s[Prefs!nth(I, k)]] BY <1>4, PrefsCounts DEF Prefs!pick
<1>7. \A k \in 1..N : Prefs!nth(I, k) \in I BY <1>3, <1>5, NthIsThere
<1>8. \A k, l \in 1..N : k < l <=> Prefs!nth(I, k) < Prefs!nth(I, l) BY <1>3, <1>5, NthGrows
<1>9. \A i \in I : \E k \in 1..N : Prefs!nth(I, k) = i BY <1>3, <1>5, NthTakesAll
<1> HIDE DEF N
<1>10. DOMAIN w = 1..N /\ \A k \in 1..N : w[k] = s[Prefs!nth(I, k)] BY <1>6
<1>11. w \in Seq(X)
  <2>1. w \in [1..N -> X] BY <1>1, <1>3, <1>6, <1>7
  <2> QED BY <1>5, <2>1
<1>12. ASSUME NEW k \in 1..N, NEW l \in 1..N, w[k] = w[l] PROVE k = l
  <2>1. Prefs!nth(I, k) = Prefs!nth(I, l)
    BY <1>3, <1>7, <1>10, <1>12 DEF Distinct
  <2>2. Prefs!nth(I, k) \in Nat BY <1>3, <1>7
  <2>3. ~(k < l) /\ ~(l < k) BY <1>8, <2>1, <2>2
  <2> QED BY <1>5, <2>3
<1>13. Prefs!ToSet(w) = Prefs!ToSet(s) \ H
  <2>1. ASSUME NEW x \in Prefs!ToSet(w) PROVE x \in Prefs!ToSet(s) \ H
    <3>1. PICK k \in 1..N : w[k] = x BY <1>10, <2>1 DEF Prefs!ToSet
    <3> QED BY <1>3, <1>7, <1>10, <3>1 DEF Prefs!ToSet
  <2>2. ASSUME NEW x \in Prefs!ToSet(s) \ H PROVE x \in Prefs!ToSet(w)
    <3>1. PICK i \in DOMAIN s : s[i] = x BY <2>2 DEF Prefs!ToSet
    <3>2. i \in I BY <1>3, <2>2, <3>1
    <3>3. PICK k \in 1..N : Prefs!nth(I, k) = i BY <1>9, <3>2
    <3>4. k \in DOMAIN w /\ w[k] = x BY <1>10, <3>1, <3>3
    <3> QED BY <3>4 DEF Prefs!ToSet
  <2> QED BY <2>1, <2>2
<1>14. Distinct(w) BY <1>10, <1>12 DEF Distinct
<1>15. ASSUME NEW x \in Prefs!ToSet(w), NEW y \in Prefs!ToSet(w)
       PROVE  Before(w, x, y) <=> Before(s, x, y)
  <2>1. PICK k \in 1..N : w[k] = x BY <1>10, <1>15 DEF Prefs!ToSet
  <2>2. PICK l \in 1..N : w[l] = y BY <1>10, <1>15 DEF Prefs!ToSet
  <2>3. Before(w, x, y) <=> k < l BY <1>10, <1>14, <2>1, <2>2, BeforeIs
  <2>4. PICK i : i = Prefs!nth(I, k) OBVIOUS
  <2>5. PICK j : j = Prefs!nth(I, l) OBVIOUS
  <2>6. i \in DOMAIN s /\ j \in DOMAIN s /\ s[i] = x /\ s[j] = y
    BY <1>3, <1>7, <1>10, <2>1, <2>2, <2>4, <2>5
  <2>7. Before(s, x, y) <=> i < j BY <2>6, BeforeIs
  <2>8. k < l <=> i < j BY <1>8, <2>4, <2>5
  <2> QED BY <2>3, <2>7, <2>8
<1> QED BY <1>11, <1>13, <1>14, <1>15

\* Where the place j goes when the place f is moved to t; moving back undoes it.
Shift(f, t, j) ==
    IF j = f THEN t
    ELSE IF f < j /\ j <= t THEN j - 1
    ELSE IF t <= j /\ j < f THEN j + 1 ELSE j

LEMMA ShiftsBack ==
    ASSUME NEW n \in Nat, NEW f \in 1..n, NEW t \in 1..n, NEW k \in 1..n
    PROVE  Shift(t, f, k) \in 1..n /\ Shift(f, t, Shift(t, f, k)) = k
BY DEF Shift

LEMMA MoveIs ==
    ASSUME NEW X, NEW c \in Seq(X), NEW f \in DOMAIN c, NEW t \in DOMAIN c,
           NEW m, m = Prefs!arrayMove(c, f, t)
    PROVE  m \in Seq(X) /\ Len(m) = Len(c) /\ \A k \in DOMAIN c : m[k] = c[Shift(t, f, k)]
<1>1. PICK n : n = Len(c) OBVIOUS
<1>2. n \in Nat /\ DOMAIN c = 1..n /\ f \in 1..n /\ t \in 1..n /\ \A i \in 1..n : c[i] \in X
  BY <1>1, LenProperties, ElementOfSeq
<1>3. PICK l : l = SubSeq(c, 1, f - 1) OBVIOUS
<1>4. PICK r : r = SubSeq(c, f + 1, n) OBVIOUS
<1>5. l \in Seq(X) /\ Len(l) = f - 1 /\ \A i \in 1..(f - 1) : l[i] = c[i]
  <2>1. \A i \in 1..(f - 1) : c[i] \in X BY <1>2
  <2> QED BY <1>2, <1>3, <2>1, SubSeqProperties
<1>6. r \in Seq(X) /\ Len(r) = n - f /\ \A i \in 1..(n - f) : r[i] = c[f + i]
  <2>1. \A i \in (f + 1)..n : c[i] \in X BY <1>2
  <2>2. r \in Seq(X) /\ Len(r) = n - f /\ \A i \in 1..(n - f) : r[i] = c[(f + 1) + i - 1]
    BY <1>2, <1>4, <2>1, SubSeqProperties
  <2>3. \A i \in 1..(n - f) : (f + 1) + i - 1 = f + i BY <1>2
  <2> QED BY <2>2, <2>3
<1>7. PICK left : left = l \o r OBVIOUS
<1>8. /\ left \in Seq(X) /\ Len(left) = n - 1
      /\ \A i \in 1..(n - 1) : left[i] = IF i < f THEN c[i] ELSE c[i + 1]
  <2>1. /\ left \in Seq(X) /\ Len(left) = Len(l) + Len(r)
        /\ \A i \in 1..(Len(l) + Len(r)) : left[i] = IF i <= Len(l) THEN l[i] ELSE r[i - Len(l)]
    BY <1>5, <1>6, <1>7, ConcatProperties
  <2>2. Len(l) + Len(r) = n - 1 BY <1>2, <1>5, <1>6
  <2>3. \A i \in 1..(n - 1) : left[i] = IF i <= f - 1 THEN l[i] ELSE r[i - (f - 1)]
    BY <1>5, <2>1, <2>2
  <2>4. ASSUME NEW i \in 1..(n - 1) PROVE left[i] = IF i < f THEN c[i] ELSE c[i + 1]
    <3>1. CASE i < f
      <4>1. i \in 1..(f - 1) /\ i <= f - 1 BY <1>2, <3>1
      <4> QED BY <1>5, <2>3, <3>1, <4>1
    <3>2. CASE ~(i < f)
      <4>1. i - (f - 1) \in 1..(n - f) /\ ~(i <= f - 1) /\ f + (i - (f - 1)) = i + 1 BY <1>2, <3>2
      <4>2. r[i - (f - 1)] = c[i + 1] BY <1>6, <4>1
      <4> QED BY <2>3, <3>2, <4>1, <4>2
    <3> QED BY <3>1, <3>2
  <2> QED BY <2>1, <2>2, <2>4
<1>9. PICK u : u = SubSeq(left, 1, t - 1) OBVIOUS
<1>10. PICK v : v = SubSeq(left, t, n - 1) OBVIOUS
<1>11. \A i \in 1..(n - 1) : left[i] \in X BY <1>8, ElementOfSeq
<1>12. u \in Seq(X) /\ Len(u) = t - 1 /\ \A i \in 1..(t - 1) : u[i] = left[i]
  <2>1. \A i \in 1..(t - 1) : left[i] \in X BY <1>2, <1>11
  <2> QED BY <1>2, <1>9, <2>1, SubSeqProperties
<1>13. v \in Seq(X) /\ Len(v) = n - t /\ \A i \in 1..(n - t) : v[i] = left[t + i - 1]
  <2>1. \A i \in t..(n - 1) : left[i] \in X BY <1>2, <1>11
  <2>2. /\ v \in Seq(X) /\ Len(v) = (IF t <= n - 1 THEN (n - 1) - t + 1 ELSE 0)
        /\ \A i \in 1..((n - 1) - t + 1) : v[i] = left[t + i - 1]
    BY <1>2, <1>10, <2>1, SubSeqProperties
  <2>3. (n - 1) - t + 1 = n - t /\ (IF t <= n - 1 THEN (n - 1) - t + 1 ELSE 0) = n - t BY <1>2
  <2> QED BY <2>2, <2>3
<1>14. PICK e : e = c[f] OBVIOUS
<1>15. m = (u \o <<e>>) \o v
  <2>1. Prefs!RemoveAt(c, f) = left BY <1>1, <1>3, <1>4, <1>7 DEF Prefs!RemoveAt
  <2>2. m = Prefs!InsertAt(left, t, e) BY <1>14, <2>1 DEF Prefs!arrayMove
  <2>3. m = SubSeq(left, 1, t - 1) \o <<e>> \o SubSeq(left, t, Len(left))
    BY <2>2 DEF Prefs!InsertAt
  <2> QED BY <1>8, <1>9, <1>10, <2>3
<1>16. PICK w : w = u \o <<e>> OBVIOUS
<1>17. w \in Seq(X) /\ Len(w) = t /\ \A i \in 1..t : w[i] = IF i < t THEN left[i] ELSE e
  <2>1. <<e>> \in Seq(X) /\ Len(<<e>>) = 1 /\ <<e>>[1] = e BY <1>2, <1>14
  <2>2. /\ w \in Seq(X) /\ Len(w) = Len(u) + 1
        /\ \A i \in 1..(Len(u) + 1) : w[i] = IF i <= Len(u) THEN u[i] ELSE <<e>>[i - Len(u)]
    BY <1>12, <1>16, <2>1, ConcatProperties
  <2>3. (t - 1) + 1 = t BY <1>2
  <2>4. \A i \in 1..t : w[i] = IF i <= t - 1 THEN u[i] ELSE <<e>>[i - (t - 1)]
    BY <1>12, <2>2, <2>3
  <2>5. ASSUME NEW i \in 1..t PROVE w[i] = IF i < t THEN left[i] ELSE e
    <3>1. CASE i < t
      <4>1. i \in 1..(t - 1) /\ i <= t - 1 BY <1>2, <3>1
      <4> QED BY <1>12, <2>4, <3>1, <4>1
    <3>2. CASE ~(i < t)
      <4>1. i - (t - 1) = 1 /\ ~(i <= t - 1) BY <1>2, <3>2
      <4> QED BY <2>1, <2>4, <3>2, <4>1
    <3> QED BY <3>1, <3>2
  <2> QED BY <1>12, <2>2, <2>3, <2>5
<1>18. /\ m \in Seq(X) /\ Len(m) = n
       /\ \A k \in 1..n : m[k] = IF k <= t THEN w[k] ELSE v[k - t]
  <2>1. /\ m \in Seq(X) /\ Len(m) = Len(w) + Len(v)
        /\ \A k \in 1..(Len(w) + Len(v)) : m[k] = IF k <= Len(w) THEN w[k] ELSE v[k - Len(w)]
    <3>1. m = w \o v BY <1>15, <1>16
    <3>2. w \in Seq(X) /\ v \in Seq(X) BY <1>13, <1>17
    <3> QED BY <3>1, <3>2, ConcatProperties
  <2>2. t + (n - t) = n BY <1>2
  <2> QED BY <1>13, <1>17, <2>1, <2>2
<1>19. ASSUME NEW k \in 1..n PROVE m[k] = c[Shift(t, f, k)]
  <2>1. CASE k = t
    <3>1. k \in 1..t /\ k <= t /\ ~(k < t) BY <1>2, <2>1
    <3>2. m[k] = e BY <1>17, <1>18, <3>1
    <3>3. Shift(t, f, k) = f BY <2>1 DEF Shift
    <3> QED BY <1>14, <3>2, <3>3
  <2>2. CASE k < t
    <3>1. k \in 1..t /\ k <= t /\ k \in 1..(n - 1) BY <1>2, <2>2
    <3>2. m[k] = left[k] BY <1>17, <1>18, <2>2, <3>1
    <3>3. Shift(t, f, k) = IF k < f THEN k ELSE k + 1 BY <1>2, <2>2 DEF Shift
    <3> QED BY <1>8, <3>1, <3>2, <3>3
  <2>3. CASE t < k
    <3>1. ~(k <= t) /\ k - t \in 1..(n - t) /\ t + (k - t) - 1 = k - 1 /\ k - 1 \in 1..(n - 1)
      BY <1>2, <2>3
    <3>2. m[k] = left[k - 1] BY <1>13, <1>18, <3>1
    <3>3. left[k - 1] = IF k - 1 < f THEN c[k - 1] ELSE c[(k - 1) + 1] BY <1>8, <3>1
    <3>4. (k - 1) + 1 = k /\ Shift(t, f, k) = IF k - 1 < f THEN k - 1 ELSE k BY <1>2, <2>3 DEF Shift
    <3> QED BY <3>2, <3>3, <3>4
  <2> QED BY <1>2, <2>1, <2>2, <2>3
<1> QED BY <1>1, <1>2, <1>18, <1>19

\* Who comes before whom once a was moved to o's place.
PutBefore(s, a, o, y) == Before(s, o, y) \/ (y = o /\ ~Before(s, a, o))
MovedBefore(s, a, o, x, y) ==
    IF x = a THEN PutBefore(s, a, o, y)
    ELSE IF y = a THEN ~PutBefore(s, a, o, x) ELSE Before(s, x, y)

LEMMA ShiftOrders ==
    ASSUME NEW n \in Nat, NEW f \in 1..n, NEW t \in 1..n, f # t,
           NEW i \in 1..n, NEW j \in 1..n, i # j
    PROVE  /\ i = f => (Shift(f, t, i) < Shift(f, t, j) <=> t < j \/ (j = t /\ ~(f < t)))
           /\ j = f => (Shift(f, t, i) < Shift(f, t, j) <=> ~(t < i \/ (i = t /\ ~(f < t))))
           /\ i # f /\ j # f => (Shift(f, t, i) < Shift(f, t, j) <=> i < j)
BY DEF Shift

LEMMA MoveOrder ==
    ASSUME NEW X, NEW c \in Seq(X), Distinct(c), NEW a \in Prefs!ToSet(c), NEW o \in Prefs!ToSet(c),
           a # o, NEW m, m = Prefs!arrayMove(c, Prefs!IndexIn(c, a), Prefs!IndexIn(c, o))
    PROVE  /\ m \in Seq(X) /\ Distinct(m) /\ Prefs!ToSet(m) = Prefs!ToSet(c) /\ Len(m) = Len(c)
           /\ \A x, y \in Prefs!ToSet(c) : x # y => (Before(m, x, y) <=> MovedBefore(c, a, o, x, y))
<1>1. PICK f : f = Prefs!IndexIn(c, a) OBVIOUS
<1>2. PICK t : t = Prefs!IndexIn(c, o) OBVIOUS
<1>3. f \in DOMAIN c /\ t \in DOMAIN c /\ c[f] = a /\ c[t] = o
  <2>1. (\E i \in DOMAIN c : c[i] = a) /\ \E i \in DOMAIN c : c[i] = o BY DEF Prefs!ToSet
  <2> QED BY <1>1, <1>2, <2>1 DEF Prefs!IndexIn
<1>4. m \in Seq(X) /\ Len(m) = Len(c) /\ \A k \in DOMAIN c : m[k] = c[Shift(t, f, k)]
  <2>1. m = Prefs!arrayMove(c, f, t) BY <1>1, <1>2
  <2> QED BY <1>3, <2>1, MoveIs
<1>5. PICK n : n = Len(c) OBVIOUS
<1>6. n \in Nat /\ DOMAIN c = 1..n /\ DOMAIN m = 1..n /\ f \in 1..n /\ t \in 1..n /\ f # t
  BY <1>3, <1>4, <1>5, LenProperties
<1>7. \A k \in 1..n : m[k] = c[Shift(t, f, k)] /\ Shift(t, f, k) \in 1..n
                      /\ Shift(f, t, Shift(t, f, k)) = k
  BY <1>4, <1>6, ShiftsBack
<1>8. \A j \in 1..n : Shift(f, t, j) \in 1..n /\ m[Shift(f, t, j)] = c[j]
  <2> SUFFICES ASSUME NEW j \in 1..n PROVE Shift(f, t, j) \in 1..n /\ m[Shift(f, t, j)] = c[j]
    OBVIOUS
  <2>1. PICK k : k = Shift(f, t, j) OBVIOUS
  <2>2. k \in 1..n /\ Shift(t, f, k) = j BY <1>6, <2>1, ShiftsBack
  <2> QED BY <1>7, <2>1, <2>2
<1>9. Distinct(m)
  <2> SUFFICES ASSUME NEW k \in 1..n, NEW l \in 1..n, m[k] = m[l] PROVE k = l
    BY <1>6 DEF Distinct
  <2>1. Shift(t, f, k) = Shift(t, f, l) BY <1>6, <1>7 DEF Distinct
  <2> QED BY <1>7, <2>1
<1>10. Prefs!ToSet(m) = Prefs!ToSet(c)
  <2>1. \A k \in 1..n : \E j \in 1..n : m[k] = c[j] BY <1>7
  <2>2. \A j \in 1..n : \E k \in 1..n : m[k] = c[j] BY <1>8
  <2>3. ASSUME NEW x \in Prefs!ToSet(m) PROVE x \in Prefs!ToSet(c)
    <3>1. PICK k \in 1..n : m[k] = x BY <1>6, <2>3 DEF Prefs!ToSet
    <3>2. PICK j \in 1..n : c[j] = x BY <2>1, <3>1
    <3>3. j \in DOMAIN c BY <1>6
    <3> QED BY <3>2, <3>3 DEF Prefs!ToSet
  <2>4. ASSUME NEW x \in Prefs!ToSet(c) PROVE x \in Prefs!ToSet(m)
    <3>1. PICK j \in 1..n : c[j] = x BY <1>6, <2>4 DEF Prefs!ToSet
    <3>2. PICK k \in 1..n : m[k] = x BY <2>2, <3>1
    <3>3. k \in DOMAIN m BY <1>6
    <3> QED BY <3>2, <3>3 DEF Prefs!ToSet
  <2> QED BY <2>3, <2>4
<1>11. ASSUME NEW x \in Prefs!ToSet(c), NEW y \in Prefs!ToSet(c), x # y
       PROVE  Before(m, x, y) <=> MovedBefore(c, a, o, x, y)
  <2>1. PICK i \in 1..n : c[i] = x BY <1>6, <1>11 DEF Prefs!ToSet
  <2>2. PICK j \in 1..n : c[j] = y BY <1>6, <1>11 DEF Prefs!ToSet
  <2>3. PICK k : k = Shift(f, t, i) OBVIOUS
  <2>4. PICK l : l = Shift(f, t, j) OBVIOUS
  <2>5. k \in DOMAIN m /\ l \in DOMAIN m /\ m[k] = x /\ m[l] = y
    BY <1>6, <1>8, <2>1, <2>2, <2>3, <2>4
  <2>6. Before(m, x, y) <=> k < l BY <1>9, <2>5, BeforeIs
  <2>7. i # j BY <1>11, <2>1, <2>2
  <2>8. /\ i = f => (k < l <=> t < j \/ (j = t /\ ~(f < t)))
        /\ j = f => (k < l <=> ~(t < i \/ (i = t /\ ~(f < t))))
        /\ i # f /\ j # f => (k < l <=> i < j)
    BY <1>6, <2>1, <2>2, <2>3, <2>4, <2>7, ShiftOrders
  <2>9. /\ Before(c, o, x) <=> t < i
        /\ Before(c, o, y) <=> t < j
        /\ Before(c, a, o) <=> f < t
        /\ Before(c, x, y) <=> i < j
    BY <1>3, <1>6, <2>1, <2>2, BeforeIs
  <2>10. (x = a <=> i = f) /\ (y = a <=> j = f) /\ (x = o <=> i = t) /\ (y = o <=> j = t)
    BY <1>3, <1>6, <2>1, <2>2 DEF Distinct
  <2>11. PutBefore(c, a, o, y) <=> t < j \/ (j = t /\ ~(f < t)) BY <2>9, <2>10 DEF PutBefore
  <2>12. PutBefore(c, a, o, x) <=> t < i \/ (i = t /\ ~(f < t)) BY <2>9, <2>10 DEF PutBefore
  <2> QED BY <2>6, <2>7, <2>8, <2>9, <2>10, <2>11, <2>12 DEF MovedBefore
<1> QED BY <1>4, <1>9, <1>10, <1>11

\* Among the cards shown, and among the hidden ones.
LEMMA ShownMove ==
    ASSUME NEW X, NEW c \in Seq(X), Distinct(c), NEW H, NEW v, v = Prefs!Without(c, H),
           NEW a \in Prefs!ToSet(v), NEW o \in Prefs!ToSet(v), a # o,
           NEW m, m = Prefs!arrayMove(c, Prefs!IndexIn(c, a), Prefs!IndexIn(c, o))
    PROVE  /\ Prefs!Without(m, H) = Prefs!arrayMove(v, Prefs!IndexIn(v, a), Prefs!IndexIn(v, o))
           /\ \A K : a \in K => Prefs!Without(m, K) = Prefs!Without(c, K)
<1>1. /\ v \in Seq(X) /\ Distinct(v) /\ Prefs!ToSet(v) = Prefs!ToSet(c) \ H
      /\ \A x, y \in Prefs!ToSet(v) : Before(v, x, y) <=> Before(c, x, y)
  BY WithoutOrder
<1>2. a \in Prefs!ToSet(c) /\ o \in Prefs!ToSet(c) BY <1>1
<1>3. /\ m \in Seq(X) /\ Distinct(m) /\ Prefs!ToSet(m) = Prefs!ToSet(c)
      /\ \A x, y \in Prefs!ToSet(c) : x # y => (Before(m, x, y) <=> MovedBefore(c, a, o, x, y))
  BY <1>2, MoveOrder
<1>4. Prefs!Without(m, H) = Prefs!arrayMove(v, Prefs!IndexIn(v, a), Prefs!IndexIn(v, o))
  <2>1. PICK s : s = Prefs!Without(m, H) OBVIOUS
  <2>2. PICK t : t = Prefs!arrayMove(v, Prefs!IndexIn(v, a), Prefs!IndexIn(v, o)) OBVIOUS
  <2>3. /\ s \in Seq(X) /\ Distinct(s) /\ Prefs!ToSet(s) = Prefs!ToSet(m) \ H
        /\ \A x, y \in Prefs!ToSet(s) : Before(s, x, y) <=> Before(m, x, y)
    BY <1>3, <2>1, WithoutOrder
  <2>4. /\ t \in Seq(X) /\ Distinct(t) /\ Prefs!ToSet(t) = Prefs!ToSet(v)
        /\ \A x, y \in Prefs!ToSet(v) : x # y => (Before(t, x, y) <=> MovedBefore(v, a, o, x, y))
    BY <1>1, <2>2, MoveOrder
  <2>5. Prefs!ToSet(s) = Prefs!ToSet(v) BY <1>1, <1>3, <2>3
  <2>6. ASSUME NEW x \in Prefs!ToSet(s), NEW y \in Prefs!ToSet(s), x # y
        PROVE  Before(s, x, y) <=> Before(t, x, y)
    <3>1. Before(s, x, y) <=> Before(m, x, y) BY <2>3
    <3>2. Before(m, x, y) <=> MovedBefore(c, a, o, x, y) BY <1>1, <1>3, <2>5, <2>6
    <3>3. Before(t, x, y) <=> MovedBefore(v, a, o, x, y) BY <2>4, <2>5, <2>6
    <3>4. /\ Before(v, o, x) <=> Before(c, o, x)
          /\ Before(v, o, y) <=> Before(c, o, y)
          /\ Before(v, a, o) <=> Before(c, a, o)
          /\ Before(v, x, y) <=> Before(c, x, y)
      BY <1>1, <2>5, <2>6
    <3>5. MovedBefore(c, a, o, x, y) <=> MovedBefore(v, a, o, x, y)
      BY <3>4 DEF MovedBefore, PutBefore
    <3> QED BY <3>1, <3>2, <3>3, <3>5
  <2>7. s = t BY <2>3, <2>4, <2>5, <2>6, OrderTells
  <2> QED BY <2>1, <2>2, <2>7
<1>5. ASSUME NEW K, a \in K PROVE Prefs!Without(m, K) = Prefs!Without(c, K)
  <2>1. PICK s : s = Prefs!Without(m, K) OBVIOUS
  <2>2. PICK t : t = Prefs!Without(c, K) OBVIOUS
  <2>3. /\ s \in Seq(X) /\ Distinct(s) /\ Prefs!ToSet(s) = Prefs!ToSet(m) \ K
        /\ \A x, y \in Prefs!ToSet(s) : Before(s, x, y) <=> Before(m, x, y)
    BY <1>3, <2>1, WithoutOrder
  <2>4. /\ t \in Seq(X) /\ Distinct(t) /\ Prefs!ToSet(t) = Prefs!ToSet(c) \ K
        /\ \A x, y \in Prefs!ToSet(t) : Before(t, x, y) <=> Before(c, x, y)
    BY <2>2, WithoutOrder
  <2>5. Prefs!ToSet(s) = Prefs!ToSet(t) BY <1>3, <2>3, <2>4
  <2>6. ASSUME NEW x \in Prefs!ToSet(s), NEW y \in Prefs!ToSet(s), x # y
        PROVE  Before(s, x, y) <=> Before(t, x, y)
    <3>1. Before(s, x, y) <=> Before(m, x, y) BY <2>3
    <3>2. x # a /\ y # a /\ x \in Prefs!ToSet(c) /\ y \in Prefs!ToSet(c) BY <1>5, <2>4, <2>5, <2>6
    <3>3. Before(m, x, y) <=> Before(c, x, y) BY <1>3, <2>6, <3>2 DEF MovedBefore
    <3>4. Before(t, x, y) <=> Before(c, x, y) BY <2>4, <2>5
    <3> QED BY <3>1, <3>3, <3>4
  <2>7. s = t BY <2>3, <2>4, <2>5, <2>6, OrderTells
  <2> QED BY <2>1, <2>2, <2>7
<1> QED BY <1>4, <1>5

LEMMA CardsAreDistinct == \A c : CardsOnce(c) => Distinct(c) /\ c \in Seq(Prefs!Cards)
BY DEF CardsOnce, Distinct

LandsAt(v, a, o) ==
    /\ Prefs!visibleIds(user') = Prefs!arrayMove(v, Prefs!IndexIn(v, a), Prefs!IndexIn(v, o))
    /\ Prefs!Without(user'.cards, Prefs!Cards \ user.hidden)
       = Prefs!Without(user.cards, Prefs!Cards \ user.hidden)

LEMMA DropLands ==
    ASSUME PrefInv, NEW a \in Prefs!Cards, NEW o \in Prefs!Cards, Prefs!handleDragEnd(a, o)
    PROVE  LandsAt(Prefs!visibleIds(user), a, o)
<1>1. PICK c : c = user.cards OBVIOUS
<1>2. PICK H : H = user.hidden OBVIOUS
<1>3. PICK v : v = Prefs!Without(c, H) OBVIOUS
<1>4. PICK m : m = Prefs!arrayMove(c, Prefs!IndexIn(c, a), Prefs!IndexIn(c, o)) OBVIOUS
<1>5. v = Prefs!visibleIds(user) BY <1>1, <1>2, <1>3 DEF Prefs!visibleIds
<1>6. PICK d : d = [user EXCEPT !.cards = Prefs!dropped(a, o)] OBVIOUS
<1>7. /\ isReady /\ a # o /\ a \in Prefs!ToSet(v) /\ o \in Prefs!ToSet(v)
      /\ user' = Prefs!normalizeUserData(d)
  BY <1>5, <1>6 DEF Prefs!handleDragEnd, Prefs!Clear, Prefs!updateUser
<1>8. user \in Users BY <1>7 DEF PrefInv
<1>9. CardsOnce(c) /\ user \in Drafts /\ H \in SUBSET Prefs!Cards BY <1>1, <1>2, <1>8 DEF Users
<1>10. Distinct(c) /\ c \in Seq(Prefs!Cards) BY <1>9, CardsAreDistinct
<1>11. /\ Prefs!Without(m, H) = Prefs!arrayMove(v, Prefs!IndexIn(v, a), Prefs!IndexIn(v, o))
       /\ \A K : a \in K => Prefs!Without(m, K) = Prefs!Without(c, K)
  BY <1>3, <1>4, <1>7, <1>10, ShownMove
<1>12. /\ Prefs!ToSet(v) = Prefs!ToSet(c) \ H /\ Prefs!ToSet(c) = Prefs!Cards
  BY <1>3, <1>9, <1>10, WithoutOrder, AsManyCards
<1>13. CardsOnce(m)
  <2>1. m \in Seq(Prefs!Cards) /\ Distinct(m) /\ Prefs!ToSet(m) = Prefs!ToSet(c)
    BY <1>4, <1>7, <1>10, <1>12, MoveOrder
  <2>2. \A x \in Prefs!Cards : \E i \in DOMAIN m : m[i] = x BY <1>12, <2>1 DEF Prefs!ToSet
  <2> QED BY <2>1, <2>2 DEF CardsOnce, Distinct
<1>14. d.cards = m /\ d.hidden = H BY <1>1, <1>2, <1>4, <1>6, <1>9 DEF Prefs!dropped, Drafts
<1>15. user'.cards = m /\ user'.hidden = H
  <2>1. user'.cards = Prefs!normalizeDashboardCardOrder(m) /\ user'.hidden = H \cap Prefs!Cards
    BY <1>7, <1>14 DEF Prefs!normalizeUserData
  <2> QED BY <1>9, <1>13, <2>1, NormalizedStays
<1>16. Prefs!visibleIds(user') = Prefs!Without(m, H) BY <1>15 DEF Prefs!visibleIds
<1>17. a \in Prefs!Cards \ H BY <1>7, <1>12
<1> QED BY <1>1, <1>2, <1>5, <1>11, <1>15, <1>16, <1>17 DEF LandsAt

\* A dropped card stands where the dashboard showed it, however many hidden cards lie
\* between, and the hidden cards keep their order (dashboard-bento.tsx).
THEOREM PanelsDropLandsWhereShown == Spec => DropLandsWhereShown
<1> DEFINE Lands ==
        \A a, o \in Prefs!Cards : Prefs!handleDragEnd(a, o) => LandsAt(Prefs!visibleIds(user), a, o)
<1>1. PrefInv => Lands BY DropLands
<1>2. Spec => []PrefInv BY PrefsStart, PrefsSteps, PTL DEF Spec, AllVars
<1>3. DropLandsWhereShown <=> [][Lands]_(Prefs!prefVars) 
  BY DEF DropLandsWhereShown, Prefs!DropLandsWhereShown, LandsAt
<1> HIDE DEF Lands
<1> QED BY <1>1, <1>2, <1>3, PTL

\* Preferences are the user's: they read back, and each step that drops a card puts it
\* where it was shown (user.tsx, dashboard-bento.tsx).
THEOREM PanelsPrefsAreTheUsers == Spec => PrefsAreTheUsers
BY PanelsPrefsAreKept, PanelsDropLandsWhereShown, PTL DEF PrefsAreTheUsers
================================================================================

------------------------------- MODULE ActivityFeed -------------------------------
(* The beginner's activity feed: what is recognised of the console's lines,    *)
(* with times read from stamps that name no day, merged with the alerts that   *)
(* telemetry raises, equal neighbours folded into one row.                     *)
EXTENDS Integers, Sequences, FiniteSets

CONSTANTS
    Day, Slack,                              \* the clock, in the stamps' unit
    Warmup, Sustain, RamSustain, Cooldown,   \* DEFAULT_TELEMETRY_ALERT_OPTIONS
    MaxNow, MaxLines, MaxSamples             \* bounds

VARIABLES
    topic,      \* whether this behaviour is about lines or about samples
    now,
    lines,      \* the terminal's lines, and when each was really printed
    readAt,     \* when the page last read them
    alerts,     \* raised for this server, oldest first
    tracker,    \* the state of the alerts, or NoTracker
    samples     \* the samples of this run

feedVars == <<topic, now, lines, readAt, alerts, tracker, samples>>

None      == -1000
NoTracker == [firstSampleAt |-> None]
Idle      == [badSince |-> None, firing |-> FALSE, lastAlertAt |-> None]

\* The clock starts shortly before midnight.
Evening == 2 * Day - 2

\* Events of one of these kinds are shown as one, with a count.
Collapsible == {"server-slow", "low-tps", "high-ram"}

FeedInit ==
    /\ topic \in {"lines", "samples"}
    /\ now = Evening /\ lines = <<>> /\ readAt = now /\ alerts = <<>> /\ tracker = NoTracker /\ samples = <<>>

--------------------------------------------------------------------------------
PatternAnywhere(line) ==    \* variant: chat is matched last
    IF line.says # "other" THEN line.says ELSE IF line.chat THEN "chat" ELSE "other"

\* A player's chat is matched before every other pattern.
PatternOf(line) == IF line.chat THEN "chat" ELSE line.says

\* Only what the server printed, under [stdout] or [stderr].
parseConsoleLine(line) == IF line.stream = "system" THEN "other" ELSE PatternOf(line)

\* The last time at or before the reading that the stamp can mean, give or take the slack.
resolveLogTimestamp(stamp) ==
    LET today == (readAt \div Day) * Day + stamp
    IN  IF today > readAt + Slack THEN today - Day ELSE today

collapseKey(e) == IF e.kind \in Collapsible THEN <<e.kind>> ELSE <<e.kind, e.no>>

pushCollapsed(events, e) ==
    LET n == Len(events)
    IN  IF n # 0 /\ collapseKey(events[n]) = collapseKey(e)
        THEN [events EXCEPT ![n] = [e EXCEPT !.id = events[n].id,
                                             !.count = events[n].count + e.count,
                                             !.at = IF e.at = None THEN events[n].at ELSE e.at]]
        ELSE Append(events, e)

hasStamp(line) == line.stream # "system" /\ line.stamp # None

\* A line without a stamp inherits the last time seen.
readLine(before, i) ==
    LET kind  == parseConsoleLine(lines[i])
        at    == IF hasStamp(lines[i]) THEN resolveLogTimestamp(lines[i].stamp) ELSE before.at
        event == [kind |-> kind, id |-> <<"line", i>>, no |-> lines[i].no, at |-> at, count |-> 1]
    IN  [at |-> at, events |-> IF kind = "other" THEN before.events
                               ELSE pushCollapsed(before.events, event)]

buildConsoleActivity ==
    LET read[n \in 0..Len(lines)] ==
            IF n = 0 THEN [at |-> None, events |-> <<>>] ELSE readLine(read[n - 1], n)
    IN  read[Len(lines)].events

\* Before each timed console event the alerts older than it; the rest at the end.
mergeNext(m, console) ==
    LET alertIsDue == /\ m.alert < Len(alerts)
                      /\ \/ m.event = Len(console)
                         \/ /\ console[m.event + 1].at # None
                            /\ alerts[m.alert + 1].at < console[m.event + 1].at
    IN  IF alertIsDue
        THEN [event |-> m.event, alert |-> m.alert + 1,
              rows |-> pushCollapsed(m.rows, alerts[m.alert + 1])]
        ELSE [event |-> m.event + 1, alert |-> m.alert,
              rows |-> pushCollapsed(m.rows, console[m.event + 1])]

mergeActivityEvents(console) ==
    LET all == Len(console) + Len(alerts)
        merged[n \in 0..all] ==
            IF n = 0 THEN [event |-> 0, alert |-> 0, rows |-> <<>>]
            ELSE mergeNext(merged[n - 1], console)
    IN  merged[all].rows

Feed == mergeActivityEvents(buildConsoleActivity)

--------------------------------------------------------------------------------
stepWithoutHysteresis(w, level, sustain) ==    \* variant: any sample that is not bad rearms
    LET badSince == IF w.badSince = None THEN now ELSE w.badSince
        fires == /\ level = "bad" /\ now - badSince >= sustain /\ ~w.firing
                 /\ w.lastAlertAt = None \/ now - w.lastAlertAt >= Cooldown
    IN  [fire |-> fires,
         watch |-> IF level # "bad" THEN [w EXCEPT !.badSince = None, !.firing = FALSE]
                   ELSE IF fires THEN [badSince |-> badSince, firing |-> TRUE, lastAlertAt |-> now]
                   ELSE [w EXCEPT !.badSince = badSince]]

\* A metric past its threshold for long enough fires, once until it recovers.
stepWatch(w, level, sustain) ==
    LET badSince == IF w.badSince = None THEN now ELSE w.badSince
        fires == /\ level = "bad" /\ now - badSince >= sustain /\ ~w.firing
                 /\ w.lastAlertAt = None \/ now - w.lastAlertAt >= Cooldown
    IN  [fire |-> fires,
         watch |-> IF level # "bad"
                   THEN [w EXCEPT !.badSince = None, !.firing = @ /\ level # "good"]
                   ELSE IF fires THEN [badSince |-> badSince, firing |-> TRUE, lastAlertAt |-> now]
                   ELSE [w EXCEPT !.badSince = badSince]]

noteTelemetrySample(sample) ==
    LET state == IF tracker = NoTracker
                 THEN [firstSampleAt |-> now, tps |-> Idle, ram |-> Idle] ELSE tracker
        tps   == stepWatch(state.tps, sample.tps, Sustain)
        ram   == stepWatch(state.ram, sample.ram, RamSustain)
        row(kind) == [kind |-> kind, id |-> <<kind, now>>, no |-> now, at |-> now, count |-> 1]
    IN  IF now - state.firstSampleAt < Warmup
        THEN tracker' = state /\ UNCHANGED alerts
        ELSE /\ tracker' = [state EXCEPT !.tps = tps.watch, !.ram = ram.watch]
             /\ alerts' = alerts \o (IF tps.fire THEN <<row("low-tps")>> ELSE <<>>)
                                 \o (IF ram.fire THEN <<row("high-ram")>> ELSE <<>>)

\* "mid" is between the two thresholds, or not known.
Samples ==
    [tps : {"bad", "mid", "good"}, ram : {"good"}] \union [tps : {"bad", "good"}, ram : {"bad"}]

noteServerTelemetry ==
    /\ topic = "samples" /\ now < Evening + MaxSamples /\ now' = now + 1
    /\ \E sample \in Samples :
          /\ noteTelemetrySample(sample)
          /\ samples' = Append(samples, [at |-> now, low |-> sample.tps, high |-> sample.ram])
    /\ UNCHANGED <<topic, lines, readAt>>

\* It is not online: the next run warms up again.
resetTelemetryTracker ==
    /\ topic = "samples" /\ tracker # NoTracker /\ tracker' = NoTracker /\ samples' = <<>>
    /\ UNCHANGED <<topic, now, lines, readAt, alerts>>

\* What a line can be: recognised or not, said in chat, mserve's own, unstamped.
Shapes ==
    [stream : {"stdout"}, says : {"player-joined", "server-slow", "other"}, chat : {FALSE}]
    \union [stream : {"stdout"}, says : {"server-slow"}, chat : {TRUE}]
    \union [stream : {"system"}, says : {"server-slow"}, chat : {FALSE}]

\* The log's clock may be ahead by the slack.
Line ==
    /\ topic = "lines" /\ Len(lines) < MaxLines
    /\ \E l \in Shapes, stamp \in {None, now % Day, (now + Slack) % Day} :
          lines' = Append(lines, [stream |-> l.stream, says |-> l.says, chat |-> l.chat,
                                  no |-> Len(lines), real |-> now, stamp |-> stamp])
    /\ readAt' = now
    /\ UNCHANGED <<topic, now, alerts, tracker, samples>>

\* For the merge it does not matter which metric an alert is about, nor why.
Alert ==
    /\ topic = "lines" /\ Len(alerts) < 2
    /\ alerts' = Append(alerts, [kind |-> "low-tps", id |-> <<"low-tps", now>>, no |-> now,
                                 at |-> now, count |-> 1])
    /\ now' = now + 1 /\ now < MaxNow
    /\ UNCHANGED <<topic, lines, readAt, tracker, samples>>

TimePasses ==
    /\ topic = "lines" /\ now < MaxNow /\ now' = now + 1
    /\ UNCHANGED <<topic, lines, readAt, alerts, tracker, samples>>

\* The page is opened again; while it stays open it reads the lines when they change.
Visit ==
    /\ topic = "lines" /\ readAt' = now
    /\ UNCHANGED <<topic, now, lines, alerts, tracker, samples>>

FeedNext == noteServerTelemetry \/ resetTelemetryTracker \/ Line \/ Alert \/ TimePasses \/ Visit
FeedSpec == FeedInit /\ [][FeedNext]_feedVars

--------------------------------------------------------------------------------
\* Within a run an alert is raised exactly when its metric was bad all through the
\* wait, the warm-up is over, and since the last alert it recovered and the
\* cooldown passed (telemetry-alerts.ts).
AlertsAreDeserved ==
    topic = "samples" =>
        LET counted == {i \in DOMAIN samples : samples[i].at - samples[1].at >= Warmup}
            level(i, kind) == IF kind = "low-tps" THEN samples[i].low ELSE samples[i].high
            raised(kind) ==
                {alerts[j].at : j \in {x \in DOMAIN alerts : alerts[x].kind = kind
                                                           /\ alerts[x].at >= samples[1].at}}
            badAll(kind, from, to) ==
                \A i \in counted : samples[i].at \in from..to => level(i, kind) = "bad"
            recovered(kind, from, to) ==
                \E i \in counted : samples[i].at \in from..to /\ level(i, kind) = "good"
            deserved(kind, wait, t) ==
                /\ \E i \in counted : samples[i].at <= t - wait
                /\ badAll(kind, t - wait, t)
                /\ \A u \in raised(kind) : u < t => t - u >= Cooldown /\ recovered(kind, u, t)
        IN  \A i \in counted :
              LET t == samples[i].at
              IN  /\ t \in raised("low-tps") <=> deserved("low-tps", Sustain, t)
                  /\ t \in raised("high-ram") <=> deserved("high-ram", RamSustain, t)

\* The log's clock was past midnight already when it stamped this line, and ours was not
\* when the line was read.
AheadOfMidnight(l) ==
    l.stamp # None /\ l.stamp < l.real % Day /\ readAt \div Day = l.real \div Day

\* Does not hold: a line stamped ahead across midnight is dated a day too early until
\* it is read after our own midnight, and what came before it is shown after it.
EveryStampIsDated ==
    \A i \in DOMAIN lines : hasStamp(lines[i]) /\ readAt - lines[i].real < Day - Slack =>
        resolveLogTimestamp(lines[i].stamp) \in lines[i].real .. lines[i].real + Slack

\* How many events the rows tell of.
told(feed) ==
    LET upTo[n \in 0..Len(feed)] == IF n = 0 THEN 0 ELSE upTo[n - 1] + feed[n].count
    IN  upTo[Len(feed)]

\* Unless a line was a day old when it was read, or came from beyond a midnight, the feed
\* is in the order of what happened, with the right times, counts every recognised line
\* and alert once, gives every row a key of its own, and takes no chat for the server's
\* word (console-events.ts).
FeedIsTrue ==
    /\ topic = "lines"
    /\ \A i \in DOMAIN lines : readAt - lines[i].real < Day - Slack /\ ~AheadOfMidnight(lines[i])
    =>
        LET feed == Feed
        IN  /\ told(feed) = Cardinality({i \in DOMAIN lines : parseConsoleLine(lines[i]) # "other"})
                            + Len(alerts)
            /\ \A i \in DOMAIN lines : hasStamp(lines[i]) =>
                  resolveLogTimestamp(lines[i].stamp) \in lines[i].real .. lines[i].real + Slack
            /\ \A i, j \in DOMAIN feed : feed[i].id = feed[j].id => i = j
            /\ \A i, j \in DOMAIN feed :
                  i < j /\ feed[i].at # None /\ feed[j].at # None => feed[i].at <= feed[j].at + Slack
            /\ \A i \in DOMAIN feed :
                  feed[i].kind = "chat" <=>
                      feed[i].id[1] = "line" /\ lines[feed[i].id[2]].chat
================================================================================

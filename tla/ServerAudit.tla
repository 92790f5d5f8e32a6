--------------------------------- MODULE ServerAudit ---------------------------------
(* The settings check of a server's properties: its findings and one-click      *)
(* fixes, the section that runs it, and the dashboard's "Could use a look".     *)
EXTENDS Integers, Sequences, FiniteSets, SequencesExt

CONSTANTS Faulty,       \* the keys whose values vary
          MaxEvents    \* bound

VARIABLES
    file,       \* server.properties: each key's value as the audit weighs it
    role, heap, status,       \* behind a proxy or not; its memory; its state
    findings, scans,          \* the section's findings; scans that have not answered
    isLoading, isApplying,
    count, counting,          \* the session's critical count, or NoCount; a count under way
    world,                    \* what else the dashboard looks at: backups and their share
    events

auditVars == <<file, role, heap, status, findings, scans, isLoading, isApplying, count, counting, world, events>>

\* "good" is the value the audit passes, "bad" the one it reports, "unset" the
\* vanilla default: for some keys the one, for some the other.
DefaultGood == {"online-mode", "enforce-secure-profile", "spawn-protection",
                "network-compression-threshold", "max-players", "enable-rcon"}
DefaultBad  == {"white-list", "enforce-whitelist", "rate-limit", "prevent-proxy-connections",
                "broadcast-rcon-to-ops"}
Keys        == DefaultGood \union DefaultBad
NoCount     == [role |-> "unknown", critical |-> FALSE]

\* A file that sets every key, or only those it has wrong.
Files == {[k \in Keys |-> IF k \in bad THEN "bad" ELSE rest] : bad \in SUBSET Faulty,
                                                               rest \in {"good", "unset"}}

AuditInit ==
    /\ file \in Files /\ role \in {"alone", "backend"} /\ heap = "large" /\ status = "offline"
    /\ findings = {} /\ scans = {[role |-> role, heap |-> heap, fixed |-> FALSE]}
    /\ isLoading = TRUE /\ isApplying = FALSE
    /\ count = NoCount /\ counting = {} /\ world = [newest |-> "recent", bloat |-> FALSE] /\ events = 0

--------------------------------------------------------------------------------
(* The rules. *)

isBad(f, key) == f[key] = "bad" \/ (f[key] = "unset" /\ key \in DefaultBad)

Finding(id, severity, fix) == [id |-> id, severity |-> severity, fix |-> fix]
Rule(f, id, severity) ==
    IF isBad(f, id) THEN Finding(id, severity, {id}) ELSE Finding(id, "pass", {})

fixOneOnly(f, r) ==    \* variant: each finding's fix writes its own key only
    {IF r = "backend" THEN Finding("online-mode", "pass", {}) ELSE Rule(f, "online-mode", "critical"),
     Finding("white-list", IF isBad(f, "white-list") \/ isBad(f, "enforce-whitelist") THEN "warn"
                           ELSE "pass", {"white-list"})}

\* A backend's players are authenticated by its proxy.
joinRules(f, r) ==
    {IF r = "backend" THEN Finding("online-mode", "pass", {}) ELSE Rule(f, "online-mode", "critical"),
     IF isBad(f, "white-list")
     THEN Finding("white-list", "warn", {"white-list", "enforce-whitelist"})
     ELSE IF isBad(f, "enforce-whitelist") THEN Finding("white-list", "warn", {"enforce-whitelist"})
          ELSE Finding("white-list", "pass", {})}

trafficRules(f) ==
    {Rule(f, "enforce-secure-profile", "warn"), Rule(f, "rate-limit", "warn"),
     Rule(f, "prevent-proxy-connections", "info"), Rule(f, "spawn-protection", "info"),
     Rule(f, "network-compression-threshold", "warn")}

\* The broadcast matters while RCON is on; too many players for the memory have no fix.
operatorRules(f, memory) ==
    {IF isBad(f, "enable-rcon") THEN Rule(f, "broadcast-rcon-to-ops", "warn")
     ELSE Finding("broadcast-rcon-to-ops", "pass", {}),
     Finding("max-players", IF isBad(f, "max-players") /\ memory = "small" THEN "warn" ELSE "pass", {})}

auditServerProperties(f, r, memory) == joinRules(f, r) \union trafficRules(f) \union operatorRules(f, memory)

Critical(found) == \E x \in found : x.severity = "critical"
Written(f, keys) == [k \in Keys |-> IF k \in keys THEN "good" ELSE f[k]]

--------------------------------------------------------------------------------
(* The section: every change of what a scan weighs starts another. *)

Step == events < MaxEvents /\ events' = events + 1

refresh(r, memory, fixed) ==
    /\ scans' = scans \union {[role |-> r, heap |-> memory, fixed |-> fixed]}
    /\ isLoading' = TRUE

\* The first answer ends the loading, whichever scan gave it.
ScanReturns ==
    /\ \E s \in scans : /\ scans' = scans \ {s}
                        /\ findings' = auditServerProperties(file, s.role, s.heap)
                        /\ isApplying' = (isApplying /\ ~s.fixed)
    /\ isLoading' = FALSE
    /\ UNCHANGED <<file, role, heap, status, count, counting, world, events>>

\* The file is read at boot: it is fixed while the server is stopped, one write at a time.
apply(keys) ==
    /\ keys # {} /\ status \in {"offline", "crashed", "sleeping"} /\ ~isApplying /\ Step
    /\ file' = Written(file, keys)
    /\ count' = NoCount    \* forgetCriticalCount
    /\ isApplying' = TRUE /\ refresh(role, heap, TRUE)
    /\ UNCHANGED <<role, heap, status, findings, counting, world>>

\* A row has its button only while nothing is loading.
handleFix == ~isLoading /\ \E x \in findings : apply(x.fix)

applyAllRecommended == apply(UNION {x.fix : x \in findings})

--------------------------------------------------------------------------------
(* The dashboard: a count per session, read again when the role changed. *)

\* What is read is read now and stored when the scan is done.
countCriticalFindings ==
    /\ counting = {} /\ count.role # role
    /\ counting' = {[role |-> role, critical |-> Critical(auditServerProperties(file, role, heap))]}
    /\ UNCHANGED <<file, role, heap, status, findings, scans, isLoading, isApplying, count, world, events>>

CountReturns ==
    /\ counting # {} /\ count' = (CHOOSE c \in counting : TRUE) /\ counting' = {}
    /\ UNCHANGED <<file, role, heap, status, findings, scans, isLoading, isApplying, world, events>>

SeverityRank(kind) == CASE kind \in {"crashed", "security"} -> 0
                        [] kind \in {"no-backup", "stale-backup", "backup-bloat"} -> 1
                        [] kind = "sleeping" -> 2

\* By rule, then sorted by severity, the order of the rules kept.
buildAttentionItems ==
    LET rules == <<[kind |-> "crashed", holds |-> status = "crashed"],
                   [kind |-> "security", holds |-> count.critical],
                   [kind |-> "no-backup", holds |-> world.newest = "none"],
                   [kind |-> "stale-backup", holds |-> world.newest = "old"],
                   [kind |-> "backup-bloat", holds |-> world.bloat],
                   [kind |-> "sleeping", holds |-> status = "sleeping"]>>
        shown == SelectSeq(rules, LAMBDA r : r.holds)
    IN  FoldLeft(LAMBDA out, rank : out \o SelectSeq(shown, LAMBDA r : SeverityRank(r.kind) = rank),
                 <<>>, <<0, 1, 2>>)

\* A card's button: the server starts, or the page opens, its section new.
OpenCard ==
    /\ Step
    /\ \E i \in DOMAIN buildAttentionItems : LET kind == buildAttentionItems[i].kind IN
          \/ /\ kind \in {"crashed", "sleeping"} /\ status' = "online"
             /\ UNCHANGED <<findings, scans, isLoading, isApplying>>
          \/ /\ kind = "security" /\ UNCHANGED status
             /\ findings' = {} /\ isLoading' = TRUE /\ isApplying' = FALSE
             /\ scans' = {[role |-> role, heap |-> heap, fixed |-> FALSE]}
    /\ UNCHANGED <<file, role, heap, count, counting, world>>

--------------------------------------------------------------------------------
(* What happens around them. *)

\* The server joins or leaves a network, or its live heap is another.
Weigh ==
    /\ Step
    /\ \/ role' = (IF role = "alone" THEN "backend" ELSE "alone") /\ UNCHANGED heap
       \/ heap' = (IF heap = "large" THEN "small" ELSE "large") /\ UNCHANGED role
    /\ refresh(role', heap', FALSE)
    /\ UNCHANGED <<file, status, findings, isApplying, count, counting, world>>

\* The properties editor, a network's plan or the game writes the file.
Edited ==
    /\ Step /\ \E k \in {"online-mode", "enforce-whitelist"}, v \in {"good", "bad"} :
                   file[k] # v /\ file' = [file EXCEPT ![k] = v]
    /\ UNCHANGED <<role, heap, status, findings, scans, isLoading, isApplying, count, counting, world>>

Runs ==
    /\ Step /\ \E s \in {"offline", "online", "crashed", "sleeping"} : status' = s
    /\ world' \in [newest : {"none", "recent", "old"}, bloat : {world.bloat}]
    /\ UNCHANGED <<file, role, heap, findings, scans, isLoading, isApplying, count, counting>>

AuditNext ==
    \/ ScanReturns \/ handleFix \/ applyAllRecommended \/ countCriticalFindings \/ CountReturns
    \/ OpenCard \/ Weigh \/ Edited \/ Runs

AuditSpec == AuditInit /\ [][AuditNext]_auditVars

--------------------------------------------------------------------------------
Severities == <<"pass", "info", "warn", "critical">>
Worse(a, b) == \E i, j \in 1..4 : i > j /\ Severities[i] = a /\ Severities[j] = b

\* On whatever the file holds, the fix of a finding makes that finding pass and no
\* other worse, and all fixes together leave none to recommend
\* (server-security-audit.ts:61-280, use-security-audit.ts:71-81).
FixesHelp ==
    LET now == auditServerProperties(file, role, heap)
        after(keys) == auditServerProperties(Written(file, keys), role, heap)
    IN  /\ \A x \in now : x.fix # {} => \A y \in after(x.fix) :
              /\ y.id = x.id => y.severity = "pass"
              /\ \A z \in now : z.id = y.id => ~Worse(y.severity, z.severity)
        /\ \A y \in after(UNION {x.fix : x \in now}) : y.fix = {}

\* With no scan under way the section shows the audit of what the server is now.
FindingsAreOfRole ==
    scans = {} => \A x \in findings : x.id = "online-mode" /\ role = "backend" => x.fix = {}

\* The count the dashboard keeps is the file's (server-security-scan.ts:93 "Drops a
\* server's cached count after its security settings changed").
CountIsTrue ==
    count.role = role /\ counting = {} => count.critical = Critical(auditServerProperties(file, role, heap))
================================================================================

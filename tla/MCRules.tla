-------------------------------- MODULE MCRules --------------------------------
(* The frontend's pure rules over every small input: a TOML document built     *)
(* line by line and patched, and cycles of failed boots on every machine.      *)
EXTENDS TomlPatch

CONSTANTS
    MaxLines,     \* length of a document (bound)
    RuleMajors        \* Javas a machine may have (bound)

Java == INSTANCE JavaChoice

VARIABLES
    doc,          \* the document, and below it what it is to say
    wanted,
    server,       \* a server whose boots fail, and what they fail on
    env,
    boot          \* what recovery does next, and its record

docVars   == <<doc, wanted>>
bootVars  == <<server, env, boot>>
rulesVars == <<docVars, bootVars>>

None   == [tables |-> {}, at |-> <<>>]
NoBoot == [does |-> "off", rec |-> Java!createStartRecovery(Java!None, 0)]

\* Newest first, as the scan lists them.
NewestFirst(majors) ==
    {o \in [1 .. Cardinality(majors) -> majors] : \A i, j \in DOMAIN o : i < j => o[i] > o[j]}
Installed(order) == [i \in DOMAIN order |-> [path |-> Java!ToString(order[i]), major |-> order[i]]]

\* A version from each span with needs of its own, and one nobody can parse.
Game(major, minor, patch) ==
    [known |-> TRUE, major |-> major, minor |-> minor, patch |-> patch]
Games == {Java!NoVersion, Game(26, 1, 0), Game(1, 20, 5), Game(1, 18, 2), Game(1, 17, 1),
          Game(1, 8, 9)}

RulesInit ==
    /\ doc = <<>> /\ wanted = None /\ boot = NoBoot
    /\ server \in [pin : {Java!None}, nogui : BOOLEAN]
    /\ \E majors \in SUBSET RuleMajors, p \in {"paper", "velocity", "bungeecord"}, v \in Games :
          \E default \in {Java!None} \union {Java!ToString(m) : m \in majors},
             order \in NewestFirst(majors) :
              env = [globalDefault |-> default, runtimes |-> Installed(order),
                     need |-> Java!resolveJavaRequirement(p, v)]

AddLine ==
    /\ wanted = None /\ Len(doc) < MaxLines
    /\ \E l \in Line : doc' = Append(doc, l) /\ Parses(doc')
    /\ UNCHANGED wanted

Edit ==
    /\ wanted = None
    /\ \E values \in [Sections -> [TomlKeys -> TomlValues \union {Absent}]] :
          /\ \A t \in Tables : HeaderOf(doc, t) = {} => \A k \in TomlKeys : values[t][k] = Absent
          /\ wanted' = [tables |-> TomlParse(doc).tables, at |-> values]
    /\ UNCHANGED doc

\* Every boot crashes over Java or over --nogui, and every wait ends well.
Boot ==
    /\ boot.does \in {"off", "retry"}
    /\ LET was == IF boot.does = "off" THEN Java!createResolvedStartRecovery(server, env)
                  ELSE boot.rec
       IN  \E line \in {"javaError", "noguiError"} :
              boot' = Java!recoverFromBootCrash(Java!noteRecoveryOutput(was, server, line),
                                                server, env)
    /\ UNCHANGED <<server, env>>

Waited ==
    /\ \/ /\ boot.does = "strip" /\ server' = [server EXCEPT !.nogui = FALSE]
          /\ boot' = [does |-> "retry", rec |-> Java!FlagsSaved(boot.rec, server, env)]
       \/ /\ boot.does = "download" /\ UNCHANGED server
          /\ boot' = [does |-> "retry",
                      rec |-> Java!Downloaded(boot.rec, [path |-> "new",
                                                         major |-> env.need.recommended])]
    /\ UNCHANGED env

\* Documents are built on one machine only: it does not matter to them.
AnyMachine ==
    /\ env.runtimes = <<>> /\ ~server.nogui
    /\ env.need = Java!resolveJavaRequirement("paper", Java!NoVersion)

RulesNext ==
    \/ boot = NoBoot /\ AnyMachine /\ (AddLine \/ Edit) /\ UNCHANGED bootVars
    \/ doc = <<>> /\ wanted = None /\ (Boot \/ Waited) /\ UNCHANGED docVars
RulesSpec == RulesInit /\ [][RulesNext]_rulesVars

Patched == patchTomlText(doc, wanted)
Kept(d) == SelectSeq(d, LAMBDA l : l.is # "entry")
Above(d) == {<<d[i], d[i + 1]>> : i \in {j \in DOMAIN d : j + 1 \in DOMAIN d /\ d[j].is = "comment"
                                                   /\ d[j + 1].is = "header"}}

\* Edits to the values of a document whose tables stay never fall back to the
\* rewrite that drops every comment: the patch is exact, keeps every comment
\* and header in its order, and lets nothing between a table's header and the
\* comment over it.
PatchIsExact ==
    wanted # None =>
        /\ Patched # NoPatch
        /\ TomlParse(Patched) = wanted
        /\ Kept(Patched) = Kept(doc)
        /\ Above(doc) \subseteq Above(Patched)

--------------------------------------------------------------------------------
InstalledMajors == {env.runtimes[i].major : i \in DOMAIN env.runtimes}
Fits(m)         == Java!isJavaCompatible(m, env.need)

\* A cycle of failed boots ends: it tries no installed Java twice, nor one that
\* is too old while one that fits is left, and downloads once, when all failed.
FallbackTriesEachOnce ==
    LET tried == boot.rec.attempted
        own   == IF boot.rec.executable = "new" THEN Java!Front(tried) ELSE tried
    IN  /\ \A i, j \in DOMAIN own : own[i] = own[j] => i = j
        /\ \A i \in DOMAIN own :
              i > 1 /\ ~Fits(own[i]) =>
                  \A m \in InstalledMajors : Fits(m) => \E j \in 1..(i - 1) : own[j] = m
        /\ boot.does = "download" => InstalledMajors \subseteq Java!ToSet(own)
================================================================================

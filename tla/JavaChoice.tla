------------------------------- MODULE JavaChoice -------------------------------
(* Which Java starts a server: the requirement of a Minecraft version, the     *)
(* choice among the installed runtimes, the step-down after a failed boot, and *)
(* the record that remembers one cycle of attempts.                            *)
EXTENDS Integers, Sequences, SequencesExt, FiniteSetsExt

None == ""    \* an absent path or pin ('' and null in the code)

--------------------------------------------------------------------------------
\* A parsed Minecraft version: 1.minor.patch, or a year from 26 on.
NoVersion == [known |-> FALSE, major |-> 0, minor |-> 0, patch |-> 0]

Needs(min, recommended, confidence) ==
    [minimum |-> min, recommended |-> recommended, confidence |-> confidence]

requirementFromMinecraftVersion(v) ==
    IF v.major >= 26 THEN Needs(25, 25, "high")
    ELSE IF v.minor >= 21 \/ (v.minor = 20 /\ v.patch >= 5) THEN Needs(21, 21, "high")
    ELSE IF v.minor >= 18 THEN Needs(17, 21, "high")
    ELSE IF v.minor = 17 THEN Needs(16, 17, "high")
    ELSE Needs(8, 8, "high")

\* The proxies carry no Minecraft version that means anything.
resolveJavaRequirement(provider, v) ==
    IF provider = "velocity" THEN Needs(17, 21, "high")
    ELSE IF provider = "bungeecord" THEN Needs(8, 17, "medium")
    ELSE IF v.known THEN requirementFromMinecraftVersion(v)
    ELSE Needs(17, 21, "medium")

isJavaCompatible(major, need) == major >= need.minimum

Majors(runtimes) == {runtimes[i].major : i \in DOMAIN runtimes}

\* The lowest compatible major from the recommended one up, or the highest below.
chooseBestInstalledJava(majors, need) ==
    LET compatible == {m \in majors : isJavaCompatible(m, need)}
        fit == {m \in compatible : m >= need.recommended}
    IN  IF compatible = {} THEN 0
        ELSE IF fit # {} THEN Min(fit) ELSE Max(compatible)

--------------------------------------------------------------------------------
\* Runtimes are listed newest first; one path is one runtime.
findJavaRuntimeByExecutablePath(path, runtimes) ==
    LET found == {i \in DOMAIN runtimes : runtimes[i].path = path}
    IN  IF found = {} THEN [path |-> None, major |-> 0] ELSE runtimes[Min(found)]

FirstOf(major, runtimes) == runtimes[Min({i \in DOMAIN runtimes : runtimes[i].major = major})]

\* Server pin, then a global pin that is not known to be too old, then the best
\* compatible runtime, then the newest; major 0 is one nobody knows.
resolveServerJavaExecutable(pin, globalDefault, runtimes, need) ==
    LET pinnedTo(path) ==
            [path |-> path, pinned |-> TRUE,
             major |-> findJavaRuntimeByExecutablePath(path, runtimes).major]
        global == pinnedTo(globalDefault)
        automatic(m) == [path |-> FirstOf(m, runtimes).path, pinned |-> FALSE, major |-> m]
        best == chooseBestInstalledJava(Majors(runtimes), need)
    IN  IF pin # None THEN pinnedTo(pin)
        ELSE IF globalDefault # None
                /\ (global.major = 0 \/ isJavaCompatible(global.major, need)) THEN global
        ELSE IF best # 0 THEN automatic(best)
        ELSE IF runtimes # <<>> THEN automatic(Max(Majors(runtimes)))
        ELSE [path |-> None, pinned |-> FALSE, major |-> 0]

planFromTheLast(runtimes, attempted, need) ==    \* a mutant: knows the last attempt only
    LET last == IF attempted = <<>> THEN 0 ELSE Last(attempted)
        left == Majors(runtimes) \ {last}
        above == {m \in left : isJavaCompatible(m, need) /\ m > last}
    IN  IF left = {} THEN 0 ELSE IF above # {} THEN Min(above) ELSE Max(left)

\* Compatible majors above the last attempt, lowest first; those below, highest
\* first; incompatible ones, highest first. 0 when every major was tried.
planJavaFallback(runtimes, attempted, need) ==
    LET last == IF attempted = <<>> THEN 0 ELSE Last(attempted)
        left == Majors(runtimes) \ ToSet(attempted)
        compatible == {m \in left : isJavaCompatible(m, need)}
        above == {m \in compatible : m > last}
    IN  IF left = {} THEN 0
        ELSE IF above # {} THEN Min(above)
        ELSE IF compatible # {} THEN Max(compatible)
        ELSE Max(left)


--------------------------------------------------------------------------------
\* StartRecovery: the bookkeeping of one cycle of starts.
createStartRecovery(executable, major) ==
    [everRunning |-> FALSE, javaError |-> FALSE, noguiError |-> FALSE,
     stripAttempted |-> FALSE, downloadOffered |-> FALSE,
     attempted |-> IF major = 0 THEN <<>> ELSE <<major>>,
     didFallback |-> FALSE, executable |-> executable]

\* A server here is its pin and whether its flags hold --nogui; an environment is
\* the global default, the runtimes and the requirement.
Resolved(server, env) ==
    resolveServerJavaExecutable(server.pin, env.globalDefault, env.runtimes, env.need)

createResolvedStartRecovery(server, env) ==
    createStartRecovery(Resolved(server, env).path, Resolved(server, env).major)

noteRecoveryOutput(rec, server, line) ==
    IF rec.everRunning THEN rec
    ELSE [rec EXCEPT !.noguiError = @ \/ line = "noguiError",
                     !.javaError  = @ \/ (line = "javaError" /\ server.pin = None)]

hasFlaggedBootFailure(rec) == ~rec.everRunning /\ (rec.javaError \/ rec.noguiError)

pinFoundOnline(rec, server) ==
    IF rec.didFallback /\ server.pin = None THEN rec.executable ELSE None

noteRecoveryOnline(rec) ==
    [rec EXCEPT !.everRunning = TRUE, !.javaError = FALSE, !.noguiError = FALSE,
                !.didFallback = FALSE, !.attempted = <<>>]

\* recoverFromBootCrash up to its first await: `does` is what follows, one of
\* strip (save the flags without --nogui), retry, download, failed, none.
recoverFromBootCrash(rec, server, env) ==
    LET strips == rec.noguiError /\ ~rec.stripAttempted /\ server.nogui
        exe  == IF rec.executable # None THEN rec.executable ELSE Resolved(server, env).path
        rec1 == IF strips THEN [rec EXCEPT !.noguiError = FALSE, !.stripAttempted = TRUE] ELSE rec
        rec2 == [rec1 EXCEPT !.javaError = FALSE]
        next == planJavaFallback(env.runtimes, rec.attempted, env.need)
    IN  IF rec.everRunning THEN [does |-> "none", rec |-> rec]
        ELSE IF strips /\ exe # None THEN [does |-> "strip", rec |-> rec1]
        ELSE IF ~(rec1.javaError /\ server.pin = None) THEN [does |-> "none", rec |-> rec1]
        ELSE IF next # 0
             THEN [does |-> "retry",
                   rec  |-> [rec2 EXCEPT !.attempted = Append(@, next), !.didFallback = TRUE,
                                         !.executable = FirstOf(next, env.runtimes).path]]
        ELSE IF ~rec.downloadOffered
             THEN [does |-> "download", rec |-> [rec2 EXCEPT !.downloadOffered = TRUE]]
        ELSE [does |-> "failed", rec |-> rec2]

\* After the await: the flags were saved, or a Java was downloaded.
FlagsSaved(rec, server, env) ==
    [rec EXCEPT !.executable = IF @ # None THEN @ ELSE Resolved(server, env).path]
Downloaded(rec, runtime) ==
    [rec EXCEPT !.attempted = Append(@, runtime.major), !.didFallback = TRUE,
                !.executable = runtime.path]
================================================================================

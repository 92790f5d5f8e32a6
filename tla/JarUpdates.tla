--------------------------------- MODULE JarUpdates ---------------------------------
(* Looking for a newer jar of a server and installing it: the check against     *)
(* what the provider lists, the answers kept per server, and the Updates row    *)
(* of the server's settings.                                                    *)
EXTENDS Integers, Sequences, FiniteSets, SequencesExt

CONSTANTS
    Listed,     \* what the providers list, newest first: [provider, version, stability]
    Numbers,    \* version -> the numbers its name starts with, <<>> without any
    Unlisted,   \* versions a server may have that no provider lists
    Hidden,     \* how many of the first rows may not be published yet
    MaxBuild, MaxChecks    \* bounds

VARIABLES
    unpublished, \* how many of the listed rows are not out yet
    newest,     \* row -> the newest build published of it
    conf,       \* the server's recorded provider
    jar,        \* what its jar really is
    entry,      \* what the last check said
    checks,     \* checks that have not answered, and how many were started
    confirm,    \* the update the dialog asks about
    isUpdating, \* this page's row is at it
    update      \* the update under way, or None

updateVars == <<unpublished, newest, conf, jar, entry, checks, confirm, isUpdating, update>>

None    == [step |-> "none"]     \* no row, no update
NoBuild == 0
Idle    == [status |-> "idle"]

Out  == unpublished + 1 .. Len(Listed)    \* the rows' places in the list
Rows == {Listed[i] : i \in Out}
Numbered(p) == p.name # "vanilla"
Published(row) == [name |-> row.provider, version |-> row.version, stability |-> row.stability,
                   build |-> newest[row]]

\* A server is made from a listed row, or imported with a version nobody lists.
UpdateInit ==
    /\ unpublished \in 0..Hidden /\ newest = [row \in ToSet(Listed) |-> 1]
    /\ conf \in {Published(row) : row \in Rows}
                \union {[name |-> Last(Listed).provider, version |-> v, stability |-> "stable", build |-> 1]
                           : v \in Unlisted}
    /\ jar = conf /\ entry = Idle /\ checks = [open |-> FALSE, from |-> conf, row |-> None, started |-> 0, swept |-> FALSE]
    /\ confirm = None /\ isUpdating = FALSE /\ update = None

--------------------------------------------------------------------------------
(* What a check concludes. *)

\* A rolling proxy has one family, vanilla has no builds.
parseVersionParts(p) ==
    [family |-> IF p.name = "bungeecord" THEN "latest" ELSE p.version,
     build  |-> IF Numbered(p) THEN p.build ELSE NoBuild]

\* -1 or 1 as left is older or newer than right; 0 if neither, or if nobody can tell.
compareVersionFamilies(left, right) ==
    LET a == Numbers[left]
        b == Numbers[right]
        part(s, i) == IF i <= Len(s) THEN s[i] ELSE 0
        differ == {i \in 1..(Len(a) + Len(b)) : part(a, i) # part(b, i)}
    IN  IF a = <<>> \/ b = <<>> \/ differ = {} THEN 0
        ELSE LET i == CHOOSE k \in differ : \A j \in differ : k <= j
             IN  IF part(a, i) < part(b, i) THEN -1 ELSE 1

isMajorMinecraftChange(name, from, to) ==
    LET part(v, i) == IF i <= Len(Numbers[v]) THEN Numbers[v][i] ELSE 0
    IN  /\ name \notin {"velocity", "bungeecord"} /\ from # to
        /\ \/ Numbers[from] = <<>> \/ Numbers[to] = <<>>
           \/ part(from, 1) # part(to, 1) \/ part(from, 2) # part(to, 2)

isAnyChange(current, latest, rows) ==    \* variant: anything else than the head is old
    current # latest

isUpdateAvailable(current, latest, rows) ==
    LET order == compareVersionFamilies(latest.family, current.family)
        at    == {i \in rows : Listed[i].version = current.family}
    IN  IF current.family = latest.family
        THEN NoBuild \notin {latest.build, current.build} /\ latest.build > current.build
        ELSE IF order \in {-1, 1} THEN order = 1
        ELSE at # {} /\ Min(rows) \notin at

Channel(p) == {i \in Out : Listed[i].provider = p.name /\ Listed[i].stability = p.stability}

checkServerJarUpdate(p, row) ==
    LET current == parseVersionParts(p)
        latest  == [family |-> row.version, build |-> parseVersionParts(Published(row)).build]
    IN  IF isUpdateAvailable(current, latest, Channel(p))
        THEN [status |-> "update-available", target |-> [row |-> row, provider |-> Published(row)],
              isMajor |-> isMajorMinecraftChange(p.name, current.family, latest.family)]
        ELSE [status |-> "up-to-date"]

--------------------------------------------------------------------------------
(* The answers, by server: one check at a time. *)

Result(check) == [status |-> "result", check |-> check, from |-> checks.from]

checkServer(p) ==
    IF checks.open THEN UNCHANGED <<checks, entry>>
    ELSE /\ checks' = [checks EXCEPT !.open = TRUE, !.from = p, !.row = None, !.started = @ + 1]
         /\ entry' = [status |-> "checking"]

\* The button is off while a check or this page's update is under way.
Check ==
    /\ checks.started < MaxChecks /\ entry.status # "checking" /\ ~isUpdating
    /\ checkServer(conf)
    /\ UNCHANGED <<unpublished, newest, conf, jar, confirm, isUpdating, update>>

\* Once per load of the app, when the list is there and the setting is on.
Sweep ==
    /\ ~checks.swept
    /\ IF checks.open THEN checks' = [checks EXCEPT !.swept = TRUE] /\ UNCHANGED entry
       ELSE /\ checks' = [checks EXCEPT !.swept = TRUE, !.open = TRUE, !.from = conf, !.row = None]
            /\ entry' = [status |-> "checking"]
    /\ UNCHANGED <<unpublished, newest, conf, jar, confirm, isUpdating, update>>

\* The list has come: the head of the channel is resolved next, or nothing is there.
fetchJarRows ==
    /\ checks.open /\ checks.row = None
    /\ IF Channel(checks.from) # {} /\ checks.from.version # "unknown"
       THEN checks' = [checks EXCEPT !.row = Listed[Min(Channel(checks.from))]] /\ UNCHANGED entry
       ELSE entry' = Result([status |-> "unsupported"]) /\ checks' = [checks EXCEPT !.open = FALSE]
    /\ UNCHANGED <<unpublished, newest, conf, jar, confirm, isUpdating, update>>

resolveJarRow ==
    /\ checks.open /\ checks.row # None
    /\ entry' = Result(checkServerJarUpdate(checks.from, checks.row))
    /\ checks' = [checks EXCEPT !.open = FALSE]
    /\ UNCHANGED <<unpublished, newest, conf, jar, confirm, isUpdating, update>>

CheckFails ==
    /\ checks.open /\ checks' = [checks EXCEPT !.open = FALSE] /\ entry' = [status |-> "error"]
    /\ UNCHANGED <<unpublished, newest, conf, jar, confirm, isUpdating, update>>

--------------------------------------------------------------------------------
(* The Updates row. *)

Offer == IF entry.status = "result" THEN entry.check ELSE [status |-> "none"]

runUpdate(target, backup) ==
    /\ confirm' = None /\ isUpdating' = TRUE
    /\ update' = [target |-> target, step |-> IF backup THEN "backup" ELSE "download"]

handleUpdateClick ==
    /\ Offer.status = "update-available" /\ ~isUpdating /\ confirm = None /\ update = None
    /\ IF Offer.isMajor THEN confirm' = Offer.target /\ UNCHANGED <<isUpdating, update>>
       ELSE runUpdate(Offer.target, FALSE)
    /\ UNCHANGED <<unpublished, newest, conf, jar, entry, checks>>

Answer ==
    /\ confirm # None /\ update = None
    /\ \/ \E backup \in BOOLEAN : runUpdate(confirm, backup)
       \/ confirm' = None /\ UNCHANGED <<isUpdating, update>>
    /\ UNCHANGED <<unpublished, newest, conf, jar, entry, checks>>

\* The row is resolved again before it is downloaded: its newest build by then.
downloadAndResolveJarRow ==
    /\ update # None /\ update.step \in {"backup", "download"}
    /\ update' = IF update.step = "backup" THEN [update EXCEPT !.step = "download"]
                 ELSE [target |-> update.target, step |-> "install", jar |-> Published(update.target.row)]
    /\ UNCHANGED <<unpublished, newest, conf, jar, entry, checks, confirm, isUpdating>>

\* The provider written down is the one the check resolved.
Installed ==
    /\ update # None /\ update.step = "install"
    /\ jar' = update.jar /\ conf' = update.target.provider
    /\ checkServer(update.target.provider)
    /\ update' = None /\ isUpdating' = FALSE
    /\ UNCHANGED <<unpublished, newest, confirm>>

UpdateFails ==
    /\ update # None /\ update' = None /\ isUpdating' = FALSE
    /\ UNCHANGED <<unpublished, newest, conf, jar, entry, checks, confirm>>

\* The page is left and opened again: the update goes on without its row.
Reopen ==
    /\ isUpdating \/ confirm # None
    /\ isUpdating' = FALSE /\ confirm' = None
    /\ UNCHANGED <<unpublished, newest, conf, jar, entry, checks, update>>

\* Another jar, picked in the settings; they are locked while they are written.
Swap ==
    /\ update = None
    /\ \E row \in Rows : Published(row) # jar /\ jar' = Published(row) /\ conf' = Published(row)
    /\ UNCHANGED <<unpublished, newest, entry, checks, confirm, isUpdating, update>>

Publish ==
    /\ \/ \E row \in Rows : /\ Numbered([name |-> row.provider]) /\ newest[row] < MaxBuild
                            /\ newest' = [newest EXCEPT ![row] = @ + 1] /\ UNCHANGED unpublished
       \/ unpublished > 0 /\ unpublished' = unpublished - 1 /\ UNCHANGED newest
    /\ UNCHANGED <<conf, jar, entry, checks, confirm, isUpdating, update>>

UpdateNext ==
    \/ Check \/ Sweep \/ fetchJarRows \/ resolveJarRow \/ CheckFails
    \/ handleUpdateClick \/ Answer \/ downloadAndResolveJarRow \/ Installed \/ UpdateFails
    \/ Reopen \/ Swap \/ Publish

UpdateSpec == UpdateInit /\ [][UpdateNext]_updateVars

--------------------------------------------------------------------------------
Place(p) == {i \in DOMAIN Listed : Listed[i].provider = p.name /\ Listed[i].version = p.version}
NewerThan(p, q) ==
    \/ p.version = q.version /\ p.build > q.build
    \/ \E i \in Place(p), j \in Place(q) : i < j

\* What is offered of a listed version is newer than what the check was asked
\* about, of the same provider and channel; and one that is listed, of the newest
\* family and build, is not called out of date (server-update-service.ts:185-224).
OffersAreNewer ==
    Offer.status = "update-available" =>
        LET p == Offer.target.provider
        IN  /\ p.name = entry.from.name /\ p.stability = entry.from.stability
            /\ Place(entry.from) # {} => NewerThan(p, entry.from)
            /\ compareVersionFamilies(p.version, entry.from.version) # -1

\* The doc: "treat it as major so the user is warned" for "a vanilla snapshot id"
\* (server-update-service.ts:112-113).
SnapshotsAreMajor ==
    Offer.status = "update-available" /\ entry.from.name = "vanilla"
        /\ "snapshot" \in {entry.from.stability, Offer.target.row.stability} => Offer.isMajor

\* A listed version that has a newer one above it in its channel is offered it.
NoneMissed ==
    Offer.status = "up-to-date" => ~\E k \in Channel(entry.from) :
        \E i \in Place(entry.from), j \in Place(Published(Listed[k])) : j < i

\* Installing an update never makes the jar older.
ForwardOnly == 
    [][Installed /\ jar'.name = jar.name /\ Place(jar) # {} => jar' = jar \/ NewerThan(jar', jar)]_updateVars

\* What is written down of a jar is what the jar is.
RecordIsTheJar == conf = jar

\* What has just been installed is not offered.
NoOfferOfInstalled == Offer.status = "update-available" => Offer.target.provider # jar
================================================================================

------------------------------ MODULE ServerContents ------------------------------
(* What a server's page lists of its directory (backups, plugins, mods, worlds, *)
(* datapacks), while the page, its tabs and the backend change them. A handler  *)
(* walks what it captured at the click, one await per entry, then rescans the   *)
(* whole directory; scans replace the list in the order in which they land.     *)
EXTENDS Naturals, Sequences, SequencesExt

CONSTANTS
    Backups, Items,    \* names of the backups and items that may exist
    MaxClicks          \* things the user or the backend starts (bound)

Entries == Backups \union Items

VARIABLES
    folder,      \* what the directory holds: absent, off, or on (locked, activated)
    list,        \* what the store lists
    isBusy,      \* the page's lock, which its backup handlers share
    busyFile,    \* the item tab's own lock, forgotten when the tab is left
    jobs,        \* handlers and scans under way
    clicks,      \* started so far, which names them
    reads,       \* scans that read the directory so far
    shownAt,     \* which of them the list shows
    needed       \* history: the first scan that may make up for what went wrong

contentVars == <<folder, list, isBusy, busyFile, jobs, clicks, reads, shownAt, needed>>

ContentInit ==
    /\ folder \in {[e \in Entries |-> IF e \in H THEN "off" ELSE "absent"] : H \in SUBSET Entries}
    /\ list = folder /\ isBusy = FALSE /\ busyFile = FALSE /\ jobs = {}
    /\ clicks = 0 /\ reads = 0 /\ shownAt = 0 /\ needed = 0

Held(e)    == folder[e] # "absent"
Shown(e)   == list[e] # "absent"
Rescanned  == needed' = reads + 1    \* from here on only a later scan tells the truth

\* What is done to which entries, in order, under which lock; "read" is the scan
\* that read the directory for it, 0 before; "alone" that nothing ran beside it.
Begin(kind, todo, lock) ==
    /\ clicks < MaxClicks /\ clicks' = clicks + 1
    /\ jobs' = {[j EXCEPT !.alone = FALSE] : j \in jobs} \union
               {[id |-> clicks', alone |-> jobs = {}, kind |-> kind, of |-> todo, todo |-> todo,
                 lock |-> lock, from |-> list, read |-> 0, saw |-> list]}
    /\ isBusy' = (isBusy \/ lock = "page") /\ busyFile' = (busyFile \/ lock = "tab")
    /\ UNCHANGED <<list, reads, shownAt, needed>>

BeginOnly(kind, todo, lock) == Begin(kind, todo, lock) /\ UNCHANGED folder

--------------------------------------------------------------------------------
handleDeleteBackup(b) == ~isBusy /\ Shown(b) /\ BeginOnly("delete", <<b>>, "page")

\* A restore backs the current state up first: in the list, the same.
handleCreateBackup(b) == ~isBusy /\ ~Held(b) /\ BeginOnly("create", <<b>>, "page")

handleClearAllBackups ==
    /\ ~isBusy /\ \E b \in Backups : Shown(b)
    /\ BeginOnly("delete", SetToSeq({b \in Backups : Shown(b)}), "page")

Switch(e) == IF list[e] = "on" THEN "off" ELSE "on"

\* Takes no lock, and rewrites the captured list instead of scanning.
handleSetBackupLocked(b) == ~isBusy /\ Shown(b) /\ BeginOnly(Switch(b), <<b>>, "none")

ItemsFree             == ~isBusy /\ ~busyFile
handleToggleActive(i) == ItemsFree /\ Shown(i) /\ BeginOnly(Switch(i), <<i>>, "tab")
handleDelete(i)       == ItemsFree /\ Shown(i) /\ BeginOnly("delete", <<i>>, "tab")
handleAddItem(picked) == ItemsFree /\ picked # {} /\ BeginOnly("create", SetToSeq(picked), "tab")

leaveTab ==    \* the handler goes on; the next visit starts unlocked
    /\ busyFile /\ busyFile' = FALSE
    /\ UNCHANGED <<folder, list, isBusy, jobs, clicks, reads, shownAt, needed>>

syncServerContents == BeginOnly("scan", <<>>, "none")    \* the page opens

\* The backend made one; its event makes the monitor rescan.
backupsChanged(b) == ~Held(b) /\ Begin("scan", <<>>, "none") /\ folder' = [folder EXCEPT ![b] = "off"]

--------------------------------------------------------------------------------
Result(kind) == CASE kind = "delete" -> "absent" [] kind = "create" -> "off" [] OTHER -> kind

Replace(j, k) == jobs' = (jobs \ {j}) \union {k}
End(j) ==
    /\ jobs' = jobs \ {j}
    /\ isBusy' = (isBusy /\ j.lock # "page") /\ busyFile' = (busyFile /\ j.lock # "tab")
Waits == UNCHANGED <<isBusy, busyFile, clicks>>

isLockSwitch(j) == j.kind \in {"on", "off"} /\ j.lock = "none"

\* One entry done, awaited; what is gone, or in the way, fails instead.
Step(j) ==
    /\ j.todo # <<>> /\ Held(Head(j.todo)) = (j.kind # "create")
    /\ folder' = [folder EXCEPT ![Head(j.todo)] = Result(j.kind)]
    /\ Replace(j, [j EXCEPT !.todo = Tail(@)])
    /\ Waits /\ UNCHANGED <<list, reads, shownAt, needed>>

\* An entry or the scan fails: what was done so far is not rescanned.
Fail(j) ==
    /\ j.read = 0 /\ (isLockSwitch(j) => j.todo # <<>>)
    /\ End(j) /\ Rescanned /\ UNCHANGED <<folder, list, clicks, reads, shownAt>>

\* The captured backups, with the switched one, over whatever was listed since.
WriteCaptured(j) ==
    /\ isLockSwitch(j) /\ j.todo = <<>>
    /\ list' = [e \in Entries |-> IF e \in Items THEN list[e]
                                  ELSE IF e = Head(j.of) THEN j.kind ELSE j.from[e]]
    /\ IF j.alone THEN UNCHANGED needed ELSE Rescanned
    /\ End(j) /\ UNCHANGED <<folder, clicks, reads, shownAt>>

ReadEarly(j) ==    \* variant: scans beside the work instead of after it
    /\ j.read = 0 /\ ~isLockSwitch(j) /\ reads' = reads + 1
    /\ Replace(j, [j EXCEPT !.read = reads', !.saw = folder])
    /\ Waits /\ UNCHANGED <<folder, list, shownAt, needed>>

scanServerContents(j) ==
    /\ j.todo = <<>> /\ j.read = 0 /\ ~isLockSwitch(j) /\ reads' = reads + 1
    /\ Replace(j, [j EXCEPT !.read = reads', !.saw = folder])
    /\ Waits /\ UNCHANGED <<folder, list, shownAt, needed>>

\* A scan that lands after a later one puts the older contents back.
ScanLands(j) ==
    /\ j.read # 0 /\ j.todo = <<>> /\ list' = j.saw /\ shownAt' = j.read /\ End(j)
    /\ IF j.read < shownAt THEN Rescanned ELSE UNCHANGED needed
    /\ UNCHANGED <<folder, clicks, reads>>

ContentNext ==
    \/ \E b \in Backups : handleDeleteBackup(b) \/ handleCreateBackup(b) \/ handleSetBackupLocked(b)
                          \/ backupsChanged(b)
    \/ \E i \in Items : handleToggleActive(i) \/ handleDelete(i)
    \/ \E picked \in SUBSET Items : handleAddItem(picked)
    \/ handleClearAllBackups \/ leaveTab \/ syncServerContents
    \/ \E j \in jobs : Step(j) \/ Fail(j) \/ WriteCaptured(j) \/ scanServerContents(j) \/ ScanLands(j)

ContentSpec == ContentInit /\ [][ContentNext]_contentVars

--------------------------------------------------------------------------------
\* Nothing in flight: the page lists what the directory holds, unless a handler
\* failed, a lock was switched beside other work, or scans landed out of order,
\* and no scan has read the directory since.
QuietListIsTrue == jobs = {} /\ shownAt >= needed => list = folder

\* A backup leaves only by a handler that was started when it was listed: Clear
\* All spares the automatic backup made while it was at work.
ClearsOnlyWhatWasListed ==
    [][\A b \in Backups : Held(b) /\ folder'[b] = "absent" =>
           \E j \in jobs : j.kind = "delete" /\ j.from[b] # "absent"]_contentVars
================================================================================

------------------------------- MODULE JavaPrompts -------------------------------
(* One dialog asks for every missing Java. Callers of ensureJava wait for a    *)
(* request; requests queue, one per major, and the dialog shows the oldest.    *)
(* A download outlives the dialog it was started from. The list of installed   *)
(* Javas is scanned again after each download.                                 *)
EXTENDS Naturals, Sequences, SequencesExt

CONSTANTS
    JavaMajors,      \* the majors somebody may ask for
    MaxDownloads,    \* downloads that may be started (bound)
    MaxAsks          \* calls of ensureJava (bound)

VARIABLES
    queue,       \* pending requests, oldest first
    dialog,      \* open, the major it names, its phase
    fetches,     \* downloads in flight
    scans,       \* scans in flight, each with the Javas it saw
    runtimes,    \* the list the app shares: what the last scan found
    installed,   \* the Javas on disk
    asked,       \* calls of ensureJava so far
    started      \* downloads started so far, which also names them

promptVars == <<queue, dialog, fetches, scans, runtimes, installed, asked, started>>

Closed     == [open |-> FALSE, major |-> 0, phase |-> "confirm"]
Prompt(m)  == [open |-> TRUE, major |-> m, phase |-> "confirm"]
Phases     == {"confirm", "downloading", "error"}

PromptInit ==
    /\ queue = <<>> /\ dialog = Closed /\ fetches = {}
    /\ scans = {[id |-> 0, saw |-> {}, for |-> 0]}    \* the provider's first scan
    /\ runtimes = {} /\ installed = {} /\ asked = 0 /\ started = 0

showHead(q) == IF q # <<>> THEN Prompt(Head(q)) ELSE [dialog EXCEPT !.open = FALSE]

ensureJava(m) ==
    /\ asked < MaxAsks /\ asked' = asked + 1
    /\ IF m \in ToSet(queue) THEN UNCHANGED <<queue, dialog>>    \* shares the promise
       ELSE /\ queue' = Append(queue, m)
            /\ dialog' = IF queue = <<>> THEN showHead(queue') ELSE dialog
    /\ UNCHANGED <<fetches, scans, runtimes, installed, started>>

settleFirst(m) ==    \* variant: answers whoever waits first
    IF queue = <<>> THEN UNCHANGED <<queue, dialog>>
    ELSE queue' = Tail(queue) /\ dialog' = IF Head(queue) = m THEN showHead(queue') ELSE dialog

\* The request is answered, wherever in the queue it is by now.
settle(m) ==
    IF m \notin ToSet(queue) THEN UNCHANGED <<queue, dialog>>
    ELSE /\ \E i \in DOMAIN queue : queue[i] = m /\ queue' = RemoveAt(queue, i)
         /\ dialog' = IF Head(queue) = m THEN showHead(queue') ELSE dialog

startDownload ==
    /\ dialog.open /\ dialog.phase # "downloading" /\ started < MaxDownloads
    /\ started' = started + 1
    /\ dialog' = [dialog EXCEPT !.phase = "downloading"]
    /\ fetches' = fetches \union {[id |-> started', major |-> dialog.major]}
    /\ UNCHANGED <<queue, scans, runtimes, installed, asked>>

\* Installed; the list is scanned before the request is answered.
Downloads(f) ==
    /\ fetches' = fetches \ {f} /\ installed' = installed \union {f.major}
    /\ scans' = scans \union {[id |-> f.id, saw |-> installed', for |-> f.major]}
    /\ UNCHANGED <<queue, dialog, runtimes, asked, started>>

\* The dialog may show another request by now: that one does not fail.
DownloadFails(f) ==
    /\ fetches' = fetches \ {f}
    /\ dialog' = IF dialog.major = f.major THEN [dialog EXCEPT !.phase = "error"] ELSE dialog
    /\ UNCHANGED <<queue, scans, runtimes, installed, asked, started>>

\* Each scan replaces the list when it lands; a failed one empties it.
rescan(s) ==
    /\ scans' = scans \ {s}
    /\ runtimes' \in {s.saw, {}}
    /\ IF s.for = 0 THEN UNCHANGED <<queue, dialog>> ELSE settle(s.for)
    /\ UNCHANGED <<fetches, installed, asked, started>>

handleOpenGuide ==    \* offered while downloading too; every request ends
    /\ dialog.open
    /\ queue' = <<>> /\ dialog' = showHead(<<>>)
    /\ UNCHANGED <<fetches, scans, runtimes, installed, asked, started>>

Dismiss ==
    /\ dialog.open /\ dialog.phase # "downloading" /\ settle(dialog.major)
    /\ UNCHANGED <<fetches, scans, runtimes, installed, asked, started>>

PromptNext ==
    \/ \E m \in JavaMajors : ensureJava(m)
    \/ startDownload \/ handleOpenGuide \/ Dismiss
    \/ \E f \in fetches : Downloads(f) \/ DownloadFails(f)
    \/ \E s \in scans : rescan(s)

PromptSpec == PromptInit /\ [][PromptNext]_promptVars

--------------------------------------------------------------------------------
PromptTypeOK ==
    /\ queue \in Seq(JavaMajors)
    /\ dialog \in [open : BOOLEAN, major : JavaMajors \union {0}, phase : Phases]

\* Nobody waits behind a closed or misnamed dialog: it is open exactly while
\* somebody waits, names the oldest request, and no major waits twice.
PromptShowsOldest ==
    /\ dialog.open <=> queue # <<>>
    /\ dialog.open => dialog.major = Head(queue)
    /\ \A i, j \in DOMAIN queue : i # j => queue[i] # queue[j]

\* A dialog that says it downloads, and so offers no other way out than the
\* guide, has a download or its scan behind it, whatever earlier downloads of
\* the same major did.
DownloadingIsReal ==
    dialog.open /\ dialog.phase = "downloading" =>
        \/ \E f \in fetches : f.major = dialog.major
        \/ \E s \in scans : s.for = dialog.major
================================================================================

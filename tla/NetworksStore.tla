------------------------------ MODULE NetworksStore ------------------------------
(* The list of networks: loaded from networks.json under the servers' root, from *)
(* local storage when there is none, and saved to both after each change. A file *)
(* that cannot be read is not written over; the root may change meanwhile.       *)
EXTENDS Integers

CONSTANTS
    Roots,        \* folders the user may configure as the servers' root
    MaxChanges    \* edits, moves, repairs, restarts (bound)

VARIABLES
    networks,    \* in memory: 0 is none, each edit makes a new one
    onDisk,      \* per root: absent, broken, or the list
    local,       \* in local storage
    ready,       \* a list was loaded
    root,        \* the configured root
    saveTo,      \* where saves go, "none" for nowhere
    loads,       \* loads under way; only the last one's result counts
    unsaved,     \* the render after a change has not saved yet
    changes

networksVars == <<networks, onDisk, local, ready, root, saveTo, loads, unsaved, changes>>

Absent == -1    \* no networks.json
Broken == -2    \* one that is no list of networks
Stored == -3    \* the list of an earlier session

NetworksInit ==
    /\ networks = 0 /\ local = 0 /\ ready = FALSE /\ saveTo = "none" /\ unsaved = FALSE
    /\ onDisk \in [Roots -> {Absent, Broken, Stored}] /\ root \in Roots
    /\ loads = {[from |-> root, read |-> Absent, done |-> FALSE, active |-> TRUE]}
    /\ changes = 0

Changes == changes < MaxChanges /\ changes' = changes + 1

ReadsFile(l) ==
    /\ ~l.done
    /\ loads' = (loads \ {l}) \union {[l EXCEPT !.read = onDisk[l.from], !.done = TRUE]}
    /\ UNCHANGED <<networks, onDisk, local, ready, root, saveTo, unsaved, changes>>

LoadedBlindly(l) == saveTo' = l.from    \* variant: saves go where the load came from

\* A file that exists but cannot be read leaves nowhere to save to.
LoadedFrom(l) == saveTo' = IF l.read = Broken THEN "none" ELSE l.from

SetNetworks(l) ==
    /\ l.done /\ loads' = loads \ {l}
    /\ IF l.active
       THEN /\ LoadedFrom(l) /\ ready' = TRUE /\ unsaved' = TRUE
            /\ networks' = IF l.read \in {Absent, Broken} THEN local ELSE l.read
       ELSE UNCHANGED <<networks, ready, saveTo, unsaved>>
    /\ UNCHANGED <<onDisk, local, root, changes>>

saveToLocalStorage ==    \* and to the file
    /\ ready /\ unsaved /\ unsaved' = FALSE /\ local' = networks
    /\ onDisk' = IF saveTo = "none" THEN onDisk ELSE [onDisk EXCEPT ![saveTo] = networks]
    /\ UNCHANGED <<networks, ready, root, saveTo, loads, changes>>

\* create, add, update, remove: rendered, and so saved, before anything else lands
updateNetwork ==
    /\ ready /\ ~unsaved /\ Changes /\ networks' = changes' /\ unsaved' = TRUE
    /\ UNCHANGED <<onDisk, local, ready, root, saveTo, loads>>

SetRoot(r) ==
    /\ r # root /\ Changes /\ root' = r
    /\ loads' = {[l EXCEPT !.active = FALSE] : l \in loads} \union
                {[from |-> r, read |-> Absent, done |-> FALSE, active |-> TRUE]}
    /\ UNCHANGED <<networks, onDisk, local, ready, saveTo, unsaved>>

Quit ==
    /\ ready /\ Changes /\ networks' = 0 /\ ready' = FALSE /\ saveTo' = "none" /\ unsaved' = FALSE
    /\ loads' = {[from |-> root, read |-> Absent, done |-> FALSE, active |-> TRUE]}
    /\ UNCHANGED <<onDisk, local, root>>

NetworksNext ==
    \/ \E l \in loads : ReadsFile(l) \/ SetNetworks(l)
    \/ saveToLocalStorage \/ updateNetwork \/ Quit
    \/ \E r \in Roots : SetRoot(r)

NetworksSpec == NetworksInit /\ [][NetworksNext]_networksVars

--------------------------------------------------------------------------------
\* A networks.json mserve could not read stays as it is, whichever root is
\* configured when the saves come.
UnreadableFileIsKept == [][\A r \in Roots : onDisk[r] = Broken => onDisk'[r] = Broken]_networksVars
================================================================================

------------------------------- MODULE ServersStore -------------------------------
(* The list of servers: kept in memory, persisted after each render, loaded at *)
(* start, then brought up to each server's mserve.json by one sweep. A broken  *)
(* mserve.json is rebuilt through a dialog that serves one request at a time.  *)
EXTENDS Naturals, Sequences, FiniteSets

CONSTANTS
    Dirs,         \* server folders
    Configs,      \* what an mserve.json can say
    MaxEvents     \* edits, imports, removals, restarts (bound)

VARIABLES
    disk,        \* per folder, mserve.json: its id, its config, whether it is valid
    store,       \* the servers in memory
    saved,       \* the servers in local storage
    isReady,     \* the list was loaded
    sweep,       \* servers to bring up to date, the one at hand, how far it is
    import,      \* the import under way, and how far it is
    repair,      \* the dialog: requests queued, the active one
    owed,        \* folders of servers that were persisted and not removed since
    excused,     \* folders edited while read, or whose rebuild was cancelled or came twice
    spent        \* events so far

storeVars == <<disk, store, saved, isReady, sweep, import, repair, owed, excused, spent>>

Server(d, id, config) == [dir |-> d, id |-> id, config |-> config]
NoSweep   == [todo |-> {}, at |-> "none", server |-> Server("none", 0, 0), read |-> 0]
NoImport  == [dir |-> "none", at |-> "none"]
NoRepair  == [queue |-> <<>>, active |-> "none"]    \* requests are "sweep" and "import"
DirsOf(s) == {x.dir : x \in s}
IdsOf(s)  == {x.id : x \in s}

\* Each server's id, told apart and otherwise of no account.
Ids == CHOOSE f \in [Dirs -> 1..Cardinality(Dirs)] : \A c, d \in Dirs : f[c] = f[d] => c = d

StoreInit ==
    /\ \E found \in [Dirs -> [config : Configs, valid : BOOLEAN]] :
          disk = [d \in Dirs |-> [id |-> Ids[d], config |-> found[d].config,
                                 valid |-> found[d].valid]]
    /\ \E listed \in SUBSET Dirs, was \in Configs :
          saved = {Server(d, Ids[d], was) : d \in listed}
    /\ owed = DirsOf(saved)
    /\ store = {} /\ isReady = FALSE /\ sweep = NoSweep /\ import = NoImport
    /\ repair = NoRepair /\ excused = {} /\ spent = 0

Spends == spent < MaxEvents /\ spent' = spent + 1

--------------------------------------------------------------------------------
\* One batch: the list and isReady; then the sweep starts over the loaded list.
loadServers ==
    /\ ~isReady /\ isReady' = TRUE /\ store' = saved
    /\ sweep' = [NoSweep EXCEPT !.todo = saved]
    /\ UNCHANGED <<disk, saved, import, repair, owed, excused, spent>>

\* Not before the list was loaded.
saveServers ==
    /\ isReady /\ saved # store /\ saved' = store
    /\ owed' = DirsOf(store)
    /\ UNCHANGED <<disk, store, isReady, sweep, import, repair, excused, spent>>

Restart ==    \* the app quits at any point; files may change before it is back
    /\ isReady /\ Spends
    /\ isReady' = FALSE /\ store' = {} /\ sweep' = NoSweep /\ import' = NoImport
    /\ repair' = NoRepair /\ excused' = {}
    /\ \E d \in Dirs, c \in Configs, v \in BOOLEAN :
          disk' = [disk EXCEPT ![d].config = c, ![d].valid = v]
    /\ UNCHANGED <<saved, owed>>

--------------------------------------------------------------------------------
\* requestMserveRepair: shown at once, or queued behind the active request.
Request(who) ==
    LET queue == Append(repair.queue, who)
    IN  repair' = IF repair.active = "none"
                  THEN [queue |-> Tail(queue), active |-> Head(queue)]
                  ELSE [repair EXCEPT !.queue = queue]

\* consumeQueue runs with the request it was created for still active: the next
\* one is only taken by the request after it.
closeWith == repair' = [repair EXCEPT !.active = "none"]

--------------------------------------------------------------------------------
\* The servers of the list as it was loaded, one after another.
SweepNext ==
    /\ sweep.at = "none"
    /\ \E s \in sweep.todo :
          sweep' = [sweep EXCEPT !.todo = @ \ {s}, !.at = "asked", !.server = s]
    /\ UNCHANGED <<disk, store, saved, isReady, import, repair, owed, excused, spent>>

SweepReads ==
    /\ sweep.at = "asked"
    /\ LET found == disk[sweep.server.dir]
       IN  IF found.valid
           THEN /\ sweep' = [sweep EXCEPT !.at = "read", !.read = found.config]
                /\ UNCHANGED repair
           ELSE sweep' = [sweep EXCEPT !.at = "prompt"] /\ Request("sweep")
    /\ UNCHANGED <<disk, store, saved, isReady, import, owed, excused, spent>>

\* The rebuilt file keeps what the list said of the server, and its id; an import
\* may have rebuilt it first.
SweepRebuilds ==
    /\ repair.active = "sweep" /\ closeWith
    /\ disk' = [disk EXCEPT ![sweep.server.dir].config = sweep.server.config,
                            ![sweep.server.dir].valid = TRUE]
    /\ sweep' = [sweep EXCEPT !.at = "read", !.read = sweep.server.config]
    /\ excused' = IF disk[sweep.server.dir].valid THEN excused \union {sweep.server.dir} ELSE excused
    /\ UNCHANGED <<store, saved, isReady, import, owed, spent>>

SweepSkips ==
    /\ repair.active = "sweep" /\ closeWith
    /\ sweep' = [sweep EXCEPT !.at = "none"]
    /\ excused' = excused \union {sweep.server.dir}
    /\ UNCHANGED <<disk, store, saved, isReady, import, owed, spent>>

syncAgainstLoadedList ==    \* a mutant: writes back the list the sweep began with
    /\ sweep.at = "read" /\ sweep' = [sweep EXCEPT !.at = "none"]
    /\ store' = {IF s.id = sweep.server.id THEN [s EXCEPT !.config = sweep.read] ELSE s :
                 s \in saved}
    /\ UNCHANGED <<disk, saved, isReady, import, repair, owed, excused, spent>>

\* Compared with the server as it was loaded, applied to the server as it is.
syncServerFromDisk ==
    /\ sweep.at = "read" /\ sweep' = [sweep EXCEPT !.at = "none"]
    /\ store' = IF sweep.read = sweep.server.config THEN store
                ELSE {IF s.id = sweep.server.id THEN [s EXCEPT !.config = sweep.read] ELSE s :
                      s \in store}
    /\ UNCHANGED <<disk, saved, isReady, import, repair, owed, excused, spent>>

--------------------------------------------------------------------------------
\* Saving settings writes the file, then the list.
updateServer(s, config) ==
    /\ disk[s.dir].valid /\ config # s.config /\ Spends
    /\ disk' = [disk EXCEPT ![s.dir].config = config]
    /\ store' = (store \ {s}) \union {[s EXCEPT !.config = config]}
    /\ excused' = IF sweep.at = "read" /\ sweep.server.id = s.id
                  THEN excused \union {s.dir} ELSE excused
    /\ UNCHANGED <<saved, isReady, sweep, import, repair, owed>>

removeServer(s) ==    \* from the list; its folder can be imported again
    /\ Spends /\ store' = store \ {s} /\ owed' = owed \ {s.dir}
    /\ UNCHANGED <<disk, saved, isReady, sweep, import, repair, excused>>

\* A folder that is listed is not imported again.
ImportServer(d) ==
    /\ isReady /\ import = NoImport /\ d \notin DirsOf(store) /\ Spends
    /\ import' = [dir |-> d, at |-> "asked"]
    /\ UNCHANGED <<disk, store, saved, isReady, sweep, repair, owed, excused>>

\* A server whose id is listed already is not added.
addServer(d) ==
    store' = IF disk[d].id \in IdsOf(store) THEN store
             ELSE store \union {Server(d, disk[d].id, disk'[d].config)}

ImportReads ==
    /\ import.at = "asked"
    /\ IF disk[import.dir].valid
       THEN import' = NoImport /\ UNCHANGED <<disk, repair>> /\ addServer(import.dir)
       ELSE /\ import' = [import EXCEPT !.at = "prompt"] /\ Request("import")
            /\ UNCHANGED <<disk, store>>
    /\ UNCHANGED <<saved, isReady, sweep, owed, excused, spent>>

ImportRebuilds ==
    /\ repair.active = "import" /\ closeWith /\ import' = NoImport
    /\ disk' = [disk EXCEPT ![import.dir].valid = TRUE]
    /\ addServer(import.dir)
    /\ UNCHANGED <<saved, isReady, sweep, owed, excused, spent>>

ImportCancelled ==
    /\ repair.active = "import" /\ closeWith /\ import' = NoImport
    /\ UNCHANGED <<disk, store, saved, isReady, sweep, owed, excused, spent>>

StoreNext ==
    \/ loadServers \/ saveServers \/ Restart
    \/ SweepNext \/ SweepReads \/ SweepRebuilds \/ SweepSkips \/ syncServerFromDisk
    \/ \E s \in store : removeServer(s) \/ \E c \in Configs : updateServer(s, c)
    \/ \E d \in Dirs : ImportServer(d)
    \/ ImportReads \/ ImportRebuilds \/ ImportCancelled

StoreSpec == StoreInit /\ [][StoreNext]_storeVars

--------------------------------------------------------------------------------
\* A server that was persisted stays persisted until the user removes it: a
\* restart finds it, whenever the app quits and whatever is still loading.
PersistedServersSurvive == owed \subseteq DirsOf(saved)

SweepOver == isReady /\ sweep = [NoSweep EXCEPT !.server = sweep.server, !.read = sweep.read]

\* Once the sweep is over every server in the list is what its mserve.json says,
\* the ones after the first that changed and the ones edited or imported
\* meanwhile too, but for a file edited while it was read, left broken, or rebuilt
\* a second time from what the list said when it was loaded.
ListMatchesDisk ==
    SweepOver => \A s \in store : s.dir \in excused \/ s.config = disk[s.dir].config

\* No request for a rebuild waits while no dialog is shown.
WaitingIsShown == repair.active = "none" => repair.queue = <<>>
================================================================================

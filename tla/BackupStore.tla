------------------------------ MODULE BackupStore ------------------------------
(***************************************************************************)
(* The .backups directory of ONE server, and the callers that work in it at *)
(* the same time: snapshot_then_retain (a manual backup, an automatic one,  *)
(* the snapshot before a restore), retention applied on its own, a restore, *)
(* and the user, who deletes and locks backups. No lock is held over the    *)
(* directory: every action is one operation on the file system, or one pass *)
(* over what is there.                                                      *)
(***************************************************************************)
EXTENDS RetentionPolicy

CONSTANTS
    Callers,      \* threads at work in the directory (bound)
    MaxSnap,      \* snapshots made in a behaviour (bound)
    Pieces,       \* folders a snapshot copies: 1..Pieces, in this order
    MaxCount,     \* mserve.json backup_max_count, 0 for no cap
    Limit,        \* storage limit, in folders
    UserActs,     \* does the user delete and lock backups meanwhile?
    Crashes,      \* does mserve end in the middle of things?
    RemovalsFail  \* can a directory refuse to be removed, and be half removed?

ASSUME StoreAssumption ==
    /\ {MaxSnap, Pieces, Limit} \subseteq Nat \ {0}
    /\ MaxCount \in Nat
    /\ {UserActs, Crashes, RemovalsFail} \subseteq BOOLEAN

VARIABLES
    onDisk,    \* the backup directories that exist
    content,   \* the folders each of them holds
    meta,      \* its .mserve-backup.json: none, unlocked or locked
    noted,     \* the size that file gives, in folders
    lastSnap,  \* the last snapshot directory that was created
    told,      \* has a caller returned with a backup it made?
    crashed,   \* has mserve ended in the middle of something? (history)
    torn,      \* has a removal failed, and left less than a backup? (history)
    pc,        \* where each caller is
    mine,      \* the snapshot a caller is making or has made, 0 if none
    copied,    \* how many folders it has copied, or put back in a restore
    source,    \* the backup it restores, 0 if none
    doomed     \* what its retention pass has still to delete

store      == <<onDisk, content, meta, noted, lastSnap, told, crashed, torn>>
callerVars == <<pc, mine, copied, source, doomed>>
vars       == <<store, callerVars>>

\* Snapshots are numbered in the order they are created, which is how
\* collect_backup_entries sorts them.
Snaps == 1..MaxSnap

Stages == {"idle", "create", "copy", "retain", "delete", "undo", "restore"}

StoreTypeOK ==
    /\ onDisk \subseteq Snaps
    /\ content \in [Snaps -> SUBSET (1..Pieces)]
    /\ meta \in [Snaps -> {"none", "unlocked", "locked"}]
    /\ lastSnap \in 0..MaxSnap
    /\ noted \in [Snaps -> 0..Pieces]
    /\ {told, crashed, torn} \subseteq BOOLEAN
    /\ pc \in [Callers -> Stages]
    /\ mine \in [Callers -> 0..MaxSnap]
    /\ copied \in [Callers -> 0..Pieces]
    /\ source \in [Callers -> 0..MaxSnap]
    /\ doomed \in [Callers -> SUBSET Snaps]
    \* a directory that is gone holds nothing
    /\ \A b \in Snaps \ onDisk : content[b] = {} /\ meta[b] = "none"
    /\ \A b \in Snaps : meta[b] = "none" => noted[b] = 0

Init ==
    /\ onDisk = {} /\ lastSnap = 0 /\ told = FALSE /\ crashed = FALSE /\ torn = FALSE
    /\ content = [b \in Snaps |-> {}]
    /\ meta = [b \in Snaps |-> "none"]
    /\ noted = [b \in Snaps |-> 0]
    /\ pc = [c \in Callers |-> "idle"]
    /\ mine = [c \in Callers |-> 0]
    /\ copied = [c \in Callers |-> 0]
    /\ source = [c \in Callers |-> 0]
    /\ doomed = [c \in Callers |-> {}]

--------------------------------------------------------------------------------
(* What a pass over the directory sees. *)

Protected(c) == {mine[c], source[c]} \ {0}

\* The backups of s, oldest first: each stands behind those with a smaller number.
InOrder(s) ==
    [i \in 1..Cardinality(s) |-> CHOOSE b \in s : Cardinality({a \in s : a < b}) = i - 1]

\* collect_backup_entries. A directory without metadata counts like any other:
\* its age is its modification time, which is no earlier than its creation. Metadata
\* is believed about the size.
Entries(protected) ==
    LET places == InOrder(onDisk)
    IN  [i \in 1..Len(places) |->
            [born   |-> places[i],
             size   |-> IF meta[places[i]] = "none" THEN Cardinality(content[places[i]])
                        ELSE noted[places[i]],
             locked |-> places[i] \in protected \/ meta[places[i]] = "locked"]]

\* The settings in question: a count cap and a storage limit, all backups recent.
Conf == [smart |-> FALSE, maxCount |-> MaxCount, maxAgeDays |-> 0, limit |-> Limit]

Pass(protected) == Retention(Entries(protected), MaxSnap, Conf)

\* remove_dir_all (or the trash) on the directories of s, as one step...
Removed(s) ==
    /\ onDisk' = onDisk \ s
    /\ content' = [b \in Snaps |-> IF b \in s THEN {} ELSE content[b]]
    /\ meta' = [b \in Snaps |-> IF b \in s THEN "none" ELSE meta[b]]
    /\ noted' = [b \in Snaps |-> IF b \in s THEN 0 ELSE noted[b]]
    /\ UNCHANGED <<lastSnap, told, crashed, torn>>

\* ...or not: remove_dir_all stops at the first file it cannot remove, having removed
\* nothing of b, some, or the metadata.
NotRemoved(b) ==
    /\ RemovalsFail
    /\ b \in onDisk
    /\ \E left \in SUBSET content[b], m \in {meta[b], "none"} :
          /\ content' = [content EXCEPT ![b] = left]
          /\ meta' = [meta EXCEPT ![b] = m]
          /\ noted' = [noted EXCEPT ![b] = IF m = "none" THEN 0 ELSE @]
          /\ torn' = (torn \/ left # 1..Pieces \/ m = "none")
    /\ UNCHANGED <<onDisk, lastSnap, told, crashed>>

\* The caller returns, with its result or an error.
Returns(c) ==
    /\ pc' = [pc EXCEPT ![c] = "idle"]
    /\ mine' = [mine EXCEPT ![c] = 0]
    /\ copied' = [copied EXCEPT ![c] = 0]
    /\ source' = [source EXCEPT ![c] = 0]
    /\ doomed' = [doomed EXCEPT ![c] = {}]

Goto(c, stage) == pc' = [pc EXCEPT ![c] = stage]

\* discard_backup, and the clean-up of a failed copy, whose own failure is ignored.
Discards(c) ==
    /\ Removed({mine[c]} \ {0}) \/ NotRemoved(mine[c])
    /\ Returns(c)

--------------------------------------------------------------------------------
(* snapshot_then_retain. *)

\* The snapshot would fit: begin one, for itself...
BeginSnapshot(c) ==
    /\ pc[c] = "idle"
    /\ BackupFits(Entries({}), Pieces, Conf)
    /\ Goto(c, "create")
    /\ UNCHANGED <<store, mine, copied, source, doomed>>

\* ...or before a restore, one of which runs at a time (RESTORING).
BeginRestore(c) ==
    /\ pc[c] = "idle"
    /\ \A other \in Callers : source[other] = 0
    /\ \E b \in onDisk :
          /\ BackupFits(Entries({b}), Pieces, Conf)
          /\ source' = [source EXCEPT ![c] = b]
    /\ Goto(c, "create")
    /\ UNCHANGED <<store, mine, copied, doomed>>

\* Mutant: create_dir_all, which is content with a directory that is there.
CreateDirShared(c) ==
    /\ pc[c] = "create"
    /\ lastSnap < MaxSnap
    /\ \E b \in {lastSnap, lastSnap + 1} \ {0} :
          /\ lastSnap' = b
          /\ onDisk' = onDisk \union {b}
          /\ mine' = [mine EXCEPT ![c] = b]
    /\ Goto(c, "copy")
    /\ UNCHANGED <<content, meta, noted, told, crashed, torn, copied, source, doomed>>

\* create_dir under a name no directory has, trying suffixes.
CreateDir(c) ==
    /\ pc[c] = "create"
    /\ lastSnap < MaxSnap
    /\ lastSnap' = lastSnap + 1
    /\ onDisk' = onDisk \union {lastSnap + 1}
    /\ mine' = [mine EXCEPT ![c] = lastSnap + 1]
    /\ Goto(c, "copy")
    /\ UNCHANGED <<content, meta, noted, told, crashed, torn, copied, source, doomed>>

\* copy_dir_filtered makes every directory above what it copies.
CopyPiece(c) ==
    /\ pc[c] = "copy"
    /\ copied[c] < Pieces
    /\ copied' = [copied EXCEPT ![c] = @ + 1]
    /\ onDisk' = onDisk \union {mine[c]}
    /\ content' = [content EXCEPT ![mine[c]] = @ \union {copied[c] + 1}]
    /\ UNCHANGED <<meta, noted, lastSnap, told, crashed, torn, pc, mine, source, doomed>>

\* The directory, a copy or the metadata cannot be written: remove what there is.
CopyFails(c) ==
    /\ pc[c] \in {"create", "copy"}
    /\ Discards(c)

WriteMetadata(c) ==
    /\ pc[c] = "copy"
    /\ copied[c] = Pieces
    /\ mine[c] \in onDisk
    /\ meta' = [meta EXCEPT ![mine[c]] = "unlocked"]
    /\ noted' = [noted EXCEPT ![mine[c]] = Cardinality(content[mine[c]])]
    /\ copied' = [copied EXCEPT ![c] = 0]
    /\ Goto(c, "retain")
    /\ UNCHANGED <<onDisk, content, lastSnap, told, crashed, torn, mine, source, doomed>>

\* apply_server_backup_retention is this pass alone.
ApplyRetention(c) ==
    /\ pc[c] = "idle"
    /\ Goto(c, "retain")
    /\ UNCHANGED <<store, mine, copied, source, doomed>>

\* Mutant: the new snapshot is not handed to retention as protected.
ScansUnprotected(c) ==
    /\ pc[c] = "retain"
    /\ ~Pass({}).refused
    /\ doomed' = [doomed EXCEPT ![c] = {InOrder(onDisk)[i] : i \in Pass({}).doomed}]
    /\ Goto(c, "delete")
    /\ UNCHANGED <<store, mine, copied, source>>

\* enforce_backup_retention looks and decides...
Scans(c) ==
    LET places == InOrder(onDisk)
        result == Pass(Protected(c))
    IN  /\ pc[c] = "retain"
        /\ ~result.refused
        /\ doomed' = [doomed EXCEPT ![c] = {places[i] : i \in result.doomed}]
        /\ Goto(c, "delete")
        /\ UNCHANGED <<store, mine, copied, source>>

\* ...or refuses, and the new snapshot is rolled back.
Refuses(c) ==
    /\ pc[c] = "retain"
    /\ Pass(Protected(c)).refused
    /\ Discards(c)

\* So it is when mserve.json, which the pass reads again, cannot be read.
SettingsUnread(c) ==
    /\ pc[c] = "retain"
    /\ Discards(c)

\* It deletes what it decided on, whatever has become of it since.
DeletesOne(c) ==
    /\ pc[c] = "delete"
    /\ \E b \in doomed[c] \intersect onDisk :
          Removed({b}) /\ doomed' = [doomed EXCEPT ![c] = @ \ {b}]
    /\ UNCHANGED <<pc, mine, copied, source>>

\* A directory that is gone is an error, as is one that cannot be removed: the pass
\* ends there...
DeleteFails(c) ==
    /\ pc[c] = "delete"
    /\ \/ doomed[c] \ onDisk # {} /\ UNCHANGED store
       \/ \E b \in doomed[c] : NotRemoved(b)
    /\ doomed' = [doomed EXCEPT ![c] = {}]
    /\ Goto(c, "undo")
    /\ UNCHANGED <<mine, copied, source>>

\* ...and the new snapshot is rolled back.
Undoes(c) ==
    /\ pc[c] = "undo"
    /\ Discards(c)

SnapshotDone(c) ==
    /\ pc[c] = "delete"
    /\ doomed[c] = {}
    /\ IF source[c] = 0
       THEN Returns(c)
       ELSE Goto(c, "restore") /\ UNCHANGED <<mine, copied, source, doomed>>
    /\ told' = (told \/ mine[c] # 0)
    /\ UNCHANGED <<onDisk, content, meta, noted, lastSnap, crashed, torn>>

--------------------------------------------------------------------------------
(* restore_backup_contents, and the user. *)

\* Each folder of the backup replaces the server's.
RestorePiece(c) ==
    /\ pc[c] = "restore"
    /\ source[c] \in onDisk
    /\ copied[c] < Pieces
    /\ copied' = [copied EXCEPT ![c] = @ + 1]
    /\ UNCHANGED <<store, pc, mine, source, doomed>>

\* All of it is back, or a folder cannot be copied.
RestoreReturns(c) ==
    /\ pc[c] = "restore"
    /\ Returns(c)
    /\ UNCHANGED store

\* delete_server_backup.
UserDeletes ==
    /\ UserActs
    /\ \E b \in onDisk : Removed({b})
    /\ UNCHANGED callerVars

\* set_server_backup_locked writes metadata where there is none.
UserLocks ==
    /\ UserActs
    /\ \E b \in onDisk, to \in {"locked", "unlocked"} :
          /\ meta[b] # to /\ meta' = [meta EXCEPT ![b] = to]
          /\ noted' = IF meta[b] # "none" THEN noted
                      ELSE [noted EXCEPT ![b] = Cardinality(content[b])]
    /\ UNCHANGED <<onDisk, content, lastSnap, told, crashed, torn, callerVars>>

\* mserve is closed or dies: every caller is gone, what is on disk stays.
Crash ==
    /\ Crashes
    /\ \E c \in Callers : pc[c] # "idle"
    /\ pc' = [c \in Callers |-> "idle"]
    /\ mine' = [c \in Callers |-> 0]
    /\ copied' = [c \in Callers |-> 0]
    /\ source' = [c \in Callers |-> 0]
    /\ doomed' = [c \in Callers |-> {}]
    /\ crashed' = TRUE
    /\ UNCHANGED <<onDisk, content, meta, noted, lastSnap, told, torn>>

SnapshotStep(c) ==
    \/ BeginSnapshot(c) \/ CreateDir(c) \/ CopyPiece(c) \/ CopyFails(c) \/ WriteMetadata(c)
    \/ ApplyRetention(c) \/ Scans(c) \/ Refuses(c) \/ DeletesOne(c) \/ DeleteFails(c)
    \/ SettingsUnread(c) \/ Undoes(c) \/ SnapshotDone(c)

RestoreStep(c) == BeginRestore(c) \/ RestorePiece(c) \/ RestoreReturns(c)

Next ==
    \/ \E c \in Callers : SnapshotStep(c) \/ RestoreStep(c)
    \/ UserDeletes \/ UserLocks \/ Crash

Spec == Init /\ [][Next]_vars

--------------------------------------------------------------------------------
(* Safety. *)

Whole(b)  == b \in onDisk /\ content[b] = 1..Pieces
HasBackup == \E b \in Snaps : Whole(b) /\ meta[b] # "none"

\* Two callers never copy into one directory, however close together they start.
OwnDirectory ==
    \A c, d \in Callers : mine[c] # 0 /\ mine[c] = mine[d] => c = d

\* A retention pass never turns on the snapshot it follows, nor on the backup
\* that is about to be restored.
SparesItsOwn == \A c \in Callers : doomed[c] \intersect Protected(c) = {}

\* A caller that returned, with a backup or an error, leaves no half-copied
\* directory behind: only the end of mserve itself can, and a removal that fails.
NoDebris ==
    ~crashed /\ ~torn =>
      \A b \in onDisk : Whole(b) \/ \E c \in Callers : pc[c] = "copy" /\ mine[c] = b

\* Retention and its roll-backs never leave a server without a backup once one
\* was made ("old backups are only deleted once a good replacement exists").
KeepsABackup == told => HasBackup

\* That much holds of a caller that is alone and never cut off, nor its removals
\* halfway: it may fail to copy, to delete, to roll back.
KeepsABackupUncut == ~crashed /\ ~torn => KeepsABackup

\* What is being restored stays until it is restored ("`extra_protected`
\* backups (e.g. the one being restored) are never deleted").
SourceStays == \A c \in Callers : pc[c] = "restore" => source[c] \in onDisk

\* "A half-copied snapshot must never be listed (or restored) as a backup": at
\* least none that carries the metadata of a finished one.
FinishedMeansWhole == \A b \in onDisk : meta[b] # "none" => Whole(b)
FinishedUntorn     == ~torn => FinishedMeansWhole

\* "Locked backups are never removed by retention policies or the storage limit."
LockedStay ==
    [][\A c \in Callers : DeletesOne(c) =>
          \A b \in Snaps : meta[b] = "locked" => b \in onDisk']_vars
================================================================================

------------------------------ MODULE MCBackupStore ------------------------------
(* BackupStore for TLC: one caller alone, whom nothing but the end of mserve    *)
(* disturbs; callers that share the directory with each other and the user; and *)
(* the retention policy by itself, over every short history of backups.         *)
EXTENDS BackupStore

CONSTANTS
    TheOne, LoneSnaps, LoneLimit,     \* a caller alone, and its bounds
    Now, Births, Sizes, MaxBackups,   \* the policy's histories
    Caps, Days, Limits                \* and the settings

ASSUME LoneAssumption == {LoneSnaps, LoneLimit} \subseteq Nat \ {0}

\* Hours are whole and may be before 1970; sizes and settings are not negative.
ASSUME PolicyAssumption ==
    /\ Now \in Int /\ Births \subseteq Int /\ Sizes \subseteq Nat
    /\ Caps \subseteq Nat /\ Days \subseteq Nat /\ Limits \subseteq Nat

VARIABLES
    part,       \* which of the three this behaviour is of
    backups, conf

Alone  == INSTANCE BackupStore WITH Callers <- {TheOne},
              MaxSnap <- LoneSnaps, Limit <- LoneLimit,
              UserActs <- FALSE, RemovalsFail <- TRUE
Policy == INSTANCE MCRetention

policyVars == <<backups, conf>>

StoreInit ==
    /\ part \in {"alone", "shared", "policy"}
    /\ IF part = "shared" THEN Init ELSE Alone!Init
    /\ Policy!Init
    /\ part = "policy" \/ conf = CHOOSE s \in Policy!Settings : TRUE

StoreNext ==
    \/ part = "alone" /\ Alone!Next /\ UNCHANGED <<part, policyVars>>
    \/ part = "shared" /\ Next /\ UNCHANGED <<part, policyVars>>
    \/ part = "policy" /\ Policy!AddBackup /\ UNCHANGED <<part, vars>>

StoreSpec == StoreInit /\ [][StoreNext]_<<part, vars, policyVars>>

CallersAreAlike == Permutations(Callers)

--------------------------------------------------------------------------------
\* What a caller alone keeps, and what callers side by side keep: as BackupStore
\* states them, of the code in support/backups.rs.

\* A caller alone leaves no half-copied directory unless mserve ends or a removal
\* fails, and what carries the metadata of a finished backup is whole.
LoneBackupsAreWhole == part = "alone" => Alone!NoDebris /\ Alone!FinishedUntorn

\* Even where a deletion of its pass fails, it never leaves a server without a backup
\* once one was made; and what it restores stays until it is restored.
LoneKeepsABackup == part = "alone" => Alone!KeepsABackupUncut /\ Alone!SourceStays

\* Both, as the run checks them.
LoneCallerKeepsItsWord == LoneBackupsAreWhole /\ LoneKeepsABackup

\* Two callers never copy into one directory, and no caller's pass turns on the snapshot
\* it follows.
SharedOwnDirectory == part = "shared" => StoreTypeOK /\ OwnDirectory /\ SparesItsOwn

\* The pass deletes exactly what the settings say, and does not throw out again
\* a snapshot that was let in.
RetentionDoesWhatItSays == Policy!DeletesWhatSettingsSay /\ Policy!FittingSnapshotIsKept
================================================================================

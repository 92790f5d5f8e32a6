------------------------------ MODULE MCRetention ------------------------------
(* The retention policy over every short history of backups, built up one    *)
(* backup at a time, under every combination of settings.                    *)
EXTENDS RetentionPolicy

CONSTANTS
    Now,          \* the hour of the retention pass
    Births,       \* hours backups may be created in
    Sizes,        \* sizes they may have
    Caps,         \* count caps, 0 for none
    Days,         \* age caps, 0 for none
    Limits,       \* storage limits
    MaxBackups    \* length of a history (bound)

VARIABLES
    backups,      \* what collect_backup_entries returns: oldest first
    conf          \* the server's retention settings

Settings == [smart : BOOLEAN, maxCount : Caps, maxAgeDays : Days, limit : Limits]

Init == backups = <<>> /\ conf \in Settings

\* One more backup, no older than the last one.
AddBackup ==
    /\ Len(backups) < MaxBackups
    /\ \E e \in [born : Births, size : Sizes, locked : BOOLEAN] :
          /\ backups # <<>> => e.born >= Last(backups).born
          /\ backups' = Append(backups, e)
    /\ UNCHANGED conf

Spec == Init /\ [][AddBackup]_<<backups, conf>>

--------------------------------------------------------------------------------
Result     == Retention(backups, Now, conf)
Newer(i)   == {j \in Places(backups) : j > i}
Unlocked   == {i \in Places(backups) : ~backups[i].locked}

\* What each cap is meant to delete, said without a loop.
TooOld == {i \in Unlocked :
             conf.maxAgeDays > 0 /\ Now - backups[i].born > 24 * conf.maxAgeDays}
Thinned == {i \in Unlocked :
              /\ conf.smart
              /\ Bucket(backups[i].born, Now) # Everything
              /\ \E j \in Newer(i) \ TooOld :
                    Bucket(backups[j].born, Now) = Bucket(backups[i].born, Now)}
Uncounted == {i \in Unlocked :
                conf.maxCount > 0
                /\ Cardinality(Newer(i) \ (TooOld \union Thinned)) >= conf.maxCount}
Capped   == TooOld \union Thinned \union Uncounted
Overflow == {i \in Unlocked \ Capped :
               LET olderUnlocked == {j \in Unlocked \ Capped : j < i}
               IN  TotalSize(backups, Places(backups) \ (Capped \union olderUnlocked))
                       > conf.limit}

\* The four loops together delete exactly what the settings say: too old, not
\* the newest of its bucket, beyond the newest maxCount, or, oldest first, what
\* the limit has no room for; and they refuse exactly when the locked backups
\* alone exceed the limit.
DeletesWhatSettingsSay ==
    IF TotalSize(backups, Places(backups) \ Unlocked) > conf.limit
    THEN Result = [refused |-> TRUE, doomed |-> {}]
    ELSE Result = [refused |-> FALSE, doomed |-> Capped \union Overflow]

\* The two checks of snapshot_then_retain agree: once ensure_backup_fits lets a
\* snapshot be copied, the pass that follows, which protects it, finds room for
\* it, so a finished snapshot is not thrown away again.
FittingSnapshotIsKept ==
    \A size \in Sizes :
        BackupFits(backups, size, conf) =>
            ~Retention(Append(backups, [born |-> Now, size |-> size, locked |-> TRUE]),
                       Now, conf).refused
================================================================================

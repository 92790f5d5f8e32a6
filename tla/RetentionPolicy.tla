---------------------------- MODULE RetentionPolicy ----------------------------
(***************************************************************************)
(* Which backups of a server enforce_backup_retention deletes, and when     *)
(* ensure_backup_fits lets a new one be made. Backups are a sequence,       *)
(* oldest first, of [born, size, locked]: the hour they were created, their *)
(* size, and whether the user locked them or the caller protects them. The  *)
(* settings are a record                                                    *)
(*   [smart : BOOLEAN, maxCount : Nat, maxAgeDays : Nat, limit : Nat].       *)
(* Each cap is a pass over the backups that adds to the doomed ones, named   *)
(* by their places in the sequence.                                         *)
(***************************************************************************)
EXTENDS Integers, Sequences, FiniteSets, SequencesExt

\* SMART_KEEP_ALL_HOURS, SMART_DAILY_DAYS, SMART_WEEKLY_DAYS.
KeepAllHours == 48
DailyDays    == 14
WeeklyDays   == 60

Everything == <<"all">>

\* smart_retention_bucket. Months are of 30 days, and every clock is UTC.
Bucket(born, now) ==
    LET age == now - born
        day == born \div 24
    IN  IF age <= KeepAllHours           THEN Everything
        ELSE IF age \div 24 <= DailyDays  THEN <<"day", day>>
        ELSE IF age \div 24 <= WeeklyDays THEN <<"week", day \div 7>>
        ELSE                                  <<"month", day \div 30>>

Places(es)      == 1..Len(es)
OldestFirst(es) == [i \in Places(es) |-> i]
NewestFirst(es) == Reverse(OldestFirst(es))

TotalSize(es, places) ==
    FoldLeft(LAMBDA sum, i : IF i \in places THEN sum + es[i].size ELSE sum,
             0, OldestFirst(es))

--------------------------------------------------------------------------------
(* The passes of enforce_backup_retention. *)

\* 1. Age cap.
AgeCap(es, now, conf) ==
    {i \in Places(es) : /\ conf.maxAgeDays > 0
                        /\ ~es[i].locked
                        /\ es[i].born < now - 24 * conf.maxAgeDays}

\* 2. Smart thinning: the newest survivor of each bucket stays.
SmartThinning(es, now, conf, doomed) ==
    LET Visit(acc, i) ==
            LET bucket == Bucket(es[i].born, now)
            IN  IF i \in acc.doomed \/ bucket = Everything THEN acc
                ELSE IF bucket \notin acc.seen
                THEN [acc EXCEPT !.seen = @ \union {bucket}]
                ELSE IF es[i].locked THEN acc
                ELSE [acc EXCEPT !.doomed = @ \union {i}]
    IN  IF conf.smart
        THEN FoldLeft(Visit, [seen |-> {}, doomed |-> doomed], NewestFirst(es)).doomed
        ELSE doomed

\* Mutant: one backup more than the cap allows.
CountCapLoose(es, conf, doomed) ==
    LET Visit(acc, i) ==
            IF i \in acc.doomed THEN acc
            ELSE IF ~es[i].locked /\ acc.kept > conf.maxCount
            THEN [acc EXCEPT !.doomed = @ \union {i}]
            ELSE [acc EXCEPT !.kept = @ + 1]
    IN  IF conf.maxCount > 0
        THEN FoldLeft(Visit, [kept |-> 0, doomed |-> doomed], NewestFirst(es)).doomed
        ELSE doomed

\* 3. Count cap: a locked backup takes a slot and is never deleted.
CountCap(es, conf, doomed) ==
    LET Visit(acc, i) ==
            IF i \in acc.doomed THEN acc
            ELSE IF ~es[i].locked /\ acc.kept >= conf.maxCount
            THEN [acc EXCEPT !.doomed = @ \union {i}]
            ELSE [acc EXCEPT !.kept = @ + 1]
    IN  IF conf.maxCount > 0
        THEN FoldLeft(Visit, [kept |-> 0, doomed |-> doomed], NewestFirst(es)).doomed
        ELSE doomed

\* 4. Storage limit: the oldest unlocked survivors go until the rest fits.
StorageCap(es, conf, doomed) ==
    LET Visit(acc, i) ==
            IF acc.size <= conf.limit \/ es[i].locked \/ i \in doomed THEN acc
            ELSE [size |-> acc.size - es[i].size, doomed |-> acc.doomed \union {i}]
    IN  FoldLeft(Visit, [size |-> TotalSize(es, Places(es) \ doomed), doomed |-> doomed],
                 OldestFirst(es))

\* enforce_backup_retention: what to delete, or a refusal that deletes nothing.
Retention(es, now, conf) ==
    LET aged    == AgeCap(es, now, conf)
        thinned == SmartThinning(es, now, conf, aged)
        capped  == CountCap(es, conf, thinned)
        stored  == StorageCap(es, conf, capped)
    IN  IF stored.size > conf.limit
        THEN [refused |-> TRUE, doomed |-> {}]
        ELSE [refused |-> FALSE, doomed |-> stored.doomed]

\* ensure_backup_fits: may a backup of this size be made at all?
BackupFits(es, size, conf) ==
    /\ size > 0
    /\ size <= conf.limit
    /\ TotalSize(es, {i \in Places(es) : es[i].locked}) + size <= conf.limit
================================================================================

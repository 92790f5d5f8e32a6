----------------------------- MODULE StorageAdvice -----------------------------
(* The backup storage limit that is recommended for a server's folder: the drive   *)
(* is read once the folder has settled, the drives of the other servers that back  *)
(* themselves up are looked up once a session, and the two come together in an     *)
(* arithmetic of the drive's free space. Sizes are tenths of a GB.                 *)
EXTENDS Integers, Sequences, Functions, FiniteSetsExt, TLC

CONSTANTS
    Folders,      \* what the field may hold, beside nothing
    Drive,        \* the drive of each folder
    Disks,        \* what a drive may report: [total, available]
    Uses,         \* what the backups of a server may weigh
    Limit,        \* the limit of the servers listed, in GB
    DEFAULT_STORAGE_LIMIT_GB, LEGACY_DEFAULT_STORAGE_LIMIT_GB,
    MaxTurns      \* steps (bound)

VARIABLES
    target,       \* the folder in the field
    listed,       \* the servers listed, by folder: [auto, used]
    disk,         \* what was read of the target's drive
    unavailable,  \* the drive could not be read, or there is no folder
    looks,        \* the reads of a drive under way: [of, at, live]
    promises,     \* the look-ups of a server's drive: [of, at]
    mountPointCache,   \* the look-up of each folder, an index of promises, or 0
    gathers,      \* the look-ups the page waits for: [key, with, live]
    mounts,       \* the last that were all answered: whose, and the folders found
    turns

adviceVars == <<target, listed, disk, unavailable, looks, promises, mountPointCache, gathers,
                mounts, turns>>

NoFolder == "none"
NoDisk   == [of |-> NoFolder, total |-> 0, available |-> 0]
AtMost(a, b)  == IF a < b THEN a ELSE b
AtLeast(a, b) == IF a > b THEN a ELSE b

--------------------------------------------------------------------------------
(* The arithmetic. *)

GB == 10
STORAGE_RECOMMENDATION_MIN_GB == 5
STORAGE_RECOMMENDATION_MAX_GB == 200

reservableLimitGb == IF Limit = LEGACY_DEFAULT_STORAGE_LIMIT_GB THEN DEFAULT_STORAGE_LIMIT_GB ELSE Limit
Growth(f) == AtLeast(0, reservableLimitGb * GB - listed[f].used)
Safety(d) == AtLeast(d.total \div 10, 20 * GB)
bytesToWholeGb(b) == AtLeast(0, b \div GB)

\* A share of 30 percent, rounded to five.
roundTo5(b) == ((3 * b + 250) \div 500) * 5

\* What d has for the backups that weigh own, beside those of the servers in others.
computeStorageRecommendation(d, others, own) ==
    LET available == d.available + own
        budget == available - MapThenSumSet(Growth, others) - Safety(d)
        low == budget < STORAGE_RECOMMENDATION_MIN_GB * GB
    IN [low |-> low,
        recommended |-> IF low THEN STORAGE_RECOMMENDATION_MIN_GB
                        ELSE AtMost(STORAGE_RECOMMENDATION_MAX_GB,
                                    AtLeast(STORAGE_RECOMMENDATION_MIN_GB, roundTo5(budget))),
        sliderMax |-> AtLeast(STORAGE_RECOMMENDATION_MIN_GB, bytesToWholeGb(available - Safety(d)))]

--------------------------------------------------------------------------------
(* The hook. *)

Others(t, of) == {f \in DOMAIN of \ {t} : of[f].auto}
others == Others(target, listed)
isReady == disk # NoDisk /\ mounts.key = others
Own == IF target \in DOMAIN listed THEN listed[target].used ELSE 0
OnDrive == {f \in others \cap mounts.found : Drive[f] = Drive[disk.of]}
recommendation == computeStorageRecommendation(disk, OnDrive, Own)

AdviceInit ==
    /\ target = NoFolder /\ disk = NoDisk /\ unavailable = TRUE /\ looks = {}
    /\ \E S \in SUBSET Folders : listed \in [S -> [auto : BOOLEAN, used : Uses]]
    /\ others = {}
    /\ promises = <<>> /\ mountPointCache = [f \in Folders |-> 0]
    /\ gathers = {} /\ mounts = [key |-> {}, found |-> {}] /\ turns = 0

Turn == turns < MaxTurns /\ turns' = turns + 1

\* The effect of a change of the others: each look-up that is not in the cache is begun,
\* and the last gathering is not waited for.
resolveMountPoints ==
    IF others' = others THEN UNCHANGED <<promises, mountPointCache, gathers>>
    ELSE LET new == {f \in others' : mountPointCache[f] = 0}
             nth == CHOOSE n \in [new -> 1 .. Cardinality(new)] : IsInjective(n)
         IN /\ promises' = promises \o [i \in 1 .. Cardinality(new) |->
                                           [of |-> CHOOSE f \in new : nth[f] = i, at |-> "asked"]]
            /\ mountPointCache' = [f \in new |-> Len(promises) + nth[f]] @@ mountPointCache
            /\ gathers' = {[g EXCEPT !.live = FALSE] : g \in gathers}
                          \cup {[key |-> others', live |-> TRUE,
                                 with |-> {mountPointCache'[f] : f \in others'}]}

\* The effect of a change of the folder: the drive is read once it has settled.
setTarget(t) ==
    /\ t # target /\ Turn /\ target' = t
    /\ disk' = NoDisk /\ unavailable' = (t = NoFolder)
    /\ looks' = {[l EXCEPT !.live = FALSE] : l \in {k \in looks : k.at = "asked"}}
                \cup (IF t = NoFolder THEN {} ELSE {[of |-> t, at |-> "settling", live |-> TRUE]})
    /\ UNCHANGED <<listed, mounts>> /\ resolveMountPoints

getDiskSpace(l) ==
    /\ l.at = "settling" /\ looks' = (looks \ {l}) \cup {[l EXCEPT !.at = "asked"]}
    /\ UNCHANGED <<target, listed, disk, unavailable, promises, mountPointCache, gathers, mounts, turns>>

DiskRead(l, d) ==
    /\ l.at = "asked" /\ looks' = looks \ {l}
    /\ disk' = IF l.live THEN [of |-> l.of, total |-> d.total, available |-> d.available] ELSE disk
    /\ UNCHANGED <<target, listed, unavailable, promises, mountPointCache, gathers, mounts, turns>>

DiskUnread(l) ==
    /\ l.at = "asked" /\ looks' = looks \ {l} /\ unavailable' = (unavailable \/ l.live)
    /\ UNCHANGED <<target, listed, disk, promises, mountPointCache, gathers, mounts, turns>>

\* A look-up that failed is forgotten: the next gathering begins another.
MountFound(i) ==
    /\ promises[i].at = "asked" /\ promises' = [promises EXCEPT ![i].at = "found"]
    /\ UNCHANGED <<target, listed, disk, unavailable, looks, mountPointCache, gathers, mounts, turns>>
MountFails(i) ==
    /\ promises[i].at = "asked" /\ promises' = [promises EXCEPT ![i].at = "failed"]
    /\ mountPointCache' = [mountPointCache EXCEPT ![promises[i].of] = 0]
    /\ UNCHANGED <<target, listed, disk, unavailable, looks, gathers, mounts, turns>>

setMounts(g) ==
    /\ \A i \in g.with : promises[i].at # "asked"
    /\ gathers' = gathers \ {g}
    /\ mounts' = IF ~g.live THEN mounts
                 ELSE LET answered == {i \in g.with : promises[i].at = "found"}
                      IN [key |-> g.key, found |-> {promises[i].of : i \in answered}]
    /\ UNCHANGED <<target, listed, disk, unavailable, looks, promises, mountPointCache, turns>>

\* The list of servers changes, and so do the backups they have.
ListChanges(f, s) ==
    /\ Turn
    /\ \/ listed' = [g \in DOMAIN listed \cup {f} |-> IF g = f THEN s ELSE listed[g]]
       \/ f \in DOMAIN listed /\ listed' = Restrict(listed, DOMAIN listed \ {f})
    /\ listed' # listed
    /\ UNCHANGED <<target, disk, unavailable, looks, mounts>> /\ resolveMountPoints

AdviceNext ==
    \/ \E t \in Folders \cup {NoFolder} : setTarget(t)
    \/ \E l \in looks : getDiskSpace(l) \/ DiskUnread(l) \/ \E d \in Disks : DiskRead(l, d)
    \/ \E i \in DOMAIN promises : MountFound(i) \/ MountFails(i)
    \/ \E g \in gathers : setMounts(g)
    \/ \E f \in Folders, s \in [auto : BOOLEAN, used : Uses] : ListChanges(f, s)

--------------------------------------------------------------------------------
(* Properties. *)

\* A recommendation is of the drive of the folder in the field, and counts the servers
\* listed now (useStorageRecommendation).
AdviceIsOfTarget == isReady => disk.of = target /\ OnDrive \subseteq others

\* Unless the drive is nearly full, it keeps its safety margin free when the server and
\* every other one counted on it fill their limits; and the slider reaches what is
\* recommended (computeStorageRecommendation).
AdviceLeavesRoom ==
    isReady =>
        /\ recommendation.recommended <= recommendation.sliderMax
        /\ ~recommendation.low =>
              disk.available - MapThenSumSet(Growth, OnDrive)
                  - (recommendation.recommended * GB - Own) >= Safety(disk)

\* Every other server on the drive is counted: not when the look-up of its drive failed,
\* and it is not tried again before the list changes.
AdviceCountsEveryServer == isReady => {f \in others : Drive[f] = Drive[target]} \subseteq OnDrive
================================================================================

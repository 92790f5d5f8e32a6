------------------------------ MODULE ServerSlot -------------------------------
(***************************************************************************)
(* What the backend promises about one server's key, without saying how:    *)
(* at most one run holds the key, a run takes it only from a run whose      *)
(* process is over, no run has the number of another, a start that was      *)
(* cancelled never becomes a run, and a run asked to stop never goes back to *)
(* running.                                                                 *)
(* ServerLifecycle implements it (ServerLifecycle!ImplementsSlot).          *)
(***************************************************************************)
EXTENDS Integers

CONSTANT Runs        \* the numbers runs may have

VARIABLES
    holder,    \* the run that holds the key, 0 if none
    phase,     \* what that run is doing
    last,      \* the last run that was numbered
    live       \* the runs whose process lives

slot == <<holder, phase, last, live>>

Phases == {"free", "starting", "cancelled", "running", "stopping", "asleep", "adopted"}

SlotTypeOK ==
    /\ holder \in Runs \union {0}
    /\ phase \in Phases
    /\ last \in Runs \union {0}
    /\ live \subseteq Runs
    /\ holder = 0 <=> phase = "free"

Init ==
    /\ holder = 0 /\ phase = "free"
    /\ last = 0 /\ live = {}

ProcessOver == holder \notin live

TakenBy(kind) ==
    /\ last + 1 \in Runs
    /\ last' = last + 1
    /\ holder' = last + 1
    /\ phase' = kind
    /\ UNCHANGED live

Claim ==
    /\ \/ phase \in {"free", "asleep"}
       \/ phase \in {"running", "stopping"} /\ ProcessOver
    /\ TakenBy("starting")

Adopt == phase = "free" /\ TakenBy("adopted")

Spawn ==
    /\ phase \in {"starting", "cancelled"}
    /\ ProcessOver
    /\ live' = live \union {holder}
    /\ UNCHANGED <<holder, phase, last>>

Become(from, to) ==
    /\ phase = from
    /\ phase' = to
    /\ UNCHANGED <<holder, last, live>>

Run    == Become("starting", "running")
Cancel == Become("starting", "cancelled")
Stop   == Become("running", "stopping")
Sleep  == ProcessOver /\ Become("stopping", "asleep")

\* A start gives the key up only once its process is over; a run may be taken
\* out of the key alive, by a delete that then ends it.
Leave ==
    /\ phase # "free"
    /\ phase \in {"starting", "cancelled"} => ProcessOver
    /\ holder' = 0
    /\ phase' = "free"
    /\ UNCHANGED <<last, live>>

ProcessEnds ==
    /\ \E g \in live : live' = live \ {g}
    /\ UNCHANGED <<holder, phase, last>>

Next == Claim \/ Adopt \/ Spawn \/ Run \/ Cancel \/ Stop \/ Sleep \/ Leave \/ ProcessEnds

Spec == Init /\ [][Next]_slot
================================================================================

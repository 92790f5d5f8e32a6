\* Two threads of commands, two runs, every configuration flag on.
SPECIFICATION Spec
CONSTANTS
    Threads = {t1, t2}
    MaxGen = 2
    AutoRestart = TRUE
    SleepEnabled = TRUE
    External = TRUE
SYMMETRY Symmetry
INVARIANTS
    TypeOK
    NoOrphanJvm
    OneJvm
    ReservationOwned
    RunSupervised
    StopHolds
    ListenersHold
PROPERTIES
    ImplementsSlot
\* A server nobody starts may rest for ever, and the numbers of runs run out.
CHECK_DEADLOCK FALSE

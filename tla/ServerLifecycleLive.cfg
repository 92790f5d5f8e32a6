\* One thread of commands at a time, two runs; no symmetry under liveness.
SPECIFICATION FairSpec
CONSTANTS
    Threads = {t1}
    MaxGen = 2
    AutoRestart = TRUE
    SleepEnabled = TRUE
    External = FALSE
PROPERTIES
    StopCompletes
    StartSettles
    ListenerReleased
\* The numbers of runs run out.
CHECK_DEADLOCK FALSE

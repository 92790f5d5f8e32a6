\* One thread of commands, two runs; no symmetry under liveness.
SPECIFICATION FairBackupSpec
CONSTANTS
    Threads = {t1}
    MaxGen = 2
    AutoRestart = TRUE
    SleepEnabled = TRUE
    External = FALSE
PROPERTIES
    ClosingBackupSettles
\* The numbers of runs run out.
CHECK_DEADLOCK FALSE

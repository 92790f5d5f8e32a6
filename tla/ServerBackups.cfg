\* One thread of commands, two runs.
SPECIFICATION BackupSpec
CONSTANTS
    Threads = {t1}
    MaxGen = 2
    AutoRestart = TRUE
    SleepEnabled = TRUE
    External = TRUE
INVARIANTS
    BackupsTakeTurns
\* A server nobody starts may rest for ever, and the numbers of runs run out.
CHECK_DEADLOCK FALSE

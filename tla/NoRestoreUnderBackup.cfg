\* What a comment promises, against the code.
SPECIFICATION BackupSpec
CONSTANTS
    Threads = {t1}
    MaxGen = 2
    AutoRestart = TRUE
    SleepEnabled = TRUE
    External = FALSE
INVARIANT
    NoRestoreUnderBackup
CHECK_DEADLOCK FALSE

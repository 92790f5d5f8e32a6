\* A caller alone, callers that share the directory, and the policy by itself.
SPECIFICATION StoreSpec
CONSTANTS
    Callers = {c1, c2}
    MaxSnap = 3
    Pieces = 2
    MaxCount = 1
    Limit = 4
    UserActs = TRUE
    Crashes = TRUE
    RemovalsFail = FALSE
    TheOne = c0
    LoneSnaps = 4
    LoneLimit = 6
    Now = 2400
    Births = {800, 1990, 2000, 2350, 2351}
    Sizes = {1, 2}
    MaxBackups = 4
    Caps = {0, 1, 2}
    Days = {0, 15}
    Limits = {2, 4}
SYMMETRY CallersAreAlike
INVARIANTS
    LoneCallerKeepsItsWord
    SharedOwnDirectory
    RetentionDoesWhatItSays
\* No number is left for another snapshot, and a history ends.
CHECK_DEADLOCK FALSE

\* Every part of the window, each alone.
SPECIFICATION Spec
CONSTANTS
    MaxRuns = 2
    MaxOpens = 1
    MaxViewClicks = 1
    JavaMajors = {8, 21}
    MaxDownloads = 2
    MaxAsks = 3
    Names = {"a"}
    Sources = {"paper", "velocity", "modpack"}
    Advanced = TRUE
    MaxCalls = 3
    Dirs = {"d1", "d2"}
    Configs = {1, 2}
    MaxEvents = 3
    Backends = {"b1", "b2"}
    Plugins = {"b1"}
    ServerNames = {"hub", "lobby"}
    BasePorts = {2, 4}
    DEFAULT_NETWORK_BASE_PORT = 2
    MaxPort = 6
    MaxEdits = 5
    MaxOps = 1
    MaxTroubles = 2
    Roots = {"r1", "r2"}
    MaxChanges = 3
    Rams = {1, 2}
    Versions = {1, 2}
    MaxTouches = 6
    Backups = {"k1", "k2"}
    Items = {"i1"}
    MaxClicks = 2
    Flags = {"f"}
    Enums = {"e"}
    Others = {"o"}
    MaxTyping = 1
    TomlKeys = {"x", "y"}
    Tables = {"t"}
    TomlValues = {"1", "2"}
    MaxLines = 3
    RuleMajors = {8, 17, 21}
INVARIANTS
    
    PromptShowsOldest
    DraftHoldsTogether
    
    NetworkHoldsTogether
    
    
    
    PatchIsExact
    FallbackTriesEachOnce
PROPERTIES
    NothingGoesUnasked
    
\* Every bound is spent in the end.
CHECK_DEADLOCK FALSE

\* Every panel and dialog of the window, each alone.
SPECIFICATION Spec
CONSTANTS
    Servers = {"s1", "s2"}
    MaxHappenings = 3
    TerminalKeys = {"s1", "s2"}
    TERMINAL_LINE_LIMIT = 2
    MaxSteps = 6
    Day = 5
    Slack = 1
    Warmup = 1
    Sustain = 1
    RamSustain = 2
    Cooldown = 3
    MaxNow = 10
    MaxLines = 3
    MaxSamples = 6
    Unlisted = {"1.22-dev", "custom", "unknown"}
    Hidden = 1
    MaxBuild = 2
    MaxChecks = 2
    JavaKnown = TRUE
    MaxClicks = 4
    LoaderPinned = TRUE
    GamePinned = TRUE
    Games = {"other"}
    PageSize = 1
    MaxEdits = 2
    MaxRequests = 2
    MaxInstalls = 1
    Faulty = {"online-mode", "white-list", "enforce-whitelist", "broadcast-rcon-to-ops"}
    MaxAuditEvents = 2
    Chars = {"x", " ", "<"}
    LineBudget = 16
    MaxPrefEdits = 2
    MaxReleases = 2
    MaxMoves = 5
    Presets = {5, 30, 60}
    Durations = {7, 30, 60, 90}
    Typed = {0, 50, 150, 200, 700}
    WHEEL_MAX_HOURS = 2
    MaxPicks = 4
    Folders = {"f1", "f2", "f3"}
    Uses = {0, 70}
    Limit = 200
    DEFAULT_STORAGE_LIMIT_GB = 50
    LEGACY_DEFAULT_STORAGE_LIMIT_GB = 200
    MaxTurns = 2
INVARIANTS
    PanelShowsItsServer
    FeedTellsWhatHappened
    AlertsAreDeserved
    OffersFit
    FixesHelp
    MotdReadsBack
    
    GuideKeepsItsWord

    
\* Every bound is spent in the end.
CHECK_DEADLOCK FALSE

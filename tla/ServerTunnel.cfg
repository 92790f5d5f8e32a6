\* One thread of commands, two runs, two agents; the tunnel is switched once.
SPECIFICATION TunnelSpec
CONSTANTS
    Threads = {t1}
    MaxGen = 2
    AutoRestart = FALSE
    SleepEnabled = TRUE
    External = FALSE
    MaxAgents = 2
    MaxSwitches = 1
INVARIANTS
    AgentsAccountedFor
\* The numbers of runs run out.
CHECK_DEADLOCK FALSE

\* Two servers, two ports, one host.
SPECIFICATION PortsSpec
CONSTANTS
    Servers = {s1, s2}
    Hosts = {h1}
    DefaultPort = 1
    MaxPort = 2
INVARIANTS
    PortsApart
    ReservationKept
CHECK_DEADLOCK FALSE
SYMMETRY Symmetry

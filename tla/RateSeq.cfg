\* Two clients, one connection each, limit 2 per window of 2 ticks.
CONSTANTS
    IPs = {ip1, ip2}
    Ports = {port1}
    Limit = 2
    Window = 2
    MaxTime = 4

SPECIFICATION Spec

INVARIANT WindowLimit
INVARIANT StoredBound
INVARIANT NoFalseRefusal

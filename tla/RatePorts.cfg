\* One client that connects from two source ports.
CONSTANTS
    IPs = {ip1}
    Ports = {port1, port2}
    Limit = 2
    Window = 2
    MaxTime = 2

SPECIFICATION Spec

INVARIANT WindowLimit

\* Three backends and a 3-bit counter: 2^3, like 2^32, is no multiple of 3.
CONSTANTS
    URLs = {u1, u2, u3}
    Width = 3
    MaxBackends = 3
    MaxPicks = 9
SPECIFICATION Spec
INVARIANT RoundRobinFair

\* Two connections; a slow client is dropped and its id reused.
CONSTANTS
    Conns = {c1, c2}
    QueueCap = 1
    BcastCap = 1
    MaxMsgs = 2

SPECIFICATION Spec
CHECK_DEADLOCK FALSE

INVARIANT NoDoubleClose

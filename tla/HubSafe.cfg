\* Three connections, Send channels of capacity 1, two messages; Run is
\* fair, the pumps and the peers are not.  The
\* system stops when every connection has gone and the messages are
\* delivered, or once the hub is cancelled: deadlock is not an error.
CONSTANTS
    Conns = {c1, c2, c3}
    QueueCap = 1
    BcastCap = 1
    MaxMsgs = 2

SPECIFICATION FairSpec
CHECK_DEADLOCK FALSE

INVARIANT NoSendOnClosed
PROPERTY BroadcastDrains

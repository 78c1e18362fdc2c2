\* Spec scenario 3: one client calls a target whose backend answers 500.
CONSTANTS
    p1 = p1  p2 = p2  p3 = p3  p4 = p4
    Procs <- MCProcs
    MaxRequests = 3
    Interval = 2
    Timeout = 0
    MaxTime = 1
    MaxCalls = 4
SYMMETRY Sym
SPECIFICATION Spec
\* Once the clients stop sending, the gateway idles: not an error.
CHECK_DEADLOCK FALSE
INVARIANT BackendFailuresTrip

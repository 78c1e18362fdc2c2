\* Four concurrent requests to one target with the breaker's MaxRequests = 3:
\* enough calls to trip it, let the Open timeout pass and probe with one
\* request more than the HalfOpen gate admits.
CONSTANTS
    p1 = p1  p2 = p2  p3 = p3  p4 = p4
    Procs <- MCProcs
    MaxRequests = 3
    Interval = 2
    Timeout = 0
    MaxTime = 3
    MaxCalls = 8
SYMMETRY Sym
SPECIFICATION Spec
INVARIANT CountsConsistent ProbeBound
\* Once the clients stop sending, the gateway idles: not an error.
CHECK_DEADLOCK FALSE

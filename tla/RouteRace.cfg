\* Two request goroutines interleaving their handlers, canonical ids.
CONSTANTS
    Procs = {p1, p2}
    IdStrs <- CanonicalStrs
    IdOf <- CanonicalIdOf
    MaxRoutes = 2
    MaxWrites = 4
    RouteTTL = 1
    MaxSize = 2
    MaxTime = 2
    NoValue = NoValue
    EmptyKey = EmptyKey

SPECIFICATION Spec

INVARIANT ReadsSeeCompletedWrites

\* One client issuing requests one after another; "1" and "01" both name route 1.
CONSTANTS
    Procs = {p1}
    IdStrs <- AliasedStrs
    IdOf <- AliasedIdOf
    MaxRoutes = 1
    MaxWrites = 4
    RouteTTL = 1
    MaxSize = 2
    MaxTime = 2
    NoValue = NoValue
    EmptyKey = EmptyKey

SPECIFICATION Spec

INVARIANT ReadsSeeCompletedWrites

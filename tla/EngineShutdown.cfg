\* One SIGTERM to a running engine; every goroutine is scheduled fairly.
\* The engine may legitimately stop for good (everything exited, or Stop
\* returned the server's error and the process ended), so no deadlock check.
CONSTANTS
    statsCollector = statsCollector
    healthChecker = healthChecker
    circuitBreakerMonitor = circuitBreakerMonitor
    Workers <- MCWorkers
    MaxSignals = 1
SPECIFICATION Spec
PROPERTY ShutdownCompletes
CHECK_DEADLOCK FALSE

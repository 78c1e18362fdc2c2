------------------------------ MODULE MCEngine ------------------------------
(* EngineV2 with its three background workers as model values.             *)
EXTENDS Engine

CONSTANTS statsCollector, healthChecker, circuitBreakerMonitor

MCWorkers == {statsCollector, healthChecker, circuitBreakerMonitor}
=============================================================================

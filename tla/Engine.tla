------------------------------- MODULE Engine -------------------------------
(***************************************************************************)
(* Start and graceful shutdown of EngineV2 (unnamed/part_002): the main    *)
(* goroutine running Start then Stop, the server goroutine, the hub        *)
(* goroutine and the three background workers, all counted in e.wg.        *)
(*                                                                         *)
(* e.shutdown is a channel of capacity 1 fed by signal.Notify, which drops *)
(* a signal when the channel is full.  Start's receive and every worker's  *)
(* `case <-e.shutdown` take values from the same channel: a value wakes    *)
(* exactly one receiver.  The state after NewV2 and the goroutine launches *)
(* of Start is the initial state; what the components do while serving is  *)
(* left to their own modules.                                              *)
(***************************************************************************)
EXTENDS Naturals, FiniteSets

CONSTANTS
    Workers,    \* statsCollector, healthChecker, circuitBreakerMonitor (finite)
    MaxSignals  \* how many SIGINT/SIGTERM the environment sends (in Nat)

VARIABLES
    mainPc,     \* "serving", "stopping", "waiting", "closed" or "failed"
    sigBuf,     \* values in e.shutdown (0 or 1)
    signals,    \* signals sent so far
    listening,  \* e.server is serving (Shutdown not yet called)
    hubCtx,     \* e.wsContext is not cancelled
    running,    \* the goroutines counted in e.wg that have not returned
    dbOpen      \* e.db is open

vars == <<mainPc, sigBuf, signals, listening, hubCtx, running, dbOpen>>

Goroutines == {"server", "hub"} \cup Workers

TypeOK ==
    /\ mainPc \in {"serving", "stopping", "waiting", "closed", "failed"}
    /\ sigBuf \in 0..1
    /\ signals \in 0..MaxSignals
    /\ listening \in BOOLEAN /\ hubCtx \in BOOLEAN /\ dbOpen \in BOOLEAN
    /\ running \subseteq Goroutines

(* Start has launched the server, the hub and startBackgroundWorkers:      *)
(* e.wg counts all of them.                                                *)
Init ==
    /\ mainPc = "serving"
    /\ sigBuf = 0
    /\ signals = 0
    /\ listening = TRUE
    /\ hubCtx = TRUE
    /\ running = Goroutines
    /\ dbOpen = TRUE

(* SIGINT or SIGTERM: signal.Notify does not block, and a signal that      *)
(* finds e.shutdown full is lost.                                          *)
Signal ==
    /\ signals < MaxSignals
    /\ signals' = signals + 1
    /\ sigBuf' = 1
    /\ UNCHANGED <<mainPc, listening, hubCtx, running, dbOpen>>

(* Start: <-e.shutdown, then Stop.                                         *)
Receive ==
    /\ mainPc = "serving"
    /\ sigBuf = 1
    /\ sigBuf' = 0
    /\ mainPc' = "stopping"
    /\ UNCHANGED <<signals, listening, hubCtx, running, dbOpen>>

(* Stop: server.Shutdown(ctx); on an error (the 30 s grace period ran out) *)
(* Stop returns it and main exits with status 1.  Otherwise wsCancel,      *)
(* router.Shutdown and cache.Stop, which do not block, then wg.Wait.       *)
StopServer ==
    /\ mainPc = "stopping"
    /\ listening' = FALSE
    /\ \/ /\ mainPc' = "waiting"
          /\ hubCtx' = FALSE
       \/ /\ mainPc' = "failed"
          /\ UNCHANGED hubCtx
    /\ UNCHANGED <<sigBuf, signals, running, dbOpen>>

(* wg.Wait has returned: e.db.Close().                                     *)
CloseDB ==
    /\ mainPc = "waiting"
    /\ running = {}
    /\ dbOpen' = FALSE
    /\ mainPc' = "closed"
    /\ UNCHANGED <<sigBuf, signals, listening, hubCtx, running>>

(* ListenAndServe returns http.ErrServerClosed once Shutdown was called.   *)
ServerExit ==
    /\ "server" \in running
    /\ ~listening
    /\ running' = running \ {"server"}
    /\ UNCHANGED <<mainPc, sigBuf, signals, listening, hubCtx, dbOpen>>

(* Hub.Run returns on ctx.Done().                                          *)
HubExit ==
    /\ "hub" \in running
    /\ ~hubCtx
    /\ running' = running \ {"hub"}
    /\ UNCHANGED <<mainPc, sigBuf, signals, listening, hubCtx, dbOpen>>

(* A worker's `case <-e.shutdown: return` (healthChecker's non-blocking    *)
(* check after a tick takes the value the same way).                       *)
WorkerExit(w) ==
    /\ w \in running
    /\ sigBuf = 1
    /\ sigBuf' = 0
    /\ running' = running \ {w}
    /\ UNCHANGED <<mainPc, signals, listening, hubCtx, dbOpen>>

Next ==
    \/ Signal
    \/ Receive \/ StopServer \/ CloseDB
    \/ ServerExit \/ HubExit
    \/ \E w \in Workers : WorkerExit(w)

(* Every goroutine of the engine is scheduled: each takes its step when it *)
(* stays enabled.  Nobody is obliged to send a signal.                     *)
Fairness ==
    /\ WF_vars(Receive \/ StopServer \/ CloseDB)
    /\ WF_vars(ServerExit)
    /\ WF_vars(HubExit)
    /\ \A w \in Workers : WF_vars(WorkerExit(w))

Spec == Init /\ [][Next]_vars /\ Fairness

-----------------------------------------------------------------------------
(* Spec 4.9 and 8, graceful shutdown: once a shutdown signal has arrived, *)
(* Start's receive and Stop complete: the workers exit, wg.Wait returns    *)
(* and the store is closed (or Stop gives up with the server's error).     *)
(* It fails if a worker takes the one value of e.shutdown that Start waits *)
(* for, or if a worker never observes the shutdown channel.               *)
ShutdownCompletes ==
    (signals > 0) ~> (mainPc \in {"closed", "failed"})

=============================================================================

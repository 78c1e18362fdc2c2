------------------------------- MODULE Breaker ------------------------------
(***************************************************************************)
(* The circuit breaker of one proxy target: CircuitBreaker.Execute         *)
(* (unnamed/part_000) wrapping ProxyHandler's call of ForwardAndCopy       *)
(* (handlers.go, unnamed/part_003), with the settings of New.              *)
(*                                                                         *)
(* The per-target state machine is gobreaker's, which is not part of this  *)
(* repository: it is modelled after spec section 4.4 (Closed with a        *)
(* counting interval, Open for Timeout, HalfOpen admitting MaxRequests     *)
(* probes, a generation number so that a call finishing in a later        *)
(* generation is not counted).  Execute is split where other requests can  *)
(* run: the admission check (Before) and the bookkeeping after fn returns  *)
(* (After); both hold the breaker's mutex.  Time is a discrete clock; the  *)
(* 10 s interval and 60 s timeout are Interval and Timeout ticks.          *)
(***************************************************************************)
EXTENDS Naturals, FiniteSets

CONSTANTS
    Procs,        \* request goroutines proxying to the target
    MaxRequests,  \* settings.MaxRequests (3)
    Interval,     \* settings.Interval, in ticks
    Timeout,      \* settings.Timeout, in ticks
    MaxTime,      \* bound on the clock, for model checking
    MaxCalls      \* bound on the requests, for model checking

ASSUME BreakerAssumption ==
    /\ IsFiniteSet(Procs)
    /\ MaxRequests \in Nat \ {0}
    /\ Interval \in Nat \ {0} /\ Timeout \in Nat
    /\ MaxTime \in Nat /\ MaxCalls \in Nat

(* What the backend does with a forwarded request.                         *)
Outcomes == {"2xx", "5xx", "neterr"}

(* What FindByPath gives the handler: no route, a disabled or an enabled   *)
(* route for the request's path and method.                                *)
Lookups == {"none", "disabled", "enabled"}

VARIABLES
    cb,       \* the breaker: state, generation, counts and expiry
    now,      \* the clock
    pc,       \* pc[p]: "idle" or "calling" (fn is running)
    pgen,     \* pgen[p]: the generation Before returned to p
    calls,    \* requests handled so far
    badGen    \* ghost: per generation, the admitted calls whose backend
              \* answered 5xx or failed

vars == <<cb, now, pc, pgen, calls, badGen>>

Breakers ==
    [state : {"closed", "open", "halfopen"}, gen : Nat,
     req : Nat, succ : Nat, fail : Nat, csucc : Nat, cfail : Nat,
     expiry : Nat]

TypeOK ==
    /\ cb \in Breakers
    /\ now \in 0..MaxTime
    /\ pc \in [Procs -> {"idle", "calling"}]
    /\ pgen \in [Procs -> Nat]
    /\ calls \in 0..MaxCalls
    /\ badGen \in [DOMAIN badGen -> Nat]

(* toNewGeneration after setState(s): counts cleared, a new expiry.        *)
NewGeneration(b, s) ==
    [state |-> s, gen |-> b.gen + 1,
     req |-> 0, succ |-> 0, fail |-> 0, csucc |-> 0, cfail |-> 0,
     expiry |-> CASE s = "closed" -> now + Interval
                  [] s = "open"   -> now + Timeout
                  [] s = "halfopen" -> 0]

(* currentState(now): a Closed interval or an Open timeout that has passed *)
(* moves the breaker on before anything else looks at it.                  *)
Refresh(b) ==
    IF b.expiry < now /\ b.state = "closed" THEN NewGeneration(b, "closed")
    ELSE IF b.expiry < now /\ b.state = "open" THEN NewGeneration(b, "halfopen")
    ELSE b

(* New's ReadyToTrip: counts.Requests >= 3 && failures/requests >= 0.6.    *)
ReadyToTrip(b) == b.req >= 3 /\ 5 * b.fail >= 3 * b.req

(* Execute's fn: ForwardAndCopy returns an error only when the request     *)
(* could not be sent or the body not copied; a 5xx is returned as resp.    *)
Success(o) == o # "neterr"

(* Mutant: the HalfOpen gate lets one probe too many through.              *)
RejectedLate(b) ==
    \/ b.state = "open"
    \/ b.state = "halfopen" /\ b.req > MaxRequests

(* beforeRequest: ErrOpenState, or ErrTooManyRequests in HalfOpen.         *)
Rejected(b) ==
    \/ b.state = "open"
    \/ b.state = "halfopen" /\ b.req >= MaxRequests

(* onSuccess, with the HalfOpen probe count closing the breaker.           *)
OnSuccess(b) ==
    LET c == [b EXCEPT !.succ = @ + 1, !.csucc = @ + 1, !.cfail = 0] IN
    IF b.state = "halfopen" /\ c.csucc >= MaxRequests
    THEN NewGeneration(b, "closed") ELSE c

(* onFailure: trips a Closed breaker when ReadyToTrip, and reopens a       *)
(* HalfOpen one on any failure.                                            *)
OnFailure(b) ==
    LET c == [b EXCEPT !.fail = @ + 1, !.cfail = @ + 1, !.csucc = 0] IN
    CASE b.state = "closed" /\ ReadyToTrip(c) -> NewGeneration(b, "open")
      [] b.state = "closed" -> c
      [] OTHER -> NewGeneration(b, "open")

(* ProxyHandler.Handle: FindByPath finds no route (404) or a disabled one  *)
(* (503), and the handler returns without consulting the breaker; or it    *)
(* reaches cb.Execute(route.TargetURL, fn), and the breaker either refuses *)
(* (503 without calling the backend) or counts the request and fn starts.  *)
Before(p) ==
    LET b == Refresh(cb) IN
    /\ pc[p] = "idle"
    /\ calls < MaxCalls
    /\ calls' = calls + 1
    /\ \E r \in Lookups :
          \/ /\ r # "enabled"
             /\ UNCHANGED <<cb, pc, pgen>>
          \/ /\ r = "enabled"
             /\ Rejected(b)
             /\ cb' = b
             /\ UNCHANGED <<pc, pgen>>
          \/ /\ r = "enabled"
             /\ ~Rejected(b)
             /\ cb' = [b EXCEPT !.req = @ + 1]
             /\ pc' = [pc EXCEPT ![p] = "calling"]
             /\ pgen' = [pgen EXCEPT ![p] = b.gen]
    /\ UNCHANGED <<now, badGen>>

(* Mutant: afterRequest without its generation check.                      *)
AfterAnyGen(p, o) ==
    LET b == Refresh(cb) IN
    cb' = IF Success(o) THEN OnSuccess(b) ELSE OnFailure(b)

(* afterRequest: a call admitted in an earlier generation is ignored.      *)
AfterRequest(p, o) ==
    LET b == Refresh(cb) IN
    cb' = IF b.gen # pgen[p] THEN b
          ELSE IF Success(o) THEN OnSuccess(b) ELSE OnFailure(b)

(* The ghost's count f with one more failure in generation g.            *)
AddBad(f, g) ==
    [x \in DOMAIN f \cup {g} |->
        (IF x \in DOMAIN f THEN f[x] ELSE 0) + (IF x = g THEN 1 ELSE 0)]

(* fn returns with the backend's outcome o and Execute finishes; the ghost *)
(* counts a 5xx or a transport error against the call's generation.        *)
After(p) ==
    /\ pc[p] = "calling"
    /\ \E o \in Outcomes :
          /\ AfterRequest(p, o)
          /\ badGen' = IF o = "2xx" THEN badGen ELSE AddBad(badGen, pgen[p])
    /\ pc' = [pc EXCEPT ![p] = "idle"]
    /\ UNCHANGED <<now, pgen, calls>>

Tick ==
    /\ now < MaxTime
    /\ now' = now + 1
    /\ UNCHANGED <<cb, pc, pgen, calls, badGen>>

Init ==
    /\ cb = [state |-> "closed", gen |-> 0,
             req |-> 0, succ |-> 0, fail |-> 0, csucc |-> 0, cfail |-> 0,
             expiry |-> Interval]
    /\ now = 0
    /\ pc = [p \in Procs |-> "idle"]
    /\ pgen = [p \in Procs |-> 0]
    /\ calls = 0
    /\ badGen = [g \in {} |-> 0]

Next ==
    \/ \E p \in Procs : Before(p) \/ After(p)
    \/ Tick

Spec == Init /\ [][Next]_vars

-----------------------------------------------------------------------------
(* The calls of generation g that fn is still running.                     *)
InFlight(g) == {p \in Procs : pc[p] = "calling" /\ pgen[p] = g}

(* The backend failures of generation g the ghost saw.                     *)
BadIn(g) == IF g \in DOMAIN badGen THEN badGen[g] ELSE 0

(* The breaker's counts describe its own generation: every request it      *)
(* counted is either still running or was counted once as a success or a  *)
(* failure.  A call that started before a state change and ends after it   *)
(* (a slow backend outliving the interval, the Open timeout or a probe     *)
(* round) must not be counted in the new generation.                       *)
CountsConsistent ==
    cb.req = cb.succ + cb.fail + Cardinality(InFlight(cb.gen))

(* Spec 4.4: in HalfOpen at most MaxRequests probes reach the backend at   *)
(* once, however many requests arrive concurrently.                        *)
ProbeBound ==
    cb.state = "halfopen" => Cardinality(InFlight(cb.gen)) <= MaxRequests

(* Spec 4.4: the breaker only moves Closed -> Open, Open -> HalfOpen and   *)
(* HalfOpen -> Closed or Open, and each move starts a new generation.  A   *)
(* step of Execute applies currentState before it counts a result, so a    *)
(* late result of an Open breaker's generation must neither close it nor   *)
(* skip the probes, whatever the clock did since the call started.         *)
Moves ==
    {<<"closed", "open">>, <<"open", "halfopen">>,
     <<"halfopen", "closed">>, <<"halfopen", "open">>}

BreakerTransitions ==
    [][cb'.state # cb.state =>
         <<cb.state, cb'.state>> \in Moves /\ cb'.gen > cb.gen]_vars

(* Spec 8, scenario 3: a target whose backend answered at least 60% of at  *)
(* least 3 requests of the interval with a 5xx or an error is not left     *)
(* Closed: the next call observes Open.                                    *)
BackendFailuresTrip ==
    cb.state = "closed" =>
        ~(cb.req >= 3 /\ 5 * BadIn(cb.gen) >= 3 * cb.req)

=============================================================================

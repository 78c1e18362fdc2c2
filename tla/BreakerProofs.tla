--------------------------- MODULE BreakerProofs ---------------------------
(***************************************************************************)
(* Proofs about a target's circuit breaker (module Breaker) for every set  *)
(* of request goroutines and every MaxRequests, Interval and Timeout.      *)
(*                                                                         *)
(* CountsConsistent is not inductive on its own: when the breaker moves to *)
(* a new generation its counts restart at zero, and that is consistent     *)
(* only if no running call already carries the new generation number.      *)
(* The strengthening says that every running call was admitted in the     *)
(* current generation or an earlier one, and that a HalfOpen breaker has   *)
(* counted at most MaxRequests requests (which ProbeBound then follows     *)
(* from).                                                                  *)
(***************************************************************************)
EXTENDS Breaker, FiniteSetTheorems, TLAPS

(* The calls of generation g running under the program counters pcx and   *)
(* generations pgx.                                                        *)
Flying(pcx, pgx, g) == {q \in Procs : pcx[q] = "calling" /\ pgx[q] = g}

(* No running call is ahead of breaker b.                                  *)
NotAhead(b, pcx, pgx) == \A q \in Procs : pcx[q] = "calling" => pgx[q] <= b.gen

(* The fields of breaker b that its counts are made of.                    *)
Counted(b) ==
    /\ b.state \in {"closed", "open", "halfopen"}
    /\ b.gen \in Nat /\ b.req \in Nat /\ b.succ \in Nat /\ b.fail \in Nat

(* Breaker b is consistent with the running calls.                         *)
Good(b, pcx, pgx) ==
    /\ Counted(b)
    /\ NotAhead(b, pcx, pgx)
    /\ b.req = b.succ + b.fail + Cardinality(Flying(pcx, pgx, b.gen))
    /\ b.state = "halfopen" => b.req <= MaxRequests

PcType(pcx) == pcx \in [Procs -> {"idle", "calling"}]

IInv ==
    /\ PcType(pc)
    /\ pgen \in [Procs -> Nat]
    /\ now \in Nat
    /\ Good(cb, pc, pgen)

-----------------------------------------------------------------------------
(* Every set of running calls is finite, with a natural cardinality.       *)
LEMMA FlyingFinite ==
  ASSUME NEW pcx, NEW pgx, NEW g
  PROVE  /\ IsFiniteSet(Flying(pcx, pgx, g))
         /\ Cardinality(Flying(pcx, pgx, g)) \in Nat
<1>1. Flying(pcx, pgx, g) \subseteq Procs
  BY DEF Flying
<1>2. IsFiniteSet(Flying(pcx, pgx, g))
  BY <1>1, BreakerAssumption, FS_Subset
<1>. QED  BY <1>2, FS_CardinalityType

(* A new generation starts with zero counts and no running call.           *)
LEMMA NewGenGood ==
  ASSUME NEW b, NEW pcx, NEW pgx \in [Procs -> Nat],
         NEW s \in {"closed", "open", "halfopen"},
         Counted(b), now \in Nat, NotAhead(b, pcx, pgx)
  PROVE  Good(NewGeneration(b, s), pcx, pgx)
<1> DEFINE n == NewGeneration(b, s)
<1>1. Counted(n)
  BY DEF NewGeneration, Counted
<1>2. n.gen = b.gen + 1 /\ n.req = 0 /\ n.succ = 0 /\ n.fail = 0
  BY DEF NewGeneration
<1>3. Flying(pcx, pgx, n.gen) = {}
  BY <1>2 DEF NotAhead, Flying, Counted
<1>4. NotAhead(n, pcx, pgx)
  BY <1>2 DEF NotAhead, Counted
<1>. QED  BY <1>1, <1>2, <1>3, <1>4, FS_EmptySet, BreakerAssumption DEF Good

(* currentState(now) keeps the breaker consistent.                         *)
LEMMA RefreshGood ==
  ASSUME NEW pcx, NEW pgx \in [Procs -> Nat], now \in Nat,
         Good(cb, pcx, pgx)
  PROVE  Good(Refresh(cb), pcx, pgx)
BY NewGenGood DEF Refresh, Good

(* Admitting an idle request p counts it in the breaker's generation.      *)
LEMMA AdmitGood ==
  ASSUME NEW b, NEW pcx, NEW pgx \in [Procs -> Nat], PcType(pcx),
         NEW p \in Procs, pcx[p] = "idle",
         Good(b, pcx, pgx), ~Rejected(b)
  PROVE  Good([b EXCEPT !.req = @ + 1],
              [pcx EXCEPT ![p] = "calling"], [pgx EXCEPT ![p] = b.gen])
<1> DEFINE b2 == [b EXCEPT !.req = @ + 1]
           pc2 == [pcx EXCEPT ![p] = "calling"]
           pg2 == [pgx EXCEPT ![p] = b.gen]
           F == Flying(pcx, pgx, b.gen)
<1>1. Flying(pc2, pg2, b2.gen) = F \cup {p}
  BY DEF Flying, PcType
<1>2. p \notin F
  BY DEF Flying
<1>3. IsFiniteSet(F) /\ Cardinality(F) \in Nat
  BY FlyingFinite
<1>4. Cardinality(F \cup {p}) = Cardinality(F) + 1
  BY <1>2, <1>3, FS_AddElement
<1>5. Counted(b2)
  BY DEF Good, Counted
<1>6. NotAhead(b2, pc2, pg2)
  BY DEF Good, NotAhead, PcType, Counted
<1>7. b2.state = "halfopen" => b2.req <= MaxRequests
  BY BreakerAssumption DEF Good, Rejected, Counted
<1>8. b.req = b.succ + b.fail + Cardinality(F) /\ Counted(b)
  BY DEF Good
<1>9. b2.req = b.req + 1 /\ b2.succ = b.succ /\ b2.fail = b.fail
      /\ b.req \in Nat /\ b.succ \in Nat /\ b.fail \in Nat
  BY <1>8 DEF Counted
<1>10. Cardinality(Flying(pc2, pg2, b2.gen)) = Cardinality(F) + 1
  BY <1>1, <1>4
<1>11. b2.req = b2.succ + b2.fail + Cardinality(Flying(pc2, pg2, b2.gen))
  BY <1>3, <1>8, <1>9, <1>10
<1>. QED  BY <1>5, <1>6, <1>7, <1>11 DEF Good

(* The bookkeeping of a finishing call p keeps the breaker consistent.     *)
LEMMA DoneGood ==
  ASSUME NEW b, NEW pcx, NEW pgx \in [Procs -> Nat], PcType(pcx),
         NEW p \in Procs, pcx[p] = "calling", NEW o \in Outcomes,
         now \in Nat, Good(b, pcx, pgx)
  PROVE  Good(IF b.gen # pgx[p] THEN b
              ELSE IF Success(o) THEN OnSuccess(b) ELSE OnFailure(b),
              [pcx EXCEPT ![p] = "idle"], pgx)
<1> DEFINE pc2 == [pcx EXCEPT ![p] = "idle"]
           F == Flying(pcx, pgx, b.gen)
<1>0. NotAhead(b, pc2, pgx) /\ Counted(b)
  BY DEF Good, NotAhead, PcType
<1>1. CASE b.gen # pgx[p]
  <2>1. Flying(pc2, pgx, b.gen) = F
    BY <1>1 DEF Flying, PcType
  <2>. QED  BY <1>0, <1>1, <2>1 DEF Good
<1>2. CASE b.gen = pgx[p]
  <2>1. Flying(pc2, pgx, b.gen) = F \ {p} /\ p \in F
    BY <1>2 DEF Flying, PcType
  <2>2. IsFiniteSet(F) /\ Cardinality(F) \in Nat
    BY FlyingFinite
  <2>3. Cardinality(F \ {p}) = Cardinality(F) - 1 /\ Cardinality(F) >= 1
    BY <2>1, <2>2, FS_RemoveElement, FS_EmptySet
  <2>4. \A s \in {"closed", "open", "halfopen"} : Good(NewGeneration(b, s), pc2, pgx)
    BY <1>0, NewGenGood
  <2>A. b.req = b.succ + b.fail + Cardinality(F)
        /\ (b.state = "halfopen" => b.req <= MaxRequests)
    BY DEF Good
  <2>B. Cardinality(Flying(pc2, pgx, b.gen)) = Cardinality(F) - 1
    BY <2>1, <2>3
  <2>5. Good([b EXCEPT !.succ = @ + 1, !.csucc = @ + 1, !.cfail = 0], pc2, pgx)
    <3> DEFINE c == [b EXCEPT !.succ = @ + 1, !.csucc = @ + 1, !.cfail = 0]
    <3>1. Counted(c) /\ c.gen = b.gen /\ c.req = b.req /\ c.state = b.state
          /\ c.succ = b.succ + 1 /\ c.fail = b.fail
      BY <1>0 DEF Counted
    <3>2. NotAhead(c, pc2, pgx)
      BY <1>0, <3>1 DEF NotAhead
    <3>3. c.req = c.succ + c.fail + Cardinality(Flying(pc2, pgx, c.gen))
      BY <1>0, <2>2, <2>3, <2>A, <2>B, <3>1 DEF Counted
    <3>. QED  BY <2>A, <3>1, <3>2, <3>3 DEF Good
  <2>6. Good([b EXCEPT !.fail = @ + 1, !.cfail = @ + 1, !.csucc = 0], pc2, pgx)
    <3> DEFINE c == [b EXCEPT !.fail = @ + 1, !.cfail = @ + 1, !.csucc = 0]
    <3>1. Counted(c) /\ c.gen = b.gen /\ c.req = b.req /\ c.state = b.state
          /\ c.succ = b.succ /\ c.fail = b.fail + 1
      BY <1>0 DEF Counted
    <3>2. NotAhead(c, pc2, pgx)
      BY <1>0, <3>1 DEF NotAhead
    <3>3. c.req = c.succ + c.fail + Cardinality(Flying(pc2, pgx, c.gen))
      BY <1>0, <2>2, <2>3, <2>A, <2>B, <3>1 DEF Counted
    <3>. QED  BY <2>A, <3>1, <3>2, <3>3 DEF Good
  <2>7. Good(OnSuccess(b), pc2, pgx)
    <3>1. OnSuccess(b) \in {NewGeneration(b, "closed"),
                            [b EXCEPT !.succ = @ + 1, !.csucc = @ + 1, !.cfail = 0]}
      BY DEF OnSuccess
    <3>. QED  BY <3>1, <2>4, <2>5
  <2>8. Good(OnFailure(b), pc2, pgx)
    <3>1. OnFailure(b) \in {NewGeneration(b, "open"),
                            [b EXCEPT !.fail = @ + 1, !.cfail = @ + 1, !.csucc = 0]}
      BY DEF OnFailure
    <3>. QED  BY <3>1, <2>4, <2>6
  <2>. QED  BY <1>2, <2>7, <2>8
<1>. QED  BY <1>1, <1>2

-----------------------------------------------------------------------------
(* A breaker just created by GetBreaker, with no call running.             *)
LEMMA InitInv == Init => IInv
<1> SUFFICES ASSUME Init PROVE IInv
  OBVIOUS
<1>1. Flying(pc, pgen, cb.gen) = {}
  BY DEF Init, Flying
<1>2. Counted(cb) /\ cb.req = 0 /\ cb.succ = 0 /\ cb.fail = 0 /\ cb.state = "closed"
  BY DEF Init, Counted
<1>3. NotAhead(cb, pc, pgen)
  BY DEF Init, NotAhead
<1>4. Cardinality(Flying(pc, pgen, cb.gen)) = 0
  BY <1>1, FS_EmptySet
<1>5. Good(cb, pc, pgen)
  BY <1>2, <1>3, <1>4 DEF Good
<1>6. PcType(pc) /\ pgen \in [Procs -> Nat] /\ now \in Nat
  BY DEF Init, PcType
<1>. QED  BY <1>5, <1>6 DEF IInv

(* Every step of the requests and of the clock keeps the breaker           *)
(* consistent with the running calls.                                      *)
LEMMA StepInv == IInv /\ [Next]_vars => IInv'
<1> SUFFICES ASSUME IInv, [Next]_vars PROVE IInv'
  OBVIOUS
<1>0. Good(Refresh(cb), pc, pgen)
  BY RefreshGood DEF IInv
<1>1. ASSUME NEW p \in Procs, Before(p) PROVE IInv'
  <2> DEFINE b == Refresh(cb)
  <2>1. PICK r \in Lookups :
          \/ r # "enabled" /\ UNCHANGED <<cb, pc, pgen>>
          \/ r = "enabled" /\ Rejected(b) /\ cb' = b /\ UNCHANGED <<pc, pgen>>
          \/ /\ r = "enabled" /\ ~Rejected(b)
             /\ cb' = [b EXCEPT !.req = @ + 1]
             /\ pc' = [pc EXCEPT ![p] = "calling"]
             /\ pgen' = [pgen EXCEPT ![p] = b.gen]
    BY <1>1 DEF Before
  <2>2. now' = now /\ pc[p] = "idle"
    BY <1>1 DEF Before
  <2>3. Good(cb', pc', pgen')
    <3>1. CASE r # "enabled" /\ UNCHANGED <<cb, pc, pgen>>
      BY <3>1 DEF IInv
    <3>2. CASE r = "enabled" /\ Rejected(b) /\ cb' = b /\ UNCHANGED <<pc, pgen>>
      BY <3>2, <1>0
    <3>3. CASE /\ r = "enabled" /\ ~Rejected(b)
               /\ cb' = [b EXCEPT !.req = @ + 1]
               /\ pc' = [pc EXCEPT ![p] = "calling"]
               /\ pgen' = [pgen EXCEPT ![p] = b.gen]
      BY <3>3, <1>0, <2>2, AdmitGood DEF IInv
    <3>. QED  BY <2>1, <3>1, <3>2, <3>3
  <2>4. PcType(pc') /\ pgen' \in [Procs -> Nat]
    BY <2>1, <1>0 DEF IInv, PcType, Good, Counted
  <2>. QED  BY <2>2, <2>3, <2>4 DEF IInv
<1>2. ASSUME NEW p \in Procs, After(p) PROVE IInv'
  <2> DEFINE b == Refresh(cb)
  <2>1. PICK o \in Outcomes :
          cb' = IF b.gen # pgen[p] THEN b
                ELSE IF Success(o) THEN OnSuccess(b) ELSE OnFailure(b)
    BY <1>2 DEF After, AfterRequest
  <2>2. pc[p] = "calling" /\ pc' = [pc EXCEPT ![p] = "idle"]
        /\ pgen' = pgen /\ now' = now
    BY <1>2 DEF After
  <2>3. Good(cb', pc', pgen')
    BY <2>1, <2>2, <1>0, DoneGood DEF IInv
  <2>4. PcType(pc')
    BY <2>2 DEF IInv, PcType
  <2>. QED  BY <2>2, <2>3, <2>4 DEF IInv
<1>3. CASE Tick
  BY <1>3 DEF Tick, IInv
<1>4. CASE UNCHANGED vars
  BY <1>4 DEF vars, IInv
<1>. QED  BY <1>1, <1>2, <1>3, <1>4 DEF Next

(* The breaker's counts of a generation are exactly its finished and its   *)
(* running calls of that generation, however the proxied calls of the      *)
(* request goroutines interleave with the interval reset, the Open timeout *)
(* and HalfOpen rounds: afterRequest's generation check drops every late   *)
(* result.                                                                 *)
THEOREM CountsAreConsistent == Spec => []CountsConsistent
<1>1. IInv => CountsConsistent
  BY DEF IInv, Good, Flying, InFlight, CountsConsistent
<1>. QED  BY <1>1, InitInv, StepInv, PTL DEF Spec

(* beforeRequest's gate: a HalfOpen breaker never has more than            *)
(* MaxRequests probes of its round running, for every number of request    *)
(* goroutines.                                                             *)
THEOREM ProbesBounded == Spec => []ProbeBound
<1>1. IInv => ProbeBound
  <2> SUFFICES ASSUME IInv, cb.state = "halfopen"
               PROVE  Cardinality(InFlight(cb.gen)) <= MaxRequests
    BY DEF ProbeBound
  <2>1. InFlight(cb.gen) = Flying(pc, pgen, cb.gen)
    BY DEF InFlight, Flying
  <2>2. Cardinality(Flying(pc, pgen, cb.gen)) \in Nat
    BY FlyingFinite
  <2>. QED  BY <2>1, <2>2, BreakerAssumption DEF IInv, Good, Counted
<1>. QED  BY <1>1, InitInv, StepInv, PTL DEF Spec
-----------------------------------------------------------------------------
(* Type correctness.  A breaker record is rebuilt field by field, so that  *)
(* membership in Breakers follows from the type of each field.             *)
LEMMA BreakerRecord ==
  ASSUME NEW st \in {"closed", "open", "halfopen"}, NEW g \in Nat,
         NEW r \in Nat, NEW su \in Nat, NEW fa \in Nat, NEW cs \in Nat,
         NEW cf \in Nat, NEW ex \in Nat
  PROVE  [state |-> st, gen |-> g, req |-> r, succ |-> su, fail |-> fa,
          csucc |-> cs, cfail |-> cf, expiry |-> ex] \in Breakers
BY DEF Breakers

(* Setting the fields of a breaker keeps it a breaker.                     *)
LEMMA BreakerFields ==
  ASSUME NEW b \in Breakers
  PROVE  b = [state |-> b.state, gen |-> b.gen, req |-> b.req,
              succ |-> b.succ, fail |-> b.fail, csucc |-> b.csucc,
              cfail |-> b.cfail, expiry |-> b.expiry]
BY DEF Breakers

LEMMA NewGenType ==
  ASSUME NEW b \in Breakers, NEW s \in {"closed", "open", "halfopen"},
         now \in Nat
  PROVE  NewGeneration(b, s) \in Breakers
<1>1. b.gen + 1 \in Nat
  BY DEF Breakers
<1>2. (CASE s = "closed" -> now + Interval [] s = "open" -> now + Timeout
        [] s = "halfopen" -> 0) \in Nat
  BY BreakerAssumption
<1>. QED  BY <1>1, <1>2, BreakerRecord DEF NewGeneration

LEMMA RefreshType ==
  ASSUME cb \in Breakers, now \in Nat
  PROVE  Refresh(cb) \in Breakers
BY NewGenType DEF Refresh

(* Admitting a request counts it.                                          *)
LEMMA AdmitType ==
  ASSUME NEW b \in Breakers
  PROVE  [b EXCEPT !.req = @ + 1] \in Breakers
<1>1. [b EXCEPT !.req = @ + 1]
        = [state |-> b.state, gen |-> b.gen, req |-> b.req + 1,
           succ |-> b.succ, fail |-> b.fail, csucc |-> b.csucc,
           cfail |-> b.cfail, expiry |-> b.expiry]
  BY BreakerFields
<1>2. b.req + 1 \in Nat
  BY DEF Breakers
<1>. QED  BY <1>1, <1>2, BreakerRecord DEF Breakers

(* Setting one counting field of a breaker keeps it a breaker.            *)
LEMMA SetField ==
  ASSUME NEW b \in Breakers, NEW v \in Nat,
         NEW f \in {"succ", "fail", "csucc", "cfail"}
  PROVE  [b EXCEPT ![f] = v] \in Breakers
<1>1. CASE f = "succ"
  <2>1. [b EXCEPT ![f] = v]
          = [state |-> b.state, gen |-> b.gen, req |-> b.req,
             succ |-> v, fail |-> b.fail, csucc |-> b.csucc,
             cfail |-> b.cfail, expiry |-> b.expiry]
    BY <1>1, BreakerFields
  <2>. QED  BY <2>1, BreakerRecord DEF Breakers
<1>2. CASE f = "fail"
  <2>1. [b EXCEPT ![f] = v]
          = [state |-> b.state, gen |-> b.gen, req |-> b.req,
             succ |-> b.succ, fail |-> v, csucc |-> b.csucc,
             cfail |-> b.cfail, expiry |-> b.expiry]
    BY <1>2, BreakerFields
  <2>. QED  BY <2>1, BreakerRecord DEF Breakers
<1>3. CASE f = "csucc"
  <2>1. [b EXCEPT ![f] = v]
          = [state |-> b.state, gen |-> b.gen, req |-> b.req,
             succ |-> b.succ, fail |-> b.fail, csucc |-> v,
             cfail |-> b.cfail, expiry |-> b.expiry]
    BY <1>3, BreakerFields
  <2>. QED  BY <2>1, BreakerRecord DEF Breakers
<1>4. CASE f = "cfail"
  <2>1. [b EXCEPT ![f] = v]
          = [state |-> b.state, gen |-> b.gen, req |-> b.req,
             succ |-> b.succ, fail |-> b.fail, csucc |-> b.csucc,
             cfail |-> v, expiry |-> b.expiry]
    BY <1>4, BreakerFields
  <2>. QED  BY <2>1, BreakerRecord DEF Breakers
<1>. QED  BY <1>1, <1>2, <1>3, <1>4

(* onSuccess and onFailure keep a breaker a breaker.                       *)
LEMMA DoneType ==
  ASSUME NEW b \in Breakers, now \in Nat
  PROVE  OnSuccess(b) \in Breakers /\ OnFailure(b) \in Breakers
<1> DEFINE s1 == [b EXCEPT !.succ = @ + 1]
           s2 == [s1 EXCEPT !.csucc = @ + 1]
           s3 == [s2 EXCEPT !.cfail = 0]
           f1 == [b EXCEPT !.fail = @ + 1]
           f2 == [f1 EXCEPT !.cfail = @ + 1]
           f3 == [f2 EXCEPT !.csucc = 0]
<1>1. s1 \in Breakers /\ f1 \in Breakers
  BY SetField DEF Breakers
<1>2. s1.csucc = b.csucc /\ f1.cfail = b.cfail
  BY DEF Breakers
<1>3. s1.csucc + 1 \in Nat /\ f1.cfail + 1 \in Nat
  BY <1>2 DEF Breakers
<1>4. s2 \in Breakers /\ f2 \in Breakers
  BY <1>1, <1>3, SetField
<1>5. s3 \in Breakers /\ f3 \in Breakers
  BY <1>4, SetField
<1>6. /\ [b EXCEPT !.succ = @ + 1, !.csucc = @ + 1, !.cfail = 0] = s3
      /\ [b EXCEPT !.fail = @ + 1, !.cfail = @ + 1, !.csucc = 0] = f3
  OBVIOUS
<1>7. NewGeneration(b, "closed") \in Breakers /\ NewGeneration(b, "open") \in Breakers
  BY NewGenType
<1>. QED  BY <1>5, <1>6, <1>7 DEF OnSuccess, OnFailure

(* The ghost's failure counts stay a function into Nat.                    *)
LEMMA GhostType ==
  ASSUME NEW f, f \in [DOMAIN f -> Nat], NEW g
  PROVE  AddBad(f, g) \in [DOMAIN AddBad(f, g) -> Nat]
BY DEF AddBad

(* Every step keeps every variable of the model within its type: the       *)
(* breaker a record of states and natural counts, the clock and the        *)
(* request count within their bounds.                                      *)
LEMMA TypeStep == TypeOK /\ [Next]_vars => TypeOK'
<1> SUFFICES ASSUME TypeOK, [Next]_vars PROVE TypeOK'
  OBVIOUS
<1>0. Refresh(cb) \in Breakers /\ Refresh(cb).gen \in Nat
  BY RefreshType DEF TypeOK, Breakers
<1>1. ASSUME NEW p \in Procs, Before(p) PROVE TypeOK'
  <2>1. cb' \in Breakers
    BY <1>1, <1>0, AdmitType DEF Before, TypeOK
  <2>2. pc' \in [Procs -> {"idle", "calling"}] /\ pgen' \in [Procs -> Nat]
    BY <1>1, <1>0 DEF Before, TypeOK
  <2>3. calls' \in 0..MaxCalls
    BY <1>1, BreakerAssumption DEF Before, TypeOK
  <2>. QED  BY <1>1, <2>1, <2>2, <2>3 DEF Before, TypeOK
<1>2. ASSUME NEW p \in Procs, After(p) PROVE TypeOK'
  <2>1. PICK o \in Outcomes :
          /\ AfterRequest(p, o)
          /\ badGen' = IF o = "2xx" THEN badGen ELSE AddBad(badGen, pgen[p])
    BY <1>2 DEF After
  <2>2. cb' \in Breakers
    BY <2>1, <1>0, DoneType DEF AfterRequest, TypeOK
  <2>3. badGen' \in [DOMAIN badGen' -> Nat]
    BY <2>1, GhostType DEF TypeOK
  <2>4. pc' \in [Procs -> {"idle", "calling"}]
    BY <1>2 DEF After, TypeOK
  <2>. QED  BY <1>2, <2>2, <2>3, <2>4 DEF After, TypeOK
<1>3. CASE Tick
  BY <1>3, BreakerAssumption DEF Tick, TypeOK
<1>4. CASE UNCHANGED vars
  BY <1>4 DEF vars, TypeOK
<1>. QED  BY <1>1, <1>2, <1>3, <1>4 DEF Next

(* The gateway's breaker state, clock and request goroutines keep their    *)
(* types in every reachable state, for every setting of the breaker.       *)
THEOREM TypeCorrect == Spec => []TypeOK
<1>1. Init => TypeOK
  <2> SUFFICES ASSUME Init PROVE TypeOK
    OBVIOUS
  <2>1. cb \in Breakers
    BY BreakerAssumption, BreakerRecord DEF Init
  <2>. QED  BY <2>1, BreakerAssumption DEF Init, TypeOK
<1>. QED  BY <1>1, TypeStep, PTL DEF Spec
-----------------------------------------------------------------------------
(* The moves of the breaker.                                               *)
Move(b, c) == c.state # b.state => <<b.state, c.state>> \in Moves /\ c.gen > b.gen

(* currentState either leaves the breaker as it is or starts the next      *)
(* generation, in a legal move.                                            *)
LEMMA RefreshMove ==
  ASSUME Counted(cb), now \in Nat
  PROVE  /\ Refresh(cb).gen = cb.gen => Refresh(cb) = cb
         /\ Refresh(cb).gen \in {cb.gen, cb.gen + 1}
         /\ Move(cb, Refresh(cb))
BY BreakerAssumption DEF Refresh, NewGeneration, Counted, Move, Moves

(* onSuccess and onFailure move the breaker legally.                       *)
LEMMA ResultMove ==
  ASSUME NEW b, Counted(b), NEW o
  PROVE  Move(b, IF Success(o) THEN OnSuccess(b) ELSE OnFailure(b))
<1>1. Move(b, OnSuccess(b))
  BY DEF OnSuccess, NewGeneration, Counted, Move, Moves
<1>2. Move(b, OnFailure(b))
  BY DEF OnFailure, NewGeneration, Counted, Move, Moves
<1>. QED  BY <1>1, <1>2

(* A step of the model moves the breaker legally.                          *)
LEMMA StepMove ==
  IInv /\ [Next]_vars => [Move(cb, cb')]_vars
<1> SUFFICES ASSUME IInv, [Next]_vars PROVE [Move(cb, cb')]_vars
  OBVIOUS
<1>0. Counted(cb) /\ now \in Nat /\ NotAhead(cb, pc, pgen)
  BY DEF IInv, Good
<1>1. ASSUME NEW p \in Procs, Before(p) PROVE Move(cb, cb')
  <2> DEFINE b == Refresh(cb)
  <2>1. Move(cb, b)
    BY <1>0, RefreshMove
  <2>2. cb' \in {cb, b, [b EXCEPT !.req = @ + 1]}
    BY <1>1 DEF Before
  <2>3. [b EXCEPT !.req = @ + 1].state = b.state
        /\ [b EXCEPT !.req = @ + 1].gen = b.gen
    BY <1>0 DEF Refresh, NewGeneration, Counted
  <2>. QED  BY <2>1, <2>2, <2>3 DEF Move
<1>2. ASSUME NEW p \in Procs, After(p) PROVE Move(cb, cb')
  <2> DEFINE b == Refresh(cb)
  <2>1. PICK o \in Outcomes :
          cb' = IF b.gen # pgen[p] THEN b
                ELSE IF Success(o) THEN OnSuccess(b) ELSE OnFailure(b)
    BY <1>2 DEF After, AfterRequest
  <2>2. CASE b.gen # pgen[p]
    BY <2>1, <2>2, <1>0, RefreshMove
  <2>3. CASE b.gen = pgen[p]
    <3>1. pgen[p] <= cb.gen /\ pgen[p] \in Nat
      BY <1>2, <1>0 DEF After, NotAhead, IInv
    <3>2. b = cb
      BY <2>3, <3>1, <1>0, RefreshMove DEF Counted
    <3>. QED  BY <2>1, <2>3, <3>2, <1>0, ResultMove
  <2>. QED  BY <2>2, <2>3
<1>3. CASE Tick
  BY <1>3 DEF Tick, Move
<1>4. CASE UNCHANGED vars
  BY <1>4 DEF vars, Move
<1>. QED  BY <1>1, <1>2, <1>3, <1>4 DEF Next

(* Spec 4.4's state machine holds of the gateway's breakers: every state   *)
(* change is Closed -> Open, Open -> HalfOpen or HalfOpen -> Closed/Open   *)
(* and starts a new generation, for every interleaving of the proxied     *)
(* calls with the clock.  A late result never drives the breaker, because  *)
(* no running call is ahead of the breaker's generation.                   *)
THEOREM TransitionsLegal == Spec => BreakerTransitions
<1>1. IInv /\ [Next]_vars => [Move(cb, cb')]_vars
  BY StepMove
<1>. QED  BY <1>1, InitInv, StepInv, PTL DEF Spec, BreakerTransitions, Move
====

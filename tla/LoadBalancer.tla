---------------------------- MODULE LoadBalancer ----------------------------
(***************************************************************************)
(* The load balancer of unnamed/part_003 with the strategy NewV2 gives it, *)
(* round robin.  lb.backends is a sequence of backends, each a URL and a   *)
(* health flag (AddBackend does not reject a URL already present, so two   *)
(* backends can share one).  lb.current is a uint32 advanced with          *)
(* atomic.AddUint32; here it has Width bits so that its wrap-around is     *)
(* reachable.  Every method holds lb.mu, and GetBackend's loop is one step *)
(* (its atomic increments are the only writes it makes).                   *)
(***************************************************************************)
EXTENDS Naturals, Sequences, SequencesExt

CONSTANTS
    URLs,       \* backend addresses
    Width,      \* bits of lb.current (32; at least 1)
    MaxBackends,\* bound on len(lb.backends), for model checking
    MaxPicks    \* bound on the selections recorded, for model checking

Modulus == 2^Width

VARIABLES
    backends,   \* lb.backends: a sequence of [url, healthy]
    current,    \* lb.current
    picks       \* ghost: positions GetBackend returned since the backends
                \* or their health last changed

vars == <<backends, current, picks>>

TypeOK ==
    /\ backends \in Seq([url : URLs, healthy : BOOLEAN])
    /\ current \in 0..Modulus - 1
    /\ picks \in Seq(Nat)

Init ==
    /\ backends = <<>>
    /\ current = 0
    /\ picks = <<>>

(* AddBackend: append a healthy backend.                                   *)
AddBackend(u) ==
    /\ Len(backends) < MaxBackends
    /\ backends' = Append(backends, [url |-> u, healthy |-> TRUE])
    /\ picks' = <<>>
    /\ UNCHANGED current

(* RemoveBackend: drop the first backend with that URL, if any.            *)
RemoveBackend(u) ==
    /\ backends' = RemoveFirstMatch(backends, LAMBDA b : b.url = u)
    /\ picks' = <<>>
    /\ UNCHANGED current

(* MarkHealthy: set the flag of the first backend with that URL.           *)
MarkHealthy(u, h) ==
    LET i == SelectInSeq(backends, LAMBDA b : b.url = u) IN
    /\ backends' = IF i = 0 THEN backends
                   ELSE [backends EXCEPT ![i].healthy = h]
    /\ picks' = <<>>
    /\ UNCHANGED current

(* The position roundRobin looks at after its k-th increment:              *)
(* (lb.current + k) as a uint32, modulo len(lb.backends), from 1.          *)
Slot(k) == (((current + k) % Modulus) % Len(backends)) + 1

(* GetBackend with round robin: up to len(backends) increments until a     *)
(* healthy backend is found, else backends[0]; "no backends available"     *)
(* when the slice is empty.                                                *)
GetBackend ==
    LET n == Len(backends)
        k == SelectInSeq([j \in 1..n |-> backends[Slot(j)].healthy],
                         LAMBDA h : h)
    IN
    /\ n > 0
    /\ Len(picks) < MaxPicks
    /\ current' = (current + (IF k = 0 THEN n ELSE k)) % Modulus
    /\ picks' = Append(picks, IF k = 0 THEN 1 ELSE Slot(k))
    /\ UNCHANGED backends

Next ==
    \/ \E u \in URLs : AddBackend(u) \/ RemoveBackend(u)
    \/ \E u \in URLs, h \in BOOLEAN : MarkHealthy(u, h)
    \/ GetBackend

Spec == Init /\ [][Next]_vars

-----------------------------------------------------------------------------
(* Spec 8, load balancer: round robin over n healthy backends yields each  *)
(* exactly once per n selections: any n consecutive selections made while  *)
(* all backends stay healthy and the set does not change are n distinct    *)
(* backends.  The uint32 counter wrapping when 2^32 is not a multiple of n *)
(* is what can break it.                                                   *)
RoundRobinFair ==
    LET n == Len(backends) IN
    (\A i \in 1..n : backends[i].healthy) =>
        \A i \in 1..(Len(picks) - n + 1) :
            IsInjective([j \in 1..n |-> picks[i + j - 1]])

=============================================================================

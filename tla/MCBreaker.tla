------------------------------ MODULE MCBreaker -----------------------------
(* One proxy target of the breaker registry, for TLC.                      *)
EXTENDS Breaker, TLC

CONSTANTS p1, p2, p3, p4

MCProcs == {p1, p2, p3, p4}

(* The request goroutines are interchangeable. *)
Sym == Permutations(MCProcs)
=============================================================================

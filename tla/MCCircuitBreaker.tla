-------------------------- MODULE MCCircuitBreaker --------------------------
(* Three interchangeable callers of one breaker.                            *)
(*                                                                          *)
(* HandlerRules says nothing of the breaker. It is here for TLC to evaluate *)
(* what it finds of the handlers' scripts, which no change of the breaker   *)
(* touches: the run of SharedConnection is also made with altered scripts,  *)
(* of which it would not be true.                                           *)
EXTENDS CircuitBreaker, HandlerRules, TLC

CallerSymmetry == Permutations(Callers)
=============================================================================

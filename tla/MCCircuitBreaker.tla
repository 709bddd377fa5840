------------------------- MODULE MCCircuitBreaker --------------------------
(* Instances of BreakerManager, and so of CircuitBreaker, for TLC. *)
EXTENDS BreakerManager
=============================================================================

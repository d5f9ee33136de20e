-------------------------- MODULE MC_CircuitBreaker --------------------------
(* Instances of CircuitBreaker for TLC.                                     *)
EXTENDS CircuitBreaker

\* The engine that has both a daily and a permanent halt.
OneEngine == {"E3"}
==============================================================================

---------------------------- MODULE MC_MMEngine ----------------------------
(* Instances of MMEngine for TLC.                                          *)
EXTENDS MMEngine, TLC

Symmetric == Permutations(Markets)

\* Everything but the end of a loop.
CallFaults == FaultKinds \ {"loop"}

\* What the liveness of the loops is asked under: they may die, but the market
\* reads of the risk loop succeed.
TaskFaults == {"refuse", "raise", "loop", "crash"}

NoFaults == {}
=============================================================================

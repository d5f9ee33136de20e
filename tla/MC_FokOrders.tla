---------------------------- MODULE MC_FokOrders ----------------------------
(* Instances of FokOrders for TLC.                                          *)
EXTENDS FokOrders

\* The asks of u1 drift by a ladder; u2 only competes for the one entry.  Two
\* shares at an ask of 2, one at 4: a ladder may be too dear, too large or
\* too small for a leg.
SomeBooks ==
  {[unit |-> "u1", ask |-> 2, usd |-> 4], [unit |-> "u1", ask |-> 4, usd |-> 4],
   [unit |-> "u2", ask |-> 2, usd |-> 4]}

SomeRequests ==
  {[unit |-> "u1", value |-> 2, qty |-> 1], [unit |-> "u1", value |-> 3, qty |-> 2]}
=============================================================================

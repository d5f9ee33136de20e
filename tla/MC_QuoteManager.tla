--------------------------- MODULE MC_QuoteManager ---------------------------
(* Instances of QuoteManager for TLC.                                       *)
EXTENDS QuoteManager

Touches(prices, spread) == {[bid |-> p, ask |-> p + spread] : p \in prices}

\* Two bids a tick apart, with the ask two ticks above.
TwoTouches == Touches({4, 6}, 4)

\* Three bids over four ticks: enough to accumulate, average and be cut.
ThreeTouches == Touches({4, 6, 10}, 2) \cup {[bid |-> 0, ask |-> 0]}

\* One touch that comes and goes.
OneTouch == Touches({4}, 4) \cup {[bid |-> 0, ask |-> 0]}

AllFaults == FaultKinds

NoFaults == {}

\* What moves shares and prices without losing track of orders.
PriceFaults == {"poll", "terminate", "thin", "halt"}

\* A poll that never succeeds, a lost order and a dead task notice no fill.
LiveFaults == {"sell"}

\* Prices in quarter ticks; a book that always has two sides once it is read.
QuarterTouches == Touches({8, 12}, 4)
==============================================================================

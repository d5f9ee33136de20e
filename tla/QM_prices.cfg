SPECIFICATION Spec
CONSTANTS
  Legs = {"UP"}
  Books <- ThreeTouches
  NoQuote = NoQuote
  Tick = 2
  CutTicks = 2
  MinProfitTicks = 1
  MinShares = 2
  SizeUsd = 8
  InvCap = 16
  MaxLegPrice = 100
  NoAverageDown = TRUE
  RecycleByAge = FALSE
  Faults <- PriceFaults
  MaxChain = 4
  MaxOrphan = 0
INVARIANTS ExposureBound AskProfitable
PROPERTIES CostNeverFalls

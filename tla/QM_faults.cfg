SPECIFICATION Spec
CONSTANTS
  Legs = {"UP"}
  Books <- TwoTouches
  NoQuote = NoQuote
  Tick = 2
  CutTicks = 2
  MinProfitTicks = 1
  MinShares = 2
  SizeUsd = 8
  InvCap = 8
  MaxLegPrice = 100
  NoAverageDown = TRUE
  RecycleByAge = TRUE
  Faults <- AllFaults
  MaxChain = 3
  MaxOrphan = 2
INVARIANT TypeOK
PROPERTIES AsksStayCovered GapExplained EndsSoon

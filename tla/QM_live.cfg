SPECIFICATION FairSpec
CONSTANTS
  Legs = {"UP", "DOWN"}
  Books <- OneTouch
  NoQuote = NoQuote
  Tick = 2
  CutTicks = 2
  MinProfitTicks = 1
  MinShares = 1
  SizeUsd = 8
  InvCap = 8
  MaxLegPrice = 100
  NoAverageDown = TRUE
  RecycleByAge = FALSE
  Faults <- LiveFaults
  MaxChain = 1
  MaxOrphan = 0
INVARIANT QuietWhenFlattening
PROPERTIES EndsQuiet FillsNoticed

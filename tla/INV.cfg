SPECIFICATION Spec
CONSTANTS
  Markets = {m1}
  Legs = {"UP", "DOWN"}
  Lots = {1, 2}
  Gains <- LossOrGain
  None = None
  MaxShares = 1
  MaxPnl = 1
INVARIANTS TypeOK BooksKept OwnSharesOnly

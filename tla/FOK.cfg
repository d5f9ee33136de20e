SPECIFICATION Spec
CONSTANTS
  Units = {"u1", "u2"}
  Books <- SomeBooks
  QueueSize = 1
  MaxTokens = 1
  Ladder = 2
  Redrift = 2
  MinInterval = 1
  MaxAge = 2
  Expiration = 3
  Buffer = 1
  Second = 2
  Cap = 4
  NoEntry = NoEntry
  MaxNow = 3
  MaxSigned = 4
  Calls = {c1}
  Requests <- SomeRequests
  Outcomes <- OutcomeKinds
  Prices = {3}
  NoLeg = NoLeg
INVARIANTS TypeOK CacheBounded OneLadder NoPhantomShares CostExplained
PROPERTIES DropsForGood ImplementsOneShot
CHECK_DEADLOCK FALSE

SPECIFICATION Spec
CONSTANTS
  Honest = {h1, h2, h3}
  Corrupt = {c1}
  Quorum = 3
  Freshness = 1
  HistorySize = 4
  Tolerance = 1
  Window = 4
  GuardBps = 12
  Prices = {1000, 1002}
  WrongPrices = {0, 5000}
  None = None
  MaxNow = 5
SYMMETRY HonestFeeds
INVARIANTS TypeOK MinorityOutvoted ClosestSample FreshMeansRecent NoFalseAlarm MoveStopsBuying
CHECK_DEADLOCK FALSE

SPECIFICATION MmSpec
CONSTANTS
  Engines <- NoEngines
  TicksPerDay = 1
  WeekDays = 7
  Crashes = TRUE
  MaxNow = 1
  Scopes = {"paper", "live"}
  DailyLimit = 1
  CumLimit = 2
  Unrealized <- AtOrUnder
  NoReport = NoReport
  Markets = 2
  Pnl <- Losses
INVARIANTS MmTypeOK FloorHonored
PROPERTIES TodayExact

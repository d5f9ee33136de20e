SPECIFICATION MmSpec
CONSTANTS
  Engines <- NoEngines
  TicksPerDay = 2
  WeekDays = 7
  Crashes = FALSE
  MaxNow = 4
  Scopes = {"paper", "live"}
  DailyLimit = 1
  CumLimit = 3
  Unrealized <- AtOrUnder
  NoReport = NoReport
  Markets = 1
  Pnl <- WidePnl
INVARIANT DailyHonored

SPECIFICATION Spec
CONSTANTS
  Engines <- OneEngine
  TicksPerDay = 2
  WeekDays = 1
  Crashes = TRUE
  MaxNow = 3
INVARIANTS TypeOK BreachHonored HaltHasCause

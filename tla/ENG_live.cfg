SPECIFICATION FairSpec
CONSTANTS
  Markets = {m1}
  Faults <- TaskFaults
  MaxShares = 2
PROPERTIES HaltStopsQuoting ClosedSettled

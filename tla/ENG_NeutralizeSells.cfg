SPECIFICATION Spec
CONSTANTS
  Markets = {m1}
  Faults <- NoFaults
  MaxShares = 1
PROPERTY NeutralizeSells

SPECIFICATION Spec
CONSTANTS
  Markets = {m1, m2}
  Faults <- CallFaults
  MaxShares = 1
INVARIANTS TypeOK DisposedOnce ShutdownQuiet
SYMMETRY Symmetric

SPECIFICATION Spec
CONSTANTS
  MaxWrites = 1
  MaxArrivals = 1
  MaxOpens = 1
  MaxFaults = 1
INVARIANTS
  FaultReported
CHECK_DEADLOCK FALSE

SPECIFICATION Spec
CONSTANTS
  MaxWrites = 2
  MaxArrivals = 1
  MaxOpens = 2
  MaxFaults = 0
INVARIANTS
  OpenMeansFlushed
CHECK_DEADLOCK FALSE

SPECIFICATION Spec
CONSTANTS
  Blocks = 1
  MaxDownloads = 2
  MaxFaults = 1
INVARIANTS
  FailureRestores

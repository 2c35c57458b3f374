SPECIFICATION KwSpec
CONSTANTS
  Schedule <- KwSchedule
  Recoveries <- DriverOnly
  Faults = {"lose", "corrupt", "exception"}
  Budget = 1
INVARIANTS
  OwnInputs

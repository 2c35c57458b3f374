SPECIFICATION KwFairSpec
CONSTANTS
  Schedule <- KwSchedule
  Recoveries <- DriverOrRepairing
  Faults = {"lose", "corrupt", "misframe", "exception", "late", "overdue", "write", "read"}
  Budget = 3
INVARIANTS
  TypeOK
  AnswerIsOwn
  OwnPlaces
PROPERTIES
  ImplementsPolling
  Realigns

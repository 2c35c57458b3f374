SPECIFICATION StartupSpec
CONSTANTS
  IoConfigLen = 5
  ModuleMax = 3
  Configs <- Tables
  MaxOnLine = 3
INVARIANTS
  StartupTypeOK
  TrueMeansStarted
  CleanSucceeds

SPECIFICATION FairSpec
CONSTANTS
  MaxWrites = 2
  MaxArrivals = 2
  MaxOpens = 2
  MaxFaults = 1
INVARIANTS
  TypeOK
  OneWrite
  InputFifo
  NoLostWakeup
  CloseServed
PROPERTIES
  ImplementsStream
  StallIsFinal
  CloseReturns
  WritesReachLine
CHECK_DEADLOCK FALSE

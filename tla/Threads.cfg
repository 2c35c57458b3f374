SPECIFICATION FairSpec
CONSTANTS
  Thread = {t1, t2}
  NoThread = none
  MaxCalls = 4
INVARIANTS
  TypeOK
  RunNeedsStart
  SleepsUnanswered
PROPERTIES
  
  ResumeWakes
  EnterReturns
CHECK_DEADLOCK FALSE

SPECIFICATION Spec
CONSTANTS
  IoConfigLen = 35
  ModuleMax = 32
  Configs <- Tables
INVARIANTS
  TypeOK
  FrameDisjoint
  AreaDisjoint
  InsideFrame
  BoardAgrees

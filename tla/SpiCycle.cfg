SPECIFICATION FairSpec
CONSTANTS
  N = 2
  Budget = 2
INVARIANTS
  TypeOK
  ImageGenuine
  FrameFollowsInput
  SettlesInThree
PROPERTIES
  Converges

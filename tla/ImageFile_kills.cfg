SPECIFICATION Spec
CONSTANTS
  Blocks = 2
  MaxDownloads = 3
  MaxFaults = 2
INVARIANTS
  TypeOK
  BootImageWhole
  ActiveBoots
PROPERTIES
  ImplementsBoot

SPECIFICATION Spec
CONSTANTS
  Line = {"com1", "com2"}
  ModbusByteLen = 2
  ModbusWordLen = 2
  Layouts <- MCLayouts
  MaxOwed <- MCOwed
INVARIANTS
  TypeOK
  OwnInputs
  PlaceKept

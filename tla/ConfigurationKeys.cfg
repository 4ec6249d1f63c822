\* Every way to write a key.
SPECIFICATION ConfigSpec
CONSTANTS
  Absent = Absent
  Missing = Missing
  Garbled = Garbled
  Refused = Refused
  MaxI64 = 2
  Inputs <- KeyInputs
INVARIANTS DocumentedKeysLoad
CHECK_DEADLOCK FALSE

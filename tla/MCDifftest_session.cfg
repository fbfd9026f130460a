SPECIFICATION Spec
CONSTANTS
  XLEN = 4
  RegCount = 3
  InstOf <- DiffInst
  FaultSlots = {6}
  MemSlots = {0, 1, 2, 3, 4, 7}
  DeviceValues = {0, 2}
  Images <- DiffImages
  RESET_VECTOR = 0
INVARIANTS NoFalseAlarm ErrorsAreFound RegistersAgree
CHECK_DEADLOCK FALSE

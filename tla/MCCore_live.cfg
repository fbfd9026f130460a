SPECIFICATION LiveSpec
CONSTANTS
  XLEN = 4
  RegCount = 3
  QueueEntries = 2
  ResetVector = 0
  InstOf <- ProgramInst
  FaultSlots <- NoFaults
  InitMems <- LiveMems
PROPERTY AlwaysCommits

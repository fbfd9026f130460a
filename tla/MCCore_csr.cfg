SPECIFICATION Spec
CONSTANTS
  XLEN = 4
  RegCount = 3
  QueueEntries = 2
  ResetVector = 0
  InstOf <- TrapInst
  FaultSlots <- TrapFaults
  InitMems <- TrapMems

INVARIANT CsrLockstep

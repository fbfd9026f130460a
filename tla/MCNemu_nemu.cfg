SPECIFICATION MCSpec
CONSTANTS
  Builds <- MCBuilds
  NPc = 2
  NVal = 2
  KEY_QUEUE_LEN = 3
  keymap <- MCkeymap
  Scancodes = {262}
  MaxSi = 1
  BreakPcs = {1}
  CONFIG_SB_SIZE = 3
  Lens = {1, 2}
  AskLen = 2
  MaxBytes = 5
  TimeBase = 3
  MaxTime = 8
  NThreads = 2
  StackWords = 14
  MaxDepth = 3
  MaxSteps = 1
  MaxPc = 3
INVARIANTS ComparisonRight EventsRight GuestsUndisturbed
PROPERTY Progress
CHECK_DEADLOCK FALSE

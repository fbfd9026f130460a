SPECIFICATION Spec
CONSTANTS
  FTRACE_TABLE_MAXSIZE = 3
  XBITS = 6
  HBITS = 4
  WORD = 64
  Bits = {1, 2, 4, 8, 16, 32}
  ABITS = 8
  BUF_SZ = 4
  EBITS = 8
  SimMem <- MCSimMem
  MemAt <- MCMemAt
  InstWords <- MCInstWords
  Sources <- MCSources
  GprNames <- MCGprNames
  CsrNames = {"mepc", "mtvec"}
PROPERTIES ExpansionsRight LibraryRight EvaluatorsRight DatapathAgrees ToolsRight RoutinesRight
CHECK_DEADLOCK FALSE

SPECIFICATION LiveSpec
CONSTANTS
  NR_WP = 3
  NR_BP = 1
  Values = {"v1", "v2"}
  Pcs = {"p1"}
  MaxSi = 1
INVARIANTS PoolsRight NoCycleAfterEbreak ExitStatusIsTheVerdict
PROPERTIES WatchesStop ImplementsPointSet CtrlCStops
CHECK_DEADLOCK FALSE

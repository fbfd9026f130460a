SPECIFICATION Spec
CONSTANTS
  strings <- MCStrings
  SymCalc <- sym_calc_value
  SessionTree <- MCTree
  order <- MCOrder
  files <- MCFiles
  inputs <- MCInputs
  answers <- MCAnswers
  MaxEdits = 3
  Names <- MCNames
  nofile <- absent
  ConfigFiles <- MCConfigs
  AutoFiles <- MCAutoFiles
  conf_sync <- MCSynced
  configs <- MCConfigs
  oldauto <- MCOldAuto
CHECK_DEADLOCK FALSE
INVARIANTS SessionsRight ObjectsCurrent
PROPERTIES ExpressionsRight MenusRight

SPECIFICATION LiveSpec
CONSTANTS
  WordBytes = 2
  WordsPerBlock = 2
  SocRanges <- MCSoc
  ClintRanges <- MCClint
  LsuAddrs <- MCLsuAddrs
  IfuBlocks <- MCIfuBlocks
  Values = {"a", "b"}
INVARIANTS TypeOK ChannelsAgree AnswersRight
PROPERTY Served

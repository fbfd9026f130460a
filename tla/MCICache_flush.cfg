SPECIFICATION Spec
CONSTANTS
  Tags = {0, 1}
  Index <- OneSet
  WordsPerBlock = 2
  Values = {"v1", "v2"}
  ReqAddrs <- AllAddrs
  FaultBlocks <- NoFaultBlocks
  StoreAddrs <- AllAddrs
  FlushDuringFill = TRUE
PROPERTY AnswerMatchesMem

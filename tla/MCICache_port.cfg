SPECIFICATION LiveSpec
CONSTANTS
  Tags = {0, 1}
  Index <- TwoSets
  WordsPerBlock = 2
  Values = {"v1", "v2"}
  ReqAddrs <- AddrsWithoutAlias
  FaultBlocks <- FaultInSetOne
  StoreAddrs <- StoredBlock
  FlushDuringFill = FALSE
CONSTRAINT QuietSetOne
INVARIANTS WellFormed LineFresh
PROPERTIES ImplementsPort BackToIdle

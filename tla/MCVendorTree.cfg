CONSTANTS
  Dests <- MCDests
  Info <- MCInfo
  Sources <- MCSources
  Norms <- MCNorms
  Stems <- MCStems
  Names <- MCNames
  Excluded = {}
  RawLists <- MCRawLists
  RelDest <- MCRelDest
  Rooted <- MCRooted
  Dumps <- MCDumps
  None = None
SPECIFICATION TreeSpec
INVARIANTS KeptIsBuilt SuccessMeansStaged OwnPartitionFirst
CHECK_DEADLOCK FALSE

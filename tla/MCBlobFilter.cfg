CONSTANTS
  Dests <- MCDests
  Info <- MCInfo
  Sources <- MCDests
  Norms <- MCNorms
  Stems <- MCStems
  Names <- MCNames
  Excluded <- MCExcluded
  RawLists <- MCRawLists
SPECIFICATION Spec
INVARIANTS TypeOK NothingLost DestinationsUnique NoShadowing
CHECK_DEADLOCK FALSE

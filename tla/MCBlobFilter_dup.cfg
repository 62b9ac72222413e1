CONSTANTS
  Dests <- MCDests
  Info <- MCInfo
  Sources <- MCDests
  Norms <- MCNorms
  Stems <- MCStems
  Names <- MCNames
  Excluded <- MCExcluded
  RawLists <- MCRawLists
SPECIFICATION Spec
INVARIANT DroppedIsDuplicate
CHECK_DEADLOCK FALSE

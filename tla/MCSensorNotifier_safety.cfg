CONSTANTS
  NumPaths = 3
  Contents <- MCContents
  Catalogues <- MCCatalogues
  Faults = {"init", "open", "poll", "read", "call", "service"}
SPECIFICATION Spec
INVARIANTS
  TypeOK
  NoLostWakeup
  DeactivatedMeansDisabled
  TerminateOnlyAfterOpenFailure
  SegvOnlyIfInitFailed
  OnlyChosenSensorEnabled

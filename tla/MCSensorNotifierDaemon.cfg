CONSTANTS
  NumPaths = 2
  Contents <- MCContents
  Catalogues <- MCCatalogues
  Faults = {"service", "open", "poll", "read", "call"}
  Readings = {0, 1}
  MaxEvents = 3
SPECIFICATION DaemonSpec
PROPERTIES
  DaemonCrashCauses
  DaemonConverges
  DeadQueueShed
  TouchModeFollows

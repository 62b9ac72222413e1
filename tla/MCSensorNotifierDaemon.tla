----------------------- MODULE MCSensorNotifierDaemon -----------------------
(* Small instances of SensorNotifierDaemon for TLC.                        *)
EXTENDS SensorNotifierDaemon

\* A service that found the sensor, and one whose HAL did not offer it yet.
MCCatalogues ==
  {<<[type |-> "nonui", wakeup |-> TRUE, handle |-> 3]>>,
   <<[type |-> "nonui", wakeup |-> FALSE, handle |-> 2]>>}
MCContents == {"0", "1"}
=============================================================================

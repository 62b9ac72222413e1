CONSTANTS
  Images = {"boot", "recovery"}
  MaxFailures = 3
SPECIFICATION Spec
INVARIANT RecoveryFlashedIfPresent
CHECK_DEADLOCK FALSE

CONSTANTS
  Images = {"boot", "recovery"}
  MaxFailures = 3
SPECIFICATION FairSpec
INVARIANTS TypeOK CommitsOnlyComplete VbmetaNeverOverOldImages
PROPERTY EventuallyRebooted
CHECK_DEADLOCK FALSE

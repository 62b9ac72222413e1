CONSTANTS
  NumPaths = 3
  Contents <- MCContents
  Catalogues <- MCOneSensor
  Faults = {"poll"}
SPECIFICATION FairSpec
PROPERTIES
  Converges
  SleepsWhenOff
  JoinCompletesUnlessAsleep

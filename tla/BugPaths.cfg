SPECIFICATION BondSpec
CONSTANTS
  PathTimeout = 1
  DupGrace = 1
  BondCases <- Shrinking
INVARIANTS
  DriverSurvives
CHECK_DEADLOCK FALSE

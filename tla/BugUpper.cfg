SPECIFICATION WireSpec
CONSTANTS
  WireMod = 8
  Uppers = 4
  TickMod = 8
  MaskBits = 2
  MaxRecords = 1
  AdvBits = 3
  AdvRun = 2
  MaxStream = 9
  MaxFlight = 2
  WireCases <- LateMain
INVARIANTS
  NackExact
CHECK_DEADLOCK FALSE

SPECIFICATION HostSpec
CONSTANTS
  SessionTimeout = 1
  RebindSilence = 2
  MaxRebinds = 2
  RebindBackoffCap = 2
  Hold = 1
  InboundCap = 1
  DataCap = 1
  AppCap = 2
  BlockCap = 1
  SockCap = 1
  MaxPayloads = 3
  MaxControls = 1
  MaxBlocks = 1
  Sessions <- PumpSessions
  PathTimeout = 1
  DupGrace = 1
  BondCases <- AllBonds
  Keys <- TwoKeys
  MaxFlows = 1
  FlowInCap = 1
  FlowOutCap = 1
  MaxPerKey = 2
  MaxSessions = 3
  MinRate = 2
  MaxRateKbps = 6
  TargetLoss = 400
  Gain = 2
  MaxPeriod = 3
  MaxLosses = 2
  MaxSpoils = 1
  MaxReports = 2
INVARIANTS
  NothingDropped
  TimeoutJustified
  PathsJudged
  FairShare
  FlowsApart
PROPERTIES
  RateReturns
  SilentPeerClosed
  Seamless
  FeedbackAlive
  DemuxEnds
CHECK_DEADLOCK FALSE

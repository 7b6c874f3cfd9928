SPECIFICATION DataSpec
CONSTANTS
  Half = 4
  UsPerSecond = 10
  FracMod = 16
  SecMod = 64
  RttFloor = 1
  HistorySize = 2
  NoRecovery = FALSE
  RttMin = 1
  RttMax = 4
  MaxRetries = 2
  RttEchoInterval = 4
  Congestion = "Aggressive"
  MaxRate = 16
  MaxNacks = 1
  SlowWindow = 3
  FastWindow = 1
  SenderSsrc = 2
  StartSeq = 7
  Sizes = {1}
  Blocks <- RelayBlocks
  Requests <- Nacks
  RttSamples <- Samples
  MaxSent = 2
  MaxNow = 4
  FecHalf = 32
  BaseSpan = 16
  FecCols = 2
  FecRows = 2
  ColumnOnly = FALSE
  FecWindow = 6
  MaxFecs = 8
  FecIsn = 58
  InBand = FALSE
  MaxMedia = 10
  MaxFaults = 2
  DelHalf = 16
  DelStart = 28
  MaxFragments = 3
  DelPayloads = 3
  MaxPending = 1
  DelCases <- AllDeliveries
  WireMod = 8
  Uppers = 2
  TickMod = 8
  MaskBits = 2
  MaxRecords = 1
  AdvBits = 3
  AdvRun = 2
  MaxStream = 7
  MaxFlight = 2
  WireCases <- AllWires
  TsMod = 6
  MaxAdv = 7
  MaxAir = 2
  MaxUnknown = 2
  AdvCases <- SteadyStreams
  GreMod = 4
  Reuse = 3
  MaxNonces = 3
  MaxDatagrams = 2
  MaxEapol = 1
  FrameCases <- AllFrames
INVARIANTS
  Understood
  KeystreamOnce
  SameIdentity
  NackExact
  SameEpoch
  AnsweredOnce
  ResendsBounded
  RetransmitFaithful
  FecRepairs
  PayloadsWhole
CHECK_DEADLOCK FALSE

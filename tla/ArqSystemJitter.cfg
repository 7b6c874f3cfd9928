SPECIFICATION SysSpec
CONSTANTS
  Half = 8
  UsPerSecond = 10
  FracMod = 16
  SecMod = 64
  RttFloor = 1
  RingSize = 8
  TimingMode = "Source"
  NoRecovery = FALSE
  RecoveryMin = 9
  RecoveryMax = 9
  ReorderBuffer = 2
  RttMin = 2
  RttMax = 4
  MaxRetries = 3
  MissingCounterMax = 6
  MaxGap16 = 4
  NackCadence = 1
  RttEchoInterval = 6
  NackRate = 0
  NackCost = 1
  NackBurst = 1
  SrcWrapNtp = 200
  SrcWrapMicros = 100
  BufferDecreaseStep = 1
  HighLossThreshold = 3
  Packets = {}
  Paths = {0}
  RttSamples = {}
  SenderMaxBuffers = {}
  RttMultipliers = {1}
  MaxNow = 22
  FeedUntil = 24
  MaxLate = 0
  HistorySize = 8
  Congestion = "Off"
  MaxRate = 0
  MaxNacks = 2
  SlowWindow = 50
  FastWindow = 50
  SenderSsrc = 2
  StartSeq = 15
  NumPackets = 3
  PushGap = 2
  MinDelay = 1
  MaxDelay = 2
  MaxLoss = 1
  MaxDup = 1
INVARIANTS
  NothingResent

SPECIFICATION SysFairSpec
CONSTANTS
  Half = 8
  UsPerSecond = 10
  FracMod = 16
  SecMod = 64
  RttFloor = 1
  RingSize = 8
  TimingMode = "Source"
  NoRecovery = FALSE
  RecoveryMin = 11
  RecoveryMax = 11
  ReorderBuffer = 1
  RttMin = 2
  RttMax = 4
  MaxRetries = 3
  MissingCounterMax = 6
  MaxGap16 = 4
  NackCadence = 1
  RttEchoInterval = 50
  NackRate = 0
  NackCost = 1
  NackBurst = 1
  SrcWrapNtp = 200
  SrcWrapMicros = 100
  BufferDecreaseStep = 1
  HighLossThreshold = 3
  Packets = {}
  Paths = {0}
  RttSamples = {}
  SenderMaxBuffers = {}
  RttMultipliers = {1}
  MaxNow = 25
  FeedUntil = 24
  MaxLate = 1
  HistorySize = 8
  Congestion = "Off"
  MaxRate = 0
  MaxNacks = 1
  SlowWindow = 50
  FastWindow = 50
  SenderSsrc = 2
  StartSeq = 15
  NumPackets = 4
  PushGap = 2
  MinDelay = 1
  MaxDelay = 1
  MaxLoss = 2
  MaxDup = 0
PROPERTIES
  Complete
  ConstantLatency
  AllOut

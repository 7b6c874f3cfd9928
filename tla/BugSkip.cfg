SPECIFICATION Spec
CONSTANTS
  Half = 8
  UsPerSecond = 10
  FracMod = 16
  SecMod = 64
  RttFloor = 1
  RingSize = 4
  TimingMode = "Source"
  NoRecovery = FALSE
  RecoveryMin = 3
  RecoveryMax = 3
  ReorderBuffer = 1
  RttMin = 1
  RttMax = 4
  MaxRetries = 2
  MissingCounterMax = 6
  MaxGap16 = 2
  NackCadence = 1
  RttEchoInterval = 20
  NackRate = 0
  NackCost = 1
  NackBurst = 1
  SrcWrapNtp = 200
  SrcWrapMicros = 100
  BufferDecreaseStep = 1
  HighLossThreshold = 3
  Packets <- LapPackets
  Paths = {0}
  RttSamples = {}
  SenderMaxBuffers = {}
  RttMultipliers = {1}
  MaxNow = 9
  FeedUntil = 3
  MaxLate = 1
PROPERTIES
  OnlyStaleCleared

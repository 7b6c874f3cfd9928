SPECIFICATION Spec
CONSTANTS
  Half = 8
  UsPerSecond = 10
  FracMod = 16
  SecMod = 64
  RttFloor = 1
  RingSize = 8
  TimingMode = "Source"
  NoRecovery = FALSE
  RecoveryMin = 2
  RecoveryMax = 3
  ReorderBuffer = 1
  RttMin = 1
  RttMax = 4
  MaxRetries = 2
  MissingCounterMax = 1
  MaxGap16 = 4
  NackCadence = 1
  RttEchoInterval = 2
  NackRate = 1
  NackCost = 2
  NackBurst = 1
  SrcWrapNtp = 32
  SrcWrapMicros = 20
  BufferDecreaseStep = 1
  HighLossThreshold = 3
  Packets <- EdgePackets
  Paths = {0}
  RttSamples = {4}
  SenderMaxBuffers = {1, 3}
  RttMultipliers = {2}
  MaxNow = 6
  FeedUntil = 3
  MaxLate = 0
INVARIANTS
  ResourcesBounded
  TypeOK
PROPERTIES PlayoutOnTime

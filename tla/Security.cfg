SPECIFICATION SecSpec
CONSTANTS
  IdMod = 32
  PushId = 16
  Timeout = 2
  ReauthWindow = 4
  MaxRetx = 3
  Scenarios <- AuthScenarios
  ReplaySize = 2
  MaxTries = 3
  BridgeCap = 4
  MaxApp = 3
  MaxPathFaults = 1
  MaxDrops = 1
  DtlsCases <- Tunnels
INVARIANTS
  SuccessAgrees
  AdmissionSound
  NonceOnce
  TunnelOnce
PROPERTIES
  ReauthEnds
  AuthCompletes
  HandshakeHeals
  WorkerEnds
CHECK_DEADLOCK FALSE

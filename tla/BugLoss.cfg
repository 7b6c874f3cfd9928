SPECIFICATION AuthSpec
CONSTANTS
  IdMod = 32
  PushId = 16
  Timeout = 2
  ReauthWindow = 4
  MaxRetx = 3
  Scenarios <- SingleLoss
PROPERTIES
  LossRecovered
CHECK_DEADLOCK FALSE

SPECIFICATION FairResetSpec
CONSTANTS
  Closes = {}
  Mss = 1
  InitWindow = 2
  ClientBytes = 0
  ServerBytes = 0
  ClientWindow = 2
  ServerWindow = 2
  AppBytes <- MCAppBytes
  Window <- MCWindow
  MaxBackoff = 0
  DupThresh = 1
  ToClient = 1
  ToServer = 1
  NetCap <- MCNetCap
  MaxPend = 1
  MaxStreams = 1
  MayFail = TRUE
  MayLinger = FALSE
  MayIdle = FALSE
PROPERTIES
  ResetReachesPeer
CHECK_DEADLOCK FALSE

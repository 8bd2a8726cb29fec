SPECIFICATION FairSpec
CONSTANTS
  Closes = {}
  Mss = 1
  InitWindow = 2
  ClientBytes = 1
  ServerBytes = 0
  ClientWindow = 2
  ServerWindow = 2
  AppBytes <- MCAppBytes
  Window <- MCWindow
  MaxBackoff = 1
  DupThresh = 1
  ToClient = 1
  ToServer = 1
  NetCap <- MCNetCap
  MaxPend = 1
  MaxStreams = 1
  MayFail = FALSE
  MayLinger = FALSE
  MayIdle = TRUE
PROPERTIES
  ResetOnlyAfterRetransmitting
CHECK_DEADLOCK FALSE

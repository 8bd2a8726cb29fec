SPECIFICATION Spec
CONSTANTS
  Closes = {}
  Mss = 1
  InitWindow = 2
  ClientBytes = 3
  ServerBytes = 0
  ClientWindow = 2
  ServerWindow = 2
  AppBytes <- MCAppBytes
  Window <- MCWindow
  MaxBackoff = 0
  DupThresh = 1
  ToClient = 1
  ToServer = 1
  NetCap <- MCNetCap
  MaxPend = 2
  MaxStreams = 1
  MayFail = FALSE
  MayLinger = FALSE
  MayIdle = FALSE
INVARIANTS
  InOrderExactlyOnce
  AckedIsReceived
  BufferedWithinWindow
  NoLostWakeup
CHECK_DEADLOCK FALSE

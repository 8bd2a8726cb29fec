SPECIFICATION Spec
CONSTANTS
  Closes = {"client"}
  Mss = 1
  InitWindow = 2
  ClientBytes = 1
  ServerBytes = 0
  ClientWindow = 2
  ServerWindow = 2
  AppBytes <- MCAppBytes
  Window <- MCWindow
  MaxBackoff = 0
  DupThresh = 1
  ToClient = 1
  ToServer = 1
  NetCap <- MCNetCap
  MaxPend = 1
  MaxStreams = 2
  MayFail = TRUE
  MayLinger = TRUE
  MayIdle = FALSE
INVARIANTS
  InOrderExactlyOnce
  EOFIsComplete
CHECK_DEADLOCK FALSE

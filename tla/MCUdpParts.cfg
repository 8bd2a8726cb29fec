SPECIFICATION PartSpec
CONSTANTS
  Socks = {a, b}
  MaxRetry = 2
  ReauthLoss = 1
  MaxLoss = 2
  MaxFaults = 1
  PrioSize = 1
  QueueSize = 1
  Batch = 2
  None = None
  Control = {h1}
  Data = {d1}
  Conns = {o1, o2}
  Chans = {ch1, ch2}
  Loops = {lp1, lp2}
  Probe = Probe
  Replies = {p1, p2}
  Clients = {t1, t2}
SYMMETRY MCSymmetry
INVARIANTS
  RepliesFollowLine
  AuthIsMutual
  RefsHeldOnce
  SendLoopAlive
  JobsOwnReferences
PROPERTIES
  LineRecovers
CHECK_DEADLOCK FALSE

SPECIFICATION PartSpec
CONSTANTS
  p1 = p1
  p2 = p2
  Pools = {p1, p2}
  Conns = {c1, c2}
  ConnIDs = {}
  None = None
  Configs <- MCConfigs
  SwitchBacklog = 1
  s1 = s1
  s2 = s2
  b1 = b1
INVARIANTS
  PoolWithinCount
  PickIsRight
PROPERTIES
  PoolRefills
  StopClosesAll
  NoStarvation
  CloseReleasesAll
CHECK_DEADLOCK FALSE

SPECIFICATION Spec
CONSTANTS
  c1 = c1
  s1 = s1
  s2 = s2
  s1n = s1n
  b1 = b1
  b2 = b2
  b3 = b3
  b1n = b1n
  Packets = {c1, s1, b1, b2, b1n}
  Control = {c1}
  NoDrop = {b1n}
  Wire <- MCWire
  PrioritySize = 1
  Limit = 4
  Codel = TRUE
  Standing = 2
  MaxCredit = 1
  Earn = 1
  WriteBatch = 2
  MayFail = TRUE
INVARIANTS
  TypeOK
  RefsHeldOnce
  BacklogIsQueued
  DroppableWithinLimit
  WriterAwake
PROPERTIES
  NoDropIsSent
CHECK_DEADLOCK FALSE

CONSTANTS
  a = a
  b = b
  h1 = h1
  h2 = h2
  Writer = {a, b}
  Host = {h1, h2}
  Skew <- OneAhead
  Tick = 1
  Period = 2
  Lease = 11
  MaxSkew = 1
  Settle = 3
  Poll = 1
  AcquireWait = 1
  JoinWait = 3
  OpenTime = 1
  Settings <- AllSettings
SPECIFICATION Spec
SYMMETRY Exchange
INVARIANTS
  LeaseTypeOK
  AtMostOneWriter
  LoserStops
  ReleasedStaysReleased
PROPERTY RunningKeepsTheLock
CHECK_DEADLOCK FALSE

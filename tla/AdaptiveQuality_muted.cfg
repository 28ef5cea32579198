CONSTANTS
  Peer = {p, q}
  Stat <- Reports
  StableTicks = 2
  MaxQueue = 2
  MaxEvents = 3
SPECIFICATION Spec
INVARIANTS MutedIsDark
CHECK_DEADLOCK FALSE

CONSTANTS
  Peer = {p, q}
  Stat <- FallAndRise
  StableTicks = 1
  MaxQueue = 2
  MaxEvents = 3
SPECIFICATION Spec
INVARIANTS SendersFollow
CONSTRAINT OneDevice
SYMMETRY Symmetry
CHECK_DEADLOCK FALSE

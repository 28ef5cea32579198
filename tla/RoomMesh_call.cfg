SPECIFICATION Spec
CONSTANTS
  Peer = {a, b}
  Track = {mic}
  MaxSess = 2
  MaxTries = 2
  MaxEvents = 2
SYMMETRY PeerSymmetry
INVARIANTS PeersExact LeaveHolds CallAtRest
CHECK_DEADLOCK FALSE

SPECIFICATION PartsSpec
CONSTANTS
  Part = {"paths", "stages", "cloud"}
  Peer = {a, b}
  MaxSeq = 2
  MaxEmits = 3
  MaxFaults = 2
  MaxAttempts = 1
SYMMETRY PeerSymmetry
INVARIANTS HandedRising PathsRecover StagesHold CloudSettles
CHECK_DEADLOCK FALSE

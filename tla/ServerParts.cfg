SPECIFICATION PartsSpec
CONSTANTS
  Part = {"admin", "shared", "tables", "tokens", "process", "routing", "egress", "transcription"}
  Two = {a, b}
  Caller = {v, w}
  Far = c
  None = None
  Srv = {v, w}
  Default = 2
  MaxClock = 3
  MaxTokens = 3
  MaxCalls = 4
  P = {a, b, c}
  Slot = {v, w}
  MaxSession = 4
  MaxRequests = 3
  W = {v, w}
  C = {v, w}
  MaxChunks = 2
  MaxStops = 2
  Absent = Absent
  Rooms = {v, w}
  ChunkMs = 2
  MaxAudio = 4
  MaxSwitches = 3
  NoRoom = NoRoom
SYMMETRY PartsSymmetry
INVARIANTS AdminHolds ReachesOnce TablesHold AccessHolds GatewayHolds WorkersEnd
PROPERTIES HandsInOrder
CHECK_DEADLOCK FALSE

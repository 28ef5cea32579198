SPECIFICATION PartsSpec
CONSTANTS
  Part = {"media", "recording", "view", "devices"}
  Party = {a, b}
  MaxTasks = 2
  MaxActs = 4
  Stream = {a, b}
  MaxR = 3
  MaxN = 2
  MaxCalls = 4
  Dev = {a, b}
  Cams = 2
  MaxUses = 4
  Remote = {"p"}
  Conn = {1, 2}
  Listener = {"l1", "l2"}
  MaxTracks = 3
  MaxChanges = 6
CONSTRAINT RecordingBound
SYMMETRY Symmetry
INVARIANTS MuteHonoured CaptureServed RecordingAsAsked ManifestComplete SnapshotTrue DevicesSettle
CHECK_DEADLOCK FALSE

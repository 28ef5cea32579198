SPECIFICATION PartsSpec
CONSTANTS
  Part = {"e2ee", "session", "whip", "channels", "ice", "fake"}
  Pc = {"x", "y"}
  Sender = {"s1", "s2"}
  Receiver = {"r"}
  MaxKey = 2
  Track = {t1, t2}
  MaxT = 2
  MaxEvents = 2
  None = None
CONSTRAINT MediaBound
SYMMETRY MediaSymmetry
INVARIANTS SessionsOwned TracksForwarded AllCovered NegotiationComplete EndsAgree
CHECK_DEADLOCK FALSE

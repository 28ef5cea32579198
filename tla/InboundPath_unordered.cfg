CONSTANTS
  Sender = {p}
  MaxSeq = 2
  MaxSess = 2
  MaxGap = 2
  Kind = {"ordered", "plain"}
  InOrder = FALSE
  Duplicating = TRUE
  Lossy = TRUE
  Sweeping = TRUE
SPECIFICATION InSpec
INVARIANTS WindowBounded
PROPERTIES ReleasedRising HandledRising
CONSTRAINT ShortSecondSession
CHECK_DEADLOCK FALSE

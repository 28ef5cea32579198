CONSTANTS
  Sender = {p, q}
  MaxSeq = 2
  MaxSess = 1
  MaxGap = 4
  Kind = {"ordered"}
  InOrder = FALSE
  Duplicating = TRUE
  Lossy = FALSE
  Sweeping = FALSE
SPECIFICATION FairSpec
PROPERTIES FifoSpec AllReleased
CHECK_DEADLOCK FALSE

CONSTANTS
  Peer = {p, q}
  Stat <- Reports
  StableTicks = 2
  MaxQueue = 1
  MaxEvents = 2
SPECIFICATION FairSpec
PROPERTIES UpgradeEarned Recovers
CHECK_DEADLOCK FALSE

CONSTANTS
  Polite = pol
  Impolite = imp
  MaxTracks = 3
SPECIFICATION FairSpec
PROPERTIES ImpoliteNeverYields SettlesUnlessRushed
CHECK_DEADLOCK FALSE

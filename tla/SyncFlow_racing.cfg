SPECIFICATION HSpec
CONSTANTS
  p1 = p1
  p2 = p2
  c1 = c1
  c2 = c2
  none = none
  Paths <- OnePath
  Contents <- OneContent
  Absent <- none
  Runners = {"wsl", "win"}
  Forcing = {FALSE}
  MaxEdits = 1
  ConcurrentEdits = TRUE
  MayFail = TRUE
  Lingering = {"wsl"}
SYMMETRY Symmetry
INVARIANTS TypeOK OnlyListedPathsRecorded
PROPERTIES OnlyListedPathsWritten

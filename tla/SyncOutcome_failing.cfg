SPECIFICATION OSpec
CONSTANTS
  p1 = p1
  p2 = p2
  c1 = c1
  c2 = c2
  none = none
  Paths <- OnePath
  Contents <- TwoContents
  Absent <- none
  Runners = {"wsl"}
  Forcing = {FALSE}
  MaxEdits = 4
  ConcurrentEdits = FALSE
  MayFail = TRUE
  Lingering = {}
SYMMETRY Symmetry
PROPERTIES TrackedUntilReconciled

SPECIFICATION OSpec
CONSTANTS
  p1 = p1
  p2 = p2
  c1 = c1
  c2 = c2
  none = none
  Paths <- OnePath
  Contents <- TwoContents
  Absent <- none
  Runners = {"wsl"}
  Forcing = {FALSE}
  MaxEdits = 2
  ConcurrentEdits = TRUE
  MayFail = FALSE
  Lingering = {}
SYMMETRY Symmetry
PROPERTIES LocalChangesNeverDeleted

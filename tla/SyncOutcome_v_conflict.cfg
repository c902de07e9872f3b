SPECIFICATION OSpec
CONSTANTS
  p1 = p1
  p2 = p2
  c1 = c1
  c2 = c2
  none = none
  Paths <- TwoPaths
  Contents <- TwoContents
  Absent <- none
  Runners = {"wsl"}
  Forcing = {FALSE}
  MaxEdits = 3
  ConcurrentEdits = FALSE
  MayFail = FALSE
  Lingering = {}
SYMMETRY Symmetry
PROPERTIES ConflictsOnlySkipped

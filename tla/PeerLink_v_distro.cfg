SPECIFICATION Spec
CONSTANTS
  Win = Win
  Distros = {d1, d2}
  Default = d1
  None = None
  Options <- NamingOptions
  Folders = {"root"}
  MaxCommands = 3
  MayFail = FALSE
CHECK_DEADLOCK FALSE
INVARIANT EitherSideCanSync

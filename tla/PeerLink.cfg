SPECIFICATION Spec
CONSTANTS
  Win = Win
  Distros = {d1, d2}
  Default = d1
  None = None
  Options <- AllOptions
  Folders = {"root", "sub"}
  MaxCommands = 3
  MayFail = TRUE
CHECK_DEADLOCK FALSE
INVARIANTS TypeOK
PROPERTIES ConnectIsBilateral DeinitRestores ReconnectKeepsNamedPeer

CONSTANTS
  fs = fs
  git = git
  Config <- MCConfig
  Calls = {1}
  Kind <- OneFunction
  Server <- NoServer
  Gated = {}
  FarGated = {}
  MaxFaults = 0
SPECIFICATION Spec
INVARIANT NoCallRaises
CHECK_DEADLOCK FALSE

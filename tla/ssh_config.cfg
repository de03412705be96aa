CONSTANTS
  Procs = {p1, p2}
  Names = {a, b}
  Endpoints = {x, y}
  UserConfigs <- MCUserConfigs
  Inputs <- MCInputs
  MaxFaults = 1
  None = None
SPECIFICATION Spec
INVARIANT IndInv
INVARIANT UpToDateWhenQuiet
INVARIANT SyncedStaysRight
PROPERTY RewriteSettles

CONSTANTS
  Hp = {h1, h2}
  Pids = {p1}
  Specs = {small, large}
  None = None
  Empty = Empty
  Torn = Torn
  MaxFaults = 0
SPECIFICATION Spec
INVARIANT DiskMatchesConfig

CONSTANTS
  Hp = {h1, h2}
  Pids = {p1}
  Specs = {small}
  None = None
  Empty = Empty
  Torn = Torn
  MaxFaults = 1
SPECIFICATION FairSpec
INVARIANT IndInv
INVARIANT SeedMatchesConfig
INVARIANT DeleteDeletes
PROPERTY UsedDiskSurvives
PROPERTY Termination

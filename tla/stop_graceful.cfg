CONSTANTS
  Hp = {h1, h2}
  Pids = {p1}
  Specs = {small}
  None = None
  Empty = Empty
  Torn = Torn
  MaxFaults = 0
SPECIFICATION Spec
PROPERTY StopIsGraceful

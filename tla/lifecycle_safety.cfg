CONSTANTS
  Hp = {h1, h2}
  Pids = {p1, p2}
  Specs = {small, large}
  None = None
  Empty = Empty
  Torn = Torn
  MaxFaults = 0
SPECIFICATION Spec
INVARIANT IndInv
INVARIANT OneTrackedQemu
INVARIANT StopStops
INVARIANT DeleteDeletes
INVARIANT NoQemuOnRemovedDisk
PROPERTY ConfigNeverReplaced
PROPERTY LaunchIsClean
PROPERTY VmImplemented

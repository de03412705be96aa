CONSTANTS
  Names = {a, b}
  Ports <- ManyPorts
  Ephemeral <- ManyEphemeral
  Requests <- ManyRequests
  None = None
SPECIFICATION FairSpec
INVARIANT IndInv
INVARIANT NeverTaken
INVARIANT ForwardsDistinct
INVARIANT ConcurrentlyDistinct
PROPERTY CreateEnds

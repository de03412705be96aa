CONSTANTS
  Hp = {h1, h2, h3}
  Versions = {v1, v2}
  Corrupt = Corrupt
  None = None
  MaxCorrupt = 1
  MaxCrashes = 1
SPECIFICATION FairSpec
INVARIANT IndInv
INVARIANT CachedIsVerified
INVARIANT BackingMatchesConfigs
PROPERTY ImageNeverReplaced
PROPERTY DownloadOnce
PROPERTY Termination

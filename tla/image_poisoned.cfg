CONSTANTS
  Hp = {h1, h2}
  Versions = {v1, v2}
  Corrupt = Corrupt
  None = None
  MaxCorrupt = 1
  MaxCrashes = 0
SPECIFICATION Retrying
PROPERTY RetrySucceeds

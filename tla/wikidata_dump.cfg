CONSTANTS
  Size = 2
  Cooldown = 2
  MaxNow = 4
  None = None
SPECIFICATION FairSpec
INVARIANTS TypeOK WholeDump StampNotAhead CacheCurrent
PROPERTIES DownloadsSpaced RefreshKeepsGraph CallReturns

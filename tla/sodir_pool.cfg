CONSTANTS
  Stems = {field, wellbore}
  Catalog = {field, wellbore}
  Workers = {w1, w2}
  NeededSets = {{field, wellbore}}
  IndexCooldown = 1
  DatasetCooldown = 2
  MaxRows = 1
  MaxDay = 0
  MaxMoves = 1
  None = None
  Torn = Torn
SPECIFICATION FairSpec
INVARIANTS TypeOK ExclusiveClaim OneBucketEach RecordedRowsMatch PoolInv
PROPERTIES RefreshEnds PromiseKept

CONSTANTS
  Threads = {t1, t2}
  Gap = 2
  RetryCount = 2
  BaseBackoff = 2
  MaxBackoff = 3
  MaxCalls = 2
  None = None
SPECIFICATION FairSpec
INVARIANTS TypeOK RequestBudget CacheWhole
PROPERTIES StampsSpaced RetrySpaced CallsReturn

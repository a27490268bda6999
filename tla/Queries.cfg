SPECIFICATION QSpec
CONSTANTS
  Absent = Absent
  Indexed <- MCIndexed
  EntryBudget = 7
  SetBudget = 2
  RunEntries = 3
  CacheKeys = 3
  PageRows = 2
  CachePages = 1
  Script <- MCScript
  FlushThreshold = 3
  Filters <- MCFilters
  Searches <- MCSearches
  RollupQueries <- MCRollupQueries
  SessionQueries <- MCSessionQueries
  MaxVersion = 3
  Horizon = 4
  Tenants <- MCTenants
  PinAt = {1}
  DepthLimit = 2
  PoolMin = 1
  PoolGrowth = 2
  SetKeys = 1
  TopK <- MCTopK
INVARIANTS SidecarsExact PointReadExact WindowCovers ViewsAgree PathsComplete SearchRoutesAgree

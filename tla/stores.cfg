SPECIFICATION MCSpec
CONSTANTS
  Threshold = 3
  PageSize = 1
  IdRank <- MCIdRank
  Unknown = {2}
  MaxTrades = 5
  MaxTime = 1
  MaxFaults = 2
  NoTrade = NoTrade
  Limit = 2
  MemoryTtl = 1
  RecentTtl = 1
  HistoricalThreshold = 2
  FirstNow = 2
  LastNow = 5
  MaxWindows = 1
  MaxAsks = 2
INVARIANTS
  WalkIsExact
  StatsAreFresh
  LossIsBounded
  NothingFallsBetween
  

SPECIFICATION MCSpec
CONSTANTS
  f1 = f1
  f2 = f2
  NoBalance = NoBalance
  Day = 3
  MaxDailyLoss = 2
  MaxWalletLoss = 1
  Losses = {0, 1, 2}
  MaxBalance = 2
  Fetches <- MCFetches
  LastTick = 7
  MaxTotalLoss = 3
  w1 = w1
  w2 = w2
  t1 = t1
  t2 = t2
  t3 = t3
  Worlds <- MCWorlds
  Toggles <- MCToggles
  MaxCandles = 2
  MaxPatches = 1
  gold = gold
  btc = btc
  s1 = s1
  s2 = s2
  Pairs <- MCPairs
  Strategies <- MCStrategies
  NoStrategy = none
  MaxEvents = 5
SYMMETRY MCSymmetry
INVARIANTS
  RollingCoversTheDay
  ModeIsSettled
  BooksSurviveSwap
  ConfigurationIsKept
PROPERTIES
  
  EntryWithinWalletLimit
  
CHECK_DEADLOCK FALSE

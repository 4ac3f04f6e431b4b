SPECIFICATION MCSpec
CONSTANTS
  i1 = i1
  i2 = i2
  Ids <- MCIds
  MaxEvents = 2
  gold = gold
  btc = btc
  Topics <- MCTopics
  Batch = 2
  Chunk = 1
  FirstNow = 4
  LastNow = 5
  MaxSwitch = 1
  Prices = {1, 2}
  Window = 2
  Scripts <- MCScripts
  MaxAlerts = 2
  MaxBars = 4
  MaxLines = 3
SYMMETRY MCSymmetry
INVARIANTS
  IndicatorsAreTrue
  ChartIsTrue
  SessionIsSound
PROPERTIES
  TicksLeaveNoTrace
  AlertsAreNews
CHECK_DEADLOCK FALSE

SPECIFICATION StrategySpec
CONSTANTS
  a = a
  b = b
  None = None
  Names = {a, b}
  Prices = {2, 3, 4}
  Quantities = {1}
  Trails = {"none", "offset"}
  EntryForms <- MCEntryForms
  ExitForms <- MCExitForms
  TrailDistance = 1
  Pyramiding = 1
  MaxPending = 2
  MaxEntries = 2
  MaxQuantity = 2
 
PROPERTY TrailingOnlyTightens
CHECK_DEADLOCK FALSE

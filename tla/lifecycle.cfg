SPECIFICATION Spec
CONSTANTS
  c1 = c1
  c2 = c2
  Callers = {c1, c2}
  Configs <- SomeConfigs
  NoConfig = NoConfig
INVARIANTS
  SingleCloseRun
  StartsAlone
  StateIsHonest
PROPERTIES
  StopTerminates

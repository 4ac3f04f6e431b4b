CONSTANTS
    w1 = w1
    w2 = w2
    Worlds = {w1}
    MaxCandles = 2
    LastRun = 0
SPECIFICATION Spec
PROPERTY SnapshotIsComplete

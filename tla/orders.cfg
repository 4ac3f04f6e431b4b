CONSTANTS
    w1 = w1
    w2 = w2
    Worlds = {w1, w2}
    MaxCandles = 2
    LastRun = 1
SYMMETRY WorldSymmetry
SPECIFICATION Spec
INVARIANT BooksSettle
INVARIANT NoPhantom
 

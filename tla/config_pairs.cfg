SPECIFICATION ConfigSpec
CONSTANTS
    gold = gold
    btc = btc
    s1 = s1
    s2 = s2
    none = none
    Pairs <- MCPairs
    Strategies <- MCStrategies
    NoStrategy = none
    MaxEvents = 5
INVARIANT EveryPairIsTraded
CHECK_DEADLOCK FALSE

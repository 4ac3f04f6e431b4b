SPECIFICATION FairSpec
CONSTANTS
  btc = btc
  gold = gold
  s1 = s1
  s2 = s2
  s3 = s3
  s4 = s4
  NoSocket = NoSocket
  Pairs = {gold, btc}
  Category <- MCCategory
  Owner <- MCOwner
  Sockets = {s1,  s3, s4}
  MaxReconnectAttempts = 1
  MaxBar = 1
INVARIANTS
  BarsOnceInOrder
  OneSocketServes
PROPERTY FeedRecovers
CHECK_DEADLOCK FALSE

SPECIFICATION MCSpec
CONSTANTS
  c1 = c1
  c2 = c2
  i1 = i1
  i2 = i2
  gold = gold
  btc = btc
  Clients <- MCClients
  Ids <- MCIds
  Topics <- MCTopics
  CategoryOf <- MCCategoryOf
  MaxRuns = 3
  MaxSockets = 4
  dm = dm
  crowd = crowd
  ann = ann
  bob = bob
  Chats <- MCChats
  Users <- MCUsers
  Admin = ann
  KindOf <- MCKindOf
  Types <- MCTypes
  MaxBots = 3
  Steps <- MCSteps
  Offers <- MCOffers
  Unset = Unset
  MaxSessions = 2
  MaxWaiting = 2
  MaxBacktests = 2
SYMMETRY MCSymmetry
CHECK_DEADLOCK FALSE
INVARIANTS
  TokensAreSound
  UpstreamServes
  TelegramIsSound
  WizardIsSound

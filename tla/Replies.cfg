SPECIFICATION ReplySpec
CONSTANTS
  m1 = m1
  m2 = m2
  Sources <- MCSources
  PrecedenceOf <- MCPrecedence
  Markets <- MCMarkets
  Scale = 2
  Unstated = Unstated
  LOTS_LIMIT = 4
  SHOWN = 2
  FAR = 1000
  OUTBOUND_MAX = 2
  OUTBOUND_WINDOW = 2
  DAY = 3
  REPLY_DAYS = 2
  Reports <- MCReports
  Condition = "gte"
  Threshold = 24
  Profiles <- MCProfiles
  AlertMarkets <- MCAlertMarkets
  Lots <- MCLots
  Buyers <- MCBuyers
INVARIANTS
  CapKept
  MatchingHolds
  AlertSeesToldPrice
PROPERTIES
  RefiresOnlyOnOldNews

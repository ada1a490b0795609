SPECIFICATION Spec
CONSTANTS
  m1 = m1
  m2 = m2
  near = near
  far = far
  Sources <- MCSources
  PrecedenceOf <- MCPrecedence
  Markets <- MCMarkets
  Scale = 2
  MIN_OBSERVATIONS = 2
  BLEND_THRESHOLD = 3
  HIGH_CONFIDENCE_THRESHOLD = 3
  MA_WINDOW = 2
  OLS_FIT_WINDOW = 3
  HORIZON_DAYS = 2
  NoBand = NoBand
  HIGH_ARRIVAL_QTL = 10
  HIGH_DISTRICT_ARRIVAL_QTL = 16
  LOW_ARRIVAL_QTL = 2
  NEARBY_STORAGE_KM = 40
  STORAGE_LIMIT = 1
  FORECAST_LIMIT = 2
  Unknown = Unknown
  HISTORY_DAYS = 1
  RECENT_DAYS = 0
  MAX_AHEAD = 1
  Quotes <- MCQuotes
  FailSets <- MCFailSets
  Godowns <- MCGodowns
  Band <- MCBand
  None = None
CHECK_DEADLOCK FALSE
INVARIANTS
  ForecastsAreSound
  AdviceIsSound
  NearerIsNewer
PROPERTIES
  FreshOrHidden

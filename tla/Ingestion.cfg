SPECIFICATION Spec
CONSTANTS
  Missing = Missing
  Infinite = Infinite
  Aliases = {"Onion", "OnionRed"}
  MarketMap = {"Yeola", "Manmad"}
  Band <- const_Band
  Adapters <- const_Adapters
  KeysOf <- const_KeysOf
  Spellings = 2
  TRIES = 3
  PAGE_SIZE = 1
  UPSERT_CHUNK = 2
  MAX_TOTAL = 2
  Items <- const_Items
  Scrapes <- const_Scrapes
INVARIANTS
  RunStoresProper
  LogIsTrue
PROPERTIES
  EveryAdapterHeard
  RunEnds

\* Hourly bars: one handler, yfinance first, two bars of one day.
CONSTANTS
  h1 = h1  feed = feed  none = none
  Workers = {h1, feed}
  Feed = feed
  Providers = {"yfinance", "stooq"}
  Priority <- YFinanceFirst
  LastDay = 1
  Slots = 2
  Queries <- Everything
  WatchList <- WatchedAsSuch
  None = none
  MaxUpdates = 0
  MaxFaults = 0
SPECIFICATION Spec
PROPERTY StoredReadsBack

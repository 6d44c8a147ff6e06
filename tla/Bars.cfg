\* Daily bars: a handler and the feed, three providers, two days.
CONSTANTS
  h1 = h1  feed = feed  none = none
  Workers = {h1, feed}
  Feed = feed
  Providers = {"stooq", "yfinance", "openbb"}
  Priority <- StooqFirst
  LastDay = 2
  Slots = 1
  Queries <- MCQueries
  WatchList <- Watched
  None = none
  MaxUpdates = 3
  MaxFaults = 1
SPECIFICATION FairSpec
INVARIANT InclusiveRange
PROPERTIES StoredReadsBack Converges

\* Redis, database, feed; a failing statement, a cancelled context and a crash.  The abstract
\* specification PriceService is checked here too.
CONSTANTS
  h1 = h1  h2 = h2  feed = feed
  stooq = stooq  yfinance = yfinance  YFINANCE = YFINANCE  other = other
  none = none  aapl = aapl  ibm = ibm
  Workers = {h1, feed}
  Providers = {stooq, yfinance}
  Names <- MCNames
  None = none
  Registry <- MCRegistry
  Guarded = {}
  Series = {aapl}
  Daily = {aapl}
  Days <- TwoDays
  DefaultPriority <- StooqFirst
  Queries <- FaultQueries
  Published0 <- TwoDays
  Feed = feed
  HasStore = TRUE
  MaxConns = 2
  HasCache = TRUE
  Redis = TRUE
  Cooldown = 2
  TTL = 1
  MaxTime = 1
  MaxRequests = 2
  MaxFaults = 1
  MaxCancels = 1
  MaxCrashes = 1
SPECIFICATION FairSpec
INVARIANTS TypeOK PersistedIsDurable WatchedUnlessFailed
PROPERTIES KeepsPromise Answered

\* The circuit breaker alone: no database, no cache.
CONSTANTS
  h1 = h1  h2 = h2  feed = feed
  stooq = stooq  yfinance = yfinance  YFINANCE = YFINANCE  other = other
  none = none  aapl = aapl  ibm = ibm
  Workers = {h1, h2}
  Providers = {stooq, yfinance}
  Names <- MCNames
  None = none
  Registry <- MCRegistry
  Guarded = {yfinance}
  Series = {aapl}
  Daily = {aapl}
  Days = {1}
  DefaultPriority <- StooqFirst
  Queries <- BreakerQueries
  Published0 = {1}
  Feed = none
  HasStore = FALSE
  MaxConns = 1
  HasCache = FALSE
  Redis = FALSE
  Cooldown = 2
  TTL = 1
  MaxTime = 5
  MaxRequests = 3
  MaxFaults = 0
  MaxCancels = 0
  MaxCrashes = 0
SPECIFICATION Spec
INVARIANTS NoCallWhileOpen CountersAgree
SYMMETRY Symmetry

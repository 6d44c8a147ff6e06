\* Cache in memory, database, feed, a cancelled context and a crash; no database fault.
CONSTANTS
  h1 = h1  h2 = h2  feed = feed
  stooq = stooq  yfinance = yfinance  YFINANCE = YFINANCE  other = other
  none = none  aapl = aapl  ibm = ibm
  Workers = {h1, feed}
  Providers = {stooq, yfinance}
  Names <- MCNames
  None = none
  Registry <- MCRegistry
  Guarded = {}
  Series = {aapl, ibm}
  Daily = {aapl}
  Days <- TwoDays
  DefaultPriority <- StooqOnly
  Queries <- DataQueries
  Published0 <- OneDay
  Feed = feed
  HasStore = TRUE
  MaxConns = 2
  HasCache = TRUE
  Redis = FALSE
  Cooldown = 2
  TTL = 1
  MaxTime = 2
  MaxRequests = 3
  MaxFaults = 0
  MaxCancels = 1
  MaxCrashes = 1
SPECIFICATION Spec
INVARIANTS AnswersFit ServedNotEmpty

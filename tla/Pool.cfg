\* No fault at all, as many patient clients as connections: each handler holds one and waits for
\* another.  The handlers stand still, so the check for deadlock is off.
CONSTANTS
  h1 = h1  h2 = h2  feed = feed
  stooq = stooq  yfinance = yfinance  YFINANCE = YFINANCE  other = other
  none = none  aapl = aapl  ibm = ibm
  Workers = {h1, h2}
  Providers = {stooq, yfinance}
  Names <- MCNames
  None = none
  Registry <- MCRegistry
  Guarded = {}
  Series = {aapl}
  Daily = {}
  Days <- TwoDays
  DefaultPriority <- StooqFirst
  Queries <- ReadBackQueries
  Published0 <- TwoDays
  Feed = none
  HasStore = TRUE
  MaxConns = 2
  HasCache = TRUE
  Redis = FALSE
  Cooldown = 2
  TTL = 1
  MaxTime = 1
  MaxRequests = 2
  MaxFaults = 0
  MaxCancels = 0
  MaxCrashes = 0
SPECIFICATION FairSpec
PROPERTY HandlersEnd
CHECK_DEADLOCK FALSE

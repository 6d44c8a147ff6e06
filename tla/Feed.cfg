\* Three rows, an interval with time for all of them, a failing statement and a crash.
CONSTANTS
  r1 = r1  r2 = r2  r3 = r3
  Rows = {r1, r2, r3}
  None = None
  Interval = 4
  FetchTime = 1
  MaxFaults = 1
  MaxCrashes = 1
SPECIFICATION FairSpec
INVARIANT TypeOK
PROPERTIES EveryRowTried FeedStops

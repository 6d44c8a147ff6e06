\* Two rows, an interval with time for one of them.
CONSTANTS
  r1 = r1  r2 = r2  r3 = r3
  Rows = {r1, r2}
  None = None
  Interval = 2
  FetchTime = 1
  MaxFaults = 0
  MaxCrashes = 0
SPECIFICATION FairSpec
PROPERTIES EveryRowTried

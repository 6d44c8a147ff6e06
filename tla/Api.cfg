\* Two handlers, one connection, single requests and batches over two minutes.
CONSTANTS
  h1 = h1  h2 = h2  a1 = a1
  aapl = aapl  blank = blank  none = none
  Handlers = {h1, h2}
  Addresses = {a1}
  Limit = 1
  MaxMinute = 2
  MaxRequests = 3
  Symbols = {aapl, blank}
  Blank = blank
  Bars <- MCBars
  Calls <- MCCalls
  None = none
SPECIFICATION ApiSpec
INVARIANTS RefusalJustified LimitPerLateRequest ResponseSound MetricsBalance
PROPERTY RequestAnswered

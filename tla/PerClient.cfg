\* One handler, one client with two connections, one minute.
CONSTANTS
  h1 = h1  a1 = a1  a2 = a2
  Handlers = {h1}
  Addresses = {a1, a2}
  ClientOf <- OneClient
  Limit = 2
  MaxMinute = 1
  MaxRequests = 3
SPECIFICATION Spec
INVARIANT PerClientLimit

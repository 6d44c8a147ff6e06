\* Two overlapping AddSymbol calls and a client that walks through the pages.
CONSTANTS
  a1 = a1  a2 = a2
  Adders = {a1, a2}
  Tickers = {10, 20, 30, 40}
  Names = {1, 2}
  Builtin <- Catalog
  HasStore = TRUE
  Queries <- EveryQuery
  DefaultLimit = 2
  MaxLimit = 3
  MaxAdds = 2
  MaxFaults = 1
  MaxCrashes = 1
SPECIFICATION Spec
INVARIANTS AddedIsWatched WalkMissesNothing WalkRepeatsNothing SearchFindsListed
SYMMETRY Symmetry

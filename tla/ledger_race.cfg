SPECIFICATION MCSpec
CONSTANTS
  Workers = {w1, w2, w3}
  Symbols = {BTC, ETH}
  NoSymbol = NoSymbol
  TxTypes <- BuySell
  Amounts = {0, 1, 2}
  Prices = {1}
  Ops <- Operations
  MaxRequests = 5
  MaxOverlapping = 3
  MaxAssets = 5
  MaxRows = 1
SYMMETRY WorkerSymmetry
INVARIANTS TypeOK TotalValueIsSum OrphansAreEmpty AllocationsFresh AssetsUnique
PROPERTIES JournalKept RefinesAtomicLedger
CHECK_DEADLOCK FALSE

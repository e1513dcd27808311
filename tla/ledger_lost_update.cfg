SPECIFICATION MCSpec
CONSTANTS
  Workers = {w1, w2}
  Symbols = {BTC}
  NoSymbol = NoSymbol
  TxTypes <- BuySell
  Amounts = {1}
  Prices = {1}
  Ops <- Bookings
  MaxRequests = 3
  MaxOverlapping = 3
  MaxAssets = 3
  MaxRows = 1
INVARIANT QuantityMatchesJournal
CHECK_DEADLOCK FALSE

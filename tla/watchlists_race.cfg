SPECIFICATION Spec
CONSTANTS
  Workers = {w1, w2, w3}
  Users = {u1, u2}
  NoUser = NoUser
  lower = lower
  upper = upper
  Names = {lower, upper}
  Upper <- UpperCase
  a1 = a1
  a2 = a2
  a3 = a3
  btc = btc
  eth = eth
  p1 = p1
  p2 = p2
  Assets = {a1, a2, a3}
  NoAsset = NoAsset
  SymbolOf <- SymbolOfAsset
  PortfolioOf <- PortfolioOfAsset
  MaxRequests = 5
  MaxLists = 2
  MaxItems = 3
SYMMETRY Symmetry
INVARIANTS DanglingOnlyIfRaced UnreadableForGood
PROPERTY OwnersOnly
CHECK_DEADLOCK FALSE

SPECIFICATION CacheSpec
CONSTANTS
  Workers = {w1, w2}
  bitcoin = bitcoin
  ethereum = ethereum
  BTC = BTC
  Ids = {bitcoin, ethereum}
  coinGeckoIdMap <- GeckoIds
  Indicators = {rsi, sma}
  Loads <- SharedKeys
  Life <- Lives
  MaxRetries = 2
  MaxLatency = 1
INVARIANTS AnswersAreComplete AnswersAreRecent
PROPERTY FailsOnlyAfterAllTries
SYMMETRY Symmetry

SPECIFICATION HistorySpec
CONSTANTS
  NaN = NaN
  MinusInfinity = MinusInfinity
  TailPercent = 40
  TicksPerDay = 2
  Workers = {w1, w2}
  Portfolios = {p1}
  BTC = BTC
  ETH = ETH
  Symbols = {BTC, ETH}
  Holdings <- Kept
  PastHoldings <- Early
  Past = {1, 2}
  Weekly = 1
  MonthDays = 1
  YearDays = 2
  Ops = {"refresh", "deletePortfolio", "performance", "health", "risk", "correlation"}
  MaxRequests = 2
  MaxReads = 1
  MaxTrades = 1
  MaxPoints = 5
  MaxTime = 1
INVARIANTS TornOnlyIfRaced IntervalsAreExact DrawdownIsWorstFall FiguresAgree NoFalseCalm ReturnsArePaired
SYMMETRY Symmetry
CHECK_DEADLOCK FALSE

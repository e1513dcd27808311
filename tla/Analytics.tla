------------------------------- MODULE Analytics -------------------------------
(***************************************************************************)
(* The arithmetic of AnalyticsService and of HistoricalDataService's       *)
(* interval filter, on data that has been read.  A series is the sequence  *)
(* of a portfolio's total values, oldest first.  Ratios are in percent,    *)
(* rounded towards zero (the code uses floats); what JavaScript makes of a *)
(* division by zero is kept: NaN, or an infinity.                          *)
(***************************************************************************)
EXTENDS Integers, FiniteSets, SequencesExt

CONSTANTS
    NaN,
    MinusInfinity,
    TailPercent,   \* the percentile of the value at risk (5 in the code)
    TicksPerDay    \* the resolution of dates

ASSUME AnalyticsAssumption ==
    /\ NaN \notin Int
    /\ MinusInfinity \notin Int
    /\ TailPercent \in 0 .. 99
    /\ TicksPerDay \in Nat \ {0}

Scenarios == {-30, -15, -20, -25}

Square(n) == n * n
Root(n) == CHOOSE k \in 0 .. n : Square(k) <= n /\ n < Square(k + 1)

-----------------------------------------------------------------------------
(* The series of a portfolio. *)

\* The loss of one day is the negative of the code's return, (current - prev) / prev.
Loss(prev, current) ==
    IF prev = 0 THEN IF current = 0 THEN NaN ELSE MinusInfinity
    ELSE IF current > prev THEN -(((current - prev) * 100) \div prev)
    ELSE ((prev - current) * 100) \div prev

\* calculatePerformanceMetrics: percentageChange, from the first value to the last.
Performance(s) == IF Len(s) < 2 THEN 0 ELSE -Loss(s[1], s[Len(s)])

Losses(s) == [i \in 1 .. Len(s) - 1 |-> Loss(s[i], s[i + 1])]

\* No division by zero: only the last value may be 0.
Divides(s) == \A i \in 1 .. Len(s) - 1 : s[i] # 0

\* The variance of numbers r, times the square of how many there are.
Spread(r) ==
    Len(r) * SumFunction([i \in DOMAIN r |-> Square(r[i])]) - Square(SumFunction(r))

\* Math.sqrt(variance) * Math.sqrt(252); an infinite return gives NaN as well.
Volatility(s) ==
    IF Len(s) < 2 THEN 0
    ELSE IF ~Divides(s) THEN NaN
    ELSE Root((252 * Spread(Losses(s))) \div Square(Len(s) - 1))

\* The ratios divide by the deviation of all returns, and by that of the negative ones
\* (0 / 0 when there are none): which of them are finite numbers.
FiniteRatios(s) ==
    IF Len(s) < 2 THEN {"sharpe", "sortino"}
    ELSE IF ~Divides(s) THEN {}
    ELSE (IF Spread(Losses(s)) # 0 THEN {"sharpe"} ELSE {}) \union
         (IF \E i \in 1 .. Len(s) - 1 : s[i + 1] < s[i] THEN {"sortino"} ELSE {})

\* MUTANT of Drawdown: the peak is not remembered.
DrawdownOfOneDay(s) ==
    IF Len(s) < 2 THEN 0
    ELSE IF s[1] = 0 THEN NaN
    ELSE FoldLeft(LAMBDA worst, i : IF s[i] = 0 \/ Loss(s[i], s[i + 1]) < worst THEN worst
                                    ELSE Loss(s[i], s[i + 1]),
                  0, [i \in 1 .. Len(s) - 1 |-> i])

\* calculateMaxDrawdown: one pass with the running peak; Math.max keeps a NaN.
Drawdown(s) ==
    LET pass(seen, v) ==
          LET peak == IF v > seen.peak THEN v ELSE seen.peak
              fall == ((peak - v) * 100) \div peak
          IN  [peak  |-> peak,
               worst |-> IF seen.worst = NaN \/ peak = 0 THEN NaN
                         ELSE IF fall > seen.worst THEN fall ELSE seen.worst]
    IN  IF Len(s) < 2 THEN 0
        ELSE FoldLeft(pass, [peak |-> s[1], worst |-> 0], s).worst

\* MUTANT of TailIndex: the tail is rounded up.
TailIndexUp(n) == (n * TailPercent) \div 100 + 1

\* Math.floor(returns.length * 0.05), counted from 0.
TailIndex(n) == (n * TailPercent) \div 100

\* calculateValueAtRisk: the return at that index of the sorted returns.  With a NaN
\* among them the order, and so the answer, is any; -Infinity is the least loss.
AtRisk(s) ==
    LET loss == Losses(s)
        n    == Len(loss)
        more(a, b) == a # MinusInfinity /\ (b = MinusInfinity \/ a > b)
        rank(i) == Cardinality({j \in 1 .. n : more(loss[j], loss[i])})
        ties(i) == Cardinality({j \in 1 .. n : loss[j] = loss[i]})
    IN  IF n < 1 THEN {0}
        ELSE IF \E i \in 1 .. n : loss[i] = NaN THEN {loss[i] : i \in 1 .. n}
        ELSE {loss[i] : i \in {j \in 1 .. n : rank(j) <= TailIndex(n)
                                              /\ TailIndex(n) < rank(j) + ties(j)}}

\* MUTANT of OverallRisk: what is not a number counts as no risk.
OverallRiskOfNumbers(volatility, drawdown, atRisk) ==
    IF {volatility, drawdown, atRisk} \intersect {NaN, MinusInfinity} # {} THEN "LOW"
    ELSE LET score == 4 * volatility + 300 * (drawdown + atRisk)
         IN  CASE score < 20000 -> "LOW"
               [] score >= 20000 /\ score < 40000 -> "MODERATE"
               [] score >= 40000 /\ score < 60000 -> "MODERATE_HIGH"
               [] score >= 60000 /\ score < 80000 -> "HIGH"
               [] OTHER -> "VERY_HIGH"

\* calculateOverallRisk: riskScore, times 100000 (its volatility is a fraction, its other
\* figures are percentages); every comparison with NaN is false, and -Infinity < 0.2.
OverallRisk(volatility, drawdown, atRisk) ==
    IF NaN \in {volatility, drawdown, atRisk} THEN "VERY_HIGH"
    ELSE IF atRisk = MinusInfinity THEN "LOW"
    ELSE LET score == 4 * volatility + 300 * (drawdown + atRisk)
         IN  CASE score < 20000 -> "LOW"
               [] score >= 20000 /\ score < 40000 -> "MODERATE"
               [] score >= 40000 /\ score < 60000 -> "MODERATE_HIGH"
               [] score >= 60000 /\ score < 80000 -> "HIGH"
               [] OTHER -> "VERY_HIGH"

\* Three thresholds, in percent, and what is beyond (or NaN).
Band(percent) ==
    CASE percent = NaN -> "HIGH"
      [] percent # NaN /\ percent < 20 -> "LOW"
      [] percent # NaN /\ percent >= 20 /\ percent < 40 -> "MODERATE"
      [] percent # NaN /\ percent >= 40 /\ percent < 60 -> "MODERATE_HIGH"
      [] OTHER -> "HIGH"

\* calculateMarketRisk: the data are read, and then once more for the volatility.
MarketRisk(data, again) == IF Len(data) < 2 THEN "MODERATE" ELSE Band(Volatility(again))

StressTests(value) == {(value * (100 + impact)) \div 100 : impact \in Scenarios}

-----------------------------------------------------------------------------
(* The assets of a portfolio: a function from what is held to its value. *)

TotalOf(assets) == SumFunction(assets)

\* 100 minus the Herfindahl-Hirschman index; the index of nothing is 0.
DiversificationScore(assets) ==
    IF DOMAIN assets = {} THEN 100
    ELSE IF TotalOf(assets) = 0 THEN NaN
    ELSE 100 - (100 * SumFunction([s \in DOMAIN assets |-> Square(assets[s])]))
                 \div Square(TotalOf(assets))

\* Math.max() of no shares is -Infinity.
ConcentrationRisk(assets) ==
    IF DOMAIN assets = {} THEN "LOW"
    ELSE IF TotalOf(assets) = 0 THEN Band(NaN)
    ELSE Band((100 * Max({assets[s] : s \in DOMAIN assets})) \div TotalOf(assets))

\* How many assets have a share of more than a tenth.
LiquidityRisk(assets) ==
    LET large == {s \in DOMAIN assets : 10 * assets[s] > TotalOf(assets)}
    IN  CASE Cardinality(large) = 0 \/ TotalOf(assets) = 0 -> "LOW"
          [] Cardinality(large) = 1 -> "MODERATE"
          [] Cardinality(large) = 2 -> "MODERATE_HIGH"
          [] OTHER -> "HIGH"

-----------------------------------------------------------------------------
(* The correlation of two assets, from the histories of their prices: sequences  *)
(* of [date, price].                                                             *)

\* The i-th returns of the two histories are taken for a pair.
Pairs(h1, h2) ==
    {<<h1[i].date, h2[i].date>> : i \in 2 .. Len(h1) \intersect DOMAIN h2}

PriceLosses(h) == Losses([i \in DOMAIN h |-> h[i].price])

\* Is there a number to return: enough data, no division by zero, a partner for each
\* return of the first, and neither price constant.
Correlated(h1, h2) ==
    /\ Len(h1) >= 2 /\ Len(h2) >= 2
    /\ Divides([i \in DOMAIN h1 |-> h1[i].price])
    /\ Divides([i \in DOMAIN h2 |-> h2[i].price])
    /\ Len(h1) <= Len(h2)
    /\ Spread(PriceLosses(h1)) > 0
    /\ Spread(PriceLosses(h2)) > 0

-----------------------------------------------------------------------------
(* filterByInterval. *)

\* MUTANT of Intervals: the days are counted from the last point, included or not.
IntervalsFromAny(dates, days) ==
    {i \in DOMAIN dates : i = 1 \/ (dates[i] - dates[i - 1]) \div TicksPerDay >= days}

\* The indices of the points that are kept: the first, and each that is `days` whole days
\* after the one kept last.
Intervals(dates, days) ==
    FoldLeft(LAMBDA kept, i :
               IF kept = {} \/ (dates[i] - dates[Max(kept)]) \div TicksPerDay >= days
               THEN kept \union {i} ELSE kept,
             {}, [i \in DOMAIN dates |-> i])
=============================================================================

--------------------------- MODULE PortfolioHistory ---------------------------
(***************************************************************************)
(* The HistoricalData points of portfolios, which the POST refresh route   *)
(* appends (the nightly job that would is never scheduled), the deletion   *)
(* of a portfolio, whose cascade takes its points along, and the answers   *)
(* of AnalyticsService, each computed from several queries.                *)
(*                                                                         *)
(* The ledger is reduced to Trade: whatever it commits, the total is the   *)
(* sum of the assets (PortfolioLedger!TotalValueIsSum).                    *)
(***************************************************************************)
EXTENDS Analytics

CONSTANTS
    Workers,       \* requests that may be in flight at the same time
    Portfolios,
    Symbols,
    Holdings,      \* the holdings that trades lead to: functions to values
    PastHoldings,  \* the holdings that the first portfolios and points show
    Past,          \* how many ticks ago the first points may have been made
    Weekly,        \* the interval of 'weekly', in days (7 in the code)
    MonthDays,     \* the window of volatility and value at risk (30)
    YearDays,      \* the window of drawdown and ratios (365)
    Ops,           \* the operations clients call
    MaxRequests,   \* bound: requests started in a behaviour
    MaxReads,      \* bound: requests in flight that only read (they do not meet)
    MaxTrades,     \* bound: trades of a behaviour
    MaxPoints,     \* bound: points ever created
    MaxTime        \* bound: ticks of a behaviour

VARIABLES
    portfolio,   \* the Portfolio documents: live, total, and their assets
    points,      \* the HistoricalData documents
    lastPoint,   \* point ids 1 .. lastPoint have been used
    raced,       \* history: points whose insertion a deletion of their portfolio overlapped
    now,         \* the time, in ticks
    started,     \* requests started so far (for the bound)
    traded,      \* trades so far (for the bound)
    stage,       \* what each worker does next
    req,         \* its request, and what it remembers of its reads
    missed       \* has another write overlapped its transaction

historyVars == <<portfolio, points, lastPoint, raced, now, started, traded, stage, req, missed>>

Operations == {"refresh", "deletePortfolio", "history", "performance", "health", "risk", "correlation"}
Reading == Operations \ {"refresh", "deletePortfolio"}
Nobody == CHOOSE p \in Portfolios : TRUE
Nothing == [s \in {} |-> 0]

ASSUME HistoryAssumption ==
    /\ Portfolios # {}
    /\ {"month", "year"} \intersect Symbols = {}   \* they name queries
    /\ IsFiniteSet(Symbols)
    /\ \A h \in Holdings : DOMAIN h \subseteq Symbols /\ h \in [DOMAIN h -> Nat]
    /\ {Weekly, MonthDays, YearDays} \subseteq Nat \ {0}
    /\ MonthDays <= YearDays
    /\ Ops \subseteq Operations
    /\ PastHoldings \subseteq Holdings
    /\ Past \subseteq Nat /\ IsFiniteSet(Past)
    /\ {MaxRequests, MaxReads, MaxTrades, MaxPoints, MaxTime} \subseteq Nat

NoRequest == [op |-> "none", of |-> Nobody, pair |-> <<>>, total |-> 0,
              assets |-> Nothing, date |-> 0, reads |-> <<>>, got |-> <<>>,
              whole |-> TRUE, steady |-> FALSE, fresh |-> FALSE, newest |-> 0,
              raced |-> FALSE]

-----------------------------------------------------------------------------
(* HistoricalDataService's queries. *)

\* A HistoricalData document.  An asset's snapshot is one number, its value; quantities
\* being 1, it is the price as well.
Point(id, of, date, total, assets, whole) ==
    [id |-> id, of |-> of, date |-> date, total |-> total, assets |-> assets,
     whole |-> whole]

PointsOf(p) == {t \in points : t.of = p}

\* orderBy: { date: 'asc' }; of one instant, in the order of insertion.
Before(t, u) == t.date < u.date \/ (t.date = u.date /\ t.id < u.id)
ByDate(S) ==
    [i \in 1 .. Cardinality(S) |->
        CHOOSE t \in S : Cardinality({u \in S : Before(u, t)}) = i - 1]

\* getPortfolioHistory from a number of days ago until now.
Window(p, days) == ByDate({t \in PointsOf(p) : now - t.date <= days * TicksPerDay})

Totals(history) == [i \in DOMAIN history |-> history[i].total]
Dates(history) == [i \in DOMAIN history |-> history[i].date]

\* MUTANT of AssetHistory: points that repeat a price are left out.
AssetHistoryOfChanges(symbol) ==
    LET h == ByDate({t \in points : symbol \in DOMAIN t.assets})
        new == {i \in DOMAIN h : i > 1 => h[i].assets[symbol] # h[i - 1].assets[symbol]}
        kept == SetToSortSeq(new, <)
    IN  [i \in DOMAIN kept |-> [date |-> h[kept[i]].date,
                                price |-> h[kept[i]].assets[symbol]]]

\* getAssetHistory: the points of all portfolios in which the symbol occurs.
AssetHistory(symbol) ==
    LET h == ByDate({t \in points : symbol \in DOMAIN t.assets})
    IN  [i \in DOMAIN h |-> [date |-> h[i].date, price |-> h[i].assets[symbol]]]

\* The history queries of each operation, in their order.
Reads(r) ==
    CASE r.op = "history" -> <<"year">>
      [] r.op = "performance" -> <<"month">>
      [] r.op = "health" -> <<"month", "year", "year", "month">>
      [] r.op = "risk" -> <<"month", "year", "month", "month", "month", "month">>
      [] r.op = "correlation" -> r.pair
      [] OTHER -> <<>>

Query(r, what) ==
    CASE what = "month" -> Window(r.of, MonthDays)
      [] what = "year" -> Window(r.of, YearDays)
      [] OTHER -> AssetHistory(what)

-----------------------------------------------------------------------------
HistoryInit ==
    /\ portfolio \in [Portfolios ->
                        {[live |-> TRUE, total |-> TotalOf(h), assets |-> h] :
                            h \in PastHoldings}]
    /\ \E dates \in SUBSET {-ago : ago \in Past} :
          \E made \in [dates -> Portfolios \X PastHoldings] :
             /\ points = {Point(Cardinality({e \in dates : e <= d}), made[d][1], d,
                                TotalOf(made[d][2]), made[d][2], TRUE) : d \in dates}
             /\ lastPoint = Cardinality(dates)
    /\ raced = {}
    /\ now = 0
    /\ started = 0
    /\ traded = 0
    /\ stage = [w \in Workers |-> "idle"]
    /\ req = [w \in Workers |-> NoRequest]
    /\ missed = [w \in Workers |-> FALSE]

documents == <<portfolio, points, lastPoint>>

MoveTo(w, label) == stage' = [stage EXCEPT ![w] = label]

Done(w) ==
    /\ MoveTo(w, "idle")
    /\ req' = [req EXCEPT ![w] = NoRequest]

\* Any portfolio may be named, existing or not: the controller checks no ownership.
Start(w) ==
    /\ stage[w] = "idle"
    /\ started < MaxRequests
    /\ started' = started + 1
    /\ \E op \in Ops, p \in Portfolios,
          pair \in {<<>>} \union {e \in Symbols \X Symbols : e[1] # e[2]} :
          LET r == [NoRequest EXCEPT !.op = op, !.of = p, !.pair = pair, !.fresh = TRUE]
          IN  /\ pair # <<>> <=> op = "correlation"
              /\ op \in Reading =>
                   Cardinality({v \in Workers : req[v].op \in Reading}) < MaxReads
              /\ req' = [req EXCEPT ![w] = [r EXCEPT !.reads = Reads(r)]]
              /\ MoveTo(w, CASE op = "deletePortfolio" -> "begin"
                             [] op \in {"history", "performance"} -> "query"
                             [] OTHER -> "readPortfolio")
    /\ UNCHANGED <<documents, raced, now, traded, missed>>

-----------------------------------------------------------------------------
(* Queries. *)

\* portfolio.findUnique({include: {assets}}), first query: the document.  A missing
\* portfolio ends the request: with null (refresh) or 404.  Only a refresh needs what
\* it read any further; it dates its point after the second query.
ReadPortfolio(w) ==
    /\ stage[w] = "readPortfolio"
    /\ portfolio[req[w].of].live
    /\ req' = IF req[w].op = "refresh"
              THEN [req EXCEPT ![w].total = portfolio[req[w].of].total] ELSE req
    /\ MoveTo(w, "readAssets")
    /\ UNCHANGED <<documents, raced, now, started, traded, missed>>

\* Second query: its assets.
ReadAssets(w) ==
    /\ stage[w] = "readAssets"
    /\ \/ /\ req[w].op = "refresh"
          /\ req' = [req EXCEPT ![w].assets = portfolio[req[w].of].assets, ![w].date = now]
          /\ MoveTo(w, "insert")
       \/ /\ req[w].op # "refresh"
          /\ MoveTo(w, "query")
          /\ UNCHANGED req
    /\ UNCHANGED <<documents, raced, now, started, traded, missed>>

\* The next history query; after the last one, the answer is computed.
ReadHistory(w) ==
    /\ stage[w] = "query"
    /\ LET r == req[w]
           found == Query(r, r.reads[Len(r.got) + 1])
       IN  /\ req' = [req EXCEPT ![w].got = Append(@, found),
                                 ![w].steady = r.got = <<>> \/ r.steady]
           /\ MoveTo(w, IF Len(r.got) + 1 < Len(r.reads) THEN "query"
                        ELSE IF r.op = "risk" THEN "readTotal" ELSE "answer")
    /\ UNCHANGED <<documents, raced, now, started, traded, missed>>

\* runStressTests reads the portfolio once more, and fails if it is gone.
ReadTotal(w) ==
    /\ stage[w] = "readTotal"
    /\ portfolio[req[w].of].live
    /\ MoveTo(w, "answer")
    /\ UNCHANGED <<documents, req, raced, now, started, traded, missed>>

Answer(w) ==
    /\ stage[w] = "answer"
    /\ Done(w)
    /\ UNCHANGED <<documents, raced, now, started, traded, missed>>

-----------------------------------------------------------------------------
(* Changes. *)

\* historicalData.create: nothing checks that the portfolio still exists.
InsertPoint(w) ==
    /\ stage[w] = "insert"
    /\ lastPoint < MaxPoints
    /\ lastPoint' = lastPoint + 1
    /\ points' = points \union
                   {Point(lastPoint + 1, req[w].of, req[w].date, req[w].total,
                          req[w].assets, req[w].whole)}
    /\ raced' = IF req[w].raced THEN raced \union {lastPoint + 1} ELSE raced
    /\ req' = [v \in Workers |-> IF v = w THEN NoRequest
                                 ELSE [req[v] EXCEPT !.steady = FALSE]]
    /\ MoveTo(w, "idle")
    /\ UNCHANGED <<portfolio, now, started, traded, missed>>

\* Every other open transaction misses a write of its portfolio; a read between two
\* queries of it is torn.
Overtaken(p) ==
    [v \in Workers |-> IF stage[v] = "readAssets" /\ req[v].op = "refresh" /\ req[v].of = p
                       THEN [req[v] EXCEPT !.whole = FALSE] ELSE req[v]]

\* A transaction of the ledger on a portfolio.
Trade(p) ==
    /\ portfolio[p].live
    /\ traded < MaxTrades
    /\ traded' = traded + 1
    /\ \E h \in Holdings :
          /\ h # portfolio[p].assets
          /\ portfolio' = [portfolio EXCEPT ![p].total = TotalOf(h), ![p].assets = h]
    /\ req' = Overtaken(p)
    /\ missed' = [v \in Workers |-> missed[v] \/ req[v].of = p]
    /\ UNCHANGED <<points, lastPoint, raced, now, started, stage>>

\* deletePortfolio, whose cascade deletes the points that its snapshot shows.
BeginDelete(w) ==
    /\ stage[w] = "begin"
    /\ portfolio[req[w].of].live
    /\ req' = [req EXCEPT ![w].newest = lastPoint]
    /\ missed' = [missed EXCEPT ![w] = FALSE]
    /\ MoveTo(w, "commit")
    /\ UNCHANGED <<documents, raced, now, started, traded>>

\* MUTANT of Doomed: the relation does not cascade.
DoomedNone(w) == {}

Doomed(w) == {t \in PointsOf(req[w].of) : t.id <= req[w].newest}

Commit(w) ==
    /\ stage[w] = "commit"
    /\ ~missed[w]
    /\ LET p == req[w].of
       IN  /\ portfolio' = [portfolio EXCEPT ![p] =
                              [live |-> FALSE, total |-> 0, assets |-> Nothing]]
           /\ points' = points \ Doomed(w)
           /\ raced' = raced \union {t.id : t \in {u \in PointsOf(p) : u.id > req[w].newest}}
           /\ req' = [v \in Workers |->
                        IF v = w THEN NoRequest
                        ELSE [Overtaken(p)[v] EXCEPT !.steady = FALSE,
                                !.raced = @ \/ (/\ req[v].op = "refresh" /\ req[v].of = p
                                                /\ stage[v] \in {"readAssets", "insert"})]]
           /\ missed' = [v \in Workers |-> missed[v] \/ req[v].of = p]
    /\ MoveTo(w, "idle")
    /\ UNCHANGED <<lastPoint, now, started, traded>>

\* Half a day passes; no request lives through two of them.
Tick ==
    /\ now < MaxTime
    /\ \A w \in Workers : stage[w] # "idle" => req[w].fresh
    /\ now' = now + 1
    /\ req' = [w \in Workers |-> [req[w] EXCEPT !.fresh = FALSE, !.steady = FALSE]]
    /\ UNCHANGED <<documents, raced, started, traded, stage, missed>>

\* The request is refused, a database call fails, a transaction aborts, or the process
\* dies.
FailRequest(w) ==
    /\ stage[w] # "idle"
    /\ Done(w)
    /\ UNCHANGED <<documents, raced, now, started, traded, missed>>

HistoryNext ==
    \/ Tick
    \/ \E p \in Portfolios : Trade(p)
    \/ \E w \in Workers :
          \/ Start(w) \/ ReadPortfolio(w) \/ ReadAssets(w) \/ ReadHistory(w)
          \/ ReadTotal(w) \/ Answer(w) \/ InsertPoint(w) \/ BeginDelete(w) \/ Commit(w)
          \/ FailRequest(w)

HistorySpec == HistoryInit /\ [][HistoryNext]_historyVars

-----------------------------------------------------------------------------
(* A point is of one moment, although two queries and an insertion make it: its  *)
(* total is the sum of its assets unless a trade or a deletion committed between *)
(* the queries, and its portfolio exists ("onDelete: Cascade") unless the        *)
(* deletion overlapped the insertion.                                            *)
TornOnlyIfRaced ==
    \A t \in points :
        /\ t.whole => t.total = TotalOf(t.assets)
        /\ portfolio[t.of].live \/ t.id \in raced

(* "Filters historical data points based on the specified interval": what is     *)
(* kept is at least the interval apart, and what is dropped is closer than that  *)
(* to the point kept before it.                                                  *)
IntervalsAreExact ==
    \A p \in Portfolios :
        LET d == Dates(Window(p, YearDays))
            kept == Intervals(d, Weekly)
            before(i) == {j \in kept : j < i}
            far(i) == d[i] - d[Max(before(i))] >= Weekly * TicksPerDay
        IN  \A i \in DOMAIN d : i \in kept <=> (before(i) = {} \/ far(i))

(* calculateMaxDrawdown is the worst fall from any point to any later one, so no *)
(* loss of calculatePerformanceMetrics exceeds it; it is no number exactly if    *)
(* the first point is of an empty portfolio.                                     *)
DrawdownIsWorstFall ==
    \A p \in Portfolios :
        LET s == Totals(Window(p, YearDays))
            falls == {((s[e[1]] - s[e[2]]) * 100) \div s[e[1]] :
                        e \in {f \in (DOMAIN s) \X (DOMAIN s) :
                                 f[1] < f[2] /\ s[f[1]] > 0 /\ s[f[1]] >= s[f[2]]}}
        IN  Len(s) >= 2 =>
              /\ Drawdown(s) = IF s[1] = 0 THEN NaN ELSE Max(falls \union {0})
              /\ s[1] > 0 => -Performance(s) <= Drawdown(s)

\* The answers of getPortfolioHealth whose queries saw the same points, over a year in
\* which the portfolio was never empty.
SteadyHealth ==
    {w \in Workers : /\ stage[w] = "answer" /\ req[w].op = "health" /\ req[w].steady
                     /\ \A t \in ToSet(req[w].got[2]) : t.total > 0}

\* Concentration, liquidity and diversification are computed by separate formulas.  No
\* share of more than a tenth is no concentration; only one, of at most five assets, is
\* at least three fifths.  (Of more assets it need not be: 15% and seventeen times 5%.)
ScoresAgree ==
    \A p \in Portfolios :
        LET a == portfolio[p].assets
            score == DiversificationScore(a)
        IN  portfolio[p].total > 0 =>
              /\ score \in 0 .. 100
              /\ CASE ConcentrationRisk(a) = "LOW" -> score > 80
                   [] ConcentrationRisk(a) = "MODERATE" -> score > 60
                   [] ConcentrationRisk(a) = "MODERATE_HIGH" -> score > 40
                   [] OTHER -> score <= 64
              /\ LiquidityRisk(a) = "LOW" => ConcentrationRisk(a) = "LOW"
              /\ LiquidityRisk(a) = "MODERATE" /\ Cardinality(DOMAIN a) <= 5 =>
                   ConcentrationRisk(a) = "HIGH"
              /\ \A v \in StressTests(portfolio[p].total) : v <= portfolio[p].total

(* The figures of one answer, computed by separate passes over separate queries, *)
(* agree: all are numbers, the value at risk is not beyond the drawdown, the     *)
(* ratios are numbers if the other query shows something to divide by (in the    *)
(* model's whole percents a fall of less than one is no drawdown, but a return   *)
(* to divide by), and the scores of the assets tell one story.                   *)
FiguresAgree ==
    /\ ScoresAgree
    /\ \A w \in SteadyHealth :
           LET got == req[w].got
               risks == AtRisk(Totals(got[4]))
               fall == Drawdown(Totals(got[3]))
               ratios == FiniteRatios(Totals(got[2]))
           IN  /\ Cardinality(risks) = 1 /\ risks \subseteq Int
               /\ \A v \in risks : v <= fall
               /\ Volatility(Totals(got[1])) > 0 => "sharpe" \in ratios
               /\ Len(got[2]) >= 2 =>
                    /\ fall > 0 => "sortino" \in ratios
                    /\ "sortino" \in ratios /\ (\A t \in ToSet(got[2]) : t.total <= 100) =>
                         fall > 0

(* getRiskAnalysis calls the overall risk LOW only if none of its figures is NaN: *)
(* in the month the portfolio was not empty before the last point, nor at the     *)
(* first point of the year.  If it lost two thirds in the year, its risk is LOW   *)
(* only when the value at risk is a gain, and if that is infinite (from an empty  *)
(* portfolio), only when a point came or went between the queries.  The market    *)
(* risk of a portfolio that was empty in the month is HIGH if the first of its    *)
(* two queries, too, showed two points.                                           *)
NoFalseCalm ==
    \A w \in Workers : stage[w] = "answer" /\ req[w].op = "risk" =>
        LET got == [i \in DOMAIN req[w].got |-> Totals(req[w].got[i])]
        IN  /\ \A v \in AtRisk(got[3]) :
                  OverallRisk(Volatility(got[1]), Drawdown(got[2]), v) = "LOW" =>
                      /\ Divides(got[1]) /\ Drawdown(got[2]) # NaN /\ v # NaN
                      /\ Drawdown(got[2]) >= 67 => v = MinusInfinity \/ v < 0
                      /\ req[w].steady => v # MinusInfinity
            /\ Len(got[5]) >= 2 /\ ~Divides(got[6]) => MarketRisk(got[5], got[6]) = "HIGH"

(* The correlation pairs returns of the same point, provided that every point    *)
(* holds both assets and no point comes or goes between the two queries.         *)
ReturnsArePaired ==
    \A w \in Workers :
        stage[w] = "answer" /\ req[w].op = "correlation" /\ req[w].steady
        /\ (\A t \in points : ToSet(req[w].pair) \subseteq DOMAIN t.assets) =>
            LET h1 == req[w].got[1]
                h2 == req[w].got[2]
            IN  /\ Len(h1) = Len(h2)
                /\ \A d \in Pairs(h1, h2) : d[1] = d[2]
                /\ Correlated(h1, h2) <=> Correlated(h2, h1)
=============================================================================

------------------------------ MODULE PriceCache ------------------------------
(***************************************************************************)
(* PriceService and MarketService: what CoinGecko says, read through a     *)
(* Redis cache with a time to live, for concurrent requests that share no  *)
(* other state.                                                            *)
(*                                                                         *)
(* A value is its age, in seconds since CoinGecko sampled it, and what it  *)
(* holds: the indicators of a record of indicators, and {"points"} or      *)
(* nothing for a price history; {} for all else.  A Redis command or an    *)
(* API call takes MaxLatency seconds at most.  The promises of a request   *)
(* that run side by side (comparePrices) are its parts.                    *)
(***************************************************************************)
EXTENDS Integers, FiniteSets

CONSTANTS
    Workers,        \* requests that may be in flight at the same time
    Ids,            \* the names under which CoinGecko knows a cryptocurrency
    coinGeckoIdMap, \* ... by ticker, which CoinGecko does not know it by
    Indicators,     \* technical indicators
    Loads,          \* what clients call in one behaviour: operations, symbols
    Life,           \* the time to live of each kind of value
    MaxRetries,     \* MAX_RETRIES
    MaxLatency      \* bound: seconds that one command or call may take

VARIABLES
    cache,    \* the Redis keys that exist: age, ttl and what they hold
    load,     \* the one of the Loads that this behaviour has
    pc,       \* what each request does next
    req,      \* the request, and how long its current step takes
    left,     \* the keys that it has not looked up yet
    found,    \* the values of its answer, by key
    fetched,  \* the values the API gave it, to be stored
    part      \* its parts: stage, and how long their current step takes

cacheVars == <<cache, load, pc, req, left, found, fetched, part>>

Tickers == DOMAIN coinGeckoIdMap
Symbols == Ids \union Tickers
Kinds == {"price", "list", "info", "stats", "market", "search", "trending",
          "hourly", "daily", "indicators"}
Operations == {"prices", "available", "info", "stats", "market", "search", "trending",
               "history", "compare", "indicators"}

ASSUME CacheAssumption ==
    /\ coinGeckoIdMap \in [Tickers -> Ids]
    /\ Ids \intersect Tickers = {}
    /\ IsFiniteSet(Symbols) /\ "all" \notin Symbols
    /\ Loads \subseteq [ops : SUBSET Operations, symbols : SUBSET Symbols]
    /\ Life \in [Kinds -> Nat \ {0}]
    /\ MaxRetries \in Nat \ {0}
    /\ MaxLatency \in Nat

Kind(k) == k[1]
List == <<"list", "all">>
NoValues == [k \in {} |-> 0]
AnyRequest(o, keys, names, known) ==
    [op |-> o, want |-> keys, names |-> names, known |-> known, tries |-> 0,
     broken |-> FALSE, waited |-> 0]
NoRequest == AnyRequest("none", {}, {}, TRUE)

CacheInit ==
    /\ cache = NoValues
    /\ load \in Loads
    /\ pc = [w \in Workers |-> "idle"]
    /\ req = [w \in Workers |-> NoRequest]
    /\ left = [w \in Workers |-> {}]
    /\ found = [w \in Workers |-> NoValues]
    /\ fetched = [w \in Workers |-> NoValues]
    /\ part = [w \in Workers |-> NoValues]

Fresh(holds) == [age |-> 0, holds |-> holds]

\* The value of an entry that is in the cache.
Cached(k) == [age |-> cache[k].age, holds |-> cache[k].holds]

\* MUTANT of Entry
EntryForGood(k, v) == [age |-> v.age, holds |-> v.holds, ttl |-> 1000 * Life[Kind(k)]]

\* SET key value EX duration
Entry(k, v) == [age |-> v.age, holds |-> v.holds, ttl |-> Life[Kind(k)]]

\* { ...old, ...new }
Over(new, old) ==
    [k \in DOMAIN new \union DOMAIN old |-> IF k \in DOMAIN new THEN new[k] ELSE old[k]]

Only(k, v) == [l \in {k} |-> v]

Stored(values) == Over([k \in DOMAIN values |-> Entry(k, values[k])], cache)

-----------------------------------------------------------------------------
(* Requests.  Each operation is the keys it reads; the promises that it awaits     *)
(* one after another are the same for all, and follow.                           *)

Goto(w, label) ==
    /\ pc' = [pc EXCEPT ![w] = label]
    /\ req' = [req EXCEPT ![w].waited = 0]

PartsFor(keys) == [k \in keys |-> [stage |-> "read", waited |-> 0]]

\* The request looks up its keys, or starts a part for each of them.
Request(w, o, keys, names, known) ==
    /\ pc[w] = "idle"
    /\ o \in load.ops
    /\ req' = [req EXCEPT ![w] = AnyRequest(o, keys, names, known)]
    /\ IF o \in {"history", "compare"}
         THEN /\ part' = [part EXCEPT ![w] = PartsFor(keys)]
              /\ pc' = [pc EXCEPT ![w] = "parts"]
              /\ UNCHANGED left
         ELSE /\ left' = [left EXCEPT ![w] = keys]
              /\ pc' = [pc EXCEPT ![w] = "read"]
              /\ UNCHANGED part
    /\ UNCHANGED <<cache, load, found, fetched>>

GetPrices(w) ==
    \E symbols \in (SUBSET load.symbols) \ {{}} :
        Request(w, "prices", {"price"} \X symbols, {}, TRUE)

GetAvailableCryptos(w) == Request(w, "available", {List}, {}, TRUE)

\* The key is made of the id, the URL of the symbol as it came.
GetAssetInfo(w) ==
    \E s \in load.symbols :
        LET geckoId == IF s \in Tickers THEN coinGeckoIdMap[s] ELSE s
        IN  Request(w, "info", {<<"info", geckoId>>}, {}, s \in Ids)

GetMarketStats(w) ==
    \E s \in load.symbols : Request(w, "stats", {<<"stats", s>>}, {}, s \in Ids)

GetMarketData(w) ==
    \E s \in load.symbols : Request(w, "market", {<<"market", s>>}, {}, s \in Ids)

SearchMarket(w) == Request(w, "search", {<<"search", "all">>}, {}, TRUE)

GetTrending(w) == Request(w, "trending", {<<"trending", "all">>}, {}, TRUE)

\* Of one range; the interval is part of the key and of nothing else.
GetHistoricalPrices(w) ==
    \E s \in load.symbols, interval \in {"hourly", "daily"} :
        Request(w, "history", {<<interval, s>>}, {}, TRUE)

ComparePrices(w) ==
    \E symbols \in (SUBSET load.symbols) \ {{}} :
        Request(w, "compare", {"daily"} \X symbols, {}, TRUE)

GetPriceIndicators(w) ==
    \E s \in load.symbols, names \in (SUBSET Indicators) \ {{}} :
        Request(w, "indicators", {<<"indicators", s>>}, names, TRUE)

-----------------------------------------------------------------------------
(* One promise after another. *)

Hits(w) == {k \in req[w].want \intersect DOMAIN cache : req[w].names \subseteq cache[k].holds}

\* One GET: the keys are looked up one after the other.  Without all indicators, a record
\* of indicators is of no use, and the history is read.
Read(w) ==
    /\ pc[w] = "read"
    /\ \E k \in left[w] :
          /\ left' = [left EXCEPT ![w] = @ \ {k}]
          /\ found' = [found EXCEPT ![w] = IF k \in Hits(w)
                                             THEN Over(Only(k, Cached(k)), @) ELSE @]
          /\ Goto(w, IF left'[w] # {} THEN "read"
                     ELSE IF DOMAIN found'[w] = req[w].want THEN "done"
                     ELSE IF req[w].op = "indicators" THEN "parts" ELSE "fetch")
          /\ part' = IF pc'[w] = "parts"
                       THEN [part EXCEPT ![w] = PartsFor({<<"hourly", k[2]>>})] ELSE part
    /\ UNCHANGED <<cache, load, fetched>>

\* The API answers for what was not cached, and leaves out the prices it does not know.
Fetch(w) ==
    /\ pc[w] = "fetch"
    /\ req[w].known
    /\ LET missing == {k \in req[w].want \ DOMAIN found[w] : k[2] \notin Tickers}
       IN  fetched' = [fetched EXCEPT ![w] = [k \in missing |-> Fresh({})]]
    /\ Goto(w, IF req[w].op \in {"search", "trending"} THEN "batch" ELSE "store")
    /\ UNCHANGED <<cache, load, left, found, part>>

\* getMarketDataBatch: the prices of the coins that were found.
Batch(w) ==
    /\ pc[w] = "batch"
    /\ Goto(w, "store")
    /\ UNCHANGED <<cache, load, left, found, fetched, part>>

\* MUTANT of Merged
MergedFetchedOnly(old, new) == new

\* [...cachedData, ...prices]
Merged(old, new) == Over(new, old)

Store(w) ==
    /\ pc[w] = "store"
    /\ cache' = Stored(fetched[w])
    /\ found' = [found EXCEPT ![w] = Merged(@, fetched[w])]
    /\ fetched' = [fetched EXCEPT ![w] = NoValues]
    /\ Goto(w, "done")
    /\ UNCHANGED <<load, left, part>>

\* MUTANT of TriesAgain
TriesAgainButOne(n) == n + 2 < MaxRetries

TriesAgain(n) == n + 1 < MaxRetries

\* An API call fails, or ends in 404.  getAvailableCryptos tries MaxRetries times and then
\* looks for stale data, under the key that it did not find before; the others give up.
FetchFails(w) ==
    /\ pc[w] \in {"fetch", "batch"}
    /\ pc' = [pc EXCEPT ![w] = IF req[w].op # "available" THEN "failed"
                               ELSE IF TriesAgain(req[w].tries) THEN "fetch" ELSE "fallback"]
    /\ req' = [req EXCEPT ![w].tries = @ + 1, ![w].waited = 0]
    /\ UNCHANGED <<cache, load, left, found, fetched, part>>

FallBack(w) ==
    /\ pc[w] = "fallback"
    /\ found' = [found EXCEPT ![w] = IF List \in DOMAIN cache
                                       THEN Only(List, Cached(List)) ELSE @]
    /\ Goto(w, IF List \in DOMAIN cache THEN "done" ELSE "failed")
    /\ UNCHANGED <<cache, load, left, fetched, part>>

\* A Redis command fails.  The pipeline of getPrices reports the commands that failed in
\* a result that nobody looks at, unless it fails as a whole.
RedisFails(w) ==
    /\ pc[w] \in {"read", "store", "fallback"}
    /\ \/ /\ pc[w] = "store" /\ req[w].op = "prices"
          /\ \E kept \in SUBSET DOMAIN fetched[w] :
                cache' = Stored([k \in kept |-> fetched[w][k]])
          /\ found' = [found EXCEPT ![w] = Merged(@, fetched[w])]
          /\ pc' = [pc EXCEPT ![w] = "done"]
       \/ /\ pc' = [pc EXCEPT ![w] = IF pc[w] = "store" /\ req[w].op = "available"
                                       THEN "fallback" ELSE "failed"]
          /\ UNCHANGED <<cache, found>>
    /\ req' = [req EXCEPT ![w].broken = TRUE, ![w].waited = 0]
    /\ fetched' = [fetched EXCEPT ![w] = NoValues]
    /\ UNCHANGED <<load, left, part>>

Return(w) ==
    /\ pc[w] \in {"done", "failed"}
    /\ pc' = [pc EXCEPT ![w] = "idle"]
    /\ req' = [req EXCEPT ![w] = NoRequest]
    /\ left' = [left EXCEPT ![w] = {}]
    /\ found' = [found EXCEPT ![w] = NoValues]
    /\ fetched' = [fetched EXCEPT ![w] = NoValues]
    /\ part' = [part EXCEPT ![w] = NoValues]
    /\ UNCHANGED <<cache, load>>

-----------------------------------------------------------------------------
(* getHistoricalPrices, as a promise of its own. *)

Settled(w) == \A k \in DOMAIN part'[w] : part'[w][k].stage \in {"done", "failed"}

\* A part takes its next step.  With the last one the request goes on, in the same turn:
\* comparePrices has an empty history for each part that failed, the others fail with it.
PartTo(w, k, stage) ==
    /\ part' = [part EXCEPT ![w][k] = [stage |-> stage, waited |-> 0]]
    /\ IF Settled(w)
         THEN Goto(w, IF req[w].op = "compare" THEN "done"
                      ELSE IF stage = "failed" THEN "failed"
                      ELSE IF req[w].op = "indicators" THEN "store" ELSE "done")
         ELSE UNCHANGED <<pc, req>>

\* What the part returns: a history, or the input of the indicators.
PartYields(w, k, v) ==
    IF req[w].op = "indicators"
      THEN /\ fetched' = [fetched EXCEPT ![w] =
                            [i \in req[w].want |-> [v EXCEPT !.holds = req[w].names]]]
           /\ UNCHANGED found
      ELSE /\ found' = [found EXCEPT ![w] = Over(Only(k, v), @)]
           /\ fetched' = [fetched EXCEPT ![w] = [l \in DOMAIN @ \ {k} |-> @[l]]]

Reading(w, k, stage) ==
    pc[w] = "parts" /\ k \in DOMAIN part[w] /\ part[w][k].stage = stage

\* A history without points is no hit.
IsHistoricalDataValid(v) == v.holds # {}

ReadHistory(w, k) ==
    /\ Reading(w, k, "read")
    /\ \/ /\ k \in DOMAIN cache /\ IsHistoricalDataValid(cache[k])
          /\ PartYields(w, k, Cached(k))
          /\ PartTo(w, k, "done")
       \/ /\ ~(k \in DOMAIN cache /\ IsHistoricalDataValid(cache[k]))
          /\ PartTo(w, k, "fetch")
          /\ UNCHANGED <<found, fetched>>
    /\ UNCHANGED <<cache, load, left>>

FetchHistory(w, k) ==
    /\ Reading(w, k, "fetch")
    /\ k[2] \in Ids
    /\ \E holds \in {{}, {"points"}} :
          fetched' = [fetched EXCEPT ![w] = Over(Only(k, Fresh(holds)), @)]
    /\ PartTo(w, k, "store")
    /\ UNCHANGED <<cache, load, left, found>>

StoreHistory(w, k) ==
    /\ Reading(w, k, "store")
    /\ cache' = Stored(Only(k, fetched[w][k]))
    /\ PartYields(w, k, fetched[w][k])
    /\ PartTo(w, k, "done")
    /\ UNCHANGED <<load, left>>

HistoryFails(w, k) ==
    /\ pc[w] = "parts" /\ k \in DOMAIN part[w]
    /\ part[w][k].stage \in {"read", "fetch", "store"}
    /\ PartTo(w, k, "failed")
    /\ UNCHANGED <<cache, load, left, found, fetched>>

-----------------------------------------------------------------------------
Older(values) == [k \in DOMAIN values |-> [values[k] EXCEPT !.age = @ + 1]]

Active(w, k) == part[w][k].stage \in {"read", "fetch", "store"}

\* A second passes, and Redis deletes what has lived for its time.
Tick ==
    /\ \A w \in Workers :
          /\ pc[w] \notin {"idle", "parts"} => req[w].waited < MaxLatency
          /\ \A k \in DOMAIN part[w] : Active(w, k) => part[w][k].waited < MaxLatency
    /\ LET kept == {k \in DOMAIN cache : cache[k].ttl > 1}
       IN  cache' = [k \in kept |-> [cache[k] EXCEPT !.age = @ + 1, !.ttl = @ - 1]]
    /\ req' = [w \in Workers |-> IF pc[w] \in {"idle", "parts"} THEN req[w]
                                 ELSE [req[w] EXCEPT !.waited = @ + 1]]
    /\ found' = [w \in Workers |-> Older(found[w])]
    /\ fetched' = [w \in Workers |-> Older(fetched[w])]
    /\ part' = [w \in Workers |->
                 [k \in DOMAIN part[w] |-> IF Active(w, k)
                                             THEN [part[w][k] EXCEPT !.waited = @ + 1]
                                             ELSE part[w][k]]]
    /\ UNCHANGED <<load, pc, left>>

CacheNext ==
    \/ Tick
    \/ \E w \in Workers :
          \/ GetPrices(w) \/ GetAvailableCryptos(w) \/ GetAssetInfo(w)
          \/ GetMarketStats(w) \/ GetMarketData(w) \/ SearchMarket(w) \/ GetTrending(w)
          \/ GetHistoricalPrices(w) \/ ComparePrices(w) \/ GetPriceIndicators(w)
          \/ Read(w) \/ Fetch(w) \/ Batch(w) \/ Store(w) \/ FetchFails(w) \/ FallBack(w)
          \/ RedisFails(w) \/ Return(w)
          \/ \E k \in DOMAIN part[w] :
                ReadHistory(w, k) \/ FetchHistory(w, k) \/ StoreHistory(w, k)
                \/ HistoryFails(w, k)

CacheSpec == CacheInit /\ [][CacheNext]_cacheVars

-----------------------------------------------------------------------------
Answers == {w \in Workers : pc[w] = "done"}

(* A successful answer has a value for every name that CoinGecko knows, and for  *)
(* no other, and every indicator that was asked for, whatever expires, is stored *)
(* or is overwritten by others between the look-ups.  comparePrices may lack     *)
(* those whose requests failed.                                                  *)
AnswersAreComplete ==
    \A w \in Answers :
        /\ DOMAIN found[w] \subseteq {k \in req[w].want : k[2] \notin Tickers}
        /\ \A k \in req[w].want \ DOMAIN found[w] :
              \/ k[2] \in Tickers
              \/ req[w].op = "compare" /\ part[w][k].stage = "failed"
        /\ \A k \in DOMAIN found[w] : req[w].names \subseteq found[w][k].holds

(* How old an answer may be: its time to live, and the steps of two requests,    *)
(* the one that stored it late, and the one that read it and went on waiting for *)
(* others.  Indicators live on top of the history that they were computed from.  *)
Bound(w) ==
    LET o == req[w].op
        life == Life[Kind(CHOOSE k \in req[w].want : TRUE)]
    IN  CASE o = "indicators" -> Life["hourly"] + life + 3 * MaxLatency
          [] o \in {"history", "compare"} -> life + 5 * MaxLatency
          [] OTHER -> life + MaxLatency * (Cardinality(req[w].want) + 3)

AnswersAreRecent ==
    \A w \in Answers : \A k \in DOMAIN found[w] : found[w][k].age < Bound(w)

(* "Returning stale cached data due to API failure": a request for the list      *)
(* fails only when the API failed MaxRetries times and no other request has      *)
(* cached the list by then, or Redis fails.                                      *)
FailsOnlyAfterAllTries ==
    [][\A w \in Workers :
          req[w].op = "available" /\ pc[w] # "failed" /\ pc'[w] = "failed" =>
             \/ (req[w].tries = MaxRetries /\ List \notin DOMAIN cache)
             \/ req'[w].broken]_cacheVars
=============================================================================

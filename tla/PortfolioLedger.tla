---------------------------- MODULE PortfolioLedger ----------------------------
(***************************************************************************)
(* The book-keeping of one portfolio: PortfolioService, TransactionService *)
(* and CsvService.importTransactions, run by concurrent HTTP requests over *)
(* a MongoDB replica set.  Every query of these services filters by        *)
(* portfolioId, so portfolios do not interact and one of them is modelled. *)
(*                                                                         *)
(* A request is a worker that alternates awaited database calls.  A Prisma *)
(* `$transaction` is a MongoDB multi-document transaction: it reads the    *)
(* snapshot taken by its first operation, and it commits only if no        *)
(* document it writes was written by somebody else since (snapshot         *)
(* isolation, no automatic retry).  Its body is therefore computed in one  *)
(* step from the snapshot (Begin) and applied in another (Commit).         *)
(***************************************************************************)
EXTENDS Integers, FiniteSets

CONSTANTS
    Workers,       \* requests that may be in flight at the same time
    Symbols,       \* asset symbols, already upper-cased
    NoSymbol,      \* the symbol of an asset id that was not used yet
    TxTypes,       \* the transaction types clients use
    Amounts,       \* quantities clients send (@Min(0) in the DTOs)
    Prices,        \* unit prices clients send (@Min(0) in the DTOs)
    Ops,           \* the operations clients call
    MaxRequests,   \* bound: requests started in a behaviour
    MaxAssets,     \* bound: asset documents ever created
    MaxRows        \* bound: rows of an imported file

VARIABLES
    portfolio,     \* the portfolio document: does it exist, its totalValue
    docs,          \* the asset documents, by id
    journal,       \* per asset: number of Transaction documents, booked amount
    issued,        \* asset ids 1 .. issued have been handed out
    started,       \* requests started so far (for the bound)
    called,        \* history: the operations that were started so far
    pc,            \* what each worker does next
    req,           \* each worker's request and what it remembers of its reads
    tx,            \* the writes of each worker's open transaction
    missed         \* documents others wrote since that transaction's snapshot

vars == <<portfolio, docs, journal, issued, started, called, pc, req, tx, missed>>

Operations == {"createTransaction", "addAssetToPortfolio", "deleteAsset",
               "deletePortfolio", "importTransactions"}
Credits == {"BUY", "TRANSFER_IN"}
Debits  == {"SELL", "TRANSFER_OUT"}

ASSUME LedgerAssumption ==
    /\ NoSymbol \notin Symbols
    /\ TxTypes \subseteq Credits \union Debits
    /\ Amounts \subseteq Nat
    /\ Prices \subseteq Nat
    /\ Ops \subseteq Operations
    /\ MaxRequests \in Nat
    /\ MaxAssets \in Nat
    /\ MaxRows \in Nat

AssetIds == 1 .. MaxAssets
PortfolioDoc == 0
NoId == 0

AssetDoc == [live: BOOLEAN, symbol: Symbols \union {NoSymbol},
             quantity: Nat, value: Nat, allocation: Nat]
NoAsset == [live |-> FALSE, symbol |-> NoSymbol,
            quantity |-> 0, value |-> 0, allocation |-> 0]

NoRequest == [op |-> "none", type |-> "BUY", symbol |-> NoSymbol, amount |-> 0,
              price |-> 0, asset |-> NoId, quantity |-> 0, rows |-> 0]
NoEntry == [count |-> 0, net |-> 0]
NoEntries == [a \in AssetIds |-> NoEntry]
NoTx == [live |-> TRUE, total |-> 0, docs |-> [a \in AssetIds |-> NoAsset],
         writes |-> {}, entry |-> NoEntries]

-----------------------------------------------------------------------------
(* The arithmetic of the services. *)

\* The sum of a value per asset id.
SumOf(v) ==
    LET sum[S \in SUBSET AssetIds] ==
          IF S = {} THEN 0
          ELSE LET a == CHOOSE x \in S : TRUE IN v[a] + sum[S \ {a}]
    IN  sum[AssetIds]

\* assets.reduce((sum, asset) => sum + asset.value, 0); an id without a document
\* counts 0.
Total(d) == SumOf([a \in AssetIds |-> d[a].value])

\* The allocation, in percent, of an asset worth `value` in a portfolio of `total`.
Share(value, total) == IF total = 0 THEN 0 ELSE (value * 100) \div total

\* MUTANT of Refreshed: shares of the total the portfolio had before.
RefreshedByOldTotal(d) ==
    [a \in AssetIds |->
        IF d[a].live
        THEN [d[a] EXCEPT !.allocation = Share(d[a].value, portfolio.total)]
        ELSE d[a]]

\* updatePortfolioMetrics: every asset's allocation against the new total ...
Refreshed(d) ==
    [a \in AssetIds |->
        IF d[a].live THEN [d[a] EXCEPT !.allocation = Share(d[a].value, Total(d))]
        ELSE d[a]]
\* ... and the documents it writes: all assets of the portfolio, and the portfolio.
MetricsWrites(d) == {a \in AssetIds : d[a].live} \union {PortfolioDoc}

\* MUTANT of Sufficient: the balance check forgets SELL.
SufficientForTransfers(type, quantity, amount) ==
    type = "TRANSFER_OUT" => quantity >= amount

Sufficient(type, quantity, amount) == type \in Debits => quantity >= amount

NewQuantity(quantity, amount, type) ==
    IF type \in Credits THEN quantity + amount ELSE quantity - amount

Signed(amount, type) == NewQuantity(0, amount, type)

\* asset.findFirst({portfolioId, symbol}): any asset of that symbol; the index on
\* (portfolioId, symbol) is not unique.
Matching(symbol) == {a \in AssetIds : docs[a].live /\ docs[a].symbol = symbol}
Exists(a) == a \in AssetIds /\ docs[a].live

-----------------------------------------------------------------------------
(* Transaction bodies: what each `$transaction` would write, computed from *)
(* the committed state at its snapshot.                                    *)

\* One change to the journal: n Transactions of `a`, moving its booked amount.
Booked(a, n, amount) == [NoEntries EXCEPT ![a] = [count |-> n, net |-> amount]]

\* MUTANT of WithMetrics: the metrics are computed before the documents change.
WithMetricsFirst(d, writes, entry) ==
    [live |-> TRUE, total |-> Total(docs), docs |-> Refreshed(d),
     writes |-> writes \union MetricsWrites(d), entry |-> entry]

\* A body that ends in updatePortfolioMetrics(portfolioId, tx): the new documents
\* with total and allocations recomputed from them.
WithMetrics(d, writes, entry) ==
    [live |-> TRUE, total |-> Total(d), docs |-> Refreshed(d),
     writes |-> writes \union MetricsWrites(d), entry |-> entry]

\* createTransaction: books r.amount on r.asset.  The new quantity comes from the
\* document that getOrCreateAsset returned, not from the snapshot.
BookingTx(r) ==
    LET quantity == NewQuantity(r.quantity, r.amount, r.type)
        booked   == [docs EXCEPT ![r.asset].quantity = quantity,
                                 ![r.asset].value = quantity * r.price]
    IN  WithMetrics(booked, {}, Booked(r.asset, 1, Signed(r.amount, r.type)))

\* MUTANT of AddAssetTx: the portfolio's total is left to a later refresh.
AddAssetTxAlone(r, new) ==
    [live |-> TRUE, total |-> portfolio.total,
     docs |-> [docs EXCEPT ![new] =
                 [live |-> TRUE, symbol |-> r.symbol, quantity |-> r.amount,
                  value |-> r.amount * r.price, allocation |-> 0]],
     writes |-> {new}, entry |-> Booked(new, 0, r.amount)]

\* addAssetToPortfolio: only the new asset gets an allocation.  The opening
\* quantity is not a Transaction; the journal starts from it.
AddAssetTx(r, new) ==
    LET value == r.amount * r.price
        added == [docs EXCEPT ![new] =
                    [live |-> TRUE, symbol |-> r.symbol, quantity |-> r.amount,
                     value |-> value, allocation |-> 0]]
    IN  [live |-> TRUE, total |-> Total(added),
         docs |-> [added EXCEPT ![new].allocation = Share(value, Total(added))],
         writes |-> {new, PortfolioDoc},
         entry |-> Booked(new, 0, r.amount)]

\* MUTANT of DeleteAssetTx: the Transactions go, the asset stays.
DeleteTransactionsTx(r) ==
    WithMetrics(docs, {r.asset},
                Booked(r.asset, 0 - journal[r.asset].count, 0 - journal[r.asset].net))

\* deleteAsset: its Transactions, then the asset, then the metrics of the rest.
DeleteAssetTx(r) ==
    WithMetrics([docs EXCEPT ![r.asset] = NoAsset], {r.asset},
                Booked(r.asset, 0 - journal[r.asset].count, 0 - journal[r.asset].net))

\* MUTANT of DeletePortfolioTx: only the portfolio document goes.
DeletePortfolioOnlyTx ==
    [live |-> FALSE, total |-> 0, docs |-> docs, writes |-> {PortfolioDoc},
     entry |-> NoEntries]

\* deletePortfolio: every Transaction and asset the snapshot shows, then the
\* portfolio.
DeletePortfolioTx ==
    [live |-> FALSE, total |-> 0, docs |-> [a \in AssetIds |-> NoAsset],
     writes |-> MetricsWrites(docs),
     entry |-> [a \in AssetIds |-> [count |-> 0 - journal[a].count,
                                   net |-> 0 - journal[a].net]]]

-----------------------------------------------------------------------------
Init ==
    /\ portfolio = [live |-> TRUE, total |-> 0]
    /\ docs = [a \in AssetIds |-> NoAsset]
    /\ journal = NoEntries
    /\ issued = 0
    /\ started = 0
    /\ called = {}
    /\ pc = [w \in Workers |-> "idle"]
    /\ req = [w \in Workers |-> NoRequest]
    /\ tx = [w \in Workers |-> NoTx]
    /\ missed = [w \in Workers |-> {}]

store == <<portfolio, docs, journal, issued>>
requests == <<started, called>>

Goto(w, label) == pc' = [pc EXCEPT ![w] = label]

\* validatePortfolioAccess, the first await of every request: the portfolio must
\* exist (and belong to the caller) or the request is refused.
Admit(w, r, label) ==
    /\ pc[w] = "idle"
    /\ r.op \in Ops
    /\ started < MaxRequests
    /\ portfolio.live
    /\ started' = started + 1
    /\ called' = called \union {r.op}
    /\ req' = [req EXCEPT ![w] = r]
    /\ Goto(w, label)
    /\ UNCHANGED <<store, tx, missed>>

StartCreateTransaction(w) ==
    \E t \in TxTypes, s \in Symbols, n \in Amounts, p \in Prices :
        Admit(w, [NoRequest EXCEPT !.op = "createTransaction", !.type = t,
                                   !.symbol = s, !.amount = n, !.price = p], "lookup")

StartAddAsset(w) ==
    \E s \in Symbols, n \in Amounts, p \in Prices :
        Admit(w, [NoRequest EXCEPT !.op = "addAssetToPortfolio", !.symbol = s,
                                   !.amount = n, !.price = p], "begin")

StartDeleteAsset(w) ==
    \E a \in 1 .. issued :
        Admit(w, [NoRequest EXCEPT !.op = "deleteAsset", !.asset = a], "begin")

StartDeletePortfolio(w) ==
    Admit(w, [NoRequest EXCEPT !.op = "deletePortfolio"], "begin")

StartImport(w) ==
    \E n \in 1 .. MaxRows :
        Admit(w, [NoRequest EXCEPT !.op = "importTransactions", !.rows = n], "rows")

\* The end of a request, for whatever reason: its memory and its open transaction
\* are gone.
Done(w) ==
    /\ Goto(w, "idle")
    /\ req' = [req EXCEPT ![w] = NoRequest]
    /\ tx' = [tx EXCEPT ![w] = NoTx]
    /\ missed' = [missed EXCEPT ![w] = {}]
    /\ UNCHANGED requests

-----------------------------------------------------------------------------
(* getOrCreateAsset and the CSV rows run outside any transaction. *)

\* findFirst found an asset: the worker goes on with that copy of it.
LookupFound(w) ==
    /\ pc[w] = "lookup"
    /\ \E a \in Matching(req[w].symbol) :
           req' = [req EXCEPT ![w].asset = a, ![w].quantity = docs[a].quantity]
    /\ Goto(w, IF req[w].op = "importTransactions" THEN "bookRow" ELSE "begin")
    /\ UNCHANGED <<store, requests, tx, missed>>

\* findFirst found none.  createTransaction goes on to create the asset; the
\* importer's own asset.create lacks the required lastUpdated, Prisma refuses it,
\* and the row becomes an error.
LookupMissed(w) ==
    /\ pc[w] = "lookup"
    /\ Matching(req[w].symbol) = {}
    /\ Goto(w, IF req[w].op = "importTransactions" THEN "rows" ELSE "create")
    /\ UNCHANGED <<store, requests, req, tx, missed>>

\* prisma.asset.create of an empty asset: on this.prisma, so committed at once.
\* Nothing checks that the portfolio still exists or that nobody else created it.
CreateZeroAsset(w) ==
    /\ pc[w] = "create"
    /\ issued < MaxAssets
    /\ issued' = issued + 1
    /\ docs' = [docs EXCEPT ![issued + 1] =
                   [NoAsset EXCEPT !.live = TRUE, !.symbol = req[w].symbol]]
    /\ req' = [req EXCEPT ![w].asset = issued + 1, ![w].quantity = 0]
    /\ Goto(w, "begin")
    /\ UNCHANGED <<portfolio, journal, requests, tx, missed>>

\* The importer takes its next row ...
NextRow(w) ==
    /\ pc[w] = "rows"
    /\ req[w].rows > 0
    /\ \E t \in TxTypes, s \in Symbols, n \in Amounts \ {0} :
           req' = [req EXCEPT ![w].type = t, ![w].symbol = s, ![w].amount = n,
                              ![w].rows = req[w].rows - 1]
    /\ Goto(w, "lookup")
    /\ UNCHANGED <<store, requests, tx, missed>>

\* ... inserts its Transaction document, and nothing else.
BookRow(w) ==
    /\ pc[w] = "bookRow"
    /\ LET a == req[w].asset
       IN  journal' = [journal EXCEPT ![a] =
                 [count |-> @.count + 1,
                  net |-> @.net + Signed(req[w].amount, req[w].type)]]
    /\ Goto(w, "rows")
    /\ UNCHANGED <<portfolio, docs, issued, requests, req, tx, missed>>

\* A row whose query fails is recorded as an error; the loop goes on.
RowFails(w) ==
    /\ pc[w] \in {"lookup", "bookRow"}
    /\ req[w].op = "importTransactions"
    /\ Goto(w, "rows")
    /\ UNCHANGED <<store, requests, req, tx, missed>>

EndImport(w) ==
    /\ pc[w] = "rows"
    /\ req[w].rows = 0
    /\ Done(w)
    /\ UNCHANGED store

-----------------------------------------------------------------------------
(* Transactions. *)

Open(w, body) ==
    /\ tx' = [tx EXCEPT ![w] = body]
    /\ missed' = [missed EXCEPT ![w] = {}]
    /\ Goto(w, "commit")
    /\ UNCHANGED <<portfolio, docs, journal, requests, req>>

\* createTransaction refuses an overdraft before its first write; asset.update and
\* portfolio.update fail (P2025) when the document is gone.
BeginBooking(w) ==
    /\ pc[w] = "begin"
    /\ req[w].op = "createTransaction"
    /\ Sufficient(req[w].type, req[w].quantity, req[w].amount)
    /\ portfolio.live
    /\ Exists(req[w].asset)
    /\ Open(w, BookingTx(req[w]))
    /\ UNCHANGED issued

\* addAssetToPortfolio refuses a symbol its snapshot already has.
BeginAddAsset(w) ==
    /\ pc[w] = "begin"
    /\ req[w].op = "addAssetToPortfolio"
    /\ Matching(req[w].symbol) = {}
    /\ portfolio.live
    /\ issued < MaxAssets
    /\ issued' = issued + 1
    /\ Open(w, AddAssetTx(req[w], issued + 1))

BeginDeleteAsset(w) ==
    /\ pc[w] = "begin"
    /\ req[w].op = "deleteAsset"
    /\ Exists(req[w].asset)
    /\ portfolio.live
    /\ Open(w, DeleteAssetTx(req[w]))
    /\ UNCHANGED issued

BeginDeletePortfolio(w) ==
    /\ pc[w] = "begin"
    /\ req[w].op = "deletePortfolio"
    /\ portfolio.live
    /\ Open(w, DeletePortfolioTx)
    /\ UNCHANGED issued

\* WiredTiger lets the transaction commit only if it writes no document that
\* changed after its snapshot.
NoConflict(w) == tx[w].writes \intersect missed[w] = {}

Commit(w) ==
    /\ pc[w] = "commit"
    /\ NoConflict(w)
    /\ LET t == tx[w] IN
         /\ docs' = [a \in AssetIds |-> IF a \in t.writes THEN t.docs[a] ELSE docs[a]]
         /\ portfolio' = IF PortfolioDoc \in t.writes
                           THEN [live |-> t.live, total |-> t.total] ELSE portfolio
         /\ journal' = [a \in AssetIds |->
                          [count |-> journal[a].count + t.entry[a].count,
                           net |-> journal[a].net + t.entry[a].net]]
         /\ missed' = [v \in Workers |->
                         IF v # w /\ pc[v] = "commit" THEN missed[v] \union t.writes
                         ELSE {}]
    /\ Goto(w, "idle")
    /\ req' = [req EXCEPT ![w] = NoRequest]
    /\ tx' = [tx EXCEPT ![w] = NoTx]
    /\ UNCHANGED <<issued, requests>>

\* A request ends without (further) effect: it was refused (NotFound, Conflict,
\* overdraft), its transaction was aborted (write conflict, Prisma's 5 s limit), or
\* its process died.  What it wrote outside a transaction stays.
Fail(w) ==
    /\ pc[w] # "idle"
    /\ Done(w)
    /\ UNCHANGED store

Step(w) ==
    \/ LookupFound(w) \/ LookupMissed(w) \/ CreateZeroAsset(w)
    \/ NextRow(w) \/ BookRow(w) \/ RowFails(w) \/ EndImport(w)
    \/ BeginBooking(w) \/ BeginAddAsset(w) \/ BeginDeleteAsset(w)
    \/ BeginDeletePortfolio(w) \/ Commit(w) \/ Fail(w)

Start(w) ==
    \/ StartCreateTransaction(w) \/ StartAddAsset(w) \/ StartDeleteAsset(w)
    \/ StartDeletePortfolio(w) \/ StartImport(w)

Next == \E w \in Workers : Start(w) \/ Step(w)

Spec == Init /\ [][Next]_vars

-----------------------------------------------------------------------------
Labels == {"idle", "lookup", "create", "rows", "bookRow", "begin", "commit"}

Entries == [AssetIds -> [count : Int, net : Int]]
Request == [op : Operations \union {"none"}, type : Credits \union Debits,
            symbol : Symbols \union {NoSymbol}, amount : Nat, price : Nat,
            asset : 0 .. MaxAssets, quantity : Nat, rows : Nat]
PendingTx == [live : BOOLEAN, total : Nat, docs : [AssetIds -> AssetDoc],
              writes : SUBSET (0 .. MaxAssets), entry : Entries]

(* The shape of every variable.  Quantities, values and totals are naturals:     *)
(* createTransaction checks the balance on a copy of the asset it read before    *)
(* its transaction began, and even when that copy is stale nothing stored, or    *)
(* about to be stored, becomes negative.                                         *)
TypeOK ==
    /\ portfolio \in [live : BOOLEAN, total : Nat]
    /\ docs \in [AssetIds -> AssetDoc]
    /\ journal \in Entries
    /\ issued \in 0 .. MaxAssets
    /\ started \in 0 .. MaxRequests
    /\ called \subseteq Operations
    /\ pc \in [Workers -> Labels]
    /\ req \in [Workers -> Request]
    /\ tx \in [Workers -> PendingTx]
    /\ missed \in [Workers -> SUBSET (0 .. MaxAssets)]

(* The portfolio's stored totalValue is the sum of its assets' stored values, *)
(* in every committed state, however transactions, additions and deletions    *)
(* race: they all write the portfolio document, so of two that overlap only   *)
(* one commits.                                                               *)
TotalValueIsSum == portfolio.live => portfolio.total = Total(docs)

(* While nobody imports, no Transaction outlives its asset, whichever booking a      *)
(* deleteAsset or deletePortfolio meets, and a portfolio that was deleted leaves      *)
(* nothing behind that holds anything: Transactions are written only together with    *)
(* their asset and the portfolio document.  (An empty asset may stay:                 *)
(* getOrCreateAsset creates it outside any transaction.)                              *)
OrphansAreEmpty ==
    "importTransactions" \notin called =>
        \A a \in AssetIds :
            /\ ~docs[a].live => journal[a] = NoEntry
            /\ ~portfolio.live => /\ docs[a].quantity = 0 /\ docs[a].value = 0
                                  /\ journal[a] = NoEntry

(* Transactions are only ever removed together with their asset: no abort,     *)
(* refusal or race of requests loses a booked transaction of a live asset.     *)
JournalKept ==
    [][\A a \in AssetIds :
          journal'[a].count < journal[a].count => ~docs'[a].live]_vars

(* While nobody calls addAssetToPortfolio, every stored allocation is the      *)
(* asset's share of the stored total, in every committed state.                *)
AllocationsFresh ==
    "addAssetToPortfolio" \notin called /\ portfolio.live =>
        \A a \in AssetIds : docs[a].live =>
            docs[a].allocation = Share(docs[a].value, portfolio.total)

(* "Asset already exists in portfolio": while nobody calls createTransaction,   *)
(* which creates assets on its own, there is one asset document per symbol.     *)
(* Two overlapping addAssetToPortfolio keep it because both write the           *)
(* portfolio, though neither knows of the other's asset.                        *)
AssetsUnique ==
    "createTransaction" \notin called =>
        \A a, b \in AssetIds :
            docs[a].live /\ docs[b].live /\ docs[a].symbol = docs[b].symbol => a = b

(* What an asset holds is what was opened plus what was booked on it.          *)
QuantityMatchesJournal ==
    \A a \in AssetIds : docs[a].live => docs[a].quantity = journal[a].net

(* Refinement mapping to AtomicLedger: what is held of a symbol is the quantity  *)
(* of its asset, what was booked on it is its asset's journal.                   *)
OfSymbol(s, value(_)) ==
    IF Matching(s) = {} THEN 0 ELSE value(CHOOSE a \in Matching(s) : TRUE)

Atomic == INSTANCE AtomicLedger WITH
    open <- portfolio.live,
    holding <- [s \in Symbols |-> OfSymbol(s, LAMBDA a : docs[a].quantity)],
    booked <- [s \in Symbols |-> OfSymbol(s, LAMBDA a : journal[a].net)]
=============================================================================

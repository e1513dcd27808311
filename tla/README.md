# A formal model of the crypto portfolio tracker

This directory holds TLA+ specifications of the back end in `src/` (a NestJS
API over MongoDB, through Prisma, and Redis), the TLC configurations that
model-check them, and proofs of theorems about them for TLAPS.  Everything is
translated from the TypeScript under `src/libs` and `src/apps`;
`PROJECT.json` maps every definition to its lines.

1. [The system](#the-system): components, state, operations, hard behaviours
2. [How the code is modelled](#how-the-code-is-modelled)
3. [The modules](#the-modules), one section each, with the runs
4. [Disagreements](#disagreements) of the code with what it says of itself
5. [What is proved](#what-is-proved)
6. [What is not modelled](#what-is-not-modelled)
7. [Plan](#plan)

To check a run: `tlc -workers 2 -config ledger_race.cfg MCPortfolioLedger`.
To check the proofs: `tlapm PortfolioLedger_proofs.tla`, and so on for the
other modules that end in `_proofs`.

## The system

One Node process serves HTTP requests.  A handler runs alone until it awaits a
database call, a Redis command, an HTTP request or a timer; then any other
handler may run.  Requests share no memory except a few service fields (the
price stream, the exchange clients, the exchange rates), so what they can do
to each other they do through MongoDB and Redis.  No request is retried, and
several processes may run on one database.

| Component | State it keeps | Operations | Interacts with |
|---|---|---|---|
| Portfolio ledger: `PortfolioService`, `TransactionService`, `CsvService` | Portfolio.totalValue; Asset quantity, value, allocation; Transaction | create and delete a transaction's asset, add an asset, delete asset or portfolio, import rows | registry (the portfolio), watchlists and history (cascades) |
| Portfolio registry: `PortfolioService` | Portfolio.name, description, isPrimary | create, update, set primary, delete | ledger |
| Sessions: `AuthService`, `UserRepository`, JWT strategies | User (status, e-mail verified, password, 2FA secret), RefreshToken rows | register, verify e-mail, login, second factor, refresh, logout, reset password, set up and disable 2FA, delete account | e-mail, TOTP |
| Alerts: `AlertsService`, `AlertProcessorService`, `PriceAlertProcessor`, `NotificationService` | Alert.status | create, enable, disable, delete, process all, notify | prices, e-mail |
| Price and market cache: `PriceService`, `MarketService` | Redis keys with a time to live | prices, list of currencies, asset info, statistics, market data, search, trending, history, comparison, indicators | CoinGecko, Redis |
| Price stream: `WebSocketService` | one socket field, reconnection timers, ping intervals, two RxJS subjects | connect, subscribe, reconnect, shut down | Binance |
| Rate limiter: `RateLimitService`, `RateLimitGuard` | a Redis counter per key | consume | Redis, every guarded route |
| Exchange accounts, wallets, synchronisation: `ExchangeAccountService`, `WalletAddressService`, `CryptoService`, `SyncService` | ExchangeAccount, WalletAddress; exchange clients in memory | link, remove, synchronise | exchanges, block explorers |
| Watchlists: `WatchlistService` | Watchlist, WatchlistItem | create, update, delete, add and remove assets, metrics | assets, prices |
| History and analytics: `HistoricalDataService`, `AnalyticsService` | HistoricalData points | append, filter by interval, statistics | portfolios, prices |
| Database access: `PrismaService` | the connection | connect with retries | all |
| HTTP interface: controllers, DTOs, guards, `ValidationPipe` | none that changes | every route | rate limiter, sessions, all handlers |
| The rest: filters, interceptors, e-mail, TOTP, logging, configuration, health check | none that changes | | |

What is hard in each, and what makes it correct:

- **Ledger.** Reads outside a transaction that are written back inside it;
  total and allocations that are recomputed from a snapshot; an asset inserted
  outside the transaction that books on it; deletion in the middle.  Correct
  when the total is the sum of the assets, nothing is negative, an asset's
  quantity is what was booked on it, a symbol has one asset, and nothing of a
  deleted portfolio survives.
- **Registry.** Uniqueness by find-then-create, the primary portfolio by two
  writes.  Correct when names are unique per user, one portfolio is primary,
  and nobody changes another user's portfolio.
- **Sessions.** A refresh verifies, revokes and stores in several calls, and
  stores twice; pruning, expiry, logout, reset and deletion interleave with it.
  Tokens that are signed in one second are the same string.  Correct when a token
  that was exchanged or revoked stays dead, is exchanged once, and a deleted account
  has no session.
- **Alerts.** A run works from a snapshot while owners edit alerts and other
  runs work on the same; status and mail are two steps.  Correct when a mail is
  justified, sent once per activation, not lost, and no alert starves.
- **Price and market cache.** Keys expire between look-ups, late stores, parts
  that run side by side and fail alone, data computed from other cached data,
  retries and a fallback.  Correct when answers are complete and recent.
- **Price stream.** Several sockets alive at once, each with handlers that act
  on the service's single fields.  Correct when connections do not multiply,
  none is lost, the published state is true, and shutdown is final.
- **Rate limiter.** Three Redis commands where one is needed.  Correct when a
  window admits a bounded number and a refusal ends.
- **Watchlists.** An asset is found, and gone when the item that watches it is
  inserted; cascades; queries that fail as a whole on one dangling item.
  Correct when items go with their list and asset and a list is its owner's.
- **Exchange accounts.** Find-then-create with a network call in between,
  clients cached in memory, a synchronisation racing removal and the redaction
  of a deleted user's keys.  Correct when names are unique per user, an account
  is read with its own keys, and what is removed or redacted stays so.
- **History and analytics.** A point is made by several queries and outlived by
  the portfolio or outlives it; figures of one answer come from separate
  queries and divide by totals that may be zero.  Correct when points are of
  one moment, and figures agree and none that is no number passes for a good one.
- **HTTP interface.** The order of routes, of global and controller guards, of
  pipes and parameter decorators.  Correct when every handler can be reached,
  with the request it documents, counted and with a user.

## How the code is modelled

**Requests.**  `Workers` is a set of requests in flight.  `Start...` takes a
request with any input that the DTO's validation lets through; `pc` says which
awaited call comes next; every awaited call that reads or writes shared state
is an action of its own, together with the code that runs until the next one.
`Fail` ends a request at any point: the refusals that change nothing, a failed
database call, Prisma's transaction time-out and a process crash look the same
from the outside; what was committed before stays.

**Transactions.**  The database is MongoDB (`prisma/schema.prisma`), so a
Prisma `$transaction` has snapshot isolation: all its reads see the documents
as committed at its first operation, and it aborts if a document it writes was
written by another since.  No code retries it.  A transaction therefore has
two steps: `Begin` computes from the committed state what the body writes,
and `Commit` applies it, provided that `missed` (what others committed since)
and its write set are disjoint.  In MongoDB the later *writer* aborts rather
than the later committer; either way of two overlapping writers of one
document only one commits, and which one is left open.  An array
`$transaction([...])` is the same.  A single write outside is one atomic
action, which conflicts with open transactions like a commit.  Uniqueness
holds only where the schema has a unique index (`User.email`,
`WatchlistItem[watchlistId, assetId]`); there are no foreign-key checks.

**Data.**  Amounts, prices and quantities are naturals (the code uses floats;
rounding is not modelled except where a percentage is formed).  Symbols, names,
secrets, tokens are members of small sets.  Ids are handed out in order.

**Bounds.**  Constants named `Max...` bound the exploration: requests started,
documents created, seconds, errors.  They appear in guards of start and create
actions only (or, for time, in `Tick`: `MaxSeconds`), so they cut behaviours short and forbid
nothing inside them.  The service constants (`MaxReconnectAttempts`,
`MaxTokensPerUser`, `MaxRetries`, `Points`, `Duration`) are parameters, given
small values or the code's own.  `CHECK_DEADLOCK FALSE` is used because the
bounds end every behaviour and because a server without requests is idle.

## The modules

### PortfolioLedger, AtomicLedger

`PortfolioLedger` is one portfolio (no query mixes portfolios): the portfolio
document, its assets, and the journal of Transactions per asset as their number
and booked amount.  A booking is `LookupFound` / `LookupMissed` +
`CreateZeroAsset` (`getOrCreateAsset`, which runs on `this.prisma`, not on the
transaction), `BeginBooking`, `Commit`.  `WithMetrics` is
`updatePortfolioMetrics`, which ends every transaction body but
`addAssetToPortfolio`'s.  Imports work row by row (`NextRow`, `BookRow`,
`RowFails`, `EndImport`).

`AtomicLedger` says what a client may expect: while the portfolio is open,
holdings change together with what is booked, and never become negative.

`called` is a history variable, the set of operations started so far, so that
one run with all operations can check what holds only while some of them are
not used; the proofs have the same hypotheses inside the property.

| Run | Question | Result |
|---|---|---|
| `ledger_race` | three requests that overlap, or five one at a time (`serial`, with crashes, amounts of zero, no imports); two symbols, all operations | naturals only; total = sum of assets; no booking lost from the journal; no Transaction outlives its asset, and what a deleted portfolio leaves is empty, unless somebody imports; allocations are shares of the total unless somebody calls `addAssetToPortfolio`; one asset per symbol unless somebody calls `createTransaction`; one at a time, requests refine `AtomicLedger`, which includes that every quantity is what was booked |
| `ledger_lost_update` | two bookings of one asset | **violated**: the quantity is computed from an asset read before the transaction |

Bounds: three requests are enough for every pair of operations to meet in a
third's window; five in a row create, book, delete and book again; five asset
ids allow duplicates and other symbols.  Three
overlapping operations on two documents are the smallest case in which the
conflict rule on the portfolio document must hold transitively.

### PortfolioRegistry

The portfolios of all users: name, description, primary flag.  `CheckName` and
`Insert` are `createPortfolio`; `Write` is `updatePortfolio`, which writes back
the fields it read; `BeginSetPrimary` and `BeginDelete` open transactions.
`settled` is a history variable: the users who start with a primary portfolio;
the others start without any.

| Run | Result |
|---|---|
| `registry_race` | three concurrent requests of two users: who has a primary portfolio keeps exactly one as long as nothing is deleted (every change of the primary writes the old one); a portfolio that is kept only loses the mark of the primary while another one of the same user has it; a portfolio is changed only by its owner's requests |

Four portfolios and four requests let two changes of the primary overlap with
an update that read the portfolio before both.

### Sessions, SessionBook

One user's account document and refresh-token rows.  `Sign` and `Store`, `Prune`
are `generateTokens` with its `storeRefreshToken`; `StoreAgain` is the second one,
by which `refreshTokens` stores the same token again; `Verify` (twice), `ReadUser`
and `Invalidate` are the strategy, the check and the revocation that precede them;
`Begin`/`Commit` are the transactions of 2FA and deletion.

A token is the pair of an e-mail and a second, because that is all that two
refresh tokens of one user can differ in: the payload is the id, e-mail, roles and
name, with the second of signing, and no random part.  Rows are found by the
token's hash, so that two rows of one token keep each other alive.  `Tick` is the
clock, and leaves out seconds in which nothing is signed; `Expire` lets seven days
pass for the oldest.  The e-mail is "redacted" once the account is deleted; a
deleted account is found under it, as `login` looks at nothing else.  Links of
verification and reset mails are JWTs that stay good for a day and an hour and are
not used up: `links` notes the last second in which one may have been mailed, and
`Linked` lets it work until `Expire` passes that second, longer than it lives.  `stored`, `twins`
(tokens that two logins or refreshes have signed) and `redeemed` are history
variables.

`SessionBook` is the promise: a session is granted that is no older than any
before, a session that is over comes back only by being granted, the deletion ends
them all, and nothing is granted after it until both the e-mail has been verified
and the password chosen anew.

| Run | Result |
|---|---|
| `sessions` | three requests of a verified user that overlap, or six one at a time from registration on (`serial`, with crashes): a token that was exchanged is valid again only if it was signed twice; 2FA is only turned on with a secret, and the secret does not change while it is on; one at a time, requests refine `SessionBook`, which includes that a deleted account has no session until it was verified and given a password again |

Six requests are registration, verification, deletion and the three that open a
session after it (verify, reset, login); three seconds are a token, one exchanged in
a later second, and one more; six rows are a registration or login and two
refreshes, with one to spare; `MaxTokensPerUser = 2` makes pruning happen.

### Alerts

Alert documents, their owners (`CreateAlert`, `PatchStatus`, `DeleteAlert`),
and processing runs: `Begin` takes the snapshot of active alerts; `Triggers` /
`Passes` evaluate one; `UpdateAlertStatus`; `SendAlertNotifications` or
`DeliveryFails`.  A price that cannot be fetched passes over the alert
(`PriceUnknown`), a failing database call ends the run (`Fail`).  Only price
alerts exist, since the API creates no other kind.  Fairness: a run that was
started goes on, because Node resumes it when its awaited call is answered or
rejected.

| Run | Result |
|---|---|
| `alerts_race` | two runs, two alerts, failures of every kind: every mail reports a price beyond its target; an alert is mailed at most once per run and activation; if runs are started again and again and failures come to an end, an active alert whose condition is true does not stay so for ever |

`NoAlertStarves` sets aside infinitely many failing steps, but only those that
differ from every step without failure: a run that ends after its last alert
looks the same whether that alert's price was unknown or not beyond the target.

### PriceCache

Redis entries with a time to live and requests for every operation of
`PriceService` and `MarketService`.  An operation is the keys it reads and what
it needs of them; `Read` (one GET), `Fetch`, `Batch` (the second call of a
search), `FetchFails`, `Store` and `FallBack` are the awaited calls that follow
one after another.  `comparePrices` runs one `getHistoricalPrices` per symbol
side by side: these are the request's parts (`ReadHistory`, `FetchHistory`,
`StoreHistory`, `HistoryFails`), and `getPriceIndicators` has one such part
after its own look-up.  With the last part the request goes on (`PartTo`).

A value is its age since CoinGecko sampled it, so that time needs no bound.
A price history may have no points, which is stored like any other but never a
hit.  Tickers are names that CoinGecko does not know: `/simple/price` leaves
them out, the others answer 404.  `RedisFails` includes a pipeline some of whose
commands fail, which `getPrices` does not notice.  `MaxLatency` bounds a step,
which the code does for the list only (`timeout`); without a bound no freshness
could be promised.

| Run | Result |
|---|---|
| `cache_race` | two requests of every operation: an answer has every name that CoinGecko knows, no other, and all indicators asked for; its age is below the time to live and the latency of the request that stored it and of the one that reads it, below both times to live for indicators; the list fails only after all tries, and only when nobody has cached it meanwhile, or with Redis |

Only operations that share keys are called in one behaviour (`Loads`); the
others cannot meet.  Two symbols let one be cached and one not; times to live
of one or two seconds with a latency of one let a store be late by more than
an entry lives.  The bounds in `AnswersAreRecent` are reached for prices and
comparisons.

### WebSocketFeed

The sockets the service has made (the field `ws` holds the newest), the
reconnection timers, ping intervals, attempts, and the published state.  The
`ws` library's events are `Opens`, `FailsToConnect` (error and close), `ProtocolError`
and `Closes`; `HandleDisconnection` is the handler that both error and close
call.  Fairness: the module is started, timers fire, and a socket that keeps
connecting opens unless it is refused.

| Run | Result |
|---|---|
| `feed_errors` | each error event costs at most one connection more; until the first error, ping interval, subscription and published state match the connection; no reconnection is lost; if connections are only closed, the service is connected again and again |

`MaxErrors = 3` lets attempts run out with the limit of 3 in use here, with
double scheduling; the code's limit of 5 adds nothing but length.

### RateLimiter, ApiRoutes, RequestPipeline

`RateLimiter` is `consume` on any number of Redis keys: `Exists`, `Incr`,
`Expire`, one action per command; `Tick` is Redis' clock.  A key is a route's
key together with an address or a user.  `admitted` (when each key let a
request in) and `disturbed` (did a request fail on the key, or the key expire
while one was under way) are history variables.

`ApiRoutes` is the table of all routes in the order of their registration:
verb, path, guards, roles, DTO fields, `@HttpCode`, documented statuses; with
the router (`Dispatch`: the first route that matches), the RolesGuard and the
ValidationPipe as operators.

`RequestPipeline` composes both: `Arrive`, the global rate limit by address
(`Limit`, `Limited`), the global RolesGuard, the guards of the controller, of
which price routes have a second RateLimitGuard, by user; `Validate`; `Handle`;
`Fail` at any point.

| Run | Question | Result |
|---|---|---|
| `requests` | three overlapping requests from two addresses, or one request for any route with any token and body (`Loads`) | no stretch of `Duration` seconds admits `2 * Points` on a key; only a failure or an expiry during a request leaves a counter without a time to live; no handler runs uncounted or without the user it takes; every request reaches the handler it means, and is answered as documented but for the six handlers in `Misdocumented` |
| `api_success` | a request with all that its handler needs | **violated**: three routes refuse every such request (Disagreements) |

Two requests that overlap and one after them are the shortest way to straddle
an expiry; routes do not interact but in the counters, so that one request at a
time is enough to try them all.  TLC stops `api_success` at the first of the
three routes; `-continue` shows the others.

### Watchlists

Lists, their items and the assets of two portfolios.  `CheckName`, `InsertList`
are `createWatchlist`; `Access` is the check that every other operation begins
with, a query that includes the assets and throws if one is missing; `FindAsset`,
`CheckItem`, `InsertItem` are `addAssetToWatchlist`; `Begin`, `Commit` are
`deleteWatchlist` and PortfolioService's deletions with their cascades.
`raced` and `stuck` are history variables.

| Run | Result |
|---|---|
| `watchlists_race` | three concurrent requests of two users, two assets of one symbol: an item without its list or asset was inserted while that was being deleted; a list and its items change only by its owner's requests and by the deletion of assets; a list that such an item makes unreadable stays so for good |

Three item ids allow a duplicate, a dangling item and a good one; five requests
create a list, fill it, delete an asset under it and try to repair it.

### PortfolioHistory, Analytics

`Analytics` has the arithmetic as operators on series of totals: performance,
volatility, drawdown, value at risk, ratios, the interval filter, correlation
and the scores of an asset mix, with what JavaScript makes of a division by
zero.  `PortfolioHistory` has the points, the refresh that adds one (`ReadPortfolio`,
`ReadAssets`, `InsertPoint`), the deletion with its cascade, and the
answers, one `ReadHistory` per query (a health answer makes four, a risk
analysis six; a performance answer reads no portfolio first).  `Trade` stands for whatever the ledger commits.
`steady` and `whole` (did anything change between the queries) and `raced`
are history.

| Run | Result |
|---|---|
| `history_race` | two requests of every kind, a trade and the passing of time: a point is of one moment and of a portfolio that exists, unless something committed in between; the interval filter keeps exactly what is far enough from what it kept before; the drawdown is the worst fall; the figures of an answer that saw one state agree, over a year without an empty point; the overall risk is LOW only if no figure is NaN, and of a portfolio that lost two thirds only if its value at risk is a gain; a correlation pairs returns of the same point |

A year of two days with two ticks each, up to five points of three kinds of
holdings (among them an empty portfolio): the shortest windows that differ, and
enough points for two returns in the shortest.  The operators are evaluated on
every series that these behaviours make.

### ExchangeSync

Accounts, wallets, and the clients in CryptoService's memory.  `CheckName`,
`Verify`, `Insert` are `create`; `FindOne`, `Delete` are `remove`; `FindUnique`,
`Connect`, `Fetch`, `Update` are `syncExchangeData` with
`getOrCreateExchangeClient`; `lastSync` is the number of times it was written, which
the creation does as well (`Created`); `Begin`, `Commit` delete a user, which redacts the
keys; `Restart` empties the memory and ends all requests.  `checkedAt`,
`deletedAt` and `exposed` are history.

| Run | Result |
|---|---|
| `exchange_sync` | three concurrent requests of two users on two exchanges: two accounts of one name, or wallets of one address, are only made by requests that overlap; an account is synchronised with its own keys only and, after its creation, never with wrong ones; a deleted user's keys are gone from the database and, unless a synchronisation had read them, from memory; what is removed stays removed |

Two account ids let one be removed, or have wrong keys, next to another on the
same exchange; four requests create two and let a synchronisation meet a
removal or a deletion.

## Disagreements

Places where what the models do, because the code does it, is not what the
code, its comments or its documents say.  The first four are `findings` in `PROJECT.json`, shown by
`ledger_lost_update` and `api_success`; the others were met while modelling, and
the properties above are stated around them.  Paths are under `src/`.

- Ledger: two overlapping bookings of one asset lose one from its quantity
  (`transaction.service.ts:32`, "Use transaction to ensure data consistency").
- Routes: `POST auth/verify-2fa` is always refused with 400: the DTO lists only
  `totpCode`, and the pipe forbids other fields (`apps/api/src/main.ts:33`),
  while the handler takes the temporary token from the body
  (`auth.controller.ts:321`).
- Routes: `GET portfolios/:id/history` never succeeds: dates are transformed
  before they are matched with a pattern, and without them the handler reads
  `query.endDate.getTime()` (`historical-data.controller.ts:45`).
- Routes: `POST auth/admin/update-roles` is always refused: the global RolesGuard
  runs before any guard that sets the user, and `JwtStrategy` returns no roles
  (`auth.controller.ts:390`).
- Routes: six handlers answer with a status they do not document, for want of
  `@HttpCode`; `RegisterDto.roles` is documented and refused; CORS does not allow
  PATCH, which three routes use (`main.ts`); `HealthModule` is not imported.
- Routes: analytics, metrics, history, synchronisation and export take no user
  at all; `JwtStrategy` finds deleted users (`findById`).
- Rate limiter: a process that stops between INCR and EXPIRE, or a key that
  expires between EXISTS and INCR, leaves a counter that refuses its client for
  good (`rate-limiter.service.ts:25`; "Try again in ...",
  `rate-limiter.guard.ts:54`).
- Sessions: two concurrent refreshes exchange one token (`auth.service.ts:344`;
  `user.repository.ts:409`).
- Exchange accounts: the answer of the test of the credentials is ignored
  (`exchange-account.service.ts:95`; "Verify API credentials before saving",
  `:31`); `lastSync` is set on creation (`:40`), so that an account counts as
  synchronised that never was; clients of removed accounts stay in
  memory until a restart; `processExchangeData` does nothing.
- Watchlists: `createWatchlist` looks for the name as sent and stores it in
  upper case; a list with an item whose asset is gone can be neither read nor
  deleted (`watchlist.service.ts:147`).
- Analytics: `overallRisk` compares a fraction with percentages, and a value at risk
  that is a gain pulls the score down, to -Infinity if it is a gain from nothing,
  which is LOW whatever was lost before (`analytics.service.ts:383`); `marketRisk`
  reads its data twice; a correlation pairs by position and is not symmetric;
  one point of an empty portfolio makes figures NaN for a year; an empty
  portfolio scores 100 for diversification.
- Price cache: `getAssetInfo` looks a ticker up under its id but asks CoinGecko
  for the ticker (`price.service.ts:450`): it succeeds only while somebody's
  request by id is cached.
- Price cache: a history without points is stored and never used
  (`price.service.ts:634`); `calculateIndicator` is a placeholder, so that every
  indicator is null.
- Price cache: `PriceUpdateJob` "updates" through the cache, which it would find
  fresh four times of five.
- Ledger: `getOrCreateAsset` (`portfolio.service.ts`, used by
  `transaction.service.ts`) creates its asset on `this.prisma`, outside the
  transaction it is called in: of two bookings, or a booking and an addition,
  each can create one of the same symbol, and one that is overtaken by
  `deletePortfolio` leaves an empty asset without a portfolio.
- Ledger: `addAssetToPortfolio` updates the total but no other asset's
  allocation (`portfolio.service.ts:286`).
- Ledger: an import inserts Transactions and changes no holdings, while
  `docs/csv-functionality.md:141` says that it does.
- Registry: `createPortfolio` looks for the name as sent, among all users'
  portfolios, and stores it in upper case (`portfolio.service.ts:34-60`): the
  message 'Portfolio name must be unique for this user' (`:70`) is given for
  another user's name, and not for one's own that was sent in lower case.
- Registry: two `setPrimaryPortfolio` of a user without a primary write
  different documents and both commit (`portfolio.service.ts:444`).
- Registry: `updatePortfolio` writes back the name and description it read
  (`portfolio.service.ts:87`), so concurrent updates revert each other.
- Sessions: a refresh stores its token twice (`auth.service.ts:360`), so a
  logout between the two is undone; "This closes the security window" (`:354`).
- Sessions: a token that is exchanged in the second it was signed in is signed and
  stored again, and so is valid after its exchange; likewise the tokens of a logout
  that is followed by a login in the same second (`auth.service.ts:569`; "Invalidate
  the old token BEFORE generating new ones.  This closes the security window", `:353`).
- Sessions: a deleted account can be verified and given a password by links that
  were mailed before, and then be logged into under its redacted e-mail
  (`auth.service.ts:99`; "Invalidate the password", `user.repository.ts:520`).
- Sessions: a login that read the account before its deletion stores a token
  after it; "Invalidate all refresh tokens" (`user.repository.ts:495`).
- Sessions: `logout` is not awaited (`auth.controller.ts:186`), so 'User is
  logged out successfully' is said while the tokens are valid.
- Sessions: a refresh revokes the tokens of all devices (`auth.service.ts:355`),
  though users "can have multiple active refresh tokens (one per
  device/session)" (`user.repository.ts:392`).
- Sessions: pruning deletes only rows older than seven days
  (`user.repository.ts:432`), so the limit of tokens per user is exceeded.
- Sessions: registration stores a token before the e-mail is verified
  (`auth.service.ts:68`; `docs/implementation-guide.md:434`).
- Sessions: when the second write of `updatePassword` fails the client is told
  'Failed to update password' although it was (`user.repository.ts:158`).
- Alerts: a run marks and mails an alert that its owner disabled, or another run
  triggered, after its snapshot (`alert.service.ts:144`).
- Alerts: the status changes before the mail is sent (`alert.service.ts:121`), so
  a failing mail is never sent again.
- Price cache: the fallback of `getAvailableCryptos` looks under the key that was
  found missing (`price.service.ts:534`), so there is no stale data to return.
- Price cache: the record of a currency's indicators is replaced by each request
  (`price.service.ts:409`), so requests for different ones compute them again.
- Price stream: error and close of a refused connection both reconnect
  (`websocket.service.ts:139`), and each publishes its state over the other's.
- Price stream: the open handler subscribes on `this.ws`, which may be a newer
  socket (`websocket.service.ts:154`); if that one is still connecting, `send`
  throws and nothing catches it.
- Price stream: shutdown clears neither timers nor handlers
  (`websocket.service.ts:223`), so closing the socket starts a new connection.

## What is proved

Proofs are for every value of the constants, under the modules' named
assumptions (`LedgerAssumption`, `FeedAssumption`, `CacheAssumption`,
`LimiterAssumption`, `PipelineAssumption`, `ExchangeAssumption`,
`AlertsAssumption`, `RegistryAssumption`, `SessionsAssumption`,
`WatchlistsAssumption`, `HistoryAssumption`), which say no more than that bounds
are naturals and inputs are of the right kind.  `PipelineAssumption` says as well that every
request that clients send is for a route of the table, with the path of that route
and, for each parameter, something that no route has as a word in that place (ids
are UUIDs, and no coin is called "compare"); `CacheAssumption` that the symbols
are finitely many and none of them is "all", which stands in the keys of requests
that name no symbol; `HistoryAssumption` that the symbols are finitely many and
none of them is called like one of the model's two windows, that a portfolio holds
natural amounts of them, and that the first points are finitely many.  TLC evaluates
all of them on the instances of the runs.

**PortfolioLedger_proofs**

- `TypeCorrect`: `Spec => []TypeOK`.  The part that is not typing is that
  quantities, values and totals stay naturals although the balance is checked
  on a stale copy: the new quantity is computed from the same copy.
- `TotalIsSum`: `Spec => []TotalValueIsSum`.
- `OrphansEmpty`: `Spec => []OrphansAreEmpty` (while nobody imports): no Transaction
  outlives its asset.
- `AllocationsAreShares`: `Spec => []AllocationsFresh` (while nobody calls
  `addAssetToPortfolio`).
- `OneAssetPerSymbol`: `Spec => []AssetsUnique` (while nobody calls
  `createTransaction`).
- `TransactionsStay`: `Spec => JournalKept`.
- `SerialLedgerIsAtomic`: `MCSpec => RefinesAtomicLedger`.

None of the invariants is inductive: a commit installs what was computed earlier.  `IInv`
adds for every open transaction that its body is `Sound` (consistent in itself:
its total is the sum of its documents, its allocations are shares of that) and,
as long as nobody has overtaken it on the portfolio document, `Current` (it
agrees with the committed documents that it does not write, and an asset that is gone
after it has no Transactions, `Clears`).  Since every
transaction body writes the portfolio document, an overtaken one fails its
conflict check, and the others are current when they commit.  Single writes
outside transactions (a new empty asset, an imported row) keep `Current`
because they add nothing to a sum.

`KeepInv` looks at what the documents would be if an open transaction committed
now (`After`): one that nobody has overtaken keeps the symbols apart and takes
entries out of the journal only together with their asset (`Removes`).  That
needs `Settled`, that an asset with a journal, or that an import is about to book
on, is never created a second time.

`SerialInv` is for requests one at a time, with crashes between their steps:
what the request at work has read still holds (`AtWork`), every open transaction
is one step of `AtomicLedger` (`Moves` a holding, `Drops` an asset, `Closes` the
portfolio), and the committed state is one that `AtomicLedger` knows
(`Orderly`).  The theorem is the step simulation: a commit is a step of the
abstract ledger, every other step stutters.

**CryptoPrices_proofs**, the price stream

- `ConnectionsBounded`: `Spec => []OneConnectionPerError`.
- `NoReconnectionLost`: `Spec => []KeepsTrying`.
- `TrueStatePublished`: `Spec => []StateIsCurrentUntilError`.

The invariant adds the types of the counters and that nothing exists before
the start; the work is in the cardinality of the set of live sockets under each
event, and in `ScheduledBound`: a burst of calls of `handleDisconnection`
schedules at most one timer each and, while attempts are left, at least one.
`CurrentInv` adds, until the first error, that only the newest socket is alive
and that the interval is its own (`OwnInterval`), which is what makes
`Published` true after the next event.

**CryptoPrices_proofs**, the cache

- `CompleteAnswers`: `CacheSpec => []AnswersAreComplete`.
- `RecentAnswers`: `CacheSpec => []AnswersAreRecent`.
- `FailsLast`: `CacheSpec => FailsOnlyAfterAllTries`.

All three follow from one invariant, `PriceInv`.  Its first half says what a
request has at each of its steps: what it has found, what it has yet to look
up, that what it fetched is exactly what is missing (`InOrder`), and which of
its parts have ended with a value (`InParts`).  The other half is about time.  An
entry was at most `Late` when it was stored, and its age and the rest of its time
to live together never exceed the two (`CacheInv`); a value found is younger than
its time to live and one latency for each look-up since (`AgeAt`, with the
cardinality of what has been looked up), or, for parts that run side by side, its
age and what the slowest other part may still take (`Remaining`) stay below the
bound (`Young`).  The bounds hold for every latency, zero included.  The proof
found that three `CASE`s of the model had overlapping guards, of which TLC took
the first: they are `IF`s now.

**RequestPipeline_proofs**

- `RunsOut`: `Spec => []UndisturbedRunsOut`, for any number of requests, keys and
  points.
- `WindowsAreBounded`: `Spec => []WindowBounded`.
- `HandlersGuarded`: `Spec => []HandlersAreGuarded`.
- `AnswersDocumented`: `Spec => []AnswersAreDocumented`.

`LimiterInv` adds what makes it inductive: a counter without a time to live has
a maker, the request that found no key and whose INCR answered 1, and that
request is about to EXPIRE it (`MakerExpires`); an answer of EXISTS holds as long
as the key is undisturbed (`AnswerHolds`).

`WindowInv` relates the admissions of a key to its counter: the latest of them,
as many as the counter shows but `Points` at most, are those of the counter, which
lives for a `Duration` from the first of them (`Running`, `Gone`), and the
counter before made no more than `Points` and began a `Duration` earlier.

`PipeInv` follows a request through the stages: what it was counted on and who it
is said to be, as far as its route has come (`Progress`), and that a call of the
limiter is on the key of the stage it is at (`OnItsKey`).  That the guards of a
route are enough for its handler, and that its status is a documented one, is
looked up in the table, route by route (`RoutesFormed`, `FormsFit`).

That a call reaches the handler it means is a fact about the order of the whole
table (`RoutesSeparate`): no route is declared after one that would take its calls
(`Apart`: another verb, another length, or a word in which the earlier one
differs).  Routes of different controllers begin with different words (`Added`);
within a controller they are compared list by list (`AuthPaths` to `AlertPaths`).
The router then finds, for a call that fills the path of a route, that route and no
other (`CallFindsRoute`).  `PipeInv` keeps it for as long as the request is in
flight.  TLC tries each route with one id; the theorem is for every id that is not a
word of its place.

**ExchangeSync_proofs**

- `OnlyRacesDuplicate`: `Spec => []DuplicatesOnlyIfRaced`.
- `OwnKeysOnly`: `Spec => []SyncsWithOwnKeys`.
- `NothingComesBack`: `Spec => RemovedStaysRemoved`.
- `DeletedKeysGone`: `Spec => []KeysForgotten`.

`IInv` adds, for every request, what it knows (`Knows`): a name that was found
free has only been taken by greater ids since (`Unraced`), and the copies of an
account's keys that are in memory, in a request or in a snapshot agree with the
account (`KeysAgree`); the ids of accounts are never used again.  For the last
theorem `KeysInv` adds that keys in memory belong to an account that was read
before the deletion of its user (`exposed`) or was inserted after the deletion had
read what there was (`Late`), and that a deletion under way covers every account
of its user up to the id it has noted (`Covers`).

**AlertsAndHistory_proofs**, the alerts

- `NoFalseAlarm`: `Spec => []MailsAreJustified`.
- `NoDuplicateMails`: `Spec => []MailsPerActivation`.

`MailInv` adds that a price which a run holds for an alert it is about to mark or
mail is beyond that alert's target (`QuotesTrigger`).  For the second, `CountInv`
counts what is still to come as well: the mails sent, the runs that may mail the
alert before it becomes active again (`Owed`), and those that mail it now and may
do so once more (`Twice`) are together covered by its activations.

**AlertsAndHistory_proofs**, the history

- `PointsTornOnlyByRaces`: `HistorySpec => []TornOnlyIfRaced`.
- `CorrelationsArePaired`: `HistorySpec => []ReturnsArePaired`.
- `IntervalsKept`: `HistorySpec => []IntervalsAreExact`.
- `DrawdownIsExact`: `HistorySpec => []DrawdownIsWorstFall`.
- `CalmIsCalm`: `HistorySpec => []NoFalseCalm`.
- `FiguresTellOneStory`: `HistorySpec => []FiguresAgree`.

`HistoryInv` serves the first two.  A refresh between its two queries remembers the total
that the portfolio still has, unless it was overtaken, and one about to insert has
a live portfolio or was there when that was deleted (`RefreshSound`).  A correlation
that nothing unsteadied has, after each query, the history as it still is
(`CorrelationSound`); that two histories of the same points have the same length
and dates is `HistoriesLineUp`.  To be reasoned about, the order of points is stated by rank
(`ByDate`), where it was a library sort before.

The other four are about figures that the code computes in loops over a series of any
length.  `FiguresInv` adds what they are computed from: the points are finitely
many, numbered in order, not later than now, with natural totals (`PointsDated`), a
portfolio holds natural amounts and has no total once it is gone (`HoldingsKept`),
and a report in the making has, query by query, natural series, which as long as
nothing unsteadies it are the windows as they still are (`AnswerSound`).  TLC checked
it on the constants of `history_race` before it was proved.  The figures themselves need
induction: the drawdown over the length of a series, the intervals over its points,
the sums of volatility, concentration and health over finite sets.  It is an
induction on sets: a property is the set of the numbers, or of the subsets of a
finite set, that have it, and numbers that lack it would have a least one
(`LeastExists`); so no operator is passed to a theorem of the library.  Of the
integer square root the proofs use that it is a natural, and 0 for 0 (`RootIs`).

Attempting `FiguresTellOneStory` showed that `FiguresAgree` said more than holds,
where the constants of the run were too small to show it: with more than a hundred small
assets the diversification score is 100, with many assets a single share of more
than a tenth need not be a concentration, and a fall of less than one in a hundred is
no drawdown in whole percents, but a negative return, so that there is a Sortino
ratio without a drawdown once totals exceed 100.  The property now says what holds for
every mix of assets.

**PortfolioRegistry_proofs**

- `OwnersChangeOnly`: `Spec => OwnersOnly`.
- `MarkIsHandedOver`: `Spec => PrimaryHandedOver`.
- `OnePrimaryEach`: `Spec => []OnePrimary`.

`OwnInv` adds that a request past its check works on a portfolio of its user,
for good, as owners never change, and that a transaction writes what it read
but for the marks, unless it missed a change (`Accurate`).  `PrimaryInv` adds
that a change of the primary that can still commit demotes whatever is primary
now (`CoversPrimaries`): every other change wrote the old primary, which is in
its write set, and so excludes it.

**Sessions_proofs**

- `ExchangedStaysDead`: `Spec => []RedeemedStaysDead`.
- `TwoFactorKeepsSecret`: `Spec => SecretKept`.
- `SessionsAreABook`: `MCSpec => RefinesSessionBook`.

`TokenInv` adds that no row of an exchanged token is usable unless the token was
signed twice (`RedeemedUnusable`), and that a request stores rows only for a token
it has signed: one that another request works on as well is among the `twins`
(`WorkerTokens`, `OwnTokens`).  `SecretInv` adds that a 2FA setup which can still
commit was read, and will be written, while 2FA is off: who turns it on writes the
same document.  `BookInv` is for requests one at a time: no row is used before it is
created (`FreshRows`), no row of an account that cannot be logged into (`Openable`) is
usable (`DeletedIsOver`), no token is of a later second than now (`InTime`), what the
request at work has checked still holds (`AtWork`), and a token that it is about to
store may be granted (`Storable`); every step is then a step of `SessionBook` or a
stutter.

**Watchlists_proofs**

- `DanglingNeedsRace`: `Spec => []DanglingOnlyIfRaced`.
- `StuckForGood`: `Spec => []UnreadableForGood`.
- `OwnersChangeLists`: `Spec => OwnersOnly`.

`ListInv` adds that an admitted request works on its user's list (`OnOwnList`),
that an addition nobody overtook still has its list and asset, and that a
deletion takes every item that was there when it began (`Deletes`); its targets
still exist if it can commit.  `StuckInv` adds to a stuck list that nobody who
was let in before is left, so that only the check stands between a request and
the list, and the check fails.

**Only model-checked**: liveness (`NoAlertStarves`, `Recovers`), which with fairness
and `ENABLED` is beyond the prover.  Every invariant, every action property and
both refinements that the passing runs check are theorems.

## What is not modelled

- Profit and loss, average prices, `updateAssetInPortfolio` (nothing calls it),
  and the back-fill in `getPortfolios`, whose writes can only abort others, as
  `Fail` does.
- Preferences, changes of roles and names (a refresh token contains them, so one
  signed after such a change differs from one before it), access tokens (they live 15
  minutes and are not stored), the exact life of mailed links.
- `WebSocketService.reconnect` (nothing calls it) and an invalid URL.
- Rules of different size per route: one `Points` and `Duration` serve all keys
  of the rate limiter.
- Profit and loss over time, and the metrics of a watchlist, which are computed
  from prices and stored nowhere.
- Portfolio and system alerts: the API cannot create them.  `watchlistIds` and
  `alertIds` are never set, so the code that clears them has nothing to do.
- Scheduled jobs: `ScheduleModule` is commented out in `app.module.ts`.
- `executeOperation`, `withRateLimit`, `syncAll`, `getExchangeRate`: nothing
  calls them.
- The connection's retries (`PrismaService.onModuleInit`, `executeWithRetry`):
  they precede the first request.
- Formats of fields, filters, interceptors, logging, e-mail, one-time passwords,
  configuration: they keep no state.

## Plan

Done, in the order of importance: the ledger, the registry, sessions, alerts,
the price stream, the HTTP interface with the rate limiter, the price and market
cache, watchlists, exchange accounts, history and analytics.

Left, modules: the deletion of a user across ledger, registry, sessions and
watchlists (a composition); the retry loop of the database connection; rules of
different size in one pipeline.

Left, theorems: none of the safety properties; those of the modules above, once they exist.

------------------------------ MODULE ApiRoutes ------------------------------
(***************************************************************************)
(* The routes of the HTTP interface as the controllers' decorators declare *)
(* them, in the order in which they are registered, and what the router,   *)
(* the guards and the ValidationPipe make of a request.  Paths are without *)
(* the global prefix; a segment "*" stands for a parameter (":id").        *)
(*                                                                         *)
(*   guards      what @UseGuards names on the controller, then the method  *)
(*   takesUser   has the handler a @CurrentUser parameter                  *)
(*   roles       the roles @Roles requires                                 *)
(*   rule        the key of @RateLimit                                     *)
(*   dto         the class its body or query is validated against          *)
(*   uses        the sets of further fields, one of which it cannot do     *)
(*               without                                                   *)
(*   code        @HttpCode, 0 without one                                  *)
(*   documented  the statuses that @ApiResponse lists                      *)
(***************************************************************************)
EXTENDS Integers, SequencesExt

(* The classes of bodies and queries: the fields they require, and those they    *)
(* permit besides.                                                               *)

Dto(required, optional) == [required |-> required, optional |-> optional]
NoDto == Dto({}, {})

\* Roles has no decorator, so the whitelist refuses it.
RegisterDto == Dto({"email", "name", "password"}, {})
LoginDto == Dto({"email", "password"}, {})
VerifyEmailDto == Dto({"token"}, {})
ResendVerificationEmailDto == Dto({"email"}, {})
RequestPasswordResetDto == Dto({"email"}, {})
ResetPasswordDto == Dto({"token", "newPassword"}, {})
DeleteAccountDto == Dto({"password"}, {"reason"})
Setup2FADto == Dto({"totpCode", "secret"}, {})
Verify2FADto == Dto({"totpCode"}, {})

GetPricesDto == Dto({"symbols"}, {})
GetAssetInfoDto == Dto({"symbol"}, {})

CreatePortfolioDto == Dto({"name"}, {"description"})
UpdatePortfolioDto == Dto({}, {"name", "description"})

\* The fields with a default are optional.
PortfolioAssetDto == Dto({"symbol", "name"},
    {"quantity", "averageBuyPrice", "currentPrice", "value", "allocation", "category",
     "marketCap", "twentyFourHourChange", "profitLossPercentage"})

CreateTransactionDto == Dto({"type", "cryptocurrency", "amount", "pricePerUnit", "date"},
    {"fee", "exchange", "wallet", "notes"})

\* The pipe validates startDate and endDate after turning them into Dates, which match no
\* pattern, so it refuses both.
GetPortfolioHistoryDto == Dto({}, {"interval"})

CreateWatchlistDto == Dto({"name"}, {"description"})
UpdateWatchlistDto == Dto({}, {"name", "description"})
WatchlistAssetDto == Dto({"symbol"}, {"notes"})

CreatePriceAlertDto == Dto({"cryptocurrency", "price", "comparison"}, {"notification"})
GetPriceAlertsDto == Dto({}, {"status", "from", "to"})
UpdateAlertStatusDto == Dto({"status"}, {})

CreateExchangeAccountDTO == Dto({"exchange", "name", "apiKey", "apiSecret"}, {})
CreateWalletAddressDto == Dto({"blockchain", "address"}, {"label"})

-----------------------------------------------------------------------------
(* The forms of a declaration. *)

Route(handler, verb, path) ==
    [handler |-> handler, verb |-> verb, path |-> path, guards |-> <<>>,
     takesUser |-> FALSE, roles |-> {}, rule |-> "global", dto |-> NoDto, uses |-> {{}},
     code |-> 0, documented |-> {}]

\* A route of a controller whose handlers all take the user.
Own(handler, verb, path) ==
    [Route(handler, verb, path) EXCEPT !.guards = <<"jwt">>, !.takesUser = TRUE]

\* A route behind the JwtAuthGuard whose handler does not ask who called.
Anyones(handler, verb, path) == [Route(handler, verb, path) EXCEPT !.guards = <<"jwt">>]

-----------------------------------------------------------------------------
(* AuthController. *)

Auth(handler, verb, name) == Route(handler, verb, <<"auth", name>>)

AccountRoutes == <<
    [Auth("register", "POST", "register") EXCEPT
        !.dto = RegisterDto, !.documented = {201, 400}],
    [Auth("login", "POST", "login") EXCEPT
        !.dto = LoginDto, !.code = 200, !.documented = {200, 401}],
    [Auth("verifyEmail", "POST", "verify-email") EXCEPT
        !.dto = VerifyEmailDto, !.code = 200, !.documented = {200, 401}] >>

SessionRoutes == <<
    [Auth("refreshToken", "POST", "refresh") EXCEPT
        !.guards = <<"jwt-refresh">>, !.takesUser = TRUE, !.documented = {200, 401}],
    [Own("logout", "POST", <<"auth", "logout">>) EXCEPT
        !.code = 200, !.documented = {200, 401}],
    [Auth("requestPasswordReset", "POST", "password-reset-request") EXCEPT
        !.dto = RequestPasswordResetDto, !.code = 200, !.documented = {200}],
    [Auth("resetPassword", "POST", "reset-password") EXCEPT
        !.dto = ResetPasswordDto, !.code = 200, !.documented = {200, 401}] >>

\* verify2FA takes the temporary token from the body as well.
TwoFactorRoutes == <<
    [Own("setupTwoFactor", "POST", <<"auth", "setup-2fa">>) EXCEPT
        !.code = 200, !.documented = {200}],
    [Own("initiate2FASetup", "POST", <<"auth", "initiate-2fa-setup">>) EXCEPT
        !.code = 200, !.documented = {200}],
    [Own("complete2FASetup", "POST", <<"auth", "complete-2fa-setup">>) EXCEPT
        !.dto = Setup2FADto, !.code = 200, !.documented = {200}],
    [Auth("verify2FA", "POST", "verify-2fa") EXCEPT
        !.dto = Verify2FADto, !.uses = {{"tempToken"}}, !.code = 200,
        !.documented = {200, 401}],
    [Own("disableTwoFactor", "POST", <<"auth", "disable-2fa">>) EXCEPT
        !.code = 200, !.documented = {200}] >>

\* updateUserRoles has no guard of its own; the type of its body is not a class, so the
\* pipe leaves it alone.
ProfileRoutes == <<
    Own("getMe", "GET", <<"auth", "me">>),
    [Route("updateUserRoles", "POST", <<"auth", "admin", "update-roles">>) EXCEPT
        !.roles = {"admin"}, !.documented = {200, 400}],
    [Own("deleteAccount", "DELETE", <<"auth", "account-delete">>) EXCEPT
        !.dto = DeleteAccountDto, !.documented = {200}],
    [Auth("resendVerificationEmail", "POST", "resend-verification") EXCEPT
        !.dto = ResendVerificationEmailDto, !.code = 200, !.documented = {200, 400}] >>

-----------------------------------------------------------------------------
(* MarketController, PriceController and WebSocketController. *)

MarketSearchRoutes == <<
    [Anyones("searchMarket", "GET", <<"market", "*", "search">>) EXCEPT
        !.documented = {200, 400, 500}] >>

\* MUTANT of MarketRoutes: the parameter is declared before the literal.
MarketRoutesReversed == <<
    [Anyones("getMarketData", "GET", <<"market", "*">>) EXCEPT
        !.documented = {200, 404, 500}],
    [Anyones("getTrending", "GET", <<"market", "trending">>) EXCEPT
        !.documented = {200, 500}] >>

MarketRoutes == <<
    [Anyones("getTrending", "GET", <<"market", "trending">>) EXCEPT
        !.documented = {200, 500}],
    [Anyones("getMarketData", "GET", <<"market", "*">>) EXCEPT
        !.documented = {200, 404, 500}] >>

\* MUTANT of Price: the controller does not name the RateLimitGuard.
PriceUnguarded(handler, path, rule) ==
    [Anyones(handler, "GET", <<"prices">> \o path) EXCEPT !.rule = rule]

\* @UseGuards(JwtAuthGuard, RateLimitGuard) on the controller.
Price(handler, path, rule) ==
    [Route(handler, "GET", <<"prices">> \o path) EXCEPT
        !.guards = <<"jwt", "rate-limit">>, !.rule = rule]

PriceRoutes == <<
    [Price("getPrices", <<>>, "get-prices") EXCEPT
        !.dto = GetPricesDto, !.documented = {200, 400}],
    [Price("getAssetInfo", <<"asset", "info">>, "get-asset-info") EXCEPT
        !.dto = GetAssetInfoDto, !.documented = {200, 400}],
    Price("getHistoricalPrices", <<"*", "history">>, "get-price-history"),
    Price("getMarketStats", <<"*", "stats">>, "get-stats"),
    Price("comparePrices", <<"compare">>, "compare"),
    Price("getPriceIndicators", <<"*", "indicators">>, "get-price-indicator"),
    [Price("getAvailableCryptos", <<"available">>, "get-available-cryptos") EXCEPT
        !.documented = {200}] >>

\* @Sse is a GET; the WebSocketGuard verifies the token itself.
StreamRoutes == <<
    [Route("streamPrices", "GET", <<"stream", "prices">>) EXCEPT
        !.guards = <<"web-socket">>, !.documented = {200}] >>

-----------------------------------------------------------------------------
(* PortfolioController, TransactionController, HistoricalDataController and      *)
(* CsvController.                                                                *)

Portfolio(handler, verb, path) == Own(handler, verb, <<"portfolio">> \o path)

CreatePortfolioRoutes == <<
    [Portfolio("createPortfolio", "POST", <<"create">>) EXCEPT
        !.dto = CreatePortfolioDto, !.code = 201, !.documented = {201, 400, 401}] >>

AddAssetRoutes == <<
    [Portfolio("addAssetToPortfolio", "POST", <<"*", "assets">>) EXCEPT
        !.dto = PortfolioAssetDto, !.code = 201, !.documented = {201, 404, 409}] >>

\* getPortfolioMetrics does not ask who called.
ReadPortfolioRoutes == <<
    [Portfolio("getPortfolios", "GET", <<"portfolios">>) EXCEPT !.documented = {200}],
    [Portfolio("getPortfolioById", "GET", <<"*">>) EXCEPT !.documented = {200, 404}],
    [Anyones("getPortfolioMetrics", "GET", <<"portfolio", "*", "metrics">>) EXCEPT
        !.documented = {200, 404}],
    Portfolio("getDashboardSummary", "GET", <<"dashboard", "summary">>) >>

ChangePortfolioRoutes == <<
    [Portfolio("updatePortfolio", "PATCH", <<"*">>) EXCEPT
        !.dto = UpdatePortfolioDto, !.documented = {200, 404}],
    [Portfolio("deletePortfolio", "DELETE", <<"*">>) EXCEPT
        !.code = 204, !.documented = {204, 404}],
    [Portfolio("setPrimaryPortfolio", "PATCH", <<"*", "set-primary">>) EXCEPT
        !.documented = {200, 404}] >>

\* The analytics do not ask who called either.
Analytic(handler, name) ==
    [Anyones(handler, "GET", <<"portfolio", "*", name>>) EXCEPT !.documented = {200}]

AnalyticsRoutes == <<
    Analytic("getPortfolioPerformance", "performance"),
    Analytic("getPortfolioHealth", "health"),
    Analytic("getRiskAnalysis", "risk-analysis"),
    Analytic("getCorrelationMatrix", "correlation-matrix") >>

AssetRoutes == <<
    [Portfolio("getAssetDistribution", "GET", <<"*", "assets">>) EXCEPT
        !.documented = {200}],
    [Portfolio("deleteAsset", "DELETE", <<"*", "assets", "*">>) EXCEPT
        !.code = 204, !.documented = {204, 404}] >>

CreateTransactionRoutes == <<
    [Portfolio("createTransaction", "POST", <<"*", "transaction", "create">>) EXCEPT
        !.dto = CreateTransactionDto, !.code = 201, !.documented = {201, 400, 401, 403}] >>

ReadTransactionRoutes == <<
    [Portfolio("getTransactions", "GET", <<"*", "transaction", "transactions">>) EXCEPT
        !.documented = {200, 401, 403}] >>

Historical(handler, verb, name) ==
    [Anyones(handler, verb, <<"portfolios", "*", name>>) EXCEPT !.documented = {200}]

\* Without a startDate, getPortfolioHistory subtracts 30 days from query.endDate.
HistoricalRoutes == <<
    Historical("getProfitLoss", "GET", "profitLoss"),
    [Historical("getPortfolioHistory", "GET", "history") EXCEPT
        !.dto = GetPortfolioHistoryDto, !.uses = {{"startDate"}, {"endDate"}}],
    Historical("getHistoricalValue", "GET", "historicalValue"),
    Historical("getPerformanceMetrics", "GET", "performance"),
    Historical("refreshHistoricalData", "POST", "refresh") >>

CsvRoutes == <<
    Own("importTransactions", "POST", <<"csv", "import", "*">>),
    Anyones("exportPortfolio", "GET", <<"csv", "export", "portfolio", "*">>),
    Anyones("exportTransactions", "GET", <<"csv", "export", "transactions", "*">>),
    Anyones("getTemplate", "GET", <<"csv", "template">>) >>

-----------------------------------------------------------------------------
(* WatchlistController, PriceAlertController, ExchangeAccountController and      *)
(* WalletAddressController.                                                      *)

Watchlist(handler, verb, path, status) ==
    [Own(handler, verb, <<"watchlists">> \o path) EXCEPT !.documented = {status}]

ChangeWatchlistRoutes == <<
    [Watchlist("createWatchlist", "POST", <<"create">>, 201) EXCEPT
        !.dto = CreateWatchlistDto],
    [Watchlist("updateWatchlist", "PUT", <<"*", "update">>, 200) EXCEPT
        !.dto = UpdateWatchlistDto],
    Watchlist("deleteWatchlist", "DELETE", <<"delete", "*">>, 204),
    [Watchlist("addAssetToWatchlist", "POST", <<"*", "assets">>, 200) EXCEPT
        !.dto = WatchlistAssetDto] >>

ReadWatchlistRoutes == <<
    Watchlist("removeAssetFromWatchlist", "DELETE", <<"*", "assets", "*">>, 200),
    Watchlist("getWatchlists", "GET", <<>>, 200),
    Watchlist("getWatchlistById", "GET", <<"*">>, 200),
    Watchlist("getWatchlistMetrics", "GET", <<"*", "metrics">>, 200) >>

Alert(handler, verb, path) == Own(handler, verb, <<"alerts", "price">> \o path)

AlertRoutes == <<
    [Alert("createPriceAlert", "POST", <<>>) EXCEPT
        !.dto = CreatePriceAlertDto, !.uses = {{"notification"}},
        !.documented = {201, 400, 401}],
    [Alert("getUserPriceAlerts", "GET", <<>>) EXCEPT
        !.dto = GetPriceAlertsDto, !.documented = {200, 401}],
    [Alert("updateAlertStatus", "PATCH", <<"*", "status">>) EXCEPT
        !.dto = UpdateAlertStatusDto, !.documented = {200, 400, 401, 404}],
    Anyones("processAlerts", "POST", <<"alerts", "price", "process">>),
    [Alert("deleteAlert", "DELETE", <<"*">>) EXCEPT
        !.code = 204, !.documented = {204, 403, 404}] >>

Exchange(handler, verb, path) == Own(handler, verb, <<"exchange-accounts">> \o path)

\* The synchronisation does not ask who called.
ExchangeRoutes == <<
    [Exchange("createAccount", "POST", <<"exchange">>) EXCEPT
        !.dto = CreateExchangeAccountDTO, !.documented = {201, 400}],
    [Exchange("findAllAccounts", "GET", <<"accounts">>) EXCEPT !.documented = {200}],
    [Exchange("findOneAccount", "GET", <<"*">>) EXCEPT !.documented = {200, 404}],
    [Exchange("removeAccount", "DELETE", <<"delete", "*">>) EXCEPT
        !.documented = {200, 404}],
    [Anyones("syncAccount", "POST", <<"exchange-accounts", "*", "sync">>) EXCEPT
        !.documented = {200, 404}] >>

Wallet(handler, verb, path) == Own(handler, verb, <<"wallet-addresses">> \o path)

WalletRoutes == <<
    [Wallet("createWallet", "POST", <<"create-wallet">>) EXCEPT
        !.dto = CreateWalletAddressDto, !.documented = {201, 400}],
    [Wallet("findAllWallets", "GET", <<"addresses">>) EXCEPT !.documented = {200}],
    [Wallet("removeWallet", "DELETE", <<"*">>) EXCEPT !.documented = {200, 404}] >>

-----------------------------------------------------------------------------
(* The router. *)

Routes ==
    (AccountRoutes \o SessionRoutes \o TwoFactorRoutes \o ProfileRoutes)
    \o (MarketSearchRoutes \o MarketRoutes) \o PriceRoutes \o StreamRoutes
    \o (CreatePortfolioRoutes \o AddAssetRoutes \o ReadPortfolioRoutes
        \o ChangePortfolioRoutes \o AnalyticsRoutes \o AssetRoutes
        \o CreateTransactionRoutes \o ReadTransactionRoutes)
    \o HistoricalRoutes \o CsvRoutes \o ExchangeRoutes \o WalletRoutes
    \o (ChangeWatchlistRoutes \o ReadWatchlistRoutes) \o AlertRoutes

Matches(pattern, path) ==
    /\ Len(pattern) = Len(path)
    /\ \A i \in DOMAIN path : pattern[i] \in {"*", path[i]}

\* The first route that matches answers; 0 stands for 404.
Dispatch(verb, path) ==
    SelectInSeq(Routes, LAMBDA r : r.verb = verb /\ Matches(r.path, path))

-----------------------------------------------------------------------------
(* The ValidationPipe. *)

\* new ValidationPipe({ whitelist: true, forbidNonWhitelisted: true })
Accepts(r, body) ==
    r.dto # NoDto =>
        /\ r.dto.required \subseteq body
        /\ body \subseteq r.dto.required \union r.dto.optional

\* The bodies that hold all the handler needs, and nothing else.
Sufficient(r) == {r.dto.required \union more : more \in r.uses}

-----------------------------------------------------------------------------
(* Guards and answers. *)

GuardNames == {"jwt", "jwt-refresh", "web-socket"}
\* A token that is missing, has expired or does not verify is none.
Tokens == {"none", "access", "refresh"}

\* The token each guard lets pass; a RateLimitGuard does not look at it.
Lets(guard, token) ==
    CASE guard \in {"jwt", "web-socket"} -> token = "access"
      [] guard = "jwt-refresh" -> token = "refresh"
      [] OTHER -> TRUE

Authenticates(r) == ToSet(r.guards) \intersect GuardNames # {}

\* requiredRoles.some((role) => user?.roles?.includes(role)): as a global guard it runs
\* before any that sets the user, and what sets it reports no roles.
RolesAllow(r) == r.roles = {}

\* The framework's: 201 for a POST.
DefaultStatus(verb) == IF verb = "POST" THEN 201 ELSE 200

Answered(r) == IF r.code # 0 THEN r.code ELSE DefaultStatus(r.verb)
=============================================================================

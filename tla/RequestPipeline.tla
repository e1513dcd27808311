--------------------------- MODULE RequestPipeline ---------------------------
(***************************************************************************)
(* What happens to a request between the router and its handler: the       *)
(* global RateLimitGuard, the global RolesGuard, the guards of the         *)
(* controller (on the price routes a second RateLimitGuard, by user), the  *)
(* ValidationPipe, and the handler, for concurrent requests of clients     *)
(* that share addresses and users.                                         *)
(*                                                                         *)
(* Composes ApiRoutes (the routes) and RateLimiter (the counters).         *)
(***************************************************************************)
EXTENDS ApiRoutes, RateLimiter

CONSTANTS
    Users,
    Loads         \* sequence of what the clients of a behaviour send: [calls, max], with
                  \* max the bound on the requests, and calls a set of
                  \* [handler, verb, path, ip, token, body], with handler the one meant

VARIABLES
    stage,    \* where each request is
    req,      \* the request: route, ip, token, owner of the token, user, body, and, as
              \* history, the keys on which it has been admitted
    load,     \* which of the Loads this behaviour has
    started   \* requests so far (for the bound)

vars == <<limiterVars, stage, req, load, started>>

NoUser == "nobody"

\* What paths have in a place.  No id, symbol or coin of a call is a word of its place.
Words(i) == {r.path[i] : r \in {r \in ToSet(Routes) : i \in DOMAIN r.path}}

\* A path of the route, with something else in the place of each parameter.
Fills(path, r) ==
    /\ Len(path) = Len(r.path)
    /\ \A i \in DOMAIN path : IF r.path[i] = "*" THEN path[i] \notin Words(i)
                                                ELSE path[i] = r.path[i]

ASSUME PipelineAssumption ==
    /\ NoUser \notin Users
    /\ \A i \in DOMAIN Loads :
        /\ Loads[i].max \in Nat
        /\ \A q \in Loads[i].calls :
            /\ q.token \in Tokens
            /\ q.path \in Seq(STRING)
            /\ \E r \in ToSet(Routes) :
                  r.handler = q.handler /\ r.verb = q.verb /\ Fills(q.path, r)

NoRequest == [meant |-> "none", route |-> 1, ip |-> NoUser, token |-> "none", owner |-> NoUser,
              user |-> NoUser, body |-> {}, admittedOn |-> {}]

RouteOf(w) == Routes[req[w].route]

\* `${key}:${userKey}`, with req.user?.id || req.ip.
CompositeKey(w) ==
    <<RouteOf(w).rule, IF req[w].user # NoUser THEN req[w].user ELSE req[w].ip>>

Init ==
    /\ LimiterInit
    /\ stage = [w \in Workers |-> "idle"]
    /\ req = [w \in Workers |-> NoRequest]
    /\ load \in DOMAIN Loads
    /\ started = 0

-----------------------------------------------------------------------------
Enter(w, s) == stage' = [stage EXCEPT ![w] = s]

\* The response is sent, with a status that the properties do not need.
Respond(w) ==
    /\ Enter(w, "idle")
    /\ req' = [req EXCEPT ![w] = NoRequest]

\* The router has found a route.
Arrive(w) ==
    /\ stage[w] = "idle"
    /\ started < Loads[load].max
    /\ started' = started + 1
    /\ \E q \in Loads[load].calls :
       \E owner \in IF q.token = "none" THEN {NoUser} ELSE Users :
          req' = [req EXCEPT ![w] = [meant |-> q.handler, route |-> Dispatch(q.verb, q.path),
                                     ip |-> q.ip, token |-> q.token, owner |-> owner,
                                     user |-> NoUser, body |-> q.body,
                                     admittedOn |-> {}]]
    /\ Enter(w, "limit")
    /\ UNCHANGED <<limiterVars, load>>

\* RateLimitGuard.canActivate, by address or by user.
Limit(w) ==
    /\ stage[w] \in {"limit", "limitUser"}
    /\ Consume(w, CompositeKey(w))
    /\ UNCHANGED <<stage, req, load, started>>

\* The RolesGuard (403) and the guards of the controller (401) in front of the handler.
Passes(w) ==
    /\ RolesAllow(RouteOf(w))
    /\ \A g \in ToSet(RouteOf(w).guards) : Lets(g, req[w].token)

\* What the JwtStrategy and the WebSocketGuard make of the token.
Authenticate(w) == IF Authenticates(RouteOf(w)) THEN req[w].owner ELSE NoUser

\* 429, or on to the guards that follow, and past them to the next RateLimitGuard or to
\* the pipe.
Limited(w) ==
    LET first == stage[w] = "limit"
    IN  /\ Consumed(w)
        /\ \/ /\ over[w] \/ (first /\ ~Passes(w))
              /\ Respond(w)
           \/ /\ ~over[w]
              /\ first => Passes(w)
              /\ req' = [req EXCEPT ![w].user = IF first THEN Authenticate(w) ELSE @,
                                    ![w].admittedOn = @ \union {key[w]}]
              /\ Enter(w, IF first /\ "rate-limit" \in ToSet(RouteOf(w).guards)
                          THEN "limitUser" ELSE "validate")
        /\ UNCHANGED <<load, started>>

\* The ValidationPipe, or 400.
Validate(w) ==
    /\ stage[w] = "validate"
    /\ \/ /\ Accepts(RouteOf(w), req[w].body)
          /\ Enter(w, "handle")
          /\ UNCHANGED req
       \/ /\ ~Accepts(RouteOf(w), req[w].body)
          /\ Respond(w)
    /\ UNCHANGED <<limiterVars, load, started>>

\* The parameters are resolved: CurrentUser takes the user whom a guard has set, or throws.
\* Either way there is an answer.
Handle(w) ==
    /\ stage[w] = "handle"
    /\ Respond(w)
    /\ UNCHANGED <<limiterVars, load, started>>

\* Redis or the database fails, or the process stops and clients have to ask again.
Fail(w) ==
    /\ stage[w] # "idle"
    /\ Respond(w)
    /\ \/ FailLimit(w)
       \/ pc[w] = "idle" /\ UNCHANGED limiterVars
    /\ UNCHANGED <<load, started>>

Next ==
    \/ Tick /\ UNCHANGED <<stage, req, load, started>>
    \/ \E w \in Workers :
          \/ Arrive(w) \/ Limit(w) \/ Limited(w) \/ Validate(w) \/ Handle(w)
          \/ Fail(w)

Spec == Init /\ [][Next]_vars

-----------------------------------------------------------------------------
\* The keys on which a call of the route is to be counted: by address and, if it has a
\* rule of its own, by user.
CountedOn(w) ==
    {<<RouteOf(w).rule, req[w].ip>>} \union
    (IF RouteOf(w).rule # "global" THEN {<<RouteOf(w).rule, req[w].owner>>} ELSE {})

(* No handler runs uncounted or without its user: its call is among the          *)
(* admissions of the caller's address and, on a price route, also among those of *)
(* the user, whatever addresses the user calls from (RateLimitGuard runs once as *)
(* a global guard and once after the JwtAuthGuard); and the guards that the      *)
(* decorators name suffice for CurrentUser, which would throw ("No user found on *)
(* request").                                                                    *)
HandlersAreGuarded ==
    \A w \in Workers : stage[w] = "handle" =>
        /\ req[w].admittedOn = CountedOn(w)
        /\ RouteOf(w).takesUser => /\ req[w].user = req[w].owner
                                   /\ req[w].token \in {"access", "refresh"}

\* The handlers whose documentation promises another status than they answer: they lack
\* their @HttpCode.
Misdocumented ==
    {"refreshToken", "updateUserRoles", "refreshHistoricalData", "syncAccount",
     "deleteWatchlist", "addAssetToWatchlist"}

(* A request is answered as documented: by the handler it means, whose route no  *)
(* route declared before it hides (the order of the controllers' methods and of  *)
(* the modules), and, beside those, with a status that the handler's             *)
(* @ApiResponse decorators document, if they document any.                       *)
AnswersAreDocumented ==
    \A w \in Workers : stage[w] # "idle" =>
        /\ RouteOf(w).handler = req[w].meant
        /\ \/ RouteOf(w).documented = {}
           \/ Answered(RouteOf(w)) \in RouteOf(w).documented
           \/ RouteOf(w).handler \in Misdocumented

(* "2FA verification successful", "User roles updated", "Default to last 30 days *)
(* if no dates provided": a request that has all its handler needs, and nothing  *)
(* else, is accepted by the RolesGuard and the ValidationPipe.                   *)
SufficientIsAccepted ==
    \A w \in Workers :
        stage[w] = "limit" /\ req[w].body \in Sufficient(RouteOf(w)) =>
            RolesAllow(RouteOf(w)) /\ Accepts(RouteOf(w), req[w].body)
=============================================================================

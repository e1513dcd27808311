----------------------------- MODULE RateLimiter -----------------------------
(***************************************************************************)
(* RateLimitService.consume on the keys of Redis, called by RateLimitGuard *)
(* for concurrent requests.  Each Redis command is atomic, and time passes *)
(* between commands; a tick is a second.  All keys have one rule here.     *)
(***************************************************************************)
EXTENDS Integers, Sequences

CONSTANTS
    Workers,    \* requests that may be in flight at the same time
    Points,     \* rule.points
    Duration,   \* rule.duration
    MaxCount,   \* bound: each counter, not counting the requests in flight
    MaxTime     \* bound: seconds

VARIABLES
    counter,   \* the Redis keys that exist: value and TTL
    now,       \* seconds passed
    pc,        \* what each request does next
    key,       \* the composite key it consumes: a route's key and a client
    exists,    \* what EXISTS answered it
    over,      \* does what INCR answered it exceed the points
    admitted,  \* history: when each key admitted a request, as a sequence
    disturbed  \* history: keys that expired, or on which a request failed, during one

history == <<admitted, disturbed>>
limiterVars == <<counter, now, pc, key, exists, over, history>>

ASSUME LimiterAssumption ==
    /\ Points \in Nat \ {0}
    /\ Duration \in Nat \ {0}
    /\ MaxCount \in Nat
    /\ MaxTime \in Nat

NoTTL == -1
NotCalling == <<"none", "none">>
ValueOf(k) == IF k \in DOMAIN counter THEN counter[k].value ELSE 0
TTLOf(k) == IF k \in DOMAIN counter THEN counter[k].ttl ELSE NoTTL
AdmissionsOn(k) == IF k \in DOMAIN admitted THEN admitted[k] ELSE <<>>
With(f, x, y) == [z \in DOMAIN f \union {x} |-> IF z = x THEN y ELSE f[z]]

LimiterInit ==
    /\ counter = <<>>
    /\ now = 0
    /\ pc = [w \in Workers |-> "idle"]
    /\ key = [w \in Workers |-> NotCalling]
    /\ exists = [w \in Workers |-> FALSE]
    /\ over = [w \in Workers |-> FALSE]
    /\ admitted = <<>>
    /\ disturbed = {}

-----------------------------------------------------------------------------
Goto(w, label) == pc' = [pc EXCEPT ![w] = label]

Exists(w, k) ==
    /\ pc[w] = "idle"
    /\ ValueOf(k) < MaxCount
    /\ key' = [key EXCEPT ![w] = k]
    /\ exists' = [exists EXCEPT ![w] = k \in DOMAIN counter]
    /\ Goto(w, "incr")
    /\ UNCHANGED <<counter, now, over, history>>

\* MUTANT of Exceeds
ExceedsByOne(n) == n > Points + 1

Exceeds(n) == n > Points

\* INCR keeps the TTL of a key, and creates a key without one.
Incr(w) ==
    /\ pc[w] = "incr"
    /\ LET k == key[w]
           refused == Exceeds(ValueOf(k) + 1)
       IN  /\ counter' = With(counter, k, [value |-> ValueOf(k) + 1, ttl |-> TTLOf(k)])
           /\ over' = [over EXCEPT ![w] = refused]
           /\ admitted' = IF refused THEN admitted
                          ELSE With(admitted, k, Append(AdmissionsOn(k), now))
    /\ Goto(w, IF exists[w] THEN "ttl" ELSE "expire")
    /\ UNCHANGED <<now, key, exists, disturbed>>

\* MUTANT of Expire
ExpireForgotten(w) ==
    /\ pc[w] = "expire"
    /\ Goto(w, "ttl")
    /\ UNCHANGED <<counter, now, key, exists, over, history>>

Expire(w) ==
    /\ pc[w] = "expire"
    /\ counter' = IF key[w] \in DOMAIN counter
                  THEN [counter EXCEPT ![key[w]].ttl = Duration] ELSE counter
    /\ Goto(w, "ttl")
    /\ UNCHANGED <<now, key, exists, over, history>>

\* The request has its answer, or its end: nothing of the call is remembered.
Forget(w) ==
    /\ Goto(w, "idle")
    /\ key' = [key EXCEPT ![w] = NotCalling]
    /\ exists' = [exists EXCEPT ![w] = FALSE]
    /\ over' = [over EXCEPT ![w] = FALSE]

\* The TTL is only reported: the request goes on or is refused by its count.
Consumed(w) ==
    /\ pc[w] = "ttl"
    /\ Forget(w)
    /\ UNCHANGED <<counter, now, history>>

\* A Redis command is rejected, or the process stops: what was done stays.
FailLimit(w) ==
    /\ pc[w] # "idle"
    /\ Forget(w)
    /\ disturbed' = disturbed \union {key[w]}
    /\ UNCHANGED <<counter, now, admitted>>

\* A second passes; Redis deletes the keys whose time to live is over.
Tick ==
    /\ now < MaxTime
    /\ now' = now + 1
    /\ counter' = [k \in {l \in DOMAIN counter : counter[l].ttl # 1} |->
                     IF counter[k].ttl = NoTTL THEN counter[k]
                     ELSE [counter[k] EXCEPT !.ttl = @ - 1]]
    /\ disturbed' = disturbed \union
                      {key[w] : w \in {v \in Workers : pc[v] # "idle" /\ TTLOf(key[v]) = 1}}
    /\ UNCHANGED <<pc, key, exists, over, admitted>>

\* A call on k, while it lasts; it ends with Consumed or FailLimit.
Consume(w, k) == Exists(w, k) \/ Incr(w) \/ Expire(w)

-----------------------------------------------------------------------------
\* However requests overlap, fail or straddle an expiry, any stretch of Duration seconds
\* admits less than twice the points, or, any 2 * Points admissions in a row take at least
\* Duration: a stretch sees at most the end of one counter and the beginning of the next,
\* and two beginnings are a Duration apart.
WindowBounded ==
    \A k \in DOMAIN admitted : \A i \in 1 .. Len(admitted[k]) - 2 * Points + 1 :
        admitted[k][i] + Duration <= admitted[k][i + 2 * Points - 1]

\* However requests overlap, a counter that no request is working on runs out, so that a
\* refusal is not for ever, unless one of them failed on it, or it expired while one was
\* under way.  "Rate limit exceeded. Try again in ...s" (rate-limiter.guard.ts:54).
UndisturbedRunsOut ==
    \A k \in DOMAIN counter \ disturbed :
        (\A w \in Workers : key[w] # k) => counter[k].ttl # NoTTL
=============================================================================

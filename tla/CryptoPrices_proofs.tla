------------------------- MODULE CryptoPrices_proofs -------------------------
(***************************************************************************)
(* Proofs about the prices: WebSocketFeed, and then PriceCache.            *)
(*                                                                         *)
(* The feed, for every number of attempts and errors: connections do not   *)
(* multiply faster than errors, none is lost, and until the first error    *)
(* the published state is true.                                            *)
(*                                                                         *)
(* The cache, for every number of requests, symbols and retries, all times *)
(* to live and every latency: answers are complete and recent, and a list  *)
(* fails last.  PriceInv says what each request has by then (Sound), how   *)
(* old it is (Young) and how long it may still take (Remaining), and that  *)
(* what is cached is as old as it was when it was stored and as its time   *)
(* to live has passed since (CacheInv).                                    *)
(***************************************************************************)
EXTENDS WebSocketFeed, PriceCache, FiniteSetTheorems, TLAPS

-----------------------------------------------------------------------------
(* WebSocketFeed *)

FeedType ==
    /\ sockets \in [SocketIds -> SocketState]
    /\ attempts \in Nat
    /\ timers \in Nat
    /\ errors \in Nat

NothingBeforeStart == process = "starting" => timers = 0 /\ Alive = {}

IInv == FeedType /\ NothingBeforeStart /\ OneConnectionPerError /\ KeepsTrying

-----------------------------------------------------------------------------
LEMMA AliveFinite == IsFiniteSet(Alive) /\ Cardinality(Alive) \in Nat
<1>1. IsFiniteSet(SocketIds)
  BY FeedAssumption, FS_Interval DEF SocketIds
<1>2. Alive \subseteq SocketIds
  BY DEF Alive
<1> QED
  BY <1>1, <1>2, FS_Subset, FS_CardinalityType

\* A call of handleDisconnection schedules one reconnection at most, and one at least
\* while attempts are left.
LEMMA ScheduledBound ==
  ASSUME NEW calls \in Nat, attempts \in Nat
  PROVE  /\ Scheduled(calls) \in Nat
         /\ Scheduled(calls) <= calls
         /\ calls > 0 /\ Scheduled(calls) = 0 => attempts >= MaxReconnectAttempts
<1> DEFINE granted == {i \in 0 .. calls - 1 : ShouldAttemptReconnect(attempts + i)}
<1>1. IsFiniteSet(0 .. calls - 1) /\ Cardinality(0 .. calls - 1) = calls
  BY FS_Interval
<1>2. IsFiniteSet(granted) /\ Cardinality(granted) <= Cardinality(0 .. calls - 1)
  <2>1. granted \subseteq 0 .. calls - 1
    OBVIOUS
  <2> QED
    BY <1>1, <2>1, FS_Subset
<1>3. Cardinality(granted) \in Nat
  BY <1>2, FS_CardinalityType
<1>4. calls > 0 /\ attempts < MaxReconnectAttempts => granted # {}
  <2>1. SUFFICES ASSUME calls > 0, attempts < MaxReconnectAttempts
                 PROVE  0 \in granted
    OBVIOUS
  <2> QED
    BY <2>1 DEF ShouldAttemptReconnect
<1>5. Cardinality(granted) = 0 => granted = {}
  BY <1>2, FS_EmptySet
<1>6. Scheduled(calls) = Cardinality(granted)
  BY DEF Scheduled
<1> HIDE DEF granted
<1> QED
  BY <1>1, <1>2, <1>3, <1>4, <1>5, <1>6, FeedAssumption

\* A connection that is begun adds one socket to those alive.
LEMMA InitializeAdds ==
  ASSUME FeedType, InitializeConnection
  PROVE  /\ sockets' \in [SocketIds -> SocketState]
         /\ Alive' # {}
         /\ Cardinality(Alive') \in Nat
         /\ Cardinality(Alive') = Cardinality(Alive) + 1
<1>1. PICK s \in SocketIds : /\ sockets[s] = "closed"
                             /\ sockets' = [sockets EXCEPT ![s] = "connecting"]
  BY DEF InitializeConnection
<1>2. Alive' = Alive \cup {s} /\ s \notin Alive
  BY <1>1 DEF Alive, FeedType
<1>3. sockets' \in [SocketIds -> SocketState]
  BY <1>1 DEF FeedType, SocketState
<1> QED
  BY <1>2, <1>3, AliveFinite, FS_AddElement

\* A socket that is closed is one alive less.
LEMMA ClosedRemoves ==
  ASSUME FeedType, NEW s \in SocketIds, sockets[s] # "closed", Closed(s)
  PROVE  /\ sockets' \in [SocketIds -> SocketState]
         /\ Cardinality(Alive') \in Nat
         /\ Cardinality(Alive') = Cardinality(Alive) - 1
<1>1. Alive' = Alive \ {s} /\ s \in Alive
  BY DEF Alive, FeedType, Closed
<1>2. sockets' \in [SocketIds -> SocketState]
  BY DEF FeedType, SocketState, Closed
<1>3. IsFiniteSet(Alive') /\ Cardinality(Alive') = Cardinality(Alive) - 1
  BY <1>1, AliveFinite, FS_RemoveElement
<1> QED
  BY <1>2, <1>3, FS_CardinalityType

-----------------------------------------------------------------------------
LEMMA InitIInv == Init => IInv
<1> SUFFICES ASSUME Init PROVE IInv
  OBVIOUS
<1>1. Alive = {}
  BY DEF Init, Alive
<1>2. Cardinality(Alive) = 0
  BY <1>1, FS_EmptySet
<1>3. FeedType
  BY FeedAssumption DEF Init, FeedType, SocketState
<1> QED
  BY <1>1, <1>2, <1>3 DEF Init, IInv, NothingBeforeStart, OneConnectionPerError, KeepsTrying

LEMMA NextIInv == IInv /\ [Next]_vars => IInv'
<1> SUFFICES ASSUME IInv, [Next]_vars PROVE IInv'
  OBVIOUS
<1> USE DEF IInv
<1>0. Cardinality(Alive) \in Nat /\ MaxReconnectAttempts \in Nat
  BY AliveFinite, FeedAssumption
<1>1. CASE Start
  <2>1. InitializeConnection /\ process' = "running" /\ UNCHANGED <<attempts, timers, errors>>
    BY <1>1 DEF Start
  <2>2. timers = 0 /\ Cardinality(Alive) = 0
    BY <1>1, FS_EmptySet DEF Start, NothingBeforeStart
  <2>3. sockets' \in [SocketIds -> SocketState] /\ Alive' # {} /\ Cardinality(Alive') = 1
    BY <2>1, <2>2, InitializeAdds
  <2> QED
    BY <2>1, <2>2, <2>3 DEF FeedType, NothingBeforeStart, OneConnectionPerError, KeepsTrying
<1>2. CASE TimerFires
  <2>1. /\ InitializeConnection /\ process = "running"
        /\ timers > 0 /\ timers' = timers - 1
        /\ UNCHANGED <<attempts, process, errors>>
    BY <1>2 DEF TimerFires
  <2>2. /\ sockets' \in [SocketIds -> SocketState] /\ Alive' # {}
        /\ Cardinality(Alive') = Cardinality(Alive) + 1
    BY <2>1, InitializeAdds
  <2> QED
    BY <1>0, <2>1, <2>2 DEF FeedType, NothingBeforeStart, OneConnectionPerError, KeepsTrying
<1>3. CASE Destroy
  <2>1. UNCHANGED <<attempts, timers, process, errors>>
    BY <1>3 DEF Destroy
  <2>2. sockets' \in [SocketIds -> SocketState] /\ Alive' = Alive
    BY <1>3 DEF Destroy, FeedType, SocketState, Alive
  <2> QED
    BY <2>1, <2>2 DEF FeedType, NothingBeforeStart, OneConnectionPerError, KeepsTrying
<1>4. ASSUME NEW s \in SocketIds, Opens(s) PROVE IInv'
  <2>1. /\ UNCHANGED <<timers, errors>> /\ attempts' = 0 /\ process = "running"
        /\ process' \in {"running", "crashed"}
    BY <1>4 DEF Opens, ResetAttempts, SubscribeToPriceUpdates
  <2>2. sockets' \in [SocketIds -> SocketState] /\ Alive' = Alive /\ s \in Alive
    BY <1>4 DEF Opens, FeedType, SocketState, Alive
  <2> QED
    BY <2>1, <2>2 DEF FeedType, NothingBeforeStart, OneConnectionPerError, KeepsTrying
<1>5. ASSUME NEW s \in SocketIds, FailsToConnect(s) PROVE IInv'
  <2>1. /\ sockets[s] # "closed" /\ Closed(s) /\ errors' = errors + 1
        /\ attempts' = attempts + Scheduled(2) /\ timers' = timers + Scheduled(2)
        /\ process = "running" /\ UNCHANGED process
    BY <1>5 DEF FailsToConnect, ErrorEvent, HandleDisconnection
  <2>2. /\ Scheduled(2) \in Nat /\ Scheduled(2) <= 2
        /\ Scheduled(2) = 0 => attempts >= MaxReconnectAttempts
    BY ScheduledBound DEF FeedType
  <2>3. /\ sockets' \in [SocketIds -> SocketState] /\ Cardinality(Alive') \in Nat
        /\ Cardinality(Alive') = Cardinality(Alive) - 1
    BY <2>1, ClosedRemoves
  <2> QED
    BY <1>0, <2>1, <2>2, <2>3
    DEF FeedType, NothingBeforeStart, OneConnectionPerError, KeepsTrying
<1>6. ASSUME NEW s \in SocketIds, Closes(s) PROVE IInv'
  <2>1. /\ sockets[s] # "closed" /\ Closed(s) /\ UNCHANGED <<errors, process>>
        /\ attempts' = attempts + Scheduled(1) /\ timers' = timers + Scheduled(1)
        /\ process = "running"
    BY <1>6 DEF Closes, HandleDisconnection
  <2>2. /\ Scheduled(1) \in Nat /\ Scheduled(1) <= 1
        /\ Scheduled(1) = 0 => attempts >= MaxReconnectAttempts
    BY ScheduledBound DEF FeedType
  <2>3. /\ sockets' \in [SocketIds -> SocketState] /\ Cardinality(Alive') \in Nat
        /\ Cardinality(Alive') = Cardinality(Alive) - 1
    BY <2>1, ClosedRemoves
  <2> QED
    BY <1>0, <2>1, <2>2, <2>3
    DEF FeedType, NothingBeforeStart, OneConnectionPerError, KeepsTrying
<1>7. ASSUME NEW s \in SocketIds, ProtocolError(s) PROVE IInv'
  <2>1. /\ errors' = errors + 1 /\ UNCHANGED process /\ process = "running"
        /\ attempts' = attempts + Scheduled(1) /\ timers' = timers + Scheduled(1)
    BY <1>7 DEF ProtocolError, ErrorEvent, HandleDisconnection
  <2>2. Scheduled(1) \in Nat /\ Scheduled(1) <= 1
    BY ScheduledBound DEF FeedType
  <2>3. sockets' \in [SocketIds -> SocketState] /\ Alive' = Alive /\ s \in Alive
    BY <1>7 DEF ProtocolError, FeedType, SocketState, Alive
  <2> QED
    BY <1>0, <2>1, <2>2, <2>3
    DEF FeedType, NothingBeforeStart, OneConnectionPerError, KeepsTrying
<1>8. CASE UNCHANGED vars
  <2>1. Alive' = Alive
    BY <1>8 DEF vars, Alive
  <2> QED
    BY <1>8, <2>1
    DEF vars, FeedType, NothingBeforeStart, OneConnectionPerError, KeepsTrying
<1> QED
  BY <1>1, <1>2, <1>3, <1>4, <1>5, <1>6, <1>7, <1>8 DEF Next

LEMMA Invariance == Spec => []IInv
<1> QED
  BY InitIInv, NextIInv, PTL DEF Spec

\* Whatever sockets and timers do, each error event (a refused connection or a protocol
\* error) costs at most one connection beyond the one the service wants.
THEOREM ConnectionsBounded == Spec => []OneConnectionPerError
<1>1. IInv => OneConnectionPerError
  BY DEF IInv
<1> QED
  BY <1>1, Invariance, PTL

\* A running service without a connection, and with none scheduled, has used up its
\* attempts.
THEOREM NoReconnectionLost == Spec => []KeepsTrying
<1>1. IInv => KeepsTrying
  BY DEF IInv
<1> QED
  BY <1>1, Invariance, PTL

-----------------------------------------------------------------------------
(* The state that connectionState$ publishes *)

\* Until the first error no socket but this.ws is in use, it has an interval of its own
\* until the service is destroyed, and the interval goes with it.
OwnInterval ==
    /\ Alive \subseteq {ws}
    /\ pings = IF pingTimeout THEN 1 ELSE 0
    /\ Alive = {} => ~pingTimeout

Published ==
    /\ Alive # {} => pingTimeout
    /\ \A s \in Alive : sockets[s] \in {"connecting", "open"}
    /\ state = "CONNECTED" <=> Open # {}
    /\ Open \subseteq subscribed

CurrentInv ==
    /\ IInv
    /\ completed \in BOOLEAN
    /\ pingTimeout \in BOOLEAN
    /\ errors = 0 => OwnInterval
    /\ errors = 0 /\ ~completed => Published

LEMMA InitCurrentInv == Init => CurrentInv
  BY InitIInv DEF Init, CurrentInv, OwnInterval, Published, Alive, Open

\* A connection is only begun when there is none.
LEMMA InitializeIsCurrent ==
  ASSUME CurrentInv, InitializeConnection, Alive = {}, UNCHANGED <<completed, errors>>
  PROVE  /\ pingTimeout' \in BOOLEAN
         /\ errors' = 0 => OwnInterval'
         /\ errors' = 0 /\ ~completed' => Published'
<1>1. PICK s \in SocketIds : /\ sockets' = [sockets EXCEPT ![s] = "connecting"]
                             /\ ws' = s
                             /\ subscribed' = subscribed \ {s}
  BY DEF InitializeConnection
<1>2. pings' = pings + 1 /\ pingTimeout' = TRUE
  BY DEF InitializeConnection
<1>3. Alive' = {s} /\ Open' = {} /\ sockets'[s] = "connecting"
  BY <1>1 DEF Alive, Open, CurrentInv, IInv, FeedType
<1>4. ~completed => state' = "CONNECTING"
  BY DEF InitializeConnection, Report
<1>5. errors = 0 => pings' = 1
  BY <1>2 DEF CurrentInv, OwnInterval
<1> QED
  BY <1>1, <1>2, <1>3, <1>4, <1>5 DEF OwnInterval, Published

LEMMA NextCurrentInv == CurrentInv /\ [Next]_vars => CurrentInv'
<1> SUFFICES ASSUME CurrentInv, [Next]_vars
             PROVE  CurrentInv'
  OBVIOUS
<1>1. IInv /\ IInv'
  BY NextIInv DEF CurrentInv
<1>2. sockets \in [SocketIds -> SocketState] /\ errors \in Nat /\ timers \in Nat
  BY <1>1 DEF IInv, FeedType
<1>3. CASE Start
  <2>1. InitializeConnection /\ Alive = {} /\ UNCHANGED <<completed, errors>>
    BY <1>1, <1>3 DEF Start, IInv, NothingBeforeStart
  <2> QED
    BY <1>1, <2>1, InitializeIsCurrent DEF CurrentInv
<1>4. CASE TimerFires
  <2>1. InitializeConnection /\ timers > 0 /\ UNCHANGED <<completed, errors>>
    BY <1>4 DEF TimerFires
  <2>2. CASE errors = 0
    <3>1. Cardinality(Alive) = 0
      BY <1>1, <1>2, <2>1, <2>2, AliveFinite DEF IInv, OneConnectionPerError
    <3>2. Alive = {}
      BY <3>1, AliveFinite, FS_EmptySet
    <3> QED
      BY <1>1, <2>1, <3>2, InitializeIsCurrent DEF CurrentInv
  <2>3. CASE errors # 0
    BY <1>1, <2>1, <2>3 DEF CurrentInv, InitializeConnection
  <2> QED
    BY <2>2, <2>3
<1>5. CASE Destroy
  <2>1. /\ completed' = TRUE /\ pingTimeout' = FALSE /\ UNCHANGED <<ws, errors>>
        /\ pings' = IF pingTimeout THEN pings - 1 ELSE pings
    BY <1>5 DEF Destroy, ClearPingInterval
  <2>2. Alive' \subseteq Alive
    BY <1>2, <1>5 DEF Destroy, Alive
  <2>3. completed' \in BOOLEAN
    BY <2>1
  <2>4. pingTimeout' \in BOOLEAN
    BY <2>1
  <2>5. errors' = 0 => OwnInterval'
    BY <2>1, <2>2 DEF CurrentInv, OwnInterval
  <2>6. errors' = 0 /\ ~completed' => Published'
    BY <2>1
  <2> QED
    BY <1>1, <2>3, <2>4, <2>5, <2>6 DEF CurrentInv
<1>6. ASSUME NEW s \in SocketIds, Opens(s)
      PROVE  CurrentInv'
  <2>1. /\ sockets[s] = "connecting" /\ sockets' = [sockets EXCEPT ![s] = "open"]
        /\ UNCHANGED <<completed, ws, pings, pingTimeout, errors>>
        /\ subscribed' = IF sockets'[ws] = "open" THEN subscribed \cup {ws} ELSE subscribed
        /\ state' = IF completed THEN state ELSE "CONNECTED"
    BY <1>6 DEF Opens, Report, SubscribeToPriceUpdates
  <2>2. Alive' = Alive /\ s \in Alive /\ Open' = Open \cup {s} /\ sockets'[s] = "open"
    BY <1>2, <2>1 DEF Alive, Open
  <2>3. errors = 0 => Alive = {s} /\ ws = s /\ Open' = {s}
    BY <2>2 DEF CurrentInv, OwnInterval, Alive, Open
  <2> QED
    BY <1>1, <2>1, <2>2, <2>3 DEF CurrentInv, OwnInterval, Published
<1>7. ASSUME NEW s \in SocketIds, FailsToConnect(s) \/ ProtocolError(s)
      PROVE  CurrentInv'
  <2>1. /\ errors' = errors + 1 /\ pingTimeout' = FALSE /\ UNCHANGED completed
    BY <1>7 DEF FailsToConnect, ProtocolError, ErrorEvent, HandleDisconnection,
                ClearPingInterval
  <2>2. errors' # 0
    BY <1>2, <2>1
  <2>3. completed' \in BOOLEAN
    BY <2>1 DEF CurrentInv
  <2>4. pingTimeout' \in BOOLEAN
    BY <2>1
  <2> QED
    BY <1>1, <2>2, <2>3, <2>4 DEF CurrentInv
<1>8. ASSUME NEW s \in SocketIds, Closes(s)
      PROVE  CurrentInv'
  <2>1. /\ sockets[s] \in {"open", "closing"}
        /\ sockets' = [sockets EXCEPT ![s] = "closed"]
        /\ pings' = IF pingTimeout THEN pings - 1 ELSE pings
        /\ pingTimeout' = FALSE
        /\ UNCHANGED <<completed, ws, errors>>
        /\ ~completed => state' = "DISCONNECTED"
    BY <1>8 DEF Closes, Closed, Report, HandleDisconnection, ClearPingInterval
  <2>2. Alive' = Alive \ {s} /\ s \in Alive /\ Open' = Open \ {s} /\ Open' \subseteq Alive'
    BY <1>2, <2>1 DEF Alive, Open
  <2>3. errors = 0 => Alive' = {} /\ Open' = {}
    BY <2>2 DEF CurrentInv, OwnInterval
  <2>4. completed' \in BOOLEAN
    BY <2>1 DEF CurrentInv
  <2>5. pingTimeout' \in BOOLEAN
    BY <2>1
  <2>6. errors = 0 => pings' = 0
    BY <2>1 DEF CurrentInv, OwnInterval
  <2>7. errors' = 0 => OwnInterval'
    BY <2>1, <2>3, <2>5, <2>6 DEF OwnInterval
  <2>8. errors' = 0 /\ ~completed' => Published'
    BY <2>1, <2>3 DEF Published
  <2> QED
    BY <1>1, <2>4, <2>5, <2>7, <2>8 DEF CurrentInv
<1>9. CASE UNCHANGED vars
  BY <1>1, <1>9 DEF vars, CurrentInv, OwnInterval, Published, Alive, Open
<1> QED
  BY <1>3, <1>4, <1>5, <1>6, <1>7, <1>8, <1>9 DEF Next

\* However often connections are closed and opened, until the first error the published
\* state says whether a socket is open, which has subscribed and has its one ping interval.
THEOREM TrueStatePublished == Spec => []StateIsCurrentUntilError
<1>1. CurrentInv => StateIsCurrentUntilError
  <2> SUFFICES ASSUME CurrentInv, errors = 0
               PROVE  /\ pings <= 1
                      /\ ~completed => /\ state = "CONNECTED" <=> Open # {}
                                       /\ Open \subseteq subscribed
                                       /\ state = "CONNECTED" => pings = 1
    BY DEF StateIsCurrentUntilError
  <2>1. pings <= 1
    BY DEF CurrentInv, OwnInterval
  <2>2. Open \subseteq Alive
    BY DEF Open, Alive
  <2> QED
    BY <2>1, <2>2 DEF CurrentInv, OwnInterval, Published
<1> QED
  BY <1>1, InitCurrentInv, NextCurrentInv, PTL DEF Spec

-----------------------------------------------------------------------------
(* PriceCache: what requests may find *)

Keys == Kinds \X (Symbols \union {"all"})
Value == [age : Nat, holds : SUBSET (Indicators \union {"points"})]
Stages == {"read", "fetch", "store", "done", "failed"}
Labels == {"idle", "read", "fetch", "batch", "store", "fallback", "parts", "done", "failed"}

\* How old a value may be when it is stored.
Late(kind) ==
    CASE kind \in {"search", "trending"} -> 2 * MaxLatency
      [] kind = "indicators" -> Life["hourly"] + 2 * MaxLatency - 1
      [] OTHER -> MaxLatency

CacheInv ==
    \A k \in DOMAIN cache :
        /\ k \in Keys /\ k[2] \notin Tickers
        /\ cache[k] \in [age : Nat, holds : SUBSET (Indicators \union {"points"}), ttl : Nat]
        /\ cache[k].ttl >= 1
        /\ cache[k].age + cache[k].ttl <= Life[Kind(k)] + Late(Kind(k))

\* The kind of the keys that an operation reads.
KindsOf(op) ==
    CASE op = "prices" -> {"price"}
      [] op = "available" -> {"list"}
      [] op = "history" -> {"hourly", "daily"}
      [] op = "compare" -> {"daily"}
      [] OTHER -> {op}

RequestType ==
    [op : Operations \union {"none"}, want : SUBSET Keys, names : SUBSET Indicators,
     known : BOOLEAN, tries : Nat, broken : BOOLEAN, waited : 0 .. MaxLatency]

\* A request at p that asks r, with l left, f found, g fetched and the parts q.
Shape(p, r, l, f, g, q) ==
    /\ p \in Labels
    /\ r \in RequestType
    /\ l \subseteq r.want
    /\ \A k \in DOMAIN f : f[k] \in Value
    /\ \A k \in DOMAIN g : g[k] \in Value
    /\ q = [k \in DOMAIN q |-> q[k]]
    /\ p = "idle" => l = {} /\ DOMAIN f = {} /\ DOMAIN g = {} /\ DOMAIN q = {}
    /\ \A k \in DOMAIN q : q[k] \in [stage : Stages, waited : 0 .. MaxLatency]

Asked(p, r) ==
    /\ p # "idle" => r.op \in Operations /\ r.want # {}
    /\ IsFiniteSet(r.want)
    /\ \A k \in r.want : Kind(k) \in KindsOf(r.op)
    /\ r.op \notin {"prices", "compare"} => \A k, l \in r.want : k = l
    /\ r.op = "available" => r.want = {List}
    /\ r.names # {} => r.op = "indicators"

\* One promise after another: what has been looked up, and what has been fetched.
InOrder(p, r, l, f, g) ==
    /\ p \in {"read", "fetch", "batch", "store"} => r.op \notin {"history", "compare"}
    /\ p \in {"read", "fetch", "batch", "store", "fallback"} /\ r.op # "prices" => DOMAIN f = {}
    /\ p = "read" => l # {} /\ DOMAIN f \intersect l = {}
    /\ p = "fetch" => r.op # "indicators"
    /\ p = "batch" => r.op \in {"search", "trending"}
    /\ p \in {"batch", "store"} =>
        DOMAIN g = {k \in r.want \ DOMAIN f : k[2] \notin Tickers}
    /\ p = "store" => \A k \in DOMAIN g : r.names \subseteq g[k].holds
    /\ p \in {"read", "fetch"} /\ r.op = "available" => r.tries < MaxRetries
    /\ p = "fallback" => r.op = "available" /\ (r.tries = MaxRetries \/ r.broken)

\* What is found belongs to the request.
Found(r, f) ==
    \A k \in DOMAIN f : k \in r.want /\ k[2] \notin Tickers /\ r.names \subseteq f[k].holds

\* The parts of a request.
InParts(p, r, f, g, q) ==
    /\ p = "parts" =>
        /\ r.op \in {"history", "compare", "indicators"}
        /\ r.op = "indicators" => DOMAIN f = {} /\ DOMAIN q = {<<"hourly", k[2]>> : k \in r.want}
        /\ r.op # "indicators" => DOMAIN q = r.want
        /\ \A k \in DOMAIN q : q[k].stage = "store" => k \in DOMAIN g /\ k[2] \notin Tickers
    /\ r.op \in {"history", "compare"} /\ p \in {"parts", "done"} =>
           \A k \in DOMAIN q : q[k].stage = "done" <=> k \in DOMAIN f
    /\ p = "done" /\ r.op \in {"history", "compare"} =>
        /\ DOMAIN q = r.want
        /\ \A k \in DOMAIN q : \/ q[k].stage = "done"
                               \/ q[k].stage = "failed" /\ r.op = "compare"

Whole(p, r, f) ==
    p = "done" /\ r.op \notin {"history", "compare"} =>
        \A k \in r.want : k \in DOMAIN f \/ k[2] \in Tickers

(* Ages *)

KindOf(r) == Kind(CHOOSE k \in r.want : TRUE)

\* How long a part may still take.
Remaining(a) ==
    CASE a.stage = "read" -> 3 * MaxLatency - a.waited
      [] a.stage = "fetch" -> 2 * MaxLatency - a.waited
      [] a.stage = "store" -> MaxLatency - a.waited
      [] OTHER -> 0

Running(a) == a.stage \in {"read", "fetch", "store"}

\* How old a value may be when the request begins its current step.
AgeAt(p, r, l) ==
    CASE p = "read" -> Life[KindOf(r)] + MaxLatency * Cardinality(r.want \ l)
      [] p = "fetch" -> Life[KindOf(r)] + MaxLatency * Cardinality(r.want)
      [] p = "store" -> Life[KindOf(r)] + MaxLatency * (Cardinality(r.want) + 1)
      [] p = "done" /\ r.op = "indicators" -> Life["hourly"] + Life[KindOf(r)] + 2 * MaxLatency
      [] p = "done" /\ r.op \in {"history", "compare"} -> Life[KindOf(r)] + 4 * MaxLatency
      [] OTHER -> Life[KindOf(r)] + MaxLatency * (Cardinality(r.want) + 2)

Young(p, r, l, f, g, q) ==
    /\ p \in {"read", "fetch", "store", "done"} =>
        \A k \in DOMAIN f : f[k].age < AgeAt(p, r, l) + r.waited
    /\ p = "batch" => \A k \in DOMAIN g : g[k].age <= r.waited
    /\ p = "store" => \A k \in DOMAIN g : g[k].age <= Late(KindOf(r)) - MaxLatency + r.waited
    /\ p = "parts" =>
        /\ \A k \in DOMAIN q : q[k].stage = "store" => g[k].age <= q[k].waited
        /\ \A k \in DOMAIN f, j \in DOMAIN q : Running(q[j]) =>
              f[k].age + Remaining(q[j]) < Life[KindOf(r)] + 4 * MaxLatency

Sound(p, r, l, f, g, q) ==
    /\ Shape(p, r, l, f, g, q)
    /\ Asked(p, r)
    /\ InOrder(p, r, l, f, g)
    /\ Found(r, f)
    /\ InParts(p, r, f, g, q)
    /\ Whole(p, r, f)
    /\ Young(p, r, l, f, g, q)

\* What EXCEPT needs to know of the variables.
Arrays ==
    /\ pc = [w \in Workers |-> pc[w]]
    /\ req = [w \in Workers |-> req[w]]
    /\ left = [w \in Workers |-> left[w]]
    /\ found = [w \in Workers |-> found[w]]
    /\ fetched = [w \in Workers |-> fetched[w]]
    /\ part = [w \in Workers |-> part[w]]

SoundAt(w) == Sound(pc[w], req[w], left[w], found[w], fetched[w], part[w])

PriceInv ==
    /\ load \in Loads
    /\ CacheInv
    /\ Arrays
    /\ \A w \in Workers : SoundAt(w)

-----------------------------------------------------------------------------
LEMMA Overlay ==
  ASSUME NEW f, NEW g
  PROVE  /\ DOMAIN Over(f, g) = DOMAIN f \union DOMAIN g
         /\ \A x \in DOMAIN f : Over(f, g)[x] = f[x]
         /\ \A x \in DOMAIN g \ DOMAIN f : Over(f, g)[x] = g[x]
BY DEF Over

LEMMA OneOver ==
  ASSUME NEW k, NEW v, NEW g
  PROVE  /\ DOMAIN Over(Only(k, v), g) = DOMAIN g \union {k}
         /\ Over(Only(k, v), g)[k] = v
         /\ \A x \in DOMAIN g \ {k} : Over(Only(k, v), g)[x] = g[x]
         /\ DOMAIN Only(k, v) = {k} /\ Only(k, v)[k] = v
BY DEF Over, Only

LEMMA LifeType == \A kind \in Kinds : Life[kind] \in Nat /\ Life[kind] >= 1
BY CacheAssumption

LEMMA LateType ==
  ASSUME NEW kind \in Kinds
  PROVE  Late(kind) \in Nat /\ Late(kind) >= MaxLatency
<1>1. Life["hourly"] \in Nat /\ Life["hourly"] >= 1
  BY LifeType DEF Kinds
<1> QED
  BY <1>1, CacheAssumption DEF Late

\* A request of one worker does not disturb the others.
LEMMA OneSteps ==
  ASSUME PriceInv, NEW w \in Workers, NEW p, NEW r, NEW l, NEW f, NEW g, NEW q,
         pc' = [pc EXCEPT ![w] = p],
         req' = [req EXCEPT ![w] = r],
         left' = [left EXCEPT ![w] = l],
         found' = [found EXCEPT ![w] = f],
         fetched' = [fetched EXCEPT ![w] = g],
         part' = [part EXCEPT ![w] = q],
         load' = load,
         CacheInv',
         Sound(p, r, l, f, g, q)
  PROVE  PriceInv'
<1>1. Arrays'
  BY DEF PriceInv, Arrays
<1>2. ASSUME NEW v \in Workers
      PROVE  SoundAt(v)'
  <2>1. CASE v = w
    <3>1. /\ pc'[v] = p /\ req'[v] = r /\ left'[v] = l
          /\ found'[v] = f /\ fetched'[v] = g /\ part'[v] = q
      BY <2>1 DEF PriceInv, Arrays
    <3> QED
      BY <3>1 DEF SoundAt
  <2>2. CASE v # w
    <3>1. /\ pc'[v] = pc[v] /\ req'[v] = req[v] /\ left'[v] = left[v]
          /\ found'[v] = found[v] /\ fetched'[v] = fetched[v] /\ part'[v] = part[v]
      BY <2>2 DEF PriceInv, Arrays
    <3> QED
      BY <3>1 DEF SoundAt, PriceInv
  <2> QED
    BY <2>1, <2>2
<1> QED
  BY <1>1, <1>2 DEF PriceInv

\* What is stored.
LEMMA StoredFits ==
  ASSUME CacheInv, NEW g,
         \A k \in DOMAIN g : /\ k \in Keys /\ k[2] \notin Tickers
                             /\ g[k] \in Value
                             /\ g[k].age <= Late(Kind(k)),
         cache' = Stored(g)
  PROVE  CacheInv'
<1> DEFINE new == [k \in DOMAIN g |-> Entry(k, g[k])]
<1>1. cache' = Over(new, cache)
  BY DEF Stored
<1>2. /\ DOMAIN cache' = DOMAIN new \union DOMAIN cache
      /\ \A k \in DOMAIN new : cache'[k] = new[k]
      /\ \A k \in DOMAIN cache \ DOMAIN new : cache'[k] = cache[k]
  BY <1>1 DEF Over
<1>3. DOMAIN new = DOMAIN g /\ \A k \in DOMAIN g : new[k] = Entry(k, g[k])
  OBVIOUS
<1> HIDE DEF new
<1>4. ASSUME NEW k \in DOMAIN g
      PROVE  /\ Entry(k, g[k]) \in
                    [age : Nat, holds : SUBSET (Indicators \union {"points"}), ttl : Nat]
             /\ Entry(k, g[k]).ttl >= 1
             /\ Entry(k, g[k]).age + Entry(k, g[k]).ttl <= Life[Kind(k)] + Late(Kind(k))
  <2>1. Kind(k) \in Kinds
    BY DEF Keys, Kind
  <2>2. Late(Kind(k)) \in Nat /\ Life[Kind(k)] \in Nat /\ Life[Kind(k)] >= 1
    BY <2>1, LateType, LifeType
  <2>3. /\ g[k].age \in Nat /\ g[k].holds \in SUBSET (Indicators \union {"points"})
        /\ g[k].age <= Late(Kind(k))
    BY DEF Value
  <2> QED
    BY <2>2, <2>3 DEF Entry
<1> QED
  BY <1>2, <1>3, <1>4 DEF CacheInv

\* What is read.
LEMMA CachedFits ==
  ASSUME CacheInv, NEW k \in DOMAIN cache
  PROVE  /\ k \in Keys /\ k[2] \notin Tickers /\ Kind(k) \in Kinds
         /\ Cached(k) \in Value /\ Cached(k).holds = cache[k].holds
         /\ Cached(k).age < Life[Kind(k)] + Late(Kind(k))
<1>1. k \in Keys /\ k[2] \notin Tickers /\ Kind(k) \in Kinds
  BY DEF CacheInv, Keys, Kind
<1>2. Late(Kind(k)) \in Nat /\ Life[Kind(k)] \in Nat
  BY <1>1, LateType, LifeType
<1> QED
  BY <1>1, <1>2 DEF CacheInv, Cached, Value

\* The steps of a request keep most of it.
Same(s, r) ==
    /\ s \in RequestType
    /\ s.op = r.op /\ s.want = r.want /\ s.names = r.names

LEMMA Waits ==
  ASSUME NEW r \in RequestType, NEW n \in 0 .. MaxLatency
  PROVE  \A s : s = [r EXCEPT !.waited = n] =>
            Same(s, r) /\ s.tries = r.tries /\ s.broken = r.broken /\ s.waited = n
BY DEF RequestType, Same

LEMMA SameKind ==
  ASSUME NEW r, NEW s, Same(s, r)
  PROVE  KindOf(s) = KindOf(r)
BY DEF Same, KindOf

-----------------------------------------------------------------------------
\* A request that begins has found nothing.
LEMMA RequestKeepsInv ==
  ASSUME PriceInv, NEW w \in Workers, NEW o \in Operations, NEW keys \in SUBSET Keys,
         NEW names \in SUBSET Indicators, NEW known \in BOOLEAN,
         Request(w, o, keys, names, known),
         Asked("read", AnyRequest(o, keys, names, known))
  PROVE  PriceInv'
<1> DEFINE r == AnyRequest(o, keys, names, known)
<1>1. /\ pc[w] = "idle"
      /\ req' = [req EXCEPT ![w] = r]
      /\ UNCHANGED <<cache, load, found, fetched>>
  BY DEF Request
<1>2. /\ r \in RequestType
      /\ r.op = o /\ r.want = keys /\ r.names = names /\ r.tries = 0 /\ r.waited = 0
  BY CacheAssumption DEF RequestType, AnyRequest
<1>3. DOMAIN found[w] = {} /\ DOMAIN fetched[w] = {} /\ DOMAIN part[w] = {}
  BY <1>1 DEF PriceInv, SoundAt, Sound, Shape
<1>4. /\ found' = [found EXCEPT ![w] = found[w]]
      /\ fetched' = [fetched EXCEPT ![w] = fetched[w]]
      /\ CacheInv'
  BY <1>1 DEF PriceInv, Arrays, CacheInv
<1>5. Asked("read", r)
  OBVIOUS
<1> HIDE DEF r
<1>6. CASE o \in {"history", "compare"}
  <2> DEFINE q == PartsFor(keys)
  <2>1. /\ part' = [part EXCEPT ![w] = q]
        /\ pc' = [pc EXCEPT ![w] = "parts"]
        /\ left' = [left EXCEPT ![w] = left[w]]
    BY <1>6 DEF Request, PriceInv, Arrays
  <2>2. /\ q = [k \in DOMAIN q |-> q[k]] /\ DOMAIN q = keys
        /\ \A k \in DOMAIN q : /\ q[k] \in [stage : Stages, waited : 0 .. MaxLatency]
                               /\ q[k].stage = "read"
    BY CacheAssumption DEF PartsFor, Stages
  <2> HIDE DEF q
  <2>3. left[w] = {}
    BY <1>1 DEF PriceInv, SoundAt, Sound, Shape
  <2>4. Shape("parts", r, left[w], found[w], fetched[w], q)
    BY <1>2, <1>3, <2>2, <2>3 DEF Shape, Labels
  <2>5. Sound("parts", r, left[w], found[w], fetched[w], q)
    BY <1>2, <1>3, <1>5, <1>6, <2>2, <2>4
       DEF Sound, Asked, InOrder, Found, InParts, Whole, Young
  <2> QED
    BY <1>1, <1>4, <2>1, <2>5, OneSteps
<1>7. CASE o \notin {"history", "compare"}
  <2>1. /\ part' = [part EXCEPT ![w] = part[w]]
        /\ pc' = [pc EXCEPT ![w] = "read"]
        /\ left' = [left EXCEPT ![w] = keys]
    BY <1>7 DEF Request, PriceInv, Arrays
  <2>2. Shape("read", r, keys, found[w], fetched[w], part[w])
    BY <1>1, <1>2, <1>3 DEF PriceInv, SoundAt, Sound, Shape, Labels
  <2>3. keys # {} /\ (o = "available" => 0 < MaxRetries)
    BY <1>2, <1>5, CacheAssumption DEF Asked
  <2>4. Sound("read", r, keys, found[w], fetched[w], part[w])
    BY <1>2, <1>3, <1>5, <1>7, <2>2, <2>3
       DEF Sound, InOrder, Found, InParts, Whole, Young
  <2> QED
    BY <1>1, <1>4, <2>1, <2>4, OneSteps
<1> QED
  BY <1>6, <1>7

\* Of the keys that operations ask for.
LEMMA KeyFacts ==
  ASSUME NEW kind \in Kinds, NEW S \in SUBSET (Symbols \union {"all"})
  PROVE  /\ {kind} \X S \in SUBSET Keys
         /\ IsFiniteSet({kind} \X S)
         /\ S # {} => {kind} \X S # {}
         /\ \A k \in {kind} \X S : Kind(k) = kind
<1>1. IsFiniteSet(Symbols \union {"all"})
  BY CacheAssumption, FS_AddElement
<1>2. IsFiniteSet(S)
  BY <1>1, FS_Subset
<1>3. IsFiniteSet({kind} \X S)
  BY <1>2, FS_Product, FS_Singleton
<1>4. \A k \in {kind} \X S : k \in Keys /\ Kind(k) = kind
  BY DEF Keys, Kind
<1>5. \A s \in S : <<kind, s>> \in {kind} \X S
  OBVIOUS
<1> QED
  BY <1>3, <1>4, <1>5

LEMMA OneKey ==
  ASSUME NEW kind \in Kinds, NEW s \in Symbols \union {"all"}
  PROVE  /\ {<<kind, s>>} \in SUBSET Keys
         /\ IsFiniteSet({<<kind, s>>})
         /\ Kind(<<kind, s>>) = kind
BY FS_Singleton DEF Keys, Kind

LEMMA OneKeyKeepsInv ==
  ASSUME PriceInv, NEW w \in Workers, NEW o \in Operations \ {"prices", "compare"},
         NEW kind \in Kinds, NEW s \in Symbols \union {"all"}, kind \in KindsOf(o),
         o = "available" => <<kind, s>> = List,
         NEW names \in SUBSET Indicators, names # {} => o = "indicators",
         NEW known \in BOOLEAN,
         Request(w, o, {<<kind, s>>}, names, known)
  PROVE  PriceInv'
<1> DEFINE keys == {<<kind, s>>}
<1>1. /\ keys \in SUBSET Keys /\ IsFiniteSet(keys) /\ keys # {}
      /\ \A k \in keys : Kind(k) \in KindsOf(o)
      /\ \A k, l \in keys : k = l
      /\ o = "available" => keys = {List}
  BY OneKey
<1> HIDE DEF keys
<1>2. Asked("read", AnyRequest(o, keys, names, known))
  BY <1>1 DEF Asked, AnyRequest
<1>3. Request(w, o, keys, names, known)
  BY DEF keys
<1> QED
  BY <1>1, <1>2, <1>3, RequestKeepsInv

LEMMA ManyKeysKeepInv ==
  ASSUME PriceInv, NEW w \in Workers,
         NEW o, NEW kind,
         (o = "prices" /\ kind = "price") \/ (o = "compare" /\ kind = "daily"),
         NEW S \in SUBSET Symbols, S # {},
         Request(w, o, {kind} \X S, {}, TRUE)
  PROVE  PriceInv'
<1> DEFINE keys == {kind} \X S
<1>1. /\ keys \in SUBSET Keys /\ IsFiniteSet(keys) /\ keys # {}
      /\ \A k \in keys : Kind(k) = kind
  <2>1. kind \in Kinds /\ S \in SUBSET (Symbols \union {"all"})
    BY DEF Kinds
  <2> QED
    BY <2>1, KeyFacts
<1>2. Request(w, o, keys, {}, TRUE)
  OBVIOUS
<1> HIDE DEF keys
<1>3. o \in Operations /\ kind \in KindsOf(o)
  BY DEF Operations, KindsOf
<1>4. Asked("read", AnyRequest(o, keys, {}, TRUE))
  BY <1>1, <1>3 DEF Asked, AnyRequest
<1> QED
  BY <1>1, <1>2, <1>3, <1>4, RequestKeepsInv

LEMMA Truth ==
  ASSUME NEW s, NEW S
  PROVE  \E known \in BOOLEAN : known = (s \in S)
<1>1. CASE s \in S
  <2>1. (s \in S) = TRUE
    BY <1>1
  <2> QED
    BY <2>1, Zenon
<1>2. CASE s \notin S
  <2>1. (s \in S) = FALSE
    BY <1>2
  <2> QED
    BY <2>1, Zenon
<1> QED
  BY <1>1, <1>2

LEMMA ClientsKeepInv ==
  ASSUME PriceInv, NEW w \in Workers,
         \/ GetPrices(w) \/ GetAvailableCryptos(w) \/ GetAssetInfo(w)
         \/ GetMarketStats(w) \/ GetMarketData(w) \/ SearchMarket(w) \/ GetTrending(w)
         \/ GetHistoricalPrices(w) \/ ComparePrices(w) \/ GetPriceIndicators(w)
  PROVE  PriceInv'
<1>1. load.symbols \in SUBSET Symbols
  BY CacheAssumption DEF PriceInv
<1>2. CASE GetPrices(w)
  <2>1. PICK S \in (SUBSET load.symbols) \ {{}} : Request(w, "prices", {"price"} \X S, {}, TRUE)
    BY <1>2 DEF GetPrices
  <2>2. S \in SUBSET Symbols /\ S # {}
    BY <1>1
  <2> QED
    BY <2>1, <2>2, ManyKeysKeepInv
<1>3. CASE ComparePrices(w)
  <2>1. PICK S \in (SUBSET load.symbols) \ {{}} : Request(w, "compare", {"daily"} \X S, {}, TRUE)
    BY <1>3 DEF ComparePrices
  <2>2. S \in SUBSET Symbols /\ S # {}
    BY <1>1
  <2> QED
    BY <2>1, <2>2, ManyKeysKeepInv
<1>4. CASE GetAvailableCryptos(w)
  BY <1>4, OneKeyKeepsInv DEF GetAvailableCryptos, List, Operations, Kinds, KindsOf
<1>5. CASE SearchMarket(w)
  BY <1>5, OneKeyKeepsInv DEF SearchMarket, Operations, Kinds, KindsOf
<1>6. CASE GetTrending(w)
  BY <1>6, OneKeyKeepsInv DEF GetTrending, Operations, Kinds, KindsOf
<1>7. CASE GetAssetInfo(w)
  <2>1. PICK s \in load.symbols :
          Request(w, "info", {<<"info", IF s \in Tickers THEN coinGeckoIdMap[s] ELSE s>>}, {},
                  s \in Ids)
    BY <1>7 DEF GetAssetInfo
  <2>2. PICK id : id = IF s \in Tickers THEN coinGeckoIdMap[s] ELSE s
    OBVIOUS
  <2>3. id \in Symbols
    BY <1>1, <2>2, CacheAssumption DEF Symbols
  <2>4. PICK known \in BOOLEAN : known = (s \in Ids)
    BY Truth
  <2>5. Request(w, "info", {<<"info", id>>}, {}, known)
    BY <2>1, <2>2, <2>4
  <2>6. "info" \in Operations \ {"prices", "compare"} /\ "info" \in Kinds
        /\ "info" \in KindsOf("info")
    BY DEF Operations, Kinds, KindsOf
  <2> QED
    BY <2>3, <2>5, <2>6, OneKeyKeepsInv
<1>8. CASE GetMarketStats(w)
  <2>1. PICK s \in load.symbols : Request(w, "stats", {<<"stats", s>>}, {}, s \in Ids)
    BY <1>8 DEF GetMarketStats
  <2>2. PICK known \in BOOLEAN : known = (s \in Ids)
    BY Truth
  <2>3. Request(w, "stats", {<<"stats", s>>}, {}, known)
    BY <2>1, <2>2
  <2> QED
    BY <1>1, <2>3, OneKeyKeepsInv DEF Operations, Kinds, KindsOf
<1>9. CASE GetMarketData(w)
  <2>1. PICK s \in load.symbols : Request(w, "market", {<<"market", s>>}, {}, s \in Ids)
    BY <1>9 DEF GetMarketData
  <2>2. PICK known \in BOOLEAN : known = (s \in Ids)
    BY Truth
  <2>3. Request(w, "market", {<<"market", s>>}, {}, known)
    BY <2>1, <2>2
  <2> QED
    BY <1>1, <2>3, OneKeyKeepsInv DEF Operations, Kinds, KindsOf
<1>10. CASE GetHistoricalPrices(w)
  <2>1. PICK s \in load.symbols, interval \in {"hourly", "daily"} :
          Request(w, "history", {<<interval, s>>}, {}, TRUE)
    BY <1>10 DEF GetHistoricalPrices
  <2> QED
    BY <1>1, <2>1, OneKeyKeepsInv DEF Operations, Kinds, KindsOf
<1>11. CASE GetPriceIndicators(w)
  <2>1. PICK s \in load.symbols, names \in (SUBSET Indicators) \ {{}} :
          Request(w, "indicators", {<<"indicators", s>>}, names, TRUE)
    BY <1>11 DEF GetPriceIndicators
  <2> QED
    BY <1>1, <2>1, OneKeyKeepsInv DEF Operations, Kinds, KindsOf
<1> QED
  BY <1>2, <1>3, <1>4, <1>5, <1>6, <1>7, <1>8, <1>9, <1>10, <1>11

-----------------------------------------------------------------------------
(* One promise after another *)

\* What a request is like before a step, by names that the step does not change.
LEMMA Here ==
  ASSUME PriceInv, NEW w \in Workers
  PROVE  /\ req[w] \in RequestType
         /\ \E p, l, f, g, q : /\ pc[w] = p /\ left[w] = l /\ found[w] = f
                              /\ fetched[w] = g /\ part[w] = q
                              /\ Sound(p, req[w], l, f, g, q)
<1>1. SoundAt(w)
  BY DEF PriceInv
<1> QED
  BY <1>1 DEF SoundAt, Sound, Shape

\* The variables that a step leaves alone.
LEMMA Untouched ==
  ASSUME PriceInv, NEW w \in Workers
  PROVE  /\ pc = [pc EXCEPT ![w] = pc[w]]
         /\ req = [req EXCEPT ![w] = req[w]]
         /\ left = [left EXCEPT ![w] = left[w]]
         /\ found = [found EXCEPT ![w] = found[w]]
         /\ fetched = [fetched EXCEPT ![w] = fetched[w]]
         /\ part = [part EXCEPT ![w] = part[w]]
         /\ (cache' = cache => CacheInv')
BY DEF PriceInv, Arrays, CacheInv

LEMMA KindIs ==
  ASSUME NEW p, NEW r \in RequestType, p # "idle", Asked(p, r)
  PROVE  /\ r.op \in Operations
         /\ KindOf(r) \in Kinds
         /\ \A k \in r.want : Kind(k) = KindOf(r)
<1>1. r.op \in Operations /\ r.want # {} /\ r.want \in SUBSET Keys
  BY DEF Asked, RequestType
<1>2. PICK c \in r.want : c = CHOOSE k \in r.want : TRUE
  BY <1>1
<1>3. KindOf(r) = Kind(c)
  BY <1>2 DEF KindOf
<1>4. Kind(c) \in Kinds
  BY <1>1 DEF Keys, Kind
<1>5. ASSUME NEW k \in r.want
      PROVE  Kind(k) = Kind(c)
  <2>1. CASE r.op \in {"prices", "compare"}
    <3>1. Kind(k) \in KindsOf(r.op) /\ Kind(c) \in KindsOf(r.op)
      BY DEF Asked
    <3> QED
      BY <2>1, <3>1 DEF KindsOf
  <2>2. CASE r.op \notin {"prices", "compare"}
    BY <2>2 DEF Asked
  <2> QED
    BY <2>1, <2>2
<1> QED
  BY <1>1, <1>3, <1>4, <1>5

LEMMA Reckon ==
  ASSUME NEW n \in Nat
  PROVE  /\ MaxLatency * n \in Nat
         /\ MaxLatency * (n + 1) = MaxLatency * n + MaxLatency
         /\ MaxLatency * (n + 2) = MaxLatency * n + 2 * MaxLatency
         /\ MaxLatency * (n + 3) = MaxLatency * n + 3 * MaxLatency
BY CacheAssumption

LEMMA OneMore ==
  ASSUME NEW S, IsFiniteSet(S), NEW L \in SUBSET S, NEW k \in L
  PROVE  /\ Cardinality(S \ L) \in Nat
         /\ Cardinality(S \ (L \ {k})) = Cardinality(S \ L) + 1
<1>1. IsFiniteSet(S \ L)
  BY FS_Subset
<1>2. S \ (L \ {k}) = (S \ L) \union {k} /\ k \notin S \ L
  OBVIOUS
<1> QED
  BY <1>1, <1>2, FS_AddElement, FS_CardinalityType

\* How old an answer may be, as a number.
LEMMA AgesType ==
  ASSUME NEW p, NEW r \in RequestType, p # "idle", Asked(p, r), NEW l \in SUBSET r.want
  PROVE  /\ Life[KindOf(r)] \in Nat /\ Life["hourly"] \in Nat
         /\ Cardinality(r.want) \in Nat /\ Cardinality(r.want \ l) \in Nat
         /\ AgeAt(p, r, l) \in Nat
<1>1. Life[KindOf(r)] \in Nat /\ Life["hourly"] \in Nat
  BY KindIs, LifeType DEF Kinds
<1>2. Cardinality(r.want) \in Nat /\ Cardinality(r.want \ l) \in Nat
  BY FS_Subset, FS_CardinalityType DEF Asked
<1>3. /\ MaxLatency * Cardinality(r.want) \in Nat
      /\ MaxLatency * Cardinality(r.want \ l) \in Nat
      /\ MaxLatency * (Cardinality(r.want) + 1) \in Nat
      /\ MaxLatency * (Cardinality(r.want) + 2) \in Nat
  BY <1>2, CacheAssumption
<1> QED
  BY <1>1, <1>2, <1>3, CacheAssumption DEF AgeAt

\* What a look-up finds is younger than it may be afterwards.
LEMMA HitIsYoung ==
  ASSUME CacheInv, NEW r \in RequestType, Asked("read", r),
         r.op \notin {"history", "compare"},
         NEW l \in SUBSET r.want, NEW k \in l, k \in DOMAIN cache
  PROVE  /\ Cached(k).age < AgeAt("done", r, l \ {k})
         /\ r.op = "prices" => Cached(k).age < AgeAt("read", r, l \ {k})
<1> DEFINE n == Cardinality(r.want \ l)
           c == Cardinality(r.want)
<1>1. KindOf(r) \in Kinds /\ Kind(k) = KindOf(r) /\ Kind(k) \in KindsOf(r.op)
  BY KindIs DEF Asked
<1>2. Cached(k).age \in Nat /\ Cached(k).age < Life[KindOf(r)] + Late(KindOf(r))
  BY <1>1, CachedFits DEF Value
<1>3. n \in Nat /\ c \in Nat /\ Cardinality(r.want \ (l \ {k})) = n + 1
      /\ Life[KindOf(r)] \in Nat /\ Life["hourly"] \in Nat
  BY OneMore, AgesType DEF Asked
<1>4. /\ MaxLatency * (n + 1) = MaxLatency * n + MaxLatency /\ MaxLatency * n \in Nat
      /\ MaxLatency * (c + 2) = MaxLatency * c + 2 * MaxLatency /\ MaxLatency * c \in Nat
  BY <1>3, Reckon
<1>5. AgeAt("read", r, l \ {k}) = Life[KindOf(r)] + MaxLatency * (n + 1)
  BY <1>3 DEF AgeAt
<1>6. /\ r.op = "indicators" =>
            AgeAt("done", r, l \ {k}) = Life["hourly"] + Life[KindOf(r)] + 2 * MaxLatency
      /\ r.op # "indicators" =>
            AgeAt("done", r, l \ {k}) = Life[KindOf(r)] + MaxLatency * (c + 2)
  BY DEF AgeAt
<1>7. /\ r.op = "prices" => Late(KindOf(r)) = MaxLatency
      /\ r.op = "indicators" => Late(KindOf(r)) = Life["hourly"] + 2 * MaxLatency - 1
      /\ r.op # "indicators" => Late(KindOf(r)) \in {MaxLatency, 2 * MaxLatency}
  BY <1>1 DEF Late, KindsOf
<1> HIDE DEF n, c
<1> QED
  BY <1>2, <1>3, <1>4, <1>5, <1>6, <1>7, CacheAssumption

LEMMA ReadKeepsInv ==
  ASSUME PriceInv, NEW w \in Workers, Read(w)
  PROVE  PriceInv'
<1>0. PICK r \in RequestType : req[w] = r
  BY Here
<1>1. PICK p, l, f, g, q :
            /\ pc[w] = p /\ req[w] = r /\ left[w] = l
            /\ found[w] = f /\ fetched[w] = g /\ part[w] = q
            /\ Sound(p, r, l, f, g, q)
  BY <1>0, Here
<1>2. PICK k \in l :
        /\ left' = [left EXCEPT ![w] = l \ {k}]
        /\ found' = [found EXCEPT ![w] =
                       IF k \in Hits(w) THEN Over(Only(k, Cached(k)), f) ELSE f]
        /\ Goto(w, IF left'[w] # {} THEN "read"
                   ELSE IF DOMAIN found'[w] = r.want THEN "done"
                   ELSE IF r.op = "indicators" THEN "parts" ELSE "fetch")
        /\ part' = IF pc'[w] = "parts"
                     THEN [part EXCEPT ![w] = PartsFor({<<"hourly", k[2]>>})] ELSE part
  BY <1>1 DEF Read, PriceInv, Arrays
<1>3. p = "read" /\ l \in SUBSET r.want /\ Asked("read", r)
      /\ r.op \notin {"history", "compare"}
  BY <1>1 DEF Read, Sound, Shape, InOrder
<1>4. PICK m : m = l \ {k}
  OBVIOUS
<1>5. PICK nf : nf = IF k \in Hits(w) THEN Over(Only(k, Cached(k)), f) ELSE f
  OBVIOUS
<1>6. PICK s : s = [r EXCEPT !.waited = 0]
  OBVIOUS
<1>7. PICK np : np = IF m # {} THEN "read"
                       ELSE IF DOMAIN nf = r.want THEN "done"
                       ELSE IF r.op = "indicators" THEN "parts" ELSE "fetch"
  OBVIOUS
<1>8. PICK nq : nq = IF np = "parts" THEN PartsFor({<<"hourly", k[2]>>}) ELSE q
  OBVIOUS
<1>9. left' = [left EXCEPT ![w] = m] /\ found' = [found EXCEPT ![w] = nf]
      /\ left'[w] = m /\ found'[w] = nf
  BY <1>2, <1>4, <1>5 DEF PriceInv, Arrays
<1>10. pc' = [pc EXCEPT ![w] = np] /\ req' = [req EXCEPT ![w] = s] /\ pc'[w] = np
  BY <1>1, <1>2, <1>6, <1>7, <1>9 DEF Goto, PriceInv, Arrays
<1>11. part' = [part EXCEPT ![w] = nq]
  BY <1>1, <1>2, <1>8, <1>10, Untouched
<1>12. fetched' = [fetched EXCEPT ![w] = g] /\ CacheInv' /\ load' = load
  BY <1>1, Untouched DEF Read
<1>13. Same(s, r) /\ s.tries = r.tries /\ s.broken = r.broken /\ s.waited = 0
  BY <1>6, Waits, CacheAssumption
<1>14. KindOf(s) = KindOf(r)
  BY <1>13, SameKind
<1>15. CacheInv
  BY DEF PriceInv
<1>16. /\ DOMAIN nf \subseteq DOMAIN f \union {k} /\ DOMAIN f \subseteq DOMAIN nf
       /\ \A x \in DOMAIN nf :
            \/ x \in DOMAIN f /\ x # k /\ nf[x] = f[x]
            \/ x = k /\ k \in DOMAIN cache /\ nf[x] = Cached(k) /\ r.names \subseteq Cached(k).holds
  <2>1. k \notin DOMAIN f
    BY <1>1, <1>3 DEF Sound, InOrder
  <2>2. CASE k \in Hits(w)
    <3>1. k \in DOMAIN cache /\ r.names \subseteq Cached(k).holds
      BY <1>1, <2>2 DEF Hits, Cached
    <3>2. nf = Over(Only(k, Cached(k)), f)
      BY <1>5, <2>2
    <3>3. /\ DOMAIN nf = DOMAIN f \union {k} /\ nf[k] = Cached(k)
          /\ \A x \in DOMAIN f \ {k} : nf[x] = f[x]
      BY <3>2 DEF Over, Only
    <3> QED
      BY <2>1, <3>1, <3>3
  <2>3. CASE k \notin Hits(w)
    BY <1>5, <2>1, <2>3
  <2> QED
    BY <2>2, <2>3
<1>17. m \in SUBSET r.want /\ m = l \ {k} /\ k \in r.want /\ r.want # {}
  BY <1>3, <1>4
<1>18. /\ np \in {"read", "done", "parts", "fetch"}
       /\ np = "read" => m # {}
       /\ np # "read" => m = {}
       /\ np = "done" => DOMAIN nf = r.want
       /\ np \in {"parts", "fetch"} => DOMAIN nf # r.want
       /\ np = "parts" => r.op = "indicators"
       /\ np = "fetch" => r.op # "indicators"
  BY <1>7
<1>19. r.op # "prices" => r.want = {k} /\ m = {} /\ DOMAIN f = {}
  <2>1. r.op # "prices" => \A x, y \in r.want : x = y
    BY <1>3 DEF Asked
  <2>2. r.op # "prices" => DOMAIN f = {}
    BY <1>1, <1>3 DEF Sound, InOrder
  <2> QED
    BY <1>3, <1>17, <2>1, <2>2
<1>20. Shape(np, s, m, nf, g, nq)
  <2>1. \A x \in DOMAIN nf : nf[x] \in Value
    BY <1>1, <1>15, <1>16, CachedFits DEF Sound, Shape
  <2>2. \A x \in DOMAIN g : g[x] \in Value
    BY <1>1 DEF Sound, Shape
  <2>3. /\ nq = [x \in DOMAIN nq |-> nq[x]]
        /\ \A x \in DOMAIN nq : nq[x] \in [stage : Stages, waited : 0 .. MaxLatency]
    <3>1. CASE np = "parts"
      BY <1>8, <3>1, CacheAssumption DEF PartsFor, Stages
    <3>2. CASE np # "parts"
      BY <1>1, <1>8, <3>2 DEF Sound, Shape
    <3> QED
      BY <3>1, <3>2
  <2> QED
    BY <1>13, <1>17, <1>18, <2>1, <2>2, <2>3 DEF Shape, Labels, Same
<1>21. Asked(np, s)
  BY <1>3, <1>13, <1>17 DEF Asked, Same
<1>22. Found(s, nf)
  <2>1. Found(r, f)
    BY <1>1 DEF Sound
  <2>2. k \in DOMAIN cache => k[2] \notin Tickers
    BY <1>15, CachedFits
  <2> QED
    BY <1>13, <1>16, <1>17, <2>1, <2>2 DEF Found, Same
<1>23. InOrder(np, s, m, nf, g)
  <2>1. np = "read" => m # {} /\ DOMAIN nf \intersect m = {}
    BY <1>1, <1>3, <1>16, <1>17, <1>18 DEF Sound, InOrder
  <2>2. np \in {"read", "fetch"} /\ r.op # "prices" => DOMAIN nf = {}
    BY <1>16, <1>18, <1>19
  <2>3. r.op = "available" => r.tries < MaxRetries
    BY <1>1, <1>3 DEF Sound, InOrder
  <2> QED
    BY <1>3, <1>13, <1>18, <2>1, <2>2, <2>3 DEF InOrder, Same
<1>24. InParts(np, s, nf, g, nq)
  <2>1. CASE np = "parts"
    <3>1. r.op = "indicators" /\ r.want = {k} /\ DOMAIN nf = {}
      BY <1>16, <1>18, <1>19, <2>1
    <3>2. nq = PartsFor({<<"hourly", k[2]>>})
      BY <1>8, <2>1
    <3>3. DOMAIN nq = {<<"hourly", k[2]>>} /\ \A x \in DOMAIN nq : nq[x].stage = "read"
      BY <3>2 DEF PartsFor
    <3>4. {<<"hourly", x[2]>> : x \in r.want} = {<<"hourly", k[2]>>}
      BY <3>1
    <3> QED
      BY <1>13, <2>1, <3>1, <3>3, <3>4 DEF InParts, Same
  <2>2. CASE np # "parts"
    BY <1>3, <1>13, <2>2 DEF InParts, Same
  <2> QED
    BY <2>1, <2>2
<1>25. Whole(np, s, nf)
  BY <1>13, <1>18 DEF Whole, Same
<1>26. Young(np, s, m, nf, g, nq)
  <2> DEFINE n == Cardinality(r.want \ l)
             c == Cardinality(r.want)
             life == Life[KindOf(r)]
  <2>1. /\ n \in Nat /\ c \in Nat /\ Cardinality(r.want \ m) = n + 1
        /\ life \in Nat
    <3>1. IsFiniteSet(r.want)
      BY <1>3 DEF Asked
    <3>2. n \in Nat /\ c \in Nat /\ life \in Nat
      BY <1>3, AgesType
    <3>3. Cardinality(r.want \ (l \ {k})) = n + 1
      BY <1>3, <3>1, OneMore
    <3> QED
      BY <1>17, <3>2, <3>3
  <2>2. /\ MaxLatency * (n + 1) = MaxLatency * n + MaxLatency /\ MaxLatency * n \in Nat
        /\ MaxLatency * (c + 2) = MaxLatency * c + 2 * MaxLatency /\ MaxLatency * c \in Nat
    BY <2>1, Reckon
  <2>3. \A x \in DOMAIN f : f[x].age \in Nat /\ f[x].age < life + MaxLatency * n + MaxLatency
    <3>1. \A x \in DOMAIN f : f[x].age < AgeAt("read", r, l) + r.waited
      BY <1>1, <1>3 DEF Sound, Young
    <3>2. AgeAt("read", r, l) = life + MaxLatency * n
      BY DEF AgeAt
    <3>3. \A x \in DOMAIN f : f[x].age \in Nat
      BY <1>1 DEF Sound, Shape, Value
    <3>4. r.waited \in Nat /\ r.waited <= MaxLatency
      BY CacheAssumption DEF RequestType
    <3> QED
      BY <2>1, <2>2, <3>1, <3>2, <3>3, <3>4, CacheAssumption
  <2>4. AgeAt("read", s, m) = life + MaxLatency * (n + 1)
    BY <1>13, <1>14, <2>1 DEF AgeAt, Same
  <2>5. /\ AgeAt("fetch", s, m) = life + MaxLatency * c
        /\ r.op = "prices" => AgeAt("done", s, m) = life + MaxLatency * (c + 2)
    BY <1>13, <1>14 DEF AgeAt, Same
  <2>6. AgeAt("done", s, m) = AgeAt("done", r, m) /\ AgeAt("read", s, m) = AgeAt("read", r, m)
    BY <1>13, <1>14 DEF AgeAt, Same
  <2>7. k \in DOMAIN cache => /\ Cached(k).age < AgeAt("done", r, m)
                              /\ r.op = "prices" => Cached(k).age < AgeAt("read", r, m)
    BY <1>3, <1>15, <1>17, HitIsYoung
  <2>8. m = {} => r.want \ m = r.want
    OBVIOUS
  <2>9. m = {} => c = n + 1
    BY <2>1, <2>8
  <2> HIDE DEF n, c, life
  <2>10. CASE np = "read"
    <3>1. r.op = "prices"
      BY <1>18, <1>19, <2>10
    <3>2. \A x \in DOMAIN nf : nf[x].age < AgeAt("read", s, m) + 0
      BY <1>16, <2>1, <2>2, <2>3, <2>4, <2>6, <2>7, <3>1, CacheAssumption
    <3> QED
      BY <1>13, <2>10, <3>2 DEF Young
  <2>11. CASE np = "done"
    <3>1. m = {}
      BY <1>18, <2>11
    <3>2. ASSUME NEW x \in DOMAIN nf
          PROVE  nf[x].age < AgeAt("done", s, m) + 0
      <4>1. CASE x = k /\ k \in DOMAIN cache /\ nf[x] = Cached(k)
        <5>1. AgeAt("done", r, m) \in Nat
          BY <1>3, <1>17, AgesType DEF Asked
        <5> QED
          BY <2>6, <2>7, <4>1, <5>1
      <4>2. CASE x \in DOMAIN f /\ nf[x] = f[x]
        <5>1. r.op = "prices"
          BY <1>19, <4>2
        <5> QED
          BY <2>1, <2>2, <2>3, <2>5, <2>9, <3>1, <4>2, <5>1, CacheAssumption
      <4> QED
        BY <1>16, <4>1, <4>2
    <3> QED
      BY <1>13, <2>11, <3>2 DEF Young
  <2>12. CASE np = "fetch"
    <3>1. m = {}
      BY <1>18, <2>12
    <3>2. ASSUME NEW x \in DOMAIN nf
          PROVE  nf[x].age < AgeAt("fetch", s, m) + 0
      <4>1. r.op = "prices"
        BY <1>16, <1>18, <1>19, <2>12
      <4>2. AgeAt("fetch", s, m) = AgeAt("read", s, m)
        BY <2>4, <2>5, <2>9, <3>1
      <4> QED
        BY <1>16, <2>1, <2>2, <2>3, <2>4, <2>6, <2>7, <4>1, <4>2, CacheAssumption
    <3> QED
      BY <1>13, <2>12, <3>2 DEF Young
  <2>13. CASE np = "parts"
    <3>1. DOMAIN nf = {}
      BY <1>16, <1>18, <1>19, <2>13
    <3>2. nq = PartsFor({<<"hourly", k[2]>>})
      BY <1>8, <2>13
    <3>3. \A x \in DOMAIN nq : nq[x].stage = "read"
      BY <3>2 DEF PartsFor
    <3> QED
      BY <2>13, <3>1, <3>3 DEF Young
  <2> QED
    BY <1>18, <2>10, <2>11, <2>12, <2>13
<1>27. Sound(np, s, m, nf, g, nq)
  BY <1>20, <1>21, <1>22, <1>23, <1>24, <1>25, <1>26 DEF Sound
<1> QED
  BY <1>9, <1>10, <1>11, <1>12, <1>27, OneSteps

LEMMA FetchKeepsInv ==
  ASSUME PriceInv, NEW w \in Workers, Fetch(w)
  PROVE  PriceInv'
<1>0. PICK r \in RequestType : req[w] = r
  BY Here
<1>1. PICK p, l, f, g, q :
            /\ pc[w] = p /\ req[w] = r /\ left[w] = l
            /\ found[w] = f /\ fetched[w] = g /\ part[w] = q
            /\ Sound(p, r, l, f, g, q)
  BY <1>0, Here
<1>2. PICK s : s = [r EXCEPT !.waited = 0]
  OBVIOUS
<1>3. PICK np : np = IF r.op \in {"search", "trending"} THEN "batch" ELSE "store"
  OBVIOUS
<1>4. PICK ng : ng = [k \in {j \in r.want \ DOMAIN f : j[2] \notin Tickers} |-> Fresh({})]
  OBVIOUS
<1>5. /\ p = "fetch"
      /\ pc' = [pc EXCEPT ![w] = np] /\ req' = [req EXCEPT ![w] = s]
      /\ fetched' = [fetched EXCEPT ![w] = ng]
  BY <1>1, <1>2, <1>3, <1>4 DEF Fetch, Goto, PriceInv, Arrays
<1>6. /\ left' = [left EXCEPT ![w] = l] /\ found' = [found EXCEPT ![w] = f]
      /\ part' = [part EXCEPT ![w] = q] /\ CacheInv' /\ load' = load
  BY <1>1, Untouched DEF Fetch
<1>7. Same(s, r) /\ s.tries = r.tries /\ s.broken = r.broken /\ s.waited = 0
  BY <1>2, Waits, CacheAssumption
<1>8. KindOf(s) = KindOf(r)
  BY <1>7, SameKind
<1>9. /\ np \in {"batch", "store"} /\ (np = "batch" => r.op \in {"search", "trending"})
      /\ r.op \notin {"history", "compare", "indicators"} /\ r.names = {}
      /\ (r.op # "prices" => DOMAIN f = {})
  BY <1>1, <1>3, <1>5 DEF Sound, InOrder, Asked
<1>10. /\ DOMAIN ng = {k \in r.want \ DOMAIN f : k[2] \notin Tickers}
       /\ \A k \in DOMAIN ng : ng[k] \in Value /\ ng[k].age = 0 /\ ng[k].holds = {}
  BY <1>4 DEF Fresh, Value
<1>11. Shape(np, s, l, f, ng, q)
  BY <1>1, <1>7, <1>9, <1>10 DEF Sound, Shape, Labels, Same
<1>12. Asked(np, s)
  BY <1>1, <1>5, <1>7 DEF Sound, Asked, Same
<1>13. InOrder(np, s, l, f, ng)
  BY <1>7, <1>9, <1>10 DEF InOrder, Same
<1>14. Found(s, f) /\ InParts(np, s, f, ng, q) /\ Whole(np, s, f)
  BY <1>1, <1>7, <1>9 DEF Sound, Found, InParts, Whole, Same
<1>15. Young(np, s, l, f, ng, q)
  <2> DEFINE c == Cardinality(r.want)
             life == Life[KindOf(r)]
  <2>1. Asked(p, r) /\ l \in SUBSET r.want /\ p # "idle"
    BY <1>1, <1>5 DEF Sound, Shape
  <2>2. c \in Nat /\ life \in Nat
    BY <2>1, AgesType
  <2>3. MaxLatency * (c + 1) = MaxLatency * c + MaxLatency /\ MaxLatency * c \in Nat
    BY <2>2, Reckon
  <2>4. AgeAt("fetch", r, l) = life + MaxLatency * c
        /\ AgeAt("store", s, l) = life + MaxLatency * (c + 1)
    BY <1>7, <1>8 DEF AgeAt, Same
  <2>5. Late(KindOf(r)) \in Nat /\ Late(KindOf(r)) >= MaxLatency
    BY <2>1, KindIs, LateType
  <2>6. \A k \in DOMAIN f : f[k].age \in Nat /\ f[k].age < AgeAt("fetch", r, l) + r.waited
    BY <1>1, <1>5 DEF Sound, Young, Shape, Value
  <2>7. r.waited \in Nat /\ r.waited <= MaxLatency
    BY CacheAssumption DEF RequestType
  <2> HIDE DEF c, life
  <2>8. \A k \in DOMAIN f : f[k].age < AgeAt("store", s, l) + 0
    BY <2>2, <2>3, <2>4, <2>6, <2>7, CacheAssumption
  <2>9. 0 <= Late(KindOf(s)) - MaxLatency + 0
    BY <1>8, <2>5, CacheAssumption
  <2> QED
    BY <1>7, <1>9, <1>10, <2>8, <2>9 DEF Young
<1>16. Sound(np, s, l, f, ng, q)
  BY <1>11, <1>12, <1>13, <1>14, <1>15 DEF Sound
<1> QED
  BY <1>5, <1>6, <1>16, OneSteps

LEMMA BatchKeepsInv ==
  ASSUME PriceInv, NEW w \in Workers, Batch(w)
  PROVE  PriceInv'
<1>0. PICK r \in RequestType : req[w] = r
  BY Here
<1>1. PICK p, l, f, g, q :
            /\ pc[w] = p /\ req[w] = r /\ left[w] = l
            /\ found[w] = f /\ fetched[w] = g /\ part[w] = q
            /\ Sound(p, r, l, f, g, q)
  BY <1>0, Here
<1>2. PICK s : s = [r EXCEPT !.waited = 0]
  OBVIOUS
<1>3. /\ p = "batch"
      /\ pc' = [pc EXCEPT ![w] = "store"] /\ req' = [req EXCEPT ![w] = s]
  BY <1>1, <1>2 DEF Batch, Goto, PriceInv, Arrays
<1>4. /\ left' = [left EXCEPT ![w] = l] /\ found' = [found EXCEPT ![w] = f]
      /\ fetched' = [fetched EXCEPT ![w] = g] /\ part' = [part EXCEPT ![w] = q]
      /\ CacheInv' /\ load' = load
  BY <1>1, Untouched DEF Batch
<1>5. Same(s, r) /\ s.tries = r.tries /\ s.broken = r.broken /\ s.waited = 0
  BY <1>2, Waits, CacheAssumption
<1>6. KindOf(s) = KindOf(r)
  BY <1>5, SameKind
<1>7. r.op \in {"search", "trending"} /\ r.names = {} /\ DOMAIN f = {}
  BY <1>1, <1>3 DEF Sound, InOrder, Asked
<1>8. KindOf(r) \in {"search", "trending"}
  <2>1. Asked(p, r) /\ p # "idle" /\ r.want # {}
    BY <1>1, <1>3 DEF Sound, Asked
  <2>2. PICK k \in r.want : TRUE
    BY <2>1
  <2>3. Kind(k) = KindOf(r) /\ Kind(k) \in KindsOf(r.op)
    BY <2>1, KindIs DEF Asked
  <2> QED
    BY <1>7, <2>3 DEF KindsOf
<1>9. Shape("store", s, l, f, g, q) /\ Asked("store", s) /\ Found(s, f)
  BY <1>1, <1>3, <1>5 DEF Sound, Shape, Labels, Asked, Found, Same
<1>10. InOrder("store", s, l, f, g)
  BY <1>1, <1>3, <1>5, <1>7 DEF Sound, InOrder, Same
<1>11. InParts("store", s, f, g, q) /\ Whole("store", s, f)
  BY <1>5, <1>7 DEF InParts, Whole, Same
<1>12. Young("store", s, l, f, g, q)
  <2>1. Late(KindOf(s)) = 2 * MaxLatency
    BY <1>6, <1>8 DEF Late
  <2>2. r.waited \in Nat /\ r.waited <= MaxLatency
    BY CacheAssumption DEF RequestType
  <2>3. \A k \in DOMAIN g : g[k].age \in Nat /\ g[k].age <= r.waited
    BY <1>1, <1>3 DEF Sound, Young, Shape, Value
  <2>4. \A k \in DOMAIN g : g[k].age <= Late(KindOf(s)) - MaxLatency + 0
    BY <2>1, <2>2, <2>3, CacheAssumption
  <2> QED
    BY <1>5, <1>7, <2>4 DEF Young
<1>13. Sound("store", s, l, f, g, q)
  BY <1>9, <1>10, <1>11, <1>12 DEF Sound
<1> QED
  BY <1>3, <1>4, <1>13, OneSteps

\* The answer of a request that has fetched all that was missing.
LEMMA MergeIsSound ==
  ASSUME NEW r \in RequestType, NEW s, NEW l, NEW f, NEW g, NEW q,
         Sound("store", r, l, f, g, q), Same(s, r), s.waited = 0
  PROVE  Sound("done", s, l, Over(g, f), NoValues, q)
<1>1. PICK nf : nf = Over(g, f)
  OBVIOUS
<1>2. /\ DOMAIN nf = DOMAIN f \union DOMAIN g
      /\ \A k \in DOMAIN g : nf[k] = g[k]
      /\ \A k \in DOMAIN f \ DOMAIN g : nf[k] = f[k]
  BY <1>1 DEF Over
<1>3. DOMAIN g = {k \in r.want \ DOMAIN f : k[2] \notin Tickers}
  BY DEF Sound, InOrder
<1>4. /\ Shape("store", r, l, f, g, q) /\ Asked("store", r)
      /\ r.op \notin {"history", "compare"} /\ (r.op # "prices" => DOMAIN f = {})
      /\ Found(r, f) /\ \A k \in DOMAIN g : r.names \subseteq g[k].holds
  BY DEF Sound, InOrder
<1>5. KindOf(s) = KindOf(r)
  BY SameKind
<1>6. Shape("done", s, l, nf, NoValues, q)
  <2>1. \A k \in DOMAIN nf : nf[k] \in Value
    BY <1>2, <1>4 DEF Shape
  <2> QED
    BY <1>4, <2>1 DEF Shape, Labels, NoValues, Same
<1>7. Asked("done", s)
  BY <1>4 DEF Asked, Same
<1>8. InOrder("done", s, l, nf, NoValues)
  BY DEF InOrder
<1>9. Found(s, nf)
  BY <1>2, <1>3, <1>4 DEF Found, Same
<1>10. InParts("done", s, nf, NoValues, q)
  BY <1>4 DEF InParts, Same
<1>11. Whole("done", s, nf)
  BY <1>2, <1>3 DEF Whole, Same
<1>12. Young("done", s, l, nf, NoValues, q)
  <2> DEFINE c == Cardinality(r.want)
             life == Life[KindOf(r)]
  <2>1. r.want \in SUBSET Keys /\ l \in SUBSET r.want /\ KindOf(r) \in Kinds
    BY <1>4, KindIs DEF Shape, RequestType
  <2>2. c \in Nat /\ life \in Nat /\ life >= 1 /\ Life["hourly"] \in Nat
    BY <1>4, <2>1, AgesType, LifeType
  <2>3. /\ MaxLatency * (c + 1) = MaxLatency * c + MaxLatency /\ MaxLatency * c \in Nat
        /\ MaxLatency * (c + 2) = MaxLatency * c + 2 * MaxLatency
    BY <2>2, Reckon
  <2>4. /\ AgeAt("store", r, l) = life + MaxLatency * (c + 1)
        /\ r.op # "indicators" => AgeAt("done", s, l) = life + MaxLatency * (c + 2)
        /\ r.op = "indicators" => AgeAt("done", s, l) = Life["hourly"] + life + 2 * MaxLatency
    BY <1>4, <1>5 DEF AgeAt, Same
  <2>5. /\ Late(KindOf(r)) \in Nat
        /\ r.op = "indicators" => Late(KindOf(r)) = Life["hourly"] + 2 * MaxLatency - 1
        /\ r.op # "indicators" => Late(KindOf(r)) <= 2 * MaxLatency
    <3>1. PICK k \in r.want : TRUE
      BY <1>4 DEF Asked
    <3>2. Kind(k) = KindOf(r) /\ Kind(k) \in KindsOf(r.op) /\ r.op \in Operations
      BY <1>4, KindIs DEF Asked
    <3>3. r.op = "indicators" => KindOf(r) = "indicators"
      BY <3>2 DEF KindsOf
    <3>4. r.op # "indicators" => KindOf(r) # "indicators"
      BY <3>2 DEF KindsOf
    <3>5. Late(KindOf(r)) \in Nat
      BY <2>1, LateType
    <3> QED
      BY <3>3, <3>4, <3>5, CacheAssumption DEF Late
  <2>6. r.waited \in Nat /\ r.waited <= MaxLatency
    BY CacheAssumption DEF RequestType
  <2>7. /\ \A k \in DOMAIN f : f[k].age \in Nat /\ f[k].age < AgeAt("store", r, l) + r.waited
        /\ \A k \in DOMAIN g : g[k].age \in Nat
                               /\ g[k].age <= Late(KindOf(r)) - MaxLatency + r.waited
    BY <1>4 DEF Sound, Young, Shape, Value
  <2> HIDE DEF c, life
  <2>8. \A k \in DOMAIN g : g[k].age < AgeAt("done", s, l) + 0
    BY <2>2, <2>3, <2>4, <2>5, <2>6, <2>7, CacheAssumption
  <2>9. \A k \in DOMAIN f : f[k].age < AgeAt("done", s, l) + 0
    <3>1. ASSUME NEW k \in DOMAIN f
          PROVE  f[k].age < AgeAt("done", s, l) + 0
      <4>1. r.op # "indicators"
        BY <1>4
      <4> QED
        BY <2>2, <2>3, <2>4, <2>6, <2>7, <4>1, CacheAssumption
    <3> QED
      BY <3>1
  <2>10. \A k \in DOMAIN nf : nf[k].age < AgeAt("done", s, l) + s.waited
    BY <1>2, <2>8, <2>9
  <2> QED
    BY <2>10 DEF Young
<1> QED
  BY <1>1, <1>6, <1>7, <1>8, <1>9, <1>10, <1>11, <1>12 DEF Sound

\* What a request has fetched may be stored.
LEMMA FetchedFits ==
  ASSUME NEW r \in RequestType, NEW l, NEW f, NEW g, NEW q, Sound("store", r, l, f, g, q)
  PROVE  \A k \in DOMAIN g : /\ k \in Keys /\ k[2] \notin Tickers /\ g[k] \in Value
                             /\ g[k].age <= Late(Kind(k))
<1>1. \A k \in DOMAIN g : k \in r.want /\ k \in Keys /\ k[2] \notin Tickers /\ g[k] \in Value
  BY DEF Sound, Shape, InOrder, RequestType
<1>2. \A k \in r.want : Kind(k) = KindOf(r)
  BY KindIs DEF Sound
<1>3. Late(KindOf(r)) \in Nat
  BY KindIs, LateType DEF Sound
<1>4. r.waited \in Nat /\ r.waited <= MaxLatency
  BY CacheAssumption DEF RequestType
<1>5. \A k \in DOMAIN g : g[k].age \in Nat /\ g[k].age <= Late(KindOf(r)) - MaxLatency + r.waited
  BY <1>1 DEF Sound, Young, Value
<1> QED
  BY <1>1, <1>2, <1>3, <1>4, <1>5, CacheAssumption

LEMMA StoreKeepsInv ==
  ASSUME PriceInv, NEW w \in Workers, Store(w)
  PROVE  PriceInv'
<1>0. PICK r \in RequestType : req[w] = r
  BY Here
<1>1. PICK p, l, f, g, q :
            /\ pc[w] = p /\ req[w] = r /\ left[w] = l
            /\ found[w] = f /\ fetched[w] = g /\ part[w] = q
            /\ Sound(p, r, l, f, g, q)
  BY <1>0, Here
<1>2. PICK s : s = [r EXCEPT !.waited = 0]
  OBVIOUS
<1>3. /\ p = "store"
      /\ pc' = [pc EXCEPT ![w] = "done"] /\ req' = [req EXCEPT ![w] = s]
      /\ found' = [found EXCEPT ![w] = Over(g, f)]
      /\ fetched' = [fetched EXCEPT ![w] = NoValues]
      /\ cache' = Stored(g)
  BY <1>1, <1>2 DEF Store, Goto, Merged, PriceInv, Arrays
<1>4. left' = [left EXCEPT ![w] = l] /\ part' = [part EXCEPT ![w] = q] /\ load' = load
  BY <1>1, Untouched DEF Store
<1>5. Same(s, r) /\ s.waited = 0
  BY <1>2, Waits, CacheAssumption
<1>6. Sound("done", s, l, Over(g, f), NoValues, q)
  BY <1>1, <1>3, <1>5, MergeIsSound
<1>7. CacheInv'
  <2>1. CacheInv
    BY DEF PriceInv
  <2>2. \A k \in DOMAIN g : /\ k \in Keys /\ k[2] \notin Tickers /\ g[k] \in Value
                            /\ g[k].age <= Late(Kind(k))
    BY <1>1, <1>3, FetchedFits
  <2> QED
    BY <1>3, <2>1, <2>2, StoredFits
<1> QED
  BY <1>3, <1>4, <1>6, <1>7, OneSteps

LEMMA FetchFailsKeepsInv ==
  ASSUME PriceInv, NEW w \in Workers, FetchFails(w)
  PROVE  PriceInv'
<1>0. PICK r \in RequestType : req[w] = r
  BY Here
<1>1. PICK p, l, f, g, q :
            /\ pc[w] = p /\ req[w] = r /\ left[w] = l
            /\ found[w] = f /\ fetched[w] = g /\ part[w] = q
            /\ Sound(p, r, l, f, g, q)
  BY <1>0, Here
<1>2. PICK s : s = [r EXCEPT !.tries = @ + 1, !.waited = 0]
  OBVIOUS
<1>3. PICK np : np = IF r.op # "available" THEN "failed"
                     ELSE IF TriesAgain(r.tries) THEN "fetch" ELSE "fallback"
  OBVIOUS
<1>4. /\ p \in {"fetch", "batch"}
      /\ pc' = [pc EXCEPT ![w] = np] /\ req' = [req EXCEPT ![w] = s]
  BY <1>1, <1>2, <1>3 DEF FetchFails, PriceInv, Arrays
<1>5. /\ left' = [left EXCEPT ![w] = l] /\ found' = [found EXCEPT ![w] = f]
      /\ fetched' = [fetched EXCEPT ![w] = g] /\ part' = [part EXCEPT ![w] = q]
      /\ CacheInv' /\ load' = load
  BY <1>1, Untouched DEF FetchFails
<1>6. Same(s, r) /\ s.tries = r.tries + 1 /\ s.broken = r.broken /\ s.waited = 0
  <2>1. r.tries + 1 \in Nat
    BY DEF RequestType
  <2>2. PICK a : a = [r EXCEPT !.tries = r.tries + 1]
    OBVIOUS
  <2>3. Same(a, r) /\ a.tries = r.tries + 1 /\ a.broken = r.broken
    BY <2>1, <2>2 DEF RequestType, Same
  <2>4. s = [a EXCEPT !.waited = 0]
    BY <1>2, <2>2
  <2>5. a \in RequestType
    BY <2>3 DEF Same
  <2>6. Same(s, a) /\ s.tries = a.tries /\ s.broken = a.broken /\ s.waited = 0
    BY <2>4, <2>5, Waits, CacheAssumption
  <2> QED
    BY <2>3, <2>6 DEF Same
<1>7. /\ np \in {"failed", "fetch", "fallback"}
      /\ np # "failed" => r.op = "available" /\ p = "fetch" /\ DOMAIN f = {}
      /\ np = "fetch" => r.tries + 1 < MaxRetries
      /\ np = "fallback" => r.tries + 1 = MaxRetries
  <2>1. r.op = "available" => p = "fetch" /\ r.tries < MaxRetries /\ DOMAIN f = {}
    BY <1>1, <1>4 DEF Sound, InOrder
  <2>2. r.tries \in Nat
    BY DEF RequestType
  <2> QED
    BY <1>3, <2>1, <2>2, CacheAssumption DEF TriesAgain
<1>8. Shape(np, s, l, f, g, q) /\ Asked(np, s) /\ Found(s, f)
  BY <1>1, <1>4, <1>6, <1>7 DEF Sound, Shape, Labels, Asked, Found, Same
<1>9. InOrder(np, s, l, f, g) /\ InParts(np, s, f, g, q) /\ Whole(np, s, f)
  BY <1>6, <1>7 DEF InOrder, InParts, Whole, Same
<1>10. Young(np, s, l, f, g, q)
  BY <1>7 DEF Young
<1>11. Sound(np, s, l, f, g, q)
  BY <1>8, <1>9, <1>10 DEF Sound
<1> QED
  BY <1>4, <1>5, <1>11, OneSteps

LEMMA FallBackKeepsInv ==
  ASSUME PriceInv, NEW w \in Workers, FallBack(w)
  PROVE  PriceInv'
<1>0. PICK r \in RequestType : req[w] = r
  BY Here
<1>1. PICK p, l, f, g, q :
            /\ pc[w] = p /\ req[w] = r /\ left[w] = l
            /\ found[w] = f /\ fetched[w] = g /\ part[w] = q
            /\ Sound(p, r, l, f, g, q)
  BY <1>0, Here
<1>2. PICK s : s = [r EXCEPT !.waited = 0]
  OBVIOUS
<1>3. Same(s, r) /\ s.waited = 0
  BY <1>2, Waits, CacheAssumption
<1>4. /\ p = "fallback" /\ req' = [req EXCEPT ![w] = s]
      /\ r.op = "available" /\ r.want = {List} /\ r.names = {} /\ DOMAIN f = {}
  BY <1>1, <1>2 DEF FallBack, Goto, Sound, InOrder, Asked, PriceInv, Arrays
<1>5. /\ left' = [left EXCEPT ![w] = l] /\ fetched' = [fetched EXCEPT ![w] = g]
      /\ part' = [part EXCEPT ![w] = q] /\ CacheInv' /\ load' = load
  BY <1>1, Untouched DEF FallBack
<1>6. CacheInv /\ KindOf(s) = KindOf(r)
  BY <1>3, SameKind DEF PriceInv
<1>7. CASE List \notin DOMAIN cache
  <2>1. found' = [found EXCEPT ![w] = f] /\ pc' = [pc EXCEPT ![w] = "failed"]
    BY <1>1, <1>7 DEF FallBack, Goto, PriceInv, Arrays
  <2>2. Sound("failed", s, l, f, g, q)
    BY <1>1, <1>3, <1>4
       DEF Sound, Shape, Labels, Asked, InOrder, Found, InParts, Whole, Young, Same
  <2> QED
    BY <1>4, <1>5, <2>1, <2>2, OneSteps
<1>8. CASE List \in DOMAIN cache
  <2>1. PICK v : v = Cached(List)
    OBVIOUS
  <2>2. PICK nf : nf = Only(List, v)
    OBVIOUS
  <2>3. found' = [found EXCEPT ![w] = nf] /\ pc' = [pc EXCEPT ![w] = "done"]
    BY <1>1, <1>8, <2>1, <2>2 DEF FallBack, Goto, PriceInv, Arrays
  <2>4. /\ v \in Value /\ List[2] \notin Tickers
        /\ v.age < Life["list"] + Late("list")
    BY <1>6, <1>8, <2>1, CachedFits DEF Kind, List
  <2>5. DOMAIN nf = {List} /\ nf[List] = v
    BY <2>2 DEF Only
  <2>6. /\ Shape("done", s, l, nf, g, q) /\ Asked("done", s) /\ InOrder("done", s, l, nf, g)
        /\ Found(s, nf) /\ InParts("done", s, nf, g, q) /\ Whole("done", s, nf)
    BY <1>1, <1>3, <1>4, <2>4, <2>5
       DEF Sound, Shape, Labels, Asked, InOrder, Found, InParts, Whole, Same
  <2>7. Young("done", s, l, nf, g, q)
    <3>1. Asked(p, r) /\ p # "idle" /\ l \in SUBSET r.want
      BY <1>1, <1>4 DEF Sound, Shape
    <3>2. KindOf(r) = "list"
      <4>1. List \in r.want /\ Kind(List) = "list"
        BY <1>4 DEF Kind, List
      <4> QED
        BY <3>1, <4>1, KindIs
    <3>3. Late("list") = MaxLatency
      BY DEF Late
    <3>4. AgeAt("done", s, l) = Life["list"] + MaxLatency * (Cardinality(r.want) + 2)
      BY <1>3, <1>4, <1>6, <3>2 DEF AgeAt, Same
    <3>5. Cardinality(r.want) \in Nat /\ Life["list"] \in Nat
      BY <3>1, <3>2, AgesType
    <3>6. /\ MaxLatency * (Cardinality(r.want) + 2)
                = MaxLatency * Cardinality(r.want) + 2 * MaxLatency
          /\ MaxLatency * Cardinality(r.want) \in Nat
      BY <3>5, Reckon
    <3>7. v.age \in Nat
      BY <2>4 DEF Value
    <3>8. v.age < AgeAt("done", s, l) + 0
      BY <2>4, <3>3, <3>4, <3>5, <3>6, <3>7, CacheAssumption
    <3> QED
      BY <1>3, <2>5, <3>8 DEF Young
  <2>8. Sound("done", s, l, nf, g, q)
    BY <2>6, <2>7 DEF Sound
  <2> QED
    BY <1>4, <1>5, <2>3, <2>8, OneSteps
<1> QED
  BY <1>7, <1>8

LEMMA RedisFailsKeepsInv ==
  ASSUME PriceInv, NEW w \in Workers, RedisFails(w)
  PROVE  PriceInv'
<1>0. PICK r \in RequestType : req[w] = r
  BY Here
<1>1. PICK p, l, f, g, q :
            /\ pc[w] = p /\ req[w] = r /\ left[w] = l
            /\ found[w] = f /\ fetched[w] = g /\ part[w] = q
            /\ Sound(p, r, l, f, g, q)
  BY <1>0, Here
<1>2. PICK s : s = [r EXCEPT !.broken = TRUE, !.waited = 0]
  OBVIOUS
<1>3. Same(s, r) /\ s.tries = r.tries /\ s.broken = TRUE /\ s.waited = 0
  <2>1. PICK a : a = [r EXCEPT !.broken = TRUE]
    OBVIOUS
  <2>2. Same(a, r) /\ a.tries = r.tries /\ a.broken = TRUE
    BY <2>1 DEF RequestType, Same
  <2>3. s = [a EXCEPT !.waited = 0]
    BY <1>2, <2>1
  <2>4. a \in RequestType
    BY <2>2 DEF Same
  <2>5. Same(s, a) /\ s.tries = a.tries /\ s.broken = a.broken /\ s.waited = 0
    BY <2>3, <2>4, Waits, CacheAssumption
  <2> QED
    BY <2>2, <2>5 DEF Same
<1>4. /\ p \in {"read", "store", "fallback"} /\ req' = [req EXCEPT ![w] = s]
      /\ fetched' = [fetched EXCEPT ![w] = NoValues]
  BY <1>1, <1>2 DEF RedisFails, PriceInv, Arrays
<1>5. left' = [left EXCEPT ![w] = l] /\ part' = [part EXCEPT ![w] = q] /\ load' = load
  BY <1>1, Untouched DEF RedisFails
<1>6. CASE /\ pc[w] = "store" /\ req[w].op = "prices"
           /\ \E kept \in SUBSET DOMAIN fetched[w] :
                 cache' = Stored([k \in kept |-> fetched[w][k]])
           /\ found' = [found EXCEPT ![w] = Merged(@, fetched[w])]
           /\ pc' = [pc EXCEPT ![w] = "done"]
  <2>1. p = "store" /\ pc' = [pc EXCEPT ![w] = "done"]
        /\ found' = [found EXCEPT ![w] = Over(g, f)]
    BY <1>1, <1>6 DEF Merged, PriceInv, Arrays
  <2>2. PICK kept \in SUBSET DOMAIN g : cache' = Stored([k \in kept |-> g[k]])
    BY <1>1, <1>6
  <2>3. PICK some : some = [k \in kept |-> g[k]]
    OBVIOUS
  <2>4. CacheInv'
    <3>1. \A k \in DOMAIN g : /\ k \in Keys /\ k[2] \notin Tickers /\ g[k] \in Value
                              /\ g[k].age <= Late(Kind(k))
      BY <1>1, <2>1, FetchedFits
    <3>2. \A k \in DOMAIN some : /\ k \in Keys /\ k[2] \notin Tickers /\ some[k] \in Value
                                 /\ some[k].age <= Late(Kind(k))
      BY <2>3, <3>1
    <3>3. CacheInv /\ cache' = Stored(some)
      BY <2>2, <2>3 DEF PriceInv
    <3> QED
      BY <3>2, <3>3, StoredFits
  <2>5. Sound("done", s, l, Over(g, f), NoValues, q)
    BY <1>1, <1>3, <2>1, MergeIsSound
  <2> QED
    BY <1>4, <1>5, <2>1, <2>4, <2>5, OneSteps
<1>7. CASE /\ pc' = [pc EXCEPT ![w] = IF pc[w] = "store" /\ req[w].op = "available"
                                        THEN "fallback" ELSE "failed"]
           /\ UNCHANGED <<cache, found>>
  <2>1. PICK np : np = IF p = "store" /\ r.op = "available" THEN "fallback" ELSE "failed"
    OBVIOUS
  <2>2. /\ pc' = [pc EXCEPT ![w] = np] /\ found' = [found EXCEPT ![w] = f]
        /\ CacheInv'
    BY <1>1, <1>7, <2>1, Untouched
  <2>3. /\ np \in {"fallback", "failed"}
        /\ np = "fallback" => r.op = "available" /\ DOMAIN f = {}
    BY <1>1, <2>1 DEF Sound, InOrder
  <2>4. DOMAIN NoValues = {}
    BY DEF NoValues
  <2> HIDE DEF NoValues
  <2>5. /\ Shape(np, s, l, f, NoValues, q) /\ Asked(np, s) /\ Found(s, f)
        /\ InOrder(np, s, l, f, NoValues) /\ InParts(np, s, f, NoValues, q)
        /\ Whole(np, s, f) /\ Young(np, s, l, f, NoValues, q)
    BY <1>1, <1>3, <1>4, <2>3, <2>4
       DEF Sound, Shape, Labels, Asked, InOrder, Found, InParts, Whole, Young, Same
  <2>6. Sound(np, s, l, f, NoValues, q)
    BY <2>5 DEF Sound
  <2> QED
    BY <1>4, <1>5, <2>2, <2>6, OneSteps
<1> QED
  BY <1>6, <1>7 DEF RedisFails

LEMMA ReturnKeepsInv ==
  ASSUME PriceInv, NEW w \in Workers, Return(w)
  PROVE  PriceInv'
<1>1. NoRequest \in RequestType /\ NoRequest.op = "none" /\ NoRequest.want = {}
      /\ NoRequest.names = {}
  BY CacheAssumption DEF NoRequest, AnyRequest, RequestType
<1>2. NoValues = [k \in DOMAIN NoValues |-> NoValues[k]] /\ DOMAIN NoValues = {}
  BY DEF NoValues
<1>3. Sound("idle", NoRequest, {}, NoValues, NoValues, NoValues)
  <2>1. IsFiniteSet({})
    BY FS_EmptySet
  <2> QED
    BY <1>1, <1>2, <2>1
       DEF Sound, Shape, Labels, Asked, InOrder, Found, InParts, Whole, Young
<1>4. CacheInv' /\ load' = load
  BY Untouched DEF Return
<1> QED
  BY <1>3, <1>4, OneSteps DEF Return

-----------------------------------------------------------------------------
(* The promises that run side by side *)

\* A part at its next stage.
Moved(q, k, stage) == [q EXCEPT ![k] = [stage |-> stage, waited |-> 0]]

Finished(q) == \A j \in DOMAIN q : q[j].stage \in {"done", "failed"}

\* What the request may rely on when its last part settles.
Ready(r, f, g, stage) ==
    /\ \A x \in DOMAIN f : f[x].age < Life[KindOf(r)] + 4 * MaxLatency
    /\ r.op = "indicators" /\ stage = "done" =>
        /\ DOMAIN g = {x \in r.want : x[2] \notin Tickers}
        /\ \A x \in DOMAIN g : /\ r.names \subseteq g[x].holds
                               /\ g[x].age <= Late("indicators") - MaxLatency

LEMMA MovedFacts ==
  ASSUME NEW q, q = [j \in DOMAIN q |-> q[j]], NEW k \in DOMAIN q, NEW stage
  PROVE  LET nq == Moved(q, k, stage)
         IN  /\ nq = [j \in DOMAIN nq |-> nq[j]]
             /\ DOMAIN nq = DOMAIN q
             /\ nq[k].stage = stage /\ nq[k].waited = 0
             /\ nq[k] = [stage |-> stage, waited |-> 0]
             /\ \A j \in DOMAIN q : j # k => nq[j] = q[j]
BY DEF Moved

LEMMA SettledIsSound ==
  ASSUME NEW r \in RequestType, NEW s, NEW l, NEW f, NEW g, NEW q, NEW k \in DOMAIN q,
         Sound("parts", r, l, f, g, q), Same(s, r), s.waited = 0, Finished(q),
         Ready(r, f, g, q[k].stage), NEW p,
         p = IF r.op = "compare" THEN "done"
             ELSE IF q[k].stage = "failed" THEN "failed"
             ELSE IF r.op = "indicators" THEN "store" ELSE "done"
  PROVE  Sound(p, s, l, f, g, q)
<1>1. /\ Shape("parts", r, l, f, g, q) /\ Asked("parts", r) /\ Found(r, f)
      /\ r.op \in {"history", "compare", "indicators"}
      /\ r.op = "indicators" => DOMAIN f = {}
      /\ r.op # "indicators" => DOMAIN q = r.want
  BY DEF Sound, InParts
<1>2. /\ p \in {"done", "failed", "store"}
      /\ p = "store" => r.op = "indicators" /\ q[k].stage = "done"
      /\ p = "done" => r.op \in {"history", "compare"}
      /\ r.op = "history" /\ p = "done" => q[k].stage = "done"
  BY <1>1 DEF Finished
<1>3. KindOf(s) = KindOf(r)
  BY SameKind
<1>4. Shape(p, s, l, f, g, q) /\ Asked(p, s) /\ Found(s, f)
  BY <1>1, <1>2 DEF Shape, Labels, Asked, Found, Same
<1>5. InOrder(p, s, l, f, g)
  <2>1. CASE p = "store"
    <3>1. /\ DOMAIN g = {x \in r.want \ DOMAIN f : x[2] \notin Tickers}
          /\ \A x \in DOMAIN g : r.names \subseteq g[x].holds
      BY <1>1, <1>2, <2>1 DEF Ready
    <3> QED
      BY <1>1, <1>2, <2>1, <3>1 DEF InOrder, Same
  <2>2. CASE p # "store"
    BY <1>2, <2>2 DEF InOrder
  <2> QED
    BY <2>1, <2>2
<1>6. InParts(p, s, f, g, q)
  <2>1. CASE p = "done"
    <3>1. \A j \in DOMAIN q : q[j].stage = "done" <=> j \in DOMAIN f
      BY <1>2, <2>1 DEF Sound, InParts
    <3>2. \A j \in DOMAIN q : q[j].stage = "done" \/ (q[j].stage = "failed" /\ r.op = "compare")
      <4>1. CASE r.op = "compare"
        BY <4>1 DEF Finished
      <4>2. CASE r.op = "history"
        <5>1. \A j \in DOMAIN q : j = k
          BY <1>1, <4>2 DEF Asked
        <5> QED
          BY <1>2, <2>1, <4>2, <5>1
      <4> QED
        BY <1>2, <2>1, <4>1, <4>2
    <3> QED
      BY <1>1, <1>2, <2>1, <3>1, <3>2 DEF InParts, Same
  <2>2. CASE p # "done"
    BY <1>2, <2>2 DEF InParts
  <2> QED
    BY <2>1, <2>2
<1>7. Whole(p, s, f)
  BY <1>2 DEF Whole, Same
<1>8. Young(p, s, l, f, g, q)
  <2>1. CASE p = "done"
    <3>1. AgeAt("done", s, l) = Life[KindOf(r)] + 4 * MaxLatency
      BY <1>2, <1>3, <2>1 DEF AgeAt, Same
    <3>2. AgeAt("done", s, l) \in Nat
      BY <1>1, <1>2, <1>4, <2>1, AgesType DEF Shape, Same
    <3>3. \A x \in DOMAIN f : f[x].age < AgeAt("done", s, l) + s.waited
      BY <3>1, <3>2 DEF Ready
    <3> QED
      BY <2>1, <3>3 DEF Young
  <2>2. CASE p = "store"
    <3>1. DOMAIN f = {} /\ r.op = "indicators"
      BY <1>1, <1>2, <2>2
    <3>2. KindOf(r) = "indicators" /\ Late("indicators") \in Nat
      <4>1. PICK x \in r.want : TRUE
        BY <1>1 DEF Asked
      <4>2. Kind(x) = KindOf(r) /\ Kind(x) \in KindsOf(r.op)
        BY <1>1, KindIs DEF Asked
      <4> QED
        BY <3>1, <4>2, LateType DEF KindsOf, Kinds
    <3>3. \A x \in DOMAIN g : g[x].age <= Late("indicators") - MaxLatency + 0
      BY <1>2, <2>2, <3>2, CacheAssumption DEF Ready
    <3> QED
      BY <1>3, <2>2, <3>1, <3>2, <3>3 DEF Young
  <2>3. CASE p = "failed"
    BY <2>3 DEF Young
  <2> QED
    BY <1>2, <2>1, <2>2, <2>3
<1> QED
  BY <1>4, <1>5, <1>6, <1>7, <1>8 DEF Sound

LEMMA PartSteps ==
  ASSUME PriceInv, NEW w \in Workers, NEW k \in DOMAIN part[w], NEW stage \in Stages,
         pc[w] = "parts", PartTo(w, k, stage), NEW f, NEW g,
         found' = [found EXCEPT ![w] = f], fetched' = [fetched EXCEPT ![w] = g],
         left' = left, load' = load, CacheInv',
         Sound("parts", req[w], left[w], f, g, Moved(part[w], k, stage)),
         Ready(req[w], f, g, stage)
  PROVE  PriceInv'
<1>0. PICK r \in RequestType : req[w] = r
  BY Here
<1>1. PICK l, q : req[w] = r /\ left[w] = l /\ part[w] = q
  BY <1>0, Here
<1>2. PICK nq : nq = Moved(q, k, stage)
  OBVIOUS
<1>3. /\ DOMAIN nq = DOMAIN q /\ nq[k].stage = stage
      /\ part' = [part EXCEPT ![w] = nq] /\ part'[w] = nq
  <2>1. q = [j \in DOMAIN q |-> q[j]]
    BY <1>1 DEF PriceInv, SoundAt, Sound, Shape
  <2>2. DOMAIN nq = DOMAIN q /\ nq[k].stage = stage
    BY <1>1, <1>2, <2>1 DEF Moved
  <2>3. part' = [part EXCEPT ![w] = nq]
    BY <1>1, <1>2 DEF PartTo, Moved
  <2>4. part'[w] = nq
    BY <2>3 DEF PriceInv, Arrays
  <2> QED
    BY <2>2, <2>3, <2>4
<1>4. left' = [left EXCEPT ![w] = l]
  BY <1>1, Untouched
<1>5. Settled(w) <=> Finished(nq)
  BY <1>3 DEF Settled, Finished
<1>6. CASE Finished(nq)
  <2>1. PICK s : s = [r EXCEPT !.waited = 0]
    OBVIOUS
  <2>2. PICK p : p = IF r.op = "compare" THEN "done"
                     ELSE IF stage = "failed" THEN "failed"
                     ELSE IF r.op = "indicators" THEN "store" ELSE "done"
    OBVIOUS
  <2>3. pc' = [pc EXCEPT ![w] = p] /\ req' = [req EXCEPT ![w] = s]
    BY <1>1, <1>5, <1>6, <2>1, <2>2 DEF PartTo, Goto, PriceInv, Arrays
  <2>4. Same(s, r) /\ s.waited = 0
    BY <2>1, Waits, CacheAssumption
  <2>5. Sound(p, s, l, f, g, nq)
    BY <1>1, <1>2, <1>3, <1>6, <2>2, <2>4, SettledIsSound
  <2> QED
    BY <1>3, <1>4, <2>3, <2>5, OneSteps
<1>7. CASE ~Finished(nq)
  <2>1. pc' = [pc EXCEPT ![w] = "parts"] /\ req' = [req EXCEPT ![w] = r]
    BY <1>1, <1>5, <1>7, Untouched DEF PartTo
  <2> QED
    BY <1>1, <1>2, <1>3, <1>4, <2>1, OneSteps
<1> QED
  BY <1>6, <1>7

\* What holds while the parts run.
LEMMA PartsFacts ==
  ASSUME NEW r \in RequestType, NEW l, NEW f, NEW g, NEW q, Sound("parts", r, l, f, g, q)
  PROVE  /\ Shape("parts", r, l, f, g, q) /\ Asked("parts", r) /\ Found(r, f)
         /\ r.op \in {"history", "compare", "indicators"}
         /\ r.op = "indicators" =>
              DOMAIN f = {} /\ DOMAIN q = {<<"hourly", x[2]>> : x \in r.want}
         /\ r.op # "indicators" =>
              /\ DOMAIN q = r.want /\ r.names = {}
              /\ \A j \in DOMAIN q : q[j].stage = "done" <=> j \in DOMAIN f
         /\ \A j \in DOMAIN q : q[j].stage = "store" =>
              j \in DOMAIN g /\ j[2] \notin Tickers /\ g[j].age <= q[j].waited
         /\ \A j \in DOMAIN q : q[j] \in [stage : Stages, waited : 0 .. MaxLatency]
         /\ \A x \in DOMAIN f : f[x] \in Value
         /\ \A x \in DOMAIN f, j \in DOMAIN q : Running(q[j]) =>
              f[x].age + Remaining(q[j]) < Life[KindOf(r)] + 4 * MaxLatency
         /\ Life[KindOf(r)] \in Nat /\ Life[KindOf(r)] >= 1 /\ KindOf(r) \in Kinds
         /\ \A x \in r.want : x \in Keys /\ Kind(x) = KindOf(r)
<1>1. /\ Shape("parts", r, l, f, g, q) /\ Asked("parts", r) /\ Found(r, f)
      /\ InParts("parts", r, f, g, q) /\ Young("parts", r, l, f, g, q)
  BY DEF Sound
<1>2. KindOf(r) \in Kinds /\ \A x \in r.want : Kind(x) = KindOf(r)
  BY <1>1, KindIs
<1>3. Life[KindOf(r)] \in Nat /\ Life[KindOf(r)] >= 1
  BY <1>2, LifeType
<1>4. /\ r.op \in {"history", "compare", "indicators"}
      /\ r.op = "indicators" =>
           DOMAIN f = {} /\ DOMAIN q = {<<"hourly", x[2]>> : x \in r.want}
      /\ r.op # "indicators" =>
           /\ DOMAIN q = r.want
           /\ \A j \in DOMAIN q : q[j].stage = "done" <=> j \in DOMAIN f
      /\ \A j \in DOMAIN q : q[j].stage = "store" => j \in DOMAIN g /\ j[2] \notin Tickers
  BY <1>1 DEF InParts
<1>5. r.op # "indicators" => r.names = {}
  BY <1>1 DEF Asked
<1>6. \A x \in r.want : x \in Keys
  BY DEF RequestType
<1> QED
  BY <1>1, <1>2, <1>3, <1>4, <1>5, <1>6 DEF Shape, Young

\* How long a part may still take, as a number.
LEMMA RemainingType ==
  ASSUME NEW a \in [stage : Stages, waited : 0 .. MaxLatency]
  PROVE  /\ Remaining(a) \in Nat /\ Remaining(a) <= 3 * MaxLatency
         /\ a.stage = "read" => Remaining(a) >= 2 * MaxLatency
         /\ a.stage = "fetch" => Remaining(a) >= MaxLatency /\ Remaining(a) <= 2 * MaxLatency
         /\ a.stage = "store" => Remaining(a) <= MaxLatency
         /\ a.waited = 0 => /\ a.stage = "fetch" => Remaining(a) = 2 * MaxLatency
                            /\ a.stage = "store" => Remaining(a) = MaxLatency
<1>1. /\ a.stage \in Stages /\ a.waited \in Nat /\ a.waited <= MaxLatency
      /\ MaxLatency \in Nat
  BY CacheAssumption
<1>2. CASE a.stage = "read"
  BY <1>1, <1>2 DEF Remaining
<1>3. CASE a.stage = "fetch"
  BY <1>1, <1>3 DEF Remaining
<1>4. CASE a.stage = "store"
  BY <1>1, <1>4 DEF Remaining
<1>5. CASE a.stage \in {"done", "failed"}
  BY <1>1, <1>5 DEF Remaining
<1> QED
  BY <1>1, <1>2, <1>3, <1>4, <1>5 DEF Stages

\* A part begins its next step, or fails; g is what the request has fetched then.
LEMMA PartGoesOn ==
  ASSUME NEW r \in RequestType, NEW l, NEW f, NEW g, NEW q, Sound("parts", r, l, f, g, q),
         NEW k \in DOMAIN q, Running(q[k]), NEW stage,
         \/ stage = "fetch" /\ q[k].stage = "read"
         \/ stage = "store" /\ q[k].stage = "fetch"
         \/ stage = "failed",
         NEW ng, \A x \in DOMAIN ng : ng[x] \in Value,
         DOMAIN g \subseteq DOMAIN ng,
         \A x \in DOMAIN g : x # k => ng[x] = g[x],
         stage = "store" => k[2] \notin Tickers /\ k \in DOMAIN ng /\ ng[k].age = 0
  PROVE  Sound("parts", r, l, f, ng, Moved(q, k, stage)) /\ Ready(r, f, ng, stage)
<1>1. PICK nq : nq = Moved(q, k, stage)
  OBVIOUS
<1>2. /\ nq = [j \in DOMAIN nq |-> nq[j]] /\ DOMAIN nq = DOMAIN q
      /\ nq[k].stage = stage /\ nq[k].waited = 0
      /\ nq[k] \in [stage : Stages, waited : 0 .. MaxLatency]
      /\ \A j \in DOMAIN q : j # k => nq[j] = q[j]
  <2>1. q = [j \in DOMAIN q |-> q[j]]
    BY DEF Sound, Shape
  <2>2. [stage |-> stage, waited |-> 0] \in [stage : Stages, waited : 0 .. MaxLatency]
    BY CacheAssumption DEF Stages
  <2> QED
    BY <1>1, <2>1, <2>2 DEF Moved
<1>3. /\ Shape("parts", r, l, f, g, q) /\ Asked("parts", r) /\ Found(r, f)
      /\ r.op \in {"history", "compare", "indicators"}
      /\ r.op = "indicators" =>
           DOMAIN f = {} /\ DOMAIN q = {<<"hourly", x[2]>> : x \in r.want}
      /\ r.op # "indicators" =>
           /\ DOMAIN q = r.want
           /\ \A j \in DOMAIN q : q[j].stage = "done" <=> j \in DOMAIN f
  BY DEF Sound, InParts
<1>4. \A j \in DOMAIN q : q[j].stage = "store" =>
          j \in DOMAIN g /\ j[2] \notin Tickers /\ g[j].age <= q[j].waited
  BY PartsFacts
<1>5. Shape("parts", r, l, f, ng, nq)
  BY <1>2, <1>3 DEF Shape
<1>6. InOrder("parts", r, l, f, ng) /\ Whole("parts", r, f)
  BY DEF InOrder, Whole
<1>7. \A j \in DOMAIN nq : nq[j].stage = "store" =>
          j \in DOMAIN ng /\ j[2] \notin Tickers /\ ng[j].age <= nq[j].waited
  <2>1. ASSUME NEW j \in DOMAIN nq, nq[j].stage = "store", j # k
        PROVE  j \in DOMAIN ng /\ j[2] \notin Tickers /\ ng[j].age <= nq[j].waited
    BY <1>2, <1>4, <2>1
  <2>2. nq[k].stage = "store" =>
            k \in DOMAIN ng /\ k[2] \notin Tickers /\ ng[k].age <= nq[k].waited
    BY <1>2
  <2> QED
    BY <2>1, <2>2
<1>8. InParts("parts", r, f, ng, nq)
  <2>1. q[k].stage # "done" /\ nq[k].stage # "done"
    BY <1>2 DEF Running
  <2>2. r.op # "indicators" => \A j \in DOMAIN nq : nq[j].stage = "done" <=> j \in DOMAIN f
    BY <1>2, <1>3, <2>1
  <2> QED
    BY <1>2, <1>3, <1>7, <2>2 DEF InParts
<1>9. /\ Life[KindOf(r)] \in Nat
      /\ \A x \in DOMAIN f : f[x].age \in Nat
      /\ \A x \in DOMAIN f, j \in DOMAIN q : Running(q[j]) =>
              f[x].age + Remaining(q[j]) < Life[KindOf(r)] + 4 * MaxLatency
      /\ \A j \in DOMAIN q : q[j] \in [stage : Stages, waited : 0 .. MaxLatency]
  BY PartsFacts DEF Value
<1>10. Remaining(q[k]) \in Nat /\ (Running(nq[k]) => Remaining(nq[k]) <= Remaining(q[k]))
       /\ Remaining(nq[k]) \in Nat
  <2>1. q[k] \in [stage : Stages, waited : 0 .. MaxLatency]
    BY <1>9
  <2> QED
    BY <1>2, <2>1, RemainingType, CacheAssumption DEF Running
<1>11. \A x \in DOMAIN f, j \in DOMAIN nq : Running(nq[j]) =>
              f[x].age + Remaining(nq[j]) < Life[KindOf(r)] + 4 * MaxLatency
  <2>1. ASSUME NEW x \in DOMAIN f, NEW j \in DOMAIN nq, Running(nq[j])
        PROVE  f[x].age + Remaining(nq[j]) < Life[KindOf(r)] + 4 * MaxLatency
    <3>1. CASE j # k
      BY <1>2, <1>9, <2>1, <3>1
    <3>2. CASE j = k
      <4>1. f[x].age + Remaining(q[k]) < Life[KindOf(r)] + 4 * MaxLatency /\ f[x].age \in Nat
        BY <1>9
      <4> QED
        BY <1>9, <1>10, <2>1, <3>2, <4>1, CacheAssumption
    <3> QED
      BY <3>1, <3>2
  <2> QED
    BY <2>1
<1>12. Young("parts", r, l, f, ng, nq)
  BY <1>7, <1>11 DEF Young
<1>13. Ready(r, f, ng, stage)
  <2>1. \A x \in DOMAIN f : f[x].age + Remaining(q[k]) < Life[KindOf(r)] + 4 * MaxLatency
    BY <1>9
  <2>2. \A x \in DOMAIN f : f[x].age < Life[KindOf(r)] + 4 * MaxLatency
    BY <1>9, <1>10, <2>1, CacheAssumption
  <2> QED
    BY <2>2 DEF Ready
<1> QED
  BY <1>1, <1>3, <1>5, <1>6, <1>8, <1>12, <1>13 DEF Sound

\* A part ends with a value.
LEMMA PartEnds ==
  ASSUME NEW r \in RequestType, NEW l, NEW f, NEW g, NEW q, Sound("parts", r, l, f, g, q),
         NEW k \in DOMAIN q, Running(q[k]), NEW v \in Value, k[2] \notin Tickers,
         v.age < Life[Kind(k)] + MaxLatency,
         NEW nf, NEW ng,
         r.op = "indicators" =>
             nf = f /\ ng = [x \in r.want |-> [v EXCEPT !.holds = r.names]],
         r.op # "indicators" =>
             nf = Over(Only(k, v), f) /\ ng = [x \in DOMAIN g \ {k} |-> g[x]]
  PROVE  Sound("parts", r, l, nf, ng, Moved(q, k, "done")) /\ Ready(r, nf, ng, "done")
<1>1. PICK nq : nq = Moved(q, k, "done")
  OBVIOUS
<1>2. /\ nq = [j \in DOMAIN nq |-> nq[j]] /\ DOMAIN nq = DOMAIN q
      /\ nq[k].stage = "done"
      /\ nq[k] \in [stage : Stages, waited : 0 .. MaxLatency]
      /\ \A j \in DOMAIN q : j # k => nq[j] = q[j]
  <2>1. q = [j \in DOMAIN q |-> q[j]]
    BY DEF Sound, Shape
  <2>2. [stage |-> "done", waited |-> 0] \in [stage : Stages, waited : 0 .. MaxLatency]
    BY CacheAssumption DEF Stages
  <2> QED
    BY <1>1, <2>1, <2>2 DEF Moved
<1>3. /\ Shape("parts", r, l, f, g, q) /\ Asked("parts", r) /\ Found(r, f)
      /\ r.op \in {"history", "compare", "indicators"}
      /\ r.op = "indicators" =>
           DOMAIN f = {} /\ DOMAIN q = {<<"hourly", x[2]>> : x \in r.want}
      /\ r.op # "indicators" =>
           /\ DOMAIN q = r.want
           /\ \A j \in DOMAIN q : q[j].stage = "done" <=> j \in DOMAIN f
      /\ \A j \in DOMAIN q : q[j].stage = "store" => j \in DOMAIN g /\ j[2] \notin Tickers
  BY DEF Sound, InParts
<1>4. /\ KindOf(r) \in Kinds /\ Life[KindOf(r)] \in Nat /\ Life[KindOf(r)] >= 1
      /\ Life["hourly"] \in Nat
      /\ \A x \in r.want : x \in Keys /\ Kind(x) = KindOf(r)
  BY <1>3, KindIs, LifeType DEF Kinds, RequestType
<1>5. \A j \in DOMAIN q : q[j] \in [stage : Stages, waited : 0 .. MaxLatency]
  BY <1>3 DEF Shape
<1>6. v.age \in Nat
  BY DEF Value
<1>7. CASE r.op = "indicators"
  <2>1. PICK i \in r.want : r.want = {i}
    BY <1>3, <1>7 DEF Asked
  <2>2. DOMAIN q = {<<"hourly", i[2]>>}
    BY <1>3, <1>7, <2>1
  <2>3. k = <<"hourly", i[2]>> /\ k[2] = i[2] /\ Kind(k) = "hourly"
    BY <2>2 DEF Kind
  <2>4. /\ nf = f /\ DOMAIN ng = r.want
        /\ \A x \in DOMAIN ng : /\ ng[x] \in Value /\ ng[x].holds = r.names
                                /\ ng[x].age = v.age
    BY <1>7 DEF Value, RequestType
  <2>5. Shape("parts", r, l, nf, ng, nq)
    BY <1>2, <1>3, <2>4 DEF Shape
  <2>6. InOrder("parts", r, l, nf, ng) /\ Whole("parts", r, nf)
    BY DEF InOrder, Whole
  <2>7. \A j \in DOMAIN nq : nq[j].stage = "done"
    BY <1>2, <2>2, <2>3
  <2>8. InParts("parts", r, nf, ng, nq)
    BY <1>2, <1>3, <1>7, <2>4, <2>7 DEF InParts
  <2>9. Young("parts", r, l, nf, ng, nq)
    BY <1>3, <1>7, <2>4, <2>7 DEF Young
  <2>10. Ready(r, nf, ng, "done")
    <3>1. Late("indicators") = Life["hourly"] + 2 * MaxLatency - 1
      BY DEF Late
    <3>2. v.age <= Late("indicators") - MaxLatency
      BY <1>4, <1>6, <2>3, <3>1, CacheAssumption
    <3>3. DOMAIN ng = {x \in r.want : x[2] \notin Tickers}
      BY <2>1, <2>3, <2>4
    <3> QED
      BY <1>3, <1>7, <2>4, <3>2, <3>3 DEF Ready
  <2> QED
    BY <1>1, <1>3, <2>4, <2>5, <2>6, <2>8, <2>9, <2>10 DEF Sound
<1>8. CASE r.op # "indicators"
  <2>1. /\ DOMAIN nf = DOMAIN f \union {k} /\ nf[k] = v
        /\ \A x \in DOMAIN f \ {k} : nf[x] = f[x]
    BY <1>8 DEF Over, Only
  <2>2. DOMAIN ng = DOMAIN g \ {k} /\ \A x \in DOMAIN ng : ng[x] = g[x]
    BY <1>8
  <2>3. r.names = {} /\ k \in r.want /\ k \notin DOMAIN f /\ Kind(k) = KindOf(r)
    BY <1>3, <1>4, <1>8 DEF Asked, Running
  <2>4. Shape("parts", r, l, nf, ng, nq)
    BY <1>2, <1>3, <2>1, <2>2 DEF Shape
  <2>5. InOrder("parts", r, l, nf, ng) /\ Whole("parts", r, nf)
    BY DEF InOrder, Whole
  <2>6. Found(r, nf)
    BY <1>3, <2>1, <2>3 DEF Found
  <2>7. \A j \in DOMAIN nq : nq[j].stage = "store" =>
            j # k /\ q[j].stage = "store" /\ j \in DOMAIN ng /\ ng[j] = g[j] /\ nq[j] = q[j]
                  /\ j[2] \notin Tickers
    BY <1>2, <1>3, <2>2
  <2>8. InParts("parts", r, nf, ng, nq)
    <3>1. \A j \in DOMAIN nq : nq[j].stage = "done" <=> j \in DOMAIN nf
      BY <1>2, <1>3, <1>8, <2>1
    <3> QED
      BY <1>2, <1>3, <1>8, <2>7, <3>1 DEF InParts
  <2>9. /\ \A x \in DOMAIN f : f[x].age \in Nat
        /\ \A x \in DOMAIN f, j \in DOMAIN q : Running(q[j]) =>
                f[x].age + Remaining(q[j]) < Life[KindOf(r)] + 4 * MaxLatency
        /\ \A j \in DOMAIN q : q[j].stage = "store" => g[j].age <= q[j].waited
    <3>1. Shape("parts", r, l, f, g, q) /\ Young("parts", r, l, f, g, q)
      BY DEF Sound
    <3> QED
      BY <3>1 DEF Shape, Young, Value
  <2>10. \A x \in DOMAIN nf, j \in DOMAIN nq : Running(nq[j]) =>
                nf[x].age + Remaining(nq[j]) < Life[KindOf(r)] + 4 * MaxLatency
    <3>1. ASSUME NEW x \in DOMAIN nf, NEW j \in DOMAIN nq, Running(nq[j])
          PROVE  nf[x].age + Remaining(nq[j]) < Life[KindOf(r)] + 4 * MaxLatency
      <4>1. j # k /\ nq[j] = q[j] /\ j \in DOMAIN q
        BY <1>2, <3>1 DEF Running
      <4>2. CASE x = k
        <5>1. Remaining(q[j]) \in Nat /\ Remaining(q[j]) <= 3 * MaxLatency
          BY <1>5, <4>1, RemainingType
        <5> QED
          BY <1>4, <1>6, <2>1, <2>3, <4>1, <4>2, <5>1, CacheAssumption
      <4>3. CASE x # k
        BY <2>1, <2>9, <3>1, <4>1, <4>3
      <4> QED
        BY <4>2, <4>3
    <3> QED
      BY <3>1
  <2>11. Young("parts", r, l, nf, ng, nq)
    BY <2>7, <2>9, <2>10, <1>2 DEF Young
  <2>12. Ready(r, nf, ng, "done")
    <3>1. Remaining(q[k]) \in Nat
      BY <1>5, RemainingType
    <3>2. \A x \in DOMAIN f : f[x].age < Life[KindOf(r)] + 4 * MaxLatency
      <4>1. \A x \in DOMAIN f : f[x].age + Remaining(q[k]) < Life[KindOf(r)] + 4 * MaxLatency
        BY <2>9
      <4> QED
        BY <1>4, <2>9, <3>1, <4>1, CacheAssumption
    <3>3. v.age < Life[KindOf(r)] + 4 * MaxLatency
      BY <1>4, <1>6, <2>3, CacheAssumption
    <3>4. \A x \in DOMAIN nf : nf[x].age < Life[KindOf(r)] + 4 * MaxLatency
      BY <2>1, <3>2, <3>3
    <3> QED
      BY <1>8, <3>4 DEF Ready
  <2> QED
    BY <1>1, <1>3, <2>4, <2>5, <2>6, <2>8, <2>11, <2>12 DEF Sound
<1> QED
  BY <1>7, <1>8

LEMMA YieldsKeepInv ==
  ASSUME PriceInv, NEW w \in Workers, NEW k \in DOMAIN part[w], pc[w] = "parts",
         Running(part[w][k]), NEW v \in Value, k[2] \notin Tickers,
         v.age < Life[Kind(k)] + MaxLatency,
         PartYields(w, k, v), PartTo(w, k, "done"), left' = left, load' = load, CacheInv'
  PROVE  PriceInv'
<1>0. PICK r \in RequestType : req[w] = r
  BY Here
<1>1. PICK p, l, f, g, q :
            /\ pc[w] = p /\ req[w] = r /\ left[w] = l
            /\ found[w] = f /\ fetched[w] = g /\ part[w] = q
            /\ Sound(p, r, l, f, g, q)
  BY <1>0, Here
<1>2. PICK nf : nf = IF r.op = "indicators" THEN f ELSE Over(Only(k, v), f)
  OBVIOUS
<1>3. PICK ng : ng = IF r.op = "indicators"
                       THEN [x \in r.want |-> [v EXCEPT !.holds = r.names]]
                       ELSE [x \in DOMAIN g \ {k} |-> g[x]]
  OBVIOUS
<1>4. found' = [found EXCEPT ![w] = nf]
  <2>1. CASE r.op = "indicators"
    BY <1>1, <1>2, <2>1, Untouched DEF PartYields
  <2>2. CASE r.op # "indicators"
    BY <1>1, <1>2, <2>2 DEF PartYields, PriceInv, Arrays
  <2> QED
    BY <2>1, <2>2
<1>5. fetched' = [fetched EXCEPT ![w] = ng]
  <2>1. CASE r.op = "indicators"
    BY <1>1, <1>3, <2>1 DEF PartYields
  <2>2. CASE r.op # "indicators"
    BY <1>1, <1>3, <2>2 DEF PartYields, PriceInv, Arrays
  <2> QED
    BY <2>1, <2>2
<1>6. Sound("parts", r, l, nf, ng, Moved(q, k, "done")) /\ Ready(r, nf, ng, "done")
  <2>1. /\ Sound("parts", r, l, f, g, q) /\ k \in DOMAIN q /\ Running(q[k])
        /\ r.op = "indicators" =>
             nf = f /\ ng = [x \in r.want |-> [v EXCEPT !.holds = r.names]]
        /\ r.op # "indicators" =>
             nf = Over(Only(k, v), f) /\ ng = [x \in DOMAIN g \ {k} |-> g[x]]
    BY <1>1, <1>2, <1>3
  <2>2. /\ r \in RequestType /\ v \in Value /\ k[2] \notin Tickers
        /\ v.age < Life[Kind(k)] + MaxLatency
    OBVIOUS
  <2> QED
    BY ONLY <2>1, <2>2, PartEnds
<1> QED
  BY <1>1, <1>4, <1>5, <1>6, PartSteps DEF Stages

LEMMA ReadHistoryKeepsInv ==
  ASSUME PriceInv, NEW w \in Workers, NEW k \in DOMAIN part[w], ReadHistory(w, k)
  PROVE  PriceInv'
<1>1. /\ pc[w] = "parts" /\ part[w][k].stage = "read" /\ Running(part[w][k])
      /\ UNCHANGED <<cache, load, left>>
  BY DEF ReadHistory, Reading, Running
<1>2. CacheInv /\ CacheInv'
  BY <1>1, Untouched DEF PriceInv
<1>0. PICK r \in RequestType : req[w] = r
  BY Here
<1>3. PICK l, f, g, q :
            /\ req[w] = r /\ left[w] = l /\ found[w] = f /\ fetched[w] = g /\ part[w] = q
            /\ Sound("parts", r, l, f, g, q)
  BY <1>0, <1>1, Here
<1>4. CASE /\ k \in DOMAIN cache /\ IsHistoricalDataValid(cache[k])
           /\ PartYields(w, k, Cached(k))
           /\ PartTo(w, k, "done")
  <2>1. PICK v : v = Cached(k)
    OBVIOUS
  <2>2. /\ v \in Value /\ k[2] \notin Tickers /\ Kind(k) \in Kinds
        /\ v.age < Life[Kind(k)] + Late(Kind(k))
    BY <1>2, <1>4, <2>1, CachedFits
  <2>3. Late(Kind(k)) = MaxLatency
    <3>1. Kind(k) \in {"hourly", "daily"}
      <4>1. CASE r.op = "indicators"
        BY <1>3, <4>1 DEF Sound, InParts, Kind
      <4>2. CASE r.op # "indicators"
        <5>1. k \in r.want /\ r.op \in {"history", "compare"} /\ Kind(k) \in KindsOf(r.op)
          BY <1>3, <4>2 DEF Sound, InParts, Asked
        <5> QED
          BY <5>1 DEF KindsOf
      <4> QED
        BY <4>1, <4>2
    <3> QED
      BY <3>1 DEF Late
  <2>4. PartYields(w, k, v)
    BY <1>4, <2>1
  <2> QED
    BY <1>1, <1>2, <1>4, <2>2, <2>3, <2>4, YieldsKeepInv
<1>5. CASE /\ PartTo(w, k, "fetch")
           /\ UNCHANGED <<found, fetched>>
  <2>1. found' = [found EXCEPT ![w] = f] /\ fetched' = [fetched EXCEPT ![w] = g]
    BY <1>3, <1>5, Untouched
  <2>2. \A x \in DOMAIN g : g[x] \in Value
    BY <1>3 DEF Sound, Shape
  <2>3. Sound("parts", r, l, f, g, Moved(q, k, "fetch")) /\ Ready(r, f, g, "fetch")
    BY <1>1, <1>3, <2>2, PartGoesOn
  <2> QED
    BY <1>1, <1>2, <1>3, <1>5, <2>1, <2>3, PartSteps DEF Stages
<1> QED
  BY <1>4, <1>5 DEF ReadHistory

LEMMA FetchHistoryKeepsInv ==
  ASSUME PriceInv, NEW w \in Workers, NEW k \in DOMAIN part[w], FetchHistory(w, k)
  PROVE  PriceInv'
<1>1. /\ pc[w] = "parts" /\ part[w][k].stage = "fetch" /\ Running(part[w][k])
      /\ k[2] \in Ids /\ PartTo(w, k, "store")
      /\ UNCHANGED <<cache, load, left, found>>
  BY DEF FetchHistory, Reading, Running
<1>0. PICK r \in RequestType : req[w] = r
  BY Here
<1>2. PICK l, f, g, q :
            /\ req[w] = r /\ left[w] = l /\ found[w] = f /\ fetched[w] = g /\ part[w] = q
            /\ Sound("parts", r, l, f, g, q)
  BY <1>0, <1>1, Here
<1>3. PICK holds \in {{}, {"points"}} :
          fetched' = [fetched EXCEPT ![w] = Over(Only(k, Fresh(holds)), g)]
  BY <1>2 DEF FetchHistory, PriceInv, Arrays
<1>4. PICK v : v \in Value /\ v = Fresh(holds) /\ v.age = 0
  <2>1. PICK v : v = Fresh(holds)
    OBVIOUS
  <2>2. holds \in SUBSET (Indicators \union {"points"})
    OBVIOUS
  <2>3. v \in Value /\ v.age = 0
    BY <2>1, <2>2 DEF Fresh, Value
  <2> QED
    BY <2>1, <2>3
<1>5. PICK ng : ng = Over(Only(k, v), g)
  OBVIOUS
<1>6. /\ DOMAIN ng = DOMAIN g \union {k} /\ ng[k] = v
      /\ \A x \in DOMAIN g \ {k} : ng[x] = g[x]
  BY <1>5 DEF Over, Only
<1>7. \A x \in DOMAIN ng : ng[x] \in Value
  BY <1>2, <1>4, <1>6 DEF Sound, Shape
<1>8. k[2] \notin Tickers
  BY <1>1, CacheAssumption
<1>9. Sound("parts", r, l, f, ng, Moved(q, k, "store")) /\ Ready(r, f, ng, "store")
  <2>1. DOMAIN g \subseteq DOMAIN ng /\ \A x \in DOMAIN g : x # k => ng[x] = g[x]
    BY <1>6
  <2>2. k[2] \notin Tickers /\ k \in DOMAIN ng /\ ng[k].age = 0
    BY <1>4, <1>6, <1>8
  <2>3. k \in DOMAIN q /\ Running(q[k]) /\ q[k].stage = "fetch"
    BY <1>1, <1>2
  <2> QED
    BY <1>2, <1>7, <2>1, <2>2, <2>3, PartGoesOn
<1>10. /\ found' = [found EXCEPT ![w] = f] /\ fetched' = [fetched EXCEPT ![w] = ng]
       /\ CacheInv'
  BY <1>1, <1>2, <1>3, <1>4, <1>5, Untouched
<1> QED
  BY <1>1, <1>2, <1>9, <1>10, PartSteps DEF Stages

LEMMA StoreHistoryKeepsInv ==
  ASSUME PriceInv, NEW w \in Workers, NEW k \in DOMAIN part[w], StoreHistory(w, k)
  PROVE  PriceInv'
<1>1. /\ pc[w] = "parts" /\ part[w][k].stage = "store" /\ Running(part[w][k])
      /\ cache' = Stored(Only(k, fetched[w][k]))
      /\ PartYields(w, k, fetched[w][k]) /\ PartTo(w, k, "done")
      /\ load' = load /\ left' = left
  BY DEF StoreHistory, Reading, Running
<1>0. PICK r \in RequestType : req[w] = r
  BY Here
<1>2. PICK l, f, g, q :
            /\ req[w] = r /\ left[w] = l /\ found[w] = f /\ fetched[w] = g /\ part[w] = q
            /\ Sound("parts", r, l, f, g, q)
  BY <1>0, <1>1, Here
<1>3. PICK v : v = g[k]
  OBVIOUS
<1>4. /\ k \in DOMAIN g /\ v \in Value /\ k[2] \notin Tickers
      /\ v.age \in Nat /\ v.age <= MaxLatency
  <2>1. k \in DOMAIN q /\ q[k].stage = "store"
    BY <1>1, <1>2
  <2>2. k \in DOMAIN g /\ k[2] \notin Tickers
    BY <1>2, <2>1 DEF Sound, InParts
  <2>3. v \in Value
    BY <1>2, <1>3, <2>2 DEF Sound, Shape
  <2>4. g[k].age <= q[k].waited
    BY <1>2, <2>1 DEF Sound, Young
  <2>5. q[k].waited \in Nat /\ q[k].waited <= MaxLatency
    BY <1>2, <2>1, CacheAssumption DEF Sound, Shape
  <2> QED
    BY <1>3, <2>2, <2>3, <2>4, <2>5, CacheAssumption DEF Value
<1>5. k \in Keys /\ Kind(k) \in {"hourly", "daily"}
  <2>1. CASE r.op = "indicators"
    <3>1. PICK i \in r.want : k = <<"hourly", i[2]>>
      BY <1>2, <2>1 DEF Sound, InParts
    <3>2. i \in Keys
      BY DEF RequestType
    <3> QED
      BY <3>1, <3>2 DEF Keys, Kinds, Kind
  <2>2. CASE r.op # "indicators"
    <3>1. k \in r.want /\ r.op \in {"history", "compare"} /\ Kind(k) \in KindsOf(r.op)
      BY <1>2, <2>2 DEF Sound, InParts, Asked
    <3> QED
      BY <3>1 DEF KindsOf, RequestType
  <2> QED
    BY <2>1, <2>2
<1>6. /\ Late(Kind(k)) = MaxLatency
      /\ Life[Kind(k)] \in Nat /\ Life[Kind(k)] >= 1
  BY <1>5, LifeType DEF Late, Kinds
<1>7. CacheInv'
  <2>1. PICK one : one = Only(k, v)
    OBVIOUS
  <2>2. DOMAIN one = {k} /\ one[k] = v
    BY <2>1 DEF Only
  <2>3. \A x \in DOMAIN one : /\ x \in Keys /\ x[2] \notin Tickers /\ one[x] \in Value
                              /\ one[x].age <= Late(Kind(x))
    BY <1>4, <1>5, <1>6, <2>2
  <2>4. cache' = Stored(one) /\ CacheInv
    BY <1>1, <1>2, <1>3, <2>1 DEF PriceInv
  <2> QED
    BY <2>3, <2>4, StoredFits
<1>8. v.age < Life[Kind(k)] + MaxLatency
  BY <1>4, <1>6, CacheAssumption
<1>9. PartYields(w, k, v)
  BY <1>1, <1>2, <1>3
<1> QED
  BY <1>1, <1>4, <1>7, <1>8, <1>9, YieldsKeepInv

LEMMA HistoryFailsKeepsInv ==
  ASSUME PriceInv, NEW w \in Workers, NEW k \in DOMAIN part[w], HistoryFails(w, k)
  PROVE  PriceInv'
<1>1. /\ pc[w] = "parts" /\ Running(part[w][k]) /\ PartTo(w, k, "failed")
      /\ UNCHANGED <<cache, load, left, found, fetched>>
  BY DEF HistoryFails, Running
<1>0. PICK r \in RequestType : req[w] = r
  BY Here
<1>2. PICK l, f, g, q :
            /\ req[w] = r /\ left[w] = l /\ found[w] = f /\ fetched[w] = g /\ part[w] = q
            /\ Sound("parts", r, l, f, g, q)
  BY <1>0, <1>1, Here
<1>3. found' = [found EXCEPT ![w] = f] /\ fetched' = [fetched EXCEPT ![w] = g] /\ CacheInv'
  BY <1>1, <1>2, Untouched
<1>4. \A x \in DOMAIN g : g[x] \in Value
  BY <1>2 DEF Sound, Shape
<1>5. Sound("parts", r, l, f, g, Moved(q, k, "failed")) /\ Ready(r, f, g, "failed")
  BY <1>1, <1>2, <1>4, PartGoesOn
<1> QED
  BY <1>1, <1>2, <1>3, <1>5, PartSteps DEF Stages

-----------------------------------------------------------------------------
(* A second passes *)

LEMMA OlderFacts ==
  ASSUME NEW f, \A k \in DOMAIN f : f[k] \in Value
  PROVE  \A h : h = Older(f) =>
           /\ DOMAIN h = DOMAIN f
           /\ \A k \in DOMAIN f : h[k] \in Value /\ h[k].age = f[k].age + 1
                                  /\ h[k].holds = f[k].holds
BY DEF Older, Value

LEMMA SecondPasses ==
  ASSUME NEW p, NEW r \in RequestType, NEW l, NEW f, NEW g, NEW q, Sound(p, r, l, f, g, q),
         p \notin {"idle", "parts"} => r.waited < MaxLatency,
         \A k \in DOMAIN q : Running(q[k]) => q[k].waited < MaxLatency,
         NEW s, s = IF p \in {"idle", "parts"} THEN r ELSE [r EXCEPT !.waited = @ + 1],
         NEW nf, nf = Older(f), NEW ng, ng = Older(g),
         NEW nq, nq = [k \in DOMAIN q |-> IF Running(q[k]) THEN [q[k] EXCEPT !.waited = @ + 1]
                                          ELSE q[k]]
  PROVE  Sound(p, s, l, nf, ng, nq)
<1>1. /\ Shape(p, r, l, f, g, q) /\ Asked(p, r) /\ InOrder(p, r, l, f, g) /\ Found(r, f)
      /\ InParts(p, r, f, g, q) /\ Whole(p, r, f) /\ Young(p, r, l, f, g, q)
  BY DEF Sound
<1>2. /\ \A k \in DOMAIN f : f[k] \in Value
      /\ \A k \in DOMAIN g : g[k] \in Value
      /\ \A k \in DOMAIN q : q[k] \in [stage : Stages, waited : 0 .. MaxLatency]
  BY <1>1 DEF Shape
<1>3. /\ DOMAIN nf = DOMAIN f
      /\ \A k \in DOMAIN f : /\ nf[k] \in Value /\ nf[k].age = f[k].age + 1
                             /\ nf[k].holds = f[k].holds /\ f[k].age \in Nat
  BY <1>2, OlderFacts DEF Value
<1>4. /\ DOMAIN ng = DOMAIN g
      /\ \A k \in DOMAIN g : /\ ng[k] \in Value /\ ng[k].age = g[k].age + 1
                             /\ ng[k].holds = g[k].holds /\ g[k].age \in Nat
  BY <1>2, OlderFacts DEF Value
<1>5. /\ Same(s, r) /\ s.tries = r.tries /\ s.broken = r.broken
      /\ p \in {"idle", "parts"} => s = r
      /\ p \notin {"idle", "parts"} => s.waited = r.waited + 1
  <2>1. CASE p \in {"idle", "parts"}
    BY <2>1 DEF Same
  <2>2. CASE p \notin {"idle", "parts"}
    <3>1. r.waited + 1 \in 0 .. MaxLatency
      BY <2>2, CacheAssumption DEF RequestType
    <3>2. s = [r EXCEPT !.waited = r.waited + 1]
      BY <2>2
    <3> QED
      BY <2>2, <3>1, <3>2, Waits
  <2> QED
    BY <2>1, <2>2
<1>6. KindOf(s) = KindOf(r)
  BY <1>5, SameKind
<1>7. /\ nq = [k \in DOMAIN nq |-> nq[k]] /\ DOMAIN nq = DOMAIN q
      /\ \A k \in DOMAIN q :
            /\ nq[k] \in [stage : Stages, waited : 0 .. MaxLatency]
            /\ nq[k].stage = q[k].stage
            /\ Running(q[k]) => nq[k].waited = q[k].waited + 1
  <2>1. nq = [k \in DOMAIN nq |-> nq[k]] /\ DOMAIN nq = DOMAIN q
    OBVIOUS
  <2>2. ASSUME NEW k \in DOMAIN q
        PROVE  /\ nq[k] \in [stage : Stages, waited : 0 .. MaxLatency]
               /\ nq[k].stage = q[k].stage
               /\ Running(q[k]) => nq[k].waited = q[k].waited + 1
    <3>1. q[k] \in [stage : Stages, waited : 0 .. MaxLatency]
      BY <1>2
    <3>2. CASE Running(q[k])
      <4>1. q[k].waited + 1 \in 0 .. MaxLatency
        BY <3>1, <3>2, CacheAssumption
      <4>2. nq[k] = [q[k] EXCEPT !.waited = q[k].waited + 1]
        BY <3>2
      <4> QED
        BY <3>1, <4>1, <4>2
    <3>3. CASE ~Running(q[k])
      BY <3>1, <3>3
    <3> QED
      BY <3>2, <3>3
  <2> QED
    BY <2>1, <2>2
<1>8. Shape(p, s, l, nf, ng, nq)
  BY <1>1, <1>3, <1>4, <1>5, <1>7 DEF Shape, Same
<1>9. Asked(p, s)
  BY <1>1, <1>5 DEF Asked, Same
<1>10. InOrder(p, s, l, nf, ng)
  BY <1>1, <1>3, <1>4, <1>5 DEF InOrder, Same
<1>11. Found(s, nf) /\ Whole(p, s, nf)
  BY <1>1, <1>3, <1>5 DEF Found, Whole, Same
<1>12. InParts(p, s, nf, ng, nq)
  BY <1>1, <1>3, <1>4, <1>5, <1>7 DEF InParts, Same
<1>13. Young(p, s, l, nf, ng, nq)
  <2>1. CASE p \in {"read", "fetch", "store", "done"}
    <3>1. AgeAt(p, s, l) = AgeAt(p, r, l)
      BY <1>5, <1>6 DEF AgeAt, Same
    <3>2. AgeAt(p, r, l) \in Nat /\ Late(KindOf(r)) \in Nat
      <4>1. p # "idle" /\ l \in SUBSET r.want
        BY <1>1, <2>1 DEF Shape
      <4> QED
        BY <1>1, <4>1, AgesType, KindIs, LateType
    <3>3. r.waited \in Nat /\ s.waited = r.waited + 1
      BY <1>5, <2>1 DEF RequestType
    <3>4. \A k \in DOMAIN f : f[k].age < AgeAt(p, r, l) + r.waited
      BY <1>1, <2>1 DEF Young
    <3>5. \A k \in DOMAIN nf : nf[k].age < AgeAt(p, s, l) + s.waited
      BY <1>3, <3>1, <3>2, <3>3, <3>4
    <3>6. p = "store" => \A k \in DOMAIN g : g[k].age <= Late(KindOf(r)) - MaxLatency + r.waited
      BY <1>1 DEF Young
    <3>7. p = "store" => \A k \in DOMAIN ng : ng[k].age <= Late(KindOf(s)) - MaxLatency + s.waited
      BY <1>4, <1>6, <3>2, <3>3, <3>6, CacheAssumption
    <3> QED
      BY <2>1, <3>5, <3>7 DEF Young
  <2>2. CASE p = "batch"
    <3>1. \A k \in DOMAIN g : g[k].age <= r.waited
      BY <1>1, <2>2 DEF Young
    <3>2. r.waited \in Nat /\ s.waited = r.waited + 1
      BY <1>5, <2>2 DEF RequestType
    <3>3. \A k \in DOMAIN ng : ng[k].age <= s.waited
      BY <1>4, <3>1, <3>2
    <3> QED
      BY <2>2, <3>3 DEF Young
  <2>3. CASE p = "parts"
    <3>1. s = r /\ Life[KindOf(r)] \in Nat
      BY <1>1, <1>5, <2>3, KindIs, LifeType
    <3>2. \A k \in DOMAIN nq : nq[k].stage = "store" => ng[k].age <= nq[k].waited
      <4>1. ASSUME NEW k \in DOMAIN nq, nq[k].stage = "store"
            PROVE  ng[k].age <= nq[k].waited
        <5>1. q[k].stage = "store" /\ k \in DOMAIN g /\ g[k].age <= q[k].waited
          BY <1>1, <1>7, <2>3, <4>1 DEF Young, InParts
        <5>2. nq[k].waited = q[k].waited + 1 /\ q[k].waited \in Nat
          BY <1>2, <1>7, <4>1, <5>1, CacheAssumption DEF Running
        <5> QED
          BY <1>4, <5>1, <5>2
      <4> QED
        BY <4>1
    <3>3. \A k \in DOMAIN nf, j \in DOMAIN nq : Running(nq[j]) =>
              nf[k].age + Remaining(nq[j]) < Life[KindOf(r)] + 4 * MaxLatency
      <4>1. ASSUME NEW k \in DOMAIN nf, NEW j \in DOMAIN nq, Running(nq[j])
            PROVE  nf[k].age + Remaining(nq[j]) < Life[KindOf(r)] + 4 * MaxLatency
        <5>1. Running(q[j]) /\ nq[j].stage = q[j].stage /\ nq[j].waited = q[j].waited + 1
              /\ q[j].waited \in Nat
          BY <1>2, <1>7, <4>1, CacheAssumption DEF Running
        <5>2. f[k].age + Remaining(q[j]) < Life[KindOf(r)] + 4 * MaxLatency
          BY <1>1, <1>3, <1>7, <2>3, <5>1 DEF Young
        <5>3. Remaining(nq[j]) = Remaining(q[j]) - 1 /\ Remaining(q[j]) \in Int
          BY <5>1, CacheAssumption DEF Running, Remaining
        <5>4. f[k].age \in Nat /\ nf[k].age = f[k].age + 1
          BY <1>3
        <5> QED
          BY <3>1, <5>2, <5>3, <5>4, CacheAssumption
      <4> QED
        BY <4>1
    <3> QED
      BY <2>3, <3>1, <3>2, <3>3 DEF Young
  <2>4. CASE p \in {"idle", "fallback", "failed"}
    BY <2>4 DEF Young
  <2> QED
    BY <1>1, <2>1, <2>2, <2>3, <2>4 DEF Shape, Labels
<1> QED
  BY <1>8, <1>9, <1>10, <1>11, <1>12, <1>13 DEF Sound

LEMMA TickKeepsInv ==
  ASSUME PriceInv, Tick
  PROVE  PriceInv'
<1>1. load' = load /\ pc' = pc /\ left' = left
  BY DEF Tick
<1>2. Arrays'
  BY <1>1 DEF Tick, PriceInv, Arrays
<1>3. CacheInv'
  <2> DEFINE kept == {k \in DOMAIN cache : cache[k].ttl > 1}
  <2>1. cache' = [k \in kept |-> [cache[k] EXCEPT !.age = @ + 1, !.ttl = @ - 1]]
    BY DEF Tick
  <2>2. DOMAIN cache' = kept
        /\ \A k \in kept : cache'[k] = [cache[k] EXCEPT !.age = @ + 1, !.ttl = @ - 1]
    BY <2>1
  <2>3. ASSUME NEW k \in kept
        PROVE  /\ k \in Keys /\ k[2] \notin Tickers
               /\ cache'[k] \in [age : Nat, holds : SUBSET (Indicators \union {"points"}),
                                ttl : Nat]
               /\ cache'[k].ttl >= 1
               /\ cache'[k].age + cache'[k].ttl <= Life[Kind(k)] + Late(Kind(k))
    <3>1. /\ k \in Keys /\ k[2] \notin Tickers
          /\ cache[k] \in [age : Nat, holds : SUBSET (Indicators \union {"points"}), ttl : Nat]
          /\ cache[k].ttl > 1
          /\ cache[k].age + cache[k].ttl <= Life[Kind(k)] + Late(Kind(k))
      BY DEF PriceInv, CacheInv
    <3>2. /\ cache'[k].age = cache[k].age + 1 /\ cache'[k].ttl = cache[k].ttl - 1
          /\ cache'[k] \in [age : Nat, holds : SUBSET (Indicators \union {"points"}), ttl : Nat]
      <4>1. PICK e \in [age : Nat, holds : SUBSET (Indicators \union {"points"}), ttl : Nat] :
              e = cache[k]
        BY <3>1
      <4>2. PICK d : d = [e EXCEPT !.age = e.age + 1]
        OBVIOUS
      <4>3. /\ d \in [age : Nat, holds : SUBSET (Indicators \union {"points"}), ttl : Nat]
            /\ d.age = e.age + 1 /\ d.ttl = e.ttl
        BY <4>2
      <4>4. e.ttl - 1 \in Nat
        BY <3>1, <4>1
      <4>5. cache'[k] = [d EXCEPT !.ttl = e.ttl - 1]
        BY <2>2, <4>1, <4>2
      <4> QED
        BY <4>1, <4>3, <4>4, <4>5
    <3>3. Life[Kind(k)] \in Nat /\ Late(Kind(k)) \in Nat
      BY <3>1, LifeType, LateType DEF Keys, Kind
    <3> QED
      BY <3>1, <3>2, <3>3
  <2> QED
    BY <2>2, <2>3 DEF CacheInv
<1>4. ASSUME NEW w \in Workers
      PROVE  SoundAt(w)'
  <2>0. PICK r \in RequestType : req[w] = r
    BY Here
  <2>1. PICK p, l, f, g, q :
            /\ pc[w] = p /\ req[w] = r /\ left[w] = l
            /\ found[w] = f /\ fetched[w] = g /\ part[w] = q
            /\ Sound(p, r, l, f, g, q)
    BY <2>0, Here
  <2>2. PICK s : s = IF p \in {"idle", "parts"} THEN r ELSE [r EXCEPT !.waited = @ + 1]
    OBVIOUS
  <2>3. PICK nf : nf = Older(f)
    OBVIOUS
  <2>4. PICK ng : ng = Older(g)
    OBVIOUS
  <2>5. PICK nq : nq = [k \in DOMAIN q |-> IF Running(q[k])
                                             THEN [q[k] EXCEPT !.waited = @ + 1] ELSE q[k]]
    OBVIOUS
  <2>6. /\ pc'[w] = p /\ left'[w] = l /\ req'[w] = s /\ found'[w] = nf /\ fetched'[w] = ng
        /\ part'[w] = nq
    BY <1>1, <2>1, <2>2, <2>3, <2>4, <2>5 DEF Tick, Active, Running
  <2>7. /\ p \notin {"idle", "parts"} => r.waited < MaxLatency
        /\ \A k \in DOMAIN q : Running(q[k]) => q[k].waited < MaxLatency
    BY <2>1 DEF Tick, Active, Running
  <2>8. Sound(p, s, l, nf, ng, nq)
    BY <2>1, <2>2, <2>3, <2>4, <2>5, <2>7, SecondPasses
  <2> QED
    BY <2>6, <2>8 DEF SoundAt
<1> QED
  BY <1>1, <1>2, <1>3, <1>4 DEF PriceInv

-----------------------------------------------------------------------------
LEMMA PriceInvInit == CacheInit => PriceInv
<1> SUFFICES ASSUME CacheInit
             PROVE  PriceInv
  OBVIOUS
<1>1. NoRequest \in RequestType /\ NoRequest.op = "none" /\ NoRequest.want = {}
      /\ NoRequest.names = {}
  BY CacheAssumption DEF NoRequest, AnyRequest, RequestType
<1>2. NoValues = [k \in DOMAIN NoValues |-> NoValues[k]] /\ DOMAIN NoValues = {}
  BY DEF NoValues
<1>3. Sound("idle", NoRequest, {}, NoValues, NoValues, NoValues)
  <2>1. IsFiniteSet({})
    BY FS_EmptySet
  <2> QED
    BY <1>1, <1>2, <2>1
       DEF Sound, Shape, Labels, Asked, InOrder, Found, InParts, Whole, Young
<1>4. CacheInv /\ Arrays /\ load \in Loads
  BY <1>2 DEF CacheInit, CacheInv, Arrays
<1>5. \A w \in Workers : SoundAt(w)
  BY <1>3 DEF CacheInit, SoundAt
<1> QED
  BY <1>4, <1>5 DEF PriceInv

LEMMA PriceInvNext == PriceInv /\ [CacheNext]_cacheVars => PriceInv'
<1> SUFFICES ASSUME PriceInv, [CacheNext]_cacheVars
             PROVE  PriceInv'
  OBVIOUS
<1>1. CASE UNCHANGED cacheVars
  BY <1>1 DEF cacheVars, PriceInv, CacheInv, Arrays, SoundAt
<1>2. CASE Tick
  BY <1>2, TickKeepsInv
<1>3. ASSUME NEW w \in Workers,
             \/ GetPrices(w) \/ GetAvailableCryptos(w) \/ GetAssetInfo(w)
             \/ GetMarketStats(w) \/ GetMarketData(w) \/ SearchMarket(w) \/ GetTrending(w)
             \/ GetHistoricalPrices(w) \/ ComparePrices(w) \/ GetPriceIndicators(w)
      PROVE  PriceInv'
  BY <1>3, ClientsKeepInv
<1>4. ASSUME NEW w \in Workers,
             \/ Read(w) \/ Fetch(w) \/ Batch(w) \/ Store(w) \/ FetchFails(w) \/ FallBack(w)
             \/ RedisFails(w) \/ Return(w)
      PROVE  PriceInv'
  BY <1>4, ReadKeepsInv, FetchKeepsInv, BatchKeepsInv, StoreKeepsInv, FetchFailsKeepsInv,
     FallBackKeepsInv, RedisFailsKeepsInv, ReturnKeepsInv
<1>5. ASSUME NEW w \in Workers, NEW k \in DOMAIN part[w],
             ReadHistory(w, k) \/ FetchHistory(w, k) \/ StoreHistory(w, k) \/ HistoryFails(w, k)
      PROVE  PriceInv'
  BY <1>5, ReadHistoryKeepsInv, FetchHistoryKeepsInv, StoreHistoryKeepsInv,
     HistoryFailsKeepsInv
<1> QED
  BY <1>1, <1>2, <1>3, <1>4, <1>5 DEF CacheNext

LEMMA PriceInvHolds == CacheSpec => []PriceInv
  BY PriceInvInit, PriceInvNext, PTL DEF CacheSpec

\* An answer has a value for every name that CoinGecko knows and for no other, with the
\* indicators that were asked for, for any number of requests and any cache in between.
THEOREM CompleteAnswers == CacheSpec => []AnswersAreComplete
<1>1. PriceInv => AnswersAreComplete
  <2> SUFFICES ASSUME PriceInv, NEW w \in Workers, pc[w] = "done"
               PROVE  /\ DOMAIN found[w] \subseteq {k \in req[w].want : k[2] \notin Tickers}
                      /\ \A k \in req[w].want \ DOMAIN found[w] :
                            \/ k[2] \in Tickers
                            \/ req[w].op = "compare" /\ part[w][k].stage = "failed"
                      /\ \A k \in DOMAIN found[w] : req[w].names \subseteq found[w][k].holds
    BY DEF AnswersAreComplete, Answers
  <2>1. /\ Found(req[w], found[w])
        /\ InParts("done", req[w], found[w], fetched[w], part[w])
        /\ Whole("done", req[w], found[w])
    BY DEF PriceInv, SoundAt, Sound
  <2>2. ASSUME NEW k \in req[w].want \ DOMAIN found[w], k[2] \notin Tickers
        PROVE  req[w].op = "compare" /\ part[w][k].stage = "failed"
    <3>1. CASE req[w].op \in {"history", "compare"}
      BY <2>1, <2>2, <3>1 DEF InParts
    <3>2. CASE req[w].op \notin {"history", "compare"}
      BY <2>1, <2>2, <3>2 DEF Whole
    <3> QED
      BY <3>1, <3>2
  <2> QED
    BY <2>1, <2>2 DEF Found
<1> QED
  BY <1>1, PriceInvHolds, PTL

\* An answer is never older than the time to live of its kind and the steps of the two
\* requests that handed it on, whatever the times to live and the latency are.
THEOREM RecentAnswers == CacheSpec => []AnswersAreRecent
<1>1. PriceInv => AnswersAreRecent
  <2> SUFFICES ASSUME PriceInv, NEW w \in Workers, pc[w] = "done", NEW k \in DOMAIN found[w]
               PROVE  found[w][k].age < Bound(w)
    BY DEF AnswersAreRecent, Answers
  <2>0. PICK r \in RequestType : req[w] = r
    BY Here
  <2>1. PICK p, l, f, g, q :
            /\ pc[w] = p /\ req[w] = r /\ left[w] = l
            /\ found[w] = f /\ fetched[w] = g /\ part[w] = q
            /\ Sound(p, r, l, f, g, q)
    BY <2>0, Here
  <2>2. Asked("done", r) /\ l \in SUBSET r.want
    BY <2>1 DEF Sound, Shape
  <2> DEFINE c == Cardinality(r.want)
             life == Life[KindOf(r)]
  <2>3. c \in Nat /\ life \in Nat /\ Life["hourly"] \in Nat
    BY <2>2, AgesType
  <2>4. AgeAt("done", r, l) \in Nat
    BY <2>2, AgesType
  <2>5. f[k].age \in Nat /\ f[k].age < AgeAt("done", r, l) + r.waited
    BY <2>1 DEF Sound, Shape, Young, Value
  <2>6. r.waited \in Nat /\ r.waited <= MaxLatency
    BY CacheAssumption DEF RequestType
  <2>7. /\ MaxLatency * (c + 2) = MaxLatency * c + 2 * MaxLatency /\ MaxLatency * c \in Nat
        /\ MaxLatency * (c + 3) = MaxLatency * c + 3 * MaxLatency
    BY <2>3, Reckon
  <2>8. Bound(w) = CASE r.op = "indicators" -> Life["hourly"] + life + 3 * MaxLatency
                     [] r.op \in {"history", "compare"} -> life + 5 * MaxLatency
                     [] OTHER -> life + MaxLatency * (c + 3)
    BY <2>1 DEF Bound, KindOf
  <2>9. /\ r.op = "indicators" =>
             AgeAt("done", r, l) = Life["hourly"] + life + 2 * MaxLatency
        /\ r.op \in {"history", "compare"} => AgeAt("done", r, l) = life + 4 * MaxLatency
        /\ r.op \notin {"indicators", "history", "compare"} =>
             AgeAt("done", r, l) = life + MaxLatency * (c + 2)
    BY DEF AgeAt
  <2> HIDE DEF c, life
  <2>10. Bound(w) = AgeAt("done", r, l) + MaxLatency
    BY <2>3, <2>7, <2>8, <2>9, CacheAssumption
  <2> QED
    BY <2>1, <2>4, <2>5, <2>6, <2>10, CacheAssumption
<1> QED
  BY <1>1, PriceInvHolds, PTL

LEMMA RequestFailsNot ==
  ASSUME PriceInv, NEW v \in Workers, NEW o, NEW keys, NEW names, NEW known,
         Request(v, o, keys, names, known), NEW w \in Workers, pc[w] # "failed"
  PROVE  pc'[w] # "failed"
<1>1. pc' = [pc EXCEPT ![v] = "parts"] \/ pc' = [pc EXCEPT ![v] = "read"]
  BY DEF Request
<1> QED
  BY <1>1 DEF PriceInv, Arrays

\* A request for the list of cryptocurrencies fails only after all its tries, with no list
\* in the cache, or when Redis fails.
THEOREM FailsLast == CacheSpec => FailsOnlyAfterAllTries
<1> DEFINE Last == \A w \in Workers :
             req[w].op = "available" /\ pc[w] # "failed" /\ pc'[w] = "failed" =>
                \/ (req[w].tries = MaxRetries /\ List \notin DOMAIN cache)
                \/ req'[w].broken
<1>1. PriceInv /\ [CacheNext]_cacheVars => [Last]_cacheVars
  <2> SUFFICES ASSUME PriceInv, CacheNext, NEW w \in Workers, req[w].op = "available",
                      pc[w] # "failed", pc'[w] = "failed"
               PROVE  \/ (req[w].tries = MaxRetries /\ List \notin DOMAIN cache)
                      \/ req'[w].broken
    BY DEF cacheVars
  <2>1. CASE Tick
    BY <2>1 DEF Tick
  <2>2. ASSUME NEW v \in Workers,
               \/ GetPrices(v) \/ GetAvailableCryptos(v) \/ GetAssetInfo(v)
               \/ GetMarketStats(v) \/ GetMarketData(v) \/ SearchMarket(v) \/ GetTrending(v)
               \/ GetHistoricalPrices(v) \/ ComparePrices(v) \/ GetPriceIndicators(v)
        PROVE  FALSE
    BY <2>2, RequestFailsNot
       DEF GetPrices, GetAvailableCryptos, GetAssetInfo, GetMarketStats, GetMarketData,
           SearchMarket, GetTrending, GetHistoricalPrices, ComparePrices, GetPriceIndicators
  <2>3. ASSUME NEW v \in Workers, Read(v)
        PROVE  FALSE
    <3>1. PICK k \in left[v] :
            pc' = [pc EXCEPT ![v] = IF left'[v] # {} THEN "read"
                                    ELSE IF DOMAIN found'[v] = req[v].want THEN "done"
                                    ELSE IF req[v].op = "indicators" THEN "parts" ELSE "fetch"]
      BY <2>3 DEF Read, Goto
    <3>2. PICK np \in {"read", "done", "parts", "fetch"} : pc' = [pc EXCEPT ![v] = np]
      BY <3>1
    <3> QED
      BY <3>2 DEF PriceInv, Arrays
  <2>4. ASSUME NEW v \in Workers, Fetch(v) \/ Batch(v) \/ Store(v) \/ Return(v)
        PROVE  FALSE
    <3>1. PICK np \in {"batch", "store", "done", "idle"} : pc' = [pc EXCEPT ![v] = np]
      BY <2>4 DEF Fetch, Batch, Store, Return, Goto
    <3> QED
      BY <3>1 DEF PriceInv, Arrays
  <2>5. ASSUME NEW v \in Workers, FetchFails(v)
        PROVE  FALSE
    <3>1. v = w
      BY <2>5 DEF FetchFails, PriceInv, Arrays
    <3>2. pc' = [pc EXCEPT ![w] = IF TriesAgain(req[w].tries) THEN "fetch" ELSE "fallback"]
      BY <2>5, <3>1 DEF FetchFails
    <3> QED
      BY <3>2 DEF PriceInv, Arrays
  <2>6. ASSUME NEW v \in Workers, FallBack(v)
        PROVE  \/ (req[w].tries = MaxRetries /\ List \notin DOMAIN cache)
               \/ req'[w].broken
    <3>1. v = w
      BY <2>6 DEF FallBack, Goto, PriceInv, Arrays
    <3>2. List \notin DOMAIN cache
      BY <2>6, <3>1 DEF FallBack, Goto, PriceInv, Arrays
    <3>3. req[w].tries = MaxRetries \/ req[w].broken
      BY <2>6, <3>1 DEF FallBack, PriceInv, SoundAt, Sound, InOrder
    <3>4. PICK r \in RequestType : r = req[w]
      BY DEF PriceInv, SoundAt, Sound, Shape
    <3>5. PICK s : s = [r EXCEPT !.waited = 0]
      OBVIOUS
    <3>6. s.broken = r.broken /\ req'[w] = s
      BY <2>6, <3>1, <3>4, <3>5, Waits, CacheAssumption DEF FallBack, Goto, PriceInv, Arrays
    <3> QED
      BY <3>2, <3>3, <3>4, <3>6
  <2>7. ASSUME NEW v \in Workers, RedisFails(v)
        PROVE  req'[w].broken
    <3>1. v = w
      BY <2>7 DEF RedisFails, PriceInv, Arrays
    <3>2. PICK r \in RequestType : r = req[w]
      BY DEF PriceInv, SoundAt, Sound, Shape
    <3>3. PICK a : a = [r EXCEPT !.broken = TRUE]
      OBVIOUS
    <3>4. a \in RequestType /\ a.broken = TRUE
      BY <3>3 DEF RequestType
    <3>5. PICK s : s = [a EXCEPT !.waited = 0]
      OBVIOUS
    <3>6. s.broken = TRUE
      BY <3>4, <3>5, Waits, CacheAssumption
    <3>7. req'[w] = s
      BY <2>7, <3>1, <3>2, <3>3, <3>5 DEF RedisFails, PriceInv, Arrays
    <3> QED
      BY <3>6, <3>7
  <2>8. ASSUME NEW v \in Workers, NEW k \in DOMAIN part[v],
               ReadHistory(v, k) \/ FetchHistory(v, k) \/ StoreHistory(v, k)
               \/ HistoryFails(v, k)
        PROVE  FALSE
    <3>1. pc[v] = "parts" /\ \E stage : PartTo(v, k, stage)
      BY <2>8 DEF ReadHistory, FetchHistory, StoreHistory, HistoryFails, Reading
    <3>2. v = w
      BY <3>1 DEF PartTo, Goto, PriceInv, Arrays
    <3> QED
      BY <3>1, <3>2 DEF PriceInv, SoundAt, Sound, InParts
  <2> QED
    BY <2>1, <2>2, <2>3, <2>4, <2>5, <2>6, <2>7, <2>8 DEF CacheNext
<1> QED
  BY <1>1, PriceInvHolds, PTL DEF CacheSpec, FailsOnlyAfterAllTries
=============================================================================

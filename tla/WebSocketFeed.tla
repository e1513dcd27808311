---------------------------- MODULE WebSocketFeed ----------------------------
(***************************************************************************)
(* WebSocketService: the price stream from the exchange, its reconnection, *)
(* its connectionState$ and its shutdown.                                  *)
(*                                                                         *)
(* Every handler and timer callback runs to completion, so each is one     *)
(* action.  A socket id stands for a socket object; the id of a closed     *)
(* socket is used again.  Delays are left out: a timer that is set may     *)
(* fire at any later time.  Messages are not modelled.                     *)
(***************************************************************************)
EXTENDS Integers, FiniteSets

CONSTANTS
    MaxReconnectAttempts,  \* MAX_RECONNECT_ATTEMPTS
    ReconnectAttempts,     \* RECONNECT_ATTEMPTS, the counter's first value
    MaxErrors,             \* bound: error events
    MaxPings               \* bound: no connection is begun with this many intervals

VARIABLES
    state,      \* connectionState: "CONNECTED", "DISCONNECTED", "CONNECTING" or "ERROR"
    completed,  \* have the subjects completed
    ws,         \* this.ws
    sockets,    \* the state of every socket
    subscribed, \* sockets that the subscription was sent on
    attempts,   \* reconnectAttempts
    timers,     \* reconnections that are scheduled
    pings,      \* ping intervals that run
    pingTimeout,\* does this.pingTimeout name a running interval
    process,    \* "starting", "running" or "crashed"
    errors      \* history: error events so far

vars == <<state, completed, ws, sockets, subscribed, attempts, timers, pings,
          pingTimeout, process, errors>>

ASSUME FeedAssumption ==
    /\ MaxReconnectAttempts \in Nat
    /\ ReconnectAttempts \in Nat
    /\ MaxErrors \in Nat
    /\ MaxPings \in Nat

SocketIds == 1 .. MaxErrors + 1  \* OneConnectionPerError: never more at a time
NoSocket == 0
\* "aborting": closed before it was open, with an error event to come
SocketState == {"connecting", "open", "closing", "aborting", "closed"}

Init ==
    /\ state = "DISCONNECTED"
    /\ completed = FALSE
    /\ ws = NoSocket
    /\ sockets = [s \in SocketIds |-> "closed"]
    /\ subscribed = {}
    /\ attempts = ReconnectAttempts
    /\ timers = 0
    /\ pings = 0
    /\ pingTimeout = FALSE
    /\ process = "starting"
    /\ errors = 0

-----------------------------------------------------------------------------
\* MUTANT of Report
ReportsAhead(s) ==
    state' = IF completed THEN state ELSE IF s = "CONNECTING" THEN "CONNECTED" ELSE s

\* connectionState.next: nothing once the subject has completed.
Report(s) == state' = IF completed THEN state ELSE s

\* MUTANT of ShouldAttemptReconnect
OneAttemptFewer(n) == n + 1 < MaxReconnectAttempts

ShouldAttemptReconnect(n) == n < MaxReconnectAttempts

Scheduled(calls) ==
    Cardinality({i \in 0 .. calls - 1 : ShouldAttemptReconnect(attempts + i)})

ClearPingInterval ==
    /\ pings' = IF pingTimeout THEN pings - 1 ELSE pings
    /\ pingTimeout' = FALSE

\* MUTANT of HandleDisconnection
SchedulesTwice(calls) ==
    /\ ClearPingInterval
    /\ attempts' = attempts + Scheduled(calls)
    /\ timers' = timers + 2 * Scheduled(calls)

\* handleDisconnection, called so many times in one go.
HandleDisconnection(calls) ==
    /\ ClearPingInterval
    /\ attempts' = attempts + Scheduled(calls)
    /\ timers' = timers + Scheduled(calls)

\* initializeConnection, with the body of connect and setupPingInterval: the interval
\* that this.pingTimeout named is forgotten, and not cleared.
InitializeConnection ==
    /\ pings < MaxPings
    /\ \E s \in SocketIds :
           /\ sockets[s] = "closed"
           /\ \A r \in 1 .. s - 1 : sockets[r] # "closed"
           /\ sockets' = [sockets EXCEPT ![s] = "connecting"]
           /\ ws' = s
           /\ subscribed' = subscribed \ {s}
    /\ Report("CONNECTING")
    /\ pings' = pings + 1
    /\ pingTimeout' = TRUE

Start ==
    /\ process = "starting"
    /\ process' = "running"
    /\ InitializeConnection
    /\ UNCHANGED <<completed, attempts, timers, errors>>

TimerFires ==
    /\ process = "running"
    /\ timers > 0
    /\ timers' = timers - 1
    /\ InitializeConnection
    /\ UNCHANGED <<completed, attempts, process, errors>>

\* MUTANT of ResetAttempts
KeepAttempts == attempts' = attempts

ResetAttempts == attempts' = 0

\* subscribeToPriceUpdates: this.ws.send throws when that socket is still connecting,
\* and nothing catches it; it drops the message when the socket is closing or closed.
SubscribeToPriceUpdates(states) ==
    /\ subscribed' = IF states[ws] = "open" THEN subscribed \cup {ws} ELSE subscribed
    /\ process' = IF states[ws] = "connecting" THEN "crashed" ELSE process

Opens(s) ==
    /\ process = "running"
    /\ sockets[s] = "connecting"
    /\ sockets' = [sockets EXCEPT ![s] = "open"]
    /\ Report("CONNECTED")
    /\ ResetAttempts
    /\ SubscribeToPriceUpdates(sockets')
    /\ UNCHANGED <<completed, ws, timers, pings, pingTimeout, errors>>

ErrorEvent == errors < MaxErrors /\ errors' = errors + 1

Closed(s) == sockets' = [sockets EXCEPT ![s] = "closed"]

\* A socket that never opened: its error event and its close event, one after the other,
\* each of which calls handleDisconnection.
FailsToConnect(s) ==
    /\ process = "running"
    /\ sockets[s] \in {"connecting", "aborting"}
    /\ ErrorEvent
    /\ Closed(s)
    /\ Report("DISCONNECTED")
    /\ HandleDisconnection(2)
    /\ UNCHANGED <<completed, ws, subscribed, process>>

\* The close event of a socket that was open.
Closes(s) ==
    /\ process = "running"
    /\ sockets[s] \in {"open", "closing"}
    /\ Closed(s)
    /\ Report("DISCONNECTED")
    /\ HandleDisconnection(1)
    /\ UNCHANGED <<completed, ws, subscribed, process, errors>>

\* The error event of an open socket; its close event comes later.
ProtocolError(s) ==
    /\ process = "running"
    /\ sockets[s] = "open"
    /\ ErrorEvent
    /\ sockets' = [sockets EXCEPT ![s] = "closing"]
    /\ Report("ERROR")
    /\ HandleDisconnection(1)
    /\ UNCHANGED <<completed, ws, subscribed, process>>

\* onModuleDestroy: cleanup.  Only this.ws is closed, and no timer is cleared.
Destroy ==
    /\ process = "running"
    /\ ~completed
    /\ completed' = TRUE
    /\ ClearPingInterval
    /\ sockets' = [sockets EXCEPT ![ws] = CASE @ = "open" -> "closing"
                                            [] @ = "connecting" -> "aborting"
                                            [] OTHER -> @]
    /\ UNCHANGED <<state, ws, subscribed, attempts, timers, process, errors>>

Next ==
    \/ Start
    \/ TimerFires
    \/ Destroy
    \/ \E s \in SocketIds :
           Opens(s) \/ FailsToConnect(s) \/ Closes(s) \/ ProtocolError(s)

\* Timers fire, and a network that does not refuse a connection opens it.
Fairness ==
    /\ WF_vars(Start)
    /\ WF_vars(TimerFires)
    /\ \A s \in SocketIds : WF_vars(Opens(s))

Spec == Init /\ [][Next]_vars /\ Fairness

-----------------------------------------------------------------------------
Alive == {s \in SocketIds : sockets[s] # "closed"}
Open == {s \in SocketIds : sockets[s] = "open"}

\* Each error event costs at most one connection beyond the one that is wanted,
\* counting those that are scheduled; without errors there is never more than one.
OneConnectionPerError == timers + Cardinality(Alive) <= 1 + errors

\* Until the first error, connectionState$ says CONNECTED exactly while a socket is open,
\* that socket has sent its subscription, and one ping interval keeps it alive: a service
\* that looks connected streams, however many sockets it has closed and opened.
StateIsCurrentUntilError ==
    errors = 0 =>
        /\ pings <= 1
        /\ ~completed => /\ state = "CONNECTED" <=> Open # {}
                         /\ Open \subseteq subscribed
                         /\ state = "CONNECTED" => pings = 1

\* The service is without a connection and without a plan to make one only when its
\* attempts are used up: no mix of errors, closes and late timers loses a reconnection.
KeepsTrying ==
    process = "running" /\ Alive = {} /\ timers = 0 =>
        attempts >= MaxReconnectAttempts

\* As long as the network only closes connections, and never refuses one, the service is
\* connected again and again.
Recovers == <>(errors > 0 \/ completed) \/ []<>(state = "CONNECTED")
=============================================================================

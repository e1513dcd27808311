----------------------------- MODULE SessionBook -----------------------------
(***************************************************************************)
(* What the token tables of one user stand for: a set of open sessions,    *)
(* each named by the second it was granted in, among others.  A session    *)
(* that was ended is not opened again once a later one has been granted.   *)
(* The deletion of the account ends them all, and none is granted after it *)
(* until both the e-mail has been verified and the password chosen anew.   *)
(***************************************************************************)
EXTENDS Integers

CONSTANTS
    Tokens,      \* the sessions
    Second(_)    \* of a session

VARIABLES
    open,      \* sessions that can be continued
    granted,   \* sessions ever opened
    closed,    \* is the account deleted
    restored   \* which of "verified" and "password" it was given since

vars == <<open, granted, closed, restored>>

Init == open = {} /\ granted = {} /\ closed = FALSE /\ restored = {}

\* A login, a registration, or the new token of a refresh.
Grant(t) ==
    /\ closed => restored = {"verified", "password"}
    /\ \A u \in granted : Second(u) <= Second(t)
    /\ open' = open \union {t}
    /\ granted' = granted \union {t}
    /\ UNCHANGED <<closed, restored>>

\* A refresh, a logout, a password reset or a refused token ends all sessions.
RevokeAll == open' = {} /\ UNCHANGED <<granted, closed, restored>>

\* The seven days of some sessions are over.
Lapse ==
    /\ \E S \in SUBSET open : open' = open \ S
    /\ UNCHANGED <<granted, closed, restored>>

Close == open' = {} /\ closed' = TRUE /\ restored' = {} /\ UNCHANGED granted

Restore(f) ==
    /\ closed
    /\ restored' = restored \union {f}
    /\ UNCHANGED <<open, granted, closed>>

Next ==
    \/ \E t \in Tokens : Grant(t)
    \/ RevokeAll \/ Lapse \/ Close
    \/ \E f \in {"verified", "password"} : Restore(f)

Spec == Init /\ [][Next]_vars
=============================================================================

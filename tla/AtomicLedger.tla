----------------------------- MODULE AtomicLedger -----------------------------
(***************************************************************************)
(* What the ledger of one portfolio promises its owner: every operation    *)
(* happens at once and completely, a sale never exceeds the holding, and   *)
(* what is held is what was booked.                                        *)
(***************************************************************************)
EXTENDS Integers

CONSTANTS Symbols, Amounts

VARIABLES
    open,      \* does the portfolio exist
    holding,   \* quantity held, by symbol
    booked     \* opening quantity plus booked transactions, by symbol

vars == <<open, holding, booked>>

Init ==
    /\ open = TRUE
    /\ holding = [s \in Symbols |-> 0]
    /\ booked = [s \in Symbols |-> 0]

Move(s, n) ==
    /\ holding' = [holding EXCEPT ![s] = @ + n]
    /\ booked' = [booked EXCEPT ![s] = @ + n]
    /\ UNCHANGED open

\* A purchase, an incoming transfer, or the opening quantity of a new asset.
Credit(s, n) == open /\ Move(s, n)

\* A sale or an outgoing transfer, refused beyond the holding.
Debit(s, n) == open /\ holding[s] >= n /\ Move(s, 0 - n)

Drop(s) ==
    /\ open
    /\ holding' = [holding EXCEPT ![s] = 0]
    /\ booked' = [booked EXCEPT ![s] = 0]
    /\ UNCHANGED open

Close ==
    /\ open
    /\ open' = FALSE
    /\ holding' = [s \in Symbols |-> 0]
    /\ booked' = [s \in Symbols |-> 0]

Next ==
    \/ \E s \in Symbols, n \in Amounts : Credit(s, n) \/ Debit(s, n)
    \/ \E s \in Symbols : Drop(s)
    \/ Close

Spec == Init /\ [][Next]_vars
=============================================================================

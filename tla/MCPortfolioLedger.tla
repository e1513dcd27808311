-------------------------- MODULE MCPortfolioLedger --------------------------
(***************************************************************************)
(* Instances of PortfolioLedger for TLC: which operations clients call and *)
(* which values they send.  A behaviour is either a few requests that      *)
(* overlap, or a longer series of requests one at a time, without imports. *)
(***************************************************************************)
EXTENDS PortfolioLedger, TLC

CONSTANT MaxOverlapping   \* bound: requests of a behaviour in which they overlap

VARIABLE serial   \* is there one request at a time

mcVars == <<vars, serial>>

Bookings == {"createTransaction"}
BuySell  == {"BUY", "SELL"}

MCInit == Init /\ serial \in BOOLEAN

MCNext ==
    /\ Next
    /\ UNCHANGED serial
    /\ IF serial
       THEN /\ \A v, w \in Workers : pc'[v] # "idle" /\ pc'[w] # "idle" => v = w
            /\ \A w \in Workers : req'[w].op # "importTransactions"
       ELSE /\ started' <= MaxOverlapping
            /\ \A w \in Workers : req'[w].op = "createTransaction" => req'[w].amount # 0

MCSpec == MCInit /\ [][MCNext]_mcVars

WorkerSymmetry == Permutations(Workers)

-----------------------------------------------------------------------------
(* With one request at a time (and no import) the ledger behaves as if every     *)
(* operation were atomic, crashes between its steps included.                    *)
RefinesAtomicLedger ==
    /\ serial => Atomic!Init
    /\ [][serial => [Atomic!Next]_(Atomic!vars)]_mcVars
=============================================================================

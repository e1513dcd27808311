----------------------------- MODULE MCSessions -----------------------------
(***************************************************************************)
(* The instance of Sessions for TLC.  A behaviour is either a few requests *)
(* that overlap, of a verified user, or a longer series of requests one at *)
(* a time, from the registration on.                                       *)
(***************************************************************************)
EXTENDS Sessions, TLC

CONSTANT MaxOverlapping   \* bound: requests of a behaviour in which they overlap

VARIABLE serial   \* is there one request at a time

mcVars == <<vars, serial>>

MCInit == Init /\ serial = (account.status = "none")

MCNext ==
    /\ Next
    /\ UNCHANGED serial
    /\ IF serial THEN \A v, w \in Workers : pc'[v] # "idle" /\ pc'[w] # "idle" => v = w
       ELSE started' <= MaxOverlapping

MCSpec == MCInit /\ [][MCNext]_mcVars

Symmetry == Permutations(Workers) \union Permutations(Secrets)

-----------------------------------------------------------------------------
(* One request at a time, crashes and failing database calls included, the       *)
(* tables implement a book of sessions.                                          *)
RefinesSessionBook ==
    /\ serial => Book!Init
    /\ [][serial => [Book!Next]_(Book!vars)]_mcVars
=============================================================================

------------------------- MODULE MCPortfolioRegistry -------------------------
(***************************************************************************)
(* Instances of PortfolioRegistry for TLC.                                 *)
(***************************************************************************)
EXTENDS PortfolioRegistry, TLC

Sent == {"main", "MAIN"}
ToUpper == [n \in Sent |-> "MAIN"]

WorkerSymmetry == Permutations(Workers)
=============================================================================

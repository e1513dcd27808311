-------------------------- MODULE MCPortfolioHistory --------------------------
(***************************************************************************)
(* The instance of PortfolioHistory for TLC: what portfolios may hold.     *)
(***************************************************************************)
EXTENDS PortfolioHistory, TLC

CONSTANTS BTC, ETH

Early == {Nothing, BTC :> 4 @@ ETH :> 2, BTC :> 1 @@ ETH :> 1}
Kept == Early \union {BTC :> 1, BTC :> 9 @@ ETH :> 1}
Symmetry == Permutations(Workers)
=============================================================================

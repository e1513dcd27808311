---------------------------- MODULE MCWatchlists ----------------------------
(***************************************************************************)
(* The instance of Watchlists for TLC: two assets of one symbol in two     *)
(* portfolios, and a name with its upper-case form.                        *)
(***************************************************************************)
EXTENDS Watchlists, TLC

CONSTANTS lower, upper, a1, a2, a3, btc, eth, p1, p2

UpperCase == [n \in {lower, upper} |-> upper]
SymbolOfAsset == a1 :> btc @@ a2 :> btc @@ a3 :> eth
PortfolioOfAsset == a1 :> p1 @@ a2 :> p2 @@ a3 :> p1

Symmetry == Permutations(Workers) \union Permutations(Users)
=============================================================================

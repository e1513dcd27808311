---------------------------- MODULE MCExchangeSync ----------------------------
(***************************************************************************)
(* The instance of ExchangeSync for TLC.                                   *)
(***************************************************************************)
EXTENDS ExchangeSync, TLC

Symmetry == Permutations(Workers) \union Permutations(Users) \union Permutations(Exchanges)
=============================================================================

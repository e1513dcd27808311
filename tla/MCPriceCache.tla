----------------------------- MODULE MCPriceCache -----------------------------
(***************************************************************************)
(* Instance of PriceCache for TLC.  Only operations that share keys are    *)
(* called in one behaviour.                                                *)
(***************************************************************************)
EXTENDS PriceCache, TLC

CONSTANTS bitcoin, ethereum, BTC

GeckoIds == BTC :> bitcoin

Calls(ops, symbols) == [ops |-> ops, symbols |-> symbols]

SharedKeys ==
    {Calls({"prices"}, {bitcoin, s}) : s \in {ethereum, BTC}} \union
    {Calls({o}, {bitcoin, BTC}) : o \in {"info", "stats", "market"}} \union
    {Calls({o}, {}) : o \in {"available", "search", "trending"}} \union
    {Calls({"history", "indicators"}, {bitcoin}), Calls({"compare"}, {bitcoin, ethereum})}

Lives == [k \in Kinds |-> IF k \in {"daily", "indicators", "trending"} THEN 1 ELSE 2]

Symmetry == Permutations(Workers) \union Permutations(Indicators)
=============================================================================

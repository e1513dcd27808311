-------------------------- MODULE MCRequestPipeline --------------------------
(***************************************************************************)
(* The instance of RequestPipeline for TLC: a few overlapping requests of  *)
(* each kind, or one request for any route.                                *)
(***************************************************************************)
EXTENDS RequestPipeline, TLC

CONSTANTS ip1, ip2

Call(handler, verb, path, ip, token, body) ==
    [handler |-> handler, verb |-> verb, path |-> path, ip |-> ip, token |-> token,
     body |-> body]

\* From either address, with the token it asks for and with another, and with a field that
\* is not on the whitelist.
Overlapping == {
    Call("getPrices", "GET", <<"prices">>, ip1, "access", {"symbols"}),
    Call("getPrices", "GET", <<"prices">>, ip2, "access", {"symbols"}),
    Call("logout", "POST", <<"auth", "logout">>, ip1, "access", {}),
    Call("logout", "POST", <<"auth", "logout">>, ip1, "refresh", {}),
    Call("verify2FA", "POST", <<"auth", "verify-2fa">>, ip1, "none",
         {"totpCode", "tempToken"}) }

\* Every route, with every token, with all it needs, with what it requires, and with nothing.
Single ==
    UNION {{Call(r.handler, r.verb,
                 [j \in DOMAIN r.path |-> IF r.path[j] = "*" THEN "id" ELSE r.path[j]],
                 ip1, token, body) :
                token \in Tokens, body \in Sufficient(r) \union {r.dto.required, {}}} :
           r \in ToSet(Routes)}

BothLoads == <<[calls |-> Overlapping, max |-> 3], [calls |-> Single, max |-> 1]>>
SingleLoad == <<[calls |-> Single, max |-> 1]>>

Symmetry == Permutations(Workers)
=============================================================================

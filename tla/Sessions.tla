------------------------------- MODULE Sessions -------------------------------
(***************************************************************************)
(* The account and the refresh tokens of one user: AuthService,            *)
(* JwtRefreshStrategy and UserRepository under concurrent requests of the  *)
(* user's devices.  Users share no document, so one is modelled.           *)
(*                                                                         *)
(* A refresh token is a JWT of the user's id, e-mail, roles and name and   *)
(* the second it is signed in, and nothing else: two that are signed in    *)
(* one second with one e-mail are the same string.  So a token is a pair   *)
(* of the e-mail (the deletion replaces it) and the second.  The database  *)
(* keeps one row per call of storeRefreshToken, by the token's hash.       *)
(* Signatures are assumed genuine: a client presents a token it was given. *)
(***************************************************************************)
EXTENDS Integers, FiniteSets

CONSTANTS
    Workers,           \* requests that may be in flight at the same time
    Secrets,           \* TOTP secrets clients propose
    NoSecret,
    Ops,               \* the operations clients call
    MaxTokensPerUser,  \* maxTokensPerUser
    MaxRequests,       \* bound: requests started in a behaviour
    MaxSeconds,        \* bound: seconds of a behaviour
    MaxRows            \* bound: rows ever created

VARIABLES
    account,   \* the User document
    rows,      \* the RefreshToken documents, by id
    created,   \* row ids 1 .. created have been used
    now,       \* the present second
    lapsed,    \* tokens of the seconds up to this one are older than seven days
    links,     \* up to when links to verify and to reset have been mailed
    held,      \* tokens that clients have been given
    stored,    \* history: tokens that a generateTokens has signed and stored
    twins,     \* history: those that a second one has signed and stored
    redeemed,  \* history: tokens that were exchanged for another
    started,   \* requests started so far (for the bound)
    pc,        \* what each worker does next
    req,       \* its request
    missed     \* documents others wrote since its transaction's snapshot

documents == <<account, rows, created>>
time == <<now, lapsed, links>>
history == <<held, stored, twins, redeemed>>
vars == <<documents, time, history, started, pc, req, missed>>

Operations == {"register", "verifyEmail", "login", "refresh", "logout",
               "resetPassword", "complete2FASetup", "disableTwoFactor",
               "deleteAccount"}

ASSUME SessionsAssumption ==
    /\ NoSecret \notin Secrets
    /\ Ops \subseteq Operations
    /\ MaxTokensPerUser \in Nat
    /\ MaxRequests \in Nat
    /\ MaxSeconds \in Nat \ {0}
    /\ MaxRows \in Nat

Emails == {"own", "redacted"}
Tokens == Emails \X (1 .. MaxSeconds)
Second(t) == t[2]
Lapsed(t) == Second(t) <= lapsed
RowIds == 1 .. MaxRows
UserDoc == 0
NoToken == <<"none", 0>>

\* password: is it one that the user chose (softDeleteUser writes random bytes that are
\* no hash of anything).
NoAccount == [status |-> "none", verified |-> FALSE, password |-> FALSE,
              twoFactor |-> FALSE, secret |-> NoSecret]
NewAccount == [NoAccount EXCEPT !.status = "active", !.password = TRUE]
NoRow == [live |-> FALSE, token |-> NoToken, revoked |-> FALSE]
NewRow(t) == [live |-> TRUE, token |-> t, revoked |-> FALSE]
\* softDeleteUser replaces the e-mail.
Email == IF account.status = "deleted" THEN "redacted" ELSE "own"

\* email: the e-mail of the copy of the account that the request signs a token for.
NoRequest == [op |-> "none", token |-> NoToken, new |-> NoToken, email |-> "own",
              secret |-> NoSecret, writes |-> {}]

\* verifyRefreshToken: some row of the token is neither revoked nor expired.  (Its
\* search for a newer row of the same familyId finds none: storeRefreshToken draws a
\* new familyId for every row.)
Usable(i) == rows[i].live /\ ~rows[i].revoked /\ ~Lapsed(rows[i].token)
Valid(t) == \E i \in RowIds : rows[i].token = t /\ Usable(i)
LiveTokens == {t \in Tokens : Valid(t)}

-----------------------------------------------------------------------------
\* A visitor, or a user who has just registered and verified the e-mail.
Init ==
    /\ now = 1 /\ lapsed = 0
    /\ \/ /\ account = NoAccount /\ created = 0 /\ stored = {}
          /\ rows = [i \in RowIds |-> NoRow]
          /\ links = [verify |-> 0, reset |-> 0]
       \/ /\ account = [NewAccount EXCEPT !.verified = TRUE]
          /\ created = 1 /\ stored = {<<"own", 1>>}
          /\ rows = [i \in RowIds |-> IF i = 1 THEN NewRow(<<"own", 1>>) ELSE NoRow]
          /\ links = [verify |-> 1, reset |-> 0]
    /\ held = stored
    /\ twins = {}
    /\ redeemed = {}
    /\ started = 0
    /\ pc = [w \in Workers |-> "idle"]
    /\ req = [w \in Workers |-> NoRequest]
    /\ missed = [w \in Workers |-> {}]

Goto(w, label) == pc' = [pc EXCEPT ![w] = label]

Admit(w, r, label) ==
    /\ pc[w] = "idle"
    /\ r.op \in Ops
    /\ started < MaxRequests
    /\ started' = started + 1
    /\ req' = [req EXCEPT ![w] = r]
    /\ Goto(w, label)
    /\ UNCHANGED <<documents, time, history, missed>>

\* register: findByEmail has found nobody.
StartRegister(w) ==
    /\ account.status = "none"
    /\ Admit(w, [NoRequest EXCEPT !.op = "register"], "createUser")

\* A link can be had for the asking while mail reaches the user; after the deletion
\* there are those that were mailed before, and still work.
Linked(kind) == account.status = "active" \/ links[kind] > lapsed

\* verifyEmail has read an account that is not verified.
StartVerifyEmail(w) ==
    /\ account.status # "none"
    /\ Linked("verify")
    /\ ~account.verified
    /\ Admit(w, [NoRequest EXCEPT !.op = "verifyEmail"], "setVerified")

\* login has read the account by its e-mail (that of a deleted one is known: it is made
\* of the id) and goes on with that copy: verified, the password compared, 2FA or not.
StartLogin(w) ==
    /\ account.status # "none"
    /\ account.verified
    /\ account.password
    /\ Admit(w, [NoRequest EXCEPT !.op = "login", !.email = Email],
             IF account.twoFactor THEN "code" ELSE "sign")

StartRefresh(w) ==
    \E t \in held :
        /\ ~Lapsed(t)
        /\ Admit(w, [NoRequest EXCEPT !.op = "refresh", !.token = t], "verify")

\* The controller does not await logout: the client has its answer already.
StartLogout(w) ==
    /\ account.status # "none"
    /\ held # {}
    /\ Admit(w, [NoRequest EXCEPT !.op = "logout"], "loggedOut")

StartReset(w) ==
    /\ account.status # "none"
    /\ Linked("reset")
    /\ Admit(w, [NoRequest EXCEPT !.op = "resetPassword"], "setPassword")

\* complete2FASetup has read an account without 2FA, and verified the code.
StartSetup(w) ==
    /\ account.status # "none"
    /\ held # {}
    /\ ~account.twoFactor
    /\ \E s \in Secrets :
           Admit(w, [NoRequest EXCEPT !.op = "complete2FASetup", !.secret = s], "begin")

StartDisable(w) ==
    /\ account.status # "none"
    /\ held # {}
    /\ Admit(w, [NoRequest EXCEPT !.op = "disableTwoFactor"], "begin")

\* deleteAccount has compared the password.
StartDelete(w) ==
    /\ account.status # "none"
    /\ account.password
    /\ held # {}
    /\ Admit(w, [NoRequest EXCEPT !.op = "deleteAccount"], "begin")

Done(w) ==
    /\ Goto(w, "idle")
    /\ req' = [req EXCEPT ![w] = NoRequest]

\* Every other open transaction misses what was written just now.
Missed(w, written) ==
    missed' = [v \in Workers |->
                 IF v # w /\ pc[v] = "commit" THEN missed[v] \union written ELSE {}]

-----------------------------------------------------------------------------
(* Steps on the User document. *)

\* user.create; the unique e-mail refuses a second one.
CreateUser(w) ==
    /\ pc[w] = "createUser"
    /\ account.status = "none"
    /\ account' = NewAccount
    /\ Goto(w, "sign")
    /\ UNCHANGED <<rows, created, time, history, started, req, missed>>

\* The link that was used works on.
SetVerified(w) ==
    /\ pc[w] = "setVerified"
    /\ account' = [account EXCEPT !.verified = TRUE]
    /\ links' = [links EXCEPT !.verify = now]
    /\ Missed(w, {UserDoc})
    /\ Done(w)
    /\ UNCHANGED <<rows, created, now, lapsed, history, started>>

\* verify2FA: reads the account again; 2FA must be on, and the code right.
EnterCode(w) ==
    /\ pc[w] = "code"
    /\ account.twoFactor
    /\ account.secret # NoSecret
    /\ req' = [req EXCEPT ![w].email = Email]
    /\ Goto(w, "sign")
    /\ UNCHANGED <<documents, time, history, started, missed>>

\* updatePassword's first write; its second one is Invalidate (when that fails, Fail, the
\* answer is "Failed to update password" and the new password stays).
SetPassword(w) ==
    /\ pc[w] = "setPassword"
    /\ account' = [account EXCEPT !.password = TRUE]
    /\ Missed(w, {UserDoc})
    /\ Goto(w, "revokeAfterReset")
    /\ UNCHANGED <<rows, created, time, history, started, req>>

-----------------------------------------------------------------------------
(* Steps on the RefreshToken documents. *)

\* jwtService.sign in generateTokens.
Sign(w) ==
    /\ pc[w] = "sign"
    /\ req' = [req EXCEPT ![w].new = <<req[w].email, now>>]
    /\ Goto(w, "store")
    /\ UNCHANGED <<documents, time, history, started, missed>>

\* refreshToken.create, of the token's hash.
Store(w) ==
    /\ pc[w] = "store"
    /\ created < MaxRows
    /\ created' = created + 1
    /\ rows' = [rows EXCEPT ![created + 1] = NewRow(req[w].new)]
    /\ twins' = twins \union ({req[w].new} \intersect stored)
    /\ stored' = stored \union {req[w].new}
    /\ Goto(w, "prune")
    /\ UNCHANGED <<account, time, held, redeemed, started, req, missed>>

\* refreshTokens stores the token that generateTokens has stored already.
StoreAgain(w) ==
    /\ pc[w] = "storeAgain"
    /\ created < MaxRows
    /\ created' = created + 1
    /\ rows' = [rows EXCEPT ![created + 1] = NewRow(req[w].new)]
    /\ Goto(w, "pruneAgain")
    /\ UNCHANGED <<account, time, history, started, req, missed>>

\* The rest of storeRefreshToken: beyond maxTokensPerUser rows, those older than 7 days
\* (the lifetime of a token) are deleted.
Pruned ==
    IF Cardinality({i \in RowIds : rows[i].live}) > MaxTokensPerUser
    THEN [i \in RowIds |-> IF Lapsed(rows[i].token) THEN NoRow ELSE rows[i]]
    ELSE rows

Changed(new) == {i \in RowIds : new[i] # rows[i]}

\* MUTANT of Prune: refreshTokens answers without awaiting its second store.
PruneUnawaited(w) ==
    /\ pc[w] \in {"prune", "pruneAgain"}
    /\ rows' = Pruned
    /\ Missed(w, Changed(Pruned))
    /\ held' = held \union {req[w].new}
    /\ IF pc[w] = "prune" /\ req[w].op = "refresh"
         THEN Goto(w, "storeAgain") /\ UNCHANGED req
         ELSE Done(w)
    /\ UNCHANGED <<account, created, time, stored, twins, redeemed, started>>

\* After the second store of a refresh, or the only one of the others, the client gets
\* its token.
Prune(w) ==
    /\ pc[w] \in {"prune", "pruneAgain"}
    /\ rows' = Pruned
    /\ Missed(w, Changed(Pruned))
    /\ IF pc[w] = "prune" /\ req[w].op = "refresh"
         THEN Goto(w, "storeAgain") /\ UNCHANGED <<held, req>>
         ELSE Done(w) /\ held' = held \union {req[w].new}
    /\ UNCHANGED <<account, created, time, stored, twins, redeemed, started>>

\* MUTANT of Verify: the token's row is not looked up.
VerifyNothing(w) ==
    /\ pc[w] \in {"verify", "verifyAgain"}
    /\ Goto(w, IF pc[w] = "verify" THEN "readUser" ELSE "revoke")
    /\ UNCHANGED <<documents, time, history, started, req, missed>>

\* verifyRefreshToken, once in the strategy and once in refreshTokens; a query that fails
\* counts as a token that is not valid.
Verify(w) ==
    /\ pc[w] \in {"verify", "verifyAgain"}
    /\ \/ Goto(w, "revokeAndRefuse")
       \/ /\ Valid(req[w].token)
          /\ Goto(w, IF pc[w] = "verify" THEN "readUser" ELSE "revoke")
    /\ UNCHANGED <<documents, time, history, started, req, missed>>

\* refreshTokens reads the copy of the account that it will sign a token for.
ReadUser(w) ==
    /\ pc[w] = "readUser"
    /\ req' = [req EXCEPT ![w].email = Email]
    /\ Goto(w, "verifyAgain")
    /\ UNCHANGED <<documents, time, history, started, missed>>

\* updateMany({userId, isRevoked: false}) sets isRevoked.
Revoked == [i \in RowIds |-> [rows[i] EXCEPT !.revoked = rows[i].live]]

\* invalidateRefreshToken: of a valid refresh, before it signs the next token; of one
\* that is refused; of logout; of a password reset.
Invalidate(w) ==
    /\ pc[w] \in {"revoke", "revokeAndRefuse", "loggedOut", "revokeAfterReset"}
    /\ rows' = Revoked
    /\ Missed(w, Changed(Revoked))
    /\ IF pc[w] = "revoke"
         THEN /\ redeemed' = redeemed \union {req[w].token}
              /\ Goto(w, "sign")
              /\ UNCHANGED req
         ELSE Done(w) /\ UNCHANGED redeemed
    /\ UNCHANGED <<account, created, time, held, stored, twins, started>>

\* An error inside refreshTokens: invalidate everything "as a safety measure".
RefreshFails(w) ==
    /\ req[w].op = "refresh"
    /\ pc[w] \in {"revoke", "store", "prune", "storeAgain", "pruneAgain"}
    /\ Goto(w, "revokeAndRefuse")
    /\ UNCHANGED <<documents, time, history, started, req, missed>>

-----------------------------------------------------------------------------
(* The transactions of toggle2FA and softDeleteUser. *)

\* MUTANT of ToggleAllowed: "to avoid redundant operations" is left out.
ToggleAlways(op) == TRUE

\* toggle2FA refuses to enable what is enabled and to disable what is not.
ToggleAllowed(op) == account.twoFactor = (op = "disableTwoFactor")

\* The documents each transaction writes; softDeleteUser's updateMany takes every row.
Writes(op) ==
    {UserDoc} \union
    (IF op = "deleteAccount" THEN {i \in RowIds : rows[i].live} ELSE {})

Begin(w) ==
    /\ pc[w] = "begin"
    /\ req[w].op # "deleteAccount" => ToggleAllowed(req[w].op)
    /\ req' = [req EXCEPT ![w].writes = Writes(req[w].op)]
    /\ missed' = [missed EXCEPT ![w] = {}]
    /\ Goto(w, "commit")
    /\ UNCHANGED <<documents, time, history, started>>

\* No document it writes changed since Begin, so its reads were of the present state.
NoConflict(w) == req[w].writes \intersect missed[w] = {}

Committed(r) ==
    CASE r.op = "complete2FASetup" ->
           [account EXCEPT !.twoFactor = TRUE, !.secret = r.secret]
      [] r.op = "disableTwoFactor" ->
           [account EXCEPT !.twoFactor = FALSE, !.secret = NoSecret]
      [] OTHER ->
           [account EXCEPT !.status = "deleted", !.verified = FALSE,
                           !.password = FALSE, !.twoFactor = FALSE]

\* Links that the user may have asked for before the deletion go on working.
LinksAfter(r) ==
    IF r.op # "deleteAccount" THEN links
    ELSE IF account.status = "active"
    THEN [verify |-> IF account.verified THEN links.verify ELSE now, reset |-> now]
    ELSE links

Commit(w) ==
    /\ pc[w] = "commit"
    /\ NoConflict(w)
    /\ account' = Committed(req[w])
    /\ links' = LinksAfter(req[w])
    /\ rows' = [i \in RowIds |->
                  IF i \in req[w].writes THEN [rows[i] EXCEPT !.revoked = TRUE]
                  ELSE rows[i]]
    /\ Missed(w, req[w].writes)
    /\ Done(w)
    /\ UNCHANGED <<created, now, lapsed, history, started>>

-----------------------------------------------------------------------------
\* Seconds in which nothing is signed are left out.
Tick ==
    /\ now < MaxSeconds
    /\ \E t \in stored \union {req[w].new : w \in Workers} : Second(t) = now
    /\ now' = now + 1
    /\ UNCHANGED <<documents, lapsed, links, history, started, pc, req, missed>>

\* Seven days pass for the oldest tokens; no request takes that long.
Expire ==
    \E s \in lapsed + 1 .. now - 1 :
        /\ \A w \in Workers : req[w].new = NoToken \/ Second(req[w].new) > s
        /\ lapsed' = s
        /\ UNCHANGED <<documents, now, links, history, started, pc, req, missed>>

\* The request is refused, its database call fails, its e-mail cannot be sent (the
\* registration, reset or setup stays), or its process dies.
Fail(w) ==
    /\ pc[w] # "idle"
    /\ Done(w)
    /\ missed' = [missed EXCEPT ![w] = {}]
    /\ UNCHANGED <<documents, time, history, started>>

Start(w) ==
    \/ StartRegister(w) \/ StartVerifyEmail(w) \/ StartLogin(w) \/ StartRefresh(w)
    \/ StartLogout(w) \/ StartReset(w) \/ StartSetup(w) \/ StartDisable(w)
    \/ StartDelete(w)

Step(w) ==
    \/ CreateUser(w) \/ SetVerified(w) \/ EnterCode(w) \/ SetPassword(w)
    \/ Sign(w) \/ Store(w) \/ StoreAgain(w) \/ Prune(w) \/ Verify(w) \/ ReadUser(w)
    \/ Invalidate(w) \/ RefreshFails(w) \/ Begin(w) \/ Commit(w) \/ Fail(w)

Next == Tick \/ Expire \/ \E w \in Workers : Start(w) \/ Step(w)

Spec == Init /\ [][Next]_vars

-----------------------------------------------------------------------------
(* "Invalidate the old token BEFORE generating new ones. This closes the         *)
(* security window": however the requests that store and revoke rows interleave,  *)
(* a token that was exchanged is valid again only if two logins or refreshes      *)
(* signed it, being of one second and one e-mail.                                 *)
RedeemedStaysDead == redeemed \intersect LiveTokens \subseteq twins

(* toggle2FA "to ensure atomicity": 2FA is only turned on together with a secret, *)
(* and while it is on the secret does not change; of two setups that race only    *)
(* one is stored.                                                                 *)
SecretKept ==
    [][account'.twoFactor => /\ account'.secret # NoSecret
                             /\ account.twoFactor => account'.secret = account.secret]_vars

\* What a deleted account has been given back.
Restored ==
    {f \in {"verified", "password"} :
        account.status = "deleted" /\ IF f = "verified" THEN account.verified
                                      ELSE account.password}

(* Refinement mapping: the sessions of a user are the tokens that are valid.     *)
Book == INSTANCE SessionBook WITH
    open <- LiveTokens,
    granted <- stored,
    closed <- account.status = "deleted",
    restored <- Restored
=============================================================================

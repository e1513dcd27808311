---------------------------- MODULE Sessions_proofs ----------------------------
(***************************************************************************)
(* Proofs about Sessions, for any number of requests, tokens and rows: a   *)
(* token that was exchanged stays dead, two-factor authentication and its  *)
(* secret stay together, and requests that come one at a time implement    *)
(* the book of sessions.                                                   *)
(***************************************************************************)
EXTENDS MCSessions, TLAPS

AnySecret == Secrets \union {NoSecret}
AnyToken == Tokens \union {NoToken}
Account == [status : {"none", "active", "deleted"}, verified : BOOLEAN,
            password : BOOLEAN, twoFactor : BOOLEAN, secret : AnySecret]
Row == [live : BOOLEAN, token : AnyToken, revoked : BOOLEAN]
Docs == RowIds \union {UserDoc}
Request == [op : Operations \union {"none"}, token : AnyToken, new : AnyToken,
            email : Emails, secret : AnySecret, writes : SUBSET Docs]
Labels == {"idle", "createUser", "setVerified", "code", "sign", "store", "prune",
           "storeAgain", "pruneAgain", "verify", "readUser", "verifyAgain", "revoke",
           "revokeAndRefuse", "loggedOut", "setPassword", "revokeAfterReset", "begin",
           "commit"}

Typed ==
    /\ account \in Account
    /\ rows \in [RowIds -> Row]
    /\ created \in Nat
    /\ now \in 1 .. MaxSeconds
    /\ lapsed \in Nat
    /\ links \in [verify : Nat, reset : Nat]
    /\ held \in SUBSET AnyToken
    /\ stored \in SUBSET AnyToken
    /\ twins \in SUBSET AnyToken
    /\ redeemed \in SUBSET AnyToken
    /\ pc \in [Workers -> Labels]
    /\ req \in [Workers -> Request]
    /\ missed \in [Workers -> SUBSET Docs]

Storing == {"prune", "storeAgain", "pruneAgain"}

\* A token that a request has stored and is about to hand out is nobody's yet, unless it
\* is a twin, and a refresh was started with one that a client holds.
WorkerTokens(w) ==
    /\ pc[w] \in Storing =>
           /\ req[w].new \in stored
           /\ req[w].new \notin held \/ req[w].new \in twins
    /\ pc[w] \in {"verify", "readUser", "verifyAgain", "revoke"} => req[w].token \in held

\* Two requests that have stored one token have made it a twin.
OwnTokens ==
    \A v, w \in Workers :
        v # w /\ pc[v] \in Storing /\ pc[w] \in Storing /\ req[v].new = req[w].new =>
            req[v].new \in twins

HeldAreStored == held \subseteq stored /\ redeemed \subseteq held

\* No row of an exchanged token can be used, but of a twin.
RedeemedUnusable ==
    \A i \in RowIds : rows[i].token \in redeemed \ twins => ~Usable(i)

TokenInv ==
    /\ Typed
    /\ \A w \in Workers : WorkerTokens(w)
    /\ OwnTokens
    /\ HeldAreStored
    /\ RedeemedUnusable

\* A setup that will be committed was read, and is to be written, without 2FA on: who
\* changes the account in between writes the same document.
WorkerSecret(w) ==
    /\ pc[w] \in {"begin", "commit"} /\ req[w].op = "complete2FASetup" =>
           req[w].secret \in Secrets
    /\ pc[w] = "commit" =>
           /\ UserDoc \in req[w].writes
           /\ req[w].op = "complete2FASetup" /\ NoConflict(w) => ~account.twoFactor

SecretInv ==
    /\ Typed
    /\ account.twoFactor => account.secret # NoSecret
    /\ \A w \in Workers : WorkerSecret(w)

-----------------------------------------------------------------------------
(* Types *)

LEMMA BoundsAreNat ==
    /\ MaxSeconds \in Nat /\ MaxSeconds # 0 /\ MaxRows \in Nat /\ NoSecret \notin Secrets
  BY SessionsAssumption

LEMMA SecondsAreNat ==
    /\ \A t \in AnyToken : Second(t) \in Nat
    /\ \A t \in Tokens : t # NoToken
    /\ \A e \in Emails, n \in 1 .. MaxSeconds : <<e, n>> \in Tokens /\ Second(<<e, n>>) = n
  BY BoundsAreNat DEF AnyToken, Tokens, NoToken, Second

LEMMA NothingTyped ==
    NoAccount \in Account /\ NewAccount \in Account /\ NoRow \in Row /\ NoRequest \in Request
<1>1. NoAccount \in Account
  BY DEF NoAccount, Account, AnySecret
<1>2. NewAccount \in Account
  BY <1>1 DEF NewAccount, Account, NoAccount
<1>3. NoRow \in Row
  BY DEF NoRow, Row, AnyToken
<1>4. NoRequest \in Request
  BY DEF NoRequest, Request, AnySecret, AnyToken, Emails
<1> QED
  BY <1>1, <1>2, <1>3, <1>4

LEMMA RowIsTyped ==
    ASSUME NEW t \in AnyToken
    PROVE  NewRow(t) \in Row
  BY DEF NewRow, Row

LEMMA TypedInit == Init => Typed
<1> SUFFICES ASSUME Init
             PROVE  Typed
  OBVIOUS
<1>1. now \in 1 .. MaxSeconds /\ lapsed \in Nat
  BY BoundsAreNat DEF Init
<1>2. <<"own", 1>> \in AnyToken
  BY SecondsAreNat, BoundsAreNat DEF Emails, AnyToken
<1>3. account \in Account
  <2>1. [NewAccount EXCEPT !.verified = TRUE] \in Account
    BY NothingTyped DEF Account
  <2> QED
    BY <2>1, NothingTyped DEF Init
<1>4. rows \in [RowIds -> Row] /\ created \in Nat /\ stored \in SUBSET AnyToken
  BY <1>2, NothingTyped, RowIsTyped DEF Init
<1>5. links \in [verify : Nat, reset : Nat]
  BY DEF Init
<1>6. /\ pc \in [Workers -> Labels] /\ req \in [Workers -> Request]
      /\ missed \in [Workers -> SUBSET Docs]
      /\ held = stored /\ twins = {} /\ redeemed = {}
  BY NothingTyped DEF Init, Labels
<1> QED
  BY <1>1, <1>3, <1>4, <1>5, <1>6 DEF Typed

LEMMA AdmitTyped ==
    ASSUME Typed, NEW w \in Workers, NEW r \in Request, NEW label \in Labels,
           Admit(w, r, label)
    PROVE  Typed'
  BY DEF Admit, Typed, Goto, documents, time, history

LEMMA DoneTyped ==
    ASSUME Typed, NEW w \in Workers, Done(w)
    PROVE  /\ pc' \in [Workers -> Labels] /\ req' \in [Workers -> Request]
           /\ pc'[w] = "idle" /\ req'[w] = NoRequest
           /\ \A v \in Workers \ {w} : pc'[v] = pc[v] /\ req'[v] = req[v]
  BY NothingTyped DEF Done, Goto, Typed, Labels

LEMMA MissedTyped ==
    ASSUME Typed, NEW w \in Workers, NEW written \in SUBSET Docs, Missed(w, written)
    PROVE  /\ missed' \in [Workers -> SUBSET Docs]
           /\ \A v \in Workers \ {w} :
                  pc[v] = "commit" => missed'[v] = missed[v] \union written
  BY DEF Missed, Typed

LEMMA PrunedTyped ==
    ASSUME Typed
    PROVE  /\ Pruned \in [RowIds -> Row] /\ Changed(Pruned) \in SUBSET Docs
           /\ \A i \in RowIds : Pruned[i] = rows[i] \/ Pruned[i] = NoRow
  BY NothingTyped DEF Pruned, Changed, Docs, Typed

LEMMA RevokedTyped ==
    ASSUME Typed
    PROVE  /\ Revoked \in [RowIds -> Row] /\ Changed(Revoked) \in SUBSET Docs
           /\ \A i \in RowIds : ~Revoked[i].live \/ Revoked[i].revoked
  BY DEF Revoked, Changed, Docs, Typed, Row

Transactions == {"complete2FASetup", "disableTwoFactor", "deleteAccount"}

Entrances == {"createUser", "setVerified", "code", "sign", "verify", "loggedOut",
              "setPassword", "begin"}

\* Can the user of the account log in: a deleted one was given back both the e-mail and
\* a password.
Openable == account.status = "deleted" => account.verified /\ account.password

\* The requests that are admitted, with the label they start at.
Admission(w) ==
    \E r \in Request, label \in Labels :
        /\ Admit(w, r, label)
        /\ r.new = NoToken
        /\ label \in Entrances
        /\ label = "verify" => r.token \in held
        /\ label = "begin" /\ r.op = "complete2FASetup" => r.secret \in Secrets
        /\ label = "begin" => r.op \in Transactions
        /\ label \in {"code", "sign"} => Openable

LEMMA StartAdmits ==
    ASSUME Typed, NEW w \in Workers, Start(w)
    PROVE  Admission(w)
<1>1. ASSUME NEW op \in Operations \ {"refresh", "complete2FASetup"},
             NEW label \in Entrances \ {"verify", "code", "sign"},
             Admit(w, [NoRequest EXCEPT !.op = op], label),
             label = "begin" => op \in Transactions
      PROVE  Admission(w)
  <2> DEFINE r == [NoRequest EXCEPT !.op = op]
  <2>1. r \in Request /\ r.new = NoToken /\ r.op = op
    BY NothingTyped DEF NoRequest, Request
  <2>2. Admit(w, r, label) /\ label \in Labels
    BY <1>1 DEF Labels, Entrances
  <2> HIDE DEF r
  <2> QED
    BY <1>1, <2>1, <2>2 DEF Admission
<1>2. CASE StartRefresh(w)
  <2>1. PICK t \in held : Admit(w, [NoRequest EXCEPT !.op = "refresh", !.token = t], "verify")
    BY <1>2 DEF StartRefresh
  <2> DEFINE r == [NoRequest EXCEPT !.op = "refresh", !.token = t]
  <2>2. r \in Request /\ r.new = NoToken /\ r.token = t /\ r.op = "refresh"
    BY NothingTyped DEF NoRequest, Request, Operations, Typed
  <2>3. Admit(w, r, "verify")
    BY <2>1
  <2> HIDE DEF r
  <2> QED
    BY <2>2, <2>3 DEF Admission, Labels, Entrances
<1>3. CASE StartSetup(w)
  <2>1. PICK s \in Secrets :
           Admit(w, [NoRequest EXCEPT !.op = "complete2FASetup", !.secret = s], "begin")
    BY <1>3 DEF StartSetup
  <2> DEFINE r == [NoRequest EXCEPT !.op = "complete2FASetup", !.secret = s]
  <2>2. r \in Request /\ r.new = NoToken /\ r.secret = s /\ r.op = "complete2FASetup"
    BY NothingTyped DEF NoRequest, Request, Operations, AnySecret
  <2>3. Admit(w, r, "begin")
    BY <2>1
  <2> HIDE DEF r
  <2> QED
    BY <2>2, <2>3 DEF Admission, Labels, Entrances, Transactions
<1>4. CASE StartRegister(w)
  BY <1>1, <1>4 DEF StartRegister, Operations, Entrances
<1>5. CASE StartVerifyEmail(w)
  BY <1>1, <1>5 DEF StartVerifyEmail, Operations, Entrances
<1>6. CASE StartLogin(w)
  <2>1. Email \in Emails /\ Openable
    BY <1>6 DEF StartLogin, Email, Emails, Openable
  <2> DEFINE r == [NoRequest EXCEPT !.op = "login", !.email = Email]
  <2>2. r \in Request /\ r.new = NoToken /\ r.op = "login"
    BY <2>1, NothingTyped DEF NoRequest, Request, Operations
  <2>3. PICK label \in {"code", "sign"} : Admit(w, r, label)
    BY <1>6 DEF StartLogin
  <2> HIDE DEF r
  <2> QED
    BY <2>1, <2>2, <2>3 DEF Admission, Labels, Entrances
<1>7. CASE StartLogout(w)
  BY <1>1, <1>7 DEF StartLogout, Operations, Entrances
<1>8. CASE StartReset(w)
  BY <1>1, <1>8 DEF StartReset, Operations, Entrances
<1>9. CASE StartDisable(w)
  BY <1>1, <1>9 DEF StartDisable, Operations, Entrances, Transactions
<1>10. CASE StartDelete(w)
  BY <1>1, <1>10 DEF StartDelete, Operations, Entrances, Transactions
<1> QED
  BY <1>2, <1>3, <1>4, <1>5, <1>6, <1>7, <1>8, <1>9, <1>10 DEF Start

LEMMA CommittedTyped ==
    ASSUME Typed, NEW w \in Workers
    PROVE  Committed(req[w]) \in Account
<1>1. account \in Account /\ req[w].secret \in AnySecret
  BY DEF Typed, Request
<1>2. CASE req[w].op = "complete2FASetup"
  BY <1>1, <1>2 DEF Committed, Account
<1>3. CASE req[w].op = "disableTwoFactor"
  BY <1>1, <1>3 DEF Committed, Account, AnySecret
<1>4. CASE req[w].op \notin {"complete2FASetup", "disableTwoFactor"}
  <2>1. Committed(req[w]) = [account EXCEPT !.status = "deleted", !.verified = FALSE,
                                           !.password = FALSE, !.twoFactor = FALSE]
    BY <1>4 DEF Committed
  <2> QED
    BY <1>1, <2>1 DEF Account
<1> QED
  BY <1>2, <1>3, <1>4

LEMMA TypedStep == Typed /\ [Next]_vars => Typed'
<1> SUFFICES ASSUME Typed, [Next]_vars
             PROVE  Typed'
  OBVIOUS
<1> USE DEF history, documents, time
<1>1. ASSUME NEW w \in Workers, Start(w)
      PROVE  Typed'
  BY <1>1, StartAdmits, AdmitTyped DEF Admission
<1>2. ASSUME NEW w \in Workers, CreateUser(w) \/ Verify(w) \/ RefreshFails(w)
      PROVE  Typed'
  BY <1>2, NothingTyped DEF CreateUser, Verify, RefreshFails, Goto, Typed, Labels
<1>3. ASSUME NEW w \in Workers, SetVerified(w) \/ SetPassword(w)
      PROVE  Typed'
  <2>1. account' \in Account
    BY <1>3 DEF SetVerified, SetPassword, Typed, Account
  <2>2. missed' \in [Workers -> SUBSET Docs]
    BY <1>3, MissedTyped DEF SetVerified, SetPassword, Docs
  <2>3. pc' \in [Workers -> Labels] /\ req' \in [Workers -> Request]
    BY <1>3, DoneTyped DEF SetVerified, SetPassword, Goto, Typed, Labels
  <2>4. links' \in [verify : Nat, reset : Nat]
    BY <1>3 DEF SetVerified, SetPassword, Typed
  <2> QED
    BY <1>3, <2>1, <2>2, <2>3, <2>4 DEF SetVerified, SetPassword, Typed
<1>4. ASSUME NEW w \in Workers, EnterCode(w) \/ ReadUser(w) \/ Sign(w)
      PROVE  Typed'
  <2>1. Email \in Emails /\ <<req[w].email, now>> \in AnyToken
    BY SecondsAreNat DEF Email, Emails, Typed, Request, AnyToken
  <2>2. req' \in [Workers -> Request]
    BY <1>4, <2>1 DEF EnterCode, ReadUser, Sign, Typed, Request
  <2> QED
    BY <1>4, <2>2 DEF EnterCode, ReadUser, Sign, Goto, Typed, Labels
<1>5. ASSUME NEW w \in Workers, Store(w) \/ StoreAgain(w)
      PROVE  Typed'
  <2>1. created + 1 \in Nat /\ req[w].new \in AnyToken
    BY DEF Typed, Request
  <2>2. rows' \in [RowIds -> Row]
    BY <1>5, <2>1, RowIsTyped DEF Store, StoreAgain, Typed
  <2>3. stored' \in SUBSET AnyToken /\ twins' \in SUBSET AnyToken
    BY <1>5, <2>1 DEF Store, StoreAgain, Typed
  <2> QED
    BY <1>5, <2>1, <2>2, <2>3 DEF Store, StoreAgain, Goto, Typed, Labels
<1>6. ASSUME NEW w \in Workers, Prune(w)
      PROVE  Typed'
  <2>1. rows' \in [RowIds -> Row] /\ missed' \in [Workers -> SUBSET Docs]
    BY <1>6, PrunedTyped, MissedTyped DEF Prune
  <2>2. /\ pc' \in [Workers -> Labels] /\ req' \in [Workers -> Request]
        /\ held' \in SUBSET AnyToken
    <3>1. CASE pc[w] = "prune" /\ req[w].op = "refresh"
      BY <1>6, <3>1 DEF Prune, Goto, Typed, Labels
    <3>2. CASE ~(pc[w] = "prune" /\ req[w].op = "refresh")
      <4>1. Done(w) /\ held' = held \union {req[w].new}
        BY <1>6, <3>2 DEF Prune
      <4> QED
        BY <4>1, DoneTyped DEF Typed, Request
    <3> QED
      BY <3>1, <3>2
  <2> QED
    BY <1>6, <2>1, <2>2 DEF Prune, Typed
<1>7. ASSUME NEW w \in Workers, Invalidate(w)
      PROVE  Typed'
  <2>1. rows' \in [RowIds -> Row] /\ missed' \in [Workers -> SUBSET Docs]
    BY <1>7, RevokedTyped, MissedTyped DEF Invalidate
  <2>2. /\ pc' \in [Workers -> Labels] /\ req' \in [Workers -> Request]
        /\ redeemed' \in SUBSET AnyToken
    <3>1. CASE pc[w] = "revoke"
      <4>1. /\ redeemed' = redeemed \union {req[w].token} /\ req' = req
            /\ pc' = [pc EXCEPT ![w] = "sign"]
        BY <1>7, <3>1 DEF Invalidate, Goto
      <4> QED
        BY <4>1 DEF Typed, Request, Labels
    <3>2. CASE pc[w] # "revoke"
      <4>1. Done(w) /\ redeemed' = redeemed
        BY <1>7, <3>2 DEF Invalidate
      <4> QED
        BY <4>1, DoneTyped DEF Typed
    <3> QED
      BY <3>1, <3>2
  <2> QED
    BY <1>7, <2>1, <2>2 DEF Invalidate, Typed
<1>8. ASSUME NEW w \in Workers, Begin(w)
      PROVE  Typed'
  <2>1. Writes(req[w].op) \in SUBSET Docs
    BY DEF Writes, Docs
  <2> QED
    BY <1>8, <2>1 DEF Begin, Goto, Typed, Labels, Request
<1>9. ASSUME NEW w \in Workers, Commit(w)
      PROVE  Typed'
  <2>1. missed' \in [Workers -> SUBSET Docs]
    BY <1>9, MissedTyped DEF Commit, Typed, Request
  <2>2. rows' \in [RowIds -> Row]
    BY <1>9 DEF Commit, Typed, Row
  <2>3. links' \in [verify : Nat, reset : Nat]
    BY <1>9 DEF Commit, LinksAfter, Typed
  <2> QED
    BY <1>9, <2>1, <2>2, <2>3, DoneTyped, CommittedTyped DEF Commit, Typed
<1>10. ASSUME NEW w \in Workers, Fail(w)
      PROVE  Typed'
  BY <1>10, DoneTyped DEF Fail, Typed
<1>11. CASE Tick
  <2>1. now' \in 1 .. MaxSeconds
    BY <1>11, BoundsAreNat DEF Tick, Typed
  <2> QED
    BY <1>11, <2>1 DEF Tick, Typed
<1>12. CASE Expire
  <2>1. lapsed' \in Nat
    BY <1>12 DEF Expire, Typed
  <2> QED
    BY <1>12, <2>1 DEF Expire, Typed
<1>13. CASE UNCHANGED vars
  BY <1>13 DEF vars, Typed
<1> QED
  BY <1>1, <1>2, <1>3, <1>4, <1>5, <1>6, <1>7, <1>8, <1>9, <1>10, <1>11, <1>12, <1>13
     DEF Next, Step

-----------------------------------------------------------------------------
(* Tokens *)

\* A step of w leaves the other requests alone, and takes no change from the view of
\* their transactions.
Alone(w) ==
    \A v \in Workers \ {w} :
        /\ pc'[v] = pc[v] /\ req'[v] = req[v]
        /\ pc[v] = "commit" => missed[v] \subseteq missed'[v]

LEMMA StepsAreAlone ==
    ASSUME Typed, NEW w \in Workers, Start(w) \/ Step(w)
    PROVE  Alone(w)
<1>1. CASE Start(w)
  BY <1>1, StartAdmits DEF Admission, Admit, Goto, Typed, Alone
<1>2. CASE CreateUser(w) \/ EnterCode(w) \/ Verify(w) \/ ReadUser(w) \/ RefreshFails(w)
           \/ Begin(w) \/ Sign(w) \/ Store(w) \/ StoreAgain(w)
  BY <1>2 DEF CreateUser, EnterCode, Verify, ReadUser, RefreshFails, Begin, Sign, Store,
              StoreAgain, Goto, Typed, Alone
<1>3. CASE SetVerified(w) \/ SetPassword(w)
  <2>1. UserDoc \in Docs
    BY DEF Docs
  <2> QED
    BY <1>3, <2>1, DoneTyped, MissedTyped DEF SetVerified, SetPassword, Goto, Typed, Alone
<1>4. CASE Prune(w)
  BY <1>4, DoneTyped, MissedTyped, PrunedTyped DEF Prune, Goto, Typed, Alone
<1>5. CASE Invalidate(w)
  BY <1>5, DoneTyped, MissedTyped, RevokedTyped DEF Invalidate, Goto, Typed, Alone
<1>6. CASE Commit(w)
  BY <1>6, DoneTyped, MissedTyped DEF Commit, Typed, Request, Alone
<1>7. CASE Fail(w)
  BY <1>7, DoneTyped DEF Fail, Typed, Alone
<1> QED
  BY <1>1, <1>2, <1>3, <1>4, <1>5, <1>6, <1>7 DEF Step

\* No row comes (back) to life.
RowsDie ==
    \A i \in RowIds : Usable(i)' => Usable(i) /\ rows'[i].token = rows[i].token

LEMMA MovesKeepTokenInv ==
    ASSUME TokenInv, Typed', NEW w \in Workers, Alone(w), UNCHANGED history, RowsDie,
           pc'[w] \in Storing => pc[w] \in Storing /\ req'[w].new = req[w].new,
           WorkerTokens(w)'
    PROVE  TokenInv'
<1> USE DEF history
<1>1. \A v \in Workers : WorkerTokens(v)'
  BY DEF TokenInv, WorkerTokens, Alone
<1>2. OwnTokens'
  BY DEF TokenInv, OwnTokens, Alone
<1>3. HeldAreStored'
  BY DEF TokenInv, HeldAreStored
<1>4. RedeemedUnusable'
  BY DEF TokenInv, RedeemedUnusable, RowsDie
<1> QED
  BY <1>1, <1>2, <1>3, <1>4 DEF TokenInv

LEMMA TokenInvInit == Init => TokenInv
<1> SUFFICES ASSUME Init
             PROVE  TokenInv
  OBVIOUS
<1>1. Typed
  BY TypedInit
<1>2. \A w \in Workers : WorkerTokens(w)
  BY DEF Init, WorkerTokens, Storing
<1>3. OwnTokens
  BY DEF Init, OwnTokens, Storing
<1>4. HeldAreStored /\ RedeemedUnusable
  BY DEF Init, HeldAreStored, RedeemedUnusable
<1> QED
  BY <1>1, <1>2, <1>3, <1>4 DEF TokenInv

\* The first store of a token by a request: of one that was stored before it makes a
\* twin, and no other can have been exchanged.
LEMMA StoreKeepsTokenInv ==
    ASSUME TokenInv, Typed', NEW w \in Workers, Store(w)
    PROVE  TokenInv'
<1>1. PICK t : t = req[w].new
  OBVIOUS
<1>2. /\ stored' = stored \union {t} /\ twins' = twins \union ({t} \intersect stored)
      /\ UNCHANGED <<held, redeemed, lapsed, req>>
      /\ rows' = [rows EXCEPT ![created + 1] = NewRow(t)]
      /\ pc'[w] = "prune" /\ pc[w] = "store"
  BY <1>1 DEF Store, Goto, time, TokenInv, Typed
<1>3. Alone(w) /\ held \subseteq stored /\ redeemed \subseteq stored
  BY StepsAreAlone DEF TokenInv, HeldAreStored, Step
<1>4. \A v \in Workers : WorkerTokens(v)'
  BY <1>1, <1>2, <1>3 DEF TokenInv, WorkerTokens, Alone, Storing
<1>5. OwnTokens'
  <2>1. \A v \in Workers : pc[v] \in Storing /\ req[v].new = t => t \in twins'
    BY <1>2 DEF TokenInv, WorkerTokens
  <2>2. \A v \in Workers \ {w} : pc'[v] = pc[v]
    BY <1>3 DEF Alone
  <2> QED
    BY <1>1, <1>2, <2>1, <2>2 DEF TokenInv, OwnTokens
<1>6. HeldAreStored'
  BY <1>2 DEF TokenInv, HeldAreStored
<1>7. RedeemedUnusable'
  <2>1. t \notin redeemed \ twins'
    BY <1>2, <1>3
  <2>2. rows \in [RowIds -> Row]
    BY DEF TokenInv, Typed
  <2>3. \A i \in RowIds : rows'[i] = IF i = created + 1 THEN NewRow(t) ELSE rows[i]
    BY <1>2, <2>2
  <2>4. NewRow(t).token = t
    BY DEF NewRow
  <2>5. ASSUME NEW i \in RowIds, rows'[i].token \in redeemed \ twins'
        PROVE  ~Usable(i)'
    <3>1. rows'[i] = rows[i] /\ rows[i].token \in redeemed \ twins
      BY <1>2, <2>1, <2>3, <2>4, <2>5
    <3>2. ~Usable(i)
      BY <3>1 DEF TokenInv, RedeemedUnusable
    <3> QED
      BY <1>2, <3>1, <3>2 DEF Usable, Lapsed
  <2> QED
    BY <1>2, <2>5 DEF RedeemedUnusable
<1> QED
  BY <1>4, <1>5, <1>6, <1>7 DEF TokenInv

LEMMA StoreAgainKeepsTokenInv ==
    ASSUME TokenInv, Typed', NEW w \in Workers, StoreAgain(w)
    PROVE  TokenInv'
<1>1. PICK t : t = req[w].new
  OBVIOUS
<1>2. /\ UNCHANGED <<held, stored, twins, redeemed, lapsed, req>>
      /\ rows' = [rows EXCEPT ![created + 1] = NewRow(t)]
      /\ pc[w] = "storeAgain" /\ pc'[w] = "pruneAgain" /\ Alone(w)
  BY <1>1, StepsAreAlone DEF StoreAgain, Goto, history, time, TokenInv, Typed, Step
<1>3. \A v \in Workers : WorkerTokens(v)'
  BY <1>2 DEF TokenInv, WorkerTokens, Alone, Storing
<1>4. OwnTokens' /\ HeldAreStored'
  BY <1>2 DEF TokenInv, OwnTokens, HeldAreStored, Alone, Storing
<1>5. t \notin redeemed \ twins
  BY <1>1, <1>2 DEF TokenInv, WorkerTokens, HeldAreStored, Storing
<1>6. RedeemedUnusable'
  <2>1. rows \in [RowIds -> Row]
    BY DEF TokenInv, Typed
  <2>2. \A i \in RowIds : rows'[i] = IF i = created + 1 THEN NewRow(t) ELSE rows[i]
    BY <1>2, <2>1
  <2>3. NewRow(t).token = t
    BY DEF NewRow
  <2>4. ASSUME NEW i \in RowIds, rows'[i].token \in redeemed \ twins
        PROVE  ~Usable(i)'
    <3>1. rows'[i] = rows[i]
      BY <1>5, <2>2, <2>3, <2>4
    <3>2. ~Usable(i)
      BY <2>4, <3>1 DEF TokenInv, RedeemedUnusable
    <3> QED
      BY <1>2, <3>1, <3>2 DEF Usable, Lapsed
  <2> QED
    BY <1>2, <2>4 DEF RedeemedUnusable
<1> QED
  BY <1>3, <1>4, <1>6 DEF TokenInv

LEMMA PruneKeepsTokenInv ==
    ASSUME TokenInv, Typed', NEW w \in Workers, Prune(w)
    PROVE  TokenInv'
<1>1. RowsDie
  BY PrunedTyped DEF Prune, RowsDie, Usable, Lapsed, NoRow, TokenInv, time
<1>2. Alone(w) /\ Typed
  BY StepsAreAlone DEF Step, TokenInv
<1>3. CASE pc[w] = "prune" /\ req[w].op = "refresh"
  <2>1. UNCHANGED <<history, req>> /\ pc'[w] = "storeAgain"
    BY <1>2, <1>3 DEF Prune, Goto, Typed, history
  <2>2. WorkerTokens(w)'
    BY <1>3, <2>1 DEF TokenInv, WorkerTokens, history, Storing
  <2> QED
    BY <1>1, <1>2, <1>3, <2>1, <2>2, MovesKeepTokenInv DEF Storing
<1>4. CASE ~(pc[w] = "prune" /\ req[w].op = "refresh")
  <2>1. PICK t : t = req[w].new
    OBVIOUS
  <2>2. /\ UNCHANGED <<stored, twins, redeemed>> /\ held' = held \union {t}
        /\ pc[w] \in Storing /\ pc'[w] = "idle"
    BY <1>2, <1>4, <2>1, DoneTyped DEF Prune, Storing
  <2>3. t \in stored
    BY <2>1, <2>2 DEF TokenInv, WorkerTokens
  <2>4. WorkerTokens(w)'
    BY <2>2 DEF WorkerTokens, Storing
  <2>5. ASSUME NEW v \in Workers, v # w
        PROVE  WorkerTokens(v)'
    <3>1. pc[v] \in Storing /\ req[v].new = t => t \in twins
      BY <2>1, <2>2, <2>5 DEF TokenInv, OwnTokens
    <3> QED
      BY <1>2, <2>2, <2>5, <3>1 DEF TokenInv, WorkerTokens, Alone
  <2>6. OwnTokens'
    BY <1>2, <2>2 DEF TokenInv, OwnTokens, Alone, Storing
  <2>7. HeldAreStored'
    BY <2>2, <2>3 DEF TokenInv, HeldAreStored
  <2>8. RedeemedUnusable'
    BY <1>1, <2>2 DEF TokenInv, RedeemedUnusable, RowsDie
  <2> QED
    BY <2>4, <2>5, <2>6, <2>7, <2>8 DEF TokenInv
<1> QED
  BY <1>3, <1>4

LEMMA InvalidateKeepsTokenInv ==
    ASSUME TokenInv, Typed', NEW w \in Workers, Invalidate(w)
    PROVE  TokenInv'
<1>1. \A i \in RowIds : ~Usable(i)'
  BY RevokedTyped DEF Invalidate, Usable, TokenInv
<1>2. Alone(w) /\ Typed
  BY StepsAreAlone DEF Step, TokenInv
<1>3. CASE pc[w] = "revoke"
  <2>1. /\ redeemed' = redeemed \union {req[w].token}
        /\ UNCHANGED <<stored, twins, held, req>> /\ pc'[w] = "sign"
    BY <1>2, <1>3 DEF Invalidate, Goto, Typed
  <2>2. req[w].token \in held
    BY <1>3 DEF TokenInv, WorkerTokens
  <2>3. \A v \in Workers : WorkerTokens(v)'
    BY <1>2, <2>1 DEF TokenInv, WorkerTokens, Alone, Storing
  <2>4. OwnTokens' /\ HeldAreStored' /\ RedeemedUnusable'
    BY <1>1, <1>2, <2>1, <2>2
       DEF TokenInv, OwnTokens, HeldAreStored, RedeemedUnusable, Alone, Storing
  <2> QED
    BY <2>3, <2>4 DEF TokenInv
<1>4. CASE pc[w] # "revoke"
  <2>1. UNCHANGED history /\ pc'[w] = "idle"
    BY <1>2, <1>4, DoneTyped DEF Invalidate, history
  <2>2. WorkerTokens(w)'
    BY <2>1 DEF WorkerTokens, Storing
  <2> QED
    BY <1>1, <1>2, <2>1, <2>2, MovesKeepTokenInv DEF RowsDie, Storing
<1> QED
  BY <1>3, <1>4

LEMMA StartKeepsTokenInv ==
    ASSUME TokenInv, Typed', NEW w \in Workers, Start(w)
    PROVE  TokenInv'
<1>1. Typed /\ Alone(w)
  BY StepsAreAlone DEF TokenInv
<1>2. PICK r \in Request, label \in Labels :
         /\ Admit(w, r, label)
         /\ label \in Entrances
         /\ label = "verify" => r.token \in held
  BY <1>1, StartAdmits DEF Admission
<1>3. /\ UNCHANGED <<history, rows, lapsed>>
      /\ pc'[w] = label /\ req'[w] = r
  BY <1>1, <1>2 DEF Admit, Goto, history, documents, time, Typed
<1>4. WorkerTokens(w)'
  BY <1>2, <1>3 DEF WorkerTokens, Entrances, Storing, history
<1>5. RowsDie
  BY <1>3 DEF RowsDie, Usable, Lapsed
<1> QED
  BY <1>1, <1>2, <1>3, <1>4, <1>5, MovesKeepTokenInv DEF Entrances, Storing

\* The steps that touch no row and keep their request's tokens, or sign one.
LEMMA PassKeepsTokenInv ==
    ASSUME TokenInv, Typed', NEW w \in Workers,
           CreateUser(w) \/ EnterCode(w) \/ SetPassword(w) \/ Verify(w) \/ ReadUser(w)
             \/ RefreshFails(w) \/ Begin(w) \/ Sign(w)
    PROVE  TokenInv'
<1>1. Typed /\ Alone(w)
  BY StepsAreAlone DEF TokenInv, Step
<1>2. UNCHANGED <<history, rows, lapsed>>
  BY DEF CreateUser, EnterCode, SetPassword, Verify, ReadUser, RefreshFails, Begin, Sign,
         documents, time
<1>3. req'[w].token = req[w].token
  BY <1>1 DEF CreateUser, EnterCode, SetPassword, Verify, ReadUser, RefreshFails, Begin,
              Sign, Typed, Request
<1>4. /\ pc'[w] \notin Storing
      /\ pc'[w] \in {"verify", "readUser", "verifyAgain", "revoke"} =>
             pc[w] \in {"verify", "readUser", "verifyAgain"}
  BY <1>1 DEF CreateUser, EnterCode, SetPassword, Verify, ReadUser, RefreshFails, Begin,
              Sign, Goto, Typed, Storing
<1>5. WorkerTokens(w)'
  BY <1>2, <1>3, <1>4 DEF TokenInv, WorkerTokens, history
<1>6. RowsDie
  BY <1>2 DEF RowsDie, Usable, Lapsed
<1> QED
  BY <1>1, <1>2, <1>4, <1>5, <1>6, MovesKeepTokenInv

LEMMA FinishKeepsTokenInv ==
    ASSUME TokenInv, Typed', NEW w \in Workers, SetVerified(w) \/ Commit(w) \/ Fail(w)
    PROVE  TokenInv'
<1>1. Typed /\ Alone(w)
  BY StepsAreAlone DEF TokenInv, Step
<1>2. UNCHANGED <<history, lapsed>> /\ Done(w)
  BY DEF SetVerified, Commit, Fail, documents, time
<1>3. RowsDie
  BY <1>1, <1>2 DEF SetVerified, Commit, Fail, documents, RowsDie, Usable, Lapsed, Typed, Row
<1>4. pc'[w] = "idle"
  BY <1>1, <1>2, DoneTyped
<1>5. WorkerTokens(w)'
  BY <1>4 DEF WorkerTokens, Storing
<1> QED
  BY <1>1, <1>2, <1>3, <1>4, <1>5, MovesKeepTokenInv DEF Storing

\* Time only ends what is usable.
LEMMA TimeEndsRows ==
    ASSUME Typed, Expire
    PROVE  \A t \in AnyToken : Lapsed(t) => Lapsed(t)'
<1>1. lapsed' > lapsed /\ lapsed \in Nat /\ lapsed' \in Nat
  BY DEF Expire, Typed
<1> QED
  BY <1>1, SecondsAreNat DEF Lapsed

LEMMA TokenInvStep == TokenInv /\ [Next]_vars => TokenInv'
<1> SUFFICES ASSUME TokenInv, [Next]_vars
             PROVE  TokenInv'
  OBVIOUS
<1>1. Typed /\ Typed'
  BY TypedStep DEF TokenInv
<1>2. ASSUME NEW w \in Workers, Start(w)
      PROVE  TokenInv'
  BY <1>1, <1>2, StartKeepsTokenInv
<1>3. ASSUME NEW w \in Workers, Step(w)
      PROVE  TokenInv'
  BY <1>1, <1>3, StoreKeepsTokenInv, StoreAgainKeepsTokenInv, PruneKeepsTokenInv,
     InvalidateKeepsTokenInv, PassKeepsTokenInv, FinishKeepsTokenInv DEF Step
<1>4. CASE Tick \/ Expire \/ UNCHANGED vars
  <2>1. UNCHANGED <<history, rows, pc, req>>
    BY <1>4 DEF Tick, Expire, vars, documents, history
  <2>2. \A i \in RowIds : Usable(i)' => Usable(i)
    <3>1. CASE Expire
      BY <1>1, <2>1, <3>1, TimeEndsRows DEF Usable, Typed, Row
    <3>2. CASE UNCHANGED lapsed
      BY <2>1, <3>2 DEF Usable, Lapsed
    <3> QED
      BY <1>4, <3>1, <3>2 DEF Tick, vars, time
  <2> QED
    BY <1>1, <2>1, <2>2
       DEF TokenInv, WorkerTokens, OwnTokens, HeldAreStored, RedeemedUnusable, history
<1> QED
  BY <1>2, <1>3, <1>4 DEF Next

(* For any number of requests, tokens and rows, and wherever requests fail: a refresh  *)
(* token that was exchanged is valid again only if two logins or refreshes signed it,  *)
(* in one second and for one e-mail (AuthService.refreshTokens, "Invalidate the old    *)
(* token BEFORE generating new ones").                                                 *)
THEOREM ExchangedStaysDead == Spec => []RedeemedStaysDead
<1>1. TokenInv => RedeemedStaysDead
  BY DEF TokenInv, RedeemedUnusable, RedeemedStaysDead, LiveTokens, Valid
<1> QED
  BY <1>1, TokenInvInit, TokenInvStep, PTL DEF Spec

-----------------------------------------------------------------------------
(* Two-factor authentication *)

\* Steps that do not turn 2FA on, and leave the secret of an account that has it.
LEMMA MovesKeepSecretInv ==
    ASSUME SecretInv, Typed', NEW w \in Workers, Alone(w),
           account'.twoFactor => account.twoFactor /\ account'.secret = account.secret,
           WorkerSecret(w)'
    PROVE  SecretInv'
<1>1. ASSUME NEW v \in Workers \ {w}
      PROVE  WorkerSecret(v)'
  <2>1. WorkerSecret(v)
    BY DEF SecretInv
  <2>2. pc[v] = "commit" /\ NoConflict(v)' => NoConflict(v)
    BY DEF NoConflict, Alone
  <2> QED
    BY <2>1, <2>2 DEF WorkerSecret, Alone
<1> QED
  BY <1>1 DEF SecretInv

LEMMA BeginSecret ==
    ASSUME SecretInv, NEW w \in Workers, Begin(w)
    PROVE  WorkerSecret(w)'
<1>1. /\ pc[w] = "begin" /\ pc'[w] = "commit" /\ account' = account
      /\ req'[w].op = req[w].op /\ req'[w].secret = req[w].secret
      /\ req'[w].writes = Writes(req[w].op)
      /\ req[w].op # "deleteAccount" => ToggleAllowed(req[w].op)
  BY DEF Begin, Goto, documents, SecretInv, Typed, Request
<1>2. req[w].op = "complete2FASetup" => req[w].secret \in Secrets /\ ~account.twoFactor
  BY <1>1 DEF SecretInv, WorkerSecret, ToggleAllowed
<1>3. UserDoc \in Writes(req[w].op)
  BY DEF Writes
<1> QED
  BY <1>1, <1>2, <1>3 DEF WorkerSecret

\* A commit of a setup turns 2FA on with a secret; any other turns it off.
LEMMA CommitSecret ==
    ASSUME SecretInv, NEW w \in Workers, Commit(w), account'.twoFactor
    PROVE  ~account.twoFactor /\ account'.secret \in Secrets
<1>1. pc[w] = "commit" /\ NoConflict(w) /\ account' = Committed(req[w])
  BY DEF Commit
<1>2. account \in Account
  BY DEF SecretInv, Typed
<1>3. req[w].op = "complete2FASetup"
  <2>1. CASE req[w].op = "disableTwoFactor"
    BY <1>1, <1>2, <2>1 DEF Committed, Account
  <2>2. CASE req[w].op \notin {"complete2FASetup", "disableTwoFactor"}
    <3>1. Committed(req[w]) = [account EXCEPT !.status = "deleted", !.verified = FALSE,
                                             !.password = FALSE, !.twoFactor = FALSE]
      BY <2>2 DEF Committed
    <3> QED
      BY <1>1, <1>2, <3>1 DEF Account
  <2> QED
    BY <2>1, <2>2
<1>4. WorkerSecret(w)
  BY DEF SecretInv
<1>5. account'.secret = req[w].secret
  BY <1>1, <1>2, <1>3 DEF Committed, Account
<1> QED
  BY <1>1, <1>3, <1>4, <1>5 DEF WorkerSecret

LEMMA CommitKeepsSecretInv ==
    ASSUME SecretInv, Typed', NEW w \in Workers, Commit(w)
    PROVE  SecretInv'
<1>1. /\ Alone(w) /\ pc[w] = "commit" /\ Done(w) /\ Missed(w, req[w].writes)
      /\ UserDoc \in req[w].writes /\ req[w].writes \in SUBSET Docs /\ Typed
  BY StepsAreAlone DEF Commit, SecretInv, WorkerSecret, Step, Typed, Request
<1>2. account'.twoFactor => account'.secret # NoSecret
  BY CommitSecret, BoundsAreNat
<1>3. WorkerSecret(w)'
  BY <1>1, DoneTyped DEF WorkerSecret
<1>4. ASSUME NEW v \in Workers \ {w}
      PROVE  WorkerSecret(v)'
  <2>1. WorkerSecret(v) /\ pc'[v] = pc[v] /\ req'[v] = req[v]
    BY <1>1 DEF SecretInv, Alone
  <2>2. ASSUME pc[v] = "commit"
        PROVE  ~NoConflict(v)'
    <3>1. UserDoc \in req[v].writes
      BY <2>1, <2>2 DEF WorkerSecret
    <3>2. UserDoc \in missed'[v]
      BY <1>1, <2>2, MissedTyped
    <3> QED
      BY <2>1, <3>1, <3>2 DEF NoConflict
  <2> QED
    BY <2>1, <2>2 DEF WorkerSecret
<1> QED
  BY <1>2, <1>3, <1>4 DEF SecretInv

\* All other steps leave 2FA as it is, or create an account without it.
LEMMA OthersLeaveSecret ==
    ASSUME Typed, NEW w \in Workers, Start(w) \/ Step(w), ~Commit(w)
    PROVE  account'.twoFactor => account.twoFactor /\ account'.secret = account.secret
<1>1. account \in Account
  BY DEF Typed
<1>2. CASE Start(w)
  BY <1>2, StartAdmits DEF Admission, Admit, documents
<1>3. CASE CreateUser(w)
  BY <1>3 DEF CreateUser, NewAccount, NoAccount
<1>4. CASE SetVerified(w) \/ SetPassword(w)
  BY <1>1, <1>4 DEF SetVerified, SetPassword, Account
<1>5. CASE Step(w) /\ ~(CreateUser(w) \/ SetVerified(w) \/ SetPassword(w) \/ Commit(w))
  BY <1>5 DEF Step, EnterCode, ReadUser, Sign, Store, StoreAgain, Prune, Verify, Invalidate,
              RefreshFails, Begin, Fail, documents
<1> QED
  BY <1>2, <1>3, <1>4, <1>5

LEMMA SecretInvInit == Init => SecretInv
<1> SUFFICES ASSUME Init
             PROVE  SecretInv
  OBVIOUS
<1>1. ~account.twoFactor
  <2>1. account = NoAccount \/ account = [NewAccount EXCEPT !.verified = TRUE]
    BY DEF Init
  <2>2. ~NoAccount.twoFactor
    BY DEF NoAccount
  <2>3. ~[NewAccount EXCEPT !.verified = TRUE].twoFactor
    BY DEF NewAccount, NoAccount
  <2> QED
    BY <2>1, <2>2, <2>3
<1>2. \A w \in Workers : WorkerSecret(w)
  BY DEF Init, WorkerSecret
<1> QED
  BY <1>1, <1>2, TypedInit DEF SecretInv

LEMMA SecretInvStep == SecretInv /\ [Next]_vars => SecretInv'
<1> SUFFICES ASSUME SecretInv, [Next]_vars
             PROVE  SecretInv'
  OBVIOUS
<1>1. Typed /\ Typed'
  BY TypedStep DEF SecretInv
<1>2. ASSUME NEW w \in Workers, Start(w) \/ Step(w), ~Commit(w)
      PROVE  SecretInv'
  <2>1. WorkerSecret(w)'
    <3>1. CASE Start(w)
      <4>1. PICK r \in Request, label \in Labels :
               /\ Admit(w, r, label)
               /\ label \in Entrances
               /\ label = "begin" /\ r.op = "complete2FASetup" => r.secret \in Secrets
        BY <1>1, <3>1, StartAdmits DEF Admission
      <4>2. pc'[w] = label /\ req'[w] = r
        BY <1>1, <4>1 DEF Admit, Goto, Typed
      <4> QED
        BY <4>1, <4>2 DEF WorkerSecret, Entrances
    <3>2. CASE Begin(w)
      BY <3>2, BeginSecret
    <3>3. CASE Step(w) /\ ~Begin(w)
      <4>1. pc'[w] \notin {"begin", "commit"}
        BY <1>1, <1>2, <3>3, DoneTyped
           DEF Step, CreateUser, SetVerified, EnterCode, SetPassword, Sign, Store,
               StoreAgain, Prune, Verify, ReadUser, Invalidate, RefreshFails, Fail, Goto, Typed
      <4> QED
        BY <4>1 DEF WorkerSecret
    <3> QED
      BY <1>2, <3>1, <3>2, <3>3
  <2> QED
    BY <1>1, <1>2, <2>1, StepsAreAlone, OthersLeaveSecret, MovesKeepSecretInv
<1>3. ASSUME NEW w \in Workers, Commit(w)
      PROVE  SecretInv'
  BY <1>1, <1>3, CommitKeepsSecretInv
<1>4. CASE Tick \/ Expire \/ UNCHANGED vars
  <2>1. UNCHANGED <<account, pc, req, missed>>
    BY <1>4 DEF Tick, Expire, vars, documents
  <2> QED
    BY <1>1, <2>1 DEF SecretInv, WorkerSecret, NoConflict
<1> QED
  BY <1>2, <1>3, <1>4 DEF Next

(* For any number of requests that overlap: two-factor authentication is on only with *)
(* a secret, and the secret does not change while it is (UserRepository.toggle2FA,     *)
(* whose transactions exclude each other and every other writer of the account).      *)
THEOREM TwoFactorKeepsSecret == Spec => SecretKept
<1> DEFINE Kept == account'.twoFactor =>
                     /\ account'.secret # NoSecret
                     /\ account.twoFactor => account'.secret = account.secret
<1>1. SecretInv /\ SecretInv' /\ [Next]_vars => [Kept]_vars
  <2> SUFFICES ASSUME SecretInv, SecretInv', Next
               PROVE  Kept
    OBVIOUS
  <2>1. account'.twoFactor => account'.secret # NoSecret
    BY DEF SecretInv
  <2>2. ASSUME NEW w \in Workers, Start(w) \/ Step(w)
        PROVE  account'.twoFactor /\ account.twoFactor => account'.secret = account.secret
    BY <2>2, CommitSecret, OthersLeaveSecret DEF SecretInv
  <2>3. CASE Tick \/ Expire
    BY <2>1, <2>3 DEF Tick, Expire, documents
  <2> QED
    BY <2>1, <2>2, <2>3 DEF Next
<1> QED
  BY <1>1, SecretInvInit, SecretInvStep, PTL DEF Spec, SecretKept

-----------------------------------------------------------------------------
(* Sessions *)

\* A token that was signed last and is not over.
Storable(t) ==
    /\ t \in Tokens
    /\ ~Lapsed(t)
    /\ Second(t) <= now
    /\ \A u \in stored : Second(u) <= Second(t)

\* What one request at a time knows of the tables.
AtWork(w) ==
    /\ pc[w] \in {"code", "sign", "store", "prune", "storeAgain", "pruneAgain", "revoke"} =>
           Openable
    /\ pc[w] = "store" => Storable(req[w].new)
    /\ pc[w] \in {"prune", "storeAgain"} => Valid(req[w].new)
    /\ pc[w] \in {"begin", "commit"} => req[w].op \in Transactions
    /\ pc[w] = "commit" => req[w].writes = Writes(req[w].op)

OneAtWork == \A v, w \in Workers : pc[v] # "idle" /\ pc[w] # "idle" => v = w
FreshRows == \A i \in RowIds : i > created => ~rows[i].live
DeletedIsOver == ~Openable => \A i \in RowIds : ~Usable(i)
InTime == lapsed < now /\ \A u \in stored : Second(u) <= now

Tables == FreshRows /\ DeletedIsOver /\ InTime

BookInv ==
    /\ Typed
    /\ serial \in BOOLEAN
    /\ serial => OneAtWork /\ Tables /\ \A w \in Workers : AtWork(w)

LEMMA BookInvInit == MCInit => BookInv
<1> SUFFICES ASSUME MCInit
             PROVE  BookInv
  OBVIOUS
<1>1. Typed /\ serial \in BOOLEAN /\ Init
  BY TypedInit DEF MCInit
<1>2. ASSUME serial
      PROVE  OneAtWork /\ Tables /\ \A w \in Workers : AtWork(w)
  <2>1. account.status = "none"
    BY <1>2 DEF MCInit
  <2>2. NoAccount.status = "none" /\ [NewAccount EXCEPT !.verified = TRUE].status = "active"
    BY DEF NewAccount, NoAccount
  <2>3. stored = {} /\ rows = [i \in RowIds |-> NoRow] /\ now = 1 /\ lapsed = 0
    BY <1>1, <2>1, <2>2 DEF Init
  <2>4. Tables
    BY <2>3 DEF Tables, FreshRows, DeletedIsOver, InTime, Usable, NoRow
  <2>5. OneAtWork /\ \A w \in Workers : AtWork(w)
    BY <1>1 DEF Init, OneAtWork, AtWork
  <2> QED
    BY <2>4, <2>5
<1> QED
  BY <1>1, <1>2 DEF BookInv

\* The sessions after each kind of step on the rows.
LEMMA FreshRowIsSession ==
    ASSUME Typed, FreshRows, NEW t \in AnyToken, ~Lapsed(t), created < MaxRows,
           UNCHANGED lapsed, rows' = [rows EXCEPT ![created + 1] = NewRow(t)]
    PROVE  /\ \A i \in RowIds : i # created + 1 => rows'[i] = rows[i]
           /\ created + 1 \in RowIds /\ rows'[created + 1] = NewRow(t)
           /\ LiveTokens' = LiveTokens \union ({t} \intersect Tokens)
<1>1. created \in Nat /\ created + 1 \in RowIds /\ rows \in [RowIds -> Row]
  BY BoundsAreNat DEF Typed, RowIds
<1>2. \A i \in RowIds : rows'[i] = IF i = created + 1 THEN NewRow(t) ELSE rows[i]
  BY <1>1
<1>3. ~Usable(created + 1)
  BY <1>1 DEF FreshRows, Usable
<1>4. \A i \in RowIds : Usable(i)' <=> Usable(i) \/ i = created + 1
  BY <1>2 DEF Usable, Lapsed, NewRow
<1>5. rows'[created + 1].token = t
  BY <1>1, <1>2 DEF NewRow
<1>6. \A u : Valid(u)' <=> Valid(u) \/ u = t
  BY <1>1, <1>2, <1>3, <1>4, <1>5 DEF Valid
<1>7. LiveTokens' = LiveTokens \union ({t} \intersect Tokens)
  BY <1>6 DEF LiveTokens
<1> QED
  BY <1>1, <1>2, <1>7

LEMMA SameRowsSameSessions ==
    ASSUME \A i \in RowIds : /\ Usable(i)' <=> Usable(i)
                             /\ Usable(i) => rows'[i].token = rows[i].token
    PROVE  LiveTokens' = LiveTokens /\ \A t : Valid(t)' <=> Valid(t)
<1>1. \A t : Valid(t)' <=> Valid(t)
  BY DEF Valid
<1> QED
  BY <1>1 DEF LiveTokens

LEMMA PrunedKeepsSessions ==
    ASSUME Typed, rows' = Pruned, UNCHANGED lapsed
    PROVE  \A i \in RowIds : /\ Usable(i)' <=> Usable(i)
                             /\ Usable(i) => rows'[i].token = rows[i].token
                             /\ rows'[i].live => rows[i].live
<1>1. ASSUME NEW i \in RowIds
      PROVE  rows'[i] = rows[i] \/ (Lapsed(rows[i].token) /\ rows'[i] = NoRow)
  <2>1. rows' = rows
          \/ rows' = [j \in RowIds |-> IF Lapsed(rows[j].token) THEN NoRow ELSE rows[j]]
    BY DEF Pruned
  <2> QED
    BY <2>1
<1> QED
  BY <1>1 DEF Usable, Lapsed, NoRow

\* One request at a time: w moves, and every other one is idle, before and after.
LEMMA OnlyOneMoves ==
    ASSUME BookInv, serial, OneAtWork', NEW w \in Workers, Start(w) \/ Step(w)
    PROVE  /\ Typed /\ Tables /\ AtWork(w)
           /\ \A v \in Workers \ {w} : pc'[v] = "idle"
<1>1. Typed /\ OneAtWork /\ Tables /\ AtWork(w) /\ Alone(w)
  BY StepsAreAlone DEF BookInv
<1>2. pc[w] # "idle" \/ pc'[w] # "idle"
  <2>1. CASE Start(w)
    BY <1>1, <2>1, StartAdmits DEF Admission, Admit, Goto, Typed, Entrances
  <2>2. CASE Step(w)
    BY <2>2 DEF Step, CreateUser, SetVerified, EnterCode, SetPassword, Sign, Store,
                StoreAgain, Prune, Verify, ReadUser, Invalidate, RefreshFails, Begin,
                Commit, Fail
  <2> QED
    BY <2>1, <2>2
<1>3. ASSUME NEW v \in Workers \ {w}
      PROVE  pc'[v] = "idle"
  BY <1>1, <1>2 DEF OneAtWork, Alone
<1> QED
  BY <1>1, <1>3

\* What has to be shown of a step of w: it keeps the invariant, and the book follows.
Follows(w) == Tables' /\ AtWork(w)' /\ [Book!Next]_(Book!vars)

\* The account is as it was, or is a new one.
AccountStands ==
    /\ (account'.status = "deleted") = (account.status = "deleted")
    /\ account.status = "deleted" => /\ account'.verified = account.verified
                                     /\ account'.password = account.password

LEMMA BookStands ==
    ASSUME LiveTokens' = LiveTokens, stored' = stored, AccountStands
    PROVE  [Book!Next]_(Book!vars) /\ (Openable <=> Openable')
<1>1. Restored' = Restored
  BY DEF Restored, AccountStands
<1>2. Openable <=> Openable'
  BY DEF Openable, AccountStands
<1> QED
  BY <1>1, <1>2 DEF Book!vars, AccountStands

LEMMA SameTables ==
    ASSUME Tables, UNCHANGED <<rows, stored, created, now, lapsed>>, Openable => Openable'
    PROVE  Tables' /\ LiveTokens' = LiveTokens
<1>1. Tables'
  BY DEF Tables, FreshRows, DeletedIsOver, InTime, Usable, Lapsed
<1>2. LiveTokens' = LiveTokens
  BY DEF LiveTokens, Valid, Usable, Lapsed
<1> QED
  BY <1>1, <1>2

LEMMA TablesStand ==
    ASSUME Tables, NEW w \in Workers, AtWork(w)', AccountStands,
           UNCHANGED <<rows, stored, created, now, lapsed>>
    PROVE  Follows(w)
<1>1. Openable <=> Openable'
  BY DEF Openable, AccountStands
<1> QED
  BY <1>1, SameTables, BookStands DEF Follows

LEMMA StartFollows ==
    ASSUME Typed, Tables, NEW w \in Workers, Start(w)
    PROVE  Follows(w)
<1>1. PICK r \in Request, label \in Labels :
         /\ Admit(w, r, label)
         /\ label \in Entrances
         /\ label = "begin" => r.op \in Transactions
         /\ label \in {"code", "sign"} => Openable
  BY StartAdmits DEF Admission
<1>2. UNCHANGED <<documents, time, history>> /\ pc'[w] = label /\ req'[w] = r
  BY <1>1 DEF Admit, Goto, Typed
<1>3. AtWork(w)'
  BY <1>1, <1>2 DEF AtWork, Openable, Entrances, documents
<1>4. AccountStands /\ UNCHANGED <<rows, stored, created, now, lapsed>>
  BY <1>2 DEF AccountStands, documents, time, history
<1> QED
  BY <1>3, <1>4, TablesStand

LEMMA IdleKnowsNothing ==
    ASSUME NEW w \in Workers, pc'[w] = "idle"
    PROVE  AtWork(w)'
  BY DEF AtWork

\* The steps that leave the rows and what is deleted alone.
LEMMA PassFollows ==
    ASSUME Typed, Tables, NEW w \in Workers, AtWork(w),
           CreateUser(w) \/ EnterCode(w) \/ Sign(w) \/ Verify(w) \/ ReadUser(w)
             \/ RefreshFails(w) \/ Begin(w) \/ Fail(w)
    PROVE  Follows(w)
<1>1. UNCHANGED <<rows, stored, created, now, lapsed>>
  BY DEF CreateUser, EnterCode, Sign, Verify, ReadUser, RefreshFails, Begin, Fail,
         documents, time, history
<1>2. AccountStands
  <2>1. CASE CreateUser(w)
    BY <2>1 DEF CreateUser, NewAccount, NoAccount, AccountStands
  <2>2. CASE UNCHANGED account
    BY <2>2 DEF AccountStands
  <2> QED
    BY <2>1, <2>2 DEF EnterCode, Sign, Verify, ReadUser, RefreshFails, Begin, Fail, documents
<1>3. Openable => Openable'
  BY <1>2 DEF Openable, AccountStands
<1>4. AtWork(w)'
  <2>1. CASE CreateUser(w)
    <3>1. account'.status = "active" /\ pc'[w] = "sign"
      BY <2>1 DEF CreateUser, NewAccount, NoAccount, Goto, Typed
    <3> QED
      BY <3>1 DEF AtWork, Openable
  <2>2. CASE EnterCode(w) \/ ReadUser(w)
    <3>1. pc'[w] \in {"sign", "verifyAgain"} /\ (pc'[w] = "sign" => pc[w] = "code")
      BY <2>2 DEF EnterCode, ReadUser, Goto, Typed
    <3> QED
      BY <1>3, <3>1 DEF AtWork
  <2>3. CASE Sign(w)
    <3>1. PICK e \in Emails : e = req[w].email
      BY DEF Typed, Request
    <3>2. pc[w] = "sign" /\ pc'[w] = "store" /\ req'[w].new = <<e, now>>
      BY <2>3, <3>1 DEF Sign, Goto, Typed, Request
    <3>3. Storable(<<e, now>>)
      <4>1. <<e, now>> \in Tokens /\ Second(<<e, now>>) = now
        BY SecondsAreNat DEF Typed
      <4>2. lapsed < now /\ \A u \in stored : Second(u) <= now
        BY DEF Tables, InTime
      <4> QED
        BY <4>1, <4>2 DEF Storable, Lapsed, Typed
    <3>4. Storable(<<e, now>>)'
      <4>1. PICK t : t = <<e, now>>
        OBVIOUS
      <4>2. Storable(t)'
        BY <1>1, <3>3, <4>1 DEF Storable, Lapsed
      <4> QED
        BY <1>1, <4>1, <4>2
    <3> QED
      BY <1>1, <1>3, <3>2, <3>4 DEF AtWork
  <2>4. CASE Verify(w)
    <3>1. /\ pc'[w] \in {"readUser", "revoke", "revokeAndRefuse"}
          /\ pc'[w] = "revoke" => Valid(req[w].token)
      BY <2>4 DEF Verify, Goto, Typed
    <3>2. Valid(req[w].token) => Openable
      BY DEF Tables, DeletedIsOver, Valid
    <3> QED
      BY <1>3, <3>1, <3>2 DEF AtWork
  <2>5. CASE RefreshFails(w)
    BY <2>5 DEF RefreshFails, Goto, Typed, AtWork
  <2>6. CASE Begin(w)
    <3>1. /\ pc[w] = "begin" /\ pc'[w] = "commit"
          /\ req'[w].op = req[w].op /\ req'[w].writes = Writes(req[w].op)
      BY <2>6 DEF Begin, Goto, Typed, Request
    <3>2. \A op : Writes(op)' = Writes(op)
      BY <1>1 DEF Writes
    <3> QED
      BY <3>1, <3>2 DEF AtWork
  <2>7. CASE Fail(w)
    BY <2>7, DoneTyped, IdleKnowsNothing DEF Fail
  <2> QED
    BY <2>1, <2>2, <2>3, <2>4, <2>5, <2>6, <2>7
<1> QED
  BY <1>1, <1>2, <1>4, TablesStand

\* A link that works on, or a reset, gives a deleted account something back.
LEMMA RestoreFollows ==
    ASSUME Typed, Tables, NEW w \in Workers, AtWork(w), SetVerified(w) \/ SetPassword(w)
    PROVE  Follows(w)
<1>1. UNCHANGED <<rows, stored, created, now, lapsed>>
  BY DEF SetVerified, SetPassword, time, history
<1>2. PICK f \in {"verified", "password"} :
         /\ account'.status = account.status
         /\ account'.verified = (account.verified \/ f = "verified")
         /\ account'.password = (account.password \/ f = "password")
  <2>1. account \in Account
    BY DEF Typed
  <2>2. CASE SetVerified(w)
    <3>1. /\ account'.status = account.status /\ account'.verified = TRUE
          /\ account'.password = account.password
      BY <2>1, <2>2 DEF SetVerified, Account
    <3>2. account.verified \in BOOLEAN /\ account.password \in BOOLEAN
      BY <2>1 DEF Account
    <3> QED
      BY <3>1, <3>2
  <2>3. CASE SetPassword(w)
    <3>1. /\ account'.status = account.status /\ account'.password = TRUE
          /\ account'.verified = account.verified
      BY <2>1, <2>3 DEF SetPassword, Account
    <3>2. account.verified \in BOOLEAN /\ account.password \in BOOLEAN
      BY <2>1 DEF Account
    <3> QED
      BY <3>1, <3>2
  <2> QED
    BY <2>2, <2>3
<1>3. Openable => Openable'
  BY <1>2 DEF Openable
<1>4. Tables' /\ LiveTokens' = LiveTokens
  BY <1>1, <1>3, SameTables
<1>5. AtWork(w)'
  <2>1. pc'[w] \in {"idle", "revokeAfterReset"}
    BY DoneTyped DEF SetVerified, SetPassword, Goto, Typed
  <2> QED
    BY <2>1 DEF AtWork
<1>6. [Book!Next]_(Book!vars)
  <2>1. CASE account.status = "deleted"
    <3>1. Restored' = Restored \union {f}
      BY <1>2, <2>1 DEF Restored
    <3>2. Book!Restore(f)
      BY <1>1, <1>2, <1>4, <2>1, <3>1 DEF Book!Restore
    <3> QED
      BY <3>2 DEF Book!Next
  <2>2. CASE account.status # "deleted"
    <3>1. AccountStands
      BY <1>2, <2>2 DEF AccountStands
    <3> QED
      BY <1>1, <1>4, <3>1, BookStands
  <2> QED
    BY <2>1, <2>2
<1> QED
  BY <1>4, <1>5, <1>6 DEF Follows

LEMMA StoreFollows ==
    ASSUME Typed, Tables, NEW w \in Workers, AtWork(w), Store(w)
    PROVE  Follows(w)
<1>1. PICK t : t = req[w].new
  OBVIOUS
<1>2. /\ stored' = stored \union {t} /\ created' = created + 1 /\ created < MaxRows
      /\ UNCHANGED <<account, now, lapsed>>
      /\ rows' = [rows EXCEPT ![created + 1] = NewRow(t)]
      /\ pc[w] = "store" /\ pc'[w] = "prune" /\ req'[w].new = t
  BY <1>1 DEF Store, Goto, time, Typed
<1>3. Openable /\ Storable(t) /\ FreshRows /\ t \in AnyToken /\ created \in Nat
  BY <1>1, <1>2 DEF AtWork, Tables, Storable, AnyToken, Typed
<1>4. ~Lapsed(t) /\ t \in Tokens /\ Second(t) <= now
  BY <1>3 DEF Storable
<1>5. /\ \A i \in RowIds : i # created + 1 => rows'[i] = rows[i]
      /\ created + 1 \in RowIds /\ rows'[created + 1] = NewRow(t)
      /\ LiveTokens' = LiveTokens \union ({t} \intersect Tokens)
  BY <1>2, <1>3, <1>4, FreshRowIsSession
<1>6. Openable'
  BY <1>2, <1>3 DEF Openable
<1>7. Tables'
  <2>1. FreshRows'
    BY <1>2, <1>3, <1>5 DEF FreshRows, RowIds
  <2>2. InTime'
    BY <1>2, <1>4 DEF Tables, InTime
  <2> QED
    BY <1>6, <2>1, <2>2 DEF Tables, DeletedIsOver
<1>8. AtWork(w)'
  <2>1. Valid(t)'
    BY <1>2, <1>4, <1>5 DEF Valid, Usable, Lapsed, NewRow
  <2>2. Valid(req[w].new)'
    BY <1>2, <2>1
  <2> QED
    BY <1>2, <1>6, <2>2 DEF AtWork
<1>9. Book!Grant(t)
  <2>1. LiveTokens' = LiveTokens \union {t}
    BY <1>4, <1>5
  <2>2. Restored' = Restored
    BY <1>2 DEF Restored
  <2>3. account.status = "deleted" => Restored = {"verified", "password"}
    BY <1>3 DEF Openable, Restored
  <2>4. \A u \in stored : Second(u) <= Second(t)
    BY <1>3 DEF Storable
  <2> QED
    BY <1>2, <2>1, <2>2, <2>3, <2>4 DEF Book!Grant
<1> QED
  BY <1>4, <1>7, <1>8, <1>9 DEF Follows, Book!Next

LEMMA StoreAgainFollows ==
    ASSUME Typed, Tables, NEW w \in Workers, AtWork(w), StoreAgain(w)
    PROVE  Follows(w)
<1>1. PICK t : t = req[w].new
  OBVIOUS
<1>2. /\ created' = created + 1 /\ created < MaxRows
      /\ UNCHANGED <<account, now, lapsed, stored>>
      /\ rows' = [rows EXCEPT ![created + 1] = NewRow(t)]
      /\ pc[w] = "storeAgain" /\ pc'[w] = "pruneAgain"
  BY <1>1 DEF StoreAgain, Goto, time, history, Typed
<1>3. Openable /\ Valid(t) /\ FreshRows /\ t \in AnyToken /\ created \in Nat
  BY <1>1, <1>2 DEF AtWork, Tables, Typed, Request
<1>4. ~Lapsed(t)
  BY <1>3 DEF Valid, Usable
<1>5. /\ \A i \in RowIds : i # created + 1 => rows'[i] = rows[i]
      /\ LiveTokens' = LiveTokens \union ({t} \intersect Tokens)
  BY <1>2, <1>3, <1>4, FreshRowIsSession
<1>6. LiveTokens' = LiveTokens
  BY <1>3, <1>5 DEF LiveTokens
<1>7. Openable' /\ AccountStands
  BY <1>2, <1>3 DEF Openable, AccountStands
<1>8. Tables'
  <2>1. FreshRows'
    BY <1>2, <1>3, <1>5 DEF FreshRows, RowIds
  <2>2. InTime'
    BY <1>2 DEF Tables, InTime
  <2> QED
    BY <1>7, <2>1, <2>2 DEF Tables, DeletedIsOver
<1>9. AtWork(w)'
  BY <1>2, <1>7 DEF AtWork
<1> QED
  BY <1>2, <1>6, <1>7, <1>8, <1>9, BookStands DEF Follows

LEMMA PruneFollows ==
    ASSUME Typed, Tables, NEW w \in Workers, AtWork(w), Prune(w)
    PROVE  Follows(w)
<1>1. UNCHANGED <<account, stored, created, now, lapsed>> /\ rows' = Pruned
  BY DEF Prune, time
<1>2. \A i \in RowIds : /\ Usable(i)' <=> Usable(i)
                        /\ Usable(i) => rows'[i].token = rows[i].token
                        /\ rows'[i].live => rows[i].live
  BY <1>1, PrunedKeepsSessions
<1>3. LiveTokens' = LiveTokens /\ \A t : Valid(t)' <=> Valid(t)
  BY <1>2, SameRowsSameSessions
<1>4. AccountStands /\ (Openable <=> Openable')
  BY <1>1 DEF AccountStands, Openable
<1>5. Tables'
  BY <1>1, <1>2, <1>4 DEF Tables, FreshRows, DeletedIsOver, InTime
<1>6. AtWork(w)'
  <2>1. CASE pc[w] = "prune" /\ req[w].op = "refresh"
    <3>1. pc'[w] = "storeAgain" /\ req' = req
      BY <2>1 DEF Prune, Goto, Typed
    <3>2. Valid(req[w].new) /\ Openable
      BY <2>1 DEF AtWork
    <3>3. Valid(req[w].new)'
      <4>1. PICK t : t = req[w].new
        OBVIOUS
      <4>2. Valid(t)'
        BY <1>3, <3>2, <4>1
      <4> QED
        BY <3>1, <4>1, <4>2
    <3> QED
      BY <1>4, <3>1, <3>2, <3>3 DEF AtWork
  <2>2. CASE ~(pc[w] = "prune" /\ req[w].op = "refresh")
    BY <2>2, DoneTyped, IdleKnowsNothing DEF Prune
  <2> QED
    BY <2>1, <2>2
<1> QED
  BY <1>1, <1>3, <1>4, <1>5, <1>6, BookStands DEF Follows

LEMMA InvalidateFollows ==
    ASSUME Typed, Tables, NEW w \in Workers, AtWork(w), Invalidate(w)
    PROVE  Follows(w)
<1>1. UNCHANGED <<account, stored, created, now, lapsed>> /\ rows' = Revoked
  BY DEF Invalidate, time
<1>2. \A i \in RowIds : ~Usable(i)' /\ rows'[i].live = rows[i].live
  BY <1>1, RevokedTyped DEF Revoked, Usable, Typed, Row
<1>3. Openable <=> Openable'
  BY <1>1 DEF Openable
<1>4. Tables'
  BY <1>1, <1>2 DEF Tables, FreshRows, DeletedIsOver, InTime
<1>5. LiveTokens' = {}
  BY <1>2 DEF LiveTokens, Valid
<1>6. AtWork(w)'
  <2>1. CASE pc[w] = "revoke"
    <3>1. pc'[w] = "sign"
      BY <2>1 DEF Invalidate, Goto, Typed
    <3> QED
      BY <1>3, <2>1, <3>1 DEF AtWork
  <2>2. CASE pc[w] # "revoke"
    BY <2>2, DoneTyped, IdleKnowsNothing DEF Invalidate
  <2> QED
    BY <2>1, <2>2
<1>7. Book!RevokeAll
  <2>1. Restored' = Restored
    BY <1>1 DEF Restored
  <2> QED
    BY <1>1, <1>5, <2>1 DEF Book!RevokeAll
<1> QED
  BY <1>4, <1>6, <1>7 DEF Follows, Book!Next

\* The deletion of the account revokes every row there is; the transactions of 2FA
\* write no row.
LEMMA CommitFollows ==
    ASSUME Typed, Tables, NEW w \in Workers, AtWork(w), Commit(w)
    PROVE  Follows(w)
<1>1. /\ UNCHANGED <<stored, created, now, lapsed>> /\ account' = Committed(req[w])
      /\ req[w].op \in Transactions /\ req[w].writes = Writes(req[w].op)
      /\ account \in Account
  BY DEF Commit, AtWork, Typed, history
<1>2. AtWork(w)'
  BY DoneTyped, IdleKnowsNothing DEF Commit
<1>3. \A i \in RowIds :
         rows'[i] = IF i \in req[w].writes THEN [rows[i] EXCEPT !.revoked = TRUE]
                    ELSE rows[i]
  BY DEF Commit
<1>4. \A i \in RowIds : i # UserDoc
  BY BoundsAreNat DEF RowIds, UserDoc
<1>5. \A i \in RowIds : rows'[i].live = rows[i].live
  BY <1>3 DEF Typed, Row
<1>6. FreshRows' /\ InTime'
  BY <1>1, <1>5 DEF Tables, FreshRows, InTime
<1>7. CASE req[w].op = "deleteAccount"
  <2>1. account'.status = "deleted" /\ ~account'.verified /\ ~account'.password
    <3>1. account' = [account EXCEPT !.status = "deleted", !.verified = FALSE,
                                     !.password = FALSE, !.twoFactor = FALSE]
      BY <1>1, <1>7 DEF Committed
    <3> QED
      BY <1>1, <3>1 DEF Account
  <2>2. \A i \in RowIds : rows[i].live => rows'[i].revoked
    BY <1>1, <1>3, <1>7 DEF Writes, Typed, Row
  <2>3. \A i \in RowIds : ~Usable(i)'
    BY <1>5, <2>2 DEF Usable
  <2>4. LiveTokens' = {} /\ Restored' = {}
    BY <2>1, <2>3 DEF LiveTokens, Valid, Restored
  <2>5. Book!Close
    BY <1>1, <2>1, <2>4 DEF Book!Close
  <2> QED
    BY <1>2, <1>6, <2>3, <2>5 DEF Follows, Tables, DeletedIsOver, Book!Next
<1>8. CASE req[w].op # "deleteAccount"
  <2>1. AccountStands
    <3>1. CASE req[w].op = "complete2FASetup"
      BY <1>1, <3>1 DEF Committed, Account, AccountStands
    <3>2. CASE req[w].op = "disableTwoFactor"
      BY <1>1, <3>2 DEF Committed, Account, AccountStands
    <3> QED
      BY <1>1, <1>8, <3>1, <3>2 DEF Transactions
  <2>2. \A i \in RowIds : rows'[i] = rows[i]
    BY <1>1, <1>3, <1>4, <1>8 DEF Writes
  <2>3. \A i \in RowIds : Usable(i)' <=> Usable(i)
    BY <1>1, <2>2 DEF Usable, Lapsed
  <2>4. LiveTokens' = LiveTokens
    BY <2>2, <2>3, SameRowsSameSessions
  <2>5. DeletedIsOver'
    BY <2>1, <2>3 DEF Tables, DeletedIsOver, Openable, AccountStands
  <2> QED
    BY <1>1, <1>2, <1>6, <2>1, <2>4, <2>5, BookStands DEF Follows, Tables
<1> QED
  BY <1>7, <1>8

\* Time ends the oldest sessions, but none that a request has signed or stored.
LEMMA ExpireFollows ==
    ASSUME Typed, Tables, Expire
    PROVE  /\ Tables' /\ [Book!Next]_(Book!vars)
           /\ \A w \in Workers : AtWork(w) => AtWork(w)'
<1>1. PICK s \in lapsed + 1 .. now - 1 :
         /\ \A w \in Workers : req[w].new = NoToken \/ Second(req[w].new) > s
         /\ lapsed' = s
         /\ UNCHANGED <<documents, now, links, history, started, pc, req, missed>>
  BY DEF Expire
<1>2. UNCHANGED <<account, rows, created, now, stored, pc, req>>
  BY <1>1 DEF documents, history
<1>3. lapsed \in Nat /\ now \in Nat /\ lapsed' \in Nat /\ lapsed < lapsed' /\ lapsed' < now
  BY <1>1, BoundsAreNat DEF Typed
<1>4. \A i \in RowIds : Usable(i)' => Usable(i)
  BY <1>2, TimeEndsRows DEF Usable, Typed, Row
<1>5. Tables'
  <2>1. FreshRows'
    BY <1>2 DEF Tables, FreshRows
  <2>2. DeletedIsOver'
    BY <1>2, <1>4 DEF Tables, DeletedIsOver, Openable
  <2>3. InTime'
    BY <1>2, <1>3 DEF Tables, InTime
  <2> QED
    BY <2>1, <2>2, <2>3 DEF Tables
<1>6. Book!Lapse
  <2>1. LiveTokens' \subseteq LiveTokens
    BY <1>2, <1>4 DEF LiveTokens, Valid
  <2>2. LiveTokens' = LiveTokens \ (LiveTokens \ LiveTokens')
    BY <2>1
  <2>3. Restored' = Restored
    BY <1>2 DEF Restored
  <2> QED
    BY <1>2, <2>2, <2>3 DEF Book!Lapse
<1>7. ASSUME NEW w \in Workers, AtWork(w)
      PROVE  AtWork(w)'
  <2>1. PICK t : t = req[w].new
    OBVIOUS
  <2>2. t \in AnyToken /\ (t = NoToken \/ Second(t) > lapsed')
    BY <1>1, <2>1 DEF Typed, Request
  <2>3. ASSUME t # NoToken
        PROVE  ~Lapsed(t)'
    BY <1>3, <2>2, <2>3, SecondsAreNat DEF Lapsed
  <2>4. ASSUME Storable(t)
        PROVE  Storable(t)'
    <3>1. t \in Tokens /\ t # NoToken
      BY <2>4, SecondsAreNat DEF Storable
    <3> QED
      BY <1>2, <2>3, <2>4, <3>1 DEF Storable
  <2>5. ASSUME Valid(t), pc[w] \in {"prune", "storeAgain"}, t # NoToken
        PROVE  Valid(t)'
    <3>1. PICK i \in RowIds : rows[i].token = t /\ Usable(i)
      BY <2>5 DEF Valid
    <3>2. Usable(i)'
      BY <1>2, <2>3, <2>5, <3>1 DEF Usable
    <3> QED
      BY <1>2, <3>1, <3>2 DEF Valid
  <2>6. ASSUME Valid(t)
        PROVE  t # NoToken
    <3>1. Second(NoToken) = 0
      BY DEF NoToken, Second
    <3>2. ~Lapsed(t)
      BY <2>6 DEF Valid, Usable
    <3> QED
      BY <1>3, <3>1, <3>2 DEF Lapsed
  <2>7. \A op : Writes(op)' = Writes(op)
    BY <1>2 DEF Writes
  <2>8. Openable <=> Openable'
    BY <1>2 DEF Openable
  <2>9. req'[w].new = t
    BY <1>2, <2>1
  <2>10. pc[w] = "store" => Storable(req[w].new)'
    BY <1>7, <2>1, <2>4, <2>9 DEF AtWork
  <2>11. pc[w] \in {"prune", "storeAgain"} => Valid(req[w].new)'
    BY <1>7, <2>1, <2>5, <2>6, <2>9 DEF AtWork
  <2> QED
    BY <1>2, <1>7, <2>7, <2>8, <2>10, <2>11 DEF AtWork
<1> QED
  BY <1>5, <1>6, <1>7 DEF Book!Next

LEMMA TickFollows ==
    ASSUME Typed, Tables, Tick
    PROVE  /\ Tables' /\ [Book!Next]_(Book!vars)
           /\ \A w \in Workers : AtWork(w) => AtWork(w)'
<1>1. UNCHANGED <<account, rows, created, lapsed, stored, pc, req>> /\ now' = now + 1
  BY DEF Tick, documents, history
<1>2. /\ now \in Nat /\ now' \in Nat /\ now < now' /\ lapsed \in Nat
      /\ \A u \in stored : Second(u) \in Nat
  BY <1>1, BoundsAreNat, SecondsAreNat DEF Typed
<1>3. Tables'
  <2>1. FreshRows' /\ DeletedIsOver'
    BY <1>1 DEF Tables, FreshRows, DeletedIsOver, Openable, Usable, Lapsed
  <2>2. InTime'
    BY <1>1, <1>2 DEF Tables, InTime
  <2> QED
    BY <2>1, <2>2 DEF Tables
<1>4. [Book!Next]_(Book!vars)
  <2>1. LiveTokens' = LiveTokens
    BY <1>1 DEF LiveTokens, Valid, Usable, Lapsed
  <2> QED
    BY <1>1, <2>1, BookStands DEF AccountStands
<1>5. ASSUME NEW w \in Workers, AtWork(w)
      PROVE  AtWork(w)'
  <2>1. \A t \in AnyToken : Storable(t) => Storable(t)'
    BY <1>1, <1>2, SecondsAreNat DEF Storable, Lapsed
  <2>2. \A t : Valid(t)' <=> Valid(t)
    BY <1>1 DEF Valid, Usable, Lapsed
  <2>3. PICK t \in AnyToken : t = req[w].new
    BY DEF Typed, Request
  <2>4. /\ pc[w] = "store" => Storable(t)'
        /\ pc[w] \in {"prune", "storeAgain"} => Valid(t)'
    BY <1>5, <2>1, <2>2, <2>3 DEF AtWork
  <2>5. \A op : Writes(op)' = Writes(op)
    BY <1>1 DEF Writes
  <2>6. (Openable <=> Openable') /\ req'[w].new = t
    BY <1>1, <2>3 DEF Openable
  <2> QED
    BY <1>1, <1>5, <2>4, <2>5, <2>6 DEF AtWork
<1> QED
  BY <1>3, <1>4, <1>5

LEMMA BookInvStep ==
    BookInv /\ [MCNext]_mcVars =>
        BookInv' /\ (serial => [Book!Next]_(Book!vars))
<1> SUFFICES ASSUME BookInv, [MCNext]_mcVars
             PROVE  BookInv' /\ (serial => [Book!Next]_(Book!vars))
  OBVIOUS
<1>1. serial' = serial /\ [Next]_vars
  BY DEF MCNext, mcVars
<1>2. Typed' /\ serial' \in BOOLEAN
  BY <1>1, TypedStep DEF BookInv
<1>3. CASE ~serial
  BY <1>1, <1>2, <1>3 DEF BookInv
<1>4. ASSUME serial, NEW w \in Workers, Start(w) \/ Step(w), MCNext
      PROVE  BookInv' /\ [Book!Next]_(Book!vars)
  <2>1. OneAtWork'
    BY <1>4 DEF MCNext, OneAtWork
  <2>2. /\ Typed /\ Tables /\ AtWork(w)
        /\ \A v \in Workers \ {w} : pc'[v] = "idle"
    BY <1>4, <2>1, OnlyOneMoves
  <2>3. Follows(w)
    BY <1>4, <2>2, StartFollows, PassFollows, RestoreFollows, StoreFollows,
       StoreAgainFollows, PruneFollows, InvalidateFollows, CommitFollows DEF Step
  <2>4. \A v \in Workers : AtWork(v)'
    BY <2>2, <2>3, IdleKnowsNothing DEF Follows
  <2> QED
    BY <1>1, <1>2, <2>1, <2>3, <2>4 DEF BookInv, Follows
<1>5. CASE serial /\ (Tick \/ Expire)
  <2>1. UNCHANGED pc
    BY <1>5 DEF Tick, Expire
  <2>2. OneAtWork'
    BY <1>5, <2>1 DEF BookInv, OneAtWork
  <2>3. Typed /\ Tables /\ \A w \in Workers : AtWork(w)
    BY <1>5 DEF BookInv
  <2>4. Tables' /\ [Book!Next]_(Book!vars) /\ \A w \in Workers : AtWork(w)'
    BY <1>5, <2>3, TickFollows, ExpireFollows
  <2> QED
    BY <1>1, <1>2, <1>5, <2>2, <2>4 DEF BookInv
<1>6. CASE serial /\ UNCHANGED vars
  <2>1. UNCHANGED <<account, rows, created, now, lapsed, stored, pc, req>>
    BY <1>6 DEF vars, documents, time, history
  <2>2. Tables' /\ OneAtWork' /\ LiveTokens' = LiveTokens
    BY <1>6, <2>1 DEF BookInv, Tables, FreshRows, DeletedIsOver, InTime, OneAtWork,
       Openable, Usable, Lapsed, LiveTokens, Valid
  <2>3. \A w \in Workers : AtWork(w)'
    BY <1>6, <2>1
       DEF BookInv, AtWork, Openable, Storable, Usable, Lapsed, Valid, Writes
  <2>4. [Book!Next]_(Book!vars)
    BY <2>1, <2>2, BookStands DEF AccountStands
  <2> QED
    BY <1>1, <1>2, <2>2, <2>3, <2>4 DEF BookInv
<1>7. Next => MCNext \/ UNCHANGED vars
  BY DEF mcVars, vars
<1> QED
  BY <1>1, <1>3, <1>4, <1>5, <1>6, <1>7 DEF Next

(* For any number of seconds and rows, one request at a time, wherever requests fail   *)
(* or die and tokens expire: the tables of AuthService implement the book of sessions. *)
(* Every change of the valid tokens is the grant of one no older than any before, the  *)
(* revocation of all, the end of some by time, or the deletion of the account, after   *)
(* which none is granted until the e-mail is verified and the password is set again.   *)
THEOREM SessionsAreABook == MCSpec => RefinesSessionBook
<1>1. MCInit => (serial => Book!Init)
  <2> SUFFICES ASSUME MCInit, serial
               PROVE  Book!Init
    OBVIOUS
  <2>1. Init /\ account.status = "none"
    BY DEF MCInit
  <2>2. [NewAccount EXCEPT !.verified = TRUE].status = "active"
    BY DEF NewAccount, NoAccount
  <2>3. stored = {} /\ rows = [i \in RowIds |-> NoRow]
    BY <2>1, <2>2 DEF Init
  <2>4. LiveTokens = {}
    BY <2>3 DEF LiveTokens, Valid, Usable, NoRow
  <2>5. Restored = {}
    BY <2>1 DEF Restored
  <2> QED
    BY <2>1, <2>3, <2>4, <2>5 DEF Book!Init
<1>2. BookInv /\ [MCNext]_mcVars => [serial => [Book!Next]_(Book!vars)]_mcVars
  BY BookInvStep
<1> QED
  BY <1>1, <1>2, BookInvInit, BookInvStep, PTL DEF MCSpec, RefinesSessionBook
=============================================================================

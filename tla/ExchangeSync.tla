----------------------------- MODULE ExchangeSync -----------------------------
(***************************************************************************)
(* The exchange accounts of all users (ExchangeAccountService), the        *)
(* clients of the exchanges that CryptoService keeps in memory, wallet     *)
(* addresses (WalletAddressService), and the deletion of a user, which     *)
(* redacts the keys of the user's accounts (UserRepository).               *)
(***************************************************************************)
EXTENDS Integers, Functions

CONSTANTS
    Workers,       \* requests that may be in flight at the same time
    Users,
    NoUser,
    Names,         \* of accounts, and addresses of wallets
    NoName,
    Exchanges,
    NoExchange,
    MaxRequests,   \* bound: requests started in a behaviour
    MaxIds,        \* bound: accounts ever created, and wallets
    MaxSyncs       \* bound: synchronisations of one account

VARIABLES
    accounts,   \* the ExchangeAccount documents, by id
    wallets,    \* the WalletAddress documents, by id
    lastId,     \* account ids 1 .. lastId have been handed out
    lastWallet, \* wallet ids likewise
    clients,    \* exchangeInstances: the keys each cached client was made with
    deletedAt,  \* the last account id when each deleted user's accounts were read
    exposed,    \* history: accounts whose keys a synchronisation read while their user
                \* was not deleted
    pc,         \* what each worker does next
    req,        \* its request, and what it remembers of its reads
    started     \* requests started so far (for the bound)

documents == <<accounts, wallets, lastId, lastWallet, deletedAt>>
vars == <<documents, clients, exposed, pc, req, started>>

ASSUME ExchangeAssumption ==
    /\ NoUser \notin Users
    /\ NoName \notin Names
    /\ NoExchange \notin Exchanges
    /\ MaxRequests \in Nat
    /\ MaxIds \in Nat
    /\ MaxSyncs \in Nat

NoId == 0
Never == -1

\* lastSync is abstracted to how often it was written: the creation writes it, too.
Created == 1

\* An apiKey and apiSecret: the account they were entered for, and whether the exchange
\* accepts them.  Redacted stands for '[REDACTED]'.
Keys == [of : 1 .. MaxIds, valid : BOOLEAN]
Redacted == [of |-> NoId, valid |-> FALSE]

NoAccount == [user |-> NoUser, name |-> NoName, exchange |-> NoExchange,
              keys |-> Redacted, lastSync |-> 0, checkedAt |-> 0]
NoRequest == [op |-> "none", user |-> NoUser, name |-> NoName, exchange |-> NoExchange,
              valid |-> FALSE, id |-> NoId, checkedAt |-> 0, account |-> NoAccount,
              keys |-> Redacted, snapshot |-> <<>>]

Deleted == {u \in Users : deletedAt[u] # Never}
OfUser(docs, u) == {i \in DOMAIN docs : docs[i].user = u}
Named(docs, u, n) == {i \in OfUser(docs, u) : docs[i].name = n}
Without(docs, i) == Restrict(docs, DOMAIN docs \ {i})
With(f, i, doc) == [j \in DOMAIN f \union {i} |-> IF j = i THEN doc ELSE f[j]]

Init ==
    /\ accounts = <<>>
    /\ wallets = <<>>
    /\ lastId = 0
    /\ lastWallet = 0
    /\ clients = <<>>
    /\ deletedAt = [u \in Users |-> Never]
    /\ exposed = {}
    /\ pc = [w \in Workers |-> "idle"]
    /\ req = [w \in Workers |-> NoRequest]
    /\ started = 0

-----------------------------------------------------------------------------
Goto(w, label) == pc' = [pc EXCEPT ![w] = label]

Done(w) ==
    /\ Goto(w, "idle")
    /\ req' = [req EXCEPT ![w] = NoRequest]

\* The JwtStrategy lets the access token of a deleted user pass as well.
Admit(w, r, label) ==
    /\ pc[w] = "idle"
    /\ started < MaxRequests
    /\ started' = started + 1
    /\ req' = [req EXCEPT ![w] = r]
    /\ Goto(w, label)
    /\ UNCHANGED <<documents, clients, exposed>>

StartCreate(w) ==
    \E u \in Users, n \in Names, e \in Exchanges, valid \in BOOLEAN :
        Admit(w, [NoRequest EXCEPT !.op = "create", !.user = u, !.name = n,
                                   !.exchange = e, !.valid = valid], "checkName")

StartRemove(w) ==
    \E u \in Users, i \in 1 .. lastId :
        Admit(w, [NoRequest EXCEPT !.op = "remove", !.user = u, !.id = i], "findOne")

\* Anyone who is logged in may synchronise any account.
StartSync(w) ==
    \E i \in 1 .. lastId :
        Admit(w, [NoRequest EXCEPT !.op = "sync", !.id = i], "findUnique")

StartCreateWallet(w) ==
    \E u \in Users, n \in Names :
        Admit(w, [NoRequest EXCEPT !.op = "createWallet", !.user = u, !.name = n],
              "checkWallet")

StartRemoveWallet(w) ==
    \E u \in Users, i \in 1 .. lastWallet :
        Admit(w, [NoRequest EXCEPT !.op = "removeWallet", !.user = u, !.id = i],
              "findWallet")

\* A user is deleted with a password, and a deleted one has none.
StartDeleteUser(w) ==
    \E u \in Users \ Deleted :
        Admit(w, [NoRequest EXCEPT !.op = "deleteUser", !.user = u], "begin")

-----------------------------------------------------------------------------
(* create, remove *)

\* MUTANT of CheckName: an account on another exchange may have the name.
CheckNameOnExchange(w) ==
    /\ pc[w] = "checkName"
    /\ \A i \in Named(accounts, req[w].user, req[w].name) :
          accounts[i].exchange # req[w].exchange
    /\ req' = [req EXCEPT ![w].checkedAt = lastId]
    /\ Goto(w, "verify")
    /\ UNCHANGED <<documents, clients, exposed, started>>

CheckName(w) ==
    /\ pc[w] = "checkName"
    /\ \/ /\ Named(accounts, req[w].user, req[w].name) # {}   \* 409
          /\ Done(w)
       \/ /\ Named(accounts, req[w].user, req[w].name) = {}
          /\ req' = [req EXCEPT ![w].checkedAt = lastId]
          /\ Goto(w, "verify")
    /\ UNCHANGED <<documents, clients, exposed, started>>

\* The exchange is asked with a client of its own; a refusal is answered with false, which
\* nobody looks at.
Verify(w) ==
    /\ pc[w] = "verify"
    /\ Goto(w, "insert")
    /\ UNCHANGED <<documents, clients, exposed, req, started>>

Insert(w) ==
    /\ pc[w] = "insert"
    /\ lastId < MaxIds
    /\ lastId' = lastId + 1
    /\ accounts' = With(accounts, lastId',
                        [user |-> req[w].user, name |-> req[w].name,
                         exchange |-> req[w].exchange,
                         keys |-> [of |-> lastId', valid |-> req[w].valid],
                         lastSync |-> Created, checkedAt |-> req[w].checkedAt])
    /\ Done(w)
    /\ UNCHANGED <<wallets, lastWallet, clients, deletedAt, exposed, started>>

FindOne(w) ==
    /\ pc[w] = "findOne"
    /\ \/ /\ req[w].id \in OfUser(accounts, req[w].user)
          /\ Goto(w, "delete")
          /\ UNCHANGED req
       \/ /\ req[w].id \notin OfUser(accounts, req[w].user)   \* 404
          /\ Done(w)
    /\ UNCHANGED <<documents, clients, exposed, started>>

\* Fails if the account is gone; the client stays.
Delete(w) ==
    /\ pc[w] = "delete"
    /\ accounts' = Without(accounts, req[w].id)
    /\ Done(w)
    /\ UNCHANGED <<wallets, lastId, lastWallet, clients, deletedAt, exposed, started>>

-----------------------------------------------------------------------------
(* syncExchangeData *)

FindUnique(w) ==
    /\ pc[w] = "findUnique"
    /\ \/ /\ req[w].id \in DOMAIN accounts
          /\ req' = [req EXCEPT ![w].account = accounts[req[w].id]]
          /\ exposed' = IF accounts[req[w].id].user \in Deleted THEN exposed
                        ELSE exposed \union {req[w].id}
          /\ Goto(w, "connect")
       \/ /\ req[w].id \notin DOMAIN accounts   \* 404
          /\ Done(w)
          /\ UNCHANGED exposed
    /\ UNCHANGED <<documents, clients, started>>

\* MUTANT of CacheKey: `${account.exchange}`
CacheKeyOfExchange(w) == <<req[w].account.exchange, NoId>>

\* `${account.exchange}_${account.id}`
CacheKey(w) == <<req[w].account.exchange, req[w].id>>

Connect(w) ==
    /\ pc[w] = "connect"
    /\ clients' = IF CacheKey(w) \in DOMAIN clients THEN clients
                  ELSE With(clients, CacheKey(w), req[w].account.keys)
    /\ req' = [req EXCEPT ![w].keys = clients'[CacheKey(w)], ![w].account = NoAccount]
    /\ Goto(w, "fetch")
    /\ UNCHANGED <<documents, exposed, started>>

\* Balances, trades and open orders: the first that fails ends the request.  What they
\* answer is only logged.
Fetch(w) ==
    /\ pc[w] = "fetch"
    /\ \/ /\ req[w].keys.valid
          /\ Goto(w, "update")
          /\ UNCHANGED req
       \/ Done(w)
    /\ UNCHANGED <<documents, clients, exposed, started>>

\* MUTANT of Synced: an upsert.
SyncedOrMade(w) ==
    With(accounts, req[w].id,
         IF req[w].id \in DOMAIN accounts
         THEN [accounts[req[w].id] EXCEPT !.lastSync = @ + 1] ELSE NoAccount)

\* The update fails if the account is gone.
Synced(w) ==
    IF req[w].id \in DOMAIN accounts
    THEN [accounts EXCEPT ![req[w].id].lastSync = @ + 1] ELSE accounts

Update(w) ==
    /\ pc[w] = "update"
    /\ req[w].id \in DOMAIN accounts => accounts[req[w].id].lastSync <= MaxSyncs
    /\ accounts' = Synced(w)
    /\ Done(w)
    /\ UNCHANGED <<wallets, lastId, lastWallet, clients, deletedAt, exposed, started>>

-----------------------------------------------------------------------------
(* WalletAddressService *)

CheckWallet(w) ==
    /\ pc[w] = "checkWallet"
    /\ \/ /\ Named(wallets, req[w].user, req[w].name) # {}   \* 409
          /\ Done(w)
       \/ /\ Named(wallets, req[w].user, req[w].name) = {}
          /\ req' = [req EXCEPT ![w].checkedAt = lastWallet]
          /\ Goto(w, "insertWallet")
    /\ UNCHANGED <<documents, clients, exposed, started>>

InsertWallet(w) ==
    /\ pc[w] = "insertWallet"
    /\ lastWallet < MaxIds
    /\ lastWallet' = lastWallet + 1
    /\ wallets' = With(wallets, lastWallet',
                       [user |-> req[w].user, name |-> req[w].name,
                        checkedAt |-> req[w].checkedAt])
    /\ Done(w)
    /\ UNCHANGED <<accounts, lastId, clients, deletedAt, exposed, started>>

FindWallet(w) ==
    /\ pc[w] = "findWallet"
    /\ \/ /\ req[w].id \in OfUser(wallets, req[w].user)
          /\ Goto(w, "deleteWallet")
          /\ UNCHANGED req
       \/ /\ req[w].id \notin OfUser(wallets, req[w].user)   \* 404
          /\ Done(w)
    /\ UNCHANGED <<documents, clients, exposed, started>>

DeleteWallet(w) ==
    /\ pc[w] = "deleteWallet"
    /\ wallets' = Without(wallets, req[w].id)
    /\ Done(w)
    /\ UNCHANGED <<accounts, lastId, lastWallet, clients, deletedAt, exposed, started>>

-----------------------------------------------------------------------------
(* softDeleteUser: a transaction. *)

Begin(w) ==
    /\ pc[w] = "begin"
    /\ req' = [req EXCEPT ![w].snapshot = Restrict(accounts, OfUser(accounts, req[w].user)),
                          ![w].checkedAt = lastId]
    /\ Goto(w, "commit")
    /\ UNCHANGED <<documents, clients, exposed, started>>

\* Two transactions that write a document do not both commit, nor one with another write
\* since its snapshot.
NoConflict(w) ==
    /\ req[w].user \notin Deleted
    /\ \A i \in DOMAIN req[w].snapshot :
          i \in DOMAIN accounts /\ accounts[i] = req[w].snapshot[i]

\* MUTANT of Redact: the accounts are only deactivated.
RedactNothing(w) == accounts

Redact(w) ==
    [i \in DOMAIN accounts |->
        IF i \in DOMAIN req[w].snapshot THEN [accounts[i] EXCEPT !.keys = Redacted]
        ELSE accounts[i]]

Commit(w) ==
    /\ pc[w] = "commit"
    /\ NoConflict(w)
    /\ accounts' = Redact(w)
    /\ deletedAt' = [deletedAt EXCEPT ![req[w].user] = req[w].checkedAt]
    /\ Done(w)
    /\ UNCHANGED <<wallets, lastId, lastWallet, clients, exposed, started>>

-----------------------------------------------------------------------------
\* The database or an exchange fails, or a transaction is aborted.
Fail(w) ==
    /\ pc[w] # "idle"
    /\ Done(w)
    /\ UNCHANGED <<documents, clients, exposed, started>>

\* The process stops and starts again, without its clients.
Restart ==
    /\ clients # <<>>
    /\ clients' = <<>>
    /\ pc' = [w \in Workers |-> "idle"]
    /\ req' = [w \in Workers |-> NoRequest]
    /\ UNCHANGED <<documents, exposed, started>>

Step(w) ==
    \/ StartCreate(w) \/ StartRemove(w) \/ StartSync(w) \/ StartDeleteUser(w)
    \/ StartCreateWallet(w) \/ StartRemoveWallet(w)
    \/ CheckName(w) \/ Verify(w) \/ Insert(w) \/ FindOne(w) \/ Delete(w)
    \/ FindUnique(w) \/ Connect(w) \/ Fetch(w) \/ Update(w)
    \/ CheckWallet(w) \/ InsertWallet(w) \/ FindWallet(w) \/ DeleteWallet(w)
    \/ Begin(w) \/ Commit(w) \/ Fail(w)

Next == Restart \/ \E w \in Workers : Step(w)

Spec == Init /\ [][Next]_vars

-----------------------------------------------------------------------------
(* Two accounts of a user have the same name, or two wallets the same address,   *)
(* only if the first was inserted after the second had been checked: nothing but *)
(* concurrent requests (a client that retries) makes duplicates, although there  *)
(* is no unique index (ExchangeAccountService.create, WalletAddressService       *)
(* .create).                                                                     *)
DuplicatesOnlyIfRaced ==
    \A docs \in {accounts, wallets} : \A i, j \in DOMAIN docs :
        i < j /\ docs[i].user = docs[j].user /\ docs[i].name = docs[j].name
            => docs[j].checkedAt < i

(* Whatever clients are cached, removed and made anew, an account is synchronised *)
(* with the keys that were entered for it: after its creation, which writes       *)
(* lastSync for wrong keys, too, lastSync is written only for keys that the       *)
(* exchange accepts (getOrCreateExchangeClient, syncExchangeData).                *)
SyncsWithOwnKeys ==
    /\ \A w \in Workers : pc[w] = "update" => req[w].keys = [of |-> req[w].id, valid |-> TRUE]
    /\ \A i \in DOMAIN accounts :
          accounts[i].lastSync > Created => accounts[i].keys \in {Redacted, [of |-> i, valid |-> TRUE]}

(* The keys of a deleted user's account are neither stored nor in memory, unless *)
(* a synchronisation had read them before the deletion, or the account was       *)
(* inserted after the deletion had read what there was ("Clear sensitive data",  *)
(* UserRepository.softDeleteUser).                                               *)
KeysForgotten ==
    \A u \in Deleted, i \in 1 .. lastId :
        i \in OfUser(accounts, u) /\ i <= deletedAt[u] =>
            /\ accounts[i].keys = Redacted
            /\ i \notin exposed =>
                  \A k \in DOMAIN clients : clients[k].of # i

(* A removed account does not come back, even if a synchronisation of it is      *)
(* under way (ExchangeAccountService.syncExchangeData).                          *)
RemovedStaysRemoved ==
    [][\A i \in 1 .. lastId : i \notin DOMAIN accounts => i \notin DOMAIN accounts']_vars
=============================================================================

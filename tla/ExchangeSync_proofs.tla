-------------------------- MODULE ExchangeSync_proofs --------------------------
(***************************************************************************)
(* Proofs about ExchangeSync, for any number of workers, users, accounts,  *)
(* wallets and requests: what is removed stays removed, only races make    *)
(* duplicates, an account is synchronised with its own keys, and the keys  *)
(* of a deleted user are forgotten.                                        *)
(***************************************************************************)
EXTENDS ExchangeSync, TLAPS

AnyKeys == [of : Nat, valid : BOOLEAN]
AnyUser == Users \union {NoUser}
AnyName == Names \union {NoName}
AnyExchange == Exchanges \union {NoExchange}
Account == [user : AnyUser, name : AnyName, exchange : AnyExchange, keys : AnyKeys,
            lastSync : Nat, checkedAt : Nat]
Wallet == [user : AnyUser, name : AnyName, checkedAt : Nat]
Ops == {"none", "create", "remove", "sync", "createWallet", "removeWallet", "deleteUser"}
Labels == {"idle", "checkName", "verify", "insert", "findOne", "delete", "findUnique",
           "connect", "fetch", "update", "checkWallet", "insertWallet", "findWallet",
           "deleteWallet", "begin", "commit"}
Snapshots == UNION {[D -> Account] : D \in SUBSET Nat}
Request == [op : Ops, user : AnyUser, name : AnyName, exchange : AnyExchange,
            valid : BOOLEAN, id : Nat, checkedAt : Nat, account : Account,
            keys : AnyKeys, snapshot : Snapshots]

DocsTyped(docs, Doc, last) ==
    /\ last \in Nat
    /\ docs \in [DOMAIN docs -> Doc]
    /\ DOMAIN docs \subseteq 1 .. last

Typed ==
    /\ DocsTyped(accounts, Account, lastId)
    /\ DocsTyped(wallets, Wallet, lastWallet)
    /\ clients \in [DOMAIN clients -> AnyKeys]
    /\ pc \in [Workers -> Labels]
    /\ req \in [Workers -> Request]

\* Nobody has got the name since it was checked, but with a greater id.
Unraced(docs, last, r) ==
    /\ r.checkedAt <= last
    /\ \A i \in Named(docs, r.user, r.name) : r.checkedAt < i

\* Keys that work are those that were entered for account i, and i has no others.
Agrees(docs, last, i, ks) ==
    ks.valid => /\ ks = [of |-> i, valid |-> TRUE]
                /\ i \in 1 .. last
                /\ i \in DOMAIN docs => docs[i].keys \in {Redacted, ks}

\* What a worker with label p knows from its reads and remembers in r.
Knows(docs, last, wdocs, lastW, p, r) ==
    /\ p \in {"verify", "insert"} => Unraced(docs, last, r)
    /\ p = "insertWallet" => Unraced(wdocs, lastW, r)
    /\ p = "connect" => Agrees(docs, last, r.id, r.account.keys)
    /\ p \in {"fetch", "update"} => Agrees(docs, last, r.id, r.keys)
    /\ p = "update" => r.keys.valid

Raced(docs) ==
    \A i, j \in DOMAIN docs :
        i < j /\ docs[i].user = docs[j].user /\ docs[i].name = docs[j].name
            => docs[j].checkedAt < i

KeysAgree(docs, last, cached) ==
    /\ \A i \in DOMAIN docs :
          /\ Agrees(docs, last, i, docs[i].keys)
          /\ docs[i].lastSync > Created => docs[i].keys \in {Redacted, [of |-> i, valid |-> TRUE]}
    /\ \A k \in DOMAIN cached : Agrees(docs, last, k[2], cached[k])

IInv ==
    /\ Typed
    /\ Raced(accounts)
    /\ Raced(wallets)
    /\ KeysAgree(accounts, lastId, clients)
    /\ \A w \in Workers : Knows(accounts, lastId, wallets, lastWallet, pc[w], req[w])

\* What may happen to documents: ids are not used twice, nor are their owners and names
\* changed.
DocsStep(docs, last, newDocs, newLast) ==
    /\ last <= newLast
    /\ \A i \in DOMAIN newDocs : i <= last =>
          /\ i \in DOMAIN docs
          /\ newDocs[i].user = docs[i].user
          /\ newDocs[i].name = docs[i].name
          /\ newDocs[i].checkedAt = docs[i].checkedAt

\* And to the keys of accounts.
KeysStep ==
    \A i \in DOMAIN accounts' : i <= lastId =>
        accounts'[i].keys \in {Redacted, accounts[i].keys}

Evolves ==
    /\ DocsTyped(accounts', Account, lastId')
    /\ DocsTyped(wallets', Wallet, lastWallet')
    /\ DocsStep(accounts, lastId, accounts', lastId')
    /\ DocsStep(wallets, lastWallet, wallets', lastWallet')
    /\ KeysStep

\* Worker w goes to label p, and remembers r.
Moves(w, p, r) ==
    /\ p \in Labels
    /\ r \in Request
    /\ pc' = [pc EXCEPT ![w] = p]
    /\ req' = [req EXCEPT ![w] = r]
    /\ Knows(accounts', lastId', wallets', lastWallet', p, r)

-----------------------------------------------------------------------------
LEMMA NoRequestTyped == NoRequest \in Request /\ Redacted \in AnyKeys
<1>1. Redacted \in AnyKeys
  BY DEF Redacted, AnyKeys, NoId
<1>2. NoAccount \in Account
  BY <1>1 DEF NoAccount, Account, AnyUser, AnyName, AnyExchange
<1>3. <<>> \in [{} -> Account]
  OBVIOUS
<1>4. <<>> \in Snapshots
  BY <1>3 DEF Snapshots
<1>5. /\ NoUser \in AnyUser /\ NoName \in AnyName /\ NoExchange \in AnyExchange
      /\ NoId \in Nat
  BY DEF AnyUser, AnyName, AnyExchange, NoId
<1> QED
  BY <1>1, <1>2, <1>4, <1>5 DEF NoRequest, Request, Ops

\* What was read of documents stays true of them.
LEMMA UnracedStable ==
  ASSUME NEW docs, NEW last \in Nat, NEW newDocs, NEW newLast \in Nat, NEW r,
         r.checkedAt \in Nat, DOMAIN newDocs \subseteq Nat,
         DocsStep(docs, last, newDocs, newLast), Unraced(docs, last, r)
  PROVE  Unraced(newDocs, newLast, r)
  BY DEF DocsStep, Unraced, Named, OfUser

LEMMA AgreesStable ==
  ASSUME Evolves, IInv, NEW i, NEW ks, Agrees(accounts, lastId, i, ks)
  PROVE  Agrees(accounts', lastId', i, ks)
<1> SUFFICES ASSUME ks.valid
             PROVE  /\ ks = [of |-> i, valid |-> TRUE]
                    /\ i \in 1 .. lastId'
                    /\ i \in DOMAIN accounts' => accounts'[i].keys \in {Redacted, ks}
  BY DEF Agrees
<1>1. /\ ks = [of |-> i, valid |-> TRUE]
      /\ i \in 1 .. lastId
      /\ i \in DOMAIN accounts => accounts[i].keys \in {Redacted, ks}
  BY DEF Agrees
<1>2. lastId \in Nat /\ lastId' \in Nat /\ lastId <= lastId'
  BY DEF Evolves, IInv, Typed, DocsTyped, DocsStep
<1>3. i \in DOMAIN accounts' => accounts'[i].keys \in {Redacted, ks}
  BY <1>1, <1>2 DEF Evolves, DocsStep, KeysStep
<1> QED
  BY <1>1, <1>2, <1>3

LEMMA KnowsStable ==
  ASSUME Evolves, IInv, NEW p, NEW r \in Request,
         Knows(accounts, lastId, wallets, lastWallet, p, r)
  PROVE  Knows(accounts', lastId', wallets', lastWallet', p, r)
<1>1. /\ r.checkedAt \in Nat /\ lastId \in Nat /\ lastId' \in Nat
      /\ lastWallet \in Nat /\ lastWallet' \in Nat
      /\ DOMAIN accounts' \subseteq Nat /\ DOMAIN wallets' \subseteq Nat
  BY DEF Evolves, IInv, Typed, DocsTyped, Request
<1>2. Unraced(accounts, lastId, r) => Unraced(accounts', lastId', r)
  BY <1>1, UnracedStable DEF Evolves
<1>3. Unraced(wallets, lastWallet, r) => Unraced(wallets', lastWallet', r)
  BY <1>1, UnracedStable DEF Evolves
<1>4. \A ks : Agrees(accounts, lastId, r.id, ks) => Agrees(accounts', lastId', r.id, ks)
  BY AgreesStable
<1> QED
  BY <1>2, <1>3, <1>4 DEF Knows

-----------------------------------------------------------------------------
\* If documents and keys evolve as they may, no duplicates or wrong keys appear, and a
\* worker moves with knowledge, the invariant is kept.
LEMMA MoveKeepsInv ==
  ASSUME IInv, Evolves, Raced(accounts'), Raced(wallets'),
         KeysAgree(accounts', lastId', clients'),
         clients' \in [DOMAIN clients' -> AnyKeys],
         NEW w \in Workers, NEW p, NEW r, Moves(w, p, r)
  PROVE  IInv'
<1>1. pc' \in [Workers -> Labels] /\ req' \in [Workers -> Request]
  BY DEF IInv, Typed, Moves
<1>2. ASSUME NEW v \in Workers
      PROVE  Knows(accounts', lastId', wallets', lastWallet', pc'[v], req'[v])
  <2>1. CASE v = w
    BY <2>1 DEF IInv, Typed, Moves
  <2>2. CASE v # w
    <3>1. pc'[v] = pc[v] /\ req'[v] = req[v] /\ req[v] \in Request
      BY <2>2 DEF IInv, Typed, Moves
    <3>2. Knows(accounts, lastId, wallets, lastWallet, pc[v], req[v])
      BY DEF IInv
    <3> QED
      BY <3>1, <3>2, KnowsStable
  <2> QED
    BY <2>1, <2>2
<1>3. Typed'
  BY <1>1 DEF Typed, Evolves, DocsTyped, Account, Wallet, Request, Ops, Labels, Snapshots, AnyKeys,
              AnyUser, AnyName, AnyExchange
<1> QED
  BY <1>2, <1>3 DEF IInv, Raced, KeysAgree, Knows, Agrees, Unraced, Named, OfUser, Redacted

LEMMA DoneMoves ==
  ASSUME NEW w \in Workers, Done(w)
  PROVE  Moves(w, "idle", NoRequest)
  BY NoRequestTyped DEF Done, Goto, Moves, Labels, Knows

LEMMA DocumentsStand == IInv /\ UNCHANGED documents => Evolves
<1> SUFFICES ASSUME IInv, UNCHANGED documents
             PROVE  Evolves
  OBVIOUS
<1>1. UNCHANGED <<accounts, wallets, lastId, lastWallet>>
  BY DEF documents
<1>2. DocsTyped(accounts, Account, lastId) /\ DocsTyped(wallets, Wallet, lastWallet)
  BY DEF IInv, Typed
<1>3. /\ DocsStep(accounts, lastId, accounts, lastId)
      /\ DocsStep(wallets, lastWallet, wallets, lastWallet)
  BY <1>2 DEF DocsStep, DocsTyped
<1> QED
  BY <1>1, <1>2, <1>3 DEF Evolves, KeysStep

\* A step that leaves documents and clients alone.
LEMMA QuietKeepsInv ==
  ASSUME IInv, UNCHANGED <<documents, clients>>, NEW w \in Workers,
         NEW p \in Labels, NEW r \in Request, Goto(w, p), req' = [req EXCEPT ![w] = r],
         Knows(accounts, lastId, wallets, lastWallet, p, r)
  PROVE  IInv'
<1>1. Evolves
  BY DocumentsStand
<1>2. UNCHANGED <<accounts, wallets, lastId, lastWallet, clients>>
  BY DEF documents
<1>3. Moves(w, p, r)
  BY <1>2 DEF Moves, Goto
<1>4. /\ Raced(accounts') /\ Raced(wallets') /\ KeysAgree(accounts', lastId', clients')
      /\ clients' \in [DOMAIN clients' -> AnyKeys]
  BY <1>2 DEF IInv, Typed
<1> QED
  BY <1>1, <1>3, <1>4, MoveKeepsInv

LEMMA DoneKeepsInv ==
  ASSUME IInv, UNCHANGED <<documents, clients>>, NEW w \in Workers, Done(w)
  PROVE  IInv'
  BY NoRequestTyped, QuietKeepsInv DEF Done, Labels, Knows

\* A request that starts has read nothing.
LEMMA AdmitKeepsInv ==
  ASSUME IInv, NEW w \in Workers, NEW r \in Request,
         NEW p \in {"checkName", "findOne", "findUnique", "checkWallet", "findWallet", "begin"},
         Admit(w, r, p)
  PROVE  IInv'
  BY QuietKeepsInv DEF Admit, Labels, Knows

LEMMA StartKeepsInv ==
  ASSUME IInv, NEW w \in Workers,
         \/ StartCreate(w) \/ StartRemove(w) \/ StartSync(w)
         \/ StartCreateWallet(w) \/ StartRemoveWallet(w) \/ StartDeleteUser(w)
  PROVE  IInv'
<1> USE NoRequestTyped DEF Request, Ops, AnyUser, AnyName, AnyExchange
<1>0. lastId \in Nat /\ lastWallet \in Nat
  BY DEF IInv, Typed, DocsTyped
<1>1. CASE StartCreate(w)
  BY <1>1, AdmitKeepsInv DEF StartCreate
<1>2. CASE StartRemove(w)
  <2>1. PICK u \in Users, i \in 1 .. lastId :
            Admit(w, [NoRequest EXCEPT !.op = "remove", !.user = u, !.id = i], "findOne")
    BY <1>2 DEF StartRemove
  <2>2. i \in Nat
    BY <1>0, <2>1
  <2>3. [NoRequest EXCEPT !.op = "remove", !.user = u, !.id = i] \in Request
    BY <2>2
  <2> QED
    BY <2>1, <2>3, AdmitKeepsInv
<1>3. CASE StartSync(w)
  <2>1. PICK i \in 1 .. lastId :
            Admit(w, [NoRequest EXCEPT !.op = "sync", !.id = i], "findUnique")
    BY <1>3 DEF StartSync
  <2>2. i \in Nat
    BY <1>0, <2>1
  <2>3. [NoRequest EXCEPT !.op = "sync", !.id = i] \in Request
    BY <2>2
  <2> QED
    BY <2>1, <2>3, AdmitKeepsInv
<1>4. CASE StartCreateWallet(w)
  BY <1>4, AdmitKeepsInv DEF StartCreateWallet
<1>5. CASE StartRemoveWallet(w)
  <2>1. PICK u \in Users, i \in 1 .. lastWallet :
            Admit(w, [NoRequest EXCEPT !.op = "removeWallet", !.user = u, !.id = i],
                  "findWallet")
    BY <1>5 DEF StartRemoveWallet
  <2>2. i \in Nat
    BY <1>0, <2>1
  <2>3. [NoRequest EXCEPT !.op = "removeWallet", !.user = u, !.id = i] \in Request
    BY <2>2
  <2> QED
    BY <2>1, <2>3, AdmitKeepsInv
<1>6. CASE StartDeleteUser(w)
  BY <1>6, AdmitKeepsInv DEF StartDeleteUser
<1> QED
  BY <1>1, <1>2, <1>3, <1>4, <1>5, <1>6

-----------------------------------------------------------------------------
LEMMA CheckNameKeepsInv ==
  ASSUME IInv, NEW w \in Workers, CheckName(w)
  PROVE  IInv'
<1>1. CASE Done(w)
  BY <1>1, DoneKeepsInv DEF CheckName
<1>2. CASE /\ Named(accounts, req[w].user, req[w].name) = {}
           /\ req' = [req EXCEPT ![w].checkedAt = lastId]
           /\ Goto(w, "verify")
  <2> DEFINE r == [req[w] EXCEPT !.checkedAt = lastId]
  <2>1. req[w] \in Request /\ lastId \in Nat
    BY DEF IInv, Typed, DocsTyped
  <2>2. r \in Request /\ r.user = req[w].user /\ r.name = req[w].name /\ r.checkedAt = lastId
    BY <2>1 DEF Request
  <2>3. req' = [req EXCEPT ![w] = r]
    BY <1>2
  <2> HIDE DEF r
  <2>4. Knows(accounts, lastId, wallets, lastWallet, "verify", r)
    BY <1>2, <2>1, <2>2 DEF Knows, Unraced
  <2> QED
    BY <1>2, <2>2, <2>3, <2>4, QuietKeepsInv DEF CheckName, Labels
<1> QED
  BY <1>1, <1>2 DEF CheckName

LEMMA CheckWalletKeepsInv ==
  ASSUME IInv, NEW w \in Workers, CheckWallet(w)
  PROVE  IInv'
<1>1. CASE Done(w)
  BY <1>1, DoneKeepsInv DEF CheckWallet
<1>2. CASE /\ Named(wallets, req[w].user, req[w].name) = {}
           /\ req' = [req EXCEPT ![w].checkedAt = lastWallet]
           /\ Goto(w, "insertWallet")
  <2> DEFINE r == [req[w] EXCEPT !.checkedAt = lastWallet]
  <2>1. req[w] \in Request /\ lastWallet \in Nat
    BY DEF IInv, Typed, DocsTyped
  <2>2. /\ r \in Request /\ r.user = req[w].user /\ r.name = req[w].name
        /\ r.checkedAt = lastWallet
    BY <2>1 DEF Request
  <2>3. req' = [req EXCEPT ![w] = r]
    BY <1>2
  <2> HIDE DEF r
  <2>4. Knows(accounts, lastId, wallets, lastWallet, "insertWallet", r)
    BY <1>2, <2>1, <2>2 DEF Knows, Unraced
  <2> QED
    BY <1>2, <2>2, <2>3, <2>4, QuietKeepsInv DEF CheckWallet, Labels
<1> QED
  BY <1>1, <1>2 DEF CheckWallet

\* A step that leaves a worker's request alone.
LEMMA GotoKeepsInv ==
  ASSUME IInv, UNCHANGED <<documents, clients, req>>, NEW w \in Workers,
         NEW p \in Labels, Goto(w, p),
         Knows(accounts, lastId, wallets, lastWallet, p, req[w])
  PROVE  IInv'
<1>1. req[w] \in Request /\ req' = [req EXCEPT ![w] = req[w]]
  BY DEF IInv, Typed
<1> QED
  BY <1>1, QuietKeepsInv

LEMMA VerifyKeepsInv ==
  ASSUME IInv, NEW w \in Workers, Verify(w)
  PROVE  IInv'
<1>1. Knows(accounts, lastId, wallets, lastWallet, "verify", req[w])
  BY DEF IInv, Verify
<1> QED
  BY <1>1, GotoKeepsInv DEF Verify, Labels, Knows

LEMMA FindKeepsInv ==
  ASSUME IInv, NEW w \in Workers, FindOne(w) \/ FindWallet(w)
  PROVE  IInv'
<1>1. CASE Done(w)
  BY <1>1, DoneKeepsInv DEF FindOne, FindWallet
<1>2. CASE (Goto(w, "delete") \/ Goto(w, "deleteWallet")) /\ UNCHANGED req
  BY <1>2, GotoKeepsInv DEF FindOne, FindWallet, Labels, Knows
<1> QED
  BY <1>1, <1>2 DEF FindOne, FindWallet

LEMMA FindUniqueKeepsInv ==
  ASSUME IInv, NEW w \in Workers, FindUnique(w)
  PROVE  IInv'
<1>1. CASE Done(w)
  BY <1>1, DoneKeepsInv DEF FindUnique
<1>2. CASE /\ req[w].id \in DOMAIN accounts
           /\ req' = [req EXCEPT ![w].account = accounts[req[w].id]]
           /\ Goto(w, "connect")
  <2> DEFINE r == [req[w] EXCEPT !.account = accounts[req[w].id]]
  <2>1. req[w] \in Request /\ accounts[req[w].id] \in Account
    BY <1>2 DEF IInv, Typed, DocsTyped
  <2>2. r \in Request /\ r.id = req[w].id /\ r.account = accounts[req[w].id]
    BY <2>1 DEF Request
  <2>3. req' = [req EXCEPT ![w] = r]
    BY <1>2
  <2> HIDE DEF r
  <2>4. Knows(accounts, lastId, wallets, lastWallet, "connect", r)
    BY <1>2, <2>2 DEF IInv, KeysAgree, Knows
  <2> QED
    BY <1>2, <2>2, <2>3, <2>4, QuietKeepsInv DEF FindUnique, Labels
<1> QED
  BY <1>1, <1>2 DEF FindUnique

LEMMA FetchKeepsInv ==
  ASSUME IInv, NEW w \in Workers, Fetch(w)
  PROVE  IInv'
<1>1. CASE Done(w)
  BY <1>1, DoneKeepsInv DEF Fetch
<1>2. CASE req[w].keys.valid /\ Goto(w, "update") /\ UNCHANGED req
  <2>1. Knows(accounts, lastId, wallets, lastWallet, "fetch", req[w])
    BY DEF IInv, Fetch
  <2> QED
    BY <1>2, <2>1, GotoKeepsInv DEF Fetch, Labels, Knows
<1> QED
  BY <1>1, <1>2 DEF Fetch

LEMMA BeginKeepsInv ==
  ASSUME IInv, NEW w \in Workers, Begin(w)
  PROVE  IInv'
<1> DEFINE mine == OfUser(accounts, req[w].user)
           copy == Restrict(accounts, mine)
           r == [req[w] EXCEPT !.snapshot = copy, !.checkedAt = lastId]
<1>1. req[w] \in Request /\ lastId \in Nat
  BY DEF IInv, Typed, DocsTyped
<1>2. mine \in SUBSET Nat /\ \A i \in mine : accounts[i] \in Account
  BY DEF IInv, Typed, DocsTyped, OfUser
<1>3. copy \in Snapshots
  BY <1>2 DEF Restrict, Snapshots
<1> HIDE DEF copy
<1>4. r \in Request
  BY <1>1, <1>3 DEF Request
<1>5. req' = [req EXCEPT ![w] = r]
  BY DEF Begin, copy
<1> QED
  BY <1>4, <1>5, QuietKeepsInv DEF Begin, Labels, Knows

-----------------------------------------------------------------------------
\* The client that Connect finds or makes has keys that agree.
LEMMA ConnectKeepsInv ==
  ASSUME IInv, NEW w \in Workers, Connect(w)
  PROVE  IInv'
<1> DEFINE id == req[w].id
           ck == CacheKey(w)
           r == [req[w] EXCEPT !.keys = clients'[ck], !.account = NoAccount]
<1>1. req[w] \in Request /\ ck[2] = id
  BY DEF IInv, Typed, CacheKey
<1>2. Agrees(accounts, lastId, id, req[w].account.keys) /\ req[w].account.keys \in AnyKeys
  BY <1>1 DEF IInv, Knows, Connect, Request, Account
<1>3. /\ clients' = IF ck \in DOMAIN clients THEN clients
                    ELSE With(clients, ck, req[w].account.keys)
      /\ clients \in [DOMAIN clients -> AnyKeys]
      /\ \A k \in DOMAIN clients : Agrees(accounts, lastId, k[2], clients[k])
  BY DEF Connect, IInv, KeysAgree, Typed
<1> HIDE DEF ck
<1>4. /\ ck \in DOMAIN clients'
      /\ clients' \in [DOMAIN clients' -> AnyKeys]
      /\ \A k \in DOMAIN clients' :
            \/ k = ck /\ clients'[k] = req[w].account.keys
            \/ k \in DOMAIN clients /\ clients'[k] = clients[k]
  BY <1>2, <1>3 DEF With
<1>5. \A k \in DOMAIN clients' : Agrees(accounts, lastId, k[2], clients'[k])
  BY <1>1, <1>2, <1>3, <1>4
<1>6. r \in Request /\ r.id = id /\ r.keys = clients'[ck]
  <2>1. clients'[ck] \in AnyKeys
    BY <1>4
  <2>2. NoAccount \in Account
    BY NoRequestTyped DEF NoAccount, Account, AnyUser, AnyName, AnyExchange
  <2> QED
    BY <1>1, <2>1, <2>2 DEF Request
<1>7. req' = [req EXCEPT ![w] = r]
  BY DEF Connect, ck
<1> HIDE DEF r
<1>8. UNCHANGED <<accounts, wallets, lastId, lastWallet>> /\ Evolves
  BY DocumentsStand DEF Connect, documents
<1>9. Knows(accounts', lastId', wallets', lastWallet', "fetch", r)
  BY <1>1, <1>4, <1>5, <1>6, <1>8 DEF Knows
<1>10. Moves(w, "fetch", r)
  BY <1>6, <1>7, <1>9 DEF Connect, Goto, Moves, Labels
<1>11. /\ Raced(accounts') /\ Raced(wallets') /\ KeysAgree(accounts', lastId', clients')
  BY <1>5, <1>8 DEF IInv, KeysAgree
<1> QED
  BY <1>4, <1>8, <1>10, <1>11, MoveKeepsInv

-----------------------------------------------------------------------------
\* A document inserted with a name that was checked makes a duplicate only if it raced.
LEMMA InsertedRaced ==
  ASSUME NEW docs, NEW last \in Nat, DOMAIN docs \subseteq 1 .. last, Raced(docs),
         NEW r, Unraced(docs, last, r), r.checkedAt \in Nat,
         NEW doc, doc.user = r.user, doc.name = r.name, doc.checkedAt = r.checkedAt
  PROVE  Raced(With(docs, last + 1, doc))
<1> DEFINE new == With(docs, last + 1, doc)
<1>1. /\ DOMAIN new = DOMAIN docs \union {last + 1}
      /\ new[last + 1] = doc
      /\ \A i \in DOMAIN docs : new[i] = docs[i]
  BY DEF With
<1> HIDE DEF new
<1> SUFFICES ASSUME NEW i \in DOMAIN new, NEW j \in DOMAIN new,
                    i < j, new[i].user = new[j].user, new[i].name = new[j].name
             PROVE  new[j].checkedAt < i
  BY DEF Raced, new
<1>2. CASE j = last + 1
  <2>1. i \in DOMAIN docs
    BY <1>1, <1>2
  <2>2. i \in Named(docs, r.user, r.name)
    BY <1>1, <1>2, <2>1 DEF Named, OfUser
  <2> QED
    BY <1>1, <1>2, <2>2 DEF Unraced
<1>3. CASE j \in DOMAIN docs
  <2>1. i \in DOMAIN docs
    BY <1>1, <1>3
  <2> QED
    BY <1>1, <1>3, <2>1 DEF Raced
<1> QED
  BY <1>1, <1>2, <1>3

\* With one more document at the next id, documents step as they may.
LEMMA InsertedStep ==
  ASSUME NEW docs, NEW Doc, NEW last, DocsTyped(docs, Doc, last), NEW doc \in Doc
  PROVE  /\ DocsTyped(With(docs, last + 1, doc), Doc, last + 1)
         /\ DocsStep(docs, last, With(docs, last + 1, doc), last + 1)
  BY DEF DocsTyped, DocsStep, With

LEMMA InsertKeepsInv ==
  ASSUME IInv, NEW w \in Workers, Insert(w)
  PROVE  IInv'
<1> DEFINE r == req[w]
           keys == [of |-> lastId + 1, valid |-> r.valid]
           doc == [user |-> r.user, name |-> r.name, exchange |-> r.exchange,
                   keys |-> keys, lastSync |-> Created, checkedAt |-> r.checkedAt]
<1>1. /\ lastId' = lastId + 1
      /\ accounts' = With(accounts, lastId + 1, doc)
      /\ UNCHANGED <<wallets, lastWallet, clients>>
      /\ Done(w)
  BY DEF Insert
<1>2. /\ r \in Request
      /\ DocsTyped(accounts, Account, lastId) /\ lastId \in Nat
      /\ DOMAIN accounts \subseteq 1 .. lastId
      /\ DocsTyped(wallets, Wallet, lastWallet) /\ lastWallet \in Nat
  BY DEF IInv, Typed, DocsTyped
<1>3. keys \in AnyKeys
  BY <1>2 DEF Request, AnyKeys
<1>4. doc \in Account
  <2> HIDE DEF keys
  <2> QED
    BY <1>2, <1>3 DEF Request, Account, Created
<1>5. /\ doc.user = r.user /\ doc.name = r.name /\ doc.checkedAt = r.checkedAt
      /\ doc.keys = keys /\ doc.lastSync = Created /\ r.checkedAt \in Nat
  BY <1>2 DEF Request
<1> HIDE DEF doc
<1>6. Unraced(accounts, lastId, r)
  BY DEF IInv, Knows, Insert
<1>7. Raced(accounts')
  BY <1>1, <1>2, <1>5, <1>6, InsertedRaced DEF IInv
<1>8. /\ DOMAIN accounts' = DOMAIN accounts \union {lastId + 1}
      /\ accounts'[lastId + 1] = doc
      /\ \A i \in DOMAIN accounts : accounts'[i] = accounts[i] /\ i <= lastId
      /\ \A i \in DOMAIN accounts' : i <= lastId => i \in DOMAIN accounts
  BY <1>1, <1>2, <1>3 DEF With
<1>9. Evolves
  <2>1. DocsStep(wallets, lastWallet, wallets, lastWallet)
    BY <1>2 DEF DocsStep, DocsTyped
  <2>2. KeysStep
    BY <1>8 DEF KeysStep
  <2> QED
    BY <1>1, <1>2, <1>4, <2>1, <2>2, InsertedStep DEF Evolves
<1>10. KeysAgree(accounts', lastId', clients')
  <2>1. \A k \in DOMAIN clients' : Agrees(accounts', lastId', k[2], clients'[k])
    BY <1>1, <1>9, AgreesStable DEF IInv, KeysAgree
  <2>2. ASSUME NEW i \in DOMAIN accounts
        PROVE  /\ Agrees(accounts', lastId', i, accounts'[i].keys)
               /\ accounts'[i].lastSync > Created
                    => accounts'[i].keys \in {Redacted, [of |-> i, valid |-> TRUE]}
    BY <1>8, <1>9, AgreesStable DEF IInv, KeysAgree
  <2>3. Agrees(accounts', lastId', lastId + 1, keys)
    <3>1. keys.valid => keys = [of |-> lastId + 1, valid |-> TRUE]
      BY <1>2 DEF Request
    <3> HIDE DEF keys
    <3> QED
      BY <1>1, <1>2, <1>5, <1>8, <3>1 DEF Agrees
  <2> HIDE DEF keys
  <2> QED
    BY <1>5, <1>8, <2>1, <2>2, <2>3 DEF KeysAgree, Created
<1>11. Raced(wallets') /\ clients' \in [DOMAIN clients' -> AnyKeys]
  BY <1>1 DEF IInv, Typed
<1> QED
  BY <1>1, <1>7, <1>9, <1>10, <1>11, DoneMoves, MoveKeepsInv

LEMMA InsertWalletKeepsInv ==
  ASSUME IInv, NEW w \in Workers, InsertWallet(w)
  PROVE  IInv'
<1> DEFINE r == req[w]
           doc == [user |-> r.user, name |-> r.name, checkedAt |-> r.checkedAt]
<1>1. /\ lastWallet' = lastWallet + 1
      /\ wallets' = With(wallets, lastWallet + 1, doc)
      /\ UNCHANGED <<accounts, lastId, clients>>
      /\ Done(w)
  BY DEF InsertWallet
<1>2. /\ r \in Request
      /\ DocsTyped(wallets, Wallet, lastWallet) /\ lastWallet \in Nat
      /\ DOMAIN wallets \subseteq 1 .. lastWallet
      /\ DocsTyped(accounts, Account, lastId) /\ lastId \in Nat
  BY DEF IInv, Typed, DocsTyped
<1>3. doc \in Wallet
  BY <1>2 DEF Request, Wallet
<1>4. /\ doc.user = r.user /\ doc.name = r.name /\ doc.checkedAt = r.checkedAt
      /\ r.checkedAt \in Nat
  BY <1>2 DEF Request
<1> HIDE DEF doc
<1>5. Unraced(wallets, lastWallet, r)
  BY DEF IInv, Knows, InsertWallet
<1>6. Raced(wallets')
  BY <1>1, <1>2, <1>4, <1>5, InsertedRaced DEF IInv
<1>7. Evolves
  <2>1. DocsStep(accounts, lastId, accounts, lastId) /\ KeysStep
    BY <1>1, <1>2 DEF DocsStep, DocsTyped, KeysStep
  <2> QED
    BY <1>1, <1>2, <1>3, <2>1, InsertedStep DEF Evolves
<1>8. /\ KeysAgree(accounts', lastId', clients') /\ Raced(accounts')
      /\ clients' \in [DOMAIN clients' -> AnyKeys]
  BY <1>1 DEF IInv, Typed
<1> QED
  BY <1>1, <1>6, <1>7, <1>8, DoneMoves, MoveKeepsInv

-----------------------------------------------------------------------------
\* Fewer documents are no less typed, and raced no more.
LEMMA FewerDocs ==
  ASSUME NEW docs, NEW Doc, NEW last, DocsTyped(docs, Doc, last), Raced(docs),
         NEW i
  PROVE  /\ DocsTyped(Without(docs, i), Doc, last)
         /\ DocsStep(docs, last, Without(docs, i), last)
         /\ Raced(Without(docs, i))
<1> DEFINE new == Without(docs, i)
<1>1. /\ DOMAIN new = DOMAIN docs \ {i}
      /\ \A j \in DOMAIN new : j \in DOMAIN docs /\ new[j] = docs[j]
      /\ new \in [DOMAIN new -> Doc]
  BY DEF Without, Restrict, DocsTyped
<1> HIDE DEF new
<1>2. DocsTyped(new, Doc, last) /\ DocsStep(docs, last, new, last) /\ Raced(new)
  BY <1>1 DEF DocsTyped, DocsStep, Raced
<1> QED
  BY <1>2 DEF new

LEMMA DeleteKeepsInv ==
  ASSUME IInv, NEW w \in Workers, Delete(w)
  PROVE  IInv'
<1>1. /\ accounts' = Without(accounts, req[w].id)
      /\ UNCHANGED <<wallets, lastId, lastWallet, clients>>
      /\ Done(w)
  BY DEF Delete
<1>2. /\ \A i \in DOMAIN accounts' : i \in DOMAIN accounts /\ accounts'[i] = accounts[i]
  BY <1>1 DEF Without, Restrict
<1>3. Evolves /\ Raced(accounts')
  <2>1. KeysStep
    BY <1>2 DEF KeysStep
  <2>2. DocsTyped(wallets, Wallet, lastWallet) /\ DocsStep(wallets, lastWallet, wallets, lastWallet)
    BY DEF IInv, Typed, DocsTyped, DocsStep
  <2>3. DocsTyped(accounts, Account, lastId) /\ Raced(accounts)
    BY DEF IInv, Typed
  <2> QED
    BY <1>1, <2>1, <2>2, <2>3, FewerDocs DEF Evolves
<1>4. KeysAgree(accounts', lastId', clients')
  BY <1>1, <1>2, <1>3, AgreesStable DEF IInv, KeysAgree
<1>5. Raced(wallets') /\ clients' \in [DOMAIN clients' -> AnyKeys]
  BY <1>1 DEF IInv, Typed
<1> QED
  BY <1>1, <1>3, <1>4, <1>5, DoneMoves, MoveKeepsInv

LEMMA DeleteWalletKeepsInv ==
  ASSUME IInv, NEW w \in Workers, DeleteWallet(w)
  PROVE  IInv'
<1>1. /\ wallets' = Without(wallets, req[w].id)
      /\ UNCHANGED <<accounts, lastId, lastWallet, clients>>
      /\ Done(w)
  BY DEF DeleteWallet
<1>2. Evolves /\ Raced(wallets')
  <2>1. KeysStep
    BY <1>1 DEF KeysStep
  <2>2. DocsTyped(accounts, Account, lastId) /\ DocsStep(accounts, lastId, accounts, lastId)
    BY DEF IInv, Typed, DocsTyped, DocsStep
  <2>3. DocsTyped(wallets, Wallet, lastWallet) /\ Raced(wallets)
    BY DEF IInv, Typed
  <2> QED
    BY <1>1, <2>1, <2>2, <2>3, FewerDocs DEF Evolves
<1>3. /\ KeysAgree(accounts', lastId', clients') /\ Raced(accounts')
      /\ clients' \in [DOMAIN clients' -> AnyKeys]
  BY <1>1 DEF IInv, Typed
<1> QED
  BY <1>1, <1>2, <1>3, DoneMoves, MoveKeepsInv

\* A step that rewrites accounts, of the owners, names and checks that they have, with the
\* keys that they have or none.
LEMMA RewriteKeepsInv ==
  ASSUME IInv, NEW w \in Workers, Done(w), UNCHANGED <<wallets, lastId, lastWallet, clients>>,
         DOMAIN accounts' = DOMAIN accounts, accounts' \in [DOMAIN accounts' -> Account],
         \A i \in DOMAIN accounts :
            /\ accounts'[i].user = accounts[i].user
            /\ accounts'[i].name = accounts[i].name
            /\ accounts'[i].checkedAt = accounts[i].checkedAt
            /\ accounts'[i].keys \in {Redacted, accounts[i].keys}
            /\ accounts'[i].lastSync > Created =>
                  accounts'[i].keys \in {Redacted, [of |-> i, valid |-> TRUE]}
  PROVE  IInv'
<1>1. Evolves
  <2>1. KeysStep
    BY DEF KeysStep
  <2>2. DocsTyped(wallets, Wallet, lastWallet) /\ DocsStep(wallets, lastWallet, wallets, lastWallet)
    BY DEF IInv, Typed, DocsTyped, DocsStep
  <2>3. DocsTyped(accounts', Account, lastId) /\ DocsStep(accounts, lastId, accounts', lastId)
    BY DEF IInv, Typed, DocsTyped, DocsStep
  <2> QED
    BY <2>1, <2>2, <2>3 DEF Evolves
<1>2. Raced(accounts')
  BY DEF IInv, Raced
<1>3. KeysAgree(accounts', lastId', clients')
  <2>1. ASSUME NEW i \in DOMAIN accounts'
        PROVE  Agrees(accounts', lastId', i, accounts'[i].keys)
    <3>1. CASE accounts'[i].keys = Redacted
      BY <3>1 DEF Agrees, Redacted
    <3>2. CASE accounts'[i].keys = accounts[i].keys
      BY <1>1, <3>2, AgreesStable DEF IInv, KeysAgree
    <3> QED
      BY <3>1, <3>2
  <2>2. \A k \in DOMAIN clients' : Agrees(accounts', lastId', k[2], clients'[k])
    BY <1>1, AgreesStable DEF IInv, KeysAgree
  <2> QED
    BY <2>1, <2>2 DEF KeysAgree
<1>4. Raced(wallets') /\ clients' \in [DOMAIN clients' -> AnyKeys]
  BY DEF IInv, Typed
<1> QED
  BY <1>1, <1>2, <1>3, <1>4, DoneMoves, MoveKeepsInv

\* The worker knows that the keys it has used are the account's.
LEMMA UpdateKeepsInv ==
  ASSUME IInv, NEW w \in Workers, Update(w)
  PROVE  IInv'
<1> DEFINE id == req[w].id
<1>1. accounts \in [DOMAIN accounts -> Account]
  BY DEF IInv, Typed, DocsTyped
<1>2. id \in DOMAIN accounts => accounts[id].keys \in {Redacted, [of |-> id, valid |-> TRUE]}
  <2>1. Agrees(accounts, lastId, id, req[w].keys) /\ req[w].keys.valid
    BY DEF IInv, Knows, Update
  <2> QED
    BY <2>1 DEF Agrees
<1>3. /\ DOMAIN accounts' = DOMAIN accounts
      /\ \A i \in DOMAIN accounts : i # id => accounts'[i] = accounts[i]
      /\ id \in DOMAIN accounts =>
            accounts'[id] = [accounts[id] EXCEPT !.lastSync = @ + 1]
      /\ accounts' = [i \in DOMAIN accounts |-> accounts'[i]]
  BY <1>1 DEF Update, Synced
<1>4. \A i \in DOMAIN accounts :
         /\ accounts'[i] \in Account
         /\ accounts'[i].user = accounts[i].user
         /\ accounts'[i].name = accounts[i].name
         /\ accounts'[i].checkedAt = accounts[i].checkedAt
         /\ accounts'[i].keys = accounts[i].keys
         /\ accounts'[i].lastSync > Created =>
               accounts'[i].keys \in {Redacted, [of |-> i, valid |-> TRUE]}
  <2> SUFFICES ASSUME NEW i \in DOMAIN accounts
               PROVE  /\ accounts'[i] \in Account
                      /\ accounts'[i].user = accounts[i].user
                      /\ accounts'[i].name = accounts[i].name
                      /\ accounts'[i].checkedAt = accounts[i].checkedAt
                      /\ accounts'[i].keys = accounts[i].keys
                      /\ accounts'[i].lastSync > Created =>
                            accounts'[i].keys \in {Redacted, [of |-> i, valid |-> TRUE]}
    OBVIOUS
  <2>1. CASE i = id
    BY <1>1, <1>2, <1>3, <2>1 DEF Account
  <2>2. CASE i # id
    BY <1>1, <1>3, <2>2 DEF IInv, KeysAgree
  <2> QED
    BY <2>1, <2>2
<1>5. accounts' \in [DOMAIN accounts' -> Account]
  BY <1>3, <1>4
<1> QED
  BY <1>3, <1>4, <1>5, RewriteKeepsInv DEF Update

LEMMA CommitKeepsInv ==
  ASSUME IInv, NEW w \in Workers, Commit(w)
  PROVE  IInv'
<1>1. accounts \in [DOMAIN accounts -> Account] /\ Redacted \in AnyKeys
  BY NoRequestTyped DEF IInv, Typed, DocsTyped
<1>2. /\ DOMAIN accounts' = DOMAIN accounts
      /\ accounts' = [i \in DOMAIN accounts |-> accounts'[i]]
      /\ \A i \in DOMAIN accounts :
            accounts'[i] \in {accounts[i], [accounts[i] EXCEPT !.keys = Redacted]}
  BY DEF Commit, Redact
<1>3. \A i \in DOMAIN accounts :
         /\ accounts'[i] \in Account
         /\ accounts'[i].user = accounts[i].user
         /\ accounts'[i].name = accounts[i].name
         /\ accounts'[i].checkedAt = accounts[i].checkedAt
         /\ accounts'[i].keys \in {Redacted, accounts[i].keys}
         /\ accounts'[i].lastSync = accounts[i].lastSync
  BY <1>1, <1>2 DEF Account
<1>4. \A i \in DOMAIN accounts :
         accounts'[i].lastSync > Created =>
            accounts'[i].keys \in {Redacted, [of |-> i, valid |-> TRUE]}
  BY <1>3 DEF IInv, KeysAgree
<1>5. accounts' \in [DOMAIN accounts' -> Account]
  BY <1>2, <1>3
<1> QED
  BY <1>2, <1>3, <1>4, <1>5, RewriteKeepsInv DEF Commit

LEMMA RestartKeepsInv == IInv /\ Restart => IInv'
<1> SUFFICES ASSUME IInv, Restart
             PROVE  IInv'
  OBVIOUS
<1>1. /\ UNCHANGED <<accounts, wallets, lastId, lastWallet>>
      /\ clients' = <<>>
      /\ pc' = [w \in Workers |-> "idle"]
      /\ req' = [w \in Workers |-> NoRequest]
  BY DEF Restart, documents
<1>2. Typed'
  <2>1. pc' \in [Workers -> Labels] /\ req' \in [Workers -> Request]
    BY <1>1, NoRequestTyped DEF Labels
  <2>2. clients' \in [DOMAIN clients' -> AnyKeys]
    BY <1>1
  <2>3. DocsTyped(accounts, Account, lastId)' /\ DocsTyped(wallets, Wallet, lastWallet)'
    BY <1>1 DEF IInv, Typed, DocsTyped, Account, Wallet, AnyKeys, AnyUser, AnyName, AnyExchange
  <2> QED
    BY <2>1, <2>2, <2>3 DEF Typed, Labels, Request, Ops, Account, Snapshots, AnyKeys, AnyUser,
                            AnyName, AnyExchange
<1>3. Raced(accounts)' /\ Raced(wallets)'
  BY <1>1 DEF IInv, Raced
<1>4. KeysAgree(accounts, lastId, clients)'
  BY <1>1 DEF IInv, KeysAgree, Agrees, Redacted
<1>5. \A w \in Workers : Knows(accounts, lastId, wallets, lastWallet, pc[w], req[w])'
  BY <1>1 DEF Knows
<1> QED
  BY <1>2, <1>3, <1>4, <1>5 DEF IInv

-----------------------------------------------------------------------------
LEMMA IInvInit == Init => IInv
<1> SUFFICES ASSUME Init
             PROVE  IInv
  OBVIOUS
<1>1. Typed
  BY NoRequestTyped DEF Init, Typed, DocsTyped, Labels
<1>2. Raced(accounts) /\ Raced(wallets) /\ KeysAgree(accounts, lastId, clients)
  BY DEF Init, Raced, KeysAgree
<1>3. \A w \in Workers : Knows(accounts, lastId, wallets, lastWallet, pc[w], req[w])
  BY DEF Init, Knows
<1> QED
  BY <1>1, <1>2, <1>3 DEF IInv

LEMMA IInvStep == IInv /\ [Next]_vars => IInv'
<1> SUFFICES ASSUME IInv, [Next]_vars
             PROVE  IInv'
  OBVIOUS
<1>1. CASE UNCHANGED vars
  BY <1>1 DEF vars, documents, IInv, Typed, DocsTyped, Raced, KeysAgree, Knows, Agrees, Unraced,
              Named, OfUser, Account, Wallet, Request, Ops, Labels, Snapshots, AnyKeys, AnyUser,
              AnyName, AnyExchange, Redacted
<1>2. CASE Restart
  BY <1>2, RestartKeepsInv
<1>3. ASSUME NEW w \in Workers, Step(w)
      PROVE  IInv'
  <2>1. CASE \/ StartCreate(w) \/ StartRemove(w) \/ StartSync(w)
             \/ StartCreateWallet(w) \/ StartRemoveWallet(w) \/ StartDeleteUser(w)
    BY <2>1, StartKeepsInv
  <2>2. CASE CheckName(w) \/ Verify(w) \/ Insert(w)
    BY <2>2, CheckNameKeepsInv, VerifyKeepsInv, InsertKeepsInv
  <2>3. CASE FindOne(w) \/ FindWallet(w) \/ Delete(w) \/ DeleteWallet(w)
    BY <2>3, FindKeepsInv, DeleteKeepsInv, DeleteWalletKeepsInv
  <2>4. CASE FindUnique(w) \/ Connect(w) \/ Fetch(w) \/ Update(w)
    BY <2>4, FindUniqueKeepsInv, ConnectKeepsInv, FetchKeepsInv, UpdateKeepsInv
  <2>5. CASE CheckWallet(w) \/ InsertWallet(w)
    BY <2>5, CheckWalletKeepsInv, InsertWalletKeepsInv
  <2>6. CASE Begin(w) \/ Commit(w)
    BY <2>6, BeginKeepsInv, CommitKeepsInv
  <2>7. CASE Fail(w)
    BY <2>7, DoneKeepsInv DEF Fail
  <2> QED
    BY <1>3, <2>1, <2>2, <2>3, <2>4, <2>5, <2>6, <2>7 DEF Step
<1> QED
  BY <1>1, <1>2, <1>3 DEF Next

(* Two accounts of a user have the same name, or two wallets the same address,   *)
(* only if they raced, for any number of requests                                *)
(* (ExchangeAccountService.create, WalletAddressService.create).                 *)
THEOREM OnlyRacesDuplicate == Spec => []DuplicatesOnlyIfRaced
<1>1. IInv => DuplicatesOnlyIfRaced
  BY DEF IInv, Raced, DuplicatesOnlyIfRaced
<1> QED
  BY <1>1, IInvInit, IInvStep, PTL DEF Spec

(* An account is synchronised, after its creation, with the keys that were       *)
(* entered for it, and only if they work, whatever clients are cached, for any   *)
(* number of requests (getOrCreateExchangeClient, syncExchangeData).             *)
THEOREM OwnKeysOnly == Spec => []SyncsWithOwnKeys
<1>1. IInv => SyncsWithOwnKeys
  <2> SUFFICES ASSUME IInv
               PROVE  SyncsWithOwnKeys
    OBVIOUS
  <2>1. ASSUME NEW w \in Workers, pc[w] = "update"
        PROVE  req[w].keys = [of |-> req[w].id, valid |-> TRUE]
    BY <2>1 DEF IInv, Knows, Agrees
  <2>2. \A i \in DOMAIN accounts :
           accounts[i].lastSync > Created =>
              accounts[i].keys \in {Redacted, [of |-> i, valid |-> TRUE]}
    BY DEF IInv, KeysAgree
  <2> QED
    BY <2>1, <2>2 DEF SyncsWithOwnKeys
<1> QED
  BY <1>1, IInvInit, IInvStep, PTL DEF Spec

\* A step takes accounts away, or adds one at the next id.
LEMMA AccountsStep ==
  ASSUME Next
  PROVE  DOMAIN accounts' \subseteq DOMAIN accounts \union {lastId + 1}
<1>1. ASSUME NEW w \in Workers, Insert(w)
      PROVE  DOMAIN accounts' = DOMAIN accounts \union {lastId + 1}
  BY <1>1 DEF Insert, With
<1>2. ASSUME NEW w \in Workers, Delete(w)
      PROVE  DOMAIN accounts' \subseteq DOMAIN accounts
  BY <1>2 DEF Delete, Without, Restrict
<1>3. ASSUME NEW w \in Workers, Update(w) \/ Commit(w)
      PROVE  DOMAIN accounts' = DOMAIN accounts
  BY <1>3 DEF Update, Synced, Commit, Redact
<1>4. ASSUME NEW w \in Workers, Step(w)
      PROVE  \/ Insert(w) \/ Delete(w) \/ Update(w) \/ Commit(w)
             \/ UNCHANGED accounts
  BY <1>4 DEF Step, StartCreate, StartRemove, StartSync, StartCreateWallet, StartRemoveWallet,
              StartDeleteUser, Admit, CheckName, Verify, FindOne, FindUnique, Connect, Fetch,
              CheckWallet, InsertWallet, FindWallet, DeleteWallet, Begin, Fail, documents
<1>5. Restart => UNCHANGED accounts
  BY DEF Restart, documents
<1> QED
  BY <1>1, <1>2, <1>3, <1>4, <1>5 DEF Next

(* A removed account never comes back, for any number of requests                *)
(* (ExchangeAccountService.syncExchangeData).                                    *)
THEOREM NothingComesBack == Spec => RemovedStaysRemoved
<1>1. IInv /\ [Next]_vars =>
        [\A i \in 1 .. lastId : i \notin DOMAIN accounts => i \notin DOMAIN accounts']_vars
  <2> SUFFICES ASSUME IInv, Next, NEW i \in 1 .. lastId, i \notin DOMAIN accounts
               PROVE  i \notin DOMAIN accounts'
    OBVIOUS
  <2>1. lastId \in Nat
    BY DEF IInv, Typed, DocsTyped
  <2> QED
    BY <2>1, AccountsStep
<1> QED
  BY <1>1, IInvInit, IInvStep, PTL DEF Spec, RemovedStaysRemoved

-----------------------------------------------------------------------------
(* The keys of a deleted user *)

\* The keys of account i are in memory, or about to be.
Remembered(i) ==
    \/ \E k \in DOMAIN clients : clients[k].of = i
    \/ \E w \in Workers : req[w].account.keys.of = i

\* Account i was inserted after the deletion of its user had read what there was.
Late(i) == accounts[i].user \in Deleted /\ deletedAt[accounts[i].user] < i

\* What the deletion of a user that w works on will take.
Covers(w) ==
    /\ req[w].checkedAt <= lastId
    /\ \A i \in OfUser(accounts, req[w].user) :
          i <= req[w].checkedAt => i \in DOMAIN req[w].snapshot

KeysInv ==
    /\ IInv
    /\ deletedAt \in [Users -> Nat \union {Never}]
    /\ \A u \in Users : deletedAt[u] <= lastId
    /\ \A i \in DOMAIN accounts :
          /\ accounts[i].keys = Redacted \/ accounts[i].keys.of = i
          /\ accounts[i].user \in Deleted => accounts[i].keys = Redacted \/ Late(i)
    /\ \A i \in Nat \ {NoId} : Remembered(i) =>
          /\ i <= lastId
          /\ i \in DOMAIN accounts => i \in exposed \/ Late(i)
    /\ \A w \in Workers : /\ pc[w] \in {"begin", "commit"} => req[w].user \in Users
                          /\ pc[w] = "commit" => Covers(w)

LEMMA KeysInvInit == Init => KeysInv
<1> SUFFICES ASSUME Init
             PROVE  KeysInv
  OBVIOUS
<1>1. IInv
  BY IInvInit
<1>2. ~\E i \in Nat \ {NoId} : Remembered(i)
  BY DEF Init, Remembered, NoRequest, NoAccount, Redacted
<1> QED
  BY <1>1, <1>2 DEF Init, KeysInv, Never

\* Steps that neither add nor take away accounts, touch keys, nor delete a user.
LEMMA CalmKeepsKeysInv ==
  ASSUME KeysInv, IInv', UNCHANGED <<lastId, deletedAt>>, exposed \subseteq exposed',
         DOMAIN accounts' \subseteq DOMAIN accounts,
         \A i \in DOMAIN accounts' : /\ accounts'[i].user = accounts[i].user
                                     /\ accounts'[i].keys = accounts[i].keys,
         \A i \in Nat \ {NoId} : Remembered(i)' =>
            Remembered(i) \/ (i \in DOMAIN accounts /\ (i \in exposed' \/ Late(i))),
         \A w \in Workers : \/ pc'[w] \notin {"begin", "commit"}
                            \/ pc'[w] = pc[w] /\ req'[w] = req[w]
                            \/ pc'[w] = "begin" /\ req'[w].user \in Users
                            \/ pc'[w] = "commit" /\ req'[w].user \in Users /\ Covers(w)'
  PROVE  KeysInv'
<1>1. /\ DOMAIN accounts \subseteq 1 .. lastId /\ lastId \in Nat
      /\ Deleted' = Deleted
  BY DEF KeysInv, IInv, Typed, DocsTyped, Deleted
<1>2. \A i \in DOMAIN accounts' : Late(i) => Late(i)'
  BY <1>1 DEF Late
<1>3. ASSUME NEW w \in Workers
      PROVE  /\ pc'[w] \in {"begin", "commit"} => req'[w].user \in Users
             /\ pc'[w] = "commit" => Covers(w)'
  <2>1. pc[w] = "commit" /\ req'[w] = req[w] => Covers(w)'
    BY DEF KeysInv, Covers, OfUser
  <2> QED
    BY <2>1 DEF KeysInv
<1>4. ASSUME NEW i \in Nat \ {NoId}, Remembered(i)'
      PROVE  /\ i <= lastId'
             /\ i \in DOMAIN accounts' => i \in exposed' \/ Late(i)'
  BY <1>1, <1>2, <1>4 DEF KeysInv
<1>5. ASSUME NEW i \in DOMAIN accounts'
      PROVE  /\ accounts'[i].keys = Redacted \/ accounts'[i].keys.of = i
             /\ accounts'[i].user \in Deleted' => accounts'[i].keys = Redacted \/ Late(i)'
  BY <1>1, <1>2 DEF KeysInv
<1> QED
  BY <1>3, <1>4, <1>5 DEF KeysInv, Redacted

\* The steps that change nothing of this but the request of w.
Minor(w) ==
    \/ StartCreate(w) \/ StartRemove(w) \/ StartSync(w)
    \/ StartCreateWallet(w) \/ StartRemoveWallet(w)
    \/ CheckName(w) \/ Verify(w) \/ FindOne(w) \/ Fetch(w) \/ CheckWallet(w)
    \/ InsertWallet(w) \/ FindWallet(w) \/ DeleteWallet(w) \/ Fail(w)

LEMMA NoRequestForgets == NoRequest.account = NoAccount /\ NoAccount.keys.of = NoId
  BY DEF NoRequest, NoAccount, Redacted

LEMMA DoneForgets ==
  ASSUME IInv, NEW w \in Workers, Done(w)
  PROVE  /\ \A v \in Workers \ {w} : pc'[v] = pc[v] /\ req'[v] = req[v]
         /\ pc'[w] = "idle" /\ req'[w].account = NoAccount
  BY NoRequestForgets DEF Done, Goto, IInv, Typed

LEMMA AdmitForgets ==
  ASSUME IInv, NEW w \in Workers, NEW r, NEW p, Admit(w, r, p), r.account = NoAccount
  PROVE  /\ \A v \in Workers \ {w} : pc'[v] = pc[v] /\ req'[v] = req[v]
         /\ pc'[w] = p /\ req'[w] = r /\ req'[w].account = NoAccount
  BY DEF Admit, Goto, IInv, Typed

LEMMA StartForgets ==
  ASSUME IInv, NEW w \in Workers,
         \/ StartCreate(w) \/ StartRemove(w) \/ StartSync(w)
         \/ StartCreateWallet(w) \/ StartRemoveWallet(w)
  PROVE  /\ \A v \in Workers \ {w} : pc'[v] = pc[v] /\ req'[v] = req[v]
         /\ pc'[w] \notin {"begin", "commit"}
         /\ req'[w].account = NoAccount
<1>1. CASE StartCreate(w)
  <2>1. PICK u \in Users, n \in Names, e \in Exchanges, valid \in BOOLEAN :
           Admit(w, [NoRequest EXCEPT !.op = "create", !.user = u, !.name = n,
                                      !.exchange = e, !.valid = valid], "checkName")
    BY <1>1 DEF StartCreate
  <2> DEFINE r == [NoRequest EXCEPT !.op = "create", !.user = u, !.name = n,
                                    !.exchange = e, !.valid = valid]
  <2>2. r.account = NoAccount
    BY DEF NoRequest
  <2>3. Admit(w, r, "checkName")
    BY <2>1
  <2> HIDE DEF r
  <2> QED
    BY <2>2, <2>3, AdmitForgets
<1>2. CASE StartRemove(w)
  <2>1. PICK u \in Users, i \in 1 .. lastId :
           Admit(w, [NoRequest EXCEPT !.op = "remove", !.user = u, !.id = i], "findOne")
    BY <1>2 DEF StartRemove
  <2> DEFINE r == [NoRequest EXCEPT !.op = "remove", !.user = u, !.id = i]
  <2>2. r.account = NoAccount
    BY DEF NoRequest
  <2>3. Admit(w, r, "findOne")
    BY <2>1
  <2> HIDE DEF r
  <2> QED
    BY <2>2, <2>3, AdmitForgets
<1>3. CASE StartSync(w)
  <2>1. PICK i \in 1 .. lastId :
           Admit(w, [NoRequest EXCEPT !.op = "sync", !.id = i], "findUnique")
    BY <1>3 DEF StartSync
  <2> DEFINE r == [NoRequest EXCEPT !.op = "sync", !.id = i]
  <2>2. r.account = NoAccount
    BY DEF NoRequest
  <2>3. Admit(w, r, "findUnique")
    BY <2>1
  <2> HIDE DEF r
  <2> QED
    BY <2>2, <2>3, AdmitForgets
<1>4. CASE StartCreateWallet(w)
  <2>1. PICK u \in Users, n \in Names :
           Admit(w, [NoRequest EXCEPT !.op = "createWallet", !.user = u, !.name = n],
                 "checkWallet")
    BY <1>4 DEF StartCreateWallet
  <2> DEFINE r == [NoRequest EXCEPT !.op = "createWallet", !.user = u, !.name = n]
  <2>2. r.account = NoAccount
    BY DEF NoRequest
  <2>3. Admit(w, r, "checkWallet")
    BY <2>1
  <2> HIDE DEF r
  <2> QED
    BY <2>2, <2>3, AdmitForgets
<1>5. CASE StartRemoveWallet(w)
  <2>1. PICK u \in Users, i \in 1 .. lastWallet :
           Admit(w, [NoRequest EXCEPT !.op = "removeWallet", !.user = u, !.id = i],
                 "findWallet")
    BY <1>5 DEF StartRemoveWallet
  <2> DEFINE r == [NoRequest EXCEPT !.op = "removeWallet", !.user = u, !.id = i]
  <2>2. r.account = NoAccount
    BY DEF NoRequest
  <2>3. Admit(w, r, "findWallet")
    BY <2>1
  <2> HIDE DEF r
  <2> QED
    BY <2>2, <2>3, AdmitForgets
<1> QED
  BY <1>1, <1>2, <1>3, <1>4, <1>5

LEMMA MinorIs ==
  ASSUME IInv, NEW w \in Workers, Minor(w)
  PROVE  /\ UNCHANGED <<accounts, lastId, deletedAt, clients, exposed>>
         /\ \A v \in Workers \ {w} : pc'[v] = pc[v] /\ req'[v] = req[v]
         /\ pc'[w] \notin {"begin", "commit"}
         /\ req'[w].account \in {NoAccount, req[w].account}
<1>1. Typed
  BY DEF IInv
<1>2. UNCHANGED <<accounts, lastId, deletedAt, clients, exposed>>
  BY DEF Minor, StartCreate, StartRemove, StartSync, StartCreateWallet, StartRemoveWallet,
         Admit, CheckName, Verify, FindOne, Fetch, CheckWallet, InsertWallet, FindWallet,
         DeleteWallet, Fail, documents
<1>3. CASE StartCreate(w) \/ StartRemove(w) \/ StartSync(w)
           \/ StartCreateWallet(w) \/ StartRemoveWallet(w)
  BY <1>2, <1>3, StartForgets
<1>4. CASE Done(w)
  BY <1>2, <1>4, DoneForgets
<1>5. CASE CheckName(w) \/ CheckWallet(w)
  BY <1>1, <1>2, <1>4, <1>5 DEF CheckName, CheckWallet, Goto, Typed, Request
<1>6. CASE Verify(w) \/ FindOne(w) \/ Fetch(w) \/ FindWallet(w)
  BY <1>1, <1>2, <1>4, <1>6 DEF Verify, FindOne, Fetch, FindWallet, Goto, Typed
<1> QED
  BY <1>3, <1>4, <1>5, <1>6 DEF Minor, InsertWallet, DeleteWallet, Fail

LEMMA MinorKeepsKeysInv ==
  ASSUME KeysInv, IInv', NEW w \in Workers, Minor(w)
  PROVE  KeysInv'
<1>1. IInv
  BY DEF KeysInv
<1>2. \A i \in Nat \ {NoId} : Remembered(i)' => Remembered(i)
  BY <1>1, MinorIs, NoRequestForgets DEF Remembered
<1> QED
  BY <1>1, <1>2, MinorIs, CalmKeepsKeysInv

LEMMA StartDeleteUserKeepsKeysInv ==
  ASSUME KeysInv, IInv', NEW w \in Workers, StartDeleteUser(w)
  PROVE  KeysInv'
<1>1. IInv
  BY DEF KeysInv
<1>2. PICK u \in Users : Admit(w, [NoRequest EXCEPT !.op = "deleteUser", !.user = u], "begin")
  BY DEF StartDeleteUser
<1>3. /\ [NoRequest EXCEPT !.op = "deleteUser", !.user = u].account = NoAccount
      /\ [NoRequest EXCEPT !.op = "deleteUser", !.user = u].user = u
  BY DEF NoRequest
<1>4. /\ \A v \in Workers \ {w} : pc'[v] = pc[v] /\ req'[v] = req[v]
      /\ pc'[w] = "begin" /\ req'[w].user = u /\ req'[w].account = NoAccount
  BY <1>1, <1>2, <1>3, AdmitForgets
<1>5. UNCHANGED <<accounts, lastId, deletedAt, clients, exposed>>
  BY <1>2 DEF Admit, documents
<1>6. \A i \in Nat \ {NoId} : Remembered(i)' => Remembered(i)
  BY <1>4, <1>5, NoRequestForgets DEF Remembered
<1> QED
  BY <1>4, <1>5, <1>6, CalmKeepsKeysInv

LEMMA BeginKeepsKeysInv ==
  ASSUME KeysInv, IInv', NEW w \in Workers, Begin(w)
  PROVE  KeysInv'
<1>1. Typed /\ lastId \in Nat /\ DOMAIN accounts \subseteq Nat
  BY DEF KeysInv, IInv, Typed, DocsTyped
<1>2. UNCHANGED <<accounts, lastId, deletedAt, clients, exposed>>
  BY DEF Begin, documents
<1>3. /\ \A v \in Workers \ {w} : pc'[v] = pc[v] /\ req'[v] = req[v]
      /\ pc'[w] = "commit"
      /\ req'[w] = [req[w] EXCEPT
                        !.snapshot = Restrict(accounts, OfUser(accounts, req[w].user)),
                        !.checkedAt = lastId]
  BY <1>1 DEF Begin, Goto, Typed
<1>4. req[w] \in Request
  BY <1>1 DEF Typed
<1>5. /\ req'[w].user = req[w].user /\ req'[w].account = req[w].account
      /\ req'[w].checkedAt = lastId
      /\ req'[w].snapshot = Restrict(accounts, OfUser(accounts, req[w].user))
  BY <1>3, <1>4 DEF Request
<1>6. DOMAIN req'[w].snapshot = OfUser(accounts, req[w].user)
  BY <1>5 DEF Restrict
<1>7. Covers(w)'
  <2>1. \A i \in DOMAIN accounts :
           accounts[i].user = req[w].user => i \in DOMAIN req'[w].snapshot
    BY <1>6 DEF OfUser
  <2> QED
    BY <1>1, <1>2, <1>5, <2>1 DEF Covers, OfUser
<1>8. req'[w].user \in Users
  BY <1>5 DEF KeysInv, Begin
<1>9. \A i \in Nat \ {NoId} : Remembered(i)' => Remembered(i)
  BY <1>2, <1>3, <1>5 DEF Remembered
<1> QED
  BY <1>2, <1>3, <1>7, <1>8, <1>9, CalmKeepsKeysInv

\* What is read has its keys, or is Redacted.
LEMMA FindUniqueKeepsKeysInv ==
  ASSUME KeysInv, IInv', NEW w \in Workers, FindUnique(w)
  PROVE  KeysInv'
<1>1. IInv /\ Typed
  BY DEF KeysInv, IInv
<1>2. /\ UNCHANGED <<accounts, lastId, deletedAt, clients>>
      /\ exposed \subseteq exposed'
  BY DEF FindUnique, documents
<1>3. CASE Done(w)
  <2>1. \A i \in Nat \ {NoId} : Remembered(i)' => Remembered(i)
    BY <1>1, <1>2, <1>3, DoneForgets, NoRequestForgets DEF Remembered
  <2> QED
    BY <1>1, <1>2, <1>3, <2>1, DoneForgets, CalmKeepsKeysInv
<1>4. CASE /\ req[w].id \in DOMAIN accounts
           /\ req' = [req EXCEPT ![w].account = accounts[req[w].id]]
           /\ exposed' = IF accounts[req[w].id].user \in Deleted THEN exposed
                         ELSE exposed \union {req[w].id}
           /\ Goto(w, "connect")
  <2> DEFINE id == req[w].id
  <2>1. /\ \A v \in Workers \ {w} : pc'[v] = pc[v] /\ req'[v] = req[v]
        /\ pc'[w] = "connect"
        /\ req'[w].account = accounts[id]
    BY <1>1, <1>4 DEF Goto, Typed, Request
  <2>2. ASSUME NEW i \in Nat \ {NoId}, accounts[id].keys.of = i
        PROVE  i \in DOMAIN accounts /\ (i \in exposed' \/ Late(i))
    <3>1. accounts[id].keys # Redacted
      BY <2>2 DEF Redacted
    <3>2. i = id
      BY <1>4, <2>2, <3>1 DEF KeysInv
    <3>3. accounts[id].user \in Deleted => Late(id)
      BY <1>4, <3>1 DEF KeysInv
    <3> QED
      BY <1>4, <3>2, <3>3
  <2>3. ASSUME NEW i \in Nat \ {NoId}, Remembered(i)'
        PROVE  Remembered(i) \/ (i \in DOMAIN accounts /\ (i \in exposed' \/ Late(i)))
    <3>1. CASE \E k \in DOMAIN clients : clients[k].of = i
      BY <3>1 DEF Remembered
    <3>2. CASE \E v \in Workers : req'[v].account.keys.of = i
      <4>1. PICK v \in Workers : req'[v].account.keys.of = i
        BY <3>2
      <4>2. CASE v = w
        BY <2>1, <2>2, <4>1, <4>2
      <4>3. CASE v # w
        BY <2>1, <4>1, <4>3 DEF Remembered
      <4> QED
        BY <4>2, <4>3
    <3> QED
      BY <1>2, <2>3, <3>1, <3>2 DEF Remembered
  <2> QED
    BY <1>2, <2>1, <2>3, CalmKeepsKeysInv
<1> QED
  BY <1>3, <1>4 DEF FindUnique

\* The keys of the client that is made are those that were read.
LEMMA ConnectKeepsKeysInv ==
  ASSUME KeysInv, IInv', NEW w \in Workers, Connect(w)
  PROVE  KeysInv'
<1>1. Typed
  BY DEF KeysInv, IInv
<1>2. UNCHANGED <<accounts, lastId, deletedAt, exposed>>
  BY DEF Connect, documents
<1>3. \A k \in DOMAIN clients' :
         \/ k \in DOMAIN clients /\ clients'[k] = clients[k]
         \/ clients'[k] = req[w].account.keys
  BY DEF Connect, With
<1>4. /\ \A v \in Workers \ {w} : pc'[v] = pc[v] /\ req'[v] = req[v]
      /\ pc'[w] = "fetch"
  BY <1>1 DEF Connect, Goto, Typed
<1>5. req'[w].account = NoAccount
  BY <1>1 DEF Connect, Typed, Request
<1>6. \A i \in Nat \ {NoId} : Remembered(i)' => Remembered(i)
  BY <1>3, <1>4, <1>5, NoRequestForgets DEF Remembered
<1> QED
  BY <1>2, <1>4, <1>6, CalmKeepsKeysInv

LEMMA DeleteKeepsKeysInv ==
  ASSUME KeysInv, IInv', NEW w \in Workers, Delete(w)
  PROVE  KeysInv'
<1>1. IInv
  BY DEF KeysInv
<1>2. Done(w) /\ UNCHANGED <<lastId, clients, deletedAt, exposed>>
  BY DEF Delete
<1>3. \A i \in DOMAIN accounts' : i \in DOMAIN accounts /\ accounts'[i] = accounts[i]
  BY DEF Delete, Without, Restrict
<1>4. \A i \in Nat \ {NoId} : Remembered(i)' => Remembered(i)
  BY <1>1, <1>2, DoneForgets, NoRequestForgets DEF Remembered
<1> QED
  BY <1>1, <1>2, <1>3, <1>4, DoneForgets, CalmKeepsKeysInv

LEMMA UpdateKeepsKeysInv ==
  ASSUME KeysInv, IInv', NEW w \in Workers, Update(w)
  PROVE  KeysInv'
<1>1. IInv /\ accounts \in [DOMAIN accounts -> Account]
  BY DEF KeysInv, IInv, Typed, DocsTyped
<1>2. Done(w) /\ UNCHANGED <<lastId, clients, deletedAt, exposed>>
  BY DEF Update
<1>3. /\ DOMAIN accounts' = DOMAIN accounts
      /\ \A i \in DOMAIN accounts : accounts'[i].user = accounts[i].user
                                    /\ accounts'[i].keys = accounts[i].keys
  BY <1>1 DEF Update, Synced, Account
<1>4. \A i \in Nat \ {NoId} : Remembered(i)' => Remembered(i)
  BY <1>1, <1>2, DoneForgets, NoRequestForgets DEF Remembered
<1> QED
  BY <1>1, <1>2, <1>3, <1>4, DoneForgets, CalmKeepsKeysInv

LEMMA RestartKeepsKeysInv ==
  ASSUME KeysInv, IInv', Restart
  PROVE  KeysInv'
<1>1. UNCHANGED <<accounts, lastId, deletedAt, exposed>>
  BY DEF Restart, documents
<1>2. \A i \in Nat \ {NoId} : ~Remembered(i)'
  BY NoRequestForgets DEF Restart, Remembered
<1>3. \A w \in Workers : pc'[w] = "idle"
  BY DEF Restart
<1> QED
  BY <1>1, <1>2, <1>3, CalmKeepsKeysInv

\* Whoever is deleted, an account that is new is late.
LEMMA InsertKeepsKeysInv ==
  ASSUME KeysInv, IInv', NEW w \in Workers, Insert(w)
  PROVE  KeysInv'
<1>0. PICK new : new = lastId + 1
  OBVIOUS
<1>1. /\ IInv /\ lastId \in Nat /\ DOMAIN accounts \subseteq 1 .. lastId
      /\ deletedAt \in [Users -> Nat \union {Never}]
      /\ \A u \in Users : deletedAt[u] <= lastId
  BY DEF KeysInv, IInv, Typed, DocsTyped
<1>2. Done(w) /\ lastId' = new /\ UNCHANGED <<clients, deletedAt, exposed>>
  BY <1>0 DEF Insert
<1>3. /\ DOMAIN accounts' = DOMAIN accounts \union {new}
      /\ \A i \in DOMAIN accounts : accounts'[i] = accounts[i]
      /\ accounts'[new].keys.of = new
  BY <1>0, <1>1, <1>2 DEF Insert, With
<1>4. Deleted' = Deleted
  BY <1>2 DEF Deleted
<1>5. \A i \in DOMAIN accounts : Late(i) => Late(i)'
  BY <1>2, <1>3, <1>4 DEF Late
<1>6. accounts'[new].user \in Deleted' => Late(new)'
  BY <1>0, <1>1, <1>2, <1>4 DEF Late, Deleted, Never
<1>7. \A i \in Nat \ {NoId} : Remembered(i)' => Remembered(i)
  BY <1>1, <1>2, DoneForgets, NoRequestForgets DEF Remembered
<1>8. ASSUME NEW i \in DOMAIN accounts'
      PROVE  /\ accounts'[i].keys = Redacted \/ accounts'[i].keys.of = i
             /\ accounts'[i].user \in Deleted' => accounts'[i].keys = Redacted \/ Late(i)'
  <2>1. CASE i = new
    BY <1>3, <1>6, <2>1
  <2>2. CASE i \in DOMAIN accounts
    BY <1>3, <1>4, <1>5, <2>2 DEF KeysInv
  <2> QED
    BY <1>3, <2>1, <2>2
<1>9. ASSUME NEW i \in Nat \ {NoId}, Remembered(i)'
      PROVE  /\ i <= lastId'
             /\ i \in DOMAIN accounts' => i \in exposed' \/ Late(i)'
  <2>1. /\ i <= lastId
        /\ i \in DOMAIN accounts => i \in exposed \/ Late(i)
    BY <1>7, <1>9 DEF KeysInv
  <2> QED
    BY <1>0, <1>1, <1>2, <1>3, <1>5, <2>1
<1>10. ASSUME NEW v \in Workers
       PROVE  /\ pc'[v] \in {"begin", "commit"} => req'[v].user \in Users
              /\ pc'[v] = "commit" => Covers(v)'
  <2>1. CASE v = w
    BY <1>1, <1>2, <2>1, DoneForgets
  <2>2. CASE v # w
    <3>1. pc'[v] = pc[v] /\ req'[v] = req[v] /\ req[v].checkedAt \in Nat
      BY <1>1, <1>2, <2>2, DoneForgets DEF IInv, Typed, Request
    <3>2. /\ pc[v] \in {"begin", "commit"} => req[v].user \in Users
          /\ pc[v] = "commit" => Covers(v)
      BY DEF KeysInv
    <3>3. Covers(v) => Covers(v)'
      BY <1>0, <1>1, <1>2, <1>3, <3>1 DEF Covers, OfUser
    <3> QED
      BY <3>1, <3>2, <3>3
  <2> QED
    BY <2>1, <2>2
<1>11. \A u \in Users : deletedAt'[u] <= lastId'
  BY <1>0, <1>1, <1>2 DEF Never
<1> QED
  BY <1>1, <1>2, <1>8, <1>9, <1>10, <1>11 DEF KeysInv, Redacted

\* What the deletion had not read is late.
LEMMA CommitKeepsKeysInv ==
  ASSUME KeysInv, IInv', NEW w \in Workers, Commit(w)
  PROVE  KeysInv'
<1> DEFINE u == req[w].user
           at == req[w].checkedAt
<1>1. /\ IInv /\ lastId \in Nat /\ DOMAIN accounts \subseteq 1 .. lastId
      /\ accounts \in [DOMAIN accounts -> Account]
      /\ deletedAt \in [Users -> Nat \union {Never}]
      /\ \A v \in Users : deletedAt[v] <= lastId
      /\ at \in Nat
  BY DEF KeysInv, IInv, Typed, DocsTyped, Request
<1>2. u \in Users \ Deleted /\ Covers(w)
  BY DEF KeysInv, Commit, NoConflict
<1>3. /\ Done(w) /\ UNCHANGED <<lastId, clients, exposed>>
      /\ deletedAt' = [deletedAt EXCEPT ![u] = at]
  BY DEF Commit
<1>4. /\ DOMAIN accounts' = DOMAIN accounts
      /\ \A i \in DOMAIN accounts :
            /\ accounts'[i].user = accounts[i].user
            /\ accounts'[i].keys \in {accounts[i].keys, Redacted}
            /\ i \in DOMAIN req[w].snapshot => accounts'[i].keys = Redacted
  BY <1>1 DEF Commit, Redact, Account
<1>5. Deleted' = Deleted \union {u}
  BY <1>1, <1>2, <1>3 DEF Deleted, Never
<1>6. \A i \in DOMAIN accounts : Late(i) => Late(i)'
  BY <1>1, <1>2, <1>3, <1>4, <1>5 DEF Late, Deleted
<1>7. \A i \in Nat \ {NoId} : Remembered(i)' => Remembered(i)
  BY <1>1, <1>3, DoneForgets, NoRequestForgets DEF Remembered
<1>8. ASSUME NEW i \in DOMAIN accounts'
      PROVE  /\ accounts'[i].keys = Redacted \/ accounts'[i].keys.of = i
             /\ accounts'[i].user \in Deleted' => accounts'[i].keys = Redacted \/ Late(i)'
  <2>1. accounts'[i].keys = Redacted \/ accounts'[i].keys.of = i
    BY <1>4 DEF KeysInv
  <2>2. CASE accounts[i].user = u
    <3>1. CASE i <= at
      BY <1>2, <1>4, <2>1, <2>2, <3>1 DEF Covers, OfUser
    <3>2. CASE ~(i <= at)
      <4>1. i \in Nat
        BY <1>1, <1>4
      <4>2. at < i
        BY <1>1, <3>2, <4>1
      <4>3. deletedAt'[u] = at /\ u \in Deleted'
        BY <1>1, <1>2, <1>3, <1>5
      <4>4. accounts'[i].user = u
        BY <1>4, <2>2
      <4> QED
        BY <2>1, <4>2, <4>3, <4>4 DEF Late
    <3> QED
      BY <3>1, <3>2
  <2>3. CASE accounts[i].user # u
    BY <1>4, <1>5, <1>6, <2>1, <2>3 DEF KeysInv
  <2> QED
    BY <2>2, <2>3
<1>9. ASSUME NEW i \in Nat \ {NoId}, Remembered(i)'
      PROVE  /\ i <= lastId'
             /\ i \in DOMAIN accounts' => i \in exposed' \/ Late(i)'
  BY <1>3, <1>4, <1>6, <1>7, <1>9 DEF KeysInv
<1>10. ASSUME NEW v \in Workers
       PROVE  /\ pc'[v] \in {"begin", "commit"} => req'[v].user \in Users
              /\ pc'[v] = "commit" => Covers(v)'
  <2>1. CASE v = w
    BY <1>1, <1>3, <2>1, DoneForgets
  <2>2. CASE v # w
    <3>1. pc'[v] = pc[v] /\ req'[v] = req[v]
      BY <1>1, <1>3, <2>2, DoneForgets
    <3>2. /\ pc[v] \in {"begin", "commit"} => req[v].user \in Users
          /\ pc[v] = "commit" => Covers(v)
      BY DEF KeysInv
    <3>3. Covers(v) => Covers(v)'
      BY <1>3, <1>4, <3>1 DEF Covers, OfUser
    <3> QED
      BY <3>1, <3>2, <3>3
  <2> QED
    BY <2>1, <2>2
<1>11. /\ deletedAt' \in [Users -> Nat \union {Never}]
       /\ \A v \in Users : deletedAt'[v] <= lastId'
  BY <1>1, <1>2, <1>3 DEF Covers
<1> QED
  BY <1>8, <1>9, <1>10, <1>11 DEF KeysInv, Redacted

LEMMA KeysInvStep == KeysInv /\ [Next]_vars => KeysInv'
<1> SUFFICES ASSUME KeysInv, [Next]_vars
             PROVE  KeysInv'
  OBVIOUS
<1>1. IInv'
  BY IInvStep DEF KeysInv
<1>2. CASE UNCHANGED vars
  <2>1. UNCHANGED <<accounts, lastId, deletedAt, clients, exposed, pc, req>>
    BY <1>2 DEF vars, documents
  <2>2. \A i \in Nat \ {NoId} : Remembered(i)' => Remembered(i)
    BY <2>1 DEF Remembered
  <2> QED
    BY <1>1, <2>1, <2>2, CalmKeepsKeysInv
<1>3. CASE Restart
  BY <1>1, <1>3, RestartKeepsKeysInv
<1>4. ASSUME NEW w \in Workers, Step(w)
      PROVE  KeysInv'
  <2>1. CASE Minor(w)
    BY <1>1, <2>1, MinorKeepsKeysInv
  <2>2. CASE StartDeleteUser(w) \/ Begin(w) \/ Commit(w)
    BY <1>1, <2>2, StartDeleteUserKeepsKeysInv, BeginKeepsKeysInv, CommitKeepsKeysInv
  <2>3. CASE Insert(w) \/ Delete(w) \/ Update(w)
    BY <1>1, <2>3, InsertKeepsKeysInv, DeleteKeepsKeysInv, UpdateKeepsKeysInv
  <2>4. CASE FindUnique(w) \/ Connect(w)
    BY <1>1, <2>4, FindUniqueKeepsKeysInv, ConnectKeepsKeysInv
  <2> QED
    BY <1>4, <2>1, <2>2, <2>3, <2>4 DEF Step, Minor
<1> QED
  BY <1>2, <1>3, <1>4 DEF Next

(* The keys of a deleted user's account are neither stored nor in memory, unless *)
(* a synchronisation had read them before, or the account was inserted after the *)
(* deletion had read what there was, for any number of requests                  *)
(* (UserRepository.softDeleteUser).                                              *)
THEOREM DeletedKeysGone == Spec => []KeysForgotten
<1>1. KeysInv => KeysForgotten
  <2> SUFFICES ASSUME KeysInv, NEW u \in Deleted, NEW i \in 1 .. lastId,
                      i \in OfUser(accounts, u), i <= deletedAt[u]
               PROVE  /\ accounts[i].keys = Redacted
                      /\ i \notin exposed =>
                            \A k \in DOMAIN clients : clients[k].of # i
    BY DEF KeysForgotten
  <2>1. /\ i \in DOMAIN accounts /\ accounts[i].user = u /\ u \in Users
        /\ lastId \in Nat
        /\ deletedAt[u] \in Nat \union {Never}
    BY DEF OfUser, Deleted, KeysInv, IInv, Typed, DocsTyped
  <2>2. i \in Nat \ {NoId} /\ ~(deletedAt[u] < i)
    BY <2>1 DEF NoId, Never
  <2>3. ~Late(i)
    BY <2>1, <2>2 DEF Late
  <2>4. accounts[i].keys = Redacted
    BY <2>1, <2>3 DEF KeysInv
  <2>5. i \notin exposed => ~Remembered(i)
    BY <2>1, <2>2, <2>3 DEF KeysInv
  <2> QED
    BY <2>4, <2>5 DEF Remembered
<1> QED
  BY <1>1, KeysInvInit, KeysInvStep, PTL DEF Spec
=============================================================================

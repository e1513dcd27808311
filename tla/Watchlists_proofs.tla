--------------------------- MODULE Watchlists_proofs ---------------------------
(***************************************************************************)
(* Proofs about Watchlists, for any number of requests, users, lists and   *)
(* assets: items outlive their list or asset only after a race, such a     *)
(* list stays unreadable, and lists change only by their owners.           *)
(***************************************************************************)
EXTENDS Watchlists, TLAPS

List == [live : BOOLEAN, user : Users \union {NoUser}, name : Names]
Item == [id : Nat, list : ListIds, asset : Assets \union {NoAsset}]
Docs == {"list", "asset", "item"} \X (Nat \union Assets)
Request == [op : Operations, user : Users \union {NoUser}, list : ListIds \union {NoId},
            name : Names, symbols : SUBSET Symbols, asset : Assets \union {NoAsset},
            item : Nat, targets : SUBSET Assets, doomed : SUBSET Item, newest : Nat,
            raced : BOOLEAN]
OnList == {"write", "findAsset", "checkItem", "insertItem", "findItem", "deleteItem",
           "reread"}
Labels == OnList \union {"idle", "checkName", "insertList", "access", "begin", "commit"}

Typed ==
    /\ lists \in [ListIds -> List]
    /\ assets \in SUBSET Assets
    /\ items \in SUBSET Item
    /\ lastList \in 0 .. MaxLists
    /\ lastItem \in Nat
    /\ raced \in SUBSET Nat
    /\ pc \in [Workers -> Labels]
    /\ req \in [Workers -> Request]
    /\ missed \in [Workers -> SUBSET Docs]

IdsAreIssued ==
    /\ \A l \in ListIds : lists[l].live => l <= lastList
    /\ \A i \in items : i.id <= lastItem
    /\ \A i, j \in items : i.id = j.id => i = j

\* A request that was let in works on a list of its user.
OnOwnList(w) ==
    /\ req[w].list \in 1 .. lastList
    /\ lists[req[w].list].user = req[w].user

\* A deletion takes all that was there when it began.
Deletes(w) ==
    /\ req[w].newest <= lastItem
    /\ \A j \in items : Overtakes(req[w], j) /\ j.id <= req[w].newest => j \in req[w].doomed
    /\ req[w].op = "delete" => \A i \in req[w].doomed : i.list = req[w].list
    /\ req[w].op = "deleteAssets" =>
           /\ \A i \in req[w].doomed : i.asset \in req[w].targets
           /\ NoConflict(w) => req[w].targets \subseteq assets

WorkerInv(w) ==
    /\ pc[w] \in {"checkName", "insertList"} => req[w].list = NoId
    /\ pc[w] = "access" => /\ req[w].list \in 1 .. lastList
                           /\ req[w].op \in {"update", "delete", "add", "remove", "metrics"}
                           /\ req[w].targets = {} /\ ~req[w].raced
    /\ pc[w] \in OnList => OnOwnList(w)
    /\ pc[w] \in {"begin", "commit"} =>
           \/ req[w].op = "delete" /\ req[w].targets = {} /\ OnOwnList(w)
           \/ req[w].op = "deleteAssets" /\ req[w].list = NoId
    /\ Adding(w) /\ ~req[w].raced => lists[req[w].list].live
    /\ pc[w] \in {"checkItem", "insertItem"} /\ ~req[w].raced => req[w].asset \in assets
    /\ pc[w] = "deleteItem" =>
           /\ req[w].item <= lastItem
           /\ \A i \in items : i.id = req[w].item => i.list = req[w].list
    /\ pc[w] = "commit" => Deletes(w)

ListInv == Typed /\ IdsAreIssued /\ \A w \in Workers : WorkerInv(w)

\* Nobody who was let in to a stuck list is left.
StuckInv == stuck \subseteq ListIds /\ \A l \in stuck : Stuck(l)

WatchInv == ListInv /\ DanglingOnlyIfRaced /\ StuckInv

\* What a step of w does to the others: it adds documents with new ids, deletes
\* documents, and tells the additions and the open transactions that this concerns.
SameOrRaced(v) ==
    \/ req'[v] = req[v]
    \/ Adding(v) /\ req'[v] = [req[v] EXCEPT !.raced = TRUE]

Frame(w) ==
    /\ lastList <= lastList' /\ lastItem <= lastItem' /\ assets' \subseteq assets
    /\ \A l \in 1 .. lastList : lists'[l].user = lists[l].user
    /\ \A j \in items' : j \in items \/ j.id > lastItem
    /\ \A v \in Workers \ {w} :
           /\ pc'[v] = pc[v] /\ SameOrRaced(v)
           /\ pc[v] = "commit" => /\ missed[v] \subseteq missed'[v]
                                  /\ \A a \in assets \ assets' : AssetDoc(a) \in missed'[v]
           /\ Adding(v) /\ ~req'[v].raced =>
                  /\ lists[req[v].list].live => lists'[req[v].list].live
                  /\ req[v].asset \in assets => req[v].asset \in assets'

-----------------------------------------------------------------------------
LEMMA IdsInterval == MaxLists \in Nat /\ ListIds = 1 .. MaxLists /\ NoId = 0
  BY WatchlistsAssumption DEF ListIds, NoId

LEMMA NothingTyped == NoList \in List /\ NoRequest \in Request
<1>1. NoName \in Names
  BY WatchlistsAssumption DEF NoName
<1>2. NoList \in List
  BY <1>1 DEF NoList, List
<1>3. NoRequest \in Request
  BY <1>1 DEF NoRequest, Request, Operations, NoId
<1> QED
  BY <1>2, <1>3

LEMMA WorkerTyped ==
    ASSUME Typed, NEW w \in Workers
    PROVE  /\ req[w] \in Request /\ pc[w] \in Labels
           /\ req[w].list \in Nat /\ req[w].item \in Nat /\ req[w].newest \in Nat
           /\ req[w].targets \in SUBSET Assets /\ req[w].doomed \in SUBSET Item
           /\ req[w].user \in Users \union {NoUser} /\ req[w].name \in Names
           /\ req[w].asset \in Assets \union {NoAsset}
  BY IdsInterval DEF Typed, Request

LEMMA OthersKeepWorkerInv ==
    ASSUME ListInv, NEW w \in Workers, Frame(w), Typed', NEW v \in Workers, v # w
    PROVE  WorkerInv(v)'
<1>1. /\ pc'[v] = pc[v] /\ SameOrRaced(v)
      /\ lastList <= lastList' /\ lastItem <= lastItem' /\ assets' \subseteq assets
  BY DEF Frame
<1>2. WorkerInv(v) /\ Typed
  BY DEF ListInv
<1>3. /\ lastList \in Nat /\ lastList' \in Nat /\ lastItem \in Nat /\ lastItem' \in Nat
      /\ req[v].item \in Nat /\ req[v].newest \in Nat /\ req[v].list \in Nat
  BY <1>2, WorkerTyped, IdsInterval DEF Typed
<1>4. /\ req'[v].op = req[v].op /\ req'[v].list = req[v].list
      /\ req'[v].user = req[v].user /\ req'[v].targets = req[v].targets
      /\ req'[v].asset = req[v].asset /\ req'[v].item = req[v].item
      /\ ~Adding(v) => req'[v] = req[v]
      /\ ~req'[v].raced => ~req[v].raced
  <2>1. req[v] \in Request
    BY <1>2, WorkerTyped
  <2>2. CASE req'[v] = req[v]
    BY <2>2
  <2>3. CASE Adding(v) /\ req'[v] = [req[v] EXCEPT !.raced = TRUE]
    BY <2>1, <2>3 DEF Request
  <2> QED
    BY <1>1, <2>2, <2>3 DEF SameOrRaced
<1>5. OnOwnList(v) => OnOwnList(v)'
  BY <1>1, <1>3, <1>4 DEF OnOwnList, Frame
<1>6. ASSUME pc[v] = "deleteItem"
      PROVE  /\ req'[v].item <= lastItem'
             /\ \A i \in items' : i.id = req'[v].item => i.list = req'[v].list
  <2>1. /\ req[v].item <= lastItem
        /\ \A i \in items : i.id = req[v].item => i.list = req[v].list
    BY <1>2, <1>6 DEF WorkerInv
  <2>2. \A i \in items' : i.id = req[v].item => i \in items
    BY <1>3, <2>1 DEF Frame
  <2> QED
    BY <1>1, <1>3, <1>4, <2>1, <2>2
<1>7. ASSUME pc[v] = "commit"
      PROVE  Deletes(v)'
  <2>1. Deletes(v) /\ req'[v] = req[v]
    BY <1>2, <1>4, <1>7 DEF WorkerInv, Adding
  <2>2. \A j \in items' : j.id <= req[v].newest => j \in items
    BY <1>3, <2>1, <1>2 DEF Frame, Deletes, Typed, Item
  <2>3. req[v].newest <= lastItem'
    BY <1>1, <1>3, <2>1 DEF Deletes
  <2>4. ASSUME NEW j \in items', Overtakes(req[v], j), j.id <= req[v].newest
        PROVE  j \in req[v].doomed
    BY <2>1, <2>2, <2>4 DEF Deletes
  <2>5. ASSUME NoConflict(v)', NoConflict(v) => req[v].targets \subseteq assets
        PROVE  req[v].targets \subseteq assets'
    <3>1. /\ missed[v] \subseteq missed'[v]
          /\ \A a \in assets \ assets' : AssetDoc(a) \in missed'[v]
      BY <1>7 DEF Frame
    <3>2. Writes(req[v]) \intersect missed'[v] = {}
      BY <2>1, <2>5 DEF NoConflict
    <3>3. NoConflict(v)
      BY <3>1, <3>2 DEF NoConflict
    <3>4. \A a \in req[v].targets : AssetDoc(a) \in Writes(req[v])
      BY DEF Writes
    <3> QED
      BY <2>5, <3>1, <3>2, <3>3, <3>4
  <2> QED
    BY <2>1, <2>3, <2>4, <2>5 DEF Deletes, Overtakes
<1>8. Adding(v)' /\ ~req'[v].raced => lists'[req'[v].list].live
  BY <1>1, <1>2, <1>4 DEF WorkerInv, Adding, Frame
<1>9. pc'[v] \in {"checkItem", "insertItem"} /\ ~req'[v].raced => req'[v].asset \in assets'
  BY <1>1, <1>2, <1>4 DEF WorkerInv, Adding, Frame
<1>10. pc'[v] = "access" => /\ req'[v].list \in 1 .. lastList'
                            /\ req'[v].op \in {"update", "delete", "add", "remove", "metrics"}
                            /\ req'[v].targets = {} /\ ~req'[v].raced
  BY <1>1, <1>2, <1>3, <1>4 DEF WorkerInv, Adding
<1> QED
  BY <1>1, <1>2, <1>4, <1>5, <1>6, <1>7, <1>8, <1>9, <1>10 DEF WorkerInv

LEMMA OthersKeepListInv ==
    ASSUME ListInv, NEW w \in Workers, Frame(w), Typed', IdsAreIssued', WorkerInv(w)'
    PROVE  ListInv'
  BY OthersKeepWorkerInv DEF ListInv

-----------------------------------------------------------------------------
LEMMA ListInvInit == Init => ListInv
<1> SUFFICES ASSUME Init
             PROVE  ListInv
  OBVIOUS
<1>1. Typed
  BY NothingTyped, IdsInterval DEF Init, Typed, Labels
<1>2. IdsAreIssued
  BY DEF Init, IdsAreIssued, NoList
<1>3. \A w \in Workers : WorkerInv(w)
  BY DEF Init, WorkerInv, OnList, Adding
<1> QED
  BY <1>1, <1>2, <1>3 DEF ListInv

LEMMA IdleInv == ASSUME NEW w, pc'[w] = "idle" PROVE WorkerInv(w)'
  BY DEF WorkerInv, OnList, Adding

\* The steps that leave the documents alone.
Quiet(w) ==
    /\ UNCHANGED <<documents, raced>>
    /\ \A v \in Workers \ {w} : /\ pc'[v] = pc[v] /\ req'[v] = req[v]
                                /\ missed'[v] = missed[v]

LEMMA QuietKeepsListInv ==
    ASSUME ListInv, NEW w \in Workers, Quiet(w), WorkerInv(w)',
           pc' \in [Workers -> Labels], req' \in [Workers -> Request],
           missed' \in [Workers -> SUBSET Docs]
    PROVE  ListInv' /\ Frame(w)
<1>1. Typed' /\ IdsAreIssued'
  BY DEF ListInv, Typed, IdsAreIssued, Quiet, documents
<1>2. Frame(w)
  BY IdsInterval DEF Frame, Quiet, documents, SameOrRaced, ListInv, Typed
<1> QED
  BY <1>1, <1>2, OthersKeepListInv

\* A request for one list, as validateWatchlistAccess gets it.
OneList(r) ==
    /\ r \in Request /\ r.list \in 1 .. lastList
    /\ r.op \in {"update", "delete", "add", "remove", "metrics"}
    /\ r.targets = {} /\ ~r.raced

LEMMA AdmitKeepsListInv ==
    ASSUME ListInv, NEW w \in Workers, NEW r \in Request, NEW label \in Labels,
           Admit(w, r, label),
           label \in {"checkName", "access", "begin"},
           label = "checkName" => r.list = NoId,
           label = "access" => OneList(r),
           label = "begin" => r.op = "deleteAssets" /\ r.list = NoId
    PROVE  ListInv' /\ Quiet(w) /\ pc'[w] = label /\ req'[w] = r
<1>1. /\ Quiet(w) /\ pc'[w] = label /\ req'[w] = r
      /\ pc' \in [Workers -> Labels] /\ req' \in [Workers -> Request]
      /\ missed' \in [Workers -> SUBSET Docs] /\ lastList' = lastList
  BY DEF Admit, Goto, Quiet, documents, ListInv, Typed
<1>2. WorkerInv(w)'
  BY <1>1 DEF WorkerInv, OnList, Adding, OneList
<1> QED
  BY <1>1, <1>2, QuietKeepsListInv

LEMMA StartKeepsListInv ==
    ASSUME ListInv, NEW w \in Workers, Start(w)
    PROVE  /\ ListInv' /\ Quiet(w)
           /\ \/ pc'[w] = "access"
              \/ pc'[w] \in {"checkName", "begin"} /\ req'[w].list = NoId
<1> DEFINE Goal == /\ ListInv' /\ Quiet(w)
                   /\ \/ pc'[w] = "access"
                      \/ pc'[w] \in {"checkName", "begin"} /\ req'[w].list = NoId
<1>1. CASE StartCreate(w)
  <2>1. PICK u \in Users, n \in Names :
           Admit(w, [NoRequest EXCEPT !.op = "create", !.user = u, !.name = n], "checkName")
    BY <1>1 DEF StartCreate
  <2> DEFINE r == [NoRequest EXCEPT !.op = "create", !.user = u, !.name = n]
  <2>2. r \in Request /\ r.list = NoId
    BY NothingTyped DEF NoRequest, Request, Operations
  <2>3. Admit(w, r, "checkName") /\ "checkName" \in Labels
    BY <2>1 DEF Labels
  <2> HIDE DEF r
  <2> QED
    BY <2>2, <2>3, AdmitKeepsListInv
<1>2. ASSUME NEW r, Admit(w, r, "access"), OneList(r)
      PROVE  Goal
  <2>1. "access" \in Labels
    BY DEF Labels
  <2> QED
    BY <1>2, <2>1, AdmitKeepsListInv DEF OneList
<1>3. \A l \in 1 .. lastList : l \in ListIds
  BY IdsInterval DEF ListInv, Typed
<1>4. CASE StartUpdate(w)
  <2>1. PICK u \in Users, l \in 1 .. lastList, n \in Names :
           Admit(w, [NoRequest EXCEPT !.op = "update", !.user = u, !.list = l, !.name = n],
                 "access")
    BY <1>4 DEF StartUpdate
  <2> DEFINE r == [NoRequest EXCEPT !.op = "update", !.user = u, !.list = l, !.name = n]
  <2>2. OneList(r)
    BY <1>3, NothingTyped DEF OneList, NoRequest, Request, Operations
  <2>3. Admit(w, r, "access")
    BY <2>1
  <2> HIDE DEF r
  <2> QED
    BY <1>2, <2>2, <2>3
<1>5. CASE StartDelete(w)
  <2>1. PICK u \in Users, l \in 1 .. lastList :
           Admit(w, [NoRequest EXCEPT !.op = "delete", !.user = u, !.list = l], "access")
    BY <1>5 DEF StartDelete
  <2> DEFINE r == [NoRequest EXCEPT !.op = "delete", !.user = u, !.list = l]
  <2>2. OneList(r)
    BY <1>3, NothingTyped DEF OneList, NoRequest, Request, Operations
  <2>3. Admit(w, r, "access")
    BY <2>1
  <2> HIDE DEF r
  <2> QED
    BY <1>2, <2>2, <2>3
<1>6. CASE StartAdd(w)
  <2>1. PICK u \in Users, l \in 1 .. lastList, y \in Symbols :
           Admit(w, [NoRequest EXCEPT !.op = "add", !.user = u, !.list = l,
                                      !.symbols = {y}], "access")
    BY <1>6 DEF StartAdd
  <2> DEFINE r == [NoRequest EXCEPT !.op = "add", !.user = u, !.list = l, !.symbols = {y}]
  <2>2. OneList(r)
    BY <1>3, NothingTyped DEF OneList, NoRequest, Request, Operations
  <2>3. Admit(w, r, "access")
    BY <2>1
  <2> HIDE DEF r
  <2> QED
    BY <1>2, <2>2, <2>3
<1>7. CASE StartRemove(w)
  <2>1. PICK u \in Users, l \in 1 .. lastList, a \in Assets :
           Admit(w, [NoRequest EXCEPT !.op = "remove", !.user = u, !.list = l,
                                      !.asset = a], "access")
    BY <1>7 DEF StartRemove
  <2> DEFINE r == [NoRequest EXCEPT !.op = "remove", !.user = u, !.list = l, !.asset = a]
  <2>2. OneList(r)
    BY <1>3, NothingTyped DEF OneList, NoRequest, Request, Operations
  <2>3. Admit(w, r, "access")
    BY <2>1
  <2> HIDE DEF r
  <2> QED
    BY <1>2, <2>2, <2>3
<1>8. CASE StartMetrics(w)
  <2>1. PICK u \in Users, l \in 1 .. lastList :
           Admit(w, [NoRequest EXCEPT !.op = "metrics", !.user = u, !.list = l], "access")
    BY <1>8 DEF StartMetrics
  <2> DEFINE r == [NoRequest EXCEPT !.op = "metrics", !.user = u, !.list = l]
  <2>2. OneList(r)
    BY <1>3, NothingTyped DEF OneList, NoRequest, Request, Operations
  <2>3. Admit(w, r, "access")
    BY <2>1
  <2> HIDE DEF r
  <2> QED
    BY <1>2, <2>2, <2>3
<1>9. CASE StartDeleteAssets(w)
  <2>1. PICK T \in {{a} : a \in assets} \union
                   {{a \in assets : PortfolioOf[a] = PortfolioOf[b]} : b \in assets} :
           Admit(w, [NoRequest EXCEPT !.op = "deleteAssets", !.targets = T], "begin")
    BY <1>9 DEF StartDeleteAssets
  <2>2. T \subseteq Assets
    BY DEF ListInv, Typed
  <2> DEFINE r == [NoRequest EXCEPT !.op = "deleteAssets", !.targets = T]
  <2>3. r \in Request /\ r.op = "deleteAssets" /\ r.list = NoId
    BY <2>2, NothingTyped DEF NoRequest, Request, Operations
  <2>4. Admit(w, r, "begin") /\ "begin" \in Labels
    BY <2>1 DEF Labels
  <2> HIDE DEF r
  <2> QED
    BY <2>3, <2>4, AdmitKeepsListInv
<1> QED
  BY <1>1, <1>4, <1>5, <1>6, <1>7, <1>8, <1>9 DEF Start

\* A worker that ends its request.
LEMMA DoneIsTyped ==
    ASSUME ListInv, NEW w \in Workers, Done(w)
    PROVE  /\ pc' \in [Workers -> Labels] /\ req' \in [Workers -> Request]
           /\ pc'[w] = "idle"
           /\ \A v \in Workers \ {w} : pc'[v] = pc[v] /\ req'[v] = req[v]
  BY NothingTyped DEF Done, Goto, ListInv, Typed, Labels

LEMMA MissedIsTyped ==
    ASSUME ListInv, NEW w \in Workers, NEW written \in SUBSET Docs, Missed(w, written)
    PROVE  /\ missed' \in [Workers -> SUBSET Docs]
           /\ \A v \in Workers \ {w} :
                  pc[v] = "commit" => missed'[v] = missed[v] \union written
  BY DEF Missed, ListInv, Typed

LEMMA DocsAreTyped ==
    ASSUME ListInv
    PROVE  /\ \A l \in Nat : ListDoc(l) \in Docs
           /\ \A i \in Item : ItemDoc(i) \in Docs
           /\ \A w \in Workers : Writes(req[w]) \in SUBSET Docs
<1>1. /\ \A l \in Nat : ListDoc(l) \in Docs
      /\ \A i \in Item : ItemDoc(i) \in Docs
      /\ \A a \in Assets : AssetDoc(a) \in Docs
  BY DEF ListDoc, ItemDoc, AssetDoc, Docs, Item
<1>2. ASSUME NEW w \in Workers
      PROVE  Writes(req[w]) \in SUBSET Docs
  <2>1. /\ req[w].list \in Nat /\ req[w].targets \subseteq Assets
        /\ req[w].doomed \subseteq Item
    BY WorkerTyped DEF ListInv
  <2> QED
    BY <1>1, <2>1 DEF Writes
<1> QED
  BY <1>1, <1>2

-----------------------------------------------------------------------------
(* One lemma for each step *)

LEMMA CheckNameKeepsListInv ==
    ASSUME ListInv, NEW w \in Workers, CheckName(w)
    PROVE  ListInv' /\ Quiet(w) /\ pc'[w] = "insertList" /\ req' = req
<1>1. /\ Quiet(w) /\ pc' \in [Workers -> Labels] /\ req' = req /\ missed' = missed
      /\ pc[w] = "checkName" /\ pc'[w] = "insertList"
  BY DEF CheckName, Goto, Quiet, ListInv, Typed, Labels
<1>2. WorkerInv(w)'
  BY <1>1 DEF WorkerInv, ListInv, OnList, Adding
<1> QED
  BY <1>1, <1>2, QuietKeepsListInv DEF ListInv, Typed

LEMMA AccessKeepsListInv ==
    ASSUME ListInv, NEW w \in Workers, Access(w)
    PROVE  ListInv' /\ Quiet(w) /\ req' = req
<1>1. /\ Accessible(req[w].list, req[w].user) /\ pc[w] = "access"
      /\ pc' = [pc EXCEPT ![w] = AfterAccess(req[w].op)]
      /\ UNCHANGED <<documents, raced, started, req, missed>>
  BY DEF Access, Goto
<1>2. /\ req[w].list \in 1 .. lastList
      /\ req[w].op \in {"update", "delete", "add", "remove", "metrics"}
      /\ req[w].targets = {}
  BY <1>1 DEF ListInv, WorkerInv
<1>3. /\ AfterAccess(req[w].op) \in {"write", "begin", "findAsset", "findItem", "reread"}
      /\ AfterAccess(req[w].op) = "begin" => req[w].op = "delete"
  BY <1>2 DEF AfterAccess
<1>4. /\ Quiet(w) /\ pc' \in [Workers -> Labels] /\ pc'[w] = AfterAccess(req[w].op)
  BY <1>1, <1>3 DEF Quiet, ListInv, Typed, Labels, OnList
<1>5. WorkerInv(w)'
  BY <1>1, <1>2, <1>3, <1>4 DEF WorkerInv, OnList, Adding, OnOwnList, Accessible, documents
<1> QED
  BY <1>1, <1>4, <1>5, QuietKeepsListInv DEF ListInv, Typed

LEMMA FindAssetKeepsListInv ==
    ASSUME ListInv, NEW w \in Workers, FindAsset(w)
    PROVE  ListInv' /\ Quiet(w) /\ pc'[w] # "idle" /\ req'[w].list = req[w].list
<1>1. PICK a \in assets : req' = [req EXCEPT ![w].asset = a]
  BY DEF FindAsset
<1>2. Typed /\ pc[w] = "findAsset" /\ WorkerInv(w) /\ req[w] \in Request /\ a \in Assets
  BY WorkerTyped DEF FindAsset, ListInv, Typed
<1> DEFINE r == [req[w] EXCEPT !.asset = a]
<1>3. /\ r \in Request /\ r.list = req[w].list /\ r.user = req[w].user /\ r.asset = a
      /\ (r.raced <=> req[w].raced)
  BY <1>2 DEF Request
<1>4. /\ Quiet(w) /\ pc' \in [Workers -> Labels] /\ pc'[w] = "checkItem"
      /\ req'[w] = r /\ req' \in [Workers -> Request]
      /\ missed' = missed /\ UNCHANGED documents
  BY <1>1, <1>2, <1>3 DEF FindAsset, Goto, Quiet, Typed, Labels, OnList
<1> HIDE DEF r
<1>5. WorkerInv(w)'
  BY <1>2, <1>3, <1>4 DEF WorkerInv, OnList, Adding, OnOwnList, documents
<1> QED
  BY <1>2, <1>3, <1>4, <1>5, QuietKeepsListInv DEF Typed

LEMMA CheckItemKeepsListInv ==
    ASSUME ListInv, NEW w \in Workers, CheckItem(w)
    PROVE  ListInv' /\ Quiet(w) /\ pc'[w] # "idle" /\ req' = req
<1>1. /\ Quiet(w) /\ pc' \in [Workers -> Labels] /\ req' = req /\ missed' = missed
      /\ pc[w] = "checkItem" /\ pc'[w] = "insertItem" /\ UNCHANGED documents
  BY DEF CheckItem, Goto, Quiet, ListInv, Typed, Labels, OnList
<1>2. WorkerInv(w)'
  BY <1>1 DEF WorkerInv, ListInv, OnList, Adding, OnOwnList, documents
<1> QED
  BY <1>1, <1>2, QuietKeepsListInv DEF ListInv, Typed

LEMMA FindItemKeepsListInv ==
    ASSUME ListInv, NEW w \in Workers, FindItem(w)
    PROVE  ListInv' /\ Quiet(w) /\ pc'[w] # "idle" /\ req'[w].list = req[w].list
<1>1. PICK i \in ItemsOf(req[w].list) : req' = [req EXCEPT ![w].item = i.id]
  BY DEF FindItem
<1>2. /\ Typed /\ pc[w] = "findItem" /\ WorkerInv(w) /\ req[w] \in Request
      /\ i \in items /\ i.id \in Nat /\ i.id <= lastItem /\ i.list = req[w].list
  BY WorkerTyped DEF FindItem, ListInv, Typed, ItemsOf, Item, IdsAreIssued
<1> DEFINE r == [req[w] EXCEPT !.item = i.id]
<1>3. r \in Request /\ r.list = req[w].list /\ r.user = req[w].user /\ r.item = i.id
  BY <1>2 DEF Request
<1>4. /\ Quiet(w) /\ pc' \in [Workers -> Labels] /\ pc'[w] = "deleteItem"
      /\ req'[w] = r /\ req' \in [Workers -> Request]
      /\ missed' = missed /\ UNCHANGED documents
  BY <1>1, <1>2, <1>3 DEF FindItem, Goto, Quiet, Typed, Labels, OnList
<1> HIDE DEF r
<1>5. WorkerInv(w)'
  <2>1. \A j \in items : j.id = i.id => j.list = r.list
    BY <1>2, <1>3 DEF ListInv, IdsAreIssued
  <2> QED
    BY <1>2, <1>3, <1>4, <2>1 DEF WorkerInv, OnList, Adding, OnOwnList, documents
<1> QED
  BY <1>2, <1>3, <1>4, <1>5, QuietKeepsListInv DEF Typed

LEMMA EndKeepsListInv ==
    ASSUME ListInv, NEW w \in Workers, Reread(w) \/ Fail(w)
    PROVE  ListInv' /\ Quiet(w) /\ pc'[w] = "idle"
<1>1. Quiet(w) /\ pc'[w] = "idle" /\ missed' \in [Workers -> SUBSET Docs]
  BY DoneIsTyped DEF Reread, Fail, Quiet, ListInv, Typed
<1>2. WorkerInv(w)'
  BY <1>1, IdleInv
<1> QED
  BY <1>1, <1>2, DoneIsTyped, QuietKeepsListInv DEF Reread, Fail

LEMMA BeginKeepsListInv ==
    ASSUME ListInv, NEW w \in Workers, Begin(w)
    PROVE  ListInv' /\ Quiet(w) /\ pc'[w] # "idle" /\ req'[w].list = req[w].list
<1>1. Typed /\ pc[w] = "begin" /\ WorkerInv(w) /\ req[w] \in Request
  BY WorkerTyped DEF Begin, ListInv
<1> DEFINE r == [req[w] EXCEPT !.doomed = Cascade(req[w]), !.newest = lastItem]
<1>2. Cascade(req[w]) \subseteq items /\ items \subseteq Item /\ lastItem \in Nat
  BY <1>1 DEF Cascade, ItemsOf, Typed
<1>3. /\ r \in Request /\ r.op = req[w].op /\ r.list = req[w].list
      /\ r.user = req[w].user /\ r.targets = req[w].targets
      /\ r.doomed = Cascade(req[w]) /\ r.newest = lastItem
  BY <1>1, <1>2 DEF Request
<1>4. req' = [req EXCEPT ![w] = r]
  BY <1>1 DEF Begin, Typed
<1> HIDE DEF r
<1>5. /\ Quiet(w) /\ pc' \in [Workers -> Labels] /\ pc'[w] = "commit"
      /\ req'[w] = r /\ req' \in [Workers -> Request]
      /\ missed' \in [Workers -> SUBSET Docs] /\ UNCHANGED documents
  BY <1>1, <1>3, <1>4 DEF Begin, Goto, Quiet, Typed, Labels
<1>6. \/ req[w].op = "delete" /\ req[w].targets = {} /\ OnOwnList(w)
      \/ req[w].op = "deleteAssets" /\ req[w].list = NoId
  BY <1>1 DEF WorkerInv
<1>7. Deletes(w)'
  <2>1. ASSUME NEW j \in items, Overtakes(r, j)
        PROVE  j \in r.doomed
    BY <1>3, <1>6, <2>1, IdsInterval DEF Overtakes, Cascade, ItemsOf
  <2>2. req[w].op = "deleteAssets" => req[w].targets \subseteq assets
    BY DEF Begin
  <2>3. /\ r.op = "delete" => \A i \in r.doomed : i.list = r.list
        /\ r.op = "deleteAssets" => \A i \in r.doomed : i.asset \in r.targets
    BY <1>3 DEF Cascade, ItemsOf
  <2> QED
    BY <1>2, <1>3, <1>5, <2>1, <2>2, <2>3 DEF Deletes, documents
<1>8. WorkerInv(w)'
  BY <1>3, <1>5, <1>6, <1>7 DEF WorkerInv, OnList, Adding, OnOwnList, documents
<1> QED
  BY <1>3, <1>5, <1>8, QuietKeepsListInv

LEMMA InsertListKeepsListInv ==
    ASSUME ListInv, NEW w \in Workers, InsertList(w)
    PROVE  /\ ListInv' /\ Frame(w) /\ pc'[w] = "idle"
           /\ \A l \in 1 .. lastList : lists'[l] = lists[l]
           /\ lastList + 1 \in ListIds /\ lists'[lastList + 1].live
           /\ \A l \in ListIds \ {lastList + 1} : lists'[l] = lists[l]
<1> DEFINE doc == [live |-> TRUE, user |-> req[w].user, name |-> Upper[req[w].name]]
<1>1. /\ lastList < MaxLists /\ lastList' = lastList + 1
      /\ lists' = [lists EXCEPT ![lastList + 1] = doc]
      /\ Done(w) /\ UNCHANGED <<assets, items, lastItem, raced, started, missed>>
  BY DEF InsertList
<1>2. /\ lastList \in Nat /\ lastList + 1 \in ListIds /\ lastList' \in 0 .. MaxLists
      /\ 1 .. lastList \subseteq ListIds
  BY <1>1, IdsInterval DEF ListInv, Typed
<1>3. doc \in List
  BY WorkerTyped, WatchlistsAssumption DEF ListInv, List
<1>4. /\ \A l \in ListIds \ {lastList + 1} : lists'[l] = lists[l]
      /\ \A l \in 1 .. lastList : lists'[l] = lists[l]
      /\ lists'[lastList + 1] = doc
  BY <1>1, <1>2, IdsInterval DEF ListInv, Typed
<1>5. doc.live
  OBVIOUS
<1> HIDE DEF doc
<1>6. Typed'
  BY <1>1, <1>2, <1>3, DoneIsTyped DEF ListInv, Typed
<1>7. IdsAreIssued'
  BY <1>1, <1>2, <1>4, IdsInterval DEF ListInv, IdsAreIssued
<1>8. Frame(w)
  <2>1. ASSUME NEW v \in Workers, Adding(v), ~req[v].raced
        PROVE  req[v].list \in 1 .. lastList
    BY <2>1 DEF ListInv, WorkerInv, OnOwnList, Adding, OnList
  <2>2. ASSUME NEW v \in Workers \ {w}
        PROVE  /\ pc'[v] = pc[v] /\ SameOrRaced(v) /\ missed'[v] = missed[v]
               /\ Adding(v) /\ ~req'[v].raced =>
                      (lists[req[v].list].live => lists'[req[v].list].live)
    BY <1>1, <1>4, <2>1, DoneIsTyped DEF SameOrRaced
  <2> QED
    BY <1>1, <1>2, <1>4, <2>2 DEF Frame, ListInv, Typed
<1>9. WorkerInv(w)'
  BY <1>1, DoneIsTyped, IdleInv
<1> QED
  BY <1>1, <1>2, <1>4, <1>5, <1>6, <1>7, <1>8, <1>9, DoneIsTyped, OthersKeepListInv

LEMMA WriteKeepsListInv ==
    ASSUME ListInv, NEW w \in Workers, Write(w)
    PROVE  /\ ListInv' /\ Frame(w) /\ OnOwnList(w) /\ pc[w] = "write" /\ pc'[w] = "idle"
           /\ UNCHANGED <<assets, items, raced>>
           /\ \A l \in ListIds : (lists'[l].live <=> lists[l].live)
           /\ \A l \in ListIds \ {req[w].list} : lists'[l] = lists[l]
<1> DEFINE id == req[w].list
<1>1. /\ lists' = [lists EXCEPT ![id].name = req[w].name]
      /\ Missed(w, {ListDoc(id)}) /\ Done(w) /\ pc[w] = "write"
      /\ UNCHANGED <<assets, items, lastList, lastItem, raced, started>>
  BY DEF Write
<1>2. OnOwnList(w) /\ id \in ListIds /\ id \in Nat
  BY <1>1, IdsInterval DEF ListInv, WorkerInv, OnOwnList, OnList, Typed
<1>3. {ListDoc(id)} \in SUBSET Docs
  BY <1>2, DocsAreTyped
<1>4. lists' \in [ListIds -> List]
  <2>1. lists[id] \in List /\ req[w].name \in Names
    BY <1>2, WorkerTyped DEF ListInv, Typed
  <2>2. [lists[id] EXCEPT !.name = req[w].name] \in List
    BY <2>1 DEF List
  <2> QED
    BY <1>1, <2>2 DEF ListInv, Typed
<1>5. \A l \in ListIds : /\ (lists'[l].live <=> lists[l].live)
                         /\ lists'[l].user = lists[l].user
                         /\ l # id => lists'[l] = lists[l]
  <2>1. lists[id] \in List
    BY <1>2 DEF ListInv, Typed
  <2>2. /\ [lists[id] EXCEPT !.name = req[w].name].user = lists[id].user
        /\ ([lists[id] EXCEPT !.name = req[w].name].live <=> lists[id].live)
    BY <2>1 DEF List
  <2> QED
    BY <1>1, <2>2 DEF ListInv, Typed
<1>6. Typed'
  BY <1>1, <1>3, <1>4, DoneIsTyped, MissedIsTyped DEF ListInv, Typed
<1>7. IdsAreIssued'
  BY <1>1, <1>5 DEF ListInv, IdsAreIssued
<1>8. Frame(w)
  <2>1. \A l \in 1 .. lastList : l \in ListIds
    BY IdsInterval DEF ListInv, Typed
  <2>2. ASSUME NEW v \in Workers, Adding(v), ~req[v].raced
        PROVE  req[v].list \in ListIds
    BY <2>1, <2>2 DEF ListInv, WorkerInv, OnOwnList, Adding, OnList
  <2>3. ASSUME NEW v \in Workers \ {w}
        PROVE  /\ pc'[v] = pc[v] /\ SameOrRaced(v)
               /\ pc[v] = "commit" => missed[v] \subseteq missed'[v]
               /\ Adding(v) /\ ~req'[v].raced =>
                      (lists[req[v].list].live => lists'[req[v].list].live)
    BY <1>1, <1>3, <1>5, <2>2, DoneIsTyped, MissedIsTyped DEF SameOrRaced
  <2> QED
    BY <1>1, <1>5, <2>1, <2>3, IdsInterval DEF Frame, ListInv, Typed
<1>9. WorkerInv(w)'
  BY <1>1, DoneIsTyped, IdleInv
<1> QED
  BY <1>1, <1>2, <1>5, <1>6, <1>7, <1>8, <1>9, DoneIsTyped, OthersKeepListInv

LEMMA InsertItemKeepsListInv ==
    ASSUME ListInv, NEW w \in Workers, InsertItem(w)
    PROVE  /\ ListInv' /\ Frame(w) /\ OnOwnList(w)
           /\ pc[w] = "insertItem" /\ pc'[w] = "reread" /\ req' = req
           /\ UNCHANGED <<lists, assets>> /\ raced \subseteq raced'
           /\ items \subseteq items'
           /\ \A i \in items' \ items :
                  /\ i.list = req[w].list
                  /\ (lists[i.list].live /\ i.asset \in assets) \/ i.id \in raced'
<1> DEFINE item == [id |-> lastItem + 1, list |-> req[w].list, asset |-> req[w].asset]
<1>1. /\ pc[w] = "insertItem" /\ lastItem' = lastItem + 1
      /\ items' = items \union {item}
      /\ raced' = (IF req[w].raced THEN raced \union {lastItem + 1} ELSE raced)
      /\ pc' = [pc EXCEPT ![w] = "reread"]
      /\ UNCHANGED <<lists, assets, lastList, started, req, missed>>
  BY DEF InsertItem, Goto
<1>2. Typed /\ WorkerInv(w) /\ lastItem \in Nat
  BY DEF ListInv, Typed
<1>3. /\ item \in Item /\ item.id = lastItem + 1 /\ item.list = req[w].list
      /\ item.asset = req[w].asset
  <2>1. req[w].list \in ListIds /\ req[w].asset \in Assets \union {NoAsset}
    BY <1>1, <1>2, WorkerTyped, IdsInterval DEF WorkerInv, OnOwnList, OnList, Typed
  <2> QED
    BY <1>2, <2>1 DEF Item
<1> HIDE DEF item
<1>4. Typed'
  BY <1>1, <1>2, <1>3 DEF Typed, Labels, OnList
<1>5. IdsAreIssued'
  <2>1. \A i \in items : i.id \in Nat /\ i.id <= lastItem
    BY <1>2 DEF ListInv, IdsAreIssued, Typed, Item
  <2> QED
    BY <1>1, <1>2, <1>3, <2>1 DEF ListInv, IdsAreIssued
<1>6. pc'[w] = "reread" /\ \A v \in Workers \ {w} : pc'[v] = pc[v]
  BY <1>1, <1>2 DEF Typed
<1>7. Frame(w)
  BY <1>1, <1>2, <1>3, <1>6, IdsInterval DEF Frame, SameOrRaced, Typed
<1>8. OnOwnList(w)
  BY <1>1, <1>2 DEF WorkerInv, OnList
<1>9. WorkerInv(w)'
  BY <1>1, <1>6, <1>8 DEF WorkerInv, OnList, Adding, OnOwnList
<1>10. (lists[req[w].list].live /\ req[w].asset \in assets) \/ req[w].raced
  BY <1>1, <1>2 DEF WorkerInv, Adding
<1> QED
  BY <1>1, <1>3, <1>4, <1>5, <1>6, <1>7, <1>8, <1>9, <1>10, OthersKeepListInv

LEMMA DeleteItemKeepsListInv ==
    ASSUME ListInv, NEW w \in Workers, DeleteItem(w)
    PROVE  /\ ListInv' /\ Frame(w) /\ OnOwnList(w)
           /\ pc[w] = "deleteItem" /\ pc'[w] = "reread" /\ req' = req
           /\ UNCHANGED <<lists, assets, raced>> /\ items' \subseteq items
           /\ \A i \in items \ items' : i.list = req[w].list
<1>1. PICK i \in items : i.id = req[w].item /\ items' = items \ {i} /\ Missed(w, {ItemDoc(i)})
  BY DEF DeleteItem
<1>2. /\ pc[w] = "deleteItem" /\ pc' = [pc EXCEPT ![w] = "reread"]
      /\ UNCHANGED <<lists, assets, lastList, lastItem, raced, started, req>>
  BY DEF DeleteItem, Goto
<1>3. Typed /\ WorkerInv(w) /\ {ItemDoc(i)} \in SUBSET Docs
  BY DocsAreTyped DEF ListInv, Typed
<1>4. Typed'
  BY <1>1, <1>2, <1>3, MissedIsTyped DEF Typed, Labels, OnList
<1>5. IdsAreIssued'
  BY <1>1, <1>2 DEF ListInv, IdsAreIssued
<1>6. pc'[w] = "reread" /\ \A v \in Workers \ {w} : pc'[v] = pc[v]
  BY <1>2, <1>3 DEF Typed
<1>7. Frame(w)
  <2>1. \A v \in Workers \ {w} : pc[v] = "commit" => missed[v] \subseteq missed'[v]
    BY <1>1, <1>3, MissedIsTyped
  <2> QED
    BY <1>1, <1>2, <1>3, <1>6, <2>1, IdsInterval DEF Frame, SameOrRaced, Typed
<1>8. OnOwnList(w) /\ i.list = req[w].list
  BY <1>1, <1>2, <1>3 DEF WorkerInv, OnList
<1>9. WorkerInv(w)'
  BY <1>2, <1>6, <1>8 DEF WorkerInv, OnList, Adding, OnOwnList
<1> QED
  BY <1>1, <1>2, <1>4, <1>5, <1>6, <1>7, <1>8, <1>9, OthersKeepListInv

LEMMA CommitKeepsListInv ==
    ASSUME ListInv, NEW w \in Workers, Commit(w)
    PROVE  /\ ListInv' /\ Frame(w)
           /\ pc[w] = "commit" /\ pc'[w] = "idle" /\ WorkerInv(w)
           /\ items' = items \ req[w].doomed /\ assets' = assets \ req[w].targets
           /\ \A v \in Workers \ {w} : req'[v].list = req[v].list
<1>1. Typed /\ WorkerInv(w) /\ pc[w] = "commit" /\ Deletes(w)
  BY DEF ListInv, WorkerInv, Commit
<1>2. /\ items' = items \ req[w].doomed /\ assets' = assets \ req[w].targets
      /\ lists' = (IF req[w].op = "delete"
                     THEN [lists EXCEPT ![req[w].list].live = FALSE] ELSE lists)
      /\ raced' = raced \union
                    {i.id : i \in {j \in items : j.id > req[w].newest /\ Overtakes(req[w], j)}}
      /\ req' = [v \in Workers |->
                   IF v = w THEN NoRequest
                   ELSE IF Adding(v) /\ Overtakes(req[w], req[v])
                        THEN [req[v] EXCEPT !.raced = TRUE]
                        ELSE req[v]]
      /\ Missed(w, Writes(req[w])) /\ pc' = [pc EXCEPT ![w] = "idle"]
      /\ UNCHANGED <<lastList, lastItem, started>>
  BY DEF Commit, Goto
<1>3. pc'[w] = "idle" /\ \A v \in Workers \ {w} : pc'[v] = pc[v]
  BY <1>1, <1>2 DEF Typed
<1>4. Writes(req[w]) \in SUBSET Docs
  BY DocsAreTyped
<1>5. /\ lists' \in [ListIds -> List]
      /\ \A l \in ListIds :
             /\ lists'[l].user = lists[l].user
             /\ lists'[l].live => lists[l].live
             /\ lists[l].live /\ ~lists'[l].live => req[w].op = "delete" /\ l = req[w].list
  <2>1. CASE req[w].op = "delete" /\ req[w].list \in ListIds
    <3>1. lists[req[w].list] \in List
      BY <1>1, <2>1 DEF Typed
    <3>2. /\ [lists[req[w].list] EXCEPT !.live = FALSE] \in List
          /\ [lists[req[w].list] EXCEPT !.live = FALSE].user = lists[req[w].list].user
          /\ ~[lists[req[w].list] EXCEPT !.live = FALSE].live
      BY <3>1 DEF List
    <3> QED
      BY <1>1, <1>2, <2>1, <3>2 DEF Typed
  <2>2. CASE req[w].op = "delete" /\ req[w].list \notin ListIds
    BY <1>1, <1>2, <2>2 DEF Typed
  <2>3. CASE req[w].op # "delete"
    BY <1>1, <1>2, <2>3 DEF Typed
  <2> QED
    BY <2>1, <2>2, <2>3
<1>6. ASSUME NEW v \in Workers \ {w}
      PROVE  /\ SameOrRaced(v) /\ req'[v] \in Request /\ req'[v].list = req[v].list
             /\ Adding(v) /\ ~req'[v].raced => ~Overtakes(req[w], req[v])
  <2>1. req[v] \in Request
    BY <1>1 DEF Typed
  <2>2. CASE Adding(v) /\ Overtakes(req[w], req[v])
    <3>1. req'[v] = [req[v] EXCEPT !.raced = TRUE]
      BY <1>2, <2>2
    <3>2. /\ [req[v] EXCEPT !.raced = TRUE] \in Request
          /\ [req[v] EXCEPT !.raced = TRUE].raced
          /\ [req[v] EXCEPT !.raced = TRUE].list = req[v].list
      BY <2>1 DEF Request
    <3> QED
      BY <2>2, <3>1, <3>2 DEF SameOrRaced
  <2>3. CASE ~(Adding(v) /\ Overtakes(req[w], req[v]))
    BY <1>2, <2>1, <2>3 DEF SameOrRaced
  <2> QED
    BY <2>2, <2>3
<1>7. Typed'
  <2>1. req' \in [Workers -> Request]
    BY <1>2, <1>6, NothingTyped
  <2>2. raced' \in SUBSET Nat
    BY <1>1, <1>2 DEF Typed, Item
  <2>3. pc' \in [Workers -> Labels]
    BY <1>1, <1>2 DEF Typed, Labels
  <2>4. missed' \in [Workers -> SUBSET Docs]
    BY <1>2, <1>4, MissedIsTyped
  <2> QED
    BY <1>1, <1>2, <1>5, <2>1, <2>2, <2>3, <2>4 DEF Typed
<1>8. IdsAreIssued'
  BY <1>2, <1>5 DEF ListInv, IdsAreIssued
<1>9. Frame(w)
  <2>1. \A l \in 1 .. lastList : l \in ListIds
    BY <1>1, IdsInterval DEF Typed
  <2>2. ASSUME NEW v \in Workers \ {w}, pc[v] = "commit"
        PROVE  /\ missed[v] \subseteq missed'[v]
               /\ \A a \in assets \ assets' : AssetDoc(a) \in missed'[v]
    <3>1. missed'[v] = missed[v] \union Writes(req[w])
      BY <1>2, <1>4, <2>2, MissedIsTyped
    <3>2. \A a \in assets \ assets' : AssetDoc(a) \in Writes(req[w])
      BY <1>2 DEF Writes
    <3> QED
      BY <3>1, <3>2
  <2>3. ASSUME NEW v \in Workers \ {w}, Adding(v), ~req'[v].raced
        PROVE  /\ lists[req[v].list].live => lists'[req[v].list].live
               /\ req[v].asset \in assets => req[v].asset \in assets'
    <3>1. ~Overtakes(req[w], req[v])
      BY <1>6, <2>3
    <3>2. req[v].list \in ListIds
      BY <2>1, <2>3 DEF ListInv, WorkerInv, OnOwnList, Adding, OnList
    <3> QED
      BY <1>2, <1>5, <3>1, <3>2 DEF Overtakes
  <2>4. /\ lastList <= lastList' /\ lastItem <= lastItem' /\ assets' \subseteq assets
        /\ \A l \in 1 .. lastList : lists'[l].user = lists[l].user
        /\ \A j \in items' : j \in items \/ j.id > lastItem
    BY <1>1, <1>2, <1>5, <2>1, IdsInterval DEF Typed
  <2> QED
    BY <1>3, <1>6, <2>2, <2>3, <2>4 DEF Frame
<1>10. WorkerInv(w)'
  BY <1>3, IdleInv
<1> QED
  BY <1>1, <1>2, <1>3, <1>6, <1>7, <1>8, <1>9, <1>10, OthersKeepListInv

LEMMA ListInvStep ==
    ASSUME ListInv, NEW w \in Workers, Start(w) \/ Step(w)
    PROVE  ListInv'
<1>1. CASE Start(w)
  BY <1>1, StartKeepsListInv
<1>2. CASE Step(w)
  BY <1>2, CheckNameKeepsListInv, InsertListKeepsListInv, AccessKeepsListInv,
     WriteKeepsListInv, FindAssetKeepsListInv, CheckItemKeepsListInv,
     InsertItemKeepsListInv, FindItemKeepsListInv, DeleteItemKeepsListInv,
     EndKeepsListInv, BeginKeepsListInv, CommitKeepsListInv DEF Step
<1> QED
  BY <1>1, <1>2

-----------------------------------------------------------------------------
(* Items outlive their list or asset only after a race *)

\* The steps that leave the documents alone.
Reads(w) ==
    \/ Start(w) \/ CheckName(w) \/ Access(w) \/ FindAsset(w) \/ CheckItem(w)
    \/ FindItem(w) \/ Reread(w) \/ Begin(w) \/ Fail(w)

LEMMA ReadsAreQuiet == ASSUME ListInv, NEW w \in Workers, Reads(w) PROVE Quiet(w)
  BY StartKeepsListInv, CheckNameKeepsListInv, AccessKeepsListInv, FindAssetKeepsListInv,
     CheckItemKeepsListInv, FindItemKeepsListInv, EndKeepsListInv, BeginKeepsListInv
     DEF Reads

LEMMA StepsAre ==
    ASSUME NEW w \in Workers, Start(w) \/ Step(w)
    PROVE  \/ Reads(w) \/ InsertList(w) \/ Write(w) \/ InsertItem(w) \/ DeleteItem(w)
           \/ Commit(w)
  BY DEF Step, Reads

LEMMA CommitRaces ==
    ASSUME ListInv, DanglingOnlyIfRaced, NEW w \in Workers, Commit(w)
    PROVE  DanglingOnlyIfRaced'
<1>1. Typed /\ Deletes(w) /\ pc[w] = "commit"
  BY DEF Commit, ListInv, WorkerInv
<1>2. /\ items' = items \ req[w].doomed /\ assets' = assets \ req[w].targets
      /\ lists' = (IF req[w].op = "delete"
                     THEN [lists EXCEPT ![req[w].list].live = FALSE] ELSE lists)
      /\ raced' = raced \union
                    {i.id : i \in {j \in items : j.id > req[w].newest /\ Overtakes(req[w], j)}}
  BY DEF Commit
<1> SUFFICES ASSUME NEW i \in items', i.id \notin raced'
             PROVE  lists'[i.list].live /\ i.asset \in assets'
  BY DEF DanglingOnlyIfRaced
<1>3. /\ i \in items /\ i \notin req[w].doomed /\ i.id \notin raced
      /\ ~(i.id > req[w].newest /\ Overtakes(req[w], i))
  BY <1>2
<1>4. i.id \in Nat /\ req[w].newest \in Nat
  BY <1>1, <1>3, WorkerTyped DEF Typed, Item
<1>5. ~Overtakes(req[w], i)
  BY <1>1, <1>3, <1>4 DEF Deletes
<1>6. lists[i.list].live /\ i.asset \in assets
  BY <1>3 DEF DanglingOnlyIfRaced
<1>7. req[w].op = "delete" => i.list # req[w].list
  BY <1>5 DEF Overtakes
<1>8. i.list \in ListIds
  BY <1>1, <1>3 DEF Typed, Item
<1>9. lists'[i.list] = lists[i.list]
  BY <1>1, <1>2, <1>7, <1>8 DEF Typed
<1> QED
  BY <1>2, <1>5, <1>6, <1>9 DEF Overtakes

LEMMA DanglingStep ==
    ASSUME ListInv, DanglingOnlyIfRaced, NEW w \in Workers, Start(w) \/ Step(w)
    PROVE  DanglingOnlyIfRaced'
<1>1. CASE Reads(w)
  BY <1>1, ReadsAreQuiet DEF Quiet, documents, DanglingOnlyIfRaced
<1>2. CASE InsertList(w)
  <2>1. \A i \in items : i.list \in ListIds
    BY DEF ListInv, Typed, Item
  <2>2. \A l \in ListIds : lists[l].live => lists'[l].live
    BY <1>2, InsertListKeepsListInv
  <2> QED
    BY <1>2, <2>1, <2>2 DEF InsertList, DanglingOnlyIfRaced
<1>3. CASE Write(w)
  <2>1. \A i \in items : i.list \in ListIds
    BY DEF ListInv, Typed, Item
  <2> QED
    BY <1>3, <2>1, WriteKeepsListInv DEF DanglingOnlyIfRaced
<1>4. CASE InsertItem(w)
  <2> SUFFICES ASSUME NEW i \in items'
               PROVE  (lists[i.list].live /\ i.asset \in assets) \/ i.id \in raced'
    BY <1>4, InsertItemKeepsListInv DEF DanglingOnlyIfRaced
  <2>1. CASE i \in items
    BY <1>4, <2>1, InsertItemKeepsListInv DEF DanglingOnlyIfRaced
  <2>2. CASE i \notin items
    BY <1>4, <2>2, InsertItemKeepsListInv
  <2> QED
    BY <2>1, <2>2
<1>5. CASE DeleteItem(w)
  BY <1>5, DeleteItemKeepsListInv DEF DanglingOnlyIfRaced
<1>6. CASE Commit(w)
  BY <1>6, CommitRaces
<1> QED
  BY <1>1, <1>2, <1>3, <1>4, <1>5, <1>6, StepsAre

-----------------------------------------------------------------------------
(* A list that is stuck stays unreadable *)

LEMMA StuckStays ==
    ASSUME ListInv, NEW w \in Workers, NEW l \in ListIds, Stuck(l),
           lists'[l].live, assets' \subseteq assets,
           \A i \in items \ items' : i.list = l => i.asset \in assets,
           \A v \in Workers \ {w} : pc'[v] = pc[v] /\ req'[v].list = req[v].list,
           ~Admitted(w, l)'
    PROVE  Stuck(l)'
<1>1. PICK i \in items : i.list = l /\ i.asset \notin assets
  BY DEF Stuck, Unreadable, Readable, ItemsOf
<1>2. i \in items' /\ i.asset \notin assets'
  BY <1>1
<1>3. Unreadable(l)'
  BY <1>1, <1>2 DEF Unreadable, Readable, ItemsOf
<1>4. \A v \in Workers : ~Admitted(v, l)'
  BY DEF Stuck, Admitted
<1> QED
  BY <1>3, <1>4 DEF Stuck

LEMMA StuckStep ==
    ASSUME ListInv, NEW w \in Workers, Start(w) \/ Step(w), NEW l \in ListIds, Stuck(l)
    PROVE  Stuck(l)'
<1>1. /\ lists[l].live /\ ~Readable(l) /\ ~Admitted(w, l) /\ l # NoId
      /\ WorkerInv(w)
  BY IdsInterval DEF Stuck, Unreadable, ListInv
<1>2. CASE Reads(w)
  <2>1. Quiet(w)
    BY <1>2, ReadsAreQuiet
  <2>2. ASSUME pc'[w] \notin {"idle", "access"}
        PROVE  req'[w].list # l
    <3>1. CASE Start(w)
      BY <1>1, <2>2, <3>1, StartKeepsListInv
    <3>2. CASE CheckName(w)
      BY <1>1, <3>2, CheckNameKeepsListInv DEF CheckName, WorkerInv
    <3>3. CASE Access(w)
      BY <1>1, <3>3, AccessKeepsListInv DEF Access, Accessible
    <3>4. CASE FindAsset(w)
      BY <1>1, <3>4, FindAssetKeepsListInv DEF FindAsset, Admitted
    <3>5. CASE CheckItem(w)
      BY <1>1, <3>5, CheckItemKeepsListInv DEF CheckItem, Admitted
    <3>6. CASE FindItem(w)
      BY <1>1, <3>6, FindItemKeepsListInv DEF FindItem, Admitted
    <3>7. CASE Reread(w) \/ Fail(w)
      BY <2>2, <3>7, EndKeepsListInv
    <3>8. CASE Begin(w)
      BY <1>1, <3>8, BeginKeepsListInv DEF Begin, Admitted
    <3> QED
      BY <1>2, <3>1, <3>2, <3>3, <3>4, <3>5, <3>6, <3>7, <3>8 DEF Reads
  <2>3. ~Admitted(w, l)'
    BY <2>2 DEF Admitted
  <2> QED
    BY <1>1, <2>1, <2>3, StuckStays DEF Quiet, documents
<1>3. CASE InsertList(w)
  <2>1. lists'[l] = lists[l]
    <3>1. l <= lastList /\ lastList \in Nat
      BY <1>1, IdsInterval DEF ListInv, IdsAreIssued, Typed
    <3> QED
      BY <1>3, <3>1, IdsInterval, InsertListKeepsListInv
  <2>2. ~Admitted(w, l)'
    BY <1>3, InsertListKeepsListInv DEF Admitted
  <2> QED
    BY <1>1, <1>3, <2>1, <2>2, StuckStays, DoneIsTyped DEF InsertList
<1>4. CASE Write(w)
  <2>1. ~Admitted(w, l)'
    BY <1>4, WriteKeepsListInv DEF Admitted
  <2> QED
    BY <1>1, <1>4, <2>1, StuckStays, WriteKeepsListInv, DoneIsTyped DEF Write
<1>5. CASE InsertItem(w)
  <2>1. ~Admitted(w, l)'
    BY <1>1, <1>5, InsertItemKeepsListInv DEF Admitted
  <2>2. \A v \in Workers \ {w} : pc'[v] = pc[v]
    BY <1>5, InsertItemKeepsListInv DEF Frame
  <2> QED
    BY <1>1, <1>5, <2>1, <2>2, StuckStays, InsertItemKeepsListInv
<1>6. CASE DeleteItem(w)
  <2>1. req[w].list # l
    BY <1>1, <1>6 DEF DeleteItem, Admitted
  <2>2. ~Admitted(w, l)'
    BY <1>6, <2>1, DeleteItemKeepsListInv DEF Admitted
  <2>3. \A v \in Workers \ {w} : pc'[v] = pc[v]
    BY <1>6, DeleteItemKeepsListInv DEF Frame
  <2> QED
    BY <1>1, <1>6, <2>1, <2>2, <2>3, StuckStays, DeleteItemKeepsListInv
<1>7. CASE Commit(w)
  <2>1. pc[w] = "commit" /\ NoConflict(w) /\ req[w].list # l
    BY <1>1, <1>7 DEF Commit, Admitted
  <2>2. \/ req[w].op = "delete" /\ \A i \in req[w].doomed : i.list = req[w].list
        \/ /\ req[w].op = "deleteAssets"
           /\ \A i \in req[w].doomed : i.asset \in req[w].targets
           /\ req[w].targets \subseteq assets
    BY <1>1, <2>1 DEF WorkerInv, Deletes
  <2>3. \A i \in items \ items' : i.list = l => i.asset \in assets
    BY <1>7, <2>1, <2>2, CommitKeepsListInv
  <2>4. lists'[l] = lists[l]
    BY <1>7, <2>1 DEF Commit, ListInv, Typed
  <2>5. ~Admitted(w, l)'
    BY <1>7, CommitKeepsListInv DEF Admitted
  <2>6. /\ \A v \in Workers \ {w} : pc'[v] = pc[v] /\ req'[v].list = req[v].list
        /\ assets' \subseteq assets
    BY <1>7, CommitKeepsListInv DEF Frame
  <2> QED
    BY <1>1, <2>3, <2>4, <2>5, <2>6, StuckStays
<1> QED
  BY <1>2, <1>3, <1>4, <1>5, <1>6, <1>7, StepsAre

-----------------------------------------------------------------------------
LEMMA WatchInvInit == Init => WatchInv
<1>1. Init => DanglingOnlyIfRaced /\ StuckInv
  BY DEF Init, DanglingOnlyIfRaced, StuckInv
<1> QED
  BY <1>1, ListInvInit DEF WatchInv

LEMMA WatchInvStep == WatchInv /\ [Next]_vars => WatchInv'
<1> SUFFICES ASSUME WatchInv, [Next]_vars
             PROVE  WatchInv'
  OBVIOUS
<1>1. CASE Next
  <2>1. PICK w \in Workers : Start(w) \/ Step(w)
    BY <1>1 DEF Next
  <2>2. ListInv' /\ DanglingOnlyIfRaced'
    BY <2>1, ListInvStep, DanglingStep DEF WatchInv
  <2>3. \A l \in stuck : l \in ListIds /\ Stuck(l)'
    BY <2>1, StuckStep DEF WatchInv, StuckInv
  <2>4. stuck' = stuck \union {l \in ListIds : Stuck(l)'}
    BY <1>1 DEF Next
  <2>5. \A l \in stuck' : l \in ListIds /\ Stuck(l)'
    BY <2>3, <2>4
  <2> QED
    BY <2>2, <2>5 DEF WatchInv, StuckInv
<1>2. CASE UNCHANGED vars
  BY <1>2 DEF vars, WatchInv, ListInv, Typed, IdsAreIssued, WorkerInv, OnOwnList, Adding,
              Deletes, NoConflict, DanglingOnlyIfRaced, StuckInv, Stuck, Unreadable,
              Readable, ItemsOf, Admitted
<1> QED
  BY <1>1, <1>2

(* For any number of requests that overlap: an item outlives its list or its asset only *)
(* if it was added while that was being deleted (WatchlistService.addAssetToWatchlist,  *)
(* PortfolioService.deleteAsset and deletePortfolio).                                   *)
THEOREM DanglingNeedsRace == Spec => []DanglingOnlyIfRaced
<1>1. WatchInv => DanglingOnlyIfRaced
  BY DEF WatchInv
<1> QED
  BY <1>1, WatchInvInit, WatchInvStep, PTL DEF Spec

(* For any number of requests that overlap: no sequence of them repairs or removes a    *)
(* list with an item whose asset is gone, once nobody is at work on it                  *)
(* (validateWatchlistAccess, which every operation starts with, includes the assets).   *)
THEOREM StuckForGood == Spec => []UnreadableForGood
<1>1. WatchInv => UnreadableForGood
  BY DEF WatchInv, StuckInv, Stuck, UnreadableForGood
<1> QED
  BY <1>1, WatchInvInit, WatchInvStep, PTL DEF Spec

(* For any number of requests that overlap: a list and its items change only by a       *)
(* request of its owner, except that items go with their asset (validateWatchlistAccess *)
(* looks before every write, which then goes by id only).                               *)
THEOREM OwnersChangeLists == Spec => OwnersOnly
<1> DEFINE Own(l) ==
       lists[l].live /\ lists[l].user # NoUser =>
       \/ /\ lists'[l] = lists[l]
          /\ {i \in items' : i.list = l} \subseteq items
          /\ \A i \in ItemsOf(l) \ items' : i.asset \notin assets'
       \/ \E w \in Workers : /\ Steps(w)
                             /\ req[w].list = l
                             /\ req[w].user = lists[l].user
<1>1. WatchInv /\ [Next]_vars => [\A l \in ListIds : Own(l)]_vars
  <2> SUFFICES ASSUME ListInv, NEW w \in Workers, Start(w) \/ Step(w),
                      NEW l \in ListIds, lists[l].live
               PROVE  Own(l)
    BY DEF WatchInv, Next, vars
  <2>1. CASE Reads(w)
    BY <2>1, ReadsAreQuiet DEF Quiet, documents, ItemsOf
  <2>2. CASE InsertList(w)
    <3>1. l <= lastList /\ lastList \in Nat
      BY IdsInterval DEF ListInv, IdsAreIssued, Typed
    <3>2. lists'[l] = lists[l]
      BY <2>2, <3>1, IdsInterval, InsertListKeepsListInv
    <3> QED
      BY <2>2, <3>2 DEF InsertList, ItemsOf
  <2>3. ASSUME OnOwnList(w), pc'[w] # pc[w], req[w].list = l
        PROVE  Own(l)
    BY <2>3 DEF OnOwnList, Steps
  <2>4. CASE Write(w)
    <3>1. l # req[w].list => lists'[l] = lists[l] /\ items' = items
      BY <2>4, WriteKeepsListInv
    <3> QED
      BY <2>3, <2>4, <3>1, WriteKeepsListInv DEF ItemsOf
  <2>5. CASE InsertItem(w)
    <3>1. l # req[w].list => /\ lists' = lists /\ items \subseteq items'
                             /\ {i \in items' : i.list = l} \subseteq items
      BY <2>5, InsertItemKeepsListInv
    <3> QED
      BY <2>3, <2>5, <3>1, InsertItemKeepsListInv DEF ItemsOf
  <2>6. CASE DeleteItem(w)
    <3>1. l # req[w].list => /\ lists' = lists /\ items' \subseteq items
                             /\ ItemsOf(l) \subseteq items'
      BY <2>6, DeleteItemKeepsListInv DEF ItemsOf
    <3> QED
      BY <2>3, <2>6, <3>1, DeleteItemKeepsListInv DEF ItemsOf
  <2>7. CASE Commit(w)
    <3>1. WorkerInv(w) /\ pc[w] = "commit" /\ pc'[w] = "idle"
      BY <2>7, CommitKeepsListInv
    <3>2. CASE req[w].op = "delete" /\ req[w].list = l
      BY <2>3, <3>1, <3>2, IdsInterval DEF WorkerInv
    <3>3. CASE req[w].op = "delete" /\ req[w].list # l
      <4>1. \A i \in req[w].doomed : i.list # l
        BY <3>1, <3>3 DEF WorkerInv, Deletes
      <4>2. lists'[l] = lists[l]
        BY <2>7, <3>3 DEF Commit, ListInv, Typed
      <4> QED
        BY <2>7, <4>1, <4>2, CommitKeepsListInv DEF ItemsOf
    <3>4. CASE req[w].op # "delete"
      <4>1. \A i \in req[w].doomed : i.asset \in req[w].targets
        BY <3>1, <3>4 DEF WorkerInv, Deletes
      <4>2. lists' = lists
        BY <2>7, <3>4 DEF Commit
      <4> QED
        BY <2>7, <4>1, <4>2, CommitKeepsListInv DEF ItemsOf
    <3> QED
      BY <3>2, <3>3, <3>4
  <2> QED
    BY <2>1, <2>2, <2>4, <2>5, <2>6, <2>7, StepsAre
<1> QED
  BY <1>1, WatchInvInit, WatchInvStep, PTL DEF Spec, OwnersOnly
=============================================================================

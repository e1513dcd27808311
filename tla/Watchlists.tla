------------------------------ MODULE Watchlists ------------------------------
(***************************************************************************)
(* The watchlists of all users (WatchlistService) and the assets they      *)
(* watch, which PortfolioService deletes.  MongoDB checks no foreign keys; *)
(* Prisma emulates `onDelete: Cascade` inside the deletion's transaction,  *)
(* and refuses to answer a query that includes an item whose (required)    *)
(* asset does not exist.                                                   *)
(***************************************************************************)
EXTENDS Integers, FiniteSets

CONSTANTS
    Workers,       \* requests that may be in flight at the same time
    Users,
    NoUser,
    Names,         \* names as clients send them
    Upper,         \* the upper-case form of each name
    Assets,        \* the asset documents of all portfolios
    NoAsset,
    SymbolOf,      \* the symbol of each asset: two users may hold the same
    PortfolioOf,   \* the portfolio of each asset
    MaxRequests,   \* bound: requests started in a behaviour
    MaxLists,      \* bound: watchlists ever created
    MaxItems       \* bound: items ever created

VARIABLES
    lists,      \* the Watchlist documents, by id
    assets,     \* the Asset documents that exist
    items,      \* the WatchlistItem documents
    lastList,   \* list ids 1 .. lastList have been handed out
    lastItem,   \* item ids likewise, in the order of createdAt
    raced,      \* history: items whose addition overlapped a deletion of their list
                \* or asset
    stuck,      \* history: lists that were unreadable while no request was at work
    started,    \* requests started so far (for the bound)
    pc,         \* what each worker does next
    req,        \* its request, and what it remembers of its reads
    missed      \* documents others wrote since its transaction's snapshot

vars == <<lists, assets, items, lastList, lastItem, raced, stuck, started,
          pc, req, missed>>

ListIds == 1 .. MaxLists
NoId == 0
NoName == CHOOSE n \in Names : TRUE
Symbols == {SymbolOf[a] : a \in Assets}

ASSUME WatchlistsAssumption ==
    /\ NoUser \notin Users
    /\ NoAsset \notin Assets
    /\ Names # {}
    /\ Upper \in [Names -> Names]
    /\ DOMAIN SymbolOf = Assets
    /\ DOMAIN PortfolioOf = Assets
    /\ MaxRequests \in Nat
    /\ MaxLists \in Nat
    /\ MaxItems \in Nat

NoList == [live |-> FALSE, user |-> NoUser, name |-> NoName]
NoRequest == [op |-> "none", user |-> NoUser, list |-> NoId, name |-> NoName,
              symbols |-> {}, asset |-> NoAsset, item |-> NoId, targets |-> {},
              doomed |-> {}, newest |-> 0, raced |-> FALSE]

ItemsOf(l) == {i \in items : i.list = l}

\* A query that includes the items and their assets answers only if all assets exist.
Readable(l) == \A i \in ItemsOf(l) : i.asset \in assets

-----------------------------------------------------------------------------
Init ==
    /\ lists = [l \in ListIds |-> NoList]
    /\ assets = Assets
    /\ items = {}
    /\ lastList = 0
    /\ lastItem = 0
    /\ raced = {}
    /\ stuck = {}
    /\ started = 0
    /\ pc = [w \in Workers |-> "idle"]
    /\ req = [w \in Workers |-> NoRequest]
    /\ missed = [w \in Workers |-> {}]

documents == <<lists, assets, items, lastList, lastItem>>

Goto(w, label) == pc' = [pc EXCEPT ![w] = label]

Done(w) ==
    /\ Goto(w, "idle")
    /\ req' = [req EXCEPT ![w] = NoRequest]

Admit(w, r, label) ==
    /\ pc[w] = "idle"
    /\ started < MaxRequests
    /\ started' = started + 1
    /\ req' = [req EXCEPT ![w] = r]
    /\ Goto(w, label)
    /\ UNCHANGED <<documents, raced, missed>>

StartCreate(w) ==
    \E u \in Users, n \in Names :
        Admit(w, [NoRequest EXCEPT !.op = "create", !.user = u, !.name = n], "checkName")

\* The operations on one list: the client names any list that was ever created.
StartUpdate(w) ==
    \E u \in Users, l \in 1 .. lastList, n \in Names :
        Admit(w, [NoRequest EXCEPT !.op = "update", !.user = u, !.list = l, !.name = n],
              "access")

StartDelete(w) ==
    \E u \in Users, l \in 1 .. lastList :
        Admit(w, [NoRequest EXCEPT !.op = "delete", !.user = u, !.list = l], "access")

StartAdd(w) ==
    \E u \in Users, l \in 1 .. lastList, s \in Symbols :
        Admit(w, [NoRequest EXCEPT !.op = "add", !.user = u, !.list = l,
                                   !.symbols = {s}], "access")

StartRemove(w) ==
    \E u \in Users, l \in 1 .. lastList, a \in Assets :
        Admit(w, [NoRequest EXCEPT !.op = "remove", !.user = u, !.list = l, !.asset = a],
              "access")

StartMetrics(w) ==
    \E u \in Users, l \in 1 .. lastList :
        Admit(w, [NoRequest EXCEPT !.op = "metrics", !.user = u, !.list = l], "access")

\* PortfolioService.deleteAsset and deletePortfolio, by whoever owns the portfolio.
StartDeleteAssets(w) ==
    \E T \in {{a} : a \in assets} \union
             {{a \in assets : PortfolioOf[a] = PortfolioOf[b]} : b \in assets} :
        Admit(w, [NoRequest EXCEPT !.op = "deleteAssets", !.targets = T], "begin")

\* Every other open transaction misses what was written just now.
Missed(w, written) ==
    missed' = [v \in Workers |->
                 IF v # w /\ pc[v] = "commit" THEN missed[v] \union written ELSE {}]

ListDoc(l) == <<"list", l>>
AssetDoc(a) == <<"asset", a>>
ItemDoc(i) == <<"item", i.id>>

-----------------------------------------------------------------------------
(* createWatchlist: the name is looked for as it was sent, and stored in   *)
(* upper case.                                                             *)

CheckName(w) ==
    /\ pc[w] = "checkName"
    /\ \A l \in ListIds :
           lists[l].live /\ lists[l].user = req[w].user => lists[l].name # req[w].name
    /\ Goto(w, "insertList")
    /\ UNCHANGED <<documents, raced, started, req, missed>>

InsertList(w) ==
    /\ pc[w] = "insertList"
    /\ lastList < MaxLists
    /\ lastList' = lastList + 1
    /\ lists' = [lists EXCEPT ![lastList + 1] =
                   [live |-> TRUE, user |-> req[w].user, name |-> Upper[req[w].name]]]
    /\ Done(w)
    /\ UNCHANGED <<assets, items, lastItem, raced, started, missed>>

-----------------------------------------------------------------------------
(* validateWatchlistAccess, which every other operation starts with: one   *)
(* query that filters by id and owner and includes items and assets.       *)

AfterAccess(op) ==
    CASE op = "update" -> "write"
      [] op = "delete" -> "begin"
      [] op = "add" -> "findAsset"
      [] op = "remove" -> "findItem"
      [] op = "metrics" -> "reread"

\* MUTANT of Accessible: the query does not include the items.
AccessibleUnseen(l, u) == lists[l].live /\ lists[l].user = u

\* MUTANT of Accessible: the query filters by id only.
AccessibleToAll(l, u) == lists[l].live /\ Readable(l)

Accessible(l, u) == lists[l].live /\ lists[l].user = u /\ Readable(l)

Access(w) ==
    /\ pc[w] = "access"
    /\ Accessible(req[w].list, req[w].user)
    /\ Goto(w, AfterAccess(req[w].op))
    /\ UNCHANGED <<documents, raced, started, req, missed>>

\* updateWatchlist: by id, the name as it was sent.
Write(w) ==
    /\ pc[w] = "write"
    /\ lists[req[w].list].live
    /\ lists' = [lists EXCEPT ![req[w].list].name = req[w].name]
    /\ Missed(w, {ListDoc(req[w].list)})
    /\ Done(w)
    /\ UNCHANGED <<assets, items, lastList, lastItem, raced, started>>

-----------------------------------------------------------------------------
(* addAssetToWatchlist. *)

\* asset.findFirst({symbol}): any asset of that symbol, of any user.
FindAsset(w) ==
    /\ pc[w] = "findAsset"
    /\ \E a \in assets :
           /\ SymbolOf[a] \in req[w].symbols
           /\ req' = [req EXCEPT ![w].asset = a]
    /\ Goto(w, "checkItem")
    /\ UNCHANGED <<documents, raced, started, missed>>

Watches(l, a) == \E i \in items : i.list = l /\ i.asset = a

CheckItem(w) ==
    /\ pc[w] = "checkItem"
    /\ ~Watches(req[w].list, req[w].asset)
    /\ Goto(w, "insertItem")
    /\ UNCHANGED <<documents, raced, started, req, missed>>

\* watchlistItem.create: the unique index on (watchlistId, assetId) is checked, that the
\* list and the asset still exist is not.
InsertItem(w) ==
    /\ pc[w] = "insertItem"
    /\ lastItem < MaxItems
    /\ ~Watches(req[w].list, req[w].asset)
    /\ lastItem' = lastItem + 1
    /\ items' = items \union
                  {[id |-> lastItem + 1, list |-> req[w].list, asset |-> req[w].asset]}
    /\ raced' = IF req[w].raced THEN raced \union {lastItem + 1} ELSE raced
    /\ Goto(w, "reread")
    /\ UNCHANGED <<lists, assets, lastList, started, req, missed>>

-----------------------------------------------------------------------------
(* removeAssetFromWatchlist. *)

FindItem(w) ==
    /\ pc[w] = "findItem"
    /\ \E i \in ItemsOf(req[w].list) :
           /\ i.asset = req[w].asset
           /\ req' = [req EXCEPT ![w].item = i.id]
    /\ Goto(w, "deleteItem")
    /\ UNCHANGED <<documents, raced, started, missed>>

DeleteItem(w) ==
    /\ pc[w] = "deleteItem"
    /\ \E i \in items :
           /\ i.id = req[w].item
           /\ items' = items \ {i}
           /\ Missed(w, {ItemDoc(i)})
    /\ Goto(w, "reread")
    /\ UNCHANGED <<lists, assets, lastList, lastItem, raced, started, req>>

\* The second query of an addition or a removal, for the answer, and that of
\* getWatchlistMetrics, for the assets added last (its total and its top performers come
\* from the first, whichever prices can be fetched).  A list that is gone is null.
Reread(w) ==
    /\ pc[w] = "reread"
    /\ lists[req[w].list].live => Readable(req[w].list)
    /\ Done(w)
    /\ UNCHANGED <<documents, raced, started, missed>>

-----------------------------------------------------------------------------
(* The transactions of deleteWatchlist, deleteAsset and deletePortfolio.   *)

\* MUTANT of Cascade: the deletion of an asset leaves the items alone.
CascadeFromListOnly(r) ==
    IF r.op = "delete" THEN ItemsOf(r.list) ELSE {}

\* The items that the deletion finds in its snapshot.
Cascade(r) ==
    IF r.op = "delete" THEN ItemsOf(r.list) ELSE {i \in items : i.asset \in r.targets}

Begin(w) ==
    /\ pc[w] = "begin"
    /\ IF req[w].op = "delete" THEN lists[req[w].list].live
                               ELSE req[w].targets \subseteq assets
    /\ req' = [req EXCEPT ![w].doomed = Cascade(req[w]), ![w].newest = lastItem]
    /\ missed' = [missed EXCEPT ![w] = {}]
    /\ Goto(w, "commit")
    /\ UNCHANGED <<documents, raced, started>>

Writes(r) ==
    {ItemDoc(i) : i \in r.doomed} \union {AssetDoc(a) : a \in r.targets} \union
    (IF r.op = "delete" THEN {ListDoc(r.list)} ELSE {})

NoConflict(w) == Writes(req[w]) \intersect missed[w] = {}

\* Does the deletion r take away the list or the asset of the addition s?
Overtakes(r, s) ==
    \/ r.op = "delete" /\ r.list = s.list
    \/ s.asset \in r.targets
Adding(v) == pc[v] \in {"findAsset", "checkItem", "insertItem"}

Commit(w) ==
    /\ pc[w] = "commit"
    /\ NoConflict(w)
    /\ items' = items \ req[w].doomed
    /\ assets' = assets \ req[w].targets
    /\ lists' = IF req[w].op = "delete"
                  THEN [lists EXCEPT ![req[w].list].live = FALSE]
                  ELSE lists
    /\ raced' = raced \union
                  {i.id : i \in {j \in items : j.id > req[w].newest /\ Overtakes(req[w], j)}}
    /\ req' = [v \in Workers |->
                 IF v = w THEN NoRequest
                 ELSE IF Adding(v) /\ Overtakes(req[w], req[v])
                      THEN [req[v] EXCEPT !.raced = TRUE]
                      ELSE req[v]]
    /\ Missed(w, Writes(req[w]))
    /\ Goto(w, "idle")
    /\ UNCHANGED <<lastList, lastItem, started>>

\* The request is refused, a database call fails, a transaction aborts, or the process
\* dies; what was committed stays.
Fail(w) ==
    /\ pc[w] # "idle"
    /\ Done(w)
    /\ missed' = [missed EXCEPT ![w] = {}]
    /\ UNCHANGED <<documents, raced, started>>

Start(w) ==
    \/ StartCreate(w) \/ StartUpdate(w) \/ StartDelete(w) \/ StartAdd(w)
    \/ StartRemove(w) \/ StartMetrics(w) \/ StartDeleteAssets(w)

Step(w) ==
    \/ CheckName(w) \/ InsertList(w) \/ Access(w) \/ Write(w) \/ FindAsset(w)
    \/ CheckItem(w) \/ InsertItem(w) \/ FindItem(w) \/ DeleteItem(w) \/ Reread(w)
    \/ Begin(w) \/ Commit(w) \/ Fail(w)

Unreadable(l) == lists[l].live /\ ~Readable(l)
Admitted(w, l) == pc[w] \notin {"idle", "access"} /\ req[w].list = l
Stuck(l) == Unreadable(l) /\ \A w \in Workers : ~Admitted(w, l)

Next ==
    /\ \E w \in Workers : Start(w) \/ Step(w)
    /\ stuck' = stuck \union {l \in ListIds : Stuck(l)'}

Spec == Init /\ [][Next]_vars

-----------------------------------------------------------------------------
Operations == {"none", "create", "update", "delete", "add", "remove", "metrics",
               "deleteAssets"}
(* "onDelete: Cascade": an item whose list or asset is gone can only be one      *)
(* whose addition overlapped that deletion; all others went with it.             *)
DanglingOnlyIfRaced ==
    \A i \in items :
        (lists[i.list].live /\ i.asset \in assets) \/ i.id \in raced

Steps(w) == pc'[w] # pc[w]

(* A list and its items change only by a request of its owner, except that items *)
(* go with their asset.                                                          *)
OwnersOnly ==
    [][\A l \in ListIds :
          lists[l].live /\ lists[l].user # NoUser =>
          \/ /\ lists'[l] = lists[l]
             /\ {i \in items' : i.list = l} \subseteq items
             /\ \A i \in ItemsOf(l) \ items' : i.asset \notin assets'
          \/ \E w \in Workers : /\ Steps(w)
                                /\ req[w].list = l
                                /\ req[w].user = lists[l].user]_vars

(* No request repairs a list with an item whose asset is gone, and none deletes   *)
(* it: once the requests that were let in before are over, it stays unreadable.  *)
UnreadableForGood == \A l \in stuck : Unreadable(l)
=============================================================================

----------------------- MODULE PortfolioRegistry_proofs -----------------------
(***************************************************************************)
(* Proofs about PortfolioRegistry, for any number of requests, users and   *)
(* portfolios: who has a primary portfolio keeps exactly one, the mark is  *)
(* handed over, and only owners change a portfolio.                        *)
(***************************************************************************)
EXTENDS PortfolioRegistry, FiniteSetTheorems, TLAPS

AnyUser == Users \union {Unset}
AnyName == Names \union {Unset}
AnyText == Texts \union {Unset}
Doc == [live : BOOLEAN, owner : AnyUser, name : AnyName, description : AnyText,
        primary : BOOLEAN]
Request == [op : Operations \union {"none"}, user : AnyUser, name : AnyName,
            description : AnyText, id : Ids \union {0}, seen : Doc]
Labels == {"idle", "check", "refused", "insert", "write", "begin", "commit"}

Typed ==
    /\ docs \in [Ids -> Doc]
    /\ issued \in 0 .. MaxPortfolios
    /\ settled \in SUBSET Users
    /\ pc \in [Workers -> Labels]
    /\ req \in [Workers -> Request]
    /\ tx \in [Workers -> [writes : SUBSET Ids, after : [Ids -> Doc]]]
    /\ missed \in [Workers -> SUBSET Ids]

\* No document is stored under an id that was not handed out.
IdsAreIssued == \A p \in Ids : docs[p].live => p <= issued

\* A request works on a portfolio that was its user's, and still is if it is stored.
OnOwnPortfolio(w) ==
    /\ req[w].id \in Ids /\ req[w].id <= issued
    /\ docs[req[w].id].live => docs[req[w].id].owner = req[w].user

\* What a transaction writes is what it read, but for the marks, unless it missed a
\* change.
AfterSet(w, p) == [docs[p] EXCEPT !.primary = (p = req[w].id)]

Accurate(w) ==
    IF req[w].op = "setPrimaryPortfolio"
    THEN /\ req[w].id \in tx[w].writes
         /\ \A p \in tx[w].writes : p <= issued
         /\ \A p \in tx[w].writes \ missed[w] : /\ docs[p].live
                                                /\ docs[p].owner = req[w].user
                                                /\ tx[w].after[p] = AfterSet(w, p)
    ELSE /\ tx[w].writes = {req[w].id}
         /\ tx[w].after[req[w].id] = NoPortfolio

WorkerInv(w) ==
    /\ pc[w] \in {"check", "insert"} => req[w].name \in Names
    /\ pc[w] = "write" => req[w].op = "updatePortfolio"
    /\ pc[w] \in {"begin", "commit"} =>
           req[w].op \in {"setPrimaryPortfolio", "deletePortfolio"}
    /\ pc[w] \in {"write", "begin", "commit"} => OnOwnPortfolio(w)
    /\ pc[w] # "idle" => req[w].op \in called
    /\ pc[w] = "commit" => Accurate(w)

OwnInv == Typed /\ IdsAreIssued /\ \A w \in Workers : WorkerInv(w)

\* While nothing is deleted, a change of the primary that will be committed demotes
\* whatever is primary now: a change in between would have written the old primary.
CoversPrimaries(w) ==
    /\ req[w].op = "setPrimaryPortfolio"
    /\ req[w].user \in settled
    /\ NoConflict(w)
    => Primaries(req[w].user) \subseteq tx[w].writes

PrimaryInv ==
    /\ OwnInv
    /\ OnePrimary
    /\ "deletePortfolio" \notin called =>
           \A w \in Workers : pc[w] = "commit" => CoversPrimaries(w)

\* What a step of w does to the others: it may change the documents it says it writes,
\* not their owners, and open transactions learn of it.
Frame(w, written) ==
    /\ issued <= issued' /\ called \subseteq called' /\ settled' = settled
    /\ \A p \in Ids : p <= issued =>
           /\ docs'[p].live => docs[p].live /\ docs'[p].owner = docs[p].owner
           /\ p \notin written => docs'[p] = docs[p]
    /\ \A v \in Workers \ {w} :
           /\ pc'[v] = pc[v] /\ req'[v] = req[v] /\ tx'[v] = tx[v]
           /\ pc[v] = "commit" => missed[v] \union written \subseteq missed'[v]

-----------------------------------------------------------------------------
LEMMA IdsInterval == MaxPortfolios \in Nat /\ Ids = 1 .. MaxPortfolios
  BY RegistryAssumption DEF Ids

LEMMA NothingTyped ==
    /\ NoPortfolio \in Doc
    /\ NoRequest \in Request
    /\ NoTx \in [writes : SUBSET Ids, after : [Ids -> Doc]]
<1>1. NoPortfolio \in Doc
  BY DEF NoPortfolio, Doc, AnyUser, AnyName, AnyText
<1> QED
  BY <1>1 DEF NoRequest, Request, NoTx, AnyUser, AnyName, AnyText

LEMMA OthersKeepOwnInv ==
    ASSUME OwnInv, NEW w \in Workers, NEW written \in SUBSET Ids, Frame(w, written),
           Typed', IdsAreIssued', WorkerInv(w)'
    PROVE  OwnInv'
<1> SUFFICES ASSUME NEW v \in Workers, v # w
             PROVE  WorkerInv(v)'
  BY DEF OwnInv
<1>1. /\ pc'[v] = pc[v] /\ req'[v] = req[v] /\ tx'[v] = tx[v]
      /\ pc[v] = "commit" => missed[v] \union written \subseteq missed'[v]
      /\ issued <= issued' /\ called \subseteq called'
  BY DEF Frame
<1>2. WorkerInv(v)
  BY DEF OwnInv
<1>3. OnOwnPortfolio(v) => OnOwnPortfolio(v)'
  BY <1>1, IdsInterval DEF OnOwnPortfolio, Frame, OwnInv, Typed
<1>4. ASSUME pc[v] = "commit"
      PROVE  Accurate(v)'
  <2>1. Accurate(v) /\ tx[v].writes \in SUBSET Ids
    BY <1>2, <1>4 DEF WorkerInv, OwnInv, Typed
  <2>2. CASE req[v].op = "setPrimaryPortfolio"
    <3>1. \A p \in tx[v].writes \ missed'[v] :
             p \notin written /\ p \notin missed[v] /\ p \in Ids /\ p <= issued
      BY <1>1, <1>4, <2>1, <2>2 DEF Accurate
    <3>2. \A p \in tx[v].writes \ missed'[v] : docs'[p] = docs[p]
      BY <3>1 DEF Frame
    <3>3. \A p \in tx[v].writes : p <= issued'
      BY <1>1, <2>1, <2>2, IdsInterval DEF Accurate, OwnInv, Typed
    <3> QED
      BY <1>1, <2>1, <2>2, <3>1, <3>2, <3>3 DEF Accurate, AfterSet
  <2>3. CASE req[v].op # "setPrimaryPortfolio"
    BY <1>1, <2>1, <2>3 DEF Accurate
  <2> QED
    BY <2>2, <2>3
<1> QED
  BY <1>1, <1>2, <1>3, <1>4 DEF WorkerInv

-----------------------------------------------------------------------------
LEMMA OwnInvInit == Init => OwnInv
<1> SUFFICES ASSUME Init
             PROVE  OwnInv
  OBVIOUS
<1>1. issued \in 0 .. MaxPortfolios
  <2>1. /\ IsFiniteSet(settled)
        /\ Cardinality(settled) <= Cardinality(Users)
        /\ Cardinality(settled) \in Nat /\ Cardinality(Users) \in Nat
    BY FS_Subset, FS_CardinalityType, RegistryAssumption DEF Init
  <2> QED
    BY <2>1, RegistryAssumption DEF Init
<1>2. PICK n \in Names, owner \in [1 .. issued -> settled] :
         docs = [p \in Ids |->
                   IF p <= issued
                   THEN [live |-> TRUE, owner |-> owner[p], name |-> Upper[n],
                         description |-> Unset, primary |-> TRUE]
                   ELSE NoPortfolio]
  BY DEF Init
<1>3. docs \in [Ids -> Doc]
  <2> SUFFICES ASSUME NEW p \in Ids
               PROVE  docs[p] \in Doc
    BY <1>2
  <2>1. CASE p <= issued
    <3>1. owner[p] \in Users
      BY <1>1, <1>2, <2>1, IdsInterval DEF Init
    <3>2. Upper[n] \in Names
      BY RegistryAssumption
    <3> QED
      BY <1>2, <2>1, <3>1, <3>2 DEF Doc, AnyUser, AnyName, AnyText
  <2>2. CASE ~(p <= issued)
    BY <1>2, <2>2, NothingTyped
  <2> QED
    BY <2>1, <2>2
<1>4. Typed
  BY <1>1, <1>3, NothingTyped DEF Init, Typed, Labels
<1>5. IdsAreIssued
  BY <1>2 DEF IdsAreIssued, NoPortfolio
<1>6. \A w \in Workers : WorkerInv(w)
  BY DEF Init, WorkerInv
<1> QED
  BY <1>4, <1>5, <1>6 DEF OwnInv

LEMMA AdmitKeepsOwnInv ==
    ASSUME OwnInv, NEW w \in Workers, NEW r \in Request,
           NEW label \in {"check", "write", "begin"}, Admit(w, r, label),
           label = "check" => r.name \in Names,
           label = "write" => r.op = "updatePortfolio",
           label = "begin" => r.op \in {"setPrimaryPortfolio", "deletePortfolio"},
           label # "check" => /\ r.id \in Ids /\ docs[r.id].live
                              /\ docs[r.id].owner = r.user
    PROVE  OwnInv' /\ Frame(w, {})
<1>1. Frame(w, {})
  BY IdsInterval DEF Admit, Frame, Goto, requests, OwnInv, Typed
<1>2. Typed'
  BY DEF Admit, Goto, requests, OwnInv, Typed, Labels
<1>3. IdsAreIssued'
  BY DEF Admit, IdsAreIssued, OwnInv
<1>4. WorkerInv(w)'
  <2>1. pc'[w] = label /\ req'[w] = r /\ called' = called \union {r.op}
        /\ docs' = docs /\ issued' = issued
    BY DEF Admit, Goto, OwnInv, Typed
  <2>2. label # "check" => r.id <= issued
    BY DEF OwnInv, IdsAreIssued
  <2> QED
    BY <2>1, <2>2 DEF WorkerInv, OnOwnPortfolio
<1> QED
  BY <1>1, <1>2, <1>3, <1>4, OthersKeepOwnInv

LEMMA StartKeepsOwnInv ==
    ASSUME OwnInv, NEW w \in Workers, Start(w)
    PROVE  OwnInv' /\ Frame(w, {})
<1>1. CASE StartCreate(w)
  <2>1. PICK u \in Users, n \in Names, t \in Texts \union {Unset} :
           Admit(w, [NoRequest EXCEPT !.op = "createPortfolio", !.user = u, !.name = n,
                                      !.description = t], "check")
    BY <1>1 DEF StartCreate
  <2>2. [NoRequest EXCEPT !.op = "createPortfolio", !.user = u, !.name = n,
                          !.description = t] \in Request
    BY NothingTyped DEF NoRequest, Request, Operations, AnyUser, AnyName, AnyText
  <2>3. [NoRequest EXCEPT !.op = "createPortfolio", !.user = u, !.name = n,
                          !.description = t].name = n
    BY DEF NoRequest
  <2> QED
    BY <2>1, <2>2, <2>3, AdmitKeepsOwnInv
<1>2. CASE StartUpdate(w)
  <2>0. PICK u \in Users :
           \E p \in Owned(u), n \in Names \union {Unset}, t \in Texts \union {Unset} :
              Admit(w, [op |-> "updatePortfolio", user |-> u, name |-> n,
                        description |-> t, id |-> p, seen |-> docs[p]], "write")
    BY <1>2 DEF StartUpdate
  <2>1. PICK p \in Owned(u), n \in Names \union {Unset}, t \in Texts \union {Unset} :
           Admit(w, [op |-> "updatePortfolio", user |-> u, name |-> n,
                     description |-> t, id |-> p, seen |-> docs[p]], "write")
    BY <2>0
  <2>2. p \in Ids /\ docs[p].live /\ docs[p].owner = u /\ docs[p] \in Doc
    BY DEF Owned, OwnInv, Typed
  <2> DEFINE r == [op |-> "updatePortfolio", user |-> u, name |-> n,
                   description |-> t, id |-> p, seen |-> docs[p]]
  <2>3. r \in Request /\ r.op = "updatePortfolio" /\ r.id = p /\ r.user = u
    BY <2>2 DEF Request, Operations, AnyUser, AnyName, AnyText
  <2> HIDE DEF r
  <2> QED
    BY <2>1, <2>2, <2>3, AdmitKeepsOwnInv DEF r
<1>3. ASSUME NEW op \in {"setPrimaryPortfolio", "deletePortfolio"},
             NEW u \in Users, NEW p \in Owned(u),
             Admit(w, [NoRequest EXCEPT !.op = op, !.user = u, !.id = p], "begin")
      PROVE  OwnInv' /\ Frame(w, {})
  <2>1. p \in Ids /\ docs[p].live /\ docs[p].owner = u
    BY DEF Owned
  <2> DEFINE r == [NoRequest EXCEPT !.op = op, !.user = u, !.id = p]
  <2>2. r \in Request /\ r.op = op /\ r.id = p /\ r.user = u
    BY <2>1, NothingTyped DEF NoRequest, Request, Operations, AnyUser
  <2>3. Admit(w, r, "begin")
    BY <1>3
  <2> HIDE DEF r
  <2> QED
    BY <2>1, <2>2, <2>3, AdmitKeepsOwnInv
<1>4. CASE StartSetPrimary(w)
  BY <1>3, <1>4 DEF StartSetPrimary
<1>5. CASE StartDelete(w)
  BY <1>3, <1>5 DEF StartDelete
<1> QED
  BY <1>1, <1>2, <1>4, <1>5 DEF Start

\* A worker that ends its request.
LEMMA DoneIsTyped ==
    ASSUME OwnInv, NEW w \in Workers, Done(w)
    PROVE  /\ pc' \in [Workers -> Labels]
           /\ req' \in [Workers -> Request]
           /\ tx' \in [Workers -> [writes : SUBSET Ids, after : [Ids -> Doc]]]
           /\ pc'[w] = "idle"
           /\ \A v \in Workers \ {w} : pc'[v] = pc[v] /\ req'[v] = req[v] /\ tx'[v] = tx[v]
  BY NothingTyped DEF Done, Goto, OwnInv, Typed, Labels

LEMMA MissedIsTyped ==
    ASSUME OwnInv, NEW w \in Workers, NEW written \in SUBSET Ids, Missed(w, written)
    PROVE  /\ missed' \in [Workers -> SUBSET Ids]
           /\ \A v \in Workers \ {w} :
                  pc[v] = "commit" => missed'[v] = missed[v] \union written
  BY DEF Missed, OwnInv, Typed

LEMMA CheckNameKeepsOwnInv ==
    ASSUME OwnInv, NEW w \in Workers, CheckName(w)
    PROVE  OwnInv' /\ Frame(w, {})
<1>1. Frame(w, {})
  BY IdsInterval DEF CheckName, Frame, Goto, requests, OwnInv, Typed
<1>2. Typed' /\ IdsAreIssued'
  BY DEF CheckName, Goto, requests, OwnInv, Typed, Labels, IdsAreIssued
<1>3. WorkerInv(w)'
  BY DEF CheckName, Goto, requests, OwnInv, Typed, WorkerInv
<1> QED
  BY <1>1, <1>2, <1>3, OthersKeepOwnInv

LEMMA InsertKeepsOwnInv ==
    ASSUME OwnInv, NEW w \in Workers, Insert(w)
    PROVE  OwnInv' /\ Frame(w, {})
<1> DEFINE doc == [live |-> TRUE, owner |-> req[w].user, name |-> Upper[req[w].name],
                   description |-> req[w].description, primary |-> FALSE]
<1>1. /\ issued < MaxPortfolios /\ issued' = issued + 1
      /\ docs' = [docs EXCEPT ![issued + 1] = doc]
      /\ Done(w) /\ UNCHANGED <<requests, missed>>
  BY DEF Insert
<1>2. issued \in Nat /\ issued + 1 \in Ids /\ issued' \in 0 .. MaxPortfolios
  BY <1>1, IdsInterval DEF OwnInv, Typed
<1>3. /\ docs'[issued + 1] = doc
      /\ \A p \in Ids : p <= issued => docs'[p] = docs[p]
      /\ \A p \in Ids \ {issued + 1} : docs'[p] = docs[p]
  BY <1>1, <1>2, IdsInterval DEF OwnInv, Typed
<1> HIDE DEF doc
<1>4. Frame(w, {})
  BY <1>1, <1>2, <1>3, DoneIsTyped DEF Frame, requests
<1>5. doc \in Doc
  <2>1. req[w].user \in AnyUser /\ req[w].description \in AnyText
    BY DEF OwnInv, Typed, Request
  <2>2. Upper[req[w].name] \in AnyName
    BY RegistryAssumption DEF Insert, OwnInv, WorkerInv, AnyName
  <2> QED
    BY <2>1, <2>2 DEF doc, Doc
<1>6. Typed'
  BY <1>1, <1>2, <1>5, DoneIsTyped DEF OwnInv, Typed, requests
<1>7. IdsAreIssued'
  BY <1>1, <1>2, <1>3, IdsInterval DEF OwnInv, IdsAreIssued
<1>8. WorkerInv(w)'
  BY <1>1, DoneIsTyped DEF WorkerInv
<1> QED
  BY <1>4, <1>6, <1>7, <1>8, OthersKeepOwnInv

\* A change of name or description leaves owner and mark alone.
LEMMA UpdatedKeepsMark ==
    ASSUME OwnInv, NEW w \in Workers, NEW p \in Ids
    PROVE  /\ Updated(req[w], docs[p]) \in Doc
           /\ Updated(req[w], docs[p]).live = docs[p].live
           /\ Updated(req[w], docs[p]).owner = docs[p].owner
           /\ Updated(req[w], docs[p]).primary = docs[p].primary
<1>1. docs[p] \in Doc
  BY DEF OwnInv, Typed
<1>2. req[w] \in Request /\ req[w].seen \in Doc
  BY DEF OwnInv, Typed, Request
<1>3. /\ OrElse(req[w].name, req[w].seen.name) \in AnyName
      /\ OrElse(req[w].description, req[w].seen.description) \in AnyText
  BY <1>2 DEF OrElse, Request, Doc
<1> QED
  BY <1>1, <1>3 DEF Updated, Doc

LEMMA WriteKeepsOwnInv ==
    ASSUME OwnInv, NEW w \in Workers, Write(w)
    PROVE  /\ OwnInv' /\ Frame(w, {req[w].id})
           /\ OnOwnPortfolio(w) /\ docs[req[w].id].live
           /\ \A p \in Ids : /\ docs'[p].live = docs[p].live
                             /\ docs'[p].owner = docs[p].owner
                             /\ docs'[p].primary = docs[p].primary
<1> DEFINE id == req[w].id
<1>1. /\ docs[id].live
      /\ docs' = [docs EXCEPT ![id] = Updated(req[w], docs[id])]
      /\ Missed(w, {id}) /\ Done(w) /\ UNCHANGED <<issued, requests>>
  BY DEF Write
<1>2. OnOwnPortfolio(w) /\ id \in Ids
  BY DEF Write, OwnInv, WorkerInv, OnOwnPortfolio
<1>3. /\ \A p \in Ids \ {id} : docs'[p] = docs[p]
      /\ \A p \in Ids : /\ docs'[p].live = docs[p].live
                        /\ docs'[p].owner = docs[p].owner
                        /\ docs'[p].primary = docs[p].primary
  BY <1>1, <1>2, UpdatedKeepsMark DEF OwnInv, Typed
<1>4. Typed'
  BY <1>1, <1>2, UpdatedKeepsMark, DoneIsTyped, MissedIsTyped DEF OwnInv, Typed, requests
<1>5. IdsAreIssued'
  BY <1>1, <1>3 DEF OwnInv, IdsAreIssued
<1>6. Frame(w, {id})
  <2>1. issued <= issued'
    BY <1>1, IdsInterval DEF OwnInv, Typed
  <2> QED
    BY <1>1, <1>2, <1>3, <2>1, DoneIsTyped, MissedIsTyped DEF Frame, requests
<1>7. WorkerInv(w)'
  BY <1>1, DoneIsTyped DEF WorkerInv
<1> HIDE DEF id
<1>8. OwnInv'
  BY <1>2, <1>4, <1>5, <1>6, <1>7, OthersKeepOwnInv
<1> QED
  BY <1>1, <1>2, <1>3, <1>6, <1>8 DEF id

LEMMA BeginSetPrimaryKeepsOwnInv ==
    ASSUME OwnInv, NEW w \in Workers, BeginSetPrimary(w)
    PROVE  OwnInv' /\ Frame(w, {})
<1> DEFINE demoted == Demoted(req[w].user)
           W == demoted \union {req[w].id}
           A == [p \in Ids |-> [docs[p] EXCEPT !.primary = IF p = req[w].id THEN TRUE
                                                        ELSE IF p \in demoted THEN FALSE
                                                        ELSE @]]
<1>1. /\ pc[w] = "begin" /\ req[w].op = "setPrimaryPortfolio" /\ docs[req[w].id].live
      /\ tx' = [tx EXCEPT ![w] = [writes |-> W, after |-> A]]
      /\ missed' = [missed EXCEPT ![w] = {}]
      /\ pc' = [pc EXCEPT ![w] = "commit"]
      /\ UNCHANGED <<docs, issued, requests, req>>
  BY DEF BeginSetPrimary, Goto
<1>2. OnOwnPortfolio(w) /\ req[w].id \in Ids /\ docs[req[w].id].owner = req[w].user
  BY <1>1 DEF OwnInv, WorkerInv, OnOwnPortfolio
<1>3. /\ W \in SUBSET Ids
      /\ \A p \in W : docs[p].live /\ docs[p].owner = req[w].user /\ p <= issued
  BY <1>1, <1>2 DEF Demoted, Primaries, Owned, OwnInv, IdsAreIssued
<1>4. A \in [Ids -> Doc]
  BY DEF OwnInv, Typed, Doc
<1>5. \A p \in W : A[p] = AfterSet(w, p)
  <2> SUFFICES ASSUME NEW p \in W
               PROVE  A[p] = AfterSet(w, p)
    OBVIOUS
  <2>1. p \in Ids /\ docs[p] \in Doc
    BY <1>3 DEF OwnInv, Typed
  <2>2. CASE p = req[w].id
    BY <2>1, <2>2 DEF AfterSet
  <2>3. CASE p # req[w].id
    BY <2>1, <2>3 DEF AfterSet
  <2> QED
    BY <2>2, <2>3
<1>6. req[w].id \in W
  OBVIOUS
<1> HIDE DEF W, A
<1>7. Typed'
  BY <1>1, <1>3, <1>4 DEF OwnInv, Typed, requests, Labels
<1>8. IdsAreIssued'
  BY <1>1 DEF OwnInv, IdsAreIssued
<1>9. Frame(w, {})
  BY <1>1, IdsInterval DEF OwnInv, Typed, Frame, requests
<1>10. WorkerInv(w)'
  <2>1. /\ pc'[w] = "commit" /\ req'[w] = req[w] /\ missed'[w] = {}
        /\ tx'[w].writes = W /\ tx'[w].after = A
    BY <1>1 DEF OwnInv, Typed
  <2>2. req[w].op \in called'
    BY <1>1 DEF OwnInv, WorkerInv, requests
  <2>3. OnOwnPortfolio(w)'
    BY <1>1, <1>2 DEF OnOwnPortfolio
  <2>4. Accurate(w)'
    BY <1>1, <1>3, <1>5, <1>6, <2>1 DEF Accurate, AfterSet
  <2> QED
    BY <1>1, <2>1, <2>2, <2>3, <2>4 DEF WorkerInv
<1> QED
  BY <1>7, <1>8, <1>9, <1>10, OthersKeepOwnInv

LEMMA BeginDeleteKeepsOwnInv ==
    ASSUME OwnInv, NEW w \in Workers, BeginDelete(w)
    PROVE  OwnInv' /\ Frame(w, {})
<1> DEFINE A == [docs EXCEPT ![req[w].id] = NoPortfolio]
<1>1. /\ pc[w] = "begin" /\ req[w].op = "deletePortfolio" /\ docs[req[w].id].live
      /\ tx' = [tx EXCEPT ![w] = [writes |-> {req[w].id}, after |-> A]]
      /\ missed' = [missed EXCEPT ![w] = {}]
      /\ pc' = [pc EXCEPT ![w] = "commit"]
      /\ UNCHANGED <<docs, issued, requests, req>>
  BY DEF BeginDelete, Goto
<1>2. OnOwnPortfolio(w) /\ req[w].id \in Ids
  BY <1>1 DEF OwnInv, WorkerInv, OnOwnPortfolio
<1>3. A \in [Ids -> Doc] /\ A[req[w].id] = NoPortfolio
  BY <1>2, NothingTyped DEF OwnInv, Typed
<1> HIDE DEF A
<1>4. Typed'
  BY <1>1, <1>2, <1>3 DEF OwnInv, Typed, requests, Labels
<1>5. IdsAreIssued'
  BY <1>1 DEF OwnInv, IdsAreIssued
<1>6. Frame(w, {})
  BY <1>1, IdsInterval DEF OwnInv, Typed, Frame, requests
<1>7. WorkerInv(w)'
  <2>1. /\ pc'[w] = "commit" /\ req'[w] = req[w]
        /\ tx'[w].writes = {req[w].id} /\ tx'[w].after = A
    BY <1>1 DEF OwnInv, Typed
  <2>2. req[w].op \in called'
    BY <1>1 DEF OwnInv, WorkerInv, requests
  <2>3. OnOwnPortfolio(w)'
    BY <1>1, <1>2 DEF OnOwnPortfolio
  <2>4. Accurate(w)'
    BY <1>1, <1>3, <2>1 DEF Accurate
  <2> QED
    BY <1>1, <2>1, <2>2, <2>3, <2>4 DEF WorkerInv
<1> QED
  BY <1>4, <1>5, <1>6, <1>7, OthersKeepOwnInv

\* What a commit does to a document: nothing, or the request's business with it.
LEMMA CommitWrites ==
    ASSUME OwnInv, NEW w \in Workers, Commit(w)
    PROVE  /\ WorkerInv(w) /\ Accurate(w) /\ pc[w] = "commit"
           /\ tx[w].writes \in SUBSET Ids
           /\ \A p \in Ids \ tx[w].writes : docs'[p] = docs[p]
           /\ req[w].op = "setPrimaryPortfolio" =>
                  \A p \in tx[w].writes : /\ docs[p].live /\ docs'[p].live
                                         /\ docs[p].owner = req[w].user
                                         /\ docs'[p].owner = req[w].user
                                         /\ (docs'[p].primary <=> p = req[w].id)
                                         /\ p <= issued
           /\ req[w].op # "setPrimaryPortfolio" =>
                  /\ tx[w].writes = {req[w].id}
                  /\ ~docs'[req[w].id].live
<1>1. /\ pc[w] = "commit" /\ NoConflict(w)
      /\ docs' = [p \in Ids |-> IF p \in tx[w].writes THEN tx[w].after[p] ELSE docs[p]]
  BY DEF Commit
<1>2. WorkerInv(w) /\ Accurate(w)
  BY <1>1 DEF OwnInv, WorkerInv
<1>3. /\ tx[w].writes \in SUBSET Ids /\ tx[w].after \in [Ids -> Doc]
      /\ missed[w] \in SUBSET Ids
  BY DEF OwnInv, Typed
<1>4. \A p \in Ids \ tx[w].writes : docs'[p] = docs[p]
  BY <1>1
<1>5. \A p \in tx[w].writes : p \in Ids /\ docs'[p] = tx[w].after[p] /\ p \notin missed[w]
  BY <1>1, <1>3 DEF NoConflict
<1>6. ASSUME req[w].op = "setPrimaryPortfolio", NEW p \in tx[w].writes
      PROVE  /\ docs[p].live /\ docs'[p].live
             /\ docs[p].owner = req[w].user
             /\ docs'[p].owner = req[w].user
             /\ (docs'[p].primary <=> p = req[w].id)
             /\ p <= issued
  <2>1. /\ docs[p].live /\ docs[p].owner = req[w].user /\ p <= issued
        /\ docs'[p] = AfterSet(w, p)
    BY <1>2, <1>5, <1>6 DEF Accurate
  <2>2. docs[p] \in Doc
    BY <1>5 DEF OwnInv, Typed
  <2> QED
    BY <2>1, <2>2 DEF AfterSet, Doc
<1>7. ASSUME req[w].op # "setPrimaryPortfolio"
      PROVE  tx[w].writes = {req[w].id} /\ ~docs'[req[w].id].live
  BY <1>2, <1>5, <1>7 DEF Accurate, NoPortfolio
<1> QED
  BY <1>1, <1>2, <1>3, <1>4, <1>6, <1>7

LEMMA CommitKeepsOwnInv ==
    ASSUME OwnInv, NEW w \in Workers, Commit(w)
    PROVE  OwnInv' /\ Frame(w, tx[w].writes)
<1>1. /\ Missed(w, tx[w].writes) /\ Done(w) /\ UNCHANGED <<issued, requests>>
      /\ docs' = [p \in Ids |-> IF p \in tx[w].writes THEN tx[w].after[p] ELSE docs[p]]
  BY DEF Commit
<1>2. tx[w].writes \in SUBSET Ids /\ tx[w].after \in [Ids -> Doc]
  BY DEF OwnInv, Typed
<1>3. Typed'
  BY <1>1, <1>2, DoneIsTyped, MissedIsTyped DEF OwnInv, Typed, requests
<1>4. \A p \in Ids : docs'[p].live => /\ docs[p].live
                                     /\ docs'[p].owner = docs[p].owner
  BY CommitWrites
<1>5. IdsAreIssued'
  BY <1>1, <1>4 DEF OwnInv, IdsAreIssued
<1>6. Frame(w, tx[w].writes)
  <2>1. issued <= issued'
    BY <1>1, IdsInterval DEF OwnInv, Typed
  <2>2. \A p \in Ids \ tx[w].writes : docs'[p] = docs[p]
    BY CommitWrites
  <2> QED
    BY <1>1, <1>2, <1>4, <2>1, <2>2, DoneIsTyped, MissedIsTyped DEF Frame, requests
<1>7. WorkerInv(w)'
  BY <1>1, DoneIsTyped DEF WorkerInv
<1> QED
  BY <1>2, <1>3, <1>5, <1>6, <1>7, OthersKeepOwnInv

LEMMA FailKeepsOwnInv ==
    ASSUME OwnInv, NEW w \in Workers, Fail(w)
    PROVE  OwnInv' /\ Frame(w, {})
<1>1. /\ Done(w) /\ missed' = [missed EXCEPT ![w] = {}]
      /\ UNCHANGED <<docs, issued, requests>>
  BY DEF Fail
<1>2. Typed' /\ IdsAreIssued'
  BY <1>1, DoneIsTyped DEF OwnInv, Typed, requests, IdsAreIssued
<1>3. Frame(w, {})
  BY <1>1, DoneIsTyped, IdsInterval DEF OwnInv, Typed, Frame, requests
<1>4. WorkerInv(w)'
  BY <1>1, DoneIsTyped DEF WorkerInv
<1> QED
  BY <1>2, <1>3, <1>4, OthersKeepOwnInv

LEMMA OwnInvStep == OwnInv /\ [Next]_vars => OwnInv'
<1> SUFFICES ASSUME OwnInv, [Next]_vars
             PROVE  OwnInv'
  OBVIOUS
<1>1. ASSUME NEW w \in Workers, Start(w)
      PROVE  OwnInv'
  BY <1>1, StartKeepsOwnInv
<1>2. ASSUME NEW w \in Workers, Step(w)
      PROVE  OwnInv'
  BY <1>2, CheckNameKeepsOwnInv, InsertKeepsOwnInv, WriteKeepsOwnInv,
     BeginSetPrimaryKeepsOwnInv, BeginDeleteKeepsOwnInv, CommitKeepsOwnInv,
     FailKeepsOwnInv DEF Step
<1>3. CASE UNCHANGED vars
  BY <1>3 DEF vars, requests, OwnInv, Typed, IdsAreIssued, WorkerInv, OnOwnPortfolio,
              Accurate, AfterSet
<1> QED
  BY <1>1, <1>2, <1>3 DEF Next

-----------------------------------------------------------------------------
\* Insert does not touch a document that is stored.
LEMMA InsertKeepsStored ==
    ASSUME OwnInv, NEW w \in Workers, Insert(w), NEW p \in Ids, docs[p].live
    PROVE  docs'[p] = docs[p]
<1>1. p <= issued /\ issued \in Nat
  BY IdsInterval DEF OwnInv, IdsAreIssued, Typed
<1> QED
  BY <1>1, IdsInterval DEF Insert, OwnInv, Typed

\* The steps that touch no document.
Reads(w) ==
    \/ Start(w) \/ CheckName(w) \/ BeginSetPrimary(w) \/ BeginDelete(w) \/ Fail(w)

LEMMA ReadsKeepDocs == ASSUME NEW w \in Workers, Reads(w) PROVE docs' = docs
  BY DEF Reads, Start, StartCreate, StartUpdate, StartSetPrimary, StartDelete, Admit,
         CheckName, BeginSetPrimary, BeginDelete, Fail

LEMMA StepsAre ==
    Next => \E w \in Workers : Reads(w) \/ Insert(w) \/ Write(w) \/ Commit(w)
  BY DEF Next, Step, Reads

(* For any number of requests that overlap: a stored portfolio changes only at the *)
(* end of a request of its owner (PortfolioService, validatePortfolioAccess).      *)
THEOREM OwnersChangeOnly == Spec => OwnersOnly
<1> DEFINE Kept == \A p \in Ids : docs[p].live /\ docs'[p] # docs[p] =>
                      \E w \in Workers : /\ pc[w] # "idle" /\ pc'[w] = "idle"
                                         /\ req[w].user = docs[p].owner
<1>1. OwnInv /\ [Next]_vars => [Kept]_vars
  <2> SUFFICES ASSUME OwnInv, Next, NEW p \in Ids, docs[p].live, docs'[p] # docs[p]
               PROVE  \E w \in Workers : /\ pc[w] # "idle" /\ pc'[w] = "idle"
                                         /\ req[w].user = docs[p].owner
    BY DEF vars
  <2>1. PICK w \in Workers : Write(w) \/ Commit(w)
    BY StepsAre, ReadsKeepDocs, InsertKeepsStored
  <2>2. CASE Write(w)
    <3>1. p = req[w].id
      BY <2>2 DEF Write, OwnInv, Typed
    <3>2. OnOwnPortfolio(w) /\ pc[w] # "idle" /\ pc'[w] = "idle"
      BY <2>2, WriteKeepsOwnInv, DoneIsTyped DEF Write
    <3> QED
      BY <3>1, <3>2 DEF OnOwnPortfolio
  <2>3. CASE Commit(w)
    <3>1. p \in tx[w].writes /\ pc[w] # "idle" /\ pc'[w] = "idle"
      BY <2>3, CommitWrites, DoneIsTyped DEF Commit
    <3>2. docs[p].owner = req[w].user
      BY <2>3, <3>1, CommitWrites DEF WorkerInv, OnOwnPortfolio
    <3> QED
      BY <3>1, <3>2
  <2> QED
    BY <2>1, <2>2, <2>3
<1> QED
  BY <1>1, OwnInvInit, OwnInvStep, PTL DEF Spec, OwnersOnly

(* For any number of requests that overlap: a portfolio that is kept loses the mark *)
(* of the primary only to another one of the same user                              *)
(* (PortfolioService.setPrimaryPortfolio).                                          *)
THEOREM MarkIsHandedOver == Spec => PrimaryHandedOver
<1> DEFINE Handed == \A p \in Ids :
                        /\ docs[p].live /\ docs[p].primary
                        /\ docs'[p].live /\ ~docs'[p].primary
                        => \E q \in Ids \ {p} : /\ docs'[q].live /\ docs'[q].primary
                                               /\ docs'[q].owner = docs[p].owner
<1>1. OwnInv /\ [Next]_vars => [Handed]_vars
  <2> SUFFICES ASSUME OwnInv, Next, NEW p \in Ids, docs[p].live, docs[p].primary,
                      docs'[p].live, ~docs'[p].primary
               PROVE  \E q \in Ids \ {p} : /\ docs'[q].live /\ docs'[q].primary
                                           /\ docs'[q].owner = docs[p].owner
    BY DEF vars
  <2>1. PICK w \in Workers : Commit(w)
    BY StepsAre, ReadsKeepDocs, InsertKeepsStored, WriteKeepsOwnInv
  <2>2. p \in tx[w].writes /\ req[w].op = "setPrimaryPortfolio"
    BY <2>1, CommitWrites
  <2>3. req[w].id \in tx[w].writes /\ req[w].id \in Ids
    BY <2>1, <2>2, CommitWrites DEF Accurate
  <2>4. p # req[w].id
    BY <2>1, <2>2, CommitWrites
  <2>5. /\ docs'[req[w].id].live /\ docs'[req[w].id].primary
        /\ docs'[req[w].id].owner = req[w].user /\ docs[p].owner = req[w].user
    BY <2>1, <2>2, <2>3, CommitWrites
  <2> QED
    BY <2>3, <2>4, <2>5
<1> QED
  BY <1>1, OwnInvInit, OwnInvStep, PTL DEF Spec, PrimaryHandedOver

-----------------------------------------------------------------------------
(* One primary portfolio *)

LEMMA PrimaryInvInit == Init => PrimaryInv
<1> SUFFICES ASSUME Init
             PROVE  PrimaryInv
  OBVIOUS
<1>1. OwnInv
  BY OwnInvInit
<1>2. ASSUME NEW u \in settled
      PROVE  \E p \in Ids : Primaries(u) = {p}
  <2>1. PICK n \in Names, owner \in [1 .. issued -> settled] :
           /\ \A v \in settled : \E p \in 1 .. issued : owner[p] = v
           /\ docs = [p \in Ids |->
                        IF p <= issued
                        THEN [live |-> TRUE, owner |-> owner[p], name |-> Upper[n],
                              description |-> Unset, primary |-> TRUE]
                        ELSE NoPortfolio]
    BY DEF Init
  <2>2. issued \in Nat /\ 1 .. issued \subseteq Ids
    BY <1>1, IdsInterval DEF OwnInv, Typed
  <2>3. owner \in Injection(1 .. issued, settled)
    <3>1. owner \in Surjection(1 .. issued, settled)
      BY <2>1 DEF Surjection
    <3>2. IsFiniteSet(1 .. issued) /\ Cardinality(1 .. issued) = issued
      BY <2>2, FS_Interval
    <3>3. issued = Cardinality(settled)
      BY DEF Init
    <3> QED
      BY <3>1, <3>2, <3>3, FS_SurjSameCardinalityImpliesInj
  <2>4. PICK p \in 1 .. issued : owner[p] = u
    BY <2>1
  <2>5. \A q \in 1 .. issued : owner[q] = u => q = p
    BY <2>3, <2>4 DEF Injection, IsInjective
  <2>6. \A q \in Ids : docs[q].live /\ docs[q].owner = u /\ docs[q].primary <=> q = p
    <3> SUFFICES ASSUME NEW q \in Ids
                 PROVE  docs[q].live /\ docs[q].owner = u /\ docs[q].primary <=> q = p
      OBVIOUS
    <3>1. CASE q <= issued
      <4>1. q \in 1 .. issued
        BY <2>2, <3>1, IdsInterval
      <4>2. docs[q].live /\ docs[q].primary /\ docs[q].owner = owner[q]
        BY <2>1, <3>1
      <4> QED
        BY <2>4, <2>5, <4>1, <4>2
    <3>2. CASE ~(q <= issued)
      <4>1. ~docs[q].live
        BY <2>1, <3>2 DEF NoPortfolio
      <4>2. q # p
        BY <2>2, <3>2
      <4> QED
        BY <4>1, <4>2
    <3> QED
      BY <3>1, <3>2
  <2>7. Primaries(u) = {p} /\ p \in Ids
    BY <2>2, <2>6 DEF Primaries, Owned
  <2> QED
    BY <2>7
<1>3. \A w \in Workers : pc[w] # "commit"
  BY DEF Init
<1> QED
  BY <1>1, <1>2, <1>3 DEF PrimaryInv, OnePrimary

\* The step of w does not disturb the transactions of others, if it makes no portfolio
\* of their users primary or writes one that they write.
LEMMA OthersStillCover ==
    ASSUME OwnInv, NEW w \in Workers, NEW written \in SUBSET Ids, Frame(w, written),
           NEW v \in Workers \ {w}, pc[v] = "commit", CoversPrimaries(v),
           NEW u, u = req[v].user,
           u \in settled /\ NoConflict(v) => \/ Primaries(u)' \subseteq Primaries(u)
                                           \/ tx[v].writes \intersect written # {}
    PROVE  CoversPrimaries(v)'
<1>1. /\ req'[v] = req[v] /\ tx'[v] = tx[v]
      /\ missed[v] \union written \subseteq missed'[v] /\ settled' = settled
  BY DEF Frame
<1>2. Primaries(req[v].user)' = Primaries(u)'
  BY <1>1 DEF Primaries, Owned
<1> SUFFICES ASSUME req[v].op = "setPrimaryPortfolio", u \in settled,
                    tx[v].writes \intersect missed'[v] = {}
             PROVE  Primaries(u)' \subseteq tx[v].writes
  BY <1>1, <1>2 DEF CoversPrimaries, NoConflict
<1>3. NoConflict(v)
  BY <1>1 DEF NoConflict
<1>4. Primaries(u) \subseteq tx[v].writes
  BY <1>1, <1>3 DEF CoversPrimaries
<1> QED
  BY <1>1, <1>3, <1>4

LEMMA QuietKeepsPrimaryInv ==
    ASSUME PrimaryInv, OwnInv', "deletePortfolio" \notin called',
           NEW w \in Workers, NEW written \in SUBSET Ids, Frame(w, written),
           \A u : Primaries(u)' = Primaries(u),
           pc'[w] = "commit" => CoversPrimaries(w)'
    PROVE  PrimaryInv'
<1>1. "deletePortfolio" \notin called /\ settled' = settled
  BY DEF Frame
<1>2. OnePrimary'
  BY <1>1 DEF PrimaryInv, OnePrimary
<1>3. ASSUME NEW v \in Workers, pc'[v] = "commit"
      PROVE  CoversPrimaries(v)'
  <2>1. CASE v = w
    BY <1>3, <2>1
  <2>2. CASE v # w
    <3>1. pc[v] = "commit"
      BY <1>3, <2>2 DEF Frame
    <3>2. CoversPrimaries(v) /\ OwnInv
      BY <1>1, <3>1 DEF PrimaryInv
    <3>3. PICK u : u = req[v].user
      OBVIOUS
    <3>4. Primaries(u)' \subseteq Primaries(u)
      OBVIOUS
    <3> QED
      BY <2>2, <3>1, <3>2, <3>3, <3>4, OthersStillCover
  <2> QED
    BY <2>1, <2>2
<1> QED
  BY <1>2, <1>3 DEF PrimaryInv

LEMMA ReadsKeepPrimaryInv ==
    ASSUME PrimaryInv, OwnInv', "deletePortfolio" \notin called',
           NEW w \in Workers, Reads(w)
    PROVE  PrimaryInv'
<1>1. OwnInv
  BY DEF PrimaryInv
<1>2. Frame(w, {})
  BY <1>1, StartKeepsOwnInv, CheckNameKeepsOwnInv, BeginSetPrimaryKeepsOwnInv,
     BeginDeleteKeepsOwnInv, FailKeepsOwnInv DEF Reads
<1>3. \A u : Primaries(u)' = Primaries(u)
  BY ReadsKeepDocs DEF Primaries, Owned
<1>4. ASSUME pc'[w] = "commit"
      PROVE  CoversPrimaries(w)'
  <2>1. Typed
    BY <1>1 DEF OwnInv
  <2>2. BeginSetPrimary(w) \/ BeginDelete(w)
    BY <1>4, <2>1 DEF Reads, Start, StartCreate, StartUpdate, StartSetPrimary, StartDelete,
                      Admit, CheckName, Fail, Done, Goto, Typed
  <2>3. CASE BeginSetPrimary(w)
    <3>1. req' = req /\ tx'[w].writes = Demoted(req[w].user) \union {req[w].id}
      BY <2>1, <2>3 DEF BeginSetPrimary, Typed
    <3>2. PICK u : u = req[w].user
      OBVIOUS
    <3>3. Primaries(u)' \subseteq tx'[w].writes
      BY <1>3, <3>1, <3>2 DEF Demoted
    <3>4. Primaries(req[w].user)' = Primaries(u)'
      BY <3>1, <3>2 DEF Primaries, Owned
    <3> QED
      BY <3>3, <3>4 DEF CoversPrimaries
  <2>4. CASE BeginDelete(w)
    BY <1>1, <2>4 DEF BeginDelete, CoversPrimaries
  <2> QED
    BY <2>2, <2>3, <2>4
<1> QED
  BY <1>2, <1>3, <1>4, QuietKeepsPrimaryInv

LEMMA WriteKeepsPrimaryInv ==
    ASSUME PrimaryInv, OwnInv', "deletePortfolio" \notin called',
           NEW w \in Workers, Write(w)
    PROVE  PrimaryInv'
<1>1. OwnInv
  BY DEF PrimaryInv
<1>2. Frame(w, {req[w].id}) /\ {req[w].id} \in SUBSET Ids
  BY <1>1, WriteKeepsOwnInv DEF OnOwnPortfolio
<1>3. \A u : Primaries(u)' = Primaries(u)
  BY <1>1, WriteKeepsOwnInv DEF Primaries, Owned
<1>4. pc'[w] # "commit"
  BY <1>1, DoneIsTyped DEF Write
<1> QED
  BY <1>2, <1>3, <1>4, QuietKeepsPrimaryInv

LEMMA InsertKeepsPrimaryInv ==
    ASSUME PrimaryInv, OwnInv', "deletePortfolio" \notin called',
           NEW w \in Workers, Insert(w)
    PROVE  PrimaryInv'
<1>1. OwnInv
  BY DEF PrimaryInv
<1>2. Frame(w, {})
  BY <1>1, InsertKeepsOwnInv
<1>3. issued + 1 \in Ids /\ ~docs[issued + 1].live /\ ~docs'[issued + 1].primary
      /\ \A p \in Ids \ {issued + 1} : docs'[p] = docs[p]
  BY <1>1, IdsInterval DEF Insert, OwnInv, Typed, IdsAreIssued
<1>4. \A u : Primaries(u)' = Primaries(u)
  BY <1>3 DEF Primaries, Owned
<1>5. pc'[w] # "commit"
  BY <1>1, DoneIsTyped DEF Insert
<1> QED
  BY <1>2, <1>4, <1>5, QuietKeepsPrimaryInv

LEMMA CommitKeepsPrimaryInv ==
    ASSUME PrimaryInv, OwnInv', "deletePortfolio" \notin called',
           NEW w \in Workers, Commit(w)
    PROVE  PrimaryInv'
<1> DEFINE W == tx[w].writes
           id == req[w].id
           owner == req[w].user
<1>1. OwnInv
  BY DEF PrimaryInv
<1>2. Frame(w, tx[w].writes) /\ tx[w].writes \in SUBSET Ids
  BY <1>1, CommitKeepsOwnInv, CommitWrites
<1>3. "deletePortfolio" \notin called /\ settled' = settled
  BY <1>2 DEF Frame
<1>4. pc[w] = "commit" /\ NoConflict(w) /\ pc'[w] # "commit"
  BY <1>1, DoneIsTyped DEF Commit
<1>5. req[w].op = "setPrimaryPortfolio"
  BY <1>1, <1>3, <1>4 DEF OwnInv, WorkerInv
<1>6. PICK W0, id0, u0 : W0 = W /\ id0 = id /\ u0 = owner
  OBVIOUS
<1>7. /\ W0 \in SUBSET Ids /\ id0 \in W0
      /\ \A p \in Ids \ W0 : docs'[p] = docs[p]
      /\ \A p \in W0 : /\ docs[p].live /\ docs'[p].live
                       /\ docs[p].owner = u0 /\ docs'[p].owner = u0
                       /\ (docs'[p].primary <=> p = id0)
  BY <1>1, <1>5, <1>6, CommitWrites DEF Accurate
<1>8. u0 \in settled => Primaries(u0) \subseteq W0
  BY <1>3, <1>4, <1>5, <1>6 DEF PrimaryInv, CoversPrimaries
<1>9. ASSUME NEW u, u # u0
      PROVE  Primaries(u)' = Primaries(u)
  BY <1>7, <1>9 DEF Primaries, Owned
<1>10. u0 \in settled => Primaries(u0)' = {id0}
  BY <1>7, <1>8 DEF Primaries, Owned
<1>11. OnePrimary'
  BY <1>3, <1>7, <1>9, <1>10 DEF PrimaryInv, OnePrimary
<1>12. ASSUME NEW v \in Workers, pc'[v] = "commit"
       PROVE  CoversPrimaries(v)'
  <2>1. v # w /\ pc[v] = "commit"
    BY <1>2, <1>4, <1>12 DEF Frame
  <2>2. CoversPrimaries(v)
    BY <1>3, <2>1 DEF PrimaryInv
  <2>3. PICK u : u = req[v].user
    OBVIOUS
  <2>4. ASSUME u \in settled, NoConflict(v), u = u0, req[v].op = "setPrimaryPortfolio"
        PROVE  tx[v].writes \intersect W0 # {}
    <3>1. PICK p \in Ids : Primaries(u) = {p}
      BY <1>3, <2>4 DEF PrimaryInv, OnePrimary
    <3>2. Primaries(u) \subseteq tx[v].writes
      BY <2>2, <2>3, <2>4 DEF CoversPrimaries
    <3> QED
      BY <1>8, <2>4, <3>1, <3>2
  <2>5. CASE req[v].op = "setPrimaryPortfolio"
    <3>1. u \in settled /\ NoConflict(v) => \/ Primaries(u)' \subseteq Primaries(u)
                                           \/ tx[v].writes \intersect tx[w].writes # {}
      BY <1>6, <1>9, <2>4, <2>5
    <3> QED
      BY <1>1, <1>2, <2>1, <2>2, <2>3, <3>1, OthersStillCover
  <2>6. CASE req[v].op # "setPrimaryPortfolio"
    BY <1>2, <2>1, <2>6 DEF Frame, CoversPrimaries
  <2> QED
    BY <2>5, <2>6
<1> QED
  BY <1>11, <1>12 DEF PrimaryInv

LEMMA PrimaryInvStep == PrimaryInv /\ [Next]_vars => PrimaryInv'
<1> SUFFICES ASSUME PrimaryInv, [Next]_vars
             PROVE  PrimaryInv'
  OBVIOUS
<1>1. OwnInv'
  BY OwnInvStep DEF PrimaryInv
<1>2. CASE "deletePortfolio" \in called'
  BY <1>1, <1>2 DEF PrimaryInv, OnePrimary
<1>3. CASE "deletePortfolio" \notin called' /\ Next
  BY <1>1, <1>3, StepsAre, ReadsKeepPrimaryInv, WriteKeepsPrimaryInv,
     InsertKeepsPrimaryInv, CommitKeepsPrimaryInv
<1>4. CASE UNCHANGED vars
  BY <1>1, <1>4 DEF vars, requests, PrimaryInv, OnePrimary, CoversPrimaries, NoConflict,
                    Primaries, Owned
<1> QED
  BY <1>2, <1>3, <1>4

(* For any number of requests that overlap: while nothing is deleted, a user who has a *)
(* primary portfolio has exactly one (PortfolioService.setPrimaryPortfolio, whose      *)
(* transaction writes the old primary and so excludes every other one).                *)
THEOREM OnePrimaryEach == Spec => []OnePrimary
<1>1. PrimaryInv => OnePrimary
  BY DEF PrimaryInv
<1> QED
  BY <1>1, PrimaryInvInit, PrimaryInvStep, PTL DEF Spec
=============================================================================

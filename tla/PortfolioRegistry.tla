--------------------------- MODULE PortfolioRegistry ---------------------------
(***************************************************************************)
(* The portfolios of all users: their names, descriptions, and which one   *)
(* is a user's primary portfolio (PortfolioService.createPortfolio,        *)
(* updatePortfolio, setPrimaryPortfolio, deletePortfolio), under           *)
(* concurrent requests.  As in PortfolioLedger a `$transaction` reads one  *)
(* snapshot and commits only if no document it writes changed since; a     *)
(* plain update waits for no one.                                          *)
(***************************************************************************)
EXTENDS Integers, FiniteSets

CONSTANTS
    Workers,        \* requests that may be in flight at the same time
    Users,
    Names,          \* names clients send
    Upper,          \* toLocaleUpperCase on them
    Texts,          \* descriptions clients send
    Unset,          \* an optional field that a request leaves out
    Ops,            \* the operations clients call
    MaxPortfolios,  \* bound: portfolios ever created
    MaxRequests     \* bound: requests started in a behaviour

VARIABLES
    docs,     \* the portfolio documents, by id
    issued,   \* ids 1 .. issued have been handed out
    started,  \* requests started so far (for the bound)
    called,   \* history: the operations they called
    settled,  \* history: the users who started with a primary portfolio
    pc,       \* what each worker does next
    req,      \* its request, and the copy of the portfolio it read
    tx,       \* the writes of its open transaction
    missed    \* documents others wrote since that transaction's snapshot

requests == <<started, called, settled>>
vars == <<docs, issued, requests, pc, req, tx, missed>>

Operations == {"createPortfolio", "updatePortfolio", "setPrimaryPortfolio",
               "deletePortfolio"}

ASSUME RegistryAssumption ==
    /\ Upper \in [Names -> Names]
    /\ Unset \notin Names \union Texts
    /\ Ops \subseteq Operations
    /\ IsFiniteSet(Users)
    /\ MaxPortfolios \in Nat
    /\ Cardinality(Users) <= MaxPortfolios
    /\ MaxRequests \in Nat

Ids == 1 .. MaxPortfolios

NoPortfolio == [live |-> FALSE, owner |-> Unset, name |-> Unset, description |-> Unset,
                primary |-> FALSE]
NoRequest == [op |-> "none", user |-> Unset, name |-> Unset, description |-> Unset,
              id |-> 0, seen |-> NoPortfolio]
NoTx == [writes |-> {}, after |-> [p \in Ids |-> NoPortfolio]]

Owned(user) == {p \in Ids : docs[p].live /\ docs[p].owner = user}
Primaries(user) == {p \in Owned(user) : docs[p].primary}

-----------------------------------------------------------------------------
\* Some users have a portfolio, their primary one; the others have none yet.
Init ==
    /\ settled \in SUBSET Users
    /\ issued = Cardinality(settled)
    /\ \E n \in Names, owner \in [1 .. issued -> settled] :
          /\ \A u \in settled : \E p \in 1 .. issued : owner[p] = u
          /\ docs = [p \in Ids |->
                       IF p <= issued
                       THEN [live |-> TRUE, owner |-> owner[p], name |-> Upper[n],
                             description |-> Unset, primary |-> TRUE]
                       ELSE NoPortfolio]
    /\ started = 0
    /\ called = {}
    /\ pc = [w \in Workers |-> "idle"]
    /\ req = [w \in Workers |-> NoRequest]
    /\ tx = [w \in Workers |-> NoTx]
    /\ missed = [w \in Workers |-> {}]

Goto(w, label) == pc' = [pc EXCEPT ![w] = label]

Admit(w, r, label) ==
    /\ pc[w] = "idle"
    /\ r.op \in Ops
    /\ started < MaxRequests
    /\ started' = started + 1
    /\ called' = called \union {r.op}
    /\ UNCHANGED settled
    /\ req' = [req EXCEPT ![w] = r]
    /\ Goto(w, label)
    /\ UNCHANGED <<docs, issued, tx, missed>>

StartCreate(w) ==
    \E u \in Users, n \in Names, t \in Texts \union {Unset} :
        Admit(w, [NoRequest EXCEPT !.op = "createPortfolio", !.user = u, !.name = n,
                                   !.description = t], "check")

\* validatePortfolioAccess has just found p among the user's portfolios; an update
\* keeps the copy it returned.
StartUpdate(w) ==
    \E u \in Users : \E p \in Owned(u) :
        \E n \in Names \union {Unset}, t \in Texts \union {Unset} :
            Admit(w, [op |-> "updatePortfolio", user |-> u, name |-> n,
                      description |-> t, id |-> p, seen |-> docs[p]], "write")

StartSetPrimary(w) ==
    \E u \in Users : \E p \in Owned(u) :
        Admit(w, [NoRequest EXCEPT !.op = "setPrimaryPortfolio", !.user = u, !.id = p],
              "begin")

StartDelete(w) ==
    \E u \in Users : \E p \in Owned(u) :
        Admit(w, [NoRequest EXCEPT !.op = "deletePortfolio", !.user = u, !.id = p],
              "begin")

Done(w) ==
    /\ Goto(w, "idle")
    /\ req' = [req EXCEPT ![w] = NoRequest]
    /\ tx' = [tx EXCEPT ![w] = NoTx]

\* Every other open transaction misses what was written just now.
Missed(w, written) ==
    missed' = [v \in Workers |->
                 IF v # w /\ pc[v] = "commit" THEN missed[v] \union written ELSE {}]

-----------------------------------------------------------------------------
\* portfolio.findFirst({name: dto.name}): the name as sent, of any user.
NameTaken(name) == \E p \in Ids : docs[p].live /\ docs[p].name = name

CheckName(w) ==
    /\ pc[w] = "check"
    /\ Goto(w, IF NameTaken(req[w].name) THEN "refused" ELSE "insert")
    /\ UNCHANGED <<docs, issued, requests, req, tx, missed>>

\* portfolio.create: the name is stored in upper case.
Insert(w) ==
    /\ pc[w] = "insert"
    /\ issued < MaxPortfolios
    /\ issued' = issued + 1
    /\ docs' = [docs EXCEPT ![issued + 1] =
                  [live |-> TRUE, owner |-> req[w].user, name |-> Upper[req[w].name],
                   description |-> req[w].description, primary |-> FALSE]]
    /\ Done(w)
    /\ UNCHANGED <<requests, missed>>

OrElse(value, default) == IF value = Unset THEN default ELSE value

\* MUTANT of Updated: the copy that was read is written back as a whole.
UpdatedSeen(r, p) ==
    [r.seen EXCEPT !.name = OrElse(r.name, @), !.description = OrElse(r.description, @)]

\* dto.name ?? portfolio.name: a field left out is written back as it was read.
Updated(r, p) ==
    [p EXCEPT !.name = OrElse(r.name, r.seen.name),
              !.description = OrElse(r.description, r.seen.description)]

\* portfolio.update; the new name is neither checked nor put in upper case.
Write(w) ==
    /\ pc[w] = "write"
    /\ docs[req[w].id].live
    /\ docs' = [docs EXCEPT ![req[w].id] = Updated(req[w], docs[req[w].id])]
    /\ Missed(w, {req[w].id})
    /\ Done(w)
    /\ UNCHANGED <<issued, requests>>

-----------------------------------------------------------------------------
\* MUTANT of Demoted: the updateMany forgets the user.
DemotedAll(user) == {p \in Ids : docs[p].live /\ docs[p].primary}

\* MUTANT of Demoted: the updateMany is forgotten.
DemotedNone(user) == {}

\* updateMany({userId, isPrimary: {not: false}}).
Demoted(user) == Primaries(user)

\* setPrimaryPortfolio: the user's primaries become FALSE, then the chosen one TRUE;
\* portfolio.update fails when it is gone.
BeginSetPrimary(w) ==
    /\ pc[w] = "begin"
    /\ req[w].op = "setPrimaryPortfolio"
    /\ docs[req[w].id].live
    /\ LET demoted == Demoted(req[w].user)
       IN  tx' = [tx EXCEPT ![w] =
                    [writes |-> demoted \union {req[w].id},
                     after |-> [p \in Ids |->
                                  [docs[p] EXCEPT !.primary =
                                     IF p = req[w].id THEN TRUE
                                     ELSE IF p \in demoted THEN FALSE ELSE @]]]]
    /\ missed' = [missed EXCEPT ![w] = {}]
    /\ Goto(w, "commit")
    /\ UNCHANGED <<docs, issued, requests, req>>

\* deletePortfolio; its Transactions and assets are PortfolioLedger's.
BeginDelete(w) ==
    /\ pc[w] = "begin"
    /\ req[w].op = "deletePortfolio"
    /\ docs[req[w].id].live
    /\ tx' = [tx EXCEPT ![w] = [writes |-> {req[w].id},
                                after |-> [docs EXCEPT ![req[w].id] = NoPortfolio]]]
    /\ missed' = [missed EXCEPT ![w] = {}]
    /\ Goto(w, "commit")
    /\ UNCHANGED <<docs, issued, requests, req>>

NoConflict(w) == tx[w].writes \intersect missed[w] = {}

Commit(w) ==
    /\ pc[w] = "commit"
    /\ NoConflict(w)
    /\ docs' = [p \in Ids |-> IF p \in tx[w].writes THEN tx[w].after[p] ELSE docs[p]]
    /\ Missed(w, tx[w].writes)
    /\ Done(w)
    /\ UNCHANGED <<issued, requests>>

\* Refused, aborted, timed out, or its process died.
Fail(w) ==
    /\ pc[w] # "idle"
    /\ Done(w)
    /\ missed' = [missed EXCEPT ![w] = {}]
    /\ UNCHANGED <<docs, issued, requests>>

Start(w) == StartCreate(w) \/ StartUpdate(w) \/ StartSetPrimary(w) \/ StartDelete(w)

Step(w) ==
    \/ CheckName(w) \/ Insert(w) \/ Write(w)
    \/ BeginSetPrimary(w) \/ BeginDelete(w) \/ Commit(w) \/ Fail(w)

Next == \E w \in Workers : Start(w) \/ Step(w)

Spec == Init /\ [][Next]_vars

-----------------------------------------------------------------------------
(* A user who has a primary portfolio has exactly one for as long as nothing is *)
(* deleted, however many setPrimaryPortfolio calls race: each of them writes the *)
(* old primary, so one that was overtaken aborts.                                *)
OnePrimary ==
    "deletePortfolio" \notin called =>
        \A u \in settled : \E p \in Ids : Primaries(u) = {p}

(* A portfolio that is kept stops being primary only when another portfolio of   *)
(* the same user is primary after the step: no rename, deletion or concurrent    *)
(* request takes the mark from a user, and no other user's does.                 *)
PrimaryHandedOver ==
    [][\A p \in Ids :
          /\ docs[p].live /\ docs[p].primary
          /\ docs'[p].live /\ ~docs'[p].primary
          => \E q \in Ids \ {p} : /\ docs'[q].live /\ docs'[q].primary
                                 /\ docs'[q].owner = docs[p].owner]_vars

(* A stored portfolio is changed only by the end of a request of its owner.      *)
OwnersOnly ==
    [][\A p \in Ids : docs[p].live /\ docs'[p] # docs[p] =>
          \E w \in Workers : /\ pc[w] # "idle" /\ pc'[w] = "idle"
                             /\ req[w].user = docs[p].owner]_vars
=============================================================================

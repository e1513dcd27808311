------------------------- MODULE PortfolioLedger_proofs -------------------------
(***************************************************************************)
(* Machine-checked proofs about PortfolioLedger, for any workers, symbols, *)
(* amounts, prices and bounds.                                             *)
(***************************************************************************)
EXTENDS MCPortfolioLedger, FiniteSetTheorems, TLAPS

-----------------------------------------------------------------------------
(* Sums.  The recursion in SumOf is unfolded once and for all: a function     *)
(* that satisfies its equation exists, so the one it chooses satisfies it.    *)

SumStep(v, f, S) ==
    IF S = {} THEN 0
    ELSE LET a == CHOOSE x \in S : TRUE IN v[a] + f[S \ {a}]

\* The subsets of AssetIds with at most n elements.
UpTo(n) == {S \in SUBSET AssetIds : Cardinality(S) <= n}

LEMMA LessThanWellFounded ==
    IsWellFoundedOn({p \in Nat \X Nat : p[1] < p[2]}, Nat)
  BY NatLessThanWellFounded DEF OpToRel

(* A non-empty set of naturals has a least element. *)
LEMMA LeastElement ==
    ASSUME NEW T \in SUBSET Nat, T # {}
    PROVE  \E n \in T : \A m \in T : ~(m < n)
  <1> DEFINE R == {p \in Nat \X Nat : p[1] < p[2]}
  <1>1. IsWellFoundedOn(R, Nat)
    BY LessThanWellFounded
  <1>2. \E n \in T : \A m \in T : ~(<<m, n>> \in R)
    <2> HIDE DEF R
    <2> QED BY <1>1, WFMin
  <1>3. \A m, n \in T : m < n => <<m, n>> \in R
    OBVIOUS
  <1> QED
    BY <1>2, <1>3

(* Induction over the naturals for a set of numbers. *)
LEMMA SetInduction ==
    ASSUME NEW G \in SUBSET Nat, 0 \in G,
           \A n \in Nat : n \in G => n + 1 \in G
    PROVE  G = Nat
  <1> SUFFICES ASSUME Nat \ G # {} PROVE FALSE
    OBVIOUS
  <1>1. PICK n \in Nat \ G : \A m \in Nat \ G : ~(m < n)
    BY LeastElement
  <1>2. n - 1 \in Nat /\ n - 1 \in G
    BY <1>1
  <1> QED
    BY <1>1, <1>2

(* Every set of asset ids is finite, with at most MaxAssets members. *)
LEMMA AssetSetsFinite ==
    \A S \in SUBSET AssetIds : IsFiniteSet(S) /\ Cardinality(S) \in 0 .. MaxAssets
  <1>1. IsFiniteSet(AssetIds) /\ Cardinality(AssetIds) = MaxAssets
    BY LedgerAssumption, FS_Interval DEF AssetIds
  <1>2. TAKE S \in SUBSET AssetIds
  <1>3. IsFiniteSet(S) /\ Cardinality(S) <= Cardinality(AssetIds)
    BY <1>1, FS_Subset
  <1>4. Cardinality(S) \in Nat
    BY <1>3, FS_CardinalityType
  <1> QED
    BY <1>1, <1>3, <1>4, LedgerAssumption

(* Removing the chosen member of a non-empty set makes it smaller. *)
LEMMA Smaller ==
    ASSUME NEW n \in Nat, NEW S \in UpTo(n + 1), S # {}
    PROVE  /\ (CHOOSE x \in S : TRUE) \in S
           /\ S \ {CHOOSE x \in S : TRUE} \in UpTo(n)
  <1> DEFINE a == CHOOSE x \in S : TRUE
  <1>1. a \in S
    OBVIOUS
  <1>2. S \in SUBSET AssetIds /\ Cardinality(S) <= n + 1
    BY DEF UpTo
  <1>3. IsFiniteSet(S) /\ Cardinality(S) \in Nat
    BY <1>2, AssetSetsFinite
  <1> HIDE DEF a
  <1>4. Cardinality(S \ {a}) = Cardinality(S) - 1
    BY <1>1, <1>3, FS_RemoveElement
  <1>5. S \ {a} \in UpTo(n)
    BY <1>2, <1>3, <1>4 DEF UpTo
  <1> QED
    BY <1>1, <1>5 DEF a

(* The equation of the recursion in SumOf has a solution, and it is a natural *)
(* number on every set of asset ids.                                          *)
LEMMA SumFcnExists ==
    ASSUME NEW v \in [AssetIds -> Nat]
    PROVE  \E f \in [SUBSET AssetIds -> Nat] :
              f = [S \in SUBSET AssetIds |-> SumStep(v, f, S)]
  <1> DEFINE Solves(f, n) == /\ f \in [UpTo(n) -> Nat]
                             /\ f = [S \in UpTo(n) |-> SumStep(v, f, S)]
             G == {n \in Nat : \E f : Solves(f, n)}
  <1>1. 0 \in G
    <2> DEFINE f == [S \in UpTo(0) |-> 0]
    <2>1. ASSUME NEW S \in UpTo(0) PROVE S = {}
      <3>1. S \in SUBSET AssetIds /\ Cardinality(S) <= 0
        BY DEF UpTo
      <3>2. IsFiniteSet(S) /\ Cardinality(S) = 0
        BY <3>1, AssetSetsFinite
      <3> QED BY <3>2, FS_EmptySet
    <2>2. \A S \in UpTo(0) : SumStep(v, f, S) = 0
      BY <2>1 DEF SumStep
    <2>3. f \in [UpTo(0) -> Nat]
      OBVIOUS
    <2>4. f = [S \in UpTo(0) |-> SumStep(v, f, S)]
      BY <2>2
    <2> QED BY <2>3, <2>4
  <1>2. ASSUME NEW n \in Nat, n \in G PROVE n + 1 \in G
    <2>1. PICK f : Solves(f, n)
      BY <1>2
    <2> DEFINE g == [S \in UpTo(n + 1) |-> SumStep(v, f, S)]
    <2>2. UpTo(n) \subseteq UpTo(n + 1)
      BY AssetSetsFinite DEF UpTo
    <2>3. \A S \in UpTo(n) : g[S] = f[S]
      BY <2>1, <2>2
    <2>4. ASSUME NEW S \in UpTo(n + 1)
          PROVE  SumStep(v, g, S) = SumStep(v, f, S) /\ SumStep(v, f, S) \in Nat
      <3>1. CASE S = {}
        BY <3>1 DEF SumStep
      <3>2. CASE S # {}
        <4> DEFINE a == CHOOSE x \in S : TRUE
        <4>1. a \in S /\ S \ {a} \in UpTo(n)
          BY <3>2, Smaller
        <4>2. a \in AssetIds
          BY <4>1 DEF UpTo
        <4> HIDE DEF a
        <4>3. g[S \ {a}] = f[S \ {a}] /\ f[S \ {a}] \in Nat /\ v[a] \in Nat
          BY <4>1, <4>2, <2>1, <2>3
        <4>4. \A h : SumStep(v, h, S) = v[a] + h[S \ {a}]
          BY <3>2 DEF SumStep, a
        <4> HIDE DEF g
        <4> QED BY <4>3, <4>4
      <3> QED BY <3>1, <3>2
    <2>5. g \in [UpTo(n + 1) -> Nat]
      BY <2>4
    <2>6. g = [S \in UpTo(n + 1) |-> SumStep(v, g, S)]
      <3> DEFINE h == [S \in UpTo(n + 1) |-> SumStep(v, g, S)]
      <3>1. \A S \in UpTo(n + 1) : g[S] = h[S]
        BY <2>4
      <3> QED BY <3>1
    <2> HIDE DEF g
    <2> QED BY <2>5, <2>6
  <1>3. G = Nat
    <2> HIDE DEF G
    <2>1. G \in SUBSET Nat
      BY DEF G
    <2> QED BY <1>1, <1>2, <2>1, SetInduction
  <1>4. PICK f : Solves(f, MaxAssets)
    BY <1>3, LedgerAssumption
  <1>5. UpTo(MaxAssets) = SUBSET AssetIds
    BY AssetSetsFinite DEF UpTo
  <1> QED
    BY <1>4, <1>5

(* What SumOf computes satisfies its equation. *)
LEMMA SumFcn ==
    ASSUME NEW v \in [AssetIds -> Nat]
    PROVE  \E f \in [SUBSET AssetIds -> Nat] :
              /\ f = [S \in SUBSET AssetIds |-> SumStep(v, f, S)]
              /\ SumOf(v) = f[AssetIds]
  <1> DEFINE Eq(f) == f = [S \in SUBSET AssetIds |->
                             IF S = {} THEN 0
                             ELSE LET a == CHOOSE x \in S : TRUE
                                  IN  v[a] + f[S \ {a}]]
             sum == CHOOSE f : Eq(f)
  <1>1. PICK g \in [SUBSET AssetIds -> Nat] :
            g = [S \in SUBSET AssetIds |-> SumStep(v, g, S)]
    BY SumFcnExists
  <1>2. Eq(g)
    BY <1>1 DEF SumStep
  <1>3. Eq(sum)
    <2> HIDE DEF Eq
    <2> QED BY <1>2
  <1>4. sum = [S \in SUBSET AssetIds |-> SumStep(v, sum, S)]
    BY <1>3 DEF SumStep
  <1>5. SumOf(v) = sum[AssetIds]
    BY DEF SumOf
  <1>6. sum \in [SUBSET AssetIds -> Nat]
    <2> HIDE DEF sum
    <2> DEFINE G == {n \in Nat : \A S \in UpTo(n) : sum[S] \in Nat}
    <2>1. 0 \in G
      <3>1. ASSUME NEW S \in UpTo(0) PROVE sum[S] \in Nat
        <4>1. S \in SUBSET AssetIds /\ Cardinality(S) <= 0
          BY DEF UpTo
        <4>2. IsFiniteSet(S) /\ Cardinality(S) = 0
          BY <4>1, AssetSetsFinite
        <4>3. S = {}
          BY <4>2, FS_EmptySet
        <4> QED BY <1>4, <4>1, <4>3 DEF SumStep
      <3> QED BY <3>1
    <2>2. ASSUME NEW n \in Nat, n \in G PROVE n + 1 \in G
      <3>1. ASSUME NEW S \in UpTo(n + 1) PROVE sum[S] \in Nat
        <4>0. S \in SUBSET AssetIds
          BY DEF UpTo
        <4>1. CASE S = {}
          BY <4>0, <4>1, <1>4 DEF SumStep
        <4>2. CASE S # {}
          <5> DEFINE a == CHOOSE x \in S : TRUE
          <5>1. a \in S /\ S \ {a} \in UpTo(n)
            BY <4>2, Smaller
          <5>2. a \in AssetIds
            BY <5>1, <4>0
          <5>3. sum[S] = v[a] + sum[S \ {a}]
            BY <1>4, <4>0, <4>2 DEF SumStep
          <5> HIDE DEF a
          <5> QED BY <5>1, <5>2, <5>3, <2>2
        <4> QED BY <4>1, <4>2
      <3> QED BY <3>1
    <2>3. G = Nat
      <3> HIDE DEF G
      <3>1. G \in SUBSET Nat
        BY DEF G
      <3> QED BY <2>1, <2>2, <3>1, SetInduction
    <2>4. UpTo(MaxAssets) = SUBSET AssetIds
      BY AssetSetsFinite DEF UpTo
    <2>5. \A S \in SUBSET AssetIds : sum[S] \in Nat
      BY <2>3, <2>4, LedgerAssumption
    <2> QED BY <1>4, <2>5
  <1> QED
    <2> HIDE DEF sum
    <2> QED BY <1>4, <1>5, <1>6

(* A sum of naturals is a natural. *)
LEMMA SumOfNat ==
    ASSUME NEW v \in [AssetIds -> Nat]
    PROVE  SumOf(v) \in Nat
  BY SumFcn

(* The sum of zeros is zero. *)
LEMMA SumOfZeros ==
    ASSUME NEW v \in [AssetIds -> Nat], \A a \in AssetIds : v[a] = 0
    PROVE  SumOf(v) = 0
  <1>1. PICK f \in [SUBSET AssetIds -> Nat] :
            /\ f = [S \in SUBSET AssetIds |-> SumStep(v, f, S)]
            /\ SumOf(v) = f[AssetIds]
    BY SumFcn
  <1> DEFINE G == {n \in Nat : \A S \in UpTo(n) : f[S] = 0}
  <1>2. 0 \in G
    <2>1. ASSUME NEW S \in UpTo(0) PROVE f[S] = 0
      <3>1. S \in SUBSET AssetIds /\ Cardinality(S) <= 0
        BY DEF UpTo
      <3>2. IsFiniteSet(S) /\ Cardinality(S) = 0
        BY <3>1, AssetSetsFinite
      <3>3. S = {}
        BY <3>2, FS_EmptySet
      <3> QED BY <1>1, <3>1, <3>3 DEF SumStep
    <2> QED BY <2>1
  <1>3. ASSUME NEW n \in Nat, n \in G PROVE n + 1 \in G
    <2>1. ASSUME NEW S \in UpTo(n + 1) PROVE f[S] = 0
      <3>0. S \in SUBSET AssetIds
        BY DEF UpTo
      <3>1. CASE S = {}
        BY <3>0, <3>1, <1>1 DEF SumStep
      <3>2. CASE S # {}
        <4> DEFINE a == CHOOSE x \in S : TRUE
        <4>1. a \in S /\ S \ {a} \in UpTo(n)
          BY <3>2, Smaller
        <4>2. a \in AssetIds
          BY <4>1, <3>0
        <4>3. f[S] = v[a] + f[S \ {a}]
          BY <1>1, <3>0, <3>2 DEF SumStep
        <4> HIDE DEF a
        <4> QED BY <4>1, <4>2, <4>3, <1>3
      <3> QED BY <3>1, <3>2
    <2> QED BY <2>1
  <1>4. G = Nat
    <2> HIDE DEF G
    <2>1. G \in SUBSET Nat
      BY DEF G
    <2> QED BY <1>2, <1>3, <2>1, SetInduction
  <1>5. AssetIds \in UpTo(MaxAssets)
    BY AssetSetsFinite DEF UpTo
  <1> QED
    BY <1>1, <1>4, <1>5, LedgerAssumption

-----------------------------------------------------------------------------
(* Types. *)

LEMMA NoAssetType == NoAsset \in AssetDoc
  BY DEF NoAsset, AssetDoc

LEMMA NoEntriesType == NoEntries \in Entries
  BY DEF NoEntries, NoEntry, Entries

LEMMA NoRequestType == NoRequest \in Request
  BY LedgerAssumption DEF NoRequest, Request, Operations, Credits, Debits, NoId

LEMMA NoTxType == NoTx \in PendingTx
  BY NoAssetType, NoEntriesType DEF NoTx, PendingTx

(* The total of well-typed documents is a natural, 0 when they are worth nothing. *)
LEMMA TotalNat ==
    ASSUME NEW d \in [AssetIds -> AssetDoc]
    PROVE  /\ Total(d) \in Nat
           /\ (\A a \in AssetIds : d[a].value = 0) => Total(d) = 0
  <1> DEFINE v == [a \in AssetIds |-> d[a].value]
  <1>1. v \in [AssetIds -> Nat]
    BY DEF AssetDoc
  <1>2. SumOf(v) \in Nat
    BY <1>1, SumOfNat
  <1>3. ASSUME \A a \in AssetIds : d[a].value = 0 PROVE SumOf(v) = 0
    <2>1. \A a \in AssetIds : v[a] = 0
      BY <1>3
    <2> QED BY <1>1, <2>1, SumOfZeros
  <1> QED
    BY <1>2, <1>3 DEF Total

(* The total depends on the stored values only. *)
LEMMA TotalOfValues ==
    ASSUME NEW d, NEW e, \A a \in AssetIds : d[a].value = e[a].value
    PROVE  Total(d) = Total(e)
  <1>1. [a \in AssetIds |-> d[a].value] = [a \in AssetIds |-> e[a].value]
    OBVIOUS
  <1> QED
    BY <1>1 DEF Total

LEMMA ShareNat ==
    ASSUME NEW value \in Nat, NEW total \in Nat
    PROVE  Share(value, total) \in Nat
  BY DEF Share

(* Recomputing the allocations changes nothing but allocations. *)
LEMMA RefreshedKeeps ==
    ASSUME NEW d \in [AssetIds -> AssetDoc]
    PROVE  /\ Refreshed(d) \in [AssetIds -> AssetDoc]
           /\ \A a \in AssetIds : /\ Refreshed(d)[a].live = d[a].live
                                 /\ Refreshed(d)[a].symbol = d[a].symbol
                                 /\ Refreshed(d)[a].quantity = d[a].quantity
                                 /\ Refreshed(d)[a].value = d[a].value
           /\ Total(Refreshed(d)) = Total(d)
  <1>1. ASSUME NEW a \in AssetIds
        PROVE  /\ Refreshed(d)[a] \in AssetDoc
               /\ Refreshed(d)[a].live = d[a].live
               /\ Refreshed(d)[a].symbol = d[a].symbol
               /\ Refreshed(d)[a].quantity = d[a].quantity
               /\ Refreshed(d)[a].value = d[a].value
    <2>1. Share(d[a].value, Total(d)) \in Nat
      BY TotalNat, ShareNat DEF AssetDoc
    <2> QED
      BY <2>1 DEF Refreshed, AssetDoc
  <1>2. Refreshed(d) \in [AssetIds -> AssetDoc]
    BY <1>1 DEF Refreshed
  <1>3. Total(Refreshed(d)) = Total(d)
    BY <1>1, TotalOfValues
  <1> QED
    BY <1>1, <1>2, <1>3

LEMMA MetricsWritesType ==
    \A d : MetricsWrites(d) \in SUBSET (0 .. MaxAssets) /\ PortfolioDoc \in MetricsWrites(d)
  BY LedgerAssumption DEF MetricsWrites, AssetIds, PortfolioDoc

LEMMA BookedType ==
    ASSUME NEW a, NEW n \in Int, NEW amount \in Int
    PROVE  Booked(a, n, amount) \in Entries
  BY NoEntriesType DEF Booked, Entries

LEMMA WithMetricsType ==
    ASSUME NEW d \in [AssetIds -> AssetDoc], NEW writes \in SUBSET (0 .. MaxAssets),
           NEW entry \in Entries
    PROVE  WithMetrics(d, writes, entry) \in PendingTx
  BY TotalNat, RefreshedKeeps, MetricsWritesType DEF WithMetrics, PendingTx

(* A sufficient balance keeps the new quantity a natural. *)
LEMMA NewQuantityNat ==
    ASSUME NEW q \in Nat, NEW n \in Nat, NEW t \in Credits \union Debits,
           Sufficient(t, q, n)
    PROVE  NewQuantity(q, n, t) \in Nat
  BY DEF Sufficient, NewQuantity, Credits, Debits

LEMMA BookingTxType ==
    ASSUME TypeOK, NEW r \in Request, Sufficient(r.type, r.quantity, r.amount)
    PROVE  BookingTx(r) \in PendingTx
  <1> DEFINE quantity == NewQuantity(r.quantity, r.amount, r.type)
             booked == [docs EXCEPT ![r.asset].quantity = quantity,
                                    ![r.asset].value = quantity * r.price]
  <1>1. quantity \in Nat
    BY NewQuantityNat DEF Request
  <1>2. quantity * r.price \in Nat
    BY <1>1 DEF Request
  <1>3. booked \in [AssetIds -> AssetDoc]
    <2> HIDE DEF quantity
    <2>1. docs \in [AssetIds -> AssetDoc]
      BY DEF TypeOK
    <2>2. CASE r.asset \in AssetIds
      BY <1>1, <1>2, <2>1, <2>2 DEF AssetDoc
    <2>3. CASE r.asset \notin AssetIds
      BY <2>1, <2>3
    <2> QED BY <2>2, <2>3
  <1>4. Signed(r.amount, r.type) \in Int
    BY DEF Signed, NewQuantity, Request
  <1>5. Booked(r.asset, 1, Signed(r.amount, r.type)) \in Entries
    BY <1>4, BookedType
  <1> HIDE DEF booked, quantity
  <1>6. WithMetrics(booked, {}, Booked(r.asset, 1, Signed(r.amount, r.type))) \in PendingTx
    BY <1>3, <1>5, WithMetricsType
  <1> QED
    BY <1>6 DEF BookingTx, booked, quantity

LEMMA AddAssetTxType ==
    ASSUME TypeOK, NEW r \in Request, NEW new \in AssetIds
    PROVE  AddAssetTx(r, new) \in PendingTx
  <1> DEFINE value == r.amount * r.price
             added == [docs EXCEPT ![new] =
                         [live |-> TRUE, symbol |-> r.symbol, quantity |-> r.amount,
                          value |-> value, allocation |-> 0]]
             share == Share(value, Total(added))
  <1>1. value \in Nat
    BY DEF Request
  <1>2. added \in [AssetIds -> AssetDoc]
    <2> HIDE DEF value
    <2> QED BY <1>1 DEF TypeOK, AssetDoc, Request
  <1>3. Total(added) \in Nat
    <2> HIDE DEF added
    <2> QED BY <1>2, TotalNat
  <1>4. share \in Nat
    BY <1>1, <1>3, ShareNat
  <1>5. [added EXCEPT ![new].allocation = share] \in [AssetIds -> AssetDoc]
    <2> HIDE DEF added, share
    <2> QED BY <1>2, <1>4 DEF AssetDoc
  <1>6. Booked(new, 0, r.amount) \in Entries
    BY BookedType DEF Request
  <1>7. {new, PortfolioDoc} \in SUBSET (0 .. MaxAssets)
    BY LedgerAssumption DEF AssetIds, PortfolioDoc
  <1> HIDE DEF added, share
  <1>8. [live |-> TRUE, total |-> Total(added),
         docs |-> [added EXCEPT ![new].allocation = share],
         writes |-> {new, PortfolioDoc}, entry |-> Booked(new, 0, r.amount)] \in PendingTx
    BY <1>3, <1>5, <1>6, <1>7 DEF PendingTx
  <1> QED
    BY <1>8 DEF AddAssetTx, added, share

LEMMA DeleteAssetTxType ==
    ASSUME TypeOK, NEW r \in Request, r.asset \in AssetIds
    PROVE  DeleteAssetTx(r) \in PendingTx
  <1> DEFINE left == [docs EXCEPT ![r.asset] = NoAsset]
             n == 0 - journal[r.asset].count
             m == 0 - journal[r.asset].net
  <1>1. left \in [AssetIds -> AssetDoc]
    BY NoAssetType DEF TypeOK
  <1>2. n \in Int /\ m \in Int
    BY DEF TypeOK, Entries
  <1>3. {r.asset} \in SUBSET (0 .. MaxAssets)
    BY DEF AssetIds
  <1> HIDE DEF left, n, m
  <1>4. WithMetrics(left, {r.asset}, Booked(r.asset, n, m)) \in PendingTx
    BY <1>1, <1>2, <1>3, BookedType, WithMetricsType
  <1> QED
    BY <1>4 DEF DeleteAssetTx, left, n, m

LEMMA DeletePortfolioTxType ==
    ASSUME TypeOK
    PROVE  DeletePortfolioTx \in PendingTx
  <1>1. [a \in AssetIds |-> NoAsset] \in [AssetIds -> AssetDoc]
    BY NoAssetType
  <1>2. [a \in AssetIds |-> [count |-> 0 - journal[a].count,
                            net |-> 0 - journal[a].net]] \in Entries
    BY DEF TypeOK, Entries
  <1> QED
    BY <1>1, <1>2, MetricsWritesType DEF DeletePortfolioTx, PendingTx

LEMMA RememberType ==
    ASSUME NEW f \in [Workers -> Request], NEW w \in Workers,
           NEW a \in 0 .. MaxAssets, NEW q \in Nat
    PROVE  [f EXCEPT ![w].asset = a, ![w].quantity = q] \in [Workers -> Request]
  BY ZenonT(30) DEF Request

LEMMA JournalUpdateType ==
    ASSUME NEW j \in Entries, NEW a, NEW x \in Int
    PROVE  [j EXCEPT ![a] = [count |-> @.count + 1, net |-> @.net + x]] \in Entries
  <1>1. CASE a \in AssetIds
    BY <1>1 DEF Entries
  <1>2. CASE a \notin AssetIds
    BY <1>2 DEF Entries
  <1> QED BY <1>1, <1>2

(* The quantity remembered for createTransaction and the pending writes keep   *)
(* their types along every step.                                               *)
LEMMA TypeStep ==
    ASSUME TypeOK, [Next]_vars
    PROVE  TypeOK'
  <1> USE LedgerAssumption
  <1>1. CASE UNCHANGED vars
    BY <1>1 DEF vars, TypeOK
  <1>2. ASSUME NEW w \in Workers, NEW r \in Request, NEW label \in Labels,
               Admit(w, r, label)
        PROVE  TypeOK'
    BY <1>2 DEF Admit, Goto, store, TypeOK
  <1>3. ASSUME NEW w \in Workers, Start(w)
        PROVE  TypeOK'
    <2>1. CASE StartCreateTransaction(w)
      <3>1. PICK t \in TxTypes, s \in Symbols, n \in Amounts, p \in Prices :
              Admit(w, [NoRequest EXCEPT !.op = "createTransaction", !.type = t,
                           !.symbol = s, !.amount = n, !.price = p], "lookup")
        BY <2>1 DEF StartCreateTransaction
      <3>2. [NoRequest EXCEPT !.op = "createTransaction", !.type = t,
               !.symbol = s, !.amount = n, !.price = p] \in Request
        BY NoRequestType DEF Request, Operations
      <3> QED BY <1>2, <3>1, <3>2 DEF Labels
    <2>2. CASE StartAddAsset(w)
      <3>1. PICK s \in Symbols, n \in Amounts, p \in Prices :
              Admit(w, [NoRequest EXCEPT !.op = "addAssetToPortfolio", !.symbol = s,
                           !.amount = n, !.price = p], "begin")
        BY <2>2 DEF StartAddAsset
      <3>2. [NoRequest EXCEPT !.op = "addAssetToPortfolio", !.symbol = s,
               !.amount = n, !.price = p] \in Request
        BY NoRequestType DEF Request, Operations
      <3> QED BY <1>2, <3>1, <3>2 DEF Labels
    <2>3. CASE StartDeleteAsset(w)
      <3>1. PICK a \in 1 .. issued :
              Admit(w, [NoRequest EXCEPT !.op = "deleteAsset", !.asset = a], "begin")
        BY <2>3 DEF StartDeleteAsset
      <3>2. [NoRequest EXCEPT !.op = "deleteAsset", !.asset = a] \in Request
        <4>1. a \in 0 .. MaxAssets
          BY DEF TypeOK
        <4> QED BY <4>1, NoRequestType DEF Request, Operations
      <3> QED BY <1>2, <3>1, <3>2 DEF Labels
    <2>4. CASE StartDeletePortfolio(w)
      <3>1. [NoRequest EXCEPT !.op = "deletePortfolio"] \in Request
        BY NoRequestType DEF Request, Operations
      <3> QED BY <1>2, <2>4, <3>1 DEF Labels, StartDeletePortfolio
    <2>5. CASE StartImport(w)
      <3>1. PICK n \in 1 .. MaxRows :
              Admit(w, [NoRequest EXCEPT !.op = "importTransactions", !.rows = n], "rows")
        BY <2>5 DEF StartImport
      <3>2. [NoRequest EXCEPT !.op = "importTransactions", !.rows = n] \in Request
        <4>1. n \in Nat
          OBVIOUS
        <4> QED BY <4>1, NoRequestType DEF Request, Operations
      <3> QED BY <1>2, <3>1, <3>2 DEF Labels
    <2> QED BY <1>3, <2>1, <2>2, <2>3, <2>4, <2>5 DEF Start
  <1>4. ASSUME NEW w \in Workers, Done(w), UNCHANGED store
        PROVE  TypeOK'
    BY <1>4, NoRequestType, NoTxType DEF Done, requests, Goto, store, TypeOK, Labels
  <1>5. ASSUME NEW w \in Workers, NEW body \in PendingTx, Open(w, body),
               issued' \in 0 .. MaxAssets
        PROVE  TypeOK'
    BY <1>5 DEF Open, requests, Goto, TypeOK, Labels
  <1>6. ASSUME NEW w \in Workers, LookupFound(w)
        PROVE  TypeOK'
    <2>1. PICK a \in Matching(req[w].symbol) :
             req' = [req EXCEPT ![w].asset = a, ![w].quantity = docs[a].quantity]
      BY <1>6 DEF LookupFound
    <2>2. a \in 0 .. MaxAssets /\ docs[a].quantity \in Nat
      BY DEF Matching, AssetIds, TypeOK, AssetDoc
    <2>3. req' \in [Workers -> Request]
      <3>1. req \in [Workers -> Request]
        BY DEF TypeOK
      <3> QED BY <2>1, <2>2, <3>1, RememberType
    <2>4. pc' \in [Workers -> Labels]
      BY <1>6 DEF LookupFound, Goto, TypeOK, Labels
    <2> QED BY <1>6, <2>3, <2>4 DEF LookupFound, requests, store, TypeOK
  <1>7. ASSUME NEW w \in Workers, LookupMissed(w)
        PROVE  TypeOK'
    BY <1>7 DEF LookupMissed, requests, Goto, store, TypeOK, Labels
  <1>8. ASSUME NEW w \in Workers, CreateZeroAsset(w)
        PROVE  TypeOK'
    <2>1. issued + 1 \in AssetIds /\ issued' \in 0 .. MaxAssets
      BY <1>8 DEF CreateZeroAsset, TypeOK, AssetIds
    <2>2. [NoAsset EXCEPT !.live = TRUE, !.symbol = req[w].symbol] \in AssetDoc
      BY DEF NoAsset, AssetDoc, TypeOK, Request
    <2>3. docs' \in [AssetIds -> AssetDoc]
      BY <1>8, <2>1, <2>2 DEF CreateZeroAsset, TypeOK
    <2>4. req' \in [Workers -> Request]
      <3>1. req \in [Workers -> Request] /\ issued + 1 \in 0 .. MaxAssets
        BY <2>1 DEF TypeOK, AssetIds
      <3>2. req' = [req EXCEPT ![w].asset = issued + 1, ![w].quantity = 0]
        BY <1>8 DEF CreateZeroAsset
      <3> QED BY <3>1, <3>2, RememberType
    <2>5. pc' \in [Workers -> Labels]
      BY <1>8 DEF CreateZeroAsset, Goto, TypeOK, Labels
    <2> QED BY <1>8, <2>1, <2>3, <2>4, <2>5 DEF CreateZeroAsset, requests, TypeOK
  <1>9. ASSUME NEW w \in Workers, NextRow(w)
        PROVE  TypeOK'
    <2>1. PICK t \in TxTypes, s \in Symbols, n \in Amounts \ {0} :
             req' = [req EXCEPT ![w].type = t, ![w].symbol = s, ![w].amount = n,
                                ![w].rows = req[w].rows - 1]
      BY <1>9 DEF NextRow
    <2>2. req[w].rows - 1 \in Nat
      BY <1>9 DEF NextRow, TypeOK, Request
    <2>3. req' \in [Workers -> Request]
      <3>1. req \in [Workers -> Request] /\ t \in Credits \union Debits /\ n \in Nat
        BY DEF TypeOK
      <3> QED BY <2>1, <2>2, <3>1 DEF Request
    <2> QED BY <1>9, <2>3 DEF NextRow, requests, Goto, store, TypeOK, Labels
  <1>10. ASSUME NEW w \in Workers, BookRow(w)
         PROVE  TypeOK'
    <2>1. Signed(req[w].amount, req[w].type) \in Int
      BY DEF Signed, NewQuantity, TypeOK, Request
    <2>2. journal' \in Entries
      <3> DEFINE a == req[w].asset
                 x == Signed(req[w].amount, req[w].type)
      <3>1. journal' = [journal EXCEPT ![a] = [count |-> @.count + 1, net |-> @.net + x]]
        BY <1>10 DEF BookRow
      <3>2. journal \in Entries
        BY DEF TypeOK
      <3>3. x \in Int
        BY <2>1
      <3> HIDE DEF a, x
      <3> QED BY <3>1, <3>2, <3>3, JournalUpdateType
    <2> QED BY <1>10, <2>2 DEF BookRow, requests, Goto, TypeOK, Labels
  <1>11. ASSUME NEW w \in Workers, RowFails(w)
         PROVE  TypeOK'
    BY <1>11 DEF RowFails, requests, Goto, store, TypeOK, Labels
  <1>12. ASSUME NEW w \in Workers, BeginBooking(w)
         PROVE  TypeOK'
    <2>1. BookingTx(req[w]) \in PendingTx
      BY <1>12, BookingTxType DEF BeginBooking, TypeOK
    <2> QED BY <1>12, <1>5, <2>1 DEF BeginBooking, TypeOK
  <1>13. ASSUME NEW w \in Workers, BeginAddAsset(w)
         PROVE  TypeOK'
    <2>1. issued + 1 \in AssetIds /\ issued' \in 0 .. MaxAssets
      BY <1>13 DEF BeginAddAsset, TypeOK, AssetIds
    <2>2. AddAssetTx(req[w], issued + 1) \in PendingTx
      BY <2>1, AddAssetTxType DEF TypeOK
    <2> QED BY <1>13, <1>5, <2>1, <2>2 DEF BeginAddAsset
  <1>14. ASSUME NEW w \in Workers, BeginDeleteAsset(w)
         PROVE  TypeOK'
    <2>1. DeleteAssetTx(req[w]) \in PendingTx
      BY <1>14, DeleteAssetTxType DEF BeginDeleteAsset, Exists, TypeOK
    <2> QED BY <1>14, <1>5, <2>1 DEF BeginDeleteAsset, TypeOK
  <1>15. ASSUME NEW w \in Workers, BeginDeletePortfolio(w)
         PROVE  TypeOK'
    <2> QED BY <1>15, <1>5, DeletePortfolioTxType DEF BeginDeletePortfolio, TypeOK
  <1>16. ASSUME NEW w \in Workers, Commit(w)
         PROVE  TypeOK'
    <2> DEFINE t == tx[w]
    <2>1. t \in PendingTx
      BY DEF TypeOK
    <2>2. docs' \in [AssetIds -> AssetDoc]
      BY <1>16, <2>1 DEF Commit, TypeOK, PendingTx
    <2>3. portfolio' \in [live : BOOLEAN, total : Nat]
      BY <1>16, <2>1 DEF Commit, TypeOK, PendingTx
    <2>4. journal' \in Entries
      BY <1>16, <2>1 DEF Commit, TypeOK, PendingTx, Entries
    <2>5. missed' \in [Workers -> SUBSET (0 .. MaxAssets)]
      BY <1>16, <2>1 DEF Commit, TypeOK, PendingTx
    <2> QED
      BY <1>16, <2>2, <2>3, <2>4, <2>5, NoRequestType, NoTxType
      DEF Commit, requests, Goto, TypeOK, Labels
  <1> QED
    BY <1>1, <1>3, <1>4, <1>6, <1>7, <1>8, <1>9, <1>10, <1>11, <1>12, <1>13, <1>14,
       <1>15, <1>16 DEF Next, Step, EndImport, Fail

LEMMA TypeInit == Init => TypeOK
  <1> SUFFICES ASSUME Init PROVE TypeOK
    OBVIOUS
  <1>1. docs \in [AssetIds -> AssetDoc] /\ journal \in Entries
    BY NoAssetType, NoEntriesType DEF Init
  <1>2. req \in [Workers -> Request] /\ tx \in [Workers -> PendingTx]
    BY NoRequestType, NoTxType DEF Init
  <1> QED
    BY <1>1, <1>2, LedgerAssumption DEF Init, TypeOK, Labels

(* Every variable keeps its type; in particular no stored quantity, value, total *)
(* or allocation is ever negative, in createTransaction's races too.             *)
THEOREM TypeCorrect == Spec => []TypeOK
  <1>1. TypeOK /\ [Next]_vars => TypeOK'
    BY TypeStep
  <1> QED
    BY TypeInit, <1>1, PTL DEF Spec

-----------------------------------------------------------------------------
(* The inductive invariant.  A pending transaction that nobody has overtaken on  *)
(* the portfolio document still describes the whole portfolio: the assets it     *)
(* will not write are worth what they were worth in its snapshot.                *)

NoImports == "importTransactions" \notin called
NoAdds == "addAssetToPortfolio" \notin called

\* A transaction body is consistent in itself: it writes the portfolio document with
\* the total of its own documents (and their shares of it); ids up to n exist.
Sound(t, n) ==
    /\ PortfolioDoc \in t.writes
    /\ t.writes \subseteq 0 .. n
    /\ t.live => t.total = Total(t.docs)
    /\ ~t.live => \A a \in AssetIds : t.docs[a] = NoAsset
    /\ \A a \in AssetIds : ~t.docs[a].live => t.docs[a] = NoAsset
    /\ NoAdds /\ t.live =>
          \A a \in AssetIds : t.docs[a].live =>
              t.docs[a].allocation = Share(t.docs[a].value, t.total)

\* The documents if it committed now, and whether an asset's Transactions would be gone.
After(t) == [a \in AssetIds |-> IF a \in t.writes THEN t.docs[a] ELSE docs[a]]
Clears(t, a) == /\ journal[a].count + t.entry[a].count = 0
                /\ journal[a].net + t.entry[a].net = 0

\* It agrees with the committed documents it does not write, and an asset that is gone
\* after it has no Transactions.
Current(t) ==
    /\ portfolio.live
    /\ \A a \in AssetIds \ t.writes : /\ t.docs[a].value = docs[a].value
                                     /\ t.docs[a].quantity = docs[a].quantity
    /\ NoAdds => \A a \in AssetIds \ t.writes : docs[a].value = 0 /\ docs[a].allocation = 0
    /\ NoImports /\ ~t.live =>
          \A a \in AssetIds : Clears(t, a)
    /\ NoImports => \A a \in AssetIds : ~After(t)[a].live => Clears(t, a)

RequestsOK ==
    \A w \in Workers :
        /\ pc[w] # "idle" => req[w].op \in called
        /\ pc[w] \in {"rows", "bookRow"} => req[w].op = "importTransactions"

Pending(w) == pc[w] = "commit" => /\ Sound(tx[w], issued)
                                  /\ PortfolioDoc \notin missed[w] => Current(tx[w])

IInv ==
    /\ TypeOK
    /\ RequestsOK
    /\ \A a \in AssetIds : ~docs[a].live \/ a > issued => docs[a] = NoAsset
    /\ \A w \in Workers : Pending(w)
    /\ TotalValueIsSum
    /\ OrphansAreEmpty
    /\ AllocationsFresh

LEMMA InvInit == Init => IInv
  <1> SUFFICES ASSUME Init PROVE IInv
    OBVIOUS
  <1>1. TypeOK
    BY TypeInit
  <1>2. \A a \in AssetIds : docs[a] = NoAsset
    BY DEF Init
  <1>3. Total(docs) = 0
    BY <1>1, <1>2, TotalNat DEF TypeOK, NoAsset
  <1>4. TotalValueIsSum
    BY <1>3 DEF Init, TotalValueIsSum
  <1>5. OrphansAreEmpty /\ AllocationsFresh
    BY <1>2 DEF Init, OrphansAreEmpty, AllocationsFresh, NoAsset, NoEntries
  <1>6. RequestsOK /\ \A w \in Workers : Pending(w)
    BY DEF Init, RequestsOK, Pending
  <1> QED
    BY <1>1, <1>2, <1>4, <1>5, <1>6 DEF IInv

LEMMA ShareOfNothing == \A t \in Nat : Share(0, t) = 0
  BY DEF Share

(* Steps that neither touch the store nor open, commit or drop a transaction. *)
LEMMA QuietStep ==
    ASSUME IInv, TypeOK', RequestsOK', UNCHANGED <<store, tx, missed>>, called \subseteq called',
           NEW w \in Workers, NEW label \in Labels \ {"commit"}, Goto(w, label)
    PROVE  IInv'
  <1>1. \A v \in Workers : pc'[v] = "commit" => pc[v] = "commit"
    BY DEF Goto, IInv, TypeOK
  <1>2. \A v \in Workers : Pending(v)'
    BY <1>1 DEF IInv, Pending, Sound, Current, After, Clears, store, NoAdds, NoImports
  <1> QED
    BY <1>2 DEF IInv, store, TotalValueIsSum, OrphansAreEmpty, AllocationsFresh

(* The end of a request that commits nothing. *)
LEMMA DoneStep ==
    ASSUME IInv, TypeOK', NEW w \in Workers, Done(w), UNCHANGED store
    PROVE  IInv'
  <1>1. \A v \in Workers : pc'[v] = "commit" =>
            pc[v] = "commit" /\ tx'[v] = tx[v] /\ missed'[v] = missed[v]
    BY DEF Done, Goto, IInv, TypeOK
  <1>2. RequestsOK'
    BY DEF Done, Goto, IInv, TypeOK, RequestsOK, requests
  <1>3. \A v \in Workers : Pending(v)'
    BY <1>1 DEF Done, requests, IInv, Pending, Sound, Current, After, Clears, store,
       NoAdds, NoImports
  <1> QED
    BY <1>2, <1>3 DEF Done, requests, IInv, store, TotalValueIsSum, OrphansAreEmpty,
       AllocationsFresh

(* Opening a transaction whose body is sound and current. *)
LEMMA OpenStep ==
    ASSUME IInv, TypeOK', NEW w \in Workers, NEW body, Open(w, body),
           issued' \in issued .. MaxAssets, pc[w] = "begin",
           Sound(body, issued'), Current(body)
    PROVE  IInv'
  <1>1. RequestsOK'
    BY DEF Open, Goto, IInv, TypeOK, RequestsOK, requests
  <1>2. ASSUME NEW v \in Workers PROVE Pending(v)'
    <2>1. CASE v = w
      <3>1. tx'[v] = body
        BY <2>1 DEF Open, IInv, TypeOK
      <3>2. Current(body)'
        BY DEF Open, Current, After, Clears, requests, NoAdds, NoImports
      <3>3. Sound(body, issued)'
        BY DEF Open, Sound, requests, NoAdds
      <3> QED
        BY <3>1, <3>2, <3>3 DEF Pending
    <2>2. CASE v # w
      <3>1. tx'[v] = tx[v] /\ missed'[v] = missed[v] /\ pc'[v] = pc[v]
        BY <2>2 DEF Open, Goto, IInv, TypeOK
      <3>2. Pending(v)
        BY DEF IInv
      <3>3. issued <= issued' /\ issued \in Nat
        BY DEF IInv, TypeOK
      <3>4. Sound(tx[v], issued) => Sound(tx[v], issued)'
        <4>1. tx[v].writes \subseteq 0 .. issued => tx[v].writes \subseteq 0 .. issued'
          BY <3>3
        <4> QED BY <4>1, <3>1 DEF Sound, Open, requests, NoAdds
      <3>5. Current(tx[v]) => Current(tx[v])'
        BY <3>1 DEF Open, Current, After, Clears, requests, NoAdds, NoImports
      <3> QED
        BY <3>1, <3>2, <3>4, <3>5 DEF Pending
    <2> QED BY <2>1, <2>2
  <1>3. \A a \in AssetIds : ~docs'[a].live \/ a > issued' => docs'[a] = NoAsset
    BY DEF Open, IInv, TypeOK, AssetIds
  <1> QED
    BY <1>1, <1>2, <1>3 DEF IInv, Open, requests, TotalValueIsSum, OrphansAreEmpty,
       AllocationsFresh

(* A body that ends in updatePortfolioMetrics is sound, and current if it keeps   *)
(* the documents it does not write.                                               *)
LEMMA WithMetricsSound ==
    ASSUME TypeOK, NEW d \in [AssetIds -> AssetDoc], NEW writes, NEW entry,
           writes \subseteq 1 .. issued, portfolio.live,
           \A a \in AssetIds : ~d[a].live \/ a > issued => d[a] = NoAsset,
           \A a \in AssetIds : ~docs[a].live \/ a > issued => docs[a] = NoAsset,
           \A a \in AssetIds : a \notin writes => d[a].live = docs[a].live,
           NoImports => \A a \in AssetIds : ~d[a].live =>
               /\ journal[a].count + entry[a].count = 0
               /\ journal[a].net + entry[a].net = 0
    PROVE  /\ Sound(WithMetrics(d, writes, entry), issued)
           /\ Current(WithMetrics(d, writes, entry))
  <1> DEFINE t == WithMetrics(d, writes, entry)
  <1>1. /\ t.live = TRUE
        /\ t.total = Total(d)
        /\ t.docs = Refreshed(d)
        /\ t.writes = writes \union MetricsWrites(d)
    BY DEF WithMetrics
  <1>2. \A a \in AssetIds : d[a].live => a \in 1 .. issued
    BY DEF AssetIds, NoAsset, TypeOK
  <1>3. t.writes \subseteq 0 .. issued /\ PortfolioDoc \in t.writes
    <2>1. MetricsWrites(d) \subseteq 1 .. issued \union {0} /\ 0 \in MetricsWrites(d)
      BY <1>2 DEF MetricsWrites, PortfolioDoc
    <2>2. 1 .. issued \union {0} \subseteq 0 .. issued
      BY DEF TypeOK
    <2> HIDE DEF t
    <2> QED BY <1>1, <2>1, <2>2 DEF PortfolioDoc
  <1>4. t.total = Total(t.docs)
    BY <1>1, RefreshedKeeps
  <1>5. \A a \in AssetIds : ~t.docs[a].live => t.docs[a] = NoAsset
    BY <1>1, RefreshedKeeps DEF Refreshed
  <1>6. \A a \in AssetIds : t.docs[a].live =>
            t.docs[a].allocation = Share(t.docs[a].value, t.total)
    <2>1. TAKE a \in AssetIds
    <2>2. HAVE t.docs[a].live
    <2>3. d[a].live /\ t.docs[a].value = d[a].value
      BY <1>1, <2>2, RefreshedKeeps
    <2>4. t.docs[a].allocation = Share(d[a].value, Total(d))
      BY <1>1, <2>3 DEF Refreshed, AssetDoc
    <2> QED BY <2>3, <2>4, <1>1
  <1>7. Sound(t, issued)
    <2> HIDE DEF t
    <2> QED BY <1>1, <1>3, <1>4, <1>5, <1>6 DEF Sound
  <1>8. ASSUME NEW a \in AssetIds \ t.writes
        PROVE  docs[a] = NoAsset /\ t.docs[a].value = 0 /\ t.docs[a].quantity = 0
    <2>1. ~d[a].live /\ a \notin writes
      BY <1>1 DEF MetricsWrites
    <2>2. ~docs[a].live
      BY <2>1
    <2>3. d[a] = NoAsset /\ docs[a] = NoAsset
      BY <2>1, <2>2
    <2> QED BY <1>1, <2>3, RefreshedKeeps DEF NoAsset
  <1>9. Current(t)
    <2>1. ASSUME NEW a \in AssetIds, ~After(t)[a].live PROVE ~d[a].live
      <3>1. CASE a \in t.writes
        BY <1>1, <2>1, <3>1, RefreshedKeeps DEF After
      <3>2. CASE a \notin t.writes
        BY <1>1, <3>2 DEF MetricsWrites
      <3> QED BY <3>1, <3>2
    <2>3. t.entry = entry
      BY DEF WithMetrics
    <2> HIDE DEF t
    <2>2. NoImports => \A a \in AssetIds : ~After(t)[a].live => Clears(t, a)
      BY <2>1, <2>3 DEF Clears
    <2> QED BY <1>1, <1>8, <2>2 DEF Current, NoAsset
  <1> QED BY <1>7, <1>9

LEMMA TwoFields ==
    ASSUME NEW d \in [AssetIds -> AssetDoc], NEW x \in AssetIds,
           NEW q \in Nat, NEW v \in Nat,
           NEW e, e = [d EXCEPT ![x].quantity = q, ![x].value = v]
    PROVE  /\ e \in [AssetIds -> AssetDoc]
           /\ \A a \in AssetIds : e[a].live = d[a].live
           /\ \A a \in AssetIds : a # x => e[a] = d[a]
  BY DEF AssetDoc

LEMMA BookingStep ==
    ASSUME IInv, TypeOK', NEW w \in Workers, BeginBooking(w)
    PROVE  IInv'
  <1> DEFINE r == req[w]
             quantity == NewQuantity(r.quantity, r.amount, r.type)
             booked == [docs EXCEPT ![r.asset].quantity = quantity,
                                    ![r.asset].value = quantity * r.price]
             entry == Booked(r.asset, 1, Signed(r.amount, r.type))
  <1>1. TypeOK /\ r \in Request /\ Sufficient(r.type, r.quantity, r.amount)
        /\ Exists(r.asset) /\ portfolio.live
    BY DEF BeginBooking, IInv, TypeOK
  <1>2. quantity \in Nat /\ quantity * r.price \in Nat
    <2>1. quantity \in Nat
      BY <1>1, NewQuantityNat DEF Request
    <2> QED BY <1>1, <2>1 DEF Request
  <1>3. /\ booked \in [AssetIds -> AssetDoc]
        /\ \A a \in AssetIds : booked[a].live = docs[a].live
        /\ \A a \in AssetIds : a # r.asset => booked[a] = docs[a]
    <2>1. docs \in [AssetIds -> AssetDoc] /\ r.asset \in AssetIds
      BY <1>1 DEF TypeOK, Exists
    <2>2. booked = [docs EXCEPT ![r.asset].quantity = quantity,
                                ![r.asset].value = quantity * r.price]
      OBVIOUS
    <2> DEFINE value == quantity * r.price
    <2>3. booked = [docs EXCEPT ![r.asset].quantity = quantity, ![r.asset].value = value]
      BY <2>2
    <2>4. value \in Nat
      BY <1>2
    <2> HIDE DEF quantity, r, booked, value
    <2> QED BY <1>2, <2>1, <2>3, <2>4, TwoFields
  <1>4. \A a \in AssetIds : ~docs[a].live \/ a > issued => docs[a] = NoAsset
    BY DEF IInv
  <1>5. \A a \in AssetIds : ~booked[a].live \/ a > issued => booked[a] = NoAsset
    <2> HIDE DEF booked, r
    <2>1. docs[r.asset].live /\ ~(r.asset > issued)
      BY <1>1, <1>4 DEF Exists, NoAsset
    <2> QED BY <2>1, <1>3, <1>4
  <1>6. Sound(WithMetrics(booked, {}, entry), issued) /\ Current(WithMetrics(booked, {}, entry))
    <2>1. ASSUME NoImports, NEW a \in AssetIds, ~booked[a].live
          PROVE  /\ journal[a].count + entry[a].count = 0
                 /\ journal[a].net + entry[a].net = 0
      <3>1. ~docs[a].live /\ a # r.asset
        BY <1>1, <1>3, <2>1 DEF Exists
      <3>2. journal[a] = NoEntry
        BY <2>1, <3>1 DEF IInv, OrphansAreEmpty, NoImports
      <3>3. entry[a] = NoEntry
        BY <3>1 DEF Booked, NoEntries
      <3> QED BY <3>2, <3>3 DEF NoEntry
    <2> HIDE DEF booked, entry, r
    <2> QED BY <1>1, <1>3, <1>4, <1>5, <2>1, WithMetricsSound
  <1>7. BookingTx(r) = WithMetrics(booked, {}, entry)
    BY DEF BookingTx
  <1>8. Sound(BookingTx(r), issued) /\ Current(BookingTx(r))
    BY <1>6, <1>7
  <1>9. Open(w, BookingTx(r)) /\ issued' = issued /\ pc[w] = "begin"
    BY DEF BeginBooking
  <1>10. issued' \in issued .. MaxAssets
    BY <1>1, <1>9 DEF TypeOK
  <1> QED
    BY <1>8, <1>9, <1>10, OpenStep

LEMMA AddAssetStep ==
    ASSUME IInv, TypeOK', NEW w \in Workers, BeginAddAsset(w)
    PROVE  IInv'
  <1> DEFINE r == req[w]
             new == issued + 1
             value == r.amount * r.price
             added == [docs EXCEPT ![new] =
                         [live |-> TRUE, symbol |-> r.symbol, quantity |-> r.amount,
                          value |-> value, allocation |-> 0]]
             share == Share(value, Total(added))
             final == [added EXCEPT ![new].allocation = share]
             body == AddAssetTx(r, new)
  <1>1. /\ TypeOK /\ r \in Request /\ portfolio.live /\ pc[w] = "begin"
        /\ r.op = "addAssetToPortfolio" /\ issued < MaxAssets /\ issued' = issued + 1
        /\ Open(w, body)
    BY DEF BeginAddAsset, IInv, TypeOK
  <1>2. new \in AssetIds /\ issued \in Nat
    BY <1>1 DEF TypeOK, AssetIds
  <1>3. r.op \in called
    BY <1>1 DEF IInv, RequestsOK
  <1>4. \A a \in AssetIds : ~docs[a].live \/ a > issued => docs[a] = NoAsset
    BY DEF IInv
  <1>5. value \in Nat
    BY <1>1 DEF Request
  <1>6. /\ added \in [AssetIds -> AssetDoc]
        /\ added[new].live /\ added[new].value = value
        /\ \A a \in AssetIds : a # new => added[a] = docs[a]
    <2>1. docs \in [AssetIds -> AssetDoc] /\ r.symbol \in Symbols \union {NoSymbol}
          /\ r.amount \in Nat
      BY <1>1 DEF TypeOK, Request
    <2> HIDE DEF value, new, r
    <2> QED BY <1>2, <1>5, <2>1 DEF AssetDoc
  <1>7. share \in Nat
    <2> HIDE DEF added
    <2> QED BY <1>5, <1>6, TotalNat, ShareNat
  <1>8. /\ final[new].live /\ final[new].value = value
        /\ \A a \in AssetIds : a # new => final[a] = docs[a]
    <2> HIDE DEF added, share, value, new
    <2> QED BY <1>2, <1>6, <1>7 DEF AssetDoc
  <1>9. Total(final) = Total(added)
    <2> HIDE DEF final, added
    <2>1. \A a \in AssetIds : final[a].value = added[a].value
      BY <1>6, <1>8
    <2> QED BY <2>1, TotalOfValues
  <1>10. /\ body.live = TRUE /\ body.total = Total(added) /\ body.docs = final
         /\ body.writes = {new, PortfolioDoc}
    BY DEF AddAssetTx
  <1>11. Sound(body, issued')
    <2>1. \A a \in AssetIds : ~final[a].live => final[a] = NoAsset
      <3> HIDE DEF final, new
      <3> QED BY <1>4, <1>8
    <2>2. PortfolioDoc \in {new, PortfolioDoc} /\ {new, PortfolioDoc} \subseteq 0 .. issued'
      BY <1>1, <1>2 DEF PortfolioDoc
    <2>3. ~NoAdds
      BY <1>1, <1>3 DEF NoAdds
    <2> HIDE DEF final, added, new, body
    <2> QED BY <1>9, <1>10, <2>1, <2>2, <2>3 DEF Sound
  <1>12. Current(body)
    <2>1. ~NoAdds
      BY <1>1, <1>3 DEF NoAdds
    <2>2. \A a \in AssetIds \ {new, PortfolioDoc} : final[a] = docs[a]
      BY <1>8
    <2>3. ASSUME NoImports, NEW a \in AssetIds, ~After(body)[a].live PROVE Clears(body, a)
      <3>1. a # new
        BY <1>8, <1>10, <2>3 DEF After
      <3>2. ~docs[a].live
        BY <1>8, <1>10, <2>3, <3>1 DEF After
      <3>3. journal[a] = NoEntry
        BY <2>3, <3>2 DEF IInv, OrphansAreEmpty, NoImports
      <3>4. body.entry[a] = NoEntry
        BY <3>1 DEF AddAssetTx, Booked, NoEntries
      <3> QED BY <3>3, <3>4 DEF Clears, NoEntry
    <2> HIDE DEF final, added, new, body
    <2> QED BY <1>1, <1>10, <2>1, <2>2, <2>3 DEF Current
  <1>13. issued' \in issued .. MaxAssets
    BY <1>1, <1>2 DEF AssetIds
  <1> HIDE DEF body
  <1> QED BY <1>1, <1>11, <1>12, <1>13, OpenStep

LEMMA DeleteAssetStep ==
    ASSUME IInv, TypeOK', NEW w \in Workers, BeginDeleteAsset(w)
    PROVE  IInv'
  <1> DEFINE r == req[w]
             left == [docs EXCEPT ![r.asset] = NoAsset]
             entry == Booked(r.asset, 0 - journal[r.asset].count, 0 - journal[r.asset].net)
             body == WithMetrics(left, {r.asset}, entry)
  <1>1. /\ TypeOK /\ r \in Request /\ portfolio.live /\ pc[w] = "begin"
        /\ Exists(r.asset) /\ issued' = issued /\ Open(w, DeleteAssetTx(r))
    BY DEF BeginDeleteAsset, IInv, TypeOK
  <1>2. \A a \in AssetIds : ~docs[a].live \/ a > issued => docs[a] = NoAsset
    BY DEF IInv
  <1>3. /\ left \in [AssetIds -> AssetDoc]
        /\ left[r.asset] = NoAsset
        /\ \A a \in AssetIds : a # r.asset => left[a] = docs[a]
    BY <1>1, NoAssetType DEF TypeOK, Exists
  <1>4. {r.asset} \subseteq 1 .. issued
    BY <1>1, <1>2 DEF Exists, NoAsset, TypeOK, AssetIds
  <1>5. Sound(body, issued) /\ Current(body)
    <2>1. \A a \in AssetIds : ~left[a].live \/ a > issued => left[a] = NoAsset
      <3> HIDE DEF left, r
      <3> QED BY <1>2, <1>3
    <2>2. \A a \in AssetIds : a \notin {r.asset} => left[a].live = docs[a].live
      <3> HIDE DEF left, r
      <3> QED BY <1>3
    <2>3. ASSUME NoImports, NEW a \in AssetIds, ~left[a].live
          PROVE  /\ journal[a].count + entry[a].count = 0
                 /\ journal[a].net + entry[a].net = 0
      <3>1. CASE a = r.asset
        <4> DEFINE c == journal[a].count
                   n == journal[a].net
        <4>1. c \in Int /\ n \in Int
          BY <1>1 DEF TypeOK, Entries
        <4>2. entry[a].count = 0 - c /\ entry[a].net = 0 - n
          BY <3>1 DEF Booked, NoEntries
        <4> HIDE DEF c, n
        <4>3. c + (0 - c) = 0 /\ n + (0 - n) = 0
          BY <4>1
        <4> QED BY <4>2, <4>3 DEF c, n
      <3>2. CASE a # r.asset
        <4>1. journal[a] = NoEntry
          BY <1>3, <2>3, <3>2 DEF IInv, OrphansAreEmpty, NoImports
        <4>2. entry[a] = NoEntry
          BY <3>2 DEF Booked, NoEntries
        <4> QED BY <4>1, <4>2 DEF NoEntry
      <3> QED BY <3>1, <3>2
    <2> HIDE DEF left, r, entry
    <2> QED BY <1>1, <1>2, <1>3, <1>4, <2>1, <2>2, <2>3, WithMetricsSound
  <1>6. DeleteAssetTx(r) = body
    BY DEF DeleteAssetTx
  <1>7. issued' \in issued .. MaxAssets
    BY <1>1 DEF TypeOK
  <1> HIDE DEF body
  <1> QED BY <1>1, <1>5, <1>6, <1>7, OpenStep

LEMMA DeletePortfolioStep ==
    ASSUME IInv, TypeOK', NEW w \in Workers, BeginDeletePortfolio(w)
    PROVE  IInv'
  <1> DEFINE body == DeletePortfolioTx
  <1>1. /\ TypeOK /\ portfolio.live /\ pc[w] = "begin" /\ issued' = issued
        /\ Open(w, body)
    BY DEF BeginDeletePortfolio, IInv
  <1>2. \A a \in AssetIds : ~docs[a].live \/ a > issued => docs[a] = NoAsset
    BY DEF IInv
  <1>3. /\ body.live = FALSE
        /\ \A a \in AssetIds : body.docs[a] = NoAsset
        /\ body.writes = MetricsWrites(docs)
        /\ \A a \in AssetIds : /\ body.entry[a].count = 0 - journal[a].count
                              /\ body.entry[a].net = 0 - journal[a].net
    BY DEF DeletePortfolioTx
  <1>4. PortfolioDoc \in body.writes /\ body.writes \subseteq 0 .. issued
    <2>1. \A a \in AssetIds : docs[a].live => a \in 1 .. issued
      BY <1>1, <1>2 DEF AssetIds, NoAsset, TypeOK
    <2> QED BY <1>1, <1>3, <2>1 DEF MetricsWrites, PortfolioDoc, TypeOK
  <1>5. \A a \in AssetIds \ body.writes : docs[a] = NoAsset
    BY <1>2, <1>3 DEF MetricsWrites
  <1>6. \A a \in AssetIds : journal[a].count \in Int /\ journal[a].net \in Int
    BY <1>1 DEF TypeOK, Entries
  <1>7. \A a \in AssetIds : /\ journal[a].count + body.entry[a].count = 0
                           /\ journal[a].net + body.entry[a].net = 0
    <2> HIDE DEF body
    <2>1. TAKE a \in AssetIds
    <2>2. /\ body.entry[a].count = 0 - journal[a].count
          /\ body.entry[a].net = 0 - journal[a].net
      BY <1>3
    <2>3. journal[a].count \in Int /\ journal[a].net \in Int
      BY <1>6
    <2> DEFINE c == journal[a].count
               n == journal[a].net
    <2>4. c + (0 - c) = 0 /\ n + (0 - n) = 0
      <3>1. c \in Int /\ n \in Int
        BY <2>3
      <3> HIDE DEF c, n
      <3> QED BY <3>1
    <2> QED BY <2>2, <2>4
  <1> HIDE DEF body
  <1>8. Sound(body, issued')
    BY <1>1, <1>3, <1>4 DEF Sound
  <1>9. Current(body)
    BY <1>1, <1>3, <1>5, <1>7 DEF Current, Clears, NoAsset
  <1>10. issued' \in issued .. MaxAssets
    BY <1>1 DEF TypeOK
  <1> QED BY <1>1, <1>8, <1>9, <1>10, OpenStep

(* getOrCreateAsset's empty asset changes no value, quantity or allocation. *)
LEMMA CreateZeroAssetStep ==
    ASSUME IInv, TypeOK', NEW w \in Workers, CreateZeroAsset(w)
    PROVE  IInv'
  <1> DEFINE new == issued + 1
             empty == [NoAsset EXCEPT !.live = TRUE, !.symbol = req[w].symbol]
  <1>1. /\ TypeOK /\ new \in AssetIds /\ issued \in Nat /\ issued' = new
        /\ docs' = [docs EXCEPT ![new] = empty]
        /\ UNCHANGED <<portfolio, journal, tx, missed, called>>
    BY DEF CreateZeroAsset, IInv, TypeOK, AssetIds, requests
  <1>2. \A a \in AssetIds : ~docs[a].live \/ a > issued => docs[a] = NoAsset
    BY DEF IInv
  <1>3. docs[new] = NoAsset
    BY <1>1, <1>2
  <1>4. /\ empty.live /\ empty.quantity = 0 /\ empty.value = 0 /\ empty.allocation = 0
    BY DEF NoAsset
  <1> HIDE DEF empty
  <1>5. /\ docs'[new] = empty
        /\ \A a \in AssetIds : a # new => docs'[a] = docs[a]
    BY <1>1 DEF TypeOK
  <1>6. \A a \in AssetIds : /\ docs'[a].quantity = docs[a].quantity
                           /\ docs'[a].value = docs[a].value
                           /\ docs'[a].allocation = docs[a].allocation
    BY <1>3, <1>4, <1>5 DEF NoAsset
  <1>7. RequestsOK'
    BY DEF CreateZeroAsset, Goto, IInv, TypeOK, RequestsOK, Request, requests
  <1>8. \A a \in AssetIds : ~docs'[a].live \/ a > issued' => docs'[a] = NoAsset
    BY <1>1, <1>2, <1>4, <1>5 DEF AssetIds
  <1>9. ASSUME NEW v \in Workers PROVE Pending(v)'
    <2>1. pc'[v] = "commit" => pc[v] = "commit"
      BY DEF CreateZeroAsset, Goto, IInv, TypeOK
    <2>2. Pending(v)
      BY DEF IInv
    <2>3. Sound(tx[v], issued) => Sound(tx[v], issued)'
      <3>1. tx[v].writes \subseteq 0 .. issued => tx[v].writes \subseteq 0 .. issued'
        BY <1>1
      <3> QED BY <3>1, <1>1 DEF Sound, NoAdds
    <2>4. Sound(tx[v], issued) /\ Current(tx[v]) => Current(tx[v])'
      <3>1. ASSUME NEW t, t.writes \subseteq 0 .. issued, NEW a \in AssetIds, ~After(t)'[a].live
            PROVE  ~After(t)[a].live
        BY <1>1, <1>3, <1>5, <3>1 DEF After, NoAsset
      <3>2. UNCHANGED journal
        BY <1>1
      <3> SUFFICES ASSUME Sound(tx[v], issued), Current(tx[v]) PROVE Current(tx[v])'
        OBVIOUS
      <3>3. \A a \in AssetIds : ~After(tx[v])'[a].live => ~After(tx[v])[a].live
        BY <1>1, <3>1 DEF Sound
      <3>4. \A a \in AssetIds : Clears(tx[v], a)' <=> Clears(tx[v], a)
        BY <1>1, <3>2 DEF Clears
      <3>5. NoImports' <=> NoImports
        BY <1>1 DEF NoImports
      <3>6. NoImports' => \A a \in AssetIds : ~After(tx[v])'[a].live => Clears(tx[v], a)'
        BY <3>3, <3>4, <3>5 DEF Current
      <3>7. NoImports' /\ ~tx[v].live => \A a \in AssetIds : Clears(tx[v], a)'
        BY <3>4, <3>5 DEF Current
      <3> QED BY <1>1, <1>6, <3>6, <3>7 DEF Current, NoAdds
    <2> QED BY <1>1, <2>1, <2>2, <2>3, <2>4 DEF Pending
  <1>10. TotalValueIsSum'
    <2>1. Total(docs') = Total(docs)
      BY <1>6, TotalOfValues
    <2>2. Total(docs)' = Total(docs')
      BY DEF Total, SumOf
    <2> QED BY <1>1, <2>1, <2>2 DEF IInv, TotalValueIsSum
  <1>11. OrphansAreEmpty'
    BY <1>1, <1>4, <1>5, <1>6 DEF IInv, OrphansAreEmpty
  <1>12. AllocationsFresh'
    <2> SUFFICES ASSUME NoAdds, portfolio.live, NEW a \in AssetIds, docs'[a].live
                 PROVE  docs'[a].allocation = Share(docs'[a].value, portfolio.total)
      BY <1>1 DEF AllocationsFresh, Share, NoAdds
    <2>1. CASE a = new
      BY <1>1, <1>4, <1>5, <2>1, ShareOfNothing DEF TypeOK
    <2>2. CASE a # new
      BY <1>5, <2>2 DEF IInv, AllocationsFresh, NoAdds
    <2> QED BY <2>1, <2>2
  <1> QED
    BY <1>7, <1>8, <1>9, <1>10, <1>11, <1>12 DEF IInv

(* A row of an import moves only the journal. *)
LEMMA BookRowStep ==
    ASSUME IInv, TypeOK', NEW w \in Workers, BookRow(w)
    PROVE  IInv'
  <1>1. ~NoImports
    BY DEF BookRow, IInv, RequestsOK, TypeOK, NoImports
  <1>2. \A v \in Workers : pc'[v] = "commit" => pc[v] = "commit"
    BY DEF BookRow, Goto, IInv, TypeOK
  <1>3. RequestsOK'
    BY DEF BookRow, Goto, IInv, TypeOK, RequestsOK, requests
  <1>4. UNCHANGED <<portfolio, docs, issued, tx, missed, called>>
    BY DEF BookRow, requests
  <1>5. \A v \in Workers : Pending(v)'
    BY <1>1, <1>2, <1>4 DEF IInv, Pending, Sound, Current, After, Clears, NoAdds, NoImports
  <1> QED
    BY <1>1, <1>3, <1>4, <1>5 DEF IInv, TotalValueIsSum, OrphansAreEmpty, AllocationsFresh,
       NoImports

(* A transaction that commits was current, and makes its documents the store. *)
LEMMA CommitStep ==
    ASSUME IInv, TypeOK', NEW w \in Workers, Commit(w)
    PROVE  IInv'
  <1> DEFINE t == tx[w]
  <1>1. Sound(t, issued) /\ Current(t)
    <2>1. Pending(w) /\ pc[w] = "commit" /\ NoConflict(w)
      BY DEF IInv, Commit
    <2>2. Sound(t, issued)
      BY <2>1 DEF Pending
    <2>3. PortfolioDoc \notin missed[w]
      BY <2>1, <2>2 DEF NoConflict, Sound
    <2> QED BY <2>1, <2>2, <2>3 DEF Pending
  <1>2. /\ TypeOK /\ t \in PendingTx /\ issued' = issued /\ issued \in 0 .. MaxAssets
        /\ docs' = [a \in AssetIds |-> IF a \in t.writes THEN t.docs[a] ELSE docs[a]]
        /\ portfolio' = [live |-> t.live, total |-> t.total]
        /\ journal' = [a \in AssetIds |-> [count |-> journal[a].count + t.entry[a].count,
                                           net |-> journal[a].net + t.entry[a].net]]
        /\ called' = called
    BY <1>1 DEF Commit, IInv, TypeOK, Sound, requests
  <1>3. \A v \in Workers : pc'[v] = "commit" =>
            /\ v # w /\ pc[v] = "commit" /\ tx'[v] = tx[v]
            /\ missed'[v] = missed[v] \union t.writes
    BY DEF Commit, Goto, IInv, TypeOK
  <1>4. RequestsOK'
    BY DEF Commit, Goto, IInv, TypeOK, RequestsOK, requests
  <1> HIDE DEF t
  <1>5. \A v \in Workers : Pending(v)'
    <2> SUFFICES ASSUME NEW v \in Workers, pc'[v] = "commit" PROVE Pending(v)'
      BY DEF Pending
    <2>1. PortfolioDoc \in missed'[v]
      BY <1>1, <1>3 DEF Sound
    <2>2. Sound(tx[v], issued)'
      <3>1. Sound(tx[v], issued)
        BY <1>3 DEF IInv, Pending
      <3> QED BY <1>2, <1>3, <3>1 DEF Sound, NoAdds
    <2> QED BY <2>1, <2>2 DEF Pending
  <1>6. \A a \in AssetIds : /\ docs'[a].value = t.docs[a].value
                           /\ docs'[a].quantity = t.docs[a].quantity
    BY <1>1, <1>2 DEF Current
  <1>7. TotalValueIsSum'
    <2>1. Total(docs') = Total(t.docs)
      BY <1>6, TotalOfValues
    <2>2. Total(docs)' = Total(docs')
      BY DEF Total, SumOf
    <2> QED BY <1>1, <1>2, <2>1, <2>2 DEF Sound, TotalValueIsSum
  <1>8. \A a \in AssetIds : ~docs'[a].live \/ a > issued' => docs'[a] = NoAsset
    <2> SUFFICES ASSUME NEW a \in AssetIds, ~docs'[a].live \/ a > issued
                 PROVE  docs'[a] = NoAsset
      BY <1>2
    <2>1. CASE a \in t.writes
      BY <1>1, <1>2, <2>1 DEF Sound, AssetIds
    <2>2. CASE a \notin t.writes
      BY <1>2, <2>2 DEF IInv
    <2> QED BY <2>1, <2>2
  <1>9. OrphansAreEmpty'
    <2> SUFFICES ASSUME NoImports, NEW a \in AssetIds
                 PROVE  /\ ~docs'[a].live => journal'[a] = NoEntry
                        /\ ~t.live => /\ docs'[a].quantity = 0 /\ docs'[a].value = 0
                                      /\ journal'[a] = NoEntry
      BY <1>2 DEF OrphansAreEmpty, NoImports
    <2>1. Clears(t, a) => journal'[a] = NoEntry
      BY <1>2 DEF Clears, NoEntry
    <2>2. ASSUME ~docs'[a].live PROVE journal'[a] = NoEntry
      <3>1. ~After(t)[a].live
        BY <1>2, <2>2 DEF After
      <3> QED BY <1>1, <2>1, <3>1 DEF Current
    <2>3. ASSUME ~t.live
          PROVE  docs'[a].quantity = 0 /\ docs'[a].value = 0 /\ journal'[a] = NoEntry
      <3>1. t.docs[a] = NoAsset
        BY <1>1, <2>3 DEF Sound
      <3>2. Clears(t, a)
        BY <1>1, <2>3 DEF Current
      <3> QED BY <1>6, <2>1, <3>1, <3>2 DEF NoAsset
    <2> QED BY <2>2, <2>3
  <1>10. AllocationsFresh'
    <2> SUFFICES ASSUME NoAdds, t.live, NEW a \in AssetIds, docs'[a].live
                 PROVE  docs'[a].allocation = Share(docs'[a].value, t.total)
      BY <1>2 DEF AllocationsFresh, Share, NoAdds
    <2>1. CASE a \in t.writes
      BY <1>1, <1>2, <2>1 DEF Sound
    <2>2. CASE a \notin t.writes
      BY <1>1, <1>2, <2>2, ShareOfNothing DEF Current, PendingTx
    <2> QED BY <2>1, <2>2
  <1> QED
    BY <1>4, <1>5, <1>7, <1>8, <1>9, <1>10 DEF IInv

LEMMA InvStep == IInv /\ [Next]_vars => IInv'
  <1> SUFFICES ASSUME IInv, [Next]_vars PROVE IInv'
    OBVIOUS
  <1>1. TypeOK /\ TypeOK'
    BY TypeStep DEF IInv
  <1>2. CASE UNCHANGED vars
    BY <1>1, <1>2 DEF vars, IInv, RequestsOK, Pending, Sound, Current, After, Clears, TotalValueIsSum,
       OrphansAreEmpty, AllocationsFresh, NoAdds, NoImports
  <1>3. ASSUME NEW w \in Workers, NEW r, NEW label \in {"lookup", "begin", "rows"},
               Admit(w, r, label), label = "rows" => r.op = "importTransactions"
        PROVE  IInv'
    <2>1. RequestsOK'
      BY <1>1, <1>3 DEF Admit, Goto, IInv, TypeOK, RequestsOK
    <2> QED BY <1>1, <1>3, <2>1, QuietStep DEF Admit, store, Labels
  <1>4. ASSUME NEW w \in Workers, Start(w) PROVE IInv'
    <2>1. CASE StartCreateTransaction(w)
      BY <1>3, <2>1 DEF StartCreateTransaction
    <2>2. CASE StartAddAsset(w)
      BY <1>3, <2>2 DEF StartAddAsset
    <2>3. CASE StartDeleteAsset(w)
      BY <1>3, <2>3 DEF StartDeleteAsset
    <2>4. CASE StartDeletePortfolio(w)
      BY <1>3, <2>4 DEF StartDeletePortfolio
    <2>5. CASE StartImport(w)
      <3>1. PICK n \in 1 .. MaxRows :
              Admit(w, [NoRequest EXCEPT !.op = "importTransactions", !.rows = n], "rows")
        BY <2>5 DEF StartImport
      <3>2. [NoRequest EXCEPT !.op = "importTransactions", !.rows = n].op
               = "importTransactions"
        BY DEF NoRequest
      <3> QED BY <1>3, <3>1, <3>2
    <2> QED BY <1>4, <2>1, <2>2, <2>3, <2>4, <2>5 DEF Start
  <1>5. ASSUME NEW w \in Workers, LookupFound(w) PROVE IInv'
    <2>1. RequestsOK'
      BY <1>1, <1>5 DEF LookupFound, requests, Goto, IInv, TypeOK, RequestsOK, Request
    <2> QED BY <1>1, <1>5, <2>1, QuietStep DEF LookupFound, requests, store, Labels
  <1>6. ASSUME NEW w \in Workers, LookupMissed(w) PROVE IInv'
    <2>1. RequestsOK'
      BY <1>1, <1>6 DEF LookupMissed, requests, Goto, IInv, TypeOK, RequestsOK
    <2> QED BY <1>1, <1>6, <2>1, QuietStep DEF LookupMissed, requests, store, Labels
  <1>7. ASSUME NEW w \in Workers, NextRow(w) PROVE IInv'
    <2>1. RequestsOK'
      BY <1>1, <1>7 DEF NextRow, requests, Goto, IInv, TypeOK, RequestsOK, Request
    <2> QED BY <1>1, <1>7, <2>1, QuietStep DEF NextRow, requests, store, Labels
  <1>8. ASSUME NEW w \in Workers, RowFails(w) PROVE IInv'
    <2>1. RequestsOK'
      BY <1>1, <1>8 DEF RowFails, requests, Goto, IInv, TypeOK, RequestsOK
    <2> QED BY <1>1, <1>8, <2>1, QuietStep DEF RowFails, requests, store, Labels
  <1>9. ASSUME NEW w \in Workers, EndImport(w) \/ Fail(w) PROVE IInv'
    BY <1>1, <1>9, DoneStep DEF EndImport, Fail
  <1> QED
    BY <1>1, <1>2, <1>4, <1>5, <1>6, <1>7, <1>8, <1>9, CreateZeroAssetStep, BookRowStep,
       BookingStep, AddAssetStep, DeleteAssetStep, DeletePortfolioStep, CommitStep
    DEF Next, Step

-----------------------------------------------------------------------------
(* In every committed state the portfolio's total is the sum of its assets'      *)
(* values, for any number of concurrent requests, imports included: every        *)
(* transaction of the services writes the portfolio document, so one that was    *)
(* overtaken since its snapshot aborts.                                          *)
THEOREM TotalIsSum == Spec => []TotalValueIsSum
  <1>1. IInv => TotalValueIsSum
    BY DEF IInv
  <1> QED BY InvInit, InvStep, <1>1, PTL DEF Spec

(* As long as nobody has imported, a Transaction is never left without its    *)
(* asset by a booking that deleteAsset or deletePortfolio meets, and what the    *)
(* latter leaves behind is empty.                                                *)
THEOREM OrphansEmpty == Spec => []OrphansAreEmpty
  <1>1. IInv => OrphansAreEmpty
    BY DEF IInv
  <1> QED BY InvInit, InvStep, <1>1, PTL DEF Spec

(* As long as nobody has called addAssetToPortfolio, every stored allocation is  *)
(* the asset's share of the stored total.                                        *)
THEOREM AllocationsAreShares == Spec => []AllocationsFresh
  <1>1. IInv => AllocationsFresh
    BY DEF IInv
  <1> QED BY InvInit, InvStep, <1>1, PTL DEF Spec
-----------------------------------------------------------------------------
(* Assets and Transactions that stay: AssetsUnique and JournalKept.  What an open *)
(* transaction will leave behind is known while nobody has overtaken it on the    *)
(* portfolio document, because only CreateZeroAsset writes an asset without it.   *)

NoBookings == "createTransaction" \notin called

OnePerSymbol(d) ==
    \A a, b \in AssetIds : d[a].live /\ d[b].live /\ d[a].symbol = d[b].symbol => a = b

\* Nobody has written the portfolio since the snapshot of w's transaction.
NotOvertaken(w) == pc[w] = "commit" /\ PortfolioDoc \notin missed[w]

\* It books on issued ids only; one that nobody has overtaken keeps the symbols
\* apart, and takes away Transactions only together with their asset.
Books(t, n) == \A a \in AssetIds : t.entry[a] # NoEntry => a \in 1 .. n
Removes(t) == \A a \in AssetIds : t.entry[a].count < 0 => ~After(t)[a].live

\* The id is in use or was: no transaction that can commit will create the asset.
Settled(a) ==
    /\ a \in 1 .. issued
    /\ \A w \in Workers :
          NotOvertaken(w) /\ a \in tx[w].writes /\ tx[w].docs[a].live => docs[a].live

LookupsOK ==
    \A w \in Workers :
        /\ pc[w] = "lookup" => req[w].op \in {"createTransaction", "importTransactions"}
        /\ pc[w] = "create" => req[w].op = "createTransaction"

KeepInv ==
    /\ IInv
    /\ LookupsOK
    /\ NoBookings => OnePerSymbol(docs)
    /\ \A a \in AssetIds : journal[a] # NoEntry => Settled(a)
    /\ \A w \in Workers : pc[w] = "bookRow" => Settled(req[w].asset)
    /\ \A w \in Workers : pc[w] = "commit" => Books(tx[w], issued)
    /\ \A w \in Workers : NotOvertaken(w) => /\ NoBookings => OnePerSymbol(After(tx[w]))
                                             /\ Removes(tx[w])

LEMMA KeepInit == Init => KeepInv
  <1> SUFFICES ASSUME Init PROVE KeepInv
    OBVIOUS
  <1>1. IInv
    BY InvInit
  <1>2. \A a \in AssetIds : ~docs[a].live /\ journal[a] = NoEntry
    BY DEF Init, NoAsset, NoEntries
  <1> QED
    BY <1>1, <1>2 DEF Init, KeepInv, LookupsOK, OnePerSymbol, NotOvertaken

\* A live asset is settled.
LEMMA LiveSettled ==
    ASSUME IInv, NEW a \in AssetIds, docs[a].live
    PROVE  Settled(a)
  BY DEF IInv, TypeOK, AssetIds, NoAsset, Settled

\* Steps that neither touch the store nor open, commit or drop a transaction.
LEMMA KeepQuiet ==
    ASSUME KeepInv, IInv', LookupsOK', UNCHANGED <<store, tx, missed>>, called \subseteq called',
           NEW w \in Workers, NEW label \in Labels \ {"commit"}, Goto(w, label),
           \A v \in Workers : pc'[v] = "bookRow" =>
               \/ pc[v] = "bookRow" /\ req'[v].asset = req[v].asset
               \/ req'[v].asset \in AssetIds /\ docs[req'[v].asset].live
    PROVE  KeepInv'
  <1>1. \A v \in Workers : pc'[v] = "commit" => pc[v] = "commit"
    BY DEF Goto, KeepInv, IInv, TypeOK
  <1>2. \A v \in Workers : NotOvertaken(v)' => NotOvertaken(v)
    BY <1>1 DEF NotOvertaken
  <1>3. \A a : Settled(a) => Settled(a)'
    BY <1>2 DEF Settled, store
  <1>4. \A a \in AssetIds : docs[a].live => Settled(a)
    BY LiveSettled DEF KeepInv
  <1>5. \A v \in Workers : pc'[v] = "bookRow" => Settled(req[v].asset)'
    <2> SUFFICES ASSUME NEW v \in Workers, pc'[v] = "bookRow"
                 PROVE  Settled(req[v].asset)'
      OBVIOUS
    <2>1. PICK a : a = req'[v].asset
      OBVIOUS
    <2>2. Settled(a)
      BY <1>4, <2>1 DEF KeepInv
    <2> QED
      BY <1>3, <2>1, <2>2 DEF Settled
  <1>6. NoBookings' => NoBookings
    BY DEF NoBookings
  <1>7. \A a \in AssetIds : (journal[a] # NoEntry)' => Settled(a)'
    BY <1>3 DEF KeepInv, store
  <1>8. \A v \in Workers : pc'[v] = "commit" => Books(tx[v], issued)'
    BY <1>1 DEF KeepInv, Books, store
  <1>9. \A v \in Workers : NotOvertaken(v)' => /\ NoBookings' => OnePerSymbol(After(tx[v]))'
                                              /\ Removes(tx[v])'
    BY <1>2, <1>6 DEF KeepInv, OnePerSymbol, After, Removes, store
  <1> QED
    BY <1>5, <1>6, <1>7, <1>8, <1>9 DEF KeepInv, OnePerSymbol, store
\* The end of a request that commits nothing.
LEMMA KeepDone ==
    ASSUME KeepInv, IInv', NEW w \in Workers, Done(w), UNCHANGED store
    PROVE  KeepInv'
  <1>1. \A v \in Workers : v # w => /\ pc'[v] = pc[v] /\ req'[v] = req[v]
                                    /\ tx'[v] = tx[v] /\ missed'[v] = missed[v]
    BY DEF Done, Goto, KeepInv, IInv, TypeOK
  <1>2. pc'[w] = "idle" /\ called' = called
    BY DEF Done, Goto, requests, KeepInv, IInv, TypeOK
  <1>3. \A v \in Workers : NotOvertaken(v)' => NotOvertaken(v) /\ v # w
    BY <1>1, <1>2 DEF NotOvertaken
  <1>4. \A a : Settled(a) => Settled(a)'
    BY <1>1, <1>3 DEF Settled, store
  <1>5. LookupsOK'
    BY <1>1, <1>2 DEF KeepInv, LookupsOK
  <1>6. \A v \in Workers : pc'[v] = "bookRow" => Settled(req[v].asset)'
    <2> SUFFICES ASSUME NEW v \in Workers, pc'[v] = "bookRow"
                 PROVE  Settled(req[v].asset)'
      OBVIOUS
    <2>1. PICK a : a = req[v].asset
      OBVIOUS
    <2>2. Settled(a) /\ a = req'[v].asset
      BY <1>1, <1>2, <2>1 DEF KeepInv
    <2> QED
      BY <1>4, <2>2 DEF Settled
  <1>7. \A a \in AssetIds : (journal[a] # NoEntry)' => Settled(a)'
    BY <1>4 DEF KeepInv, store
  <1>8. \A v \in Workers : pc'[v] = "commit" => Books(tx[v], issued)'
    BY <1>1, <1>2 DEF KeepInv, Books, store
  <1>9. \A v \in Workers : NotOvertaken(v)' => /\ NoBookings' => OnePerSymbol(After(tx[v]))'
                                              /\ Removes(tx[v])'
    BY <1>1, <1>2, <1>3 DEF KeepInv, OnePerSymbol, After, Removes, store, NoBookings
  <1> QED
    BY <1>2, <1>5, <1>6, <1>7, <1>8, <1>9 DEF KeepInv, OnePerSymbol, store, NoBookings

\* Opening a transaction.
LEMMA KeepOpen ==
    ASSUME KeepInv, IInv', NEW w \in Workers, NEW body, Open(w, body),
           issued' \in issued .. MaxAssets,
           Books(body, issued'), Removes(body), NoBookings => OnePerSymbol(After(body)),
           \A a \in 1 .. issued : a \in body.writes /\ body.docs[a].live => docs[a].live
    PROVE  KeepInv'
  <1>1. \A v \in Workers : v # w => /\ pc'[v] = pc[v] /\ tx'[v] = tx[v]
                                    /\ missed'[v] = missed[v]
    BY DEF Open, Goto, KeepInv, IInv, TypeOK
  <1>2. pc'[w] = "commit" /\ tx'[w] = body
    BY DEF Open, Goto, KeepInv, IInv, TypeOK
  <1>3. UNCHANGED <<docs, journal, req, called>> /\ issued \in Nat
    BY DEF Open, requests, KeepInv, IInv, TypeOK
  <1>4. \A v \in Workers : NotOvertaken(v)' => NotOvertaken(v) \/ v = w
    BY <1>1 DEF NotOvertaken
  <1>5. \A a \in 1 .. issued : a \in 1 .. issued'
    BY <1>3
  <1>6. ASSUME NEW a, Settled(a) PROVE Settled(a)'
    <2>1. a \in 1 .. issued
      BY <1>6 DEF Settled
    <2>2. ASSUME NEW v \in Workers, NotOvertaken(v)', a \in tx'[v].writes, tx'[v].docs[a].live
          PROVE  docs[a].live
      <3>1. CASE v = w
        BY <1>2, <2>1, <2>2, <3>1
      <3>2. CASE v # w
        BY <1>1, <1>4, <1>6, <2>2, <3>2 DEF Settled
      <3> QED BY <3>1, <3>2
    <2> QED
      BY <1>3, <1>5, <2>1, <2>2 DEF Settled
  <1>7. LookupsOK'
    BY <1>1, <1>2, <1>3 DEF KeepInv, LookupsOK
  <1>8. \A v \in Workers : pc'[v] = "bookRow" => Settled(req[v].asset)'
    <2> SUFFICES ASSUME NEW v \in Workers, pc'[v] = "bookRow"
                 PROVE  Settled(req[v].asset)'
      OBVIOUS
    <2>1. PICK a : a = req[v].asset
      OBVIOUS
    <2>2. Settled(a) /\ a = req'[v].asset
      BY <1>1, <1>2, <1>3, <2>1 DEF KeepInv
    <2> QED
      BY <1>6, <2>2 DEF Settled
  <1>9. \A a \in AssetIds : (journal[a] # NoEntry)' => Settled(a)'
    BY <1>3, <1>6 DEF KeepInv
  <1>10. ASSUME NEW v \in Workers, pc'[v] = "commit" PROVE Books(tx[v], issued)'
    <2>1. Books(tx'[v], issued')
      <3>1. CASE v = w
        BY <1>2, <3>1
      <3>2. CASE v # w
        BY <1>1, <1>5, <1>10, <3>2 DEF KeepInv, Books
      <3> QED BY <3>1, <3>2
    <2> QED BY <2>1 DEF Books
  <1>11. ASSUME NEW v \in Workers, NotOvertaken(v)'
         PROVE  /\ NoBookings' => OnePerSymbol(After(tx[v]))'
                /\ Removes(tx[v])'
    <2>1. /\ NoBookings => OnePerSymbol(After(tx'[v]))
          /\ Removes(tx'[v])
      <3>1. CASE v = w
        BY <1>2, <3>1
      <3>2. CASE v # w
        BY <1>1, <1>4, <1>11, <3>2 DEF KeepInv
      <3> QED BY <3>1, <3>2
    <2> QED
      BY <1>3, <2>1 DEF OnePerSymbol, After, Removes, NoBookings
  <1> QED
    BY <1>3, <1>7, <1>8, <1>9, <1>10, <1>11 DEF KeepInv, OnePerSymbol, NoBookings

\* getOrCreateAsset's asset has an id that nobody has used.
LEMMA KeepCreate ==
    ASSUME KeepInv, IInv', NEW w \in Workers, CreateZeroAsset(w)
    PROVE  KeepInv'
  <1> DEFINE new == issued + 1
  <1>1. /\ issued \in Nat /\ new \in AssetIds /\ issued' = new
        /\ docs'[new].live /\ docs' \in [AssetIds -> AssetDoc]
        /\ \A a \in AssetIds : a # new => docs'[a] = docs[a]
        /\ UNCHANGED <<journal, tx, missed, called>>
    BY DEF CreateZeroAsset, KeepInv, IInv, TypeOK, AssetIds, requests, NoAsset
  <1>2. ~NoBookings
    BY DEF CreateZeroAsset, KeepInv, LookupsOK, IInv, RequestsOK, NoBookings
  <1>3. \A v \in Workers : /\ pc'[v] \in {"bookRow", "commit"} => pc'[v] = pc[v] /\ v # w
                           /\ v # w => pc'[v] = pc[v] /\ req'[v] = req[v]
    BY DEF CreateZeroAsset, Goto, KeepInv, IInv, TypeOK
  <1>4. \A v \in Workers : NotOvertaken(v)' => NotOvertaken(v)
    BY <1>1, <1>3 DEF NotOvertaken
  <1>5. \A a \in 1 .. issued : a \in 1 .. issued' /\ a \in AssetIds /\ docs'[a] = docs[a]
    <2>1. TAKE a \in 1 .. issued
    <2>2. a \in AssetIds /\ a # new /\ a \in 1 .. issued'
      BY <1>1, LedgerAssumption DEF AssetIds
    <2> QED BY <1>1, <2>2
  <1> HIDE DEF new
  <1>6. \A a : Settled(a) => Settled(a)'
    BY <1>1, <1>4, <1>5 DEF Settled
  <1>7. LookupsOK'
    <2>1. pc'[w] = "begin"
      BY DEF CreateZeroAsset, Goto, KeepInv, IInv, TypeOK
    <2> QED BY <1>3, <2>1 DEF KeepInv, LookupsOK
  <1>8. \A v \in Workers : pc'[v] = "bookRow" => Settled(req[v].asset)'
    <2> SUFFICES ASSUME NEW v \in Workers, pc'[v] = "bookRow"
                 PROVE  Settled(req[v].asset)'
      OBVIOUS
    <2>1. PICK a : a = req[v].asset
      OBVIOUS
    <2>2. Settled(a) /\ a = req'[v].asset
      BY <1>3, <2>1 DEF KeepInv
    <2> QED
      BY <1>6, <2>2 DEF Settled
  <1>9. \A a \in AssetIds : (journal[a] # NoEntry)' => Settled(a)'
    BY <1>1, <1>6 DEF KeepInv
  <1>10. \A v \in Workers : pc'[v] = "commit" => Books(tx[v], issued)'
    BY <1>1, <1>3, <1>5 DEF KeepInv, Books
  <1>11. ASSUME NEW v \in Workers, NotOvertaken(v)' PROVE Removes(tx[v])'
    <2>1. Removes(tx[v]) /\ Books(tx[v], issued)
      BY <1>4, <1>11 DEF KeepInv, NotOvertaken
    <2>2. \A a \in AssetIds : tx[v].entry[a].count < 0 => a \in 1 .. issued
      BY <2>1 DEF Books, NoEntry
    <2> QED
      BY <1>1, <1>5, <2>1, <2>2 DEF Removes, After
  <1> QED
    BY <1>1, <1>2, <1>7, <1>8, <1>9, <1>10, <1>11 DEF KeepInv, NoBookings

\* An imported row is booked on an asset that exists, or did.
LEMMA KeepBookRow ==
    ASSUME KeepInv, IInv', NEW w \in Workers, BookRow(w)
    PROVE  KeepInv'
  <1>1. UNCHANGED <<docs, issued, tx, missed, called, req>>
    BY DEF BookRow, requests
  <1>2. \A v \in Workers : /\ pc'[v] \in {"bookRow", "commit", "lookup", "create"} => pc'[v] = pc[v]
    BY DEF BookRow, Goto, KeepInv, IInv, TypeOK
  <1>3. \A v \in Workers : NotOvertaken(v)' => NotOvertaken(v)
    BY <1>1, <1>2 DEF NotOvertaken
  <1>4. \A a : Settled(a) => Settled(a)'
    BY <1>1, <1>3 DEF Settled
  <1>5. ASSUME NEW a \in AssetIds, (journal[a] # NoEntry)' PROVE Settled(a)'
    <2>1. CASE a = req[w].asset
      BY <1>4, <2>1 DEF BookRow, KeepInv
    <2>2. CASE a # req[w].asset
      <3>1. journal'[a] = journal[a]
        BY <2>2 DEF BookRow, KeepInv, IInv, TypeOK, Entries
      <3> QED BY <1>4, <1>5, <3>1 DEF KeepInv
    <2> QED BY <2>1, <2>2
  <1>6. \A v \in Workers : pc'[v] = "bookRow" => Settled(req[v].asset)'
    <2> SUFFICES ASSUME NEW v \in Workers, pc'[v] = "bookRow"
                 PROVE  Settled(req[v].asset)'
      OBVIOUS
    <2>1. PICK a : a = req[v].asset
      OBVIOUS
    <2>2. Settled(a) /\ a = req'[v].asset
      BY <1>1, <1>2, <2>1 DEF KeepInv
    <2> QED
      BY <1>4, <2>2 DEF Settled
  <1>7. \A v \in Workers : NotOvertaken(v)' => /\ NoBookings' => OnePerSymbol(After(tx[v]))'
                                              /\ Removes(tx[v])'
    BY <1>1, <1>3 DEF KeepInv, OnePerSymbol, After, Removes, NoBookings
  <1> QED
    BY <1>1, <1>2, <1>5, <1>6, <1>7 DEF KeepInv, LookupsOK, OnePerSymbol, NoBookings, Books

\* What the bodies promise when they are opened.
LEMMA KeepBooking ==
    ASSUME KeepInv, IInv', NEW w \in Workers, BeginBooking(w)
    PROVE  KeepInv'
  <1> DEFINE r == req[w]
             body == BookingTx(r)
             booked == [docs EXCEPT ![r.asset].quantity = NewQuantity(r.quantity, r.amount, r.type),
                                    ![r.asset].value =
                                        NewQuantity(r.quantity, r.amount, r.type) * r.price]
  <1>1. /\ IInv /\ TypeOK /\ r.op = "createTransaction" /\ pc[w] = "begin"
        /\ Exists(r.asset) /\ Open(w, body) /\ issued' = issued
    BY DEF BeginBooking, KeepInv, IInv
  <1>2. ~NoBookings
    BY <1>1 DEF IInv, RequestsOK, NoBookings
  <1>3. /\ body.entry = Booked(r.asset, 1, Signed(r.amount, r.type))
        /\ body.docs = Refreshed(booked)
    BY DEF BookingTx, WithMetrics
  <1>4. r.asset \in 1 .. issued /\ r.asset \in AssetIds
    BY <1>1, LiveSettled DEF Exists, Settled
  <1>5. \A a \in AssetIds : body.entry[a] # NoEntry => a = r.asset
    BY <1>3 DEF Booked, NoEntries
  <1>6. \A a \in AssetIds : ~(body.entry[a].count < 0)
    BY <1>3 DEF Booked, NoEntries, NoEntry
  <1>7. \A a \in AssetIds : body.docs[a].live = docs[a].live
    <2>1. \A a \in AssetIds : booked[a].live = docs[a].live
      BY <1>1 DEF TypeOK, AssetDoc
    <2> HIDE DEF booked
    <2>2. \A a \in AssetIds : Refreshed(booked)[a].live = booked[a].live
      BY DEF Refreshed
    <2> QED BY <1>3, <2>1, <2>2
  <1> HIDE DEF body, r
  <1>8. \A a \in 1 .. issued : body.docs[a].live => docs[a].live
    BY <1>1, <1>7, LedgerAssumption DEF TypeOK, AssetIds
  <1>9. Books(body, issued')
    BY <1>1, <1>4, <1>5 DEF Books
  <1>10. Removes(body)
    BY <1>6 DEF Removes
  <1>11. issued' \in issued .. MaxAssets
    BY <1>1 DEF TypeOK
  <1> QED
    BY <1>1, <1>2, <1>8, <1>9, <1>10, <1>11, KeepOpen

\* Its snapshot has no asset of the symbol that it adds.
LEMMA KeepAddAsset ==
    ASSUME KeepInv, IInv', NEW w \in Workers, BeginAddAsset(w)
    PROVE  KeepInv'
  <1> DEFINE r == req[w]
             new == issued + 1
             body == AddAssetTx(r, new)
             asset == [live |-> TRUE, symbol |-> r.symbol, quantity |-> r.amount,
                       value |-> r.amount * r.price, allocation |-> 0]
             added == [docs EXCEPT ![new] = asset]
             final == [added EXCEPT ![new].allocation =
                          Share(r.amount * r.price, Total(added))]
  <1>1. /\ IInv /\ TypeOK /\ pc[w] = "begin" /\ Matching(r.symbol) = {}
        /\ Open(w, body) /\ issued \in Nat /\ issued' = new /\ new \in AssetIds
    BY DEF BeginAddAsset, KeepInv, IInv, TypeOK, AssetIds
  <1>2. /\ body.entry = Booked(new, 0, r.amount)
        /\ body.writes = {new, PortfolioDoc}
        /\ body.docs = final
    BY DEF AddAssetTx
  <1>3. \A a \in AssetIds : a # new => added[a] = docs[a]
    BY <1>1 DEF TypeOK
  <1>4. added[new].symbol = r.symbol
    BY <1>1 DEF TypeOK
  <1>5. DOMAIN added = AssetIds
    BY <1>1 DEF TypeOK
  <1> HIDE DEF added
  <1>6. /\ \A a \in AssetIds : a # new => final[a] = docs[a]
        /\ final[new].symbol = r.symbol
    <2>1. \A a \in AssetIds : a # new => final[a] = added[a]
      BY <1>1, <1>5
    <2>2. final[new].symbol = added[new].symbol
      BY <1>1, <1>5
    <2> QED BY <1>3, <1>4, <2>1, <2>2
  <1>7. \A a \in AssetIds : body.entry[a] # NoEntry => a = new
    BY <1>2 DEF Booked, NoEntries
  <1>8. \A a \in AssetIds : ~(body.entry[a].count < 0)
    BY <1>2 DEF Booked, NoEntries, NoEntry
  <1> HIDE DEF body, final
  <1>9. \A a \in 1 .. issued : a \notin body.writes
    BY <1>1, <1>2 DEF PortfolioDoc
  <1>10. Books(body, issued')
    BY <1>1, <1>7 DEF Books
  <1>11. Removes(body)
    BY <1>8 DEF Removes
  <1>12. NoBookings => OnePerSymbol(After(body))
    <2> SUFFICES ASSUME NoBookings, NEW a \in AssetIds, NEW b \in AssetIds,
                        After(body)[a].live, After(body)[b].live,
                        After(body)[a].symbol = After(body)[b].symbol
                 PROVE  a = b
      BY DEF OnePerSymbol
    <2>1. \A x \in AssetIds : x # new => After(body)[x] = docs[x]
      BY <1>2, <1>6 DEF After
    <2>2. After(body)[new].symbol = r.symbol
      BY <1>1, <1>2, <1>6 DEF After
    <2>3. \A x \in AssetIds : docs[x].live => docs[x].symbol # r.symbol
      BY <1>1 DEF Matching
    <2>4. OnePerSymbol(docs)
      BY DEF KeepInv
    <2> QED
      BY <2>1, <2>2, <2>3, <2>4 DEF OnePerSymbol
  <1>13. issued' \in issued .. MaxAssets
    BY <1>1 DEF AssetIds
  <1> QED
    BY <1>1, <1>9, <1>10, <1>11, <1>12, <1>13, KeepOpen

\* A body that keeps or clears the assets of its snapshot.
LEMMA KeepsApart ==
    ASSUME KeepInv, NEW t,
           \A a \in AssetIds : After(t)[a].live =>
               docs[a].live /\ After(t)[a].symbol = docs[a].symbol
    PROVE  NoBookings => OnePerSymbol(After(t))
  BY DEF KeepInv, OnePerSymbol

LEMMA KeepDeleteAsset ==
    ASSUME KeepInv, IInv', NEW w \in Workers, BeginDeleteAsset(w)
    PROVE  KeepInv'
  <1> DEFINE r == req[w]
             left == [docs EXCEPT ![r.asset] = NoAsset]
             body == DeleteAssetTx(r)
  <1>1. /\ IInv /\ TypeOK /\ pc[w] = "begin" /\ Exists(r.asset)
        /\ Open(w, body) /\ issued' = issued
    BY DEF BeginDeleteAsset, KeepInv, IInv
  <1>2. /\ body.entry = Booked(r.asset, 0 - journal[r.asset].count, 0 - journal[r.asset].net)
        /\ body.writes = {r.asset} \union MetricsWrites(left)
        /\ body.docs = Refreshed(left)
    BY DEF DeleteAssetTx, WithMetrics
  <1>3. r.asset \in 1 .. issued /\ r.asset \in AssetIds
    BY <1>1, LiveSettled DEF Exists, Settled
  <1>4. left \in [AssetIds -> AssetDoc] /\ ~left[r.asset].live
        /\ \A a \in AssetIds : a # r.asset => left[a] = docs[a]
    BY <1>1, <1>3, NoAssetType DEF TypeOK, NoAsset
  <1> HIDE DEF left
  <1>5. \A a \in AssetIds : /\ body.docs[a].live => docs[a].live
                            /\ body.docs[a].symbol = docs[a].symbol \/ ~body.docs[a].live
    BY <1>2, <1>3, <1>4, RefreshedKeeps
  <1>12. ~body.docs[r.asset].live
    BY <1>2, <1>3, <1>4, RefreshedKeeps
  <1>6. \A a \in AssetIds : body.entry[a] # NoEntry => a = r.asset
    BY <1>2 DEF Booked, NoEntries
  <1> HIDE DEF body, r
  <1>7. \A a \in 1 .. issued : body.docs[a].live => docs[a].live
    BY <1>1, <1>5, LedgerAssumption DEF TypeOK, AssetIds
  <1>8. Books(body, issued')
    BY <1>1, <1>3, <1>6 DEF Books
  <1>9. Removes(body)
    <2>1. \A a \in AssetIds : body.entry[a].count < 0 => a = r.asset
      BY <1>6 DEF NoEntry
    <2> QED
      BY <1>2, <1>3, <1>12, <2>1 DEF Removes, After
  <1>10. NoBookings => OnePerSymbol(After(body))
    <2>1. \A a \in AssetIds : After(body)[a].live =>
              docs[a].live /\ After(body)[a].symbol = docs[a].symbol
      BY <1>5 DEF After
    <2> QED BY <2>1, KeepsApart
  <1>11. issued' \in issued .. MaxAssets
    BY <1>1 DEF TypeOK
  <1> QED
    BY <1>1, <1>7, <1>8, <1>9, <1>10, <1>11, KeepOpen

LEMMA KeepDeletePortfolio ==
    ASSUME KeepInv, IInv', NEW w \in Workers, BeginDeletePortfolio(w)
    PROVE  KeepInv'
  <1> DEFINE body == DeletePortfolioTx
  <1>1. /\ IInv /\ TypeOK /\ pc[w] = "begin" /\ Open(w, body) /\ issued' = issued
    BY DEF BeginDeletePortfolio, KeepInv, IInv
  <1>2. /\ \A a \in AssetIds : ~body.docs[a].live
        /\ body.writes = MetricsWrites(docs)
        /\ \A a \in AssetIds : body.entry[a] = [count |-> 0 - journal[a].count,
                                               net |-> 0 - journal[a].net]
    BY DEF DeletePortfolioTx, NoAsset
  <1> HIDE DEF body
  <1>3. \A a \in AssetIds : ~After(body)[a].live
    BY <1>2 DEF After, MetricsWrites
  <1>4. \A a \in AssetIds : body.entry[a] # NoEntry => a \in 1 .. issued
    <2> SUFFICES ASSUME NEW a \in AssetIds, body.entry[a] # NoEntry PROVE a \in 1 .. issued
      OBVIOUS
    <2>1. journal[a] # NoEntry
      BY <1>2 DEF NoEntry
    <2> QED
      BY <2>1 DEF KeepInv, Settled
  <1>5. Books(body, issued')
    BY <1>1, <1>4 DEF Books
  <1>6. Removes(body)
    BY <1>3 DEF Removes
  <1>7. NoBookings => OnePerSymbol(After(body))
    BY <1>3, KeepsApart
  <1>8. \A a \in 1 .. issued : ~body.docs[a].live
    BY <1>1, <1>2, LedgerAssumption DEF TypeOK, AssetIds
  <1>9. issued' \in issued .. MaxAssets
    BY <1>1 DEF TypeOK
  <1> QED
    BY <1>1, <1>5, <1>6, <1>7, <1>8, <1>9, KeepOpen

\* A commit was not overtaken; from then on all others are.
LEMMA KeepCommit ==
    ASSUME KeepInv, IInv', NEW w \in Workers, Commit(w)
    PROVE  KeepInv'
  <1> DEFINE t == tx[w]
  <1>1. PortfolioDoc \in t.writes /\ NotOvertaken(w)
    BY DEF Commit, NoConflict, NotOvertaken, KeepInv, IInv, Pending, Sound
  <1>2. /\ docs' = After(t) /\ issued' = issued /\ called' = called
        /\ journal' = [a \in AssetIds |-> [count |-> journal[a].count + t.entry[a].count,
                                           net |-> journal[a].net + t.entry[a].net]]
    BY DEF Commit, After, requests
  <1>3. \A v \in Workers : /\ ~NotOvertaken(v)'
                           /\ pc'[v] # "idle" => pc'[v] = pc[v] /\ v # w
                           /\ v # w => req'[v] = req[v] /\ tx'[v] = tx[v]
    BY <1>1 DEF Commit, Goto, KeepInv, IInv, TypeOK, NotOvertaken
  <1>4. \A a : Settled(a) => Settled(a)'
    BY <1>2, <1>3 DEF Settled
  <1>5. LookupsOK'
    BY <1>3 DEF KeepInv, LookupsOK
  <1>6. NoBookings' => OnePerSymbol(docs')
    BY <1>1, <1>2 DEF KeepInv, NoBookings
  <1>7. ASSUME NEW a \in AssetIds, (journal[a] # NoEntry)' PROVE Settled(a)'
    <2>1. CASE journal[a] # NoEntry
      BY <1>4, <2>1 DEF KeepInv
    <2>2. CASE journal[a] = NoEntry
      <3>1. t.entry[a] # NoEntry
        BY <1>2, <1>7, <2>2 DEF NoEntry
      <3>2. a \in 1 .. issued
        BY <1>1, <3>1 DEF KeepInv, Books, NotOvertaken
      <3> QED BY <1>2, <1>3, <3>2 DEF Settled
    <2> QED BY <2>1, <2>2
  <1>8. \A v \in Workers : pc'[v] = "bookRow" => Settled(req[v].asset)'
    <2> SUFFICES ASSUME NEW v \in Workers, pc'[v] = "bookRow"
                 PROVE  Settled(req[v].asset)'
      OBVIOUS
    <2>1. PICK a : a = req[v].asset
      OBVIOUS
    <2>2. Settled(a) /\ a = req'[v].asset
      BY <1>3, <2>1 DEF KeepInv
    <2> QED
      BY <1>4, <2>2 DEF Settled
  <1>9. \A v \in Workers : pc'[v] = "commit" => Books(tx[v], issued)'
    BY <1>2, <1>3 DEF KeepInv, Books
  <1> QED
    BY <1>3, <1>5, <1>6, <1>7, <1>8, <1>9 DEF KeepInv, OnePerSymbol

LEMMA KeepStep == KeepInv /\ [Next]_vars => KeepInv'
  <1> SUFFICES ASSUME KeepInv, [Next]_vars PROVE KeepInv'
    OBVIOUS
  <1>1. IInv /\ IInv' /\ TypeOK
    BY InvStep DEF KeepInv, IInv
  <1>2. CASE UNCHANGED vars
    <2>1. \A v \in Workers : NotOvertaken(v)' <=> NotOvertaken(v)
      BY <1>2 DEF vars, NotOvertaken
    <2>2. \A a : Settled(a)' <=> Settled(a)
      BY <1>2, <2>1 DEF vars, Settled
    <2>3. \A v \in Workers : pc'[v] = "bookRow" => Settled(req[v].asset)'
      BY <1>2, <2>1 DEF vars, KeepInv, Settled
    <2>4. LookupsOK' /\ (NoBookings => OnePerSymbol(docs))'
      BY <1>2 DEF vars, KeepInv, LookupsOK, NoBookings, OnePerSymbol
    <2>5. /\ \A a \in AssetIds : (journal[a] # NoEntry)' => Settled(a)'
          /\ \A v \in Workers : pc'[v] = "commit" => Books(tx[v], issued)'
      BY <1>2, <2>2 DEF vars, KeepInv, Books
    <2>6. \A v \in Workers : NotOvertaken(v)' => /\ NoBookings' => OnePerSymbol(After(tx[v]))'
                                                /\ Removes(tx[v])'
      BY <1>2, <2>1 DEF vars, KeepInv, OnePerSymbol, After, Removes, NoBookings
    <2> QED
      BY <1>1, <2>3, <2>4, <2>5, <2>6 DEF KeepInv
  <1>3. ASSUME NEW w \in Workers, NEW r, NEW label \in {"lookup", "begin", "rows"},
               Admit(w, r, label), label = "lookup" => r.op = "createTransaction"
        PROVE  KeepInv'
    <2>1. LookupsOK'
      BY <1>1, <1>3 DEF Admit, Goto, TypeOK, KeepInv, LookupsOK
    <2>2. \A v \in Workers : pc'[v] = "bookRow" =>
              pc[v] = "bookRow" /\ req'[v].asset = req[v].asset
      BY <1>1, <1>3 DEF Admit, Goto, TypeOK
    <2> QED
      BY <1>1, <1>3, <2>1, <2>2, KeepQuiet DEF Admit, store, Labels
  <1>4. ASSUME NEW w \in Workers, Start(w) PROVE KeepInv'
    <2>1. CASE StartCreateTransaction(w)
      <3>1. PICK t \in TxTypes, s \in Symbols, n \in Amounts, p \in Prices :
              Admit(w, [NoRequest EXCEPT !.op = "createTransaction", !.type = t,
                           !.symbol = s, !.amount = n, !.price = p], "lookup")
        BY <2>1 DEF StartCreateTransaction
      <3>2. [NoRequest EXCEPT !.op = "createTransaction", !.type = t,
               !.symbol = s, !.amount = n, !.price = p].op = "createTransaction"
        BY DEF NoRequest
      <3> QED BY <1>3, <3>1, <3>2
    <2>2. CASE StartAddAsset(w)
      BY <1>3, <2>2 DEF StartAddAsset
    <2>3. CASE StartDeleteAsset(w)
      BY <1>3, <2>3 DEF StartDeleteAsset
    <2>4. CASE StartDeletePortfolio(w)
      BY <1>3, <2>4 DEF StartDeletePortfolio
    <2>5. CASE StartImport(w)
      BY <1>3, <2>5 DEF StartImport
    <2> QED BY <1>4, <2>1, <2>2, <2>3, <2>4, <2>5 DEF Start
  <1>5. ASSUME NEW w \in Workers, LookupFound(w) PROVE KeepInv'
    <2>1. PICK a \in Matching(req[w].symbol) :
              req' = [req EXCEPT ![w].asset = a, ![w].quantity = docs[a].quantity]
      BY <1>5 DEF LookupFound
    <2>2. a \in AssetIds /\ docs[a].live
      BY DEF Matching
    <2>3. /\ req'[w].asset = a /\ \A v \in Workers : v # w => req'[v] = req[v]
          /\ \A v \in Workers : req'[v].op = req[v].op
      BY <1>1, <2>1 DEF TypeOK, Request
    <2>4. \A v \in Workers : /\ v # w => pc'[v] = pc[v]
                             /\ pc'[w] \in {"bookRow", "begin"}
      BY <1>1, <1>5 DEF LookupFound, Goto, TypeOK
    <2>5. LookupsOK'
      BY <2>3, <2>4 DEF KeepInv, LookupsOK
    <2>6. \A v \in Workers : pc'[v] = "bookRow" =>
               \/ pc[v] = "bookRow" /\ req'[v].asset = req[v].asset
               \/ req'[v].asset \in AssetIds /\ docs[req'[v].asset].live
      BY <2>2, <2>3, <2>4
    <2> QED
      BY <1>1, <1>5, <2>5, <2>6, KeepQuiet DEF LookupFound, requests, store, Labels
  <1>6. ASSUME NEW w \in Workers, LookupMissed(w) PROVE KeepInv'
    <2>1. LookupsOK'
      BY <1>1, <1>6 DEF LookupMissed, Goto, TypeOK, KeepInv, LookupsOK
    <2>2. \A v \in Workers : pc'[v] = "bookRow" =>
              pc[v] = "bookRow" /\ req'[v].asset = req[v].asset
      BY <1>1, <1>6 DEF LookupMissed, Goto, TypeOK
    <2> QED
      BY <1>1, <1>6, <2>1, <2>2, KeepQuiet DEF LookupMissed, requests, store, Labels
  <1>7. ASSUME NEW w \in Workers, NextRow(w) PROVE KeepInv'
    <2>1. \A v \in Workers : v # w => pc'[v] = pc[v] /\ req'[v] = req[v]
      BY <1>1, <1>7 DEF NextRow, Goto, TypeOK
    <2>2. pc'[w] = "lookup" /\ req'[w].op = req[w].op
      BY <1>1, <1>7 DEF NextRow, Goto, TypeOK, Request
    <2>3. req[w].op = "importTransactions"
      BY <1>1, <1>7 DEF NextRow, IInv, RequestsOK
    <2>4. LookupsOK'
      BY <2>1, <2>2, <2>3 DEF KeepInv, LookupsOK
    <2> QED
      BY <1>1, <1>7, <2>1, <2>2, <2>4, KeepQuiet DEF NextRow, requests, store, Labels
  <1>8. ASSUME NEW w \in Workers, RowFails(w) PROVE KeepInv'
    <2>1. LookupsOK'
      BY <1>1, <1>8 DEF RowFails, Goto, TypeOK, KeepInv, LookupsOK
    <2>2. \A v \in Workers : pc'[v] = "bookRow" =>
              pc[v] = "bookRow" /\ req'[v].asset = req[v].asset
      BY <1>1, <1>8 DEF RowFails, Goto, TypeOK
    <2> QED
      BY <1>1, <1>8, <2>1, <2>2, KeepQuiet DEF RowFails, requests, store, Labels
  <1>9. ASSUME NEW w \in Workers, EndImport(w) \/ Fail(w) PROVE KeepInv'
    BY <1>1, <1>9, KeepDone DEF EndImport, Fail
  <1> QED
    BY <1>1, <1>2, <1>4, <1>5, <1>6, <1>7, <1>8, <1>9, KeepCreate, KeepBookRow,
       KeepBooking, KeepAddAsset, KeepDeleteAsset, KeepDeletePortfolio, KeepCommit
    DEF Next, Step

(* While nobody calls createTransaction there is one asset document per symbol,  *)
(* though two additions that overlap do not see each other's asset: both write   *)
(* the portfolio.                                                                *)
THEOREM OneAssetPerSymbol == Spec => []AssetsUnique
  <1>1. KeepInv => AssetsUnique
    BY DEF KeepInv, AssetsUnique, OnePerSymbol, NoBookings
  <1> QED BY KeepInit, KeepStep, <1>1, PTL DEF Spec

(* No abort, refusal or race of requests takes Transactions away from an asset   *)
(* that stays.                                                                   *)
THEOREM TransactionsStay == Spec => JournalKept
  <1> DEFINE Kept == \A a \in AssetIds :
                        journal'[a].count < journal[a].count => ~docs'[a].live
  <1>1. ASSUME KeepInv, [Next]_vars PROVE Kept
    <2> SUFFICES ASSUME NEW a \in AssetIds, journal'[a].count < journal[a].count
                 PROVE  ~docs'[a].live
      OBVIOUS
    <2>1. TypeOK /\ journal[a].count \in Int
      BY <1>1 DEF KeepInv, IInv, TypeOK, Entries
    <2>2. journal' # journal
      BY <2>1
    <2>3. ~(UNCHANGED vars)
      BY <2>2 DEF vars
    <2>4. PICK w \in Workers : BookRow(w) \/ Commit(w)
      <3>1. PICK w \in Workers : Start(w) \/ Step(w)
        BY <1>1, <2>3 DEF Next
      <3>2. ~Start(w)
        BY <2>2 DEF Start, StartCreateTransaction, StartAddAsset, StartDeleteAsset,
                    StartDeletePortfolio, StartImport, Admit, store
      <3>3. BookRow(w) \/ Commit(w)
        BY <2>2, <3>1, <3>2
        DEF Step, LookupFound, LookupMissed, CreateZeroAsset, NextRow, RowFails, EndImport,
            BeginBooking, BeginAddAsset, BeginDeleteAsset, BeginDeletePortfolio, Open, Fail,
            store
      <3> QED BY <3>3
    <2>5. CASE BookRow(w)
      <3>1. journal'[a].count = journal[a].count \/ journal'[a].count = journal[a].count + 1
        BY <2>1, <2>5 DEF BookRow, TypeOK, Entries
      <3> QED BY <2>1, <3>1
    <2>6. CASE Commit(w)
      <3>1. NotOvertaken(w)
        BY <1>1, <2>6 DEF Commit, NoConflict, NotOvertaken, KeepInv, IInv, Pending, Sound
      <3>2. /\ docs' = After(tx[w])
            /\ journal'[a].count = journal[a].count + tx[w].entry[a].count
        BY <2>6 DEF Commit, After
      <3>3. tx[w].entry[a].count \in Int
        BY <2>1 DEF TypeOK, PendingTx, Entries
      <3>4. tx[w].entry[a].count < 0
        BY <2>1, <3>2, <3>3
      <3> QED BY <1>1, <3>1, <3>2, <3>4 DEF KeepInv, Removes
    <2> QED BY <2>4, <2>5, <2>6
  <1>2. KeepInv /\ [Next]_vars => [Kept]_vars
    BY <1>1
  <1>3. Spec => [][Kept]_vars
    <2> HIDE DEF Kept
    <2> QED BY KeepInit, KeepStep, <1>2, PTL DEF Spec
  <1> QED BY <1>3 DEF JournalKept
-----------------------------------------------------------------------------
(* One request at a time: the step simulation of AtomicLedger.  What is held of   *)
(* and booked on a symbol, in the documents d with the journal j:                 *)

OfSymbolIn(d, s) == {a \in AssetIds : d[a].live /\ d[a].symbol = s}
HeldIn(d) ==
    [s \in Symbols |-> IF OfSymbolIn(d, s) = {} THEN 0
                       ELSE d[CHOOSE a \in OfSymbolIn(d, s) : TRUE].quantity]
BookedIn(d, j) ==
    [s \in Symbols |-> IF OfSymbolIn(d, s) = {} THEN 0
                       ELSE j[CHOOSE a \in OfSymbolIn(d, s) : TRUE].net]

\* The actions of AtomicLedger under the refinement mapping.
LEMMA AtomicInit ==
    ASSUME portfolio.live = TRUE, \A s \in Symbols : HeldIn(docs)[s] = 0,
           \A s \in Symbols : BookedIn(docs, journal)[s] = 0
    PROVE  Atomic!Init
  BY DEF Atomic!Init, HeldIn, BookedIn, OfSymbolIn, OfSymbol, Matching

LEMMA AtomicCredit ==
    ASSUME portfolio.live, portfolio'.live = portfolio.live, NEW s \in Symbols, NEW n \in Amounts,
           HeldIn(docs') = [HeldIn(docs) EXCEPT ![s] = @ + n],
           BookedIn(docs', journal') = [BookedIn(docs, journal) EXCEPT ![s] = @ + n]
    PROVE  Atomic!Next
  BY DEF Atomic!Next, Atomic!Credit, Atomic!Move, HeldIn, BookedIn, OfSymbolIn, OfSymbol,
         Matching

LEMMA AtomicDebit ==
    ASSUME portfolio.live, portfolio'.live = portfolio.live, NEW s \in Symbols, NEW n \in Amounts,
           HeldIn(docs)[s] >= n,
           HeldIn(docs') = [HeldIn(docs) EXCEPT ![s] = @ + (0 - n)],
           BookedIn(docs', journal') = [BookedIn(docs, journal) EXCEPT ![s] = @ + (0 - n)]
    PROVE  Atomic!Next
  BY DEF Atomic!Next, Atomic!Debit, Atomic!Move, HeldIn, BookedIn, OfSymbolIn, OfSymbol,
         Matching

LEMMA AtomicDrop ==
    ASSUME portfolio.live, portfolio'.live = portfolio.live, NEW s \in Symbols,
           HeldIn(docs') = [HeldIn(docs) EXCEPT ![s] = 0],
           BookedIn(docs', journal') = [BookedIn(docs, journal) EXCEPT ![s] = 0]
    PROVE  Atomic!Next
  BY DEF Atomic!Next, Atomic!Drop, HeldIn, BookedIn, OfSymbolIn, OfSymbol, Matching

LEMMA AtomicClose ==
    ASSUME portfolio.live, portfolio'.live = FALSE,
           \A s \in Symbols : HeldIn(docs')[s] = 0,
           \A s \in Symbols : BookedIn(docs', journal')[s] = 0
    PROVE  Atomic!Next
  BY DEF Atomic!Next, Atomic!Close, HeldIn, BookedIn, OfSymbolIn, OfSymbol, Matching

LEMMA AtomicStutter ==
    ASSUME portfolio'.live = portfolio.live, HeldIn(docs') = HeldIn(docs),
           BookedIn(docs', journal') = BookedIn(docs, journal)
    PROVE  UNCHANGED Atomic!vars
  BY DEF Atomic!vars, HeldIn, BookedIn, OfSymbolIn, OfSymbol, Matching

\* Writing what is there changes nothing.
LEMMA BySymbol ==
    ASSUME NEW d, NEW j, NEW s
    PROVE  /\ HeldIn(d) = [z \in Symbols |-> HeldIn(d)[z]]
           /\ BookedIn(d, j) = [z \in Symbols |-> BookedIn(d, j)[z]]
           /\ [HeldIn(d) EXCEPT ![s] = HeldIn(d)[s]] = HeldIn(d)
           /\ [BookedIn(d, j) EXCEPT ![s] = BookedIn(d, j)[s]] = BookedIn(d, j)
  <1>1. /\ HeldIn(d) = [z \in Symbols |-> HeldIn(d)[z]]
        /\ BookedIn(d, j) = [z \in Symbols |-> BookedIn(d, j)[z]]
    BY DEF HeldIn, BookedIn
  <1> QED
    BY <1>1

\* With one asset per symbol, what is held of a symbol is that asset's quantity.
LEMMA OneOfSymbol ==
    ASSUME NEW d, NEW j, OnePerSymbol(d), NEW a \in AssetIds, d[a].live, d[a].symbol \in Symbols
    PROVE  /\ HeldIn(d)[d[a].symbol] = d[a].quantity
           /\ BookedIn(d, j)[d[a].symbol] = j[a].net
  <1> DEFINE M == OfSymbolIn(d, d[a].symbol)
  <1>1. a \in M /\ \A b \in M : b = a
    BY DEF OfSymbolIn, OnePerSymbol
  <1>2. (CHOOSE b \in M : TRUE) = a
    BY <1>1
  <1> QED
    BY <1>1, <1>2 DEF HeldIn, BookedIn

LEMMA NoneOfSymbol ==
    ASSUME NEW d, NEW j, NEW s \in Symbols, \A a \in AssetIds : d[a].live => d[a].symbol # s
    PROVE  HeldIn(d)[s] = 0 /\ BookedIn(d, j)[s] = 0
  BY DEF HeldIn, BookedIn, OfSymbolIn

\* An asset that is the same in the documents d and e, with the journals j and k.
Same(d, j, e, k, a) ==
    /\ d[a].live <=> e[a].live
    /\ d[a].live => /\ e[a].symbol = d[a].symbol
                    /\ e[a].quantity = d[a].quantity
                    /\ k[a].net = j[a].net

\* A symbol that only has such assets is held and booked as before.
LEMMA SameOfSymbol ==
    ASSUME NEW d, NEW j, NEW e, NEW k, NEW s \in Symbols,
           \A a \in AssetIds : \/ Same(d, j, e, k, a)
                               \/ /\ d[a].live => d[a].symbol # s
                                  /\ e[a].live => e[a].symbol # s
    PROVE  HeldIn(e)[s] = HeldIn(d)[s] /\ BookedIn(e, k)[s] = BookedIn(d, j)[s]
  <1> DEFINE M == OfSymbolIn(d, s)
  <1>1. OfSymbolIn(e, s) = M
    BY DEF OfSymbolIn, Same
  <1>2. CASE M = {}
    BY <1>1, <1>2 DEF HeldIn, BookedIn
  <1>3. CASE M # {}
    <2>1. PICK a : a = CHOOSE b \in M : TRUE
      OBVIOUS
    <2>2. a \in M
      BY <1>3, <2>1
    <2>3. e[a].quantity = d[a].quantity /\ k[a].net = j[a].net
      BY <2>2 DEF OfSymbolIn, Same
    <2> QED
      BY <1>1, <1>3, <2>1, <2>3 DEF HeldIn, BookedIn
  <1> QED
    BY <1>2, <1>3

\* What is held of and booked on s becomes what x has; or nothing.
Becomes(d, j, e, k, s, x) ==
    /\ HeldIn(e) = [HeldIn(d) EXCEPT ![s] = e[x].quantity]
    /\ BookedIn(e, k) = [BookedIn(d, j) EXCEPT ![s] = k[x].net]
Vanishes(d, j, e, k, s) ==
    /\ HeldIn(e) = [HeldIn(d) EXCEPT ![s] = 0]
    /\ BookedIn(e, k) = [BookedIn(d, j) EXCEPT ![s] = 0]

\* A change of one asset changes what is held of its symbol.
LEMMA OneMoves ==
    ASSUME NEW d, NEW j, NEW e, NEW k, NEW x \in AssetIds, NEW s \in Symbols,
           OnePerSymbol(e), e[x].live, e[x].symbol = s, d[x].live => d[x].symbol = s,
           \A a \in AssetIds \ {x} : Same(d, j, e, k, a)
    PROVE  Becomes(d, j, e, k, s, x)
  <1>1. HeldIn(e)[s] = e[x].quantity /\ BookedIn(e, k)[s] = k[x].net
    BY OneOfSymbol
  <1>2. \A z \in Symbols \ {s} : /\ HeldIn(e)[z] = HeldIn(d)[z]
                                /\ BookedIn(e, k)[z] = BookedIn(d, j)[z]
    <2> SUFFICES ASSUME NEW z \in Symbols \ {s}
                 PROVE  HeldIn(e)[z] = HeldIn(d)[z] /\ BookedIn(e, k)[z] = BookedIn(d, j)[z]
      OBVIOUS
    <2>1. \A a \in AssetIds : \/ Same(d, j, e, k, a)
                              \/ /\ d[a].live => d[a].symbol # z
                                 /\ e[a].live => e[a].symbol # z
      OBVIOUS
    <2> QED BY ONLY <2>1, SameOfSymbol
  <1> QED
    BY <1>1, <1>2, BySymbol DEF Becomes

LEMMA OneClears ==
    ASSUME NEW d, NEW j, NEW e, NEW k, NEW x \in AssetIds, OnePerSymbol(d),
           d[x].live, d[x].symbol \in Symbols, ~e[x].live,
           \A a \in AssetIds \ {x} : Same(d, j, e, k, a)
    PROVE  Vanishes(d, j, e, k, d[x].symbol)
  <1> DEFINE s == d[x].symbol
  <1>1. HeldIn(e)[s] = 0 /\ BookedIn(e, k)[s] = 0
    <2>1. \A a \in AssetIds : e[a].live => e[a].symbol # s
      BY DEF OnePerSymbol, Same
    <2> QED BY <2>1, NoneOfSymbol
  <1>2. \A z \in Symbols \ {s} : /\ HeldIn(e)[z] = HeldIn(d)[z]
                                /\ BookedIn(e, k)[z] = BookedIn(d, j)[z]
    <2> SUFFICES ASSUME NEW z \in Symbols \ {s}
                 PROVE  HeldIn(e)[z] = HeldIn(d)[z] /\ BookedIn(e, k)[z] = BookedIn(d, j)[z]
      OBVIOUS
    <2>1. \A a \in AssetIds : \/ Same(d, j, e, k, a)
                              \/ /\ d[a].live => d[a].symbol # z
                                 /\ e[a].live => e[a].symbol # z
      OBVIOUS
    <2> QED BY ONLY <2>1, SameOfSymbol
  <1> QED
    BY <1>1, <1>2, BySymbol DEF Vanishes


\* An asset that a commit of t does not touch.
Untouched(t, a) ==
    /\ docs[a].live <=> After(t)[a].live
    /\ docs[a].live => /\ After(t)[a].symbol = docs[a].symbol
                       /\ After(t)[a].quantity = docs[a].quantity
                       /\ t.entry[a].net = 0

\* What an open transaction will do to the ledger: move the holding of a symbol by an
\* amount, of its asset or with a new one, never below zero; ...
Moves(t) ==
    /\ t.live
    /\ \E x \in AssetIds, s \in Symbols, n \in Amounts :
          /\ After(t)[x].live /\ After(t)[x].symbol = s
          /\ \A a \in AssetIds \ {x} : Untouched(t, a)
          /\ docs[x].live => docs[x].symbol = s
          /\ ~docs[x].live => /\ \A a \in AssetIds : docs[a].live => docs[a].symbol # s
                              /\ docs[x].quantity = 0 /\ journal[x].net = 0
          /\ \/ /\ After(t)[x].quantity = docs[x].quantity + n
                /\ t.entry[x].net = n
             \/ /\ docs[x].quantity >= n
                /\ After(t)[x].quantity = docs[x].quantity + (0 - n)
                /\ t.entry[x].net = 0 - n
\* ... or drop an asset; ...
Drops(t) ==
    /\ t.live
    /\ \E x \in AssetIds : /\ docs[x].live /\ ~After(t)[x].live
                           /\ \A a \in AssetIds \ {x} : Untouched(t, a)
\* ... or close the portfolio.
Closes(t) == ~t.live /\ \A a \in AssetIds : ~After(t)[a].live

\* The request at work knows what the store shows.
AtWork(w) ==
    /\ portfolio.live
    /\ req[w].op # "importTransactions"
    /\ req[w].op \in {"createTransaction", "addAssetToPortfolio"} =>
          req[w].symbol \in Symbols /\ req[w].amount \in Amounts
    /\ pc[w] = "create" => \A a \in AssetIds : docs[a].live => docs[a].symbol # req[w].symbol
    /\ pc[w] = "begin" /\ req[w].op = "createTransaction" =>
          /\ Exists(req[w].asset)
          /\ docs[req[w].asset].symbol = req[w].symbol
          /\ docs[req[w].asset].quantity = req[w].quantity
    /\ pc[w] = "commit" => Moves(tx[w]) \/ Drops(tx[w]) \/ Closes(tx[w])

\* One asset per symbol, that holds what was booked on it; none without portfolio.
Orderly ==
    /\ OnePerSymbol(docs)
    /\ \A a \in AssetIds : docs[a].live => /\ docs[a].symbol \in Symbols
                                          /\ docs[a].quantity = journal[a].net
    /\ ~portfolio.live => \A a \in AssetIds : ~docs[a].live

SerialInv ==
    /\ KeepInv
    /\ serial =>
          /\ Orderly
          /\ \A v, w \in Workers : pc[v] # "idle" /\ pc[w] # "idle" => v = w
          /\ \A w \in Workers : pc[w] # "idle" => AtWork(w)

LEMMA SerialInit == MCInit => SerialInv
  <1> SUFFICES ASSUME MCInit PROVE SerialInv
    OBVIOUS
  <1>1. KeepInv
    BY KeepInit DEF MCInit
  <1> QED
    BY <1>1 DEF MCInit, Init, SerialInv, Orderly, OnePerSymbol, NoAsset

\* Only one request moves at a time.
LEMMA OthersIdle ==
    ASSUME SerialInv, serial, MCNext, NEW w \in Workers, Start(w) \/ Step(w)
    PROVE  \A v \in Workers : v # w => pc[v] = "idle" /\ pc'[v] = "idle"
  <1> SUFFICES ASSUME NEW v \in Workers, v # w PROVE pc[v] = "idle" /\ pc'[v] = "idle"
    OBVIOUS
  <1>1. TypeOK
    BY DEF SerialInv, KeepInv, IInv
  <1>2. pc'[v] = pc[v]
    BY <1>1 DEF Start, StartCreateTransaction, StartAddAsset, StartDeleteAsset,
       StartDeletePortfolio, StartImport, Admit, Step, LookupFound, LookupMissed,
       CreateZeroAsset, NextRow, BookRow, RowFails, EndImport, BeginBooking, BeginAddAsset,
       BeginDeleteAsset, BeginDeletePortfolio, Open, Commit, Fail, Done, Goto, TypeOK
  <1>3. pc[w] # "idle" \/ pc'[w] # "idle"
    BY <1>1 DEF Start, StartCreateTransaction, StartAddAsset, StartDeleteAsset,
       StartDeletePortfolio, StartImport, Admit, Step, LookupFound, LookupMissed,
       CreateZeroAsset, NextRow, BookRow, RowFails, EndImport, BeginBooking, BeginAddAsset,
       BeginDeleteAsset, BeginDeletePortfolio, Commit, Fail, Goto, TypeOK
  <1> QED
    BY <1>2, <1>3 DEF SerialInv, MCNext

\* A step of the request at work, with what it must leave behind.
LEMMA SerialKept ==
    ASSUME SerialInv, serial, MCNext, NEW w \in Workers, Start(w) \/ Step(w),
           Orderly', pc'[w] # "idle" => AtWork(w)'
    PROVE  SerialInv'
  <1>1. KeepInv'
    BY KeepStep DEF SerialInv, MCNext
  <1>2. \A v \in Workers : v # w => pc'[v] = "idle"
    BY OthersIdle
  <1>3. \A v \in Workers : (pc[v] # "idle")' => v = w
    BY <1>2
  <1>4. ASSUME NEW v \in Workers, pc'[v] # "idle" PROVE AtWork(v)'
    BY <1>3, <1>4
  <1> QED
    BY <1>1, <1>3, <1>4 DEF SerialInv


\* A step that leaves portfolio, documents and journal alone is a stutter.
LEMMA SerialQuiet ==
    ASSUME SerialInv, serial, MCNext, NEW w \in Workers, Start(w) \/ Step(w),
           UNCHANGED <<portfolio, docs, journal>>, pc'[w] # "idle" => AtWork(w)'
    PROVE  SerialInv' /\ UNCHANGED Atomic!vars
  <1>1. Orderly'
    BY DEF SerialInv, Orderly, OnePerSymbol
  <1> QED
    BY <1>1, SerialKept, AtomicStutter

LEMMA SerialStart ==
    ASSUME SerialInv, serial, MCNext, NEW w \in Workers, Start(w)
    PROVE  SerialInv' /\ UNCHANGED Atomic!vars
  <1>1. TypeOK /\ req'[w].op # "importTransactions"
    BY DEF SerialInv, KeepInv, IInv, MCNext
  <1>2. PICK r, label : /\ Admit(w, r, label) /\ label \in {"lookup", "begin", "rows"}
                        /\ label = "rows" => r.op = "importTransactions"
                        /\ label = "begin" => r.op # "createTransaction"
                        /\ r.op \in {"createTransaction", "addAssetToPortfolio"} =>
                              r.symbol \in Symbols /\ r.amount \in Amounts
    <2> DEFINE Begins(r, label) ==
                 /\ Admit(w, r, label) /\ label \in {"lookup", "begin", "rows"}
                 /\ label = "rows" => r.op = "importTransactions"
                 /\ label = "begin" => r.op # "createTransaction"
                 /\ r.op \in {"createTransaction", "addAssetToPortfolio"} =>
                       r.symbol \in Symbols /\ r.amount \in Amounts
    <2>1. CASE StartCreateTransaction(w)
      <3>1. PICK t \in TxTypes, s \in Symbols, n \in Amounts, p \in Prices :
              Admit(w, [NoRequest EXCEPT !.op = "createTransaction", !.type = t,
                           !.symbol = s, !.amount = n, !.price = p], "lookup")
        BY <2>1 DEF StartCreateTransaction
      <3> DEFINE r == [NoRequest EXCEPT !.op = "createTransaction", !.type = t,
                          !.symbol = s, !.amount = n, !.price = p]
      <3>2. r.symbol = s /\ r.amount = n
        BY DEF NoRequest
      <3> HIDE DEF r
      <3>3. Admit(w, r, "lookup")
        BY <3>1 DEF r
      <3>4. Begins(r, "lookup")
        BY <3>2, <3>3
      <3> HIDE DEF Begins
      <3>5. \E q, label : Begins(q, label)
        BY <3>4
      <3> QED BY <3>5 DEF Begins
    <2>2. CASE StartAddAsset(w)
      <3>1. PICK s \in Symbols, n \in Amounts, p \in Prices :
              Admit(w, [NoRequest EXCEPT !.op = "addAssetToPortfolio", !.symbol = s,
                           !.amount = n, !.price = p], "begin")
        BY <2>2 DEF StartAddAsset
      <3> DEFINE r == [NoRequest EXCEPT !.op = "addAssetToPortfolio", !.symbol = s,
                          !.amount = n, !.price = p]
      <3>2. r.op = "addAssetToPortfolio" /\ r.symbol = s /\ r.amount = n
        BY DEF NoRequest
      <3> HIDE DEF r
      <3>3. Admit(w, r, "begin")
        BY <3>1 DEF r
      <3>4. Begins(r, "begin")
        BY <3>2, <3>3
      <3> HIDE DEF Begins
      <3>5. \E q, label : Begins(q, label)
        BY <3>4
      <3> QED BY <3>5 DEF Begins
    <2>3. CASE StartDeleteAsset(w)
      <3>1. PICK a \in 1 .. issued : Admit(w, [NoRequest EXCEPT !.op = "deleteAsset", !.asset = a], "begin")
        BY <2>3 DEF StartDeleteAsset
      <3> DEFINE r == [NoRequest EXCEPT !.op = "deleteAsset", !.asset = a]
      <3>2. r.op = "deleteAsset"
        BY DEF NoRequest
      <3> HIDE DEF r
      <3>3. Admit(w, r, "begin")
        BY <3>1 DEF r
      <3>4. Begins(r, "begin")
        BY <3>2, <3>3
      <3> HIDE DEF Begins
      <3>5. \E q, label : Begins(q, label)
        BY <3>4
      <3> QED BY <3>5 DEF Begins
    <2>4. CASE StartDeletePortfolio(w)
      BY <2>4 DEF StartDeletePortfolio, NoRequest
    <2>5. CASE StartImport(w)
      <3>1. PICK n \in 1 .. MaxRows : Admit(w, [NoRequest EXCEPT !.op = "importTransactions", !.rows = n], "rows")
        BY <2>5 DEF StartImport
      <3> DEFINE r == [NoRequest EXCEPT !.op = "importTransactions", !.rows = n]
      <3>2. r.op = "importTransactions"
        BY DEF NoRequest
      <3> HIDE DEF r
      <3>3. Admit(w, r, "rows")
        BY <3>1 DEF r
      <3>4. Begins(r, "rows")
        BY <3>2, <3>3
      <3> HIDE DEF Begins
      <3>5. \E q, label : Begins(q, label)
        BY <3>4
      <3> QED BY <3>5 DEF Begins
    <2> QED BY <2>1, <2>2, <2>3, <2>4, <2>5 DEF Start
  <1>3. /\ UNCHANGED <<portfolio, docs, journal>> /\ portfolio.live
        /\ req'[w] = r /\ pc'[w] = label
    BY <1>1, <1>2 DEF Admit, Goto, store, TypeOK
  <1>4. AtWork(w)'
    BY <1>1, <1>2, <1>3 DEF AtWork
  <1> QED
    BY <1>3, <1>4, SerialQuiet

LEMMA SerialLookupFound ==
    ASSUME SerialInv, serial, MCNext, NEW w \in Workers, LookupFound(w)
    PROVE  SerialInv' /\ UNCHANGED Atomic!vars
  <1>1. TypeOK /\ pc[w] = "lookup" /\ LookupsOK /\ AtWork(w)
    BY DEF SerialInv, KeepInv, IInv, LookupFound
  <1>2. req[w].op = "createTransaction"
    BY <1>1 DEF LookupsOK, AtWork
  <1>3. PICK a \in Matching(req[w].symbol) :
            req' = [req EXCEPT ![w].asset = a, ![w].quantity = docs[a].quantity]
    BY DEF LookupFound
  <1>4. /\ req'[w].asset = a /\ req'[w].quantity = docs[a].quantity
        /\ req'[w].op = req[w].op /\ req'[w].symbol = req[w].symbol
        /\ req'[w].amount = req[w].amount
    BY <1>1, <1>3 DEF TypeOK, Request
  <1>5. UNCHANGED <<portfolio, docs, journal>> /\ pc'[w] = "begin"
    BY <1>1, <1>2 DEF LookupFound, Goto, store, TypeOK
  <1>6. AtWork(w)'
    BY <1>1, <1>2, <1>4, <1>5 DEF AtWork, Exists, Matching
  <1> QED
    BY <1>5, <1>6, SerialQuiet DEF Step

LEMMA SerialLookupMissed ==
    ASSUME SerialInv, serial, MCNext, NEW w \in Workers, LookupMissed(w)
    PROVE  SerialInv' /\ UNCHANGED Atomic!vars
  <1>1. TypeOK /\ pc[w] = "lookup" /\ AtWork(w) /\ Matching(req[w].symbol) = {}
    BY DEF SerialInv, KeepInv, IInv, LookupMissed
  <1>2. UNCHANGED <<portfolio, docs, journal, req>> /\ pc'[w] = "create"
    BY <1>1 DEF LookupMissed, Goto, store, TypeOK, AtWork
  <1>3. AtWork(w)'
    BY <1>1, <1>2 DEF AtWork, Matching
  <1> QED
    BY <1>2, <1>3, SerialQuiet DEF Step

\* An empty asset of a symbol that has none holds nothing.
LEMMA SerialCreate ==
    ASSUME SerialInv, serial, MCNext, NEW w \in Workers, CreateZeroAsset(w)
    PROVE  SerialInv' /\ UNCHANGED Atomic!vars
  <1> DEFINE new == issued + 1
             s == req[w].symbol
  <1>1. /\ TypeOK /\ KeepInv /\ Orderly /\ AtWork(w) /\ pc[w] = "create"
        /\ issued \in Nat /\ new \in AssetIds /\ new \notin 1 .. issued
    <2>1. KeepInv /\ TypeOK /\ pc[w] = "create" /\ issued < MaxAssets
      BY DEF SerialInv, KeepInv, IInv, CreateZeroAsset
    <2>2. Orderly /\ AtWork(w)
      BY <2>1 DEF SerialInv
    <2>3. issued \in Nat /\ new \in AssetIds /\ new \notin 1 .. issued
      BY <2>1, LedgerAssumption DEF TypeOK, AssetIds
    <2> QED BY <2>1, <2>2, <2>3
  <1>2. /\ docs'[new].live /\ docs'[new].symbol = s /\ docs'[new].quantity = 0
        /\ \A a \in AssetIds : a # new => docs'[a] = docs[a]
        /\ UNCHANGED <<portfolio, journal>> /\ pc'[w] = "begin"
    BY <1>1 DEF CreateZeroAsset, NoAsset, Goto, TypeOK
  <1>3. /\ req'[w].asset = new /\ req'[w].quantity = 0 /\ req'[w].op = req[w].op
        /\ req'[w].symbol = s /\ req'[w].amount = req[w].amount
    BY <1>1 DEF CreateZeroAsset, TypeOK, Request
  <1>4. journal[new] = NoEntry /\ ~docs[new].live
    <2>1. ~Settled(new)
      BY <1>1 DEF Settled
    <2> QED BY <1>1, <2>1, LiveSettled DEF KeepInv
  <1>5. \A a \in AssetIds : docs[a].live => docs[a].symbol # s
    BY <1>1 DEF AtWork
  <1>6. s \in Symbols
    BY <1>1 DEF AtWork, KeepInv, LookupsOK
  <1> HIDE DEF new, s
  <1>7. OnePerSymbol(docs')
    BY <1>1, <1>2, <1>5 DEF Orderly, OnePerSymbol
  <1>8. Orderly'
    <2>1. \A a \in AssetIds : docs'[a].live => /\ docs'[a].symbol \in Symbols
                                              /\ docs'[a].quantity = journal'[a].net
      BY <1>1, <1>2, <1>4, <1>6 DEF Orderly, NoEntry
    <2> QED BY <1>1, <1>2, <1>7, <2>1 DEF Orderly, AtWork, OnePerSymbol
  <1>9. AtWork(w)'
    BY <1>1, <1>2, <1>3 DEF AtWork, Exists, s
  <1>10. /\ HeldIn(docs') = [HeldIn(docs) EXCEPT ![s] = docs'[new].quantity]
         /\ BookedIn(docs', journal') = [BookedIn(docs, journal) EXCEPT ![s] = journal'[new].net]
    <2>1. \A a \in AssetIds \ {new} : Same(docs, journal, docs', journal', a)
      BY <1>2 DEF Same
    <2>2. docs'[new].live /\ docs'[new].symbol = s /\ (docs[new].live => docs[new].symbol = s)
      BY <1>2, <1>4
    <2>3. new \in AssetIds /\ s \in Symbols
      BY <1>1, <1>6
    <2>4. Becomes(docs, journal, docs', journal', s, new)
      BY ONLY <1>7, <2>1, <2>2, <2>3, OneMoves
    <2> QED BY <2>4 DEF Becomes
  <1>11. HeldIn(docs)[s] = 0 /\ BookedIn(docs, journal)[s] = 0
    BY <1>5, <1>6, NoneOfSymbol
  <1>12. HeldIn(docs') = HeldIn(docs) /\ BookedIn(docs', journal') = BookedIn(docs, journal)
    <2>1. docs'[new].quantity = HeldIn(docs)[s] /\ journal'[new].net = BookedIn(docs, journal)[s]
      BY <1>2, <1>4, <1>11 DEF NoEntry
    <2> QED BY <1>10, <2>1, BySymbol
  <1> QED
    BY <1>2, <1>8, <1>9, <1>12, SerialKept, AtomicStutter DEF Step

LEMMA SerialFail ==
    ASSUME SerialInv, serial, MCNext, NEW w \in Workers, Fail(w)
    PROVE  SerialInv' /\ UNCHANGED Atomic!vars
  <1>1. UNCHANGED <<portfolio, docs, journal>> /\ pc'[w] = "idle"
    BY DEF SerialInv, KeepInv, IInv, TypeOK, Fail, Done, Goto, store
  <1> QED
    BY <1>1, SerialQuiet DEF Step

\* Nothing imports.
LEMMA SerialNoImport ==
    ASSUME SerialInv, serial, NEW w \in Workers
    PROVE  ~(NextRow(w) \/ BookRow(w) \/ RowFails(w) \/ EndImport(w))
  BY DEF SerialInv, KeepInv, IInv, RequestsOK, AtWork, NextRow, BookRow, RowFails, EndImport

\* Opening a transaction whose effect is that of one atomic operation.
LEMMA SerialOpen ==
    ASSUME SerialInv, serial, MCNext, NEW w \in Workers, Step(w), NEW body, Open(w, body),
           pc[w] = "begin", Moves(body) \/ Drops(body) \/ Closes(body)
    PROVE  SerialInv' /\ UNCHANGED Atomic!vars
  <1>1. TypeOK /\ AtWork(w)
    BY DEF SerialInv, KeepInv, IInv
  <1>2. /\ UNCHANGED <<portfolio, docs, journal, req>> /\ pc'[w] = "commit"
        /\ tx'[w] = body
    BY <1>1 DEF Open, Goto, TypeOK
  <1>3. Moves(body) => Moves(tx[w])'
    <2>1. \A a : Untouched(body, a) => Untouched(tx[w], a)'
      BY <1>2 DEF Untouched, After
    <2> HIDE DEF Untouched
    <2>2. After(tx[w])' = After(body)
      BY <1>2 DEF After
    <2> QED BY <1>2, <2>1, <2>2 DEF Moves
  <1>4. Drops(body) => Drops(tx[w])'
    BY <1>2 DEF Drops, Untouched, After
  <1>5. Closes(body) => Closes(tx[w])'
    BY <1>2 DEF Closes, After
  <1>6. AtWork(w)'
    BY <1>1, <1>2, <1>3, <1>4, <1>5 DEF AtWork
  <1> QED
    BY <1>2, <1>6, SerialQuiet


\* A booking moves the holding of its symbol.
LEMMA SerialBooking ==
    ASSUME SerialInv, serial, MCNext, NEW w \in Workers, BeginBooking(w)
    PROVE  SerialInv' /\ UNCHANGED Atomic!vars
  <1> DEFINE r == req[w]
             x == r.asset
             q == NewQuantity(r.quantity, r.amount, r.type)
             booked == [docs EXCEPT ![x].quantity = q, ![x].value = q * r.price]
             body == BookingTx(r)
  <1>1. /\ TypeOK /\ AtWork(w) /\ pc[w] = "begin" /\ Open(w, body) /\ portfolio.live
        /\ Exists(x) /\ r \in Request /\ Sufficient(r.type, r.quantity, r.amount)
        /\ r.op = "createTransaction"
    BY DEF SerialInv, KeepInv, IInv, TypeOK, BeginBooking
  <1>2. /\ r.symbol \in Symbols /\ r.amount \in Amounts /\ docs[x].symbol = r.symbol
        /\ docs[x].quantity = r.quantity
    BY <1>1 DEF AtWork
  <1>3. r.amount \in Nat /\ r.quantity \in Nat /\ r.type \in Credits \union Debits
    BY <1>1 DEF Request
  <1>4. /\ body.live = TRUE /\ body.docs = Refreshed(booked)
        /\ body.writes = {} \union MetricsWrites(booked)
        /\ body.entry = Booked(x, 1, Signed(r.amount, r.type))
    BY DEF BookingTx, WithMetrics
  <1>5. x \in AssetIds /\ docs[x].live
    BY <1>1 DEF Exists
  <1>6. q \in Nat /\ q * r.price \in Nat
    <2>1. q \in Nat
      BY <1>1, <1>3, NewQuantityNat
    <2>2. r.price \in Nat
      BY <1>1 DEF Request
    <2> HIDE DEF q, r
    <2> QED BY <2>1, <2>2
  <1>7. /\ booked \in [AssetIds -> AssetDoc]
        /\ booked[x].live /\ booked[x].symbol = r.symbol /\ booked[x].quantity = q
        /\ \A a \in AssetIds : a # x => booked[a] = docs[a]
    <2>1. docs \in [AssetIds -> AssetDoc]
      BY <1>1 DEF TypeOK
    <2> DEFINE value == q * r.price
    <2>2. value \in Nat
      BY <1>6
    <2>3. booked = [docs EXCEPT ![x].quantity = q, ![x].value = value]
      OBVIOUS
    <2> HIDE DEF value, q, x, booked
    <2> QED BY <1>2, <1>5, <1>6, <2>1, <2>2, <2>3 DEF AssetDoc
  <1> HIDE DEF booked
  <1>8. /\ After(body)[x].live /\ After(body)[x].symbol = r.symbol
        /\ After(body)[x].quantity = q
    <2>1. x \in MetricsWrites(booked)
      BY <1>5, <1>7 DEF MetricsWrites
    <2> QED BY <1>4, <1>5, <1>7, <2>1, RefreshedKeeps DEF After
  <1>9. \A a \in AssetIds \ {x} : Untouched(body, a)
    <2>1. TAKE a \in AssetIds \ {x}
    <2>2. /\ body.docs[a].live = docs[a].live /\ body.docs[a].symbol = docs[a].symbol
          /\ body.docs[a].quantity = docs[a].quantity
      BY <1>4, <1>7, RefreshedKeeps
    <2>3. body.entry[a].net = 0
      BY <1>4 DEF Booked, NoEntries, NoEntry
    <2> HIDE DEF body
    <2> QED BY <2>2, <2>3 DEF Untouched, After
  <1>10. body.entry[x].net = Signed(r.amount, r.type)
    BY <1>4, <1>5 DEF Booked, NoEntries, NoEntry
  <1> DEFINE n == r.amount
  <1>11. \/ q = docs[x].quantity + n /\ body.entry[x].net = n
         \/ docs[x].quantity >= n /\ q = docs[x].quantity + (0 - n) /\ body.entry[x].net = 0 - n
    <2> HIDE DEF body, x, r
    <2> QED BY <1>1, <1>2, <1>3, <1>10
            DEF NewQuantity, Signed, Sufficient, Credits, Debits, q
  <1>12. Moves(body)
    <2> HIDE DEF body, x, q, n
    <2>1. n \in Amounts
      BY <1>2 DEF n
    <2> QED BY <1>2, <1>4, <1>5, <1>8, <1>9, <1>11, <2>1 DEF Moves
  <1> HIDE DEF body
  <1> QED
    BY <1>1, <1>12, SerialOpen DEF Step

\* A new asset of a symbol that has none moves its holding from zero.
LEMMA SerialAddAsset ==
    ASSUME SerialInv, serial, MCNext, NEW w \in Workers, BeginAddAsset(w)
    PROVE  SerialInv' /\ UNCHANGED Atomic!vars
  <1> DEFINE r == req[w]
             x == issued + 1
             body == AddAssetTx(r, x)
             asset == [live |-> TRUE, symbol |-> r.symbol, quantity |-> r.amount,
                       value |-> r.amount * r.price, allocation |-> 0]
             added == [docs EXCEPT ![x] = asset]
             final == [added EXCEPT ![x].allocation = Share(r.amount * r.price, Total(added))]
  <1>1. KeepInv /\ TypeOK /\ pc[w] = "begin" /\ issued < MaxAssets
        /\ r.op = "addAssetToPortfolio" /\ Matching(r.symbol) = {} /\ Open(w, body)
    BY DEF SerialInv, KeepInv, IInv, BeginAddAsset
  <1>2. issued \in Nat /\ x \in AssetIds /\ x \notin 1 .. issued
    BY <1>1, LedgerAssumption DEF TypeOK, AssetIds
  <1>3. r.symbol \in Symbols /\ r.amount \in Amounts
    BY <1>1 DEF SerialInv, AtWork
  <1>4. ~docs[x].live /\ docs[x].quantity = 0 /\ journal[x].net = 0
    <2>1. ~Settled(x)
      BY <1>2 DEF Settled
    <2>2. journal[x] = NoEntry /\ docs[x] = NoAsset
      BY <1>1, <1>2, <2>1 DEF KeepInv, IInv
    <2> QED BY <2>2 DEF NoEntry, NoAsset
  <1>5. \A a \in AssetIds : docs[a].live => docs[a].symbol # r.symbol
    BY <1>1 DEF Matching
  <1>6. /\ body.live = TRUE /\ body.docs = final /\ body.writes = {x, PortfolioDoc}
        /\ body.entry = Booked(x, 0, r.amount)
    BY DEF AddAssetTx
  <1>7. /\ added[x] = asset /\ DOMAIN added = AssetIds
        /\ \A a \in AssetIds : a # x => added[a] = docs[a]
    BY <1>1, <1>2 DEF TypeOK
  <1>8. asset.live /\ asset.symbol = r.symbol /\ asset.quantity = r.amount
    OBVIOUS
  <1> HIDE DEF added, asset
  <1>9. /\ final[x].live = asset.live /\ final[x].symbol = asset.symbol
        /\ final[x].quantity = asset.quantity
    BY <1>2, <1>7
  <1>10. body.entry[x].net = r.amount /\ \A a \in AssetIds \ {x} : body.entry[a].net = 0
    BY <1>2, <1>6 DEF Booked, NoEntries, NoEntry
  <1> HIDE DEF final, body, r, x
  <1>11. /\ After(body)[x].live /\ After(body)[x].symbol = r.symbol
         /\ After(body)[x].quantity = r.amount
    BY <1>2, <1>6, <1>8, <1>9 DEF After
  <1>12. \A a \in AssetIds \ {x} : Untouched(body, a)
    <2>1. \A a \in AssetIds \ {x} : a \notin body.writes
      BY <1>6, LedgerAssumption DEF AssetIds, PortfolioDoc
    <2> QED BY <1>10, <2>1 DEF Untouched, After
  <1>13. Moves(body)
    <2>1. r.amount \in Nat
      BY <1>3, LedgerAssumption
    <2>2. After(body)[x].quantity = docs[x].quantity + r.amount
      BY <1>4, <1>11, <2>1
    <2> QED BY <1>2, <1>3, <1>4, <1>5, <1>6, <1>10, <1>11, <1>12, <2>2 DEF Moves
  <1> QED
    BY <1>1, <1>13, SerialOpen DEF Step

LEMMA SerialDeleteAsset ==
    ASSUME SerialInv, serial, MCNext, NEW w \in Workers, BeginDeleteAsset(w)
    PROVE  SerialInv' /\ UNCHANGED Atomic!vars
  <1> DEFINE r == req[w]
             x == r.asset
             left == [docs EXCEPT ![x] = NoAsset]
             body == DeleteAssetTx(r)
  <1>1. TypeOK /\ pc[w] = "begin" /\ Exists(x) /\ Open(w, body)
    BY DEF SerialInv, KeepInv, IInv, BeginDeleteAsset
  <1>2. x \in AssetIds /\ docs[x].live
    BY <1>1 DEF Exists
  <1>3. /\ body.live = TRUE /\ body.docs = Refreshed(left)
        /\ body.writes = {x} \union MetricsWrites(left)
        /\ body.entry = Booked(x, 0 - journal[x].count, 0 - journal[x].net)
    BY DEF DeleteAssetTx, WithMetrics
  <1>4. /\ left \in [AssetIds -> AssetDoc] /\ ~left[x].live
        /\ \A a \in AssetIds : a # x => left[a] = docs[a]
    BY <1>1, <1>2, NoAssetType DEF TypeOK, NoAsset
  <1> HIDE DEF left
  <1>5. ~After(body)[x].live
    BY <1>2, <1>3, <1>4, RefreshedKeeps DEF After
  <1>6. \A a \in AssetIds \ {x} : Untouched(body, a)
    <2>1. TAKE a \in AssetIds \ {x}
    <2>2. /\ body.docs[a].live = docs[a].live /\ body.docs[a].symbol = docs[a].symbol
          /\ body.docs[a].quantity = docs[a].quantity
      BY <1>3, <1>4, RefreshedKeeps
    <2>3. body.entry[a].net = 0
      BY <1>3 DEF Booked, NoEntries, NoEntry
    <2> HIDE DEF body
    <2> QED BY <2>2, <2>3 DEF Untouched, After
  <1> HIDE DEF body
  <1>7. Drops(body)
    BY <1>2, <1>3, <1>5, <1>6 DEF Drops
  <1> QED
    BY <1>1, <1>7, SerialOpen DEF Step

LEMMA SerialDeletePortfolio ==
    ASSUME SerialInv, serial, MCNext, NEW w \in Workers, BeginDeletePortfolio(w)
    PROVE  SerialInv' /\ UNCHANGED Atomic!vars
  <1> DEFINE body == DeletePortfolioTx
  <1>1. Open(w, body) /\ pc[w] = "begin"
    BY DEF BeginDeletePortfolio
  <1>2. Closes(body)
    BY DEF Closes, After, DeletePortfolioTx, MetricsWrites, NoAsset
  <1> HIDE DEF body
  <1> QED
    BY <1>1, <1>2, SerialOpen DEF Step


\* The commit is the atomic operation.
LEMMA SerialCommit ==
    ASSUME SerialInv, serial, MCNext, NEW w \in Workers, Commit(w)
    PROVE  SerialInv' /\ Atomic!Next
  <1> DEFINE t == tx[w]
  <1>1. /\ KeepInv /\ TypeOK /\ Orderly /\ AtWork(w) /\ pc[w] = "commit"
        /\ PortfolioDoc \in t.writes
    BY DEF SerialInv, KeepInv, IInv, Pending, Sound, Commit
  <1>2. /\ docs' = After(t) /\ portfolio'.live = t.live
        /\ \A a \in AssetIds : journal'[a].net = journal[a].net + t.entry[a].net
        /\ pc'[w] = "idle"
    BY <1>1 DEF Commit, After, Goto, TypeOK
  <1>3. portfolio.live = TRUE /\ (Moves(t) \/ Drops(t) \/ Closes(t))
    <2>1. portfolio.live /\ portfolio.live \in BOOLEAN
      BY <1>1 DEF AtWork, TypeOK
    <2> QED BY <1>1, <2>1 DEF AtWork
  <1>4. \A a \in AssetIds : /\ journal[a].net \in Int /\ docs[a].quantity \in Int
                           /\ t.entry[a].net \in Int
    BY <1>1 DEF TypeOK, Entries, PendingTx, AssetDoc
  <1>5. t.live \in BOOLEAN
    BY <1>1 DEF TypeOK, PendingTx
  <1> HIDE DEF t
  <1>6. \A a \in AssetIds : Untouched(t, a) => Same(docs, journal, docs', journal', a)
    BY <1>2, <1>4 DEF Untouched, Same
  <1>7. ASSUME Orderly' PROVE SerialInv'
    BY <1>2, <1>7, SerialKept DEF Step
  <1>8. CASE Closes(t)
    <2>1. portfolio'.live = FALSE /\ \A a \in AssetIds : ~docs'[a].live
      BY <1>2, <1>5, <1>8 DEF Closes
    <2>2. Orderly'
      BY <2>1 DEF Orderly, OnePerSymbol
    <2>3. /\ \A s \in Symbols : HeldIn(docs')[s] = 0
          /\ \A s \in Symbols : BookedIn(docs', journal')[s] = 0
      BY <2>1, NoneOfSymbol
    <2>4. Atomic!Next
      BY <1>3, <2>1, <2>3, AtomicClose
    <2> QED BY <1>7, <2>2, <2>4
  <1>9. CASE Drops(t)
    <2>1. PICK x \in AssetIds : /\ docs[x].live /\ ~docs'[x].live
                               /\ \A a \in AssetIds \ {x} : Untouched(t, a)
      BY <1>2, <1>9 DEF Drops
    <2>2. \A a \in AssetIds \ {x} : Same(docs, journal, docs', journal', a)
      BY <1>6, <2>1
    <2>3. docs[x].symbol \in Symbols /\ OnePerSymbol(docs)
      BY <1>1, <2>1 DEF Orderly
    <2>4. portfolio'.live = portfolio.live
      BY <1>2, <1>3, <1>5, <1>9 DEF Drops
    <2>5. Orderly'
      BY <1>1, <1>3, <2>1, <2>2, <2>4 DEF Orderly, OnePerSymbol, Same
    <2>6. Vanishes(docs, journal, docs', journal', docs[x].symbol)
      BY ONLY <2>1, <2>2, <2>3, OneClears
    <2>7. Atomic!Next
      BY <1>3, <2>3, <2>4, <2>6, AtomicDrop DEF Vanishes
    <2> QED BY <1>7, <2>5, <2>7
  <1>10. CASE Moves(t)
    <2>1. portfolio'.live = portfolio.live
      BY <1>2, <1>3, <1>5, <1>10 DEF Moves
    <2>2. PICK x \in AssetIds, s \in Symbols, n \in Amounts :
            /\ docs'[x].live /\ docs'[x].symbol = s
            /\ \A a \in AssetIds \ {x} : Untouched(t, a)
            /\ docs[x].live => docs[x].symbol = s
            /\ ~docs[x].live => /\ \A a \in AssetIds : docs[a].live => docs[a].symbol # s
                                /\ docs[x].quantity = 0 /\ journal[x].net = 0
            /\ \/ /\ docs'[x].quantity = docs[x].quantity + n
                  /\ t.entry[x].net = n
               \/ /\ docs[x].quantity >= n
                  /\ docs'[x].quantity = docs[x].quantity + (0 - n)
                  /\ t.entry[x].net = 0 - n
      BY <1>2, <1>10 DEF Moves
    <2>3. \A a \in AssetIds \ {x} : Same(docs, journal, docs', journal', a)
      BY <1>6, <2>2
    <2>4. docs[x].quantity = journal[x].net
      BY <1>1, <2>2 DEF Orderly
    <2>5. /\ HeldIn(docs)[s] = docs[x].quantity
          /\ BookedIn(docs, journal)[s] = journal[x].net
      <3>1. CASE docs[x].live
        BY <1>1, <2>2, <3>1, OneOfSymbol DEF Orderly
      <3>2. CASE ~docs[x].live
        BY <2>2, <3>2, NoneOfSymbol
      <3> QED BY <3>1, <3>2
    <2>6. OnePerSymbol(docs')
      <3> SUFFICES ASSUME NEW a \in AssetIds, NEW b \in AssetIds, docs'[a].live, docs'[b].live,
                          docs'[a].symbol = docs'[b].symbol
                   PROVE  a = b
        BY DEF OnePerSymbol
      <3>1. \A y \in AssetIds \ {x} : docs'[y].live => docs[y].live /\ docs[y].symbol # s
        BY <1>1, <2>2, <2>3 DEF Orderly, OnePerSymbol, Same
      <3>2. \A y \in AssetIds \ {x} : docs'[y].live => docs'[y].symbol = docs[y].symbol
        BY <2>3 DEF Same
      <3>3. CASE a = x \/ b = x
        BY <2>2, <3>1, <3>2, <3>3
      <3>4. CASE a # x /\ b # x
        BY <1>1, <3>1, <3>2, <3>4 DEF Orderly, OnePerSymbol
      <3> QED BY <3>3, <3>4
    <2>7. n \in Int /\ journal'[x].net = docs'[x].quantity
      <3>1. n \in Int
        BY LedgerAssumption
      <3> QED BY <1>2, <1>4, <2>2, <2>4, <3>1
    <2>8. Orderly'
      <3>1. \A a \in AssetIds : docs'[a].live => /\ docs'[a].symbol \in Symbols
                                                /\ docs'[a].quantity = journal'[a].net
        BY <1>1, <2>2, <2>3, <2>7 DEF Orderly, Same
      <3> QED BY <1>3, <2>1, <2>6, <3>1 DEF Orderly
    <2>9. Becomes(docs, journal, docs', journal', s, x)
      <3>1. docs'[x].live /\ docs'[x].symbol = s /\ (docs[x].live => docs[x].symbol = s)
        BY <2>2
      <3> QED BY ONLY <2>3, <2>6, <3>1, OneMoves
    <2>10. CASE docs'[x].quantity = docs[x].quantity + n
      <3>1. /\ docs'[x].quantity = HeldIn(docs)[s] + n
            /\ journal'[x].net = BookedIn(docs, journal)[s] + n
        BY <2>4, <2>5, <2>7, <2>10
      <3>2. /\ HeldIn(docs') = [HeldIn(docs) EXCEPT ![s] = @ + n]
            /\ BookedIn(docs', journal') = [BookedIn(docs, journal) EXCEPT ![s] = @ + n]
        BY <2>9, <3>1 DEF Becomes
      <3>3. Atomic!Next
        BY <1>3, <2>1, <3>2, AtomicCredit
      <3> QED BY <1>7, <2>8, <3>3
    <2>11. CASE docs[x].quantity >= n /\ docs'[x].quantity = docs[x].quantity + (0 - n)
      <3>1. /\ docs'[x].quantity = HeldIn(docs)[s] + (0 - n)
            /\ journal'[x].net = BookedIn(docs, journal)[s] + (0 - n)
            /\ HeldIn(docs)[s] >= n
        BY <2>4, <2>5, <2>7, <2>11
      <3>2. /\ HeldIn(docs') = [HeldIn(docs) EXCEPT ![s] = @ + (0 - n)]
            /\ BookedIn(docs', journal') = [BookedIn(docs, journal) EXCEPT ![s] = @ + (0 - n)]
        BY <2>9, <3>1 DEF Becomes
      <3>3. Atomic!Next
        BY <1>3, <2>1, <3>1, <3>2, AtomicDebit
      <3> QED BY <1>7, <2>8, <3>3
    <2> QED BY <2>2, <2>10, <2>11
  <1> QED
    BY <1>3, <1>8, <1>9, <1>10

LEMMA SerialStep ==
    SerialInv /\ [MCNext]_mcVars => /\ SerialInv'
                                    /\ serial => [Atomic!Next]_(Atomic!vars)
  <1> SUFFICES ASSUME SerialInv, [MCNext]_mcVars
               PROVE  SerialInv' /\ (serial => [Atomic!Next]_(Atomic!vars))
    OBVIOUS
  <1>1. KeepInv'
    BY KeepStep DEF SerialInv, MCNext, mcVars
  <1>2. CASE ~serial
    <2>1. serial' = serial
      BY DEF MCNext, mcVars
    <2> QED BY <1>1, <1>2, <2>1 DEF SerialInv
  <1>3. CASE serial /\ UNCHANGED mcVars
    <2>1. UNCHANGED vars /\ UNCHANGED serial
      BY <1>3 DEF mcVars
    <2>2. /\ Orderly' /\ \A v, w \in Workers : (pc[v] # "idle" /\ pc[w] # "idle")' => v = w
      BY <1>3, <2>1 DEF SerialInv, vars, Orderly, OnePerSymbol
    <2>3. \A w \in Workers : AtWork(w) => AtWork(w)'
      BY <2>1 DEF vars, AtWork, Moves, Drops, Closes, Untouched, After, Exists
    <2>4. \A w \in Workers : (pc[w] # "idle")' => AtWork(w)'
      BY <1>3, <2>1, <2>3 DEF SerialInv, vars
    <2>5. UNCHANGED Atomic!vars
      BY <2>1, AtomicStutter DEF vars
    <2> QED BY <1>1, <2>1, <2>2, <2>4, <2>5 DEF SerialInv
  <1>4. CASE serial /\ MCNext
    <2>1. PICK w \in Workers : Start(w) \/ Step(w)
      BY <1>4 DEF MCNext, Next
    <2>2. CASE Start(w)
      BY <1>4, <2>2, SerialStart
    <2>3. CASE Commit(w)
      BY <1>4, <2>3, SerialCommit
    <2>4. CASE Step(w) /\ ~Commit(w)
      BY <1>4, <2>4, SerialLookupFound, SerialLookupMissed, SerialCreate, SerialNoImport,
         SerialBooking, SerialAddAsset, SerialDeleteAsset, SerialDeletePortfolio, SerialFail
      DEF Step
    <2> QED BY <2>1, <2>2, <2>3, <2>4
  <1> QED
    BY <1>2, <1>3, <1>4

(* With one request at a time and no import, however requests fail between their *)
(* steps, the ledger does what AtomicLedger promises: each step of it is one of  *)
(* its operations, done at once and completely, or changes nothing that is held  *)
(* or booked.                                                                    *)
THEOREM SerialLedgerIsAtomic == MCSpec => RefinesAtomicLedger
  <1>1. MCInit => (serial => Atomic!Init)
    <2> SUFFICES ASSUME MCInit PROVE Atomic!Init
      OBVIOUS
    <2>1. portfolio.live = TRUE /\ \A a \in AssetIds : ~docs[a].live
      BY DEF MCInit, Init, NoAsset
    <2>2. \A s \in Symbols : HeldIn(docs)[s] = 0 /\ BookedIn(docs, journal)[s] = 0
      BY <2>1, NoneOfSymbol
    <2> QED BY <2>1, <2>2, AtomicInit
  <1>2. SerialInv /\ [MCNext]_mcVars => [serial => [Atomic!Next]_(Atomic!vars)]_mcVars
    BY SerialStep
  <1> QED
    BY <1>1, <1>2, SerialInit, SerialStep, PTL DEF MCSpec, RefinesAtomicLedger
=============================================================================

------------------------ MODULE RequestPipeline_proofs ------------------------
(***************************************************************************)
(* Proofs about RequestPipeline, for every number of workers and requests  *)
(* and every rule: a counter that nobody is working on and that nothing    *)
(* has disturbed runs out; what a key admits in a stretch of time is       *)
(* bounded; a handler runs only for a request that has been counted and,   *)
(* where it takes one, with the user of the token; and every call reaches  *)
(* the handler it means, whatever the order of the routes.                 *)
(***************************************************************************)
EXTENDS RequestPipeline, TLAPS

Counter == [value : Nat \ {0}, ttl : {NoTTL} \union 1 .. Duration]

\* What EXCEPT needs to know of the variables.
LimiterShape ==
    /\ counter = [k \in DOMAIN counter |-> counter[k]]
    /\ \A k \in DOMAIN counter : counter[k] \in Counter
    /\ pc \in [Workers -> {"idle", "incr", "expire", "ttl"}]
    /\ key = [w \in Workers |-> key[w]]
    /\ exists \in [Workers -> BOOLEAN]

\* A counter without a time to live is about to get it from the request that made it.
MakerExpires ==
    \A k \in DOMAIN counter \ disturbed :
        counter[k].ttl = NoTTL => \E w \in Workers : pc[w] = "expire" /\ key[w] = k

\* What EXISTS answered is true until INCR.
AnswerHolds ==
    \A w \in Workers : pc[w] = "incr" /\ exists[w] /\ key[w] \notin disturbed =>
        key[w] \in DOMAIN counter

LimiterInv == LimiterShape /\ MakerExpires /\ AnswerHolds

-----------------------------------------------------------------------------
LEMMA LimiterInvInit == LimiterInit => LimiterInv
  BY DEF LimiterInit, LimiterInv, LimiterShape, MakerExpires, AnswerHolds, Counter

LEMMA ExistsKeepsInv ==
  ASSUME LimiterInv, NEW w \in Workers, NEW k, Exists(w, k)
  PROVE  LimiterInv'
<1>1. /\ pc[w] = "idle"
      /\ pc' = [pc EXCEPT ![w] = "incr"]
      /\ key' = [key EXCEPT ![w] = k]
      /\ exists' = [exists EXCEPT ![w] = k \in DOMAIN counter]
      /\ UNCHANGED <<counter, disturbed>>
  BY DEF Exists, Goto, history
<1>2. LimiterShape'
  <2>1. exists' \in [Workers -> BOOLEAN]
    <3>1. \A b \in BOOLEAN : [exists EXCEPT ![w] = b] \in [Workers -> BOOLEAN]
      BY DEF LimiterInv, LimiterShape
    <3>2. CASE k \in DOMAIN counter
      BY <1>1, <3>1, <3>2
    <3>3. CASE k \notin DOMAIN counter
      <4>1. (k \in DOMAIN counter) = FALSE
        BY <3>3
      <4>2. exists' = [exists EXCEPT ![w] = FALSE]
        BY <1>1, <4>1, Zenon
      <4> QED
        BY <3>1, <4>2
    <3> QED
      BY <3>2, <3>3
  <2>2. Counter' = Counter
    BY DEF Counter
  <2>3. key' = [v \in Workers |-> key'[v]]
    BY <1>1 DEF LimiterInv, LimiterShape
  <2>4. pc' \in [Workers -> {"idle", "incr", "expire", "ttl"}]
    BY <1>1 DEF LimiterInv, LimiterShape
  <2> QED
    BY <1>1, <2>1, <2>2, <2>3, <2>4 DEF LimiterInv, LimiterShape
<1>3. MakerExpires'
  BY <1>1 DEF LimiterInv, LimiterShape, MakerExpires
<1>4. AnswerHolds'
  BY <1>1 DEF LimiterInv, LimiterShape, AnswerHolds
<1> QED
  BY <1>2, <1>3, <1>4 DEF LimiterInv

LEMMA IncrKeepsInv ==
  ASSUME LimiterInv, NEW w \in Workers, Incr(w)
  PROVE  LimiterInv'
<1> DEFINE k == key[w]
<1>1. /\ pc[w] = "incr"
      /\ counter' = With(counter, k, [value |-> ValueOf(k) + 1, ttl |-> TTLOf(k)])
      /\ pc' = [pc EXCEPT ![w] = IF exists[w] THEN "ttl" ELSE "expire"]
      /\ UNCHANGED <<key, exists, disturbed>>
  BY DEF Incr, Goto
<1>2. [value |-> ValueOf(k) + 1, ttl |-> TTLOf(k)] \in Counter
  BY DEF LimiterInv, LimiterShape, ValueOf, TTLOf, Counter, NoTTL
<1>3. /\ DOMAIN counter' = DOMAIN counter \union {k}
      /\ counter' = [l \in DOMAIN counter' |-> counter'[l]]
      /\ counter'[k] = [value |-> ValueOf(k) + 1, ttl |-> TTLOf(k)]
      /\ \A l \in DOMAIN counter : l # k => counter'[l] = counter[l]
  BY <1>1 DEF With
<1>4. LimiterShape'
  <2>1. \A l \in DOMAIN counter' : counter'[l] \in Counter
    BY <1>2, <1>3 DEF LimiterInv, LimiterShape
  <2>2. Counter' = Counter
    BY DEF Counter
  <2> QED
    BY <1>1, <1>3, <2>1, <2>2 DEF LimiterInv, LimiterShape
<1>5. MakerExpires'
  <2> SUFFICES ASSUME NEW l \in DOMAIN counter' \ disturbed', counter'[l].ttl = NoTTL
               PROVE  \E v \in Workers : pc'[v] = "expire" /\ key'[v] = l
    BY DEF MakerExpires
  <2>1. CASE l \in DOMAIN counter
    <3>1. counter[l].ttl = NoTTL
      BY <1>3, <2>1 DEF TTLOf
    <3>2. PICK v \in Workers : pc[v] = "expire" /\ key[v] = l
      BY <1>1, <2>1, <3>1 DEF LimiterInv, MakerExpires
    <3> QED
      BY <1>1, <3>2 DEF LimiterInv, LimiterShape
  <2>2. CASE l \notin DOMAIN counter
    <3>1. l = k
      BY <1>3, <2>2
    <3>2. ~exists[w]
      BY <1>1, <2>2, <3>1 DEF LimiterInv, AnswerHolds
    <3> QED
      BY <1>1, <3>1, <3>2 DEF LimiterInv, LimiterShape
  <2> QED
    BY <2>1, <2>2
<1>6. AnswerHolds'
  BY <1>1, <1>3 DEF LimiterInv, LimiterShape, AnswerHolds
<1> QED
  BY <1>4, <1>5, <1>6 DEF LimiterInv

LEMMA ExpireKeepsInv ==
  ASSUME LimiterInv, NEW w \in Workers, Expire(w)
  PROVE  LimiterInv'
<1> DEFINE k == key[w]
<1>1. /\ pc[w] = "expire"
      /\ counter' = IF k \in DOMAIN counter
                    THEN [counter EXCEPT ![k].ttl = Duration] ELSE counter
      /\ pc' = [pc EXCEPT ![w] = "ttl"]
      /\ UNCHANGED <<key, exists, disturbed>>
  BY DEF Expire, Goto, history
<1>2. /\ DOMAIN counter' = DOMAIN counter
      /\ counter' = [l \in DOMAIN counter' |-> counter'[l]]
      /\ \A l \in DOMAIN counter : l # k => counter'[l] = counter[l]
      /\ k \in DOMAIN counter => counter'[k] = [counter[k] EXCEPT !.ttl = Duration]
  BY <1>1 DEF LimiterInv, LimiterShape
<1>3. k \in DOMAIN counter => counter'[k] \in Counter /\ counter'[k].ttl # NoTTL
  BY <1>2, LimiterAssumption DEF LimiterInv, LimiterShape, Counter, NoTTL
<1>4. LimiterShape'
  <2>1. \A l \in DOMAIN counter' : counter'[l] \in Counter
    BY <1>2, <1>3 DEF LimiterInv, LimiterShape
  <2>2. Counter' = Counter
    BY DEF Counter
  <2> QED
    BY <1>1, <1>2, <2>1, <2>2 DEF LimiterInv, LimiterShape
<1>5. MakerExpires'
  <2> SUFFICES ASSUME NEW l \in DOMAIN counter' \ disturbed', counter'[l].ttl = NoTTL
               PROVE  \E v \in Workers : pc'[v] = "expire" /\ key'[v] = l
    BY DEF MakerExpires
  <2>1. l # k /\ counter[l].ttl = NoTTL
    BY <1>2, <1>3
  <2>2. PICK v \in Workers : pc[v] = "expire" /\ key[v] = l
    BY <1>1, <1>2, <2>1 DEF LimiterInv, MakerExpires
  <2> QED
    BY <1>1, <2>1, <2>2 DEF LimiterInv, LimiterShape
<1>6. AnswerHolds'
  BY <1>1, <1>2 DEF LimiterInv, LimiterShape, AnswerHolds
<1> QED
  BY <1>4, <1>5, <1>6 DEF LimiterInv

\* A request that ends was not about to set a time to live, or has disturbed the key.
LEMMA ForgetKeepsInv ==
  ASSUME LimiterInv, NEW w \in Workers, Forget(w), UNCHANGED counter,
         disturbed' = disturbed \/ disturbed' = disturbed \union {key[w]},
         pc[w] = "expire" => key[w] \in disturbed'
  PROVE  LimiterInv'
<1>1. /\ pc' = [pc EXCEPT ![w] = "idle"]
      /\ key' = [key EXCEPT ![w] = NotCalling]
      /\ exists' = [exists EXCEPT ![w] = FALSE]
  BY DEF Forget, Goto
<1>2. LimiterShape'
  <2>1. Counter' = Counter
    BY DEF Counter
  <2>2. key' = [v \in Workers |-> key'[v]]
    BY <1>1 DEF LimiterInv, LimiterShape
  <2> QED
    BY <1>1, <2>1, <2>2 DEF LimiterInv, LimiterShape
<1>3. MakerExpires'
  <2> SUFFICES ASSUME NEW l \in DOMAIN counter \ disturbed', counter[l].ttl = NoTTL
               PROVE  \E v \in Workers : pc'[v] = "expire" /\ key'[v] = l
    BY DEF MakerExpires
  <2>1. PICK v \in Workers : pc[v] = "expire" /\ key[v] = l
    BY DEF LimiterInv, MakerExpires
  <2>2. v # w
    BY <2>1
  <2> QED
    BY <1>1, <2>1, <2>2 DEF LimiterInv, LimiterShape
<1>4. AnswerHolds'
  BY <1>1 DEF LimiterInv, LimiterShape, AnswerHolds
<1> QED
  BY <1>2, <1>3, <1>4 DEF LimiterInv

LEMMA TickKeepsInv ==
  ASSUME LimiterInv, Tick
  PROVE  LimiterInv'
<1> DEFINE left == {l \in DOMAIN counter : counter[l].ttl # 1}
<1>1. /\ counter' = [k \in left |-> IF counter[k].ttl = NoTTL THEN counter[k]
                                   ELSE [counter[k] EXCEPT !.ttl = @ - 1]]
      /\ disturbed \subseteq disturbed'
      /\ \A w \in Workers : pc[w] # "idle" /\ TTLOf(key[w]) = 1 => key[w] \in disturbed'
      /\ UNCHANGED <<pc, key, exists>>
  BY DEF Tick
<1>2. \A k \in left : /\ counter'[k] \in Counter
                      /\ counter'[k].ttl = NoTTL <=> counter[k].ttl = NoTTL
  <2> SUFFICES ASSUME NEW k \in left
               PROVE  /\ counter'[k] \in Counter
                      /\ counter'[k].ttl = NoTTL <=> counter[k].ttl = NoTTL
    OBVIOUS
  <2>1. counter[k] \in Counter /\ counter[k].ttl # 1
    BY DEF LimiterInv, LimiterShape
  <2>2. CASE counter[k].ttl = NoTTL
    BY <1>1, <2>1, <2>2
  <2>3. CASE counter[k].ttl # NoTTL
    <3>1. counter'[k] = [counter[k] EXCEPT !.ttl = @ - 1]
      BY <1>1, <2>3
    <3>2. counter[k].ttl \in 2 .. Duration
      BY <2>1, <2>3, LimiterAssumption DEF Counter
    <3> QED
      BY <2>1, <2>3, <3>1, <3>2, LimiterAssumption DEF Counter, NoTTL
  <2> QED
    BY <2>2, <2>3
<1>3. DOMAIN counter' = left /\ counter' = [k \in DOMAIN counter' |-> counter'[k]]
  BY <1>1
<1>4. LimiterShape'
  <2>1. Counter' = Counter
    BY DEF Counter
  <2>2. \A k \in DOMAIN counter' : counter'[k] \in Counter
    BY <1>2, <1>3
  <2> QED
    BY <1>1, <1>3, <2>1, <2>2 DEF LimiterInv, LimiterShape
<1>5. MakerExpires'
  BY <1>1, <1>2, <1>3 DEF LimiterInv, MakerExpires
<1>6. AnswerHolds'
  <2> SUFFICES ASSUME NEW w \in Workers, pc[w] = "incr", exists[w], key[w] \notin disturbed'
               PROVE  key[w] \in DOMAIN counter'
    BY <1>1 DEF AnswerHolds
  <2>1. key[w] \in DOMAIN counter
    BY <1>1 DEF LimiterInv, AnswerHolds
  <2> QED
    BY <1>1, <1>3, <2>1 DEF TTLOf
<1> QED
  BY <1>4, <1>5, <1>6 DEF LimiterInv

LEMMA UnchangedKeepsInv == LimiterInv /\ UNCHANGED limiterVars => LimiterInv'
  BY DEF LimiterInv, LimiterShape, MakerExpires, AnswerHolds, Counter, limiterVars, history

LEMMA LimiterInvStep == LimiterInv /\ [Next]_vars => LimiterInv'
<1> SUFFICES ASSUME LimiterInv, [Next]_vars
             PROVE  LimiterInv'
  OBVIOUS
<1>1. CASE Tick
  BY <1>1, TickKeepsInv
<1>2. ASSUME NEW w \in Workers, Limit(w)
      PROVE  LimiterInv'
  <2>1. Exists(w, CompositeKey(w)) \/ Incr(w) \/ Expire(w)
    BY <1>2 DEF Limit, Consume
  <2> QED
    BY <2>1, ExistsKeepsInv, IncrKeepsInv, ExpireKeepsInv
<1>3. ASSUME NEW w \in Workers, Limited(w)
      PROVE  LimiterInv'
  BY <1>3, ForgetKeepsInv DEF Limited, Consumed, history
<1>4. ASSUME NEW w \in Workers, Fail(w)
      PROVE  LimiterInv'
  BY <1>4, ForgetKeepsInv, UnchangedKeepsInv DEF Fail, FailLimit
<1>5. ASSUME NEW w \in Workers, Arrive(w) \/ Validate(w) \/ Handle(w)
      PROVE  LimiterInv'
  BY <1>5, UnchangedKeepsInv DEF Arrive, Validate, Handle
<1>6. CASE UNCHANGED vars
  BY <1>6, UnchangedKeepsInv DEF vars
<1> QED
  BY <1>1, <1>2, <1>3, <1>4, <1>5, <1>6 DEF Next

-----------------------------------------------------------------------------
(* For any number of concurrent requests and any rule: a counter that nobody is  *)
(* working on has a time to live, unless a request failed on it or it expired    *)
(* while one was under way, so that a client that is refused is refused for a    *)
(* while only (RateLimitService.consume).                                        *)
THEOREM RunsOut == Spec => []UndisturbedRunsOut
<1>1. Init => LimiterInv
  BY LimiterInvInit DEF Init
<1>2. LimiterInv => UndisturbedRunsOut
  BY DEF LimiterInv, MakerExpires, UndisturbedRunsOut
<1> QED
  BY <1>1, <1>2, LimiterInvStep, PTL DEF Spec
-----------------------------------------------------------------------------
(* What a stretch of time admits *)

\* How many of the latest admissions on k the present counter has made, and the first of
\* them, which created it.
Part(k) == IF ValueOf(k) < Points THEN ValueOf(k) ELSE Points
First(k) == Len(admitted[k]) - Part(k) + 1

Ordered(k) ==
    /\ admitted[k] \in Seq(Nat)
    /\ \A i \in 1 .. Len(admitted[k]) : admitted[k][i] <= now
    /\ \A i, j \in 1 .. Len(admitted[k]) : i <= j => admitted[k][i] <= admitted[k][j]

Spaced(k) ==
    \A i \in 1 .. Len(admitted[k]) - 2 * Points + 1 :
        admitted[k][i] + Duration <= admitted[k][i + 2 * Points - 1]

\* A counter lives for a Duration at least, and began a Duration after the previous one,
\* which has made at most Points admissions.
Running(k) ==
    k \in DOMAIN counter =>
        /\ First(k) >= 1
        /\ counter[k].ttl # NoTTL => admitted[k][First(k)] + Duration <= now + counter[k].ttl
        /\ First(k) > Points =>
               admitted[k][First(k) - Points] + Duration <= admitted[k][First(k)]

\* The latest counter is gone, a Duration after it began.
Gone(k) ==
    k \notin DOMAIN counter /\ Len(admitted[k]) >= Points =>
        admitted[k][Len(admitted[k]) - Points + 1] + Duration <= now

KeyInv(k) == Ordered(k) /\ Spaced(k) /\ Running(k) /\ Gone(k)

WindowInv ==
    /\ LimiterInv
    /\ now \in Nat
    /\ DOMAIN counter \subseteq DOMAIN admitted
    /\ \A k \in DOMAIN admitted : KeyInv(k)

LEMMA KeyStands ==
  ASSUME NEW k, KeyInv(k), admitted'[k] = admitted[k], now' = now,
         k \in DOMAIN counter' <=> k \in DOMAIN counter,
         k \in DOMAIN counter => counter'[k] = counter[k]
  PROVE  KeyInv(k)'
<1>1. k \in DOMAIN counter => First(k)' = First(k)
  BY DEF First, Part, ValueOf
<1>2. Ordered(k)' /\ Spaced(k)' /\ Gone(k)'
  BY DEF KeyInv, Ordered, Spaced, Gone
<1>3. Running(k)'
  BY <1>1 DEF KeyInv, Running
<1> QED
  BY <1>2, <1>3 DEF KeyInv

LEMMA StandKeepsWindow ==
  ASSUME WindowInv, LimiterInv', UNCHANGED <<counter, now, admitted>>
  PROVE  WindowInv'
  BY KeyStands DEF WindowInv

LEMMA ExpireKeepsWindow ==
  ASSUME WindowInv, LimiterInv', NEW w \in Workers, Expire(w)
  PROVE  WindowInv'
<1>0. PICK k : k = key[w]
  OBVIOUS
<1>1. /\ now' = now /\ admitted' = admitted
      /\ DOMAIN counter' = DOMAIN counter
      /\ \A l \in DOMAIN counter : l # k => counter'[l] = counter[l]
      /\ k \in DOMAIN counter => counter'[k] = [counter[k] EXCEPT !.ttl = Duration]
  BY <1>0 DEF Expire, history, WindowInv, LimiterInv, LimiterShape
<1>2. ASSUME NEW l \in DOMAIN admitted, l # k
      PROVE  KeyInv(l)'
  BY <1>1, <1>2, KeyStands DEF WindowInv
<1>3. ASSUME k \in DOMAIN admitted, k \in DOMAIN counter
      PROVE  KeyInv(k)'
  <2>1. counter[k] \in Counter /\ KeyInv(k)
    BY <1>3 DEF WindowInv, LimiterInv, LimiterShape
  <2>2. counter'[k].value = counter[k].value /\ counter'[k].ttl = Duration
    BY <1>1, <1>3, <2>1 DEF Counter
  <2>3. First(k)' = First(k) /\ First(k) \in Int /\ Len(admitted[k]) \in Nat
    BY <1>1, <1>3, <2>1, <2>2, LimiterAssumption
       DEF First, Part, ValueOf, KeyInv, Ordered, Counter
  <2>4. Ordered(k)' /\ Spaced(k)' /\ Gone(k)'
    BY <1>1, <1>3, <2>1 DEF KeyInv, Ordered, Spaced, Gone
  <2>5. First(k) >= 1 /\ First(k) <= Len(admitted[k])
    BY <1>3, <2>1, LimiterAssumption DEF KeyInv, Running, Ordered, First, Part, ValueOf, Counter
  <2>6. admitted[k][First(k)] <= now /\ admitted[k][First(k)] \in Nat /\ now \in Nat
    BY <2>1, <2>3, <2>5 DEF KeyInv, Ordered, WindowInv
  <2>7. Running(k)'
    BY <1>1, <1>3, <2>1, <2>2, <2>3, <2>5, <2>6, LimiterAssumption DEF KeyInv, Running
  <2> QED
    BY <2>4, <2>7 DEF KeyInv
<1>4. ASSUME k \in DOMAIN admitted, k \notin DOMAIN counter
      PROVE  KeyInv(k)'
  BY <1>1, <1>4, KeyStands DEF WindowInv
<1> QED
  BY <1>1, <1>2, <1>3, <1>4 DEF WindowInv

LEMMA TickKeepsWindow ==
  ASSUME WindowInv, LimiterInv', Tick
  PROVE  WindowInv'
<1> DEFINE left == {l \in DOMAIN counter : counter[l].ttl # 1}
<1>1. /\ now' = now + 1 /\ now \in Nat /\ admitted' = admitted
      /\ DOMAIN counter' = left
      /\ \A k \in left : counter'[k] = IF counter[k].ttl = NoTTL THEN counter[k]
                                       ELSE [counter[k] EXCEPT !.ttl = @ - 1]
  BY DEF Tick, WindowInv
<1>2. ASSUME NEW k \in DOMAIN admitted
      PROVE  KeyInv(k)'
  <2>1. KeyInv(k) /\ admitted[k] \in Seq(Nat)
    BY DEF WindowInv, KeyInv, Ordered
  <2>2. Ordered(k)' /\ Spaced(k)'
    BY <1>1, <2>1 DEF KeyInv, Ordered, Spaced
  <2>3. Running(k)'
    <3> SUFFICES ASSUME k \in left
                 PROVE  Running(k)'
      BY <1>1 DEF Running
    <3>1. counter[k] \in Counter
      BY DEF WindowInv, LimiterInv, LimiterShape
    <3>2. /\ counter'[k].value = counter[k].value
          /\ counter[k].ttl = NoTTL => counter'[k].ttl = NoTTL
          /\ counter[k].ttl # NoTTL => counter'[k].ttl = counter[k].ttl - 1
      BY <1>1, <3>1 DEF Counter
    <3>3. First(k)' = First(k)
      BY <1>1, <3>2 DEF First, Part, ValueOf
    <3>4. counter[k].ttl # NoTTL => now' + counter'[k].ttl = now + counter[k].ttl
      BY <1>1, <3>1, <3>2 DEF Counter
    <3> QED
      BY <1>1, <2>1, <3>2, <3>3, <3>4 DEF KeyInv, Running
  <2>4. Gone(k)'
    <3> SUFFICES ASSUME k \notin left, Len(admitted[k]) >= Points
                 PROVE  admitted[k][Len(admitted[k]) - Points + 1] + Duration <= now + 1
      BY <1>1 DEF Gone
    <3> DEFINE p == Len(admitted[k]) - Points + 1
    <3>1. p \in 1 .. Len(admitted[k]) /\ admitted[k][p] \in Nat
      BY <2>1, LimiterAssumption
    <3>2. CASE k \notin DOMAIN counter
      <4>1. admitted[k][p] + Duration <= now
        BY <2>1, <3>2 DEF KeyInv, Gone
      <4> QED
        BY <1>1, <3>1, <4>1, LimiterAssumption
    <3>3. CASE k \in DOMAIN counter
      <4>1. counter[k] \in Counter /\ counter[k].ttl = 1
        BY <3>3 DEF WindowInv, LimiterInv, LimiterShape
      <4>2. First(k) \in 1 .. Len(admitted[k]) /\ p <= First(k)
        BY <2>1, <3>3, <4>1, LimiterAssumption
           DEF KeyInv, Running, First, Part, ValueOf, Counter
      <4>3. admitted[k][First(k)] + Duration <= now + 1
        BY <2>1, <3>3, <4>1 DEF KeyInv, Running, NoTTL
      <4>4. admitted[k][p] <= admitted[k][First(k)] /\ admitted[k][First(k)] \in Nat
        BY <2>1, <3>1, <4>2 DEF KeyInv, Ordered
      <4> QED
        BY SMTT(30), <1>1, <3>1, <4>3, <4>4, LimiterAssumption
    <3> QED
      BY <3>2, <3>3
  <2> QED
    BY <2>2, <2>3, <2>4 DEF KeyInv
<1>3. DOMAIN counter' \subseteq DOMAIN admitted'
  BY <1>1 DEF WindowInv
<1>4. now' \in Nat
  BY <1>1
<1> QED
  BY <1>1, <1>2, <1>3, <1>4 DEF WindowInv
\* One more admission, at time t, keeps the order and, if a counter began a Duration before
\* t among the latest 2 * P - 1, the spacing.
LEMMA AppendOrdered ==
  ASSUME NEW a \in Seq(Nat), NEW t \in Nat,
         \A i \in 1 .. Len(a) : a[i] <= t,
         \A i, j \in 1 .. Len(a) : i <= j => a[i] <= a[j]
  PROVE  /\ \A i \in 1 .. Len(Append(a, t)) : Append(a, t)[i] <= t
         /\ \A i, j \in 1 .. Len(Append(a, t)) :
                i <= j => Append(a, t)[i] <= Append(a, t)[j]
<1>1. /\ Len(Append(a, t)) = Len(a) + 1 /\ Len(a) \in Nat /\ Append(a, t)[Len(a) + 1] = t
      /\ \A i \in 1 .. Len(a) : Append(a, t)[i] = a[i] /\ a[i] \in Nat
  OBVIOUS
<1>2. \A i \in 1 .. Len(a) + 1 : i \in 1 .. Len(a) \/ i = Len(a) + 1
  BY <1>1
<1>3. \A i \in 1 .. Len(a) + 1 : Append(a, t)[i] <= t
  BY <1>1, <1>2
<1>4. ASSUME NEW i \in 1 .. Len(a) + 1, NEW j \in 1 .. Len(a) + 1, i <= j
      PROVE  Append(a, t)[i] <= Append(a, t)[j]
  <2>1. CASE j = Len(a) + 1
    BY <1>1, <1>3, <2>1
  <2>2. CASE j \in 1 .. Len(a)
    <3>1. i \in 1 .. Len(a)
      BY <1>1, <1>4, <2>2
    <3> QED
      BY <1>1, <1>4, <2>2, <3>1
  <2> QED
    BY <1>2, <2>1, <2>2
<1> QED
  BY <1>1, <1>3, <1>4

LEMMA Later ==
  ASSUME NEW t \in Nat, NEW u \in Nat, NEW v \in Nat, NEW D \in Nat, t <= u, u + D <= v
  PROVE  t + D <= v
  OBVIOUS

LEMMA Sooner ==
  ASSUME NEW t \in Nat, NEW u \in Nat, NEW v \in Nat, NEW D \in Nat, t + D <= u, u <= v
  PROVE  t + D <= v
  OBVIOUS

LEMMA Windows ==
  ASSUME NEW L \in Nat, NEW P \in Nat \ {0}, NEW i \in 1 .. L + 1 - 2 * P + 1
  PROVE  \/ i \in 1 .. L - 2 * P + 1 /\ i \in 1 .. L /\ i + 2 * P - 1 \in 1 .. L
         \/ /\ i = L + 2 - 2 * P /\ i \in 1 .. L
            /\ i + 2 * P - 1 = L + 1 /\ L + 1 >= 2 * P
  OBVIOUS

LEMMA AppendSpaced ==
  ASSUME NEW a \in Seq(Nat), NEW t \in Nat, NEW P \in Nat \ {0}, NEW D \in Nat,
         NEW L \in Nat, L = Len(a),
         \A i, j \in 1 .. L : i <= j => a[i] <= a[j],
         \A i \in 1 .. L - 2 * P + 1 : a[i] + D <= a[i + 2 * P - 1],
         L + 1 >= 2 * P => \E f \in L + 2 - 2 * P .. L : a[f] + D <= t
  PROVE  \A i \in 1 .. L + 1 - 2 * P + 1 :
             Append(a, t)[i] + D <= Append(a, t)[i + 2 * P - 1]
<1>1. /\ Append(a, t)[L + 1] = t
      /\ \A i \in 1 .. L : Append(a, t)[i] = a[i] /\ a[i] \in Nat
  OBVIOUS
<1> SUFFICES ASSUME NEW i \in 1 .. L + 1 - 2 * P + 1
             PROVE  Append(a, t)[i] + D <= Append(a, t)[i + 2 * P - 1]
  OBVIOUS
<1>2. CASE i \in 1 .. L - 2 * P + 1 /\ i \in 1 .. L /\ i + 2 * P - 1 \in 1 .. L
  BY <1>1, <1>2
<1>3. CASE /\ i = L + 2 - 2 * P /\ i \in 1 .. L
           /\ i + 2 * P - 1 = L + 1 /\ L + 1 >= 2 * P
  <2>1. PICK f \in i .. L : a[f] + D <= t
    BY <1>3
  <2>2. f \in 1 .. L /\ i <= f
    BY <1>3
  <2>3. a[i] <= a[f] /\ a[i] \in Nat /\ a[f] \in Nat
    BY <1>1, <1>3, <2>2
  <2>4. a[i] + D <= t
    BY <2>1, <2>3, Later
  <2> QED
    BY <1>1, <1>3, <2>4
<1> QED
  BY <1>2, <1>3, Windows

\* What has been admitted on k, and that it is in order.
LEMMA AdmissionsKept ==
  ASSUME WindowInv, NEW k
  PROVE  /\ AdmissionsOn(k) \in Seq(Nat) /\ now \in Nat
         /\ \A i \in 1 .. Len(AdmissionsOn(k)) : AdmissionsOn(k)[i] <= now
         /\ \A i, j \in 1 .. Len(AdmissionsOn(k)) :
                i <= j => AdmissionsOn(k)[i] <= AdmissionsOn(k)[j]
         /\ \A i \in 1 .. Len(AdmissionsOn(k)) - 2 * Points + 1 :
                AdmissionsOn(k)[i] + Duration <= AdmissionsOn(k)[i + 2 * Points - 1]
<1>1. CASE k \in DOMAIN admitted
  <2>1. AdmissionsOn(k) = admitted[k] /\ KeyInv(k) /\ now \in Nat
    BY <1>1 DEF AdmissionsOn, WindowInv
  <2> QED
    BY <2>1 DEF KeyInv, Ordered, Spaced
<1>2. CASE k \notin DOMAIN admitted
  <2>1. AdmissionsOn(k) = <<>> /\ now \in Nat
    BY <1>2 DEF AdmissionsOn, WindowInv
  <2>2. Len(<<>>) = 0 /\ <<>> \in Seq(Nat) /\ 1 .. 0 = {}
        /\ 1 .. 0 - 2 * Points + 1 = {}
    BY LimiterAssumption
  <2> QED
    BY <2>1, <2>2
<1> QED
  BY <1>1, <1>2

\* An admission of the counter on k, whose first admission has become f.
LEMMA AdmissionKeepsKey ==
  ASSUME WindowInv, NEW k, k \in DOMAIN counter', now' = now,
         admitted'[k] = Append(AdmissionsOn(k), now),
         NEW L \in Nat, L = Len(AdmissionsOn(k)),
         NEW f \in 1 .. L + 1, First(k)' = f,
         counter'[k].ttl # NoTTL =>
             admitted'[k][f] + Duration <= now + counter'[k].ttl,
         f > Points => AdmissionsOn(k)[f - Points] + Duration <= admitted'[k][f],
         f + Points >= L + 2
  PROVE  KeyInv(k)'
<1>1. PICK a \in Seq(Nat) : a = AdmissionsOn(k)
  BY AdmissionsKept
<1>2. PICK t \in Nat : t = now
  BY AdmissionsKept
<1>3. /\ \A i \in 1 .. Len(a) : a[i] <= t
      /\ \A i, j \in 1 .. Len(a) : i <= j => a[i] <= a[j]
      /\ \A i \in 1 .. Len(a) - 2 * Points + 1 : a[i] + Duration <= a[i + 2 * Points - 1]
  BY <1>1, <1>2, AdmissionsKept
<1>4. /\ admitted'[k] = Append(a, t) /\ now' = t
      /\ Append(a, t) \in Seq(Nat) /\ Len(a) = L
      /\ \A i \in 1 .. L : Append(a, t)[i] = a[i] /\ a[i] \in Nat
      /\ Append(a, t)[L + 1] = t
  BY <1>1, <1>2
<1>5. Ordered(k)'
  BY <1>3, <1>4, AppendOrdered DEF Ordered
<1>6. f > Points => f - Points \in 1 .. L
  BY LimiterAssumption
<1>7. Running(k)'
  BY <1>1, <1>4, <1>6 DEF Running
<1>8. L + 1 >= 2 * Points => \E g \in L + 2 - 2 * Points .. L : a[g] + Duration <= t
  <2> SUFFICES ASSUME L + 1 >= 2 * Points
               PROVE  \E g \in L + 2 - 2 * Points .. L : a[g] + Duration <= t
    OBVIOUS
  <2>1. f > Points /\ f - Points \in L + 2 - 2 * Points .. L
    BY LimiterAssumption
  <2>2. PICK g \in L + 2 - 2 * Points .. L : g = f - Points /\ g \in 1 .. L
    BY <1>6, <2>1
  <2>3. PICK u \in Nat : u = Append(a, t)[f] /\ u <= t
    BY <1>3, <1>4
  <2>4. a[g] + Duration <= u /\ a[g] \in Nat
    BY <1>1, <1>4, <2>1, <2>2, <2>3
  <2>5. a[g] + Duration <= t
    <3>1. PICK v \in Nat : v = a[g] /\ v + Duration <= u
      BY <2>4
    <3>2. v + Duration <= t
      BY <2>3, <3>1, Sooner, LimiterAssumption
    <3> QED
      BY <3>1, <3>2
  <2> QED
    BY <2>5
<1>9. Spaced(k)'
  <2>1. \A i \in 1 .. L + 1 - 2 * Points + 1 :
           Append(a, t)[i] + Duration <= Append(a, t)[i + 2 * Points - 1]
    BY <1>3, <1>4, <1>8, AppendSpaced, LimiterAssumption
  <2>2. PICK c : c = admitted'[k]
    OBVIOUS
  <2>3. c = Append(a, t) /\ Len(c) = L + 1
    BY <1>4, <2>2
  <2>4. \A i \in 1 .. Len(c) - 2 * Points + 1 : c[i] + Duration <= c[i + 2 * Points - 1]
    <3> SUFFICES ASSUME NEW i \in 1 .. Len(c) - 2 * Points + 1
                 PROVE  c[i] + Duration <= c[i + 2 * Points - 1]
      OBVIOUS
    <3>1. i \in 1 .. L + 1 - 2 * Points + 1
      BY <2>3, LimiterAssumption
    <3>2. Append(a, t)[i] + Duration <= Append(a, t)[i + 2 * Points - 1]
      BY <2>1, <3>1
    <3> QED
      BY <2>3, <3>2
  <2> QED
    BY <2>2, <2>4 DEF Spaced
<1>10. Gone(k)'
  BY DEF Gone
<1> QED
  BY <1>5, <1>7, <1>9, <1>10 DEF KeyInv

\* The first admission of a new counter.
LEMMA FirstAdmission ==
  ASSUME WindowInv, NEW k, k \notin DOMAIN counter,
         k \in DOMAIN counter', counter'[k].value = 1, counter'[k].ttl = NoTTL, now' = now,
         admitted'[k] = Append(AdmissionsOn(k), now)
  PROVE  KeyInv(k)'
<1>1. PICK a \in Seq(Nat) : a = AdmissionsOn(k)
  BY AdmissionsKept
<1>2. PICK L \in Nat : L = Len(a)
  OBVIOUS
<1>3. now \in Nat /\ Len(admitted'[k]) = L + 1 /\ admitted'[k][L + 1] = now
  BY <1>1, <1>2, AdmissionsKept
<1>4. First(k)' = L + 1
  <2>1. Part(k)' = 1
    BY LimiterAssumption DEF Part, ValueOf
  <2> QED
    BY <1>3, <2>1 DEF First
<1>5. L + 1 > Points => a[L + 1 - Points] + Duration <= now
  <2> SUFFICES ASSUME L + 1 > Points
               PROVE  a[L + 1 - Points] + Duration <= now
    OBVIOUS
  <2>1. L >= Points /\ L - Points + 1 = L + 1 - Points /\ L # 0
    BY LimiterAssumption
  <2>2. k \in DOMAIN admitted
    <3>1. AdmissionsOn(k) # <<>>
      BY <1>1, <1>2, <2>1
    <3> QED
      BY <3>1 DEF AdmissionsOn
  <2>3. Gone(k) /\ admitted[k] = a
    BY <1>1, <2>2 DEF WindowInv, KeyInv, AdmissionsOn
  <2> QED
    BY <1>2, <2>1, <2>3 DEF Gone
<1>6. PICK f \in 1 .. L + 1 : f = L + 1 /\ f + Points >= L + 2
  BY LimiterAssumption
<1>7. /\ First(k)' = f
      /\ f > Points => a[f - Points] + Duration <= admitted'[k][f]
  BY <1>3, <1>4, <1>5, <1>6, LimiterAssumption
<1> QED
  BY <1>1, <1>2, <1>6, <1>7, AdmissionKeepsKey

\* One more admission of a counter that still has points.
LEMMA NextAdmission ==
  ASSUME WindowInv, NEW k, k \in DOMAIN counter, counter[k].value < Points,
         k \in DOMAIN counter', counter'[k].value = counter[k].value + 1,
         counter'[k].ttl = counter[k].ttl, now' = now,
         admitted'[k] = Append(AdmissionsOn(k), now)
  PROVE  KeyInv(k)'
<1>1. PICK a \in Seq(Nat) : a = AdmissionsOn(k)
  BY AdmissionsKept
<1>2. PICK L \in Nat : L = Len(a)
  OBVIOUS
<1>3. /\ k \in DOMAIN admitted /\ admitted[k] = a /\ Running(k)
      /\ counter[k] \in Counter
  BY <1>1 DEF WindowInv, LimiterInv, LimiterShape, KeyInv, AdmissionsOn
<1>4. PICK n \in Nat \ {0} : n = counter[k].value /\ n < Points
  BY <1>3 DEF Counter
<1>5. PICK b \in Int : b = L - n + 1
  OBVIOUS
<1>6. now \in Nat /\ Len(admitted'[k]) = L + 1
      /\ \A i \in 1 .. L : admitted'[k][i] = a[i]
  BY <1>1, <1>2, AdmissionsKept
<1>7. First(k) = b /\ First(k)' = b
  <2>1. Part(k) = n /\ Part(k)' = n + 1
    BY <1>4, LimiterAssumption DEF Part, ValueOf
  <2>2. Len(admitted[k]) - Part(k) + 1 = b
    BY <1>2, <1>3, <1>5, <2>1
  <2>3. L + 1 - (n + 1) + 1 = b
    BY <1>5
  <2> QED
    BY <1>6, <2>1, <2>2, <2>3 DEF First
<1>8. b \in 1 .. L /\ b \in 1 .. L + 1 /\ b + Points >= L + 2
  <2>1. b >= 1
    BY <1>3, <1>7 DEF Running
  <2> QED
    BY SMTT(30), <1>4, <1>5, <2>1, LimiterAssumption
<1>9. /\ counter[k].ttl # NoTTL => a[b] + Duration <= now + counter[k].ttl
      /\ b > Points => a[b - Points] + Duration <= a[b]
  BY <1>3, <1>7 DEF Running
<1>10. admitted'[k][b] = a[b]
  BY <1>6, <1>8
<1> QED
  BY <1>1, <1>2, <1>7, <1>8, <1>9, <1>10, AdmissionKeepsKey

LEMMA IncrKeepsWindow ==
  ASSUME WindowInv, LimiterInv', NEW w \in Workers, Incr(w)
  PROVE  WindowInv'
<1>1. PICK k : k = key[w]
  OBVIOUS
<1>2. /\ counter' = With(counter, k, [value |-> ValueOf(k) + 1, ttl |-> TTLOf(k)])
      /\ admitted' = IF Exceeds(ValueOf(k) + 1) THEN admitted
                     ELSE With(admitted, k, Append(AdmissionsOn(k), now))
      /\ now' = now
  BY <1>1 DEF Incr
<1>3. /\ DOMAIN counter' = DOMAIN counter \union {k}
      /\ counter'[k].value = ValueOf(k) + 1 /\ counter'[k].ttl = TTLOf(k)
      /\ \A l \in DOMAIN counter : l # k => counter'[l] = counter[l]
  BY <1>2 DEF With
<1>4. k \in DOMAIN counter => counter[k] \in Counter /\ k \in DOMAIN admitted
  BY DEF WindowInv, LimiterInv, LimiterShape
<1>5. CASE Exceeds(ValueOf(k) + 1)
  <2>1. admitted' = admitted
    BY <1>2, <1>5
  <2>2. k \in DOMAIN counter /\ counter[k].value >= Points
    BY <1>1, <1>4, <1>5, LimiterAssumption DEF Exceeds, ValueOf, Counter
  <2>3. /\ counter'[k].value >= Points /\ counter'[k].ttl = counter[k].ttl
    BY <1>3, <1>4, <2>2, LimiterAssumption DEF ValueOf, TTLOf, Counter
  <2>4. First(k)' = First(k)
    <3>1. Part(k) = Points /\ Part(k)' = Points
      BY <1>3, <1>4, <2>2, <2>3, LimiterAssumption DEF Part, ValueOf, Counter
    <3> QED
      BY <2>1, <3>1 DEF First
  <2>5. KeyInv(k)'
    <3>1. KeyInv(k)
      BY <1>4, <2>2 DEF WindowInv
    <3>2. Ordered(k)' /\ Spaced(k)' /\ Gone(k)'
      BY <1>2, <1>3, <2>1, <3>1 DEF KeyInv, Ordered, Spaced, Gone
    <3>3. Running(k)'
      BY <1>2, <2>1, <2>2, <2>3, <2>4, <3>1 DEF KeyInv, Running
    <3> QED
      BY <3>2, <3>3 DEF KeyInv
  <2>6. ASSUME NEW l \in DOMAIN admitted, l # k
        PROVE  KeyInv(l)'
    <3>1. KeyInv(l)
      BY DEF WindowInv
    <3> QED
      BY <1>2, <1>3, <2>1, <2>6, <3>1, KeyStands
  <2>7. DOMAIN counter' \subseteq DOMAIN admitted' /\ now' \in Nat
    BY <1>2, <1>3, <1>4, <2>1, <2>2 DEF WindowInv
  <2> QED
    BY <2>1, <2>5, <2>6, <2>7 DEF WindowInv
<1>6. CASE ~Exceeds(ValueOf(k) + 1)
  <2>1. /\ DOMAIN admitted' = DOMAIN admitted \union {k}
        /\ admitted'[k] = Append(AdmissionsOn(k), now)
        /\ \A l \in DOMAIN admitted : l # k => admitted'[l] = admitted[l]
    BY <1>2, <1>6 DEF With
  <2>2. KeyInv(k)'
    <3>1. CASE k \in DOMAIN counter
      <4>1. counter[k].value < Points /\ ValueOf(k) = counter[k].value
            /\ TTLOf(k) = counter[k].ttl
        BY <1>1, <1>4, <1>6, <3>1, LimiterAssumption DEF Exceeds, ValueOf, TTLOf, Counter
      <4> QED
        BY <1>2, <1>3, <2>1, <3>1, <4>1, NextAdmission
    <3>2. CASE k \notin DOMAIN counter
      <4>1. ValueOf(k) = 0 /\ TTLOf(k) = NoTTL
        BY <3>2 DEF ValueOf, TTLOf
      <4> QED
        BY <1>2, <1>3, <2>1, <3>2, <4>1, FirstAdmission
    <3> QED
      BY <3>1, <3>2
  <2>3. ASSUME NEW l \in DOMAIN admitted, l # k
        PROVE  KeyInv(l)'
    <3>1. KeyInv(l)
      BY DEF WindowInv
    <3> QED
      BY <1>2, <1>3, <2>1, <2>3, <3>1, KeyStands
  <2>4. DOMAIN counter' \subseteq DOMAIN admitted' /\ now' \in Nat
    BY <1>2, <1>3, <2>1 DEF WindowInv
  <2> QED
    BY <2>1, <2>2, <2>3, <2>4 DEF WindowInv
<1> QED
  BY <1>5, <1>6

LEMMA WindowInvStep == WindowInv /\ [Next]_vars => WindowInv'
<1> SUFFICES ASSUME WindowInv, [Next]_vars
             PROVE  WindowInv'
  OBVIOUS
<1>1. LimiterInv'
  BY LimiterInvStep DEF WindowInv
<1>2. CASE Tick
  BY <1>1, <1>2, TickKeepsWindow
<1>3. ASSUME NEW w \in Workers, Limit(w)
      PROVE  WindowInv'
  <2>1. Exists(w, CompositeKey(w)) \/ Incr(w) \/ Expire(w)
    BY <1>3 DEF Limit, Consume
  <2> QED
    BY <1>1, <2>1, StandKeepsWindow, IncrKeepsWindow, ExpireKeepsWindow DEF Exists, history
<1>4. ASSUME NEW w \in Workers,
             Limited(w) \/ Fail(w) \/ Arrive(w) \/ Validate(w) \/ Handle(w)
      PROVE  WindowInv'
  BY <1>1, <1>4, StandKeepsWindow
     DEF Limited, Consumed, Fail, FailLimit, Arrive, Validate, Handle, limiterVars, history
<1>5. CASE UNCHANGED vars
  BY <1>1, <1>5, StandKeepsWindow DEF vars, limiterVars, history
<1> QED
  BY <1>2, <1>3, <1>4, <1>5 DEF Next

(* For any number of concurrent requests and any rule, wherever requests fail or a  *)
(* counter expires in the middle of one: of the requests that one key admits, the   *)
(* first and the last of any 2 * points in a row are a duration apart               *)
(* (RateLimitService.consume).                                                      *)
THEOREM WindowsAreBounded == Spec => []WindowBounded
<1>1. Init => WindowInv
  <2>1. Init => LimiterInv
    BY LimiterInvInit DEF Init
  <2> QED
    BY <2>1 DEF Init, LimiterInit, WindowInv
<1>2. WindowInv => WindowBounded
  BY DEF WindowInv, KeyInv, Spaced, WindowBounded
<1> QED
  BY <1>1, <1>2, WindowInvStep, PTL DEF Spec
-----------------------------------------------------------------------------
(* The routes *)

\* The forms in which routes name guards, rules and the user.
Guarded(r) ==
    \/ r.guards = <<>> /\ ~r.takesUser /\ r.rule = "global"
    \/ r.guards = <<"jwt">> /\ r.rule = "global"
    \/ r.guards = <<"jwt-refresh">> /\ r.rule = "global"
    \/ r.guards = <<"web-socket">> /\ r.rule = "global"
    \/ r.guards = <<"jwt", "rate-limit">> /\ r.rule # "global"

\* What the decorators of a handler say of its answer.
Documented(r) ==
    \/ r.documented = {}
    \/ r.code # 0 /\ r.code \in r.documented
    \/ r.code = 0 /\ r.verb = "POST" /\ 201 \in r.documented
    \/ r.code = 0 /\ r.verb # "POST" /\ 200 \in r.documented
    \/ r.handler \in Misdocumented

Answers(r, verb, code, statuses) ==
    r.verb = verb /\ r.code = code /\ r.documented = statuses

Formed(r) == Guarded(r) /\ Documented(r)

WellFormed(s) == (\E S : s \in Seq(S)) /\ \A i \in 1 .. Len(s) : Formed(s[i])

LEMMA Concat ==
  ASSUME NEW s, NEW t, WellFormed(s), WellFormed(t)
  PROVE  WellFormed(s \o t)
<1>1. PICK S : s \in Seq(S)
  BY DEF WellFormed
<1>2. PICK T : t \in Seq(T)
  BY DEF WellFormed
<1>3. s \in Seq(S \union T) /\ t \in Seq(S \union T)
  BY <1>1, <1>2
<1>4. s \o t \in Seq(S \union T) /\ Len(s \o t) = Len(s) + Len(t)
  BY <1>3
<1>5. ASSUME NEW i \in 1 .. Len(s \o t)
      PROVE  Formed((s \o t)[i])
  <2>1. CASE i <= Len(s)
    BY <1>3, <1>4, <2>1 DEF WellFormed
  <2>2. CASE i > Len(s)
    <3>1. i - Len(s) \in 1 .. Len(t) /\ (s \o t)[i] = t[i - Len(s)]
      BY <1>3, <1>4, <2>2
    <3> QED
      BY <3>1 DEF WellFormed
  <2> QED
    BY <1>3, <1>4, <2>1, <2>2
<1> QED
  BY <1>4, <1>5 DEF WellFormed

LEMMA RoutesFormed == WellFormed(Routes)
<1>1. WellFormed(AccountRoutes)
  <2>1. /\ Guarded(AccountRoutes[1]) /\ Guarded(AccountRoutes[2])
        /\ Guarded(AccountRoutes[3])
    BY ZenonT(30) DEF AccountRoutes, Guarded, Auth, Route
  <2>2. /\ Answers(AccountRoutes[1], "POST", 0, {201, 400})
        /\ Answers(AccountRoutes[2], "POST", 200, {200, 401})
        /\ Answers(AccountRoutes[3], "POST", 200, {200, 401})
    BY ZenonT(30) DEF Answers, AccountRoutes, Auth, Route
  <2>3. /\ Documented(AccountRoutes[1]) /\ Documented(AccountRoutes[2])
        /\ Documented(AccountRoutes[3])
    BY <2>2 DEF Answers, Documented
  <2>4. /\ AccountRoutes \in Seq({AccountRoutes[i] : i \in 1 .. 3})
        /\ Len(AccountRoutes) = 3
    BY DEF AccountRoutes
  <2> QED
    BY <2>1, <2>3, <2>4 DEF WellFormed, Formed
<1>2. WellFormed(SessionRoutes)
  <2>1. /\ Guarded(SessionRoutes[1]) /\ Guarded(SessionRoutes[2])
        /\ Guarded(SessionRoutes[3]) /\ Guarded(SessionRoutes[4])
    BY ZenonT(30) DEF SessionRoutes, Guarded, Own, Auth, Route
  <2>2. /\ Answers(SessionRoutes[1], "POST", 0, {200, 401})
        /\ Answers(SessionRoutes[2], "POST", 200, {200, 401})
        /\ Answers(SessionRoutes[3], "POST", 200, {200})
        /\ Answers(SessionRoutes[4], "POST", 200, {200, 401})
    BY ZenonT(30) DEF Answers, SessionRoutes, Own, Auth, Route
  <2>3. SessionRoutes[1].handler = "refreshToken"
    BY DEF SessionRoutes, Own, Auth, Route
  <2>4. /\ Documented(SessionRoutes[1]) /\ Documented(SessionRoutes[2])
        /\ Documented(SessionRoutes[3]) /\ Documented(SessionRoutes[4])
    BY <2>2, <2>3 DEF Answers, Documented, Misdocumented
  <2>5. /\ SessionRoutes \in Seq({SessionRoutes[i] : i \in 1 .. 4})
        /\ Len(SessionRoutes) = 4
    BY DEF SessionRoutes
  <2> QED
    BY <2>1, <2>4, <2>5 DEF WellFormed, Formed
<1>3. WellFormed(TwoFactorRoutes)
  <2>1. /\ Guarded(TwoFactorRoutes[1]) /\ Guarded(TwoFactorRoutes[2])
        /\ Guarded(TwoFactorRoutes[3]) /\ Guarded(TwoFactorRoutes[4])
        /\ Guarded(TwoFactorRoutes[5])
    BY ZenonT(30) DEF TwoFactorRoutes, Guarded, Own, Auth, Route
  <2>2. /\ Answers(TwoFactorRoutes[1], "POST", 200, {200})
        /\ Answers(TwoFactorRoutes[2], "POST", 200, {200})
        /\ Answers(TwoFactorRoutes[3], "POST", 200, {200})
        /\ Answers(TwoFactorRoutes[4], "POST", 200, {200, 401})
        /\ Answers(TwoFactorRoutes[5], "POST", 200, {200})
    BY DEF Answers, TwoFactorRoutes, Own, Auth, Route
  <2>3. /\ Documented(TwoFactorRoutes[1]) /\ Documented(TwoFactorRoutes[2])
        /\ Documented(TwoFactorRoutes[3]) /\ Documented(TwoFactorRoutes[4])
        /\ Documented(TwoFactorRoutes[5])
    BY <2>2 DEF Answers, Documented
  <2>4. /\ TwoFactorRoutes \in Seq({TwoFactorRoutes[i] : i \in 1 .. 5})
        /\ Len(TwoFactorRoutes) = 5
    BY DEF TwoFactorRoutes
  <2> QED
    BY <2>1, <2>3, <2>4 DEF WellFormed, Formed
<1>4. WellFormed(ProfileRoutes)
  <2>1. /\ Guarded(ProfileRoutes[1]) /\ Guarded(ProfileRoutes[2])
        /\ Guarded(ProfileRoutes[3]) /\ Guarded(ProfileRoutes[4])
    BY DEF ProfileRoutes, Guarded, Own, Auth, Route
  <2>2. /\ Answers(ProfileRoutes[1], "GET", 0, {})
        /\ Answers(ProfileRoutes[2], "POST", 0, {200, 400})
        /\ Answers(ProfileRoutes[3], "DELETE", 0, {200})
        /\ Answers(ProfileRoutes[4], "POST", 200, {200, 400})
    BY DEF Answers, ProfileRoutes, Own, Auth, Route
  <2>3. ProfileRoutes[2].handler = "updateUserRoles"
    BY DEF ProfileRoutes, Own, Auth, Route
  <2>4. /\ Documented(ProfileRoutes[1]) /\ Documented(ProfileRoutes[2])
        /\ Documented(ProfileRoutes[3]) /\ Documented(ProfileRoutes[4])
    BY <2>2, <2>3 DEF Answers, Documented, Misdocumented
  <2>5. /\ ProfileRoutes \in Seq({ProfileRoutes[i] : i \in 1 .. 4})
        /\ Len(ProfileRoutes) = 4
    BY DEF ProfileRoutes
  <2> QED
    BY <2>1, <2>4, <2>5 DEF WellFormed, Formed
<1>5. WellFormed(MarketSearchRoutes)
  <2>1. Guarded(MarketSearchRoutes[1])
    BY DEF MarketSearchRoutes, Guarded, Anyones, Route
  <2>2. Answers(MarketSearchRoutes[1], "GET", 0, {200, 400, 500})
    BY DEF Answers, MarketSearchRoutes, Anyones, Route
  <2>3. Documented(MarketSearchRoutes[1])
    BY <2>2 DEF Answers, Documented
  <2>4. /\ MarketSearchRoutes \in Seq({MarketSearchRoutes[i] : i \in 1 .. 1})
        /\ Len(MarketSearchRoutes) = 1
    BY DEF MarketSearchRoutes
  <2> QED
    BY <2>1, <2>3, <2>4 DEF WellFormed, Formed
<1>6. WellFormed(MarketRoutes)
  <2>1. Guarded(MarketRoutes[1]) /\ Guarded(MarketRoutes[2])
    BY ZenonT(30) DEF MarketRoutes, Guarded, Anyones, Route
  <2>2. /\ Answers(MarketRoutes[1], "GET", 0, {200, 500})
        /\ Answers(MarketRoutes[2], "GET", 0, {200, 404, 500})
    BY DEF Answers, MarketRoutes, Anyones, Route
  <2>3. Documented(MarketRoutes[1]) /\ Documented(MarketRoutes[2])
    BY <2>2 DEF Answers, Documented
  <2>4. /\ MarketRoutes \in Seq({MarketRoutes[i] : i \in 1 .. 2})
        /\ Len(MarketRoutes) = 2
    BY DEF MarketRoutes
  <2> QED
    BY <2>1, <2>3, <2>4 DEF WellFormed, Formed
<1>7. WellFormed(PriceRoutes)
  <2>1. /\ Guarded(PriceRoutes[1]) /\ Guarded(PriceRoutes[2]) /\ Guarded(PriceRoutes[3])
        /\ Guarded(PriceRoutes[4]) /\ Guarded(PriceRoutes[5]) /\ Guarded(PriceRoutes[6])
        /\ Guarded(PriceRoutes[7])
    BY ZenonT(30) DEF PriceRoutes, Guarded, Price, Route
  <2>2. /\ Answers(PriceRoutes[1], "GET", 0, {200, 400})
        /\ Answers(PriceRoutes[2], "GET", 0, {200, 400})
        /\ Answers(PriceRoutes[3], "GET", 0, {})
        /\ Answers(PriceRoutes[4], "GET", 0, {})
        /\ Answers(PriceRoutes[5], "GET", 0, {})
        /\ Answers(PriceRoutes[6], "GET", 0, {})
        /\ Answers(PriceRoutes[7], "GET", 0, {200})
    BY DEF Answers, PriceRoutes, Price, Route
  <2>3. /\ Documented(PriceRoutes[1]) /\ Documented(PriceRoutes[2])
        /\ Documented(PriceRoutes[3]) /\ Documented(PriceRoutes[4])
        /\ Documented(PriceRoutes[5]) /\ Documented(PriceRoutes[6])
        /\ Documented(PriceRoutes[7])
    BY <2>2 DEF Answers, Documented
  <2>4. /\ PriceRoutes \in Seq({PriceRoutes[i] : i \in 1 .. 7})
        /\ Len(PriceRoutes) = 7
    BY DEF PriceRoutes
  <2> QED
    BY <2>1, <2>3, <2>4 DEF WellFormed, Formed
<1>8. WellFormed(StreamRoutes)
  <2>1. Guarded(StreamRoutes[1])
    BY DEF StreamRoutes, Guarded, Route
  <2>2. Answers(StreamRoutes[1], "GET", 0, {200})
    BY DEF Answers, StreamRoutes, Route
  <2>3. Documented(StreamRoutes[1])
    BY <2>2 DEF Answers, Documented
  <2>4. /\ StreamRoutes \in Seq({StreamRoutes[i] : i \in 1 .. 1})
        /\ Len(StreamRoutes) = 1
    BY DEF StreamRoutes
  <2> QED
    BY <2>1, <2>3, <2>4 DEF WellFormed, Formed
<1>9. WellFormed(CreatePortfolioRoutes)
  <2>1. Guarded(CreatePortfolioRoutes[1])
    BY DEF CreatePortfolioRoutes, Guarded, Portfolio, Own, Route
  <2>2. Answers(CreatePortfolioRoutes[1], "POST", 201, {201, 400, 401})
    BY DEF Answers, CreatePortfolioRoutes, Portfolio, Own, Route
  <2>3. Documented(CreatePortfolioRoutes[1])
    BY <2>2 DEF Answers, Documented
  <2>4. /\ CreatePortfolioRoutes \in Seq({CreatePortfolioRoutes[i] : i \in 1 .. 1})
        /\ Len(CreatePortfolioRoutes) = 1
    BY DEF CreatePortfolioRoutes
  <2> QED
    BY <2>1, <2>3, <2>4 DEF WellFormed, Formed
<1>10. WellFormed(AddAssetRoutes)
  <2>1. Guarded(AddAssetRoutes[1])
    BY DEF AddAssetRoutes, Guarded, Portfolio, Own, Route
  <2>2. Answers(AddAssetRoutes[1], "POST", 201, {201, 404, 409})
    BY DEF Answers, AddAssetRoutes, Portfolio, Own, Route
  <2>3. Documented(AddAssetRoutes[1])
    BY <2>2 DEF Answers, Documented
  <2>4. /\ AddAssetRoutes \in Seq({AddAssetRoutes[i] : i \in 1 .. 1})
        /\ Len(AddAssetRoutes) = 1
    BY DEF AddAssetRoutes
  <2> QED
    BY <2>1, <2>3, <2>4 DEF WellFormed, Formed
<1>11. WellFormed(ReadPortfolioRoutes)
  <2>1. /\ Guarded(ReadPortfolioRoutes[1]) /\ Guarded(ReadPortfolioRoutes[2])
        /\ Guarded(ReadPortfolioRoutes[3]) /\ Guarded(ReadPortfolioRoutes[4])
    BY ZenonT(30) DEF ReadPortfolioRoutes, Guarded, Anyones, Portfolio, Route, Own
  <2>2. /\ Answers(ReadPortfolioRoutes[1], "GET", 0, {200})
        /\ Answers(ReadPortfolioRoutes[2], "GET", 0, {200, 404})
        /\ Answers(ReadPortfolioRoutes[3], "GET", 0, {200, 404})
        /\ Answers(ReadPortfolioRoutes[4], "GET", 0, {})
    BY DEF Answers, ReadPortfolioRoutes, Anyones, Portfolio, Route, Own
  <2>3. /\ Documented(ReadPortfolioRoutes[1]) /\ Documented(ReadPortfolioRoutes[2])
        /\ Documented(ReadPortfolioRoutes[3]) /\ Documented(ReadPortfolioRoutes[4])
    BY <2>2 DEF Answers, Documented
  <2>4. /\ ReadPortfolioRoutes \in Seq({ReadPortfolioRoutes[1], ReadPortfolioRoutes[2],
                                      ReadPortfolioRoutes[3], ReadPortfolioRoutes[4]})
        /\ Len(ReadPortfolioRoutes) = 4
    BY DEF ReadPortfolioRoutes
  <2> QED
    BY <2>1, <2>3, <2>4 DEF WellFormed, Formed
<1>12. WellFormed(ChangePortfolioRoutes)
  <2>1. /\ Guarded(ChangePortfolioRoutes[1]) /\ Guarded(ChangePortfolioRoutes[2])
        /\ Guarded(ChangePortfolioRoutes[3])
    BY DEF ChangePortfolioRoutes, Guarded, Portfolio, Own, Route
  <2>2. /\ Answers(ChangePortfolioRoutes[1], "PATCH", 0, {200, 404})
        /\ Answers(ChangePortfolioRoutes[2], "DELETE", 204, {204, 404})
        /\ Answers(ChangePortfolioRoutes[3], "PATCH", 0, {200, 404})
    BY DEF Answers, ChangePortfolioRoutes, Portfolio, Own, Route
  <2>3. /\ Documented(ChangePortfolioRoutes[1]) /\ Documented(ChangePortfolioRoutes[2])
        /\ Documented(ChangePortfolioRoutes[3])
    BY <2>2 DEF Answers, Documented
  <2>4. /\ ChangePortfolioRoutes \in Seq({ChangePortfolioRoutes[i] : i \in 1 .. 3})
        /\ Len(ChangePortfolioRoutes) = 3
    BY DEF ChangePortfolioRoutes
  <2> QED
    BY <2>1, <2>3, <2>4 DEF WellFormed, Formed
<1>13. WellFormed(AnalyticsRoutes)
  <2>1. /\ Guarded(AnalyticsRoutes[1]) /\ Guarded(AnalyticsRoutes[2])
        /\ Guarded(AnalyticsRoutes[3]) /\ Guarded(AnalyticsRoutes[4])
    BY DEF AnalyticsRoutes, Guarded, Analytic, Anyones, Route
  <2>2. /\ Answers(AnalyticsRoutes[1], "GET", 0, {200})
        /\ Answers(AnalyticsRoutes[2], "GET", 0, {200})
        /\ Answers(AnalyticsRoutes[3], "GET", 0, {200})
        /\ Answers(AnalyticsRoutes[4], "GET", 0, {200})
    BY DEF Answers, AnalyticsRoutes, Analytic, Anyones, Route
  <2>3. /\ Documented(AnalyticsRoutes[1]) /\ Documented(AnalyticsRoutes[2])
        /\ Documented(AnalyticsRoutes[3]) /\ Documented(AnalyticsRoutes[4])
    BY <2>2 DEF Answers, Documented
  <2>4. /\ AnalyticsRoutes \in Seq({AnalyticsRoutes[i] : i \in 1 .. 4})
        /\ Len(AnalyticsRoutes) = 4
    BY DEF AnalyticsRoutes
  <2> QED
    BY <2>1, <2>3, <2>4 DEF WellFormed, Formed
<1>14. WellFormed(AssetRoutes)
  <2>1. Guarded(AssetRoutes[1]) /\ Guarded(AssetRoutes[2])
    BY DEF AssetRoutes, Guarded, Portfolio, Own, Route
  <2>2. /\ Answers(AssetRoutes[1], "GET", 0, {200})
        /\ Answers(AssetRoutes[2], "DELETE", 204, {204, 404})
    BY DEF Answers, AssetRoutes, Portfolio, Own, Route
  <2>3. Documented(AssetRoutes[1]) /\ Documented(AssetRoutes[2])
    BY <2>2 DEF Answers, Documented
  <2>4. /\ AssetRoutes \in Seq({AssetRoutes[i] : i \in 1 .. 2})
        /\ Len(AssetRoutes) = 2
    BY DEF AssetRoutes
  <2> QED
    BY <2>1, <2>3, <2>4 DEF WellFormed, Formed
<1>15. WellFormed(CreateTransactionRoutes)
  <2>1. Guarded(CreateTransactionRoutes[1])
    BY DEF CreateTransactionRoutes, Guarded, Portfolio, Own, Route
  <2>2. Answers(CreateTransactionRoutes[1], "POST", 201, {201, 400, 401, 403})
    BY DEF Answers, CreateTransactionRoutes, Portfolio, Own, Route
  <2>3. Documented(CreateTransactionRoutes[1])
    BY <2>2 DEF Answers, Documented
  <2>4. /\ CreateTransactionRoutes \in Seq({CreateTransactionRoutes[i] : i \in 1 .. 1})
        /\ Len(CreateTransactionRoutes) = 1
    BY DEF CreateTransactionRoutes
  <2> QED
    BY <2>1, <2>3, <2>4 DEF WellFormed, Formed
<1>16. WellFormed(ReadTransactionRoutes)
  <2>1. Guarded(ReadTransactionRoutes[1])
    BY DEF ReadTransactionRoutes, Guarded, Portfolio, Own, Route
  <2>2. Answers(ReadTransactionRoutes[1], "GET", 0, {200, 401, 403})
    BY DEF Answers, ReadTransactionRoutes, Portfolio, Own, Route
  <2>3. Documented(ReadTransactionRoutes[1])
    BY <2>2 DEF Answers, Documented
  <2>4. /\ ReadTransactionRoutes \in Seq({ReadTransactionRoutes[i] : i \in 1 .. 1})
        /\ Len(ReadTransactionRoutes) = 1
    BY DEF ReadTransactionRoutes
  <2> QED
    BY <2>1, <2>3, <2>4 DEF WellFormed, Formed
<1>17. WellFormed(HistoricalRoutes)
  <2>1. /\ Guarded(HistoricalRoutes[1]) /\ Guarded(HistoricalRoutes[2])
        /\ Guarded(HistoricalRoutes[3]) /\ Guarded(HistoricalRoutes[4])
        /\ Guarded(HistoricalRoutes[5])
    BY DEF HistoricalRoutes, Guarded, Historical, Anyones, Route
  <2>2. /\ Answers(HistoricalRoutes[1], "GET", 0, {200})
        /\ Answers(HistoricalRoutes[2], "GET", 0, {200})
        /\ Answers(HistoricalRoutes[3], "GET", 0, {200})
        /\ Answers(HistoricalRoutes[4], "GET", 0, {200})
        /\ Answers(HistoricalRoutes[5], "POST", 0, {200})
    BY DEF Answers, HistoricalRoutes, Historical, Anyones, Route
  <2>3. HistoricalRoutes[5].handler = "refreshHistoricalData"
    BY DEF HistoricalRoutes, Historical, Anyones, Route
  <2>4. /\ Documented(HistoricalRoutes[1]) /\ Documented(HistoricalRoutes[2])
        /\ Documented(HistoricalRoutes[3]) /\ Documented(HistoricalRoutes[4])
        /\ Documented(HistoricalRoutes[5])
    BY <2>2, <2>3 DEF Answers, Documented, Misdocumented
  <2>5. /\ HistoricalRoutes \in Seq({HistoricalRoutes[i] : i \in 1 .. 5})
        /\ Len(HistoricalRoutes) = 5
    BY DEF HistoricalRoutes
  <2> QED
    BY <2>1, <2>4, <2>5 DEF WellFormed, Formed
<1>18. WellFormed(CsvRoutes)
  <2>1. /\ Guarded(CsvRoutes[1]) /\ Guarded(CsvRoutes[2]) /\ Guarded(CsvRoutes[3])
        /\ Guarded(CsvRoutes[4])
    BY DEF CsvRoutes, Guarded, Own, Anyones, Route
  <2>2. /\ Answers(CsvRoutes[1], "POST", 0, {})
        /\ Answers(CsvRoutes[2], "GET", 0, {})
        /\ Answers(CsvRoutes[3], "GET", 0, {})
        /\ Answers(CsvRoutes[4], "GET", 0, {})
    BY DEF Answers, CsvRoutes, Own, Anyones, Route
  <2>3. /\ Documented(CsvRoutes[1]) /\ Documented(CsvRoutes[2]) /\ Documented(CsvRoutes[3])
        /\ Documented(CsvRoutes[4])
    BY <2>2 DEF Answers, Documented
  <2>4. /\ CsvRoutes \in Seq({CsvRoutes[i] : i \in 1 .. 4})
        /\ Len(CsvRoutes) = 4
    BY DEF CsvRoutes
  <2> QED
    BY <2>1, <2>3, <2>4 DEF WellFormed, Formed
<1>19. WellFormed(ExchangeRoutes)
  <2>1. /\ Guarded(ExchangeRoutes[1]) /\ Guarded(ExchangeRoutes[2])
        /\ Guarded(ExchangeRoutes[3]) /\ Guarded(ExchangeRoutes[4])
        /\ Guarded(ExchangeRoutes[5])
    BY ZenonT(30) DEF ExchangeRoutes, Guarded, Anyones, Exchange, Route, Own
  <2>2. /\ Answers(ExchangeRoutes[1], "POST", 0, {201, 400})
        /\ Answers(ExchangeRoutes[2], "GET", 0, {200})
        /\ Answers(ExchangeRoutes[3], "GET", 0, {200, 404})
        /\ Answers(ExchangeRoutes[4], "DELETE", 0, {200, 404})
        /\ Answers(ExchangeRoutes[5], "POST", 0, {200, 404})
    BY ZenonT(30) DEF Answers, ExchangeRoutes, Anyones, Exchange, Route, Own
  <2>3. ExchangeRoutes[5].handler = "syncAccount"
    BY DEF ExchangeRoutes, Anyones, Exchange, Route, Own
  <2>4. /\ Documented(ExchangeRoutes[1]) /\ Documented(ExchangeRoutes[2])
        /\ Documented(ExchangeRoutes[3]) /\ Documented(ExchangeRoutes[4])
        /\ Documented(ExchangeRoutes[5])
    BY <2>2, <2>3 DEF Answers, Documented, Misdocumented
  <2>5. /\ ExchangeRoutes \in Seq({ExchangeRoutes[1], ExchangeRoutes[2], ExchangeRoutes[3],
                                 ExchangeRoutes[4], ExchangeRoutes[5]})
        /\ Len(ExchangeRoutes) = 5
    BY DEF ExchangeRoutes
  <2> QED
    BY <2>1, <2>4, <2>5 DEF WellFormed, Formed
<1>20. WellFormed(WalletRoutes)
  <2>1. /\ Guarded(WalletRoutes[1]) /\ Guarded(WalletRoutes[2]) /\ Guarded(WalletRoutes[3])
    BY DEF WalletRoutes, Guarded, Wallet, Own, Route
  <2>2. /\ Answers(WalletRoutes[1], "POST", 0, {201, 400})
        /\ Answers(WalletRoutes[2], "GET", 0, {200})
        /\ Answers(WalletRoutes[3], "DELETE", 0, {200, 404})
    BY DEF Answers, WalletRoutes, Wallet, Own, Route
  <2>3. /\ Documented(WalletRoutes[1]) /\ Documented(WalletRoutes[2])
        /\ Documented(WalletRoutes[3])
    BY <2>2 DEF Answers, Documented
  <2>4. /\ WalletRoutes \in Seq({WalletRoutes[i] : i \in 1 .. 3})
        /\ Len(WalletRoutes) = 3
    BY DEF WalletRoutes
  <2> QED
    BY <2>1, <2>3, <2>4 DEF WellFormed, Formed
<1>21. WellFormed(ChangeWatchlistRoutes)
  <2>1. /\ Guarded(ChangeWatchlistRoutes[1]) /\ Guarded(ChangeWatchlistRoutes[2])
        /\ Guarded(ChangeWatchlistRoutes[3]) /\ Guarded(ChangeWatchlistRoutes[4])
    BY DEF ChangeWatchlistRoutes, Guarded, Watchlist, Own, Route
  <2>2. /\ Answers(ChangeWatchlistRoutes[1], "POST", 0, {201})
        /\ Answers(ChangeWatchlistRoutes[2], "PUT", 0, {200})
        /\ Answers(ChangeWatchlistRoutes[3], "DELETE", 0, {204})
        /\ Answers(ChangeWatchlistRoutes[4], "POST", 0, {200})
    BY DEF Answers, ChangeWatchlistRoutes, Watchlist, Own, Route
  <2>3. /\ ChangeWatchlistRoutes[3].handler = "deleteWatchlist"
        /\ ChangeWatchlistRoutes[4].handler = "addAssetToWatchlist"
    BY DEF ChangeWatchlistRoutes, Watchlist, Own, Route
  <2>4. /\ Documented(ChangeWatchlistRoutes[1]) /\ Documented(ChangeWatchlistRoutes[2])
        /\ Documented(ChangeWatchlistRoutes[3]) /\ Documented(ChangeWatchlistRoutes[4])
    BY <2>2, <2>3 DEF Answers, Documented, Misdocumented
  <2>5. /\ ChangeWatchlistRoutes \in Seq({ChangeWatchlistRoutes[i] : i \in 1 .. 4})
        /\ Len(ChangeWatchlistRoutes) = 4
    BY DEF ChangeWatchlistRoutes
  <2> QED
    BY <2>1, <2>4, <2>5 DEF WellFormed, Formed
<1>22. WellFormed(ReadWatchlistRoutes)
  <2>1. /\ Guarded(ReadWatchlistRoutes[1]) /\ Guarded(ReadWatchlistRoutes[2])
        /\ Guarded(ReadWatchlistRoutes[3]) /\ Guarded(ReadWatchlistRoutes[4])
    BY DEF ReadWatchlistRoutes, Guarded, Watchlist, Own, Route
  <2>2. /\ Answers(ReadWatchlistRoutes[1], "DELETE", 0, {200})
        /\ Answers(ReadWatchlistRoutes[2], "GET", 0, {200})
        /\ Answers(ReadWatchlistRoutes[3], "GET", 0, {200})
        /\ Answers(ReadWatchlistRoutes[4], "GET", 0, {200})
    BY DEF Answers, ReadWatchlistRoutes, Watchlist, Own, Route
  <2>3. /\ Documented(ReadWatchlistRoutes[1]) /\ Documented(ReadWatchlistRoutes[2])
        /\ Documented(ReadWatchlistRoutes[3]) /\ Documented(ReadWatchlistRoutes[4])
    BY <2>2 DEF Answers, Documented
  <2>4. /\ ReadWatchlistRoutes \in Seq({ReadWatchlistRoutes[i] : i \in 1 .. 4})
        /\ Len(ReadWatchlistRoutes) = 4
    BY DEF ReadWatchlistRoutes
  <2> QED
    BY <2>1, <2>3, <2>4 DEF WellFormed, Formed
<1>23. WellFormed(AlertRoutes)
  <2>1. /\ Guarded(AlertRoutes[1]) /\ Guarded(AlertRoutes[2]) /\ Guarded(AlertRoutes[3])
        /\ Guarded(AlertRoutes[4]) /\ Guarded(AlertRoutes[5])
    BY ZenonT(30) DEF AlertRoutes, Guarded, Anyones, Alert, Route, Own
  <2>2. /\ Answers(AlertRoutes[1], "POST", 0, {201, 400, 401})
        /\ Answers(AlertRoutes[2], "GET", 0, {200, 401})
        /\ Answers(AlertRoutes[3], "PATCH", 0, {200, 400, 401, 404})
        /\ Answers(AlertRoutes[4], "POST", 0, {})
        /\ Answers(AlertRoutes[5], "DELETE", 204, {204, 403, 404})
    BY ZenonT(30) DEF Answers, AlertRoutes, Anyones, Alert, Route, Own
  <2>3. /\ Documented(AlertRoutes[1]) /\ Documented(AlertRoutes[2])
        /\ Documented(AlertRoutes[3]) /\ Documented(AlertRoutes[4])
        /\ Documented(AlertRoutes[5])
    BY <2>2 DEF Answers, Documented
  <2>4. /\ AlertRoutes \in Seq({AlertRoutes[i] : i \in 1 .. 5})
        /\ Len(AlertRoutes) = 5
    BY DEF AlertRoutes
  <2> QED
    BY <2>1, <2>3, <2>4 DEF WellFormed, Formed
<1> QED
  BY <1>1, <1>2, <1>3, <1>4, <1>5, <1>6, <1>7, <1>8, <1>9, <1>10, <1>11, <1>12, <1>13,
     <1>14, <1>15, <1>16, <1>17, <1>18, <1>19, <1>20, <1>21, <1>22, <1>23, Concat DEF Routes

\* A rule of its own comes with a second limit, after a guard that sets the user, and a
\* user is taken only behind such a guard.
LEMMA FormsFit ==
  ASSUME NEW r, Formed(r)
  PROVE  /\ r.rule # "global" <=> "rate-limit" \in ToSet(r.guards)
         /\ r.takesUser \/ "rate-limit" \in ToSet(r.guards) => Authenticates(r)
         /\ \A token \in Tokens :
                Authenticates(r) /\ (\A g \in ToSet(r.guards) : Lets(g, token)) =>
                    token \in {"access", "refresh"}
<1>1. CASE r.guards = <<>> /\ ~r.takesUser /\ r.rule = "global"
  <2>1. ToSet(r.guards) = {}
    BY <1>1 DEF ToSet
  <2> QED
    BY <1>1, <2>1 DEF Authenticates
<1>2. ASSUME NEW g \in GuardNames, r.guards = <<g>>, r.rule = "global"
      PROVE  /\ r.rule # "global" <=> "rate-limit" \in ToSet(r.guards)
             /\ r.takesUser \/ "rate-limit" \in ToSet(r.guards) => Authenticates(r)
             /\ \A token \in Tokens :
                    Authenticates(r) /\ (\A h \in ToSet(r.guards) : Lets(h, token)) =>
                        token \in {"access", "refresh"}
  <2>1. ToSet(r.guards) = {g}
    BY <1>2 DEF ToSet
  <2> QED
    BY <1>2, <2>1 DEF Authenticates, GuardNames, Lets
<1>3. CASE r.guards = <<"jwt", "rate-limit">> /\ r.rule # "global"
  <2>1. ToSet(r.guards) = {"jwt", "rate-limit"}
    BY <1>3 DEF ToSet
  <2> QED
    BY <1>3, <2>1 DEF Authenticates, GuardNames, Lets
<1> QED
  BY <1>1, <1>2, <1>3 DEF Formed, Guarded, GuardNames
-----------------------------------------------------------------------------
(* The router *)

\* A word in place k of its path keeps r from the calls of q.
Tells(r, q, k) == Len(r.path) >= k /\ r.path[k] # "*" /\ r.path[k] # q.path[k]

\* No call of q is one that r, declared before it, would take for its own.
Apart(r, q) ==
    \/ r.verb # q.verb \/ Len(r.path) # Len(q.path)
    \/ Tells(r, q, 1) \/ Tells(r, q, 2) \/ Tells(r, q, 3)

Listed(s) == \E S : s \in Seq(S)
Separate(s) == \A i, j \in 1 .. Len(s) : i < j => Apart(s[i], s[j])
Across(s, t) == \A i \in 1 .. Len(s), j \in 1 .. Len(t) : Apart(s[i], t[j])

\* The path of r begins with one of the words W.
Begins(r, W) ==
    DOMAIN r.path = 1 .. Len(r.path) /\ Len(r.path) \in Nat \ {0} /\ r.path[1] \in W
Begin(s, W) == \A i \in 1 .. Len(s) : Begins(s[i], W)

\* Each of the routes s gets its own calls, and their paths begin with the words W.
Unambiguous(s, W) == Listed(s) /\ Separate(s) /\ Begin(s, W)

Is(r, verb, path) == r.verb = verb /\ r.path = path

\* What the router reads of a path of one to four segments.
Path(r, n) == Len(r.path) = n /\ DOMAIN r.path = 1 .. n
One(r, verb, a) == r.verb = verb /\ Path(r, 1) /\ r.path[1] = a
Two(r, verb, a, b) == r.verb = verb /\ Path(r, 2) /\ r.path[1] = a /\ r.path[2] = b
Three(r, verb, a, b, c) ==
    r.verb = verb /\ Path(r, 3) /\ r.path[1] = a /\ r.path[2] = b /\ r.path[3] = c
Four(r, verb, a, b, c, d) ==
    /\ r.verb = verb /\ Path(r, 4)
    /\ r.path[1] = a /\ r.path[2] = b /\ r.path[3] = c /\ r.path[4] = d

\* A path that is put together is the path of its parts.
LEMMA Spelled ==
  ASSUME NEW r, NEW verb, NEW a, NEW b, NEW c, NEW d
  PROVE  /\ Is(r, verb, <<a>>) => One(r, verb, a)
         /\ Is(r, verb, <<a, b>>) => Two(r, verb, a, b)
         /\ Is(r, verb, <<a, b, c>>) => Three(r, verb, a, b, c)
         /\ Is(r, verb, <<a, b, c, d>>) => Four(r, verb, a, b, c, d)
BY DEF One, Two, Three, Four, Path, Is

\* A route of two lists is one of the first or of the second.
LEMMA JoinedRoute ==
  ASSUME NEW s, NEW t, Listed(s), Listed(t)
  PROVE  /\ Listed(s \o t) /\ Len(s) \in Nat
         /\ \A i \in 1 .. Len(s \o t) :
               \/ i \in 1 .. Len(s) /\ (s \o t)[i] = s[i]
               \/ i > Len(s) /\ i - Len(s) \in 1 .. Len(t) /\ (s \o t)[i] = t[i - Len(s)]
<1>1. PICK S : s \in Seq(S)
  BY DEF Listed
<1>2. PICK T : t \in Seq(T)
  BY DEF Listed
<1>3. s \in Seq(S \union T) /\ t \in Seq(S \union T)
  BY <1>1, <1>2
<1>4. s \o t \in Seq(S \union T) /\ Len(s \o t) = Len(s) + Len(t)
  BY <1>3
<1>5. ASSUME NEW i \in 1 .. Len(s \o t)
      PROVE  \/ i \in 1 .. Len(s) /\ (s \o t)[i] = s[i]
             \/ i > Len(s) /\ i - Len(s) \in 1 .. Len(t) /\ (s \o t)[i] = t[i - Len(s)]
  BY <1>3, <1>4
<1> QED
  BY <1>1, <1>4, <1>5 DEF Listed

LEMMA JoinedSeparate ==
  ASSUME NEW s, NEW t, Listed(s), Listed(t), Separate(s), Separate(t), Across(s, t)
  PROVE  Separate(s \o t)
<1> SUFFICES ASSUME NEW i \in 1 .. Len(s \o t), NEW j \in 1 .. Len(s \o t), i < j
             PROVE  Apart((s \o t)[i], (s \o t)[j])
  BY DEF Separate
<1>1. /\ \/ i \in 1 .. Len(s) /\ (s \o t)[i] = s[i]
         \/ i > Len(s) /\ i - Len(s) \in 1 .. Len(t) /\ (s \o t)[i] = t[i - Len(s)]
      /\ \/ j \in 1 .. Len(s) /\ (s \o t)[j] = s[j]
         \/ j > Len(s) /\ j - Len(s) \in 1 .. Len(t) /\ (s \o t)[j] = t[j - Len(s)]
      /\ Len(s) \in Nat
  BY JoinedRoute
<1> QED
  BY <1>1 DEF Separate, Across

LEMMA JoinedAcross ==
  ASSUME NEW s, NEW t, NEW u, NEW W, Unambiguous(s, W), Unambiguous(t, W),
           Across(s, u), Across(t, u)
  PROVE  Across(s \o t, u)
<1> SUFFICES ASSUME NEW i \in 1 .. Len(s \o t), NEW j \in 1 .. Len(u)
             PROVE  Apart((s \o t)[i], u[j])
  BY DEF Across
<1>1. \/ i \in 1 .. Len(s) /\ (s \o t)[i] = s[i]
      \/ i > Len(s) /\ i - Len(s) \in 1 .. Len(t) /\ (s \o t)[i] = t[i - Len(s)]
  BY JoinedRoute DEF Unambiguous
<1> QED
  BY <1>1 DEF Across

LEMMA JoinedBegin ==
  ASSUME NEW s, NEW t, NEW W, NEW V, Listed(s), Listed(t), Begin(s, W), Begin(t, V)
  PROVE  Begin(s \o t, W \union V)
<1> SUFFICES ASSUME NEW i \in 1 .. Len(s \o t)
             PROVE  Begins((s \o t)[i], W \union V)
  BY DEF Begin
<1>1. \/ i \in 1 .. Len(s) /\ (s \o t)[i] = s[i]
      \/ i > Len(s) /\ i - Len(s) \in 1 .. Len(t) /\ (s \o t)[i] = t[i - Len(s)]
  BY JoinedRoute
<1>2. CASE i \in 1 .. Len(s) /\ (s \o t)[i] = s[i]
  BY <1>2 DEF Begin, Begins
<1>3. CASE i - Len(s) \in 1 .. Len(t) /\ (s \o t)[i] = t[i - Len(s)]
  BY <1>3 DEF Begin, Begins
<1> QED
  BY <1>1, <1>2, <1>3

\* Two lists of routes of one controller.
LEMMA Joined ==
  ASSUME NEW s, NEW t, NEW W, Unambiguous(s, W), Unambiguous(t, W), Across(s, t)
  PROVE  Unambiguous(s \o t, W)
<1>1. Listed(s \o t) /\ Separate(s \o t) /\ Begin(s \o t, W \union W)
  BY JoinedRoute, JoinedSeparate, JoinedBegin DEF Unambiguous
<1>2. W \union W = W
  OBVIOUS
<1> QED
  BY <1>1, <1>2 DEF Unambiguous

\* Controllers whose paths begin with different words.
LEMMA Added ==
  ASSUME NEW s, NEW t, NEW W, NEW V, Unambiguous(s, W), Unambiguous(t, V),
           W \intersect V = {}, "*" \notin W
  PROVE  Unambiguous(s \o t, W \union V)
<1>1. Across(s, t)
  <2>1. ASSUME NEW i \in 1 .. Len(s), NEW j \in 1 .. Len(t)
        PROVE  Apart(s[i], t[j])
    <3>1. Begins(s[i], W) /\ Begins(t[j], V)
      BY DEF Unambiguous, Begin
    <3> QED
      BY <3>1 DEF Begins, Apart, Tells
  <2> QED
    BY <2>1 DEF Across
<1> QED
  BY <1>1, JoinedRoute, JoinedSeparate, JoinedBegin DEF Unambiguous

\* Paths that are put together.
LEMMA Prefixed ==
  ASSUME NEW a, NEW b, NEW c
  PROVE  /\ <<a>> \o <<>> = <<a>>
         /\ <<a>> \o <<b>> = <<a, b>>
         /\ <<a>> \o <<b, c>> = <<a, b, c>>
         /\ <<a, b>> \o <<>> = <<a, b>>
         /\ <<a, b>> \o <<c>> = <<a, b, c>>
<1> DEFINE S == {a, b, c}
           s == <<a>> \o <<b>>
           t == <<a>> \o <<b, c>>
           v == <<a, b>> \o <<c>>
<1>1. s \in Seq(S) /\ Len(s) = 2 /\ s[1] = a /\ s[2] = b
  OBVIOUS
<1>2. t \in Seq(S) /\ Len(t) = 3 /\ t[1] = a /\ t[2] = b /\ t[3] = c
  OBVIOUS
<1>3. v \in Seq(S) /\ Len(v) = 3 /\ v[1] = a /\ v[2] = b /\ v[3] = c
  OBVIOUS
<1> HIDE DEF s, t, v, S
<1>4. s = [i \in 1 .. 2 |-> s[i]] /\ t = [i \in 1 .. 3 |-> t[i]] /\ v = [i \in 1 .. 3 |-> v[i]]
  BY <1>1, <1>2, <1>3
<1>5. <<a, b>> = [i \in 1 .. 2 |-> s[i]] /\ <<a, b, c>> = [i \in 1 .. 3 |-> t[i]]
  BY <1>1, <1>2
<1>6. <<a, b, c>> = [i \in 1 .. 3 |-> v[i]]
  BY <1>3
<1>7. s = <<a, b>> /\ t = <<a, b, c>> /\ v = <<a, b, c>>
  BY <1>4, <1>5, <1>6
<1>8. <<a>> \o <<>> = <<a>> /\ <<a, b>> \o <<>> = <<a, b>>
  OBVIOUS
<1> QED
  BY <1>7, <1>8 DEF s, t, v

\* Paths of four segments.
LEMMA PrefixedFour ==
  ASSUME NEW a, NEW b, NEW c, NEW d
  PROVE  /\ <<a>> \o <<b, c, d>> = <<a, b, c, d>>
         /\ <<a, b>> \o <<c, d>> = <<a, b, c, d>>
<1> DEFINE S == {a, b, c, d}
           u == <<a>> \o <<b, c, d>>
           w == <<a, b>> \o <<c, d>>
<1>1. u \in Seq(S) /\ Len(u) = 4 /\ u[1] = a /\ u[2] = b /\ u[3] = c /\ u[4] = d
  OBVIOUS
<1>2. w \in Seq(S) /\ Len(w) = 4 /\ w[1] = a /\ w[2] = b /\ w[3] = c /\ w[4] = d
  OBVIOUS
<1> HIDE DEF u, w, S
<1>3. u = [i \in 1 .. 4 |-> u[i]] /\ w = [i \in 1 .. 4 |-> w[i]]
  BY <1>1, <1>2
<1>4. <<a, b, c, d>> = [i \in 1 .. 4 |-> u[i]] /\ <<a, b, c, d>> = [i \in 1 .. 4 |-> w[i]]
  BY <1>1, <1>2
<1>5. u = <<a, b, c, d>> /\ w = <<a, b, c, d>>
  BY <1>3, <1>4
<1> QED
  BY <1>5 DEF u, w

\* AuthController.
LEMMA AuthPaths ==
    Unambiguous(AccountRoutes \o SessionRoutes \o TwoFactorRoutes
                \o ProfileRoutes,
                {"auth"})
<1>1. /\ AccountRoutes \in Seq({AccountRoutes[i] : i \in 1 .. 3})
      /\ Len(AccountRoutes) = 3 /\ 1 .. 3 = {1, 2, 3}
  BY DEF AccountRoutes
<1>2. /\ Two(AccountRoutes[1], "POST", "auth", "register")
      /\ Two(AccountRoutes[2], "POST", "auth", "login")
      /\ Two(AccountRoutes[3], "POST", "auth", "verify-email")
  <2>1. /\ Is(AccountRoutes[1], "POST", <<"auth", "register">>)
        /\ Is(AccountRoutes[2], "POST", <<"auth", "login">>)
        /\ Is(AccountRoutes[3], "POST", <<"auth", "verify-email">>)
    BY DEF Is, AccountRoutes, Auth, Route
  <2> QED
    BY <2>1, Spelled
<1>3. Unambiguous(AccountRoutes, {"auth"})
  <2>1. \A i, j \in {1, 2, 3} :
          i < j => Apart(AccountRoutes[i], AccountRoutes[j])
    BY <1>2 DEF Path, Two, Apart, Tells
  <2>2. \A i \in {1, 2, 3} : Begins(AccountRoutes[i], {"auth"})
    BY <1>2 DEF Path, Two, Begins
  <2> QED
    BY <1>1, <2>1, <2>2 DEF Unambiguous, Listed, Separate, Begin
<1>4. /\ SessionRoutes \in Seq({SessionRoutes[i] : i \in 1 .. 4})
      /\ Len(SessionRoutes) = 4 /\ 1 .. 4 = {1, 2, 3, 4}
  BY DEF SessionRoutes
<1>5. /\ Two(SessionRoutes[1], "POST", "auth", "refresh")
      /\ Two(SessionRoutes[2], "POST", "auth", "logout")
      /\ Two(SessionRoutes[3], "POST", "auth", "password-reset-request")
      /\ Two(SessionRoutes[4], "POST", "auth", "reset-password")
  <2>1. /\ Is(SessionRoutes[1], "POST", <<"auth", "refresh">>)
        /\ Is(SessionRoutes[2], "POST", <<"auth", "logout">>)
        /\ Is(SessionRoutes[3], "POST", <<"auth", "password-reset-request">>)
        /\ Is(SessionRoutes[4], "POST", <<"auth", "reset-password">>)
    BY DEF Is, SessionRoutes, Own, Auth, Route
  <2> QED
    BY <2>1, Spelled
<1>6. Unambiguous(SessionRoutes, {"auth"})
  <2>1. \A i, j \in {1, 2, 3, 4} :
          i < j => Apart(SessionRoutes[i], SessionRoutes[j])
    BY <1>5 DEF Path, Two, Apart, Tells
  <2>2. \A i \in {1, 2, 3, 4} : Begins(SessionRoutes[i], {"auth"})
    BY <1>5 DEF Path, Two, Begins
  <2> QED
    BY <1>4, <2>1, <2>2 DEF Unambiguous, Listed, Separate, Begin
<1>7. /\ TwoFactorRoutes \in Seq({TwoFactorRoutes[i] : i \in 1 .. 5})
      /\ Len(TwoFactorRoutes) = 5 /\ 1 .. 5 = {1, 2, 3, 4, 5}
  BY DEF TwoFactorRoutes
<1>8. /\ Two(TwoFactorRoutes[1], "POST", "auth", "setup-2fa")
      /\ Two(TwoFactorRoutes[2], "POST", "auth", "initiate-2fa-setup")
      /\ Two(TwoFactorRoutes[3], "POST", "auth", "complete-2fa-setup")
      /\ Two(TwoFactorRoutes[4], "POST", "auth", "verify-2fa")
      /\ Two(TwoFactorRoutes[5], "POST", "auth", "disable-2fa")
  <2>1. /\ Is(TwoFactorRoutes[1], "POST", <<"auth", "setup-2fa">>)
        /\ Is(TwoFactorRoutes[2], "POST", <<"auth", "initiate-2fa-setup">>)
        /\ Is(TwoFactorRoutes[3], "POST", <<"auth", "complete-2fa-setup">>)
        /\ Is(TwoFactorRoutes[4], "POST", <<"auth", "verify-2fa">>)
        /\ Is(TwoFactorRoutes[5], "POST", <<"auth", "disable-2fa">>)
    BY DEF Is, TwoFactorRoutes, Own, Auth, Route
  <2> QED
    BY <2>1, Spelled
<1>9. Unambiguous(TwoFactorRoutes, {"auth"})
  <2>1. \A i, j \in {1, 2, 3, 4, 5} :
          i < j => Apart(TwoFactorRoutes[i], TwoFactorRoutes[j])
    BY SMTT(30), <1>8 DEF Path, Two, Apart, Tells
  <2>2. \A i \in {1, 2, 3, 4, 5} : Begins(TwoFactorRoutes[i], {"auth"})
    BY <1>8 DEF Path, Two, Begins
  <2> QED
    BY <1>7, <2>1, <2>2 DEF Unambiguous, Listed, Separate, Begin
<1>10. /\ ProfileRoutes \in Seq({ProfileRoutes[i] : i \in 1 .. 4})
       /\ Len(ProfileRoutes) = 4 /\ 1 .. 4 = {1, 2, 3, 4}
  BY DEF ProfileRoutes
<1>11. /\ Two(ProfileRoutes[1], "GET", "auth", "me")
       /\ Three(ProfileRoutes[2], "POST", "auth", "admin", "update-roles")
       /\ Two(ProfileRoutes[3], "DELETE", "auth", "account-delete")
       /\ Two(ProfileRoutes[4], "POST", "auth", "resend-verification")
  <2>1. /\ Is(ProfileRoutes[1], "GET", <<"auth", "me">>)
        /\ Is(ProfileRoutes[2], "POST", <<"auth", "admin", "update-roles">>)
        /\ Is(ProfileRoutes[3], "DELETE", <<"auth", "account-delete">>)
        /\ Is(ProfileRoutes[4], "POST", <<"auth", "resend-verification">>)
    BY DEF Is, ProfileRoutes, Own, Auth, Route
  <2> QED
    BY <2>1, Spelled
<1>12. Unambiguous(ProfileRoutes, {"auth"})
  <2>1. \A i, j \in {1, 2, 3, 4} :
          i < j => Apart(ProfileRoutes[i], ProfileRoutes[j])
    BY <1>11 DEF Path, Two, Three, Apart, Tells
  <2>2. \A i \in {1, 2, 3, 4} : Begins(ProfileRoutes[i], {"auth"})
    BY <1>11 DEF Path, Two, Three, Begins
  <2> QED
    BY <1>10, <2>1, <2>2 DEF Unambiguous, Listed, Separate, Begin
<1>13. Across(AccountRoutes, SessionRoutes)
  <2>1. \A i \in {1, 2, 3}, j \in {1, 2, 3, 4} :
             Apart(AccountRoutes[i], SessionRoutes[j])
    <3>1. \A j \in {1, 2, 3, 4} : Apart(AccountRoutes[1], SessionRoutes[j])
      BY <1>2, <1>5 DEF Path, Two, Apart, Tells
    <3>2. \A j \in {1, 2, 3, 4} : Apart(AccountRoutes[2], SessionRoutes[j])
      BY <1>2, <1>5 DEF Path, Two, Apart, Tells
    <3>3. \A j \in {1, 2, 3, 4} : Apart(AccountRoutes[3], SessionRoutes[j])
      BY <1>2, <1>5 DEF Path, Two, Apart, Tells
    <3> QED
      BY <3>1, <3>2, <3>3
  <2> QED
    BY <1>1, <1>4, <2>1 DEF Across
<1>14. /\ Across(AccountRoutes, TwoFactorRoutes)
       /\ Across(SessionRoutes, TwoFactorRoutes)
  <2>1. \A i \in {1, 2, 3}, j \in {1, 2, 3, 4, 5} :
             Apart(AccountRoutes[i], TwoFactorRoutes[j])
    <3>1. \A j \in {1, 2, 3, 4, 5} : Apart(AccountRoutes[1], TwoFactorRoutes[j])
      BY <1>2, <1>8 DEF Path, Two, Apart, Tells
    <3>2. \A j \in {1, 2, 3, 4, 5} : Apart(AccountRoutes[2], TwoFactorRoutes[j])
      BY <1>2, <1>8 DEF Path, Two, Apart, Tells
    <3>3. \A j \in {1, 2, 3, 4, 5} : Apart(AccountRoutes[3], TwoFactorRoutes[j])
      BY <1>2, <1>8 DEF Path, Two, Apart, Tells
    <3> QED
      BY <3>1, <3>2, <3>3
  <2>2. \A i \in {1, 2, 3, 4}, j \in {1, 2, 3, 4, 5} :
             Apart(SessionRoutes[i], TwoFactorRoutes[j])
    <3>1. \A j \in {1, 2, 3, 4, 5} : Apart(SessionRoutes[1], TwoFactorRoutes[j])
      BY <1>5, <1>8 DEF Path, Two, Apart, Tells
    <3>2. \A j \in {1, 2, 3, 4, 5} : Apart(SessionRoutes[2], TwoFactorRoutes[j])
      BY <1>5, <1>8 DEF Path, Two, Apart, Tells
    <3>3. \A j \in {1, 2, 3, 4, 5} : Apart(SessionRoutes[3], TwoFactorRoutes[j])
      BY <1>5, <1>8 DEF Path, Two, Apart, Tells
    <3>4. \A j \in {1, 2, 3, 4, 5} : Apart(SessionRoutes[4], TwoFactorRoutes[j])
      BY <1>5, <1>8 DEF Path, Two, Apart, Tells
    <3> QED
      BY <3>1, <3>2, <3>3, <3>4
  <2> QED
    BY <1>1, <1>4, <1>7, <2>1, <2>2 DEF Across
<1>15. /\ Across(AccountRoutes, ProfileRoutes)
       /\ Across(SessionRoutes, ProfileRoutes)
       /\ Across(TwoFactorRoutes, ProfileRoutes)
  <2>1. \A i \in {1, 2, 3}, j \in {1, 2, 3, 4} :
             Apart(AccountRoutes[i], ProfileRoutes[j])
    <3>1. \A j \in {1, 2, 3, 4} : Apart(AccountRoutes[1], ProfileRoutes[j])
      BY <1>2, <1>11 DEF Path, Two, Three, Apart, Tells
    <3>2. \A j \in {1, 2, 3, 4} : Apart(AccountRoutes[2], ProfileRoutes[j])
      BY <1>2, <1>11 DEF Path, Two, Three, Apart, Tells
    <3>3. \A j \in {1, 2, 3, 4} : Apart(AccountRoutes[3], ProfileRoutes[j])
      BY <1>2, <1>11 DEF Path, Two, Three, Apart, Tells
    <3> QED
      BY <3>1, <3>2, <3>3
  <2>2. \A i \in {1, 2, 3, 4}, j \in {1, 2, 3, 4} :
             Apart(SessionRoutes[i], ProfileRoutes[j])
    <3>1. \A j \in {1, 2, 3, 4} : Apart(SessionRoutes[1], ProfileRoutes[j])
      BY <1>5, <1>11 DEF Path, Two, Three, Apart, Tells
    <3>2. \A j \in {1, 2, 3, 4} : Apart(SessionRoutes[2], ProfileRoutes[j])
      BY <1>5, <1>11 DEF Path, Two, Three, Apart, Tells
    <3>3. \A j \in {1, 2, 3, 4} : Apart(SessionRoutes[3], ProfileRoutes[j])
      BY <1>5, <1>11 DEF Path, Two, Three, Apart, Tells
    <3>4. \A j \in {1, 2, 3, 4} : Apart(SessionRoutes[4], ProfileRoutes[j])
      BY <1>5, <1>11 DEF Path, Two, Three, Apart, Tells
    <3> QED
      BY <3>1, <3>2, <3>3, <3>4
  <2>3. \A i \in {1, 2, 3, 4, 5}, j \in {1, 2, 3, 4} :
             Apart(TwoFactorRoutes[i], ProfileRoutes[j])
    <3>1. \A j \in {1, 2, 3, 4} : Apart(TwoFactorRoutes[1], ProfileRoutes[j])
      BY <1>8, <1>11 DEF Path, Two, Three, Apart, Tells
    <3>2. \A j \in {1, 2, 3, 4} : Apart(TwoFactorRoutes[2], ProfileRoutes[j])
      BY <1>8, <1>11 DEF Path, Two, Three, Apart, Tells
    <3>3. \A j \in {1, 2, 3, 4} : Apart(TwoFactorRoutes[3], ProfileRoutes[j])
      BY <1>8, <1>11 DEF Path, Two, Three, Apart, Tells
    <3>4. \A j \in {1, 2, 3, 4} : Apart(TwoFactorRoutes[4], ProfileRoutes[j])
      BY <1>8, <1>11 DEF Path, Two, Three, Apart, Tells
    <3>5. \A j \in {1, 2, 3, 4} : Apart(TwoFactorRoutes[5], ProfileRoutes[j])
      BY <1>8, <1>11 DEF Path, Two, Three, Apart, Tells
    <3> QED
      BY <3>1, <3>2, <3>3, <3>4, <3>5
  <2> QED
    BY <1>1, <1>4, <1>7, <1>10, <2>1, <2>2, <2>3 DEF Across
<1> DEFINE p2 == AccountRoutes \o SessionRoutes
           p3 == p2 \o TwoFactorRoutes
           p4 == p3 \o ProfileRoutes
<1>16. Unambiguous(p2, {"auth"})
  <2> QED
    BY <1>3, <1>6, <1>13, Joined
<1>17. Unambiguous(p3, {"auth"})
  <2> HIDE DEF p2
  <2>1. Across(p2, TwoFactorRoutes)
    BY <1>14, <1>3, <1>6, <1>16, JoinedAcross DEF p2
  <2> QED
    BY <1>16, <1>9, <2>1, Joined
<1>18. Unambiguous(p4, {"auth"})
  <2> HIDE DEF p2, p3
  <2>1. Across(p3, ProfileRoutes)
    BY <1>15, <1>3, <1>6, <1>9, <1>16, <1>17, JoinedAcross DEF p2, p3
  <2> QED
    BY <1>17, <1>12, <2>1, Joined
<1> QED
  BY <1>18

\* MarketController.
LEMMA MarketPaths ==
    Unambiguous(MarketSearchRoutes \o MarketRoutes,
                {"market"})
<1>1. /\ MarketSearchRoutes \in Seq({MarketSearchRoutes[i] : i \in 1 .. 1})
      /\ Len(MarketSearchRoutes) = 1 /\ 1 .. 1 = {1}
  BY DEF MarketSearchRoutes
<1>2. Three(MarketSearchRoutes[1], "GET", "market", "*", "search")
  <2>1. Is(MarketSearchRoutes[1], "GET", <<"market", "*", "search">>)
    BY DEF Is, MarketSearchRoutes, Anyones, Route
  <2> QED
    BY <2>1, Spelled
<1>3. Unambiguous(MarketSearchRoutes, {"market"})
  <2>1. \A i \in {1} : Begins(MarketSearchRoutes[i], {"market"})
    BY <1>2 DEF Path, Three, Begins
  <2> QED
    BY <1>1, <2>1 DEF Unambiguous, Listed, Separate, Begin
<1>4. /\ MarketRoutes \in Seq({MarketRoutes[i] : i \in 1 .. 2})
      /\ Len(MarketRoutes) = 2 /\ 1 .. 2 = {1, 2}
  BY DEF MarketRoutes
<1>5. /\ Two(MarketRoutes[1], "GET", "market", "trending")
      /\ Two(MarketRoutes[2], "GET", "market", "*")
  <2>1. /\ Is(MarketRoutes[1], "GET", <<"market", "trending">>)
        /\ Is(MarketRoutes[2], "GET", <<"market", "*">>)
    BY DEF Is, MarketRoutes, Anyones, Route
  <2> QED
    BY <2>1, Spelled
<1>6. Unambiguous(MarketRoutes, {"market"})
  <2>1. \A i, j \in {1, 2} :
          i < j => Apart(MarketRoutes[i], MarketRoutes[j])
    BY <1>5 DEF Path, Two, Apart, Tells
  <2>2. \A i \in {1, 2} : Begins(MarketRoutes[i], {"market"})
    BY <1>5 DEF Path, Two, Begins
  <2> QED
    BY <1>4, <2>1, <2>2 DEF Unambiguous, Listed, Separate, Begin
<1>7. Across(MarketSearchRoutes, MarketRoutes)
  <2>1. \A i \in {1}, j \in {1, 2} :
             Apart(MarketSearchRoutes[i], MarketRoutes[j])
    BY <1>2, <1>5 DEF Path, Two, Three, Apart, Tells
  <2> QED
    BY <1>1, <1>4, <2>1 DEF Across
<1> QED
  BY <1>3, <1>6, <1>7, Joined

\* PriceController.
LEMMA PricePaths == Unambiguous(PriceRoutes, {"prices"})
<1>1. /\ PriceRoutes \in Seq({PriceRoutes[i] : i \in 1 .. 7})
      /\ Len(PriceRoutes) = 7 /\ 1 .. 7 = {1, 2, 3, 4, 5, 6, 7}
  BY DEF PriceRoutes
<1>2. /\ One(PriceRoutes[1], "GET", "prices")
      /\ Three(PriceRoutes[2], "GET", "prices", "asset", "info")
      /\ Three(PriceRoutes[3], "GET", "prices", "*", "history")
      /\ Three(PriceRoutes[4], "GET", "prices", "*", "stats")
      /\ Two(PriceRoutes[5], "GET", "prices", "compare")
      /\ Three(PriceRoutes[6], "GET", "prices", "*", "indicators")
      /\ Two(PriceRoutes[7], "GET", "prices", "available")
  <2>1. /\ Is(PriceRoutes[1], "GET", <<"prices">>)
        /\ Is(PriceRoutes[2], "GET", <<"prices", "asset", "info">>)
        /\ Is(PriceRoutes[3], "GET", <<"prices", "*", "history">>)
        /\ Is(PriceRoutes[4], "GET", <<"prices", "*", "stats">>)
        /\ Is(PriceRoutes[5], "GET", <<"prices", "compare">>)
        /\ Is(PriceRoutes[6], "GET", <<"prices", "*", "indicators">>)
        /\ Is(PriceRoutes[7], "GET", <<"prices", "available">>)
    BY Prefixed DEF Is, PriceRoutes, Price, Route
  <2> QED
    BY <2>1, Spelled
<1>3. Unambiguous(PriceRoutes, {"prices"})
  <2>1. \A i \in {1} : Apart(PriceRoutes[i], PriceRoutes[2])
    BY <1>2 DEF Path, One, Two, Three, Apart, Tells
  <2>2. \A i \in {1, 2} : Apart(PriceRoutes[i], PriceRoutes[3])
    BY <1>2 DEF Path, One, Two, Three, Apart, Tells
  <2>3. \A i \in {1, 2, 3} : Apart(PriceRoutes[i], PriceRoutes[4])
    BY <1>2 DEF Path, One, Two, Three, Apart, Tells
  <2>4. \A i \in {1, 2, 3, 4} : Apart(PriceRoutes[i], PriceRoutes[5])
    BY <1>2 DEF Path, One, Two, Three, Apart, Tells
  <2>5. \A i \in {1, 2, 3, 4, 5} : Apart(PriceRoutes[i], PriceRoutes[6])
    BY <1>2 DEF Path, One, Two, Three, Apart, Tells
  <2>6. \A i \in {1, 2, 3, 4, 5, 6} : Apart(PriceRoutes[i], PriceRoutes[7])
    BY <1>2 DEF Path, One, Two, Three, Apart, Tells
  <2>7. \A i \in {1, 2, 3, 4, 5, 6, 7} : Begins(PriceRoutes[i], {"prices"})
    BY <1>2 DEF Path, One, Two, Three, Begins
  <2>8. \A i, j \in {1, 2, 3, 4, 5, 6, 7} :
          i < j => Apart(PriceRoutes[i], PriceRoutes[j])
    BY <2>1, <2>2, <2>3, <2>4, <2>5, <2>6
  <2> QED
    BY <1>1, <2>8, <2>7 DEF Unambiguous, Listed, Separate, Begin
<1> QED
  BY <1>3

\* WebSocketController.
LEMMA StreamPaths == Unambiguous(StreamRoutes, {"stream"})
<1>1. /\ StreamRoutes \in Seq({StreamRoutes[i] : i \in 1 .. 1})
      /\ Len(StreamRoutes) = 1 /\ 1 .. 1 = {1}
  BY DEF StreamRoutes
<1>2. Two(StreamRoutes[1], "GET", "stream", "prices")
  <2>1. Is(StreamRoutes[1], "GET", <<"stream", "prices">>)
    BY DEF Is, StreamRoutes, Route
  <2> QED
    BY <2>1, Spelled
<1>3. Unambiguous(StreamRoutes, {"stream"})
  <2>1. \A i \in {1} : Begins(StreamRoutes[i], {"stream"})
    BY <1>2 DEF Path, Two, Begins
  <2> QED
    BY <1>1, <2>1 DEF Unambiguous, Listed, Separate, Begin
<1> QED
  BY <1>3

\* PortfolioController and TransactionController.
LEMMA PortfolioPaths ==
    Unambiguous(CreatePortfolioRoutes \o AddAssetRoutes \o ReadPortfolioRoutes
                \o ChangePortfolioRoutes \o AnalyticsRoutes \o AssetRoutes
                \o CreateTransactionRoutes \o ReadTransactionRoutes,
                {"portfolio"})
<1>1. /\ CreatePortfolioRoutes \in Seq({CreatePortfolioRoutes[i] : i \in 1 .. 1})
      /\ Len(CreatePortfolioRoutes) = 1 /\ 1 .. 1 = {1}
  BY DEF CreatePortfolioRoutes
<1>2. Two(CreatePortfolioRoutes[1], "POST", "portfolio", "create")
  <2>1. Is(CreatePortfolioRoutes[1], "POST", <<"portfolio", "create">>)
    BY Prefixed DEF Is, CreatePortfolioRoutes, Portfolio, Own, Route
  <2> QED
    BY <2>1, Spelled
<1>3. Unambiguous(CreatePortfolioRoutes, {"portfolio"})
  <2>1. \A i \in {1} : Begins(CreatePortfolioRoutes[i], {"portfolio"})
    BY <1>2 DEF Path, Two, Begins
  <2> QED
    BY <1>1, <2>1 DEF Unambiguous, Listed, Separate, Begin
<1>4. /\ AddAssetRoutes \in Seq({AddAssetRoutes[i] : i \in 1 .. 1})
      /\ Len(AddAssetRoutes) = 1 /\ 1 .. 1 = {1}
  BY DEF AddAssetRoutes
<1>5. Three(AddAssetRoutes[1], "POST", "portfolio", "*", "assets")
  <2>1. Is(AddAssetRoutes[1], "POST", <<"portfolio", "*", "assets">>)
    BY Prefixed DEF Is, AddAssetRoutes, Portfolio, Own, Route
  <2> QED
    BY <2>1, Spelled
<1>6. Unambiguous(AddAssetRoutes, {"portfolio"})
  <2>1. \A i \in {1} : Begins(AddAssetRoutes[i], {"portfolio"})
    BY <1>5 DEF Path, Three, Begins
  <2> QED
    BY <1>4, <2>1 DEF Unambiguous, Listed, Separate, Begin
<1>7. /\ ReadPortfolioRoutes \in Seq({ReadPortfolioRoutes[1], ReadPortfolioRoutes[2],
                                       ReadPortfolioRoutes[3],
                                       ReadPortfolioRoutes[4]})
      /\ Len(ReadPortfolioRoutes) = 4 /\ 1 .. 4 = {1, 2, 3, 4}
  BY DEF ReadPortfolioRoutes
<1>8. /\ Two(ReadPortfolioRoutes[1], "GET", "portfolio", "portfolios")
      /\ Two(ReadPortfolioRoutes[2], "GET", "portfolio", "*")
      /\ Three(ReadPortfolioRoutes[3], "GET", "portfolio", "*", "metrics")
      /\ Three(ReadPortfolioRoutes[4], "GET", "portfolio", "dashboard", "summary")
  <2>1. /\ Is(ReadPortfolioRoutes[1], "GET", <<"portfolio", "portfolios">>)
        /\ Is(ReadPortfolioRoutes[2], "GET", <<"portfolio", "*">>)
        /\ Is(ReadPortfolioRoutes[3], "GET", <<"portfolio", "*", "metrics">>)
        /\ Is(ReadPortfolioRoutes[4], "GET", <<"portfolio", "dashboard", "summary">>)
    BY Prefixed DEF Is, ReadPortfolioRoutes, Portfolio, Own, Anyones, Route
  <2> QED
    BY <2>1, Spelled
<1>9. Unambiguous(ReadPortfolioRoutes, {"portfolio"})
  <2>1. \A i, j \in {1, 2, 3, 4} :
          i < j => Apart(ReadPortfolioRoutes[i], ReadPortfolioRoutes[j])
    BY SMTT(30), <1>8 DEF Path, Two, Three, Apart, Tells
  <2>2. \A i \in {1, 2, 3, 4} : Begins(ReadPortfolioRoutes[i], {"portfolio"})
    BY <1>8 DEF Path, Two, Three, Begins
  <2> QED
    BY <1>7, <2>1, <2>2 DEF Unambiguous, Listed, Separate, Begin
<1>10. /\ ChangePortfolioRoutes \in Seq({ChangePortfolioRoutes[i] : i \in 1 .. 3})
       /\ Len(ChangePortfolioRoutes) = 3 /\ 1 .. 3 = {1, 2, 3}
  BY DEF ChangePortfolioRoutes
<1>11. /\ Two(ChangePortfolioRoutes[1], "PATCH", "portfolio", "*")
       /\ Two(ChangePortfolioRoutes[2], "DELETE", "portfolio", "*")
       /\ Three(ChangePortfolioRoutes[3], "PATCH", "portfolio", "*", "set-primary")
  <2>1. /\ Is(ChangePortfolioRoutes[1], "PATCH", <<"portfolio", "*">>)
        /\ Is(ChangePortfolioRoutes[2], "DELETE", <<"portfolio", "*">>)
        /\ Is(ChangePortfolioRoutes[3], "PATCH", <<"portfolio", "*", "set-primary">>)
    BY Prefixed DEF Is, ChangePortfolioRoutes, Portfolio, Own, Route
  <2> QED
    BY <2>1, Spelled
<1>12. Unambiguous(ChangePortfolioRoutes, {"portfolio"})
  <2>1. \A i, j \in {1, 2, 3} :
          i < j => Apart(ChangePortfolioRoutes[i], ChangePortfolioRoutes[j])
    BY <1>11 DEF Path, Two, Three, Apart, Tells
  <2>2. \A i \in {1, 2, 3} : Begins(ChangePortfolioRoutes[i], {"portfolio"})
    BY <1>11 DEF Path, Two, Three, Begins
  <2> QED
    BY <1>10, <2>1, <2>2 DEF Unambiguous, Listed, Separate, Begin
<1>13. /\ AnalyticsRoutes \in Seq({AnalyticsRoutes[i] : i \in 1 .. 4})
       /\ Len(AnalyticsRoutes) = 4 /\ 1 .. 4 = {1, 2, 3, 4}
  BY DEF AnalyticsRoutes
<1>14. /\ Three(AnalyticsRoutes[1], "GET", "portfolio", "*", "performance")
       /\ Three(AnalyticsRoutes[2], "GET", "portfolio", "*", "health")
       /\ Three(AnalyticsRoutes[3], "GET", "portfolio", "*", "risk-analysis")
       /\ Three(AnalyticsRoutes[4], "GET", "portfolio", "*", "correlation-matrix")
  <2>1. /\ Is(AnalyticsRoutes[1], "GET", <<"portfolio", "*", "performance">>)
        /\ Is(AnalyticsRoutes[2], "GET", <<"portfolio", "*", "health">>)
        /\ Is(AnalyticsRoutes[3], "GET", <<"portfolio", "*", "risk-analysis">>)
        /\ Is(AnalyticsRoutes[4], "GET", <<"portfolio", "*", "correlation-matrix">>)
    BY DEF Is, AnalyticsRoutes, Analytic, Anyones, Route
  <2> QED
    BY <2>1, Spelled
<1>15. Unambiguous(AnalyticsRoutes, {"portfolio"})
  <2>1. \A i, j \in {1, 2, 3, 4} :
          i < j => Apart(AnalyticsRoutes[i], AnalyticsRoutes[j])
    BY <1>14 DEF Path, Three, Apart, Tells
  <2>2. \A i \in {1, 2, 3, 4} : Begins(AnalyticsRoutes[i], {"portfolio"})
    BY <1>14 DEF Path, Three, Begins
  <2> QED
    BY <1>13, <2>1, <2>2 DEF Unambiguous, Listed, Separate, Begin
<1>16. /\ AssetRoutes \in Seq({AssetRoutes[i] : i \in 1 .. 2})
       /\ Len(AssetRoutes) = 2 /\ 1 .. 2 = {1, 2}
  BY DEF AssetRoutes
<1>17. /\ Three(AssetRoutes[1], "GET", "portfolio", "*", "assets")
       /\ Four(AssetRoutes[2], "DELETE", "portfolio", "*", "assets", "*")
  <2>1. <<"portfolio">> \o <<"*", "assets", "*">>
           = <<"portfolio", "*", "assets", "*">>
    BY PrefixedFour
  <2>2. /\ Is(AssetRoutes[1], "GET", <<"portfolio", "*", "assets">>)
        /\ Is(AssetRoutes[2], "DELETE", <<"portfolio", "*", "assets", "*">>)
    BY <2>1, Prefixed DEF Is, AssetRoutes, Portfolio, Own, Route
  <2> QED
    BY <2>2, Spelled
<1>18. Unambiguous(AssetRoutes, {"portfolio"})
  <2>1. \A i, j \in {1, 2} :
          i < j => Apart(AssetRoutes[i], AssetRoutes[j])
    BY <1>17 DEF Path, Three, Four, Apart, Tells
  <2>2. \A i \in {1, 2} : Begins(AssetRoutes[i], {"portfolio"})
    BY <1>17 DEF Path, Three, Four, Begins
  <2> QED
    BY <1>16, <2>1, <2>2 DEF Unambiguous, Listed, Separate, Begin
<1>19. /\ CreateTransactionRoutes \in Seq({CreateTransactionRoutes[i] : i \in 1 .. 1})
       /\ Len(CreateTransactionRoutes) = 1 /\ 1 .. 1 = {1}
  BY DEF CreateTransactionRoutes
<1>20. Four(CreateTransactionRoutes[1], "POST", "portfolio", "*", "transaction", "create")
  <2>1. <<"portfolio">> \o <<"*", "transaction", "create">>
           = <<"portfolio", "*", "transaction", "create">>
    BY PrefixedFour
  <2>2. Is(CreateTransactionRoutes[1], "POST", <<"portfolio", "*", "transaction", "create">>)
    BY <2>1 DEF Is, CreateTransactionRoutes, Portfolio, Own, Route
  <2> QED
    BY <2>2, Spelled
<1>21. Unambiguous(CreateTransactionRoutes, {"portfolio"})
  <2>1. \A i \in {1} : Begins(CreateTransactionRoutes[i], {"portfolio"})
    BY <1>20 DEF Path, Four, Begins
  <2> QED
    BY <1>19, <2>1 DEF Unambiguous, Listed, Separate, Begin
<1>22. /\ ReadTransactionRoutes \in Seq({ReadTransactionRoutes[i] : i \in 1 .. 1})
       /\ Len(ReadTransactionRoutes) = 1 /\ 1 .. 1 = {1}
  BY DEF ReadTransactionRoutes
<1>23. Four(ReadTransactionRoutes[1], "GET", "portfolio", "*", "transaction", "transactions")
  <2>1. <<"portfolio">> \o <<"*", "transaction", "transactions">>
           = <<"portfolio", "*", "transaction", "transactions">>
    BY PrefixedFour
  <2>2. Is(ReadTransactionRoutes[1], "GET", <<"portfolio", "*", "transaction", "transactions">>)
    BY <2>1 DEF Is, ReadTransactionRoutes, Portfolio, Own, Route
  <2> QED
    BY <2>2, Spelled
<1>24. Unambiguous(ReadTransactionRoutes, {"portfolio"})
  <2>1. \A i \in {1} : Begins(ReadTransactionRoutes[i], {"portfolio"})
    BY <1>23 DEF Path, Four, Begins
  <2> QED
    BY <1>22, <2>1 DEF Unambiguous, Listed, Separate, Begin
<1>25. Across(CreatePortfolioRoutes, AddAssetRoutes)
  <2>1. \A i \in {1}, j \in {1} :
             Apart(CreatePortfolioRoutes[i], AddAssetRoutes[j])
    BY <1>2, <1>5 DEF Path, Two, Three, Apart, Tells
  <2> QED
    BY <1>1, <1>4, <2>1 DEF Across
<1>26. /\ Across(CreatePortfolioRoutes, ReadPortfolioRoutes)
       /\ Across(AddAssetRoutes, ReadPortfolioRoutes)
  <2>1. \A i \in {1}, j \in {1, 2, 3, 4} :
             Apart(CreatePortfolioRoutes[i], ReadPortfolioRoutes[j])
    BY <1>2, <1>8 DEF Path, Two, Three, Apart, Tells
  <2>2. \A i \in {1}, j \in {1, 2, 3, 4} :
             Apart(AddAssetRoutes[i], ReadPortfolioRoutes[j])
    BY <1>5, <1>8 DEF Path, Two, Three, Apart, Tells
  <2> QED
    BY <1>1, <1>4, <1>7, <2>1, <2>2 DEF Across
<1>27. /\ Across(CreatePortfolioRoutes, ChangePortfolioRoutes)
       /\ Across(AddAssetRoutes, ChangePortfolioRoutes)
       /\ Across(ReadPortfolioRoutes, ChangePortfolioRoutes)
  <2>1. \A i \in {1}, j \in {1, 2, 3} :
             Apart(CreatePortfolioRoutes[i], ChangePortfolioRoutes[j])
    BY <1>2, <1>11 DEF Path, Two, Three, Apart, Tells
  <2>2. \A i \in {1}, j \in {1, 2, 3} :
             Apart(AddAssetRoutes[i], ChangePortfolioRoutes[j])
    BY <1>5, <1>11 DEF Path, Two, Three, Apart, Tells
  <2>3. \A i \in {1, 2, 3, 4}, j \in {1, 2, 3} :
             Apart(ReadPortfolioRoutes[i], ChangePortfolioRoutes[j])
    <3>1. \A j \in {1, 2, 3} : Apart(ReadPortfolioRoutes[1], ChangePortfolioRoutes[j])
      BY <1>8, <1>11 DEF Path, Two, Three, Apart, Tells
    <3>2. \A j \in {1, 2, 3} : Apart(ReadPortfolioRoutes[2], ChangePortfolioRoutes[j])
      BY <1>8, <1>11 DEF Path, Two, Three, Apart, Tells
    <3>3. \A j \in {1, 2, 3} : Apart(ReadPortfolioRoutes[3], ChangePortfolioRoutes[j])
      BY <1>8, <1>11 DEF Path, Two, Three, Apart, Tells
    <3>4. \A j \in {1, 2, 3} : Apart(ReadPortfolioRoutes[4], ChangePortfolioRoutes[j])
      BY <1>8, <1>11 DEF Path, Two, Three, Apart, Tells
    <3> QED
      BY <3>1, <3>2, <3>3, <3>4
  <2> QED
    BY <1>1, <1>4, <1>7, <1>10, <2>1, <2>2, <2>3 DEF Across
<1>28. /\ Across(CreatePortfolioRoutes, AnalyticsRoutes)
       /\ Across(AddAssetRoutes, AnalyticsRoutes)
       /\ Across(ReadPortfolioRoutes, AnalyticsRoutes)
       /\ Across(ChangePortfolioRoutes, AnalyticsRoutes)
  <2>1. \A i \in {1}, j \in {1, 2, 3, 4} :
             Apart(CreatePortfolioRoutes[i], AnalyticsRoutes[j])
    BY <1>2, <1>14 DEF Path, Two, Three, Apart, Tells
  <2>2. \A i \in {1}, j \in {1, 2, 3, 4} :
             Apart(AddAssetRoutes[i], AnalyticsRoutes[j])
    BY <1>5, <1>14 DEF Path, Three, Apart, Tells
  <2>3. \A i \in {1, 2, 3, 4}, j \in {1, 2, 3, 4} :
             Apart(ReadPortfolioRoutes[i], AnalyticsRoutes[j])
    <3>1. \A j \in {1, 2, 3, 4} : Apart(ReadPortfolioRoutes[1], AnalyticsRoutes[j])
      BY <1>8, <1>14 DEF Path, Two, Three, Apart, Tells
    <3>2. \A j \in {1, 2, 3, 4} : Apart(ReadPortfolioRoutes[2], AnalyticsRoutes[j])
      BY <1>8, <1>14 DEF Path, Two, Three, Apart, Tells
    <3>3. \A j \in {1, 2, 3, 4} : Apart(ReadPortfolioRoutes[3], AnalyticsRoutes[j])
      BY <1>8, <1>14 DEF Path, Two, Three, Apart, Tells
    <3>4. \A j \in {1, 2, 3, 4} : Apart(ReadPortfolioRoutes[4], AnalyticsRoutes[j])
      BY <1>8, <1>14 DEF Path, Two, Three, Apart, Tells
    <3> QED
      BY <3>1, <3>2, <3>3, <3>4
  <2>4. \A i \in {1, 2, 3}, j \in {1, 2, 3, 4} :
             Apart(ChangePortfolioRoutes[i], AnalyticsRoutes[j])
    <3>1. \A j \in {1, 2, 3, 4} : Apart(ChangePortfolioRoutes[1], AnalyticsRoutes[j])
      BY <1>11, <1>14 DEF Path, Two, Three, Apart, Tells
    <3>2. \A j \in {1, 2, 3, 4} : Apart(ChangePortfolioRoutes[2], AnalyticsRoutes[j])
      BY <1>11, <1>14 DEF Path, Two, Three, Apart, Tells
    <3>3. \A j \in {1, 2, 3, 4} : Apart(ChangePortfolioRoutes[3], AnalyticsRoutes[j])
      BY <1>11, <1>14 DEF Path, Two, Three, Apart, Tells
    <3> QED
      BY <3>1, <3>2, <3>3
  <2> QED
    BY <1>1, <1>4, <1>7, <1>10, <1>13, <2>1, <2>2, <2>3, <2>4 DEF Across
<1>29. /\ Across(CreatePortfolioRoutes, AssetRoutes)
       /\ Across(AddAssetRoutes, AssetRoutes)
       /\ Across(ReadPortfolioRoutes, AssetRoutes)
       /\ Across(ChangePortfolioRoutes, AssetRoutes)
       /\ Across(AnalyticsRoutes, AssetRoutes)
  <2>1. \A i \in {1}, j \in {1, 2} :
             Apart(CreatePortfolioRoutes[i], AssetRoutes[j])
    BY <1>2, <1>17 DEF Path, Two, Three, Four, Apart, Tells
  <2>2. \A i \in {1}, j \in {1, 2} :
             Apart(AddAssetRoutes[i], AssetRoutes[j])
    BY <1>5, <1>17 DEF Path, Three, Four, Apart, Tells
  <2>3. \A i \in {1, 2, 3, 4}, j \in {1, 2} :
             Apart(ReadPortfolioRoutes[i], AssetRoutes[j])
    BY SMTT(30), <1>8, <1>17 DEF Path, Two, Three, Four, Apart, Tells
  <2>4. \A i \in {1, 2, 3}, j \in {1, 2} :
             Apart(ChangePortfolioRoutes[i], AssetRoutes[j])
    BY <1>11, <1>17 DEF Path, Two, Three, Four, Apart, Tells
  <2>5. \A i \in {1, 2, 3, 4}, j \in {1, 2} :
             Apart(AnalyticsRoutes[i], AssetRoutes[j])
    BY SMTT(30), <1>14, <1>17 DEF Path, Three, Four, Apart, Tells
  <2> QED
    BY <1>1, <1>4, <1>7, <1>10, <1>13, <1>16, <2>1, <2>2, <2>3, <2>4, <2>5 DEF Across
<1>30. /\ Across(CreatePortfolioRoutes, CreateTransactionRoutes)
       /\ Across(AddAssetRoutes, CreateTransactionRoutes)
       /\ Across(ReadPortfolioRoutes, CreateTransactionRoutes)
       /\ Across(ChangePortfolioRoutes, CreateTransactionRoutes)
       /\ Across(AnalyticsRoutes, CreateTransactionRoutes)
       /\ Across(AssetRoutes, CreateTransactionRoutes)
  <2>1. \A i \in {1}, j \in {1} :
             Apart(CreatePortfolioRoutes[i], CreateTransactionRoutes[j])
    BY <1>2, <1>20 DEF Path, Two, Four, Apart, Tells
  <2>2. \A i \in {1}, j \in {1} :
             Apart(AddAssetRoutes[i], CreateTransactionRoutes[j])
    BY <1>5, <1>20 DEF Path, Three, Four, Apart, Tells
  <2>3. \A i \in {1, 2, 3, 4}, j \in {1} :
             Apart(ReadPortfolioRoutes[i], CreateTransactionRoutes[j])
    BY <1>8, <1>20 DEF Path, Two, Three, Four, Apart, Tells
  <2>4. \A i \in {1, 2, 3}, j \in {1} :
             Apart(ChangePortfolioRoutes[i], CreateTransactionRoutes[j])
    BY <1>11, <1>20 DEF Path, Two, Three, Four, Apart, Tells
  <2>5. \A i \in {1, 2, 3, 4}, j \in {1} :
             Apart(AnalyticsRoutes[i], CreateTransactionRoutes[j])
    BY <1>14, <1>20 DEF Path, Three, Four, Apart, Tells
  <2>6. \A i \in {1, 2}, j \in {1} :
             Apart(AssetRoutes[i], CreateTransactionRoutes[j])
    BY <1>17, <1>20 DEF Path, Three, Four, Apart, Tells
  <2> QED
    BY <1>1, <1>4, <1>7, <1>10, <1>13, <1>16, <1>19, <2>1, <2>2, <2>3, <2>4, <2>5,
             <2>6 DEF Across
<1>31. /\ Across(CreatePortfolioRoutes, ReadTransactionRoutes)
       /\ Across(AddAssetRoutes, ReadTransactionRoutes)
       /\ Across(ReadPortfolioRoutes, ReadTransactionRoutes)
       /\ Across(ChangePortfolioRoutes, ReadTransactionRoutes)
       /\ Across(AnalyticsRoutes, ReadTransactionRoutes)
       /\ Across(AssetRoutes, ReadTransactionRoutes)
       /\ Across(CreateTransactionRoutes, ReadTransactionRoutes)
  <2>1. \A i \in {1}, j \in {1} :
             Apart(CreatePortfolioRoutes[i], ReadTransactionRoutes[j])
    BY <1>2, <1>23 DEF Path, Two, Four, Apart, Tells
  <2>2. \A i \in {1}, j \in {1} :
             Apart(AddAssetRoutes[i], ReadTransactionRoutes[j])
    BY <1>5, <1>23 DEF Path, Three, Four, Apart, Tells
  <2>3. \A i \in {1, 2, 3, 4}, j \in {1} :
             Apart(ReadPortfolioRoutes[i], ReadTransactionRoutes[j])
    <3>1. \A j \in {1} : Apart(ReadPortfolioRoutes[1], ReadTransactionRoutes[j])
      BY <1>8, <1>23 DEF Path, Two, Three, Four, Apart, Tells
    <3>2. \A j \in {1} : Apart(ReadPortfolioRoutes[2], ReadTransactionRoutes[j])
      BY <1>8, <1>23 DEF Path, Two, Three, Four, Apart, Tells
    <3>3. \A j \in {1} : Apart(ReadPortfolioRoutes[3], ReadTransactionRoutes[j])
      BY <1>8, <1>23 DEF Path, Two, Three, Four, Apart, Tells
    <3>4. \A j \in {1} : Apart(ReadPortfolioRoutes[4], ReadTransactionRoutes[j])
      BY <1>8, <1>23 DEF Path, Two, Three, Four, Apart, Tells
    <3> QED
      BY <3>1, <3>2, <3>3, <3>4
  <2>4. \A i \in {1, 2, 3}, j \in {1} :
             Apart(ChangePortfolioRoutes[i], ReadTransactionRoutes[j])
    BY <1>11, <1>23 DEF Path, Two, Three, Four, Apart, Tells
  <2>5. \A i \in {1, 2, 3, 4}, j \in {1} :
             Apart(AnalyticsRoutes[i], ReadTransactionRoutes[j])
    BY <1>14, <1>23 DEF Path, Three, Four, Apart, Tells
  <2>6. \A i \in {1, 2}, j \in {1} :
             Apart(AssetRoutes[i], ReadTransactionRoutes[j])
    BY <1>17, <1>23 DEF Path, Three, Four, Apart, Tells
  <2>7. \A i \in {1}, j \in {1} :
             Apart(CreateTransactionRoutes[i], ReadTransactionRoutes[j])
    BY <1>20, <1>23 DEF Path, Four, Apart, Tells
  <2> QED
    BY <1>1, <1>4, <1>7, <1>10, <1>13, <1>16, <1>19, <1>22, <2>1, <2>2, <2>3, <2>4,
             <2>5, <2>6, <2>7 DEF Across
<1> DEFINE p2 == CreatePortfolioRoutes \o AddAssetRoutes
           p3 == p2 \o ReadPortfolioRoutes
           p4 == p3 \o ChangePortfolioRoutes
           p5 == p4 \o AnalyticsRoutes
           p6 == p5 \o AssetRoutes
           p7 == p6 \o CreateTransactionRoutes
           p8 == p7 \o ReadTransactionRoutes
<1>32. Unambiguous(p2, {"portfolio"})
  <2> QED
    BY <1>3, <1>6, <1>25, Joined
<1>33. Unambiguous(p3, {"portfolio"})
  <2> HIDE DEF p2
  <2>1. Across(p2, ReadPortfolioRoutes)
    BY <1>26, <1>3, <1>6, <1>32, JoinedAcross DEF p2
  <2> QED
    BY <1>32, <1>9, <2>1, Joined
<1>34. Unambiguous(p4, {"portfolio"})
  <2> HIDE DEF p2, p3
  <2>1. Across(p3, ChangePortfolioRoutes)
    BY <1>27, <1>3, <1>6, <1>9, <1>32, <1>33, JoinedAcross DEF p2, p3
  <2> QED
    BY <1>33, <1>12, <2>1, Joined
<1>35. Unambiguous(p5, {"portfolio"})
  <2> HIDE DEF p2, p3, p4
  <2>1. Across(p4, AnalyticsRoutes)
    BY <1>28, <1>3, <1>6, <1>9, <1>12, <1>32, <1>33, <1>34, JoinedAcross DEF p2, p3, p4
  <2> QED
    BY <1>34, <1>15, <2>1, Joined
<1>36. Unambiguous(p6, {"portfolio"})
  <2> HIDE DEF p2, p3, p4, p5
  <2>1. Across(p5, AssetRoutes)
    BY <1>29, <1>3, <1>6, <1>9, <1>12, <1>15, <1>32, <1>33, <1>34, <1>35,
       JoinedAcross DEF p2, p3, p4, p5
  <2> QED
    BY <1>35, <1>18, <2>1, Joined
<1>37. Unambiguous(p7, {"portfolio"})
  <2> HIDE DEF p2, p3, p4, p5, p6
  <2>1. Across(p6, CreateTransactionRoutes)
    BY <1>30, <1>3, <1>6, <1>9, <1>12, <1>15, <1>18, <1>32, <1>33, <1>34, <1>35, <1>36,
       JoinedAcross DEF p2, p3, p4, p5, p6
  <2> QED
    BY <1>36, <1>21, <2>1, Joined
<1>38. Unambiguous(p8, {"portfolio"})
  <2> HIDE DEF p2, p3, p4, p5, p6, p7
  <2>1. Across(p7, ReadTransactionRoutes)
    BY <1>31, <1>3, <1>6, <1>9, <1>12, <1>15, <1>18, <1>21, <1>32, <1>33, <1>34, <1>35,
       <1>36, <1>37, JoinedAcross DEF p2, p3, p4, p5, p6, p7
  <2> QED
    BY <1>37, <1>24, <2>1, Joined
<1> QED
  BY <1>38

\* HistoricalDataController.
LEMMA HistoricalPaths == Unambiguous(HistoricalRoutes, {"portfolios"})
<1>1. /\ HistoricalRoutes \in Seq({HistoricalRoutes[i] : i \in 1 .. 5})
      /\ Len(HistoricalRoutes) = 5 /\ 1 .. 5 = {1, 2, 3, 4, 5}
  BY DEF HistoricalRoutes
<1>2. /\ Three(HistoricalRoutes[1], "GET", "portfolios", "*", "profitLoss")
      /\ Three(HistoricalRoutes[2], "GET", "portfolios", "*", "history")
      /\ Three(HistoricalRoutes[3], "GET", "portfolios", "*", "historicalValue")
      /\ Three(HistoricalRoutes[4], "GET", "portfolios", "*", "performance")
      /\ Three(HistoricalRoutes[5], "POST", "portfolios", "*", "refresh")
  <2>1. /\ Is(HistoricalRoutes[1], "GET", <<"portfolios", "*", "profitLoss">>)
        /\ Is(HistoricalRoutes[2], "GET", <<"portfolios", "*", "history">>)
        /\ Is(HistoricalRoutes[3], "GET", <<"portfolios", "*", "historicalValue">>)
        /\ Is(HistoricalRoutes[4], "GET", <<"portfolios", "*", "performance">>)
        /\ Is(HistoricalRoutes[5], "POST", <<"portfolios", "*", "refresh">>)
    BY DEF Is, HistoricalRoutes, Historical, Anyones, Route
  <2> QED
    BY <2>1, Spelled
<1>3. Unambiguous(HistoricalRoutes, {"portfolios"})
  <2>1. \A i \in {1} : Apart(HistoricalRoutes[i], HistoricalRoutes[2])
    BY <1>2 DEF Path, Three, Apart, Tells
  <2>2. \A i \in {1, 2} : Apart(HistoricalRoutes[i], HistoricalRoutes[3])
    BY <1>2 DEF Path, Three, Apart, Tells
  <2>3. \A i \in {1, 2, 3} : Apart(HistoricalRoutes[i], HistoricalRoutes[4])
    BY <1>2 DEF Path, Three, Apart, Tells
  <2>4. \A i \in {1, 2, 3, 4} : Apart(HistoricalRoutes[i], HistoricalRoutes[5])
    BY <1>2 DEF Path, Three, Apart, Tells
  <2>5. \A i \in {1, 2, 3, 4, 5} : Begins(HistoricalRoutes[i], {"portfolios"})
    BY <1>2 DEF Path, Three, Begins
  <2>6. \A i, j \in {1, 2, 3, 4, 5} :
          i < j => Apart(HistoricalRoutes[i], HistoricalRoutes[j])
    BY <2>1, <2>2, <2>3, <2>4
  <2> QED
    BY <1>1, <2>6, <2>5 DEF Unambiguous, Listed, Separate, Begin
<1> QED
  BY <1>3

\* CsvController.
LEMMA CsvPaths == Unambiguous(CsvRoutes, {"csv"})
<1>1. /\ CsvRoutes \in Seq({CsvRoutes[i] : i \in 1 .. 4})
      /\ Len(CsvRoutes) = 4 /\ 1 .. 4 = {1, 2, 3, 4}
  BY DEF CsvRoutes
<1>2. /\ Three(CsvRoutes[1], "POST", "csv", "import", "*")
      /\ Four(CsvRoutes[2], "GET", "csv", "export", "portfolio", "*")
      /\ Four(CsvRoutes[3], "GET", "csv", "export", "transactions", "*")
      /\ Two(CsvRoutes[4], "GET", "csv", "template")
  <2>1. /\ Is(CsvRoutes[1], "POST", <<"csv", "import", "*">>)
        /\ Is(CsvRoutes[2], "GET", <<"csv", "export", "portfolio", "*">>)
        /\ Is(CsvRoutes[3], "GET", <<"csv", "export", "transactions", "*">>)
        /\ Is(CsvRoutes[4], "GET", <<"csv", "template">>)
    BY DEF Is, CsvRoutes, Own, Anyones, Route
  <2> QED
    BY <2>1, Spelled
<1>3. Unambiguous(CsvRoutes, {"csv"})
  <2>1. \A i, j \in {1, 2, 3, 4} :
          i < j => Apart(CsvRoutes[i], CsvRoutes[j])
    BY SMTT(30), <1>2 DEF Path, Two, Three, Four, Apart, Tells
  <2>2. \A i \in {1, 2, 3, 4} : Begins(CsvRoutes[i], {"csv"})
    BY <1>2 DEF Path, Two, Three, Four, Begins
  <2> QED
    BY <1>1, <2>1, <2>2 DEF Unambiguous, Listed, Separate, Begin
<1> QED
  BY <1>3

\* ExchangeAccountController.
LEMMA ExchangePaths == Unambiguous(ExchangeRoutes, {"exchange-accounts"})
<1>1. /\ ExchangeRoutes \in Seq({ExchangeRoutes[1], ExchangeRoutes[2], ExchangeRoutes[3],
                                  ExchangeRoutes[4], ExchangeRoutes[5]})
      /\ Len(ExchangeRoutes) = 5 /\ 1 .. 5 = {1, 2, 3, 4, 5}
  BY DEF ExchangeRoutes
<1>2. /\ Two(ExchangeRoutes[1], "POST", "exchange-accounts", "exchange")
      /\ Two(ExchangeRoutes[2], "GET", "exchange-accounts", "accounts")
      /\ Two(ExchangeRoutes[3], "GET", "exchange-accounts", "*")
      /\ Three(ExchangeRoutes[4], "DELETE", "exchange-accounts", "delete", "*")
      /\ Three(ExchangeRoutes[5], "POST", "exchange-accounts", "*", "sync")
  <2>1. /\ Is(ExchangeRoutes[1], "POST", <<"exchange-accounts", "exchange">>)
        /\ Is(ExchangeRoutes[2], "GET", <<"exchange-accounts", "accounts">>)
        /\ Is(ExchangeRoutes[3], "GET", <<"exchange-accounts", "*">>)
        /\ Is(ExchangeRoutes[4], "DELETE", <<"exchange-accounts", "delete", "*">>)
        /\ Is(ExchangeRoutes[5], "POST", <<"exchange-accounts", "*", "sync">>)
    BY ZenonT(30), Prefixed DEF Is, ExchangeRoutes, Exchange, Own, Anyones, Route
  <2> QED
    BY <2>1, Spelled
<1>3. Unambiguous(ExchangeRoutes, {"exchange-accounts"})
  <2>1. \A i, j \in {1, 2, 3, 4, 5} :
          i < j => Apart(ExchangeRoutes[i], ExchangeRoutes[j])
    BY SMTT(30), <1>2 DEF Path, Two, Three, Apart, Tells
  <2>2. \A i \in {1, 2, 3, 4, 5} : Begins(ExchangeRoutes[i], {"exchange-accounts"})
    BY <1>2 DEF Path, Two, Three, Begins
  <2> QED
    BY <1>1, <2>1, <2>2 DEF Unambiguous, Listed, Separate, Begin
<1> QED
  BY <1>3

\* WalletAddressController.
LEMMA WalletPaths == Unambiguous(WalletRoutes, {"wallet-addresses"})
<1>1. /\ WalletRoutes \in Seq({WalletRoutes[i] : i \in 1 .. 3})
      /\ Len(WalletRoutes) = 3 /\ 1 .. 3 = {1, 2, 3}
  BY DEF WalletRoutes
<1>2. /\ Two(WalletRoutes[1], "POST", "wallet-addresses", "create-wallet")
      /\ Two(WalletRoutes[2], "GET", "wallet-addresses", "addresses")
      /\ Two(WalletRoutes[3], "DELETE", "wallet-addresses", "*")
  <2>1. /\ Is(WalletRoutes[1], "POST", <<"wallet-addresses", "create-wallet">>)
        /\ Is(WalletRoutes[2], "GET", <<"wallet-addresses", "addresses">>)
        /\ Is(WalletRoutes[3], "DELETE", <<"wallet-addresses", "*">>)
    BY Prefixed DEF Is, WalletRoutes, Wallet, Own, Route
  <2> QED
    BY <2>1, Spelled
<1>3. Unambiguous(WalletRoutes, {"wallet-addresses"})
  <2>1. \A i, j \in {1, 2, 3} :
          i < j => Apart(WalletRoutes[i], WalletRoutes[j])
    BY <1>2 DEF Path, Two, Apart, Tells
  <2>2. \A i \in {1, 2, 3} : Begins(WalletRoutes[i], {"wallet-addresses"})
    BY <1>2 DEF Path, Two, Begins
  <2> QED
    BY <1>1, <2>1, <2>2 DEF Unambiguous, Listed, Separate, Begin
<1> QED
  BY <1>3

\* WatchlistController.
LEMMA WatchlistPaths ==
    Unambiguous(ChangeWatchlistRoutes \o ReadWatchlistRoutes,
                {"watchlists"})
<1>1. /\ ChangeWatchlistRoutes \in Seq({ChangeWatchlistRoutes[i] : i \in 1 .. 4})
      /\ Len(ChangeWatchlistRoutes) = 4 /\ 1 .. 4 = {1, 2, 3, 4}
  BY DEF ChangeWatchlistRoutes
<1>2. /\ Two(ChangeWatchlistRoutes[1], "POST", "watchlists", "create")
      /\ Three(ChangeWatchlistRoutes[2], "PUT", "watchlists", "*", "update")
      /\ Three(ChangeWatchlistRoutes[3], "DELETE", "watchlists", "delete", "*")
      /\ Three(ChangeWatchlistRoutes[4], "POST", "watchlists", "*", "assets")
  <2>1. /\ Is(ChangeWatchlistRoutes[1], "POST", <<"watchlists", "create">>)
        /\ Is(ChangeWatchlistRoutes[2], "PUT", <<"watchlists", "*", "update">>)
        /\ Is(ChangeWatchlistRoutes[3], "DELETE", <<"watchlists", "delete", "*">>)
        /\ Is(ChangeWatchlistRoutes[4], "POST", <<"watchlists", "*", "assets">>)
    BY Prefixed DEF Is, ChangeWatchlistRoutes, Watchlist, Own, Route
  <2> QED
    BY <2>1, Spelled
<1>3. Unambiguous(ChangeWatchlistRoutes, {"watchlists"})
  <2>1. \A i, j \in {1, 2, 3, 4} :
          i < j => Apart(ChangeWatchlistRoutes[i], ChangeWatchlistRoutes[j])
    BY <1>2 DEF Path, Two, Three, Apart, Tells
  <2>2. \A i \in {1, 2, 3, 4} : Begins(ChangeWatchlistRoutes[i], {"watchlists"})
    BY <1>2 DEF Path, Two, Three, Begins
  <2> QED
    BY <1>1, <2>1, <2>2 DEF Unambiguous, Listed, Separate, Begin
<1>4. /\ ReadWatchlistRoutes \in Seq({ReadWatchlistRoutes[i] : i \in 1 .. 4})
      /\ Len(ReadWatchlistRoutes) = 4 /\ 1 .. 4 = {1, 2, 3, 4}
  BY DEF ReadWatchlistRoutes
<1>5. /\ Four(ReadWatchlistRoutes[1], "DELETE", "watchlists", "*", "assets", "*")
      /\ One(ReadWatchlistRoutes[2], "GET", "watchlists")
      /\ Two(ReadWatchlistRoutes[3], "GET", "watchlists", "*")
      /\ Three(ReadWatchlistRoutes[4], "GET", "watchlists", "*", "metrics")
  <2>1. <<"watchlists">> \o <<"*", "assets", "*">>
           = <<"watchlists", "*", "assets", "*">>
    BY PrefixedFour
  <2>2. /\ Is(ReadWatchlistRoutes[1], "DELETE", <<"watchlists", "*", "assets", "*">>)
        /\ Is(ReadWatchlistRoutes[2], "GET", <<"watchlists">>)
        /\ Is(ReadWatchlistRoutes[3], "GET", <<"watchlists", "*">>)
        /\ Is(ReadWatchlistRoutes[4], "GET", <<"watchlists", "*", "metrics">>)
    BY <2>1, Prefixed DEF Is, ReadWatchlistRoutes, Watchlist, Own, Route
  <2> QED
    BY <2>2, Spelled
<1>6. Unambiguous(ReadWatchlistRoutes, {"watchlists"})
  <2>1. \A i, j \in {1, 2, 3, 4} :
          i < j => Apart(ReadWatchlistRoutes[i], ReadWatchlistRoutes[j])
    BY <1>5 DEF Path, One, Two, Three, Four, Apart, Tells
  <2>2. \A i \in {1, 2, 3, 4} : Begins(ReadWatchlistRoutes[i], {"watchlists"})
    BY <1>5 DEF Path, One, Two, Three, Four, Begins
  <2> QED
    BY <1>4, <2>1, <2>2 DEF Unambiguous, Listed, Separate, Begin
<1>7. Across(ChangeWatchlistRoutes, ReadWatchlistRoutes)
  <2>1. \A i \in {1, 2, 3, 4}, j \in {1, 2, 3, 4} :
             Apart(ChangeWatchlistRoutes[i], ReadWatchlistRoutes[j])
    <3>1. \A j \in {1, 2, 3, 4} : Apart(ChangeWatchlistRoutes[1], ReadWatchlistRoutes[j])
      BY <1>2, <1>5 DEF Path, One, Two, Three, Four, Apart, Tells
    <3>2. \A j \in {1, 2, 3, 4} : Apart(ChangeWatchlistRoutes[2], ReadWatchlistRoutes[j])
      BY <1>2, <1>5 DEF Path, One, Two, Three, Four, Apart, Tells
    <3>3. \A j \in {1, 2, 3, 4} : Apart(ChangeWatchlistRoutes[3], ReadWatchlistRoutes[j])
      BY <1>2, <1>5 DEF Path, One, Two, Three, Four, Apart, Tells
    <3>4. \A j \in {1, 2, 3, 4} : Apart(ChangeWatchlistRoutes[4], ReadWatchlistRoutes[j])
      BY <1>2, <1>5 DEF Path, One, Two, Three, Four, Apart, Tells
    <3> QED
      BY <3>1, <3>2, <3>3, <3>4
  <2> QED
    BY <1>1, <1>4, <2>1 DEF Across
<1> QED
  BY <1>3, <1>6, <1>7, Joined

\* PriceAlertController.
LEMMA AlertPaths == Unambiguous(AlertRoutes, {"alerts"})
<1>1. /\ AlertRoutes \in Seq({AlertRoutes[i] : i \in 1 .. 5})
      /\ Len(AlertRoutes) = 5 /\ 1 .. 5 = {1, 2, 3, 4, 5}
  BY DEF AlertRoutes
<1>2. /\ Two(AlertRoutes[1], "POST", "alerts", "price")
      /\ Two(AlertRoutes[2], "GET", "alerts", "price")
      /\ Four(AlertRoutes[3], "PATCH", "alerts", "price", "*", "status")
      /\ Three(AlertRoutes[4], "POST", "alerts", "price", "process")
      /\ Three(AlertRoutes[5], "DELETE", "alerts", "price", "*")
  <2>1. <<"alerts", "price">> \o <<"*", "status">>
           = <<"alerts", "price", "*", "status">>
    BY PrefixedFour
  <2>2. /\ Is(AlertRoutes[1], "POST", <<"alerts", "price">>)
        /\ Is(AlertRoutes[2], "GET", <<"alerts", "price">>)
        /\ Is(AlertRoutes[3], "PATCH", <<"alerts", "price", "*", "status">>)
        /\ Is(AlertRoutes[4], "POST", <<"alerts", "price", "process">>)
        /\ Is(AlertRoutes[5], "DELETE", <<"alerts", "price", "*">>)
    BY ZenonT(30), <2>1, Prefixed DEF Is, AlertRoutes, Alert, Own, Anyones, Route
  <2> QED
    BY <2>2, Spelled
<1>3. Unambiguous(AlertRoutes, {"alerts"})
  <2>1. \A i, j \in {1, 2, 3, 4, 5} :
          i < j => Apart(AlertRoutes[i], AlertRoutes[j])
    BY <1>2 DEF Path, Two, Three, Four, Apart, Tells
  <2>2. \A i \in {1, 2, 3, 4, 5} : Begins(AlertRoutes[i], {"alerts"})
    BY <1>2 DEF Path, Two, Three, Four, Begins
  <2> QED
    BY <1>1, <2>1, <2>2 DEF Unambiguous, Listed, Separate, Begin
<1> QED
  BY <1>3

\* Each route gets its own calls.
LEMMA RoutesSeparate ==
    /\ Listed(Routes) /\ Separate(Routes)
    /\ \A i \in 1 .. Len(Routes) : DOMAIN Routes[i].path = 1 .. Len(Routes[i].path)
<1> DEFINE auth == AccountRoutes \o SessionRoutes \o TwoFactorRoutes \o ProfileRoutes
           market == MarketSearchRoutes \o MarketRoutes
           portfolio == CreatePortfolioRoutes \o AddAssetRoutes \o ReadPortfolioRoutes
                        \o ChangePortfolioRoutes \o AnalyticsRoutes \o AssetRoutes
                        \o CreateTransactionRoutes \o ReadTransactionRoutes
           watchlists == ChangeWatchlistRoutes \o ReadWatchlistRoutes
<1>1. Unambiguous(auth, {"auth"}) /\ Unambiguous(market, {"market"})
  BY AuthPaths, MarketPaths
<1>2. Unambiguous(portfolio, {"portfolio"}) /\ Unambiguous(watchlists, {"watchlists"})
  BY PortfolioPaths, WatchlistPaths
<1>3. Routes = auth \o market \o PriceRoutes \o StreamRoutes \o portfolio \o HistoricalRoutes
               \o CsvRoutes \o ExchangeRoutes \o WalletRoutes \o watchlists \o AlertRoutes
  BY DEF Routes
<1> HIDE DEF auth, market, portfolio, watchlists
<1> DEFINE s1 == auth \o market
           s2 == s1 \o PriceRoutes
           s3 == s2 \o StreamRoutes
           s4 == s3 \o portfolio
           s5 == s4 \o HistoricalRoutes
           s6 == s5 \o CsvRoutes
           s7 == s6 \o ExchangeRoutes
           s8 == s7 \o WalletRoutes
           s9 == s8 \o watchlists
           s10 == s9 \o AlertRoutes
           W1 == {"auth"} \union {"market"}
           W2 == W1 \union {"prices"}
           W3 == W2 \union {"stream"}
           W4 == W3 \union {"portfolio"}
           W5 == W4 \union {"portfolios"}
           W6 == W5 \union {"csv"}
           W7 == W6 \union {"exchange-accounts"}
           W8 == W7 \union {"wallet-addresses"}
           W9 == W8 \union {"watchlists"}
           W10 == W9 \union {"alerts"}
<1>4. Unambiguous(s1, W1)
  BY <1>1, Added
<1>5. Unambiguous(s2, W2)
  <2>1. W1 \intersect {"prices"} = {} /\ "*" \notin W1
    OBVIOUS
  <2> HIDE DEF s1, W1
  <2> QED
    BY <2>1, <1>4, PricePaths, Added
<1>6. Unambiguous(s3, W3)
  <2>1. W2 \intersect {"stream"} = {} /\ "*" \notin W2
    OBVIOUS
  <2> HIDE DEF s2, W2
  <2> QED
    BY <2>1, <1>5, StreamPaths, Added
<1>7. Unambiguous(s4, W4)
  <2>1. W3 \intersect {"portfolio"} = {} /\ "*" \notin W3
    OBVIOUS
  <2> HIDE DEF s3, W3
  <2> QED
    BY <2>1, <1>6, <1>2, Added
<1>8. Unambiguous(s5, W5)
  <2>1. W4 \intersect {"portfolios"} = {} /\ "*" \notin W4
    OBVIOUS
  <2> HIDE DEF s4, W4
  <2> QED
    BY <2>1, <1>7, HistoricalPaths, Added
<1>9. Unambiguous(s6, W6)
  <2>1. W5 \intersect {"csv"} = {} /\ "*" \notin W5
    OBVIOUS
  <2> HIDE DEF s5, W5
  <2> QED
    BY <2>1, <1>8, CsvPaths, Added
<1>10. Unambiguous(s7, W7)
  <2>1. W6 \intersect {"exchange-accounts"} = {} /\ "*" \notin W6
    OBVIOUS
  <2> HIDE DEF s6, W6
  <2> QED
    BY <2>1, <1>9, ExchangePaths, Added
<1>11. Unambiguous(s8, W8)
  <2>1. W7 \intersect {"wallet-addresses"} = {} /\ "*" \notin W7
    OBVIOUS
  <2> HIDE DEF s7, W7
  <2> QED
    BY <2>1, <1>10, WalletPaths, Added
<1>12. Unambiguous(s9, W9)
  <2>1. W8 \intersect {"watchlists"} = {} /\ "*" \notin W8
    OBVIOUS
  <2> HIDE DEF s8, W8
  <2> QED
    BY <2>1, <1>11, <1>2, Added
<1>13. Unambiguous(s10, W10)
  <2>1. W9 \intersect {"alerts"} = {} /\ "*" \notin W9
    OBVIOUS
  <2> HIDE DEF s9, W9
  <2> QED
    BY <2>1, <1>12, AlertPaths, Added
<1>14. Routes = s10
  BY <1>3
<1> HIDE DEF s10, W10
<1> QED
  BY <1>13, <1>14 DEF Unambiguous, Begin, Begins

\* The router takes for the call the route whose path it fills.
LEMMA CallFindsRoute ==
  ASSUME NEW verb, NEW path \in Seq(STRING), NEW i \in 1 .. Len(Routes),
           Routes[i].verb = verb, Fills(path, Routes[i])
  PROVE  Dispatch(verb, path) = i
<1> DEFINE I == {j \in 1 .. Len(Routes) :
                    Routes[j].verb = verb /\ Matches(Routes[j].path, path)}
<1>1. Dispatch(verb, path) = IF I # {} THEN Min(I) ELSE 0
  BY DEF Dispatch, SelectInSeq
<1>2. /\ DOMAIN path = 1 .. Len(path) /\ Len(path) \in Nat
      /\ Len(path) = Len(Routes[i].path)
  BY DEF Fills
<1>3. Matches(Routes[i].path, path)
  BY DEF Fills, Matches
<1>4. i \in I
  BY <1>3
<1>5. ASSUME NEW j \in I, j < i
      PROVE  FALSE
  <2>1. /\ Apart(Routes[j], Routes[i]) /\ Routes[j].verb = verb
        /\ Matches(Routes[j].path, path)
    BY <1>5, RoutesSeparate DEF Separate
  <2>2. PICK k \in {1, 2, 3} : Tells(Routes[j], Routes[i], k)
    BY <1>2, <2>1 DEF Apart, Matches
  <2>3. k \in DOMAIN path /\ Routes[j].path[k] = path[k]
    BY <1>2, <2>1, <2>2 DEF Tells, Matches
  <2>4. path[k] # Routes[i].path[k] /\ path[k] \in Words(k)
    <3>1. DOMAIN Routes[j].path = DOMAIN path
      BY <1>2, <2>1, RoutesSeparate DEF Matches
    <3>2. Routes[j] \in ToSet(Routes) /\ k \in DOMAIN Routes[j].path
      BY <2>3, <3>1, RoutesSeparate DEF ToSet, Listed
    <3> QED
      BY <2>2, <2>3, <3>2 DEF Tells, Words
  <2> QED
    BY <2>3, <2>4 DEF Fills
<1>6. Min(I) = i
  <2>1. I \subseteq Int
    OBVIOUS
  <2>2. \A j \in I : i <= j
    BY <1>5, <2>1
  <2> HIDE DEF I
  <2>3. Min(I) \in I /\ \A j \in I : Min(I) <= j
    BY <1>4, <2>2, Zenon DEF Min
  <2>4. i <= Min(I) /\ Min(I) <= i /\ Min(I) \in Int /\ i \in Int
    BY <1>4, <2>1, <2>2, <2>3
  <2> HIDE DEF Min
  <2> QED
    BY <2>4
<1> QED
  BY <1>1, <1>4, <1>6
-----------------------------------------------------------------------------
(* Guards, limits and the handler *)

\* What a request is made of.
Fields(q) == [meant |-> q.meant, route |-> q.route, ip |-> q.ip, token |-> q.token,
              owner |-> q.owner, user |-> q.user, body |-> q.body,
              admittedOn |-> q.admittedOn]

\* What it carries in flight.
Carries(w) ==
    /\ req[w] = Fields(req[w])
    /\ stage[w] # "idle" =>
        /\ req[w].route \in DOMAIN Routes
        /\ RouteOf(w).handler = req[w].meant
        /\ req[w].token \in Tokens
        /\ req[w].token # "none" => req[w].owner \in Users

\* A call of the rate limiter is on the key of the limit that the request is at.
OnItsKey(w) == pc[w] # "idle" => stage[w] \in {"limit", "limitUser"} /\ key[w] = CompositeKey(w)

\* What has been counted, and what has let the request pass, at each stage.
Progress(w) ==
    /\ stage[w] \in {"idle", "limit", "limitUser", "validate", "handle"}
    /\ stage[w] = "limit" => req[w].user = NoUser /\ req[w].admittedOn = {}
    /\ stage[w] \in {"limitUser", "validate", "handle"} =>
        Passes(w) /\ req[w].user = Authenticate(w)
    /\ stage[w] = "limitUser" =>
        /\ req[w].admittedOn = {<<RouteOf(w).rule, req[w].ip>>}
        /\ "rate-limit" \in ToSet(RouteOf(w).guards)
    /\ stage[w] \in {"validate", "handle"} => req[w].admittedOn = CountedOn(w)

OnTrack(w) == Carries(w) /\ OnItsKey(w) /\ Progress(w)

PipeInv ==
    /\ LimiterInv
    /\ stage = [w \in Workers |-> stage[w]]
    /\ req = [w \in Workers |-> req[w]]
    /\ load \in DOMAIN Loads
    /\ \A w \in Workers : OnTrack(w)

\* A request that no step has touched, except perhaps to end its call, is where it was.
LEMMA StandsOnTrack ==
  ASSUME NEW v \in Workers, OnTrack(v), stage'[v] = stage[v], req'[v] = req[v],
         pc'[v] # "idle" => pc'[v] = pc[v] /\ key'[v] = key[v]
  PROVE  OnTrack(v)'
<1>1. Carries(v)'
  BY DEF OnTrack, Carries, RouteOf
<1>2. OnItsKey(v)'
  BY DEF OnTrack, OnItsKey, CompositeKey, RouteOf
<1>3. Progress(v)'
  BY DEF OnTrack, Progress, Passes, Authenticate, CountedOn, RouteOf
<1> QED
  BY <1>1, <1>2, <1>3 DEF OnTrack

\* A request that has been answered is gone.
LEMMA EndsOnTrack ==
  ASSUME NEW w \in Workers, stage'[w] = "idle", req'[w] = NoRequest, pc'[w] = "idle"
  PROVE  OnTrack(w)'
BY DEF OnTrack, Carries, Fields, OnItsKey, Progress, NoRequest

\* It is enough to follow the request that a step is about.
LEMMA OneMoves ==
  ASSUME PipeInv, LimiterInv', NEW w \in Workers, NEW s, NEW r,
         stage' = [stage EXCEPT ![w] = s], req' = [req EXCEPT ![w] = r],
         load' \in DOMAIN Loads,
         \A v \in Workers \ {w} : pc'[v] = pc[v] /\ key'[v] = key[v],
         OnTrack(w)'
  PROVE  PipeInv'
<1>1. ASSUME NEW v \in Workers, v # w
      PROVE  OnTrack(v)'
  <2>1. stage'[v] = stage[v] /\ req'[v] = req[v]
    BY <1>1 DEF PipeInv
  <2> QED
    BY <1>1, <2>1, StandsOnTrack DEF PipeInv
<1>2. \A v \in Workers : OnTrack(v)'
  BY <1>1
<1>3. stage' = [v \in Workers |-> stage'[v]] /\ req' = [v \in Workers |-> req'[v]]
  BY DEF PipeInv
<1> QED
  BY <1>2, <1>3 DEF PipeInv

\* The calls of other requests go on.
LEMMA OthersCall ==
  ASSUME LimiterShape, NEW w \in Workers, NEW label, NEW k,
         pc' = [pc EXCEPT ![w] = label], key' = [key EXCEPT ![w] = k]
  PROVE  /\ \A v \in Workers \ {w} : pc'[v] = pc[v] /\ key'[v] = key[v]
         /\ pc'[w] = label /\ key'[w] = k
BY DEF LimiterShape

\* The route of a request in flight is one of the forms.
LEMMA RouteFormed ==
  ASSUME NEW w \in Workers, OnTrack(w), stage[w] # "idle"
  PROVE  Formed(RouteOf(w))
BY RoutesFormed DEF WellFormed, OnTrack, Carries, RouteOf

LEMMA ArriveKeepsTrack ==
  ASSUME PipeInv, LimiterInv', NEW w \in Workers, Arrive(w)
  PROVE  PipeInv'
<1>1. PICK q \in Loads[load].calls : \E owner \in IF q.token = "none" THEN {NoUser} ELSE Users :
        req' = [req EXCEPT ![w] = [meant |-> q.handler, route |-> Dispatch(q.verb, q.path),
                                   ip |-> q.ip, token |-> q.token, owner |-> owner,
                                   user |-> NoUser, body |-> q.body, admittedOn |-> {}]]
  BY DEF Arrive
<1>2. PICK owner \in IF q.token = "none" THEN {NoUser} ELSE Users :
        req' = [req EXCEPT ![w] = [meant |-> q.handler, route |-> Dispatch(q.verb, q.path),
                                   ip |-> q.ip, token |-> q.token, owner |-> owner,
                                   user |-> NoUser, body |-> q.body, admittedOn |-> {}]]
  BY <1>1
<1> DEFINE r == [meant |-> q.handler, route |-> Dispatch(q.verb, q.path),
                 ip |-> q.ip, token |-> q.token, owner |-> owner,
                 user |-> NoUser, body |-> q.body, admittedOn |-> {}]
<1>3. /\ Dispatch(q.verb, q.path) \in DOMAIN Routes
      /\ Routes[Dispatch(q.verb, q.path)].handler = q.handler
      /\ q.token \in Tokens
  <2>1. /\ q.token \in Tokens
        /\ q.path \in Seq(STRING)
        /\ \E route \in ToSet(Routes) : /\ route.handler = q.handler /\ route.verb = q.verb
                                       /\ Fills(q.path, route)
    BY PipelineAssumption DEF PipeInv
  <2>2. DOMAIN Routes = 1 .. Len(Routes)
    BY RoutesSeparate DEF Listed
  <2>3. PICK i \in 1 .. Len(Routes) : /\ Routes[i].handler = q.handler
                                     /\ Routes[i].verb = q.verb /\ Fills(q.path, Routes[i])
    BY <2>1, <2>2 DEF ToSet
  <2>4. Dispatch(q.verb, q.path) = i
    BY <2>1, <2>3, CallFindsRoute
  <2> QED
    BY <2>1, <2>2, <2>3, <2>4
<1>4. /\ stage[w] = "idle"
      /\ stage' = [stage EXCEPT ![w] = "limit"]
      /\ UNCHANGED <<pc, key, load>>
  BY DEF Arrive, Enter, limiterVars
<1>5. pc[w] = "idle"
  BY <1>4 DEF PipeInv, OnTrack, OnItsKey
<1>6. req'[w] = r /\ stage'[w] = "limit"
  BY <1>2, <1>4 DEF PipeInv
<1>7. OnTrack(w)'
  BY <1>3, <1>4, <1>5, <1>6 DEF OnTrack, Carries, Fields, OnItsKey, Progress, RouteOf
<1>8. req' = [req EXCEPT ![w] = r]
  BY <1>2
<1> HIDE DEF r
<1> QED
  BY <1>4, <1>7, <1>8, OneMoves DEF PipeInv

LEMMA LimitKeepsTrack ==
  ASSUME PipeInv, LimiterInv', NEW w \in Workers, Limit(w)
  PROVE  PipeInv'
<1>1. /\ stage[w] \in {"limit", "limitUser"}
      /\ UNCHANGED <<stage, req, load>>
  BY DEF Limit
<1>2. \A v \in Workers \ {w} : pc'[v] = pc[v] /\ key'[v] = key[v]
  BY DEF Limit, Consume, Exists, Incr, Expire, Goto, PipeInv, LimiterInv, LimiterShape
<1>3. key'[w] = CompositeKey(w)
  <2>1. CASE Exists(w, CompositeKey(w))
    BY <2>1 DEF Exists, PipeInv, LimiterInv, LimiterShape
  <2>2. CASE Incr(w) \/ Expire(w)
    BY <2>2 DEF Incr, Expire, PipeInv, OnTrack, OnItsKey
  <2> QED
    BY <2>1, <2>2 DEF Limit, Consume
<1>4. OnTrack(w)'
  <2>1. Carries(w)' /\ Progress(w)'
    BY <1>1 DEF PipeInv, OnTrack, Carries, Progress, Passes, Authenticate, CountedOn, RouteOf
  <2>2. OnItsKey(w)'
    BY <1>1, <1>3 DEF OnItsKey, CompositeKey, RouteOf
  <2> QED
    BY <2>1, <2>2 DEF OnTrack
<1>5. ASSUME NEW v \in Workers, v # w
      PROVE  OnTrack(v)'
  BY <1>1, <1>2, <1>5, StandsOnTrack DEF PipeInv
<1> QED
  BY <1>1, <1>4, <1>5 DEF PipeInv

\* A step of a limit leaves the rest of the request alone.
Kept(p, q) ==
    /\ p.meant = q.meant /\ p.route = q.route
    /\ p.ip = q.ip /\ p.token = q.token /\ p.owner = q.owner

LEMMA OneField ==
  ASSUME NEW q, q = Fields(q), NEW user, NEW counted
  PROVE  /\ \A p : p = [q EXCEPT !.user = user] =>
                p = Fields(p) /\ p.user = user /\ p.admittedOn = q.admittedOn /\ Kept(p, q)
         /\ \A p : p = [q EXCEPT !.admittedOn = counted] =>
                p = Fields(p) /\ p.user = q.user /\ p.admittedOn = counted /\ Kept(p, q)
<1>1. ASSUME NEW p, p = [q EXCEPT !.user = user]
      PROVE  p.user = user /\ p.admittedOn = q.admittedOn /\ Kept(p, q)
  BY <1>1 DEF Fields, Kept
<1>2. ASSUME NEW p, p = [q EXCEPT !.user = user]
      PROVE  p = Fields(p)
  BY <1>2 DEF Fields
<1>3. ASSUME NEW p, p = [q EXCEPT !.admittedOn = counted]
      PROVE  p.user = q.user /\ p.admittedOn = counted /\ Kept(p, q)
  BY <1>3 DEF Fields, Kept
<1>4. ASSUME NEW p, p = [q EXCEPT !.admittedOn = counted]
      PROVE  p = Fields(p)
  BY <1>4 DEF Fields
<1> QED
  BY <1>1, <1>2, <1>3, <1>4

\* What a limit that lets the request pass makes of it.
LEMMA LimitPassed ==
  ASSUME PipeInv, LimiterInv', NEW w \in Workers, Limited(w), ~over[w],
         stage[w] = "limit" => Passes(w),
         NEW user, user = IF stage[w] = "limit" THEN Authenticate(w) ELSE req[w].user,
         req' = [req EXCEPT ![w].user = user, ![w].admittedOn = @ \union {key[w]}],
         NEW s, s \in {"limitUser", "validate"}, Enter(w, s),
         s = "limitUser" <=> stage[w] = "limit" /\ "rate-limit" \in ToSet(RouteOf(w).guards)
  PROVE  PipeInv'
<1>1. /\ pc[w] # "idle"
      /\ stage[w] \in {"limit", "limitUser"}
      /\ key[w] = CompositeKey(w)
  BY DEF Limited, Consumed, PipeInv, OnTrack, OnItsKey
<1>2. /\ \A v \in Workers \ {w} : pc'[v] = pc[v] /\ key'[v] = key[v]
      /\ pc'[w] = "idle"
  BY OthersCall DEF Limited, Consumed, Forget, Goto, PipeInv, LimiterInv
<1>3. PICK q, counted : q = req[w] /\ counted = req[w].admittedOn \union {key[w]}
  OBVIOUS
<1>4. PICK p : p = [q EXCEPT !.user = user]
  OBVIOUS
<1>5. PICK r : r = [p EXCEPT !.admittedOn = counted]
  OBVIOUS
<1>6. r = Fields(r) /\ r.user = user /\ r.admittedOn = counted /\ Kept(r, req[w])
  <2>1. q = Fields(q)
    BY <1>3 DEF PipeInv, OnTrack, Carries
  <2>2. p = Fields(p) /\ p.user = user /\ Kept(p, q)
    BY <1>4, <2>1, OneField
  <2>3. r = Fields(r) /\ r.user = p.user /\ r.admittedOn = counted /\ Kept(r, p)
    BY <1>5, <2>2, OneField
  <2> QED
    BY <1>3, <2>2, <2>3 DEF Kept
<1>7. /\ req' = [req EXCEPT ![w] = r]
      /\ req'[w] = r
      /\ stage' = [stage EXCEPT ![w] = s]
      /\ stage'[w] = s
  BY <1>3, <1>4, <1>5 DEF PipeInv, Enter
<1>8. RouteOf(w)' = RouteOf(w)
  BY <1>6, <1>7 DEF RouteOf, Kept
<1>9. Formed(RouteOf(w))
  BY <1>1, RouteFormed DEF PipeInv
<1>10. Passes(w)
  BY <1>1 DEF PipeInv, OnTrack, Progress
<1>11. user = Authenticate(w)
  BY <1>1 DEF PipeInv, OnTrack, Progress
<1>12. Carries(w)'
  BY <1>1, <1>6, <1>7, <1>8 DEF PipeInv, OnTrack, Carries, Kept
<1>13. Passes(w)' /\ Authenticate(w)' = user
  BY <1>6, <1>7, <1>8, <1>10, <1>11 DEF Passes, Authenticate, Kept
<1>14. CASE stage[w] = "limit"
  <2>1. r.admittedOn = {<<RouteOf(w).rule, req[w].ip>>}
    BY <1>1, <1>3, <1>6, <1>14 DEF CompositeKey, PipeInv, OnTrack, Progress
  <2>2. s = "validate" => RouteOf(w).rule = "global"
    BY <1>9, <1>14, FormsFit
  <2>3. s = "validate" => req'[w].admittedOn = CountedOn(w)'
    BY <1>6, <1>7, <1>8, <2>1, <2>2 DEF CountedOn, Kept
  <2>4. s = "limitUser" => /\ req'[w].admittedOn = {<<RouteOf(w)'.rule, req'[w].ip>>}
                           /\ "rate-limit" \in ToSet(RouteOf(w)'.guards)
    BY <1>6, <1>7, <1>8, <1>14, <2>1 DEF Kept
  <2>5. OnTrack(w)'
    BY <1>2, <1>6, <1>7, <1>12, <1>13, <2>3, <2>4 DEF OnTrack, OnItsKey, Progress
  <2> QED
    BY <1>2, <1>7, <2>5, OneMoves DEF Limited, PipeInv
<1>15. CASE stage[w] = "limitUser"
  <2>1. /\ req[w].admittedOn = {<<RouteOf(w).rule, req[w].ip>>}
        /\ "rate-limit" \in ToSet(RouteOf(w).guards)
        /\ user = req[w].user
    BY <1>15 DEF PipeInv, OnTrack, Progress
  <2>2. RouteOf(w).rule # "global" /\ Authenticates(RouteOf(w))
    BY <1>9, <2>1, FormsFit
  <2>3. req[w].token \in {"access", "refresh"}
    BY <1>9, <1>10, <1>15, <2>2, FormsFit DEF Passes, PipeInv, OnTrack, Carries
  <2>4. user = req[w].owner /\ user # NoUser
    BY <1>11, <1>15, <2>2, <2>3, PipelineAssumption DEF Authenticate, PipeInv, OnTrack, Carries
  <2>5. key[w] = <<RouteOf(w).rule, req[w].owner>>
    BY <1>1, <2>1, <2>4 DEF CompositeKey
  <2>6. req'[w].admittedOn = CountedOn(w)'
    BY <1>3, <1>6, <1>7, <1>8, <2>1, <2>2, <2>5 DEF CountedOn, Kept
  <2>7. s = "validate"
    BY <1>15
  <2>8. OnTrack(w)'
    BY <1>2, <1>6, <1>7, <1>12, <1>13, <2>6, <2>7 DEF OnTrack, OnItsKey, Progress
  <2> QED
    BY <1>2, <1>7, <2>8, OneMoves DEF Limited, PipeInv
<1> QED
  BY <1>1, <1>14, <1>15

LEMMA RespondKeepsTrack ==
  ASSUME PipeInv, LimiterInv', NEW w \in Workers, Respond(w), UNCHANGED load,
         \A v \in Workers \ {w} : pc'[v] = pc[v] /\ key'[v] = key[v],
         pc'[w] = "idle"
  PROVE  PipeInv'
<1>1. stage' = [stage EXCEPT ![w] = "idle"] /\ req' = [req EXCEPT ![w] = NoRequest]
  BY DEF Respond, Enter
<1>2. stage'[w] = "idle" /\ req'[w] = NoRequest
  BY <1>1 DEF PipeInv
<1>3. OnTrack(w)'
  BY <1>2, EndsOnTrack
<1> QED
  BY <1>1, <1>3, OneMoves DEF PipeInv

LEMMA LimitedKeepsTrack ==
  ASSUME PipeInv, LimiterInv', NEW w \in Workers, Limited(w)
  PROVE  PipeInv'
<1>1. CASE Respond(w)
  <2>1. /\ \A v \in Workers \ {w} : pc'[v] = pc[v] /\ key'[v] = key[v]
        /\ pc'[w] = "idle"
    BY OthersCall DEF Limited, Consumed, Forget, Goto, PipeInv, LimiterInv
  <2> QED
    BY <1>1, <2>1, RespondKeepsTrack DEF Limited
<1>2. CASE ~Respond(w)
  <2> DEFINE first == stage[w] = "limit"
             user == IF first THEN Authenticate(w) ELSE req[w].user
             s == IF first /\ "rate-limit" \in ToSet(RouteOf(w).guards)
                  THEN "limitUser" ELSE "validate"
  <2>1. /\ ~over[w]
        /\ first => Passes(w)
        /\ req' = [req EXCEPT ![w].user = IF first THEN Authenticate(w) ELSE @,
                              ![w].admittedOn = @ \union {key[w]}]
        /\ Enter(w, s)
    BY <1>2 DEF Limited
  <2>2. req' = [req EXCEPT ![w].user = user, ![w].admittedOn = @ \union {key[w]}]
    BY <2>1
  <2>3. /\ s \in {"limitUser", "validate"}
        /\ s = "limitUser" <=> first /\ "rate-limit" \in ToSet(RouteOf(w).guards)
        /\ user = IF first THEN Authenticate(w) ELSE req[w].user
    OBVIOUS
  <2> HIDE DEF user, s
  <2> QED
    BY ZenonT(30), <2>1, <2>2, <2>3, LimitPassed
<1> QED
  BY <1>1, <1>2

LEMMA ValidateKeepsTrack ==
  ASSUME PipeInv, LimiterInv', NEW w \in Workers, Validate(w)
  PROVE  PipeInv'
<1>1. stage[w] = "validate" /\ UNCHANGED <<pc, key, load>>
  BY DEF Validate, limiterVars
<1>2. pc[w] = "idle"
  BY <1>1 DEF PipeInv, OnTrack, OnItsKey
<1>3. CASE Respond(w)
  BY <1>1, <1>2, <1>3, RespondKeepsTrack
<1>4. CASE Enter(w, "handle") /\ UNCHANGED req
  <2>1. stage' = [stage EXCEPT ![w] = "handle"] /\ req' = [req EXCEPT ![w] = req[w]]
    BY <1>4 DEF Enter, PipeInv
  <2>2. stage'[w] = "handle" /\ req' = req
    BY <1>4, <2>1 DEF PipeInv
  <2>3. Carries(w)'
    BY <1>1, <2>2 DEF PipeInv, OnTrack, Carries, RouteOf
  <2>4. Progress(w)'
    BY <1>1, <2>2
       DEF PipeInv, OnTrack, Progress, Passes, Authenticate, CountedOn, RouteOf
  <2>5. OnTrack(w)'
    BY <1>1, <1>2, <2>3, <2>4 DEF OnTrack, OnItsKey
  <2> QED
    BY <1>1, <2>1, <2>5, OneMoves DEF PipeInv
<1> QED
  BY <1>3, <1>4 DEF Validate

LEMMA EndKeepsTrack ==
  ASSUME PipeInv, LimiterInv', NEW w \in Workers, Handle(w) \/ Fail(w)
  PROVE  PipeInv'
<1>1. Respond(w) /\ UNCHANGED load
  BY DEF Handle, Fail
<1>2. CASE FailLimit(w)
  <2>1. /\ \A v \in Workers \ {w} : pc'[v] = pc[v] /\ key'[v] = key[v]
        /\ pc'[w] = "idle"
    BY <1>2, OthersCall DEF FailLimit, Forget, Goto, PipeInv, LimiterInv
  <2> QED
    BY <1>1, <2>1, RespondKeepsTrack
<1>3. CASE ~FailLimit(w)
  <2>1. UNCHANGED <<pc, key>> /\ pc[w] = "idle"
    BY <1>3 DEF Handle, Fail, limiterVars, PipeInv, OnTrack, OnItsKey
  <2> QED
    BY <1>1, <2>1, RespondKeepsTrack
<1> QED
  BY <1>2, <1>3

LEMMA PipeInvStep == PipeInv /\ [Next]_vars => PipeInv'
<1> SUFFICES ASSUME PipeInv, [Next]_vars
             PROVE  PipeInv'
  OBVIOUS
<1>1. LimiterInv'
  BY LimiterInvStep DEF PipeInv
<1>2. ASSUME UNCHANGED <<stage, req, load, pc, key>>
      PROVE  PipeInv'
  BY <1>1, <1>2, StandsOnTrack DEF PipeInv
<1>3. CASE Tick /\ UNCHANGED <<stage, req, load, started>>
  BY <1>2, <1>3 DEF Tick
<1>4. CASE UNCHANGED vars
  BY <1>2, <1>4 DEF vars, limiterVars
<1>5. ASSUME NEW w \in Workers,
             \/ Arrive(w) \/ Limit(w) \/ Limited(w) \/ Validate(w) \/ Handle(w) \/ Fail(w)
      PROVE  PipeInv'
  BY <1>1, <1>5, ArriveKeepsTrack, LimitKeepsTrack, LimitedKeepsTrack, ValidateKeepsTrack,
     EndKeepsTrack
<1> QED
  BY <1>3, <1>4, <1>5 DEF Next

LEMMA PipeInvInit == Init => PipeInv
<1> SUFFICES ASSUME Init
             PROVE  PipeInv
  OBVIOUS
<1>1. LimiterInv /\ \A w \in Workers : pc[w] = "idle"
  BY LimiterInvInit DEF Init, LimiterInit
<1>2. \A w \in Workers : stage[w] = "idle" /\ req[w] = NoRequest
  BY DEF Init
<1>3. \A w \in Workers : OnTrack(w)
  BY <1>1, <1>2 DEF OnTrack, Carries, Fields, OnItsKey, Progress, NoRequest
<1> QED
  BY <1>1, <1>3 DEF PipeInv, Init

(* For any clients and any number of concurrent requests: a handler runs only for a  *)
(* request that has been counted on its address and, on a route with a rule of its   *)
(* own, on its user, and, if it takes the user, with the owner of a token that a     *)
(* guard has let pass (RateLimitGuard, JwtAuthGuard, CurrentUser).                   *)
THEOREM HandlersGuarded == Spec => []HandlersAreGuarded
<1>1. PipeInv => HandlersAreGuarded
  <2> SUFFICES ASSUME PipeInv, NEW w \in Workers, stage[w] = "handle"
               PROVE  /\ req[w].admittedOn = CountedOn(w)
                      /\ RouteOf(w).takesUser => /\ req[w].user = req[w].owner
                                                 /\ req[w].token \in {"access", "refresh"}
    BY DEF HandlersAreGuarded
  <2>1. Formed(RouteOf(w))
    BY RouteFormed DEF PipeInv
  <2>2. /\ req[w].admittedOn = CountedOn(w)
        /\ Passes(w)
        /\ req[w].user = Authenticate(w)
        /\ req[w].token \in Tokens
    BY DEF PipeInv, OnTrack, Progress, Carries
  <2> QED
    BY <2>1, <2>2, FormsFit DEF Authenticate, Passes
<1> QED
  BY <1>1, PipeInvInit, PipeInvStep, PTL DEF Spec

(* For any clients, with ids that are no word of a path: every call of a route reaches *)
(* the handler it means, past all the routes that the modules and the controllers      *)
(* declare before it, and, but for the handlers that lack their @HttpCode, is answered *)
(* with a status that their @ApiResponse decorators document.                          *)
THEOREM AnswersDocumented == Spec => []AnswersAreDocumented
<1>1. PipeInv => AnswersAreDocumented
  <2> SUFFICES ASSUME PipeInv, NEW w \in Workers, stage[w] # "idle"
               PROVE  /\ RouteOf(w).handler = req[w].meant
                      /\ \/ RouteOf(w).documented = {}
                         \/ Answered(RouteOf(w)) \in RouteOf(w).documented
                         \/ RouteOf(w).handler \in Misdocumented
    BY DEF AnswersAreDocumented
  <2>1. OnTrack(w)
    BY DEF PipeInv
  <2>2. Formed(RouteOf(w))
    BY <2>1, RouteFormed
  <2> QED
    BY <2>1, <2>2 DEF OnTrack, Carries, Formed, Documented, Answered, DefaultStatus
<1> QED
  BY <1>1, PipeInvInit, PipeInvStep, PTL DEF Spec
=============================================================================

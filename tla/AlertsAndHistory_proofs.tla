----------------------- MODULE AlertsAndHistory_proofs ------------------------
(***************************************************************************)
(* Proofs about Alerts, then Analytics, and then PortfolioHistory.         *)
(*                                                                         *)
(* Alerts, for any number of processing runs, prices, alerts and           *)
(* activations: mails are justified, and there are not more of them than   *)
(* activations for each run.                                               *)
(*                                                                         *)
(* The analytics, for series of any length: what the folds and sums of the *)
(* module compute.  The induction is one on sets, of the numbers, or of    *)
(* the subsets, for which a statement holds.                               *)
(*                                                                         *)
(* The history, for any number of requests, portfolios, points and trades: *)
(* a point is torn, or without its portfolio, only after a race, a         *)
(* correlation pairs returns of the same point, and the figures of an      *)
(* answer do not contradict each other.                                    *)
(***************************************************************************)
EXTENDS Alerts, PortfolioHistory, FiniteSetTheorems, SequenceTheorems,
        WellFoundedInduction, TLAPS

-----------------------------------------------------------------------------
(* Alerts *)

Alert == [status : AlertStatus \cup {"none", "deleted"},
          comparison : {"ABOVE", "BELOW"},
          targetPrice : Prices \cup {0}]

Typed ==
    /\ alerts \in [AlertIds -> Alert]
    /\ price \in Prices
    /\ pc \in [Runs -> {"idle", "evaluate", "update", "notify"}]
    /\ queue \in [Runs -> SUBSET AlertIds]
    /\ quote \in [Runs -> Prices \cup {NoQuote}]
    /\ activations \in [AlertIds -> Nat]
    /\ sent \in [AlertIds -> Nat]
    /\ mailed \in SUBSET (AlertIds \X (Prices \cup {NoQuote}))

Created(a) == alerts[a].status # "none"

\* A run under way has an alert to process, and takes alerts that exist.
RunsHaveWork ==
    \A r \in Runs : /\ pc[r] # "idle" => queue[r] # {}
                    /\ \A a \in queue[r] : Created(a)

QuotesTrigger ==
    \A r \in Runs : pc[r] \in {"update", "notify"} => IsTriggered(Current(r), quote[r])

MailedExist == \A m \in mailed : Created(m[1])

\* What makes every mail justified: a run about to mail an alert has a quote that
\* triggers it, and the condition of an alert never changes once it is created.
MailInv == Typed /\ RunsHaveWork /\ QuotesTrigger /\ MailedExist /\ MailsAreJustified

\* The runs that may mail the alert before it becomes active again.
Owed(a) == {r \in Runs : a \in queue[r] \/ alerts[a].status = "ACTIVE"}

\* The runs that mail it now and may do so once more: it became active in between.
Twice(a) == {r \in Runs : /\ alerts[a].status = "ACTIVE"
                          /\ pc[r] = "notify"
                          /\ Current(r) = a}

Account(a) == sent[a] + Cardinality(Owed(a)) + Cardinality(Twice(a))

\* The mails sent and still to come are covered by the activations so far.
MailsCovered ==
    \A a \in AlertIds : /\ Account(a) <= Cardinality(Runs) * activations[a]
                        /\ ~Created(a) => sent[a] = 0

CountInv == MailInv /\ MailsCovered

-----------------------------------------------------------------------------
LEMMA LessThanIsWellFounded == IsWellFoundedOn({p \in Nat \X Nat : p[1] < p[2]}, Nat)
  BY NatLessThanWellFounded DEF OpToRel

\* A set of alerts has a first one, so the CHOOSE of Current means something.
LEMMA FirstExists ==
    ASSUME NEW Q \in SUBSET AlertIds, Q # {}
    PROVE  \E a \in Q : \A b \in Q : a <= b
<1> DEFINE R == {p \in Nat \X Nat : p[1] < p[2]}
<1>1. Q \subseteq Nat
  BY AlertsAssumption DEF AlertIds
<1>2. PICK a \in Q : \A b \in Q : ~(<<b, a>> \in R)
  <2> HIDE DEF R
  <2>1. IsWellFoundedOn(R, Nat)
    BY LessThanIsWellFounded DEF R
  <2> QED
    BY <1>1, <2>1, WFMin
<1>3. ASSUME NEW b \in Q
      PROVE  a <= b
  <2>1. ~(<<b, a>> \in R)
    BY <1>2
  <2>2. a \in Nat /\ b \in Nat
    BY <1>1
  <2>3. ~(b < a)
    BY <2>1, <2>2
  <2> QED
    BY <2>2, <2>3
<1> QED
  BY <1>3

LEMMA CurrentIsQueued ==
    ASSUME Typed, NEW r \in Runs, queue[r] # {}
    PROVE  Current(r) \in queue[r]
<1>1. queue[r] \in SUBSET AlertIds
  BY DEF Typed
<1> QED
  BY <1>1, FirstExists DEF Current

\* A run that is not idle has a current alert, and it exists.
LEMMA CurrentExists ==
    ASSUME MailInv, NEW r \in Runs, pc[r] # "idle"
    PROVE  /\ Current(r) \in queue[r]
           /\ Current(r) \in AlertIds
           /\ Created(Current(r))
<1>1. Current(r) \in queue[r]
  BY CurrentIsQueued DEF MailInv, RunsHaveWork
<1> QED
  BY <1>1 DEF MailInv, RunsHaveWork, Typed

\* The condition of an alert is never changed.
ConditionsKept ==
    \A a \in AlertIds : Created(a) =>
        /\ Created(a)'
        /\ alerts'[a].comparison = alerts[a].comparison
        /\ alerts'[a].targetPrice = alerts[a].targetPrice

-----------------------------------------------------------------------------
LEMMA MailInvInit == Init => MailInv
  BY DEF Init, MailInv, Typed, RunsHaveWork, QuotesTrigger, MailedExist, MailsAreJustified,
         NoAlert, NoQuote, Alert

\* Owners, and the market, do not touch the runs and change no condition.
LEMMA OwnersKeepMailInv ==
    ASSUME MailInv, ConditionsKept,
           alerts' \in [AlertIds -> Alert], price' \in Prices,
           activations' \in [AlertIds -> Nat],
           UNCHANGED <<pc, queue, quote, sent, mailed>>
    PROVE  MailInv'
<1>1. Typed'
  BY DEF MailInv, Typed
<1>2. RunsHaveWork'
  BY DEF MailInv, RunsHaveWork, Typed, ConditionsKept
<1>3. QuotesTrigger'
  <2> SUFFICES ASSUME NEW r \in Runs, pc[r] \in {"update", "notify"}
               PROVE  IsTriggered(Current(r), quote[r])'
    BY DEF QuotesTrigger
  <2>1. Current(r)' = Current(r)
    BY DEF Current
  <2>2. Current(r) \in AlertIds /\ Created(Current(r))
    BY CurrentExists
  <2>3. IsTriggered(Current(r), quote[r])
    BY DEF MailInv, QuotesTrigger
  <2> QED
    BY <2>1, <2>2, <2>3 DEF ConditionsKept, IsTriggered
<1>4. MailedExist' /\ MailsAreJustified'
  BY DEF MailInv, MailedExist, MailsAreJustified, ConditionsKept, Typed
<1> QED
  BY <1>1, <1>2, <1>3, <1>4 DEF MailInv

\* A run that goes on, with the rest of its alerts or with the current one, which its
\* quote then triggers.
LEMMA RunsKeepMailInv ==
    ASSUME MailInv, ConditionsKept, NEW r \in Runs,
           NEW label \in {"idle", "evaluate", "update", "notify"},
           NEW Q \in SUBSET queue[r], NEW q \in Prices \cup {NoQuote},
           Goto(r, label),
           queue' = [queue EXCEPT ![r] = Q],
           quote' = [quote EXCEPT ![r] = q],
           label # "idle" => Q # {},
           label \in {"update", "notify"} => /\ Q = queue[r]
                                            /\ pc[r] # "idle"
                                            /\ IsTriggered(Current(r), q),
           alerts' \in [AlertIds -> Alert],
           sent' \in [AlertIds -> Nat],
           mailed' \in SUBSET (AlertIds \X (Prices \cup {NoQuote})),
           MailedExist', MailsAreJustified',
           UNCHANGED <<price, activations>>
    PROVE  MailInv'
<1>1. Typed'
  BY DEF MailInv, Typed, Goto
<1>2. RunsHaveWork'
  <2> SUFFICES ASSUME NEW s \in Runs
               PROVE  /\ pc'[s] # "idle" => queue'[s] # {}
                      /\ \A a \in queue'[s] : Created(a)'
    BY DEF RunsHaveWork
  <2>1. queue'[s] \subseteq queue[s] /\ queue'[s] \subseteq AlertIds
    BY DEF MailInv, Typed
  <2>2. \A a \in queue'[s] : Created(a)'
    BY <2>1 DEF MailInv, RunsHaveWork, ConditionsKept
  <2>3. pc'[s] # "idle" => queue'[s] # {}
    BY DEF MailInv, RunsHaveWork, Typed, Goto
  <2> QED
    BY <2>2, <2>3
<1>3. QuotesTrigger'
  <2> SUFFICES ASSUME NEW s \in Runs, pc'[s] \in {"update", "notify"}
               PROVE  IsTriggered(Current(s), quote[s])'
    BY DEF QuotesTrigger
  <2>1. queue'[s] = queue[s] /\ pc[s] # "idle"
    BY DEF MailInv, Typed, Goto
  <2>2. Current(s)' = Current(s)
    BY <2>1 DEF Current
  <2>3. Current(s) \in AlertIds /\ Created(Current(s))
    BY <2>1, CurrentExists
  <2>4. IsTriggered(Current(s), quote'[s])
    BY DEF MailInv, QuotesTrigger, Typed, Goto
  <2> QED
    BY <2>2, <2>3, <2>4 DEF ConditionsKept, IsTriggered
<1> QED
  BY <1>1, <1>2, <1>3 DEF MailInv

\* The run takes its next alert, or ends.
LEMMA ContinueKeepsMailInv ==
    ASSUME MailInv, NEW r \in Runs, pc[r] # "idle", Continue(r),
           sent' \in [AlertIds -> Nat],
           mailed' \in SUBSET (AlertIds \X (Prices \cup {NoQuote})),
           MailedExist', MailsAreJustified',
           UNCHANGED <<alerts, price, activations>>
    PROVE  MailInv'
<1> DEFINE label == IF queue[r] = {Current(r)} THEN "idle" ELSE "evaluate"
           Q == queue[r] \ {Current(r)}
<1>1. Current(r) \in queue[r]
  BY CurrentExists
<1>2. label # "idle" => Q # {}
  BY <1>1
<1>3. /\ Goto(r, label)
      /\ queue' = [queue EXCEPT ![r] = Q]
      /\ quote' = [quote EXCEPT ![r] = NoQuote]
  BY DEF Continue
<1>4. label \in {"idle", "evaluate"} /\ Q \in SUBSET queue[r]
  OBVIOUS
<1>5. ConditionsKept /\ alerts' \in [AlertIds -> Alert]
  BY DEF ConditionsKept, MailInv, Typed, Created
<1> HIDE DEF label, Q
<1> QED
  BY <1>2, <1>3, <1>4, <1>5, RunsKeepMailInv

LEMMA AbortKeepsMailInv ==
    ASSUME MailInv, NEW r \in Runs, Abort(r),
           UNCHANGED <<alerts, price, activations, sent, mailed>>
    PROVE  MailInv'
<1>1. ConditionsKept /\ alerts' \in [AlertIds -> Alert] /\ sent' \in [AlertIds -> Nat]
  BY DEF ConditionsKept, MailInv, Typed, Created
<1>2. /\ MailedExist' /\ MailsAreJustified'
      /\ mailed' \in SUBSET (AlertIds \X (Prices \cup {NoQuote}))
  BY DEF MailInv, MailedExist, MailsAreJustified, Typed, Created
<1>3. {} \in SUBSET queue[r]
  OBVIOUS
<1> QED
  BY <1>1, <1>2, <1>3, RunsKeepMailInv DEF Abort

-----------------------------------------------------------------------------
\* Nobody but the mail's own run touches what was mailed.
LEMMA MailedKept ==
    ASSUME MailInv, UNCHANGED <<alerts, mailed>>
    PROVE  /\ MailedExist' /\ MailsAreJustified'
           /\ mailed' \in SUBSET (AlertIds \X (Prices \cup {NoQuote}))
  BY DEF MailInv, MailedExist, MailsAreJustified, Typed, Created

LEMMA CreateKeepsMailInv ==
    ASSUME MailInv, NEW a \in AlertIds, CreateAlert(a)
    PROVE  MailInv'
<1>1. ConditionsKept
  BY DEF CreateAlert, ConditionsKept, MailInv, Typed, Created, Alert
<1>2. alerts' \in [AlertIds -> Alert]
  BY DEF CreateAlert, MailInv, Typed, Alert, AlertStatus
<1>3. activations' \in [AlertIds -> Nat]
  BY DEF CreateAlert, MailInv, Typed
<1> QED
  BY <1>1, <1>2, <1>3, OwnersKeepMailInv DEF CreateAlert, MailInv, Typed

LEMMA PatchKeepsMailInv ==
    ASSUME MailInv, NEW a \in AlertIds, NEW status \in AlertStatus, PatchStatus(a, status)
    PROVE  MailInv'
<1>1. ConditionsKept
  BY DEF PatchStatus, ConditionsKept, MailInv, Typed, Created, Alert, AlertStatus
<1>2. alerts' \in [AlertIds -> Alert]
  BY DEF PatchStatus, MailInv, Typed, Alert
<1>3. activations' \in [AlertIds -> Nat]
  BY DEF PatchStatus, MailInv, Typed
<1> QED
  BY <1>1, <1>2, <1>3, OwnersKeepMailInv DEF PatchStatus, MailInv, Typed

LEMMA DeleteKeepsMailInv ==
    ASSUME MailInv, NEW a \in AlertIds, DeleteAlert(a)
    PROVE  MailInv'
<1>1. ConditionsKept
  BY DEF DeleteAlert, ConditionsKept, MailInv, Typed, Created, Alert
<1>2. alerts' \in [AlertIds -> Alert]
  BY DEF DeleteAlert, MailInv, Typed, Alert
<1> QED
  BY <1>1, <1>2, OwnersKeepMailInv DEF DeleteAlert, MailInv, Typed

LEMMA PriceMovesKeepsMailInv ==
    ASSUME MailInv, PriceMoves
    PROVE  MailInv'
<1>1. ConditionsKept
  BY DEF PriceMoves, ConditionsKept, Created
<1> QED
  BY <1>1, OwnersKeepMailInv DEF PriceMoves, MailInv, Typed

LEMMA BeginKeepsMailInv ==
    ASSUME MailInv, NEW r \in Runs, Begin(r)
    PROVE  MailInv'
<1>1. Typed'
  BY DEF Begin, Goto, MailInv, Typed
<1>2. RunsHaveWork'
  BY DEF Begin, Goto, MailInv, RunsHaveWork, Typed, Created
<1>3. QuotesTrigger'
  <2> SUFFICES ASSUME NEW s \in Runs, pc'[s] \in {"update", "notify"}
               PROVE  IsTriggered(Current(s), quote[s])'
    BY DEF QuotesTrigger
  <2>1. s # r /\ pc'[s] = pc[s] /\ queue'[s] = queue[s]
    BY DEF Begin, Goto, MailInv, Typed
  <2>2. IsTriggered(Current(s), quote[s])
    BY <2>1 DEF MailInv, QuotesTrigger
  <2>3. Current(s)' = Current(s)
    BY <2>1 DEF Current
  <2> QED
    BY <2>2, <2>3 DEF IsTriggered, Begin
<1>4. MailedExist' /\ MailsAreJustified'
  BY MailedKept DEF Begin
<1> QED
  BY <1>1, <1>2, <1>3, <1>4 DEF MailInv

LEMMA TriggersKeepsMailInv ==
    ASSUME MailInv, NEW r \in Runs, Triggers(r)
    PROVE  MailInv'
<1>1. ConditionsKept /\ alerts' \in [AlertIds -> Alert] /\ sent' \in [AlertIds -> Nat]
  BY DEF Triggers, ConditionsKept, MailInv, Typed, Created
<1>2. /\ MailedExist' /\ MailsAreJustified'
      /\ mailed' \in SUBSET (AlertIds \X (Prices \cup {NoQuote}))
  BY MailedKept DEF Triggers
<1>3. queue[r] \in SUBSET queue[r] /\ queue[r] # {} /\ queue' = [queue EXCEPT ![r] = queue[r]]
  BY DEF Triggers, MailInv, RunsHaveWork, Typed
<1>4. price \in Prices \cup {NoQuote}
  BY DEF MailInv, Typed
<1>5. Goto(r, "update") /\ quote' = [quote EXCEPT ![r] = price] /\ pc[r] # "idle"
      /\ IsTriggered(Current(r), price) /\ UNCHANGED <<price, activations>>
  BY DEF Triggers
<1> QED
  BY <1>1, <1>2, <1>3, <1>4, <1>5, RunsKeepMailInv

LEMMA UpdateKeepsMailInv ==
    ASSUME MailInv, NEW r \in Runs, UpdateAlertStatus(r)
    PROVE  MailInv'
<1>1. CASE Stored(Current(r))
  <2>1. /\ alerts' = [alerts EXCEPT ![Current(r)].status = "TRIGGERED"]
        /\ Goto(r, "notify")
        /\ UNCHANGED <<queue, quote, price, activations, sent, mailed>>
        /\ pc[r] = "update"
    BY <1>1 DEF UpdateAlertStatus
  <2>2. ConditionsKept /\ alerts' \in [AlertIds -> Alert]
    <3>1. alerts \in [AlertIds -> Alert]
      BY DEF MailInv, Typed
    <3>2. PICK c : c = Current(r)
      OBVIOUS
    <3>3. alerts' = [alerts EXCEPT ![c].status = "TRIGGERED"]
      BY <2>1, <3>2
    <3>4. ASSUME NEW a \in AlertIds
          PROVE  /\ alerts'[a] \in Alert
                 /\ Created(a) => alerts'[a].status # "none"
                 /\ alerts'[a].comparison = alerts[a].comparison
                 /\ alerts'[a].targetPrice = alerts[a].targetPrice
      <4>1. alerts[a] \in Alert
        BY <3>1
      <4>2. CASE a = c
        <5>1. alerts'[a] = [alerts[a] EXCEPT !.status = "TRIGGERED"]
          BY <3>1, <3>3, <4>2
        <5> QED
          BY <4>1, <5>1 DEF Alert, AlertStatus
      <4>3. CASE a # c
        BY <3>1, <3>3, <4>1, <4>3 DEF Created
      <4> QED
        BY <4>2, <4>3
    <3>5. alerts' \in [AlertIds -> Alert]
      BY <3>1, <3>3, <3>4
    <3> QED
      BY <3>4, <3>5 DEF ConditionsKept, Created
  <2>3. MailedExist' /\ MailsAreJustified'
    BY <2>1, <2>2 DEF MailInv, MailedExist, MailsAreJustified, ConditionsKept, Typed
  <2>4. /\ mailed' \in SUBSET (AlertIds \X (Prices \cup {NoQuote}))
        /\ sent' \in [AlertIds -> Nat]
    BY <2>1 DEF MailInv, Typed
  <2>5. /\ queue[r] \in SUBSET queue[r] /\ queue[r] # {}
        /\ queue' = [queue EXCEPT ![r] = queue[r]]
        /\ quote[r] \in Prices \cup {NoQuote}
        /\ quote' = [quote EXCEPT ![r] = quote[r]]
        /\ IsTriggered(Current(r), quote[r])
    BY <2>1 DEF MailInv, RunsHaveWork, QuotesTrigger, Typed
  <2> QED
    BY <2>1, <2>2, <2>3, <2>4, <2>5, RunsKeepMailInv
<1>2. CASE ~Stored(Current(r))
  BY <1>2, AbortKeepsMailInv DEF UpdateAlertStatus
<1> QED
  BY <1>1, <1>2

LEMMA SendKeepsMailInv ==
    ASSUME MailInv, NEW r \in Runs, SendAlertNotifications(r)
    PROVE  MailInv'
<1>1. /\ Current(r) \in AlertIds
      /\ Created(Current(r))
  BY CurrentExists DEF SendAlertNotifications
<1>2. sent' \in [AlertIds -> Nat]
  BY <1>1 DEF SendAlertNotifications, MailInv, Typed
<1>3. mailed' \in SUBSET (AlertIds \X (Prices \cup {NoQuote}))
  BY <1>1 DEF SendAlertNotifications, MailInv, Typed
<1>4. MailedExist'
  BY <1>1 DEF SendAlertNotifications, MailInv, MailedExist, Created
<1>5. MailsAreJustified'
  <2>1. IsTriggered(Current(r), quote[r])
    BY DEF SendAlertNotifications, MailInv, QuotesTrigger
  <2> QED
    BY <2>1 DEF SendAlertNotifications, MailInv, MailsAreJustified, IsTriggered
<1> QED
  BY <1>2, <1>3, <1>4, <1>5, ContinueKeepsMailInv DEF SendAlertNotifications

\* An alert that is passed over, or whose mail is lost.
LEMMA SkipKeepsMailInv ==
    ASSUME MailInv, NEW r \in Runs, Passes(r) \/ PriceUnknown(r) \/ DeliveryFails(r)
    PROVE  MailInv'
<1>1. /\ Continue(r) /\ pc[r] # "idle"
      /\ UNCHANGED <<alerts, price, activations, sent, mailed>>
  BY DEF Passes, PriceUnknown, DeliveryFails
<1>2. sent' \in [AlertIds -> Nat]
  BY <1>1 DEF MailInv, Typed
<1> QED
  BY <1>1, <1>2, MailedKept, ContinueKeepsMailInv

LEMMA MailInvStep == MailInv /\ [Next]_vars => MailInv'
<1> SUFFICES ASSUME MailInv, [Next]_vars
             PROVE  MailInv'
  OBVIOUS
<1>1. ASSUME NEW a \in AlertIds, CreateAlert(a) \/ DeleteAlert(a)
      PROVE  MailInv'
  BY <1>1, CreateKeepsMailInv, DeleteKeepsMailInv
<1>2. ASSUME NEW a \in AlertIds, NEW status \in AlertStatus, PatchStatus(a, status)
      PROVE  MailInv'
  BY <1>2, PatchKeepsMailInv
<1>3. CASE PriceMoves
  BY <1>3, PriceMovesKeepsMailInv
<1>4. ASSUME NEW r \in Runs, Begin(r)
      PROVE  MailInv'
  BY <1>4, BeginKeepsMailInv
<1>5. ASSUME NEW r \in Runs, Goes(r)
      PROVE  MailInv'
  BY <1>5, TriggersKeepsMailInv, SkipKeepsMailInv, UpdateKeepsMailInv, SendKeepsMailInv
     DEF Goes
<1>6. ASSUME NEW r \in Runs, Fault(r)
      PROVE  MailInv'
  BY <1>6, SkipKeepsMailInv, AbortKeepsMailInv DEF Fault, Fail
<1>7. CASE UNCHANGED vars
  <2>1. ConditionsKept
    BY <1>7 DEF vars, ConditionsKept, Created
  <2> QED
    BY <1>7, <2>1, OwnersKeepMailInv DEF vars, MailInv, Typed
<1> QED
  BY <1>1, <1>2, <1>3, <1>4, <1>5, <1>6, <1>7 DEF Next, Step

(* For any number of runs that overlap, and whatever owners and prices do: a mail *)
(* reports a price beyond the target of its alert                                 *)
(* (AlertProcessorService.processAlerts).                                         *)
THEOREM NoFalseAlarm == Spec => []MailsAreJustified
<1>1. MailInv => MailsAreJustified
  BY DEF MailInv
<1> QED
  BY <1>1, MailInvInit, MailInvStep, PTL DEF Spec

-----------------------------------------------------------------------------
(* Counting mails *)

LEMMA RunsFinite ==
    ASSUME NEW S \in SUBSET Runs
    PROVE  /\ IsFiniteSet(S)
           /\ Cardinality(S) \in Nat
           /\ Cardinality(S) <= Cardinality(Runs)
           /\ Cardinality(Runs) \in Nat
  BY FS_Subset, FS_CardinalityType, AlertsAssumption

LEMMA OneMoreTimes ==
    ASSUME NEW n \in Nat, NEW k \in Nat
    PROVE  n * (k + 1) = n * k + n /\ n * k \in Nat
  OBVIOUS

LEMMA CountInvInit == Init => CountInv
<1> SUFFICES ASSUME Init
             PROVE  CountInv
  OBVIOUS
<1>1. ASSUME NEW a \in AlertIds
      PROVE  /\ Account(a) <= Cardinality(Runs) * activations[a]
             /\ sent[a] = 0
  <2>1. Owed(a) = {} /\ Twice(a) = {}
    BY DEF Init, Owed, Twice, NoAlert
  <2>2. sent[a] = 0 /\ activations[a] = 0
    BY DEF Init
  <2>3. Cardinality(Runs) \in Nat
    BY RunsFinite
  <2> QED
    BY <2>1, <2>2, <2>3, FS_EmptySet DEF Account
<1> QED
  BY <1>1, MailInvInit DEF CountInv, MailsCovered

\* One alert, in a step that sends it no mail and does not activate it.
LEMMA AccountShrinks ==
    ASSUME CountInv, NEW a \in AlertIds,
           Owed(a)' \subseteq Owed(a), Twice(a)' \subseteq Twice(a),
           sent'[a] = sent[a], activations'[a] = activations[a]
    PROVE  Account(a)' <= Cardinality(Runs) * activations'[a]
<1>1. Owed(a) \in SUBSET Runs /\ Twice(a) \in SUBSET Runs
  BY DEF Owed, Twice
<1>2. /\ Cardinality(Owed(a)') <= Cardinality(Owed(a))
      /\ Cardinality(Twice(a)') <= Cardinality(Twice(a))
  BY <1>1, RunsFinite, FS_Subset
<1>3. /\ Cardinality(Owed(a)) \in Nat /\ Cardinality(Owed(a)') \in Nat
      /\ Cardinality(Twice(a)) \in Nat /\ Cardinality(Twice(a)') \in Nat
  BY <1>1, RunsFinite
<1>4. sent[a] \in Nat /\ activations[a] \in Nat /\ Cardinality(Runs) \in Nat
  BY RunsFinite DEF CountInv, MailInv, Typed
<1>5. sent[a] + Cardinality(Owed(a)) + Cardinality(Twice(a))
        <= Cardinality(Runs) * activations[a]
  BY DEF CountInv, MailsCovered, Account
<1>6. Cardinality(Runs) * activations[a] \in Nat
  BY <1>4
<1>7. sent[a] + Cardinality(Owed(a)') + Cardinality(Twice(a)')
        <= Cardinality(Runs) * activations[a]
  BY <1>2, <1>3, <1>4, <1>5, <1>6
<1> QED
  BY <1>7 DEF Account

\* A step that mails nothing, and activates at most the alert b.
LEMMA OthersShrink ==
    ASSUME CountInv, MailInv', ConditionsKept, UNCHANGED sent,
           \A a \in AlertIds :
               \/ Account(a)' <= Cardinality(Runs) * activations'[a]
               \/ /\ Owed(a)' \subseteq Owed(a) /\ Twice(a)' \subseteq Twice(a)
                  /\ activations'[a] = activations[a]
    PROVE  CountInv'
<1>1. ASSUME NEW a \in AlertIds
      PROVE  Account(a)' <= Cardinality(Runs) * activations'[a]
  BY AccountShrinks
<1>2. ASSUME NEW a \in AlertIds, ~Created(a)'
      PROVE  sent'[a] = 0
  BY <1>2 DEF CountInv, MailsCovered, ConditionsKept
<1> QED
  BY <1>1, <1>2 DEF CountInv, MailsCovered

LEMMA CreateKeepsCountInv ==
    ASSUME CountInv, MailInv', NEW b \in AlertIds, CreateAlert(b)
    PROVE  CountInv'
<1>1. ConditionsKept
  BY DEF CreateAlert, ConditionsKept, CountInv, MailInv, Typed, Created, Alert
<1>2. Account(b)' <= Cardinality(Runs) * activations'[b]
  <2>1. Twice(b)' = {}
    <3> SUFFICES ASSUME NEW r \in Runs, pc[r] = "notify", Current(r)' = b
                 PROVE  FALSE
      BY DEF Twice, CreateAlert
    <3>1. Current(r) = b
      BY DEF Current, CreateAlert
    <3>2. Created(b)
      BY <3>1, CurrentExists DEF CountInv
    <3> QED
      BY <3>2 DEF Created, CreateAlert
  <2>2. sent'[b] = 0 /\ activations'[b] = 1
    BY DEF CreateAlert, CountInv, MailsCovered, Created, MailInv, Typed
  <2>3. Owed(b)' \in SUBSET Runs
    BY DEF Owed
  <2> QED
    BY <2>1, <2>2, <2>3, RunsFinite, FS_EmptySet DEF Account
<1>3. ASSUME NEW a \in AlertIds, a # b
      PROVE  /\ Owed(a)' = Owed(a) /\ Twice(a)' = Twice(a)
             /\ activations'[a] = activations[a]
  <2>1. alerts'[a] = alerts[a] /\ activations'[a] = activations[a] /\ pc' = pc /\ queue' = queue
    BY <1>3 DEF CreateAlert, CountInv, MailInv, Typed
  <2> QED
    BY <2>1 DEF Owed, Twice, Current
<1> QED
  BY <1>1, <1>2, <1>3, OthersShrink DEF CreateAlert

LEMMA PatchKeepsCountInv ==
    ASSUME CountInv, MailInv', NEW b \in AlertIds, NEW status \in AlertStatus,
           PatchStatus(b, status)
    PROVE  CountInv'
<1>1. ConditionsKept
  BY DEF PatchStatus, ConditionsKept, CountInv, MailInv, Typed, Created, Alert, AlertStatus
<1>2. /\ \A r \in Runs : Current(r)' = Current(r)
      /\ \A a \in AlertIds \ {b} : alerts'[a] = alerts[a]
      /\ alerts'[b].status = status
      /\ pc' = pc /\ queue' = queue /\ sent' = sent
  BY DEF PatchStatus, CountInv, MailInv, Typed, Alert, Current
<1>3. CASE status = "ACTIVE" /\ alerts[b].status # "ACTIVE"
  <2>1. activations' = [activations EXCEPT ![b] = @ + 1]
    BY <1>3 DEF PatchStatus
  <2>2. Account(b)' <= Cardinality(Runs) * activations'[b]
    <3> DEFINE N == Cardinality(Runs)
    <3>1. Twice(b)' \subseteq Owed(b)
      <4> SUFFICES ASSUME NEW r \in Runs, pc[r] = "notify", Current(r) = b
                   PROVE  b \in queue[r]
        BY <1>2 DEF Twice, Owed
      <4> QED
        BY CurrentExists DEF CountInv
    <3>2. Owed(b) \in SUBSET Runs /\ Owed(b)' \in SUBSET Runs /\ Twice(b) \in SUBSET Runs
      BY DEF Owed, Twice
    <3>3. /\ Cardinality(Twice(b)') <= Cardinality(Owed(b))
          /\ Cardinality(Owed(b)') <= N
          /\ Cardinality(Twice(b)') \in Nat /\ Cardinality(Owed(b)') \in Nat
          /\ Cardinality(Owed(b)) \in Nat /\ Cardinality(Twice(b)) \in Nat /\ N \in Nat
      BY <3>1, <3>2, RunsFinite, FS_Subset
    <3>4. sent[b] \in Nat /\ activations[b] \in Nat /\ activations'[b] = activations[b] + 1
      BY <2>1 DEF CountInv, MailInv, Typed
    <3>5. sent[b] + Cardinality(Owed(b)) + Cardinality(Twice(b)) <= N * activations[b]
      BY DEF CountInv, MailsCovered, Account
    <3> HIDE DEF N
    <3>6. N * activations'[b] = N * activations[b] + N /\ N * activations[b] \in Nat
      BY <3>3, <3>4, OneMoreTimes
    <3>7. sent[b] + Cardinality(Owed(b)') + Cardinality(Twice(b)') <= N * activations'[b]
      BY <3>3, <3>4, <3>5, <3>6
    <3> QED
      BY <1>2, <3>7 DEF Account, N
  <2>3. ASSUME NEW a \in AlertIds, a # b
        PROVE  /\ Owed(a)' = Owed(a) /\ Twice(a)' = Twice(a)
               /\ activations'[a] = activations[a]
    BY <1>2, <2>1, <2>3 DEF Owed, Twice, CountInv, MailInv, Typed
  <2> QED
    BY <1>1, <1>2, <2>2, <2>3, OthersShrink
<1>4. CASE ~(status = "ACTIVE" /\ alerts[b].status # "ACTIVE")
  <2>1. activations' = activations
    BY <1>4 DEF PatchStatus
  <2>2. ASSUME NEW a \in AlertIds
        PROVE  Owed(a)' \subseteq Owed(a) /\ Twice(a)' \subseteq Twice(a)
    BY <1>2, <1>4 DEF Owed, Twice
  <2> QED
    BY <1>1, <1>2, <2>1, <2>2, OthersShrink
<1> QED
  BY <1>3, <1>4

LEMMA DeleteKeepsCountInv ==
    ASSUME CountInv, MailInv', NEW b \in AlertIds, DeleteAlert(b)
    PROVE  CountInv'
<1>1. ConditionsKept
  BY DEF DeleteAlert, ConditionsKept, CountInv, MailInv, Typed, Created, Alert
<1>2. ASSUME NEW a \in AlertIds
      PROVE  Owed(a)' \subseteq Owed(a) /\ Twice(a)' \subseteq Twice(a)
  BY DEF DeleteAlert, CountInv, MailInv, Typed, Alert, Owed, Twice, Current
<1> QED
  BY <1>1, <1>2, OthersShrink DEF DeleteAlert

\* A step of a run that mails nothing: it takes no more alerts than are active.
LEMMA QuietRunsKeepCountInv ==
    ASSUME CountInv, MailInv', UNCHANGED <<alerts, activations, sent>>, NEW r \in Runs,
           pc'[r] # "notify",
           \A a \in queue'[r] \ queue[r] : alerts[a].status = "ACTIVE",
           \A s \in Runs \ {r} : pc'[s] = pc[s] /\ queue'[s] = queue[s]
    PROVE  CountInv'
<1>1. ConditionsKept
  BY DEF ConditionsKept, Created
<1>2. ASSUME NEW a \in AlertIds
      PROVE  Owed(a)' \subseteq Owed(a) /\ Twice(a)' \subseteq Twice(a)
  BY DEF Owed, Twice, Current
<1> QED
  BY <1>1, <1>2, OthersShrink

LEMMA BeginKeepsCountInv ==
    ASSUME CountInv, MailInv', NEW r \in Runs, Begin(r)
    PROVE  CountInv'
  BY QuietRunsKeepCountInv DEF Begin, Goto, CountInv, MailInv, Typed

LEMMA TriggersKeepsCountInv ==
    ASSUME CountInv, MailInv', NEW r \in Runs, Triggers(r)
    PROVE  CountInv'
  BY QuietRunsKeepCountInv DEF Triggers, Goto, CountInv, MailInv, Typed

LEMMA ContinueKeepsCountInv ==
    ASSUME CountInv, MailInv', NEW r \in Runs, Continue(r),
           UNCHANGED <<alerts, activations, sent>>
    PROVE  CountInv'
  BY QuietRunsKeepCountInv DEF Continue, Goto, CountInv, MailInv, Typed

LEMMA AbortKeepsCountInv ==
    ASSUME CountInv, MailInv', NEW r \in Runs, Abort(r),
           UNCHANGED <<alerts, activations, sent>>
    PROVE  CountInv'
  BY QuietRunsKeepCountInv DEF Abort, Goto, CountInv, MailInv, Typed

LEMMA UpdateKeepsCountInv ==
    ASSUME CountInv, MailInv', NEW r \in Runs, UpdateAlertStatus(r)
    PROVE  CountInv'
<1>1. CASE Stored(Current(r))
  <2>1. /\ alerts' = [alerts EXCEPT ![Current(r)].status = "TRIGGERED"]
        /\ pc' = [pc EXCEPT ![r] = "notify"]
        /\ UNCHANGED <<queue, activations, sent>>
        /\ pc[r] = "update"
    BY <1>1 DEF UpdateAlertStatus, Goto
  <2>2. ConditionsKept
    BY <2>1 DEF ConditionsKept, CountInv, MailInv, Typed, Created, Alert
  <2>3. \A s \in Runs : Current(s)' = Current(s)
    BY <2>1 DEF Current
  <2>4. ASSUME NEW a \in AlertIds
        PROVE  Owed(a)' \subseteq Owed(a) /\ Twice(a)' \subseteq Twice(a)
    <3>1. Owed(a)' \subseteq Owed(a)
      BY <2>1 DEF Owed, CountInv, MailInv, Typed, Alert
    <3>2. CASE a = Current(r)
      <4>1. alerts'[a].status = "TRIGGERED"
        BY <2>1, <3>2 DEF CountInv, MailInv, Typed, Alert
      <4> QED
        BY <3>1, <4>1 DEF Twice
    <3>3. CASE a # Current(r)
      <4>1. alerts'[a] = alerts[a]
        BY <2>1, <3>3 DEF CountInv, MailInv, Typed
      <4>2. \A s \in Runs \ {r} : pc'[s] = pc[s]
        BY <2>1 DEF CountInv, MailInv, Typed
      <4> QED
        BY <2>3, <3>1, <3>3, <4>1, <4>2 DEF Twice
    <3> QED
      BY <3>2, <3>3
  <2> QED
    BY <2>1, <2>2, <2>4, OthersShrink
<1>2. CASE ~Stored(Current(r))
  BY <1>2, AbortKeepsCountInv DEF UpdateAlertStatus
<1> QED
  BY <1>1, <1>2

\* A mail takes its run out of the runs that owe it: if the alert is active again, the
\* run has mailed it for the activation before and stays in Owed.
LEMMA SendKeepsCountInv ==
    ASSUME CountInv, MailInv', NEW r \in Runs, SendAlertNotifications(r)
    PROVE  CountInv'
<1>0. PICK b \in AlertIds : b = Current(r)
  BY CurrentExists DEF SendAlertNotifications, CountInv
<1>1. b \in queue[r] /\ Created(b)
  BY <1>0, CurrentExists DEF SendAlertNotifications, CountInv
<1>2. /\ pc[r] = "notify" /\ pc'[r] # "notify"
      /\ queue'[r] = queue[r] \ {b}
      /\ \A s \in Runs \ {r} : pc'[s] = pc[s] /\ queue'[s] = queue[s]
      /\ alerts' = alerts /\ activations' = activations
      /\ sent'[b] = sent[b] + 1
      /\ \A a \in AlertIds \ {b} : sent'[a] = sent[a]
  BY <1>0, <1>1 DEF SendAlertNotifications, Continue, Goto, CountInv, MailInv, Typed
<1>3. \A s \in Runs \ {r} : Current(s)' = Current(s)
  BY <1>2 DEF Current
<1>4. ASSUME NEW a \in AlertIds
      PROVE  Owed(a)' \subseteq Owed(a) /\ Twice(a)' \subseteq Twice(a)
  BY <1>2, <1>3 DEF Owed, Twice
<1>5. Account(b)' <= Cardinality(Runs) * activations'[b]
  <2>1. /\ Owed(b) \in SUBSET Runs /\ Twice(b) \in SUBSET Runs
        /\ IsFiniteSet(Owed(b)) /\ IsFiniteSet(Twice(b))
        /\ Cardinality(Owed(b)) \in Nat /\ Cardinality(Twice(b)) \in Nat
        /\ Cardinality(Owed(b)') \in Nat /\ Cardinality(Twice(b)') \in Nat
    <3>1. Owed(b) \in SUBSET Runs /\ Twice(b) \in SUBSET Runs
      BY DEF Owed, Twice
    <3>2. Owed(b)' \in SUBSET Runs /\ Twice(b)' \in SUBSET Runs
      BY <1>1, <1>4, <3>1
    <3> QED
      BY <3>1, <3>2, RunsFinite
  <2>2. Cardinality(Owed(b)') + Cardinality(Twice(b)') + 1
          <= Cardinality(Owed(b)) + Cardinality(Twice(b))
    <3>1. /\ Cardinality(Owed(b)') <= Cardinality(Owed(b))
          /\ Cardinality(Twice(b)') <= Cardinality(Twice(b))
      BY <1>1, <1>4, <2>1, FS_Subset
    <3>2. CASE alerts[b].status = "ACTIVE"
      <4>1. r \in Twice(b) /\ Twice(b)' \subseteq Twice(b) \ {r}
        BY <1>0, <1>2, <1>4, <3>2 DEF Twice
      <4>2. /\ IsFiniteSet(Twice(b) \ {r})
            /\ Cardinality(Twice(b) \ {r}) = Cardinality(Twice(b)) - 1
        BY <2>1, <4>1, FS_RemoveElement
      <4>3. Cardinality(Twice(b)') <= Cardinality(Twice(b)) - 1
        BY <4>1, <4>2, FS_Subset
      <4> QED
        BY <2>1, <3>1, <4>3
    <3>3. CASE alerts[b].status # "ACTIVE"
      <4>1. r \in Owed(b) /\ Owed(b)' \subseteq Owed(b) \ {r}
        BY <1>1, <1>2, <1>4, <3>3 DEF Owed
      <4>2. /\ IsFiniteSet(Owed(b) \ {r})
            /\ Cardinality(Owed(b) \ {r}) = Cardinality(Owed(b)) - 1
        BY <2>1, <4>1, FS_RemoveElement
      <4>3. Cardinality(Owed(b)') <= Cardinality(Owed(b)) - 1
        BY <4>1, <4>2, FS_Subset
      <4> QED
        BY <2>1, <3>1, <4>3
    <3> QED
      BY <3>2, <3>3
  <2>3. sent[b] \in Nat /\ Cardinality(Runs) * activations[b] \in Nat
    BY <1>1, RunsFinite, OneMoreTimes DEF CountInv, MailInv, Typed
  <2>4. sent[b] + Cardinality(Owed(b)) + Cardinality(Twice(b))
          <= Cardinality(Runs) * activations[b]
    BY <1>1 DEF CountInv, MailsCovered, Account
  <2>5. sent[b] + 1 + Cardinality(Owed(b)') + Cardinality(Twice(b)')
          <= Cardinality(Runs) * activations[b]
    BY <2>1, <2>2, <2>3, <2>4
  <2> QED
    BY <1>2, <2>5 DEF Account
<1>6. ASSUME NEW a \in AlertIds
      PROVE  Account(a)' <= Cardinality(Runs) * activations'[a]
  BY <1>2, <1>4, <1>5, AccountShrinks
<1>7. ASSUME NEW a \in AlertIds, ~Created(a)'
      PROVE  sent'[a] = 0
  BY <1>1, <1>2, <1>7 DEF CountInv, MailsCovered, Created
<1> QED
  BY <1>6, <1>7 DEF CountInv, MailsCovered

LEMMA CountInvStep == CountInv /\ [Next]_vars => CountInv'
<1> SUFFICES ASSUME CountInv, [Next]_vars
             PROVE  CountInv'
  OBVIOUS
<1> USE MailInvStep DEF CountInv
<1>1. ASSUME NEW a \in AlertIds, CreateAlert(a) \/ DeleteAlert(a)
      PROVE  CountInv'
  BY <1>1, CreateKeepsCountInv, DeleteKeepsCountInv
<1>2. ASSUME NEW a \in AlertIds, NEW status \in AlertStatus, PatchStatus(a, status)
      PROVE  CountInv'
  BY <1>2, PatchKeepsCountInv
<1>3. ASSUME PriceMoves \/ UNCHANGED vars
      PROVE  CountInv'
  <2>1. ConditionsKept /\ UNCHANGED <<sent, activations>>
    BY <1>3 DEF PriceMoves, vars, ConditionsKept, Created
  <2>2. \A a \in AlertIds : Owed(a)' = Owed(a) /\ Twice(a)' = Twice(a)
    BY <1>3 DEF PriceMoves, vars, Owed, Twice, Current
  <2> QED
    BY <2>1, <2>2, OthersShrink
<1>4. ASSUME NEW r \in Runs, Begin(r)
      PROVE  CountInv'
  BY <1>4, BeginKeepsCountInv
<1>5. ASSUME NEW r \in Runs, Goes(r)
      PROVE  CountInv'
  BY <1>5, TriggersKeepsCountInv, ContinueKeepsCountInv, UpdateKeepsCountInv,
     SendKeepsCountInv DEF Goes, Passes
<1>6. ASSUME NEW r \in Runs, Fault(r)
      PROVE  CountInv'
  BY <1>6, ContinueKeepsCountInv, AbortKeepsCountInv
     DEF Fault, Fail, PriceUnknown, DeliveryFails
<1> QED
  BY <1>1, <1>2, <1>3, <1>4, <1>5, <1>6 DEF Next, Step

(* For any number of runs that overlap, and however owners disable, enable and     *)
(* delete alerts: an alert is mailed at most once by each run for each time it was *)
(* active (AlertProcessorService.processAlerts, which marks an alert before it     *)
(* mails it, and takes only active ones).                                          *)
THEOREM NoDuplicateMails == Spec => []MailsPerActivation
<1>1. CountInv => MailsPerActivation
  <2> SUFFICES ASSUME CountInv, NEW a \in AlertIds
               PROVE  sent[a] <= Cardinality(Runs) * activations[a]
    BY DEF MailsPerActivation
  <2>1. Owed(a) \in SUBSET Runs /\ Twice(a) \in SUBSET Runs
    BY DEF Owed, Twice
  <2>2. Cardinality(Owed(a)) \in Nat /\ Cardinality(Twice(a)) \in Nat
    BY <2>1, RunsFinite
  <2>3. sent[a] \in Nat /\ Cardinality(Runs) * activations[a] \in Nat
    BY RunsFinite, OneMoreTimes DEF CountInv, MailInv, Typed
  <2>4. Account(a) <= Cardinality(Runs) * activations[a]
    BY DEF CountInv, MailsCovered
  <2> QED
    BY <2>2, <2>3, <2>4 DEF Account
<1> QED
  BY <1>1, CountInvInit, CountInvStep, PTL DEF Spec

-----------------------------------------------------------------------------
(* Induction and recursion on finite sets: a property is the set of the numbers, *)
(* or of the sets, that have it.                                                 *)

\* Every set of naturals that is not empty has a least element.
LEMMA LeastExists ==
    ASSUME NEW P \in SUBSET Nat, P # {}
    PROVE  \E n \in P : \A m \in P : n <= m
<1> DEFINE R == {p \in Nat \X Nat : p[1] < p[2]}
<1>1. PICK n \in P : \A m \in P : ~(<<m, n>> \in R)
  <2> HIDE DEF R
  <2>1. IsWellFoundedOn(R, Nat)
    BY LessThanIsWellFounded DEF R
  <2> QED BY <2>1, WFMin
<1>2. \A m \in P : n <= m
  <2> SUFFICES ASSUME NEW m \in P PROVE n <= m
    OBVIOUS
  <2>1. ~(<<m, n>> \in R)
    BY <1>1
  <2>2. n \in Nat /\ m \in Nat
    OBVIOUS
  <2>3. ~(m < n)
    BY <2>1, <2>2
  <2> QED BY <2>2, <2>3
<1> QED BY <1>2

\* Induction on a set of naturals.
LEMMA NaturalSteps ==
    ASSUME NEW P, 0 \in P, \A n \in Nat : n \in P => n + 1 \in P
    PROVE  Nat \subseteq P
<1> SUFFICES ASSUME Nat \ P # {} PROVE FALSE
  OBVIOUS
<1>1. PICK n \in Nat \ P : \A m \in Nat \ P : n <= m
  BY LeastExists
<1>2. n # 0 /\ n - 1 \in Nat
  BY SMT
<1>3. n - 1 \in P
  BY <1>1, <1>2, SMT
<1> QED
  BY <1>2, <1>3, SMT

\* An element of every set but the empty one.
Chooses(chosen, S) == \A t \in SUBSET S : t # {} => chosen[t] \in t

\* P has every subset of S that it has without its chosen element.
Inductive(P, chosen, S) ==
    {} \in P /\ \A t \in SUBSET S : t # {} /\ t \ {chosen[t]} \in P => t \in P

\* Induction on the subsets of a finite set, by what each of them is without one element.
LEMMA ChosenSteps ==
    ASSUME NEW S, IsFiniteSet(S), NEW chosen, Chooses(chosen, S),
           NEW P, Inductive(P, chosen, S)
    PROVE  SUBSET S \subseteq P
<1> DEFINE Q == {n \in Nat : \A t \in SUBSET S : Cardinality(t) = n => t \in P}
<1>0. \A t \in SUBSET S : IsFiniteSet(t) /\ Cardinality(t) \in Nat
  BY FS_Subset, FS_CardinalityType
<1>1. 0 \in Q
  BY <1>0, FS_EmptySet DEF Inductive
<1>2. ASSUME NEW n \in Nat, n \in Q PROVE n + 1 \in Q
  <2> SUFFICES ASSUME NEW t \in SUBSET S, Cardinality(t) = n + 1 PROVE t \in P
    OBVIOUS
  <2> USE DEF Chooses, Inductive
  <2>1. IsFiniteSet(t) /\ t # {}
    BY <1>0, FS_EmptySet
  <2>2. Cardinality(t \ {chosen[t]}) = Cardinality(t) - 1
    BY <2>1, FS_RemoveElement
  <2>3. t \ {chosen[t]} \in SUBSET S /\ Cardinality(t \ {chosen[t]}) = n
    BY <2>2
  <2>4. t \ {chosen[t]} \in P
    BY <1>2, <2>3
  <2> QED BY <2>1, <2>4
<1> HIDE DEF Q
<1>3. Nat \subseteq Q
  BY <1>1, <1>2, NaturalSteps
<1> QED
  BY <1>0, <1>3 DEF Q

\* Induction on the subsets of a finite set, an element at a time.
LEMMA SubsetSteps ==
    ASSUME NEW S, IsFiniteSet(S), NEW P, {} \in P,
           \A t \in SUBSET S : \A x \in S \ t : t \in P => t \union {x} \in P
    PROVE  SUBSET S \subseteq P
<1> DEFINE any == [t \in SUBSET S |-> CHOOSE x \in t : TRUE]
<1>1. \A t \in SUBSET S : t # {} => any[t] \in t
  OBVIOUS
<1> HIDE DEF any
<1>2. \A t \in SUBSET S : t # {} /\ t \ {any[t]} \in P => t \in P
  <2> SUFFICES ASSUME NEW t \in SUBSET S, t # {}, t \ {any[t]} \in P PROVE t \in P
    OBVIOUS
  <2>1. any[t] \in t /\ t = (t \ {any[t]}) \union {any[t]}
    BY <1>1
  <2>2. t \ {any[t]} \in SUBSET S /\ any[t] \in S \ (t \ {any[t]})
    BY <2>1
  <2> QED BY <2>1, <2>2
<1>3. Chooses(any, S) /\ Inductive(P, any, S)
  BY <1>1, <1>2 DEF Chooses, Inductive
<1> QED
  BY <1>3, ChosenSteps

\* What is defined for a set from what it gives without the chosen element.
Solves(it, base, step, chosen, S) ==
    \A t \in SUBSET S :
       it[t] = IF t = {} THEN base ELSE step[<<chosen[t], it[t \ {chosen[t]}]>>]

\* A definition by recursion on the subsets of a finite set has a solution: what it gives
\* for a set is computed from what it gives for the set without one chosen element.
LEMMA RecursionHasSolution ==
    ASSUME NEW S, IsFiniteSet(S), NEW chosen, Chooses(chosen, S),
           NEW V, NEW base, base \in V, NEW step, step \in [S \X V -> V]
    PROVE  \E it \in [SUBSET S -> V] : Solves(it, base, step, chosen, S)
<1> DEFINE small(n) == {t \in SUBSET S : Cardinality(t) <= n}
           solves(it, n) == \A t \in small(n) :
                              it[t] = IF t = {} THEN base
                                      ELSE step[<<chosen[t], it[t \ {chosen[t]}]>>]
           Q == {n \in Nat : \E it \in [SUBSET S -> V] : solves(it, n)}
<1>0. \A t \in SUBSET S : IsFiniteSet(t) /\ Cardinality(t) \in Nat
  BY FS_Subset, FS_CardinalityType
<1>1. 0 \in Q
  <2>1. \A t \in small(0) : t = {}
    BY <1>0, FS_EmptySet
  <2>2. [t \in SUBSET S |-> base] \in [SUBSET S -> V] /\ solves([t \in SUBSET S |-> base], 0)
    BY <2>1
  <2> QED BY <2>2
<1>2. ASSUME NEW n \in Nat, n \in Q PROVE n + 1 \in Q
  <2>1. PICK it \in [SUBSET S -> V] : solves(it, n)
    BY <1>2
  <2> DEFINE next == [t \in SUBSET S |->
                        IF t = {} THEN base
                        ELSE IF Cardinality(t) <= n THEN it[t]
                        ELSE step[<<chosen[t], it[t \ {chosen[t]}]>>]]
  <2>2. \A t \in SUBSET S : t # {} =>
           /\ chosen[t] \in S /\ t \ {chosen[t]} \in SUBSET S
           /\ Cardinality(t \ {chosen[t]}) = Cardinality(t) - 1
    BY <1>0, FS_RemoveElement DEF Chooses
  <2>3. next \in [SUBSET S -> V]
    BY <2>2
  <2>4. \A t \in small(n) : next[t] = it[t]
    <3>1. {} \in small(n) => it[{}] = base
      BY <2>1
    <3> QED BY <3>1
  <2>5. ASSUME NEW t \in small(n + 1)
        PROVE  next[t] = IF t = {} THEN base
                         ELSE step[<<chosen[t], next[t \ {chosen[t]}]>>]
    <3>1. CASE t = {}
      BY <3>1
    <3>2. CASE t # {}
      <4>1. t \ {chosen[t]} \in small(n)
        BY <1>0, <2>2, <3>2
      <4>2. next[t \ {chosen[t]}] = it[t \ {chosen[t]}]
        BY <2>4, <4>1
      <4>3. CASE Cardinality(t) <= n
        <5>1. it[t] = step[<<chosen[t], it[t \ {chosen[t]}]>>]
          BY <2>1, <3>2, <4>3
        <5> QED BY <3>2, <4>2, <4>3, <5>1
      <4>4. CASE ~(Cardinality(t) <= n)
        BY <3>2, <4>2, <4>4
      <4> QED BY <4>3, <4>4
    <3> QED BY <3>1, <3>2
  <2>6. solves(next, n + 1)
    BY <2>5
  <2> HIDE DEF next, solves
  <2> QED BY <2>3, <2>6
<1>3. Nat \subseteq Q
  <2> HIDE DEF Q
  <2> QED BY <1>1, <1>2, NaturalSteps
<1>4. PICK it \in [SUBSET S -> V] : solves(it, Cardinality(S))
  BY <1>0, <1>3
<1>5. \A t \in SUBSET S : t \in small(Cardinality(S))
  BY FS_Subset
<1>6. \A t \in SUBSET S : it[t] = IF t = {} THEN base
                                 ELSE step[<<chosen[t], it[t \ {chosen[t]}]>>]
  BY <1>4, <1>5
<1> QED BY <1>6 DEF Solves

-----------------------------------------------------------------------------
(* Sums. *)

\* The sum of f[x], x in S, by the library.
SumOf(f, S) == SumFunctionOnSet(f, S)

\* The partial sums of f by which the library defines its sum.
PartialSums(f, S) ==
    CHOOSE it : it = [t \in SUBSET S |-> IF t = {} THEN 0
                                         ELSE LET x == CHOOSE y \in t : TRUE
                                              IN  f[x] + it[t \ {x}]]

\* The library sums by computing all partial sums.
LEMMA SumIsLastPartialSum == \A f, S : SumOf(f, S) = PartialSums(f, S)[S]
  BY Zenon DEF SumOf, SumFunctionOnSet, FoldFunctionOnSet, MapThenFoldSet, PartialSums

\* The partial sums are what their recursion says.
LEMMA PartialSumsSolve ==
    ASSUME NEW S, IsFiniteSet(S), NEW f, \A x \in S : f[x] \in Int
    PROVE  \A t \in SUBSET S :
              PartialSums(f, S)[t] = IF t = {} THEN 0
                                     ELSE LET x == CHOOSE y \in t : TRUE
                                          IN  f[x] + PartialSums(f, S)[t \ {x}]
<1> DEFINE any == [t \in SUBSET S |-> CHOOSE y \in t : TRUE]
           add == [p \in S \X Int |-> f[p[1]] + p[2]]
<1>1. \A t \in SUBSET S : t # {} => any[t] \in t
  OBVIOUS
<1>2. add \in [S \X Int -> Int]
  OBVIOUS
<1>3. PICK it \in [SUBSET S -> Int] : Solves(it, 0, add, any, S)
  <2> DEFINE V == Int
             zero == 0
  <2>1. zero \in V /\ add \in [S \X V -> V] /\ Chooses(any, S)
    BY <1>1, <1>2 DEF Chooses
  <2> HIDE DEF any, add, V, zero
  <2>2. \E it \in [SUBSET S -> V] : Solves(it, zero, add, any, S)
    BY <2>1, RecursionHasSolution
  <2> QED BY <2>2 DEF V, zero
<1>4. it = [t \in SUBSET S |-> IF t = {} THEN 0
                               ELSE LET x == CHOOSE y \in t : TRUE
                                    IN  f[x] + it[t \ {x}]]
  <2>1. \A t \in SUBSET S :
           it[t] = IF t = {} THEN 0
                   ELSE LET x == CHOOSE y \in t : TRUE IN f[x] + it[t \ {x}]
    <3> SUFFICES ASSUME NEW t \in SUBSET S
                 PROVE  it[t] = IF t = {} THEN 0
                                ELSE LET x == CHOOSE y \in t : TRUE IN f[x] + it[t \ {x}]
      OBVIOUS
    <3>1. it[t] = IF t = {} THEN 0 ELSE add[<<any[t], it[t \ {any[t]}]>>]
      BY <1>3 DEF Solves
    <3>2. t # {} => any[t] \in S /\ it[t \ {any[t]}] \in Int
      BY <1>1
    <3> QED BY <3>1, <3>2
  <2> QED BY <2>1
<1>5. PartialSums(f, S) = [t \in SUBSET S |-> IF t = {} THEN 0
                               ELSE LET x == CHOOSE y \in t : TRUE
                                    IN  f[x] + PartialSums(f, S)[t \ {x}]]
  BY <1>4, Zenon DEF PartialSums
<1> QED BY <1>5

\* Partial sums of integers are integers.
LEMMA PartialSumsAreNumbers ==
    ASSUME NEW S, IsFiniteSet(S), NEW f, \A x \in S : f[x] \in Int
    PROVE  \A t \in SUBSET S : PartialSums(f, S)[t] \in Int
<1> DEFINE any == [t \in SUBSET S |-> CHOOSE y \in t : TRUE]
           P == {t \in SUBSET S : PartialSums(f, S)[t] \in Int}
<1>1. \A t \in SUBSET S : t # {} => any[t] \in t
  OBVIOUS
<1>2. {} \in P
  BY PartialSumsSolve
<1>3. ASSUME NEW t \in SUBSET S, t # {}, t \ {any[t]} \in P PROVE t \in P
  <2> DEFINE x == CHOOSE y \in t : TRUE
  <2>1. PartialSums(f, S)[t] = f[x] + PartialSums(f, S)[t \ {x}]
    BY <1>3, PartialSumsSolve
  <2>2. any[t] = x
    OBVIOUS
  <2>3. x \in S /\ PartialSums(f, S)[t \ {x}] \in Int
    BY <1>1, <1>3, <2>2
  <2> QED BY <2>1, <2>3
<1>4. Chooses(any, S) /\ Inductive(P, any, S)
  <2> HIDE DEF any, P
  <2> QED BY <1>1, <1>2, <1>3 DEF Chooses, Inductive
<1>5. SUBSET S \subseteq P
  <2> HIDE DEF any, P
  <2> QED BY <1>4, ChosenSteps
<1> QED BY <1>5

\* The partial sums do not depend on the set that they are computed for.
LEMMA PartialSumsAgree ==
    ASSUME NEW S, IsFiniteSet(S), NEW f, \A x \in S : f[x] \in Int, NEW T \in SUBSET S
    PROVE  \A t \in SUBSET T : PartialSums(f, T)[t] = PartialSums(f, S)[t]
<1> DEFINE any == [t \in SUBSET T |-> CHOOSE y \in t : TRUE]
           P == {t \in SUBSET T : PartialSums(f, T)[t] = PartialSums(f, S)[t]}
<1>0. IsFiniteSet(T) /\ \A x \in T : f[x] \in Int
  BY FS_Subset
<1>1. \A t \in SUBSET T : t # {} => any[t] \in t
  OBVIOUS
<1>2. {} \in P
  BY <1>0, PartialSumsSolve
<1>3. ASSUME NEW t \in SUBSET T, t # {}, t \ {any[t]} \in P PROVE t \in P
  <2> DEFINE x == CHOOSE y \in t : TRUE
  <2>1. PartialSums(f, T)[t] = f[x] + PartialSums(f, T)[t \ {x}]
    BY <1>0, <1>3, PartialSumsSolve
  <2>2. PartialSums(f, S)[t] = f[x] + PartialSums(f, S)[t \ {x}]
    <3>1. t \in SUBSET S
      OBVIOUS
    <3> QED BY <1>3, <3>1, PartialSumsSolve
  <2> QED BY <1>3, <2>1, <2>2
<1>4. Chooses(any, T) /\ Inductive(P, any, T)
  <2> HIDE DEF any, P
  <2> QED BY <1>1, <1>2, <1>3 DEF Chooses, Inductive
<1>5. SUBSET T \subseteq P
  <2> HIDE DEF any, P
  <2> QED BY <1>0, <1>4, ChosenSteps
<1> QED BY <1>5

\* The sum of nothing is 0, and of more than that it is the sum without one of its
\* elements, whichever, plus that element.
LEMMA SumByElement ==
    ASSUME NEW S, IsFiniteSet(S), NEW f, \A x \in S : f[x] \in Int
    PROVE  /\ SumOf(f, {}) = 0
           /\ \A t \in SUBSET S : SumOf(f, t) \in Int
           /\ \A t \in SUBSET S : \A x \in t : SumOf(f, t) = f[x] + SumOf(f, t \ {x})
<1> DEFINE any(t) == CHOOSE y \in t : TRUE
<1>0. \A t \in SUBSET S : IsFiniteSet(t) /\ Cardinality(t) \in Nat
  BY FS_Subset, FS_CardinalityType
<1>1. \A t \in SUBSET S : SumOf(f, t) = PartialSums(f, S)[t]
  BY SumIsLastPartialSum, PartialSumsAgree
<1>2. SumOf(f, {}) = 0 /\ \A t \in SUBSET S : SumOf(f, t) \in Int
  <2>1. {} \in SUBSET S /\ PartialSums(f, S)[{}] = 0
    BY PartialSumsSolve
  <2>2. \A t \in SUBSET S : PartialSums(f, S)[t] \in Int
    BY PartialSumsAreNumbers
  <2> QED BY <1>1, <2>1, <2>2
<1>3. \A t \in SUBSET S : t # {} => SumOf(f, t) = f[any(t)] + SumOf(f, t \ {any(t)})
  <2> SUFFICES ASSUME NEW t \in SUBSET S, t # {}
               PROVE  SumOf(f, t) = f[any(t)] + SumOf(f, t \ {any(t)})
    OBVIOUS
  <2>1. PartialSums(f, S)[t] = f[any(t)] + PartialSums(f, S)[t \ {any(t)}]
    BY PartialSumsSolve
  <2>2. t \ {any(t)} \in SUBSET S
    OBVIOUS
  <2> QED BY <1>1, <2>1, <2>2
<1> DEFINE Q == {n \in Nat : \A t \in SUBSET S : Cardinality(t) = n =>
                               \A x \in t : SumOf(f, t) = f[x] + SumOf(f, t \ {x})}
<1>4. 0 \in Q
  BY <1>0, FS_EmptySet
<1>5. ASSUME NEW n \in Nat, n \in Q PROVE n + 1 \in Q
  <2> SUFFICES ASSUME NEW t \in SUBSET S, Cardinality(t) = n + 1, NEW x \in t
               PROVE  SumOf(f, t) = f[x] + SumOf(f, t \ {x})
    OBVIOUS
  <2> DEFINE c == any(t)
  <2>1. c \in t /\ SumOf(f, t) = f[c] + SumOf(f, t \ {c})
    BY <1>3
  <2> HIDE DEF any, c
  <2>2. CASE x = c
    BY <2>1, <2>2
  <2>3. CASE x # c
    <3>1. ASSUME NEW y \in t PROVE Cardinality(t \ {y}) = n
      <4>1. IsFiniteSet(t)
        BY <1>0
      <4>2. Cardinality(t \ {y}) = Cardinality(t) - 1
        BY <4>1, FS_RemoveElement
      <4> QED BY <4>2
    <3>2. /\ t \ {c} \in SUBSET S /\ x \in t \ {c}
          /\ t \ {x} \in SUBSET S /\ c \in t \ {x}
          /\ (t \ {c}) \ {x} = (t \ {x}) \ {c}
          /\ (t \ {c}) \ {x} \in SUBSET S
      BY <2>1, <2>3
    <3>3. SumOf(f, t \ {c}) = f[x] + SumOf(f, (t \ {c}) \ {x})
      BY <1>5, <2>1, <3>1, <3>2
    <3>4. SumOf(f, t \ {x}) = f[c] + SumOf(f, (t \ {x}) \ {c})
      BY <1>5, <3>1, <3>2
    <3>5. f[x] \in Int /\ f[c] \in Int /\ SumOf(f, (t \ {c}) \ {x}) \in Int
      BY <1>2, <2>1, <3>2
    <3> DEFINE rest == SumOf(f, (t \ {c}) \ {x})
    <3>6. SumOf(f, t) = f[c] + (f[x] + rest) /\ SumOf(f, t \ {x}) = f[c] + rest
      BY <2>1, <3>2, <3>3, <3>4
    <3> HIDE DEF rest
    <3> QED BY <3>5, <3>6 DEF rest
  <2> QED BY <2>2, <2>3
<1>6. Nat \subseteq Q
  <2> HIDE DEF Q
  <2> QED BY <1>4, <1>5, NaturalSteps
<1>7. \A t \in SUBSET S : \A x \in t : SumOf(f, t) = f[x] + SumOf(f, t \ {x})
  BY <1>0, <1>6
<1> QED BY <1>2, <1>7

-----------------------------------------------------------------------------
(* Greatest elements and folds *)

\* The greatest element of a finite set of numbers.
LEMMA MaxIsGreatest ==
    ASSUME NEW S, IsFiniteSet(S), S \subseteq Int, S # {}
    PROVE  Max(S) \in S /\ \A y \in S : Max(S) >= y
<1> DEFINE P == {t \in SUBSET S : t # {} => \E x \in t : \A y \in t : x >= y}
<1>1. {} \in P
  OBVIOUS
<1>2. ASSUME NEW t \in SUBSET S, NEW x \in S \ t, t \in P PROVE t \union {x} \in P
  <2>1. CASE t = {}
    <3>1. x \in t \union {x} /\ \A y \in t \union {x} : x >= y
      BY <2>1
    <3> QED BY <3>1
  <2>2. CASE t # {}
    <3>1. PICK m \in t : \A y \in t : m >= y
      BY <1>2, <2>2
    <3>2. m \in Int /\ x \in Int
      OBVIOUS
    <3>3. CASE m >= x
      <4>1. \A y \in t \union {x} : m >= y
        BY <3>1, <3>3
      <4> QED BY <4>1
    <3>4. CASE ~(m >= x)
      <4>1. ASSUME NEW y \in t PROVE x >= y
        BY <3>1, <3>2, <3>4
      <4>2. \A y \in t \union {x} : x >= y
        BY <3>2, <4>1
      <4> QED BY <4>2
    <3> QED BY <3>3, <3>4
  <2> QED BY <2>1, <2>2
<1>3. SUBSET S \subseteq P
  <2> HIDE DEF P
  <2> QED BY <1>1, <1>2, SubsetSteps
<1>4. \E x \in S : \A y \in S : x >= y
  BY <1>3
<1> QED BY <1>4 DEF Max

\* The greatest element is the only one above all.
LEMMA MaxIs ==
    ASSUME NEW S, S \subseteq Int, NEW m \in S, \A y \in S : m >= y
    PROVE  Max(S) = m
<1>1. Max(S) \in S /\ \A y \in S : Max(S) >= y
  BY DEF Max
<1>2. m \in Int /\ Max(S) \in Int /\ m >= Max(S) /\ Max(S) >= m
  BY <1>1
<1> HIDE DEF Max
<1> QED BY <1>2

\* Indices of a sequence have a greatest one.
LEMMA MaxOfIndices ==
    ASSUME NEW n \in Nat, NEW t \in SUBSET (1 .. n), t # {}
    PROVE  Max(t) \in t /\ Max(t) \in 1 .. n /\ \A i \in t : Max(t) >= i
<1>1. IsFiniteSet(1 .. n)
  BY FS_Interval
<1>2. IsFiniteSet(t)
  BY <1>1, FS_Subset
<1>3. t \subseteq Int
  OBVIOUS
<1> QED BY <1>2, <1>3, MaxIsGreatest

\* A fold over the indices of a sequence, the greatest first, has a solution.
Greatest(n) == [t \in SUBSET (1 .. n) |-> Max(t)]

LEMMA FoldHasSolution ==
    ASSUME NEW n \in Nat, NEW V, NEW base, base \in V, NEW step, step \in [(1 .. n) \X V -> V]
    PROVE  \E it \in [SUBSET (1 .. n) -> V] : Solves(it, base, step, Greatest(n), 1 .. n)
<1>1. IsFiniteSet(1 .. n)
  BY FS_Interval
<1>2. Chooses(Greatest(n), 1 .. n)
  BY MaxOfIndices DEF Chooses, Greatest
<1> QED
  BY <1>1, <1>2, RecursionHasSolution

\* The folds over the prefixes of a sequence, each from the one before it.
LEMMA FoldSteps ==
    ASSUME NEW n \in Nat, NEW k \in 1 .. n
    PROVE  /\ Max(1 .. k) = k
           /\ (1 .. k) \ {k} = 1 .. k - 1
           /\ 1 .. k # {}
           /\ 1 .. k \in SUBSET (1 .. n)
<1>1. Max(1 .. k) = k
  <2>1. 1 .. k \subseteq Int /\ k \in 1 .. k /\ \A y \in 1 .. k : k >= y
    OBVIOUS
  <2> QED BY <2>1, MaxIs
<1> QED BY <1>1

-----------------------------------------------------------------------------
(* filterByInterval *)

\* The days between two dates are counted in whole days.
LEMMA WholeDays ==
    ASSUME NEW a \in Int, NEW b \in Int, NEW days \in Int
    PROVE  (a - b) \div TicksPerDay >= days <=> a - b >= days * TicksPerDay
<1> DEFINE x == a - b
           t == TicksPerDay
           q == x \div t
<1>1. t \in Int /\ t > 0 /\ x \in Int
  BY AnalyticsAssumption
<1> HIDE DEF x, t
<1>2. q \in Int /\ q * t <= x /\ x < (q + 1) * t
  BY <1>1
<1> HIDE DEF q
<1>3. ASSUME q >= days PROVE x >= days * t
  <2>1. q * t >= days * t
    BY <1>1, <1>2, <1>3
  <2> QED BY <1>1, <1>2, <2>1
<1>4. ASSUME q < days PROVE x < days * t
  <2>1. (q + 1) * t <= days * t
    BY <1>1, <1>2, <1>4
  <2> QED BY <1>1, <1>2, <2>1
<1> QED BY <1>1, <1>2, <1>3, <1>4 DEF q, x, t

\* The point i is far enough from the ones that are kept.
Kept(kept, i, dates, days) ==
    IF kept = {} \/ (dates[i] - dates[Max(kept)]) \div TicksPerDay >= days
    THEN kept \union {i} ELSE kept

\* What filterByInterval keeps of each set of indices.
KeptOf(dates, days) ==
    CHOOSE it : it = [t \in SUBSET DOMAIN [i \in DOMAIN dates |-> i] |->
                        IF t = {} THEN {}
                        ELSE LET x == Max(t)
                             IN  Kept(it[t \ {x}], [i \in DOMAIN dates |-> i][x], dates, days)]

\* filterByInterval goes through all points, and keeps as KeptOf says.
LEMMA IntervalsAreFolded ==
    ASSUME NEW dates, NEW days
    PROVE  Intervals(dates, days) = KeptOf(dates, days)[DOMAIN [i \in DOMAIN dates |-> i]]
  BY Zenon DEF Intervals, FoldLeft, MapThenFoldSet, KeptOf, Kept

\* What is kept of the first k points.
LEMMA KeptByPrefix ==
    ASSUME NEW n \in Nat, NEW dates \in [1 .. n -> Int], NEW days \in Int
    PROVE  LET it == KeptOf(dates, days)
           IN  /\ it[1 .. 0] = {}
               /\ \A k \in 1 .. n : it[1 .. k] = Kept(it[1 .. k - 1], k, dates, days)
               /\ Intervals(dates, days) = it[1 .. n]
<1> DEFINE V == SUBSET (1 .. n)
           step == [p \in (1 .. n) \X V |-> Kept(p[2], p[1], dates, days)]
           ids == [i \in DOMAIN dates |-> i]
<1>1. step \in [(1 .. n) \X V -> V]
  BY DEF Kept
<1>2. PICK it \in [SUBSET (1 .. n) -> V] : Solves(it, {}, step, Greatest(n), 1 .. n)
  <2>1. {} \in V
    OBVIOUS
  <2> HIDE DEF V, step
  <2> QED BY <1>1, <2>1, FoldHasSolution
<1>3. DOMAIN ids = 1 .. n /\ \A i \in 1 .. n : ids[i] = i
  OBVIOUS
<1>4. it = [t \in SUBSET DOMAIN ids |->
              IF t = {} THEN {}
              ELSE LET x == Max(t) IN Kept(it[t \ {x}], ids[x], dates, days)]
  <2>1. ASSUME NEW t \in SUBSET (1 .. n)
        PROVE  it[t] = IF t = {} THEN {}
                       ELSE LET x == Max(t) IN Kept(it[t \ {x}], ids[x], dates, days)
    <3>1. it[t] = IF t = {} THEN {} ELSE step[<<Max(t), it[t \ {Max(t)}]>>]
      BY <1>2 DEF Solves, Greatest
    <3>2. t # {} => Max(t) \in 1 .. n
      BY MaxOfIndices
    <3>3. it[t \ {Max(t)}] \in V
      BY <1>2
    <3> HIDE DEF ids
    <3> QED BY <1>3, <3>1, <3>2, <3>3
  <2> HIDE DEF ids
  <2> QED BY <1>3, <2>1
<1>5. KeptOf(dates, days) = [t \in SUBSET DOMAIN ids |->
              IF t = {} THEN {}
              ELSE LET x == Max(t) IN Kept(KeptOf(dates, days)[t \ {x}], ids[x], dates, days)]
  BY <1>4, Zenon DEF KeptOf
<1> DEFINE at == KeptOf(dates, days)
<1> HIDE DEF ids, at
<1>6. at[1 .. 0] = {}
  BY <1>3, <1>5 DEF at
<1>7. ASSUME NEW k \in 1 .. n PROVE at[1 .. k] = Kept(at[1 .. k - 1], k, dates, days)
  <2>1. 1 .. k \in SUBSET DOMAIN ids /\ 1 .. k # {} /\ Max(1 .. k) = k
        /\ (1 .. k) \ {k} = 1 .. k - 1
    BY <1>3, FoldSteps
  <2> QED BY <1>3, <1>5, <2>1 DEF at
<1>8. Intervals(dates, days) = at[1 .. n]
  BY <1>3, IntervalsAreFolded DEF at, ids
<1> QED BY <1>6, <1>7, <1>8 DEF at

\* What is kept of the first points is what is kept of all, among them.
Grows(at, n) ==
    at[0] = {} /\ \A k \in 1 .. n : at[k] = at[k - 1] \/ at[k] = at[k - 1] \union {k}

\* What was kept earlier is kept at the end.
LEMMA KeptGrows ==
    ASSUME NEW n \in Nat, NEW at, Grows(at, n)
    PROVE  \A k \in 0 .. n : at[k] = {j \in at[n] : j <= k} /\ at[n] \subseteq 1 .. n
<1> DEFINE Q == {m \in Nat : m <= n =>
                   at[m] \subseteq 1 .. m /\ \A k \in 0 .. m : at[k] = {j \in at[m] : j <= k}}
<1>1. 0 \in Q
  BY DEF Grows
<1>2. ASSUME NEW m \in Nat, m \in Q PROVE m + 1 \in Q
  <2> SUFFICES ASSUME m + 1 <= n
               PROVE  /\ at[m + 1] \subseteq 1 .. m + 1
                      /\ \A k \in 0 .. m + 1 : at[k] = {j \in at[m + 1] : j <= k}
    OBVIOUS
  <2>1. at[m] \subseteq 1 .. m /\ \A k \in 0 .. m : at[k] = {j \in at[m] : j <= k}
    BY <1>2
  <2>2. at[m + 1] = at[m] \/ at[m + 1] = at[m] \union {m + 1}
    <3>1. m + 1 \in 1 .. n /\ (m + 1) - 1 = m
      OBVIOUS
    <3> QED BY <3>1 DEF Grows
  <2>3. at[m + 1] \subseteq 1 .. m + 1
    BY <2>1, <2>2
  <2>4. ASSUME NEW k \in 0 .. m PROVE at[k] = {j \in at[m + 1] : j <= k}
    BY <2>1, <2>2
  <2>5. at[m + 1] = {j \in at[m + 1] : j <= m + 1}
    BY <2>3
  <2>6. \A k \in 0 .. m + 1 : k \in 0 .. m \/ k = m + 1
    OBVIOUS
  <2> QED BY <2>3, <2>4, <2>5, <2>6
<1>3. Nat \subseteq Q
  <2> HIDE DEF Q
  <2> QED BY <1>1, <1>2, NaturalSteps
<1>4. n \in Q
  BY <1>3
<1> QED BY <1>4

\* The first point is kept, and each that is far enough from the one kept last.
KeepsTheFar(d, days) ==
    LET kept == Intervals(d, days)
        before(i) == {j \in kept : j < i}
        far(i) == d[i] - d[Max(before(i))] >= days * TicksPerDay
    IN  \A i \in DOMAIN d : i \in kept <=> (before(i) = {} \/ far(i))

\* filterByInterval keeps the first point and those that are far enough.
LEMMA IntervalsKeepTheFar ==
    ASSUME NEW n \in Nat, NEW d \in [1 .. n -> Int], NEW days \in Int
    PROVE  KeepsTheFar(d, days)
<1> DEFINE at == [k \in 0 .. n |-> KeptOf(d, days)[1 .. k]]
           kept == Intervals(d, days)
           before(i) == {j \in kept : j < i}
           far(i) == d[i] - d[Max(before(i))] >= days * TicksPerDay
<1>1. /\ at[0] = {} /\ kept = at[n]
      /\ \A k \in 1 .. n : at[k] = Kept(at[k - 1], k, d, days)
  BY KeptByPrefix
<1> HIDE DEF at, kept
<1>2. \A k \in 0 .. n : at[k] = {j \in kept : j <= k} /\ kept \subseteq 1 .. n
  <2>1. \A k \in 1 .. n : at[k] = at[k - 1] \/ at[k] = at[k - 1] \union {k}
    BY <1>1 DEF Kept
  <2>2. Grows(at, n)
    BY <1>1, <2>1 DEF Grows
  <2> QED BY <1>1, <2>2, KeptGrows
<1>3. ASSUME NEW i \in 1 .. n PROVE i \in kept <=> (before(i) = {} \/ far(i))
  <2>1. before(i) = at[i - 1]
    <3>1. i - 1 \in 0 .. n /\ kept \subseteq 1 .. n
      BY <1>2
    <3>2. at[i - 1] = {j \in kept : j <= i - 1}
      BY <1>2, <3>1
    <3>3. \A j \in kept : j <= i - 1 <=> j < i
      BY <3>1
    <3> QED BY <3>2, <3>3
  <2>2. at[i] = Kept(before(i), i, d, days)
    BY <1>1, <2>1
  <2>3. i \in kept <=> i \in at[i]
    <3>1. at[i] = {j \in kept : j <= i}
      BY <1>2
    <3> QED BY <3>1
  <2>4. i \notin before(i)
    OBVIOUS
  <2>5. before(i) # {} => Max(before(i)) \in 1 .. n
    <3>1. before(i) \in SUBSET (1 .. n)
      BY <1>2
    <3> HIDE DEF before
    <3> QED BY <3>1, MaxOfIndices
  <2>6. before(i) # {} =>
           ((d[i] - d[Max(before(i))]) \div TicksPerDay >= days <=> far(i))
    <3> SUFFICES ASSUME before(i) # {}
                 PROVE  (d[i] - d[Max(before(i))]) \div TicksPerDay >= days <=> far(i)
      OBVIOUS
    <3> DEFINE m == Max(before(i))
    <3>1. d[i] \in Int /\ d[m] \in Int
      BY <2>5
    <3> HIDE DEF m
    <3>2. (d[i] - d[m]) \div TicksPerDay >= days <=> d[i] - d[m] >= days * TicksPerDay
      BY <3>1, WholeDays
    <3> QED BY <3>2 DEF m
  <2> HIDE DEF before, far
  <2> QED BY <2>2, <2>3, <2>4, <2>6 DEF Kept
<1>4. \A i \in DOMAIN d : i \in kept <=> (before(i) = {} \/ far(i))
  <2>1. DOMAIN d = 1 .. n
    OBVIOUS
  <2> HIDE DEF before, far
  <2> QED BY <1>3, <2>1
<1> QED BY <1>4 DEF kept, KeepsTheFar

-----------------------------------------------------------------------------
(* Falls from one value to a later one *)

\* The fall from a to v, in percent of a.
Fall(a, v) == ((a - v) * 100) \div a

\* A quotient is the greatest number of whole times.
LEMMA QuotientIs ==
    ASSUME NEW x \in Int, NEW a \in Nat \ {0}
    PROVE  /\ x \div a \in Int
           /\ (x \div a) * a <= x
           /\ x < (x \div a) * a + a
           /\ \A k \in Int : k * a <= x <=> k <= x \div a
<1> DEFINE q == x \div a
<1>1. q \in Int /\ q * a <= x /\ x < q * a + a
  OBVIOUS
<1> HIDE DEF q
<1>2. ASSUME NEW k \in Int, k <= q PROVE k * a <= x
  <2>1. k * a <= q * a
    BY <1>1, <1>2
  <2> QED BY <1>1, <2>1
<1>3. ASSUME NEW k \in Int, ~(k <= q) PROVE ~(k * a <= x)
  <2>1. (q + 1) * a <= k * a
    <3>1. q + 1 <= k
      BY <1>1, <1>3
    <3> QED BY <1>1, <3>1
  <2>2. (q + 1) * a = q * a + a
    BY <1>1
  <2> QED BY <1>1, <2>1, <2>2
<1> QED BY <1>1, <1>2, <1>3 DEF q

\* A fall is between nothing and all, is something if the loss is a hundredth part, and
\* is greater from a higher value.
LEMMA FallIsPart ==
    ASSUME NEW a \in Nat \ {0}, NEW v \in Nat, v <= a
    PROVE  Fall(a, v) \in 0 .. 100
<1>1. (a - v) * 100 \in Int /\ 0 * a <= (a - v) * 100 /\ ~(101 * a <= (a - v) * 100)
  OBVIOUS
<1>2. Fall(a, v) \in Int /\ 0 <= Fall(a, v) /\ ~(101 <= Fall(a, v))
  BY <1>1, QuotientIs DEF Fall
<1> QED BY <1>2

\* A fall from a higher value is no smaller.
LEMMA FallFromHigher ==
    ASSUME NEW a \in Nat \ {0}, NEW b \in Nat \ {0}, NEW v \in Nat, v <= a, a <= b
    PROVE  Fall(a, v) <= Fall(b, v)
<1> DEFINE q == Fall(a, v)
<1>1. q \in 0 .. 100 /\ q * a <= (a - v) * 100
  <2>1. (a - v) * 100 \in Int
    OBVIOUS
  <2> QED BY <2>1, FallIsPart, QuotientIs DEF Fall
<1> HIDE DEF q
<1>2. q * b <= (b - v) * 100
  <2>1. (100 - q) * a >= v * 100
    BY <1>1
  <2>2. (100 - q) * a <= (100 - q) * b
    BY <1>1
  <2> QED BY <1>1, <2>1, <2>2
<1>3. (b - v) * 100 \in Int
  OBVIOUS
<1>4. q <= ((b - v) * 100) \div b
  BY <1>1, <1>2, <1>3, QuotientIs
<1> QED BY <1>4 DEF q, Fall

\* A value is no fall from itself.
LEMMA NoFall == ASSUME NEW a \in Nat \ {0} PROVE Fall(a, a) = 0
<1>1. (a - a) * 100 = 0 /\ 0 \in Int /\ 0 * a <= 0 /\ ~(1 * a <= 0)
  OBVIOUS
<1>2. 0 \div a \in Int /\ 0 <= 0 \div a /\ ~(1 <= 0 \div a)
  BY <1>1, QuotientIs
<1>3. 0 \div a = 0
  BY <1>2
<1> QED BY <1>1, <1>3 DEF Fall

\* Of values up to 100, every fall shows in whole percents.
LEMMA FallShows ==
    ASSUME NEW a \in Nat \ {0}, NEW v \in Nat, v < a, a <= 100
    PROVE  Fall(a, v) >= 1
<1>1. (a - v) * 100 \in Int /\ 1 * a <= (a - v) * 100
  OBVIOUS
<1> QED BY <1>1, QuotientIs DEF Fall

\* The loss of a day, or from any point to a later one, is the fall if there is one.
LEMMA LossIsFall ==
    ASSUME NEW a \in Nat \ {0}, NEW v \in Nat
    PROVE  /\ Loss(a, v) \in Int
           /\ v <= a => Loss(a, v) = Fall(a, v)
           /\ v > a => Loss(a, v) <= 0
<1>1. CASE v <= a
  BY <1>1, FallIsPart DEF Loss, Fall
<1>2. CASE v > a
  <2> DEFINE x == (v - a) * 100
             q == x \div a
  <2>1. x \in Int /\ 0 * a <= x
    BY <1>2
  <2> HIDE DEF x
  <2>2. q \in Int /\ 0 <= q
    BY <2>1, QuotientIs
  <2>3. Loss(a, v) = -q
    BY <1>2 DEF Loss, q, x
  <2> HIDE DEF q
  <2> QED BY <1>2, <2>2, <2>3
<1> QED BY <1>1, <1>2

-----------------------------------------------------------------------------
(* calculateMaxDrawdown *)

\* One value of the pass, as in Drawdown.
Pass(seen, v) ==
    LET peak == IF v > seen.peak THEN v ELSE seen.peak
        fall == ((peak - v) * 100) \div peak
    IN  [peak  |-> peak,
         worst |-> IF seen.worst = NaN \/ peak = 0 THEN NaN
                   ELSE IF fall > seen.worst THEN fall ELSE seen.worst]

\* What calculateMaxDrawdown has seen after each set of indices.
SeenOf(s) ==
    CHOOSE it : it = [t \in SUBSET DOMAIN s |->
                        IF t = {} THEN [peak |-> s[1], worst |-> 0]
                        ELSE LET x == Max(t) IN Pass(it[t \ {x}], s[x])]

\* The drawdown is the worst fall that the pass has seen at the end.
LEMMA DrawdownIsFolded ==
    ASSUME NEW s
    PROVE  Drawdown(s) = IF Len(s) < 2 THEN 0 ELSE SeenOf(s)[DOMAIN s].worst
  BY Zenon DEF Drawdown, FoldLeft, MapThenFoldSet, SeenOf, Pass

\* What a pass may have seen.
Seen == [peak : Nat, worst : Int \union {NaN}]

\* One value more gives what a pass may have seen.
LEMMA PassIsSeen == ASSUME NEW seen \in Seen, NEW v \in Nat PROVE Pass(seen, v) \in Seen
<1> DEFINE peak == IF v > seen.peak THEN v ELSE seen.peak
           fall == ((peak - v) * 100) \div peak
           worst == IF seen.worst = NaN \/ peak = 0 THEN NaN
                    ELSE IF fall > seen.worst THEN fall ELSE seen.worst
<1>1. peak \in Nat /\ seen.worst \in Int \union {NaN}
  BY DEF Seen
<1>2. Pass(seen, v) = [peak |-> peak, worst |-> worst]
  BY DEF Pass
<1> HIDE DEF peak
<1>3. peak # 0 => fall \in Int
  <2> SUFFICES ASSUME peak # 0 PROVE fall \in Int
    OBVIOUS
  <2>1. (peak - v) * 100 \in Int /\ peak \in Nat \ {0}
    BY <1>1
  <2> QED BY <2>1, QuotientIs
<1> HIDE DEF fall
<1>4. worst \in Int \union {NaN}
  BY <1>1, <1>3
<1> HIDE DEF worst
<1> QED BY <1>1, <1>2, <1>4 DEF Seen

\* What the pass has seen after the first k values.
SeenAt(s, n) == [k \in 0 .. n |-> SeenOf(s)[1 .. k]]

\* The pass goes from each prefix of the series to the next.
LEMMA SeenByPrefix ==
    ASSUME NEW n \in Nat \ {0}, NEW s \in [1 .. n -> Nat]
    PROVE  LET at == SeenAt(s, n)
           IN  /\ at[0] = [peak |-> s[1], worst |-> 0]
               /\ \A k \in 1 .. n : at[k] = Pass(at[k - 1], s[k])
               /\ n >= 2 => Drawdown(s) = at[n].worst
<1> DEFINE base == [peak |-> s[1], worst |-> 0]
           step == [p \in (1 .. n) \X Seen |-> Pass(p[2], s[p[1]])]
<1>1. base \in Seen
  <2>1. s[1] \in Nat
    OBVIOUS
  <2> QED BY <2>1 DEF Seen
<1>2. step \in [(1 .. n) \X Seen -> Seen]
  <2>1. \A p \in (1 .. n) \X Seen : Pass(p[2], s[p[1]]) \in Seen
    BY PassIsSeen
  <2> QED BY <2>1
<1>3. PICK it \in [SUBSET (1 .. n) -> Seen] : Solves(it, base, step, Greatest(n), 1 .. n)
  <2> HIDE DEF base, step
  <2> QED BY <1>1, <1>2, FoldHasSolution
<1>4. it = [t \in SUBSET DOMAIN s |->
              IF t = {} THEN [peak |-> s[1], worst |-> 0]
              ELSE LET x == Max(t) IN Pass(it[t \ {x}], s[x])]
  <2>1. ASSUME NEW t \in SUBSET (1 .. n)
        PROVE  it[t] = IF t = {} THEN base ELSE LET x == Max(t) IN Pass(it[t \ {x}], s[x])
    <3>1. it[t] = IF t = {} THEN base ELSE step[<<Max(t), it[t \ {Max(t)}]>>]
      BY <1>3 DEF Solves, Greatest
    <3>2. t # {} => Max(t) \in 1 .. n
      BY MaxOfIndices
    <3>3. it[t \ {Max(t)}] \in Seen
      BY <1>3
    <3> HIDE DEF base
    <3> QED BY <3>1, <3>2, <3>3
  <2> QED BY <2>1
<1>5. SeenOf(s) = [t \in SUBSET DOMAIN s |->
              IF t = {} THEN [peak |-> s[1], worst |-> 0]
              ELSE LET x == Max(t) IN Pass(SeenOf(s)[t \ {x}], s[x])]
  BY <1>4, Zenon DEF SeenOf
<1> DEFINE at == SeenOf(s)
<1> HIDE DEF at
<1>6. at[1 .. 0] = base
  BY <1>5 DEF at
<1>7. ASSUME NEW k \in 1 .. n PROVE at[1 .. k] = Pass(at[1 .. k - 1], s[k])
  <2>1. 1 .. k \in SUBSET DOMAIN s /\ 1 .. k # {} /\ Max(1 .. k) = k
        /\ (1 .. k) \ {k} = 1 .. k - 1
    BY FoldSteps
  <2> QED BY <1>5, <2>1 DEF at
<1>8. n >= 2 => Drawdown(s) = at[1 .. n].worst
  <2>1. DOMAIN s = 1 .. n /\ Len(s) = n
    OBVIOUS
  <2> QED BY <2>1, DrawdownIsFolded DEF at
<1> QED BY <1>6, <1>7, <1>8 DEF at, SeenAt

\* The falls from a point to a later one, among the first k.
FallsTo(s, k) ==
    {Fall(s[e[1]], s[e[2]]) :
        e \in {f \in (1 .. k) \X (1 .. k) : f[1] < f[2] /\ s[f[1]] > 0 /\ s[f[1]] >= s[f[2]]}}

\* After k values of a series that does not begin with 0: the peak is the greatest of
\* them, the worst the worst fall; without a fall from one day to the next the peak is
\* the last value.
SeenIs(seen, s, k) ==
    /\ seen.peak \in Nat /\ seen.worst \in Nat
    /\ \E i \in 1 .. k : seen.peak = s[i]
    /\ \A i \in 1 .. k : s[i] <= seen.peak
    /\ seen.worst \in FallsTo(s, k) \union {0}
    /\ \A x \in FallsTo(s, k) : x <= seen.worst
    /\ seen.worst > 0 => \E i \in 1 .. k - 1 : s[i + 1] < s[i]
    /\ (\A i \in 1 .. k - 1 : s[i + 1] >= s[i]) => seen.peak = s[k]

\* After the first value, the pass has seen what it should.
LEMMA FirstPass ==
    ASSUME NEW n \in Nat \ {0}, NEW s \in [1 .. n -> Nat], s[1] > 0
    PROVE  SeenIs(Pass([peak |-> s[1], worst |-> 0], s[1]), s, 1)
<1>1. s[1] \in Nat \ {0}
  OBVIOUS
<1>2. Fall(s[1], s[1]) = 0
  BY <1>1, NoFall
<1>3. 0 # NaN
  BY AnalyticsAssumption
<1>4. Pass([peak |-> s[1], worst |-> 0], s[1]) = [peak |-> s[1], worst |-> 0]
  BY <1>1, <1>2, <1>3 DEF Pass, Fall
<1>5. FallsTo(s, 1) = {}
  BY DEF FallsTo
<1> QED BY <1>1, <1>4, <1>5 DEF SeenIs

\* If the pass has seen what it should, it does so after the next value.
LEMMA NextPass ==
    ASSUME NEW n \in Nat \ {0}, NEW s \in [1 .. n -> Nat], s[1] > 0,
           NEW k \in 1 .. n - 1, NEW seen, SeenIs(seen, s, k)
    PROVE  SeenIs(Pass(seen, s[k + 1]), s, k + 1)
<1> DEFINE v == s[k + 1]
           peak == IF v > seen.peak THEN v ELSE seen.peak
           fall == Fall(peak, v)
           worst == IF fall > seen.worst THEN fall ELSE seen.worst
<1>1. /\ v \in Nat /\ k + 1 \in 1 .. n
      /\ \A i \in 1 .. n : s[i] \in Nat
      /\ seen.peak \in Nat /\ seen.worst \in Nat /\ seen.worst # NaN
  BY AnalyticsAssumption DEF SeenIs
<1>2. seen.peak > 0
  <2>1. 1 \in 1 .. k /\ s[1] <= seen.peak
    BY DEF SeenIs
  <2> QED BY <1>1, <2>1
<1>3. peak \in Nat \ {0} /\ v <= peak /\ seen.peak <= peak
  BY <1>1, <1>2
<1>4. fall \in 0 .. 100
  BY <1>1, <1>3, FallIsPart
<1>5. Pass(seen, v) = [peak |-> peak, worst |-> worst]
  <2> HIDE DEF v
  <2> QED BY <1>1, <1>3 DEF Pass, Fall
<1>6. \E i \in 1 .. k + 1 : peak = s[i]
  BY <1>1 DEF SeenIs
<1>7. \A i \in 1 .. k + 1 : s[i] <= peak
  <2> SUFFICES ASSUME NEW i \in 1 .. k + 1 PROVE s[i] <= peak
    OBVIOUS
  <2>1. i \in 1 .. k \/ i = k + 1
    OBVIOUS
  <2>2. i \in 1 .. k => s[i] <= seen.peak /\ s[i] \in Nat
    BY DEF SeenIs
  <2> QED BY <1>1, <1>3, <2>1, <2>2
<1>8. FallsTo(s, k) \subseteq FallsTo(s, k + 1)
  BY SMTT(30) DEF FallsTo
<1>9. fall \in FallsTo(s, k + 1) \union {0}
  <2>1. CASE v > seen.peak
    BY <1>3, <2>1, NoFall
  <2>2. CASE ~(v > seen.peak)
    <3>1. PICK i \in 1 .. k : seen.peak = s[i]
      BY DEF SeenIs
    <3>2. /\ <<i, k + 1>> \in (1 .. k + 1) \X (1 .. k + 1)
          /\ i < k + 1 /\ s[i] > 0 /\ s[i] >= s[k + 1]
      BY <1>1, <1>2, <2>2, <3>1
    <3>3. fall = Fall(s[i], s[k + 1])
      BY <2>2, <3>1
    <3> HIDE DEF fall
    <3> QED BY <3>2, <3>3 DEF FallsTo
  <2> QED BY <2>1, <2>2
<1>10. ASSUME NEW x \in FallsTo(s, k + 1) PROVE x <= worst
  <2>1. PICK e \in (1 .. k + 1) \X (1 .. k + 1) :
           e[1] < e[2] /\ s[e[1]] > 0 /\ s[e[1]] >= s[e[2]] /\ x = Fall(s[e[1]], s[e[2]])
    BY <1>10 DEF FallsTo
  <2>2. CASE e[2] <= k
    <3>1. e \in (1 .. k) \X (1 .. k)
      BY <2>1, <2>2
    <3>2. x \in FallsTo(s, k)
      BY <2>1, <3>1 DEF FallsTo
    <3>3. x <= seen.worst /\ x \in Int
      <4>1. s[e[1]] \in Nat \ {0} /\ s[e[2]] \in Nat /\ s[e[2]] <= s[e[1]]
        BY <1>1, <2>1, <3>1
      <4>2. x \in 0 .. 100
        BY <2>1, <4>1, FallIsPart
      <4> QED BY <3>2, <4>2 DEF SeenIs
    <3> HIDE DEF fall
    <3> QED BY <1>1, <1>4, <3>3
  <2>3. CASE ~(e[2] <= k)
    <3>1. e[2] = k + 1 /\ e[1] \in 1 .. k
      <4>1. /\ e[1] \in 1 .. (k + 1) /\ e[2] \in 1 .. (k + 1)
            /\ e[1] < e[2] /\ k \in Nat
        BY <2>1
      <4> HIDE DEF v, peak, fall, worst
      <4> QED BY SMTT(30), <2>3, <4>1
    <3>2. s[e[1]] \in Nat \ {0} /\ s[e[1]] <= peak /\ v <= s[e[1]]
      <4>1. s[e[1]] <= peak
        BY <1>7, <3>1
      <4> QED BY <1>1, <2>1, <3>1, <4>1
    <3>3. Fall(s[e[1]], v) <= fall
      BY <1>1, <1>3, <3>2, FallFromHigher
    <3>4. x = Fall(s[e[1]], v)
      BY <2>1, <3>1
    <3>5. x \in 0 .. 100
      BY <1>1, <3>2, <3>4, FallIsPart
    <3> HIDE DEF fall, v
    <3> QED BY SMTT(30), <1>1, <1>4, <3>3, <3>4, <3>5
  <2> QED BY <2>2, <2>3
<1>11. worst \in Nat /\ worst \in FallsTo(s, k + 1) \union {0}
  <2>1. seen.worst \in FallsTo(s, k) \union {0}
    BY DEF SeenIs
  <2> HIDE DEF fall
  <2> QED BY <1>1, <1>4, <1>8, <1>9, <2>1
<1>12. (\A i \in 1 .. (k + 1) - 1 : s[i + 1] >= s[i]) => peak = s[k + 1]
  <2> SUFFICES ASSUME \A i \in 1 .. (k + 1) - 1 : s[i + 1] >= s[i] PROVE peak = s[k + 1]
    OBVIOUS
  <2>1. seen.peak = s[k]
    <3>1. \A i \in 1 .. k - 1 : s[i + 1] >= s[i]
      OBVIOUS
    <3> QED BY <3>1 DEF SeenIs
  <2>2. k \in 1 .. (k + 1) - 1 /\ s[k + 1] >= s[k]
    OBVIOUS
  <2> QED BY <1>1, <2>1, <2>2
<1>13. worst > 0 => \E i \in 1 .. (k + 1) - 1 : s[i + 1] < s[i]
  <2> SUFFICES ASSUME \A i \in 1 .. (k + 1) - 1 : ~(s[i + 1] < s[i]) PROVE ~(worst > 0)
    OBVIOUS
  <2>1. ASSUME NEW i \in 1 .. (k + 1) - 1 PROVE s[i + 1] >= s[i]
    <3>1. i \in 1 .. n /\ i + 1 \in 1 .. n
      OBVIOUS
    <3> QED BY <1>1, <3>1
  <2>2. peak = v
    BY <1>12, <2>1
  <2>3. fall = 0
    BY <1>3, <2>2, NoFall
  <2>4. ~(seen.worst > 0)
    <3>1. \A i \in 1 .. k - 1 : i \in 1 .. (k + 1) - 1
      OBVIOUS
    <3> QED BY <3>1 DEF SeenIs
  <2> HIDE DEF fall
  <2> QED BY <1>1, <2>3, <2>4
<1> HIDE DEF v, peak, worst
<1>14. Pass(seen, v).peak = peak /\ Pass(seen, v).worst = worst
  BY <1>5
<1> QED
  BY <1>3, <1>6, <1>7, <1>10, <1>11, <1>12, <1>13, <1>14 DEF SeenIs, v

\* The pass has seen what it should after each value.
LEMMA PassesSee ==
    ASSUME NEW n \in Nat \ {0}, NEW s \in [1 .. n -> Nat], s[1] > 0
    PROVE  \A k \in 1 .. n : SeenIs(SeenAt(s, n)[k], s, k)
<1> DEFINE at == SeenAt(s, n)
           Q == {k \in Nat : k + 1 <= n => SeenIs(at[k + 1], s, k + 1)}
<1>1. /\ at[0] = [peak |-> s[1], worst |-> 0]
      /\ \A k \in 1 .. n : at[k] = Pass(at[k - 1], s[k])
  BY SeenByPrefix
<1> HIDE DEF at
<1>2. 0 \in Q
  <2>1. at[1] = Pass([peak |-> s[1], worst |-> 0], s[1])
    BY <1>1
  <2> QED BY <2>1, FirstPass
<1>3. ASSUME NEW m \in Nat, m \in Q PROVE m + 1 \in Q
  <2> SUFFICES ASSUME (m + 1) + 1 <= n PROVE SeenIs(at[(m + 1) + 1], s, (m + 1) + 1)
    OBVIOUS
  <2> DEFINE k == m + 1
  <2>1. k \in 1 .. n - 1 /\ SeenIs(at[k], s, k)
    BY <1>3
  <2>2. at[k + 1] = Pass(at[k], s[k + 1])
    <3>1. k + 1 \in 1 .. n /\ (k + 1) - 1 = k
      BY <2>1
    <3> QED BY <1>1, <3>1
  <2> HIDE DEF k
  <2>3. SeenIs(at[k + 1], s, k + 1)
    BY <2>1, <2>2, NextPass
  <2> QED BY <2>3 DEF k
<1>4. Nat \subseteq Q
  <2> HIDE DEF Q
  <2> QED BY <1>2, <1>3, NaturalSteps
<1>5. ASSUME NEW k \in 1 .. n PROVE SeenIs(at[k], s, k)
  <2>1. k - 1 \in Q /\ (k - 1) + 1 = k
    BY <1>4
  <2> QED BY <2>1
<1> QED BY <1>5 DEF at

\* The drawdown of a series of two values or more.
LEMMA DrawdownSees ==
    ASSUME NEW n \in Nat, n >= 2, NEW s \in [1 .. n -> Nat], s[1] > 0
    PROVE  /\ Drawdown(s) \in Nat
           /\ Drawdown(s) \in FallsTo(s, n) \union {0}
           /\ \A x \in FallsTo(s, n) : x <= Drawdown(s)
           /\ Drawdown(s) > 0 => \E i \in 1 .. n - 1 : s[i + 1] < s[i]
<1>0. n \in Nat \ {0} /\ n \in 1 .. n
  OBVIOUS
<1>1. SeenIs(SeenAt(s, n)[n], s, n)
  BY <1>0, PassesSee
<1>2. Drawdown(s) = SeenAt(s, n)[n].worst
  BY <1>0, SeenByPrefix
<1> QED BY <1>1, <1>2 DEF SeenIs

\* A series that begins with nothing has no number.
LEMMA DrawdownOfNothing ==
    ASSUME NEW n \in Nat, n >= 2, NEW s \in [1 .. n -> Nat], s[1] = 0
    PROVE  Drawdown(s) = NaN
<1> DEFINE at == SeenAt(s, n)
           Q == {k \in Nat : k + 1 <= n => at[k + 1].worst = NaN}
<1>0. n \in Nat \ {0}
  OBVIOUS
<1>1. /\ at[0] = [peak |-> 0, worst |-> 0]
      /\ \A k \in 1 .. n : at[k] = Pass(at[k - 1], s[k])
      /\ Drawdown(s) = at[n].worst
  BY <1>0, SeenByPrefix
<1> HIDE DEF at
<1>2. 0 \in Q
  <2>1. at[1] = Pass([peak |-> 0, worst |-> 0], 0)
    BY <1>1
  <2>2. Pass([peak |-> 0, worst |-> 0], 0).worst = NaN
    BY DEF Pass
  <2> QED BY <2>1, <2>2
<1>3. ASSUME NEW m \in Nat, m \in Q PROVE m + 1 \in Q
  <2> SUFFICES ASSUME (m + 1) + 1 <= n PROVE at[(m + 1) + 1].worst = NaN
    OBVIOUS
  <2>1. at[m + 1].worst = NaN
    BY <1>3
  <2>2. at[(m + 1) + 1] = Pass(at[m + 1], s[(m + 1) + 1])
    <3>1. (m + 1) + 1 \in 1 .. n /\ ((m + 1) + 1) - 1 = m + 1
      OBVIOUS
    <3> QED BY <1>1, <3>1
  <2> QED BY <2>1, <2>2 DEF Pass
<1>4. Nat \subseteq Q
  <2> HIDE DEF Q
  <2> QED BY <1>2, <1>3, NaturalSteps
<1>5. n - 1 \in Q /\ (n - 1) + 1 = n
  BY <1>4
<1> QED BY <1>1, <1>5

\* calculateMaxDrawdown returns the worst fall.
ShowsTheWorst(s) ==
    LET falls == {((s[e[1]] - s[e[2]]) * 100) \div s[e[1]] :
                    e \in {f \in (DOMAIN s) \X (DOMAIN s) :
                             f[1] < f[2] /\ s[f[1]] > 0 /\ s[f[1]] >= s[f[2]]}}
    IN  /\ Drawdown(s) = IF s[1] = 0 THEN NaN ELSE Max(falls \union {0})
        /\ s[1] > 0 => -Performance(s) <= Drawdown(s)

\* Of any series of two values or more.
LEMMA DrawdownIsWorst ==
    ASSUME NEW n \in Nat, n >= 2, NEW s \in [1 .. n -> Nat]
    PROVE  ShowsTheWorst(s)
<1> DEFINE falls == {((s[e[1]] - s[e[2]]) * 100) \div s[e[1]] :
                       e \in {f \in (DOMAIN s) \X (DOMAIN s) :
                                f[1] < f[2] /\ s[f[1]] > 0 /\ s[f[1]] >= s[f[2]]}}
<1>1. falls = FallsTo(s, n)
  BY DEF FallsTo, Fall
<1> HIDE DEF falls
<1>2. CASE s[1] = 0
  BY <1>2, DrawdownOfNothing DEF falls, ShowsTheWorst
<1>3. CASE s[1] # 0
  <2>1. s[1] \in Nat \ {0} /\ s[n] \in Nat
    BY <1>3
  <2>2. /\ Drawdown(s) \in Nat
        /\ Drawdown(s) \in FallsTo(s, n) \union {0}
        /\ \A x \in FallsTo(s, n) : x <= Drawdown(s)
    BY <2>1, DrawdownSees
  <2>3. FallsTo(s, n) \subseteq Int
    <3> SUFFICES ASSUME NEW e \in (1 .. n) \X (1 .. n), s[e[1]] > 0, s[e[1]] >= s[e[2]]
                 PROVE  Fall(s[e[1]], s[e[2]]) \in Int
      BY DEF FallsTo
    <3>1. s[e[1]] \in Nat \ {0} /\ s[e[2]] \in Nat /\ s[e[2]] <= s[e[1]]
      OBVIOUS
    <3>2. Fall(s[e[1]], s[e[2]]) \in 0 .. 100
      BY <3>1, FallIsPart
    <3>3. 0 .. 100 \subseteq Int
      OBVIOUS
    <3> QED BY <3>2, <3>3, Zenon
  <2>4. Max(falls \union {0}) = Drawdown(s)
    <3> DEFINE all == falls \union {0}
    <3>1. all \subseteq Int /\ Drawdown(s) \in all /\ \A x \in all : Drawdown(s) >= x
      BY <1>1, <2>2, <2>3
    <3> HIDE DEF all
    <3>2. Max(all) = Drawdown(s)
      BY <3>1, MaxIs
    <3> QED BY <3>2 DEF all
  <2>5. -Performance(s) <= Drawdown(s)
    <3>1. Len(s) = n
      OBVIOUS
    <3>2. -Performance(s) = Loss(s[1], s[n])
      <4>1. Loss(s[1], s[n]) \in Int
        BY <2>1, LossIsFall
      <4>2. Performance(s) = -Loss(s[1], s[n])
        BY <3>1 DEF Performance
      <4> QED BY <4>1, <4>2
    <3>3. CASE s[n] <= s[1]
      <4>1. <<1, n>> \in (1 .. n) \X (1 .. n) /\ 1 < n /\ s[1] > 0 /\ s[1] >= s[n]
        BY <2>1, <3>3
      <4>2. Fall(s[1], s[n]) \in FallsTo(s, n)
        BY <4>1 DEF FallsTo
      <4>3. Loss(s[1], s[n]) = Fall(s[1], s[n])
        BY <2>1, <3>3, LossIsFall
      <4> QED BY <2>2, <3>2, <4>2, <4>3
    <3>4. CASE s[n] > s[1]
      <4>1. Loss(s[1], s[n]) \in Int /\ Loss(s[1], s[n]) <= 0
        BY <2>1, <3>4, LossIsFall
      <4> QED BY <2>2, <3>2, <4>1
    <3> QED BY <2>1, <3>3, <3>4
  <2> QED BY <1>3, <2>4, <2>5 DEF falls, ShowsTheWorst
<1> QED BY <1>2, <1>3

-----------------------------------------------------------------------------
(* Variance *)

\* Of the numbers r[i], i in T: their sum, the sum of their squares, the sum of the squares
\* of their distances to c, and the square of how many there are times the variance.
Total(r, T) == SumOf(r, T)
Squares(r, T) == SumOf([i \in DOMAIN r |-> Square(r[i])], T)
Off(r, T, c) == Squares(r, T) - 2 * (c * Total(r, T)) + Cardinality(T) * Square(c)
SpreadOf(r, T) == Cardinality(T) * Squares(r, T) - Square(Total(r, T))

\* Squares are natural, and only that of 0 is 0.
LEMMA SquareType == \A n \in Int : Square(n) \in Nat /\ (Square(n) = 0 <=> n = 0)
<1> SUFFICES ASSUME NEW n \in Int PROVE n * n \in Nat /\ (n * n = 0 <=> n = 0)
  BY DEF Square
<1>1. n * n \in Int /\ n * n >= 0 /\ (n * n = 0 <=> n = 0)
  BY SMT
<1> QED BY <1>1

\* The sums with one number more.
LEMMA OneMore ==
    ASSUME NEW S, IsFiniteSet(S), NEW r \in [S -> Int], NEW T \in SUBSET S, NEW x \in S \ T
    PROVE  /\ Total(r, T) \in Int /\ Squares(r, T) \in Int /\ Cardinality(T) \in Nat
           /\ Total(r, T \union {x}) = Total(r, T) + r[x]
           /\ Squares(r, T \union {x}) = Squares(r, T) + Square(r[x])
           /\ Cardinality(T \union {x}) = Cardinality(T) + 1
<1> DEFINE sq == [i \in DOMAIN r |-> Square(r[i])]
<1>1. /\ \A i \in S : r[i] \in Int
      /\ \A i \in S : sq[i] \in Int
      /\ sq[x] = Square(r[x])
  BY SquareType
<1>2. T \union {x} \in SUBSET S /\ x \in T \union {x} /\ (T \union {x}) \ {x} = T
  OBVIOUS
<1>3. IsFiniteSet(T)
  BY FS_Subset
<1>4. Cardinality(T \union {x}) = Cardinality(T) + 1 /\ Cardinality(T) \in Nat
  BY <1>3, FS_AddElement, FS_CardinalityType
<1> HIDE DEF sq
<1>5. SumOf(r, T) \in Int /\ SumOf(r, T \union {x}) = r[x] + SumOf(r, T)
  BY <1>1, <1>2, SumByElement
<1>6. SumOf(sq, T) \in Int /\ SumOf(sq, T \union {x}) = sq[x] + SumOf(sq, T)
  BY <1>1, <1>2, SumByElement
<1>7. r[x] \in Int /\ Square(r[x]) \in Int
  BY <1>1
<1> QED BY <1>1, <1>4, <1>5, <1>6, <1>7 DEF Total, Squares, sq

\* The distances to c with one number more.
LEMMA OffGrows ==
    ASSUME NEW S, IsFiniteSet(S), NEW r \in [S -> Int], NEW T \in SUBSET S, NEW x \in S \ T,
           NEW c \in Int
    PROVE  /\ Off(r, T, c) \in Int
           /\ Off(r, T \union {x}, c) = Off(r, T, c) + Square(r[x] - c)
<1> DEFINE q == Squares(r, T)
           l == Total(r, T)
           n == Cardinality(T)
           a == r[x]
<1>1. q \in Int /\ l \in Int /\ n \in Nat /\ a \in Int
  BY OneMore
<1>2. /\ Squares(r, T \union {x}) = q + a * a
      /\ Total(r, T \union {x}) = l + a
      /\ Cardinality(T \union {x}) = n + 1
  BY OneMore DEF Square
<1> HIDE DEF q, l, n, a
<1>3. Off(r, T, c) = q - 2 * (c * l) + n * (c * c)
  BY DEF Off, Square, q, l, n
<1>4. Off(r, T \union {x}, c) = (q + a * a) - 2 * (c * (l + a)) + (n + 1) * (c * c)
  BY <1>2 DEF Off, Square
<1>5. (q + a * a) - 2 * (c * (l + a)) + (n + 1) * (c * c)
        = (q - 2 * (c * l) + n * (c * c)) + (a - c) * (a - c)
  BY <1>1
<1> QED BY <1>1, <1>3, <1>4, <1>5 DEF Square, a

\* The variance with one number more grows by its distances to the others.
LEMMA SpreadGrows ==
    ASSUME NEW S, IsFiniteSet(S), NEW r \in [S -> Int], NEW T \in SUBSET S, NEW x \in S \ T
    PROVE  /\ SpreadOf(r, T) \in Int
           /\ SpreadOf(r, T \union {x}) = SpreadOf(r, T) + Off(r, T, r[x])
<1> DEFINE q == Squares(r, T)
           l == Total(r, T)
           n == Cardinality(T)
           a == r[x]
<1>1. q \in Int /\ l \in Int /\ n \in Nat /\ a \in Int
  BY OneMore
<1>2. /\ Squares(r, T \union {x}) = q + a * a
      /\ Total(r, T \union {x}) = l + a
      /\ Cardinality(T \union {x}) = n + 1
  BY OneMore DEF Square
<1> HIDE DEF q, l, n, a
<1>3. Off(r, T, a) = q - 2 * (a * l) + n * (a * a)
  BY DEF Off, Square, q, l, n
<1>4. SpreadOf(r, T) = n * q - l * l
  BY DEF SpreadOf, Square, q, l, n
<1>5. SpreadOf(r, T \union {x}) = (n + 1) * (q + a * a) - (l + a) * (l + a)
  BY <1>2 DEF SpreadOf, Square
<1>6. (n + 1) * (q + a * a) - (l + a) * (l + a)
        = (n * q - l * l) + (q - 2 * (a * l) + n * (a * a))
  BY <1>1
<1> QED BY <1>1, <1>3, <1>4, <1>5, <1>6 DEF a

\* The sums of no numbers.
LEMMA NoNumbers ==
    ASSUME NEW S, IsFiniteSet(S), NEW r \in [S -> Int]
    PROVE  /\ Total(r, {}) = 0 /\ Squares(r, {}) = 0 /\ Cardinality({}) = 0
           /\ SpreadOf(r, {}) = 0
           /\ \A c \in Int : Off(r, {}, c) = 0
<1> DEFINE sq == [i \in DOMAIN r |-> Square(r[i])]
<1>1. (\A i \in S : r[i] \in Int) /\ (\A i \in S : sq[i] \in Int)
  BY SquareType
<1> HIDE DEF sq
<1>2. SumOf(r, {}) = 0 /\ SumOf(sq, {}) = 0
  BY <1>1, SumByElement
<1>3. Cardinality({}) = 0
  BY FS_EmptySet
<1> QED BY <1>2, <1>3 DEF Total, Squares, sq, SpreadOf, Off, Square

\* The distances to c are nothing exactly if every number is c.
LEMMA OffIsNothing ==
    ASSUME NEW S, IsFiniteSet(S), NEW r \in [S -> Int], NEW c \in Int
    PROVE  \A T \in SUBSET S :
              Off(r, T, c) \in Nat /\ (Off(r, T, c) = 0 <=> \A i \in T : r[i] = c)
<1> DEFINE P == {T \in SUBSET S : Off(r, T, c) \in Nat
                                   /\ (Off(r, T, c) = 0 <=> \A i \in T : r[i] = c)}
<1>1. {} \in P
  BY NoNumbers
<1>2. ASSUME NEW T \in SUBSET S, NEW x \in S \ T, T \in P PROVE T \union {x} \in P
  <2>1. Off(r, T \union {x}, c) = Off(r, T, c) + Square(r[x] - c)
    BY OffGrows
  <2>2. r[x] - c \in Int /\ (r[x] - c = 0 <=> r[x] = c)
    OBVIOUS
  <2>3. Square(r[x] - c) \in Nat /\ (Square(r[x] - c) = 0 <=> r[x] = c)
    BY <2>2, SquareType
  <2>4. Off(r, T, c) \in Nat /\ (Off(r, T, c) = 0 <=> \A i \in T : r[i] = c)
    BY <1>2
  <2>5. Off(r, T \union {x}, c) \in Nat
    BY <2>1, <2>3, <2>4
  <2>6. Off(r, T \union {x}, c) = 0 <=> (Off(r, T, c) = 0 /\ Square(r[x] - c) = 0)
    BY <2>1, <2>3, <2>4
  <2>7. Off(r, T \union {x}, c) = 0 <=> \A i \in T \union {x} : r[i] = c
    BY <2>3, <2>4, <2>6
  <2> QED BY <2>5, <2>7
<1>3. SUBSET S \subseteq P
  <2> HIDE DEF P
  <2> QED BY <1>1, <1>2, SubsetSteps
<1> QED BY <1>3

\* A variance is not negative, and is 0 exactly if the numbers are all the same.
LEMMA SpreadIsNothing ==
    ASSUME NEW S, IsFiniteSet(S), NEW r \in [S -> Int]
    PROVE  \A T \in SUBSET S :
              /\ SpreadOf(r, T) \in Nat
              /\ SpreadOf(r, T) = 0 <=> \A i, j \in T : r[i] = r[j]
<1> DEFINE P == {T \in SUBSET S : /\ SpreadOf(r, T) \in Nat
                                  /\ SpreadOf(r, T) = 0 <=> \A i, j \in T : r[i] = r[j]}
<1>1. {} \in P
  BY NoNumbers
<1>2. ASSUME NEW T \in SUBSET S, NEW x \in S \ T, T \in P PROVE T \union {x} \in P
  <2>1. SpreadOf(r, T \union {x}) = SpreadOf(r, T) + Off(r, T, r[x])
    BY SpreadGrows
  <2>2. Off(r, T, r[x]) \in Nat /\ (Off(r, T, r[x]) = 0 <=> \A i \in T : r[i] = r[x])
    BY OffIsNothing
  <2>3. SpreadOf(r, T) \in Nat /\ (SpreadOf(r, T) = 0 <=> \A i, j \in T : r[i] = r[j])
    BY <1>2
  <2>4. SpreadOf(r, T \union {x}) \in Nat
    BY <2>1, <2>2, <2>3
  <2>5. SpreadOf(r, T \union {x}) = 0 <=> (SpreadOf(r, T) = 0 /\ Off(r, T, r[x]) = 0)
    BY <2>1, <2>2, <2>3
  <2>6. SpreadOf(r, T \union {x}) = 0 <=> \A i, j \in T \union {x} : r[i] = r[j]
    BY <2>2, <2>3, <2>5
  <2> QED BY <2>4, <2>6
<1>3. SUBSET S \subseteq P
  <2> HIDE DEF P
  <2> QED BY <1>1, <1>2, SubsetSteps
<1> QED BY <1>3

\* The variance of a series that the program computes.
LEMMA SpreadIs ==
    ASSUME NEW n \in Nat, NEW r \in [1 .. n -> Int]
    PROVE  Spread(r) \in Nat /\ (Spread(r) = 0 <=> \A i, j \in 1 .. n : r[i] = r[j])
<1>1. IsFiniteSet(1 .. n) /\ Cardinality(1 .. n) = n
  BY FS_Interval
<1>2. Len(r) = n /\ DOMAIN r = 1 .. n
  OBVIOUS
<1>3. Spread(r) = SpreadOf(r, 1 .. n)
  <2> DEFINE sq == [i \in DOMAIN r |-> Square(r[i])]
  <2>1. SumFunction(sq) = Squares(r, 1 .. n) /\ SumFunction(r) = Total(r, 1 .. n)
    BY <1>2 DEF SumFunction, SumOf, Squares, Total
  <2> QED BY <1>1, <1>2, <2>1 DEF Spread, SpreadOf
<1>4. 1 .. n \in SUBSET (1 .. n)
  OBVIOUS
<1> QED BY <1>1, <1>3, <1>4, SpreadIsNothing

\* Every natural has a root, rounded down; that of 0 is 0.
LEMMA RootIs == ASSUME NEW n \in Nat PROVE Root(n) \in Nat /\ (n = 0 => Root(n) = 0)
<1> DEFINE P == {k \in Nat : n < Square(k + 1)}
<1>1. n \in P
  <2>1. n < (n + 1) * (n + 1)
    BY SMT
  <2> QED BY <2>1 DEF Square
<1>2. PICK k \in P : \A m \in P : k <= m
  <2> HIDE DEF P
  <2>1. P \in SUBSET Nat
    BY DEF P
  <2> QED BY <1>1, <2>1, LeastExists
<1>3. k \in 0 .. n /\ n < Square(k + 1)
  BY <1>1, <1>2
<1>4. Square(k) <= n
  <2>1. CASE k = 0
    BY <2>1 DEF Square
  <2>2. CASE k # 0
    <3>1. k - 1 \in Nat /\ ~(k <= k - 1) /\ (k - 1) + 1 = k
      BY <1>3, <2>2
    <3>2. ~(n < Square(k))
      BY <1>2, <3>1
    <3>3. Square(k) \in Nat
      BY <1>3, SquareType
    <3> QED BY <3>2, <3>3
  <2> QED BY <2>1, <2>2
<1>5. Root(n) \in 0 .. n
  BY <1>3, <1>4 DEF Root
<1> QED BY <1>5

-----------------------------------------------------------------------------
(* Returns and volatility *)

\* The loss of a day is a number, or what a division by zero makes of it.
LEMMA LossType == ASSUME NEW a \in Nat, NEW v \in Nat
                  PROVE  Loss(a, v) \in Int \union {NaN, MinusInfinity}
<1>1. CASE a = 0
  BY <1>1 DEF Loss
<1>2. CASE a # 0
  <2>1. a \in Nat \ {0}
    BY <1>2
  <2> QED BY <2>1, LossIsFall
<1> QED BY <1>1, <1>2

\* The losses of a series: one fewer than its values, and numbers if no day began with 0.
LEMMA LossesAre ==
    ASSUME NEW n \in Nat, NEW s \in [1 .. n -> Nat], n >= 1
    PROVE  /\ Losses(s) \in [1 .. n - 1 -> Int \union {NaN, MinusInfinity}]
           /\ \A i \in 1 .. n - 1 : Losses(s)[i] = Loss(s[i], s[i + 1])
           /\ Len(Losses(s)) = n - 1
           /\ Divides(s) => Losses(s) \in [1 .. n - 1 -> Int]
<1>1. Len(s) = n /\ n - 1 \in Nat
  OBVIOUS
<1>2. \A i \in 1 .. n - 1 : s[i] \in Nat /\ s[i + 1] \in Nat
  OBVIOUS
<1>3. Losses(s) = [i \in 1 .. n - 1 |-> Loss(s[i], s[i + 1])]
  BY <1>1 DEF Losses
<1>4. \A i \in 1 .. n - 1 : Loss(s[i], s[i + 1]) \in Int \union {NaN, MinusInfinity}
  BY <1>2, LossType
<1>5. Losses(s) \in [1 .. n - 1 -> Int \union {NaN, MinusInfinity}]
  BY <1>3, <1>4
<1>6. Len(Losses(s)) = n - 1
  BY <1>1, <1>3
<1>7. ASSUME Divides(s) PROVE Losses(s) \in [1 .. n - 1 -> Int]
  <2>1. \A i \in 1 .. n - 1 : s[i] # 0
    BY <1>1, <1>7 DEF Divides
  <2>2. \A i \in 1 .. n - 1 : Loss(s[i], s[i + 1]) \in Int
    <3> SUFFICES ASSUME NEW i \in 1 .. n - 1 PROVE Loss(s[i], s[i + 1]) \in Int
      OBVIOUS
    <3>1. s[i] \in Nat \ {0} /\ s[i + 1] \in Nat
      BY <1>2, <2>1
    <3> QED BY <3>1, LossIsFall
  <2> QED BY <1>3, <2>2
<1> QED BY <1>3, <1>5, <1>6, <1>7

\* The volatility is a number unless a return divides by zero, and above 0 only if the
\* returns differ.
LEMMA VolatilityIs ==
    ASSUME NEW n \in Nat, NEW s \in [1 .. n -> Nat]
    PROVE  /\ ~Divides(s) => Volatility(s) = NaN
           /\ Divides(s) => Volatility(s) \in Nat
           /\ Divides(s) /\ Volatility(s) > 0 =>
                /\ n >= 2
                /\ \E i, j \in 1 .. n - 1 : Losses(s)[i] # Losses(s)[j]
<1>1. Len(s) = n
  OBVIOUS
<1>2. ASSUME ~Divides(s) PROVE Volatility(s) = NaN
  <2>1. n >= 2
    BY <1>1, <1>2 DEF Divides
  <2> QED BY <1>1, <1>2, <2>1 DEF Volatility
<1>3. ASSUME Divides(s), n < 2 PROVE Volatility(s) = 0
  BY <1>1, <1>3 DEF Volatility
<1>4. ASSUME Divides(s), n >= 2
      PROVE  /\ Volatility(s) \in Nat
             /\ Volatility(s) > 0 => \E i, j \in 1 .. n - 1 : Losses(s)[i] # Losses(s)[j]
  <2> DEFINE v == Spread(Losses(s))
             m == Square(n - 1)
             x == 252 * v
  <2>1. /\ v \in Nat
        /\ v = 0 <=> \A i, j \in 1 .. n - 1 : Losses(s)[i] = Losses(s)[j]
    <3>1. n - 1 \in Nat /\ Losses(s) \in [1 .. n - 1 -> Int]
      BY <1>4, LossesAre
    <3> QED BY <3>1, SpreadIs
  <2>2. m \in Nat \ {0}
    <3>1. n - 1 \in Int /\ n - 1 # 0
      BY <1>4
    <3>2. m \in Nat /\ m # 0
      BY <3>1, SquareType
    <3> QED BY <3>2
  <2>3. Volatility(s) = Root(x \div m)
    BY <1>1, <1>4 DEF Volatility
  <2> HIDE DEF v, m
  <2>4. x \in Int /\ 0 * m <= x /\ (v = 0 => ~(1 * m <= x))
    BY <2>1, <2>2
  <2> HIDE DEF x
  <2>5. x \div m \in Nat /\ (v = 0 => x \div m = 0)
    <3>1. /\ x \div m \in Int
          /\ (0 * m <= x <=> 0 <= x \div m)
          /\ (1 * m <= x <=> 1 <= x \div m)
      BY <2>2, <2>4, QuotientIs
    <3> QED BY <2>4, <3>1
  <2>6. Volatility(s) \in Nat /\ (v = 0 => Volatility(s) = 0)
    BY <2>3, <2>5, RootIs
  <2> QED BY <2>1, <2>6
<1> QED BY <1>2, <1>3, <1>4

\* A drawdown is natural or not a number.
LEMMA DrawdownType ==
    ASSUME NEW n \in Nat, NEW s \in [1 .. n -> Nat]
    PROVE  Drawdown(s) \in Nat \union {NaN}
<1>1. CASE n < 2
  <2>1. Len(s) < 2
    BY <1>1
  <2> QED BY <2>1 DEF Drawdown
<1>2. CASE n >= 2 /\ s[1] = 0
  BY <1>2, DrawdownOfNothing
<1>3. CASE n >= 2 /\ s[1] # 0
  <2>1. s[1] \in Nat /\ s[1] > 0
    BY <1>3
  <2> QED BY <1>3, <2>1, DrawdownSees
<1> QED BY <1>1, <1>2, <1>3

\* A value at risk is a number, or what a division by zero makes of one: none of the
\* values has been 0 before the last, and it is a number.
LEMMA AtRiskType ==
    ASSUME NEW n \in Nat, NEW s \in [1 .. n -> Nat]
    PROVE  /\ AtRisk(s) \subseteq Int \union {NaN, MinusInfinity}
           /\ Divides(s) => AtRisk(s) \subseteq Int
<1> DEFINE loss == Losses(s)
           more(a, b) == a # MinusInfinity /\ (b = MinusInfinity \/ a > b)
           rank(i) == Cardinality({j \in 1 .. n - 1 : more(loss[j], loss[i])})
           ties(i) == Cardinality({j \in 1 .. n - 1 : loss[j] = loss[i]})
<1>1. CASE n = 0
  <2>1. Len(s) = 0
    BY <1>1
  <2>2. Losses(s) = [i \in 1 .. 0 - 1 |-> Loss(s[i], s[i + 1])]
    BY <2>1 DEF Losses
  <2>3. Len(Losses(s)) < 1
    BY <2>2
  <2>4. AtRisk(s) = {0}
    BY <2>3 DEF AtRisk
  <2> QED BY <2>4
<1>2. CASE n # 0
  <2>1. /\ \A i \in 1 .. n - 1 : loss[i] \in Int \union {NaN, MinusInfinity}
        /\ Len(loss) = n - 1
        /\ Divides(s) => \A i \in 1 .. n - 1 : loss[i] \in Int
    BY <1>2, LossesAre
  <2> HIDE DEF loss
  <2>2. \/ AtRisk(s) = {0}
        \/ AtRisk(s) = {loss[i] : i \in 1 .. n - 1}
        \/ AtRisk(s) = {loss[i] : i \in {j \in 1 .. n - 1 :
                            rank(j) <= TailIndex(n - 1) /\ TailIndex(n - 1) < rank(j) + ties(j)}}
    BY <2>1 DEF AtRisk, loss
  <2> HIDE DEF rank, ties
  <2> QED BY <2>1, <2>2
<1> QED BY <1>1, <1>2

-----------------------------------------------------------------------------
(* getRiskAnalysis *)

\* NaN is never taken for a calm portfolio, nor is a great fall, but for a gain.
LEMMA OverallRiskIs ==
    ASSUME NEW volatility \in Nat \union {NaN}, NEW drawdown \in Nat \union {NaN},
           NEW atRisk \in Int \union {NaN, MinusInfinity},
           OverallRisk(volatility, drawdown, atRisk) = "LOW"
    PROVE  /\ volatility # NaN /\ drawdown # NaN /\ atRisk # NaN
           /\ drawdown >= 67 => atRisk = MinusInfinity \/ atRisk < 0
<1>1. volatility # NaN /\ drawdown # NaN /\ atRisk # NaN
  BY DEF OverallRisk
<1>2. ASSUME drawdown >= 67, atRisk # MinusInfinity, ~(atRisk < 0)
      PROVE  FALSE
  <2>1. volatility \in Nat /\ drawdown \in Nat /\ atRisk \in Nat
    BY <1>1, <1>2
  <2>2. NaN \notin {volatility, drawdown, atRisk} /\ atRisk # MinusInfinity
    BY <1>1, <1>2
  <2> DEFINE score == 4 * volatility + 300 * (drawdown + atRisk)
  <2>3. score \in Int /\ ~(score < 20000)
    BY <1>2, <2>1
  <2>4. OverallRisk(volatility, drawdown, atRisk) =
          CASE score < 20000 -> "LOW"
            [] score >= 20000 /\ score < 40000 -> "MODERATE"
            [] score >= 40000 /\ score < 60000 -> "MODERATE_HIGH"
            [] score >= 60000 /\ score < 80000 -> "HIGH"
            [] OTHER -> "VERY_HIGH"
    BY <2>2 DEF OverallRisk
  <2> HIDE DEF score
  <2> QED BY <2>3, <2>4
<1> QED BY <1>1, <1>2

-----------------------------------------------------------------------------
(* calculateValueAtRisk *)

\* Of the numbers r[1 .. m]: those above the i-th, and those like it.
Above(r, m, i) == {j \in 1 .. m : r[j] > r[i]}
Like(r, m, i) == {j \in 1 .. m : r[j] = r[i]}

\* They are finite and apart.
LEMMA AboveIsFinite ==
    ASSUME NEW m \in Nat, NEW r \in [1 .. m -> Int], NEW i \in 1 .. m
    PROVE  /\ IsFiniteSet(Above(r, m, i)) /\ IsFiniteSet(Like(r, m, i))
           /\ Cardinality(Above(r, m, i)) \in Nat /\ Cardinality(Like(r, m, i)) \in Nat
           /\ Above(r, m, i) \intersect Like(r, m, i) = {}
           /\ Cardinality(Above(r, m, i) \union Like(r, m, i))
                = Cardinality(Above(r, m, i)) + Cardinality(Like(r, m, i))
<1> DEFINE A == Above(r, m, i)
           L == Like(r, m, i)
<1>1. A \in SUBSET (1 .. m) /\ L \in SUBSET (1 .. m) /\ A \intersect L = {}
  BY DEF Above, Like
<1>2. IsFiniteSet(1 .. m)
  BY FS_Interval
<1> HIDE DEF A, L
<1>3. IsFiniteSet(A) /\ IsFiniteSet(L)
  BY <1>1, <1>2, FS_Subset
<1>4. Cardinality(A) \in Nat /\ Cardinality(L) \in Nat
  BY <1>3, FS_CardinalityType
<1>5. Cardinality(A \union L) = Cardinality(A) + Cardinality(L) - Cardinality(A \intersect L)
  BY <1>3, FS_Union
<1>6. Cardinality(A \intersect L) = 0
  BY <1>1, FS_EmptySet
<1> QED BY <1>1, <1>3, <1>4, <1>5, <1>6 DEF A, L

\* A higher number has fewer above it.
LEMMA HigherHasFewerAbove ==
    ASSUME NEW m \in Nat, NEW r \in [1 .. m -> Int], NEW i \in 1 .. m, NEW j \in 1 .. m,
           r[i] > r[j]
    PROVE  /\ Above(r, m, i) \union Like(r, m, i) \subseteq Above(r, m, j)
           /\ Cardinality(Above(r, m, i)) + Cardinality(Like(r, m, i))
                <= Cardinality(Above(r, m, j))
           /\ Cardinality(Above(r, m, i)) < Cardinality(Above(r, m, j))
<1>1. Above(r, m, i) \union Like(r, m, i) \subseteq Above(r, m, j)
  BY DEF Above, Like
<1>2. IsFiniteSet(Above(r, m, j))
  BY AboveIsFinite
<1>3. Cardinality(Above(r, m, i) \union Like(r, m, i)) <= Cardinality(Above(r, m, j))
  BY <1>1, <1>2, FS_Subset
<1>4. Cardinality(Like(r, m, i)) # 0
  <2>1. i \in Like(r, m, i)
    BY DEF Like
  <2>2. IsFiniteSet(Like(r, m, i))
    BY AboveIsFinite
  <2> QED BY <2>1, <2>2, FS_EmptySet
<1>5. /\ Cardinality(Above(r, m, i)) \in Nat /\ Cardinality(Like(r, m, i)) \in Nat
      /\ Cardinality(Above(r, m, j)) \in Nat
      /\ Cardinality(Above(r, m, i) \union Like(r, m, i))
                = Cardinality(Above(r, m, i)) + Cardinality(Like(r, m, i))
  BY AboveIsFinite
<1> QED BY <1>1, <1>3, <1>4, <1>5

\* Any indices have a highest number among them: it has the fewest above it.
LEMMA HighestExists ==
    ASSUME NEW m \in Nat, NEW r \in [1 .. m -> Int], NEW I \in SUBSET (1 .. m), I # {}
    PROVE  \E i \in I : \A j \in I : r[j] <= r[i]
<1> DEFINE P == {Cardinality(Above(r, m, i)) : i \in I}
<1>1. P \in SUBSET Nat /\ P # {}
  <2>1. \A i \in I : Cardinality(Above(r, m, i)) \in Nat
    BY AboveIsFinite
  <2> QED BY <2>1
<1>2. PICK n \in P : \A x \in P : n <= x
  BY <1>1, LeastExists
<1>3. PICK i \in I : n = Cardinality(Above(r, m, i))
  BY <1>2
<1>4. ASSUME NEW j \in I PROVE r[j] <= r[i]
  <2> SUFFICES ASSUME r[j] > r[i] PROVE FALSE
    OBVIOUS
  <2>1. Cardinality(Above(r, m, j)) < Cardinality(Above(r, m, i))
    BY HigherHasFewerAbove
  <2>2. Cardinality(Above(r, m, j)) \in P
    OBVIOUS
  <2>3. n <= Cardinality(Above(r, m, j))
    BY <1>2, <2>2
  <2>4. Cardinality(Above(r, m, j)) \in Nat /\ Cardinality(Above(r, m, i)) \in Nat
    BY AboveIsFinite
  <2> QED BY <1>3, <2>1, <2>3, <2>4
<1> QED BY <1>4

\* They have a lowest number too.
LEMMA LowestExists ==
    ASSUME NEW m \in Nat, NEW r \in [1 .. m -> Int], NEW I \in SUBSET (1 .. m), I # {}
    PROVE  \E i \in I : \A j \in I : r[i] <= r[j]
<1> DEFINE neg == [i \in 1 .. m |-> -r[i]]
<1>1. neg \in [1 .. m -> Int]
  OBVIOUS
<1>2. PICK i \in I : \A j \in I : neg[j] <= neg[i]
  <2> HIDE DEF neg
  <2> QED BY <1>1, HighestExists
<1>3. ASSUME NEW j \in I PROVE r[i] <= r[j]
  <2>1. neg[j] <= neg[i] /\ i \in 1 .. m /\ j \in 1 .. m
    BY <1>2
  <2>2. r[i] \in Int /\ r[j] \in Int /\ -r[j] <= -r[i]
    BY <2>1
  <2> QED BY <2>2
<1> QED BY <1>3

\* The number at index k, counted from 0, of the numbers sorted from the highest down.
Ranked(r, m, k) ==
    {j \in 1 .. m : /\ Cardinality(Above(r, m, j)) <= k
                    /\ k < Cardinality(Above(r, m, j)) + Cardinality(Like(r, m, j))}

\* The values that may be at index k.
ValuesAt(r, m, k) == {r[j] : j \in Ranked(r, m, k)}

\* There is one value at each index.
LEMMA OneIsRanked ==
    ASSUME NEW m \in Nat, NEW r \in [1 .. m -> Int], NEW k \in Nat, k < m
    PROVE  \E i \in Ranked(r, m, k) : ValuesAt(r, m, k) = {r[i]}
<1> DEFINE above(i) == Above(r, m, i)
           A == {j \in 1 .. m : Cardinality(above(j)) <= k}
<1>1. A # {}
  <2>1. PICK i \in 1 .. m : \A j \in 1 .. m : r[j] <= r[i]
    <3>1. 1 .. m \in SUBSET (1 .. m) /\ 1 .. m # {}
      OBVIOUS
    <3> QED BY <3>1, HighestExists
  <2>2. above(i) = {}
    BY <2>1 DEF Above
  <2>3. Cardinality(above(i)) = 0
    BY <2>2, FS_EmptySet
  <2> QED BY <2>3
<1>2. PICK i \in A : \A j \in A : r[i] <= r[j]
  BY <1>1, LowestExists
<1>3. i \in Ranked(r, m, k)
  <2> SUFFICES ASSUME ~(k < Cardinality(above(i)) + Cardinality(Like(r, m, i))) PROVE FALSE
    BY DEF Ranked
  <2> DEFINE least == above(i) \union Like(r, m, i)
             B == (1 .. m) \ least
  <2>1. IsFiniteSet(least) /\ Cardinality(least) <= k /\ Cardinality(least) \in Nat
    <3>1. /\ IsFiniteSet(above(i)) /\ IsFiniteSet(Like(r, m, i))
          /\ Cardinality(above(i)) \in Nat /\ Cardinality(Like(r, m, i)) \in Nat
          /\ Cardinality(least) = Cardinality(above(i)) + Cardinality(Like(r, m, i))
      BY AboveIsFinite
    <3>2. IsFiniteSet(least)
      BY <3>1, FS_Union
    <3> HIDE DEF least
    <3> QED BY <3>1, <3>2
  <2>2. B # {}
    <3> SUFFICES ASSUME B = {} PROVE FALSE
      OBVIOUS
    <3>1. 1 .. m \in SUBSET least
      OBVIOUS
    <3>2. Cardinality(1 .. m) = m
      BY FS_Interval
    <3> HIDE DEF least
    <3>3. Cardinality(1 .. m) <= Cardinality(least)
      BY <2>1, <3>1, FS_Subset
    <3> QED BY <2>1, <3>2, <3>3
  <2>3. PICK j \in B : \A l \in B : r[l] <= r[j]
    <3>1. B \in SUBSET (1 .. m)
      OBVIOUS
    <3> HIDE DEF B
    <3> QED BY <2>2, <3>1, HighestExists
  <2>4. r[j] < r[i]
    BY DEF Above, Like
  <2>5. above(j) = least
    <3>1. least \subseteq above(j)
      BY <2>4, HigherHasFewerAbove
    <3>2. ASSUME NEW l \in above(j) PROVE l \in least
      <4>1. l \in 1 .. m /\ r[l] > r[j] /\ r[l] \in Int /\ r[j] \in Int
        BY DEF Above
      <4>2. l \notin B
        BY <2>3, <4>1
      <4> QED BY <4>1, <4>2
    <3> QED BY <3>1, <3>2
  <2>6. j \in A
    BY <2>1, <2>5
  <2> QED BY <1>2, <2>4, <2>6
<1>4. ASSUME NEW j \in Ranked(r, m, k) PROVE r[j] = r[i]
  <2>1. /\ i \in 1 .. m /\ j \in 1 .. m
        /\ Cardinality(above(i)) <= k /\ k < Cardinality(above(i)) + Cardinality(Like(r, m, i))
        /\ Cardinality(above(j)) <= k /\ k < Cardinality(above(j)) + Cardinality(Like(r, m, j))
    BY <1>3 DEF Ranked
  <2>2. /\ Cardinality(above(i)) \in Nat /\ Cardinality(Like(r, m, i)) \in Nat
        /\ Cardinality(above(j)) \in Nat /\ Cardinality(Like(r, m, j)) \in Nat
    BY <2>1, AboveIsFinite
  <2>3. ~(r[i] > r[j])
    <3> SUFFICES ASSUME r[i] > r[j] PROVE FALSE
      OBVIOUS
    <3>1. Cardinality(above(i)) + Cardinality(Like(r, m, i)) <= Cardinality(above(j))
      BY <2>1, HigherHasFewerAbove
    <3> QED BY <2>1, <2>2, <3>1
  <2>4. ~(r[j] > r[i])
    <3> SUFFICES ASSUME r[j] > r[i] PROVE FALSE
      OBVIOUS
    <3>1. Cardinality(above(j)) + Cardinality(Like(r, m, j)) <= Cardinality(above(i))
      BY <2>1, HigherHasFewerAbove
    <3> QED BY <2>1, <2>2, <3>1
  <2> QED BY <2>1, <2>3, <2>4
<1> QED BY <1>3, <1>4 DEF ValuesAt

\* Without a division by zero there is one value at risk: no loss if there is no return,
\* or else the loss of some day.
LEMMA AtRiskIsOne ==
    ASSUME NEW n \in Nat, NEW s \in [1 .. n -> Nat], Divides(s)
    PROVE  \E v \in Int :
              /\ AtRisk(s) = {v}
              /\ (n < 2 /\ v = 0) \/ \E i \in 1 .. n - 1 : v = Loss(s[i], s[i + 1])
<1>1. CASE n < 2
  <2>1. Losses(s) = [i \in 1 .. 0 |-> Loss(s[i], s[i + 1])]
    <3>1. Len(s) = n /\ 1 .. n - 1 = 1 .. 0
      BY <1>1
    <3> QED BY <3>1 DEF Losses
  <2>2. Len(Losses(s)) < 1
    BY <2>1
  <2>3. AtRisk(s) = {0}
    BY <2>2 DEF AtRisk
  <2> QED BY <1>1, <2>3
<1>2. CASE n >= 2
  <2> DEFINE loss == Losses(s)
             m == n - 1
             k == TailIndex(m)
  <2>1. /\ m \in Nat \ {0} /\ loss \in [1 .. m -> Int] /\ Len(loss) = m
        /\ \A i \in 1 .. m : loss[i] = Loss(s[i], s[i + 1])
    <3>1. n >= 1 /\ m \in Nat \ {0}
      BY <1>2
    <3>2. /\ loss \in [1 .. m -> Int] /\ Len(loss) = m
          /\ \A i \in 1 .. m : loss[i] = Loss(s[i], s[i + 1])
      BY <3>1, LossesAre
    <3> QED BY <3>1, <3>2
  <2>2. k \in Nat /\ k < m
    <3>1. 100 \in Nat \ {0} /\ m * TailPercent \in Int
      BY <2>1, AnalyticsAssumption
    <3>2. 0 * 100 <= m * TailPercent /\ ~(m * 100 <= m * TailPercent)
      BY <2>1, AnalyticsAssumption
    <3> DEFINE x == m * TailPercent
    <3> HIDE DEF x, m
    <3>3. x \div 100 \in Int /\ 0 <= x \div 100 /\ ~(m <= x \div 100)
      <4>1. x \in Int /\ 0 * 100 <= x /\ ~(m * 100 <= x)
        BY <3>1, <3>2 DEF x
      <4>2. /\ x \div 100 \in Int
            /\ 0 * 100 <= x <=> 0 <= x \div 100
            /\ m * 100 <= x <=> m <= x \div 100
        BY <2>1, <3>1, <4>1, QuotientIs
      <4> QED BY <4>1, <4>2
    <3>4. k = x \div 100
      BY DEF TailIndex, x
    <3> HIDE DEF k
    <3> QED BY <2>1, <3>3, <3>4
  <2> HIDE DEF loss, m, k
  <2>3. AtRisk(s) = ValuesAt(loss, m, k)
    <3>1. ~(m < 1) /\ ~\E i \in 1 .. m : loss[i] = NaN
      BY <2>1, AnalyticsAssumption
    <3>2. \A i, j \in 1 .. m :
             (loss[j] # MinusInfinity /\ (loss[i] = MinusInfinity \/ loss[j] > loss[i]))
               <=> loss[j] > loss[i]
      BY <2>1, AnalyticsAssumption
    <3>3. \A i \in 1 .. m :
             {j \in 1 .. m : loss[j] # MinusInfinity
                               /\ (loss[i] = MinusInfinity \/ loss[j] > loss[i])}
               = Above(loss, m, i)
      BY <3>2 DEF Above
    <3>4. AtRisk(s) = {loss[i] : i \in {j \in 1 .. m :
             /\ Cardinality({l \in 1 .. m : loss[l] # MinusInfinity
                               /\ (loss[j] = MinusInfinity \/ loss[l] > loss[j])}) <= k
             /\ k < Cardinality({l \in 1 .. m : loss[l] # MinusInfinity
                               /\ (loss[j] = MinusInfinity \/ loss[l] > loss[j])})
                      + Cardinality({l \in 1 .. m : loss[l] = loss[j]})}}
      <4>1. Len(Losses(s)) = m /\ Losses(s) = loss /\ TailIndex(m) = k
        BY <2>1 DEF loss, k
      <4> QED BY <3>1, <4>1 DEF AtRisk
    <3>5. {j \in 1 .. m :
             /\ Cardinality({l \in 1 .. m : loss[l] # MinusInfinity
                               /\ (loss[j] = MinusInfinity \/ loss[l] > loss[j])}) <= k
             /\ k < Cardinality({l \in 1 .. m : loss[l] # MinusInfinity
                               /\ (loss[j] = MinusInfinity \/ loss[l] > loss[j])})
                      + Cardinality({l \in 1 .. m : loss[l] = loss[j]})}
           = Ranked(loss, m, k)
      BY <3>3 DEF Ranked, Like
    <3> QED BY <3>4, <3>5 DEF ValuesAt
  <2>4. PICK i \in Ranked(loss, m, k) : ValuesAt(loss, m, k) = {loss[i]}
    <3>1. m \in Nat
      BY <2>1
    <3> QED BY ZenonT(30), <2>1, <2>2, <3>1, OneIsRanked
  <2>5. i \in 1 .. m
    BY DEF Ranked
  <2>6. loss[i] \in Int /\ loss[i] = Loss(s[i], s[i + 1])
    BY <2>1, <2>5
  <2> QED BY <2>3, <2>4, <2>5, <2>6 DEF m
<1>3. n < 2 \/ n >= 2
  OBVIOUS
<1> QED BY <1>1, <1>2, <1>3, Zenon

-----------------------------------------------------------------------------
(* getPortfolioHealth: the figures of a year in which the portfolio was never    *)
(* empty, and of a month at its end.                                             *)

\* The last values of a series, without the first `skipped`.
LastOf(y, n, skipped) == [i \in 1 .. n - skipped |-> y[skipped + i]]

\* The month is the last days of the year y: its days are days of the year.
EndsWith(y, n, skipped, month, days) ==
    /\ days \in Nat /\ month \in [1 .. days -> Nat] /\ Divides(month)
    /\ \A i \in 1 .. days - 1 :
          /\ skipped + i \in 1 .. n - 1
          /\ month[i] = y[skipped + i] /\ month[i + 1] = y[(skipped + i) + 1]

\* The last values are the last days.
LEMMA LastIs ==
    ASSUME NEW n \in Nat, NEW y \in [1 .. n -> Nat \ {0}], NEW skipped \in 0 .. n
    PROVE  EndsWith(y, n, skipped, LastOf(y, n, skipped), n - skipped)
<1> DEFINE month == LastOf(y, n, skipped)
           days == n - skipped
<1>1. days \in Nat /\ \A i \in 1 .. days : skipped + i \in 1 .. n
  OBVIOUS
<1>2. /\ month \in [1 .. days -> Nat] /\ Len(month) = days
      /\ \A i \in 1 .. days : month[i] = y[skipped + i] /\ month[i] # 0
  BY <1>1 DEF LastOf
<1>3. Divides(month)
  <2>1. \A i \in 1 .. days - 1 : i \in 1 .. days
    BY <1>1
  <2> HIDE DEF month, days
  <2> QED BY <1>2, <2>1 DEF Divides
<1>4. ASSUME NEW i \in 1 .. days - 1
      PROVE  /\ i \in 1 .. days /\ i + 1 \in 1 .. days
             /\ skipped + i \in 1 .. n - 1
             /\ month[i] = y[skipped + i] /\ month[i + 1] = y[(skipped + i) + 1]
  <2>1. i \in 1 .. days /\ i + 1 \in 1 .. days
        /\ skipped + i \in 1 .. n - 1 /\ skipped + (i + 1) = (skipped + i) + 1
    BY <1>1
  <2> HIDE DEF month, days
  <2> QED BY <1>2, <2>1
<1> QED BY <1>1, <1>2, <1>3, <1>4 DEF EndsWith

\* A year of positive values divides by no zero.
LEMMA YearIs ==
    ASSUME NEW n \in Nat, NEW y \in [1 .. n -> Nat \ {0}]
    PROVE  y \in [1 .. n -> Nat] /\ Len(y) = n /\ Divides(y)
<1>1. y \in [1 .. n -> Nat] /\ Len(y) = n
  OBVIOUS
<1>2. \A i \in 1 .. n - 1 : y[i] # 0
  OBVIOUS
<1> QED BY <1>1, <1>2 DEF Divides

\* No day's loss is beyond the drawdown.
LEMMA LossWithinDrawdown ==
    ASSUME NEW n \in Nat, NEW y \in [1 .. n -> Nat \ {0}], NEW i \in 1 .. n - 1
    PROVE  /\ Drawdown(y) \in Nat
           /\ Loss(y[i], y[i + 1]) \in Int
           /\ Loss(y[i], y[i + 1]) <= Drawdown(y)
<1>1. /\ n >= 2 /\ i \in 1 .. n /\ i + 1 \in 1 .. n
      /\ y[i] \in Nat \ {0} /\ y[i + 1] \in Nat /\ y[1] \in Nat /\ y[1] > 0
  OBVIOUS
<1>2. y \in [1 .. n -> Nat]
  BY YearIs
<1>3. Drawdown(y) \in Nat /\ \A x \in FallsTo(y, n) : x <= Drawdown(y)
  BY <1>1, <1>2, DrawdownSees
<1>4. Loss(y[i], y[i + 1]) \in Int
  BY <1>1, LossIsFall
<1>5. CASE y[i + 1] <= y[i]
  <2>1. /\ <<i, i + 1>> \in (1 .. n) \X (1 .. n)
        /\ i < i + 1 /\ y[i] > 0 /\ y[i] >= y[i + 1]
    BY <1>1, <1>5
  <2>2. Fall(y[i], y[i + 1]) \in FallsTo(y, n)
    BY <2>1 DEF FallsTo
  <2>3. Loss(y[i], y[i + 1]) = Fall(y[i], y[i + 1])
    BY <1>1, <1>5, LossIsFall
  <2> QED BY <1>3, <1>4, <2>2, <2>3
<1>6. CASE y[i + 1] > y[i]
  <2>1. Loss(y[i], y[i + 1]) <= 0
    BY <1>1, <1>6, LossIsFall
  <2> QED BY <1>3, <1>4, <2>1
<1> QED BY <1>1, <1>5, <1>6

\* The drawdown of such a year is a number.
LEMMA DrawdownOfYear ==
    ASSUME NEW n \in Nat, NEW y \in [1 .. n -> Nat \ {0}]
    PROVE  Drawdown(y) \in Nat
<1>1. Len(y) = n
  OBVIOUS
<1>2. CASE n < 2
  BY <1>1, <1>2 DEF Drawdown
<1>3. CASE n >= 2
  <2>1. 1 \in 1 .. n - 1
    BY <1>3
  <2> QED BY <2>1, LossWithinDrawdown
<1> QED BY <1>2, <1>3

\* The value at risk is one number, within the drawdown of the year.
LEMMA RiskWithinDrawdown ==
    ASSUME NEW n \in Nat, NEW y \in [1 .. n -> Nat \ {0}], NEW skipped \in 0 .. n
    PROVE  LET risks == AtRisk(LastOf(y, n, skipped))
           IN  /\ Cardinality(risks) = 1 /\ risks \subseteq Int
               /\ \A v \in risks : v <= Drawdown(y)
<1> DEFINE month == LastOf(y, n, skipped)
           days == n - skipped
<1>1. /\ days \in Nat /\ month \in [1 .. days -> Nat] /\ Divides(month)
      /\ \A i \in 1 .. days - 1 :
            /\ skipped + i \in 1 .. n - 1
            /\ month[i] = y[skipped + i] /\ month[i + 1] = y[(skipped + i) + 1]
  <2>1. EndsWith(y, n, skipped, month, days)
    BY LastIs
  <2> HIDE DEF month, days
  <2> QED BY <2>1 DEF EndsWith
<1> HIDE DEF month, days
<1>2. PICK v \in Int :
              /\ AtRisk(month) = {v}
              /\ (days < 2 /\ v = 0) \/ \E i \in 1 .. days - 1 : v = Loss(month[i], month[i + 1])
  BY <1>1, AtRiskIsOne
<1>3. v <= Drawdown(y)
  <2>1. CASE v = 0
    BY <2>1, DrawdownOfYear
  <2>2. CASE \E i \in 1 .. days - 1 : v = Loss(month[i], month[i + 1])
    <3>1. PICK i \in 1 .. days - 1 : v = Loss(month[i], month[i + 1])
      BY <2>2
    <3>2. skipped + i \in 1 .. n - 1 /\ v = Loss(y[skipped + i], y[(skipped + i) + 1])
      BY <1>1, <3>1
    <3> QED BY <3>2, LossWithinDrawdown
  <2> QED BY <1>2, <2>1, <2>2
<1>4. Cardinality({v}) = 1
  BY FS_Singleton
<1> QED BY <1>2, <1>3, <1>4 DEF month

\* Returns that differ within the month differ within the year.
LEMMA SharpeIfVolatile ==
    ASSUME NEW n \in Nat, NEW y \in [1 .. n -> Nat \ {0}], NEW skipped \in 0 .. n,
           Volatility(LastOf(y, n, skipped)) > 0
    PROVE  "sharpe" \in FiniteRatios(y)
<1> DEFINE month == LastOf(y, n, skipped)
           days == n - skipped
<1>1. /\ days \in Nat /\ month \in [1 .. days -> Nat] /\ Divides(month)
      /\ \A i \in 1 .. days - 1 :
            /\ skipped + i \in 1 .. n - 1
            /\ month[i] = y[skipped + i] /\ month[i + 1] = y[(skipped + i) + 1]
  <2>1. EndsWith(y, n, skipped, month, days)
    BY LastIs
  <2> HIDE DEF month, days
  <2> QED BY <2>1 DEF EndsWith
<1> HIDE DEF month, days
<1>2. days >= 2 /\ \E i, j \in 1 .. days - 1 : Losses(month)[i] # Losses(month)[j]
  BY <1>1, VolatilityIs DEF month
<1>3. PICK i \in 1 .. days - 1, j \in 1 .. days - 1 : Losses(month)[i] # Losses(month)[j]
  BY <1>2
<1>4. \A l \in 1 .. days - 1 : Losses(month)[l] = Loss(month[l], month[l + 1])
  <2>1. days >= 1
    BY <1>1, <1>2
  <2> QED BY <1>1, <2>1, LossesAre
<1>5. Loss(y[skipped + i], y[(skipped + i) + 1]) # Loss(y[skipped + j], y[(skipped + j) + 1])
  BY <1>1, <1>3, <1>4
<1>6. skipped + i \in 1 .. n - 1 /\ skipped + j \in 1 .. n - 1 /\ n >= 2 /\ n - 1 \in Nat
  <2>1. skipped + i \in 1 .. n - 1 /\ skipped + j \in 1 .. n - 1
    BY <1>1
  <2>2. \A x \in 1 .. n - 1 : n >= 2 /\ n - 1 \in Nat
    OBVIOUS
  <2> QED BY <2>1, <2>2
<1>7. /\ Losses(y) \in [1 .. n - 1 -> Int]
      /\ \A l \in 1 .. n - 1 : Losses(y)[l] = Loss(y[l], y[l + 1])
  <2>1. n >= 1
    BY <1>6
  <2> QED BY <2>1, YearIs, LossesAre
<1>8. Losses(y)[skipped + i] # Losses(y)[skipped + j]
  BY <1>5, <1>6, <1>7
<1>9. Spread(Losses(y)) # 0
  BY <1>6, <1>7, <1>8, SpreadIs
<1> QED BY <1>6, <1>9, YearIs DEF FiniteRatios

\* Without a fall there is no negative return, and the other way round if a fall shows.
LEMMA SortinoIfFalls ==
    ASSUME NEW n \in Nat, n >= 2, NEW y \in [1 .. n -> Nat \ {0}]
    PROVE  /\ Drawdown(y) > 0 => "sortino" \in FiniteRatios(y)
           /\ (\A i \in 1 .. n : y[i] <= 100) /\ "sortino" \in FiniteRatios(y) => Drawdown(y) > 0
<1>1. y \in [1 .. n -> Nat] /\ Len(y) = n /\ Divides(y)
  BY YearIs
<1>2. "sortino" \in FiniteRatios(y) <=> \E i \in 1 .. n - 1 : y[i + 1] < y[i]
  BY <1>1 DEF FiniteRatios
<1>3. Drawdown(y) > 0 => \E i \in 1 .. n - 1 : y[i + 1] < y[i]
  <2>1. y[1] > 0
    OBVIOUS
  <2> QED BY <1>1, <2>1, DrawdownSees
<1>4. ASSUME \A i \in 1 .. n : y[i] <= 100, NEW i \in 1 .. n - 1, y[i + 1] < y[i]
      PROVE  Drawdown(y) > 0
  <2>1. y[i] \in Nat \ {0} /\ y[i + 1] \in Nat /\ y[i] <= 100
    BY <1>4
  <2>2. Fall(y[i], y[i + 1]) >= 1
    BY <1>4, <2>1, FallShows
  <2>3. Loss(y[i], y[i + 1]) = Fall(y[i], y[i + 1])
    <3>1. y[i + 1] <= y[i]
      BY <1>4, <2>1
    <3> QED BY <2>1, <3>1, LossIsFall
  <2>4. /\ Drawdown(y) \in Nat /\ Loss(y[i], y[i + 1]) \in Int
        /\ Loss(y[i], y[i + 1]) <= Drawdown(y)
    BY LossWithinDrawdown
  <2> QED BY <2>2, <2>3, <2>4
<1> QED BY <1>2, <1>3, <1>4

-----------------------------------------------------------------------------
(* The scores of the assets *)

\* The sums of natural numbers with one more.
LEMMA OneMoreNatural ==
    ASSUME NEW S, IsFiniteSet(S), NEW a \in [S -> Nat], NEW T \in SUBSET S, NEW x \in S \ T
    PROVE  /\ Cardinality(T) \in Nat
           /\ Total(a, T \union {x}) = Total(a, T) + a[x]
           /\ Squares(a, T \union {x}) = Squares(a, T) + Square(a[x])
           /\ Cardinality(T \union {x}) = Cardinality(T) + 1
<1>1. a \in [S -> Int]
  OBVIOUS
<1>2. \A r \in [S -> Int] :
         /\ Cardinality(T) \in Nat
         /\ Total(r, T \union {x}) = Total(r, T) + r[x]
         /\ Squares(r, T \union {x}) = Squares(r, T) + Square(r[x])
         /\ Cardinality(T \union {x}) = Cardinality(T) + 1
  BY OneMore
<1> QED BY <1>1, <1>2, Zenon

\* Sums of natural numbers are natural.
LEMMA TotalIsNatural ==
    ASSUME NEW S, IsFiniteSet(S), NEW a \in [S -> Nat]
    PROVE  \A T \in SUBSET S : Total(a, T) \in Nat
<1> DEFINE P == {T \in SUBSET S : Total(a, T) \in Nat}
<1>0. a \in [S -> Int]
  OBVIOUS
<1>1. {} \in P
  BY <1>0, NoNumbers
<1>2. ASSUME NEW T \in SUBSET S, NEW x \in S \ T, T \in P PROVE T \union {x} \in P
  <2>1. Total(a, T \union {x}) = Total(a, T) + a[x]
    BY <1>0, OneMoreNatural
  <2>2. a[x] \in Nat /\ Total(a, T) \in Nat
    BY <1>2
  <2>3. Total(a, T \union {x}) \in Nat
    BY <2>1, <2>2
  <2> QED BY <2>3
<1>3. SUBSET S \subseteq P
  <2> HIDE DEF P
  <2> QED BY <1>1, <1>2, SubsetSteps
<1> QED BY <1>3

\* Sums of their squares are natural.
LEMMA SquaresAreNatural ==
    ASSUME NEW S, IsFiniteSet(S), NEW a \in [S -> Nat]
    PROVE  \A T \in SUBSET S : Squares(a, T) \in Nat
<1> DEFINE P == {T \in SUBSET S : Squares(a, T) \in Nat}
<1>0. a \in [S -> Int]
  OBVIOUS
<1>1. {} \in P
  BY <1>0, NoNumbers
<1>2. ASSUME NEW T \in SUBSET S, NEW x \in S \ T, T \in P PROVE T \union {x} \in P
  <2>0. /\ Cardinality(T) \in Nat
        /\ Total(a, T \union {x}) = Total(a, T) + a[x]
        /\ Squares(a, T \union {x}) = Squares(a, T) + Square(a[x])
        /\ Cardinality(T \union {x}) = Cardinality(T) + 1
    BY ZenonT(30), OneMoreNatural
  <2>1. Squares(a, T \union {x}) = Squares(a, T) + Square(a[x])
    BY <2>0
  <2>2. Square(a[x]) \in Nat /\ Squares(a, T) \in Nat
    BY <1>0, <1>2, SquareType
  <2>3. Squares(a, T \union {x}) \in Nat
    BY <2>1, <2>2
  <2> QED BY <2>3
<1>3. SUBSET S \subseteq P
  <2> HIDE DEF P
  <2> QED BY <1>1, <1>2, SubsetSteps
<1> QED BY <1>3

\* If no number is above m, the sum of their squares is at most m times their sum.
LEMMA SquaresBelow ==
    ASSUME NEW S, IsFiniteSet(S), NEW a \in [S -> Nat], NEW m \in Nat, \A x \in S : a[x] <= m
    PROVE  \A T \in SUBSET S : Squares(a, T) <= m * Total(a, T)
<1> DEFINE P == {T \in SUBSET S : Squares(a, T) <= m * Total(a, T)}
<1>0. a \in [S -> Int]
  OBVIOUS
<1>1. {} \in P
  <2>1. 0 <= m * 0
    OBVIOUS
  <2> QED BY <1>0, <2>1, NoNumbers
<1>2. ASSUME NEW T \in SUBSET S, NEW x \in S \ T, T \in P PROVE T \union {x} \in P
  <2> DEFINE q == Squares(a, T)
             l == Total(a, T)
             v == a[x]
  <2>1. /\ Squares(a, T \union {x}) = q + v * v /\ Total(a, T \union {x}) = l + v
    <3>0. /\ Cardinality(T) \in Nat
          /\ Total(a, T \union {x}) = Total(a, T) + a[x]
          /\ Squares(a, T \union {x}) = Squares(a, T) + Square(a[x])
          /\ Cardinality(T \union {x}) = Cardinality(T) + 1
      BY OneMoreNatural, Zenon
    <3>1. Squares(a, T \union {x}) = q + Square(v) /\ Total(a, T \union {x}) = l + v
      BY <3>0
    <3> QED BY <3>1 DEF Square
  <2>2. q \in Nat /\ l \in Nat /\ v \in Nat /\ v <= m /\ q <= m * l
    BY <1>2, TotalIsNatural, SquaresAreNatural
  <2> HIDE DEF q, l, v
  <2>3. v * v <= m * v
    BY <2>2
  <2>4. q + v * v <= m * (l + v)
    BY <2>2, <2>3
  <2> QED BY <2>1, <2>4
<1>3. SUBSET S \subseteq P
  <2> HIDE DEF P
  <2> QED BY <1>1, <1>2, SubsetSteps
<1> QED BY <1>3

\* One number is at most the sum, and its square at most the sum of the squares.
LEMMA OneIsPart ==
    ASSUME NEW S, IsFiniteSet(S), NEW a \in [S -> Nat], NEW x \in S
    PROVE  /\ a[x] <= Total(a, S) /\ Square(a[x]) <= Squares(a, S)
           /\ Total(a, S) = Total(a, S \ {x}) + a[x]
<1> DEFINE T == S \ {x}
<1>1. T \in SUBSET S /\ x \in S \ T /\ T \union {x} = S /\ a \in [S -> Int]
  OBVIOUS
<1> HIDE DEF T
<1>2. Total(a, S) = Total(a, T) + a[x] /\ Squares(a, S) = Squares(a, T) + Square(a[x])
  BY <1>1, OneMore
<1>3. /\ Total(a, T) \in Nat /\ Squares(a, T) \in Nat /\ a[x] \in Nat
      /\ Square(a[x]) \in Nat
  BY <1>1, TotalIsNatural, SquaresAreNatural, SquareType
<1> QED BY <1>2, <1>3 DEF T

\* Ten times a sum of shares of at most a tenth.
LEMMA SmallShares ==
    ASSUME NEW S, IsFiniteSet(S), NEW a \in [S -> Nat], NEW m \in Nat,
           NEW R \in SUBSET S, \A x \in R : 10 * a[x] <= m
    PROVE  10 * Total(a, R) <= Cardinality(R) * m
<1> DEFINE P == {T \in SUBSET S : T \subseteq R => 10 * Total(a, T) <= Cardinality(T) * m}
<1>0. a \in [S -> Int]
  OBVIOUS
<1>1. {} \in P
  <2>1. 10 * 0 <= 0 * m
    OBVIOUS
  <2> QED BY <1>0, <2>1, NoNumbers
<1>2. ASSUME NEW T \in SUBSET S, NEW x \in S \ T, T \in P PROVE T \union {x} \in P
  <2> SUFFICES ASSUME T \union {x} \subseteq R
               PROVE  10 * Total(a, T \union {x}) <= Cardinality(T \union {x}) * m
    OBVIOUS
  <2> DEFINE l == Total(a, T)
             n == Cardinality(T)
             v == a[x]
  <2>1. n \in Nat /\ Total(a, T \union {x}) = l + v /\ Cardinality(T \union {x}) = n + 1
    BY <1>0, OneMoreNatural
  <2>2. l \in Nat /\ v \in Nat /\ 10 * v <= m /\ 10 * l <= n * m
    BY <1>2, TotalIsNatural
  <2> HIDE DEF l, n, v
  <2>3. 10 * (l + v) <= (n + 1) * m
    BY <2>1, <2>2
  <2> QED BY <2>1, <2>3
<1>3. SUBSET S \subseteq P
  <2> HIDE DEF P
  <2> QED BY <1>1, <1>2, SubsetSteps
<1> QED BY <1>3

\* The values of assets whose total is positive: the index of their concentration, and the
\* greatest of them.
LEMMA SharesAre ==
    ASSUME NEW S, IsFiniteSet(S), NEW a \in [S -> Nat], TotalOf(a) > 0
    PROVE  \E t \in Nat \ {0}, q \in Nat, m \in Nat :
              /\ TotalOf(a) = t
              /\ SumFunction([s \in DOMAIN a |-> Square(a[s])]) = q
              /\ DOMAIN a = S /\ S # {}
              /\ Max({a[s] : s \in DOMAIN a}) = m
              /\ \E x \in S : m = a[x]
              /\ \A x \in S : a[x] <= m
              /\ m <= t /\ q <= m * t /\ m * m <= q
<1> DEFINE t == Total(a, S)
           q == Squares(a, S)
<1>0. DOMAIN a = S /\ S \in SUBSET S
  OBVIOUS
<1>1. TotalOf(a) = t /\ SumFunction([s \in DOMAIN a |-> Square(a[s])]) = q
  BY <1>0 DEF TotalOf, SumFunction, Total, Squares, SumOf
<1>2. t \in Nat \ {0} /\ q \in Nat
  BY <1>0, <1>1, TotalIsNatural, SquaresAreNatural
<1>3. S # {}
  <2> SUFFICES ASSUME S = {} PROVE FALSE
    OBVIOUS
  <2>1. a \in [S -> Int]
    OBVIOUS
  <2>2. Total(a, {}) = 0
    BY <2>1, NoNumbers
  <2> QED BY <1>2, <2>2
<1> DEFINE values == {a[s] : s \in DOMAIN a}
           m == Max(values)
<1>4. m \in values /\ \A y \in values : m >= y
  <2>1. a \in Surjection(S, values)
    BY DEF Surjection
  <2>2. IsFiniteSet(values) /\ values \subseteq Int /\ values # {}
    BY <1>3, <2>1, FS_Surjection
  <2> HIDE DEF values
  <2> QED BY <2>2, MaxIsGreatest
<1>5. PICK x \in S : m = a[x]
  BY <1>4
<1>6. m \in Nat /\ \A y \in S : a[y] <= m
  BY <1>4, <1>5
<1>7. m <= t /\ m * m <= q
  BY <1>5, OneIsPart DEF Square
<1>8. q <= m * t
  <2> HIDE DEF m
  <2> QED BY <1>0, <1>6, SquaresBelow
<1> HIDE DEF t, q
<1> QED BY <1>0, <1>1, <1>2, <1>3, <1>5, <1>6, <1>7, <1>8

\* The index of concentration h of assets worth t of which the greatest is worth m, and
\* the share of that one, in percent.
Indices(t, m, h, share) ==
    /\ h \in 0 .. 100 /\ share \in Nat
    /\ \A c \in Nat : share < c => h < c
    /\ share >= 60 => h >= 36
    /\ \A k \in Nat : k * t <= 100 * m <=> k <= share

\* The index of concentration of shares of at most c percent each, and of one of at least
\* sixty.
LEMMA IndexIs ==
    ASSUME NEW t \in Nat \ {0}, NEW q \in Nat, NEW m \in Nat, m <= t, q <= m * t, m * m <= q
    PROVE  Indices(t, m, (100 * q) \div (t * t), (100 * m) \div t)
<1> DEFINE w == t * t
           x == 100 * q
           y == 100 * m
           h == x \div w
           share == y \div t
<1>1. w \in Nat \ {0} /\ x \in Int /\ y \in Nat /\ y \in Int /\ q <= w
  <2>1. t * t \in Nat \ {0}
    OBVIOUS
  <2>2. m * t <= t * t
    OBVIOUS
  <2>3. m * t \in Nat
    OBVIOUS
  <2> QED BY <2>1, <2>2, <2>3
<1>2. 100 * q <= 100 * w /\ x <= y * t
  <2>1. y * t = 100 * (m * t)
    OBVIOUS
  <2>2. m * t \in Nat
    OBVIOUS
  <2> QED BY <1>1, <2>1, <2>2
<1>3. ASSUME NEW k \in Int, NEW c \in Nat, c = k PROVE c * t <= y => c * (c * w) <= y * y
  <2> DEFINE z == c * t
  <2>1. c * (c * w) = z * z
    OBVIOUS
  <2>2. z \in Nat
    OBVIOUS
  <2> HIDE DEF z, y, w
  <2>3. z <= y => z * z <= y * y
    <3> SUFFICES ASSUME z <= y PROVE z * z <= y * y
      OBVIOUS
    <3>1. z * z <= z * y /\ z * y <= y * y
      BY <1>1, <2>2
    <3>2. z * z \in Int /\ z * y \in Int /\ y * y \in Int
      BY <1>1, <2>2
    <3> QED BY <3>1, <3>2
  <2> QED BY <2>1, <2>3 DEF z
<1>4. 60 * t <= y => 36 * w <= x
  <2> SUFFICES ASSUME 60 * t <= y PROVE 36 * w <= x
    OBVIOUS
  <2>1. 60 * (60 * w) <= y * y
    BY <1>3
  <2>2. y * y = 10000 * (m * m)
    OBVIOUS
  <2>3. m * m \in Nat
    OBVIOUS
  <2> QED BY <1>1, <2>1, <2>2, <2>3
<1>5. ASSUME NEW c \in Nat, ~(c * t <= y) PROVE ~(c * w <= x)
  <2>1. y < c * t
    BY <1>1, <1>5
  <2>2. y * t < c * w
    <3> DEFINE z == c * t
    <3>1. z \in Nat /\ y < z
      BY <2>1
    <3>2. c * w = z * t
      OBVIOUS
    <3> HIDE DEF z, y, w
    <3>3. y * t < z * t
      BY <1>1, <3>1
    <3> QED BY <3>2, <3>3
  <2>3. y * t \in Int /\ c * w \in Int
    BY <1>1
  <2> QED BY <1>1, <1>2, <2>2, <2>3
<1> HIDE DEF w, x, y
<1>6. h \in Int /\ share \in Int
  BY <1>1, QuotientIs
<1>7. \A k \in Int : k * w <= x <=> k <= h
  BY <1>1, QuotientIs
<1>8. \A k \in Int : k * t <= y <=> k <= share
  BY <1>1, QuotientIs
<1> HIDE DEF h, share
<1>9. h \in 0 .. 100 /\ share \in Nat
  <2>1. 0 * w <= x /\ ~(101 * w <= x) /\ 0 * t <= y
    BY <1>1, <1>2 DEF x
  <2>2. 0 <= h /\ ~(101 <= h) /\ 0 <= share
    BY <1>7, <1>8, <2>1
  <2> QED BY <1>6, <2>2
<1>10. ASSUME NEW c \in Nat, share < c PROVE h < c
  <2>1. ~(c <= share) /\ c \in Int
    BY <1>6, <1>10
  <2>2. ~(c * w <= x)
    BY <1>5, <1>8, <2>1
  <2> QED BY <1>6, <1>7, <2>1, <2>2
<1>11. share >= 60 => h >= 36
  <2> SUFFICES ASSUME 60 <= share PROVE 36 <= h
    BY <1>6
  <2>1. 60 * t <= y
    BY <1>8
  <2> QED BY <1>4, <1>7, <2>1
<1>12. Indices(t, m, h, share)
  BY <1>8, <1>9, <1>10, <1>11 DEF y, Indices
<1> QED BY <1>12 DEF h, share, x, y, w

\* No scenario of the stress tests gains.
LEMMA StressTestsLose ==
    ASSUME NEW value \in Nat
    PROVE  \A v \in StressTests(value) : v <= value
<1> SUFFICES ASSUME NEW impact \in Scenarios
             PROVE  (value * (100 + impact)) \div 100 <= value
  BY DEF StressTests
<1> DEFINE x == value * (100 + impact)
           q == x \div 100
<1>1. x \in Int /\ x <= value * 100
  BY DEF Scenarios
<1> HIDE DEF x
<1>2. q \in Int /\ q * 100 <= x
  BY <1>1, QuotientIs
<1> HIDE DEF q
<1>3. q <= value
  BY <1>1, <1>2
<1> QED BY <1>3 DEF q, x

\* The risks of the assets.
LEMMA RisksAre ==
    ASSUME NEW S, IsFiniteSet(S), NEW a \in [S -> Nat], TotalOf(a) > 0
    PROVE  LET score == DiversificationScore(a)
               risk == ConcentrationRisk(a)
           IN  /\ score \in 0 .. 100
               /\ CASE risk = "LOW" -> score > 80
                    [] risk = "MODERATE" -> score > 60
                    [] risk = "MODERATE_HIGH" -> score > 40
                    [] OTHER -> score <= 64
               /\ LiquidityRisk(a) = "LOW" => risk = "LOW"
               /\ LiquidityRisk(a) = "MODERATE" /\ Cardinality(DOMAIN a) <= 5 => risk = "HIGH"
<1>1. PICK t \in Nat \ {0}, q \in Nat, m \in Nat :
              /\ TotalOf(a) = t
              /\ SumFunction([s \in DOMAIN a |-> Square(a[s])]) = q
              /\ DOMAIN a = S /\ S # {}
              /\ Max({a[s] : s \in DOMAIN a}) = m
              /\ \E x \in S : m = a[x]
              /\ \A x \in S : a[x] <= m
              /\ m <= t /\ q <= m * t /\ m * m <= q
  BY SharesAre
<1> DEFINE h == (100 * q) \div (t * t)
           share == (100 * m) \div t
           score == DiversificationScore(a)
           risk == ConcentrationRisk(a)
<1>0. Indices(t, m, h, share)
  BY <1>1, IndexIs
<1>2. /\ h \in 0 .. 100 /\ share \in Nat
      /\ \A c \in Nat : share < c => h < c
      /\ share >= 60 => h >= 36
      /\ \A k \in Nat : k * t <= 100 * m <=> k <= share
  <2> HIDE DEF h, share
  <2> QED BY <1>0 DEF Indices
<1>3. score = 100 - h
  BY <1>1 DEF DiversificationScore, Square
<1>4. risk = Band(share)
  BY <1>1 DEF ConcentrationRisk
<1> HIDE DEF h, share, score, risk
<1>5. /\ share < 20 <=> risk = "LOW"
      /\ share >= 20 /\ share < 40 <=> risk = "MODERATE"
      /\ share >= 40 /\ share < 60 <=> risk = "MODERATE_HIGH"
      /\ share >= 60 <=> risk = "HIGH"
  <2>1. share # NaN
    BY <1>2, AnalyticsAssumption
  <2> QED BY <1>2, <1>4, <2>1 DEF Band
<1>6. score \in 0 .. 100
  BY <1>2, <1>3
<1>7. /\ risk = "LOW" => score > 80
      /\ risk = "MODERATE" => score > 60
      /\ risk = "MODERATE_HIGH" => score > 40
      /\ risk = "HIGH" => score <= 64
      /\ risk \in {"LOW", "MODERATE", "MODERATE_HIGH", "HIGH"}
  <2>1. /\ share < 20 => h < 20
        /\ share < 40 => h < 40
        /\ share < 60 => h < 60
    BY <1>2
  <2> QED BY <1>2, <1>3, <1>5, <2>1
<1> DEFINE large == {s \in DOMAIN a : 10 * a[s] > TotalOf(a)}
<1>8. IsFiniteSet(large) /\ large \subseteq S /\ \A s \in S \ large : 10 * a[s] <= t
  <2>1. large \subseteq S /\ \A s \in S \ large : 10 * a[s] <= t
    BY <1>1
  <2> QED BY <2>1, FS_Subset
<1>9. /\ LiquidityRisk(a) = "LOW" => Cardinality(large) = 0
      /\ LiquidityRisk(a) = "MODERATE" => Cardinality(large) = 1
  BY <1>1 DEF LiquidityRisk
<1> HIDE DEF large
<1>10. ASSUME Cardinality(large) = 0 PROVE risk = "LOW"
  <2>1. large = {}
    BY <1>8, <1>10, FS_EmptySet
  <2>2. 10 * m <= t
    BY <1>1, <1>8, <2>1
  <2>3. ~(20 * t <= 100 * m)
    BY <2>2
  <2>4. ~(20 <= share)
    BY <1>2, <2>3
  <2> QED BY <1>2, <1>5, <2>4
<1>11. ASSUME Cardinality(large) = 1, Cardinality(DOMAIN a) <= 5 PROVE risk = "HIGH"
  <2>1. PICK x : large = {x}
    BY <1>8, <1>11, FS_Singleton
  <2> DEFINE R == S \ {x}
             l == Total(a, R)
             n == Cardinality(R)
             v == a[x]
  <2>2. x \in S /\ R \in SUBSET S /\ \A s \in R : 10 * a[s] <= t
    BY <1>8, <2>1
  <2>3. 10 * l <= n * t
    BY <2>2, SmallShares
  <2>4. l \in Nat /\ v \in Nat
    BY <2>2, TotalIsNatural
  <2>5. t = l + v
    <3>1. TotalOf(a) = Total(a, S)
      BY <1>1 DEF TotalOf, SumFunction, Total, SumOf
    <3> QED BY <1>1, <2>2, <3>1, OneIsPart
  <2>6. n \in Nat /\ n <= 4
    <3>1. IsFiniteSet(R) /\ n = Cardinality(S) - 1
      BY <2>2, FS_RemoveElement
    <3>2. n \in Nat /\ Cardinality(S) \in Nat
      BY <3>1, FS_CardinalityType
    <3> HIDE DEF n
    <3> QED BY <1>1, <1>11, <3>1, <3>2
  <2>7. v <= m
    BY <1>1, <2>2
  <2> HIDE DEF l, n, v
  <2>8. n * t <= 4 * t
    BY <2>6
  <2>9. n * t \in Nat
    BY <2>6
  <2>10. 60 * t <= 100 * m
    BY <2>3, <2>4, <2>5, <2>7, <2>8, <2>9
  <2>11. 60 <= share
    BY <1>2, <2>10
  <2> QED BY <1>2, <1>5, <2>11
<1>12. CASE risk = "LOW"
  BY <1>6, <1>7, <1>9, <1>10, <1>11, <1>12 DEF score, risk
<1>13. CASE risk # "LOW"
  BY <1>6, <1>7, <1>9, <1>10, <1>11, <1>13 DEF score, risk
<1> QED BY <1>12, <1>13

-----------------------------------------------------------------------------
(* PortfolioHistory *)

\* What is proved of a request needs no types, only that it is a record of its fields.
RequestFields == {"op", "of", "pair", "total", "assets", "date", "reads", "got", "whole",
                  "steady", "fresh", "newest", "raced"}

\* A refresh that has read remembers the books of its portfolio, unless it was overtaken.
RefreshSound(w) ==
    LET r == req[w]
        doc == portfolio[r.of]
    IN  /\ stage[w] = "readAssets" /\ r.op = "refresh" /\ r.whole =>
             doc.live /\ r.total = doc.total
        /\ stage[w] = "insert" => r.op = "refresh"
        /\ stage[w] = "insert" /\ r.whole => r.total = TotalOf(r.assets)
        /\ stage[w] \in {"readAssets", "insert"} /\ r.op = "refresh" =>
             doc.live \/ r.raced

\* A correlation whose reads saw the same points has the histories as they are.
CorrelationSound(w) ==
    LET r == req[w]
    IN  r.op = "correlation" =>
          /\ stage[w] # "idle" => /\ r.reads = r.pair
                                  /\ r.pair \in Symbols \X Symbols
          /\ stage[w] # "readTotal"
          /\ stage[w] \in {"readPortfolio", "readAssets"} => r.got = <<>>
          /\ stage[w] = "query" =>
               \/ r.got = <<>>
               \/ /\ r.got = <<r.got[1]>>
                  /\ r.steady => r.got[1] = AssetHistory(r.pair[1])
          /\ stage[w] = "answer" /\ r.steady =>
               r.got = <<AssetHistory(r.pair[1]), AssetHistory(r.pair[2])>>

RequestSound(w) ==
    /\ DOMAIN req[w] = RequestFields
    /\ req[w].of \in Portfolios
    /\ req[w].newest \in Nat
    /\ RefreshSound(w)
    /\ CorrelationSound(w)

BooksAreKept ==
    /\ DOMAIN portfolio = Portfolios
    /\ \A p \in Portfolios :
          /\ DOMAIN portfolio[p] = {"live", "total", "assets"}
          /\ portfolio[p].live => portfolio[p].total = TotalOf(portfolio[p].assets)

PointsSound ==
    /\ IsFiniteSet(points)
    /\ lastPoint \in Nat
    /\ \A t \in points : t.of \in Portfolios /\ t.id \in Nat

HistoryInv ==
    /\ DOMAIN req = Workers
    /\ DOMAIN stage = Workers
    /\ BooksAreKept
    /\ PointsSound
    /\ TornOnlyIfRaced
    /\ \A w \in Workers : RequestSound(w)

-----------------------------------------------------------------------------
\* The histories depend on the points only.
LEMMA HistoriesStay ==
    ASSUME points' = points, NEW s PROVE AssetHistory(s)' = AssetHistory(s)
  BY DEF AssetHistory

\* A step of one worker that leaves the documents alone.
LEMMA OneWorker ==
    ASSUME HistoryInv, NEW w \in Workers,
           UNCHANGED <<documents, raced>>,
           DOMAIN req' = Workers, DOMAIN stage' = Workers,
           \A v \in Workers \ {w} : req'[v] = req[v] /\ stage'[v] = stage[v],
           RequestSound(w)'
    PROVE  HistoryInv'
  <1>1. UNCHANGED <<portfolio, points, lastPoint, raced>>
    BY DEF documents
  <1>2. BooksAreKept' /\ PointsSound' /\ TornOnlyIfRaced'
    BY <1>1 DEF HistoryInv, BooksAreKept, PointsSound, TornOnlyIfRaced
  <1>3. ASSUME NEW v \in Workers PROVE RequestSound(v)'
    <2>1. CASE v = w
      BY <2>1
    <2>2. CASE v # w
      <3>1. req'[v] = req[v] /\ stage'[v] = stage[v] /\ RequestSound(v)
        BY <2>2 DEF HistoryInv
      <3>2. \A s : AssetHistory(s)' = AssetHistory(s)
        BY <1>1, HistoriesStay
      <3>3. RefreshSound(v)'
        BY <1>1, <3>1 DEF RequestSound, RefreshSound
      <3>4. CorrelationSound(v)'
        BY <3>1, <3>2 DEF RequestSound, CorrelationSound
      <3> QED
        BY <3>1, <3>3, <3>4 DEF RequestSound
    <2> QED BY <2>1, <2>2
  <1> QED
    BY <1>2, <1>3 DEF HistoryInv

\* A worker without a request.
LEMMA IdleSound ==
    ASSUME NEW w \in Workers, req'[w] = NoRequest, stage'[w] = "idle"
    PROVE  RequestSound(w)'
  <1>1. Nobody \in Portfolios
    BY HistoryAssumption DEF Nobody
  <1> QED
    BY <1>1 DEF RequestSound, RefreshSound, CorrelationSound, NoRequest, RequestFields

LEMMA DoneKeeps ==
    ASSUME HistoryInv, NEW w \in Workers, Done(w), UNCHANGED <<documents, raced>>
    PROVE  HistoryInv'
  <1>1. /\ DOMAIN req' = Workers /\ req'[w] = NoRequest
        /\ DOMAIN stage' = Workers /\ stage'[w] = "idle"
        /\ \A v \in Workers \ {w} : req'[v] = req[v] /\ stage'[v] = stage[v]
    BY DEF HistoryInv, Done, MoveTo
  <1> QED
    BY <1>1, IdleSound, OneWorker

LEMMA StartKeeps ==
    ASSUME HistoryInv, NEW w \in Workers, Start(w) PROVE HistoryInv'
  <1>1. PICK op \in Ops, p \in Portfolios,
             pair \in {<<>>} \union {e \in Symbols \X Symbols : e[1] # e[2]} :
          LET r == [NoRequest EXCEPT !.op = op, !.of = p, !.pair = pair, !.fresh = TRUE]
          IN  /\ pair # <<>> <=> op = "correlation"
              /\ op \in Reading =>
                   Cardinality({v \in Workers : req[v].op \in Reading}) < MaxReads
              /\ req' = [req EXCEPT ![w] = [r EXCEPT !.reads = Reads(r)]]
              /\ MoveTo(w, CASE op = "deletePortfolio" -> "begin"
                             [] op \in {"history", "performance"} -> "query"
                             [] OTHER -> "readPortfolio")
    BY DEF Start
  <1>2. /\ DOMAIN req' = Workers /\ DOMAIN stage' = Workers
        /\ \A v \in Workers \ {w} : req'[v] = req[v] /\ stage'[v] = stage[v]
        /\ DOMAIN req'[w] = RequestFields /\ req'[w].newest = 0
        /\ req'[w].op = op /\ req'[w].of = p /\ req'[w].pair = pair /\ req'[w].got = <<>>
        /\ stage'[w] \in {"begin", "query", "readPortfolio"}
    BY <1>1 DEF HistoryInv, MoveTo, NoRequest, RequestFields
  <1>3. op = "correlation" => req'[w].reads = pair /\ pair \in Symbols \X Symbols
    BY <1>1 DEF HistoryInv, NoRequest, Reads
  <1>4. RequestSound(w)'
    BY <1>2, <1>3 DEF RequestSound, RefreshSound, CorrelationSound
  <1> QED
    BY <1>2, <1>4, OneWorker DEF Start

LEMMA ReadPortfolioKeeps ==
    ASSUME HistoryInv, NEW w \in Workers, ReadPortfolio(w) PROVE HistoryInv'
  <1>1. /\ DOMAIN req' = Workers /\ DOMAIN stage' = Workers
        /\ \A v \in Workers \ {w} : req'[v] = req[v] /\ stage'[v] = stage[v]
        /\ stage[w] = "readPortfolio" /\ stage'[w] = "readAssets"
        /\ UNCHANGED <<documents, raced>> /\ portfolio' = portfolio
    BY DEF HistoryInv, ReadPortfolio, MoveTo, documents
  <1>2. RequestSound(w)
    BY DEF HistoryInv
  <1>3. /\ DOMAIN req'[w] = RequestFields
        /\ req'[w].op = req[w].op /\ req'[w].of = req[w].of
        /\ req'[w].pair = req[w].pair /\ req'[w].reads = req[w].reads
        /\ req'[w].got = req[w].got /\ req'[w].newest = req[w].newest
        /\ req[w].op = "refresh" => req'[w].total = portfolio[req[w].of].total
    BY <1>2 DEF HistoryInv, ReadPortfolio, RequestSound, RequestFields
  <1>4. portfolio[req[w].of].live
    BY DEF ReadPortfolio
  <1>5. RefreshSound(w)'
    BY <1>1, <1>3, <1>4 DEF RefreshSound
  <1>6. CorrelationSound(w)'
    BY <1>1, <1>2, <1>3 DEF RequestSound, CorrelationSound
  <1>7. RequestSound(w)'
    BY <1>2, <1>3, <1>5, <1>6 DEF RequestSound
  <1> QED
    BY <1>1, <1>7, OneWorker

LEMMA ReadAssetsKeeps ==
    ASSUME HistoryInv, NEW w \in Workers, ReadAssets(w) PROVE HistoryInv'
  <1>1. /\ DOMAIN req' = Workers /\ DOMAIN stage' = Workers
        /\ \A v \in Workers \ {w} : req'[v] = req[v] /\ stage'[v] = stage[v]
        /\ stage[w] = "readAssets"
        /\ stage'[w] = IF req[w].op = "refresh" THEN "insert" ELSE "query"
        /\ UNCHANGED <<documents, raced>> /\ portfolio' = portfolio
    BY DEF HistoryInv, ReadAssets, MoveTo, documents
  <1>2. RequestSound(w)
    BY DEF HistoryInv
  <1>3. /\ DOMAIN req'[w] = RequestFields
        /\ req'[w].op = req[w].op /\ req'[w].of = req[w].of
        /\ req'[w].pair = req[w].pair /\ req'[w].reads = req[w].reads
        /\ req'[w].got = req[w].got /\ req'[w].total = req[w].total
        /\ req'[w].whole = req[w].whole /\ req'[w].raced = req[w].raced
        /\ req'[w].newest = req[w].newest
        /\ req[w].op = "refresh" => req'[w].assets = portfolio[req[w].of].assets
    BY <1>2 DEF HistoryInv, ReadAssets, RequestSound, RequestFields
  <1>4. portfolio[req[w].of].live =>
           portfolio[req[w].of].total = TotalOf(portfolio[req[w].of].assets)
    BY <1>2 DEF HistoryInv, BooksAreKept, RequestSound
  <1>5. RefreshSound(w)'
    BY <1>1, <1>2, <1>3, <1>4 DEF RequestSound, RefreshSound
  <1>6. CorrelationSound(w)'
    BY <1>1, <1>2, <1>3 DEF RequestSound, CorrelationSound
  <1>7. RequestSound(w)'
    BY <1>2, <1>3, <1>5, <1>6 DEF RequestSound
  <1> QED
    BY <1>1, <1>7, OneWorker

LEMMA AppendToOne == ASSUME NEW a, NEW b PROVE Append(<<a>>, b) = <<a, b>>
  <1>1. <<a>> \in Seq({a, b}) /\ <<a, b>> \in Seq({a, b})
    OBVIOUS
  <1>2. /\ Append(<<a>>, b) \in Seq({a, b})
        /\ Len(Append(<<a>>, b)) = 2 /\ Len(<<a, b>>) = 2
        /\ \A i \in 1 .. 2 : Append(<<a>>, b)[i] = <<a, b>>[i]
    BY <1>1
  <1> QED
    BY <1>1, <1>2, SeqEqual

\* The first read of a correlation steadies it, and the second keeps it as it is.
LEMMA ReadHistoryKeeps ==
    ASSUME HistoryInv, NEW w \in Workers, ReadHistory(w) PROVE HistoryInv'
  <1> DEFINE r == req[w]
             found == Query(r, r.reads[Len(r.got) + 1])
             last == ~(Len(r.got) + 1 < Len(r.reads))
  <1>1. /\ DOMAIN req' = Workers /\ DOMAIN stage' = Workers
        /\ \A v \in Workers \ {w} : req'[v] = req[v] /\ stage'[v] = stage[v]
        /\ stage[w] = "query"
        /\ stage'[w] = IF ~last THEN "query"
                       ELSE IF r.op = "risk" THEN "readTotal" ELSE "answer"
        /\ UNCHANGED <<documents, raced>> /\ points' = points
    BY DEF HistoryInv, ReadHistory, MoveTo, documents
  <1>2. RequestSound(w)
    BY DEF HistoryInv
  <1>3. /\ DOMAIN req'[w] = RequestFields
        /\ req'[w].op = r.op /\ req'[w].of = r.of
        /\ req'[w].pair = r.pair /\ req'[w].reads = r.reads
        /\ req'[w].got = Append(r.got, found) /\ req'[w].newest = r.newest
        /\ req'[w].steady => r.got = <<>> \/ r.steady
    BY <1>2 DEF HistoryInv, ReadHistory, RequestSound, RequestFields
  <1>4. RefreshSound(w)'
    BY <1>1 DEF RefreshSound
  <1>5. ASSUME r.op = "correlation" PROVE CorrelationSound(w)'
    <2>1. /\ r.reads = r.pair /\ r.pair \in Symbols \X Symbols
          /\ r.got = <<>> \/ r.got = <<r.got[1]>>
          /\ r.got # <<>> /\ r.steady => r.got[1] = AssetHistory(r.pair[1])
      BY <1>1, <1>2, <1>5 DEF RequestSound, CorrelationSound
    <2>2. Len(r.reads) = 2
      BY <2>1
    <2>3. \A s : AssetHistory(s)' = AssetHistory(s)
      BY <1>1, HistoriesStay
    <2>4. CASE r.got = <<>>
      <3>1. Len(r.got) = 0 /\ ~last
        BY <2>2, <2>4
      <3>2. found = AssetHistory(r.pair[1])
        <4>1. found = Query(r, r.pair[1]) /\ r.pair[1] \notin {"month", "year"}
          BY <2>1, <3>1, HistoryAssumption
        <4> QED BY <4>1 DEF Query
      <3>3. req'[w].got = <<found>>
        BY <1>3, <2>4
      <3>4. stage'[w] = "query" /\ <<found>>[1] = found
        BY <1>1, <3>1
      <3> HIDE DEF found, last
      <3> QED
        BY <1>3, <2>1, <2>3, <3>2, <3>3, <3>4 DEF CorrelationSound
    <2>5. CASE r.got # <<>>
      <3> DEFINE first == r.got[1]
      <3>1. r.got = <<first>>
        BY <2>1, <2>5
      <3> HIDE DEF first
      <3>2. Len(r.got) = 1 /\ last
        BY <2>2, <3>1
      <3>3. req'[w].got = <<first, found>> /\ (req'[w].steady => r.steady)
        <4> HIDE DEF found, r
        <4>1. Append(<<first>>, found) = <<first, found>>
          BY AppendToOne
        <4> QED BY <1>3, <2>5, <3>1, <4>1
      <3>4. found = AssetHistory(r.pair[2])
        <4>1. found = Query(r, r.pair[2]) /\ r.pair[2] \notin {"month", "year"}
          BY <2>1, <3>2, HistoryAssumption
        <4> QED BY <4>1 DEF Query
      <3>5. r.steady => first = AssetHistory(r.pair[1])
        BY <2>1, <2>5 DEF first
      <3> QED
        BY <1>1, <1>3, <1>5, <2>1, <2>3, <3>2, <3>3, <3>4, <3>5 DEF CorrelationSound
    <2> QED BY <2>4, <2>5
  <1>6. CorrelationSound(w)'
    BY <1>3, <1>5 DEF CorrelationSound
  <1>7. RequestSound(w)'
    BY <1>2, <1>3, <1>4, <1>6 DEF RequestSound
  <1> QED
    BY <1>1, <1>7, OneWorker
LEMMA ReadTotalKeeps ==
    ASSUME HistoryInv, NEW w \in Workers, ReadTotal(w) PROVE HistoryInv'
  <1>1. /\ DOMAIN req' = Workers /\ DOMAIN stage' = Workers
        /\ \A v \in Workers \ {w} : req'[v] = req[v] /\ stage'[v] = stage[v]
        /\ stage[w] = "readTotal" /\ stage'[w] = "answer" /\ req' = req
        /\ UNCHANGED <<documents, raced>>
    BY DEF HistoryInv, ReadTotal, MoveTo
  <1>2. RequestSound(w)
    BY DEF HistoryInv
  <1>3. RequestSound(w)'
    BY <1>1, <1>2 DEF RequestSound, RefreshSound, CorrelationSound
  <1> QED
    BY <1>1, <1>3, OneWorker

LEMMA BeginDeleteKeeps ==
    ASSUME HistoryInv, NEW w \in Workers, BeginDelete(w) PROVE HistoryInv'
  <1>1. /\ DOMAIN req' = Workers /\ DOMAIN stage' = Workers
        /\ \A v \in Workers \ {w} : req'[v] = req[v] /\ stage'[v] = stage[v]
        /\ stage[w] = "begin" /\ stage'[w] = "commit"
        /\ UNCHANGED <<documents, raced>>
    BY DEF HistoryInv, BeginDelete, MoveTo
  <1>2. RequestSound(w)
    BY DEF HistoryInv
  <1>3. /\ DOMAIN req'[w] = RequestFields
        /\ req'[w].op = req[w].op /\ req'[w].of = req[w].of
        /\ req'[w].pair = req[w].pair /\ req'[w].reads = req[w].reads
        /\ req'[w].newest \in Nat
    BY <1>2 DEF HistoryInv, BeginDelete, RequestSound, RequestFields, PointsSound
  <1>4. RequestSound(w)'
    BY <1>1, <1>2, <1>3 DEF RequestSound, RefreshSound, CorrelationSound
  <1> QED
    BY <1>1, <1>4, OneWorker

-----------------------------------------------------------------------------
\* What a request keeps when another step unsteadies it or overtakes it.
SameRequest(v) ==
    /\ DOMAIN req'[v] = RequestFields
    /\ req'[v].op = req[v].op /\ req'[v].of = req[v].of
    /\ req'[v].pair = req[v].pair /\ req'[v].reads = req[v].reads
    /\ req'[v].got = req[v].got /\ req'[v].total = req[v].total
    /\ req'[v].assets = req[v].assets /\ req'[v].newest = req[v].newest
    /\ req'[v].whole => req[v].whole
    /\ req[v].raced => req'[v].raced
    /\ req'[v].steady => req[v].steady
    /\ stage'[v] = stage[v]

LEMMA UnsteadiedKeepsCorrelation ==
    ASSUME HistoryInv, NEW v \in Workers, SameRequest(v),
           ~req'[v].steady \/ points' = points
    PROVE  CorrelationSound(v)'
  <1>1. CorrelationSound(v)
    BY DEF HistoryInv, RequestSound
  <1>2. points' = points => \A s : AssetHistory(s)' = AssetHistory(s)
    BY HistoriesStay
  <1>3. CASE ~req'[v].steady
    BY <1>1, <1>3 DEF SameRequest, CorrelationSound
  <1>4. CASE points' = points
    BY <1>1, <1>2, <1>4 DEF SameRequest, CorrelationSound
  <1> QED
    BY <1>3, <1>4

LEMMA InsertPointKeeps ==
    ASSUME HistoryInv, NEW w \in Workers, InsertPoint(w) PROVE HistoryInv'
  <1> DEFINE new == Point(lastPoint + 1, req[w].of, req[w].date, req[w].total,
                          req[w].assets, req[w].whole)
  <1>1. RequestSound(w) /\ stage[w] = "insert"
    BY DEF HistoryInv, InsertPoint
  <1>2. /\ portfolio' = portfolio /\ points' = points \union {new}
        /\ lastPoint' = lastPoint + 1
        /\ raced' = IF req[w].raced THEN raced \union {lastPoint + 1} ELSE raced
        /\ DOMAIN req' = Workers /\ req'[w] = NoRequest
        /\ DOMAIN stage' = Workers /\ stage'[w] = "idle"
    BY DEF HistoryInv, InsertPoint, MoveTo
  <1>3. /\ new.of = req[w].of /\ new.id = lastPoint + 1 /\ new.total = req[w].total
        /\ new.assets = req[w].assets /\ new.whole = req[w].whole
    BY DEF Point
  <1> HIDE DEF new
  <1>4. BooksAreKept'
    BY <1>2 DEF HistoryInv, BooksAreKept
  <1>5. PointsSound'
    BY <1>1, <1>2, <1>3, FS_AddElement DEF HistoryInv, PointsSound, RequestSound
  <1>6. TornOnlyIfRaced'
    <2>1. /\ req[w].whole => req[w].total = TotalOf(req[w].assets)
          /\ portfolio[req[w].of].live \/ req[w].raced
      BY <1>1 DEF RequestSound, RefreshSound
    <2> QED
      BY <1>2, <1>3, <2>1 DEF HistoryInv, TornOnlyIfRaced
  <1>7. ASSUME NEW v \in Workers PROVE RequestSound(v)'
    <2>1. CASE v = w
      BY <1>2, <2>1, IdleSound
    <2>2. CASE v # w
      <3>1. RequestSound(v)
        BY DEF HistoryInv
      <3>2. SameRequest(v) /\ ~req'[v].steady
        BY <2>2, <3>1 DEF HistoryInv, InsertPoint, MoveTo, RequestSound, RequestFields,
                          SameRequest
      <3>3. CorrelationSound(v)'
        BY <3>2, UnsteadiedKeepsCorrelation
      <3>4. RefreshSound(v)'
        BY <1>2, <3>1, <3>2 DEF RequestSound, RefreshSound, SameRequest
      <3> QED
        BY <3>1, <3>2, <3>3, <3>4 DEF RequestSound, SameRequest
    <2> QED BY <2>1, <2>2
  <1> QED
    BY <1>2, <1>4, <1>5, <1>6, <1>7 DEF HistoryInv

\* A request that an update of portfolio p leaves sound.
LEMMA OvertakenKeepsRefresh ==
    ASSUME HistoryInv, NEW v \in Workers, NEW p \in Portfolios, SameRequest(v),
           \A q \in Portfolios \ {p} : portfolio'[q] = portfolio[q],
           stage[v] = "readAssets" /\ req[v].op = "refresh" /\ req[v].of = p =>
               ~req'[v].whole,
           \/ portfolio'[p].live
           \/ stage[v] \in {"readAssets", "insert"} /\ req[v].op = "refresh"
                  /\ req[v].of = p => req'[v].raced
    PROVE  RefreshSound(v)'
  <1>1. RequestSound(v)
    BY DEF HistoryInv
  <1>2. CASE req[v].of = p
    BY <1>1, <1>2 DEF RequestSound, RefreshSound, SameRequest
  <1>3. CASE req[v].of # p
    BY <1>1, <1>3 DEF RequestSound, RefreshSound, SameRequest
  <1> QED
    BY <1>2, <1>3

LEMMA TradeKeeps ==
    ASSUME HistoryInv, NEW p \in Portfolios, Trade(p) PROVE HistoryInv'
  <1>1. PICK h \in Holdings :
          portfolio' = [portfolio EXCEPT ![p].total = TotalOf(h), ![p].assets = h]
    BY DEF Trade
  <1>2. /\ DOMAIN portfolio' = Portfolios
        /\ \A q \in Portfolios \ {p} : portfolio'[q] = portfolio[q]
        /\ DOMAIN portfolio'[p] = {"live", "total", "assets"}
        /\ portfolio'[p].live = portfolio[p].live
        /\ portfolio'[p].total = TotalOf(h) /\ portfolio'[p].assets = h
    BY <1>1 DEF HistoryInv, BooksAreKept
  <1>3. /\ UNCHANGED <<points, lastPoint, raced, stage>> /\ portfolio[p].live
        /\ req' = Overtaken(p)
    BY DEF Trade
  <1>4. BooksAreKept'
    BY <1>2 DEF HistoryInv, BooksAreKept
  <1>5. PointsSound' /\ TornOnlyIfRaced'
    BY <1>2, <1>3 DEF HistoryInv, PointsSound, TornOnlyIfRaced
  <1>6. ASSUME NEW v \in Workers PROVE RequestSound(v)'
    <2>1. RequestSound(v)
      BY DEF HistoryInv
    <2>2. /\ SameRequest(v)
          /\ stage[v] = "readAssets" /\ req[v].op = "refresh" /\ req[v].of = p =>
               ~req'[v].whole
      BY <1>3, <2>1 DEF Overtaken, RequestSound, RequestFields, SameRequest
    <2>3. RefreshSound(v)'
      BY <1>2, <1>3, <2>2, OvertakenKeepsRefresh
    <2>4. CorrelationSound(v)'
      BY <1>3, <2>2, UnsteadiedKeepsCorrelation
    <2> QED
      BY <2>1, <2>2, <2>3, <2>4 DEF RequestSound, SameRequest
  <1> QED
    BY <1>3, <1>4, <1>5, <1>6 DEF HistoryInv, Overtaken

LEMMA CommitKeeps ==
    ASSUME HistoryInv, NEW w \in Workers, Commit(w) PROVE HistoryInv'
  <1> DEFINE p == req[w].of
             unsteady(v) ==
               [Overtaken(p)[v] EXCEPT !.steady = FALSE,
                  !.raced = @ \/ (/\ req[v].op = "refresh" /\ req[v].of = p
                                  /\ stage[v] \in {"readAssets", "insert"})]
  <1>1. p \in Portfolios /\ req[w].newest \in Nat
    BY DEF HistoryInv, RequestSound
  <1>2. /\ portfolio' = [portfolio EXCEPT ![p] =
                           [live |-> FALSE, total |-> 0, assets |-> Nothing]]
        /\ points' = points \ Doomed(w) /\ lastPoint' = lastPoint
        /\ raced' = raced \union {t.id : t \in {u \in PointsOf(p) : u.id > req[w].newest}}
        /\ req' = [v \in Workers |-> IF v = w THEN NoRequest ELSE unsteady(v)]
        /\ stage' = [stage EXCEPT ![w] = "idle"]
    BY DEF Commit, MoveTo
  <1>3. /\ DOMAIN portfolio' = Portfolios
        /\ \A q \in Portfolios \ {p} : portfolio'[q] = portfolio[q]
        /\ DOMAIN portfolio'[p] = {"live", "total", "assets"}
        /\ ~portfolio'[p].live
    BY <1>1, <1>2 DEF HistoryInv, BooksAreKept
  <1>4. BooksAreKept'
    BY <1>3 DEF HistoryInv, BooksAreKept
  <1>5. PointsSound'
    BY <1>2, FS_Subset DEF HistoryInv, PointsSound
  <1>6. TornOnlyIfRaced'
    <2>1. ASSUME NEW t \in points' PROVE t \in points /\ (t.of = p => t.id \in raced')
      <3>1. t \in points /\ t \notin Doomed(w) /\ t.id \in Nat
        BY <1>2 DEF HistoryInv, PointsSound
      <3>2. t.of = p => t \in PointsOf(p) /\ t.id > req[w].newest
        BY <1>1, <3>1 DEF Doomed, PointsOf
      <3> QED BY <1>2, <3>1, <3>2
    <2>2. raced \subseteq raced'
      BY <1>2
    <2> QED
      BY <1>3, <2>1, <2>2 DEF HistoryInv, PointsSound, TornOnlyIfRaced
  <1>7. ASSUME NEW v \in Workers PROVE RequestSound(v)'
    <2>1. CASE v = w
      <3>1. req'[w] = NoRequest /\ stage'[w] = "idle"
        BY <1>2 DEF HistoryInv
      <3> QED BY <2>1, <3>1, IdleSound
    <2>2. CASE v # w
      <3>1. RequestSound(v)
        BY DEF HistoryInv
      <3>2. req'[v] = unsteady(v) /\ stage'[v] = stage[v]
        BY <1>2, <2>2 DEF HistoryInv
      <3>3. /\ SameRequest(v) /\ ~req'[v].steady
            /\ stage[v] = "readAssets" /\ req[v].op = "refresh" /\ req[v].of = p =>
                 ~req'[v].whole
            /\ stage[v] \in {"readAssets", "insert"} /\ req[v].op = "refresh"
                 /\ req[v].of = p => req'[v].raced
        BY <3>1, <3>2 DEF Overtaken, RequestSound, RequestFields, SameRequest
      <3>4. RefreshSound(v)'
        BY <1>1, <1>3, <3>3, OvertakenKeepsRefresh
      <3>5. CorrelationSound(v)'
        BY <3>3, UnsteadiedKeepsCorrelation
      <3> QED
        BY <3>1, <3>3, <3>4, <3>5 DEF RequestSound, SameRequest
    <2> QED BY <2>1, <2>2
  <1> QED
    BY <1>2, <1>4, <1>5, <1>6, <1>7 DEF HistoryInv

LEMMA TickKeeps == ASSUME HistoryInv, Tick PROVE HistoryInv'
  <1>1. UNCHANGED <<portfolio, points, lastPoint, raced, stage>>
    BY DEF Tick, documents
  <1>2. BooksAreKept' /\ PointsSound' /\ TornOnlyIfRaced'
    BY <1>1 DEF HistoryInv, BooksAreKept, PointsSound, TornOnlyIfRaced
  <1>3. ASSUME NEW v \in Workers PROVE RequestSound(v)'
    <2>1. RequestSound(v)
      BY DEF HistoryInv
    <2>2. SameRequest(v) /\ req'[v].whole = req[v].whole /\ ~req'[v].steady
      BY <1>1, <2>1 DEF Tick, RequestSound, RequestFields, SameRequest
    <2>3. RefreshSound(v)'
      BY <1>1, <2>1, <2>2 DEF RequestSound, RefreshSound, SameRequest
    <2>4. CorrelationSound(v)'
      BY <2>2, UnsteadiedKeepsCorrelation
    <2> QED
      BY <2>1, <2>2, <2>3, <2>4 DEF RequestSound, SameRequest
  <1> QED
    BY <1>1, <1>2, <1>3 DEF HistoryInv, Tick

-----------------------------------------------------------------------------
LEMMA HistoryInitSound == HistoryInit => HistoryInv
  <1> SUFFICES ASSUME HistoryInit PROVE HistoryInv
    OBVIOUS
  <1>1. PICK dates \in SUBSET {-ago : ago \in Past} :
          \E made \in [dates -> Portfolios \X PastHoldings] :
             /\ points = {Point(Cardinality({e \in dates : e <= d}), made[d][1], d,
                                TotalOf(made[d][2]), made[d][2], TRUE) : d \in dates}
             /\ lastPoint = Cardinality(dates)
    BY DEF HistoryInit
  <1>2. PICK made \in [dates -> Portfolios \X PastHoldings] :
             /\ points = {Point(Cardinality({e \in dates : e <= d}), made[d][1], d,
                                TotalOf(made[d][2]), made[d][2], TRUE) : d \in dates}
             /\ lastPoint = Cardinality(dates)
    BY <1>1
  <1>3. IsFiniteSet(dates)
    <2> DEFINE back == [ago \in Past |-> -ago]
    <2>1. back \in Surjection(Past, {-ago : ago \in Past})
      BY DEF Surjection
    <2>2. IsFiniteSet({-ago : ago \in Past})
      BY <2>1, FS_Surjection, HistoryAssumption
    <2> QED BY <2>2, FS_Subset
  <1> DEFINE point == [d \in dates |->
                 Point(Cardinality({e \in dates : e <= d}), made[d][1], d,
                       TotalOf(made[d][2]), made[d][2], TRUE)]
  <1>4. points = {point[d] : d \in dates}
    BY <1>2
  <1>5. ASSUME NEW d \in dates
        PROVE  /\ point[d].of \in Portfolios /\ point[d].id \in Nat
               /\ point[d].total = TotalOf(point[d].assets)
    <2>1. Cardinality({e \in dates : e <= d}) \in Nat
      BY <1>3, FS_Subset, FS_CardinalityType
    <2>2. made[d][1] \in Portfolios
      OBVIOUS
    <2> QED BY <2>1, <2>2 DEF Point
  <1>6. IsFiniteSet(points)
    <2>1. point \in Surjection(dates, points)
      BY <1>4 DEF Surjection
    <2> QED BY <1>3, <2>1, FS_Surjection
  <1>7. PointsSound
    BY <1>2, <1>3, <1>4, <1>5, <1>6, FS_CardinalityType DEF PointsSound
  <1>8. BooksAreKept /\ \A p \in Portfolios : portfolio[p].live
    BY DEF HistoryInit, BooksAreKept
  <1>9. TornOnlyIfRaced
    BY <1>4, <1>5, <1>8 DEF TornOnlyIfRaced
  <1>10. /\ DOMAIN req = Workers /\ DOMAIN stage = Workers
         /\ \A w \in Workers : req[w] = NoRequest /\ stage[w] = "idle"
    BY DEF HistoryInit
  <1>11. ASSUME NEW w \in Workers PROVE RequestSound(w)
    <2>1. Nobody \in Portfolios
      BY HistoryAssumption DEF Nobody
    <2> QED
      BY <1>10, <2>1 DEF RequestSound, RefreshSound, CorrelationSound, NoRequest,
                         RequestFields
  <1> QED
    BY <1>7, <1>8, <1>9, <1>10, <1>11 DEF HistoryInv

LEMMA HistoryStutters == ASSUME HistoryInv, UNCHANGED historyVars PROVE HistoryInv'
  <1>1. UNCHANGED <<portfolio, points, lastPoint, raced, stage, req>>
    BY DEF historyVars
  <1>2. BooksAreKept' /\ PointsSound' /\ TornOnlyIfRaced'
    BY <1>1 DEF HistoryInv, BooksAreKept, PointsSound, TornOnlyIfRaced
  <1>3. \A s : AssetHistory(s)' = AssetHistory(s)
    BY <1>1, HistoriesStay
  <1>4. ASSUME NEW w \in Workers PROVE RequestSound(w)'
    BY <1>1, <1>3 DEF HistoryInv, RequestSound, RefreshSound, CorrelationSound
  <1> QED
    BY <1>1, <1>2, <1>4 DEF HistoryInv

LEMMA HistoryStep == HistoryInv /\ [HistoryNext]_historyVars => HistoryInv'
  <1> SUFFICES ASSUME HistoryInv, [HistoryNext]_historyVars PROVE HistoryInv'
    OBVIOUS
  <1>1. CASE Tick
    BY <1>1, TickKeeps
  <1>2. ASSUME NEW p \in Portfolios, Trade(p) PROVE HistoryInv'
    BY <1>2, TradeKeeps
  <1>3. ASSUME NEW w \in Workers, Start(w) PROVE HistoryInv'
    BY <1>3, StartKeeps
  <1>4. ASSUME NEW w \in Workers, ReadPortfolio(w) PROVE HistoryInv'
    BY <1>4, ReadPortfolioKeeps
  <1>5. ASSUME NEW w \in Workers, ReadAssets(w) PROVE HistoryInv'
    BY <1>5, ReadAssetsKeeps
  <1>6. ASSUME NEW w \in Workers, ReadHistory(w) PROVE HistoryInv'
    BY <1>6, ReadHistoryKeeps
  <1>7. ASSUME NEW w \in Workers, ReadTotal(w) PROVE HistoryInv'
    BY <1>7, ReadTotalKeeps
  <1>8. ASSUME NEW w \in Workers, Answer(w) PROVE HistoryInv'
    BY <1>8, DoneKeeps DEF Answer
  <1>9. ASSUME NEW w \in Workers, InsertPoint(w) PROVE HistoryInv'
    BY <1>9, InsertPointKeeps
  <1>10. ASSUME NEW w \in Workers, BeginDelete(w) PROVE HistoryInv'
    BY <1>10, BeginDeleteKeeps
  <1>11. ASSUME NEW w \in Workers, Commit(w) PROVE HistoryInv'
    BY <1>11, CommitKeeps
  <1>12. ASSUME NEW w \in Workers, FailRequest(w) PROVE HistoryInv'
    BY <1>12, DoneKeeps DEF FailRequest
  <1>13. CASE UNCHANGED historyVars
    BY <1>13, HistoryStutters
  <1> QED
    BY <1>1, <1>2, <1>3, <1>4, <1>5, <1>6, <1>7, <1>8, <1>9, <1>10, <1>11, <1>12, <1>13
       DEF HistoryNext

(* updatePortfolioHistory, for any number of requests, portfolios and points: the   *)
(* total of the point it creates is the sum of its assets unless another commit     *)
(* came between its two queries, and the portfolio of a point exists unless         *)
(* deletePortfolio overlapped the insertion.                                        *)
THEOREM PointsTornOnlyByRaces == HistorySpec => []TornOnlyIfRaced
  <1>1. HistoryInv => TornOnlyIfRaced
    BY DEF HistoryInv
  <1> QED
    BY <1>1, HistoryInitSound, HistoryStep, PTL DEF HistorySpec

-----------------------------------------------------------------------------
\* As many points as there are: two histories of the same points line up.
LEMMA HistoriesLineUp ==
    ASSUME PointsSound, NEW s, NEW t,
           \A u \in points : {s, t} \subseteq DOMAIN u.assets
    PROVE  LET h1 == AssetHistory(s)
               h2 == AssetHistory(t)
           IN  /\ Len(h1) \in Nat /\ Len(h2) = Len(h1)
               /\ DOMAIN h1 = 1 .. Len(h1) /\ DOMAIN h2 = 1 .. Len(h1)
               /\ \A i \in 1 .. Len(h1) : h1[i].date = h2[i].date
  <1> DEFINE n == Cardinality(points)
             h == ByDate(points)
  <1>1. n \in Nat
    BY FS_CardinalityType DEF PointsSound
  <1>2. /\ {u \in points : s \in DOMAIN u.assets} = points
        /\ {u \in points : t \in DOMAIN u.assets} = points
    OBVIOUS
  <1>3. DOMAIN h = 1 .. n
    BY DEF ByDate
  <1> HIDE DEF n, h
  <1>4. /\ AssetHistory(s) = [i \in 1 .. n |-> [date |-> h[i].date,
                                                price |-> h[i].assets[s]]]
        /\ AssetHistory(t) = [i \in 1 .. n |-> [date |-> h[i].date,
                                                price |-> h[i].assets[t]]]
    BY <1>2, <1>3 DEF AssetHistory, h
  <1> QED
    BY <1>1, <1>4

(* getCorrelationMatrix, for any number of requests, symbols and points: two assets *)
(* that every point holds have returns of the same point paired, unless a point     *)
(* came or went between the two queries, and swapping the assets changes nothing.   *)
THEOREM CorrelationsArePaired == HistorySpec => []ReturnsArePaired
  <1>1. ASSUME HistoryInv PROVE ReturnsArePaired
    <2> SUFFICES ASSUME NEW w \in Workers,
                        stage[w] = "answer", req[w].op = "correlation", req[w].steady,
                        \A t \in points : ToSet(req[w].pair) \subseteq DOMAIN t.assets
                 PROVE  LET h1 == req[w].got[1]
                            h2 == req[w].got[2]
                        IN  /\ Len(h1) = Len(h2)
                            /\ \A d \in Pairs(h1, h2) : d[1] = d[2]
                            /\ Correlated(h1, h2) <=> Correlated(h2, h1)
      BY DEF ReturnsArePaired
    <2> DEFINE pair == req[w].pair
               h1 == AssetHistory(pair[1])
               h2 == AssetHistory(pair[2])
    <2>1. pair \in Symbols \X Symbols /\ req[w].got[1] = h1 /\ req[w].got[2] = h2
      BY <1>1 DEF HistoryInv, RequestSound, CorrelationSound
    <2>2. {pair[1], pair[2]} \subseteq ToSet(pair)
      BY <2>1 DEF ToSet
    <2>3. PointsSound /\ \A u \in points : {pair[1], pair[2]} \subseteq DOMAIN u.assets
      BY <1>1, <2>2 DEF HistoryInv
    <2>4. /\ Len(h1) \in Nat /\ Len(h2) = Len(h1)
          /\ DOMAIN h1 = 1 .. Len(h1) /\ DOMAIN h2 = 1 .. Len(h1)
          /\ \A i \in 1 .. Len(h1) : h1[i].date = h2[i].date
      BY <2>3, HistoriesLineUp
    <2> HIDE DEF pair, h1, h2
    <2>5. \A d \in Pairs(h1, h2) : d[1] = d[2]
      BY <2>4 DEF Pairs
    <2>6. Correlated(h1, h2) <=> Correlated(h2, h1)
      BY <2>4 DEF Correlated
    <2> QED
      BY <2>1, <2>4, <2>5, <2>6
  <1> QED
    BY <1>1, HistoryInitSound, HistoryStep, PTL DEF HistorySpec

-----------------------------------------------------------------------------
(* Points in the order of their dates *)

\* Points of which no two are of the same instant and the same id.
Ordered(S) ==
    /\ IsFiniteSet(S)
    /\ \A t \in S : t.date \in Int /\ t.id \in Int
    /\ \A t, u \in S : t.date = u.date /\ t.id = u.id => t = u

\* The points before t, and how many they are.
Earlier(S, t) == {u \in S : Before(u, t)}
Rank(S, t) == Cardinality(Earlier(S, t))

\* Some of the points are ordered too.
LEMMA PartIsOrdered ==
    ASSUME NEW S, Ordered(S), NEW M \in SUBSET S PROVE Ordered(M)
<1>1. IsFiniteSet(M)
  BY FS_Subset DEF Ordered
<1> QED BY <1>1 DEF Ordered

\* They are in one order.
LEMMA BeforeIsAnOrder ==
    ASSUME NEW S, Ordered(S), NEW t \in S, NEW u \in S
    PROVE  /\ ~Before(t, t)
           /\ Before(t, u) \/ Before(u, t) \/ t = u
           /\ \A v \in S : Before(v, t) /\ Before(t, u) => Before(v, u)
  BY DEF Ordered, Before

\* A later point has a higher rank.
LEMMA RankRises ==
    ASSUME NEW S, Ordered(S), NEW t \in S
    PROVE  /\ Rank(S, t) \in 0 .. Cardinality(S) - 1
           /\ \A u \in S : Before(t, u) => Rank(S, t) < Rank(S, u)
<1>1. ASSUME NEW u \in S
      PROVE  IsFiniteSet(Earlier(S, u)) /\ Rank(S, u) \in Nat /\ Earlier(S, u) \subseteq S
  <2>1. Earlier(S, u) \subseteq S
    BY DEF Earlier
  <2>2. IsFiniteSet(Earlier(S, u))
    BY <2>1, FS_Subset DEF Ordered
  <2> QED BY <2>1, <2>2, FS_CardinalityType DEF Rank
<1>2. Rank(S, t) < Cardinality(S)
  <2>1. Earlier(S, t) # S
    BY BeforeIsAnOrder DEF Earlier
  <2>2. Rank(S, t) <= Cardinality(S) /\ Rank(S, t) # Cardinality(S) /\ IsFiniteSet(S)
    BY <1>1, <2>1, FS_Subset DEF Rank, Ordered
  <2>3. Cardinality(S) \in Nat
    BY <2>2, FS_CardinalityType
  <2> QED BY <1>1, <2>2, <2>3
<1>3. ASSUME NEW u \in S, Before(t, u) PROVE Rank(S, t) < Rank(S, u)
  <2>1. Earlier(S, t) \subseteq Earlier(S, u)
    BY <1>3, BeforeIsAnOrder DEF Earlier
  <2>2. Earlier(S, t) # Earlier(S, u)
    BY <1>3, BeforeIsAnOrder DEF Earlier
  <2>3. Rank(S, t) <= Rank(S, u) /\ Rank(S, t) # Rank(S, u)
    BY <1>1, <2>1, <2>2, FS_Subset DEF Rank
  <2> QED BY <1>1, <2>3
<1>4. Cardinality(S) \in Nat
  BY FS_CardinalityType DEF Ordered
<1> QED BY <1>1, <1>2, <1>3, <1>4

\* No two points have the same rank.
LEMMA RankTells ==
    ASSUME NEW S, Ordered(S), NEW t \in S, NEW u \in S, Rank(S, t) = Rank(S, u)
    PROVE  t = u
<1>1. Rank(S, t) \in Int /\ Rank(S, u) \in Int
  BY RankRises
<1>2. ~Before(t, u) /\ ~Before(u, t)
  BY <1>1, RankRises
<1> QED BY <1>2, BeforeIsAnOrder

\* Each rank is that of a point.
LEMMA EveryRank ==
    ASSUME NEW S, Ordered(S), NEW i \in 1 .. Cardinality(S)
    PROVE  \E t \in S : Rank(S, t) = i - 1
<1> DEFINE n == Cardinality(S)
           rank == [t \in S |-> Rank(S, t)]
<1>1. n \in Nat
  BY FS_CardinalityType DEF Ordered
<1>2. rank \in Injection(S, 0 .. n - 1)
  <2>1. rank \in [S -> 0 .. n - 1]
    BY RankRises
  <2>2. \A t, u \in S : rank[t] = rank[u] => t = u
    BY RankTells
  <2> HIDE DEF rank, n
  <2> QED BY <2>1, <2>2 DEF Injection, IsInjective
<1>3. IsFiniteSet(0 .. n - 1) /\ Cardinality(0 .. n - 1) = n
  <2>1. 0 \in Int /\ n - 1 \in Int
    BY <1>1
  <2>2. IsFiniteSet(0 .. n - 1)
        /\ Cardinality(0 .. n - 1) = IF 0 > n - 1 THEN 0 ELSE (n - 1) - 0 + 1
    BY <2>1, FS_Interval
  <2> HIDE DEF n
  <2> QED BY <1>1, <2>2
<1>4. rank \in Surjection(S, 0 .. n - 1)
  BY <1>2, <1>3, FS_Injection
<1>5. i - 1 \in 0 .. n - 1
  BY <1>1
<1>6. \E t \in S : rank[t] = i - 1
  <2> HIDE DEF rank, n
  <2> QED BY <1>4, <1>5 DEF Surjection
<1> QED BY <1>6

\* A query returns each point at its rank.
LEMMA ByDateIs ==
    ASSUME NEW S, Ordered(S)
    PROVE  /\ Cardinality(S) \in Nat
           /\ DOMAIN ByDate(S) = 1 .. Cardinality(S)
           /\ ByDate(S) \in [1 .. Cardinality(S) -> S]
           /\ \A i \in 1 .. Cardinality(S), t \in S : Rank(S, t) = i - 1 => ByDate(S)[i] = t
<1>1. Cardinality(S) \in Nat
  BY FS_CardinalityType DEF Ordered
<1>2. ByDate(S) = [i \in 1 .. Cardinality(S) |-> CHOOSE t \in S : Rank(S, t) = i - 1]
  BY DEF ByDate, Rank, Earlier
<1>3. ASSUME NEW i \in 1 .. Cardinality(S)
      PROVE  ByDate(S)[i] \in S /\ Rank(S, ByDate(S)[i]) = i - 1
  BY <1>2, EveryRank
<1>4. ASSUME NEW i \in 1 .. Cardinality(S), NEW t \in S, Rank(S, t) = i - 1
      PROVE  ByDate(S)[i] = t
  BY <1>3, <1>4, RankTells
<1> QED BY <1>1, <1>2, <1>3, <1>4

\* The later ones of some points are the last ones of them.
LEMMA LaterAreLast ==
    ASSUME NEW S, Ordered(S), NEW M \in SUBSET S, \A t \in M, u \in S \ M : Before(u, t)
    PROVE  \E k \in Nat :
              /\ Cardinality(S) = k + Cardinality(M)
              /\ \A i \in 1 .. Cardinality(M) : ByDate(M)[i] = ByDate(S)[k + i]
<1> DEFINE R == S \ M
           k == Cardinality(R)
           m == Cardinality(M)
           n == Cardinality(S)
<1>1. IsFiniteSet(M) /\ IsFiniteSet(R) /\ Ordered(M)
  BY FS_Subset, PartIsOrdered DEF Ordered
<1>2. k \in Nat /\ m \in Nat /\ n \in Nat /\ n = k + m
  <2>1. S = M \union R /\ M \intersect R = {}
    OBVIOUS
  <2>2. n = m + k - Cardinality({})
    <3> HIDE DEF R
    <3> QED BY <1>1, <2>1, FS_Union
  <2>3. k \in Nat /\ m \in Nat /\ Cardinality({}) = 0
    BY <1>1, FS_CardinalityType, FS_EmptySet
  <2> HIDE DEF k, m, n
  <2> QED BY <2>2, <2>3
<1>3. ASSUME NEW t \in M PROVE Rank(S, t) = k + Rank(M, t) /\ Rank(M, t) \in Int
  <2>1. /\ Earlier(S, t) = R \union Earlier(M, t) /\ R \intersect Earlier(M, t) = {}
        /\ Earlier(M, t) \subseteq M
    BY DEF Earlier
  <2>2. IsFiniteSet(Earlier(M, t))
    BY <1>1, <2>1, FS_Subset
  <2>3. Cardinality(Earlier(S, t)) = k + Cardinality(Earlier(M, t)) - Cardinality({})
    <3> HIDE DEF R
    <3> QED BY <1>1, <2>1, <2>2, FS_Union
  <2>4. Cardinality(Earlier(M, t)) \in Nat /\ Cardinality({}) = 0
    BY <2>2, FS_CardinalityType, FS_EmptySet
  <2> HIDE DEF k
  <2> QED BY <1>2, <2>3, <2>4 DEF Rank
<1>4. ASSUME NEW i \in 1 .. m PROVE ByDate(M)[i] = ByDate(S)[k + i]
  <2>1. PICK t \in M : Rank(M, t) = i - 1
    BY <1>1, EveryRank
  <2>2. ByDate(M)[i] = t
    BY <1>1, <2>1, ByDateIs
  <2>3. Rank(S, t) = (k + i) - 1 /\ k + i \in 1 .. n
    <3> HIDE DEF k, m, n
    <3> QED BY <1>2, <1>3, <2>1
  <2>4. ByDate(S)[k + i] = t
    <3> HIDE DEF k
    <3> QED BY <2>3, ByDateIs
  <2> QED BY <2>2, <2>4
<1> QED BY <1>2, <1>4

-----------------------------------------------------------------------------
(* The inductive invariant of the figures *)

\* Points are told apart by their time and id, and have totals.
PointsDated ==
    /\ Ordered(points)
    /\ now \in Nat
    /\ \A t \in points : t.total \in Nat /\ t.id <= lastPoint

\* A portfolio holds what a portfolio may hold, and without one there is no total.
HoldingsKept ==
    \A p \in Portfolios :
        /\ portfolio[p].total \in Nat
        /\ portfolio[p].total > 0 => portfolio[p].live
        /\ portfolio[p].live => portfolio[p].assets \in Holdings

\* A health report or risk analysis has read a history for each query so far, in the order
\* of its queries; a steady health report has read what it would read now.
AnswerSound(w) ==
    LET r == req[w]
        n == Len(r.got)
    IN  r.op \in {"health", "risk"} =>
          /\ r.got \in Seq(ToSet(r.got))
          /\ \A i \in 1 .. n : Totals(r.got[i]) \in Seq(Nat)
          /\ stage[w] # "idle" => r.reads = Reads(r)
          /\ stage[w] \in {"readPortfolio", "readAssets"} => n = 0
          /\ stage[w] = "query" => n < Len(r.reads)
          /\ stage[w] \in {"readTotal", "answer"} => n = Len(r.reads)
          /\ r.steady => \A i \in 1 .. n : r.got[i] = Query(r, r.reads[i])

\* A request has figures, and an answer under way is sound.
RequestFigured(w) ==
    /\ req[w].total \in Nat
    /\ req[w].date \in Int
    /\ AnswerSound(w)

\* What makes the figures agree: it is inductive together with HistoryInv.
FiguresInv ==
    /\ PointsDated
    /\ HoldingsKept
    /\ \A w \in Workers : RequestFigured(w)

-----------------------------------------------------------------------------
\* A query of points.
LEMMA WindowIs ==
    ASSUME PointsDated, NEW p, NEW days
    PROVE  LET S == {t \in PointsOf(p) : now - t.date <= days * TicksPerDay}
           IN  /\ S \subseteq points /\ Ordered(S)
               /\ Cardinality(S) \in Nat
               /\ Window(p, days) = ByDate(S)
               /\ Window(p, days) \in [1 .. Cardinality(S) -> S]
               /\ Window(p, days) \in Seq(points)
               /\ Totals(Window(p, days)) \in [1 .. Cardinality(S) -> Nat]
               /\ Dates(Window(p, days)) \in [1 .. Cardinality(S) -> Int]
<1> DEFINE S == {t \in PointsOf(p) : now - t.date <= days * TicksPerDay}
           h == Window(p, days)
           n == Cardinality(S)
<1>1. S \subseteq points
  BY DEF PointsOf
<1>2. Window(p, days) = ByDate(S)
  BY DEF Window
<1> HIDE DEF S, h
<1>3. Ordered(S)
  BY <1>1, PartIsOrdered DEF PointsDated
<1>4. n \in Nat /\ h \in [1 .. n -> S]
  BY <1>2, <1>3, ByDateIs DEF h
<1> HIDE DEF n
<1>5. h \in Seq(points)
  BY <1>1, <1>4
<1>6. \A t \in S : t.total \in Nat /\ t.date \in Int
  BY <1>1 DEF PointsDated, Ordered
<1>7. Totals(h) \in [1 .. n -> Nat] /\ Dates(h) \in [1 .. n -> Int]
  BY <1>4, <1>6 DEF Totals, Dates
<1> QED BY <1>1, <1>2, <1>3, <1>4, <1>5, <1>7 DEF S, h, n

\* The month is the end of the year.
LEMMA MonthIsLast ==
    ASSUME PointsDated, NEW p
    PROVE  LET y == Totals(Window(p, YearDays))
               n == Len(Window(p, YearDays))
           IN  \E skipped \in 0 .. n : Totals(Window(p, MonthDays)) = LastOf(y, n, skipped)
<1> DEFINE Y == {t \in PointsOf(p) : now - t.date <= YearDays * TicksPerDay}
           M == {t \in PointsOf(p) : now - t.date <= MonthDays * TicksPerDay}
           year == Window(p, YearDays)
           month == Window(p, MonthDays)
<1>1. /\ Ordered(Y) /\ Ordered(M) /\ Y \subseteq points /\ M \subseteq points
      /\ year = ByDate(Y) /\ year \in [1 .. Cardinality(Y) -> Y] /\ Cardinality(Y) \in Nat
      /\ month = ByDate(M) /\ month \in [1 .. Cardinality(M) -> M] /\ Cardinality(M) \in Nat
  BY WindowIs
<1>2. MonthDays * TicksPerDay <= YearDays * TicksPerDay
  <2>1. MonthDays \in Nat /\ YearDays \in Nat /\ MonthDays <= YearDays /\ TicksPerDay \in Nat
    BY HistoryAssumption, AnalyticsAssumption
  <2> QED BY <2>1
<1>3. MonthDays * TicksPerDay \in Int /\ YearDays * TicksPerDay \in Int
  BY HistoryAssumption, AnalyticsAssumption
<1>4. \A t \in points : t.date \in Int /\ now - t.date \in Int
  BY DEF PointsDated, Ordered
<1>5. M \in SUBSET Y
  BY <1>1, <1>2, <1>3, <1>4
<1>6. ASSUME NEW t \in M, NEW u \in Y \ M PROVE Before(u, t)
  <2>1. now - t.date <= MonthDays * TicksPerDay /\ ~(now - u.date <= MonthDays * TicksPerDay)
    OBVIOUS
  <2>2. u.date < t.date
    BY <1>1, <1>3, <1>4, <2>1 DEF PointsDated
  <2> QED BY <2>2 DEF Before
<1> HIDE DEF Y, M
<1>7. PICK k \in Nat :
              /\ Cardinality(Y) = k + Cardinality(M)
              /\ \A i \in 1 .. Cardinality(M) : ByDate(M)[i] = ByDate(Y)[k + i]
  BY <1>1, <1>5, <1>6, LaterAreLast
<1> DEFINE n == Len(year)
           m == Cardinality(M)
<1>8. n = k + m /\ m = n - k /\ k \in 0 .. n /\ n \in Nat /\ year \in [1 .. n -> Y]
  BY <1>1, <1>7
<1>9. \A i \in 1 .. n - k : k + i \in 1 .. n /\ month[i].total = year[k + i].total
  BY <1>1, <1>7, <1>8
<1> HIDE DEF n, year, month, m
<1>10. Totals(month) = LastOf(Totals(year), n, k)
  <2>1. DOMAIN month = 1 .. n - k /\ DOMAIN year = 1 .. n
    BY <1>1, <1>8 DEF m
  <2>2. Totals(month) = [i \in 1 .. n - k |-> month[i].total]
    BY <2>1 DEF Totals
  <2>3. \A j \in 1 .. n : Totals(year)[j] = year[j].total
    BY <2>1 DEF Totals
  <2>4. LastOf(Totals(year), n, k) = [i \in 1 .. n - k |-> Totals(year)[k + i]]
    BY DEF LastOf
  <2> QED BY <1>9, <2>2, <2>3, <2>4
<1> QED BY <1>8, <1>10 DEF n, year, month

-----------------------------------------------------------------------------
(* Steps that leave the figures as they are *)

\* What a step of another request leaves of a request.
SameFigures(v) ==
    /\ req'[v].op = req[v].op /\ req'[v].of = req[v].of
    /\ req'[v].pair = req[v].pair /\ req'[v].reads = req[v].reads
    /\ req'[v].got = req[v].got
    /\ req'[v].total = req[v].total /\ req'[v].date = req[v].date
    /\ req'[v].steady => req[v].steady
    /\ stage'[v] = stage[v]

\* A query answers the same while the points and the time are the same.
LEMMA QueriesStay ==
    ASSUME points' = points, now' = now, NEW v, req'[v].of = req[v].of, NEW what
    PROVE  Query(req[v], what)' = Query(req[v], what)
<1>1. AssetHistory(what)' = AssetHistory(what)
  BY HistoriesStay
<1>2. \A days : Window(req[v].of, days)' = Window(req[v].of, days)
  BY DEF Window, PointsOf
<1> QED BY <1>1, <1>2 DEF Query

\* A step of another leaves a request figured if it changes no points and no time, or if
\* the request is told that its histories are no longer those of one moment.
LEMMA FiguresStay ==
    ASSUME NEW v, RequestFigured(v), SameFigures(v),
           ~req'[v].steady \/ (points' = points /\ now' = now)
    PROVE  RequestFigured(v)'
<1>1. Reads(req[v])' = Reads(req[v])
  BY DEF SameFigures, Reads
<1>2. \A h : Totals(h)' = Totals(h)
  BY DEF Totals
<1>3. CASE ~req'[v].steady
  BY <1>1, <1>3 DEF SameFigures, RequestFigured, AnswerSound
<1>4. CASE points' = points /\ now' = now
  <2>1. \A what : Query(req[v], what)' = Query(req[v], what)
    BY <1>4, QueriesStay DEF SameFigures
  <2> QED BY <1>1, <2>1 DEF SameFigures, RequestFigured, AnswerSound
<1> QED BY <1>3, <1>4

\* A step of one worker that leaves the documents and the time alone.
LEMMA OneAnswer ==
    ASSUME FiguresInv, NEW w \in Workers, UNCHANGED <<documents, now>>,
           \A v \in Workers \ {w} : req'[v] = req[v] /\ stage'[v] = stage[v],
           RequestFigured(w)'
    PROVE  FiguresInv'
<1>1. UNCHANGED <<portfolio, points, lastPoint, now>>
  BY DEF documents
<1>2. PointsDated' /\ HoldingsKept'
  BY <1>1 DEF FiguresInv, PointsDated, HoldingsKept, Ordered
<1>3. ASSUME NEW v \in Workers PROVE RequestFigured(v)'
  <2>1. CASE v = w
    BY <2>1
  <2>2. CASE v # w
    <3>1. SameFigures(v) /\ RequestFigured(v)
      BY <2>2 DEF SameFigures, FiguresInv
    <3> QED BY <1>1, <3>1, FiguresStay
  <2> QED BY <2>1, <2>2
<1> QED BY <1>2, <1>3 DEF FiguresInv

\* A request that is over has nothing to answer.
LEMMA IdleFigured ==
    ASSUME NEW w \in Workers, req'[w] = NoRequest PROVE RequestFigured(w)'
  BY DEF RequestFigured, AnswerSound, NoRequest

\* Answer and FailRequest.
LEMMA DoneKeepsFigures ==
    ASSUME HistoryInv, FiguresInv, NEW w \in Workers, Done(w), UNCHANGED <<documents, now>>
    PROVE  FiguresInv'
<1>1. /\ req'[w] = NoRequest
      /\ \A v \in Workers \ {w} : req'[v] = req[v] /\ stage'[v] = stage[v]
  BY DEF HistoryInv, Done, MoveTo
<1> QED BY <1>1, IdleFigured, OneAnswer

\* At first, nothing is read.
LEMMA NothingRead == <<>> \in Seq(ToSet(<<>>)) /\ Len(<<>>) = 0
  OBVIOUS

\* The histories that the two answers read.
LEMMA ReadsAre ==
    ASSUME NEW r
    PROVE  /\ r.op = "health" => Reads(r) = <<"month", "year", "year", "month">>
           /\ r.op = "risk" => Reads(r) = <<"month", "year", "month", "month", "month", "month">>
  BY DEF Reads

\* A request that has read no history.
LEMMA FirstReads ==
    ASSUME NEW w, req'[w].total \in Nat, req'[w].date \in Int,
           req'[w].op \in {"health", "risk"} =>
               /\ req'[w].got = <<>>
               /\ req'[w].reads = Reads(req[w])'
               /\ stage'[w] \in {"readPortfolio", "readAssets", "query"}
    PROVE  RequestFigured(w)'
<1>1. CASE req'[w].op \notin {"health", "risk"}
  BY <1>1 DEF RequestFigured, AnswerSound
<1>2. CASE req'[w].op \in {"health", "risk"}
  <2> DEFINE n == Len(req'[w].got)
             l == Len(req'[w].reads)
  <2>1. /\ n = 0 /\ req'[w].got \in Seq(ToSet(req'[w].got))
        /\ stage'[w] \in {"readPortfolio", "readAssets", "query"}
        /\ req'[w].reads = Reads(req[w])'
    BY <1>2, NothingRead
  <2>2. l \in {4, 6}
    <3>1. \A r : r.op \in {"health", "risk"} => Len(Reads(r)) \in {4, 6}
      BY ReadsAre
    <3>2. Len(Reads(req'[w])) \in {4, 6}
      BY <1>2, <3>1
    <3> QED BY <2>1, <3>2 DEF Reads
  <2>3. n < l /\ \A i \in 1 .. n : FALSE
    <3>1. n = 0 /\ l \in {4, 6}
      BY <2>1, <2>2
    <3> HIDE DEF n, l
    <3> QED BY <3>1
  <2> QED BY <1>2, <2>1, <2>3 DEF RequestFigured, AnswerSound
<1> QED BY <1>1, <1>2

\* Any request begins.
LEMMA StartKeepsFigures ==
    ASSUME HistoryInv, FiguresInv, NEW w \in Workers, Start(w) PROVE FiguresInv'
<1>1. PICK op \in Ops, p \in Portfolios,
           pair \in {<<>>} \union {e \in Symbols \X Symbols : e[1] # e[2]} :
        LET r == [NoRequest EXCEPT !.op = op, !.of = p, !.pair = pair, !.fresh = TRUE]
        IN  /\ pair # <<>> <=> op = "correlation"
            /\ op \in Reading =>
                 Cardinality({v \in Workers : req[v].op \in Reading}) < MaxReads
            /\ req' = [req EXCEPT ![w] = [r EXCEPT !.reads = Reads(r)]]
            /\ MoveTo(w, CASE op = "deletePortfolio" -> "begin"
                           [] op \in {"history", "performance"} -> "query"
                           [] OTHER -> "readPortfolio")
  BY DEF Start
<1> DEFINE r == [NoRequest EXCEPT !.op = op, !.of = p, !.pair = pair, !.fresh = TRUE]
<1>2. /\ \A v \in Workers \ {w} : req'[v] = req[v] /\ stage'[v] = stage[v]
      /\ req'[w] = [r EXCEPT !.reads = Reads(r)]
      /\ op \in {"health", "risk"} => stage'[w] = "readPortfolio"
  BY <1>1 DEF HistoryInv, MoveTo
<1>3. /\ req'[w].op = op /\ req'[w].got = <<>> /\ req'[w].reads = Reads(r)
      /\ req'[w].total = 0 /\ req'[w].date = 0 /\ r.op = op
  BY <1>2 DEF NoRequest
<1> HIDE DEF r
<1>4. op \in {"health", "risk"} => Reads(r) = Reads(req[w])'
  BY <1>3 DEF Reads
<1>5. /\ req'[w].total \in Nat /\ req'[w].date \in Int
      /\ req'[w].op \in {"health", "risk"} =>
           /\ req'[w].got = <<>>
           /\ req'[w].reads = Reads(req[w])'
           /\ stage'[w] \in {"readPortfolio", "readAssets", "query"}
  BY <1>2, <1>3, <1>4
<1>6. RequestFigured(w)'
  BY <1>5, FirstReads
<1> QED BY <1>2, <1>6, OneAnswer DEF Start

\* A request reads the portfolio.
LEMMA ReadPortfolioKeepsFigures ==
    ASSUME HistoryInv, FiguresInv, NEW w \in Workers, ReadPortfolio(w) PROVE FiguresInv'
<1>1. /\ \A v \in Workers \ {w} : req'[v] = req[v] /\ stage'[v] = stage[v]
      /\ stage[w] = "readPortfolio" /\ stage'[w] = "readAssets"
      /\ UNCHANGED <<documents, now>>
  BY DEF HistoryInv, ReadPortfolio, MoveTo
<1>2. DOMAIN req[w] = RequestFields /\ req[w].of \in Portfolios /\ RequestFigured(w)
  BY DEF HistoryInv, RequestSound, FiguresInv
<1>3. /\ req'[w].op = req[w].op /\ req'[w].of = req[w].of
      /\ req'[w].pair = req[w].pair /\ req'[w].reads = req[w].reads
      /\ req'[w].got = req[w].got /\ req'[w].date = req[w].date
      /\ req'[w].total \in {req[w].total, portfolio[req[w].of].total}
  BY <1>2 DEF HistoryInv, ReadPortfolio, RequestFields
<1>4. portfolio[req[w].of].total \in Nat
  BY <1>2 DEF FiguresInv, HoldingsKept
<1>5. Reads(req[w])' = Reads(req[w])
  BY <1>3 DEF Reads
<1>6. Len(req'[w].got) = 0 \/ req[w].op \notin {"health", "risk"}
  BY <1>1, <1>2, <1>3 DEF RequestFigured, AnswerSound
<1>7. RequestFigured(w)'
  BY <1>1, <1>2, <1>3, <1>4, <1>5, <1>6 DEF RequestFigured, AnswerSound
<1> QED BY <1>1, <1>7, OneAnswer

\* A request reads the assets.
LEMMA ReadAssetsKeepsFigures ==
    ASSUME HistoryInv, FiguresInv, NEW w \in Workers, ReadAssets(w) PROVE FiguresInv'
<1>1. /\ \A v \in Workers \ {w} : req'[v] = req[v] /\ stage'[v] = stage[v]
      /\ stage[w] = "readAssets"
      /\ stage'[w] = IF req[w].op = "refresh" THEN "insert" ELSE "query"
      /\ UNCHANGED <<documents, now>>
  BY DEF HistoryInv, ReadAssets, MoveTo
<1>2. DOMAIN req[w] = RequestFields /\ RequestFigured(w)
  BY DEF HistoryInv, RequestSound, FiguresInv
<1>3. /\ req'[w].op = req[w].op /\ req'[w].of = req[w].of
      /\ req'[w].pair = req[w].pair /\ req'[w].reads = req[w].reads
      /\ req'[w].got = req[w].got /\ req'[w].total = req[w].total
      /\ req'[w].date \in {req[w].date, now}
  BY <1>2 DEF HistoryInv, ReadAssets, RequestFields
<1>4. req'[w].date \in Int
  BY <1>2, <1>3 DEF FiguresInv, PointsDated, RequestFigured
<1>5. Reads(req[w])' = Reads(req[w])
  BY <1>3 DEF Reads
<1>6. req[w].op \in {"health", "risk"} =>
        req'[w].got = <<>> /\ req'[w].reads = Reads(req[w])'
  BY <1>1, <1>2, <1>3, <1>5, EmptySeq DEF RequestFigured, AnswerSound
<1>7. RequestFigured(w)'
  BY <1>1, <1>2, <1>3, <1>4, <1>6, FirstReads DEF RequestFigured
<1> QED BY <1>1, <1>7, OneAnswer

\* A request reads the total.
LEMMA ReadTotalKeepsFigures ==
    ASSUME HistoryInv, FiguresInv, NEW w \in Workers, ReadTotal(w) PROVE FiguresInv'
<1>1. /\ \A v \in Workers \ {w} : req'[v] = req[v] /\ stage'[v] = stage[v]
      /\ stage[w] = "readTotal" /\ stage'[w] = "answer" /\ req' = req
      /\ UNCHANGED <<documents, now>> /\ points' = points
  BY DEF HistoryInv, ReadTotal, MoveTo, documents
<1>2. RequestFigured(w)
  BY DEF FiguresInv
<1>3. \A what : Query(req[w], what)' = Query(req[w], what)
  BY <1>1, QueriesStay
<1>4. RequestFigured(w)'
  BY <1>1, <1>2, <1>3 DEF RequestFigured, AnswerSound, Reads, Totals
<1> QED BY <1>1, <1>4, OneAnswer

\* A deletion begins.
LEMMA BeginDeleteKeepsFigures ==
    ASSUME HistoryInv, FiguresInv, NEW w \in Workers, BeginDelete(w) PROVE FiguresInv'
<1>1. /\ \A v \in Workers \ {w} : req'[v] = req[v] /\ stage'[v] = stage[v]
      /\ stage[w] = "begin" /\ stage'[w] = "commit"
      /\ UNCHANGED <<documents, now>> /\ points' = points
  BY DEF HistoryInv, BeginDelete, MoveTo, documents
<1>2. DOMAIN req[w] = RequestFields /\ RequestFigured(w)
  BY DEF HistoryInv, RequestSound, FiguresInv
<1>3. /\ req'[w].op = req[w].op /\ req'[w].of = req[w].of
      /\ req'[w].pair = req[w].pair /\ req'[w].reads = req[w].reads
      /\ req'[w].got = req[w].got /\ req'[w].date = req[w].date
      /\ req'[w].total = req[w].total /\ req'[w].steady = req[w].steady
  BY <1>2 DEF HistoryInv, BeginDelete, RequestFields
<1>4. \A what : Query(req[w], what)' = Query(req[w], what)
  BY <1>1, <1>3, QueriesStay
<1>5. Reads(req[w])' = Reads(req[w])
  BY <1>3 DEF Reads
<1>6. RequestFigured(w)'
  BY <1>1, <1>2, <1>3, <1>4, <1>5 DEF RequestFigured, AnswerSound, Totals
<1> QED BY <1>1, <1>6, OneAnswer

-----------------------------------------------------------------------------
(* A request reads a history *)

\* A longer sequence.
LEMMA AppendIs ==
    ASSUME NEW s, s \in Seq(ToSet(s)), NEW x
    PROVE  /\ Append(s, x) \in Seq(ToSet(Append(s, x)))
           /\ Len(s) \in Nat /\ Len(Append(s, x)) = Len(s) + 1
           /\ \A i \in 1 .. Len(s) : Append(s, x)[i] = s[i]
           /\ Append(s, x)[Len(s) + 1] = x
<1> DEFINE S == ToSet(s) \union {x}
           t == Append(s, x)
<1>1. s \in Seq(S)
  OBVIOUS
<1> HIDE DEF S
<1>2. /\ t \in Seq(S) /\ Len(s) \in Nat /\ Len(t) = Len(s) + 1
      /\ \A i \in 1 .. Len(s) : t[i] = s[i]
      /\ t[Len(s) + 1] = x
  <2>1. x \in S
    BY DEF S
  <2> QED BY <1>1, <2>1, AppendProperties
<1> HIDE DEF t
<1>3. t = [i \in 1 .. Len(t) |-> t[i]] /\ Len(t) \in Nat /\ DOMAIN t = 1 .. Len(t)
  BY <1>2
<1>4. t \in Seq(ToSet(t))
  <2>1. \A i \in 1 .. Len(t) : t[i] \in ToSet(t)
    BY <1>3 DEF ToSet
  <2>2. t \in [1 .. Len(t) -> ToSet(t)]
    BY <1>3, <2>1
  <2> HIDE DEF t
  <2> QED BY <1>3, <2>2
<1> QED BY <1>2, <1>4 DEF t

\* The history queries of the two answers are of windows.
LEMMA WindowsAreRead ==
    ASSUME NEW r, r.op \in {"health", "risk"}, NEW i \in 1 .. Len(Reads(r))
    PROVE  /\ Query(r, Reads(r)[i]) \in {Window(r.of, MonthDays), Window(r.of, YearDays)}
           /\ Len(Reads(r)) \in {4, 6}
<1>1. Reads(r)[i] \in {"month", "year"} /\ Len(Reads(r)) \in {4, 6}
  <2>1. CASE r.op = "health"
    <3>1. Reads(r) = <<"month", "year", "year", "month">>
      BY <2>1, ReadsAre
    <3>2. i \in {1, 2, 3, 4}
      BY <3>1
    <3> QED BY <3>1, <3>2
  <2>2. CASE r.op = "risk"
    <3>1. Reads(r) = <<"month", "year", "month", "month", "month", "month">>
      BY <2>2, ReadsAre
    <3>2. i \in {1, 2, 3, 4, 5, 6}
      BY <3>1
    <3> QED BY <3>1, <3>2
  <2> QED BY <2>1, <2>2
<1> QED BY <1>1 DEF Query

\* A request reads a history more.
LEMMA ReadHistoryKeepsFigures ==
    ASSUME HistoryInv, FiguresInv, NEW w \in Workers, ReadHistory(w) PROVE FiguresInv'
<1> DEFINE r == req[w]
           n == Len(r.got)
           found == Query(r, r.reads[n + 1])
<1>1. /\ \A v \in Workers \ {w} : req'[v] = req[v] /\ stage'[v] = stage[v]
      /\ stage[w] = "query"
      /\ stage'[w] = IF n + 1 < Len(r.reads) THEN "query"
                     ELSE IF r.op = "risk" THEN "readTotal" ELSE "answer"
      /\ UNCHANGED <<documents, now>> /\ points' = points
  BY DEF HistoryInv, ReadHistory, MoveTo, documents
<1>2. DOMAIN req[w] = RequestFields /\ RequestFigured(w) /\ PointsDated
  BY DEF HistoryInv, RequestSound, FiguresInv
<1>3. /\ req'[w].op = r.op /\ req'[w].of = r.of
      /\ req'[w].pair = r.pair /\ req'[w].reads = r.reads
      /\ req'[w].total = r.total /\ req'[w].date = r.date
      /\ req'[w].got = Append(r.got, found)
      /\ req'[w].steady => r.got = <<>> \/ r.steady
  BY <1>2 DEF HistoryInv, ReadHistory, RequestFields
<1>4. CASE r.op \notin {"health", "risk"}
  <2>1. RequestFigured(w)'
    BY <1>2, <1>3, <1>4 DEF RequestFigured, AnswerSound
  <2> QED BY <1>1, <2>1, OneAnswer
<1>5. CASE r.op \in {"health", "risk"}
  <2> DEFINE l == Len(r.reads)
             t == Append(r.got, found)
  <2>1. /\ r.got \in Seq(ToSet(r.got)) /\ n < l /\ r.reads = Reads(r)
        /\ \A i \in 1 .. n : Totals(r.got[i]) \in Seq(Nat)
        /\ r.steady => \A i \in 1 .. n : r.got[i] = Query(r, r.reads[i])
    BY <1>1, <1>2, <1>5 DEF RequestFigured, AnswerSound
  <2>2. /\ t \in Seq(ToSet(t)) /\ n \in Nat /\ Len(t) = n + 1
        /\ \A i \in 1 .. n : t[i] = r.got[i]
        /\ t[n + 1] = found
    <3> HIDE DEF found
    <3> QED BY <2>1, AppendIs
  <2>3. l \in Nat /\ n + 1 \in 1 .. l
    <3>1. \A q : q.op \in {"health", "risk"} => Len(Reads(q)) \in {4, 6}
      BY ReadsAre
    <3>2. l \in {4, 6}
      BY <1>5, <2>1, <3>1
    <3> HIDE DEF n, l
    <3> QED BY <2>1, <2>2, <3>2
  <2>4. Totals(found) \in Seq(Nat)
    <3>1. found \in {Window(r.of, MonthDays), Window(r.of, YearDays)}
      <4>1. n + 1 \in 1 .. Len(Reads(r))
        BY <2>1, <2>3
      <4> QED BY <1>5, <2>1, <4>1, WindowsAreRead
    <3>2. \A days : Totals(Window(r.of, days)) \in Seq(Nat)
      <4> SUFFICES ASSUME NEW days PROVE Totals(Window(r.of, days)) \in Seq(Nat)
        OBVIOUS
      <4> DEFINE S == {u \in PointsOf(r.of) : now - u.date <= days * TicksPerDay}
      <4>1. /\ Cardinality(S) \in Nat
            /\ Totals(Window(r.of, days)) \in [1 .. Cardinality(S) -> Nat]
        BY <1>2, WindowIs
      <4> HIDE DEF S
      <4> QED BY <4>1
    <3> QED BY <3>1, <3>2
  <2>5. \A what : Query(req[w], what)' = Query(r, what)
    BY <1>1, <1>3, QueriesStay
  <2>6. Reads(req[w])' = Reads(r)
    BY <1>3 DEF Reads
  <2>7. ASSUME req'[w].steady, NEW i \in 1 .. n + 1
        PROVE  t[i] = Query(r, r.reads[i])
    <3>1. CASE i = n + 1
      BY <2>2, <3>1
    <3>2. CASE i # n + 1
      <4>1. i \in 1 .. n
        <5> HIDE DEF n
        <5> QED BY <2>2, <3>2
      <4>2. r.got # <<>>
        <5> SUFFICES ASSUME r.got = <<>> PROVE FALSE
          OBVIOUS
        <5>1. n = 0
          OBVIOUS
        <5> HIDE DEF n
        <5> QED BY <4>1, <5>1
      <4> QED BY <1>3, <2>1, <2>2, <2>7, <4>1, <4>2
    <3> QED BY <3>1, <3>2
  <2>8. \A i \in 1 .. n + 1 : Totals(t[i]) \in Seq(Nat)
    <3> SUFFICES ASSUME NEW i \in 1 .. n + 1 PROVE Totals(t[i]) \in Seq(Nat)
      OBVIOUS
    <3>1. i \in 1 .. n \/ i = n + 1
      <4> HIDE DEF n
      <4> QED BY <2>2
    <3> HIDE DEF t, found
    <3> QED BY <2>1, <2>2, <2>4, <3>1
  <2>9. /\ stage'[w] \in {"query", "readTotal", "answer"}
        /\ stage'[w] = "query" => n + 1 < l
        /\ stage'[w] \in {"readTotal", "answer"} => n + 1 = l
    <3> HIDE DEF n, l
    <3> QED BY <1>1, <2>2, <2>3 DEF n, l
  <2> HIDE DEF t, found, n, l
  <2>10. /\ req'[w].got = t /\ Len(req'[w].got) = n + 1 /\ Len(req'[w].reads) = l
         /\ req'[w].reads = Reads(req[w])'
    BY <1>3, <2>1, <2>2, <2>6 DEF t, n, l
  <2>11. \A s : Totals(s)' = Totals(s)
    BY DEF Totals
  <2>12. RequestFigured(w)'
    BY <1>2, <1>3, <2>2, <2>5, <2>7, <2>8, <2>9, <2>10, <2>11 DEF RequestFigured, AnswerSound
  <2> QED BY <1>1, <2>12, OneAnswer
<1> QED BY <1>4, <1>5

-----------------------------------------------------------------------------
(* Steps that change documents and time *)

\* The value of what a portfolio may hold.
LEMMA HoldingsAreWorth == \A h \in Holdings : TotalOf(h) \in Nat
<1> SUFFICES ASSUME NEW h \in Holdings PROVE TotalOf(h) \in Nat
  OBVIOUS
<1> DEFINE S == DOMAIN h
<1>1. S \subseteq Symbols /\ h \in [S -> Nat] /\ IsFiniteSet(Symbols)
  BY HistoryAssumption
<1>2. IsFiniteSet(S)
  BY <1>1, FS_Subset
<1>3. TotalOf(h) = Total(h, S)
  BY DEF TotalOf, SumFunction, Total, SumOf
<1> HIDE DEF S
<1>4. Total(h, S) \in Nat
  <2>1. S \in SUBSET S
    OBVIOUS
  <2> QED BY <1>1, <1>2, <2>1, TotalIsNatural
<1> QED BY <1>3, <1>4

\* A point is inserted after all others: requests under way are no longer steady.
LEMMA InsertPointKeepsFigures ==
    ASSUME HistoryInv, FiguresInv, NEW w \in Workers, InsertPoint(w) PROVE FiguresInv'
<1> DEFINE new == Point(lastPoint + 1, req[w].of, req[w].date, req[w].total,
                        req[w].assets, req[w].whole)
<1>1. /\ portfolio' = portfolio /\ points' = points \union {new}
      /\ lastPoint' = lastPoint + 1 /\ now' = now
      /\ req' = [v \in Workers |-> IF v = w THEN NoRequest
                                   ELSE [req[v] EXCEPT !.steady = FALSE]]
      /\ stage' = [stage EXCEPT ![w] = "idle"]
  BY DEF InsertPoint, MoveTo
<1>2. /\ new.id = lastPoint + 1 /\ new.total = req[w].total /\ new.date = req[w].date
      /\ lastPoint \in Nat /\ req[w].total \in Nat /\ req[w].date \in Int
  BY DEF Point, HistoryInv, PointsSound, FiguresInv, RequestFigured
<1> HIDE DEF new
<1>3. PointsDated'
  <2>1. /\ Ordered(points) /\ now \in Nat
        /\ \A t \in points : t.total \in Nat /\ t.id <= lastPoint /\ t.id \in Int
    BY DEF FiguresInv, PointsDated, Ordered
  <2>2. IsFiniteSet(points')
    BY <1>1, <2>1, FS_AddElement DEF Ordered
  <2>3. \A t \in points : t.id # lastPoint + 1 /\ t.id <= lastPoint + 1
    BY <1>2, <2>1
  <2>4. \A t, u \in points' : t.date = u.date /\ t.id = u.id => t = u
    BY <1>1, <1>2, <2>1, <2>3 DEF Ordered
  <2>5. \A t \in points' : /\ t.date \in Int /\ t.id \in Int /\ t.total \in Nat
                           /\ t.id <= lastPoint + 1
    BY <1>1, <1>2, <2>1, <2>3 DEF Ordered
  <2> QED BY <1>1, <2>1, <2>2, <2>4, <2>5 DEF PointsDated, Ordered
<1>4. HoldingsKept'
  BY <1>1 DEF FiguresInv, HoldingsKept
<1>5. ASSUME NEW v \in Workers PROVE RequestFigured(v)'
  <2>1. CASE v = w
    BY <1>1, <2>1, IdleFigured
  <2>2. CASE v # w
    <3>1. DOMAIN req[v] = RequestFields /\ RequestFigured(v)
      BY DEF HistoryInv, RequestSound, FiguresInv
    <3>2. SameFigures(v) /\ ~req'[v].steady
      BY <1>1, <2>2, <3>1 DEF HistoryInv, RequestFields, SameFigures
    <3> QED BY <3>1, <3>2, FiguresStay
  <2> QED BY <2>1, <2>2
<1> QED BY <1>3, <1>4, <1>5 DEF FiguresInv

\* A trade changes what a portfolio holds and its total.
LEMMA TradeKeepsFigures ==
    ASSUME HistoryInv, FiguresInv, NEW p \in Portfolios, Trade(p) PROVE FiguresInv'
<1>1. PICK h \in Holdings :
        portfolio' = [portfolio EXCEPT ![p].total = TotalOf(h), ![p].assets = h]
  BY DEF Trade
<1>2. /\ \A q \in Portfolios \ {p} : portfolio'[q] = portfolio[q]
      /\ portfolio'[p].live = portfolio[p].live
      /\ portfolio'[p].total = TotalOf(h) /\ portfolio'[p].assets = h
  BY <1>1 DEF HistoryInv, BooksAreKept
<1>3. /\ UNCHANGED <<points, lastPoint, now, stage>> /\ portfolio[p].live
      /\ req' = Overtaken(p)
  BY DEF Trade
<1>4. PointsDated'
  BY <1>3 DEF FiguresInv, PointsDated, Ordered
<1>5. HoldingsKept'
  BY <1>2, <1>3, HoldingsAreWorth DEF FiguresInv, HoldingsKept
<1>6. ASSUME NEW v \in Workers PROVE RequestFigured(v)'
  <2>1. DOMAIN req[v] = RequestFields /\ RequestFigured(v)
    BY DEF HistoryInv, RequestSound, FiguresInv
  <2>2. SameFigures(v)
    BY <1>3, <2>1 DEF Overtaken, RequestFields, SameFigures
  <2> QED BY <1>3, <2>1, <2>2, FiguresStay
<1> QED BY <1>4, <1>5, <1>6 DEF FiguresInv

\* A deletion commits: a portfolio goes with its points.
LEMMA CommitKeepsFigures ==
    ASSUME HistoryInv, FiguresInv, NEW w \in Workers, Commit(w) PROVE FiguresInv'
<1> DEFINE p == req[w].of
           unsteady(v) ==
             [Overtaken(p)[v] EXCEPT !.steady = FALSE,
                !.raced = @ \/ (/\ req[v].op = "refresh" /\ req[v].of = p
                                /\ stage[v] \in {"readAssets", "insert"})]
<1>1. /\ portfolio' = [portfolio EXCEPT ![p] =
                         [live |-> FALSE, total |-> 0, assets |-> Nothing]]
      /\ points' = points \ Doomed(w) /\ lastPoint' = lastPoint /\ now' = now
      /\ req' = [v \in Workers |-> IF v = w THEN NoRequest ELSE unsteady(v)]
      /\ stage' = [stage EXCEPT ![w] = "idle"]
  BY DEF Commit, MoveTo
<1>2. p \in Portfolios
  BY DEF HistoryInv, RequestSound
<1>3. /\ \A q \in Portfolios \ {p} : portfolio'[q] = portfolio[q]
      /\ ~portfolio'[p].live /\ portfolio'[p].total = 0
  BY <1>1, <1>2 DEF HistoryInv, BooksAreKept
<1>4. HoldingsKept'
  BY <1>2, <1>3 DEF FiguresInv, HoldingsKept
<1>5. PointsDated'
  <2>1. points' \subseteq points /\ Ordered(points)
    BY <1>1 DEF FiguresInv, PointsDated
  <2>2. Ordered(points')
    BY <2>1, PartIsOrdered
  <2>3. Ordered(points)'
    BY <2>2 DEF Ordered
  <2> QED BY <1>1, <2>1, <2>3 DEF FiguresInv, PointsDated
<1>6. ASSUME NEW v \in Workers PROVE RequestFigured(v)'
  <2>1. CASE v = w
    BY <1>1, <2>1, IdleFigured
  <2>2. CASE v # w
    <3>1. DOMAIN req[v] = RequestFields /\ RequestFigured(v)
      BY DEF HistoryInv, RequestSound, FiguresInv
    <3>2. req'[v] = unsteady(v) /\ stage'[v] = stage[v]
      BY <1>1, <2>2 DEF HistoryInv
    <3>3. SameFigures(v) /\ ~req'[v].steady
      BY <3>1, <3>2 DEF Overtaken, RequestFields, SameFigures
    <3> QED BY <3>1, <3>3, FiguresStay
  <2> QED BY <2>1, <2>2
<1> QED BY <1>4, <1>5, <1>6 DEF FiguresInv

\* Time passes: requests under way are no longer steady.
LEMMA TickKeepsFigures == ASSUME HistoryInv, FiguresInv, Tick PROVE FiguresInv'
<1>1. /\ UNCHANGED <<portfolio, points, lastPoint, stage>> /\ now' = now + 1
      /\ req' = [w \in Workers |-> [req[w] EXCEPT !.fresh = FALSE, !.steady = FALSE]]
  BY DEF Tick, documents
<1>2. PointsDated' /\ HoldingsKept'
  <2>1. now' \in Nat
    <3>1. now \in Nat
      BY DEF FiguresInv, PointsDated
    <3>2. now' = now + 1
      BY <1>1, Zenon
    <3> QED BY ONLY <3>1, <3>2
  <2>2. Ordered(points)'
    BY <1>1 DEF FiguresInv, PointsDated, Ordered
  <2>3. HoldingsKept'
    BY <1>1 DEF FiguresInv, HoldingsKept
  <2> QED BY <1>1, <2>1, <2>2, <2>3 DEF FiguresInv, PointsDated
<1>3. ASSUME NEW v \in Workers PROVE RequestFigured(v)'
  <2>1. DOMAIN req[v] = RequestFields /\ RequestFigured(v)
    BY DEF HistoryInv, RequestSound, FiguresInv
  <2>2. SameFigures(v) /\ ~req'[v].steady
    BY <1>1, <2>1 DEF RequestFields, SameFigures
  <2> QED BY <2>1, <2>2, FiguresStay
<1> QED BY <1>2, <1>3 DEF FiguresInv

\* The invariant holds at first.
LEMMA FiguresInitSound == HistoryInit => FiguresInv
<1> SUFFICES ASSUME HistoryInit PROVE FiguresInv
  OBVIOUS
<1>1. PICK dates \in SUBSET {-ago : ago \in Past} :
        \E made \in [dates -> Portfolios \X PastHoldings] :
           /\ points = {Point(Cardinality({e \in dates : e <= d}), made[d][1], d,
                              TotalOf(made[d][2]), made[d][2], TRUE) : d \in dates}
           /\ lastPoint = Cardinality(dates)
  BY DEF HistoryInit
<1>2. PICK made \in [dates -> Portfolios \X PastHoldings] :
           /\ points = {Point(Cardinality({e \in dates : e <= d}), made[d][1], d,
                              TotalOf(made[d][2]), made[d][2], TRUE) : d \in dates}
           /\ lastPoint = Cardinality(dates)
  BY <1>1
<1>3. IsFiniteSet(points) /\ lastPoint \in Nat
  BY HistoryInitSound DEF HistoryInv, PointsSound
<1>4. dates \subseteq Int /\ IsFiniteSet(dates)
  <2> DEFINE back == [ago \in Past |-> -ago]
  <2>1. back \in Surjection(Past, {-ago : ago \in Past})
    BY DEF Surjection
  <2>2. IsFiniteSet({-ago : ago \in Past})
    BY <2>1, FS_Surjection, HistoryAssumption
  <2>3. {-ago : ago \in Past} \subseteq Int
    BY HistoryAssumption
  <2> QED BY <2>2, <2>3, FS_Subset
<1> DEFINE point == [d \in dates |->
               Point(Cardinality({e \in dates : e <= d}), made[d][1], d,
                     TotalOf(made[d][2]), made[d][2], TRUE)]
<1>5. points = {point[d] : d \in dates}
  BY <1>2
<1>6. ASSUME NEW d \in dates
      PROVE  /\ point[d].date = d /\ point[d].id \in Nat /\ point[d].id <= lastPoint
             /\ point[d].total \in Nat
  <2>1. /\ Cardinality({e \in dates : e <= d}) \in Nat
        /\ Cardinality({e \in dates : e <= d}) <= Cardinality(dates)
    BY <1>4, FS_Subset, FS_CardinalityType
  <2>2. made[d][2] \in Holdings
    BY HistoryAssumption
  <2> QED BY <1>2, <2>1, <2>2, HoldingsAreWorth DEF Point
<1>7. Ordered(points)
  <2> HIDE DEF point
  <2> QED BY <1>3, <1>4, <1>5, <1>6 DEF Ordered
<1>8. \A t \in points : t.total \in Nat /\ t.id <= lastPoint
  <2> HIDE DEF point
  <2> QED BY <1>5, <1>6
<1>9. PointsDated
  BY <1>7, <1>8 DEF PointsDated, HistoryInit
<1>10. HoldingsKept
  BY HoldingsAreWorth, HistoryAssumption DEF HoldingsKept, HistoryInit
<1>11. ASSUME NEW w \in Workers PROVE RequestFigured(w)
  <2>1. req[w] = NoRequest
    BY DEF HistoryInit
  <2> QED BY <2>1 DEF RequestFigured, AnswerSound, NoRequest
<1> QED BY <1>9, <1>10, <1>11 DEF FiguresInv

\* Nothing happens.
LEMMA FiguresStutter == ASSUME FiguresInv, UNCHANGED historyVars PROVE FiguresInv'
<1>1. UNCHANGED <<portfolio, points, lastPoint, now, stage, req>>
  BY DEF historyVars
<1>2. PointsDated' /\ HoldingsKept'
  BY <1>1 DEF FiguresInv, PointsDated, HoldingsKept, Ordered
<1>3. ASSUME NEW w \in Workers PROVE RequestFigured(w)'
  <2>1. SameFigures(w) /\ RequestFigured(w)
    BY <1>1 DEF SameFigures, FiguresInv
  <2> QED BY <1>1, <2>1, FiguresStay
<1> QED BY <1>2, <1>3 DEF FiguresInv

\* Every step keeps the invariant.
LEMMA FiguresStep == HistoryInv /\ FiguresInv /\ [HistoryNext]_historyVars => FiguresInv'
<1> SUFFICES ASSUME HistoryInv, FiguresInv, [HistoryNext]_historyVars PROVE FiguresInv'
  OBVIOUS
<1>1. CASE Tick
  BY <1>1, TickKeepsFigures
<1>2. ASSUME NEW p \in Portfolios, Trade(p) PROVE FiguresInv'
  BY <1>2, TradeKeepsFigures
<1>3. ASSUME NEW w \in Workers, Start(w) PROVE FiguresInv'
  BY <1>3, StartKeepsFigures
<1>4. ASSUME NEW w \in Workers, ReadPortfolio(w) PROVE FiguresInv'
  BY <1>4, ReadPortfolioKeepsFigures
<1>5. ASSUME NEW w \in Workers, ReadAssets(w) PROVE FiguresInv'
  BY <1>5, ReadAssetsKeepsFigures
<1>6. ASSUME NEW w \in Workers, ReadHistory(w) PROVE FiguresInv'
  BY <1>6, ReadHistoryKeepsFigures
<1>7. ASSUME NEW w \in Workers, ReadTotal(w) PROVE FiguresInv'
  BY <1>7, ReadTotalKeepsFigures
<1>8. ASSUME NEW w \in Workers, Answer(w) PROVE FiguresInv'
  BY <1>8, DoneKeepsFigures DEF Answer
<1>9. ASSUME NEW w \in Workers, InsertPoint(w) PROVE FiguresInv'
  BY <1>9, InsertPointKeepsFigures
<1>10. ASSUME NEW w \in Workers, BeginDelete(w) PROVE FiguresInv'
  BY <1>10, BeginDeleteKeepsFigures
<1>11. ASSUME NEW w \in Workers, Commit(w) PROVE FiguresInv'
  BY <1>11, CommitKeepsFigures
<1>12. ASSUME NEW w \in Workers, FailRequest(w) PROVE FiguresInv'
  BY <1>12, DoneKeepsFigures DEF FailRequest
<1>13. CASE UNCHANGED historyVars
  BY <1>13, FiguresStutter
<1> QED
  BY <1>1, <1>2, <1>3, <1>4, <1>5, <1>6, <1>7, <1>8, <1>9, <1>10, <1>11, <1>12, <1>13
     DEF HistoryNext

\* Both invariants hold always.
LEMMA FiguresAlways == HistorySpec => [](HistoryInv /\ FiguresInv)
<1>1. HistoryInit => HistoryInv /\ FiguresInv
  BY HistoryInitSound, FiguresInitSound
<1>2. (HistoryInv /\ FiguresInv) /\ [HistoryNext]_historyVars => (HistoryInv /\ FiguresInv)'
  BY HistoryStep, FiguresStep
<1> QED BY <1>1, <1>2, PTL DEF HistorySpec

-----------------------------------------------------------------------------
(* The figures agree *)

(* filterByInterval, for any number of portfolios, points and days of an interval: it  *)
(* keeps the first point of a year and then exactly those that are an interval or more *)
(* after the one kept before them.                                                     *)
THEOREM IntervalsKept == HistorySpec => []IntervalsAreExact
<1>1. ASSUME FiguresInv PROVE IntervalsAreExact
  <2> SUFFICES ASSUME NEW p \in Portfolios
               PROVE  KeepsTheFar(Dates(Window(p, YearDays)), Weekly)
    BY DEF IntervalsAreExact, KeepsTheFar
  <2> DEFINE d == Dates(Window(p, YearDays))
             S == {t \in PointsOf(p) : now - t.date <= YearDays * TicksPerDay}
             n == Cardinality(S)
  <2>1. n \in Nat /\ d \in [1 .. n -> Int]
    BY <1>1, WindowIs DEF FiguresInv
  <2>2. Weekly \in Int
    BY HistoryAssumption
  <2> HIDE DEF d, n
  <2>3. KeepsTheFar(d, Weekly)
    BY <2>1, <2>2, IntervalsKeepTheFar
  <2> QED BY <2>3 DEF d
<1> QED BY <1>1, FiguresAlways, PTL

(* calculateMaxDrawdown and calculatePerformanceMetrics, for any number of points and any *)
(* totals: the drawdown of a year is the worst fall from a point to a later one, and the  *)
(* year as a whole does not lose more; only if the year begins with an empty portfolio is *)
(* it no number.                                                                          *)
THEOREM DrawdownIsExact == HistorySpec => []DrawdownIsWorstFall
<1>1. ASSUME FiguresInv PROVE DrawdownIsWorstFall
  <2> SUFFICES ASSUME NEW p \in Portfolios, Len(Totals(Window(p, YearDays))) >= 2
               PROVE  ShowsTheWorst(Totals(Window(p, YearDays)))
    BY DEF DrawdownIsWorstFall, ShowsTheWorst
  <2> DEFINE s == Totals(Window(p, YearDays))
             S == {t \in PointsOf(p) : now - t.date <= YearDays * TicksPerDay}
             n == Cardinality(S)
  <2>1. n \in Nat /\ s \in [1 .. n -> Nat]
    BY <1>1, WindowIs DEF FiguresInv
  <2> HIDE DEF n
  <2>2. n >= 2
    BY <2>1
  <2> HIDE DEF s
  <2>3. ShowsTheWorst(s)
    BY <2>1, <2>2, DrawdownIsWorst
  <2> QED BY <2>3 DEF s
<1> QED BY <1>1, FiguresAlways, PTL

\* Six histories of natural totals are read for a risk analysis.
LEMMA RiskReads ==
    ASSUME FiguresInv, NEW w \in Workers, stage[w] = "answer", req[w].op = "risk"
    PROVE  LET got == [i \in DOMAIN req[w].got |-> Totals(req[w].got[i])]
           IN  \A i \in {1, 2, 3, 4, 5, 6} : \E n \in Nat : got[i] \in [1 .. n -> Nat]
<1> DEFINE r == req[w]
           m == Len(r.got)
<1>1. /\ r.got \in Seq(ToSet(r.got)) /\ m = Len(Reads(r))
      /\ \A i \in 1 .. m : Totals(r.got[i]) \in Seq(Nat)
  BY DEF FiguresInv, RequestFigured, AnswerSound
<1>2. m = 6
  <2>1. Reads(r) = <<"month", "year", "month", "month", "month", "month">>
    BY ReadsAre
  <2> QED BY <1>1, <2>1
<1>3. DOMAIN r.got = 1 .. 6
  BY SMTT(30), <1>1, <1>2
<1>4. ASSUME NEW s \in Seq(Nat) PROVE \E k \in Nat : s \in [1 .. k -> Nat]
  <2>1. Len(s) \in Nat /\ s \in [1 .. Len(s) -> Nat]
    OBVIOUS
  <2> QED BY <2>1
<1> DEFINE got == [i \in DOMAIN req[w].got |-> Totals(req[w].got[i])]
<1>5. \A i \in {1, 2, 3, 4, 5, 6} : i \in DOMAIN r.got /\ Totals(r.got[i]) \in Seq(Nat)
  <2>1. \A i \in {1, 2, 3, 4, 5, 6} : i \in 1 .. 6
    OBVIOUS
  <2>2. \A i \in 1 .. 6 : Totals(r.got[i]) \in Seq(Nat)
    BY <1>1, <1>2
  <2> QED BY <1>3, <2>1, <2>2
<1>6. \A i \in {1, 2, 3, 4, 5, 6} : got[i] \in Seq(Nat)
  BY <1>5
<1> HIDE DEF got
<1>7. \A i \in {1, 2, 3, 4, 5, 6} : \E n \in Nat : got[i] \in [1 .. n -> Nat]
  BY <1>4, <1>6
<1> QED BY <1>7 DEF got

\* In a steady answer the queries of a month show the same.
LEMMA SteadyRisk ==
    ASSUME FiguresInv, NEW w \in Workers, stage[w] = "answer", req[w].op = "risk",
           req[w].steady
    PROVE  /\ 1 \in DOMAIN req[w].got /\ 3 \in DOMAIN req[w].got
           /\ req[w].got[1] = req[w].got[3]
<1> DEFINE r == req[w]
<1>1. /\ Len(r.got) = Len(r.reads) /\ r.reads = Reads(r)
      /\ r.got \in Seq(ToSet(r.got))
      /\ \A i \in 1 .. Len(r.got) : r.got[i] = Query(r, r.reads[i])
  BY DEF FiguresInv, RequestFigured, AnswerSound
<1>2. r.reads = <<"month", "year", "month", "month", "month", "month">>
  BY <1>1, ReadsAre
<1>3. r.reads[1] = "month" /\ r.reads[3] = "month" /\ Len(r.reads) = 6
  BY <1>2
<1>4. 1 \in 1 .. Len(r.got) /\ 3 \in 1 .. Len(r.got)
  BY <1>1, <1>3
<1>5. 1 \in DOMAIN r.got /\ 3 \in DOMAIN r.got
  BY <1>1, <1>4
<1> QED BY <1>1, <1>3, <1>4, <1>5

\* What NoFalseCalm says of the histories that the queries of an answer show.
CalmFor(got, steady) ==
    /\ \A v \in AtRisk(got[3]) :
          OverallRisk(Volatility(got[1]), Drawdown(got[2]), v) = "LOW" =>
              /\ Divides(got[1]) /\ Drawdown(got[2]) # NaN /\ v # NaN
              /\ Drawdown(got[2]) >= 67 => v = MinusInfinity \/ v < 0
              /\ steady => v # MinusInfinity
    /\ Len(got[5]) >= 2 /\ ~Divides(got[6]) => MarketRisk(got[5], got[6]) = "HIGH"

LEMMA HistoriesAreCalm ==
    ASSUME NEW got, NEW steady,
           \A i \in {1, 2, 3, 4, 5, 6} : \E n \in Nat : got[i] \in [1 .. n -> Nat],
           steady => got[1] = got[3]
    PROVE  CalmFor(got, steady)
<1> DEFINE volatility == Volatility(got[1])
           drawdown == Drawdown(got[2])
<1>1. volatility \in Nat \union {NaN} /\ (~Divides(got[1]) => volatility = NaN)
  <2>1. PICK n \in Nat : got[1] \in [1 .. n -> Nat]
    OBVIOUS
  <2> QED BY <2>1, VolatilityIs
<1>2. drawdown \in Nat \union {NaN}
  <2>1. PICK n \in Nat : got[2] \in [1 .. n -> Nat]
    OBVIOUS
  <2> QED BY <2>1, DrawdownType
<1>3. /\ AtRisk(got[3]) \subseteq Int \union {NaN, MinusInfinity}
      /\ Divides(got[3]) => AtRisk(got[3]) \subseteq Int
  <2>1. PICK n \in Nat : got[3] \in [1 .. n -> Nat]
    OBVIOUS
  <2> QED BY <2>1, AtRiskType
<1>4. ~Divides(got[6]) => Volatility(got[6]) = NaN
  <2>1. PICK n \in Nat : got[6] \in [1 .. n -> Nat]
    OBVIOUS
  <2> QED BY <2>1, VolatilityIs
<1>5. ASSUME Len(got[5]) >= 2, ~Divides(got[6])
      PROVE  MarketRisk(got[5], got[6]) = "HIGH"
  <2>1. ~(Len(got[5]) < 2)
    <3>1. PICK n \in Nat : got[5] \in [1 .. n -> Nat]
      OBVIOUS
    <3> QED BY <1>5, <3>1
  <2> QED BY <1>4, <1>5, <2>1 DEF MarketRisk, Band
<1> HIDE DEF volatility, drawdown
<1>6. ASSUME NEW v \in AtRisk(got[3]), OverallRisk(volatility, drawdown, v) = "LOW"
      PROVE  /\ Divides(got[1]) /\ drawdown # NaN /\ v # NaN
             /\ drawdown >= 67 => v = MinusInfinity \/ v < 0
             /\ steady => v # MinusInfinity
  <2>1. v \in Int \union {NaN, MinusInfinity}
    BY <1>3
  <2>2. /\ volatility # NaN /\ drawdown # NaN /\ v # NaN
        /\ drawdown >= 67 => v = MinusInfinity \/ v < 0
    BY <1>1, <1>2, <1>6, <2>1, OverallRiskIs
  <2>3. Divides(got[1])
    BY <1>1, <2>2
  <2>4. steady => v \in Int
    BY <1>3, <1>6, <2>3
  <2> QED BY <2>2, <2>3, <2>4, AnalyticsAssumption
<1> QED BY <1>5, <1>6 DEF CalmFor, volatility, drawdown

(* getRiskAnalysis, for any number of requests, points and totals, and whatever happens     *)
(* between its six queries: the overall risk is LOW only if no figure is NaN, so that the   *)
(* portfolio was not empty in the month before its last point; of one that lost two thirds  *)
(* in the year, only if its value at risk is a gain; of a gain from nothing, only if points *)
(* came or went between the queries.  (The market risk of one that was empty in the month   *)
(* is HIGH if both of its queries show two points.)                                         *)
THEOREM CalmIsCalm == HistorySpec => []NoFalseCalm
<1>1. ASSUME FiguresInv PROVE NoFalseCalm
  <2> SUFFICES ASSUME NEW w \in Workers, stage[w] = "answer", req[w].op = "risk"
               PROVE  CalmFor([i \in DOMAIN req[w].got |-> Totals(req[w].got[i])],
                              req[w].steady)
    BY DEF NoFalseCalm, CalmFor
  <2> DEFINE got == [i \in DOMAIN req[w].got |-> Totals(req[w].got[i])]
  <2>1. \A i \in {1, 2, 3, 4, 5, 6} : \E n \in Nat : got[i] \in [1 .. n -> Nat]
    BY <1>1, RiskReads
  <2>2. req[w].steady => got[1] = got[3]
    <3>1. req[w].steady => /\ 1 \in DOMAIN req[w].got /\ 3 \in DOMAIN req[w].got
                           /\ req[w].got[1] = req[w].got[3]
      BY <1>1, SteadyRisk
    <3> QED BY <3>1
  <2> HIDE DEF got
  <2>3. CalmFor(got, req[w].steady)
    BY <2>1, <2>2, HistoriesAreCalm
  <2> QED BY <2>3 DEF got
<1> QED BY <1>1, FiguresAlways, PTL

\* The scores of what a portfolio holds agree with each other.
LEMMA ScoresAlwaysAgree == HistoryInv /\ FiguresInv => ScoresAgree
<1> SUFFICES ASSUME HistoryInv, FiguresInv, NEW p \in Portfolios, portfolio[p].total > 0
             PROVE  LET a == portfolio[p].assets
                        score == DiversificationScore(a)
                    IN  /\ score \in 0 .. 100
                        /\ CASE ConcentrationRisk(a) = "LOW" -> score > 80
                             [] ConcentrationRisk(a) = "MODERATE" -> score > 60
                             [] ConcentrationRisk(a) = "MODERATE_HIGH" -> score > 40
                             [] OTHER -> score <= 64
                        /\ LiquidityRisk(a) = "LOW" => ConcentrationRisk(a) = "LOW"
                        /\ LiquidityRisk(a) = "MODERATE" /\ Cardinality(DOMAIN a) <= 5 =>
                             ConcentrationRisk(a) = "HIGH"
                        /\ \A v \in StressTests(portfolio[p].total) : v <= portfolio[p].total
  BY DEF ScoresAgree
<1> DEFINE a == portfolio[p].assets
           S == DOMAIN a
<1>1. portfolio[p].total \in Nat /\ portfolio[p].live /\ a \in Holdings
  BY DEF FiguresInv, HoldingsKept
<1>2. portfolio[p].total = TotalOf(a)
  BY <1>1 DEF HistoryInv, BooksAreKept
<1>3. S \subseteq Symbols /\ a \in [S -> Nat] /\ IsFiniteSet(Symbols)
  BY <1>1, HistoryAssumption
<1>4. IsFiniteSet(S)
  BY <1>3, FS_Subset
<1>5. \A v \in StressTests(portfolio[p].total) : v <= portfolio[p].total
  BY <1>1, StressTestsLose
<1>6. TotalOf(a) > 0
  BY <1>2
<1> HIDE DEF S, a
<1>7. LET score == DiversificationScore(a)
          risk == ConcentrationRisk(a)
      IN  /\ score \in 0 .. 100
          /\ CASE risk = "LOW" -> score > 80
               [] risk = "MODERATE" -> score > 60
               [] risk = "MODERATE_HIGH" -> score > 40
               [] OTHER -> score <= 64
          /\ LiquidityRisk(a) = "LOW" => risk = "LOW"
          /\ LiquidityRisk(a) = "MODERATE" /\ Cardinality(DOMAIN a) <= 5 => risk = "HIGH"
  BY <1>3, <1>4, <1>6, RisksAre
<1> QED BY <1>5, <1>7 DEF a

\* The four histories of a steady health report: the month and the year of now.
LEMMA HealthReads ==
    ASSUME HistoryInv, FiguresInv, NEW w \in SteadyHealth
    PROVE  LET got == req[w].got
               year == Window(req[w].of, YearDays)
               month == Window(req[w].of, MonthDays)
           IN  /\ got[1] = month /\ got[2] = year /\ got[3] = year /\ got[4] = month
               /\ \A t \in ToSet(year) : t.total > 0
<1> DEFINE r == req[w]
<1>1. /\ w \in Workers /\ stage[w] = "answer" /\ r.op = "health" /\ r.steady
      /\ \A t \in ToSet(r.got[2]) : t.total > 0
  BY DEF SteadyHealth
<1>2. /\ r.reads = Reads(r) /\ Len(r.got) = Len(r.reads)
      /\ \A i \in 1 .. Len(r.got) : r.got[i] = Query(r, r.reads[i])
  BY <1>1 DEF FiguresInv, RequestFigured, AnswerSound
<1>3. r.reads = <<"month", "year", "year", "month">>
  BY <1>1, <1>2, ReadsAre
<1>4. Len(r.got) = 4 /\ \A i \in {1, 2, 3, 4} : r.got[i] = Query(r, r.reads[i])
  BY <1>2, <1>3
<1>5. /\ r.got[1] = Query(r, "month") /\ r.got[2] = Query(r, "year")
      /\ r.got[3] = Query(r, "year") /\ r.got[4] = Query(r, "month")
  BY <1>3, <1>4
<1> QED BY <1>1, <1>5 DEF Query

(* getPortfolioHealth, for any number of requests, points and assets: concentration,        *)
(* liquidity and diversification of what a portfolio holds agree, no stress test gains, and *)
(* a report whose four histories are of one moment, over a year without an empty point,     *)
(* does not contradict itself: the value at risk is within the drawdown, a month that moved *)
(* gives a Sharpe ratio, and a fall a Sortino ratio.                                        *)
THEOREM FiguresTellOneStory == HistorySpec => []FiguresAgree
<1>1. ASSUME HistoryInv, FiguresInv PROVE FiguresAgree
  <2>1. ScoresAgree
    BY <1>1, ScoresAlwaysAgree
  <2>2. ASSUME NEW w \in SteadyHealth
        PROVE  LET got == req[w].got
                   risks == AtRisk(Totals(got[4]))
                   fall == Drawdown(Totals(got[3]))
                   ratios == FiniteRatios(Totals(got[2]))
               IN  /\ Cardinality(risks) = 1 /\ risks \subseteq Int
                   /\ \A v \in risks : v <= fall
                   /\ Volatility(Totals(got[1])) > 0 => "sharpe" \in ratios
                   /\ Len(got[2]) >= 2 =>
                        /\ fall > 0 => "sortino" \in ratios
                        /\ "sortino" \in ratios /\ (\A t \in ToSet(got[2]) : t.total <= 100) =>
                             fall > 0
    <3> DEFINE p == req[w].of
               h == Window(p, YearDays)
               n == Len(h)
               y == Totals(h)
               month == Totals(Window(p, MonthDays))
    <3>1. /\ req[w].got[1] = Window(p, MonthDays) /\ req[w].got[4] = Window(p, MonthDays)
          /\ req[w].got[2] = h /\ req[w].got[3] = h
          /\ \A t \in ToSet(h) : t.total > 0
      BY <1>1, <2>2, HealthReads
    <3>2. /\ n \in Nat /\ y \in [1 .. n -> Nat \ {0}]
          /\ \A i \in 1 .. n : h[i] \in ToSet(h) /\ y[i] = h[i].total
      <4> DEFINE S == {t \in PointsOf(p) : now - t.date <= YearDays * TicksPerDay}
                 k == Cardinality(S)
      <4>1. k \in Nat /\ h \in [1 .. k -> S] /\ y \in [1 .. k -> Nat]
        BY <1>1, WindowIs DEF FiguresInv
      <4> HIDE DEF k, S
      <4>2. DOMAIN h = 1 .. n /\ n = k
        BY <4>1
      <4>3. \A i \in 1 .. n : h[i] \in ToSet(h) /\ y[i] = h[i].total
        BY <4>2 DEF ToSet, Totals
      <4> HIDE DEF h, n, y
      <4>4. \A i \in 1 .. n : y[i] \in Nat \ {0}
        BY <3>1, <4>1, <4>2, <4>3
      <4> QED BY <4>1, <4>2, <4>3, <4>4
    <3>3. PICK skipped \in 0 .. n : month = LastOf(y, n, skipped)
      BY <1>1, MonthIsLast DEF FiguresInv
    <3> HIDE DEF p, h, n, y, month
    <3>4. /\ Cardinality(AtRisk(month)) = 1 /\ AtRisk(month) \subseteq Int
          /\ \A v \in AtRisk(month) : v <= Drawdown(y)
      BY <3>2, <3>3, RiskWithinDrawdown
    <3>5. Volatility(month) > 0 => "sharpe" \in FiniteRatios(y)
      BY <3>2, <3>3, SharpeIfVolatile
    <3>6. n >= 2 =>
            /\ Drawdown(y) > 0 => "sortino" \in FiniteRatios(y)
            /\ "sortino" \in FiniteRatios(y) /\ (\A t \in ToSet(h) : t.total <= 100) =>
                 Drawdown(y) > 0
      BY <3>2, SortinoIfFalls
    <3> QED BY <3>1, <3>4, <3>5, <3>6 DEF h, n, y, month
  <2> QED BY <2>1, <2>2 DEF FiguresAgree
<1> QED BY <1>1, FiguresAlways, PTL
===============================================================================

-------------------------------- MODULE Alerts --------------------------------
(***************************************************************************)
(* AlertsService, AlertProcessorService and NotificationService: price     *)
(* alerts, their owners' requests, and processing runs (POST               *)
(* alerts/price/process) that may overlap each other.  The API creates     *)
(* price alerts only, so the two other kinds do not occur.                 *)
(*                                                                         *)
(* One cryptocurrency is enough: alerts do not interact through prices.    *)
(***************************************************************************)
EXTENDS Integers, FiniteSets

CONSTANTS
    Runs,            \* processing runs that may be going on at the same time
    Prices,          \* prices of the cryptocurrency, and targets
    MaxAlerts,       \* bound: alerts ever created
    MaxActivations   \* bound: activations of one alert

VARIABLES
    alerts,      \* the Alert documents, by id
    price,       \* the price that PriceService answers
    pc,          \* what each processing run does next
    queue,       \* the alerts of its snapshot that are still to be processed
    quote,       \* the price its current alert was evaluated with
    activations, \* history: how often each alert became active
    sent,        \* history: how often each alert was mailed
    mailed       \* history: the alerts that were mailed, with the price that was reported

vars == <<alerts, price, pc, queue, quote, activations, sent, mailed>>

ASSUME AlertsAssumption ==
    /\ IsFiniteSet(Runs)
    /\ Prices \subseteq Nat \ {0}
    /\ MaxAlerts \in Nat
    /\ MaxActivations \in Nat

AlertIds == 1 .. MaxAlerts
AlertStatus == {"ACTIVE", "TRIGGERED", "DISABLED"}
NoQuote == 0
NoAlert == [status |-> "none", comparison |-> "ABOVE", targetPrice |-> 0]

Init ==
    /\ alerts = [a \in AlertIds |-> NoAlert]
    /\ price \in Prices
    /\ pc = [r \in Runs |-> "idle"]
    /\ queue = [r \in Runs |-> {}]
    /\ quote = [r \in Runs |-> NoQuote]
    /\ activations = [a \in AlertIds |-> 0]
    /\ sent = [a \in AlertIds |-> 0]
    /\ mailed = {}

-----------------------------------------------------------------------------
(* Owners *)

Stored(a) == alerts[a].status \in AlertStatus

CreateAlert(a) ==
    /\ alerts[a].status = "none"
    /\ \A b \in 1 .. a - 1 : alerts[b].status # "none"
    /\ \E comparison \in {"ABOVE", "BELOW"}, target \in Prices :
           alerts' = [alerts EXCEPT ![a] = [status |-> "ACTIVE",
                                            comparison |-> comparison,
                                            targetPrice |-> target]]
    /\ activations' = [activations EXCEPT ![a] = 1]
    /\ UNCHANGED <<price, pc, queue, quote, sent, mailed>>

\* PATCH :alertId/status: any status, from any status.
PatchStatus(a, status) ==
    /\ Stored(a)
    /\ alerts' = [alerts EXCEPT ![a].status = status]
    /\ IF status = "ACTIVE" /\ alerts[a].status # "ACTIVE"
         THEN /\ activations[a] < MaxActivations
              /\ activations' = [activations EXCEPT ![a] = @ + 1]
         ELSE UNCHANGED activations
    /\ UNCHANGED <<price, pc, queue, quote, sent, mailed>>

\* No alert is ever in a watchlist (nothing sets watchlistIds), so the first two of
\* deleteAlert's three calls change nothing.
DeleteAlert(a) ==
    /\ Stored(a)
    /\ alerts' = [alerts EXCEPT ![a].status = "deleted"]
    /\ UNCHANGED <<price, pc, queue, quote, activations, sent, mailed>>

PriceMoves ==
    /\ price' \in Prices
    /\ UNCHANGED <<alerts, pc, queue, quote, activations, sent, mailed>>

-----------------------------------------------------------------------------
(* Processing *)

Goto(r, label) == pc' = [pc EXCEPT ![r] = label]

\* findMany: the snapshot of a run.  (A run without active alerts does nothing.)
Begin(r) ==
    /\ pc[r] = "idle"
    /\ \E a \in AlertIds : alerts[a].status = "ACTIVE"
    /\ queue' = [queue EXCEPT ![r] = {a \in AlertIds : alerts[a].status = "ACTIVE"}]
    /\ Goto(r, "evaluate")
    /\ UNCHANGED <<alerts, price, quote, activations, sent, mailed>>

Current(r) == CHOOSE a \in queue[r] : \A b \in queue[r] : a <= b

\* MUTANT of Continue
StopsAfterOne(r) ==
    /\ queue' = [queue EXCEPT ![r] = {}]
    /\ quote' = [quote EXCEPT ![r] = NoQuote]
    /\ Goto(r, "idle")

\* On to the next alert of the loop, or the end of the run.
Continue(r) ==
    /\ queue' = [queue EXCEPT ![r] = @ \ {Current(r)}]
    /\ quote' = [quote EXCEPT ![r] = NoQuote]
    /\ Goto(r, IF queue[r] = {Current(r)} THEN "idle" ELSE "evaluate")

Abort(r) ==
    /\ queue' = [queue EXCEPT ![r] = {}]
    /\ quote' = [quote EXCEPT ![r] = NoQuote]
    /\ Goto(r, "idle")

\* MUTANT of IsTriggered
IsTriggeredOrEqual(a, p) ==
    IF alerts[a].comparison = "ABOVE" THEN p >= alerts[a].targetPrice
                                      ELSE p <= alerts[a].targetPrice

IsTriggered(a, p) ==
    IF alerts[a].comparison = "ABOVE" THEN p > alerts[a].targetPrice
                                      ELSE p < alerts[a].targetPrice

Triggers(r) ==
    /\ pc[r] = "evaluate"
    /\ IsTriggered(Current(r), price)
    /\ quote' = [quote EXCEPT ![r] = price]
    /\ Goto(r, "update")
    /\ UNCHANGED <<alerts, price, queue, activations, sent, mailed>>

Passes(r) ==
    /\ pc[r] = "evaluate"
    /\ ~IsTriggered(Current(r), price)
    /\ Continue(r)
    /\ UNCHANGED <<alerts, price, activations, sent, mailed>>

\* A price that cannot be fetched counts as a condition that does not hold.
PriceUnknown(r) ==
    /\ pc[r] = "evaluate"
    /\ Continue(r)
    /\ UNCHANGED <<alerts, price, activations, sent, mailed>>

\* MUTANT of UpdateAlertStatus
UpdatesTimestampOnly(r) ==
    /\ pc[r] = "update"
    /\ IF Stored(Current(r)) THEN Goto(r, "notify") /\ UNCHANGED <<queue, quote>>
                             ELSE Abort(r)
    /\ UNCHANGED <<alerts, price, activations, sent, mailed>>

\* The status is not read again; an alert that is gone ends the whole run.
UpdateAlertStatus(r) ==
    /\ pc[r] = "update"
    /\ IF Stored(Current(r))
         THEN /\ alerts' = [alerts EXCEPT ![Current(r)].status = "TRIGGERED"]
              /\ Goto(r, "notify")
              /\ UNCHANGED <<queue, quote>>
         ELSE Abort(r) /\ UNCHANGED alerts
    /\ UNCHANGED <<price, activations, sent, mailed>>

\* The mail reports the price of the evaluation.
SendAlertNotifications(r) ==
    /\ pc[r] = "notify"
    /\ sent' = [sent EXCEPT ![Current(r)] = @ + 1]
    /\ mailed' = mailed \cup {<<Current(r), quote[r]>>}
    /\ Continue(r)
    /\ UNCHANGED <<alerts, price, activations>>

\* deliverNotification catches the error, and nothing records it.
DeliveryFails(r) ==
    /\ pc[r] = "notify"
    /\ Continue(r)
    /\ UNCHANGED <<alerts, price, activations, sent, mailed>>

\* A database call is rejected, or the process dies: the loop is left.
Fail(r) ==
    /\ pc[r] # "idle"
    /\ Abort(r)
    /\ UNCHANGED <<alerts, price, activations, sent, mailed>>

Goes(r) == Triggers(r) \/ Passes(r) \/ UpdateAlertStatus(r) \/ SendAlertNotifications(r)

Fault(r) == PriceUnknown(r) \/ DeliveryFails(r) \/ Fail(r)

Step(r) == Goes(r) \/ Fault(r)

Next ==
    \/ \E a \in AlertIds : CreateAlert(a) \/ DeleteAlert(a)
    \/ \E a \in AlertIds, status \in AlertStatus : PatchStatus(a, status)
    \/ PriceMoves
    \/ \E r \in Runs : Begin(r) \/ Step(r)

\* A run that was started goes on: Node resumes it when its call is answered.
Fairness == \A r \in Runs : WF_vars(Step(r))

Spec == Init /\ [][Next]_vars /\ Fairness

-----------------------------------------------------------------------------
\* Every mail reports a price beyond the target of its alert, however long ago the
\* snapshot and whatever the price does in between.
MailsAreJustified ==
    \A m \in mailed :
        IF alerts[m[1]].comparison = "ABOVE" THEN m[2] > alerts[m[1]].targetPrice
                                             ELSE m[2] < alerts[m[1]].targetPrice

\* A run mails an alert once for each time it was active, however its owner disables and
\* enables it and whatever fails: with one run at a time, one mail for one activation.
MailsPerActivation ==
    \A a \in AlertIds : sent[a] <= Cardinality(Runs) * activations[a]

\* While somebody starts processing again and again, and failures come to an end (those
\* that a run without failures cannot be taken for), an alert does not stay active for
\* ever with its condition true: no other alert hides it.
NoAlertStarves ==
    /\ \E r \in Runs : []<><<Begin(r)>>_vars
    /\ ~[]<><<\E r \in Runs : Fault(r) /\ ~Goes(r)>>_vars
    => \A a \in AlertIds : []<>~(alerts[a].status = "ACTIVE" /\ IsTriggered(a, price))
=============================================================================

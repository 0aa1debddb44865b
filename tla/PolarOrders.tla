---------------------------- MODULE PolarOrders ----------------------------
(***************************************************************************)
(* Orders, subscriptions and refunds: what the Polar webhook does with     *)
(* them, and which customers' keys the server then honours                 *)
(* (billing/polar_webhook.py, the revocations of                           *)
(* agent_interface/identity.py).                                           *)
(*                                                                         *)
(* Polar delivers an event until it is answered with 200, maybe to two     *)
(* endpoints at once and in any order.  A step of a handler ends at an     *)
(* await.  The tables polar_order_events and ungranted_orders and the      *)
(* ledger outlive the process; its set of revoked customers does not.      *)
(***************************************************************************)
EXTENDS Naturals, FiniteSets

CONSTANTS
    Orders,         \* what events go by: the ids of orders and of subscriptions
    Subscriptions,  \* those that are subscriptions
    Customers,      \* customer ids
    Owner,          \* Owner[o]: the customer of order o
    Unmapped,       \* orders of a product that maps to no credits
    Requests,       \* webhook requests that can be under way at once
    Lossy,          \* may a request to a table or function fail or come late?
    MaxAttempts,    \* attempts at a grant (3)
    MaxCrashes      \* bound on crashes of the server process

ASSUME PolarAssumption ==
    /\ Owner \in [Orders -> Customers]
    /\ Subscriptions \subseteq Orders /\ Unmapped \subseteq Orders
    /\ Lossy \in BOOLEAN
    /\ MaxAttempts \in Nat \ {0} /\ MaxCrashes \in Nat

VARIABLES
    sale,       \* sale[o]: what Polar knows of order o
    handler,    \* handler[d]: the event that request d carries and where it stands
    processed,  \* orders with a "processed" row
    revokedRows,\* customers with a "revoked" row
    granted,    \* orders whose credits are in the ledger
    lateGrants, \* grants given up on by their caller, yet to be served
    escalated,  \* orders reported as paid and not delivered (row, log, Telegram)
    unstuck,    \* customers reported as "REFUND DID NOT STICK"
    minted,     \* orders for which a key was minted
    revoked,    \* _revoked_customer_ids, in memory
    hydrated,   \* _revocation_hydrated, in memory
    refundTold, \* customers whose refund was answered with 200
    abandoned,  \* orders whose handler died with its process after the mint
    deaths      \* how many crashes happened

ledger == <<granted, lateGrants>>
memory == <<revoked, hydrated>>
refunds == <<revokedRows, unstuck, memory, refundTold>>
orders == <<processed, ledger, escalated, minted>>
history == <<abandoned, deaths>>
vars == <<sale, handler, orders, refunds, history>>

----------------------------------------------------------------------------
SubscriptionEvents == {"subscription.created", "subscription.active", "subscription.revoked"}
EventType == {"order.created", "order.paid", "order.refunded"} \cup SubscriptionEvents
RevokeEvents == {"order.refunded", "subscription.revoked"}
\* order.refunded stands for refund.created too, which is handled alike.
\* An order.created may say that the order is not paid; else it says that it
\* is, or has no status at all.
Event == [type : EventType, order : Orders, unpaid : BOOLEAN]

Sale == {"placed", "paid", "refunded"}
Stage == {"check", "mark", "grant", "record", "mail", "persist"}
Handler == [at : Stage \cup {"dead"}, event : Event, attempts : 0..MaxAttempts]
Idle == [at |-> "idle"]

TypeOK ==
    /\ sale \in [Orders -> Sale]
    /\ handler \in [Requests -> Handler \cup {Idle}]
    /\ {processed, granted, lateGrants, escalated, minted, abandoned}
         \subseteq SUBSET Orders
    /\ {revokedRows, unstuck, revoked, refundTold} \subseteq SUBSET Customers
    /\ hydrated \in BOOLEAN
    /\ deaths \in 0..MaxCrashes

Init ==
    /\ sale = [o \in Orders |-> "placed"]
    /\ handler = [d \in Requests |-> Idle]
    /\ processed = {} /\ granted = {} /\ lateGrants = {}
    /\ escalated = {} /\ minted = {}
    /\ revokedRows = {} /\ unstuck = {} /\ refundTold = {}
    /\ revoked = {} /\ hydrated = FALSE
    /\ abandoned = {} /\ deaths = 0

At(d, stage) == handler[d].at = stage
Order(d) == handler[d].event.order
Customer(d) == Owner[Order(d)]
Goto(d, stage) == handler' = [handler EXCEPT ![d].at = stage, ![d].attempts = 0]
AnswerOK(d) == handler' = [handler EXCEPT ![d] = Idle]

----------------------------------------------------------------------------
(* Polar.                                                                  *)

Pay(o) ==
    /\ sale[o] = "placed"
    /\ sale' = [sale EXCEPT ![o] = "paid"]
    /\ UNCHANGED <<handler, orders, refunds, history>>

Refund(o) ==
    /\ sale[o] = "paid"
    /\ sale' = [sale EXCEPT ![o] = "refunded"]
    /\ UNCHANGED <<handler, orders, refunds, history>>

\* What Polar may tell of an order or a subscription, be it old news.
Sent(e) ==
    /\ e.order \in Subscriptions <=> e.type \in SubscriptionEvents
    /\ e.type \in {"order.paid", "subscription.active"} => sale[e.order] # "placed"
    /\ e.type \in RevokeEvents => sale[e.order] = "refunded"
    /\ e.unpaid => e.type = "order.created"

\* Every grant event counts as money that cleared, a subscription.created and
\* an order.created without a status too; only one that says that it is not
\* paid is skipped.
MeansPaid(e) == ~e.unpaid

\* handle_polar_event up to its first await.  A refund takes its customer's
\* access in memory at once.
Handle(d, e) ==
    /\ \/ /\ e.type \in RevokeEvents
          /\ revoked' = revoked \cup {Owner[e.order]}
          /\ handler' = [handler EXCEPT ![d] = [at |-> "persist", event |-> e, attempts |-> 0]]
       \/ /\ e.type \notin RevokeEvents /\ MeansPaid(e)
          /\ handler' = [handler EXCEPT ![d] = [at |-> "check", event |-> e, attempts |-> 0]]
          /\ UNCHANGED revoked
       \/ /\ ~MeansPaid(e)
          /\ AnswerOK(d)
          /\ UNCHANGED revoked
    /\ UNCHANGED <<sale, orders, revokedRows, unstuck, hydrated, refundTold, history>>

Deliver(d) ==
    /\ At(d, "idle")
    /\ \E e \in Event : Sent(e) /\ Handle(d, e)

\* No answer came: Polar sends the event again.
Redeliver(d) == At(d, "dead") /\ Handle(d, handler[d].event)

----------------------------------------------------------------------------
(* The handler of an order.                                                *)

\* await _already_processed, which reads a failure as no; then the key is
\* minted, without an await.
Check(d) ==
    /\ At(d, "check")
    /\ \/ /\ Order(d) \in processed
          /\ AnswerOK(d) /\ UNCHANGED minted
       \/ /\ Order(d) \notin processed \/ Lossy
          /\ minted' = minted \cup {Order(d)} /\ Goto(d, "mark")
    /\ UNCHANGED <<sale, processed, ledger, escalated, refunds, history>>

\* await _mark_processed, best effort; then the product is priced.
MarkProcessed(d) ==
    /\ At(d, "mark")
    /\ \/ processed' = processed \cup {Order(d)}
       \/ Lossy /\ UNCHANGED processed
    /\ Goto(d, IF Order(d) \in Unmapped THEN "mail" ELSE "grant")
    /\ UNCHANGED <<sale, ledger, escalated, minted, refunds, history>>

\* await credit_grant, keyed by the order: a repeated grant adds nothing.
GrantSucceeds(d) ==
    /\ At(d, "grant")
    /\ granted' = granted \cup {Order(d)}
    /\ Goto(d, "mail")
    /\ UNCHANGED <<sale, processed, lateGrants, escalated, minted, refunds, history>>

\* Where a failed attempt leads: to the next one, or to the report.
AfterFailureMisnamed(n) == IF n < MaxAttempts THEN "grant" ELSE "give_up"
AfterFailureUnrecorded(n) == IF n < MaxAttempts THEN "grant" ELSE "mail"
AfterFailure(n) == IF n < MaxAttempts THEN "grant" ELSE "record"

\* The grant raises, although it was served, or will be, or never is.
GrantFails(d) ==
    /\ Lossy /\ At(d, "grant")
    /\ \/ granted' = granted \cup {Order(d)} /\ UNCHANGED lateGrants
       \/ lateGrants' = lateGrants \cup {Order(d)} /\ UNCHANGED granted
       \/ UNCHANGED ledger
    /\ LET n == handler[d].attempts + 1
       IN  handler' = [handler EXCEPT ![d].attempts = n, ![d].at = AfterFailure(n)]
    /\ UNCHANGED <<sale, processed, escalated, minted, refunds, history>>

LateGrant(o) ==
    /\ o \in lateGrants
    /\ lateGrants' = lateGrants \ {o}
    /\ granted' = granted \cup {o}
    /\ UNCHANGED <<sale, handler, processed, escalated, minted, refunds, history>>

\* _record_ungranted_order: a row if the table takes it, else a log line, and
\* an alert.
RecordUngranted(d) ==
    /\ At(d, "record")
    /\ escalated' = escalated \cup {Order(d)}
    /\ Goto(d, "mail")
    /\ UNCHANGED <<sale, processed, ledger, minted, refunds, history>>

\* The welcome mail, the key mail and the alert, all best effort; then 200.
MailKey(d) ==
    /\ At(d, "mail")
    /\ AnswerOK(d)
    /\ UNCHANGED <<sale, orders, refunds, history>>

----------------------------------------------------------------------------
(* Revocations.                                                            *)

\* revoke_customer's row.  A failed insert, which may have been served, is
\* escalated.
Escalation(failed, c) == IF failed THEN {c} ELSE {}

PersistRevocation(d) ==
    /\ At(d, "persist")
    /\ \E served, failed \in BOOLEAN :
          /\ served \/ failed
          /\ failed => Lossy
          /\ revokedRows' = IF served THEN revokedRows \cup {Customer(d)} ELSE revokedRows
          /\ unstuck' = unstuck \cup Escalation(failed, Customer(d))
    /\ refundTold' = refundTold \cup {Customer(d)}
    /\ AnswerOK(d)
    /\ UNCHANGED <<sale, orders, memory, history>>

\* _hydrate_revocations: latched by a complete read only.
HydratedEarly(complete) == TRUE
Hydrated(complete) == complete

\* A key is used: validate_token hydrates before it looks the customer up.
Validate ==
    /\ minted # {} /\ ~hydrated
    /\ \E complete \in BOOLEAN :
          /\ ~complete => Lossy
          /\ revoked' = IF complete THEN revoked \cup revokedRows ELSE revoked
          /\ hydrated' = Hydrated(complete)
    /\ UNCHANGED <<sale, handler, orders, revokedRows, unstuck, refundTold, history>>

----------------------------------------------------------------------------
\* The process dies and starts again: its handlers never answer.
Crash ==
    /\ deaths < MaxCrashes
    /\ deaths' = deaths + 1
    /\ handler' = [d \in Requests |->
                     IF At(d, "idle") THEN Idle ELSE [handler[d] EXCEPT !.at = "dead", !.attempts = 0]]
    /\ abandoned' = abandoned \cup
         {Order(d) : d \in {x \in Requests : handler[x].at \in {"mark", "grant", "record"}}}
    /\ revoked' = {} /\ hydrated' = FALSE
    /\ UNCHANGED <<sale, orders, revokedRows, unstuck, refundTold>>

Proceed(d) ==
    \/ Check(d) \/ MarkProcessed(d) \/ GrantSucceeds(d) \/ GrantFails(d)
    \/ RecordUngranted(d) \/ MailKey(d) \/ PersistRevocation(d)

Next ==
    \/ \E o \in Orders : Pay(o) \/ Refund(o) \/ LateGrant(o)
    \/ \E d \in Requests : Deliver(d) \/ Redeliver(d) \/ Proceed(d)
    \/ Validate
    \/ Crash

Spec == Init /\ [][Next]_vars

----------------------------------------------------------------------------
(* Properties.                                                             *)

\* An order or a subscription is not forgotten: once it is marked, so that no
\* later event grants it, its credits are in the ledger, or a person was told,
\* or a handler is still at it, or the handler died with its process.
NoOrderForgotten ==
    \A o \in processed \ Unmapped :
        \/ o \in granted \cup escalated \cup abandoned
        \/ \E d \in Requests : handler[d].at \in {"grant", "record"} /\ Order(d) = o

\* Once a refund was answered, its customer's key is refused by the process,
\* unless that has not read the table since it started, or a person was told
\* that the refund did not stick.
RefundTakesAccess ==
    hydrated => refundTold \subseteq revoked \cup unstuck
============================================================================

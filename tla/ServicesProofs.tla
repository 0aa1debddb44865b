--------------------------- MODULE ServicesProofs ---------------------------
(***************************************************************************)
(* Proofs about the parts of Services that agents pay with: the orders of  *)
(* PolarOrders, the keys of FreeKeys and the quota of DataQuota.           *)
(***************************************************************************)
EXTENDS Services, FiniteSetTheorems, TLAPS

(***************************************************************************)
(* PolarOrders: what holds of orders and refunds for any number of         *)
(* orders, customers, webhook requests under way, attempts and crashes,    *)
(* and in whichever order, and however often, Polar tells of them.         *)
(***************************************************************************)


\* A handler has an attempt left until it has used all of them.
AttemptLeft ==
    \A d \in Requests :
        handler[d].at \in {"check", "mark", "grant"} => handler[d].attempts < MaxAttempts

LEMMA BusyHandler ==
    ASSUME TypeOK, NEW d \in Requests, handler[d].at # "idle"
    PROVE  /\ handler[d] \in Handler
           /\ Order(d) \in Orders /\ Customer(d) \in Customers
<1>1. handler[d] \in Handler
  BY DEF TypeOK, Idle
<1>2. Order(d) \in Orders
  BY <1>1 DEF Handler, Event, Order
<1> QED BY <1>1, <1>2, PolarAssumption DEF Customer

\* A handler that moves on keeps its type, and so does one that answers.
LEMMA GotoType ==
    ASSUME TypeOK, AttemptLeft, NEW d \in Requests, handler[d].at # "idle",
           NEW stage \in Stage, Goto(d, stage)
    PROVE  /\ handler' \in [Requests -> Handler \cup {Idle}]
           /\ AttemptLeft'
<1>1. handler[d] \in Handler
  BY BusyHandler
<1> DEFINE moved == [handler[d] EXCEPT !.at = stage]
           x == [moved EXCEPT !.attempts = 0]
<1>2. 0 \in 0..MaxAttempts /\ 0 < MaxAttempts
  BY PolarAssumption
<1>3. moved \in Handler /\ moved.at = stage
  BY <1>1 DEF Handler
<1>4. x \in Handler /\ x.at = stage /\ x.attempts < MaxAttempts
  <2> HIDE DEF moved
  <2> QED BY <1>2, <1>3 DEF Handler
<1>5. handler' = [handler EXCEPT ![d] = x]
  BY DEF Goto, TypeOK
<1> HIDE DEF x
<1> QED BY <1>4, <1>5 DEF TypeOK, AttemptLeft

LEMMA AnswerType ==
    ASSUME TypeOK, AttemptLeft, NEW d \in Requests, AnswerOK(d)
    PROVE  /\ handler' \in [Requests -> Handler \cup {Idle}]
           /\ AttemptLeft'
BY DEF AnswerOK, Idle, TypeOK, AttemptLeft

LEMMA HandleType ==
    ASSUME TypeOK, AttemptLeft, NEW d \in Requests, NEW e \in Event, Handle(d, e)
    PROVE  TypeOK' /\ AttemptLeft'
<1>1. \A at \in Stage : [at |-> at, event |-> e, attempts |-> 0] \in Handler
  BY PolarAssumption DEF Handler
<1>2. 0 < MaxAttempts /\ Owner[e.order] \in Customers
  BY PolarAssumption DEF Event
<1>3. \/ AnswerOK(d)
      \/ \E at \in Stage : handler' = [handler EXCEPT ![d] = [at |-> at, event |-> e, attempts |-> 0]]
  BY DEF Handle, Stage
<1>4. handler' \in [Requests -> Handler \cup {Idle}] /\ AttemptLeft'
  <2>1. CASE AnswerOK(d)
    BY <2>1, AnswerType
  <2>2. ASSUME NEW at \in Stage,
               handler' = [handler EXCEPT ![d] = [at |-> at, event |-> e, attempts |-> 0]]
        PROVE  handler' \in [Requests -> Handler \cup {Idle}] /\ AttemptLeft'
    BY <1>1, <1>2, <2>2 DEF TypeOK, AttemptLeft
  <2> QED BY <1>3, <2>1, <2>2
<1>5. revoked' \subseteq Customers
  BY <1>2 DEF Handle, TypeOK
<1>6. UNCHANGED <<sale, orders, revokedRows, unstuck, hydrated, refundTold, history>>
  BY DEF Handle
<1> QED BY <1>4, <1>5, <1>6 DEF TypeOK, orders, ledger, history

\* Every variable stays in its type, and nobody attempts a grant more often
\* than the code means to.
THEOREM PolarTypeCorrect == Spec => []TypeOK
<1>1. Init => TypeOK /\ AttemptLeft
  <2> SUFFICES ASSUME Init PROVE TypeOK /\ AttemptLeft
    OBVIOUS
  <2>1. \A d \in Requests : handler[d].at = "idle"
    BY DEF Init, Idle
  <2>2. sale \in [Orders -> Sale] /\ handler \in [Requests -> Handler \cup {Idle}]
    BY DEF Init, Sale
  <2>3. deaths \in 0..MaxCrashes
    BY PolarAssumption DEF Init
  <2>4. hydrated \in BOOLEAN
    BY Zenon DEF Init
  <2> QED BY <2>1, <2>2, <2>3, <2>4 DEF Init, TypeOK, AttemptLeft
<1>2. TypeOK /\ AttemptLeft /\ [Next]_vars => TypeOK' /\ AttemptLeft'
  <2> SUFFICES ASSUME TypeOK, AttemptLeft, [Next]_vars PROVE TypeOK' /\ AttemptLeft'
    OBVIOUS
  <2> USE DEF orders, ledger, memory, refunds, history
  <2>1. ASSUME NEW o \in Orders, Pay(o) \/ Refund(o) PROVE TypeOK' /\ AttemptLeft'
    BY <2>1 DEF Pay, Refund, TypeOK, AttemptLeft, Sale
  <2>2. ASSUME NEW o \in Orders, LateGrant(o) PROVE TypeOK' /\ AttemptLeft'
    BY <2>2 DEF LateGrant, TypeOK, AttemptLeft
  <2>3. ASSUME NEW d \in Requests, Deliver(d) PROVE TypeOK' /\ AttemptLeft'
    BY <2>3, HandleType DEF Deliver
  <2>4. ASSUME NEW d \in Requests, Redeliver(d) PROVE TypeOK' /\ AttemptLeft'
    <3>1. handler[d].event \in Event
      BY <2>4, BusyHandler DEF Redeliver, At, Handler
    <3> QED BY <2>4, <3>1, HandleType DEF Redeliver
  <2>5. ASSUME NEW d \in Requests, Check(d) PROVE TypeOK' /\ AttemptLeft'
    <3>1. Order(d) \in Orders /\ handler[d].attempts < MaxAttempts
      BY <2>5, BusyHandler DEF Check, At, AttemptLeft
    <3>2. handler' \in [Requests -> Handler \cup {Idle}] /\ AttemptLeft'
      BY <2>5, <3>1, GotoType, AnswerType DEF Check, At, Stage
    <3> QED BY <2>5, <3>1, <3>2 DEF Check, TypeOK
  <2>6. ASSUME NEW d \in Requests, MarkProcessed(d) PROVE TypeOK' /\ AttemptLeft'
    <3>1. Order(d) \in Orders /\ handler[d].attempts < MaxAttempts
      BY <2>6, BusyHandler DEF MarkProcessed, At, AttemptLeft
    <3>2. PICK stage \in {"mail", "grant"} : Goto(d, stage)
      BY <2>6 DEF MarkProcessed
    <3>3. handler' \in [Requests -> Handler \cup {Idle}] /\ AttemptLeft'
      BY <2>6, <3>1, <3>2, GotoType DEF MarkProcessed, At, Stage
    <3> QED BY <2>6, <3>1, <3>3 DEF MarkProcessed, TypeOK
  <2>7. ASSUME NEW d \in Requests, GrantSucceeds(d) PROVE TypeOK' /\ AttemptLeft'
    <3>1. Order(d) \in Orders
      BY <2>7, BusyHandler DEF GrantSucceeds, At
    <3>2. handler' \in [Requests -> Handler \cup {Idle}] /\ AttemptLeft'
      BY <2>7, GotoType DEF GrantSucceeds, At, Stage
    <3> QED BY <2>7, <3>1, <3>2 DEF GrantSucceeds, TypeOK
  <2>8. ASSUME NEW d \in Requests, GrantFails(d) PROVE TypeOK' /\ AttemptLeft'
    <3>1. /\ handler[d] \in Handler /\ Order(d) \in Orders
          /\ handler[d].attempts < MaxAttempts
      BY <2>8, BusyHandler DEF GrantFails, At, AttemptLeft
    <3> DEFINE n == handler[d].attempts + 1
               x == [handler[d] EXCEPT !.attempts = n, !.at = AfterFailure(n)]
    <3>2. n \in 0..MaxAttempts
      BY <3>1, PolarAssumption DEF Handler
    <3>3. /\ AfterFailure(n) \in {"grant", "record"}
          /\ AfterFailure(n) = "grant" => n < MaxAttempts
      BY DEF AfterFailure
    <3>4. handler' = [handler EXCEPT ![d] = x]
      BY <2>8 DEF GrantFails, TypeOK
    <3>5. x \in Handler /\ (x.at = "grant" => x.attempts < MaxAttempts) /\ x.at \in {"grant", "record"}
      BY <3>1, <3>2, <3>3 DEF Handler, Stage
    <3> HIDE DEF x
    <3>6. handler' \in [Requests -> Handler \cup {Idle}] /\ AttemptLeft'
      BY <3>4, <3>5 DEF TypeOK, AttemptLeft
    <3> QED BY <2>8, <3>1, <3>6 DEF GrantFails, TypeOK
  <2>9. ASSUME NEW d \in Requests, RecordUngranted(d) PROVE TypeOK' /\ AttemptLeft'
    <3>1. Order(d) \in Orders
      BY <2>9, BusyHandler DEF RecordUngranted, At
    <3>2. handler' \in [Requests -> Handler \cup {Idle}] /\ AttemptLeft'
      BY <2>9, GotoType DEF RecordUngranted, At, Stage
    <3> QED BY <2>9, <3>1, <3>2 DEF RecordUngranted, TypeOK
  <2>10. ASSUME NEW d \in Requests, MailKey(d) PROVE TypeOK' /\ AttemptLeft'
    BY <2>10, AnswerType DEF MailKey, TypeOK
  <2>11. ASSUME NEW d \in Requests, PersistRevocation(d) PROVE TypeOK' /\ AttemptLeft'
    <3>1. Customer(d) \in Customers
      BY <2>11, BusyHandler DEF PersistRevocation, At
    <3>2. revokedRows' \subseteq Customers /\ unstuck' \subseteq Customers
      BY <2>11, <3>1 DEF PersistRevocation, Escalation, TypeOK
    <3>3. handler' \in [Requests -> Handler \cup {Idle}] /\ AttemptLeft'
      BY <2>11, AnswerType DEF PersistRevocation
    <3> QED BY <2>11, <3>1, <3>2, <3>3 DEF PersistRevocation, TypeOK
  <2>12. CASE Validate
    <3>1. hydrated' \in BOOLEAN /\ revoked' \subseteq Customers
      BY <2>12 DEF Validate, Hydrated, TypeOK
    <3> QED BY <2>12, <3>1 DEF Validate, TypeOK, AttemptLeft
  <2>13. CASE Crash
    <3>1. ASSUME NEW d \in Requests
          PROVE  /\ handler'[d] \in Handler \cup {Idle}
                 /\ handler'[d].at \in {"idle", "dead"}
      <4>1. handler'[d] = IF At(d, "idle") THEN Idle ELSE [handler[d] EXCEPT !.at = "dead", !.attempts = 0]
        BY <2>13 DEF Crash
      <4>2. CASE At(d, "idle")
        BY <4>1, <4>2 DEF Idle
      <4>3. CASE ~At(d, "idle")
        <5>1. handler[d] \in Handler
          BY <4>3, BusyHandler DEF At
        <5>2. handler'[d] = [at |-> "dead", event |-> handler[d].event, attempts |-> 0]
          BY <4>1, <4>3, <5>1 DEF Handler
        <5>3. 0 \in 0..MaxAttempts
          BY PolarAssumption
        <5> QED BY <5>1, <5>2, <5>3 DEF Handler
      <4> QED BY <4>2, <4>3
    <3>2. handler' \in [Requests -> Handler \cup {Idle}] /\ AttemptLeft'
      BY <2>13, <3>1 DEF Crash, AttemptLeft
    <3>3. abandoned' \subseteq Orders
      <4>1. \A d \in Requests : handler[d].at \in {"mark", "grant", "record"} => Order(d) \in Orders
        BY BusyHandler
      <4> QED BY <2>13, <4>1 DEF Crash, TypeOK
    <3>4. deaths' \in 0..MaxCrashes
      <4>1. deaths < MaxCrashes /\ deaths' = deaths + 1
        BY <2>13 DEF Crash
      <4>2. deaths \in 0..MaxCrashes
        BY DEF TypeOK
      <4> QED BY <4>1, <4>2, PolarAssumption
    <3> QED BY <2>13, <3>2, <3>3, <3>4 DEF Crash, TypeOK
  <2>14. CASE UNCHANGED vars
    BY <2>14 DEF vars, TypeOK, AttemptLeft
  <2> QED
    BY <2>1, <2>2, <2>3, <2>4, <2>5, <2>6, <2>7, <2>8, <2>9, <2>10, <2>11,
       <2>12, <2>13, <2>14 DEF Next, Proceed
<1> QED BY <1>1, <1>2, PTL DEF Spec
----------------------------------------------------------------------------
(* Orders are not forgotten.  The property is inductive: a handler          *)
(* that leaves the grant behind has granted it, reported it, or died.       *)

\* An order is taken care of once and for all, or by a handler.
Settled(o) == o \in granted \cup escalated \cup abandoned
HandledBy(d, o) == handler[d].at \in {"grant", "record"} /\ Order(d) = o

\* Steps that mark no order and forget none.
LEMMA NoneForgotten ==
    ASSUME NoOrderForgotten, processed' \subseteq processed,
           granted \cup escalated \cup abandoned \subseteq
               granted' \cup escalated' \cup abandoned',
           \A d \in Requests : handler[d].at \in {"grant", "record"} =>
               \/ handler'[d].at \in {"grant", "record"} /\ Order(d)' = Order(d)
               \/ Order(d) \in granted' \cup escalated' \cup abandoned'
    PROVE  NoOrderForgotten'
<1> SUFFICES ASSUME NEW o \in processed' \ Unmapped
             PROVE  Settled(o)' \/ \E d \in Requests : HandledBy(d, o)'
  BY DEF NoOrderForgotten, Settled, HandledBy
<1>1. Settled(o) \/ \E d \in Requests : HandledBy(d, o)
  BY DEF NoOrderForgotten, Settled, HandledBy
<1>2. Settled(o) => Settled(o)'
  BY DEF Settled
<1>3. ASSUME NEW d \in Requests, HandledBy(d, o)
      PROVE  HandledBy(d, o)' \/ Settled(o)'
  BY <1>3 DEF HandledBy, Settled
<1> QED BY <1>1, <1>2, <1>3

\* An order whose row says processed has its credits, or a person was
\* told, or its handler is at it or died with the process: however many
\* handlers, attempts, failures and late grants there are.
THEOREM NoneIsForgotten == Spec => []NoOrderForgotten
<1>1. Init => NoOrderForgotten
  BY DEF Init, NoOrderForgotten
<1>2. TypeOK /\ NoOrderForgotten /\ [Next]_vars => NoOrderForgotten'
  <2> SUFFICES ASSUME TypeOK, NoOrderForgotten, [Next]_vars PROVE NoOrderForgotten'
    OBVIOUS
  <2> USE DEF orders, ledger, memory, refunds, history
  <2>1. ASSUME handler' = handler, processed' = processed,
               granted \subseteq granted', UNCHANGED <<escalated, abandoned>>
        PROVE  NoOrderForgotten'
    BY <2>1, NoneForgotten DEF HandledBy, Order
  <2>2. ASSUME NEW o \in Orders, Pay(o) \/ Refund(o) \/ LateGrant(o)
        PROVE  NoOrderForgotten'
    BY <2>1, <2>2 DEF Pay, Refund, LateGrant
  <2>3. ASSUME NEW d \in Requests, handler[d].at \notin {"grant", "record"},
               \A r \in Requests : r # d => handler'[r] = handler[r],
               UNCHANGED <<processed, granted, escalated, abandoned>>
        PROVE  NoOrderForgotten'
    BY <2>3, NoneForgotten DEF HandledBy, Order
  <2>4. ASSUME NEW d \in Requests, Deliver(d) \/ Redeliver(d) PROVE NoOrderForgotten'
    <3>1. PICK e : Handle(d, e)
      BY <2>4 DEF Deliver, Redeliver
    <3>2. \A r \in Requests : r # d => handler'[r] = handler[r]
      BY <3>1 DEF Handle, AnswerOK, TypeOK
    <3>3. handler[d].at \notin {"grant", "record"}
      BY <2>4 DEF Deliver, Redeliver, At
    <3> QED BY <2>3, <3>1, <3>2, <3>3 DEF Handle
  <2>5. ASSUME NEW d \in Requests,
               Check(d) \/ MailKey(d) \/ PersistRevocation(d)
        PROVE  NoOrderForgotten'
    <3>1. \A r \in Requests : r # d => handler'[r] = handler[r]
      BY <2>5 DEF Check, MailKey, PersistRevocation, AnswerOK, Goto, TypeOK
    <3>2. handler[d].at \notin {"grant", "record"}
      BY <2>5 DEF Check, MailKey, PersistRevocation, At
    <3> QED BY <2>3, <2>5, <3>1, <3>2 DEF Check, MailKey, PersistRevocation
  <2>6. ASSUME NEW d \in Requests, MarkProcessed(d) PROVE NoOrderForgotten'
    <3>1. handler[d] \in Handler /\ handler[d].at = "mark"
      BY <2>6, BusyHandler DEF MarkProcessed, At
    <3>2. /\ handler'[d].event = handler[d].event
          /\ handler'[d].at = IF Order(d) \in Unmapped THEN "mail" ELSE "grant"
          /\ \A r \in Requests : r # d => handler'[r] = handler[r]
      BY <2>6, <3>1 DEF MarkProcessed, Goto, TypeOK, Handler
    <3>3. /\ processed' \subseteq processed \cup {Order(d)}
          /\ UNCHANGED <<granted, escalated, abandoned>>
      BY <2>6 DEF MarkProcessed
    <3>4. ASSUME NEW o \in processed' \ Unmapped
          PROVE  Settled(o)' \/ \E r \in Requests : HandledBy(r, o)'
      <4>1. CASE o = Order(d)
        BY <3>2, <3>4, <4>1 DEF HandledBy, Order
      <4>2. CASE o # Order(d)
        <5>1. o \in processed \ Unmapped
          BY <3>3, <3>4, <4>2
        <5>2. Settled(o) \/ \E r \in Requests : HandledBy(r, o)
          BY <5>1 DEF NoOrderForgotten, Settled, HandledBy
        <5>3. \A r \in Requests : HandledBy(r, o) => HandledBy(r, o)'
          BY <3>1, <3>2 DEF HandledBy, Order
        <5> QED BY <3>3, <5>2, <5>3 DEF Settled
      <4> QED BY <4>1, <4>2
    <3> QED BY <3>4 DEF NoOrderForgotten, Settled, HandledBy
  <2>7. ASSUME NEW d \in Requests, GrantSucceeds(d) \/ RecordUngranted(d)
        PROVE  NoOrderForgotten'
    <3>1. /\ Order(d) \in granted' \cup escalated'
          /\ granted \cup escalated \subseteq granted' \cup escalated'
          /\ UNCHANGED <<processed, abandoned>>
          /\ \A r \in Requests : r # d => handler'[r] = handler[r]
      BY <2>7 DEF GrantSucceeds, RecordUngranted, Goto, TypeOK
    <3> QED BY <3>1, NoneForgotten DEF HandledBy, Order
  <2>8. ASSUME NEW d \in Requests, GrantFails(d) PROVE NoOrderForgotten'
    <3>1. handler[d] \in Handler
      BY <2>8, BusyHandler DEF GrantFails, At
    <3>2. /\ handler'[d].event = handler[d].event
          /\ handler'[d].at \in {"grant", "record"}
          /\ \A r \in Requests : r # d => handler'[r] = handler[r]
      BY <2>8, <3>1 DEF GrantFails, AfterFailure, TypeOK, Handler
    <3>3. granted \subseteq granted' /\ UNCHANGED <<processed, escalated, abandoned>>
      BY <2>8 DEF GrantFails
    <3> QED BY <3>2, <3>3, NoneForgotten DEF HandledBy, Order
  <2>9. CASE Validate
    BY <2>1, <2>9 DEF Validate
  <2>10. CASE Crash
    <3>1. \A d \in Requests : handler[d].at \in {"grant", "record"} => Order(d) \in abandoned'
      BY <2>10 DEF Crash
    <3>2. abandoned \subseteq abandoned' /\ UNCHANGED <<processed, granted, escalated>>
      BY <2>10 DEF Crash
    <3> QED BY <3>1, <3>2, NoneForgotten
  <2>11. CASE UNCHANGED vars
    BY <2>1, <2>11 DEF vars
  <2> QED
    BY <2>2, <2>4, <2>5, <2>6, <2>7, <2>8, <2>9, <2>10, <2>11 DEF Next, Proceed
<1> QED BY <1>1, <1>2, PolarTypeCorrect, PTL DEF Spec

----------------------------------------------------------------------------
(* Refunds take access away.  A refund is in memory while it is written,    *)
(* and in the table, or with a person, once it was answered; and memory     *)
(* that was read from the table holds what the table holds.                 *)

RefundInv ==
    /\ \A d \in Requests : handler[d].at = "persist" => Customer(d) \in revoked
    /\ refundTold \subseteq revokedRows \cup unstuck
    /\ RefundTakesAccess

\* Steps that start no refund and touch no revocation.
LEMMA RefundKept ==
    ASSUME RefundInv, UNCHANGED <<revokedRows, unstuck, revoked, hydrated, refundTold>>,
           \A d \in Requests : handler'[d].at = "persist" => handler'[d] = handler[d]
    PROVE  RefundInv'
BY DEF RefundInv, RefundTakesAccess, Customer, Order

LEMMA MovesOn ==
    ASSUME TypeOK, NEW d \in Requests, NEW stage \in Stage \ {"persist"},
           handler[d].at # "idle", Goto(d, stage)
    PROVE  \A r \in Requests : handler'[r].at = "persist" => handler'[r] = handler[r]
<1>1. handler[d] \in Handler
  BY BusyHandler
<1>2. handler'[d].at = stage
  BY <1>1 DEF Goto, TypeOK, Handler
<1> QED BY <1>2 DEF Goto, TypeOK

LEMMA Answers ==
    ASSUME TypeOK, NEW d \in Requests, AnswerOK(d)
    PROVE  \A r \in Requests : handler'[r].at = "persist" => handler'[r] = handler[r]
BY DEF AnswerOK, Idle, TypeOK

\* The key of a refunded customer is refused from the answer to the refund
\* on, by this process and the ones after it once they have read the table,
\* or a person knows that the refund did not stick.
THEOREM RefundsTakeAccess == Spec => []RefundTakesAccess
<1>1. Init => RefundInv
  BY DEF Init, RefundInv, RefundTakesAccess, Idle
<1>2. TypeOK /\ RefundInv /\ [Next]_vars => RefundInv'
  <2> SUFFICES ASSUME TypeOK, RefundInv, [Next]_vars PROVE RefundInv'
    OBVIOUS
  <2> USE DEF orders, ledger, memory, refunds, history
  <2>1. ASSUME NEW o \in Orders, Pay(o) \/ Refund(o) \/ LateGrant(o) PROVE RefundInv'
    BY <2>1, RefundKept DEF Pay, Refund, LateGrant
  <2>2. ASSUME NEW d \in Requests, Deliver(d) \/ Redeliver(d) PROVE RefundInv'
    <3>1. PICK e : Handle(d, e)
      BY <2>2 DEF Deliver, Redeliver
    <3>2. /\ revoked \subseteq revoked'
          /\ UNCHANGED <<revokedRows, unstuck, hydrated, refundTold>>
      BY <3>1 DEF Handle
    <3>3. \A r \in Requests : r # d => handler'[r] = handler[r]
      BY <3>1 DEF Handle, AnswerOK, TypeOK
    <3>4. handler'[d].at = "persist" => Owner[handler'[d].event.order] \in revoked'
      BY <3>1 DEF Handle, AnswerOK, Idle, TypeOK
    <3> QED BY <3>2, <3>3, <3>4 DEF RefundInv, RefundTakesAccess, Customer, Order
  <2>3. ASSUME NEW d \in Requests, Check(d) PROVE RefundInv'
    <3>1. AnswerOK(d) \/ (handler[d].at # "idle" /\ Goto(d, "mark"))
      BY <2>3 DEF Check, At
    <3> QED BY <2>3, <3>1, RefundKept, MovesOn, Answers DEF Check, Stage
  <2>4. ASSUME NEW d \in Requests, MarkProcessed(d) PROVE RefundInv'
    <3>1. handler[d].at # "idle" /\ (Goto(d, "mail") \/ Goto(d, "grant"))
      BY <2>4 DEF MarkProcessed, At
    <3> QED BY <2>4, <3>1, RefundKept, MovesOn DEF MarkProcessed, Stage
  <2>5. ASSUME NEW d \in Requests, GrantSucceeds(d) \/ RecordUngranted(d)
        PROVE  RefundInv'
    <3>1. handler[d].at # "idle" /\ Goto(d, "mail")
      BY <2>5 DEF GrantSucceeds, RecordUngranted, At
    <3> QED BY <2>5, <3>1, RefundKept, MovesOn DEF GrantSucceeds, RecordUngranted, Stage
  <2>6. ASSUME NEW d \in Requests, GrantFails(d) PROVE RefundInv'
    <3>1. handler[d] \in Handler
      BY <2>6, BusyHandler DEF GrantFails, At
    <3>2. handler'[d].at # "persist" /\ \A r \in Requests : r # d => handler'[r] = handler[r]
      BY <2>6, <3>1 DEF GrantFails, AfterFailure, TypeOK, Handler
    <3> QED BY <2>6, <3>2, RefundKept DEF GrantFails
  <2>7. ASSUME NEW d \in Requests, MailKey(d) PROVE RefundInv'
    BY <2>7, RefundKept, Answers DEF MailKey
  <2>8. ASSUME NEW d \in Requests, PersistRevocation(d) PROVE RefundInv'
    <3>1. Customer(d) \in revoked
      BY <2>8 DEF PersistRevocation, At, RefundInv
    <3>2. /\ revokedRows \subseteq revokedRows' /\ unstuck \subseteq unstuck'
          /\ Customer(d) \in revokedRows' \cup unstuck'
          /\ refundTold' = refundTold \cup {Customer(d)}
          /\ UNCHANGED <<revoked, hydrated>>
      BY <2>8 DEF PersistRevocation, Escalation
    <3>3. \A r \in Requests : handler'[r].at = "persist" => handler'[r] = handler[r]
      BY <2>8, Answers DEF PersistRevocation
    <3> QED BY <3>1, <3>2, <3>3 DEF RefundInv, RefundTakesAccess, Customer, Order
  <2>9. CASE Validate
    <3>1. /\ revoked \subseteq revoked' /\ (hydrated' => revokedRows \subseteq revoked')
          /\ UNCHANGED <<handler, revokedRows, unstuck, refundTold>>
      BY <2>9 DEF Validate, Hydrated
    <3> QED BY <3>1 DEF RefundInv, RefundTakesAccess, Customer, Order
  <2>10. CASE Crash
    <3>1. /\ hydrated' = FALSE
          /\ UNCHANGED <<revokedRows, unstuck, refundTold>>
      BY <2>10 DEF Crash
    <3>2. ASSUME NEW d \in Requests PROVE handler'[d].at # "persist"
      <4>1. handler'[d] = IF At(d, "idle") THEN Idle ELSE [handler[d] EXCEPT !.at = "dead", !.attempts = 0]
        BY <2>10 DEF Crash
      <4>2. CASE At(d, "idle")
        BY <4>1, <4>2 DEF Idle
      <4>3. CASE ~At(d, "idle")
        <5>1. handler[d] \in Handler
          BY <4>3, BusyHandler DEF At
        <5>2. handler'[d] = [at |-> "dead", event |-> handler[d].event, attempts |-> 0]
          BY <4>1, <4>3, <5>1 DEF Handler
        <5>3. 0 \in 0..MaxAttempts
          BY PolarAssumption
        <5> QED BY <5>1, <5>2, <5>3 DEF Handler
      <4> QED BY <4>2, <4>3
    <3> QED BY <3>1, <3>2 DEF RefundInv, RefundTakesAccess
  <2>11. CASE UNCHANGED vars
    BY <2>11, RefundKept DEF vars
  <2> QED
    BY <2>1, <2>2, <2>3, <2>4, <2>5, <2>6, <2>7, <2>8, <2>9, <2>10, <2>11
    DEF Next, Proceed
<1>3. RefundInv => RefundTakesAccess
  BY DEF RefundInv
<1> QED BY <1>1, <1>2, <1>3, PolarTypeCorrect, PTL DEF Spec

----------------------------------------------------------------------------
(***************************************************************************)
(* FreeKeys: its state stays within its types, and where store_pending     *)
(* does not fail, nobody is told "already used" without a key, for any     *)
(* number of addresses, links, clicks and crashes, and whichever reads and *)
(* deletes fail.                                                           *)
(***************************************************************************)

\* Where a click can be, and the address it is for.
LEMMA ClickFacts ==
    ASSUME Keys!TypeOK, NEW c \in Clicks, click[c].at # "free"
    PROVE  /\ click[c] \in [at : Keys!Stage, link : Keys!Links]
           /\ Keys!Email(c) \in Emails
BY DEF Keys!TypeOK, Keys!Stage, Keys!Links, Keys!Free, Keys!Email

\* A link has an address and a number.
LEMMA LinkFacts ==
    ASSUME NEW k \in Keys!Links
    PROVE  k[1] \in Emails /\ k[2] \in 1..MaxLinks
BY DEF Keys!Links

\* Every variable of FreeKeys stays within its type.
THEOREM KeysTypeCorrect ==
    ASSUME Keys!FreeKeysAssumption
    PROVE  Keys!Spec => []Keys!TypeOK
<1> USE DEF Keys!FreeKeysAssumption
<1>1. Keys!Init => Keys!TypeOK
  BY DEF Keys!Init, Keys!TypeOK, Keys!Free
<1>2. Keys!TypeOK /\ [Keys!Next]_Keys!vars => Keys!TypeOK'
  <2> SUFFICES ASSUME Keys!TypeOK, [Keys!Next]_Keys!vars
               PROVE  Keys!TypeOK'
    OBVIOUS
  <2>1. ASSUME NEW e \in Emails, Keys!Request(e) PROVE Keys!TypeOK'
    <3>1. /\ mailed[e] + 1 \in 1..MaxLinks
          /\ mailed' = [mailed EXCEPT ![e] = mailed[e] + 1]
          /\ live' = live \cup {<<e, mailed[e] + 1>>}
      BY <2>1 DEF Keys!Request, Keys!TypeOK
    <3>2. pendingRow' \in [Emails -> 0..MaxLinks]
      BY <2>1, <3>1 DEF Keys!Request, Keys!TypeOK, Keys!Upserted
    <3>3. <<e, mailed[e] + 1>> \in Keys!Links
      BY <3>1 DEF Keys!Links
    <3>4. mailed' \in [Emails -> 0..MaxLinks] /\ live' \subseteq Keys!Links
      BY <3>1, <3>3 DEF Keys!TypeOK
    <3>5. UNCHANGED <<machineRow, click, issued, refused, lost, restarts>>
      BY <2>1 DEF Keys!Request
    <3> QED BY <3>2, <3>4, <3>5 DEF Keys!TypeOK
  <2>2. CASE Keys!MachineMint
    BY <2>2 DEF Keys!MachineMint, Keys!TypeOK
  <2>3. ASSUME NEW k \in Keys!Links, Keys!Expire(k) PROVE Keys!TypeOK'
    BY <2>3 DEF Keys!Expire, Keys!TypeOK
  <2>4. ASSUME NEW c \in Clicks, Keys!Click(c) PROVE Keys!TypeOK'
    <3>1. PICK k \in live : click' = [click EXCEPT ![c] = [at |-> "lookup", link |-> k]]
      BY <2>4 DEF Keys!Click
    <3>2. [at |-> "lookup", link |-> k] \in [at : Keys!Stage, link : Keys!Links]
      BY DEF Keys!TypeOK, Keys!Stage
    <3> QED BY <2>4, <3>1, <3>2 DEF Keys!Click, Keys!TypeOK
  <2>5. ASSUME NEW c \in Clicks, Keys!Lookup(c) \/ Keys!Probe(c) \/ Keys!Delete(c) \/ Keys!Mint(c)
        PROVE  Keys!TypeOK'
    <3>1. click[c] \in [at : Keys!Stage, link : Keys!Links] /\ Keys!Email(c) \in Emails
      BY <2>5, ClickFacts DEF Keys!Lookup, Keys!Probe, Keys!Delete, Keys!Mint, Keys!At
    <3>2. ASSUME NEW stage \in Keys!Stage, Keys!Goto(c, stage)
          PROVE  click' \in [Clicks -> [at : Keys!Stage, link : Keys!Links] \cup {Keys!Free}]
      BY <3>1, <3>2 DEF Keys!Goto, Keys!TypeOK
    <3>3. ASSUME Keys!Leave(c)
          PROVE  click' \in [Clicks -> [at : Keys!Stage, link : Keys!Links] \cup {Keys!Free}]
      BY <3>3 DEF Keys!Leave, Keys!TypeOK
    <3>4. CASE Keys!Lookup(c)
      BY <3>1, <3>2, <3>4 DEF Keys!Lookup, Keys!Unavailable, Keys!Stage, Keys!TypeOK
    <3>5. CASE Keys!Probe(c)
      BY <3>1, <3>2, <3>3, <3>5 DEF Keys!Probe, Keys!Unavailable, Keys!Stage, Keys!TypeOK
    <3>6. CASE Keys!Delete(c)
      BY <3>1, <3>2, <3>6 DEF Keys!Delete, Keys!Stage, Keys!TypeOK
    <3>7. CASE Keys!Mint(c)
      BY <3>1, <3>3, <3>7 DEF Keys!Mint, Keys!TypeOK
    <3> QED BY <2>5, <3>4, <3>5, <3>6, <3>7
  <2>6. CASE Keys!Crash
    <3>1. {Keys!Email(c) : c \in {x \in Clicks : Keys!At(x, "mint")}} \subseteq Emails
      BY ClickFacts DEF Keys!At
    <3> QED BY <2>6, <3>1 DEF Keys!Crash, Keys!TypeOK
  <2>7. CASE UNCHANGED Keys!vars
    BY <2>7 DEF Keys!vars, Keys!TypeOK
  <2> QED BY <2>1, <2>2, <2>3, <2>4, <2>5, <2>6, <2>7 DEF Keys!Next
<1> QED BY <1>1, <1>2, PTL DEF Keys!Spec

-----------------------------------------------------------------------------
\* An address whose key was issued, or is about to be, or died on the way.
Resolved(e) ==
    \/ e \in issued \cup lost
    \/ \E c \in Clicks : Keys!At(c, "mint") /\ Keys!Email(c) = e

\* The strengthening of RefusalsAreTrue.  An address that was mailed a link
\* has a row until a click deletes it, and that click is then about to mint:
\* a click that finds no row is for an address that is settled, and stays so
\* though a later request may store a row again before the probe.
KeyInv ==
    /\ \A k \in live : mailed[k[1]] > 0
    /\ \A c \in Clicks : Keys!At(c, "free") \/ mailed[Keys!Email(c)] > 0
    /\ \A e \in Emails : mailed[e] > 0 /\ pendingRow[e] = 0 => Resolved(e)
    /\ \A c \in Clicks : Keys!At(c, "probe") => Resolved(Keys!Email(c))
    /\ \A e \in refused : Resolved(e)

\* verify_free_key says "already used" only to those whose key was issued,
\* is about to be, or was lost with the process: as long as store_pending
\* stores what the mail announces.
THEOREM RefusalsHold ==
    ASSUME Keys!FreeKeysAssumption, StoreMayFail = FALSE
    PROVE  Keys!Spec => []RefusalsAreTrue
<1>1. Keys!Init => KeyInv
  BY DEF Keys!Init, KeyInv, Keys!At, Keys!Free
<1>2. Keys!TypeOK /\ KeyInv /\ [Keys!Next]_Keys!vars => KeyInv'
  <2> SUFFICES ASSUME Keys!TypeOK, KeyInv, [Keys!Next]_Keys!vars
               PROVE  KeyInv'
    OBVIOUS
  <2>1. ASSUME NEW e \in Emails, Keys!Request(e) PROVE KeyInv'
    <3>1. /\ mailed[e] \in Nat
          /\ mailed' = [mailed EXCEPT ![e] = mailed[e] + 1]
          /\ live' = live \cup {<<e, mailed[e] + 1>>}
          /\ UNCHANGED <<click, issued, refused, lost>>
      BY <2>1 DEF Keys!Request, Keys!TypeOK, Keys!FreeKeysAssumption
    <3>2. \A d \in Emails : mailed[d] > 0 => mailed'[d] > 0
      BY <3>1 DEF Keys!TypeOK
    <3>3. mailed'[e] > 0
      BY <3>1 DEF Keys!TypeOK
    <3>4. pendingRow'[e] # 0 /\ \A d \in Emails : d # e => pendingRow'[d] = pendingRow[d]
      BY <2>1, <3>1, Z3 DEF Keys!Request, Keys!Upserted, Keys!TypeOK
    <3>5. \A d : Resolved(d) => Resolved(d)'
      BY <3>1 DEF Resolved, Keys!At, Keys!Email
    <3>6. \A k \in live' : mailed'[k[1]] > 0
      BY <3>1, <3>2, <3>3, LinkFacts DEF KeyInv, Keys!TypeOK
    <3>7. \A c \in Clicks : Keys!At(c, "free")' \/ mailed'[Keys!Email(c)'] > 0
      BY <3>1, <3>2, ClickFacts DEF KeyInv, Keys!At, Keys!Email
    <3>8. \A d \in Emails : mailed'[d] > 0 /\ pendingRow'[d] = 0 => Resolved(d)'
      <4> SUFFICES ASSUME NEW d \in Emails, mailed'[d] > 0, pendingRow'[d] = 0
                   PROVE  Resolved(d)'
        OBVIOUS
      <4>1. d # e /\ mailed[d] > 0 /\ pendingRow[d] = 0
        BY <3>1, <3>4 DEF Keys!TypeOK
      <4> QED BY <4>1, <3>5 DEF KeyInv
    <3>9. \A c \in Clicks : Keys!At(c, "probe")' => Resolved(Keys!Email(c))'
      BY <3>1, <3>5 DEF KeyInv, Keys!At, Keys!Email, Resolved
    <3> QED BY <3>1, <3>5, <3>6, <3>7, <3>8, <3>9 DEF KeyInv, Keys!Email
  <2>2. CASE Keys!MachineMint
    BY <2>2 DEF Keys!MachineMint, KeyInv, Resolved, Keys!At, Keys!Email
  <2>3. ASSUME NEW k \in Keys!Links, Keys!Expire(k) PROVE KeyInv'
    BY <2>3 DEF Keys!Expire, KeyInv, Resolved, Keys!At, Keys!Email
  <2>4. ASSUME NEW c \in Clicks, Keys!Click(c) PROVE KeyInv'
    <3>1. PICK k \in live : click' = [click EXCEPT ![c] = [at |-> "lookup", link |-> k]]
      BY <2>4 DEF Keys!Click
    <3>2. /\ click'[c] = [at |-> "lookup", link |-> k]
          /\ \A d \in Clicks : d # c => click'[d] = click[d]
          /\ Keys!At(c, "free")
      BY <2>4, <3>1 DEF Keys!TypeOK, Keys!Click
    <3>3. UNCHANGED <<pendingRow, mailed, live, issued, refused, lost>>
      BY <2>4 DEF Keys!Click
    <3>4. \A e : Resolved(e) => Resolved(e)'
      BY <3>2, <3>3 DEF Resolved, Keys!At, Keys!Email
    <3> QED BY <3>2, <3>3, <3>4 DEF KeyInv, Keys!At, Keys!Email, Resolved
  <2>5. ASSUME NEW c \in Clicks, Keys!Lookup(c) \/ Keys!Probe(c) \/ Keys!Delete(c) \/ Keys!Mint(c)
        PROVE  KeyInv'
    <3>1. /\ click[c] \in [at : Keys!Stage, link : Keys!Links] /\ Keys!Email(c) \in Emails
          /\ mailed[Keys!Email(c)] > 0
      BY <2>5, ClickFacts DEF Keys!Lookup, Keys!Probe, Keys!Delete, Keys!Mint, Keys!At, KeyInv
    <3>2. UNCHANGED <<mailed, live>> /\ issued \subseteq issued' /\ lost' = lost
      BY <2>5 DEF Keys!Lookup, Keys!Probe, Keys!Delete, Keys!Mint
    <3>3. \A d \in Clicks : d # c => click'[d] = click[d]
      BY <2>5 DEF Keys!Lookup, Keys!Probe, Keys!Delete, Keys!Mint, Keys!Unavailable,
                    Keys!Goto, Keys!Leave, Keys!TypeOK
    <3>4. Keys!At(c, "mint") => Keys!Email(c) \in issued'
      BY <2>5 DEF Keys!Lookup, Keys!Probe, Keys!Delete, Keys!Mint, Keys!At
    <3>5. \A e : Resolved(e) => Resolved(e)'
      BY <3>2, <3>3, <3>4 DEF Resolved, Keys!At, Keys!Email
    <3>6. \/ click'[c] = Keys!Free
          \/ /\ click'[c].link = click[c].link
             /\ click'[c].at \in {"delete", "probe", "mint"}
             /\ click'[c].at = "probe" => pendingRow[Keys!Email(c)] = 0
      BY <2>5, <3>1 DEF Keys!Lookup, Keys!Probe, Keys!Delete, Keys!Mint, Keys!Unavailable,
                        Keys!Goto, Keys!Leave, Keys!Found,
                        Keys!Email, Keys!TypeOK
    <3>7. \A d \in Clicks : Keys!At(d, "free")' \/ mailed'[Keys!Email(d)'] > 0
      BY <3>1, <3>2, <3>3, <3>6 DEF KeyInv, Keys!At, Keys!Email, Keys!Free
    <3>8. click'[c].at = "probe" => Resolved(Keys!Email(c))
      BY <3>1, <3>6 DEF KeyInv, Keys!Free
    <3>9. \A d \in Clicks : Keys!At(d, "probe")' => Resolved(Keys!Email(d))'
      BY <3>3, <3>5, <3>6, <3>8 DEF KeyInv, Keys!At, Keys!Email, Keys!Free, Resolved
    <3>10. \A e \in Emails : mailed'[e] > 0 /\ pendingRow'[e] = 0 => Resolved(e)'
      <4>1. CASE pendingRow' = pendingRow
        BY <3>2, <3>5, <4>1 DEF KeyInv
      <4>2. CASE /\ Keys!Delete(c)
                 /\ pendingRow' = [pendingRow EXCEPT ![Keys!Email(c)] = 0]
        <5>1. PICK e \in Emails : e = Keys!Email(c)
          BY <3>1
        <5>2. Resolved(e)'
          BY <3>1, <4>2, <5>1 DEF Keys!Delete, Keys!Goto, Resolved, Keys!At, Keys!Email, Keys!TypeOK
        <5>3. \A d \in Emails : d # e => pendingRow'[d] = pendingRow[d]
          BY <4>2, <5>1 DEF Keys!TypeOK
        <5> QED BY <3>2, <3>5, <5>2, <5>3 DEF KeyInv
      <4>3. CASE Keys!Delete(c)
        BY <4>1, <4>2, <4>3, Zenon DEF Keys!Delete
      <4>4. CASE Keys!Lookup(c) \/ Keys!Probe(c) \/ Keys!Mint(c)
        BY <4>1, <4>4, Zenon DEF Keys!Lookup, Keys!Probe, Keys!Mint
      <4> QED BY <2>5, <4>3, <4>4
    <3>11. \/ refused' \subseteq refused
           \/ (Keys!At(c, "probe") /\ refused' = refused \cup {Keys!Email(c)})
      BY <2>5 DEF Keys!Lookup, Keys!Probe, Keys!Delete, Keys!Mint, Keys!Unavailable
    <3>12. \A e \in refused' : Resolved(e)'
      BY <3>5, <3>11 DEF KeyInv
    <3> QED BY <3>2, <3>7, <3>9, <3>10, <3>12 DEF KeyInv
  <2>6. CASE Keys!Crash
    <3>1. /\ click' = [c \in Clicks |-> Keys!Free] /\ issued' = issued
          /\ lost' = lost \cup {Keys!Email(c) : c \in {x \in Clicks : Keys!At(x, "mint")}}
          /\ UNCHANGED <<pendingRow, mailed, live, refused>>
      BY <2>6 DEF Keys!Crash
    <3>2. \A e : Resolved(e) => Resolved(e)'
      BY <3>1 DEF Resolved
    <3> QED BY <3>1, <3>2 DEF KeyInv, Keys!At, Keys!Free
  <2>7. CASE UNCHANGED Keys!vars
    BY <2>7 DEF Keys!vars, KeyInv, Resolved, Keys!At, Keys!Email
  <2> QED BY <2>1, <2>2, <2>3, <2>4, <2>5, <2>6, <2>7 DEF Keys!Next
<1>3. KeyInv => RefusalsAreTrue
  BY DEF KeyInv, Resolved, RefusalsAreTrue, Keys!RefusalsAreTrue
<1> QED BY <1>1, <1>2, <1>3, KeysTypeCorrect, PTL DEF Keys!Spec
-----------------------------------------------------------------------------
(***************************************************************************)
(* DataQuota: the anonymous quota for any number of overlapping calls, any *)
(* limit and any number of days.                                           *)
(***************************************************************************)

\* The calls of a day that are past their read of the counter, and all that
\* the day has had of calls that were not refused.
Writers(t) == {p \in Callers : inQuota[p].at = "write" /\ inQuota[p].day = t}
Used(t) == allowed[t] + Cardinality(Writers(t))

\* The type of the variables without the bounds of the model.
CountWrite == [kind : {"insert", "patch"}, bucket : Quota!Day, count : Nat]
CountType ==
    /\ today \in Quota!Day
    /\ counter \in [Quota!Day -> Nat]
    /\ inQuota \in [Callers -> [at : {"select"}, day : Quota!Day]
                                \cup [at : {"write"}, day : Quota!Day, write : CountWrite]
                                \cup {Quota!Idle}]
    /\ late \subseteq CountWrite
    /\ allowed \in [Quota!Day -> Nat]
    /\ refusals \subseteq Quota!Day

\* The writes that may still be served.
Unserved == {inQuota[p].write : p \in {q \in Callers : inQuota[q].at = "write"}} \cup late
Bounded(w) == w.count <= Used(w.bucket)

\* Nothing counts more calls of a day than it had: neither the row, nor a
\* write that is under way or late.
NoOvercount ==
    /\ \A b \in Quota!Day : counter[b] <= Used(b)
    /\ \A w \in Unserved : Bounded(w)

QuotaInv == CountType /\ NoOvercount /\ Quota!RefusalsAreDue

\* The module counts as the library does.
LEMMA QuotaCounts == \A S : Quota!Cardinality(S) = Cardinality(S)
BY Zenon DEF Quota!Cardinality, Cardinality

LEMMA CallersAreFinite == Quota!DataQuotaAssumption => IsFiniteSet(Callers)
BY Zenon DEF Quota!DataQuotaAssumption, Quota!IsFiniteSet, IsFiniteSet

LEMMA UsedType ==
    ASSUME Quota!DataQuotaAssumption, CountType, NEW t \in Quota!Day
    PROVE  IsFiniteSet(Writers(t)) /\ Cardinality(Writers(t)) \in Nat /\ Used(t) \in Nat
<1>1. IsFiniteSet(Writers(t))
  BY CallersAreFinite, FS_Subset DEF Writers
<1>2. Cardinality(Writers(t)) \in Nat
  BY <1>1, FS_CardinalityType
<1> QED BY <1>1, <1>2 DEF CountType, Used

\* What the property says of a day.
LEMMA DueIsUsed == Quota!RefusalsAreDue <=> \A t \in refusals : Used(t) >= Limit
BY QuotaCounts DEF Quota!RefusalsAreDue, Used, Writers

\* A state of a call.
LEMMA CallType ==
    ASSUME CountType, NEW p \in Callers
    PROVE  /\ inQuota[p].at \in {"select", "write", "idle"}
           /\ inQuota[p].at \in {"select", "write"} => inQuota[p].day \in Quota!Day
           /\ inQuota[p].at = "write" => inQuota[p].write \in CountWrite
<1>1. Quota!Idle.at = "idle"
  BY DEF Quota!Idle
<1> QED BY <1>1 DEF CountType

----------------------------------------------------------------------------
\* How the calls that a day has had change: a read that goes on adds one, an
\* answer after it none, and one that gives up before it one.

LEMMA WritersKept ==
    ASSUME NEW t, allowed'[t] = allowed[t],
           \A p \in Callers :
               \/ inQuota'[p] = inQuota[p]
               \/ inQuota[p].at # "write" /\ inQuota'[p].at # "write"
    PROVE  Used(t)' = Used(t)
<1>1. Writers(t)' = Writers(t)
  BY DEF Writers
<1> QED BY <1>1 DEF Used

LEMMA WriterAdded ==
    ASSUME Quota!DataQuotaAssumption, CountType, NEW p \in Callers, NEW x, x.at = "write",
           x.day \in Quota!Day, inQuota[p].at # "write",
           inQuota' = [inQuota EXCEPT ![p] = x], allowed' = allowed
    PROVE  \A t \in Quota!Day : Used(t)' = IF t = x.day THEN Used(t) + 1 ELSE Used(t)
<1> SUFFICES ASSUME NEW t \in Quota!Day
             PROVE  Used(t)' = IF t = x.day THEN Used(t) + 1 ELSE Used(t)
  OBVIOUS
<1>0. inQuota'[p] = x /\ \A q \in Callers : q # p => inQuota'[q] = inQuota[q]
  BY DEF CountType
<1>1. CASE t = x.day
  <2>1. Writers(t)' = Writers(t) \cup {p} /\ p \notin Writers(t)
    BY <1>0, <1>1 DEF Writers
  <2>2. Cardinality(Writers(t) \cup {p}) = Cardinality(Writers(t)) + 1
    BY <2>1, UsedType, FS_AddElement
  <2> QED BY <1>1, <2>1, <2>2, UsedType DEF Used, CountType
<1>2. CASE t # x.day
  <2>1. Writers(t)' = Writers(t)
    BY <1>0, <1>2 DEF Writers
  <2> QED BY <1>2, <2>1 DEF Used
<1> QED BY <1>1, <1>2

LEMMA CallAllowed ==
    ASSUME Quota!DataQuotaAssumption, CountType, NEW p \in Callers,
           inQuota[p].at \in {"select", "write"}, Quota!Allow(p, inQuota[p].day)
    PROVE  \A t \in Quota!Day : Used(t)' \in Nat /\ Used(t)' >= Used(t)
<1> SUFFICES ASSUME NEW t \in Quota!Day PROVE Used(t)' \in Nat /\ Used(t)' >= Used(t)
  OBVIOUS
<1> DEFINE d == inQuota[p].day
<1>0. /\ inQuota'[p].at = "idle"
      /\ \A q \in Callers : q # p => inQuota'[q] = inQuota[q]
      /\ allowed' = [allowed EXCEPT ![d] = @ + 1] /\ d \in Quota!Day
  BY CallType DEF CountType, Quota!Allow, Quota!Idle
<1>1. CASE t = d /\ inQuota[p].at = "write"
  <2>1. Writers(t)' = Writers(t) \ {p} /\ p \in Writers(t)
    BY <1>0, <1>1 DEF Writers
  <2>2. Cardinality(Writers(t) \ {p}) = Cardinality(Writers(t)) - 1
    BY <2>1, UsedType, FS_RemoveElement
  <2>3. allowed'[t] = allowed[t] + 1 /\ allowed[t] \in Nat
    BY <1>0, <1>1 DEF CountType
  <2> QED BY <2>1, <2>2, <2>3, UsedType DEF Used
<1>2. CASE t = d /\ inQuota[p].at = "select"
  <2>1. Writers(t)' = Writers(t)
    BY <1>0, <1>2 DEF Writers
  <2>2. allowed'[t] = allowed[t] + 1 /\ allowed[t] \in Nat
    BY <1>0, <1>2 DEF CountType
  <2> QED BY <2>1, <2>2, UsedType DEF Used
<1>3. CASE t # d
  <2>1. Writers(t)' = Writers(t)
    BY <1>0, <1>3 DEF Writers
  <2>2. allowed'[t] = allowed[t]
    BY <1>0, <1>3 DEF CountType
  <2> QED BY <2>1, <2>2, UsedType DEF Used
<1> QED BY <1>1, <1>2, <1>3

\* A day never has fewer calls than it had: so nothing that counted them
\* before counts too many now.
LEMMA QuotaInvKept ==
    ASSUME Quota!DataQuotaAssumption, QuotaInv, CountType',
           \A t \in Quota!Day : Used(t)' \in Nat /\ Used(t)' >= Used(t),
           \A b \in Quota!Day : counter'[b] = counter[b] \/ counter'[b] <= Used(b)',
           \A w \in Unserved' : w \in Unserved \/ Bounded(w)',
           \A t \in refusals' : t \in refusals \/ Used(t)' >= Limit
    PROVE  QuotaInv'
<1>1. \A t \in Quota!Day : Used(t) \in Nat
  BY UsedType DEF QuotaInv
<1>2. Unserved' \subseteq CountWrite
  BY DEF Unserved, CountType, Quota!Idle
<1>3. ASSUME NEW w \in Unserved' PROVE Bounded(w)'
  <2>1. w.count \in Nat /\ w.bucket \in Quota!Day
    BY <1>2 DEF CountWrite
  <2>2. CASE w \in Unserved
    <3>1. w.count <= Used(w.bucket)
      BY <2>2 DEF QuotaInv, NoOvercount, Bounded
    <3>2. Used(w.bucket)' \in Nat /\ Used(w.bucket)' >= Used(w.bucket)
      BY <2>1
    <3> QED BY <2>1, <1>1, <3>1, <3>2 DEF Bounded
  <2> QED BY <2>2
<1>4. ASSUME NEW b \in Quota!Day PROVE counter'[b] <= Used(b)'
  <2>1. counter[b] <= Used(b) /\ counter[b] \in Nat
    BY DEF QuotaInv, NoOvercount, CountType
  <2>2. Used(b)' \in Nat /\ Used(b)' >= Used(b) /\ Used(b) \in Nat
    BY <1>1
  <2> QED BY <2>1, <2>2
<1>5. ASSUME NEW t \in refusals' PROVE Used(t)' >= Limit
  <2>1. t \in Quota!Day /\ Limit \in Nat
    BY DEF CountType, Quota!DataQuotaAssumption
  <2>2. CASE t \in refusals
    <3>1. Used(t) >= Limit
      BY <2>2, DueIsUsed DEF QuotaInv
    <3>2. Used(t)' \in Nat /\ Used(t)' >= Used(t) /\ Used(t) \in Nat
      BY <2>1, <1>1
    <3> QED BY <2>1, <3>1, <3>2
  <2> QED BY <2>2
<1>6. NoOvercount'
  BY <1>3, <1>4 DEF NoOvercount
<1>7. Quota!RefusalsAreDue'
  <2>1. (\A t \in refusals : Used(t) >= Limit)'
    BY <1>5
  <2> QED BY <2>1, DueIsUsed, PTL
<1> QED BY <1>6, <1>7 DEF QuotaInv

LEMMA CallAllowedType ==
    ASSUME CountType, NEW p \in Callers,
           inQuota[p].at \in {"select", "write"}, Quota!Allow(p, inQuota[p].day)
    PROVE  /\ allowed' \in [Quota!Day -> Nat]
           /\ inQuota' \in [Callers -> [at : {"select"}, day : Quota!Day]
                                       \cup [at : {"write"}, day : Quota!Day, write : CountWrite]
                                       \cup {Quota!Idle}]
           /\ \A q \in Callers : inQuota'[q].at = "write" => inQuota'[q] = inQuota[q]
<1>1. inQuota[p].day \in Quota!Day
  BY CallType
<1>2. Quota!Idle.at # "write"
  BY DEF Quota!Idle
<1> QED BY <1>1, <1>2 DEF Quota!Allow, CountType

\* The rows after a write.
LEMMA ServedCounts ==
    ASSUME CountType, NEW w \in CountWrite
    PROVE  /\ Quota!Served(w) \in [Quota!Day -> Nat]
           /\ \A b \in Quota!Day :
                 Quota!Served(w)[b] = counter[b] \/ (b = w.bucket /\ Quota!Served(w)[b] = w.count)
BY DEF Quota!Served, CountType, CountWrite

\* However many calls overlap, and whichever reads and writes fail or come
\* late, the counter is never ahead of the calls that the day had.
LEMMA QuotaIsCounted ==
    ASSUME Quota!DataQuotaAssumption
    PROVE  Quota!Spec => []QuotaInv
<1>1. Quota!Init => QuotaInv
  <2> SUFFICES ASSUME Quota!Init PROVE QuotaInv
    OBVIOUS
  <2>1. CountType
    BY DEF Quota!Init, CountType, Quota!Day, Quota!DataQuotaAssumption
  <2>2. Unserved = {} /\ refusals = {} /\ \A b \in Quota!Day : counter[b] = 0
    BY DEF Quota!Init, Unserved, Quota!Idle
  <2>3. \A b \in Quota!Day : Used(b) \in Nat
    BY <2>1, UsedType
  <2> QED BY <2>1, <2>2, <2>3 DEF QuotaInv, NoOvercount, Quota!RefusalsAreDue
<1>2. QuotaInv /\ [Quota!Next]_Quota!qvars => QuotaInv'
  <2> SUFFICES ASSUME QuotaInv, [Quota!Next]_Quota!qvars PROVE QuotaInv'
    OBVIOUS
  <2>0. /\ CountType /\ NoOvercount /\ Quota!RefusalsAreDue
        /\ \A t \in Quota!Day : Used(t) \in Nat
    BY UsedType DEF QuotaInv
  <2>1. CASE Quota!Midnight
    <3>1. CountType'
      BY <2>0, <2>1 DEF Quota!Midnight, CountType, Quota!Day, Quota!DataQuotaAssumption
    <3>2. \A t \in Quota!Day : Used(t)' = Used(t)
      BY <2>1, WritersKept DEF Quota!Midnight
    <3>3. Unserved' = Unserved
      BY <2>1 DEF Quota!Midnight, Unserved
    <3> QED BY <2>0, <2>1, <3>1, <3>2, <3>3, QuotaInvKept DEF Quota!Midnight
  <2>2. ASSUME NEW p \in Callers, Quota!Arrive(p) PROVE QuotaInv'
    <3>1. /\ inQuota[p].at # "write" /\ inQuota'[p].at # "write"
          /\ \A q \in Callers : q # p => inQuota'[q] = inQuota[q]
          /\ UNCHANGED <<counter, late, allowed, refusals>>
      BY <2>0, <2>2 DEF Quota!Arrive, CountType, Quota!Idle
    <3>2. CountType'
      BY <2>0, <2>2 DEF Quota!Arrive, CountType
    <3>3. \A t \in Quota!Day : Used(t)' = Used(t)
      BY <3>1, WritersKept
    <3>4. Unserved' = Unserved
      BY <3>1 DEF Unserved
    <3> QED BY <2>0, <3>1, <3>2, <3>3, <3>4, QuotaInvKept
  <2>3. ASSUME NEW p \in Callers, Quota!Read(p) PROVE QuotaInv'
    <3> DEFINE d == inQuota[p].day
               count == counter[d]
               x == [at |-> "write", day |-> d,
                     write |-> [kind |-> IF count = 0 THEN "insert" ELSE "patch",
                                bucket |-> d, count |-> count + 1]]
    <3>1. /\ inQuota[p].at = "select" /\ d \in Quota!Day /\ count \in Nat
          /\ count <= Used(d) /\ Used(d) \in Nat
      BY <2>0, <2>3, CallType DEF Quota!Read, CountType, NoOvercount
    <3>2. UNCHANGED <<today, counter, late, allowed>>
      BY <2>3 DEF Quota!Read
    <3>3. CASE Quota!Exhausted(count)
      <4>1. /\ inQuota' = [inQuota EXCEPT ![p] = Quota!Idle]
            /\ refusals' = refusals \cup {d}
        BY <2>3, <3>3 DEF Quota!Read, Quota!Bucket
      <4>2. CountType'
        BY <2>0, <3>1, <3>2, <4>1 DEF CountType
      <4>3. /\ inQuota'[p].at # "write"
            /\ \A q \in Callers : q # p => inQuota'[q] = inQuota[q]
        BY <2>0, <4>1 DEF CountType, Quota!Idle
      <4>4. \A t \in Quota!Day : Used(t)' = Used(t)
        BY <3>1, <3>2, <4>3, WritersKept
      <4>5. Unserved' = Unserved
        BY <3>1, <3>2, <4>3 DEF Unserved
      <4>6. Used(d) >= Limit
        BY <3>1, <3>3 DEF Quota!Exhausted, Quota!DataQuotaAssumption
      <4>7. \A t \in refusals' : t \in refusals \/ Used(t)' >= Limit
        BY <3>1, <4>1, <4>4, <4>6
      <4> QED BY <2>0, <3>2, <4>2, <4>4, <4>5, <4>7, QuotaInvKept
    <3>4. CASE ~Quota!Exhausted(count)
      <4>1. inQuota' = [inQuota EXCEPT ![p] = x] /\ refusals' = refusals
        BY <2>3, <3>4 DEF Quota!Read, Quota!Bucket, Quota!NextCount
      <4>2. /\ x.at = "write" /\ x.day = d /\ x.write \in CountWrite
            /\ x.write.bucket = d /\ x.write.count = count + 1
            /\ x \in [at : {"write"}, day : Quota!Day, write : CountWrite]
        BY <3>1 DEF CountWrite
      <4> HIDE DEF x
      <4>3. CountType'
        BY <2>0, <3>2, <4>1, <4>2 DEF CountType
      <4>4. \A t \in Quota!Day : Used(t)' = IF t = d THEN Used(t) + 1 ELSE Used(t)
        BY <2>0, <3>1, <3>2, <4>1, <4>2, WriterAdded
      <4>5. /\ inQuota'[p] = x
            /\ \A q \in Callers : q # p => inQuota'[q] = inQuota[q]
        BY <2>0, <4>1 DEF CountType
      <4>6. Unserved' \subseteq Unserved \cup {x.write}
        BY <3>2, <4>5 DEF Unserved
      <4>7. \A w \in Unserved' : w = x.write => Bounded(w)'
        <5> SUFFICES ASSUME NEW w \in Unserved', w = x.write PROVE Bounded(w)'
          OBVIOUS
        <5>1. w.bucket \in Quota!Day /\ w.bucket = d /\ w.count = count + 1
          BY <3>1, <4>2
        <5>2. Used(w.bucket)' = Used(d) + 1
          BY <4>4, <5>1
        <5> QED BY <3>1, <5>1, <5>2 DEF Bounded
      <4>8. \A t \in Quota!Day : Used(t)' \in Nat /\ Used(t)' >= Used(t)
        BY <2>0, <4>4
      <4> QED BY <3>2, <4>1, <4>3, <4>6, <4>7, <4>8, QuotaInvKept
    <3> QED BY <3>3, <3>4
  <2>4. ASSUME NEW p \in Callers, Quota!ReadFails(p) PROVE QuotaInv'
    <3> DEFINE d == inQuota[p].day
               x == [at |-> "write", day |-> d,
                     write |-> [kind |-> "insert", bucket |-> d, count |-> 1]]
    <3>1. /\ inQuota[p].at = "select" /\ d \in Quota!Day /\ Used(d) \in Nat
      BY <2>0, <2>4, CallType DEF Quota!ReadFails
    <3>2. /\ UNCHANGED <<today, counter, late, allowed, refusals>>
          /\ inQuota' = [inQuota EXCEPT ![p] = x]
      BY <2>4 DEF Quota!ReadFails, Quota!Bucket
    <3>3. /\ x.at = "write" /\ x.day = d /\ x.write \in CountWrite
          /\ x.write.bucket = d /\ x.write.count = 1
          /\ x \in [at : {"write"}, day : Quota!Day, write : CountWrite]
      BY <3>1 DEF CountWrite
    <3> HIDE DEF x
    <3>4. CountType'
      BY <2>0, <3>2, <3>3 DEF CountType
    <3>5. \A t \in Quota!Day : Used(t)' = IF t = d THEN Used(t) + 1 ELSE Used(t)
      BY <2>0, <3>1, <3>2, <3>3, WriterAdded
    <3>6. /\ inQuota'[p] = x
          /\ \A q \in Callers : q # p => inQuota'[q] = inQuota[q]
      BY <2>0, <3>2 DEF CountType
    <3>7. Unserved' \subseteq Unserved \cup {x.write}
      BY <3>2, <3>6 DEF Unserved
    <3>8. \A w \in Unserved' : w = x.write => Bounded(w)'
      <4> SUFFICES ASSUME NEW w \in Unserved', w = x.write PROVE Bounded(w)'
        OBVIOUS
      <4>1. w.bucket \in Quota!Day /\ w.bucket = d /\ w.count = 1
        BY <3>1, <3>3
      <4>2. Used(w.bucket)' = Used(d) + 1
        BY <3>5, <4>1
      <4> QED BY <3>1, <4>1, <4>2 DEF Bounded
    <3>9. \A t \in Quota!Day : Used(t)' \in Nat /\ Used(t)' >= Used(t)
      BY <2>0, <3>5
    <3> QED BY <3>2, <3>4, <3>7, <3>8, <3>9, QuotaInvKept
  <2>5. ASSUME NEW p \in Callers, Quota!WriteServed(p) PROVE QuotaInv'
    <3> DEFINE w == inQuota[p].write
    <3>1. /\ inQuota[p].at = "write" /\ Quota!Allow(p, inQuota[p].day)
          /\ counter' = Quota!Served(w) /\ UNCHANGED <<today, late, refusals>>
      BY <2>5 DEF Quota!WriteServed
    <3>2. w \in CountWrite /\ w \in Unserved
      BY <2>0, <3>1, CallType DEF Unserved
    <3> HIDE DEF w
    <3>3. CountType'
      BY <2>0, <3>1, <3>2, ServedCounts, CallAllowedType DEF CountType
    <3>4. \A t \in Quota!Day : Used(t)' \in Nat /\ Used(t)' >= Used(t)
      BY <2>0, <3>1, CallAllowed
    <3>5. Unserved' \subseteq Unserved
      BY <2>0, <3>1, CallAllowedType DEF Unserved
    <3>6. ASSUME NEW b \in Quota!Day
          PROVE  counter'[b] = counter[b] \/ counter'[b] <= Used(b)'
      <4>1. CASE b = w.bucket /\ Quota!Served(w)[b] = w.count
        <5>1. w.count <= Used(b) /\ w.count \in Nat
          BY <2>0, <3>2, <4>1 DEF NoOvercount, Bounded, CountWrite
        <5>2. Used(b) \in Nat /\ Used(b)' \in Nat /\ Used(b)' >= Used(b)
          BY <2>0, <3>4
        <5> QED BY <3>1, <4>1, <5>1, <5>2
      <4> QED BY <2>0, <3>1, <3>2, <4>1, ServedCounts
    <3> QED BY <3>1, <3>3, <3>4, <3>5, <3>6, QuotaInvKept
  <2>6. ASSUME NEW p \in Callers, Quota!WriteFails(p) \/ Quota!GiveUp(p) PROVE QuotaInv'
    <3>1. /\ inQuota[p].at \in {"select", "write"} /\ Quota!Allow(p, inQuota[p].day)
          /\ UNCHANGED <<today, counter, refusals>>
          /\ \/ late' = late
             \/ inQuota[p].at = "write" /\ late' = late \cup {inQuota[p].write}
      BY <2>6 DEF Quota!WriteFails, Quota!GiveUp
    <3>2. late' \subseteq CountWrite /\ late' \subseteq Unserved
      BY <2>0, <3>1, CallType DEF Unserved, CountType
    <3>3. CountType'
      BY <2>0, <3>1, <3>2, CallAllowedType DEF CountType
    <3>4. \A t \in Quota!Day : Used(t)' \in Nat /\ Used(t)' >= Used(t)
      BY <2>0, <3>1, CallAllowed
    <3>5. Unserved' \subseteq Unserved
      BY <2>0, <3>1, <3>2, CallAllowedType DEF Unserved
    <3> QED BY <3>1, <3>3, <3>4, <3>5, QuotaInvKept
  <2>7. ASSUME NEW w \in late, Quota!LateWrite(w) PROVE QuotaInv'
    <3>1. /\ w \in CountWrite /\ w \in Unserved
          /\ late' = late \ {w} /\ counter' = Quota!Served(w)
          /\ UNCHANGED <<today, inQuota, allowed, refusals>>
      BY <2>0, <2>7 DEF Quota!LateWrite, CountType, Unserved
    <3>2. CountType'
      BY <2>0, <3>1, ServedCounts DEF CountType
    <3>3. \A t \in Quota!Day : Used(t)' = Used(t)
      BY <3>1, WritersKept
    <3>4. Unserved' \subseteq Unserved
      BY <3>1 DEF Unserved
    <3>5. ASSUME NEW b \in Quota!Day
          PROVE  counter'[b] = counter[b] \/ counter'[b] <= Used(b)'
      <4>1. CASE b = w.bucket /\ Quota!Served(w)[b] = w.count
        BY <2>0, <3>1, <3>3, <4>1 DEF NoOvercount, Bounded
      <4> QED BY <2>0, <3>1, <4>1, ServedCounts
    <3> QED BY <2>0, <3>1, <3>2, <3>3, <3>4, <3>5, QuotaInvKept
  <2>8. CASE UNCHANGED Quota!qvars
    <3>1. UNCHANGED <<today, counter, inQuota, late, allowed, refusals>>
      BY <2>8 DEF Quota!qvars
    <3>2. CountType'
      BY <2>0, <3>1 DEF CountType
    <3>3. \A t \in Quota!Day : Used(t)' = Used(t)
      BY <3>1, WritersKept
    <3>4. Unserved' = Unserved
      BY <3>1 DEF Unserved
    <3> QED BY <2>0, <3>1, <3>2, <3>3, <3>4, QuotaInvKept
  <2> QED BY <2>1, <2>2, <2>3, <2>4, <2>5, <2>6, <2>7, <2>8 DEF Quota!Next
<1> QED BY <1>1, <1>2, PTL DEF Quota!Spec

\* A call is refused only on a day that had its limit of calls, as the
\* counter is never ahead of them.
THEOREM RefusalsAreJust ==
    ASSUME Quota!DataQuotaAssumption
    PROVE  Quota!Spec => []RefusalsAreDue
<1>1. QuotaInv => RefusalsAreDue
  BY DEF QuotaInv, RefusalsAreDue
<1> QED BY <1>1, QuotaIsCounted, PTL

-----------------------------------------------------------------------------
InFlight(p) == inQuota[p] # Quota!Idle

\* The strengthening of QuotaHolds.  On a day on which nothing overlapped and
\* nothing failed, the row has exactly the calls that were let through, a
\* call that is about to write is the next one, and no write is late.
HoldsInv ==
    /\ \A p, q \in Callers : InFlight(p) /\ InFlight(q) /\ p # q => inQuota[p].day \in disturbed
    /\ \A w \in late : w.bucket \in disturbed
    /\ \A t \in Quota!Day \ disturbed : counter[t] = allowed[t] /\ allowed[t] <= Limit
    /\ \A p \in Callers : inQuota[p].at = "write" =>
          LET w == inQuota[p].write IN
          /\ w.bucket = inQuota[p].day
          /\ w.bucket \notin disturbed =>
                /\ w.count = allowed[w.bucket] + 1 /\ w.count <= Limit
                /\ w.kind = "insert" => counter[w.bucket] = 0

\* What the quota lets through on a day of one call after the other, with a
\* table that answers, is no more than the limit: for any finite set of
\* callers, any limit, and whatever happens on other days.
THEOREM LimitHolds ==
    ASSUME Quota!DataQuotaAssumption
    PROVE  Quota!Spec => []QuotaHolds
<1>1. Quota!Init => HoldsInv
  <2> SUFFICES ASSUME Quota!Init PROVE HoldsInv
    OBVIOUS
  <2>1. /\ \A p \in Callers : ~InFlight(p) /\ inQuota[p].at = "idle"
        /\ late = {}
    BY DEF Quota!Init, InFlight, Quota!Idle
  <2>2. Limit \in Nat /\ \A t \in Quota!Day : counter[t] = 0 /\ allowed[t] = 0
    BY DEF Quota!Init, Quota!DataQuotaAssumption
  <2> QED BY <2>1, <2>2 DEF HoldsInv
<1>2. QuotaInv /\ HoldsInv /\ [Quota!Next]_Quota!qvars => HoldsInv'
  <2> SUFFICES ASSUME QuotaInv, HoldsInv, [Quota!Next]_Quota!qvars
               PROVE  HoldsInv'
    OBVIOUS
  <2>0. CountType /\ Limit \in Nat /\ Quota!Idle.at = "idle"
    BY DEF QuotaInv, Quota!DataQuotaAssumption, Quota!Idle
  <2>1. CASE Quota!Midnight
    BY <2>1 DEF Quota!Midnight, HoldsInv, InFlight
  <2>2. ASSUME NEW p \in Callers, Quota!Arrive(p) PROVE HoldsInv'
    <3>1. /\ inQuota'[p] = [at |-> "select", day |-> today] /\ ~InFlight(p)
          /\ \A q \in Callers : q # p => inQuota'[q] = inQuota[q]
          /\ UNCHANGED <<counter, late, allowed>> /\ disturbed \subseteq disturbed'
      BY <2>0, <2>2 DEF Quota!Arrive, CountType, InFlight
    <3>2. \A q \in Callers : InFlight(q) =>
              today \in disturbed' /\ inQuota[q].day \in disturbed'
      BY <2>2 DEF Quota!Arrive, InFlight
    <3> QED BY <3>1, <3>2 DEF HoldsInv, InFlight
  <2>3. ASSUME NEW p \in Callers, Quota!Read(p) \/ Quota!ReadFails(p) PROVE HoldsInv'
    <3> DEFINE d == inQuota[p].day
    <3>1. /\ inQuota[p].at = "select" /\ InFlight(p)
          /\ \A q \in Callers : q # p => inQuota'[q] = inQuota[q]
          /\ UNCHANGED <<counter, late, allowed>> /\ disturbed \subseteq disturbed'
      BY <2>0, <2>3 DEF Quota!Read, Quota!ReadFails, CountType, InFlight
    <3>2. \/ inQuota'[p] = Quota!Idle
          \/ /\ inQuota'[p].at = "write" /\ inQuota'[p].day = d
             /\ inQuota'[p].write.bucket = d
             /\ \/ d \in disturbed'
                \/ /\ inQuota'[p].write.count = counter[d] + 1 /\ ~(counter[d] >= Limit)
                   /\ inQuota'[p].write.kind = "insert" => counter[d] = 0
      BY <2>0, <2>3 DEF Quota!Read, Quota!ReadFails, Quota!Exhausted, Quota!NextCount,
                        Quota!Bucket, CountType
    <3>3. d \in Quota!Day /\ counter[d] \in Nat
      BY <2>0, <3>1, CallType DEF CountType
    <3>4. CASE inQuota'[p] = Quota!Idle
      BY <2>0, <3>1, <3>4 DEF HoldsInv, InFlight
    <3>5. CASE inQuota'[p].at = "write"
      <4>1. \A q, r \in Callers : InFlight(q)' /\ InFlight(r)' /\ q # r =>
                inQuota'[q].day \in disturbed'
        BY <2>0, <3>1, <3>2, <3>5 DEF HoldsInv, InFlight
      <4>2. d \notin disturbed' =>
                 \/ counter[d] = allowed[d] /\ counter[d] + 1 <= Limit
                 \/ counter[d] >= Limit
        BY <2>0, <3>1, <3>3 DEF HoldsInv
      <4>3. LET w == inQuota'[p].write IN
            /\ w.bucket = d
            /\ w.bucket \notin disturbed' =>
                  /\ w.count = allowed[w.bucket] + 1 /\ w.count <= Limit
                  /\ w.kind = "insert" => counter[w.bucket] = 0
        BY <2>0, <3>2, <3>3, <3>5, <4>2
      <4> QED BY <3>1, <3>2, <3>5, <2>0, <4>1, <4>3 DEF HoldsInv
    <3> QED BY <3>2, <3>4, <3>5
  <2>4. ASSUME NEW p \in Callers, Quota!WriteServed(p) PROVE HoldsInv'
    <3> DEFINE w == inQuota[p].write
    <3>1. /\ inQuota[p].at = "write" /\ InFlight(p) /\ inQuota'[p] = Quota!Idle
          /\ \A q \in Callers : q # p => inQuota'[q] = inQuota[q]
          /\ UNCHANGED <<late, disturbed>> /\ counter' = Quota!Served(w)
          /\ allowed' = [allowed EXCEPT ![w.bucket] = @ + 1]
          /\ w.bucket = inQuota[p].day
      BY <2>0, <2>4 DEF Quota!WriteServed, Quota!Allow, CountType, InFlight, HoldsInv
    <3>2. w.bucket \in Quota!Day /\ w.count \in Nat
      BY <2>0, <3>1, CallType DEF CountWrite
    <3>3. \A t \in Quota!Day : t # w.bucket => counter'[t] = counter[t] /\ allowed'[t] = allowed[t]
      BY <2>0, <3>1, <3>2 DEF Quota!Served, CountType
    <3>4. w.bucket \notin disturbed =>
             counter'[w.bucket] = w.count /\ allowed'[w.bucket] = w.count /\ w.count <= Limit
      <4> SUFFICES ASSUME w.bucket \notin disturbed
                   PROVE  counter'[w.bucket] = w.count /\ allowed'[w.bucket] = w.count
                          /\ w.count <= Limit
        OBVIOUS
      <4>1. /\ w.count = allowed[w.bucket] + 1 /\ w.count <= Limit
            /\ w.kind = "insert" => counter[w.bucket] = 0
        BY <3>1 DEF HoldsInv
      <4>2. allowed'[w.bucket] = allowed[w.bucket] + 1
        BY <2>0, <3>1, <3>2 DEF CountType
      <4>3. ~(w.kind = "insert" /\ counter[w.bucket] > 0)
        BY <4>1
      <4>4. counter'[w.bucket] = w.count
        BY <2>0, <3>1, <3>2, <4>3 DEF Quota!Served, CountType
      <4> QED BY <4>1, <4>2, <4>4
    <3>5. \A q \in Callers : q # p /\ inQuota[q].at = "write" =>
              inQuota[q].write.bucket \in disturbed
      <4> SUFFICES ASSUME NEW q \in Callers, q # p, inQuota[q].at = "write"
                   PROVE  inQuota[q].write.bucket \in disturbed
        OBVIOUS
      <4>1. InFlight(q)
        BY <2>0 DEF InFlight
      <4> QED BY <3>1, <4>1 DEF HoldsInv
    <3>6. \A t \in Quota!Day \ disturbed' : counter'[t] = allowed'[t] /\ allowed'[t] <= Limit
      <4> SUFFICES ASSUME NEW t \in Quota!Day, t \notin disturbed'
                   PROVE  counter'[t] = allowed'[t] /\ allowed'[t] <= Limit
        OBVIOUS
      <4>1. CASE t = w.bucket
        BY <3>1, <3>4, <4>1
      <4>2. CASE t # w.bucket
        BY <3>1, <3>3, <4>2 DEF HoldsInv
      <4> QED BY <4>1, <4>2
    <3>7. \A q \in Callers : inQuota'[q].at = "write" =>
              /\ q # p /\ inQuota'[q].write.bucket = inQuota'[q].day
              /\ inQuota'[q].write.bucket \in disturbed'
      BY <2>0, <3>1, <3>5 DEF HoldsInv
    <3>8. \A q, r \in Callers : InFlight(q)' /\ InFlight(r)' /\ q # r =>
              inQuota'[q].day \in disturbed'
      BY <3>1 DEF HoldsInv, InFlight
    <3>9. \A x \in late' : x.bucket \in disturbed'
      BY <3>1 DEF HoldsInv
    <3> HIDE DEF w
    <3> QED BY <3>6, <3>7, <3>8, <3>9 DEF HoldsInv
  <2>5. ASSUME NEW p \in Callers, Quota!WriteFails(p) \/ Quota!GiveUp(p) PROVE HoldsInv'
    <3> DEFINE d == inQuota[p].day
    <3>1. /\ inQuota[p].at \in {"select", "write"} /\ InFlight(p) /\ inQuota'[p] = Quota!Idle
          /\ \A q \in Callers : q # p => inQuota'[q] = inQuota[q]
          /\ counter' = counter /\ disturbed' = disturbed \cup {d}
          /\ allowed' = [allowed EXCEPT ![d] = @ + 1]
          /\ \/ late' = late
             \/ inQuota[p].at = "write" /\ late' = late \cup {inQuota[p].write}
      BY <2>0, <2>5 DEF Quota!WriteFails, Quota!GiveUp, Quota!Allow, CountType, InFlight
    <3>2. d \in Quota!Day
      BY <2>0, <3>1, CallType
    <3>3. \A t \in Quota!Day : t # d => allowed'[t] = allowed[t]
      BY <2>0, <3>1, <3>2 DEF CountType
    <3>4. \A x \in late' : x.bucket \in disturbed'
      BY <3>1 DEF HoldsInv
    <3>5. \A q \in Callers : inQuota'[q].at = "write" =>
              /\ inQuota'[q] = inQuota[q]
              /\ inQuota[q].write.bucket \in Quota!Day
      BY <2>0, <3>1, CallType DEF CountWrite
    <3> QED BY <3>1, <3>2, <3>3, <3>4, <3>5 DEF HoldsInv, InFlight
  <2>6. ASSUME NEW w \in late, Quota!LateWrite(w) PROVE HoldsInv'
    <3>1. /\ late' = late \ {w} /\ UNCHANGED <<inQuota, allowed, disturbed>>
          /\ counter' = Quota!Served(w) /\ w \in CountWrite /\ w.bucket \in disturbed
      BY <2>0, <2>6 DEF Quota!LateWrite, CountType, HoldsInv
    <3>2. \A t \in Quota!Day : t # w.bucket => counter'[t] = counter[t]
      BY <2>0, <3>1 DEF Quota!Served, CountType, CountWrite
    <3>3. \A q \in Callers : inQuota[q].at = "write" => inQuota[q].write.bucket \in Quota!Day
      BY <2>0, CallType DEF CountWrite
    <3> QED BY <3>1, <3>2, <3>3 DEF HoldsInv, InFlight
  <2>7. CASE UNCHANGED Quota!qvars
    BY <2>7 DEF Quota!qvars, HoldsInv, InFlight
  <2> QED BY <2>1, <2>2, <2>3, <2>4, <2>5, <2>6, <2>7 DEF Quota!Next
<1>3. HoldsInv => QuotaHolds
  BY DEF HoldsInv, QuotaHolds, Quota!QuotaHolds
<1> QED BY <1>1, <1>2, <1>3, QuotaIsCounted, PTL DEF Quota!Spec

-----------------------------------------------------------------------------
\* The calls of a day that are under way.
OnDay(t) == {p \in Callers : InFlight(p) /\ inQuota[p].day = t}

\* What bounds the counts: a call of a day that is under way will be one of
\* those that the day lets through, or refuses.
LoadInv ==
    /\ disturbed \subseteq Quota!Day
    /\ \A t \in Quota!Day : allowed[t] + Cardinality(OnDay(t)) <= MaxCalls
    /\ \A w \in Unserved : w.count >= 1

\* How the load of a day changes: a call that leaves makes room for one.
LEMMA LoadKept ==
    ASSUME Quota!DataQuotaAssumption, CountType, LoadInv,
           NEW p \in Callers, InFlight(p), inQuota'[p] = Quota!Idle,
           \A q \in Callers : q # p => inQuota'[q] = inQuota[q],
           \/ allowed' = allowed
           \/ allowed' = [allowed EXCEPT ![inQuota[p].day] = @ + 1]
    PROVE  \A t \in Quota!Day : allowed'[t] + Cardinality(OnDay(t)') <= MaxCalls
<1> SUFFICES ASSUME NEW t \in Quota!Day
             PROVE  allowed'[t] + Cardinality(OnDay(t)') <= MaxCalls
  OBVIOUS
<1>1. IsFiniteSet(OnDay(t)) /\ Cardinality(OnDay(t)) \in Nat /\ MaxCalls \in Nat
  BY CallersAreFinite, FS_Subset, FS_CardinalityType DEF OnDay, Quota!DataQuotaAssumption
<1>2. allowed[t] \in Nat /\ allowed[t] + Cardinality(OnDay(t)) <= MaxCalls
  BY DEF CountType, LoadInv
<1>3. CASE t = inQuota[p].day
  <2>1. OnDay(t)' = OnDay(t) \ {p} /\ p \in OnDay(t)
    BY <1>3 DEF OnDay, InFlight
  <2>2. Cardinality(OnDay(t) \ {p}) = Cardinality(OnDay(t)) - 1
    BY <1>1, <2>1, FS_RemoveElement
  <2>3. allowed'[t] = allowed[t] \/ allowed'[t] = allowed[t] + 1
    BY <1>3 DEF CountType
  <2> QED BY <1>1, <1>2, <2>1, <2>2, <2>3
<1>4. CASE t # inQuota[p].day
  <2>1. OnDay(t)' = OnDay(t)
    BY <1>4 DEF OnDay, InFlight
  <2>2. allowed'[t] = allowed[t]
    BY <1>4 DEF CountType
  <2> QED BY <1>2, <2>1, <2>2
<1> QED BY <1>3, <1>4

\* Every variable of DataQuota stays within its type: the counter, the writes
\* and the calls let through do not exceed the calls that the model makes.
THEOREM QuotaTypeCorrect ==
    ASSUME Quota!DataQuotaAssumption
    PROVE  Quota!Spec => []Quota!TypeOK
<1>1. Quota!Init => LoadInv
  <2> SUFFICES ASSUME Quota!Init PROVE LoadInv
    OBVIOUS
  <2>1. \A t : OnDay(t) = {}
    BY DEF Quota!Init, OnDay, InFlight
  <2>2. Unserved = {} /\ MaxCalls \in Nat \ {0}
    BY DEF Quota!Init, Unserved, Quota!Idle, Quota!DataQuotaAssumption
  <2> QED BY <2>1, <2>2, FS_EmptySet DEF Quota!Init, LoadInv
<1>2. QuotaInv /\ LoadInv /\ [Quota!Next]_Quota!qvars => LoadInv'
  <2> SUFFICES ASSUME QuotaInv, LoadInv, [Quota!Next]_Quota!qvars
               PROVE  LoadInv'
    OBVIOUS
  <2>0. CountType /\ Quota!Idle.at = "idle"
    BY DEF QuotaInv, Quota!Idle
  <2>1. CASE Quota!Midnight
    BY <2>1 DEF Quota!Midnight, LoadInv, OnDay, InFlight, Unserved
  <2>2. ASSUME NEW p \in Callers, Quota!Arrive(p) PROVE LoadInv'
    <3>1. /\ inQuota'[p] = [at |-> "select", day |-> today] /\ ~InFlight(p)
          /\ \A q \in Callers : q # p => inQuota'[q] = inQuota[q]
          /\ UNCHANGED <<counter, late, allowed>> /\ today \in Quota!Day
          /\ allowed[today] + Cardinality({x \in Callers : InFlight(x)}) < MaxCalls
      BY <2>0, <2>2, QuotaCounts DEF Quota!Arrive, CountType, InFlight
    <3>2. disturbed' \subseteq Quota!Day
      <4>1. \A q \in Callers : InFlight(q) => inQuota[q].day \in Quota!Day
        BY <2>0 DEF CountType, InFlight
      <4> QED BY <2>2, <3>1, <4>1 DEF Quota!Arrive, LoadInv, InFlight
    <3>3. Unserved' \subseteq Unserved
      BY <3>1 DEF Unserved
    <3>4. InFlight(p)'
      BY <3>1, <2>0 DEF InFlight
    <3>5. ASSUME NEW t \in Quota!Day
          PROVE  allowed'[t] + Cardinality(OnDay(t)') <= MaxCalls
      <4>1. /\ IsFiniteSet({x \in Callers : InFlight(x)}) /\ IsFiniteSet(OnDay(t))
            /\ Cardinality({x \in Callers : InFlight(x)}) \in Nat
            /\ Cardinality(OnDay(t)) \in Nat
            /\ Cardinality(OnDay(t)) <= Cardinality({x \in Callers : InFlight(x)})
        BY CallersAreFinite, FS_Subset, FS_CardinalityType DEF OnDay
      <4>2. allowed[t] \in Nat /\ MaxCalls \in Nat
        BY <2>0 DEF CountType, Quota!DataQuotaAssumption
      <4>3. CASE t = today
        <5>1. OnDay(t)' = OnDay(t) \cup {p} /\ p \notin OnDay(t)
          BY <3>1, <3>4, <4>3 DEF OnDay, InFlight
        <5>2. Cardinality(OnDay(t) \cup {p}) = Cardinality(OnDay(t)) + 1
          BY <4>1, <5>1, FS_AddElement
        <5> QED BY <3>1, <4>1, <4>2, <4>3, <5>1, <5>2
      <4>4. CASE t # today
        <5>1. OnDay(t)' = OnDay(t)
          BY <3>1, <4>4 DEF OnDay, InFlight
        <5> QED BY <3>1, <5>1 DEF LoadInv
      <4> QED BY <4>3, <4>4
    <3> QED BY <3>2, <3>3, <3>5 DEF LoadInv
  <2>3. ASSUME NEW p \in Callers, Quota!Read(p) \/ Quota!ReadFails(p) PROVE LoadInv'
    <3> DEFINE d == inQuota[p].day
    <3>1. /\ inQuota[p].at = "select" /\ InFlight(p)
          /\ \A q \in Callers : q # p => inQuota'[q] = inQuota[q]
          /\ UNCHANGED <<counter, late, allowed>> /\ disturbed' \subseteq disturbed \cup {d}
      BY <2>0, <2>3 DEF Quota!Read, Quota!ReadFails, CountType, InFlight
    <3>2. d \in Quota!Day /\ counter[d] \in Nat
      BY <2>0, <3>1, CallType DEF CountType
    <3>3. \/ inQuota'[p] = Quota!Idle
          \/ /\ inQuota'[p].at = "write" /\ inQuota'[p].day = d
             /\ inQuota'[p].write.count \in {counter[d] + 1, 1}
      BY <2>0, <2>3 DEF Quota!Read, Quota!ReadFails, Quota!NextCount,
                        Quota!Bucket, CountType
    <3>4. \A w \in Unserved' : w.count >= 1
      <4>1. \A w \in Unserved' : w \in Unserved \/ w.count \in {counter[d] + 1, 1}
        BY <2>0, <3>1, <3>3 DEF Unserved
      <4> QED BY <3>2, <4>1 DEF LoadInv
    <3>5. CASE inQuota'[p] = Quota!Idle
      BY <2>0, <3>1, <3>2, <3>4, <3>5, LoadKept DEF LoadInv
    <3>6. CASE inQuota'[p].at = "write" /\ inQuota'[p].day = d
      <4>1. \A t : OnDay(t)' = OnDay(t)
        BY <2>0, <3>1, <3>6 DEF OnDay, InFlight
      <4> QED BY <3>1, <3>2, <3>4, <4>1 DEF LoadInv
    <3> QED BY <3>3, <3>5, <3>6
  <2>4. ASSUME NEW p \in Callers,
               Quota!WriteServed(p) \/ Quota!WriteFails(p) \/ Quota!GiveUp(p)
        PROVE  LoadInv'
    <3> DEFINE d == inQuota[p].day
    <3>1. /\ inQuota[p].at \in {"select", "write"} /\ InFlight(p)
          /\ inQuota'[p] = Quota!Idle
          /\ \A q \in Callers : q # p => inQuota'[q] = inQuota[q]
          /\ disturbed' \subseteq disturbed \cup {d}
          /\ allowed' = [allowed EXCEPT ![d] = @ + 1]
          /\ \/ late' = late
             \/ inQuota[p].at = "write" /\ late' = late \cup {inQuota[p].write}
      BY <2>0, <2>4 DEF Quota!WriteServed, Quota!WriteFails, Quota!GiveUp, Quota!Allow,
                        CountType, InFlight
    <3>2. d \in Quota!Day
      BY <2>0, <3>1, CallType
    <3>3. Unserved' \subseteq Unserved
      BY <2>0, <3>1 DEF Unserved
    <3> QED BY <2>0, <3>1, <3>2, <3>3, LoadKept DEF LoadInv
  <2>5. ASSUME NEW w \in late, Quota!LateWrite(w) PROVE LoadInv'
    <3>1. late' = late \ {w} /\ UNCHANGED <<inQuota, allowed, disturbed>>
      BY <2>5 DEF Quota!LateWrite
    <3> QED BY <3>1 DEF LoadInv, OnDay, InFlight, Unserved
  <2>6. CASE UNCHANGED Quota!qvars
    BY <2>6 DEF Quota!qvars, LoadInv, OnDay, InFlight, Unserved
  <2> QED BY <2>1, <2>2, <2>3, <2>4, <2>5, <2>6 DEF Quota!Next
<1>3. QuotaInv /\ LoadInv => Quota!TypeOK
  <2> SUFFICES ASSUME QuotaInv, LoadInv PROVE Quota!TypeOK
    OBVIOUS
  <2>0. CountType /\ MaxCalls \in Nat
    BY DEF QuotaInv, Quota!DataQuotaAssumption
  <2>1. ASSUME NEW t \in Quota!Day
        PROVE  allowed[t] \in 0..MaxCalls /\ Used(t) \in Nat /\ Used(t) <= MaxCalls
    <3>1. Writers(t) \subseteq OnDay(t)
      BY DEF Writers, OnDay, InFlight, Quota!Idle
    <3>2. /\ IsFiniteSet(OnDay(t)) /\ Cardinality(OnDay(t)) \in Nat
          /\ Cardinality(Writers(t)) <= Cardinality(OnDay(t))
      BY <3>1, CallersAreFinite, FS_Subset, FS_CardinalityType DEF OnDay
    <3>3. allowed[t] \in Nat /\ allowed[t] + Cardinality(OnDay(t)) <= MaxCalls
      BY <2>0 DEF CountType, LoadInv
    <3> QED BY <2>0, <3>2, <3>3, UsedType DEF Used
  <2>2. \A b \in Quota!Day : counter[b] \in 0..MaxCalls
    <3>1. \A b \in Quota!Day : counter[b] \in Nat /\ counter[b] <= Used(b)
      BY <2>0 DEF QuotaInv, NoOvercount, CountType
    <3> QED BY <2>0, <2>1, <3>1
  <2>3. \A w \in Unserved : w \in Quota!Write
    <3>1. Unserved \subseteq CountWrite
      BY <2>0 DEF Unserved, CountType, Quota!Idle
    <3>2. ASSUME NEW w \in Unserved PROVE w \in Quota!Write
      <4>1. w \in CountWrite /\ w.bucket \in Quota!Day /\ w.count \in Nat
        BY <3>1 DEF CountWrite
      <4>2. w.count >= 1 /\ w.count <= Used(w.bucket)
        BY DEF QuotaInv, NoOvercount, Bounded, LoadInv
      <4>3. w.count \in 1..MaxCalls
        BY <2>0, <2>1, <4>1, <4>2
      <4> QED BY <4>1, <4>3 DEF CountWrite, Quota!Write
    <3> QED BY <3>2
  <2>4. ASSUME NEW p \in Callers
        PROVE  inQuota[p] \in [at : {"select"}, day : Quota!Day]
                              \cup [at : {"write"}, day : Quota!Day, write : Quota!Write]
                              \cup {Quota!Idle}
    <3>1. inQuota[p].at = "write" => inQuota[p].write \in Quota!Write
      BY <2>3 DEF Unserved
    <3> QED BY <2>0, <3>1 DEF CountType
  <2>5. late \subseteq Quota!Write
    BY <2>3 DEF Unserved
  <2>6. /\ counter \in [Quota!Day -> 0..MaxCalls] /\ allowed \in [Quota!Day -> 0..MaxCalls]
        /\ inQuota \in [Callers -> [at : {"select"}, day : Quota!Day]
                                   \cup [at : {"write"}, day : Quota!Day, write : Quota!Write]
                                   \cup {Quota!Idle}]
    BY <2>0, <2>1, <2>2, <2>4 DEF CountType
  <2> QED BY <2>0, <2>5, <2>6 DEF CountType, LoadInv, Quota!TypeOK
<1> QED BY <1>1, <1>2, <1>3, QuotaIsCounted, PTL DEF Quota!Spec
=============================================================================

--------------------------- MODULE BookingsProofs ---------------------------
(***************************************************************************)
(* Who can cancel a booking, for any number of calls, agents, attempts and *)
(* crashes, and whatever the table of operations loses.                    *)
(***************************************************************************)
EXTENDS Bookings, FiniteSetTheorems, TLAPS

\* An attempt that runs was counted.
AttemptCounted == \A c \in Calls : job[c].at = "running" => job[c].tries > 0

Caller == Agents \cup {Anonymous}

LEMMA RecordTypes ==
    ASSUME NEW receipt \in Receipt, NEW caller \in Caller
    PROVE  /\ Complete(receipt, caller) \in Record
           /\ Pending(caller) \in Record
BY DEF Complete, Pending, OwnerForStorage, Record, Caller

LEMMA ReceiptTypes ==
    /\ \A reason \in Reason : Said(reason, None) \in Receipt
    /\ \A reason \in Reason, b \in Bookings : Said(reason, b) \in Receipt
    /\ {"refused", "calcom_booking_failed", "outcome_unknown", "cancelled",
        "booking_in_progress"} \subseteq Reason
BY DEF Said, Receipt, Reason, NothingDone, Awaited

LEMMA GotoType ==
    ASSUME TypeOK, NEW c \in Calls, NEW stage \in Stage, Goto(c, stage)
    PROVE  call' \in [Calls -> CallState]
BY DEF TypeOK, Goto, CallState

LEMMA FireType ==
    ASSUME TypeOK, NEW c \in Calls, NEW record \in Record, Fire(c, record)
    PROVE  /\ memory' \in [Calls -> Record \cup {None}]
           /\ upserts' \subseteq [op : Calls, record : Record]
BY DEF TypeOK, Fire

LEMMA FinishType ==
    ASSUME TypeOK, NEW c \in Calls, NEW caller \in Caller, NEW receipt \in Receipt,
           Finish(c, caller, receipt)
    PROVE  /\ call' \in [Calls -> CallState]
           /\ memory' \in [Calls -> Record \cup {None}]
           /\ upserts' \subseteq [op : Calls, record : Record]
<1>1. Complete(receipt, caller) \in Record
  BY RecordTypes
<1> DEFINE stage == IF Durable(receipt.reason) THEN "store" ELSE "answered"
           x == [call[c] EXCEPT !.receipt = receipt, !.caller = caller, !.at = stage]
<1>2. call' \in [Calls -> CallState]
  <2>1. call[c] \in CallState /\ stage \in Stage
    BY DEF TypeOK, Stage
  <2>2. call' = [call EXCEPT ![c] = x]
    BY DEF TypeOK, Finish
  <2> HIDE DEF stage
  <2>3. x \in CallState
    BY <2>1 DEF CallState, Caller
  <2> HIDE DEF x
  <2> QED BY <2>2, <2>3 DEF TypeOK
<1> QED BY <1>1, <1>2, FireType DEF Finish

LEMMA ReturnType ==
    ASSUME TypeOK, NEW c \in Calls, NEW receipt \in Receipt, Return(c, receipt)
    PROVE  /\ call' \in [Calls -> CallState]
           /\ memory' \in [Calls -> Record \cup {None}]
           /\ upserts' \subseteq [op : Calls, record : Record]
BY FinishType DEF Return, TypeOK, CallState, Caller

LEMMA BookSlotType ==
    ASSUME TypeOK, NEW b \in Bookings, NEW receipt \in Receipt, BookSlot(b, receipt)
    PROVE  calendar' \in [Bookings -> Calendar] /\ late' \subseteq Bookings
BY DEF BookSlot, Holds, TypeOK, Calendar

\* The inductive invariant: types, and attempts that are counted.
LEMMA TypesAndAttempts == Spec => [](TypeOK /\ AttemptCounted)
<1>1. Init => TypeOK /\ AttemptCounted
  <2> SUFFICES ASSUME Init PROVE TypeOK /\ AttemptCounted
    OBVIOUS
  <2>1. call \in [Calls -> CallState]
    BY DEF Init, CallState, Stage, Action
  <2>2. job \in [Calls -> JobState] /\ \A c \in Calls : job[c].at # "running"
    BY BookingsAssumption DEF Init, JobState
  <2>3. crashes \in 0..MaxCrashes
    BY BookingsAssumption DEF Init
  <2> QED BY <2>1, <2>2, <2>3 DEF Init, TypeOK, AttemptCounted, Calendar
<1>2. TypeOK /\ AttemptCounted /\ [Next]_vars => TypeOK' /\ AttemptCounted'
  <2> SUFFICES ASSUME TypeOK, AttemptCounted, [Next]_vars PROVE TypeOK' /\ AttemptCounted'
    OBVIOUS
  <2> USE DEF provider, store, worker
  <2>0. \A c \in Calls : <<c, 1>> \in Bookings /\ Said("refused", None) \in Receipt
    BY BookingsAssumption, ReceiptTypes DEF Bookings
  <2>1. ASSUME NEW c \in Calls, ArriveCalcom(c) PROVE TypeOK' /\ AttemptCounted'
    <3>1. PICK caller \in Caller :
             \/ Finish(c, caller, Said("refused", None))
             \/ /\ call' = [call EXCEPT ![c].caller = caller, ![c].at = "inquire"]
                /\ UNCHANGED <<memory, upserts>>
             \/ \E b \in Bookings :
                   /\ calendar[b] # "none"
                   /\ call' = [call EXCEPT ![c].caller = caller, ![c].action = "cancel",
                                           ![c].target = b, ![c].at = "owner"]
                   /\ UNCHANGED <<memory, upserts>>
      BY <2>1 DEF ArriveCalcom, Caller
    <3>2. CASE Finish(c, caller, Said("refused", None))
      BY <2>0, <2>1, <3>2, FinishType DEF ArriveCalcom, TypeOK, AttemptCounted
    <3>3. CASE /\ call' = [call EXCEPT ![c].caller = caller, ![c].at = "inquire"]
               /\ UNCHANGED <<memory, upserts>>
      <4> DEFINE x == [call[c] EXCEPT !.caller = caller, !.at = "inquire"]
      <4>0. x \in CallState /\ call' = [call EXCEPT ![c] = x]
        BY <3>3 DEF TypeOK, CallState, Stage, Caller
      <4> HIDE DEF x
      <4>1. call' \in [Calls -> CallState]
        BY <4>0 DEF TypeOK
      <4> QED BY <2>1, <3>3, <4>1 DEF ArriveCalcom, TypeOK, AttemptCounted
    <3>4. ASSUME NEW b \in Bookings,
                 call' = [call EXCEPT ![c].caller = caller, ![c].action = "cancel",
                                      ![c].target = b, ![c].at = "owner"],
                 UNCHANGED <<memory, upserts>>
          PROVE  TypeOK' /\ AttemptCounted'
      <4> DEFINE x == [call[c] EXCEPT !.caller = caller, !.action = "cancel",
                                      !.target = b, !.at = "owner"]
      <4>0. x \in CallState /\ call' = [call EXCEPT ![c] = x]
        BY <3>4 DEF TypeOK, CallState, Stage, Caller, Action
      <4> HIDE DEF x
      <4>1. call' \in [Calls -> CallState]
        BY <4>0 DEF TypeOK
      <4> QED BY <2>1, <3>4, <4>1 DEF ArriveCalcom, TypeOK, AttemptCounted
    <3> QED BY <3>1, <3>2, <3>3, <3>4
  <2>2. ASSUME NEW c \in Calls, Inquire(c) PROVE TypeOK' /\ AttemptCounted'
    <3>1. /\ call' \in [Calls -> CallState]
          /\ memory' \in [Calls -> Record \cup {None}]
          /\ upserts' \subseteq [op : Calls, record : Record]
      <4>1. CASE Return(c, Said("refused", None))
        BY <2>0, <4>1, ReturnType
      <4>2. CASE Goto(c, "book") /\ UNCHANGED <<memory, upserts>>
        BY <4>2, GotoType DEF Stage, TypeOK
      <4> QED BY <2>2, <4>1, <4>2 DEF Inquire
    <3> QED BY <2>2, <3>1 DEF Inquire, TypeOK, AttemptCounted
  <2>3. ASSUME NEW c \in Calls, BookNow(c) PROVE TypeOK' /\ AttemptCounted'
    <3>1. PICK receipt \in Receipt : BookSlot(<<c, 1>>, receipt) /\ Return(c, receipt)
      BY <2>3 DEF BookNow
    <3>2. calendar' \in [Bookings -> Calendar] /\ late' \subseteq Bookings
      BY <2>0, <3>1, BookSlotType
    <3> QED BY <2>3, <3>1, <3>2, ReturnType DEF BookNow, TypeOK, AttemptCounted
  <2>4. ASSUME NEW c \in Calls, CheckOwner(c) PROVE TypeOK' /\ AttemptCounted'
    <3>1. /\ call' \in [Calls -> CallState]
          /\ memory' \in [Calls -> Record \cup {None}]
          /\ upserts' \subseteq [op : Calls, record : Record]
      <4>1. CASE Return(c, Said("refused", None))
        BY <2>0, <4>1, ReturnType
      <4>2. CASE Goto(c, "cancel") /\ UNCHANGED <<memory, upserts>>
        BY <4>2, GotoType DEF Stage, TypeOK
      <4> QED BY <2>4, <4>1, <4>2 DEF CheckOwner
    <3> QED BY <2>4, <3>1 DEF CheckOwner, TypeOK, AttemptCounted
  <2>5. ASSUME NEW c \in Calls, CancelNow(c) PROVE TypeOK' /\ AttemptCounted'
    <3> DEFINE b == call[c].target
    <3>1. call[c].caller \in Caller /\ b \in Bookings \cup {None}
      BY DEF TypeOK, CallState, Caller
    <3>2. \A reason \in Reason : Said(reason, b) \in Receipt /\ Said(reason, None) \in Receipt
      BY <3>1, ReceiptTypes
    <3>3. PICK receipt \in Receipt : Return(c, receipt)
      BY <2>5, <3>2, ReceiptTypes DEF CancelNow
    <3>4. \/ UNCHANGED <<calendar, cancelledBy>>
          \/ /\ calendar' = [calendar EXCEPT ![b] = "cancelled"]
             /\ cancelledBy' = [cancelledBy EXCEPT ![b] = @ \cup {call[c].caller}]
      BY <2>5 DEF CancelNow
    <3>5. calendar' \in [Bookings -> Calendar]
      BY <3>4 DEF TypeOK, Calendar
    <3>6. cancelledBy' \in [Bookings -> SUBSET (Agents \cup {Anonymous})]
      BY <3>1, <3>4 DEF TypeOK, Caller
    <3> QED BY <2>5, <3>3, <3>5, <3>6, ReturnType DEF CancelNow, TypeOK, AttemptCounted
  <2>6. ASSUME NEW c \in Calls, StoreDurably(c) PROVE TypeOK' /\ AttemptCounted'
    <3>1. call' \in [Calls -> CallState]
      BY <2>6, GotoType DEF StoreDurably, Stage
    <3> QED BY <2>6, <3>1 DEF StoreDurably, TypeOK, AttemptCounted
  <2>7. ASSUME NEW c \in Calls, ArriveQueued(c) PROVE TypeOK' /\ AttemptCounted'
    <3>1. PICK caller \in Caller :
             \/ /\ Finish(c, caller, Said("refused", None))
                /\ UNCHANGED job
             \/ /\ memory' = [memory EXCEPT ![c] = Complete(Said("refused", None), caller)]
                /\ upserts' = upserts \cup {[op |-> c, record |-> Pending(caller)],
                                            [op |-> c, record |-> memory'[c]]}
                /\ call' = [call EXCEPT ![c].caller = caller, ![c].at = "answered",
                               ![c].receipt = Said("refused", None)]
                /\ UNCHANGED job
             \/ \E action \in Action :
                  /\ memory' = [memory EXCEPT ![c] = Complete(
                                   Said("booking_in_progress", None), caller)]
                  /\ upserts' = upserts \cup {[op |-> c, record |-> Pending(caller)],
                                              [op |-> c, record |-> memory'[c]]}
                  /\ call' = [call EXCEPT ![c].caller = caller, ![c].action = action,
                                 ![c].at = "answered",
                                 ![c].receipt = Said("booking_in_progress", None)]
                  /\ job' = [job EXCEPT ![c].at = "queued"]
      BY <2>7 DEF ArriveQueued, Caller
    <3>2. CASE Finish(c, caller, Said("refused", None)) /\ UNCHANGED job
      BY <2>0, <2>7, <3>2, FinishType DEF ArriveQueued, TypeOK, AttemptCounted
    <3>3. ASSUME NEW receipt \in Receipt, NEW action \in Action,
                 memory' = [memory EXCEPT ![c] = Complete(receipt, caller)],
                 upserts' = upserts \cup {[op |-> c, record |-> Pending(caller)],
                                          [op |-> c, record |-> memory'[c]]},
                 \/ call' = [call EXCEPT ![c].caller = caller, ![c].at = "answered",
                                         ![c].receipt = receipt]
                 \/ call' = [call EXCEPT ![c].caller = caller, ![c].action = action,
                                         ![c].at = "answered", ![c].receipt = receipt],
                 UNCHANGED job \/ job' = [job EXCEPT ![c].at = "queued"]
          PROVE  TypeOK' /\ AttemptCounted'
      <4> DEFINE x == [call[c] EXCEPT !.caller = caller, !.at = "answered",
                                      !.receipt = receipt]
                 y == [call[c] EXCEPT !.caller = caller, !.action = action,
                                      !.at = "answered", !.receipt = receipt]
                 z == [job[c] EXCEPT !.at = "queued"]
      <4>a. call[c] \in CallState /\ job[c] \in JobState
        BY DEF TypeOK
      <4>b. x \in CallState
        BY <3>3, <4>a DEF CallState, Stage, Caller
      <4>c. y \in CallState
        BY <3>3, <4>a DEF CallState, Stage, Caller
      <4>d. call' = [call EXCEPT ![c] = x] \/ call' = [call EXCEPT ![c] = y]
        <5>1. CASE call' = [call EXCEPT ![c].caller = caller, ![c].at = "answered",
                                        ![c].receipt = receipt]
          BY <5>1 DEF TypeOK
        <5>2. CASE call' = [call EXCEPT ![c].caller = caller, ![c].action = action,
                                        ![c].at = "answered", ![c].receipt = receipt]
          BY <5>2 DEF TypeOK
        <5> QED BY <3>3, <5>1, <5>2
      <4>e. z \in JobState /\ z.at = "queued"
        BY <4>a DEF JobState
      <4>f. job' = job \/ job' = [job EXCEPT ![c] = z]
        BY <3>3 DEF TypeOK
      <4> HIDE DEF x, y, z
      <4>1. call' \in [Calls -> CallState]
        BY <4>b, <4>c, <4>d DEF TypeOK
      <4>2. /\ memory' \in [Calls -> Record \cup {None}]
            /\ upserts' \subseteq [op : Calls, record : Record]
        BY <3>3, RecordTypes DEF TypeOK
      <4>3. /\ job' \in [Calls -> JobState]
            /\ \A d \in Calls : job'[d].at = "running" => job'[d] = job[d]
        BY <4>e, <4>f DEF TypeOK
      <4> QED BY <2>7, <4>1, <4>2, <4>3 DEF ArriveQueued, TypeOK, AttemptCounted
    <3> QED BY <3>1, <3>2, <3>3, ReceiptTypes DEF Action
  <2>8. ASSUME NEW c \in Calls, WorkerStart(c) PROVE TypeOK' /\ AttemptCounted'
    <3>1. job[c].tries \in 0..MaxTries /\ job[c].tries < MaxTries
      BY <2>8 DEF WorkerStart, TypeOK, JobState
    <3>2. job[c].tries + 1 \in 1..MaxTries
      BY <3>1, BookingsAssumption
    <3>3. /\ job' \in [Calls -> JobState]
          /\ \A d \in Calls : job'[d].at = "running" => job'[d].tries > 0
      BY <2>8, <3>2 DEF WorkerStart, TypeOK, JobState, AttemptCounted
    <3> QED BY <2>8, <3>3 DEF WorkerStart, TypeOK, AttemptCounted
  <2>9. ASSUME NEW c \in Calls, WorkerRuns(c) PROVE TypeOK' /\ AttemptCounted'
    <3>1. <<c, job[c].tries>> \in Bookings
      BY <2>9 DEF WorkerRuns, TypeOK, JobState, AttemptCounted, Bookings
    <3>2. PICK receipt \in Receipt :
             /\ WorkerResult(c, receipt)
             /\ UNCHANGED <<calendar, late>> \/ BookSlot(<<c, job[c].tries>>, receipt)
      BY <2>9, ReceiptTypes DEF WorkerRuns, NothingDone
    <3>3. calendar' \in [Bookings -> Calendar] /\ late' \subseteq Bookings
      BY <3>1, <3>2, BookSlotType DEF TypeOK
    <3>4. /\ job' \in [Calls -> JobState]
          /\ \A d \in Calls : job'[d].at = "running" => job'[d] = job[d]
      BY <3>2 DEF WorkerResult, TypeOK, JobState
    <3> QED BY <2>9, <3>3, <3>4 DEF WorkerRuns, TypeOK, AttemptCounted
  <2>10. ASSUME NEW c \in Calls, WorkerAcks(c) PROVE TypeOK' /\ AttemptCounted'
    <3>1. /\ job' \in [Calls -> JobState]
          /\ \A d \in Calls : job'[d].at = "running" => job'[d] = job[d]
      BY <2>10 DEF WorkerAcks, TypeOK, JobState
    <3> QED BY <2>10, <3>1 DEF WorkerAcks, TypeOK, AttemptCounted
  <2>11. ASSUME NEW u \in upserts, Upsert(u) PROVE TypeOK' /\ AttemptCounted'
    <3>1. u.op \in Calls /\ u.record \in Record
      BY DEF TypeOK
    <3> QED BY <2>11, <3>1 DEF Upsert, TypeOK, AttemptCounted
  <2>12. ASSUME NEW b \in Bookings, BusinessAccepts(b) \/ LateBooking(b)
         PROVE  TypeOK' /\ AttemptCounted'
    BY <2>12 DEF BusinessAccepts, LateBooking, Holds, TypeOK, AttemptCounted, Calendar
  <2>13. CASE WorkerCrash
    <3> DEFINE hit == {c \in Calls : job[c].at \in {"running", "acking"}}
               asked == {<<c, job[c].tries>> : c \in {x \in hit : job[x].at = "running"}}
    <3>1. asked \subseteq Bookings
      BY DEF TypeOK, JobState, AttemptCounted, Bookings
    <3>2. late' \subseteq Bookings /\ redelivered' \subseteq Calls
      BY <2>13, <3>1 DEF WorkerCrash, TypeOK
    <3>3. job' = [c \in Calls |-> IF c \in hit THEN [job[c] EXCEPT !.at = "queued"] ELSE job[c]]
      BY <2>13 DEF WorkerCrash
    <3>4. /\ job' \in [Calls -> JobState]
          /\ \A d \in Calls : job'[d].at = "running" => job'[d] = job[d]
      BY <3>3 DEF TypeOK, JobState
    <3>5. crashes' \in 0..MaxCrashes
      BY <2>13, BookingsAssumption DEF WorkerCrash, TypeOK
    <3> QED BY <2>13, <3>2, <3>4, <3>5 DEF WorkerCrash, TypeOK, AttemptCounted
  <2>14. CASE Crash
    <3>1. ASSUME NEW c \in Calls
          PROVE  (IF call[c].at \in {"idle", "answered"} THEN call[c]
                  ELSE [call[c] EXCEPT !.at = "answered", !.receipt = None]) \in CallState
      <4>1. call[c] \in CallState
        BY DEF TypeOK
      <4>2. [call[c] EXCEPT !.at = "answered", !.receipt = None] \in CallState
        BY <4>1 DEF CallState, Stage
      <4> QED BY <4>1, <4>2
    <3>2. call' = [c \in Calls |->
             IF call[c].at \in {"idle", "answered"} THEN call[c]
             ELSE [call[c] EXCEPT !.at = "answered", !.receipt = None]]
      BY <2>14, Zenon DEF Crash
    <3>3. call' \in [Calls -> CallState]
      BY <3>1, <3>2
    <3>4. late' \subseteq Bookings
      <4>1. PICK sent \in SUBSET {<<c, 1>> : c \in {x \in Calls : At(x, "book")}} :
               late' = late \cup sent
        BY <2>14, Zenon DEF Crash
      <4>2. sent \subseteq Bookings
        BY <2>0
      <4> QED BY <4>1, <4>2 DEF TypeOK
    <3>5. PICK served \in SUBSET {c \in Calls : At(c, "cancel")} :
             /\ calendar' = [b \in Bookings |->
                   IF \E c \in served : call[c].target = b THEN "cancelled" ELSE calendar[b]]
             /\ cancelledBy' = [b \in Bookings |-> cancelledBy[b] \cup
                   {call[c].caller : c \in {x \in served : call[x].target = b}}]
      BY <2>14, Zenon DEF Crash
    <3>6. calendar' \in [Bookings -> Calendar]
      BY <3>5 DEF TypeOK, Calendar
    <3>7. cancelledBy' \in [Bookings -> SUBSET (Agents \cup {Anonymous})]
      <4>1. \A c \in served : call[c].caller \in Agents \cup {Anonymous}
        BY DEF TypeOK, CallState
      <4> QED BY <3>5, <4>1 DEF TypeOK
    <3>8. /\ crashes < MaxCrashes /\ crashes' = crashes + 1
          /\ memory' = [c \in Calls |-> None] /\ upserts' = {}
          /\ UNCHANGED <<row, unsaved, worker>>
      BY <2>14, Zenon DEF Crash
    <3>9. crashes' \in 0..MaxCrashes
      BY <3>8, BookingsAssumption DEF TypeOK
    <3> QED BY <3>3, <3>4, <3>6, <3>7, <3>8, <3>9 DEF TypeOK, AttemptCounted
  <2>15. CASE UNCHANGED vars
    BY <2>15 DEF vars, TypeOK, AttemptCounted
  <2> QED
    BY <2>1, <2>2, <2>3, <2>4, <2>5, <2>6, <2>7, <2>8, <2>9, <2>10, <2>11,
       <2>12, <2>13, <2>14, <2>15 DEF Next
<1> QED BY <1>1, <1>2, PTL DEF Spec

\* Every variable stays in its type, and a job is attempted no more often
\* than it may be.
THEOREM TypeCorrect == Spec => []TypeOK
BY TypesAndAttempts, PTL

LEMMA AttemptsCounted == Spec => []AttemptCounted
BY TypesAndAttempts, PTL

----------------------------------------------------------------------------
(* Bookings are cancelled by their owners only.  Every record that names a  *)
(* booking, in memory, in the table or on its way there, gives it no owner  *)
(* or the agent whose call made it; and a call that got past read_denial    *)
(* was made by the owner that it found.                                     *)

\* Agent a made the call that booked b.
Owns(a, b) == a \in Agents /\ ~At(b[1], "idle") /\ call[b[1]].caller = a

OwnedRecord(r) ==
    r # None /\ r.receipt # None =>
        \A b \in Bookings : r.receipt.booking = b => r.owner = None \/ Owns(r.owner, b)

Records == {memory[c] : c \in Calls} \cup {row[c] : c \in Calls}
           \cup {u.record : u \in upserts}

CancelsOwn ==
    \A c \in Calls :
        /\ At(c, "owner") => call[c].target \in Bookings
        /\ At(c, "cancel") =>
              call[c].target \in Bookings /\ Owns(call[c].caller, call[c].target)

OwnerInv ==
    /\ \A r \in Records : OwnedRecord(r)
    /\ CancelsOwn
    /\ \A b \in Bookings : \A a \in cancelledBy[b] : Owns(a, b)

\* A call that was made stays made, by the same caller.
MadeStays ==
    \A c \in Calls : ~At(c, "idle") => call'[c].at # "idle" /\ call'[c].caller = call[c].caller

LEMMA OwnsStays ==
    ASSUME MadeStays, NEW b \in Bookings, NEW a, Owns(a, b)
    PROVE  Owns(a, b)'
<1>1. b[1] \in Calls
  BY DEF Bookings
<1> QED BY <1>1 DEF MadeStays, Owns, At

LEMMA RecordStays ==
    ASSUME MadeStays, NEW r, OwnedRecord(r)
    PROVE  OwnedRecord(r)'
BY OwnsStays DEF OwnedRecord

\* What a step has to keep.
LEMMA OwnerInvKept ==
    ASSUME TypeOK, TypeOK', OwnerInv, MadeStays,
           \A r \in Records' : r \in Records \/ OwnedRecord(r)',
           \A c \in Calls : call'[c].at = "cancel" =>
               \/ At(c, "cancel") /\ call'[c].target = call[c].target
               \/ call'[c].target \in Bookings /\ Owns(call'[c].caller, call'[c].target),
           \A c \in Calls : call'[c].at = "owner" =>
               call'[c] = call[c] \/ call'[c].target \in Bookings,
           \A b \in Bookings : \A a \in cancelledBy'[b] :
               \/ a \in cancelledBy[b]
               \/ \E c \in Calls : At(c, "cancel") /\ call[c].target = b /\ a = call[c].caller
    PROVE  OwnerInv'
<1>1. \A r \in Records' : OwnedRecord(r)'
  BY RecordStays DEF OwnerInv
<1>2. ASSUME NEW c \in Calls, call'[c].at = "cancel"
      PROVE  call'[c].target \in Bookings /\ Owns(call[c].caller, call[c].target)'
  <2>1. CASE At(c, "cancel") /\ call'[c].target = call[c].target
    <3> DEFINE b == call[c].target
               a == call[c].caller
    <3>1. b \in Bookings /\ Owns(a, b)
      BY <2>1 DEF OwnerInv, CancelsOwn
    <3>2. call'[c].caller = a /\ call'[c].target = b
      BY <2>1 DEF MadeStays, At
    <3> HIDE DEF a, b
    <3>3. b[1] \in Calls
      BY <3>1 DEF Bookings
    <3>4. a \in Agents /\ call'[b[1]].at # "idle" /\ call'[b[1]].caller = a
      BY <3>1, <3>3 DEF Owns, MadeStays, At
    <3> QED BY <3>1, <3>2, <3>4 DEF Owns, At
  <2>2. CASE call'[c].target \in Bookings /\ Owns(call'[c].caller, call'[c].target)
    <3>1. call'[c].target[1] \in Calls
      BY <2>2 DEF Bookings
    <3> QED BY <2>2, <3>1 DEF Owns, MadeStays, At
  <2> QED BY <1>2, <2>1, <2>2
<1>3. ASSUME NEW b \in Bookings, NEW a \in cancelledBy'[b] PROVE Owns(a, b)'
  <2>1. Owns(a, b)
    BY <1>3 DEF OwnerInv, CancelsOwn
  <2> QED BY <2>1, OwnsStays
<1>4. CancelsOwn'
  <2>1. \A c \in Calls : call'[c].at = "owner" => call'[c].target \in Bookings
    BY DEF OwnerInv, CancelsOwn, At
  <2> QED BY <1>2, <2>1 DEF CancelsOwn, At
<1> QED BY <1>1, <1>3, <1>4 DEF OwnerInv

\* Steps that leave the calls and the records alone, or lose some.
LEMMA NoNewRecord ==
    ASSUME TypeOK, TypeOK', OwnerInv, Records' \subseteq Records,
           \A c \in Calls : \/ call'[c] = call[c]
                           \/ /\ ~At(c, "idle") /\ call'[c].at \notin {"idle", "owner", "cancel"}
                              /\ call'[c].caller = call[c].caller,
           \A b \in Bookings : \A a \in cancelledBy'[b] :
               \/ a \in cancelledBy[b]
               \/ \E c \in Calls : At(c, "cancel") /\ call[c].target = b /\ a = call[c].caller
    PROVE  OwnerInv'
<1>1. MadeStays
  BY DEF MadeStays, At
<1> QED BY <1>1, OwnerInvKept DEF At

\* Who may have a record owned by the caller it is written for.
LEMMA CompleteOwned ==
    ASSUME NEW receipt \in Receipt, NEW caller \in Caller,
           \A b \in Bookings : receipt.booking = b => (caller \in Agents => Owns(caller, b)')
    PROVE  OwnedRecord(Complete(receipt, caller))'
<1>1. /\ Complete(receipt, caller).receipt = receipt
      /\ Complete(receipt, caller).owner = None \/ caller \in Agents
      /\ Complete(receipt, caller).owner \in {None, caller}
  BY DEF Complete, OwnerForStorage, Caller
<1> QED BY <1>1 DEF OwnedRecord

\* A call that finishes with a receipt about no booking, about its own, or
\* about one that its caller owns.
LEMMA FinishOwned ==
    ASSUME TypeOK, TypeOK', OwnerInv, NEW c \in Calls, NEW caller \in Caller,
           NEW receipt \in Receipt, Finish(c, caller, receipt), row' = row,
           At(c, "idle") \/ caller = call[c].caller,
           \A b \in Bookings : receipt.booking = b => b[1] = c \/ Owns(caller, b),
           \A b \in Bookings : \A a \in cancelledBy'[b] :
               \/ a \in cancelledBy[b]
               \/ \E d \in Calls : At(d, "cancel") /\ call[d].target = b /\ a = call[d].caller
    PROVE  OwnerInv'
<1> DEFINE record == Complete(receipt, caller)
<1>1. /\ call'[c].at \in {"store", "answered"} /\ call'[c].caller = caller
      /\ \A d \in Calls : d # c => call'[d] = call[d]
      /\ memory' = [memory EXCEPT ![c] = record]
      /\ upserts' = upserts \cup {[op |-> c, record |-> record]}
  BY DEF Finish, Fire, TypeOK, CallState
<1>2. MadeStays
  BY <1>1 DEF MadeStays, At
<1>3. OwnedRecord(record)'
  <2> SUFFICES ASSUME NEW b \in Bookings, receipt.booking = b, caller \in Agents
               PROVE  Owns(caller, b)'
    BY CompleteOwned
  <2>1. CASE b[1] = c
    BY <1>1, <2>1 DEF Owns, At
  <2>2. CASE Owns(caller, b)
    BY <1>2, <2>2, OwnsStays
  <2> QED BY <2>1, <2>2
<1> HIDE DEF record
<1>4. Records' \subseteq Records \cup {record}
  BY <1>1 DEF Records, TypeOK
<1>5. \A d \in Calls : call'[d].at \in {"owner", "cancel"} => call'[d] = call[d]
  BY <1>1
<1> QED BY <1>2, <1>3, <1>4, <1>5, OwnerInvKept DEF At

LEMMA RefusedOwned ==
    ASSUME TypeOK, TypeOK', OwnerInv, NEW c \in Calls, NEW caller \in Caller,
           Finish(c, caller, Said("refused", None)), row' = row, cancelledBy' = cancelledBy,
           At(c, "idle") \/ caller = call[c].caller
    PROVE  OwnerInv'
<1>1. /\ Said("refused", None) \in Receipt
      /\ \A b \in Bookings : Said("refused", None).booking # b
  BY ReceiptTypes, BookingsAssumption DEF Said, Bookings
<1> QED BY <1>1, FinishOwned

\* Nobody but the agent whose confirmed booking it is gets a cancellation as
\* far as the provider, whatever is lost between the calls, the table and
\* the crashes in between.
THEOREM OwnersCancel == Spec => []OnlyOwnersCancel
<1>1. Init => OwnerInv
  <2> SUFFICES ASSUME Init PROVE OwnerInv
    OBVIOUS
  <2>1. Records \subseteq {None}
    BY DEF Init, Records
  <2>2. \A c \in Calls : call[c].at = "idle"
    BY DEF Init
  <2> QED BY <2>1, <2>2 DEF Init, OwnerInv, OwnedRecord, CancelsOwn, At
<1>2. TypeOK /\ TypeOK' /\ OwnerInv /\ [Next]_vars => OwnerInv'
  <2> SUFFICES ASSUME TypeOK, TypeOK', OwnerInv, [Next]_vars PROVE OwnerInv'
    OBVIOUS
  <2> USE DEF provider, store, worker
  <2>1. ASSUME UNCHANGED <<call, memory, row, upserts, cancelledBy>> PROVE OwnerInv'
    <3>1. Records' = Records
      BY <2>1 DEF Records
    <3> QED BY <2>1, <3>1, NoNewRecord
  <2>2. ASSUME NEW c \in Calls, ArriveCalcom(c) PROVE OwnerInv'
    <3>1. At(c, "idle") /\ row' = row /\ cancelledBy' = cancelledBy
      BY <2>2 DEF ArriveCalcom
    <3>2. ASSUME NEW caller \in Caller, Finish(c, caller, Said("refused", None))
          PROVE  OwnerInv'
      BY <3>1, <3>2, RefusedOwned
    <3>3. ASSUME UNCHANGED <<memory, upserts>>,
                 \/ call'[c].at = "inquire"
                 \/ call'[c].at = "owner" /\ call'[c].target \in Bookings,
                 \A d \in Calls : d # c => call'[d] = call[d]
          PROVE  OwnerInv'
      <4>1. Records' = Records /\ MadeStays
        BY <3>1, <3>3 DEF Records, MadeStays, At
      <4>2. \A d \in Calls : call'[d].at = "cancel" => call'[d] = call[d]
        BY <3>3
      <4>3. \A d \in Calls : call'[d].at = "owner" =>
                call'[d] = call[d] \/ call'[d].target \in Bookings
        BY <3>3
      <4> QED BY <3>1, <4>1, <4>2, <4>3, OwnerInvKept DEF At
    <3>4. ASSUME NEW caller \in Caller,
                 call' = [call EXCEPT ![c].caller = caller, ![c].at = "inquire"],
                 UNCHANGED <<memory, upserts>>
          PROVE  OwnerInv'
      <4>1. call'[c].at = "inquire" /\ \A d \in Calls : d # c => call'[d] = call[d]
        BY <3>4 DEF TypeOK, CallState
      <4> QED BY <3>3, <3>4, <4>1
    <3>5. ASSUME NEW caller \in Caller, NEW b \in Bookings,
                 call' = [call EXCEPT ![c].caller = caller, ![c].action = "cancel",
                                      ![c].target = b, ![c].at = "owner"],
                 UNCHANGED <<memory, upserts>>
          PROVE  OwnerInv'
      <4>1. /\ call'[c].at = "owner" /\ call'[c].target = b
            /\ \A d \in Calls : d # c => call'[d] = call[d]
        BY <3>5 DEF TypeOK, CallState
      <4> QED BY <3>3, <3>5, <4>1
    <3> QED BY <2>2, <3>2, <3>4, <3>5 DEF ArriveCalcom, Caller
  <2>3. ASSUME NEW c \in Calls, Inquire(c) PROVE OwnerInv'
    <3>1. /\ call[c].at = "inquire" /\ call[c].caller \in Caller
          /\ row' = row /\ cancelledBy' = cancelledBy
      BY <2>3 DEF Inquire, At, TypeOK, CallState, Caller
    <3>2. CASE Return(c, Said("refused", None))
      BY <3>1, <3>2, RefusedOwned DEF Return
    <3>3. CASE Goto(c, "book") /\ UNCHANGED <<memory, upserts>>
      <4>1. /\ call'[c].at = "book" /\ call'[c].caller = call[c].caller
            /\ \A d \in Calls : d # c => call'[d] = call[d]
        BY <3>3 DEF Goto, TypeOK, CallState
      <4>2. Records' = Records
        BY <3>1, <3>3 DEF Records
      <4> QED BY <3>1, <4>1, <4>2, NoNewRecord DEF At
    <3> QED BY <2>3, <3>2, <3>3 DEF Inquire
  <2>4. ASSUME NEW c \in Calls, BookNow(c) PROVE OwnerInv'
    <3>1. PICK receipt \in Receipt : BookSlot(<<c, 1>>, receipt) /\ Return(c, receipt)
      BY <2>4 DEF BookNow
    <3>2. receipt.booking \in {<<c, 1>>, None}
      BY <3>1 DEF BookSlot, Verdict, Said
    <3>3. \A b \in Bookings : receipt.booking = b => b[1] = c
      BY <3>2, BookingsAssumption DEF Bookings
    <3>4. call[c].caller \in Caller /\ row' = row /\ cancelledBy' = cancelledBy
      BY <2>4 DEF BookNow, TypeOK, CallState, Caller
    <3> QED BY <3>1, <3>3, <3>4, FinishOwned DEF Return
  <2>5. ASSUME NEW c \in Calls, CheckOwner(c) PROVE OwnerInv'
    <3>1. /\ call[c].at = "owner" /\ call[c].caller \in Caller
          /\ row' = row /\ cancelledBy' = cancelledBy
      BY <2>5 DEF CheckOwner, At, TypeOK, CallState, Caller
    <3>2. CASE Return(c, Said("refused", None))
      BY <3>1, <3>2, RefusedOwned DEF Return
    <3>3. ASSUME NEW owner \in OwnersFound(call[c].target),
                 MayActOn(call[c].caller, owner), Goto(c, "cancel"),
                 UNCHANGED <<memory, upserts>>
          PROVE  OwnerInv'
      <4> DEFINE b == call[c].target
      <4>1. b \in Bookings /\ owner # None /\ owner = call[c].caller
        BY <3>1, <3>3 DEF OwnerInv, CancelsOwn, At, MayActOn
      <4>2. \E r \in Records : /\ r # None /\ r.receipt # None
                              /\ r.receipt.booking = b /\ r.owner = owner
        <5>1. ASSUME NEW d \in Calls, Confirms(memory[d], b), owner = memory[d].owner
              PROVE  \E r \in Records : /\ r # None /\ r.receipt # None
                                       /\ r.receipt.booking = b /\ r.owner = owner
          <6>1. memory[d] # None /\ memory[d].receipt = Said("appointment_confirmed", b)
            BY <5>1 DEF Confirms
          <6>2. Said("appointment_confirmed", b) \in Receipt
            BY <4>1, ReceiptTypes DEF Reason, Awaited
          <6>3. memory[d].receipt # None /\ memory[d].receipt.booking = b
            BY <6>1, <6>2, NothingAssumption DEF Said
          <6>4. memory[d] \in Records
            BY DEF Records
          <6> QED BY <5>1, <6>1, <6>3, <6>4
        <5>2. ASSUME NEW d \in Calls, Names(row[d], b), owner = row[d].owner
              PROVE  \E r \in Records : /\ r # None /\ r.receipt # None
                                       /\ r.receipt.booking = b /\ r.owner = owner
          <6>1. row[d] \in Records
            BY DEF Records
          <6> QED BY <5>2, <6>1 DEF Names
        <5>3. \/ \E d \in Calls : Confirms(memory[d], b) /\ owner = memory[d].owner
              \/ \E d \in Calls : Names(row[d], b) /\ owner = row[d].owner
          BY <3>3, <4>1 DEF OwnersFound
        <5> QED BY <5>1, <5>2, <5>3
      <4>3. Owns(call[c].caller, b)
        BY <4>1, <4>2 DEF OwnerInv, OwnedRecord
      <4>4. /\ call'[c].at = "cancel" /\ call'[c].caller = call[c].caller
            /\ call'[c].target = b
            /\ \A d \in Calls : d # c => call'[d] = call[d]
        BY <3>3 DEF Goto, TypeOK, CallState
      <4>5. Records' = Records /\ MadeStays
        BY <3>1, <3>3, <4>4 DEF Records, MadeStays, At
      <4> QED BY <3>1, <4>1, <4>3, <4>4, <4>5, OwnerInvKept DEF At
    <3> QED BY <2>5, <3>2, <3>3 DEF CheckOwner
  <2>6. ASSUME NEW c \in Calls, CancelNow(c) PROVE OwnerInv'
    <3> DEFINE b == call[c].target
    <3>1. /\ call[c].at = "cancel" /\ call[c].caller \in Caller /\ row' = row
          /\ b \in Bookings /\ Owns(call[c].caller, b)
      BY <2>6 DEF CancelNow, At, TypeOK, CallState, Caller, OwnerInv, CancelsOwn
    <3>2. \E receipt \in {Said("cancelled", b), Said("outcome_unknown", None),
                          Said("calcom_booking_failed", None)} : Return(c, receipt)
      BY <2>6 DEF CancelNow
    <3>3. \/ cancelledBy' = cancelledBy
          \/ cancelledBy' = [cancelledBy EXCEPT ![b] = @ \cup {call[c].caller}]
      BY <2>6 DEF CancelNow
    <3>4. PICK receipt \in {Said("cancelled", b), Said("outcome_unknown", None),
                           Said("calcom_booking_failed", None)} : Return(c, receipt)
      BY <3>2
    <3>5. receipt \in Receipt /\ receipt.booking \in {b, None}
      BY <3>1, ReceiptTypes DEF Said
    <3>6. \A bb \in Bookings : receipt.booking = bb => Owns(call[c].caller, bb)
      BY <3>1, <3>5, BookingsAssumption DEF Bookings
    <3>7. \A bb \in Bookings : \A a \in cancelledBy'[bb] :
               \/ a \in cancelledBy[bb]
               \/ At(c, "cancel") /\ call[c].target = bb /\ a = call[c].caller
      BY <3>1, <3>3 DEF TypeOK, At
    <3> HIDE DEF b
    <3> QED BY <3>1, <3>4, <3>5, <3>6, <3>7, FinishOwned DEF Return
  <2>7. ASSUME NEW c \in Calls, StoreDurably(c) PROVE OwnerInv'
    <3>1. /\ call[c].at = "store" /\ Goto(c, "answered")
          /\ row' = row \/ row' = [row EXCEPT ![c] = memory[c]]
          /\ UNCHANGED <<memory, upserts, cancelledBy>>
      BY <2>7 DEF StoreDurably, At
    <3>2. Records' \subseteq Records
      BY <3>1 DEF Records, TypeOK
    <3>3. /\ call'[c].at = "answered" /\ call'[c].caller = call[c].caller
          /\ \A d \in Calls : d # c => call'[d] = call[d]
      BY <3>1 DEF Goto, TypeOK, CallState
    <3> QED BY <3>1, <3>2, <3>3, NoNewRecord DEF At
  <2>8. ASSUME NEW c \in Calls, ArriveQueued(c) PROVE OwnerInv'
    <3>1. At(c, "idle") /\ row' = row /\ cancelledBy' = cancelledBy
      BY <2>8 DEF ArriveQueued
    <3>2. ASSUME NEW caller \in Caller, Finish(c, caller, Said("refused", None))
          PROVE  OwnerInv'
      BY <3>1, <3>2, RefusedOwned
    <3>3. ASSUME NEW caller \in Caller, NEW reason \in {"refused", "booking_in_progress"},
                 memory' = [memory EXCEPT ![c] = Complete(Said(reason, None), caller)],
                 upserts' = upserts \cup {[op |-> c, record |-> Pending(caller)],
                                          [op |-> c, record |-> memory'[c]]},
                 call'[c].at = "answered",
                 \A d \in Calls : d # c => call'[d] = call[d]
          PROVE  OwnerInv'
      <4> DEFINE record == Complete(Said(reason, None), caller)
      <4>1. MadeStays
        BY <3>1, <3>3 DEF MadeStays, At
      <4>2. OwnedRecord(record)'
        <5>1. record.receipt.booking = None
          BY DEF Complete, Said
        <5>2. \A b \in Bookings : b # None
          BY BookingsAssumption DEF Bookings
        <5> HIDE DEF record
        <5> QED BY <5>1, <5>2 DEF OwnedRecord
      <4>3. OwnedRecord(Pending(caller))'
        BY DEF OwnedRecord, Pending
      <4>4. memory'[c] = record /\ \A d \in Calls : d # c => memory'[d] = memory[d]
        BY <3>3 DEF TypeOK
      <4> HIDE DEF record
      <4>5. Records' \subseteq Records \cup {record, Pending(caller)}
        BY <3>1, <3>3, <4>4 DEF Records
      <4>6. \A d \in Calls : call'[d].at \in {"owner", "cancel"} => call'[d] = call[d]
        BY <3>3
      <4> QED BY <3>1, <4>1, <4>2, <4>3, <4>5, <4>6, OwnerInvKept DEF At
    <3>4. ASSUME NEW caller \in Caller,
                 memory' = [memory EXCEPT ![c] = Complete(Said("refused", None), caller)],
                 upserts' = upserts \cup {[op |-> c, record |-> Pending(caller)],
                                          [op |-> c, record |-> memory'[c]]},
                 call' = [call EXCEPT ![c].caller = caller, ![c].at = "answered",
                                      ![c].receipt = Said("refused", None)]
          PROVE  OwnerInv'
      <4>1. call'[c].at = "answered" /\ \A d \in Calls : d # c => call'[d] = call[d]
        BY <3>4 DEF TypeOK, CallState
      <4> QED BY <3>3, <3>4, <4>1
    <3>5. ASSUME NEW caller \in Caller, NEW action \in Action,
                 memory' = [memory EXCEPT ![c] =
                               Complete(Said("booking_in_progress", None), caller)],
                 upserts' = upserts \cup {[op |-> c, record |-> Pending(caller)],
                                          [op |-> c, record |-> memory'[c]]},
                 call' = [call EXCEPT ![c].caller = caller, ![c].action = action,
                                      ![c].at = "answered",
                                      ![c].receipt = Said("booking_in_progress", None)]
          PROVE  OwnerInv'
      <4>1. call'[c].at = "answered" /\ \A d \in Calls : d # c => call'[d] = call[d]
        BY <3>5 DEF TypeOK, CallState
      <4> QED BY <3>3, <3>5, <4>1
    <3> QED BY <2>8, <3>2, <3>4, <3>5 DEF ArriveQueued, Caller
  <2>9. ASSUME NEW c \in Calls, WorkerStart(c) \/ WorkerRuns(c) \/ WorkerAcks(c)
        PROVE  OwnerInv'
    BY <2>1, <2>9 DEF WorkerStart, WorkerRuns, WorkerAcks
  <2>10. ASSUME NEW u \in upserts, Upsert(u) PROVE OwnerInv'
    <3>1. /\ u.op \in Calls /\ upserts' = upserts \ {u}
          /\ row' = row \/ row' = [row EXCEPT ![u.op] = u.record]
          /\ UNCHANGED <<call, memory, cancelledBy>>
      BY <2>10 DEF Upsert, TypeOK
    <3>2. Records' \subseteq Records
      BY <3>1 DEF Records, TypeOK
    <3> QED BY <3>1, <3>2, NoNewRecord
  <2>11. ASSUME NEW b \in Bookings, BusinessAccepts(b) \/ LateBooking(b) PROVE OwnerInv'
    BY <2>1, <2>11 DEF BusinessAccepts, LateBooking
  <2>12. CASE WorkerCrash
    BY <2>1, <2>12, Zenon DEF WorkerCrash
  <2>13. CASE Crash
    <3>1. PICK served \in SUBSET {c \in Calls : At(c, "cancel")} :
             cancelledBy' = [b \in Bookings |-> cancelledBy[b] \cup
                {call[c].caller : c \in {x \in served : call[x].target = b}}]
      BY <2>13, Zenon DEF Crash
    <3>2. /\ memory' = [c \in Calls |-> None] /\ upserts' = {} /\ row' = row
          /\ call' = [c \in Calls |->
                IF call[c].at \in {"idle", "answered"} THEN call[c]
                ELSE [call[c] EXCEPT !.at = "answered", !.receipt = None]]
      BY <2>13, Zenon DEF Crash
    <3>3. \A c \in Calls : \/ call'[c] = call[c]
                           \/ /\ ~At(c, "idle") /\ call'[c].at = "answered"
                              /\ call'[c].caller = call[c].caller
      <4> SUFFICES ASSUME NEW c \in Calls
                   PROVE  \/ call'[c] = call[c]
                          \/ /\ ~At(c, "idle") /\ call'[c].at = "answered"
                             /\ call'[c].caller = call[c].caller
        OBVIOUS
      <4>1. CASE call[c].at \in {"idle", "answered"}
        BY <3>2, <4>1
      <4>2. CASE call[c].at \notin {"idle", "answered"}
        <5>1. call'[c] = [call[c] EXCEPT !.at = "answered", !.receipt = None]
          BY <3>2, <4>2
        <5>2. call[c] \in CallState
          BY DEF TypeOK
        <5>3. call'[c].at = "answered" /\ call'[c].caller = call[c].caller
          BY <5>1, <5>2 DEF CallState
        <5> QED BY <5>3, <4>2 DEF At
      <4> QED BY <4>1, <4>2
    <3>4. MadeStays
      BY <3>3 DEF MadeStays, At
    <3>5. Records' \subseteq Records \cup {None} /\ OwnedRecord(None)'
      BY <3>2 DEF Records, OwnedRecord
    <3>6. \A b \in Bookings : \A a \in cancelledBy'[b] :
               \/ a \in cancelledBy[b]
               \/ \E c \in Calls : At(c, "cancel") /\ call[c].target = b /\ a = call[c].caller
      BY <3>1
    <3> QED BY <3>3, <3>4, <3>5, <3>6, OwnerInvKept DEF At
  <2>14. CASE UNCHANGED vars
    BY <2>1, <2>14 DEF vars
  <2> QED
    BY <2>2, <2>3, <2>4, <2>5, <2>6, <2>7, <2>8, <2>9, <2>10, <2>11,
       <2>12, <2>13, <2>14 DEF Next
<1>3. OwnerInv => OnlyOwnersCancel
  BY DEF OwnerInv, Owns, OnlyOwnersCancel
<1> QED BY <1>1, <1>2, <1>3, TypeCorrect, PTL DEF Spec

----------------------------------------------------------------------------
(* Outcomes survive.  The writes of an operation that are under way carry   *)
(* the receipt that its caller was or will be told, if it is one that must  *)
(* not be lost, and so does the server's record until the awaited write:    *)
(* no earlier write of the same operation can land after it.                *)

SavedCall(c) ==
    /\ /\ c \notin unsaved /\ At(c, "answered") /\ call[c].receipt # None
       /\ call[c].receipt.reason \in Awaited
       => row[c] # None /\ row[c].receipt = call[c].receipt
    /\ At(c, "store") => memory[c] # None /\ memory[c].receipt = call[c].receipt
    /\ \A u \in upserts : u.op = c =>
          /\ At(c, "store") \/ At(c, "answered")
          /\ call[c].receipt # None /\ call[c].receipt.reason \in Awaited
                => u.record.receipt = call[c].receipt

SavedInv == \A c \in Calls : SavedCall(c)

\* A call that a step leaves alone.
LEMMA SavedAlone ==
    ASSUME NEW c \in Calls, SavedCall(c), call'[c] = call[c], memory'[c] = memory[c],
           row'[c] = row[c], unsaved \subseteq unsaved',
           \A u \in upserts' : u.op = c => u \in upserts
    PROVE  SavedCall(c)'
BY DEF SavedCall, At

LEMMA SavedStutter ==
    ASSUME SavedInv, UNCHANGED <<call, memory, row, unsaved, upserts>>
    PROVE  SavedInv'
BY SavedAlone DEF SavedInv

\* A call that goes on, or ends without an answer, before it has a record.
LEMMA SavedMoves ==
    ASSUME TypeOK, SavedInv, NEW c \in Calls, ~At(c, "store"), ~At(c, "answered"),
           call'[c].at \notin {"store", "answered"},
           \A d \in Calls : d # c => call'[d] = call[d],
           UNCHANGED <<memory, row, unsaved, upserts>>
    PROVE  SavedInv'
<1>1. \A d \in Calls : d # c => SavedCall(d)'
  BY SavedAlone DEF SavedInv
<1>2. SavedCall(c)'
  BY DEF SavedInv, SavedCall, At
<1> QED BY <1>1, <1>2 DEF SavedInv

LEMMA SavedFinish ==
    ASSUME TypeOK, SavedInv, NEW c \in Calls, ~At(c, "store"), ~At(c, "answered"),
           NEW caller \in Caller, NEW receipt \in Receipt, Finish(c, caller, receipt),
           UNCHANGED <<row, unsaved>>
    PROVE  SavedInv'
<1> DEFINE r == Complete(receipt, caller)
<1>1. r # None /\ r.receipt = receipt
  <2>1. r \in Record /\ r.receipt = receipt
    BY RecordTypes DEF Complete
  <2> QED BY <2>1, NothingAssumption
<1> HIDE DEF r
<1>2. /\ call'[c].receipt = receipt
      /\ call'[c].at = IF Durable(receipt.reason) THEN "store" ELSE "answered"
      /\ \A d \in Calls : d # c => call'[d] = call[d]
  BY DEF Finish, TypeOK, CallState
<1>3. /\ memory' = [memory EXCEPT ![c] = r]
      /\ upserts' = upserts \cup {[op |-> c, record |-> r]}
  BY DEF Finish, Fire, r
<1>4. \A u \in upserts : u.op # c
  BY DEF SavedInv, SavedCall
<1>5. SavedCall(c)'
  <2>1. memory'[c] = r
    BY <1>3 DEF TypeOK
  <2>2. \A u \in upserts' : u.op = c => u.record = r
    BY <1>3, <1>4
  <2>3. call'[c].at = "store" \/ call'[c].at = "answered"
    BY <1>2
  <2>4. call'[c].at = "answered" => receipt.reason \notin Awaited
    BY <1>2 DEF Durable
  <2> QED BY <1>1, <1>2, <2>1, <2>2, <2>3, <2>4 DEF SavedCall, At
<1>6. ASSUME NEW d \in Calls, d # c PROVE SavedCall(d)'
  <2>1. memory'[d] = memory[d] /\ \A u \in upserts' : u.op = d => u \in upserts
    BY <1>3, <1>6 DEF TypeOK
  <2> QED BY <1>2, <1>6, <2>1, SavedAlone DEF SavedInv
<1> QED BY <1>5, <1>6 DEF SavedInv

\* A call that is answered at once with a receipt that nothing depends on.
LEMMA SavedQueued ==
    ASSUME TypeOK, SavedInv, NEW c \in Calls, At(c, "idle"),
           call'[c].at = "answered", call'[c].receipt.reason \notin Awaited,
           \A d \in Calls : d # c => call'[d] = call[d] /\ memory'[d] = memory[d],
           \A u \in upserts' : u \in upserts \/ u.op = c,
           UNCHANGED <<row, unsaved>>
    PROVE  SavedInv'
<1>1. SavedCall(c)'
  BY DEF SavedCall, At
<1>2. \A d \in Calls : d # c => SavedCall(d)'
  BY SavedAlone DEF SavedInv
<1> QED BY <1>1, <1>2 DEF SavedInv

\* Once its caller was told, an outcome that must not be lost is in the table
\* for any process to find, unless its write failed: no write of the same
\* operation that was slow and no crash replaces or removes it
\* (_store_terminal, set_complete_durable).
THEOREM OutcomesHold == Spec => []OutcomesSurvive
<1>1. Init => SavedInv
  BY DEF Init, SavedInv, SavedCall, At
<1>2. TypeOK /\ SavedInv /\ [Next]_vars => SavedInv'
  <2> SUFFICES ASSUME TypeOK, SavedInv, [Next]_vars PROVE SavedInv'
    OBVIOUS
  <2> USE DEF provider, store, worker
  <2>0. Said("refused", None) \in Receipt
    BY ReceiptTypes
  <2>1. ASSUME NEW c \in Calls, ArriveCalcom(c) PROVE SavedInv'
    <3>1. At(c, "idle") /\ UNCHANGED <<row, unsaved>>
      BY <2>1 DEF ArriveCalcom
    <3>2. ASSUME NEW caller \in Caller, Finish(c, caller, Said("refused", None))
          PROVE  SavedInv'
      BY <2>0, <3>1, <3>2, SavedFinish DEF At
    <3>3. ASSUME NEW caller \in Caller,
                 call' = [call EXCEPT ![c].caller = caller, ![c].at = "inquire"],
                 UNCHANGED <<memory, upserts>>
          PROVE  SavedInv'
      <4>1. call'[c].at = "inquire" /\ \A d \in Calls : d # c => call'[d] = call[d]
        BY <3>3 DEF TypeOK, CallState
      <4> QED BY <3>1, <3>3, <4>1, SavedMoves DEF At
    <3>4. ASSUME NEW caller \in Caller, NEW b \in Bookings,
                 call' = [call EXCEPT ![c].caller = caller, ![c].action = "cancel",
                                      ![c].target = b, ![c].at = "owner"],
                 UNCHANGED <<memory, upserts>>
          PROVE  SavedInv'
      <4>1. call'[c].at = "owner" /\ \A d \in Calls : d # c => call'[d] = call[d]
        BY <3>4 DEF TypeOK, CallState
      <4> QED BY <3>1, <3>4, <4>1, SavedMoves DEF At
    <3> QED BY <2>1, <3>2, <3>3, <3>4 DEF ArriveCalcom, Caller
  <2>2. ASSUME NEW c \in Calls, Inquire(c) PROVE SavedInv'
    <3>1. At(c, "inquire") /\ UNCHANGED <<row, unsaved>> /\ call[c].caller \in Caller
      BY <2>2 DEF Inquire, TypeOK, CallState, Caller
    <3>2. CASE Return(c, Said("refused", None))
      BY <2>0, <3>1, <3>2, SavedFinish DEF Return, At
    <3>3. CASE Goto(c, "book") /\ UNCHANGED <<memory, upserts>>
      <4>1. call'[c].at = "book" /\ \A d \in Calls : d # c => call'[d] = call[d]
        BY <3>3 DEF Goto, TypeOK, CallState
      <4> QED BY <3>1, <3>3, <4>1, SavedMoves DEF At
    <3> QED BY <2>2, <3>2, <3>3 DEF Inquire
  <2>3. ASSUME NEW c \in Calls, BookNow(c) PROVE SavedInv'
    <3>1. At(c, "book") /\ UNCHANGED <<row, unsaved>> /\ call[c].caller \in Caller
      BY <2>3 DEF BookNow, TypeOK, CallState, Caller
    <3>2. PICK receipt \in Receipt : Return(c, receipt)
      BY <2>3 DEF BookNow
    <3> QED BY <3>1, <3>2, SavedFinish DEF Return, At
  <2>4. ASSUME NEW c \in Calls, CheckOwner(c) PROVE SavedInv'
    <3>1. At(c, "owner") /\ UNCHANGED <<row, unsaved>> /\ call[c].caller \in Caller
      BY <2>4 DEF CheckOwner, TypeOK, CallState, Caller
    <3>2. CASE Return(c, Said("refused", None))
      BY <2>0, <3>1, <3>2, SavedFinish DEF Return, At
    <3>3. CASE Goto(c, "cancel") /\ UNCHANGED <<memory, upserts>>
      <4>1. call'[c].at = "cancel" /\ \A d \in Calls : d # c => call'[d] = call[d]
        BY <3>3 DEF Goto, TypeOK, CallState
      <4> QED BY <3>1, <3>3, <4>1, SavedMoves DEF At
    <3> QED BY <2>4, <3>2, <3>3 DEF CheckOwner
  <2>5. ASSUME NEW c \in Calls, CancelNow(c) PROVE SavedInv'
    <3>1. At(c, "cancel") /\ UNCHANGED <<row, unsaved>> /\ call[c].caller \in Caller
      BY <2>5 DEF CancelNow, TypeOK, CallState, Caller
    <3>2. call[c].target \in Bookings \cup {None}
      BY DEF TypeOK, CallState
    <3>3. \A reason \in Reason : Said(reason, call[c].target) \in Receipt
      BY <3>2, ReceiptTypes
    <3>4. PICK receipt \in Receipt : Return(c, receipt)
      BY <2>5, <3>3, ReceiptTypes DEF CancelNow
    <3> QED BY <3>1, <3>4, SavedFinish DEF Return, At
  <2>6. ASSUME NEW c \in Calls, StoreDurably(c) PROVE SavedInv'
    <3>1. /\ At(c, "store") /\ UNCHANGED <<memory, upserts>>
          /\ \/ row' = [row EXCEPT ![c] = memory[c]] /\ unsaved' = unsaved
             \/ unsaved' = unsaved \cup {c} /\ row' = row
      BY <2>6 DEF StoreDurably
    <3>2. /\ call'[c] = [call[c] EXCEPT !.at = "answered"]
          /\ \A d \in Calls : d # c => call'[d] = call[d]
      BY <2>6 DEF StoreDurably, Goto, TypeOK
    <3>3. call'[c].at = "answered" /\ call'[c].receipt = call[c].receipt
      BY <3>2 DEF TypeOK, CallState
    <3>4. c \notin unsaved' => row'[c] = memory[c]
      BY <3>1 DEF TypeOK
    <3>5. SavedCall(c)'
      BY <3>1, <3>3, <3>4 DEF SavedInv, SavedCall, At
    <3>6. \A d \in Calls : d # c => row'[d] = row[d]
      BY <3>1 DEF TypeOK
    <3>7. unsaved \subseteq unsaved'
      BY <3>1
    <3>8. \A d \in Calls : d # c => SavedCall(d)'
      BY <3>1, <3>2, <3>6, <3>7, SavedAlone DEF SavedInv
    <3> QED BY <3>5, <3>8 DEF SavedInv
  <2>7. ASSUME NEW c \in Calls, ArriveQueued(c) PROVE SavedInv'
    <3>1. At(c, "idle") /\ UNCHANGED <<row, unsaved>>
      BY <2>7 DEF ArriveQueued
    <3>2. ASSUME NEW caller \in Caller, Finish(c, caller, Said("refused", None))
          PROVE  SavedInv'
      BY <2>0, <3>1, <3>2, SavedFinish DEF At
    <3>3. ASSUME NEW caller, NEW reason \in {"refused", "booking_in_progress"}, NEW r, NEW x,
                 memory' = [memory EXCEPT ![c] = r],
                 upserts' = upserts \cup {[op |-> c, record |-> Pending(caller)],
                                          [op |-> c, record |-> memory'[c]]},
                 call' = [call EXCEPT ![c] = x],
                 x.at = "answered", x.receipt = Said(reason, None)
          PROVE  SavedInv'
      <4>1. /\ call'[c] = x /\ \A d \in Calls : d # c => call'[d] = call[d]
            /\ \A d \in Calls : d # c => memory'[d] = memory[d]
        BY <3>3 DEF TypeOK
      <4>2. x.receipt.reason \notin Awaited
        BY <3>3 DEF Said, Awaited
      <4>3. \A u \in upserts' : u \in upserts \/ u.op = c
        BY <3>3
      <4> QED BY <3>1, <3>3, <4>1, <4>2, <4>3, SavedQueued
    <3>4. ASSUME NEW caller \in Caller,
                 memory' = [memory EXCEPT ![c] = Complete(Said("refused", None), caller)],
                 upserts' = upserts \cup {[op |-> c, record |-> Pending(caller)],
                                          [op |-> c, record |-> memory'[c]]},
                 call' = [call EXCEPT ![c].caller = caller, ![c].at = "answered",
                                      ![c].receipt = Said("refused", None)]
          PROVE  SavedInv'
      <4> DEFINE x == [call[c] EXCEPT !.caller = caller, !.at = "answered",
                                      !.receipt = Said("refused", None)]
      <4>1. call' = [call EXCEPT ![c] = x]
        BY <3>4 DEF TypeOK
      <4>2. x.at = "answered" /\ x.receipt = Said("refused", None)
        BY DEF TypeOK, CallState
      <4> HIDE DEF x
      <4> QED BY <3>3, <3>4, <4>1, <4>2
    <3>5. ASSUME NEW caller \in Caller, NEW action \in Action,
                 memory' = [memory EXCEPT ![c] =
                               Complete(Said("booking_in_progress", None), caller)],
                 upserts' = upserts \cup {[op |-> c, record |-> Pending(caller)],
                                          [op |-> c, record |-> memory'[c]]},
                 call' = [call EXCEPT ![c].caller = caller, ![c].action = action,
                                      ![c].at = "answered",
                                      ![c].receipt = Said("booking_in_progress", None)]
          PROVE  SavedInv'
      <4> DEFINE x == [call[c] EXCEPT !.caller = caller, !.action = action,
                                      !.at = "answered",
                                      !.receipt = Said("booking_in_progress", None)]
      <4>1. call' = [call EXCEPT ![c] = x]
        BY <3>5 DEF TypeOK
      <4>2. x.at = "answered" /\ x.receipt = Said("booking_in_progress", None)
        BY DEF TypeOK, CallState
      <4> HIDE DEF x
      <4> QED BY <3>3, <3>5, <4>1, <4>2
    <3> QED BY <2>7, <3>2, <3>4, <3>5 DEF ArriveQueued, Caller
  <2>8. ASSUME NEW c \in Calls, WorkerStart(c) \/ WorkerRuns(c) \/ WorkerAcks(c)
        PROVE  SavedInv'
    BY <2>8, SavedStutter DEF WorkerStart, WorkerRuns, WorkerAcks
  <2>9. ASSUME NEW u \in upserts, Upsert(u) PROVE SavedInv'
    <3>1. /\ u.op \in Calls /\ u.record \in Record /\ upserts' = upserts \ {u}
          /\ row' = row \/ row' = [row EXCEPT ![u.op] = u.record]
          /\ UNCHANGED <<call, memory, unsaved>>
      BY <2>9 DEF Upsert, TypeOK
    <3>2. u.record # None
      BY <3>1, NothingAssumption
    <3>3. ASSUME NEW c \in Calls PROVE SavedCall(c)'
      <4>1. CASE row' = row \/ c # u.op
        <5>1. row'[c] = row[c]
          BY <3>1, <4>1 DEF TypeOK
        <5> QED BY <3>1, <5>1, SavedAlone DEF SavedInv
      <4>2. CASE row' # row /\ c = u.op
        <5>1. row'[c] = u.record
          BY <3>1, <4>2 DEF TypeOK
        <5> QED BY <3>1, <3>2, <4>2, <5>1 DEF SavedInv, SavedCall, At
      <4> QED BY <4>1, <4>2
    <3> QED BY <3>3 DEF SavedInv
  <2>10. ASSUME NEW b \in Bookings, BusinessAccepts(b) \/ LateBooking(b) PROVE SavedInv'
    BY <2>10, SavedStutter DEF BusinessAccepts, LateBooking
  <2>11. CASE WorkerCrash
    <3>1. UNCHANGED <<calendar, cancelledBy, call, store>>
      BY <2>11, Zenon DEF WorkerCrash
    <3> QED BY <3>1, SavedStutter
  <2>12. CASE Crash
    <3>1. /\ upserts' = {} /\ UNCHANGED <<row, unsaved>>
          /\ call' = [c \in Calls |->
                IF call[c].at \in {"idle", "answered"} THEN call[c]
                ELSE [call[c] EXCEPT !.at = "answered", !.receipt = None]]
      BY <2>12, Zenon DEF Crash
    <3>2. ASSUME NEW c \in Calls PROVE SavedCall(c)'
      <4>1. CASE call[c].at \in {"idle", "answered"}
        <5>1. call'[c] = call[c]
          BY <3>1, <4>1
        <5> QED BY <3>1, <4>1, <5>1 DEF SavedInv, SavedCall, At
      <4>2. CASE call[c].at \notin {"idle", "answered"}
        <5>1. call'[c] = [call[c] EXCEPT !.at = "answered", !.receipt = None]
          BY <3>1, <4>2
        <5>2. call'[c].at = "answered" /\ call'[c].receipt = None
          BY <5>1 DEF TypeOK, CallState
        <5> QED BY <3>1, <5>2 DEF SavedCall, At
      <4> QED BY <4>1, <4>2
    <3> QED BY <3>2 DEF SavedInv
  <2>13. CASE UNCHANGED vars
    BY <2>13, SavedStutter DEF vars
  <2> QED
    BY <2>1, <2>2, <2>3, <2>4, <2>5, <2>6, <2>7, <2>8, <2>9, <2>10, <2>11,
       <2>12, <2>13 DEF Next
<1>3. SavedInv => OutcomesSurvive
  BY DEF SavedInv, SavedCall, OutcomesSurvive
<1> QED BY <1>1, <1>2, <1>3, TypeCorrect, PTL DEF Spec

----------------------------------------------------------------------------
(* A call books once.  A booking that the provider has, or is yet to serve, *)
(* is the one of the last attempt; and an attempt that may still be         *)
(* followed by another one has left nothing at the provider.                *)

Used(b) == calendar[b] # "none" \/ b \in late
Fresh(c) == \A b \in Bookings : b[1] = c => ~Used(b)

\* The number of the attempt that a call or its job last made.
Attempt(c) == IF job[c].at = "none" THEN 1 ELSE job[c].tries

UseCall(c) ==
    /\ job[c].at # "none" => At(c, "answered")
    /\ job[c].at = "none" => job[c].tries = 0 /\ c \notin redelivered
    /\ At(c, "owner") \/ At(c, "cancel") =>
          /\ call[c].action = "cancel" /\ call[c].target \in Bookings
          /\ calendar[call[c].target] # "none"
    /\ c \notin redelivered =>
          /\ job[c].at = "none" /\ ~At(c, "store") /\ ~At(c, "answered") => Fresh(c)
          /\ job[c].at \in {"queued", "running"} => Fresh(c)
          /\ \A b \in Bookings : b[1] = c /\ Used(b) => b[2] = Attempt(c)

UseInv == \A c \in Calls : UseCall(c)

\* What a step never does: a booking that the provider has does not vanish,
\* an accepted one does not wait again, a cancelled one does not come back.
Forward ==
    \A b \in Bookings :
        /\ calendar[b] # "none" => calendar'[b] # "none"
        /\ calendar[b] \in {"accepted", "cancelled"} => calendar'[b] \in {"accepted", "cancelled"}
        /\ calendar[b] = "cancelled" => calendar'[b] = "cancelled"

\* No booking of the call is used that was not.
NoNewUse(c) == \A b \in Bookings : b[1] = c /\ Used(b)' => Used(b)

LEMMA HoldsForward ==
    ASSUME TypeOK, NEW b \in Bookings, NEW state \in {"accepted", "pending"}, Holds(b, state)
    PROVE  Forward
BY DEF TypeOK, Holds, Forward

LEMMA BookSlotForward ==
    ASSUME TypeOK, NEW b \in Bookings, NEW receipt, BookSlot(b, receipt)
    PROVE  /\ Forward
           /\ \A d \in Bookings : d # b => calendar'[d] = calendar[d] /\ (Used(d)' => Used(d))
<1>1. ASSUME UNCHANGED calendar PROVE Forward
  BY <1>1 DEF Forward
<1>2. Forward
  BY <1>1, HoldsForward DEF BookSlot
<1>3. calendar' = calendar \/ \E state : calendar' = [calendar EXCEPT ![b] = state]
  BY DEF BookSlot, Holds
<1>4. late' \subseteq late \cup {b}
  BY DEF BookSlot
<1> QED BY <1>2, <1>3, <1>4 DEF Used, TypeOK

LEMMA UseAlone ==
    ASSUME NEW c \in Calls, UseCall(c), Forward, NoNewUse(c), call'[c] = call[c],
           job'[c] = job[c], c \in redelivered' <=> c \in redelivered
    PROVE  UseCall(c)'
<1>1. Fresh(c) => Fresh(c)'
  BY DEF NoNewUse, Fresh
<1>2. Attempt(c)' = Attempt(c)
  BY DEF Attempt
<1>3. /\ At(c, "owner")' <=> At(c, "owner")
      /\ At(c, "cancel")' <=> At(c, "cancel")
      /\ At(c, "store")' <=> At(c, "store")
      /\ At(c, "answered")' <=> At(c, "answered")
  BY DEF At
<1>4. At(c, "owner") \/ At(c, "cancel") => calendar'[call[c].target] # "none"
  BY DEF UseCall, Forward
<1> QED BY <1>1, <1>2, <1>3, <1>4 DEF UseCall, NoNewUse

LEMMA UseStutter ==
    ASSUME UseInv, Forward, \A c \in Calls : NoNewUse(c), UNCHANGED <<call, worker>>
    PROVE  UseInv'
BY UseAlone DEF UseInv, worker

\* A call that goes on or ends while the calendar stays or loses a booking.
LEMMA UseMoves ==
    ASSUME TypeOK, UseInv, Forward, \A d \in Calls : NoNewUse(d), UNCHANGED worker,
           NEW c \in Calls, ~At(c, "answered"),
           At(c, "store") => At(c, "answered")',
           \A d \in Calls : d # c => call'[d] = call[d],
           At(c, "owner")' \/ At(c, "cancel")' =>
               /\ call'[c].action = "cancel" /\ call'[c].target \in Bookings
               /\ calendar'[call'[c].target] # "none"
    PROVE  UseInv'
<1>1. job[c].at = "none" /\ c \notin redelivered /\ UNCHANGED <<job, redelivered>>
  BY DEF UseInv, UseCall, worker
<1>2. Fresh(c) => Fresh(c)'
  BY DEF NoNewUse, Fresh
<1>3. Attempt(c)' = Attempt(c)
  BY <1>1 DEF Attempt
<1>4. UseCall(c)'
  BY <1>1, <1>2, <1>3 DEF UseInv, UseCall, NoNewUse
<1>5. \A d \in Calls : d # c => UseCall(d)'
  BY <1>1, UseAlone DEF UseInv
<1> QED BY <1>4, <1>5 DEF UseInv

LEMMA CallAfterFinish ==
    ASSUME TypeOK, NEW c \in Calls, NEW caller, NEW receipt, Finish(c, caller, receipt)
    PROVE  /\ call'[c].at \in {"store", "answered"} /\ call'[c].receipt = receipt
           /\ call'[c].action = call[c].action
           /\ \A d \in Calls : d # c => call'[d] = call[d]
BY DEF Finish, TypeOK, CallState

LEMMA UseFinish ==
    ASSUME TypeOK, UseInv, Forward, \A d \in Calls : NoNewUse(d), UNCHANGED worker,
           NEW c \in Calls, ~At(c, "answered"), ~At(c, "store"), NEW caller, NEW receipt,
           Finish(c, caller, receipt)
    PROVE  UseInv'
BY CallAfterFinish, UseMoves DEF At

\* A calendar that stays is no step back.
LEMMA CalendarAlone ==
    ASSUME UNCHANGED <<calendar, late>>
    PROVE  Forward /\ \A c \in Calls : NoNewUse(c)
BY DEF Forward, NoNewUse, Used

\* What a cancellation that is served does to the calendar.
LEMMA CancelForward ==
    ASSUME TypeOK, NEW b \in Bookings, calendar[b] # "none", UNCHANGED late,
           calendar' = calendar \/ calendar' = [calendar EXCEPT ![b] = "cancelled"]
    PROVE  Forward /\ \A c \in Calls : NoNewUse(c)
BY DEF TypeOK, Forward, NoNewUse, Used

\* The steps of the provider.
LEMMA ProviderForward ==
    ASSUME TypeOK, NEW b \in Bookings, BusinessAccepts(b) \/ LateBooking(b)
    PROVE  Forward /\ \A c \in Calls : NoNewUse(c)
BY DEF TypeOK, BusinessAccepts, LateBooking, Holds, Forward, NoNewUse, Used

\* The death of a worker leaves requests of the jobs that ran.
LEMMA WorkerCrashUses ==
    ASSUME WorkerCrash
    PROVE  /\ Forward
           /\ \A c \in Calls : c \notin redelivered' =>
                 NoNewUse(c) /\ job'[c] = job[c] /\ c \notin redelivered
           /\ \A c \in Calls : \/ job'[c] = job[c]
                               \/ job'[c] = [job[c] EXCEPT !.at = "queued"] /\ job[c].at # "none"
           /\ \A c \in Calls : c \in redelivered' => c \in redelivered \/ job[c].at # "none"
           /\ UNCHANGED <<calendar, call>>
<1> DEFINE hit == {c \in Calls : job[c].at \in {"running", "acking"}}
           asked == {<<c, job[c].tries>> : c \in {x \in hit : job[x].at = "running"}}
<1>1. /\ redelivered' = redelivered \cup hit
      /\ \E sent \in SUBSET asked : late' = late \cup sent
      /\ job' = [c \in Calls |-> IF c \in hit THEN [job[c] EXCEPT !.at = "queued"] ELSE job[c]]
      /\ UNCHANGED <<calendar, call>>
  BY Zenon DEF WorkerCrash, store
<1>2. late' \subseteq late \cup asked
  BY <1>1
<1>3. Forward
  BY <1>1 DEF Forward
<1>4. \A c \in Calls : c \notin hit => NoNewUse(c)
  <2>1. \A b \in asked : b[1] \in hit
    OBVIOUS
  <2> QED BY <1>1, <1>2, <2>1 DEF NoNewUse, Used
<1>5. \A c \in hit : job[c].at # "none"
  OBVIOUS
<1> HIDE DEF hit
<1> QED BY <1>1, <1>3, <1>4, <1>5

\* The death of the server leaves requests of the calls that were booking,
\* and serves some of those that were cancelling.
LEMMA CrashUses ==
    ASSUME TypeOK, UseInv, Crash
    PROVE  /\ Forward
           /\ \A c \in Calls : ~At(c, "book") => NoNewUse(c)
           /\ \A b \in Bookings : Used(b)' => Used(b) \/ b[2] = 1
           /\ \A c \in Calls : \/ call'[c] = call[c] /\ call[c].at \in {"idle", "answered"}
                               \/ /\ call[c].at \notin {"idle", "answered"}
                                  /\ call'[c].at = "answered" /\ call'[c].receipt = None
           /\ UNCHANGED worker
<1>1. PICK sent \in SUBSET {<<c, 1>> : c \in {x \in Calls : At(x, "book")}} :
         late' = late \cup sent
  BY Zenon DEF Crash
<1>2. PICK served \in SUBSET {c \in Calls : At(c, "cancel")} :
         calendar' = [b \in Bookings |->
             IF \E c \in served : call[c].target = b THEN "cancelled" ELSE calendar[b]]
  BY Zenon DEF Crash
<1>3. \A b \in Bookings : (\E c \in served : call[c].target = b) => calendar[b] # "none"
  BY DEF UseInv, UseCall
<1>4. Forward /\ \A b \in Bookings : calendar'[b] # "none" => calendar[b] # "none"
  BY <1>2, <1>3 DEF Forward
<1>5. \A b \in sent : b[2] = 1 /\ At(b[1], "book")
  BY DEF At
<1>6. ASSUME NEW c \in Calls
      PROVE  \/ call'[c] = call[c] /\ call[c].at \in {"idle", "answered"}
             \/ /\ call[c].at \notin {"idle", "answered"}
                /\ call'[c].at = "answered" /\ call'[c].receipt = None
  <2>1. call' = [d \in Calls |->
            IF call[d].at \in {"idle", "answered"} THEN call[d]
            ELSE [call[d] EXCEPT !.at = "answered", !.receipt = None]]
    BY Zenon DEF Crash
  <2>2. call'[c] = IF call[c].at \in {"idle", "answered"} THEN call[c]
                   ELSE [call[c] EXCEPT !.at = "answered", !.receipt = None]
    BY <2>1
  <2> QED BY <2>2 DEF TypeOK, CallState
<1>7. UNCHANGED worker
  BY Zenon DEF Crash
<1>8. /\ \A b \in Bookings : Used(b)' => Used(b) \/ b \in sent
  BY <1>1, <1>4 DEF Used
<1> QED BY <1>4, <1>5, <1>6, <1>7, <1>8 DEF NoNewUse

LEMMA UseInitially == Init => UseInv
BY DEF Init, UseInv, UseCall, Fresh, Used, Attempt, At

LEMMA UseStep ==
    ASSUME MayDrop = FALSE, TypeOK, UseInv, [Next]_vars
    PROVE  UseInv'
<1> USE DEF provider, worker
<1>0. ASSUME UNCHANGED <<calendar, late, call, worker>> PROVE UseInv'
  BY <1>0, CalendarAlone, UseStutter
<1>1. ASSUME NEW c \in Calls, ArriveCalcom(c) PROVE UseInv'
  <2>1. At(c, "idle") /\ UNCHANGED <<provider, worker>>
    BY <1>1 DEF ArriveCalcom
  <2>2. Forward /\ \A d \in Calls : NoNewUse(d)
    BY <2>1, CalendarAlone
  <2>3. ASSUME NEW caller, Finish(c, caller, Said("refused", None)) PROVE UseInv'
    BY <2>1, <2>2, <2>3, UseFinish DEF At
  <2>4. ASSUME NEW caller, call' = [call EXCEPT ![c].caller = caller, ![c].at = "inquire"]
        PROVE  UseInv'
    <3>1. call'[c].at = "inquire" /\ \A d \in Calls : d # c => call'[d] = call[d]
      BY <2>4 DEF TypeOK, CallState
    <3> QED BY <2>1, <2>2, <3>1, UseMoves DEF At
  <2>5. ASSUME NEW caller, NEW b \in Bookings, calendar[b] # "none",
               call' = [call EXCEPT ![c].caller = caller, ![c].action = "cancel",
                                    ![c].target = b, ![c].at = "owner"]
        PROVE  UseInv'
    <3>1. /\ call'[c].at = "owner" /\ call'[c].action = "cancel" /\ call'[c].target = b
          /\ \A d \in Calls : d # c => call'[d] = call[d]
      BY <2>5 DEF TypeOK, CallState
    <3> QED BY <2>1, <2>2, <2>5, <3>1, UseMoves DEF At
  <2> QED BY <1>1, <2>3, <2>4, <2>5 DEF ArriveCalcom
<1>2. ASSUME NEW c \in Calls, Inquire(c) PROVE UseInv'
  <2>1. At(c, "inquire") /\ UNCHANGED <<provider, worker>>
    BY <1>2 DEF Inquire
  <2>2. Forward /\ \A d \in Calls : NoNewUse(d)
    BY <2>1, CalendarAlone
  <2>3. CASE Return(c, Said("refused", None))
    BY <2>1, <2>2, <2>3, UseFinish DEF At, Return
  <2>4. CASE Goto(c, "book")
    <3>1. call'[c].at = "book" /\ \A d \in Calls : d # c => call'[d] = call[d]
      BY <2>4 DEF Goto, TypeOK, CallState
    <3> QED BY <2>1, <2>2, <3>1, UseMoves DEF At
  <2> QED BY <1>2, <2>3, <2>4 DEF Inquire
<1>3. ASSUME NEW c \in Calls, BookNow(c) PROVE UseInv'
  <2>1. At(c, "book") /\ UNCHANGED worker
    BY <1>3 DEF BookNow
  <2>2. PICK receipt \in Receipt : BookSlot(<<c, 1>>, receipt) /\ Return(c, receipt)
    BY <1>3 DEF BookNow
  <2>3. <<c, 1>> \in Bookings
    BY BookingsAssumption DEF Bookings
  <2>4. /\ Forward
        /\ \A d \in Bookings : d # <<c, 1>> => (Used(d)' => Used(d))
    BY <2>2, <2>3, BookSlotForward
  <2>5. /\ call'[c].at \in {"store", "answered"}
        /\ \A d \in Calls : d # c => call'[d] = call[d]
    BY <2>2, CallAfterFinish DEF Return
  <2>6. job[c].at = "none" /\ c \notin redelivered /\ Fresh(c)
    BY <2>1 DEF UseInv, UseCall, At
  <2>7. UseCall(c)'
    <3>1. \A b \in Bookings : b[1] = c /\ Used(b)' => b[2] = 1
      BY <2>4, <2>6 DEF Fresh
    <3>2. Attempt(c)' = 1
      BY <2>1, <2>6 DEF Attempt
    <3>3. job[c].tries = 0
      BY <2>6 DEF UseInv, UseCall
    <3> QED BY <2>1, <2>5, <2>6, <3>1, <3>2, <3>3 DEF UseCall, At
  <2>8. ASSUME NEW d \in Calls, d # c PROVE UseCall(d)'
    <3>1. NoNewUse(d)
      BY <2>4, <2>8 DEF NoNewUse
    <3> QED BY <2>1, <2>4, <2>5, <2>8, <3>1, UseAlone DEF UseInv
  <2> QED BY <2>7, <2>8 DEF UseInv
<1>4. ASSUME NEW c \in Calls, CheckOwner(c) PROVE UseInv'
  <2>1. At(c, "owner") /\ UNCHANGED <<provider, worker>>
    BY <1>4 DEF CheckOwner
  <2>2. Forward /\ \A d \in Calls : NoNewUse(d)
    BY <2>1, CalendarAlone
  <2>3. CASE Return(c, Said("refused", None))
    BY <2>1, <2>2, <2>3, UseFinish DEF At, Return
  <2>4. CASE Goto(c, "cancel")
    <3>1. /\ call'[c].at = "cancel" /\ call'[c].action = call[c].action
          /\ call'[c].target = call[c].target
          /\ \A d \in Calls : d # c => call'[d] = call[d]
      BY <2>4 DEF Goto, TypeOK, CallState
    <3>2. /\ call[c].action = "cancel" /\ call[c].target \in Bookings
          /\ calendar[call[c].target] # "none"
      BY <2>1 DEF UseInv, UseCall
    <3> QED BY <2>1, <2>2, <3>1, <3>2, UseMoves DEF At
  <2> QED BY <1>4, <2>3, <2>4 DEF CheckOwner
<1>5. ASSUME NEW c \in Calls, CancelNow(c) PROVE UseInv'
  <2> DEFINE b == call[c].target
  <2>1. At(c, "cancel") /\ UNCHANGED <<late, worker>>
    BY <1>5 DEF CancelNow
  <2>2. b \in Bookings /\ calendar[b] # "none"
    BY <2>1 DEF UseInv, UseCall
  <2>3. calendar' = calendar \/ calendar' = [calendar EXCEPT ![b] = "cancelled"]
    BY <1>5 DEF CancelNow
  <2>4. Forward /\ \A d \in Calls : NoNewUse(d)
    BY <2>1, <2>2, <2>3, CancelForward
  <2>5. \E receipt : Return(c, receipt)
    BY <1>5 DEF CancelNow
  <2> QED BY <2>1, <2>4, <2>5, UseFinish DEF At, Return
<1>6. ASSUME NEW c \in Calls, StoreDurably(c) PROVE UseInv'
  <2>1. At(c, "store") /\ Goto(c, "answered") /\ UNCHANGED <<provider, worker>>
    BY <1>6 DEF StoreDurably
  <2>2. Forward /\ \A d \in Calls : NoNewUse(d)
    BY <2>1, CalendarAlone
  <2>3. call'[c].at = "answered" /\ \A d \in Calls : d # c => call'[d] = call[d]
    BY <2>1 DEF Goto, TypeOK, CallState
  <2> QED BY <2>1, <2>2, <2>3, UseMoves DEF At
<1>7. ASSUME NEW c \in Calls, ArriveQueued(c) PROVE UseInv'
  <2>1. At(c, "idle") /\ UNCHANGED <<provider, redelivered>>
    BY <1>7 DEF ArriveQueued
  <2>2. Forward /\ \A d \in Calls : NoNewUse(d)
    BY <2>1, CalendarAlone
  <2>3. ASSUME NEW caller, Finish(c, caller, Said("refused", None)), UNCHANGED job
        PROVE UseInv'
    BY <2>1, <2>2, <2>3, UseFinish DEF At
  <2>4. ASSUME NEW caller, UNCHANGED job,
               call' = [call EXCEPT ![c].caller = caller, ![c].at = "answered",
                                    ![c].receipt = Said("refused", None)]
        PROVE  UseInv'
    <3>1. call'[c].at = "answered" /\ \A d \in Calls : d # c => call'[d] = call[d]
      BY <2>4 DEF TypeOK, CallState
    <3> QED BY <2>1, <2>2, <2>4, <3>1, UseMoves DEF At
  <2>5. ASSUME NEW caller, NEW action, job' = [job EXCEPT ![c].at = "queued"],
               call' = [call EXCEPT ![c].caller = caller, ![c].action = action,
                                    ![c].at = "answered",
                                    ![c].receipt = Said("booking_in_progress", None)]
        PROVE  UseInv'
    <3>1. call'[c].at = "answered" /\ \A d \in Calls : d # c => call'[d] = call[d]
      BY <2>5 DEF TypeOK, CallState
    <3>2. /\ job'[c].at = "queued" /\ job'[c].tries = job[c].tries
          /\ \A d \in Calls : d # c => job'[d] = job[d]
      BY <2>5 DEF TypeOK, JobState
    <3>3. Fresh(c) /\ c \notin redelivered
      BY <2>1 DEF UseInv, UseCall, At
    <3>4. Fresh(c)'
      BY <2>2, <3>3 DEF Fresh, NoNewUse
    <3>5. UseCall(c)'
      BY <3>1, <3>2, <3>4 DEF UseCall, Fresh, At
    <3>6. \A d \in Calls : d # c => UseCall(d)'
      BY <2>1, <2>2, <3>1, <3>2, UseAlone DEF UseInv
    <3> QED BY <3>5, <3>6 DEF UseInv
  <2> QED BY <1>7, <2>3, <2>4, <2>5 DEF ArriveQueued
<1>8. ASSUME NEW c \in Calls, WorkerStart(c) PROVE UseInv'
  <2>1. job[c].at = "queued" /\ UNCHANGED <<provider, call, redelivered>>
    BY <1>8 DEF WorkerStart
  <2>2. Forward /\ \A d \in Calls : NoNewUse(d)
    BY <2>1, CalendarAlone
  <2>3. job'[c].at = "running" /\ \A d \in Calls : d # c => job'[d] = job[d]
    BY <1>8 DEF WorkerStart, TypeOK, JobState
  <2>4. At(c, "answered") /\ (c \notin redelivered => Fresh(c))
    BY <2>1 DEF UseInv, UseCall
  <2>5. c \notin redelivered => Fresh(c)'
    BY <2>2, <2>4 DEF Fresh, NoNewUse
  <2>6. UseCall(c)'
    BY <2>1, <2>3, <2>4, <2>5 DEF UseCall, Fresh, At
  <2>7. \A d \in Calls : d # c => UseCall(d)'
    BY <2>1, <2>2, <2>3, UseAlone DEF UseInv
  <2> QED BY <2>6, <2>7 DEF UseInv
<1>9. ASSUME NEW c \in Calls, WorkerRuns(c) PROVE UseInv'
  <2>1. job[c].at = "running" /\ UNCHANGED <<call, redelivered>>
    BY <1>9 DEF WorkerRuns
  <2> DEFINE b == <<c, job[c].tries>>
  <2>2. PICK receipt \in Receipt :
           /\ WorkerResult(c, receipt)
           /\ UNCHANGED <<calendar, late>> \/ BookSlot(b, receipt)
    BY <1>9, ReceiptTypes DEF WorkerRuns, NothingDone
  <2>3. /\ job'[c].tries = job[c].tries
        /\ job'[c].at = IF Retried(receipt.reason) /\ job[c].tries < MaxTries
                        THEN "queued" ELSE "acking"
        /\ \A d \in Calls : d # c => job'[d] = job[d]
    BY <2>2 DEF WorkerResult, TypeOK, JobState
  <2>4. At(c, "answered") /\ (c \notin redelivered => Fresh(c))
    BY <2>1 DEF UseInv, UseCall
  <2>5. Forward /\ \A d \in Bookings : d # b => (Used(d)' => Used(d))
    <3>1. CASE UNCHANGED <<calendar, late>>
      BY <3>1, CalendarAlone DEF Used
    <3>2. CASE BookSlot(b, receipt) /\ b \in Bookings
      BY <3>2, BookSlotForward
    <3>3. CASE BookSlot(b, receipt) /\ b \notin Bookings
      <4>1. calendar' = calendar
        BY <3>3 DEF BookSlot, Holds, TypeOK
      <4>2. late' \subseteq late \cup {b}
        BY <3>3 DEF BookSlot
      <4> QED BY <3>3, <4>1, <4>2 DEF Forward, Used
    <3> QED BY <2>2, <3>1, <3>2, <3>3
  <2>6. Retried(receipt.reason) => \A d \in Bookings : Used(d)' => Used(d)
    <3>1. Said("booking_id_missing", None).reason # "calcom_booking_failed"
      BY DEF Said
    <3>2. Retried(receipt.reason) => UNCHANGED <<calendar, late>>
      BY <2>2 DEF BookSlot, Retried, Said, Verdict
    <3> QED BY <3>2 DEF Used
  <2>7. UseCall(c)'
    <3>1. \A d \in Bookings : d[1] = c /\ d # b => d[2] # job[c].tries
      BY DEF Bookings
    <3>2. c \notin redelivered =>
             \A d \in Bookings : d[1] = c /\ Used(d)' => d[2] = job[c].tries
      BY <2>4, <2>5, <3>1 DEF Fresh
    <3>3. c \notin redelivered /\ job'[c].at = "queued" => Fresh(c)'
      BY <2>3, <2>4, <2>6 DEF Fresh
    <3>4. job'[c].at \in {"queued", "acking"}
      BY <2>3
    <3>5. Attempt(c)' = job[c].tries
      BY <2>3, <3>4 DEF Attempt
    <3> QED BY <2>1, <2>4, <3>2, <3>3, <3>4, <3>5 DEF UseCall, At
  <2>8. ASSUME NEW d \in Calls, d # c PROVE UseCall(d)'
    <3>1. NoNewUse(d)
      BY <2>5, <2>8 DEF NoNewUse
    <3> QED BY <2>1, <2>3, <2>5, <2>8, <3>1, UseAlone DEF UseInv
  <2> QED BY <2>7, <2>8 DEF UseInv
<1>10. ASSUME NEW c \in Calls, WorkerAcks(c) PROVE UseInv'
  <2>1. job[c].at = "acking" /\ UNCHANGED <<provider, call, redelivered>>
    BY <1>10 DEF WorkerAcks
  <2>2. Forward /\ \A d \in Calls : NoNewUse(d)
    BY <2>1, CalendarAlone
  <2>3. /\ job'[c].at = "done" /\ job'[c].tries = job[c].tries
        /\ \A d \in Calls : d # c => job'[d] = job[d]
    BY <1>10 DEF WorkerAcks, TypeOK, JobState
  <2>4. Attempt(c)' = Attempt(c)
    BY <2>1, <2>3 DEF Attempt
  <2>5. UseCall(c)'
    BY <2>1, <2>2, <2>3, <2>4 DEF UseInv, UseCall, NoNewUse, At
  <2>6. \A d \in Calls : d # c => UseCall(d)'
    BY <2>1, <2>2, <2>3, UseAlone DEF UseInv
  <2> QED BY <2>5, <2>6 DEF UseInv
<1>11. ASSUME NEW u \in upserts, Upsert(u) PROVE UseInv'
  BY <1>0, <1>11 DEF Upsert
<1>12. ASSUME NEW b \in Bookings, BusinessAccepts(b) \/ LateBooking(b) PROVE UseInv'
  <2>1. UNCHANGED <<call, worker>>
    BY <1>12 DEF BusinessAccepts, LateBooking
  <2> QED BY <1>12, <2>1, ProviderForward, UseStutter
<1>13. CASE WorkerCrash
  <2> SUFFICES ASSUME NEW c \in Calls PROVE UseCall(c)'
    BY DEF UseInv
  <2>1. /\ Forward /\ UNCHANGED <<calendar, call>>
        /\ c \notin redelivered' => NoNewUse(c) /\ job'[c] = job[c] /\ c \notin redelivered
        /\ \/ job'[c] = job[c]
           \/ job'[c] = [job[c] EXCEPT !.at = "queued"] /\ job[c].at # "none"
        /\ c \in redelivered' => c \in redelivered \/ job[c].at # "none"
    BY <1>13, WorkerCrashUses, Zenon
  <2>2. CASE c \notin redelivered'
    BY <2>1, <2>2, UseAlone DEF UseInv
  <2>3. CASE c \in redelivered'
    <3>1. job'[c].at # "none" /\ job[c].at # "none"
      <4>1. job[c].at # "none"
        BY <2>1, <2>3 DEF UseInv, UseCall
      <4> QED BY <2>1, <4>1 DEF TypeOK, JobState
    <3>2. At(c, "answered")
      BY <3>1 DEF UseInv, UseCall
    <3> QED BY <2>1, <2>3, <3>1, <3>2 DEF UseCall, At
  <2> QED BY <2>2, <2>3
<1>14. CASE Crash
  <2> SUFFICES ASSUME NEW c \in Calls PROVE UseCall(c)'
    BY DEF UseInv
  <2>1. /\ Forward /\ UNCHANGED worker
        /\ ~At(c, "book") => NoNewUse(c)
        /\ \A b \in Bookings : Used(b)' => Used(b) \/ b[2] = 1
        /\ \/ call'[c] = call[c] /\ call[c].at \in {"idle", "answered"}
           \/ call[c].at \notin {"idle", "answered"} /\ call'[c].at = "answered"
    BY <1>14, CrashUses
  <2>2. CASE call'[c] = call[c] /\ call[c].at \in {"idle", "answered"}
    <3>1. NoNewUse(c)
      BY <2>1, <2>2 DEF At
    <3> QED BY <2>1, <2>2, <3>1, UseAlone DEF UseInv
  <2>3. CASE call[c].at \notin {"idle", "answered"} /\ call'[c].at = "answered"
    <3>1. job[c].at = "none" /\ c \notin redelivered
      BY <2>3 DEF UseInv, UseCall, At
    <3>2. \A b \in Bookings : b[1] = c /\ Used(b) => b[2] = 1
      BY <3>1 DEF UseInv, UseCall, Attempt
    <3>3. \A b \in Bookings : b[1] = c /\ Used(b)' => b[2] = 1
      BY <2>1, <3>2
    <3>4. Attempt(c)' = 1 /\ UNCHANGED <<job, redelivered>>
      BY <2>1, <3>1 DEF Attempt
    <3> QED BY <2>3, <3>1, <3>3, <3>4 DEF UseInv, UseCall, At
  <2> QED BY <2>1, <2>2, <2>3
<1>15. CASE UNCHANGED vars
  BY <1>0, <1>15 DEF vars
<1> QED
  BY <1>1, <1>2, <1>3, <1>4, <1>5, <1>6, <1>7, <1>8, <1>9, <1>10, <1>11,
     <1>12, <1>13, <1>14, <1>15 DEF Next

LEMMA UseInvHolds ==
    ASSUME MayDrop = FALSE
    PROVE  Spec => []UseInv
<1>1. TypeOK /\ UseInv /\ [Next]_vars => UseInv'
  BY UseStep
<1> QED BY <1>1, UseInitially, TypeCorrect, PTL DEF Spec

\* A call of schedule_appointment leaves at most one booking at the provider,
\* however often its job is attempted: an attempt with an open outcome is not
\* repeated (book_slot, _is_retryable of the worker).  That is so if the
\* provider never takes a request whose connection breaks, and of calls whose
\* worker did not die.
THEOREM CallsBookOnce ==
    ASSUME MayDrop = FALSE
    PROVE  Spec => []BookedOnce
<1>1. UseInv => BookedOnce
  <2> SUFFICES ASSUME UseInv, NEW c \in Calls \ redelivered
               PROVE  Cardinality({b \in Bookings :
                          b[1] = c /\ (calendar[b] # "none" \/ b \in late)}) <= 1
    BY DEF BookedOnce
  <2> DEFINE S == {b \in Bookings : b[1] = c /\ (calendar[b] # "none" \/ b \in late)}
  <2>1. \A b \in S : b = <<c, Attempt(c)>>
    BY DEF UseInv, UseCall, Used, Bookings
  <2>2. S = {} \/ S = {<<c, Attempt(c)>>}
    BY <2>1
  <2> HIDE DEF S
  <2>3. Cardinality(S) = 0 \/ Cardinality(S) = 1
    BY <2>2, FS_EmptySet, FS_Singleton, Zenon
  <2> DEFINE n == Cardinality(S)
  <2>4. n = 0 \/ n = 1
    BY <2>3
  <2> HIDE DEF n
  <2>5. n <= 1
    BY <2>4
  <2> QED BY <2>5 DEF S, n
<1> QED BY <1>1, UseInvHolds, PTL

----------------------------------------------------------------------------
(* Receipts are true.  What a receipt claims stays so, since the calendar   *)
(* only moves forward and nobody but the call itself uses its booking.      *)

\* A receipt that claims a booking names it.
NamesIts(receipt) ==
    /\ receipt # None
    /\ receipt.reason \in {"appointment_confirmed", "booking_pending_provider_confirmation",
                           "cancelled"}
    => receipt.booking \in Bookings

\* As what its receipt is judged: one of a job says what was not done yet.
JudgedAs(c) == IF job[c].at = "none" THEN call[c].action ELSE "cancel"

TrueCall(c) ==
    /\ At(c, "store") \/ At(c, "answered") =>
          NamesIts(call[c].receipt) /\ TrueOf(call[c].receipt, <<c, 1>>, JudgedAs(c))
    /\ NamesIts(job[c].receipt)
    /\ /\ job[c].tries > 0 /\ job[c].at \in {"queued", "acking", "done"}
       /\ c \notin redelivered
       => TrueOf(job[c].receipt, <<c, job[c].tries>>, "book")

TruthInv == \A c \in Calls : TrueCall(c)

LEMMA TrueStays ==
    ASSUME Forward, NEW receipt, NEW b \in Bookings, NEW action, NamesIts(receipt),
           TrueOf(receipt, b, action), action # "cancel" /\ Used(b)' => Used(b)
    PROVE  TrueOf(receipt, b, action)'
<1>1. receipt # None /\ receipt.reason \in NothingDone /\ action # "cancel" =>
         calendar'[b] = "none" /\ b \notin late'
  BY DEF TrueOf, Used
<1>2. receipt # None =>
         /\ receipt.reason = "appointment_confirmed" =>
               calendar'[receipt.booking] \in {"accepted", "cancelled"}
         /\ receipt.reason = "booking_pending_provider_confirmation" =>
               calendar'[receipt.booking] # "none"
         /\ receipt.reason = "cancelled" => calendar'[receipt.booking] = "cancelled"
  BY DEF TrueOf, NamesIts, Forward
<1> QED BY <1>1, <1>2 DEF TrueOf

LEMMA TrueAlone ==
    ASSUME TypeOK, NEW c \in Calls, TrueCall(c), Forward, NoNewUse(c), call'[c] = call[c],
           job'[c] = job[c], c \in redelivered' <=> c \in redelivered
    PROVE  TrueCall(c)'
<1>0. <<c, 1>> \in Bookings /\ (job[c].tries > 0 => <<c, job[c].tries>> \in Bookings)
  BY BookingsAssumption DEF Bookings, TypeOK, JobState
<1>1. ASSUME At(c, "store") \/ At(c, "answered")
      PROVE  NamesIts(call'[c].receipt) /\ TrueOf(call[c].receipt, <<c, 1>>, JudgedAs(c))'
  <2>1. PICK receipt, action : receipt = call[c].receipt /\ action = JudgedAs(c)
    OBVIOUS
  <2>2. TrueOf(receipt, <<c, 1>>, action)'
    BY <1>0, <1>1, <2>1, TrueStays DEF TrueCall, NoNewUse
  <2>3. call'[c].receipt = receipt /\ JudgedAs(c)' = action
    BY <2>1 DEF JudgedAs
  <2> QED BY <1>1, <2>1, <2>2, <2>3 DEF TrueCall
<1>2. ASSUME job[c].tries > 0, job[c].at \in {"queued", "acking", "done"},
             c \notin redelivered
      PROVE  TrueOf(job[c].receipt, <<c, job[c].tries>>, "book")'
  <2>1. PICK receipt, n : receipt = job[c].receipt /\ n = job[c].tries
    OBVIOUS
  <2>2. TrueOf(receipt, <<c, n>>, "book")'
    BY <1>0, <1>2, <2>1, TrueStays DEF TrueCall, NoNewUse
  <2> QED BY <2>1, <2>2
<1> QED BY <1>1, <1>2 DEF TrueCall, At, NamesIts

LEMMA TruthStutter ==
    ASSUME TypeOK, TruthInv, Forward, \A c \in Calls : NoNewUse(c), UNCHANGED <<call, worker>>
    PROVE  TruthInv'
BY TrueAlone DEF TruthInv, worker

\* A call that goes on, or is answered with nothing.
LEMMA TruthMoves ==
    ASSUME TypeOK, TruthInv, Forward, \A d \in Calls : NoNewUse(d), UNCHANGED worker,
           NEW c \in Calls, job[c].at = "none", job[c].tries = 0,
           call'[c].at \notin {"store", "answered"},
           \A d \in Calls : d # c => call'[d] = call[d]
    PROVE  TruthInv'
<1>1. UNCHANGED <<job, redelivered>>
  BY DEF worker
<1>2. TrueCall(c)'
  BY <1>1 DEF TruthInv, TrueCall, At, NamesIts
<1>3. \A d \in Calls : d # c => TrueCall(d)'
  BY <1>1, TrueAlone DEF TruthInv
<1> QED BY <1>2, <1>3 DEF TruthInv

\* A call that ends with a receipt that is true of it.
LEMMA TruthFinish ==
    ASSUME TypeOK, TruthInv, Forward, UNCHANGED worker,
           NEW c \in Calls, job[c].at = "none", job[c].tries = 0,
           \A d \in Calls : d # c => NoNewUse(d),
           NEW caller, NEW receipt, Finish(c, caller, receipt),
           NamesIts(receipt), \A action : TrueOf(receipt, <<c, 1>>, action)'
    PROVE  TruthInv'
<1>1. UNCHANGED <<job, redelivered>>
  BY DEF worker
<1>2. /\ call'[c].receipt = receipt /\ call'[c].action = call[c].action
      /\ \A d \in Calls : d # c => call'[d] = call[d]
  BY CallAfterFinish
<1>3. TrueOf(call[c].receipt, <<c, 1>>, JudgedAs(c))'
  <2>1. PICK action : action = JudgedAs(c)'
    OBVIOUS
  <2>2. TrueOf(receipt, <<c, 1>>, action)'
    OBVIOUS
  <2> QED BY <1>2, <2>1, <2>2
<1>4. TrueCall(c)'
  BY <1>1, <1>2, <1>3 DEF TruthInv, TrueCall, NamesIts
<1>5. \A d \in Calls : d # c => TrueCall(d)'
  BY <1>1, <1>2, TrueAlone DEF TruthInv
<1> QED BY <1>4, <1>5 DEF TruthInv

\* Receipts that claim no booking.
LEMMA NoBookingNamed ==
    \A reason \in NothingDone \cup {"outcome_unknown", "booking_id_missing",
                                   "booking_in_progress"} :
        NamesIts(Said(reason, None))
BY DEF NamesIts, Said, NothingDone

\* "Nothing was done" is true of a booking that is not used.
LEMMA NothingDoneTrue ==
    ASSUME NEW b \in Bookings, NEW reason \in NothingDone, NEW action,
           action # "cancel" => ~Used(b)'
    PROVE  TrueOf(Said(reason, None), b, action)'
BY DEF TrueOf, Said, Used, NothingDone

\* Receipts that claim nothing.
LEMMA NothingClaimed ==
    ASSUME NEW b, NEW action,
           NEW reason \in {"outcome_unknown", "booking_id_missing", "booking_in_progress"}
    PROVE  TrueOf(Said(reason, None), b, action)'
BY DEF TrueOf, Said, NothingDone

\* What the code makes of the provider's answer is true.
LEMMA BookSlotTrue ==
    ASSUME MayDrop = FALSE, TypeOK, NEW b \in Bookings, NEW receipt \in Receipt,
           BookSlot(b, receipt), NEW action
    PROVE  NamesIts(receipt) /\ (~Used(b) => TrueOf(receipt, b, action)')
<1>1. ASSUME NEW state \in {"accepted", "pending"}, Holds(b, state),
             receipt = Verdict(b, state)
      PROVE  NamesIts(receipt) /\ TrueOf(receipt, b, action)'
  <2>1. calendar'[b] = state
    BY <1>1 DEF Holds, TypeOK
  <2>2. CASE state = "accepted"
    <3>1. receipt = [reason |-> "appointment_confirmed", booking |-> b]
      BY <1>1, <2>2 DEF Verdict, Said
    <3> QED BY <2>1, <2>2, <3>1 DEF NamesIts, TrueOf, NothingDone
  <2>3. CASE state = "pending"
    <3>1. receipt = [reason |-> "booking_pending_provider_confirmation", booking |-> b]
      BY <1>1, <2>3 DEF Verdict, Said
    <3> QED BY <2>1, <2>3, <3>1 DEF NamesIts, TrueOf, NothingDone
  <2> QED BY <1>1, <2>2, <2>3
<1>2. CASE receipt = Said("booking_id_missing", None) \/ receipt = Said("outcome_unknown", None)
  BY <1>2, NoBookingNamed, NothingClaimed
<1>3. CASE receipt = Said("calcom_booking_failed", None) /\ UNCHANGED <<calendar, late>>
  <2>1. ~Used(b) => ~Used(b)'
    BY <1>3 DEF Used
  <2>2. NamesIts(receipt)
    BY <1>3, NoBookingNamed DEF NothingDone
  <2>3. ~Used(b) => TrueOf(Said("calcom_booking_failed", None), b, action)'
    BY <2>1, NothingDoneTrue DEF NothingDone
  <2> QED BY <1>3, <2>2, <2>3 DEF TrueOf
<1>4. \/ \E state \in {"accepted", "pending"} : Holds(b, state) /\ receipt = Verdict(b, state)
      \/ receipt = Said("booking_id_missing", None)
      \/ receipt = Said("outcome_unknown", None)
      \/ receipt = Said("calcom_booking_failed", None) /\ UNCHANGED <<calendar, late>>
  BY DEF BookSlot
<1> QED BY <1>1, <1>2, <1>3, <1>4

LEMMA TruthInitially == Init => TruthInv
BY DEF Init, TruthInv, TrueCall, NamesIts, At

LEMMA TruthStep ==
    ASSUME MayDrop = FALSE, AttemptCounted, TypeOK, UseInv, TruthInv, [Next]_vars
    PROVE  TruthInv'
<1> USE DEF provider, worker
<1>a. ASSUME UNCHANGED <<calendar, late, call, worker>> PROVE TruthInv'
  BY <1>a, CalendarAlone, TruthStutter
<1>b. \A c \in Calls : <<c, 1>> \in Bookings
  BY BookingsAssumption DEF Bookings
<1>c. \A c \in Calls : ~At(c, "answered") =>
         job[c].at = "none" /\ job[c].tries = 0 /\ c \notin redelivered
  BY DEF UseInv, UseCall
<1>d. \A c \in Calls : ~At(c, "answered") /\ ~At(c, "store") => ~Used(<<c, 1>>)
  BY <1>b, <1>c DEF UseInv, UseCall, Fresh
<1>e. "refused" \in NothingDone
  BY DEF NothingDone
\* A refusal before anything was asked of the provider, or of a cancellation.
<1>f. ASSUME NEW c \in Calls, ~At(c, "answered"), ~At(c, "store"),
             UNCHANGED <<provider, worker>>,
             NEW caller, Finish(c, caller, Said("refused", None))
      PROVE  TruthInv'
  <2>1. Forward /\ \A d \in Calls : NoNewUse(d)
    BY <1>f, CalendarAlone
  <2>2. ~Used(<<c, 1>>)'
    BY <1>d, <1>f DEF Used
  <2>3. \A action : TrueOf(Said("refused", None), <<c, 1>>, action)'
    BY <1>b, <1>e, <2>2, NothingDoneTrue
  <2>4. NamesIts(Said("refused", None))
    BY <1>e, NoBookingNamed
  <2>5. job[c].at = "none" /\ job[c].tries = 0
    BY <1>c, <1>f
  <2> QED BY <1>f, <2>1, <2>3, <2>4, <2>5, TruthFinish
<1>g. ASSUME NEW c \in Calls, ~At(c, "answered"),
             UNCHANGED <<provider, worker>>, call'[c].at \notin {"store", "answered"},
             \A d \in Calls : d # c => call'[d] = call[d]
      PROVE  TruthInv'
  BY <1>c, <1>g, CalendarAlone, TruthMoves
<1>1. ASSUME NEW c \in Calls, ArriveCalcom(c) PROVE TruthInv'
  <2>1. At(c, "idle") /\ UNCHANGED <<provider, worker>>
    BY <1>1 DEF ArriveCalcom
  <2>2. ASSUME NEW caller, call' = [call EXCEPT ![c].caller = caller, ![c].at = "inquire"]
        PROVE  TruthInv'
    <3>1. call'[c].at = "inquire" /\ \A d \in Calls : d # c => call'[d] = call[d]
      BY <2>2 DEF TypeOK, CallState
    <3> QED BY <1>g, <2>1, <3>1 DEF At
  <2>3. ASSUME NEW caller, NEW b \in Bookings,
               call' = [call EXCEPT ![c].caller = caller, ![c].action = "cancel",
                                    ![c].target = b, ![c].at = "owner"]
        PROVE  TruthInv'
    <3>1. call'[c].at = "owner" /\ \A d \in Calls : d # c => call'[d] = call[d]
      BY <2>3 DEF TypeOK, CallState
    <3> QED BY <1>g, <2>1, <3>1 DEF At
  <2> QED BY <1>1, <1>f, <2>1, <2>2, <2>3 DEF ArriveCalcom, At
<1>2. ASSUME NEW c \in Calls, Inquire(c) PROVE TruthInv'
  <2>1. At(c, "inquire") /\ UNCHANGED <<provider, worker>>
    BY <1>2 DEF Inquire
  <2>2. CASE Goto(c, "book")
    <3>1. call'[c].at = "book" /\ \A d \in Calls : d # c => call'[d] = call[d]
      BY <2>2 DEF Goto, TypeOK, CallState
    <3> QED BY <1>g, <2>1, <3>1 DEF At
  <2> QED BY <1>2, <1>f, <2>1, <2>2 DEF Inquire, Return, At
<1>3. ASSUME NEW c \in Calls, BookNow(c) PROVE TruthInv'
  <2>1. At(c, "book") /\ UNCHANGED worker
    BY <1>3 DEF BookNow
  <2>2. PICK receipt \in Receipt : BookSlot(<<c, 1>>, receipt) /\ Return(c, receipt)
    BY <1>3 DEF BookNow
  <2>3. Forward /\ \A d \in Bookings : d # <<c, 1>> => (Used(d)' => Used(d))
    BY <1>b, <2>2, BookSlotForward
  <2>4. \A d \in Calls : d # c => NoNewUse(d)
    BY <2>3 DEF NoNewUse
  <2>5. ~Used(<<c, 1>>)
    BY <1>d, <2>1 DEF At
  <2>6. NamesIts(receipt) /\ \A action : TrueOf(receipt, <<c, 1>>, action)'
    BY <1>b, <2>2, <2>5, BookSlotTrue
  <2>7. job[c].at = "none" /\ job[c].tries = 0
    BY <1>c, <2>1 DEF At
  <2> QED BY <2>1, <2>2, <2>3, <2>4, <2>6, <2>7, TruthFinish DEF Return
<1>4. ASSUME NEW c \in Calls, CheckOwner(c) PROVE TruthInv'
  <2>1. At(c, "owner") /\ UNCHANGED <<provider, worker>>
    BY <1>4 DEF CheckOwner
  <2>2. CASE Goto(c, "cancel")
    <3>1. call'[c].at = "cancel" /\ \A d \in Calls : d # c => call'[d] = call[d]
      BY <2>2 DEF Goto, TypeOK, CallState
    <3> QED BY <1>g, <2>1, <3>1 DEF At
  <2> QED BY <1>4, <1>f, <2>1, <2>2 DEF CheckOwner, Return, At
<1>5. ASSUME NEW c \in Calls, CancelNow(c) PROVE TruthInv'
  <2>1. PICK b : b = call[c].target
    OBVIOUS
  <2>2. At(c, "cancel") /\ UNCHANGED <<late, worker>>
    BY <1>5 DEF CancelNow
  <2>3. b \in Bookings /\ calendar[b] # "none"
    BY <2>1, <2>2 DEF UseInv, UseCall
  <2>4. calendar' = calendar \/ calendar' = [calendar EXCEPT ![b] = "cancelled"]
    BY <1>5, <2>1 DEF CancelNow
  <2>5. Forward /\ \A d \in Calls : NoNewUse(d)
    BY <2>2, <2>3, <2>4, CancelForward
  <2>6. PICK receipt : /\ Return(c, receipt)
                       /\ \/ /\ calendar' = [calendar EXCEPT ![b] = "cancelled"]
                             /\ receipt = Said("cancelled", b)
                          \/ receipt = Said("outcome_unknown", None)
                          \/ receipt = Said("calcom_booking_failed", None)
    BY <1>5, <2>1 DEF CancelNow
  <2>7. ~Used(<<c, 1>>)'
    BY <1>b, <1>d, <2>2, <2>5 DEF NoNewUse, At
  <2>8. NamesIts(receipt) /\ \A action : TrueOf(receipt, <<c, 1>>, action)'
    <3>1. CASE /\ calendar' = [calendar EXCEPT ![b] = "cancelled"]
               /\ receipt = Said("cancelled", b)
      <4>1. calendar'[b] = "cancelled"
        BY <2>3, <3>1 DEF TypeOK
      <4> QED BY <2>3, <3>1, <4>1 DEF NamesIts, TrueOf, Said, NothingDone
    <3>2. CASE receipt = Said("outcome_unknown", None)
      BY <3>2, NoBookingNamed, NothingClaimed
    <3>3. CASE receipt = Said("calcom_booking_failed", None)
      BY <1>b, <2>7, <3>3, NoBookingNamed, NothingDoneTrue DEF NothingDone
    <3> QED BY <2>6, <3>1, <3>2, <3>3
  <2>9. job[c].at = "none" /\ job[c].tries = 0
    BY <1>c, <2>2 DEF At
  <2> QED BY <2>2, <2>5, <2>6, <2>8, <2>9, TruthFinish DEF Return
<1>6. ASSUME NEW c \in Calls, StoreDurably(c) PROVE TruthInv'
  <2>1. At(c, "store") /\ Goto(c, "answered") /\ UNCHANGED <<provider, worker>>
    BY <1>6 DEF StoreDurably
  <2>2. Forward /\ \A d \in Calls : NoNewUse(d)
    BY <2>1, CalendarAlone
  <2>3. /\ call'[c].at = "answered" /\ call'[c].receipt = call[c].receipt
        /\ call'[c].action = call[c].action
        /\ \A d \in Calls : d # c => call'[d] = call[d]
    BY <2>1 DEF Goto, TypeOK, CallState
  <2>4. TrueOf(call[c].receipt, <<c, 1>>, JudgedAs(c))'
    BY <2>1, <2>3 DEF TruthInv, TrueCall, TrueOf, JudgedAs
  <2>5. NamesIts(call'[c].receipt)
    BY <2>1, <2>3 DEF TruthInv, TrueCall
  <2>6. TrueCall(c)'
    <3>1. job[c].tries = 0 /\ job' = job
      BY <1>c, <2>1 DEF At
    <3>2. ~(job'[c].tries > 0)
      BY <3>1
    <3>3. NamesIts(job'[c].receipt)
      BY <3>1 DEF TruthInv, TrueCall
    <3>4. NamesIts(call[c].receipt)' /\ NamesIts(job[c].receipt)'
      BY <2>5, <3>3 DEF NamesIts
    <3> QED BY <2>4, <3>2, <3>4 DEF TrueCall
  <2>7. \A d \in Calls : d # c => TrueCall(d)'
    BY <2>1, <2>2, <2>3, TrueAlone DEF TruthInv
  <2> QED BY <2>6, <2>7 DEF TruthInv
<1>7. ASSUME NEW c \in Calls, ArriveQueued(c) PROVE TruthInv'
  <2>1. At(c, "idle") /\ UNCHANGED <<provider, redelivered>>
    BY <1>7 DEF ArriveQueued
  <2>2. Forward /\ \A d \in Calls : NoNewUse(d)
    BY <2>1, CalendarAlone
  <2>3. job[c].at = "none" /\ job[c].tries = 0 /\ ~Used(<<c, 1>>)'
    BY <1>c, <1>d, <2>1 DEF At, Used
  <2>4. ASSUME NEW caller, Finish(c, caller, Said("refused", None)), UNCHANGED job
        PROVE  TruthInv'
    BY <1>f, <2>1, <2>4 DEF At
  <2>5. ASSUME NEW reason \in {"refused", "booking_in_progress"}, NEW x, NEW z,
               call' = [call EXCEPT ![c] = x], x.receipt = Said(reason, None),
               job' = [job EXCEPT ![c] = z], z.tries = 0, z.receipt = job[c].receipt
        PROVE  TruthInv'
    <3>1. /\ call'[c].receipt = Said(reason, None)
          /\ \A d \in Calls : d # c => call'[d] = call[d] /\ job'[d] = job[d]
          /\ job'[c].tries = 0 /\ job'[c].receipt = job[c].receipt
      BY <2>5 DEF TypeOK
    <3>2. /\ NamesIts(Said(reason, None))
          /\ \A action : TrueOf(Said(reason, None), <<c, 1>>, action)'
      BY <1>b, <1>e, <2>3, NothingDoneTrue, NothingClaimed, NoBookingNamed
    <3>3. PICK action : action = JudgedAs(c)'
      OBVIOUS
    <3>4. TrueOf(call[c].receipt, <<c, 1>>, JudgedAs(c))'
      BY <3>1, <3>2, <3>3
    <3>5. TrueCall(c)'
      <4>1. ~(job'[c].tries > 0)
        BY <3>1
      <4>2. NamesIts(job[c].receipt)
        BY DEF TruthInv, TrueCall
      <4>3. NamesIts(call[c].receipt)' /\ NamesIts(job[c].receipt)'
        BY <3>1, <3>2, <4>2 DEF NamesIts
      <4> QED BY <3>4, <4>1, <4>3 DEF TrueCall
    <3>6. \A d \in Calls : d # c => TrueCall(d)'
      BY <2>1, <2>2, <3>1, TrueAlone DEF TruthInv
    <3> QED BY <3>5, <3>6 DEF TruthInv
  <2>6. ASSUME NEW caller, UNCHANGED job,
               call' = [call EXCEPT ![c].caller = caller, ![c].at = "answered",
                                    ![c].receipt = Said("refused", None)]
        PROVE  TruthInv'
    <3> DEFINE x == [call[c] EXCEPT !.caller = caller, !.at = "answered",
                                    !.receipt = Said("refused", None)]
    <3>1. call' = [call EXCEPT ![c] = x] /\ job' = [job EXCEPT ![c] = job[c]]
      BY <2>6 DEF TypeOK
    <3>2. x.receipt = Said("refused", None)
      BY DEF TypeOK, CallState
    <3> HIDE DEF x
    <3> QED BY <2>3, <2>5, <3>1, <3>2
  <2>7. ASSUME NEW caller, NEW action, job' = [job EXCEPT ![c].at = "queued"],
               call' = [call EXCEPT ![c].caller = caller, ![c].action = action,
                                    ![c].at = "answered",
                                    ![c].receipt = Said("booking_in_progress", None)]
        PROVE  TruthInv'
    <3> DEFINE x == [call[c] EXCEPT !.caller = caller, !.action = action, !.at = "answered",
                                    !.receipt = Said("booking_in_progress", None)]
               z == [job[c] EXCEPT !.at = "queued"]
    <3>1. call' = [call EXCEPT ![c] = x] /\ job' = [job EXCEPT ![c] = z]
      BY <2>7 DEF TypeOK
    <3>2. x.receipt = Said("booking_in_progress", None)
      BY DEF TypeOK, CallState
    <3>3. z.tries = 0 /\ z.receipt = job[c].receipt
      BY <2>3 DEF TypeOK, JobState
    <3> HIDE DEF x, z
    <3> QED BY <2>5, <3>1, <3>2, <3>3
  <2> QED BY <1>7, <2>4, <2>6, <2>7 DEF ArriveQueued
<1>8. ASSUME NEW c \in Calls, WorkerStart(c) PROVE TruthInv'
  <2>1. job[c].at = "queued" /\ UNCHANGED <<provider, call, redelivered>>
    BY <1>8 DEF WorkerStart
  <2>2. Forward /\ \A d \in Calls : NoNewUse(d)
    BY <2>1, CalendarAlone
  <2>3. /\ job'[c].at = "running" /\ job'[c].receipt = job[c].receipt
        /\ \A d \in Calls : d # c => job'[d] = job[d]
    BY <1>8 DEF WorkerStart, TypeOK, JobState
  <2>4. JudgedAs(c)' = JudgedAs(c)
    BY <2>1, <2>3 DEF JudgedAs
  <2>5. TrueOf(call[c].receipt, <<c, 1>>, JudgedAs(c))' <=>
            TrueOf(call[c].receipt, <<c, 1>>, JudgedAs(c))
    BY <2>1, <2>4 DEF TrueOf
  <2>6. TrueCall(c)'
    BY <2>1, <2>3, <2>5 DEF TruthInv, TrueCall, NamesIts, At
  <2>7. \A d \in Calls : d # c => TrueCall(d)'
    BY <2>1, <2>2, <2>3, TrueAlone DEF TruthInv
  <2> QED BY <2>6, <2>7 DEF TruthInv
<1>9. ASSUME NEW c \in Calls, WorkerRuns(c) PROVE TruthInv'
  <2>1. job[c].at = "running" /\ UNCHANGED <<call, redelivered>>
    BY <1>9 DEF WorkerRuns
  <2>2. PICK b : b = <<c, job[c].tries>>
    OBVIOUS
  <2>3. PICK receipt \in Receipt :
           /\ WorkerResult(c, receipt)
           /\ \/ /\ UNCHANGED <<calendar, late>>
                 /\ \E reason \in NothingDone : receipt = Said(reason, None)
              \/ BookSlot(b, receipt)
    BY <1>9, <2>2, ReceiptTypes DEF WorkerRuns, NothingDone
  <2>4. /\ job'[c].tries = job[c].tries /\ job'[c].receipt = receipt
        /\ job'[c].at \in {"queued", "acking"}
        /\ \A d \in Calls : d # c => job'[d] = job[d]
    BY <2>3 DEF WorkerResult, TypeOK, JobState
  <2>5. At(c, "answered") /\ (c \notin redelivered /\ b \in Bookings => ~Used(b))
    BY <2>1, <2>2 DEF UseInv, UseCall, Fresh
  <2>6. CASE b \in Bookings
    <3>1. Forward /\ \A d \in Bookings : d # b => (Used(d)' => Used(d))
      BY <2>3, <2>6, CalendarAlone, BookSlotForward DEF Used
    <3>2. \A d \in Calls : d # c => NoNewUse(d)
      BY <2>2, <3>1 DEF NoNewUse
    <3>3. NamesIts(receipt) /\ (c \notin redelivered => TrueOf(receipt, b, "book")')
      <4>1. CASE BookSlot(b, receipt)
        BY <2>5, <2>6, <4>1, BookSlotTrue
      <4>2. ASSUME UNCHANGED <<calendar, late>>, NEW reason \in NothingDone,
                   receipt = Said(reason, None)
            PROVE  NamesIts(receipt) /\ (c \notin redelivered => TrueOf(receipt, b, "book")')
        <5>1. c \notin redelivered => ~Used(b)'
          BY <2>5, <2>6, <4>2 DEF Used
        <5>2. NamesIts(Said(reason, None))
          BY NoBookingNamed
        <5>3. c \notin redelivered => TrueOf(Said(reason, None), b, "book")'
          BY <2>6, <5>1, NothingDoneTrue
        <5> QED BY <4>2, <5>2, <5>3 DEF TrueOf
      <4> QED BY <2>3, <4>1, <4>2
    <3>4. TrueOf(call[c].receipt, <<c, 1>>, JudgedAs(c))'
      <4>1. PICK told : told = call[c].receipt
        OBVIOUS
      <4>2. NamesIts(told) /\ TrueOf(told, <<c, 1>>, "cancel")
        BY <2>1, <2>5, <4>1 DEF TruthInv, TrueCall, JudgedAs
      <4>3. TrueOf(told, <<c, 1>>, "cancel")'
        BY <1>b, <3>1, <4>2, TrueStays
      <4>4. call'[c].receipt = told /\ JudgedAs(c)' = "cancel"
        BY <2>1, <2>4, <4>1 DEF JudgedAs
      <4> QED BY <4>3, <4>4
    <3>5. TrueCall(c)'
      <4>1. NamesIts(call[c].receipt)'
        BY <2>1, <2>5 DEF TruthInv, TrueCall, NamesIts
      <4>2. NamesIts(job[c].receipt)'
        BY <2>4, <3>3 DEF NamesIts
      <4>3. c \notin redelivered => TrueOf(job[c].receipt, <<c, job[c].tries>>, "book")'
        BY <2>2, <2>4, <3>3 DEF TrueOf
      <4> QED BY <2>1, <3>4, <4>1, <4>2, <4>3 DEF TrueCall
    <3>6. \A d \in Calls : d # c => TrueCall(d)'
      BY <2>1, <2>4, <3>1, <3>2, TrueAlone DEF TruthInv
    <3> QED BY <3>5, <3>6 DEF TruthInv
  <2>7. b \in Bookings
    BY <1>9, <2>1, <2>2 DEF AttemptCounted, TypeOK, JobState, Bookings
  <2> QED BY <2>6, <2>7
<1>10. ASSUME NEW c \in Calls, WorkerAcks(c) PROVE TruthInv'
  <2>1. job[c].at = "acking" /\ UNCHANGED <<provider, call, redelivered>>
    BY <1>10 DEF WorkerAcks
  <2>2. Forward /\ \A d \in Calls : NoNewUse(d)
    BY <2>1, CalendarAlone
  <2>3. /\ job'[c].at = "done" /\ job'[c].receipt = job[c].receipt
        /\ job'[c].tries = job[c].tries
        /\ \A d \in Calls : d # c => job'[d] = job[d]
    BY <1>10 DEF WorkerAcks, TypeOK, JobState
  <2>4. JudgedAs(c)' = JudgedAs(c)
    BY <2>1, <2>3 DEF JudgedAs
  <2>5. TrueOf(call[c].receipt, <<c, 1>>, JudgedAs(c))' <=>
            TrueOf(call[c].receipt, <<c, 1>>, JudgedAs(c))
    BY <2>1, <2>4 DEF TrueOf
  <2>6. TrueOf(job[c].receipt, <<c, job[c].tries>>, "book")' <=>
            TrueOf(job[c].receipt, <<c, job[c].tries>>, "book")
    BY <2>1, <2>3 DEF TrueOf
  <2>7. TrueCall(c)'
    BY <2>1, <2>3, <2>5, <2>6 DEF TruthInv, TrueCall, NamesIts, At
  <2>8. \A d \in Calls : d # c => TrueCall(d)'
    BY <2>1, <2>2, <2>3, TrueAlone DEF TruthInv
  <2> QED BY <2>7, <2>8 DEF TruthInv
<1>11. ASSUME NEW u \in upserts, Upsert(u) PROVE TruthInv'
  BY <1>a, <1>11 DEF Upsert
<1>12. ASSUME NEW b \in Bookings, BusinessAccepts(b) \/ LateBooking(b) PROVE TruthInv'
  <2>1. UNCHANGED <<call, worker>>
    BY <1>12 DEF BusinessAccepts, LateBooking
  <2> QED BY <1>12, <2>1, ProviderForward, TruthStutter
<1>13. CASE WorkerCrash
  <2> SUFFICES ASSUME NEW c \in Calls PROVE TrueCall(c)'
    BY DEF TruthInv
  <2>1. /\ Forward /\ UNCHANGED <<calendar, call>>
        /\ c \notin redelivered' => NoNewUse(c) /\ job'[c] = job[c] /\ c \notin redelivered
        /\ \/ job'[c] = job[c]
           \/ job'[c] = [job[c] EXCEPT !.at = "queued"] /\ job[c].at # "none"
        /\ c \in redelivered' => c \in redelivered \/ job[c].at # "none"
    BY <1>13, WorkerCrashUses, Zenon
  <2>2. CASE c \notin redelivered'
    BY <2>1, <2>2, TrueAlone DEF TruthInv
  <2>3. CASE c \in redelivered'
    <3>1. job[c].at # "none"
      BY <2>1, <2>3 DEF UseInv, UseCall
    <3>2. job'[c].at # "none" /\ job'[c].receipt = job[c].receipt
      BY <2>1, <3>1 DEF TypeOK, JobState
    <3>3. PICK told : told = call[c].receipt
      OBVIOUS
    <3>4. NamesIts(told) /\ TrueOf(told, <<c, 1>>, "cancel")
      BY <3>1, <3>3 DEF UseInv, UseCall, TruthInv, TrueCall, JudgedAs
    <3>5. TrueOf(told, <<c, 1>>, "cancel")'
      BY <1>b, <2>1, <3>4, TrueStays
    <3>6. call'[c].receipt = told /\ JudgedAs(c)' = "cancel"
      BY <2>1, <3>2, <3>3 DEF JudgedAs
    <3>7. TrueOf(call[c].receipt, <<c, 1>>, JudgedAs(c))'
      BY <3>5, <3>6
    <3>8. NamesIts(call[c].receipt)' /\ NamesIts(job[c].receipt)'
      BY <3>2, <3>4, <3>6 DEF TruthInv, TrueCall, NamesIts
    <3> QED BY <2>3, <3>7, <3>8 DEF TrueCall
  <2> QED BY <2>2, <2>3
<1>14. CASE Crash
  <2> SUFFICES ASSUME NEW c \in Calls PROVE TrueCall(c)'
    BY DEF TruthInv
  <2>1. /\ Forward /\ UNCHANGED worker
        /\ ~At(c, "book") => NoNewUse(c)
        /\ \/ call'[c] = call[c] /\ call[c].at \in {"idle", "answered"}
           \/ /\ call[c].at \notin {"idle", "answered"}
              /\ call'[c].at = "answered" /\ call'[c].receipt = None
    BY <1>14, CrashUses
  <2>2. CASE call'[c] = call[c] /\ call[c].at \in {"idle", "answered"}
    <3>1. NoNewUse(c)
      BY <2>1, <2>2 DEF At
    <3> QED BY <2>1, <2>2, <3>1, TrueAlone DEF TruthInv
  <2>3. CASE /\ call[c].at \notin {"idle", "answered"}
             /\ call'[c].at = "answered" /\ call'[c].receipt = None
    <3>1. job[c].tries = 0 /\ UNCHANGED job
      BY <1>c, <2>1, <2>3 DEF At
    <3>2. NamesIts(call[c].receipt)' /\ NamesIts(job[c].receipt)'
      BY <2>3, <3>1 DEF TruthInv, TrueCall, NamesIts
    <3>3. TrueOf(call[c].receipt, <<c, 1>>, JudgedAs(c))'
      BY <2>3 DEF TrueOf
    <3> QED BY <3>1, <3>2, <3>3 DEF TrueCall
  <2> QED BY <2>1, <2>2, <2>3
<1>15. CASE UNCHANGED vars
  BY <1>a, <1>15 DEF vars
<1> QED
  BY <1>1, <1>2, <1>3, <1>4, <1>5, <1>6, <1>7, <1>8, <1>9, <1>10, <1>11,
     <1>12, <1>13, <1>14, <1>15 DEF Next

\* The receipt of a call, and the result of a job, are true of the calendar,
\* then and ever after: a confirmed appointment was accepted by the provider,
\* and "nothing was booked" means that the provider neither has nor will get
\* the booking, if it never takes a request whose connection breaks.
THEOREM ReceiptsHold ==
    ASSUME MayDrop = FALSE
    PROVE  Spec => []ReceiptsAreTrue
<1>1. AttemptCounted /\ TypeOK /\ UseInv /\ TruthInv /\ [Next]_vars => TruthInv'
  BY TruthStep
<1>2. TruthInv => ReceiptsAreTrue
  BY DEF TruthInv, TrueCall, JudgedAs, ReceiptsAreTrue
<1> QED BY <1>1, <1>2, TruthInitially, UseInvHolds, TypeCorrect, AttemptsCounted, PTL DEF Spec
=============================================================================

------------------------------ MODULE Bookings ------------------------------
(***************************************************************************)
(* Appointments (core/schedule_appointment.py, channels/direct_api/        *)
(* calcom.py), the job of the background worker                            *)
(* (reliability/async_runner.py) and the records of both                   *)
(* (storage/outcome_store.py).                                             *)
(*                                                                         *)
(* A call books, cancels or asks for the free slots.  With a Cal.com       *)
(* business it does so itself; otherwise it queues a job for the worker,   *)
(* another process.  The server keeps a record of every operation in       *)
(* memory and writes it to the table operations, mostly without waiting    *)
(* for the write.  A step of a handler ends at an await.                   *)
(***************************************************************************)
EXTENDS Naturals, FiniteSets

CONSTANTS
    Calls,          \* calls of schedule_appointment, each with its operation_id
    WithJobs,       \* the calls that may name a business without Cal.com
    Agents,         \* identities
    Anonymous,      \* a caller that presents none
    None,           \* no record, no owner, no booking
    Lossy,          \* may a write to the table operations fail?
    MayDrop,        \* may the provider's connection break after it got a request?
    MaxTries,       \* attempts at a job (4)
    MaxCrashes      \* bound on crashes, of the server and of the worker

ASSUME BookingsAssumption ==
    /\ WithJobs \subseteq Calls
    /\ Anonymous \notin Agents
    /\ None \notin Agents \cup (Calls \X (1..MaxTries))
    /\ {Lossy, MayDrop} \subseteq BOOLEAN
    /\ MaxTries \in Nat \ {0} /\ MaxCrashes \in Nat

VARIABLES
    calendar,   \* calendar[b]: what the provider holds of booking b
    late,       \* requests for a booking that the provider is yet to serve
    cancelledBy,\* cancelledBy[b]: callers whose cancellation of b was served
    call,       \* call[c]: where call c stands
    memory,     \* memory[c]: the server's own record of operation c
    row,        \* row[c]: the row of operation c
    upserts,    \* fire-and-forget writes under way
    unsaved,    \* calls whose awaited write failed: logged, not told
    job,        \* job[c]: where the job of call c stands
    redelivered,\* jobs that the broker delivered again
    crashes

provider == <<calendar, late, cancelledBy>>
store == <<memory, row, upserts, unsaved>>
worker == <<job, redelivered>>
vars == <<provider, call, store, worker, crashes>>

----------------------------------------------------------------------------
\* A job may book once per attempt.
Bookings == Calls \X (1..MaxTries)
Calendar == {"none", "pending", "accepted", "cancelled"}

Action == {"book", "cancel"}

\* Reasons, by what they tell of the world.  "refused" stands for every one
\* that is given before the provider is asked to do anything: bad_input,
\* supply_unreachable, demo_smb_no_live_booking, recipient_opted_out,
\* booking_destination_unmapped, bad_request, requested_time_unavailable,
\* availability_check_failed, availability_returned, the denials of
\* read_denial, async_channel_not_provisioned, voice_not_provisioned and the
\* failure of an inquiry or of a wish to reschedule.
NothingDone == {"refused", "calcom_booking_failed"}
Awaited ==
    {"appointment_confirmed", "booking_pending_provider_confirmation",
     "cancelled", "outcome_unknown"}
Reason == NothingDone \cup Awaited \cup {"booking_id_missing", "booking_in_progress"}

Receipt == [reason : Reason, booking : Bookings \cup {None}]
Said(reason, b) == [reason |-> reason, booking |-> b]

\* The status of a record is pending until its receipt is there.
Record == [status : {"pending", "complete"}, receipt : Receipt \cup {None},
           owner : Agents \cup {None}]

ASSUME NothingAssumption == None \notin Receipt /\ None \notin Record

Stage == {"idle", "inquire", "book", "owner", "cancel", "store", "answered"}
CallState == [at : Stage, caller : Agents \cup {Anonymous}, action : Action,
              target : Bookings \cup {None}, receipt : Receipt \cup {None}]
JobState == [at : {"none", "queued", "running", "acking", "done"}, tries : 0..MaxTries,
             receipt : Receipt \cup {None}]

TypeOK ==
    /\ calendar \in [Bookings -> Calendar]
    /\ late \subseteq Bookings
    /\ cancelledBy \in [Bookings -> SUBSET (Agents \cup {Anonymous})]
    /\ call \in [Calls -> CallState]
    /\ memory \in [Calls -> Record \cup {None}]
    /\ row \in [Calls -> Record \cup {None}]
    /\ upserts \subseteq [op : Calls, record : Record]
    /\ unsaved \subseteq Calls /\ redelivered \subseteq Calls
    /\ job \in [Calls -> JobState]
    /\ crashes \in 0..MaxCrashes

Init ==
    /\ calendar = [b \in Bookings |-> "none"]
    /\ late = {} /\ cancelledBy = [b \in Bookings |-> {}]
    /\ call = [c \in Calls |-> [at |-> "idle", caller |-> Anonymous, action |-> "book",
                                target |-> None, receipt |-> None]]
    /\ memory = [c \in Calls |-> None] /\ row = [c \in Calls |-> None]
    /\ upserts = {} /\ unsaved = {}
    /\ job = [c \in Calls |-> [at |-> "none", tries |-> 0, receipt |-> None]]
    /\ redelivered = {} /\ crashes = 0

At(c, stage) == call[c].at = stage
Goto(c, stage) == call' = [call EXCEPT ![c].at = stage]

----------------------------------------------------------------------------
(* The outcome store.                                                      *)

\* owner_for_storage: an anonymous caller owns nothing.
OwnerForStorageAny(caller) == caller
OwnerForStorage(caller) == IF caller = Anonymous THEN None ELSE caller

Fire(c, record) ==
    /\ memory' = [memory EXCEPT ![c] = record]
    /\ upserts' = upserts \cup {[op |-> c, record |-> record]}

\* set_pending and set_complete.
Pending(caller) == [status |-> "pending", receipt |-> None, owner |-> OwnerForStorage(caller)]
Complete(receipt, caller) ==
    [status |-> IF receipt.reason = "booking_in_progress" THEN "pending" ELSE "complete",
     receipt |-> receipt, owner |-> OwnerForStorage(caller)]

\* An upsert lands, or fails and is logged.  Nothing orders two of them.
Upsert(u) ==
    /\ u \in upserts
    /\ upserts' = upserts \ {u}
    /\ \/ row' = [row EXCEPT ![u.op] = u.record]
       \/ Lossy /\ UNCHANGED row
    /\ UNCHANGED <<provider, call, memory, unsaved, worker, crashes>>

\* The outcomes whose write is awaited before the caller is answered.
DurableUnlessUnknown(reason) == reason \in Awaited \ {"outcome_unknown"}
Durable(reason) == reason \in Awaited

\* _store_terminal, and the return of the receipt.
Finish(c, caller, receipt) ==
    /\ call' = [call EXCEPT ![c].receipt = receipt, ![c].caller = caller,
                            ![c].at = IF Durable(receipt.reason) THEN "store" ELSE "answered"]
    /\ Fire(c, Complete(receipt, caller))

Return(c, receipt) == Finish(c, call[c].caller, receipt)

\* await set_complete_durable's own upsert, for at most three seconds.
StoreDurably(c) ==
    /\ At(c, "store")
    /\ \/ /\ row' = [row EXCEPT ![c] = memory[c]]
          /\ UNCHANGED unsaved
       \/ /\ Lossy
          /\ unsaved' = unsaved \cup {c}
          /\ UNCHANGED row
    /\ Goto(c, "answered")
    /\ UNCHANGED <<provider, memory, upserts, worker, crashes>>

----------------------------------------------------------------------------
(* The handler.                                                            *)

\* A call of a Cal.com business: refused at once, or on its way to the
\* provider.
ArriveCalcom(c) ==
    /\ At(c, "idle")
    /\ \E caller \in Agents \cup {Anonymous} :
          \/ Finish(c, caller, Said("refused", None))
          \/ /\ call' = [call EXCEPT ![c].caller = caller, ![c].at = "inquire"]
             /\ UNCHANGED <<memory, upserts>>
          \/ \E b \in Bookings :
                /\ calendar[b] # "none"
                /\ call' = [call EXCEPT ![c].caller = caller, ![c].action = "cancel",
                                        ![c].target = b, ![c].at = "owner"]
                /\ UNCHANGED <<memory, upserts>>
    /\ UNCHANGED <<provider, row, unsaved, worker, crashes>>

\* The event type, the window, the free slots and the choice of one.  Asking
\* for the free slots ends here.
Inquire(c) ==
    /\ At(c, "inquire")
    /\ \/ Return(c, Said("refused", None))
       \/ Goto(c, "book") /\ UNCHANGED <<memory, upserts>>
    /\ UNCHANGED <<provider, row, unsaved, worker, crashes>>

\* What the code makes of the provider's answer to a booking: it is confirmed
\* only with an id and a state that says so.
VerdictUnread(b, state) == Said("appointment_confirmed", b)
Verdict(b, state) ==
    IF state = "accepted" THEN Said("appointment_confirmed", b)
    ELSE Said("booking_pending_provider_confirmation", b)

Holds(b, state) ==
    /\ calendar[b] = "none"
    /\ calendar' = [calendar EXCEPT ![b] = state]

\* book_slot: the receipt and what became of the calendar.  A timeout, a 5xx
\* or an unreadable answer leaves the outcome open; a 4xx or a connection
\* that was never made is a plain failure, and so is one that broke.
BookSlot(b, receipt) ==
    \/ \E state \in {"accepted", "pending"} :
          /\ Holds(b, state)
          /\ receipt \in {Verdict(b, state), Said("booking_id_missing", None)}
          /\ UNCHANGED late
    \/ /\ receipt = Said("outcome_unknown", None)
       /\ \/ Holds(b, "accepted") /\ UNCHANGED late
          \/ late' = late \cup {b} /\ UNCHANGED calendar
          \/ UNCHANGED <<calendar, late>>
    \/ /\ receipt = Said("calcom_booking_failed", None)
       /\ \/ UNCHANGED <<calendar, late>>
          \/ MayDrop /\ Holds(b, "accepted") /\ UNCHANGED late

BookNow(c) ==
    /\ At(c, "book")
    /\ \E receipt \in Receipt : BookSlot(<<c, 1>>, receipt) /\ Return(c, receipt)
    /\ UNCHANGED <<cancelledBy, row, unsaved, worker, crashes>>

\* get_appointment_owner_async: the owner in a confirmed record, else the
\* one that the table gives for the provider's id; none if that fails.
Confirms(record, b) ==
    record # None /\ record.receipt = Said("appointment_confirmed", b)

\* The function that finds the row is not in the repository: it may or may
\* not also find the row of a booking that waits for the business.
Names(record, b) == record # None /\ record.receipt # None /\ record.receipt.booking = b

OwnersFound(b) ==
    LET own == {c \in Calls : Confirms(memory[c], b)}
    IN  IF own # {} THEN {memory[c].owner : c \in own}
        ELSE {None} \cup {row[c].owner : c \in {x \in Calls : Names(row[x], b)}}

\* read_denial: only the recorded owner may act.
MayActOnUnowned(caller, owner) == owner = None \/ caller = owner
MayActOn(caller, owner) == owner # None /\ caller = owner

CheckOwner(c) ==
    /\ At(c, "owner")
    /\ \E owner \in OwnersFound(call[c].target) :
          \/ /\ MayActOn(call[c].caller, owner)
             /\ Goto(c, "cancel")
             /\ UNCHANGED <<memory, upserts>>
          \/ /\ ~MayActOn(call[c].caller, owner)
             /\ Return(c, Said("refused", None))
    /\ UNCHANGED <<provider, row, unsaved, worker, crashes>>

\* cancel_booking, with the outcomes of book_slot.
CancelNow(c) ==
    /\ At(c, "cancel")
    /\ LET b == call[c].target
           Cancelled == /\ calendar' = [calendar EXCEPT ![b] = "cancelled"]
                        /\ cancelledBy' = [cancelledBy EXCEPT ![b] = @ \cup {call[c].caller}]
       IN  \/ Cancelled /\ Return(c, Said("cancelled", b))
           \/ Cancelled /\ Return(c, Said("outcome_unknown", None))
           \/ UNCHANGED <<calendar, cancelledBy>> /\ Return(c, Said("outcome_unknown", None))
           \/ UNCHANGED <<calendar, cancelledBy>> /\ Return(c, Said("calcom_booking_failed", None))
           \/ MayDrop /\ Cancelled /\ Return(c, Said("calcom_booking_failed", None))
    /\ UNCHANGED <<late, row, unsaved, worker, crashes>>

\* A business without Cal.com: a job, if a worker is configured and the broker
\* takes it.  set_pending comes first; nothing in between is an await.
\* The job carries the request whatever its action.  An enqueue that raised is
\* taken for one that never reached the broker, which is more than .delay says.
ArriveQueued(c) ==
    /\ At(c, "idle") /\ c \in WithJobs
    /\ \E caller \in Agents \cup {Anonymous} :
          \/ /\ Finish(c, caller, Said("refused", None))
             /\ UNCHANGED job
          \/ /\ memory' = [memory EXCEPT ![c] = Complete(
                              Said("refused", None), caller)]
             /\ upserts' = upserts \cup {[op |-> c, record |-> Pending(caller)],
                                         [op |-> c, record |-> memory'[c]]}
             /\ call' = [call EXCEPT ![c].caller = caller, ![c].at = "answered",
                            ![c].receipt = Said("refused", None)]
             /\ UNCHANGED job
          \/ \E action \in Action :
             LET receipt == Said("booking_in_progress", None)
             IN  /\ memory' = [memory EXCEPT ![c] = Complete(receipt, caller)]
                 /\ upserts' = upserts \cup {[op |-> c, record |-> Pending(caller)],
                                             [op |-> c, record |-> memory'[c]]}
                 /\ call' = [call EXCEPT ![c].caller = caller, ![c].action = action,
                                         ![c].at = "answered", ![c].receipt = receipt]
                 /\ job' = [job EXCEPT ![c].at = "queued"]
    /\ UNCHANGED <<provider, row, unsaved, redelivered, crashes>>

----------------------------------------------------------------------------
(* The worker.  Its store is its own: set_executing finds no record there, *)
(* and set_complete's write needs a running event loop, which the task has *)
(* not.  The webhooks were registered in the server's memory, not here.    *)

WorkerStart(c) ==
    /\ job[c].at = "queued" /\ job[c].tries < MaxTries
    /\ job' = [job EXCEPT ![c].at = "running", ![c].tries = @ + 1]
    /\ UNCHANGED <<provider, call, store, redelivered, crashes>>

\* Any failure but an open outcome is stored as the result and tried again.
RetriedEvenUnknown(reason) == reason \in {"calcom_booking_failed", "outcome_unknown"}
Retried(reason) == reason = "calcom_booking_failed"

WorkerResult(c, receipt) ==
    job' = [job EXCEPT ![c].receipt = receipt,
                       ![c].at = IF Retried(receipt.reason) /\ job[c].tries < MaxTries
                                 THEN "queued" ELSE "acking"]

\* No such business, no channel, no slot, or a booking, whatever was asked.
WorkerRuns(c) ==
    /\ job[c].at = "running"
    /\ \/ \E reason \in NothingDone :
             WorkerResult(c, Said(reason, None)) /\ UNCHANGED <<calendar, late>>
       \/ \E receipt \in Receipt :
             BookSlot(<<c, job[c].tries>>, receipt) /\ WorkerResult(c, receipt)
    /\ UNCHANGED <<cancelledBy, call, store, redelivered, crashes>>

\* task_acks_late: the job leaves the queue when the task has returned.
WorkerAcks(c) ==
    /\ job[c].at = "acking"
    /\ job' = [job EXCEPT ![c].at = "done"]
    /\ UNCHANGED <<provider, call, store, redelivered, crashes>>

\* The worker dies with its jobs: the broker delivers them again, which
\* counts as an attempt here.  A booking it asked for may be served.
WorkerCrash ==
    /\ crashes < MaxCrashes
    /\ crashes' = crashes + 1
    /\ LET hit == {c \in Calls : job[c].at \in {"running", "acking"}}
           asked == {<<c, job[c].tries>> : c \in {x \in hit : job[x].at = "running"}}
       IN  /\ redelivered' = redelivered \cup hit
           /\ \E sent \in SUBSET asked : late' = late \cup sent
           /\ job' = [c \in Calls |->
                IF c \in hit THEN [job[c] EXCEPT !.at = "queued"] ELSE job[c]]
    /\ UNCHANGED <<calendar, cancelledBy, call, store>>

----------------------------------------------------------------------------
(* The provider, and crashes of the server.                                *)

BusinessAccepts(b) ==
    /\ calendar[b] = "pending"
    /\ calendar' = [calendar EXCEPT ![b] = "accepted"]
    /\ UNCHANGED <<late, cancelledBy, call, store, worker, crashes>>

LateBooking(b) ==
    /\ b \in late
    /\ late' = late \ {b}
    /\ Holds(b, "accepted")
    /\ UNCHANGED <<cancelledBy, call, store, worker, crashes>>

\* A new process: no records, no writes under way, and no caller answered
\* that was still waiting.  What was asked of the provider may be served.
Crash ==
    /\ crashes < MaxCrashes
    /\ crashes' = crashes + 1
    /\ memory' = [c \in Calls |-> None]
    /\ upserts' = {}
    /\ call' = [c \in Calls |->
                  IF call[c].at \in {"idle", "answered"} THEN call[c]
                  ELSE [call[c] EXCEPT !.at = "answered", !.receipt = None]]
    /\ \E sent \in SUBSET {<<c, 1>> : c \in {x \in Calls : At(x, "book")}} :
          late' = late \cup sent
    /\ \E served \in SUBSET {c \in Calls : At(c, "cancel")} :
          /\ calendar' = [b \in Bookings |->
                IF \E c \in served : call[c].target = b THEN "cancelled" ELSE calendar[b]]
          /\ cancelledBy' = [b \in Bookings |-> cancelledBy[b] \cup
                {call[c].caller : c \in {x \in served : call[x].target = b}}]
    /\ UNCHANGED <<row, unsaved, worker>>

Next ==
    \/ \E c \in Calls :
          \/ ArriveCalcom(c) \/ Inquire(c) \/ BookNow(c) \/ CheckOwner(c) \/ CancelNow(c)
          \/ StoreDurably(c) \/ ArriveQueued(c)
          \/ WorkerStart(c) \/ WorkerRuns(c) \/ WorkerAcks(c)
    \/ \E u \in upserts : Upsert(u)
    \/ \E b \in Bookings : BusinessAccepts(b) \/ LateBooking(b)
    \/ WorkerCrash \/ Crash

Spec == Init /\ [][Next]_vars

----------------------------------------------------------------------------
(* Properties.                                                             *)

\* What a receipt claims of the booking it is about.
TrueOf(receipt, b, action) ==
    receipt # None =>
        /\ receipt.reason = "appointment_confirmed" =>
              calendar[receipt.booking] \in {"accepted", "cancelled"}
        /\ receipt.reason = "booking_pending_provider_confirmation" =>
              calendar[receipt.booking] # "none"
        /\ receipt.reason = "cancelled" => calendar[receipt.booking] = "cancelled"
        /\ receipt.reason \in NothingDone /\ action # "cancel" =>
              calendar[b] = "none" /\ b \notin late

\* The receipt of a call, and the result of a job's last attempt, are true:
\* a confirmed appointment was accepted by the provider, and "nothing was
\* booked" means that the provider neither has nor will get the booking.
ReceiptsAreTrue ==
    \A c \in Calls :
        /\ At(c, "answered") => TrueOf(call[c].receipt, <<c, 1>>,
              IF job[c].at = "none" THEN call[c].action ELSE "cancel")
        /\ job[c].tries > 0 /\ job[c].at \in {"queued", "acking", "done"} /\ c \notin redelivered
              => TrueOf(job[c].receipt, <<c, job[c].tries>>, "book")

\* An outcome that must not be lost is found by any process once the caller
\* was told, unless its write failed: late writes do not replace it.
OutcomesSurvive ==
    \A c \in Calls \ unsaved :
        /\ At(c, "answered") /\ call[c].receipt # None
        /\ call[c].receipt.reason \in Awaited
        => row[c] # None /\ row[c].receipt = call[c].receipt

\* A booking is cancelled only by the agent whose confirmed booking it is.
OnlyOwnersCancel ==
    \A b \in Bookings : \A a \in cancelledBy[b] :
        a \in Agents /\ call[b[1]].caller = a

\* A call books once: an attempt whose outcome is open is not followed by
\* another one, unless the worker died before it could say so.
BookedOnce ==
    \A c \in Calls \ redelivered :
        Cardinality({b \in Bookings : b[1] = c /\ (calendar[b] # "none" \/ b \in late)}) <= 1
=============================================================================

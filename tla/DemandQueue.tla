----------------------------- MODULE DemandQueue -----------------------------
(***************************************************************************)
(* The queue of one business (core/demand_queue.py): requests over its     *)
(* budget wait in a table, are shown to it as one numbered message, the    *)
(* digest, and are decided by its reply.                                   *)
(*                                                                         *)
(* The sweep of the server and the webhook both dispatch digests, without  *)
(* knowing of each other; a step ends at an await.  Every request to the   *)
(* table is bounded in time and its failure swallowed, so a select may     *)
(* read as no rows, and a write may be lost.  Each of these activities is  *)
(* itself bounded, and may be cut off at any await.                        *)
(***************************************************************************)
EXTENDS Naturals, Sequences, FiniteSets

CONSTANTS
    MaxRequests,\* requests to the business over its budget
    Runs,       \* runs of dispatch_digest, each with the digest it may send
    Replies,    \* messages of the business with verdicts
    None,       \* no row, no digest
    MinDigest,  \* MIN_DIGEST_SIZE (2)
    DigestMax,  \* items in a digest (10)
    Lossy       \* may requests to the table fail?

VARIABLES
    ask,      \* ask[r]: where the enqueue of request r stands
    row,      \* row[r]: the row of r in pending_requests
    stale,    \* requests past their time to live
    run,      \* run[d]: where dispatch d stands
    inbox,    \* digests that the business received
    digests,  \* rows of demand_digests, oldest first
    resolved, \* digests whose row says resolved
    reply     \* reply[h]: where the handling of reply h stands

vars == <<ask, row, stale, run, inbox, digests, resolved, reply>>

----------------------------------------------------------------------------
\* Requests are numbered as they come: the least of some is the oldest.
Requests == 1..MaxRequests
Oldest(r, some) == r \in some /\ \A q \in some : r <= q

\* The number of r in a list of these requests, oldest first.
Number(r, these) == Cardinality({q \in these : q <= r})

State == {"queued", "dispatched", "accepted", "declined", "expired"}
Row == [state : State, digest : Runs \cup {None}]
Verdict == {"accepted", "declined"}

\* What is assumed of the constants; the MC module asks TLC.
DemandQueueAssumption ==
    /\ MaxRequests \in Nat /\ None \notin Runs /\ None \notin 1..MaxRequests
    /\ {MinDigest, DigestMax} \subseteq Nat \ {0} /\ MinDigest <= DigestMax
    /\ Lossy \in BOOLEAN /\ None \notin Row

Run == [phase : {"idle", "expiring", "reading", "sending", "recording", "marking", "done"},
        shown : SUBSET Requests,  \* the slice, once rendered
        left : SUBSET Requests]   \* rows that are still to be written

Reply == [phase : {"idle", "arrived", "reading", "deciding", "done"},
          says : SUBSET ((1..DigestMax) \X Verdict),  \* verdicts on numbers
          digest : Runs \cup {None},        \* what it is scored against
          left : SUBSET [request : Requests, verdict : Verdict],
          closes : BOOLEAN]                 \* has it as many answers as items?

Init == /\ ask = [r \in Requests |-> "idle"]
        /\ row = [r \in Requests |-> None]
        /\ stale = {}
        /\ run = [d \in Runs |-> [phase |-> "idle", shown |-> {}, left |-> {}]]
        /\ inbox = {}
        /\ digests = <<>>
        /\ resolved = {}
        /\ reply = [h \in Replies |-> [phase |-> "idle", says |-> {}, digest |-> None,
                                       left |-> {}, closes |-> FALSE]]

----------------------------------------------------------------------------
\* The rows after an upsert of r's state and, if d is one, its digest.  Only
\* rows that were read are written, so the row is there.
Patched(r, state, d) ==
    [row EXCEPT ![r] = [state |-> state, digest |-> IF d = None THEN @.digest ELSE d]]

\* The rows after a bounded, swallowing write.
Written(r, state, d) ==
    \/ row' = Patched(r, state, d)
    \/ Lossy /\ UNCHANGED row

\* The queued rows, or what a failed read is taken for.
Queued == {r \in Requests : row[r] # None /\ row[r].state = "queued"}
Read(rows) == {rows} \cup (IF Lossy THEN {{}} ELSE {})

----------------------------------------------------------------------------
\* enqueue inserts a row and tells its caller that the request is queued,
\* whatever became of the insert.  A repetition of a request that is still
\* queued is answered with the row it finds and changes nothing; it is left
\* out.
Enqueue(r) ==
    /\ ask[r] = "idle" /\ \A q \in Requests : q < r => ask[q] # "idle"
    /\ ask' = [ask EXCEPT ![r] = "queued"]
    /\ \/ row' = [row EXCEPT ![r] = [state |-> "queued", digest |-> None]]
       \/ Lossy /\ UNCHANGED row
    /\ UNCHANGED <<stale, run, inbox, digests, resolved, reply>>

\* The time to live of a request ends.
Age(r) ==
    /\ row[r] # None /\ r \notin stale
    /\ stale' = stale \cup {r}
    /\ UNCHANGED <<ask, row, run, inbox, digests, resolved, reply>>

----------------------------------------------------------------------------
\* dispatch_digest.

\* The rows to expire are read first.
StartRun(d) ==
    /\ run[d].phase = "idle"
    /\ \E rows \in Read(Queued) :
          run' = [run EXCEPT ![d].phase = "expiring",
                             ![d].left = rows \cap stale]
    /\ UNCHANGED <<ask, row, stale, inbox, digests, resolved, reply>>

ExpireOne(d) ==
    /\ run[d].phase = "expiring"
    /\ \E r \in run[d].left :
          /\ Oldest(r, run[d].left)
          /\ Written(r, "expired", None)
          /\ run' = [run EXCEPT ![d].left = @ \ {r}]
    /\ UNCHANGED <<ask, stale, inbox, digests, resolved, reply>>

\* digest_slice: what is rendered of the pending requests.
Slice(pending) == {r \in pending : Number(r, pending) <= DigestMax}

\* The pending rows are read; too few are left to wait.  An opted-out
\* business or one outside the service window is left alone too.
ReadPending(d) ==
    /\ run[d].phase = "expiring" /\ run[d].left = {}
    /\ \E rows \in Read(Queued) :
          LET pending == rows \ stale
          IN \/ /\ Cardinality(pending) >= MinDigest
                /\ run' = [run EXCEPT ![d].phase = "sending", ![d].shown = Slice(pending)]
             \/ run' = [run EXCEPT ![d].phase = "done"]
    /\ UNCHANGED <<ask, row, stale, inbox, digests, resolved, reply>>

\* A digest that is on record whether or not it was sent.
AfterSendRegardless(ok) == "recording"

\* A send that failed is followed by nothing: the requests stay queued.
AfterSend(ok) == IF ok THEN "recording" ELSE "done"

\* The provider delivers the digest, and says so or is not heard, or does not.
\* What it accepts counts as delivered: the code reads no later status.
Send(d) ==
    /\ run[d].phase = "sending"
    /\ \E delivered, ok \in BOOLEAN :
          /\ ok => delivered
          /\ inbox' = IF delivered THEN inbox \cup {d} ELSE inbox
          /\ run' = [run EXCEPT ![d].phase = AfterSend(ok)]
    /\ UNCHANGED <<ask, row, stale, digests, resolved, reply>>

\* The digest's row keeps the slice that was rendered, in its order.
RecordDigest(d) ==
    /\ run[d].phase = "recording"
    /\ \/ digests' = Append(digests, d)
       \/ Lossy /\ UNCHANGED digests
    /\ run' = [run EXCEPT ![d].phase = "marking", ![d].left = run[d].shown]
    /\ UNCHANGED <<ask, row, stale, inbox, resolved, reply>>

\* Its requests are marked, one by one, whatever they have become meanwhile.
MarkOne(d) ==
    /\ run[d].phase = "marking"
    /\ \E r \in run[d].left :
          /\ Oldest(r, run[d].left)
          /\ Written(r, "dispatched", d)
          /\ run' = [run EXCEPT ![d].left = @ \ {r},
                                ![d].phase = IF run[d].left = {r} THEN "done" ELSE @]
    /\ UNCHANGED <<ask, stale, inbox, digests, resolved, reply>>

\* The run exceeds the time that the webhook or the sweep gives it.
CutOff(d) ==
    /\ run[d].phase \notin {"idle", "done"}
    /\ run' = [run EXCEPT ![d].phase = "done", ![d].left = {}]
    /\ UNCHANGED <<ask, row, stale, inbox, digests, resolved, reply>>

----------------------------------------------------------------------------
\* resolve_reply.

\* The business answers some of the items of a digest that it received, and
\* may contradict itself.
BusinessReplies(h) ==
    /\ reply[h].phase = "idle"
    /\ \E d \in inbox :
          \E says \in SUBSET ((1..Cardinality(run[d].shown)) \X Verdict) \ {{}} :
             reply' = [reply EXCEPT ![h].phase = "arrived", ![h].says = says]
    /\ UNCHANGED <<ask, row, stale, run, inbox, digests, resolved>>

\* resolve_reply returns, or is cut off: what it held is gone.
Return(h) ==
    reply' = [reply EXCEPT ![h] = [phase |-> "done", says |-> @.says, digest |-> None,
                                   left |-> {}, closes |-> FALSE]]

\* The newest digest that awaits a reply, if a row says so and is read.
Awaiting == {i \in 1..Len(digests) : digests[i] \notin resolved}

FindDigest(h) ==
    /\ reply[h].phase = "arrived"
    /\ \/ \E i \in Awaiting :
             /\ \A j \in Awaiting : j <= i
             /\ reply' = [reply EXCEPT ![h].phase = "reading", ![h].digest = digests[i]]
       \/ /\ Awaiting = {} \/ Lossy
          /\ Return(h)
    /\ UNCHANGED <<ask, row, stale, run, inbox, digests, resolved>>

\* The number of an item among those whose rows were found.
NumberedClosed(r, d, found) == Number(r, run[d].shown \cap found)

\* The number that the business saw.  A request whose row was not found
\* leaves a hole: those after it keep their numbers.
Numbered(r, d, found) == Number(r, run[d].shown)

\* The verdicts on items that are not holes.
Scored(says, d, found) ==
    {p \in [request : run[d].shown \cap found, verdict : Verdict] :
        <<Numbered(p.request, d, found), p.verdict>> \in says}

ReadItems(h) ==
    /\ reply[h].phase = "reading"
    /\ LET d == reply[h].digest
           marked == {r \in Requests : row[r] # None /\ row[r].digest = d}
       IN \E found \in Read(marked) :
             LET pairs == Scored(reply[h].says, d, found)
             IN IF pairs = {} THEN Return(h)
                ELSE reply' = [reply EXCEPT
                        ![h].phase = "deciding", ![h].left = pairs,
                        ![h].closes = Cardinality(pairs) >= Cardinality(run[d].shown)]
    /\ UNCHANGED <<ask, row, stale, run, inbox, digests, resolved>>

\* The verdicts are written in the order in which the reply gives them.
DecideOne(h) ==
    /\ reply[h].phase = "deciding"
    /\ \E p \in reply[h].left :
          /\ Written(p.request, p.verdict, None)
          /\ reply' = [reply EXCEPT ![h].left = @ \ {p}]
    /\ UNCHANGED <<ask, stale, run, inbox, digests, resolved>>

\* A digest is closed by a reply that has as many answers as it has items.
CloseDigest(h) ==
    /\ reply[h].phase = "deciding" /\ reply[h].left = {}
    /\ \/ resolved' = IF reply[h].closes THEN resolved \cup {reply[h].digest} ELSE resolved
       \/ Lossy /\ UNCHANGED resolved
    /\ Return(h)
    /\ UNCHANGED <<ask, row, stale, run, inbox, digests>>

\* The webhook gives the reply three seconds.
GiveUp(h) ==
    /\ reply[h].phase \in {"reading", "deciding"}
    /\ Return(h)
    /\ UNCHANGED <<ask, row, stale, run, inbox, digests, resolved>>

Next == \/ \E r \in Requests : Enqueue(r) \/ Age(r)
        \/ \E d \in Runs : \/ StartRun(d) \/ ExpireOne(d) \/ ReadPending(d)
                           \/ Send(d) \/ RecordDigest(d) \/ MarkOne(d) \/ CutOff(d)
        \/ \E h \in Replies : \/ BusinessReplies(h) \/ FindDigest(h) \/ ReadItems(h)
                              \/ DecideOne(h) \/ CloseDigest(h) \/ GiveUp(h)

Spec == Init /\ [][Next]_vars

----------------------------------------------------------------------------
TypeOK ==
    /\ ask \in [Requests -> {"idle", "queued"}]
    /\ row \in [Requests -> Row \cup {None}]
    /\ stale \subseteq Requests
    /\ run \in [Runs -> Run]
    /\ inbox \subseteq Runs
    /\ digests \in Seq(Runs)
    /\ resolved \subseteq Runs
    /\ reply \in [Replies -> Reply]

\* A request leaves the queue, other than by its age, only in a digest that
\* the business received: no failed or abandoned send, no lost write and no
\* overlap of two dispatches makes one disappear unseen (dispatch_digest).
OnlyTheSeenLeave ==
    \A r \in Requests : row[r] # None /\ row[r].state \in {"dispatched"} \cup Verdict =>
        \E d \in inbox : r \in run[d].shown

\* A request is decided only by a reply that gave this verdict on its number
\* in a digest that the business received: rows that are missing, because a
\* write was lost or another dispatch took them, never shift the numbers
\* (resolve_reply, parse_digest_reply).
NumbersHold ==
    \A r \in Requests : row[r] # None /\ row[r].state \in Verdict =>
        \E h \in Replies, d \in inbox :
            /\ r \in run[d].shown
            /\ <<Number(r, run[d].shown), row[r].state>> \in reply[h].says
==============================================================================

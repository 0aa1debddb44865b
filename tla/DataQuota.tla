----------------------------- MODULE DataQuota -----------------------------
(***************************************************************************)
(* The daily quota of an anonymous caller of the data tools                *)
(* (billing/data_quota.py and the gate in agent_interface/mcp_server.py):  *)
(* a counter row per address and day in a table, read in one request and   *)
(* written in another, by calls that overlap.  Whatever goes wrong, the    *)
(* call is allowed.                                                        *)
(***************************************************************************)
EXTENDS Naturals, FiniteSets

CONSTANTS
    Callers,        \* calls of one address, that may overlap
    Limit,          \* the advertised number of free calls a day
    Days,           \* bound on the days
    MaxCalls,       \* bound on the calls of a day
    Lossy           \* may a request fail, hang or be served late?

\* What is assumed of the constants; the MC module asks TLC.
DataQuotaAssumption ==
    /\ IsFiniteSet(Callers)
    /\ {Limit, Days, MaxCalls} \subseteq Nat \ {0}
    /\ Lossy \in BOOLEAN

VARIABLES
    today,          \* the UTC day
    counter,        \* counter[b]: the count in bucket b's row, 0 when it has none
    inQuota,        \* inQuota[p]: where call p stands in consume_data_quota
    late,           \* writes given up on, yet to be served
    allowed,        \* allowed[t]: the calls of day t that were let through
    refusals,       \* days on which a call was refused
    disturbed       \* days on which calls overlapped or a request failed

qvars == <<today, counter, inQuota, late, allowed, refusals, disturbed>>

Day == 1..Days
Idle == [at |-> "idle"]
Write == [kind : {"insert", "patch"}, bucket : Day, count : 1..MaxCalls]

TypeOK ==
    /\ today \in Day
    /\ counter \in [Day -> 0..MaxCalls]
    /\ inQuota \in [Callers -> [at : {"select"}, day : Day]
                                \cup [at : {"write"}, day : Day, write : Write] \cup {Idle}]
    /\ late \subseteq Write
    /\ allowed \in [Day -> 0..MaxCalls]
    /\ {refusals, disturbed} \subseteq SUBSET Day

Init ==
    /\ today = 1
    /\ counter = [b \in Day |-> 0]
    /\ inQuota = [p \in Callers |-> Idle]
    /\ late = {}
    /\ allowed = [t \in Day |-> 0]
    /\ refusals = {} /\ disturbed = {}

\* The row of a bucket after a write.  An insert beside a row is rejected.
Served(w) ==
    IF w.kind = "insert" /\ counter[w.bucket] > 0 THEN counter
    ELSE [counter EXCEPT ![w.bucket] = w.count]

\* The bucket is a hash of the address and the day.
Bucket(day) == day

Allow(p, day) ==
    /\ inQuota' = [inQuota EXCEPT ![p] = Idle]
    /\ allowed' = [allowed EXCEPT ![day] = @ + 1]

Midnight ==
    /\ today < Days
    /\ today' = today + 1
    /\ UNCHANGED <<counter, inQuota, late, allowed, refusals, disturbed>>

\* A call takes the day once, before its first await.
Arrive(p) ==
    /\ inQuota[p] = Idle
    /\ allowed[today] + Cardinality({x \in Callers : inQuota[x] # Idle}) < MaxCalls
    /\ inQuota' = [inQuota EXCEPT ![p] = [at |-> "select", day |-> today]]
    /\ disturbed' = IF \E x \in Callers : inQuota[x] # Idle
                    THEN disturbed \cup {today} \cup
                         {inQuota[x].day : x \in {y \in Callers : inQuota[y] # Idle}}
                    ELSE disturbed
    /\ UNCHANGED <<today, counter, late, allowed, refusals>>

ExhaustedEarly(count) == count + 1 >= Limit
Exhausted(count) == count >= Limit
NextCountStuck(count) == IF count = 0 THEN 1 ELSE count
NextCount(count) == count + 1

\* await select_rows, and what the call makes of the row.
Read(p) ==
    /\ inQuota[p].at = "select"
    /\ LET day == inQuota[p].day
           count == counter[Bucket(day)]
       IN  \/ /\ Exhausted(count)
              /\ inQuota' = [inQuota EXCEPT ![p] = Idle]
              /\ refusals' = refusals \cup {day}
           \/ /\ ~Exhausted(count)
              /\ inQuota' = [inQuota EXCEPT ![p] =
                   [at |-> "write", day |-> day,
                    write |-> [kind |-> IF count = 0 THEN "insert" ELSE "patch",
                               bucket |-> Bucket(day), count |-> NextCount(count)]]]
              /\ UNCHANGED refusals
    /\ UNCHANGED <<today, counter, late, allowed, disturbed>>

\* select_rows answers a failure with no rows: an insert follows.
ReadFails(p) ==
    /\ Lossy /\ inQuota[p].at = "select"
    /\ LET day == inQuota[p].day
       IN  /\ inQuota' = [inQuota EXCEPT ![p] =
                [at |-> "write", day |-> day,
                 write |-> [kind |-> "insert", bucket |-> Bucket(day), count |-> 1]]]
           /\ disturbed' = disturbed \cup {day}
    /\ UNCHANGED <<today, counter, late, allowed, refusals>>

\* await the insert or the PATCH.
WriteServed(p) ==
    /\ inQuota[p].at = "write"
    /\ counter' = Served(inQuota[p].write)
    /\ Allow(p, inQuota[p].day)
    /\ UNCHANGED <<today, late, refusals, disturbed>>

\* It fails, or is given up on and may be served later; the call is allowed.
WriteFails(p) ==
    /\ Lossy /\ inQuota[p].at = "write"
    /\ late' \in {late, late \cup {inQuota[p].write}}
    /\ Allow(p, inQuota[p].day)
    /\ disturbed' = disturbed \cup {inQuota[p].day}
    /\ UNCHANGED <<today, counter, refusals>>

LateWrite(w) ==
    /\ w \in late
    /\ late' = late \ {w}
    /\ counter' = Served(w)
    /\ UNCHANGED <<today, inQuota, allowed, refusals, disturbed>>

\* wait_for at the call site gives up after 2.5 s: the call is allowed.
GiveUp(p) ==
    /\ Lossy /\ inQuota[p].at \in {"select", "write"}
    /\ late' \in {late} \cup (IF inQuota[p].at = "write" THEN {late \cup {inQuota[p].write}} ELSE {})
    /\ Allow(p, inQuota[p].day)
    /\ disturbed' = disturbed \cup {inQuota[p].day}
    /\ UNCHANGED <<today, counter, refusals>>

Next ==
    \/ Midnight
    \/ \E p \in Callers :
          Arrive(p) \/ Read(p) \/ ReadFails(p) \/ WriteServed(p) \/ WriteFails(p) \/ GiveUp(p)
    \/ \E w \in late : LateWrite(w)

Spec == Init /\ [][Next]_qvars

----------------------------------------------------------------------------
(* Properties.                                                             *)

\* Nobody is served less than what is advertised: a call is refused only on
\* a day that had its Limit of calls, let through or about to be, whatever
\* writes were lost, late or overwritten.
RefusalsAreDue ==
    \A t \in refusals :
        allowed[t] + Cardinality({p \in Callers : inQuota[p].at = "write" /\ inQuota[p].day = t})
          >= Limit

\* One call after the other, with a table that answers, gets no more.
QuotaHolds ==
    \A t \in Day \ disturbed : allowed[t] <= Limit
============================================================================

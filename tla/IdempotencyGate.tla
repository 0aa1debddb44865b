-------------------------- MODULE IdempotencyGate --------------------------
(***************************************************************************)
(* The retry contract of a write tool called with an idempotency_key.      *)
(*                                                                         *)
(* One (agent scope, tool, key) triple is modelled: triples share no       *)
(* state.  A server process keeps one in-memory record for the triple      *)
(* (storage/idempotency_store.py) and mirrors it, best effort, in the      *)
(* table idempotency_keys.  _h_tools_call claims the triple, runs the tool *)
(* and resolves the claim (agent_interface/idempotency_gate.py).           *)
(*                                                                         *)
(* A step of a process ends where its coroutine awaits: reserve is one     *)
(* step, a durable select is answered by the table in one step and used by *)
(* the process in a later one.                                             *)
(***************************************************************************)
EXTENDS Naturals, FiniteSets

CONSTANTS
    Procs,          \* server processes able to serve the triple
    Calls,          \* clients; each retries with the same key as it likes
    Args,           \* distinguishable argument objects (their hashes)
    UniqueIndex,    \* is idempotency_keys_scope_op_key_uq applied?
    Lossy,          \* may a durable request fail, or time out and land late?
    MayFail,        \* may the tool fail and leave no effect?
    MemoryExpires,  \* does the 24 h TTL of a completed record elapse?
    MaxRuns,        \* bound: no new call once the tool was run this often
    MaxCrashes      \* bound on process crashes

ASSUME FlagsAssumption ==
    {UniqueIndex, Lossy, MayFail, MemoryExpires} \subseteq BOOLEAN

ASSUME BoundsAssumption == MaxRuns \in Nat /\ MaxCrashes \in Nat

VARIABLES
    mem,        \* mem[p]: the record of the triple in process p's store
    rows,       \* the rows of the triple in idempotency_keys
    late,       \* durable writes given up on by their caller, yet to land
    pc,         \* pc[c]: where client c's current call stands
    at,         \* at[c]: the process that serves it
    args,       \* args[c]: its arguments
    seen,       \* seen[c]: the row its durable lookup returned
    run,        \* run[c]: the number of its run of the tool, 0 before
    answer,     \* answer[c]: what the client was told last
    runs,       \* how many times the tool was started
    effects,    \* the runs whose side effect (and charge) took place
    crashes     \* how many process crashes happened

callVars == <<pc, at, args, seen, run, answer>>
vars == <<mem, rows, late, callVars, runs, effects, crashes>>

----------------------------------------------------------------------------
(* Records.  An outcome is {"args_hash", "response"}; a response is known  *)
(* by the run of the tool that produced it.                                *)

Outcome == [args : Args, run : Nat]
NoOutcome == [args |-> "no args", run |-> 0]
OutcomeOrNone == Outcome \cup {NoOutcome}

\* IdempotencyStore._store[key]: absent, or "pending", or "complete".
MemRecord == [status : {"none", "pending", "complete"}, outcome : OutcomeOrNone]
NoRecord == [status |-> "none", outcome |-> NoOutcome]
PendingRecord == [status |-> "pending", outcome |-> NoOutcome]
CompleteRecordMisnamed(o) == [status |-> "completed", outcome |-> o]
CompleteRecord(o) == [status |-> "complete", outcome |-> o]

\* A row of idempotency_keys.  Rows equal in status and response cannot be
\* told apart by a select with limit=1 or a PATCH by key: a set is enough.
Row == [status : {"pending", "released", "complete"}, outcome : OutcomeOrNone]
NoRow == [status |-> "no row", outcome |-> NoOutcome]
PendingRow == [status |-> "pending", outcome |-> NoOutcome]

Insert == [op |-> "insert", status |-> "pending", outcome |-> NoOutcome]
ResolveWithoutHash(s, o) ==
    [op |-> "resolve", status |-> s, outcome |-> [NoOutcome EXCEPT !.run = o.run]]
Resolve(s, o) == [op |-> "resolve", status |-> s, outcome |-> o]
Write == [op : {"insert", "resolve"}, status : {"pending", "released", "complete"},
          outcome : OutcomeOrNone]

Answer == [kind : {"none", "failure", "in_progress", "conflict", "result"},
           outcome : OutcomeOrNone]
Told(k) == [kind |-> k, outcome |-> NoOutcome]
Result(o) == [kind |-> "result", outcome |-> o]

\* A finished outcome as told to a call with arguments a: verbatim, or an
\* idempotency_conflict when the key was used with other arguments.
Replay(o, a) == IF o.args # a THEN Told("conflict") ELSE Result(o)

Phase == {"idle", "lookup", "found", "insert", "executing", "performed",
          "resolving", "answered", "lost"}

\* The phases of a call that owns its process's in-memory claim.
Holding == {"lookup", "found", "insert", "executing", "performed"}
InFlight == Holding \cup {"resolving"}

TypeOK ==
    /\ mem \in [Procs -> MemRecord]
    /\ rows \subseteq Row
    /\ late \subseteq Write
    /\ pc \in [Calls -> Phase]
    /\ at \in [Calls -> Procs]
    /\ args \in [Calls -> Args]
    /\ seen \in [Calls -> Row \cup {NoRow}]
    /\ run \in [Calls -> Nat]
    /\ answer \in [Calls -> Answer]
    /\ runs \in Nat /\ crashes \in Nat
    /\ effects \subseteq Outcome

Init ==
    /\ mem = [p \in Procs |-> NoRecord]
    /\ rows = {} /\ late = {}
    /\ pc = [c \in Calls |-> "idle"]
    /\ at \in [Calls -> Procs]
    /\ args \in [Calls -> Args]
    /\ seen = [c \in Calls |-> NoRow]
    /\ run = [c \in Calls |-> 0]
    /\ answer = [c \in Calls |-> Told("none")]
    /\ runs = 0 /\ effects = {} /\ crashes = 0

----------------------------------------------------------------------------
(* The table.                                                              *)

\* What a write leaves in the table: the unique index rejects a second row
\* of the key; a PATCH by key rewrites every row there is, be it none.
Applied(w) ==
    IF w.op = "insert"
      THEN IF UniqueIndex /\ rows # {} THEN rows ELSE rows \cup {PendingRow}
      ELSE {[status |-> w.status,
             outcome |-> IF w.status = "complete" THEN w.outcome
                                                  ELSE r.outcome] : r \in rows}

\* A best-effort durable write, bounded by _SB_TIMEOUT_S: it lands, or is
\* lost, or outlives its caller's patience and lands at some later moment.
\* Its caller goes on in every case, and never learns which it was.
DurableWrite(w) ==
    \/ rows' = Applied(w) /\ UNCHANGED late
    \/ Lossy /\ UNCHANGED <<rows, late>>
    \/ Lossy /\ late' = late \cup {w} /\ UNCHANGED rows

LateWriteLands(w) ==
    /\ w \in late
    /\ rows' = Applied(w)
    /\ late' = late \ {w}
    /\ UNCHANGED <<mem, callVars, runs, effects, crashes>>

----------------------------------------------------------------------------
(* The handler.                                                            *)

\* IdempotencyStore.reserve: check and claim in one step, without an await.
ReserveIgnoringPending(p) ==
    IF mem[p].status = "complete" THEN "complete" ELSE "claimed"
Reserve(p) ==
    CASE mem[p].status = "none"     -> "claimed"
      [] mem[p].status = "pending"  -> "in_progress"
      [] mem[p].status = "complete" -> "complete"

\* Client c calls, or calls again with the same key, and reaches process p
\* with arguments a: _h_tools_call up to the first await of claim().
Call(c, p, a) ==
    /\ pc[c] \in {"idle", "answered", "lost"}
    /\ runs < MaxRuns
    /\ at' = [at EXCEPT ![c] = p]
    /\ args' = [args EXCEPT ![c] = a]
    /\ run' = [run EXCEPT ![c] = 0]
    /\ seen' = [seen EXCEPT ![c] = NoRow]
    /\ \/ /\ Reserve(p) = "claimed"
          /\ mem' = [mem EXCEPT ![p] = PendingRecord]
          /\ pc' = [pc EXCEPT ![c] = "lookup"]
          /\ answer' = [answer EXCEPT ![c] = Told("none")]
       \/ /\ Reserve(p) = "in_progress"
          /\ pc' = [pc EXCEPT ![c] = "answered"]
          /\ answer' = [answer EXCEPT ![c] = Told("in_progress")]
          /\ UNCHANGED mem
       \/ /\ Reserve(p) = "complete"
          /\ pc' = [pc EXCEPT ![c] = "answered"]
          /\ answer' = [answer EXCEPT ![c] = Replay(mem[p].outcome, a)]
          /\ UNCHANGED mem
    /\ UNCHANGED <<rows, late, runs, effects, crashes>>

\* await _durable_lookup: what the table answers; a failure reads as no row.
LookupReadPendingOnly(c) ==
    /\ pc[c] = "lookup"
    /\ seen' = [seen EXCEPT ![c] = IF PendingRow \in rows THEN PendingRow ELSE NoRow]
    /\ pc' = [pc EXCEPT ![c] = "found"]
    /\ UNCHANGED <<mem, rows, late, at, args, run, answer, runs, effects, crashes>>
LookupRead(c) ==
    /\ pc[c] = "lookup"
    /\ \/ \E r \in rows : seen' = [seen EXCEPT ![c] = r]
       \/ (rows = {} \/ Lossy) /\ seen' = [seen EXCEPT ![c] = NoRow]
    /\ pc' = [pc EXCEPT ![c] = "found"]
    /\ UNCHANGED <<mem, rows, late, at, args, run, answer, runs, effects, crashes>>

\* The row is complete: adopt it in memory and replay it.
ReplayDurable(c) ==
    /\ pc[c] = "found" /\ seen[c].status = "complete"
    /\ mem' = [mem EXCEPT ![at[c]] = CompleteRecord(seen[c].outcome)]
    /\ pc' = [pc EXCEPT ![c] = "answered"]
    /\ answer' = [answer EXCEPT ![c] = Replay(seen[c].outcome, args[c])]
    /\ UNCHANGED <<rows, late, at, args, seen, run, runs, effects, crashes>>

\* IdempotencyStore.release at process p: drops a pending record only.
StoreRelease(p) ==
    mem' = IF mem[p].status = "pending" THEN [mem EXCEPT ![p] = NoRecord]
                                        ELSE mem

\* The row is pending: give the in-memory claim up and refuse to execute.
RefuseDurableKeepingClaim(c) ==
    /\ pc[c] = "found" /\ seen[c].status = "pending"
    /\ pc' = [pc EXCEPT ![c] = "answered"]
    /\ answer' = [answer EXCEPT ![c] = Told("in_progress")]
    /\ UNCHANGED <<mem, rows, late, at, args, seen, run, runs, effects, crashes>>
RefuseDurable(c) ==
    /\ pc[c] = "found" /\ seen[c].status = "pending"
    /\ StoreRelease(at[c])
    /\ pc' = [pc EXCEPT ![c] = "answered"]
    /\ answer' = [answer EXCEPT ![c] = Told("in_progress")]
    /\ UNCHANGED <<rows, late, at, args, seen, run, runs, effects, crashes>>

\* No row, or one released by a failed attempt: fall through to the claim.
FallThroughPending(c) ==
    /\ pc[c] = "found" /\ seen[c].status # "complete"
    /\ pc' = [pc EXCEPT ![c] = "insert"]
    /\ UNCHANGED <<mem, rows, late, at, args, seen, run, answer, runs, effects,
                   crashes>>
FallThrough(c) ==
    /\ pc[c] = "found" /\ seen[c].status \notin {"complete", "pending"}
    /\ pc' = [pc EXCEPT ![c] = "insert"]
    /\ UNCHANGED <<mem, rows, late, at, args, seen, run, answer, runs, effects,
                   crashes>>

\* await _durable_claim, whose verdict is dropped, then the tool is started.
DurableClaim(c) ==
    /\ pc[c] = "insert"
    /\ DurableWrite(Insert)
    /\ runs' = runs + 1
    /\ run' = [run EXCEPT ![c] = runs + 1]
    /\ pc' = [pc EXCEPT ![c] = "executing"]
    /\ UNCHANGED <<mem, at, args, seen, answer, effects, crashes>>

\* The tool takes its effect in the world (and is charged for).
Perform(c) ==
    /\ pc[c] = "executing"
    /\ effects' = effects \cup {[args |-> args[c], run |-> run[c]]}
    /\ pc' = [pc EXCEPT ![c] = "performed"]
    /\ UNCHANGED <<mem, rows, late, at, args, seen, run, answer, runs, crashes>>

\* The tool raised or answered isError: release() up to its await.  Here that
\* says that it had no effect; the errors that x402 answers after an effect are
\* in ToolsCall.
Release(c) ==
    /\ MayFail
    /\ pc[c] = "executing"
    /\ StoreRelease(at[c])
    /\ pc' = [pc EXCEPT ![c] = "resolving"]
    /\ answer' = [answer EXCEPT ![c] = Told("failure")]
    /\ UNCHANGED <<rows, late, at, args, seen, run, runs, effects, crashes>>

\* The tool answered: complete() up to its await.
Complete(c) ==
    LET o == [args |-> args[c], run |-> run[c]] IN
    /\ pc[c] = "performed"
    /\ mem' = [mem EXCEPT ![at[c]] = CompleteRecord(o)]
    /\ pc' = [pc EXCEPT ![c] = "resolving"]
    /\ answer' = [answer EXCEPT ![c] = Result(o)]
    /\ UNCHANGED <<rows, late, at, args, seen, run, runs, effects, crashes>>

\* await _durable_resolve, then the response leaves for the client.
DurableResolve(c) ==
    /\ pc[c] = "resolving"
    /\ IF answer[c].kind = "result"
         THEN DurableWrite(Resolve("complete", answer[c].outcome))
         ELSE DurableWrite(Resolve("released", NoOutcome))
    /\ pc' = [pc EXCEPT ![c] = "answered"]
    /\ UNCHANGED <<mem, at, args, seen, run, answer, runs, effects, crashes>>

----------------------------------------------------------------------------
(* The environment.                                                        *)

\* 24 h after its claim a completed record counts as absent.  A pending one
\* is bound to a request, and no request lasts that long.
Expire(p) ==
    /\ MemoryExpires
    /\ mem[p].status = "complete"
    /\ mem' = [mem EXCEPT ![p] = NoRecord]
    /\ UNCHANGED <<rows, late, callVars, runs, effects, crashes>>

\* Process p dies and comes back with an empty store; its calls get no answer.
Crash(p) ==
    LET dead == {c \in Calls : at[c] = p /\ pc[c] \in InFlight} IN
    /\ crashes < MaxCrashes
    /\ crashes' = crashes + 1
    /\ mem' = [mem EXCEPT ![p] = NoRecord]
    /\ pc' = [c \in Calls |-> IF c \in dead THEN "lost" ELSE pc[c]]
    /\ answer' = [c \in Calls |-> IF c \in dead THEN Told("none") ELSE answer[c]]
    /\ UNCHANGED <<rows, late, at, args, seen, run, runs, effects>>

\* The steps a live process owes to a call it serves.
Serve(c) ==
    \/ LookupRead(c) \/ ReplayDurable(c) \/ RefuseDurable(c) \/ FallThrough(c)
    \/ DurableClaim(c) \/ Perform(c) \/ Release(c) \/ Complete(c)
    \/ DurableResolve(c)

Next ==
    \/ \E c \in Calls, p \in Procs, a \in Args : Call(c, p, a)
    \/ \E c \in Calls : Serve(c)
    \/ \E w \in late : LateWriteLands(w)
    \/ \E p \in Procs : Expire(p) \/ Crash(p)

Spec == Init /\ [][Next]_vars

\* Every await on the way is bounded by a timeout and the tool returns or
\* raises, so a request under way goes on; clients and the table owe nothing.
FairSpec == Spec /\ \A c \in Calls : WF_vars(Serve(c))

----------------------------------------------------------------------------
(* Properties.                                                             *)

\* Whoever owns a process's in-memory claim owns it alone and finds it
\* pending until it resolves it: reserve() lets no second call through and
\* nobody else's complete() or release() takes the claim away.
OneHolderPerProcess ==
    \A c \in Calls : pc[c] \in Holding =>
        /\ mem[at[c]].status = "pending"
        /\ \A d \in Calls : pc[d] \in Holding /\ at[d] = at[c] => d = c

\* The retry contract: no matter how often a client retries with the key,
\* the tool's side effect (and charge) happens at most once.
AtMostOneEffect == \A o1, o2 \in effects : o1 = o2

\* The contract that the gate keeps; what the effect costs is not its concern.
Contract == INSTANCE RetryContract WITH
    Clients <- Calls,
    Effects <- Outcome,
    Prices <- {},
    done <- effects,
    billed <- {},
    paid <- 0,
    told <- [c \in Calls |->
               IF answer[c].kind = "result" THEN {answer[c].outcome} ELSE {}]

\* Seen from outside, through restarts and expiry, every step of the gate is
\* one of the contract's or none: the key takes its one effect, and a client
\* is told its result or nothing.
KeepsContract == Contract!Spec

\* What a client is told is true of the world: a result is that of a run
\* that took effect, with the client's own arguments; a conflict means a run
\* with other arguments took effect.  Claims, table rows, restarts and late
\* writes in between never turn one into the other.
AnswersAreTrue ==
    \A c \in Calls :
        /\ answer[c].kind = "result" =>
              answer[c].outcome \in effects /\ answer[c].outcome.args = args[c]
        /\ answer[c].kind = "conflict" =>
              \E o \in effects : o.args # args[c]

\* An in-memory claim is never leaked: each pending record is eventually
\* completed, released or gone with its process, on every path through
\* claim() and _h_tools_call.
ClaimsSettle ==
    \A p \in Procs : mem[p].status = "pending" ~> mem[p].status # "pending"
============================================================================

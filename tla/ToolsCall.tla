----------------------------- MODULE ToolsCall -----------------------------
(***************************************************************************)
(* tools/call of a write tool with an idempotency key, as a whole: the     *)
(* idempotency gate around the billing rail around the tool                *)
(* (_h_tools_call and _h_tools_call_impl in agent_interface/mcp_server.py, *)
(* run_metered_tool in billing/credits.py, run_paid_tool in                *)
(* billing/x402_gate.py).                                                  *)
(*                                                                         *)
(* IdempotencyGate decides whether a call runs the tool; each run is paid  *)
(* for in one of three ways, the credits way being MeteredTool: its Calls  *)
(* are the runs of the tool here, its pc tells where the billing of a run  *)
(* stands, and its Lossy is about the rpcs of this rail.  One server       *)
(* process that stays up is modelled: what its death does to a claim and   *)
(* to a hold is in those two modules.                                      *)
(***************************************************************************)
EXTENDS MeteredTool

CONSTANTS
    Clients,        \* clients that retry with the key
    Args,           \* distinguishable argument objects
    MaxRuns,        \* bound on the runs of the tool
    GateLossy,      \* may a request to idempotency_keys fail or come late?
    Price           \* what a call costs over x402

ASSUME ToolsCallAssumption ==
    /\ MaxRuns \in Nat /\ Calls = 1..MaxRuns
    /\ GateLossy \in BOOLEAN /\ Price \in Nat \ {0}

Proc == "p"

VARIABLES
    mem, rows, late, stage, at, args, seen, run, answer, runs, effects,
    rail,           \* rail[r]: how run r is paid for
    settled,        \* runs whose x402 payment was settled
    unsettled,      \* x402 runs that took effect and were answered as errors
    unresolved      \* runs whose receipt leaves open what came of them

G == INSTANCE IdempotencyGate WITH
        Calls <- Clients, pc <- stage, Procs <- {Proc}, UniqueIndex <- TRUE,
        Lossy <- GateLossy, MayFail <- TRUE, MemoryExpires <- FALSE

railVars == <<rail, settled, unsettled, unresolved>>
\* No process dies: crashes stays what it is.
gateVars == <<mem, rows, late, stage, at, args, seen, run, answer, runs, effects>>
toolsVars == <<gateVars, vars, railVars>>

Rails == {"credits", "x402", "free"}

ToolsTypeOK ==
    /\ G!TypeOK
    /\ TypeOK
    /\ rail \in [Calls -> Rails \cup {"none"}]
    /\ {settled, unsettled, unresolved} \subseteq SUBSET Calls

ToolsInit ==
    /\ G!Init
    /\ Init
    /\ rail = [r \in Calls |-> "none"]
    /\ settled = {} /\ unsettled = {} /\ unresolved = {}

Rail(c) == rail[run[c]]
Running(c) == stage[c] \in {"executing", "performed"}

\* Two tests of a receipt.  _receipt_is_error, which decides about the hold and
\* about the settlement, counts pending_async, partial and unknown as errors;
ReceiptIsError(c) == stage[c] = "executing" \/ run[c] \in unresolved
\* isError, which the gate goes by, is that test over x402 only; on the other
\* rails it is the status "failure", of a tool that did nothing.
IsError(c) == stage[c] = "executing" \/ (Rail(c) = "x402" /\ run[c] \in unresolved)

\* The billing of a run has come to its answer.
Billed(c) == Rail(c) = "credits" => pc[run[c]] = "answered"

----------------------------------------------------------------------------
\* The steps of the gate before and after the run of the tool.
Gate(c) ==
    /\ \/ \E a \in Args : G!Call(c, Proc, a)
       \/ G!LookupRead(c) \/ G!ReplayDurable(c) \/ G!RefuseDurable(c) \/ G!FallThrough(c)
       \/ G!DurableResolve(c)
    /\ UNCHANGED <<vars, railVars>>

\* claim() returns "claimed"; _h_tools_call_impl picks the rail: x402 if a
\* payment is offered, else credits for a funded key, else the free quota.
Start(c) ==
    /\ G!DurableClaim(c)
    /\ \E b \in Rails :
          /\ rail' = [rail EXCEPT ![runs + 1] = b]
          /\ IF b = "credits" THEN Arrive(runs + 1) ELSE UNCHANGED vars
    /\ UNCHANGED <<settled, unsettled, unresolved>>

\* The steps of run_metered_tool around the tool.
Meter(c) ==
    /\ Running(c) /\ Rail(c) = "credits"
    /\ LET r == run[c]
       IN  \/ FindAccount(r) \/ MissAccount(r) \/ Granted(r)
           \/ BillingUnavailable(r) \/ InsufficientCredits(r) \/ StartTool(r)
           \/ ~ReceiptIsError(c) /\ ToolSucceeds(r)
           \/ ReceiptIsError(c) /\ ToolFails(r)
           \/ stage[c] = "executing" /\ ToolRaises(r)
           \/ FailedAnswered(r) \/ RaisedAnswered(r) \/ Committed(r)
           \/ CommitFailed(r) \/ Undone(r)
    /\ UNCHANGED <<gateVars, railVars>>

\* The tool takes its effect: on the credits rail once its hold is confirmed,
\* over x402 once the payment is verified.  Its receipt may leave open whether
\* it did: a worker has the job (pending_async), the slot is only held
\* (partial), or the provider did not say (unknown).  Such a run counts as an
\* effect whatever came of it.
Perform(c) ==
    /\ stage[c] = "executing"
    /\ Rail(c) = "credits" => pc[run[c]] = "executing"
    /\ G!Perform(c)
    /\ unresolved' \in {unresolved, unresolved \cup {run[c]}}
    /\ UNCHANGED <<vars, rail, settled, unsettled>>

\* x402 settles a success that costs something; a success that costs nothing
\* is verified and never settled.
Settle(c) ==
    /\ stage[c] = "performed" /\ Rail(c) = "x402" /\ ~ReceiptIsError(c)
    /\ run[c] \notin settled
    /\ settled' = settled \cup {run[c]}
    /\ UNCHANGED <<gateVars, vars, rail, unsettled, unresolved>>

\* The response is no error.  On the credits and the free rail it may be one
\* that leaves the outcome open: the hold is back, the key complete.
Complete(c) ==
    /\ stage[c] = "performed" /\ Billed(c) /\ ~IsError(c)
    /\ G!Complete(c)
    /\ UNCHANGED <<vars, railVars>>

\* An error without an effect: no funds, no billing, no quota, a payment that
\* does not verify, or a tool that failed or raised.  A tool that raises is
\* taken to have done nothing.
Release(c) ==
    /\ stage[c] = "executing" /\ Billed(c)
    /\ G!Release(c)
    /\ UNCHANGED <<vars, railVars>>

\* x402 answers with an error although the tool took effect, because its
\* receipt leaves the outcome open or because the settlement failed (the SDK
\* then has an error of its own): the gate releases the key all the same.
ReleaseUnsettled(c) ==
    /\ stage[c] = "performed" /\ Rail(c) = "x402" /\ run[c] \notin settled
    /\ unsettled' = unsettled \cup {run[c]}
    /\ G!StoreRelease(Proc)
    /\ stage' = [stage EXCEPT ![c] = "resolving"]
    /\ answer' = [answer EXCEPT ![c] = G!Told("failure")]
    /\ UNCHANGED <<rows, late, at, args, seen, run, runs, effects, vars, rail,
                   settled, unresolved>>

\* The tables: late writes, requests of the credits rail, and a paid order.
Environment ==
    \/ (\E w \in late : G!LateWriteLands(w)) /\ UNCHANGED <<vars, railVars>>
    \/ ((\E q \in net : Serve(q)) \/ OrderPaid) /\ UNCHANGED <<gateVars, railVars>>

ToolStep(c) ==
    Start(c) \/ Meter(c) \/ Perform(c) \/ Settle(c) \/ Complete(c) \/ Release(c)
    \/ ReleaseUnsettled(c)

ToolsNext ==
    \/ \E c \in Clients : Gate(c) \/ ToolStep(c)
    \/ Environment

ToolsSpec == ToolsInit /\ [][ToolsNext]_toolsVars

----------------------------------------------------------------------------
(* Properties.                                                             *)

\* What the key was charged: commits of the ledger and settled payments.
Charged ==
    MapThenSumSet(LAMBDA r : Charge(r), {r \in Calls : Has("commit", r)})
    + Price * Cardinality(settled)

Contract == INSTANCE RetryContract WITH
    Effects <- [args : Args, run : Calls],
    Prices <- 0..(MaxHold + Price),
    done <- {o \in effects : o.run \notin unsettled},
    billed <- {o \in effects : Has("commit", o.run) \/ o.run \in settled},
    paid <- Charged,
    told <- [c \in Clients |->
               IF answer[c].kind = "result" THEN {answer[c].outcome} ELSE {}]

\* The whole handler keeps the contract of a key: whatever requests of either
\* table are lost or late, whichever rail each attempt takes and however it
\* fails, one effect stands, it is charged once, and clients are told of it.
\* What x402 answered with an error after the effect is written off: such an
\* effect is never charged and nobody is told of it, but it may be repeated
\* (see NoSecondEffect).
KeepsContract == Contract!Spec

\* A call that is told that it failed is charged nothing; where the ledger did
\* not confirm that, the release of its hold is still on its way, or the
\* reservation was never confirmed.  And it took no effect, unless x402
\* answered for it: there, and only there, an unpaid effect is told as a failure.
FailuresAreFree ==
    \A c \in Clients :
        answer[c].kind = "failure" /\ run[c] > 0 =>
            /\ run[c] \notin settled
            /\ Rail(c) = "credits" =>
                  \/ Charge(run[c]) = 0
                  \/ /\ ~confirmed[run[c]]
                     /\ \/ [fn |-> "release", call |-> run[c]] \in net
                        \/ verdict[run[c]] = "unavailable"
            /\ \A o \in effects : o.run = run[c] =>
                  Rail(c) = "x402" /\ run[c] \in unsettled

\* "Replay -> the ORIGINAL response verbatim (no re-execution, no second side
\* effect ...)", on "every billing branch" (_h_tools_call): a retry repeats no
\* effect, whatever was answered for it, a failed settlement excepted.
NoSecondEffect ==
    LET unpaid == unsettled \ unresolved
    IN  \A o1, o2 \in effects : {o1.run, o2.run} \cap unpaid = {} => o1 = o2
============================================================================

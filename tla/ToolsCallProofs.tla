--------------------------- MODULE ToolsCallProofs ---------------------------
(***************************************************************************)
(* What holds of tools/call as a whole, for any number of clients, runs    *)
(* and argument objects, any prices, and two tables that lose and delay.   *)
(***************************************************************************)
EXTENDS ToolsCall, MeteredToolProofs

(***************************************************************************)
(* The gate inside the handler.  Most of its steps are those of            *)
(* IdempotencyGate; x402's release of a key after its effect is not.       *)
(***************************************************************************)

RailType ==
    /\ rail \in [Calls -> Rails \cup {"none"}]
    /\ {settled, unsettled, unresolved} \subseteq SUBSET Calls

LEMMA GateRecords ==
    /\ G!NoRecord \in G!MemRecord /\ G!PendingRecord \in G!MemRecord
    /\ \A o \in G!OutcomeOrNone :
          G!CompleteRecord(o) \in G!MemRecord /\ G!Result(o) \in G!Answer
    /\ \A k \in {"none", "failure", "in_progress", "conflict"} : G!Told(k) \in G!Answer
    /\ \A o \in G!OutcomeOrNone, a \in Args : G!Replay(o, a) \in G!Answer
    /\ G!Insert \in G!Write
    /\ \A s \in {"released", "complete"}, o \in G!OutcomeOrNone : G!Resolve(s, o) \in G!Write
    /\ G!NoOutcome \in G!OutcomeOrNone
BY DEF G!NoRecord, G!PendingRecord, G!CompleteRecord, G!MemRecord, G!Result, G!Told,
       G!Answer, G!Replay, G!Insert, G!Resolve, G!Write, G!NoOutcome,
       G!OutcomeOrNone, G!Outcome

\* A write leaves a well-formed table behind.
LEMMA GateApplied ==
    ASSUME rows \subseteq G!Row, NEW w \in G!Write
    PROVE  G!Applied(w) \subseteq G!Row
<1>1. w.status \in {"pending", "released", "complete"} /\ w.outcome \in G!OutcomeOrNone
  BY DEF G!Write
<1>2. G!PendingRow \in G!Row
  BY DEF G!PendingRow, G!Row, G!OutcomeOrNone
<1>3. ASSUME NEW r \in rows
      PROVE  [status |-> w.status,
              outcome |-> IF w.status = "complete" THEN w.outcome ELSE r.outcome] \in G!Row
  <2>1. r.outcome \in G!OutcomeOrNone
    BY DEF G!Row
  <2> QED BY <1>1, <2>1 DEF G!Row
<1>4. CASE w.op = "insert"
  BY <1>2, <1>4 DEF G!Applied
<1>5. CASE w.op # "insert"
  BY <1>3, <1>5 DEF G!Applied
<1> QED BY <1>4, <1>5

LEMMA GateWritten ==
    ASSUME rows \subseteq G!Row, late \subseteq G!Write, NEW w \in G!Write, G!DurableWrite(w)
    PROVE  rows' \subseteq G!Row /\ late' \subseteq G!Write
BY GateApplied DEF G!DurableWrite

\* The billing of a run leaves the count of crashes alone.
LEMMA MeterCrashes ==
    ASSUME NEW c \in Clients, Meter(c)
    PROVE  crashes' = crashes
BY DEF Meter, FindAccount, MissAccount, Granted, BillingUnavailable, InsufficientCredits,
       StartTool, ToolSucceeds, ToolFails, FailedAnswered,
       ToolRaises, RaisedAnswered, Committed, CommitFailed, Undone

LEMMA ServeCrashes ==
    ASSUME (\E q \in net : Serve(q)) \/ OrderPaid
    PROVE  crashes' = crashes
BY DEF Serve, OrderPaid

\* The steps of the handler, as seen by the gate.
LEMMA GateTypeStep ==
    ASSUME G!TypeOK, [ToolsNext]_toolsVars
    PROVE  G!TypeOK'
<1> USE GateRecords DEF G!TypeOK
<1>1. ASSUME NEW c \in Clients, NEW a \in Args, G!Call(c, Proc, a)
      PROVE  G!TypeOK'
  <2>1. mem[Proc].outcome \in G!OutcomeOrNone
    BY DEF G!MemRecord
  <2>2. stage' \in [Clients -> G!Phase]
    BY <1>1 DEF G!Call, G!Phase
  <2>3. mem' \in [{Proc} -> G!MemRecord]
    BY <1>1 DEF G!Call
  <2>4. answer' \in [Clients -> G!Answer]
    BY <1>1, <2>1 DEF G!Call
  <2> QED BY <1>1, <2>2, <2>3, <2>4 DEF G!Call
<1>2. ASSUME NEW c \in Clients, G!LookupRead(c) PROVE G!TypeOK'
  BY <1>2 DEF G!LookupRead, G!Phase
<1>3. ASSUME NEW c \in Clients, G!ReplayDurable(c) PROVE G!TypeOK'
  <2>1. G!NoRow.status # "complete"
    BY DEF G!NoRow
  <2>2. seen[c] \in G!Row
    BY <1>3, <2>1 DEF G!ReplayDurable
  <2>3. seen[c].outcome \in G!OutcomeOrNone
    BY <2>2 DEF G!Row
  <2> QED BY <1>3, <2>3 DEF G!ReplayDurable, G!Phase
<1>4. ASSUME NEW c \in Clients, G!RefuseDurable(c) PROVE G!TypeOK'
  BY <1>4 DEF G!RefuseDurable, G!StoreRelease, G!Phase
<1>5. ASSUME NEW c \in Clients, G!FallThrough(c) PROVE G!TypeOK'
  BY <1>5 DEF G!FallThrough, G!Phase
<1>6. ASSUME NEW c \in Clients, G!DurableClaim(c) PROVE G!TypeOK'
  <2>1. rows' \subseteq G!Row /\ late' \subseteq G!Write
    BY <1>6, GateWritten DEF G!DurableClaim
  <2> QED BY <1>6, <2>1 DEF G!DurableClaim, G!Phase
<1>7. ASSUME NEW c \in Clients, G!Perform(c) PROVE G!TypeOK'
  BY <1>7 DEF G!Perform, G!Phase, G!Outcome
<1>8. ASSUME NEW c \in Clients, G!Release(c) PROVE G!TypeOK'
  BY <1>8 DEF G!Release, G!StoreRelease, G!Phase
<1>9. ASSUME NEW c \in Clients, G!Complete(c) PROVE G!TypeOK'
  <2>1. [args |-> args[c], run |-> run[c]] \in G!OutcomeOrNone
    BY DEF G!OutcomeOrNone, G!Outcome
  <2> QED BY <1>9, <2>1 DEF G!Complete, G!Phase
<1>10. ASSUME NEW c \in Clients, G!DurableResolve(c) PROVE G!TypeOK'
  <2>1. answer[c].outcome \in G!OutcomeOrNone
    BY DEF G!Answer
  <2>2. rows' \subseteq G!Row /\ late' \subseteq G!Write
    BY <1>10, <2>1, GateWritten DEF G!DurableResolve
  <2> QED BY <1>10, <2>2 DEF G!DurableResolve, G!Phase
<1>11. ASSUME NEW w \in late, G!LateWriteLands(w) PROVE G!TypeOK'
  BY <1>11, GateApplied DEF G!LateWriteLands, G!callVars
<1>12. ASSUME NEW c \in Clients, ReleaseUnsettled(c) PROVE G!TypeOK'
  BY <1>12 DEF ReleaseUnsettled, G!StoreRelease, G!Phase, vars
<1>13. ASSUME UNCHANGED gateVars, crashes' = crashes PROVE G!TypeOK'
  BY <1>13 DEF gateVars
<1>14. ASSUME NEW c \in Clients, Gate(c) PROVE G!TypeOK'
  BY <1>14, <1>1, <1>2, <1>3, <1>4, <1>5, <1>10 DEF Gate
<1>15. ASSUME NEW c \in Clients, ToolStep(c) PROVE G!TypeOK'
  <2>1. CASE Start(c) \/ Perform(c) \/ Complete(c) \/ Release(c)
    BY <2>1, <1>6, <1>7, <1>8, <1>9 DEF Start, Perform, Complete, Release
  <2>2. CASE Meter(c)
    BY <2>2, <1>13, MeterCrashes DEF Meter
  <2>3. CASE Settle(c)
    BY <2>3, <1>13 DEF Settle, vars
  <2> QED BY <1>15, <2>1, <2>2, <2>3, <1>12 DEF ToolStep
<1>16. CASE Environment
  <2>1. CASE \E w \in late : G!LateWriteLands(w)
    BY <2>1, <1>11
  <2>2. CASE ((\E q \in net : Serve(q)) \/ OrderPaid) /\ UNCHANGED gateVars
    BY <2>2, <1>13, ServeCrashes
  <2> QED BY <1>16, <2>1, <2>2 DEF Environment
<1>17. CASE UNCHANGED toolsVars
  BY <1>17, <1>13 DEF toolsVars, vars
<1> QED BY <1>14, <1>15, <1>16, <1>17 DEF ToolsNext

-----------------------------------------------------------------------------
(* Who owns the claim, and the numbers of the runs.                        *)

\* The owner of the claim owns it alone, and finds it pending.
HolderInv ==
    \A c \in Clients : stage[c] \in G!Holding =>
        /\ mem[Proc].status = "pending"
        /\ \A d \in Clients : stage[d] \in G!Holding => d = c

\* A run is that of one call, and is counted; a call on its way to the tool
\* came while the bound allowed for one run more.
RunsInv ==
    /\ runs <= MaxRuns
    /\ \A c \in Clients :
          /\ run[c] <= runs
          /\ stage[c] \in {"lookup", "found", "insert"} => runs < MaxRuns
          /\ Running(c) => run[c] > 0
    /\ \A c, d \in Clients : run[c] > 0 /\ run[c] = run[d] => c = d
    /\ \A o \in effects : 0 < o.run /\ o.run <= runs
    /\ settled \subseteq 1..runs

GateInv == G!TypeOK /\ HolderInv /\ RunsInv

\* Steps that leave the record alone and let nobody start to hold the claim.
LEMMA HoldersStay ==
    ASSUME HolderInv, mem' = mem,
           \A c \in Clients : stage'[c] \in G!Holding => stage[c] \in G!Holding
    PROVE  HolderInv'
BY DEF HolderInv, Proc

\* The holder gives its claim up, whatever becomes of the record.
LEMMA HolderGone ==
    ASSUME HolderInv, G!TypeOK, NEW c \in Clients, stage[c] \in G!Holding,
           NEW x, x \notin G!Holding, stage' = [stage EXCEPT ![c] = x]
    PROVE  HolderInv'
<1> SUFFICES ASSUME NEW d \in Clients, stage'[d] \in G!Holding PROVE FALSE
  BY DEF HolderInv
<1>1. d # c /\ stage[d] \in G!Holding
  BY DEF G!TypeOK
<1> QED BY <1>1 DEF HolderInv

\* Steps that start no run, and let no call past the bound.
LEMMA RunsStay ==
    ASSUME RunsInv, run' = run, runs' = runs, effects' = effects, settled' = settled,
           \A c \in Clients :
              /\ stage'[c] \in {"lookup", "found", "insert"} =>
                    stage[c] \in {"lookup", "found", "insert"}
              /\ stage'[c] \in {"executing", "performed"} => Running(c)
    PROVE  RunsInv'
BY DEF RunsInv, Running

\* A call that ends, or moves on before it reaches the tool.
LEMMA StageMoves ==
    ASSUME GateInv, NEW c \in Clients, NEW x, stage' = [stage EXCEPT ![c] = x],
           run' = run, runs' = runs, effects' = effects, settled' = settled,
           \/ x \in {"answered", "resolving"}
           \/ stage[c] \in {"lookup", "found"} /\ x \in {"found", "insert"}
    PROVE  RunsInv'
<1>1. \A d \in Clients : stage'[d] = IF d = c THEN x ELSE stage[d]
  BY DEF GateInv, G!TypeOK
<1> QED BY <1>1, RunsStay DEF GateInv, Running

\* The steps of the gate keep the claim exclusive and the runs apart.
LEMMA GateStep ==
    ASSUME GateInv, NEW c \in Clients, Gate(c)
    PROVE  HolderInv' /\ RunsInv'
<1> USE DEF GateInv
<1>1. settled' = settled
  BY DEF Gate, railVars
<1>2. ASSUME NEW a \in Args, G!Call(c, Proc, a) PROVE HolderInv' /\ RunsInv'
  <2>1. /\ stage[c] \in {"idle", "answered", "lost"} /\ stage[c] \notin G!Holding
        /\ runs < MaxRuns /\ runs' = runs /\ effects' = effects
        /\ run' = [run EXCEPT ![c] = 0]
    BY <1>2 DEF G!Call, G!Holding
  <2>2. \/ /\ G!Reserve(Proc) = "claimed"
           /\ mem' = [mem EXCEPT ![Proc] = G!PendingRecord]
           /\ stage' = [stage EXCEPT ![c] = "lookup"]
        \/ mem' = mem /\ stage' = [stage EXCEPT ![c] = "answered"]
    BY <1>2 DEF G!Call
  <2>3. \A d \in Clients :
           /\ d # c => stage'[d] = stage[d] /\ run'[d] = run[d]
           /\ stage'[c] \in {"lookup", "answered"} /\ run'[c] = 0
    BY <2>1, <2>2 DEF G!TypeOK
  <2>4. RunsInv'
    BY <1>1, <2>1, <2>3 DEF RunsInv, Running, G!TypeOK
  <2>5. CASE G!Reserve(Proc) = "claimed" /\ mem' = [mem EXCEPT ![Proc] = G!PendingRecord]
    <3>1. mem[Proc].status = "none"
      BY <2>5 DEF G!Reserve, G!TypeOK, G!MemRecord
    <3>2. \A d \in Clients : stage[d] \notin G!Holding
      BY <3>1 DEF HolderInv
    <3>3. mem'[Proc].status = "pending"
      BY <2>5 DEF G!TypeOK, G!PendingRecord
    <3> QED BY <2>3, <2>4, <3>2, <3>3 DEF HolderInv
  <2>6. CASE mem' = mem /\ stage' = [stage EXCEPT ![c] = "answered"]
    <3>1. \A d \in Clients : stage'[d] \in G!Holding => stage[d] \in G!Holding
      BY <2>6 DEF G!TypeOK, G!Holding
    <3> QED BY <2>4, <2>6, <3>1, HoldersStay
  <2> QED BY <2>2, <2>5, <2>6
<1>3. CASE G!LookupRead(c)
  <2>1. HolderInv'
    BY <1>3, HoldersStay DEF G!LookupRead, G!Holding, G!TypeOK
  <2> QED BY <1>1, <1>3, <2>1, StageMoves DEF G!LookupRead
<1>4. CASE G!ReplayDurable(c)
  <2>1. HolderInv'
    BY <1>4, HolderGone DEF G!ReplayDurable, G!Holding
  <2> QED BY <1>1, <1>4, <2>1, StageMoves DEF G!ReplayDurable
<1>5. CASE G!RefuseDurable(c)
  <2>1. HolderInv'
    BY <1>5, HolderGone DEF G!RefuseDurable, G!Holding
  <2> QED BY <1>1, <1>5, <2>1, StageMoves DEF G!RefuseDurable
<1>6. CASE G!FallThrough(c)
  <2>1. HolderInv'
    BY <1>6, HoldersStay DEF G!FallThrough, G!Holding, G!TypeOK
  <2> QED BY <1>1, <1>6, <2>1, StageMoves DEF G!FallThrough
<1>7. CASE G!DurableResolve(c)
  <2>1. HolderInv'
    BY <1>7, HoldersStay DEF G!DurableResolve, G!Holding, G!TypeOK
  <2> QED BY <1>1, <1>7, <2>1, StageMoves DEF G!DurableResolve
<1> QED BY <1>2, <1>3, <1>4, <1>5, <1>6, <1>7 DEF Gate

\* A run starts: its number is new, and nobody else is on the way to one.
LEMMA StartStep ==
    ASSUME GateInv, NEW c \in Clients, Start(c)
    PROVE  HolderInv' /\ RunsInv' /\ runs + 1 \in Calls
<1> USE DEF GateInv
<1>1. /\ stage[c] = "insert" /\ stage' = [stage EXCEPT ![c] = "executing"]
      /\ runs' = runs + 1 /\ run' = [run EXCEPT ![c] = runs + 1]
      /\ mem' = mem /\ effects' = effects /\ settled' = settled
  BY DEF Start, G!DurableClaim
<1>2. runs < MaxRuns /\ runs \in Nat
  BY <1>1 DEF RunsInv, G!TypeOK
<1>3. runs + 1 \in Calls
  BY <1>2, ToolsCallAssumption
<1>4. HolderInv'
  BY <1>1, HoldersStay DEF G!Holding, G!TypeOK
<1>5. \A d \in Clients : d # c => stage[d] \notin {"lookup", "found", "insert"}
  BY <1>1 DEF HolderInv, G!Holding
<1>6. \A d \in Clients :
         /\ stage'[d] = IF d = c THEN "executing" ELSE stage[d]
         /\ run'[d] = IF d = c THEN runs + 1 ELSE run[d]
         /\ run[d] \in Nat /\ run[d] <= runs
  BY <1>1 DEF G!TypeOK, RunsInv
<1>7. \A o \in effects : o.run \in Nat
  BY DEF G!TypeOK, G!Outcome
<1>8. /\ runs' <= MaxRuns
      /\ \A d \in Clients :
            /\ run'[d] <= runs'
            /\ stage'[d] \in {"lookup", "found", "insert"} => runs' < MaxRuns
            /\ stage'[d] \in {"executing", "performed"} => run'[d] > 0
      /\ \A o \in effects' : 0 < o.run /\ o.run <= runs'
      /\ settled' \subseteq 1..runs'
  BY <1>1, <1>2, <1>5, <1>6, <1>7, ToolsCallAssumption DEF RunsInv, Running
<1>9. \A d, e \in Clients : run'[d] > 0 /\ run'[d] = run'[e] => d = e
  BY <1>2, <1>6 DEF RunsInv
<1> QED BY <1>3, <1>4, <1>8, <1>9 DEF RunsInv, Running

LEMMA GateInvStep ==
    ASSUME GateInv, [ToolsNext]_toolsVars
    PROVE  GateInv'
<1> USE DEF GateInv
<1>1. G!TypeOK'
  BY GateTypeStep
<1>2. ASSUME UNCHANGED <<mem, stage, run, runs, effects, settled>>
      PROVE  HolderInv' /\ RunsInv'
  BY <1>2 DEF HolderInv, RunsInv, Running, Proc
<1>3. ASSUME NEW c \in Clients, Perform(c) PROVE HolderInv' /\ RunsInv'
  <2>1. /\ stage[c] = "executing" /\ stage' = [stage EXCEPT ![c] = "performed"]
        /\ effects' = effects \cup {[args |-> args[c], run |-> run[c]]}
        /\ mem' = mem /\ run' = run /\ runs' = runs /\ settled' = settled
    BY <1>3 DEF Perform, G!Perform
  <2>2. HolderInv'
    BY <2>1, HoldersStay DEF G!Holding, G!TypeOK
  <2>3. \A d \in Clients : stage'[d] = IF d = c THEN "performed" ELSE stage[d]
    BY <2>1 DEF G!TypeOK
  <2> QED BY <2>1, <2>2, <2>3 DEF RunsInv, Running
<1>4. ASSUME NEW c \in Clients, Settle(c) PROVE HolderInv' /\ RunsInv'
  <2>1. /\ run[c] \in 1..runs /\ settled' = settled \cup {run[c]}
        /\ UNCHANGED <<mem, stage, run, runs, effects>>
    BY <1>4 DEF Settle, gateVars, RunsInv, Running, G!TypeOK
  <2>2. HolderInv'
    BY <2>1, HoldersStay
  <2> QED BY <2>1, <2>2 DEF RunsInv, Running
<1>5. ASSUME NEW c \in Clients, Complete(c) \/ Release(c) \/ ReleaseUnsettled(c)
      PROVE  HolderInv' /\ RunsInv'
  <2>1. /\ stage[c] \in G!Holding /\ stage' = [stage EXCEPT ![c] = "resolving"]
        /\ UNCHANGED <<run, runs, effects, settled>>
    BY <1>5 DEF Complete, Release, ReleaseUnsettled, G!Complete, G!Release, G!Holding,
                railVars
  <2>2. HolderInv'
    BY <2>1, HolderGone DEF G!Holding
  <2> QED BY <2>1, <2>2, StageMoves
<1>6. ASSUME NEW c \in Clients, Meter(c) PROVE HolderInv' /\ RunsInv'
  BY <1>6, <1>2 DEF Meter, gateVars, railVars
<1>7. ASSUME Environment PROVE HolderInv' /\ RunsInv'
  <2>1. UNCHANGED <<mem, stage, run, runs, effects, settled>>
    BY <1>7 DEF Environment, gateVars, railVars, G!LateWriteLands, G!callVars
  <2> QED BY <2>1, <1>2
<1>8. ASSUME UNCHANGED toolsVars PROVE HolderInv' /\ RunsInv'
  <2>1. UNCHANGED <<mem, stage, run, runs, effects, settled>>
    BY <1>8 DEF toolsVars, gateVars, railVars
  <2> QED BY <2>1, <1>2
<1>9. HolderInv' /\ RunsInv'
  BY <1>3, <1>4, <1>5, <1>6, <1>7, <1>8, GateStep, StartStep DEF ToolsNext, ToolStep
<1> QED BY <1>1, <1>9

LEMMA GateInvInitially == ToolsInit => GateInv
<1> SUFFICES ASSUME ToolsInit PROVE GateInv
  OBVIOUS
<1>1. G!TypeOK
  BY GateRecords DEF ToolsInit, G!Init, G!TypeOK, G!Phase
<1>2. HolderInv
  BY DEF ToolsInit, G!Init, HolderInv, G!Holding
<1>3. RunsInv
  BY ToolsCallAssumption DEF ToolsInit, G!Init, RunsInv, Running
<1> QED BY <1>1, <1>2, <1>3 DEF GateInv

LEMMA GateInvHolds == ToolsSpec => []GateInv
BY GateInvInitially, GateInvStep, PTL DEF ToolsSpec

-----------------------------------------------------------------------------
(* The handler drives the credits rail as MeteredTool says.                *)

LEMMA MeteredStep ==
    ASSUME GateInv, [ToolsNext]_toolsVars
    PROVE  [Next]_vars
<1>1. ASSUME NEW c \in Clients, Start(c) PROVE [Next]_vars
  <2>1. runs + 1 \in Calls
    BY <1>1, StartStep
  <2>2. Arrive(runs + 1) \/ UNCHANGED vars
    BY <1>1 DEF Start
  <2> QED BY <2>1, <2>2 DEF Next
<1>2. ASSUME NEW c \in Clients, Meter(c) PROVE [Next]_vars
  <2>1. run[c] \in Calls
    BY <1>2, ToolsCallAssumption DEF Meter, GateInv, RunsInv, Running, G!TypeOK
  <2>2. Step(run[c])
    BY <1>2 DEF Meter, Step
  <2> QED BY <2>1, <2>2 DEF Next
<1>3. ASSUME NEW c \in Clients, Gate(c) \/ Perform(c) \/ Settle(c) \/ Complete(c)
                                \/ Release(c) \/ ReleaseUnsettled(c)
      PROVE  UNCHANGED vars
  BY <1>3 DEF Gate, Perform, Settle, Complete, Release, ReleaseUnsettled
<1>4. ASSUME Environment PROVE [Next]_vars
  BY <1>4 DEF Environment, Next
<1>5. ASSUME UNCHANGED toolsVars PROVE UNCHANGED vars
  BY <1>5 DEF toolsVars
<1> QED BY <1>1, <1>2, <1>3, <1>4, <1>5 DEF ToolsNext, ToolStep

\* Seen from the billing, tools/call is run_metered_tool: every run that is
\* paid with credits goes through its steps, in their order, once, and the
\* gate, its retries and the other two rails never touch the account.  What
\* MeteredToolProofs shows of metered calls holds of the runs of a key.
THEOREM RunsAreMetered == ToolsSpec => Spec
<1>1. ToolsInit => Init
  BY DEF ToolsInit
<1>2. GateInv /\ [ToolsNext]_toolsVars => [Next]_vars
  BY MeteredStep
<1> QED BY <1>1, <1>2, GateInvHolds, PTL DEF ToolsSpec, Spec

LEMMA RailTypeStep ==
    ASSUME GateInv, RailType, [ToolsNext]_toolsVars
    PROVE  RailType'
<1> USE DEF RailType
<1>1. ASSUME NEW c \in Clients, Running(c) PROVE run[c] \in Calls
  BY <1>1, ToolsCallAssumption DEF GateInv, RunsInv, Running, G!TypeOK
<1>2. ASSUME UNCHANGED railVars PROVE RailType'
  BY <1>2 DEF railVars
<1>3. ASSUME NEW c \in Clients, Start(c) PROVE RailType'
  BY <1>3 DEF Start
<1>4. ASSUME NEW c \in Clients, Settle(c) \/ ReleaseUnsettled(c) PROVE RailType'
  <2>1. run[c] \in Calls /\ rail' = rail
    BY <1>1, <1>4 DEF Settle, ReleaseUnsettled, Running
  <2> QED BY <1>4, <2>1 DEF Settle, ReleaseUnsettled
<1>7. ASSUME NEW c \in Clients, Perform(c) PROVE RailType'
  <2>1. run[c] \in Calls
    BY <1>1, <1>7 DEF Perform, Running
  <2> QED BY <1>7, <2>1 DEF Perform
<1>5. ASSUME NEW c \in Clients, Gate(c) \/ Meter(c) \/ Complete(c) \/ Release(c)
      PROVE  UNCHANGED railVars
  BY <1>5 DEF Gate, Meter, Complete, Release
<1>6. ASSUME Environment \/ UNCHANGED toolsVars PROVE UNCHANGED railVars
  BY <1>6 DEF Environment, toolsVars
<1> QED BY <1>2, <1>3, <1>4, <1>5, <1>6, <1>7 DEF ToolsNext, ToolStep

LEMMA RailTypeHolds == ToolsSpec => []RailType
<1>1. ToolsInit => RailType
  BY DEF ToolsInit, RailType
<1>2. GateInv /\ RailType /\ [ToolsNext]_toolsVars => RailType'
  BY RailTypeStep
<1> QED BY <1>1, <1>2, GateInvHolds, PTL DEF ToolsSpec

\* Every variable of gate, rails and tool stays in its type, for any number
\* of clients and runs, tables that lose and delay included; the balance of
\* the account is never negative.
THEOREM ToolsTypeCorrect == ToolsSpec => []ToolsTypeOK
<1>1. GateInv /\ RailType /\ TypeOK => ToolsTypeOK
  BY DEF GateInv, RailType, ToolsTypeOK
<1> QED BY <1>1, GateInvHolds, RailTypeHolds, RunsAreMetered, TypeCorrect, PTL

-----------------------------------------------------------------------------
(* Failures are free.                                                      *)

\* Run r left nothing behind that its caller was not told of.
Free(r) ==
    /\ r \notin settled
    /\ \A o \in effects : o.run = r => rail[r] = "x402" /\ r \in unsettled
    /\ rail[r] = "credits" => pc[r] = "answered"

\* The strengthening of FailuresAreFree, for client c.  A run that has not
\* taken effect has settled nothing; one that failed is over.
FreeCall(c) ==
    /\ stage[c] \in G!Holding => answer[c].kind # "failure"
    /\ stage[c] = "executing" => run[c] \notin settled /\ \A o \in effects : o.run # run[c]
    /\ answer[c].kind = "failure" /\ run[c] > 0 =>
          stage[c] \in {"resolving", "answered"} /\ Free(run[c])

FreeInv == \A c \in Clients : FreeCall(c)

\* The billing of a run that was answered is over.
LEMMA BilledStays ==
    ASSUME GateInv, TypeOK, [ToolsNext]_toolsVars, NEW r \in Calls, pc[r] = "answered"
    PROVE  pc'[r] = "answered" /\ verdict'[r] = verdict[r]
<1> USE DEF TypeOK
<1>1. ASSUME UNCHANGED <<pc, verdict>> PROVE pc'[r] = "answered" /\ verdict'[r] = verdict[r]
  BY <1>1
<1>2. ASSUME NEW x \in Calls, Arrive(x) \/ Step(x)
      PROVE  pc'[r] = "answered" /\ verdict'[r] = verdict[r]
  <2>1. pc[x] # "answered"
    BY <1>2 DEF Arrive, Step, FindAccount, MissAccount, Granted, BillingUnavailable,
                InsufficientCredits, StartTool, ToolSucceeds, ToolFails, FailedAnswered,
                ToolRaises, RaisedAnswered,
                Committed, CommitFailed, Undone
  <2>2. \/ /\ \E p : pc' = [pc EXCEPT ![x] = p]
           /\ \/ UNCHANGED verdict
              \/ \E v : verdict' = [verdict EXCEPT ![x] = v]
    BY <1>2 DEF Arrive, Step, FindAccount, MissAccount, Granted, BillingUnavailable,
                InsufficientCredits, StartTool, ToolSucceeds, ToolFails, FailedAnswered,
                ToolRaises, RaisedAnswered,
                Committed, CommitFailed, Undone, Ask, Answer
  <2> QED BY <2>1, <2>2
<1>3. ASSUME UNCHANGED vars PROVE pc'[r] = "answered" /\ verdict'[r] = verdict[r]
  BY <1>3, <1>1 DEF vars, callVars
<1>4. ASSUME NEW c \in Clients, Start(c) PROVE pc'[r] = "answered" /\ verdict'[r] = verdict[r]
  <2>1. runs + 1 \in Calls
    BY <1>4, StartStep
  <2> QED BY <2>1, <1>2, <1>3, <1>4 DEF Start
<1>5. ASSUME NEW c \in Clients, Meter(c) PROVE pc'[r] = "answered" /\ verdict'[r] = verdict[r]
  <2>1. run[c] \in Calls
    BY <1>5, ToolsCallAssumption DEF Meter, GateInv, RunsInv, Running, G!TypeOK
  <2>2. Step(run[c])
    BY <1>5 DEF Meter, Step
  <2> QED BY <2>1, <2>2, <1>2
<1>6. ASSUME NEW c \in Clients, Gate(c) \/ Perform(c) \/ Settle(c) \/ Complete(c)
                                \/ Release(c) \/ ReleaseUnsettled(c)
      PROVE  UNCHANGED vars
  BY <1>6 DEF Gate, Perform, Settle, Complete, Release, ReleaseUnsettled
<1>7. ASSUME Environment PROVE UNCHANGED <<pc, verdict>>
  BY <1>7 DEF Environment, Serve, OrderPaid, vars, callVars
<1>8. ASSUME UNCHANGED toolsVars PROVE UNCHANGED vars
  BY <1>8 DEF toolsVars
<1> QED BY <1>1, <1>3, <1>4, <1>5, <1>6, <1>7, <1>8 DEF ToolsNext, ToolStep

\* A run that left nothing behind never will, if no effect, no settlement and
\* no other rail comes to it.
LEMMA FreeStays ==
    ASSUME GateInv, TypeOK, [ToolsNext]_toolsVars, NEW r \in Calls, Free(r),
           r \notin settled' \/ settled' = settled, unsettled \subseteq unsettled',
           \A o \in effects' : o \in effects \/ o.run # r,
           rail'[r] = rail[r]
    PROVE  Free(r)'
<1>1. pc[r] = "answered" => pc'[r] = "answered" /\ verdict'[r] = verdict[r]
  BY BilledStays
<1> QED BY <1>1 DEF Free

\* A client whose own state a step leaves alone, with the effects, the
\* settlements and the rails of all runs but r.
LEMMA OthersFree ==
    ASSUME GateInv, TypeOK, FreeInv, [ToolsNext]_toolsVars, NEW c \in Clients, NEW r \in Nat,
           run[c] # r, stage'[c] = stage[c], run'[c] = run[c], answer'[c] = answer[c],
           settled' \subseteq settled \cup {r}, unsettled \subseteq unsettled',
           \A o \in effects' : o \in effects \/ o.run = r,
           \A q \in Calls : q # r => rail'[q] = rail[q]
    PROVE  FreeCall(c)'
<1>1. FreeCall(c)
  BY DEF FreeInv
<1>2. ASSUME run[c] > 0, Free(run[c]) PROVE Free(run[c])'
  <2>1. run[c] \in Calls
    BY <1>2, ToolsCallAssumption DEF GateInv, RunsInv, G!TypeOK
  <2>2. run[c] \notin settled
    BY <1>2 DEF Free
  <2> QED BY <1>2, <2>1, <2>2, FreeStays
<1>3. answer'[c].kind = "failure" /\ run'[c] > 0 =>
         stage'[c] \in {"resolving", "answered"} /\ Free(run[c])'
  BY <1>1, <1>2 DEF FreeCall
<1> QED BY <1>1, <1>3 DEF FreeCall

\* The client that a step is about.
LEMMA FreeOwnStep ==
    ASSUME GateInv, TypeOK, RailType, FreeInv, [ToolsNext]_toolsVars, NEW c \in Clients,
           Gate(c) \/ ToolStep(c)
    PROVE  FreeCall(c)'
<1> USE DEF G!TypeOK
<1>0. FreeCall(c) /\ run[c] \in Nat /\ G!TypeOK /\ RunsInv
  BY DEF FreeInv, GateInv
<1>1. ASSUME NEW a \in Args, G!Call(c, Proc, a) PROVE FreeCall(c)'
  <2>1. run'[c] = 0 /\ stage'[c] \in {"lookup", "answered"}
    BY <1>0, <1>1 DEF G!Call
  <2>2. stage'[c] = "lookup" => answer'[c].kind = "none"
    BY <1>0, <1>1 DEF G!Call, G!Told
  <2> QED BY <2>1, <2>2 DEF FreeCall, G!Holding
<1>2. ASSUME Gate(c), ~\E a \in Args : G!Call(c, Proc, a) PROVE FreeCall(c)'
  <2>1. /\ UNCHANGED <<run, effects>> /\ UNCHANGED vars /\ UNCHANGED railVars
        /\ stage'[c] \in {"found", "insert", "answered"}
    BY <1>0, <1>2 DEF Gate, G!LookupRead, G!ReplayDurable, G!RefuseDurable, G!FallThrough,
                      G!DurableResolve
  <2>2. /\ stage'[c] \in G!Holding => stage[c] \in G!Holding /\ answer' = answer
        /\ answer'[c].kind = "failure" => answer' = answer /\ stage'[c] = "answered"
    <3>1. CASE G!LookupRead(c) \/ G!FallThrough(c)
      <4>1. stage[c] \in G!Holding /\ answer' = answer
        BY <3>1 DEF G!LookupRead, G!FallThrough, G!Holding
      <4> QED BY <1>0, <4>1 DEF FreeCall
    <3>2. CASE G!ReplayDurable(c) \/ G!RefuseDurable(c)
      <4>1. stage'[c] = "answered" /\ answer'[c].kind # "failure"
        BY <1>0, <3>2 DEF G!ReplayDurable, G!RefuseDurable, G!Replay, G!Told, G!Result
      <4> QED BY <4>1 DEF G!Holding
    <3>3. CASE G!DurableResolve(c)
      BY <1>0, <3>3 DEF G!DurableResolve, G!Holding
    <3> QED BY <1>2, <3>1, <3>2, <3>3 DEF Gate
  <2>3. UNCHANGED <<settled, unsettled, rail, pc, verdict>>
    BY <2>1 DEF vars, callVars, railVars
  <2>4. \A r : Free(r) => Free(r)'
    BY <2>1, <2>3 DEF Free
  <2> QED BY <1>0, <2>1, <2>2, <2>3, <2>4 DEF FreeCall, Free
<1>3. ASSUME Start(c) PROVE FreeCall(c)'
  <2>1. /\ stage[c] = "insert" /\ stage'[c] = "executing" /\ run'[c] = runs + 1
        /\ UNCHANGED <<answer, effects, settled>>
    BY <1>0, <1>3 DEF Start, G!DurableClaim
  <2>2. runs \in Nat /\ \A o \in effects : o.run \in Nat /\ o.run <= runs
    BY <1>0 DEF RunsInv, G!Outcome
  <2>3. settled \subseteq 1..runs
    BY <1>0 DEF RunsInv
  <2>4. run'[c] \notin settled' /\ \A o \in effects' : o.run # run'[c]
    BY <2>1, <2>2, <2>3
  <2>5. answer'[c].kind # "failure"
    BY <1>0, <2>1 DEF FreeCall, G!Holding
  <2> QED BY <2>1, <2>4, <2>5 DEF FreeCall
<1>4. ASSUME Meter(c) PROVE FreeCall(c)'
  <2>1. /\ UNCHANGED <<stage, run, answer, effects, settled>> /\ Running(c)
    BY <1>4 DEF Meter, gateVars, railVars
  <2> QED BY <1>0, <2>1 DEF FreeCall, Running, G!Holding
<1>5. ASSUME Perform(c) \/ Settle(c) PROVE FreeCall(c)'
  <2>1. stage'[c] = "performed" /\ stage[c] \in G!Holding /\ answer' = answer
    BY <1>0, <1>5 DEF Perform, G!Perform, Settle, gateVars, G!Holding
  <2> QED BY <1>0, <2>1 DEF FreeCall
<1>6. ASSUME Complete(c) PROVE FreeCall(c)'
  <2>1. stage'[c] = "resolving" /\ answer'[c].kind # "failure"
    BY <1>0, <1>6 DEF Complete, G!Complete, G!Result
  <2> QED BY <2>1 DEF FreeCall, G!Holding
<1>7. ASSUME Release(c) PROVE FreeCall(c)'
  <2>1. /\ stage[c] = "executing" /\ stage'[c] = "resolving" /\ Billed(c)
        /\ UNCHANGED <<run, effects>> /\ UNCHANGED vars /\ UNCHANGED railVars
    BY <1>0, <1>7 DEF Release, G!Release
  <2>2. UNCHANGED <<settled, unsettled, rail, pc, verdict>>
    BY <2>1 DEF vars, callVars, railVars
  <2>3. rail[run[c]] = "credits" => pc[run[c]] = "answered"
    BY <2>1 DEF Billed, Rail
  <2>4. Free(run[c])'
    BY <1>0, <2>1, <2>2, <2>3 DEF FreeCall, Free
  <2> QED BY <2>1, <2>4 DEF FreeCall, G!Holding
<1>8. ASSUME ReleaseUnsettled(c) PROVE FreeCall(c)'
  <2>1. /\ stage'[c] = "resolving" /\ UNCHANGED <<run, effects, settled, rail>>
        /\ rail[run[c]] = "x402" /\ run[c] \notin settled
        /\ unsettled' = unsettled \cup {run[c]}
    BY <1>0, <1>8 DEF ReleaseUnsettled, Rail
  <2>2. Free(run[c])'
    BY <2>1 DEF Free
  <2> QED BY <2>1, <2>2 DEF FreeCall, G!Holding
<1> QED BY <1>1, <1>2, <1>3, <1>4, <1>5, <1>6, <1>7, <1>8 DEF ToolStep

\* The other clients.
LEMMA FreeOtherStep ==
    ASSUME GateInv, TypeOK, RailType, FreeInv, [ToolsNext]_toolsVars, NEW d \in Clients,
           Gate(d) \/ ToolStep(d), NEW c \in Clients, c # d
    PROVE  FreeCall(c)'
<1> USE DEF G!TypeOK
<1>0. G!TypeOK /\ RunsInv /\ run[c] \in Nat /\ run[d] \in Nat
  BY DEF GateInv
<1>1. stage'[c] = stage[c] /\ run'[c] = run[c] /\ answer'[c] = answer[c]
  <2>1. CASE Gate(d)
    BY <1>0, <2>1 DEF Gate, G!Call, G!LookupRead, G!ReplayDurable, G!RefuseDurable,
                      G!FallThrough, G!DurableResolve
  <2>2. CASE Start(d) \/ Perform(d) \/ Complete(d) \/ Release(d) \/ ReleaseUnsettled(d)
    BY <1>0, <2>2 DEF Start, Perform, Complete, Release, ReleaseUnsettled, G!DurableClaim,
                      G!Perform, G!Complete, G!Release
  <2>3. CASE Meter(d) \/ Settle(d)
    BY <2>3 DEF Meter, Settle, gateVars
  <2> QED BY <2>1, <2>2, <2>3 DEF ToolStep
<1>2. CASE Start(d)
  <2>1. /\ run[c] # runs + 1 /\ runs + 1 \in Nat
        /\ UNCHANGED <<effects, settled, unsettled>>
        /\ \A q \in Calls : q # runs + 1 => rail'[q] = rail[q]
    BY <1>0, <1>2 DEF Start, G!DurableClaim, RunsInv, RailType
  <2> QED BY <1>1, <2>1, OthersFree
<1>3. CASE Perform(d) \/ Settle(d) \/ ReleaseUnsettled(d)
  <2>1. /\ Running(d) /\ rail' = rail
        /\ \A o \in effects' : o \in effects \/ o.run = run[d]
        /\ settled' \subseteq settled \cup {run[d]} /\ unsettled \subseteq unsettled'
    BY <1>3 DEF Perform, G!Perform, Settle, ReleaseUnsettled, Running, gateVars
  <2>2. run[c] # run[d]
    BY <1>0, <2>1 DEF RunsInv
  <2> QED BY <1>0, <1>1, <2>1, <2>2, OthersFree
<1>4. CASE Gate(d) \/ Meter(d) \/ Complete(d) \/ Release(d)
  <2>1. UNCHANGED <<effects, settled, unsettled, rail>>
    BY <1>4 DEF Gate, Meter, Complete, Release, gateVars, railVars, G!Call, G!LookupRead,
                G!ReplayDurable, G!RefuseDurable, G!FallThrough, G!DurableResolve,
                G!Complete, G!Release
  <2>2. PICK r \in Nat : r # run[c]
    BY <1>0
  <2> QED BY <1>1, <2>1, <2>2, OthersFree
<1> QED BY <1>2, <1>3, <1>4 DEF ToolStep

LEMMA FreeInvStep ==
    ASSUME GateInv, TypeOK, RailType, FreeInv, [ToolsNext]_toolsVars
    PROVE  FreeInv'
<1> SUFFICES ASSUME NEW c \in Clients PROVE FreeCall(c)'
  BY DEF FreeInv
<1>1. CASE \E d \in Clients : Gate(d) \/ ToolStep(d)
  BY <1>1, FreeOwnStep, FreeOtherStep
<1>2. CASE Environment \/ UNCHANGED toolsVars
  <2>1. UNCHANGED <<stage, run, answer, effects, settled, unsettled, rail>>
    BY <1>2 DEF Environment, toolsVars, gateVars, railVars, G!LateWriteLands, G!callVars
  <2>2. run[c] \in Nat
    BY DEF GateInv, G!TypeOK
  <2>3. PICK r \in Nat : r # run[c]
    BY <2>2
  <2> QED BY <2>1, <2>3, OthersFree
<1> QED BY <1>1, <1>2 DEF ToolsNext

LEMMA FreeInvHolds == ToolsSpec => []FreeInv
<1>1. ToolsInit => FreeInv
  BY DEF ToolsInit, G!Init, FreeInv, FreeCall, G!Holding, G!Told
<1>2. GateInv /\ TypeOK /\ RailType /\ FreeInv /\ [ToolsNext]_toolsVars => FreeInv'
  BY FreeInvStep
<1> QED BY <1>1, <1>2, GateInvHolds, RailTypeHolds, RunsAreMetered, TypeCorrect, PTL
        DEF ToolsSpec

-----------------------------------------------------------------------------
(***************************************************************************)
(* The contract of a key.  First, which effects stand: at most one, held   *)
(* by the call that took it until its result is in memory.                 *)
(***************************************************************************)

Standing == {o \in effects : o.run \notin unsettled}
Now(c) == [args |-> args[c], run |-> run[c]]
Finished == mem[Proc].status = "complete"

StandInv ==
    /\ Finished => Standing = {mem[Proc].outcome}
    /\ \A c \in Clients : stage[c] = "performed" => Standing = {Now(c)}
    /\ Standing # {} => Finished \/ \E c \in Clients : stage[c] = "performed"

\* The owner of a claim that has not performed is alone in the world.
LEMMA NoneStands ==
    ASSUME GateInv, StandInv, NEW c \in Clients,
           stage[c] \in {"lookup", "found", "insert", "executing"}
    PROVE  /\ Standing = {} /\ mem[Proc].status = "pending"
           /\ \A d \in Clients : d # c => stage[d] \notin G!Holding
<1>1. mem[Proc].status = "pending" /\ \A d \in Clients : stage[d] \in G!Holding => d = c
  BY DEF GateInv, HolderInv, G!Holding
<1>2. \A d \in Clients : stage[d] # "performed"
  BY <1>1 DEF G!Holding
<1> QED BY <1>1, <1>2 DEF StandInv, Finished

LEMMA OneStands ==
    ASSUME GateInv, StandInv, NEW c \in Clients, stage[c] = "performed"
    PROVE  /\ Standing = {Now(c)} /\ mem[Proc].status = "pending"
           /\ \A d \in Clients : d # c => stage[d] \notin G!Holding
BY DEF GateInv, HolderInv, StandInv, G!Holding

\* Nothing stands after the step, and nobody has performed.
LEMMA NothingLeft ==
    ASSUME Standing' = {}, mem'[Proc].status # "complete",
           \A c \in Clients : stage'[c] # "performed"
    PROVE  StandInv'
BY DEF StandInv, Finished, Proc

\* Steps that no effect sees.
LEMMA StandStays ==
    ASSUME StandInv, Standing' = Standing, mem' = mem,
           \A c \in Clients :
              (stage'[c] = "performed" <=> stage[c] = "performed") /\
              (stage[c] = "performed" => args'[c] = args[c] /\ run'[c] = run[c])
    PROVE  StandInv'
BY DEF StandInv, Finished, Now, Proc

LEMMA StandStep ==
    ASSUME GateInv, RailType, FreeInv, StandInv, [ToolsNext]_toolsVars,
           \A c \in Clients : seen[c].status = "complete" => Finished,
           \A r \in unsettled : \E o \in effects : o.run = r
    PROVE  StandInv'
<1> USE DEF G!TypeOK
<1>0. G!TypeOK /\ HolderInv
  BY DEF GateInv
<1>1. ASSUME UNCHANGED <<mem, stage, args, run, effects, unsettled>> PROVE StandInv'
  <2>1. Standing' = Standing
    BY <1>1 DEF Standing
  <2> QED BY <1>1, <2>1, StandStays
<1>2. ASSUME NEW c \in Clients, NEW a \in Args, G!Call(c, Proc, a), Gate(c) PROVE StandInv'
  <2>1. /\ stage[c] \in {"idle", "answered", "lost"} /\ UNCHANGED <<effects, unsettled>>
        /\ args' = [args EXCEPT ![c] = a] /\ run' = [run EXCEPT ![c] = 0]
    BY <1>2 DEF G!Call, Gate, railVars
  <2>2. Standing' = Standing
    BY <2>1 DEF Standing
  <2>3. CASE /\ G!Reserve(Proc) = "claimed"
             /\ mem' = [mem EXCEPT ![Proc] = G!PendingRecord]
             /\ stage' = [stage EXCEPT ![c] = "lookup"]
    <3>1. mem[Proc].status = "none"
      BY <1>0, <2>3 DEF G!Reserve, G!MemRecord
    <3>2. \A d \in Clients : stage[d] # "performed"
      BY <1>0, <3>1 DEF HolderInv, G!Holding
    <3>3. Standing' = {} /\ mem'[Proc].status # "complete"
      BY <1>0, <2>2, <2>3, <3>1, <3>2 DEF StandInv, Finished, G!PendingRecord
    <3>4. \A d \in Clients : stage'[d] # "performed"
      BY <1>0, <2>3, <3>2
    <3> QED BY <3>3, <3>4, NothingLeft
  <2>4. CASE mem' = mem /\ stage' = [stage EXCEPT ![c] = "answered"]
    BY <1>0, <2>1, <2>2, <2>4, StandStays
  <2>5. \/ /\ G!Reserve(Proc) = "claimed"
           /\ mem' = [mem EXCEPT ![Proc] = G!PendingRecord]
           /\ stage' = [stage EXCEPT ![c] = "lookup"]
        \/ mem' = mem /\ stage' = [stage EXCEPT ![c] = "answered"]
    BY <1>2 DEF G!Call
  <2> QED BY <2>3, <2>4, <2>5
<1>3. ASSUME NEW c \in Clients, Gate(c),
             G!LookupRead(c) \/ G!FallThrough(c) \/ G!DurableResolve(c)
      PROVE  StandInv'
  <2>1. /\ UNCHANGED <<mem, args, run, effects, unsettled>>
        /\ \A d \in Clients : stage'[d] = "performed" <=> stage[d] = "performed"
    BY <1>0, <1>3 DEF Gate, railVars, G!LookupRead, G!FallThrough, G!DurableResolve
  <2>2. Standing' = Standing
    BY <2>1 DEF Standing
  <2> QED BY <2>1, <2>2, StandStays
<1>4. ASSUME NEW c \in Clients, G!ReplayDurable(c) PROVE FALSE
  <2>1. stage[c] = "found" /\ mem[Proc].status = "complete"
    BY <1>4 DEF G!ReplayDurable, Finished
  <2> QED BY <2>1, NoneStands
<1>5. ASSUME NEW c \in Clients, \/ G!RefuseDurable(c) /\ UNCHANGED railVars
                                \/ Release(c)
      PROVE StandInv'
  <2>1. /\ stage[c] \in {"found", "executing"}
        /\ stage' = [stage EXCEPT ![c] = "answered"] \/ stage' = [stage EXCEPT ![c] = "resolving"]
        /\ UNCHANGED <<effects, unsettled>> /\ G!StoreRelease(at[c]) /\ at[c] = Proc
    BY <1>0, <1>5 DEF Release, G!Release, G!RefuseDurable, railVars
  <2>2. /\ Standing = {} /\ mem[Proc].status = "pending"
        /\ \A d \in Clients : d # c => stage[d] \notin G!Holding
    BY <2>1, NoneStands
  <2>3. Standing' = {} /\ mem'[Proc].status # "complete"
    BY <1>0, <2>1, <2>2 DEF Standing, G!StoreRelease, G!NoRecord
  <2>4. \A d \in Clients : stage'[d] # "performed"
    BY <1>0, <2>1, <2>2 DEF G!Holding
  <2> QED BY <2>3, <2>4, NothingLeft
<1>6. ASSUME NEW c \in Clients, Start(c) PROVE StandInv'
  <2>1. /\ stage[c] = "insert" /\ stage' = [stage EXCEPT ![c] = "executing"]
        /\ UNCHANGED <<mem, effects, unsettled>>
    BY <1>6 DEF Start, G!DurableClaim
  <2>2. /\ Standing = {} /\ mem[Proc].status = "pending"
        /\ \A d \in Clients : d # c => stage[d] \notin G!Holding
    BY <2>1, NoneStands
  <2>3. Standing' = {} /\ mem'[Proc].status # "complete"
    BY <2>1, <2>2 DEF Standing
  <2>4. \A d \in Clients : stage'[d] # "performed"
    BY <1>0, <2>1, <2>2 DEF G!Holding
  <2> QED BY <2>3, <2>4, NothingLeft
<1>7. ASSUME NEW c \in Clients, Perform(c) PROVE StandInv'
  <2>1. /\ stage[c] = "executing" /\ stage' = [stage EXCEPT ![c] = "performed"]
        /\ effects' = effects \cup {Now(c)} /\ UNCHANGED <<mem, args, run, unsettled>>
    BY <1>7 DEF Perform, G!Perform, Now
  <2>2. /\ Standing = {} /\ mem[Proc].status = "pending"
        /\ \A d \in Clients : d # c => stage[d] \notin G!Holding
    BY <2>1, NoneStands
  <2>3. run[c] \notin unsettled
    BY <2>1 DEF FreeInv, FreeCall
  <2>4. Standing' = {Now(c)}
    BY <2>1, <2>2, <2>3 DEF Standing, Now
  <2>5. \A d \in Clients : stage'[d] = "performed" <=> d = c
    BY <1>0, <2>1, <2>2 DEF G!Holding
  <2>6. Now(c)' = Now(c) /\ ~Finished'
    BY <2>1, <2>2 DEF Now, Finished, Proc
  <2> QED BY <2>4, <2>5, <2>6 DEF StandInv
<1>8. ASSUME NEW c \in Clients, Complete(c) PROVE StandInv'
  <2>1. /\ stage[c] = "performed" /\ stage' = [stage EXCEPT ![c] = "resolving"]
        /\ mem' = [mem EXCEPT ![Proc] = G!CompleteRecord(Now(c))]
        /\ UNCHANGED <<effects, unsettled>>
    BY <1>0, <1>8 DEF Complete, G!Complete, railVars, Now
  <2>2. /\ Standing = {Now(c)}
        /\ \A d \in Clients : d # c => stage[d] \notin G!Holding
    BY <2>1, OneStands
  <2>3. Standing' = {mem'[Proc].outcome} /\ mem'[Proc].status = "complete"
    BY <1>0, <2>1, <2>2 DEF Standing, G!CompleteRecord
  <2>4. \A d \in Clients : stage'[d] # "performed"
    BY <1>0, <2>1, <2>2 DEF G!Holding
  <2> QED BY <2>3, <2>4 DEF StandInv, Finished, Proc
<1>9. ASSUME NEW c \in Clients, ReleaseUnsettled(c) PROVE StandInv'
  <2>1. /\ stage[c] = "performed" /\ stage' = [stage EXCEPT ![c] = "resolving"]
        /\ unsettled' = unsettled \cup {run[c]} /\ effects' = effects /\ G!StoreRelease(Proc)
    BY <1>9 DEF ReleaseUnsettled
  <2>2. /\ Standing = {Now(c)} /\ mem[Proc].status = "pending"
        /\ \A d \in Clients : d # c => stage[d] \notin G!Holding
    BY <2>1, OneStands
  <2>3. Standing' = {} /\ mem'[Proc].status # "complete"
    BY <1>0, <2>1, <2>2 DEF Standing, Now, G!StoreRelease, G!NoRecord
  <2>4. \A d \in Clients : stage'[d] # "performed"
    BY <1>0, <2>1, <2>2 DEF G!Holding
  <2> QED BY <2>3, <2>4, NothingLeft
<1>10. ASSUME NEW c \in Clients, Meter(c) \/ Settle(c) PROVE StandInv'
  BY <1>10, <1>1 DEF Meter, Settle, gateVars, railVars
<1>11. ASSUME Environment \/ UNCHANGED toolsVars PROVE StandInv'
  BY <1>11, <1>1 DEF Environment, toolsVars, gateVars, railVars, G!LateWriteLands, G!callVars
<1>12. ASSUME NEW c \in Clients, Gate(c) PROVE StandInv'
  BY <1>12, <1>2, <1>3, <1>4, <1>5 DEF Gate
<1> QED BY <1>5, <1>6, <1>7, <1>8, <1>9, <1>10, <1>11, <1>12 DEF ToolsNext, ToolStep

(***************************************************************************)
(* Second, what clients and table are told: a result is the outcome in     *)
(* memory, which never changes once it is there.                           *)
(***************************************************************************)

Known(o) == Finished /\ o = mem[Proc].outcome

AnswerKnown(c) == answer[c].kind = "result" => Known(answer[c].outcome)
SeenKnown(c) == seen[c].status = "complete" => Known(seen[c].outcome)

ToldInv ==
    /\ \A c \in Clients : AnswerKnown(c) /\ SeenKnown(c)
    /\ \A w \in rows \cup late : w.status = "complete" => Known(w.outcome)

\* No holder finds a finished record, and who does not hold leaves it alone.
LEMMA FinishedStays ==
    ASSUME GateInv, [ToolsNext]_toolsVars, Finished
    PROVE  mem' = mem
<1>1. \A c \in Clients : stage[c] \notin G!Holding
  BY DEF GateInv, HolderInv, Finished
<1>2. ASSUME NEW c \in Clients, Gate(c) PROVE mem' = mem
  <2>1. ASSUME NEW a \in Args, G!Call(c, Proc, a) PROVE mem' = mem
    BY <2>1 DEF G!Call, G!Reserve, Finished
  <2>2. G!LookupRead(c) \/ G!DurableResolve(c) => mem' = mem
    BY DEF G!LookupRead, G!DurableResolve
  <2>3. ~G!ReplayDurable(c) /\ ~G!RefuseDurable(c) /\ ~G!FallThrough(c)
    BY <1>1 DEF G!ReplayDurable, G!RefuseDurable, G!FallThrough, G!Holding
  <2> QED BY <1>2, <2>1, <2>2, <2>3 DEF Gate
<1>3. ASSUME NEW c \in Clients, ToolStep(c) PROVE FALSE
  BY <1>1, <1>3 DEF ToolStep, Start, Meter, Perform, Settle, Complete, Release,
                    ReleaseUnsettled, Running, G!DurableClaim, G!Holding
<1>4. Environment \/ UNCHANGED toolsVars => mem' = mem
  BY DEF Environment, toolsVars, gateVars, G!LateWriteLands
<1> QED BY <1>2, <1>3, <1>4 DEF ToolsNext

LEMMA KnownStays ==
    ASSUME GateInv, [ToolsNext]_toolsVars, Finished
    PROVE  Finished' /\ mem'[Proc].outcome = mem[Proc].outcome
BY FinishedStays DEF Finished, Proc

\* A write puts what it says into the table, and nothing else.
LEMMA WrittenKnown ==
    ASSUME ToldInv, NEW w, w.status = "complete" => Known(w.outcome)
    PROVE  \A r \in G!Applied(w) \cup {w} : r.status = "complete" => Known(r.outcome)
BY DEF ToldInv, G!Applied, G!PendingRow

LEMMA ToldStep ==
    ASSUME GateInv, ToldInv, [ToolsNext]_toolsVars
    PROVE  ToldInv'
<1> USE DEF G!TypeOK
<1>0. G!TypeOK /\ (Finished => Finished' /\ mem'[Proc].outcome = mem[Proc].outcome)
  BY KnownStays DEF GateInv
<1>1. ASSUME UNCHANGED <<answer, seen, rows, late>> PROVE ToldInv'
  BY <1>0, <1>1 DEF ToldInv, AnswerKnown, SeenKnown, Known, Proc
<1>2. ASSUME NEW c \in Clients, UNCHANGED <<rows, late>>,
             \A d \in Clients : d # c => answer'[d] = answer[d] /\ seen'[d] = seen[d],
             AnswerKnown(c)', SeenKnown(c)'
      PROVE  ToldInv'
  BY <1>0, <1>2 DEF ToldInv, AnswerKnown, SeenKnown, Known, Proc
<1>3. ASSUME NEW c \in Clients, Gate(c) PROVE ToldInv'
  <2>1. ASSUME NEW a \in Args, G!Call(c, Proc, a) PROVE ToldInv'
    <3>1. /\ UNCHANGED <<rows, late>> /\ seen' = [seen EXCEPT ![c] = G!NoRow]
          /\ \A d \in Clients : d # c => answer'[d] = answer[d]
      BY <1>0, <2>1 DEF G!Call
    <3>2. answer'[c].kind = "result" => Known(answer'[c].outcome)
      <4>1. \/ answer'[c] = G!Told("none") \/ answer'[c] = G!Told("in_progress")
            \/ G!Reserve(Proc) = "complete" /\ answer'[c] = G!Replay(mem[Proc].outcome, a)
        BY <1>0, <2>1 DEF G!Call
      <4>2. G!Reserve(Proc) = "complete" => Finished
        BY <1>0 DEF G!Reserve, G!MemRecord, Finished
      <4> QED BY <4>1, <4>2 DEF G!Told, G!Replay, G!Result, Known
    <3>3. seen'[c].status # "complete"
      BY <1>0, <3>1 DEF G!NoRow
    <3>4. AnswerKnown(c)' /\ SeenKnown(c)'
      BY <1>0, <3>2, <3>3 DEF AnswerKnown, SeenKnown, Known, Proc
    <3> QED BY <1>2, <3>1, <3>4
  <2>2. CASE G!LookupRead(c)
    <3>1. /\ UNCHANGED <<rows, late, answer>>
          /\ \A d \in Clients : d # c => seen'[d] = seen[d]
          /\ seen'[c] \in rows \/ seen'[c] = G!NoRow
      BY <1>0, <2>2 DEF G!LookupRead
    <3>2. AnswerKnown(c)'
      BY <1>0, <3>1 DEF ToldInv, AnswerKnown, Known, Proc
    <3>3. SeenKnown(c)'
      <4>1. CASE seen'[c] \in rows
        BY <1>0, <4>1 DEF ToldInv, SeenKnown, Known, Proc
      <4>2. CASE seen'[c] = G!NoRow
        <5>1. G!NoRow.status # "complete"
          BY DEF G!NoRow
        <5> QED BY <4>2, <5>1 DEF SeenKnown
      <4> QED BY <3>1, <4>1, <4>2
    <3> QED BY <1>2, <3>1, <3>2, <3>3
  <2>3. CASE G!ReplayDurable(c) \/ G!RefuseDurable(c)
    <3>1. /\ UNCHANGED <<rows, late, seen>>
          /\ \A d \in Clients : d # c => answer'[d] = answer[d]
          /\ answer'[c].kind = "result" =>
                answer'[c].outcome = seen[c].outcome /\ seen[c].status = "complete"
      BY <1>0, <2>3 DEF G!ReplayDurable, G!RefuseDurable, G!Replay, G!Told, G!Result
    <3>2. SeenKnown(c)'
      BY <1>0, <3>1 DEF ToldInv, SeenKnown, Known, Proc
    <3>3. AnswerKnown(c)'
      BY <1>0, <3>1 DEF ToldInv, AnswerKnown, SeenKnown, Known, Proc
    <3> QED BY <1>2, <3>1, <3>2, <3>3
  <2>4. CASE G!FallThrough(c)
    BY <2>4, <1>1 DEF G!FallThrough
  <2>5. CASE G!DurableResolve(c)
    <3>1. /\ UNCHANGED <<answer, seen>>
          /\ \E w : /\ w.status = "complete" => Known(w.outcome)
                    /\ G!DurableWrite(w)
      BY <2>5 DEF G!DurableResolve, G!Resolve, ToldInv, AnswerKnown
    <3>2. PICK w : (w.status = "complete" => Known(w.outcome)) /\ G!DurableWrite(w)
      BY <3>1
    <3>3. \A r \in rows' \cup late' : r.status = "complete" => Known(r.outcome)
      BY <3>2, WrittenKnown DEF G!DurableWrite, ToldInv
    <3> QED BY <1>0, <3>1, <3>3 DEF ToldInv, AnswerKnown, SeenKnown, Known, Proc
  <2> QED BY <1>3, <2>1, <2>2, <2>3, <2>4, <2>5 DEF Gate
<1>4. ASSUME NEW c \in Clients, Start(c) PROVE ToldInv'
  <2>1. UNCHANGED <<answer, seen>> /\ G!DurableWrite(G!Insert) /\ G!Insert.status # "complete"
    BY <1>4 DEF Start, G!DurableClaim, G!Insert
  <2>2. \A r \in rows' \cup late' : r.status = "complete" => Known(r.outcome)
    BY <2>1, WrittenKnown DEF G!DurableWrite, ToldInv
  <2> QED BY <1>0, <2>1, <2>2 DEF ToldInv, AnswerKnown, SeenKnown, Known, Proc
<1>5. ASSUME NEW c \in Clients, Release(c) \/ ReleaseUnsettled(c) PROVE ToldInv'
  <2>1. /\ UNCHANGED <<rows, late, seen>> /\ answer' = [answer EXCEPT ![c] = G!Told("failure")]
    BY <1>5 DEF Release, ReleaseUnsettled, G!Release
  <2>2. answer'[c].kind # "result" /\ \A d \in Clients : d # c => answer'[d] = answer[d]
    BY <1>0, <2>1 DEF G!Told
  <2>3. SeenKnown(c)'
    BY <1>0, <2>1 DEF ToldInv, SeenKnown, Known, Proc
  <2> QED BY <1>2, <2>1, <2>2, <2>3 DEF AnswerKnown
<1>6. ASSUME NEW c \in Clients, Complete(c) PROVE ToldInv'
  <2>1. /\ UNCHANGED <<rows, late, seen>>
        /\ mem' = [mem EXCEPT ![Proc] = G!CompleteRecord(Now(c))]
        /\ answer' = [answer EXCEPT ![c] = G!Result(Now(c))]
    BY <1>0, <1>6 DEF Complete, G!Complete, Now
  <2>2. /\ answer'[c].outcome = Now(c) /\ \A d \in Clients : d # c => answer'[d] = answer[d]
        /\ mem'[Proc].status = "complete" /\ mem'[Proc].outcome = Now(c)
    BY <1>0, <2>1 DEF G!Result, G!CompleteRecord
  <2>3. AnswerKnown(c)'
    BY <2>2 DEF AnswerKnown, Known, Finished, Proc
  <2>4. SeenKnown(c)'
    BY <1>0, <2>1 DEF ToldInv, SeenKnown, Known, Proc
  <2> QED BY <1>2, <2>1, <2>2, <2>3, <2>4
<1>7. ASSUME NEW c \in Clients, Meter(c) \/ Perform(c) \/ Settle(c) PROVE ToldInv'
  BY <1>7, <1>1 DEF Meter, Perform, G!Perform, Settle, gateVars
<1>8. ASSUME NEW w \in late, G!LateWriteLands(w) PROVE ToldInv'
  <2>1. UNCHANGED <<answer, seen>> /\ rows' = G!Applied(w) /\ late' \subseteq late
    BY <1>8 DEF G!LateWriteLands, G!callVars
  <2>2. \A r \in rows' \cup late' : r.status = "complete" => Known(r.outcome)
    BY <2>1, WrittenKnown DEF ToldInv
  <2> QED BY <1>0, <2>1, <2>2 DEF ToldInv, AnswerKnown, SeenKnown, Known, Proc
<1>9. ASSUME Environment \/ UNCHANGED toolsVars PROVE ToldInv'
  BY <1>9, <1>1, <1>8 DEF Environment, toolsVars, gateVars
<1> QED BY <1>3, <1>4, <1>5, <1>6, <1>7, <1>9 DEF ToolsNext, ToolStep

(***************************************************************************)
(* Third, what is charged: only runs that took effect, each on its rail.   *)
(***************************************************************************)

TookEffect(r) == \E o \in effects : o.run = r

BillOf(r) ==
    /\ Has("commit", r) \/ Asked("commit", r) => rail[r] = "credits" /\ TookEffect(r)
    /\ r \in settled => rail[r] = "x402" /\ r \notin unsettled /\ TookEffect(r)
    /\ r \in unsettled => rail[r] = "x402" /\ TookEffect(r)

BillInv == \A r \in Calls : BillOf(r)

\* Effects stay, and the rail of a run that took effect.
LEMMA EffectStays ==
    ASSUME GateInv, RailType, [ToolsNext]_toolsVars, NEW r \in Calls, TookEffect(r)
    PROVE  TookEffect(r)' /\ rail'[r] = rail[r]
<1>1. r <= runs /\ r \in Nat /\ runs \in Nat
  BY ToolsCallAssumption DEF TookEffect, GateInv, RunsInv, G!TypeOK
<1>2. ASSUME NEW c \in Clients, Start(c) PROVE effects' = effects /\ rail'[r] = rail[r]
  <2>1. effects' = effects /\ \E b \in Rails : rail' = [rail EXCEPT ![runs + 1] = b]
    BY <1>2 DEF Start, G!DurableClaim
  <2> QED BY <1>1, <2>1 DEF RailType
<1>3. ASSUME NEW c \in Clients, Perform(c) PROVE effects \subseteq effects' /\ rail' = rail
  BY <1>3 DEF Perform, G!Perform
<1>4. ASSUME NEW c \in Clients, Gate(c) PROVE effects' = effects /\ rail' = rail
  BY <1>4 DEF Gate, railVars, G!Call, G!LookupRead, G!ReplayDurable, G!RefuseDurable,
              G!FallThrough, G!DurableResolve
<1>5. ASSUME NEW c \in Clients, \/ Meter(c) \/ Settle(c) \/ Complete(c) \/ Release(c)
                                \/ ReleaseUnsettled(c)
      PROVE  effects' = effects /\ rail' = rail
  BY <1>5 DEF Meter, Settle, Complete, Release, ReleaseUnsettled, gateVars, railVars,
              G!Complete, G!Release
<1>6. ASSUME Environment \/ UNCHANGED toolsVars PROVE effects' = effects /\ rail' = rail
  BY <1>6 DEF Environment, toolsVars, gateVars, railVars, G!LateWriteLands
<1> QED BY <1>2, <1>3, <1>4, <1>5, <1>6 DEF ToolsNext, ToolStep, TookEffect

\* The performer's run took effect.
LEMMA Performed ==
    ASSUME GateInv, StandInv, NEW c \in Clients, stage[c] = "performed"
    PROVE  TookEffect(run[c]) /\ run[c] \notin unsettled /\ run[c] \in Calls
<1>1. Now(c) \in Standing
  BY DEF StandInv
<1>2. run[c] \in Calls
  BY ToolsCallAssumption DEF GateInv, RunsInv, Running, G!TypeOK
<1> QED BY <1>1, <1>2 DEF Standing, Now, TookEffect

\* A commit is asked for by a run that has performed, and made because it was
\* asked for.
LEMMA CommitStep ==
    ASSUME GateInv, TypeOK, [ToolsNext]_toolsVars, NEW r \in Calls,
           Has("commit", r)' \/ Asked("commit", r)'
    PROVE  \/ Has("commit", r) \/ Asked("commit", r)
           \/ \E c \in Clients : stage[c] = "performed" /\ Rail(c) = "credits" /\ run[c] = r
<1>1. ASSUME ledger' = ledger, net' \subseteq net PROVE Has("commit", r) \/ Asked("commit", r)
  BY <1>1, SameEntries DEF Has, Asked
<1>2. ASSUME NEW x \in Calls, Arrive(x) \/ Step(x), ~ToolSucceeds(x)
      PROVE  Has("commit", r) \/ Asked("commit", r)
  <2>1. ledger' = ledger
    BY <1>2 DEF Arrive, Step, FindAccount, MissAccount, Granted, BillingUnavailable,
                InsufficientCredits, StartTool, ToolFails, FailedAnswered,
                ToolRaises, RaisedAnswered,
                Committed, CommitFailed, Undone, ledgerVars
  <2>2. net' \subseteq net \/ \E fn \in {"grant", "reserve", "release"} :
                                 net' = net \cup {[fn |-> fn, call |-> x]}
    BY <1>2 DEF Arrive, Step, FindAccount, MissAccount, Granted, BillingUnavailable,
                InsufficientCredits, StartTool, ToolFails, FailedAnswered,
                ToolRaises, RaisedAnswered,
                Committed, CommitFailed, Undone, Ask, Answer
  <2> QED BY <2>1, <2>2, SameEntries DEF Has, Asked
<1>3. ASSUME NEW q \in net, Serve(q) PROVE Has("commit", r) \/ Asked("commit", r)
  <2>1. \A f, d : Asked(f, d)' => Asked(f, d)
    BY <1>3, ServeEffect
  <2>2. ASSUME Has("commit", r)', ~Has("commit", r) PROVE Asked("commit", r)
    <3>1. q.fn \in Function /\ Asked(q.fn, q.call)
      BY <1>3, ServeEffect
    <3>2. PICK e \in ledger' : e.type = "commit" /\ e.ref = r /\ e \notin ledger
      BY <2>2 DEF Has, Entries
    <3>3. q.fn = "commit" /\ e.ref = q.call
      BY <1>3, <3>1, <3>2 DEF Serve, CreditGrant, CreditReserve, CreditCommit, CreditRelease,
                              Function, ledgerVars
    <3> QED BY <3>1, <3>2, <3>3
  <2> QED BY <2>1, <2>2
<1>4. ASSUME OrderPaid PROVE Has("commit", r) \/ Asked("commit", r)
  <2>1. Entries("commit", r)' = Entries("commit", r) /\ net' = net
    BY <1>4, GrantEntries DEF OrderPaid
  <2> QED BY <2>1 DEF Has, Asked
<1>5. ASSUME UNCHANGED vars PROVE Has("commit", r) \/ Asked("commit", r)
  BY <1>5, <1>1 DEF vars, ledgerVars
<1>6. ASSUME NEW c \in Clients, Start(c) PROVE Has("commit", r) \/ Asked("commit", r)
  <2>1. runs + 1 \in Calls /\ (Arrive(runs + 1) \/ UNCHANGED vars)
    BY <1>6, StartStep DEF Start
  <2>2. Arrive(runs + 1) => ~ToolSucceeds(runs + 1)
    BY DEF Arrive, ToolSucceeds
  <2> QED BY <2>1, <2>2, <1>2, <1>5
<1>7. ASSUME NEW c \in Clients, Meter(c)
      PROVE  \/ Has("commit", r) \/ Asked("commit", r)
             \/ stage[c] = "performed" /\ Rail(c) = "credits" /\ run[c] = r
  <2>1. run[c] \in Calls /\ Rail(c) = "credits"
    BY <1>7, ToolsCallAssumption DEF Meter, GateInv, RunsInv, Running, G!TypeOK
  <2>2. CASE ~ToolSucceeds(run[c])
    <3>1. Step(run[c])
      BY <1>7 DEF Meter, Step
    <3> QED BY <2>1, <2>2, <3>1, <1>2
  <2>3. CASE ToolSucceeds(run[c])
    <3>1. stage[c] = "performed"
      <4>1. pc[run[c]] = "executing" /\ pc'[run[c]] = "committing"
        BY <2>1, <2>3 DEF ToolSucceeds, Ask, TypeOK
      <4>2. ~ToolFails(run[c]) /\ ~ToolRaises(run[c])
        BY <2>1, <4>1 DEF ToolFails, ToolRaises, Ask, TypeOK
      <4>3. ~ReceiptIsError(c)
        BY <1>7, <4>1, <4>2
           DEF Meter, FindAccount, MissAccount, Granted, BillingUnavailable,
               InsufficientCredits, StartTool, FailedAnswered, RaisedAnswered, Committed,
               CommitFailed, Undone
      <4> QED BY <1>7, <4>3 DEF Meter, Running, ReceiptIsError
    <3>2. ledger' = ledger /\ net' = net \cup {[fn |-> "commit", call |-> run[c]]}
      BY <2>3 DEF ToolSucceeds, Ask, ledgerVars
    <3> QED BY <2>1, <3>1, <3>2, SameEntries DEF Has, Asked
  <2> QED BY <2>2, <2>3
<1>8. ASSUME NEW c \in Clients, Gate(c) \/ Perform(c) \/ Settle(c) \/ Complete(c)
                                \/ Release(c) \/ ReleaseUnsettled(c)
      PROVE  Has("commit", r) \/ Asked("commit", r)
  BY <1>8, <1>5 DEF Gate, Perform, Settle, Complete, Release, ReleaseUnsettled
<1>9. ASSUME Environment \/ UNCHANGED toolsVars PROVE Has("commit", r) \/ Asked("commit", r)
  BY <1>9, <1>3, <1>4, <1>5 DEF Environment, toolsVars
<1> QED BY <1>6, <1>7, <1>8, <1>9 DEF ToolsNext, ToolStep

LEMMA BillStep ==
    ASSUME GateInv, TypeOK, RailType, StandInv, BillInv, [ToolsNext]_toolsVars
    PROVE  BillInv'
<1> SUFFICES ASSUME NEW r \in Calls PROVE BillOf(r)'
  BY DEF BillInv
<1>0. BillOf(r)
  BY DEF BillInv
<1>1. TookEffect(r) => TookEffect(r)' /\ rail'[r] = rail[r]
  BY EffectStays
<1>2. Has("commit", r)' \/ Asked("commit", r)' => rail[r] = "credits" /\ TookEffect(r)
  <2>1. ASSUME NEW c \in Clients, stage[c] = "performed", Rail(c) = "credits", run[c] = r
        PROVE  rail[r] = "credits" /\ TookEffect(r)
    BY <2>1, Performed DEF Rail
  <2> QED BY <1>0, <2>1, CommitStep DEF BillOf
<1>3. /\ r \in settled' => rail[r] = "x402" /\ r \notin unsettled' /\ TookEffect(r)
      /\ r \in unsettled' => rail[r] = "x402" /\ TookEffect(r)
  <2>1. CASE UNCHANGED <<settled, unsettled>>
    BY <1>0, <2>1 DEF BillOf
  <2>2. ASSUME NEW c \in Clients, Settle(c) \/ ReleaseUnsettled(c)
        PROVE  /\ r \in settled' => rail[r] = "x402" /\ r \notin unsettled' /\ TookEffect(r)
               /\ r \in unsettled' => rail[r] = "x402" /\ TookEffect(r)
    <3>1. /\ stage[c] = "performed" /\ rail[run[c]] = "x402" /\ run[c] \notin settled
          /\ \/ settled' = settled \cup {run[c]} /\ unsettled' = unsettled
             \/ unsettled' = unsettled \cup {run[c]} /\ settled' = settled
      BY <2>2 DEF Settle, ReleaseUnsettled, Rail
    <3> QED BY <1>0, <3>1, Performed DEF BillOf
  <2>3. ASSUME NEW c \in Clients, \/ Gate(c) \/ Start(c) \/ Meter(c) \/ Perform(c)
                                  \/ Complete(c) \/ Release(c)
        PROVE  UNCHANGED <<settled, unsettled>>
    BY <2>3 DEF Gate, Start, Meter, Perform, Complete, Release, railVars
  <2>4. Environment \/ UNCHANGED toolsVars => UNCHANGED <<settled, unsettled>>
    BY DEF Environment, toolsVars, railVars
  <2> QED BY <2>1, <2>2, <2>3, <2>4 DEF ToolsNext, ToolStep
<1> QED BY <1>1, <1>2, <1>3 DEF BillOf

ContractInv == StandInv /\ ToldInv /\ BillInv

LEMMA ContractInvStep ==
    ASSUME GateInv, TypeOK, RailType, FreeInv, ContractInv, [ToolsNext]_toolsVars
    PROVE  ContractInv'
<1> USE DEF ContractInv
<1>1. \A c \in Clients : seen[c].status = "complete" => Finished
  BY DEF ToldInv, SeenKnown, Known
<1>2. \A r \in unsettled : \E o \in effects : o.run = r
  BY DEF BillInv, BillOf, TookEffect, RailType
<1> QED BY <1>1, <1>2, StandStep, ToldStep, BillStep

LEMMA ContractInvHolds == ToolsSpec => []ContractInv
<1>1. ToolsInit => ContractInv
  <2> SUFFICES ASSUME ToolsInit PROVE ContractInv
    OBVIOUS
  <2>1. StandInv
    BY DEF ToolsInit, G!Init, StandInv, Finished, Standing, G!NoRecord
  <2>2. ToldInv
    BY DEF ToolsInit, G!Init, ToldInv, AnswerKnown, SeenKnown, G!Told, G!NoRow
  <2>3. BillInv
    BY DEF ToolsInit, Init, LedgerInit, BillInv, BillOf, Has, Entries, Asked
  <2> QED BY <2>1, <2>2, <2>3 DEF ContractInv
<1>2. GateInv /\ TypeOK /\ RailType /\ FreeInv /\ ContractInv /\ [ToolsNext]_toolsVars
      => ContractInv'
  BY ContractInvStep
<1> QED BY <1>1, <1>2, GateInvHolds, RailTypeHolds, FreeInvHolds, RunsAreMetered,
           TypeCorrect, PTL DEF ToolsSpec

\* Who is told of a failure paid nothing over x402, and on the credits rail was
\* charged nothing, or waits for a release that is on its way, or was told that
\* billing is unavailable; and no effect took place but one that x402 answered
\* with an error and never settled: for any number of retries, whichever rail
\* each run takes, whatever requests of either table are lost or late.
THEOREM NothingForFailures == ToolsSpec => []FailuresAreFree
<1>1. GateInv /\ TypeOK /\ MeteredInv /\ FreeInv /\ ContractInv => FailuresAreFree
  <2> SUFFICES ASSUME GateInv, TypeOK, MeteredInv, FreeInv, ContractInv, NEW c \in Clients,
                      answer[c].kind = "failure", run[c] > 0
               PROVE  /\ run[c] \notin settled
                      /\ Rail(c) = "credits" =>
                            \/ Charge(run[c]) = 0
                            \/ /\ ~confirmed[run[c]]
                               /\ \/ [fn |-> "release", call |-> run[c]] \in net
                                  \/ verdict[run[c]] = "unavailable"
                      /\ \A o \in effects : o.run = run[c] =>
                            Rail(c) = "x402" /\ run[c] \in unsettled
    BY DEF FailuresAreFree
  <2>1. Free(run[c])
    BY DEF FreeInv, FreeCall
  <2>2. run[c] \in Calls
    BY ToolsCallAssumption DEF GateInv, RunsInv, G!TypeOK
  <2>3. ASSUME Rail(c) = "credits", Charge(run[c]) # 0
        PROVE  /\ ~confirmed[run[c]]
               /\ \/ [fn |-> "release", call |-> run[c]] \in net
                  \/ verdict[run[c]] = "unavailable"
    <3> DEFINE r == run[c]
    <3>1. EntriesInv(r) /\ ReceiptInv(r) /\ HoldInv(r) /\ cost[r] \in Nat
      BY <2>2 DEF MeteredInv, CallInv, TypeOK
    <3>2. ~Has("commit", r)
      BY <2>1, <2>2, <2>3 DEF Free, Rail, ContractInv, BillInv, BillOf, TookEffect
    <3>3. Has("hold", r) /\ ~Has("refund", r)
      BY <2>2, <2>3, <3>1, <3>2, ChargeKnown
    <3>4. pc[r] = "answered"
      BY <2>1, <2>3 DEF Free, Rail
    <3>5. ~confirmed[r]
      BY <3>1, <3>2, <3>3 DEF ReceiptInv
    <3> QED BY <3>1, <3>2, <3>3, <3>4, <3>5 DEF HoldInv, Asked
  <2> QED BY <2>1, <2>3 DEF Free, Rail
<1> QED BY <1>1, GateInvHolds, FreeInvHolds, ContractInvHolds, RunsAreMetered, Inductive, PTL

-----------------------------------------------------------------------------
(* What the key costs: nothing, or one commit, or one settlement.          *)

CommittedRuns == {r \in Calls : Has("commit", r)}

BilledOnce ==
    \/ CommittedRuns = {} /\ settled = {}
    \/ \E r \in Calls : CommittedRuns = {r} /\ settled = {}
    \/ \E r \in Calls : CommittedRuns = {} /\ settled = {r}

LEMMA BilledOnceHolds == RailType /\ ContractInv => BilledOnce
<1> SUFFICES ASSUME RailType, ContractInv PROVE BilledOnce
  OBVIOUS
<1>1. ASSUME NEW r \in CommittedRuns \cup settled
      PROVE  r \in Calls /\ TookEffect(r) /\ r \notin unsettled
  BY <1>1 DEF CommittedRuns, RailType, ContractInv, BillInv, BillOf
<1>2. \A r, q \in CommittedRuns \cup settled : r = q
  <2>1. ASSUME NEW r \in CommittedRuns \cup settled
        PROVE  \E o \in Standing : o.run = r
    BY <1>1, <2>1 DEF TookEffect, Standing
  <2>2. \A o, p \in Standing : o = p
    BY DEF ContractInv, StandInv
  <2> QED BY <2>1, <2>2
<1>3. \A r : ~(r \in CommittedRuns /\ r \in settled)
  BY DEF CommittedRuns, ContractInv, BillInv, BillOf
<1>4. CASE CommittedRuns \cup settled = {}
  BY <1>4 DEF BilledOnce
<1>5. CASE CommittedRuns \cup settled # {}
  <2>1. PICK r : r \in CommittedRuns \cup settled
    BY <1>5
  <2>2. CASE r \in CommittedRuns
    <3>1. CommittedRuns = {r} /\ settled = {}
      BY <1>2, <1>3, <2>2
    <3> QED BY <1>1, <2>1, <3>1 DEF BilledOnce
  <2>3. CASE r \in settled
    <3>1. settled = {r} /\ CommittedRuns = {}
      BY <1>2, <1>3, <2>3
    <3> QED BY <1>1, <2>1, <3>1 DEF BilledOnce
  <2> QED BY <2>1, <2>2, <2>3
<1> QED BY <1>4, <1>5

Sum(S) == MapThenSumSet(LAMBDA r : Charge(r), S)
ChargeAdds(f, S) == f = [s \in SUBSET S |-> IF s = {} THEN 0
                                            ELSE Charge(Chosen(s)) + f[s \ {Chosen(s)}]]

LEMMA SumIs == ASSUME NEW S PROVE Sum(S) = (CHOOSE f : ChargeAdds(f, S))[S]
BY DEF Sum, MapThenSumSet, MapThenFoldSet, ChargeAdds, Chosen

LEMMA SumEmpty == Sum({}) = 0
<1> DEFINE f == [s \in SUBSET {} |-> 0]
           g == CHOOSE h : ChargeAdds(h, {})
<1>1. f = [s \in SUBSET {} |-> IF s = {} THEN 0
                               ELSE Charge(Chosen(s)) + f[s \ {Chosen(s)}]]
  OBVIOUS
<1>2. ChargeAdds(f, {})
  BY <1>1 DEF ChargeAdds
<1>3. ChargeAdds(g, {})
  BY <1>2
<1> HIDE DEF g
<1>4. g[{}] = 0
  BY <1>3 DEF ChargeAdds
<1> QED BY <1>4, SumIs DEF g

LEMMA SumOne == ASSUME NEW r, Charge(r) \in Int PROVE Sum({r}) = Charge(r)
<1> DEFINE f == [s \in SUBSET {r} |-> IF s = {} THEN 0 ELSE Charge(r)]
           g == CHOOSE h : ChargeAdds(h, {r})
<1>1. /\ \A s \in SUBSET {r} : s = {} \/ s = {r}
      /\ {r} \ {r} = {} /\ Chosen({r}) = r /\ {} \in SUBSET {r} /\ {r} \in SUBSET {r}
  BY ChosenIsIn
<1>2. f = [s \in SUBSET {r} |-> IF s = {} THEN 0
                                ELSE Charge(Chosen(s)) + f[s \ {Chosen(s)}]]
  <2>1. f[{}] = 0
    BY <1>1
  <2>2. ASSUME NEW s \in SUBSET {r}
        PROVE  f[s] = IF s = {} THEN 0 ELSE Charge(Chosen(s)) + f[s \ {Chosen(s)}]
    <3>1. CASE s = {}
      BY <3>1
    <3>2. CASE s = {r}
      <4>1. Chosen(s) = r /\ s \ {Chosen(s)} = {}
        BY <1>1, <3>2
      <4>2. f[s] = Charge(r)
        BY <3>2
      <4> HIDE DEF f
      <4> QED BY <2>1, <3>2, <4>1, <4>2
    <3> QED BY <1>1, <3>1, <3>2
  <2> QED BY <2>2
<1>3. ChargeAdds(f, {r})
  BY <1>2 DEF ChargeAdds
<1>4. ChargeAdds(g, {r})
  BY <1>3
<1> HIDE DEF g
<1>5. \A s \in SUBSET {r} : g[s] = IF s = {} THEN 0
                                  ELSE Charge(Chosen(s)) + g[s \ {Chosen(s)}]
  BY <1>4 DEF ChargeAdds
<1>6. g[{}] = 0
  BY <1>1, <1>5
<1>7. {r} # {} /\ g[{r}] = Charge(Chosen({r})) + g[{r} \ {Chosen({r})}]
  BY <1>1, <1>5, Zenon
<1>8. g[{r} \ {Chosen({r})}] = 0 /\ Charge(Chosen({r})) = Charge(r)
  BY <1>1, <1>6, Zenon
<1>9. g[{r}] = Charge(r)
  BY <1>7, <1>8
<1> QED BY <1>9, SumIs DEF g

\* What Charged adds up to in each of the three cases.
ChargedAddsUp ==
    /\ CommittedRuns = {} /\ settled = {} => Charged = 0
    /\ \A r \in Calls : CommittedRuns = {r} /\ settled = {} => Charged = Charge(r)
    /\ \A r \in Calls : CommittedRuns = {} /\ settled = {r} => Charged = Price

LEMMA ChargedIs == ChargeBounded => ChargedAddsUp
<1> SUFFICES ASSUME ChargeBounded PROVE ChargedAddsUp
  OBVIOUS
<1>1. Charged = Sum(CommittedRuns) + Price * Cardinality(settled)
  BY DEF Charged, Sum, CommittedRuns
<1>2. Price \in Nat
  BY ToolsCallAssumption
<1>3. settled = {} => Charged = Sum(CommittedRuns) + 0
  BY <1>1, <1>2, FS_EmptySet
<1>4. \A r : settled = {r} => Charged = Sum(CommittedRuns) + Price
  BY <1>1, <1>2, FS_Singleton
<1>5. ASSUME NEW r \in Calls PROVE Charge(r) \in Int /\ Sum({r}) = Charge(r)
  <2>1. Charge(r) \in Int
    BY CreditAssumption DEF ChargeBounded
  <2> QED BY <2>1, SumOne
<1>6. CommittedRuns = {} => Sum(CommittedRuns) = 0
  BY SumEmpty, Zenon
<1>7. ASSUME NEW r \in Calls, CommittedRuns = {r} PROVE Sum(CommittedRuns) = Charge(r)
  BY <1>5, <1>7, Zenon
<1> HIDE DEF CommittedRuns
<1> QED BY <1>2, <1>3, <1>4, <1>5, <1>6, <1>7 DEF ChargedAddsUp

-----------------------------------------------------------------------------
(* The contract's variables and steps, as the handler has them.            *)

BilledEffects == {o \in effects : Has("commit", o.run) \/ o.run \in settled}
ToldOf(c) == IF answer[c].kind = "result" THEN {answer[c].outcome} ELSE {}
ToldAll == [c \in Clients |-> ToldOf(c)]

LEMMA ContractStutters ==
    ASSUME Standing' = Standing, BilledEffects' = BilledEffects, Charged' = Charged, ToldAll' = ToldAll
    PROVE  UNCHANGED Contract!vars
BY DEF Contract!vars, Standing, BilledEffects, ToldAll, ToldOf

LEMMA ContractTells ==
    ASSUME Standing' = Standing, BilledEffects' = BilledEffects, Charged' = Charged, NEW c \in Clients,
           ToldAll' \in {[ToldAll EXCEPT ![c] = Standing], [ToldAll EXCEPT ![c] = {}]}
    PROVE  Contract!Next
<1>1. Contract!Tell(c)
  BY DEF Contract!Tell, Standing, BilledEffects, ToldAll, ToldOf
<1> QED BY <1>1 DEF Contract!Next

LEMMA ContractTakesEffect ==
    ASSUME Standing = {}, NEW o \in [args : Args, run : Calls], Standing' = {o},
           BilledEffects' = BilledEffects, Charged' = Charged, ToldAll' = ToldAll
    PROVE  Contract!Next
<1>1. Contract!TakeEffect
  BY DEF Contract!TakeEffect, Standing, BilledEffects, ToldAll, ToldOf
<1> QED BY <1>1 DEF Contract!Next

LEMMA ContractCharges ==
    ASSUME Standing' = Standing, BilledEffects = {}, NEW o \in Standing, BilledEffects' = {o},
           Charged' \in 0..(MaxHold + Price), ToldAll' = ToldAll
    PROVE  Contract!Next
<1>1. Contract!Charge
  BY DEF Contract!Charge, Standing, BilledEffects, ToldAll, ToldOf
<1> QED BY <1>1 DEF Contract!Next

LEMMA ContractGivesBack ==
    ASSUME Standing' = Standing, BilledEffects' = BilledEffects, BilledEffects # {}, Charged' = 0,
           ToldAll' = ToldAll
    PROVE  Contract!Next
<1>1. Contract!GiveBack
  BY DEF Contract!GiveBack, Standing, BilledEffects, ToldAll, ToldOf
<1> QED BY <1>1 DEF Contract!Next

LEMMA ContractWritesOff ==
    ASSUME Standing # {}, Standing' = {}, BilledEffects = {}, BilledEffects' = BilledEffects, Charged' = Charged,
           \A c \in Clients : ToldAll[c] = {}, ToldAll' = ToldAll
    PROVE  Contract!Next
<1>1. Contract!WriteOff
  BY DEF Contract!WriteOff, Standing, BilledEffects, ToldAll, ToldOf
<1> QED BY <1>1 DEF Contract!Next

\* What billing adds up to in a state, by the invariants.
Bill ==
    /\ BilledOnce /\ ChargedAddsUp /\ ChargeBounded
    /\ BilledEffects \subseteq Standing
    /\ \A r \in CommittedRuns \cup settled : \E o \in BilledEffects : o.run = r

LEMMA BillHolds == RailType /\ ContractInv /\ ChargeBounded => Bill
<1> SUFFICES ASSUME RailType, ContractInv, ChargeBounded PROVE Bill
  OBVIOUS
<1>1. BilledEffects \subseteq Standing
  <2> SUFFICES ASSUME NEW o \in BilledEffects PROVE o.run \notin unsettled
    BY DEF BilledEffects, Standing
  <2>1. CASE o.run \in settled
    BY <2>1 DEF RailType, ContractInv, BillInv, BillOf
  <2>2. CASE Has("commit", o.run)
    BY <2>2 DEF BilledEffects, RailType, ContractInv, BillInv, BillOf
  <2> QED BY <2>1, <2>2 DEF BilledEffects
<1>2. ASSUME NEW r \in CommittedRuns \cup settled PROVE \E o \in BilledEffects : o.run = r
  BY <1>2 DEF CommittedRuns, BilledEffects, RailType, ContractInv, BillInv, BillOf, TookEffect
<1> QED BY <1>1, <1>2, BilledOnceHolds, ChargedIs DEF Bill

\* The ledger says the same of a run while its entries are the same.
LEMMA SameCharge ==
    ASSUME NEW r, \A t \in {"hold", "commit", "refund"} : Entries(t, r)' = Entries(t, r)
    PROVE  Has("commit", r)' = Has("commit", r) /\ Charge(r)' = Charge(r)
<1>1. ASSUME NEW t \in {"hold", "commit", "refund"}
      PROVE  Has(t, r)' = Has(t, r) /\ Amount(t, r)' = Amount(t, r)
  <2>1. Entries(t, r)' = Entries(t, r)
    OBVIOUS
  <2>2. (CHOOSE e \in Entries(t, r) : TRUE)' = (CHOOSE e \in Entries(t, r) : TRUE)
    BY <2>1, Zenon
  <2> QED BY <2>1, <2>2 DEF Has, Amount
<1> QED BY <1>1 DEF Charge

LEMMA PaidStays ==
    ASSUME Bill, Bill', settled' = settled, CommittedRuns' = CommittedRuns,
           \A r \in CommittedRuns : Charge(r)' = Charge(r)
    PROVE  Charged' = Charged
<1>1. CASE CommittedRuns = {} /\ settled = {}
  BY <1>1 DEF Bill, ChargedAddsUp
<1>2. ASSUME NEW r \in Calls, CommittedRuns = {r} /\ settled = {}
      PROVE  Charged' = Charged
  BY <1>2 DEF Bill, ChargedAddsUp
<1>3. ASSUME NEW r \in Calls, CommittedRuns = {} /\ settled = {r}
      PROVE  Charged' = Charged
  BY <1>3 DEF Bill, ChargedAddsUp
<1> QED BY <1>1, <1>2, <1>3 DEF Bill, BilledOnce

\* While the ledger and the settlements stand still, so does the bill.
LEMMA BillStays ==
    ASSUME Bill, Bill', ledger' = ledger, settled' = settled
    PROVE  /\ Charged' = Charged
           /\ \A r : Has("commit", r)' = Has("commit", r)
           /\ effects' = effects => BilledEffects' = BilledEffects
<1>1. \A r : Has("commit", r)' = Has("commit", r) /\ Charge(r)' = Charge(r)
  BY SameEntries, SameCharge
<1>2. CommittedRuns' = CommittedRuns
  BY <1>1 DEF CommittedRuns
<1>3. effects' = effects => BilledEffects' = BilledEffects
  BY <1>1 DEF BilledEffects
<1> QED BY <1>1, <1>2, <1>3, PaidStays

\* What one request to the database does to a run that has committed: nothing,
\* or it gives its cost back.
LEMMA ServedCommitted ==
    ASSUME TypeOK, MeteredInv, ChargeBounded, ChargeBounded', MeteredInv',
           NEW q \in net, Serve(q), NEW r \in Calls, Has("commit", r)
    PROVE  Has("commit", r)' /\ Charge(r)' \in {0, Charge(r)}
<1>1. EntriesInv(r) /\ cost[r] \in Nat /\ Has("hold", r)
  BY DEF MeteredInv, CallInv, EntriesInv, TypeOK
<1>2. ledger \subseteq ledger' /\ cost' = cost
  BY DEF Serve, CreditGrant, CreditReserve, CreditCommit, CreditRelease, ledgerVars, callVars
<1>3. Has("commit", r)'
  BY <1>2 DEF Has, Entries
<1>4. CASE Has("refund", r)
  <2>1. \A t \in {"hold", "commit", "refund"} : Entries(t, r)' = Entries(t, r)
    <3>1. CASE q.fn = "grant"
      BY <3>1, GrantEntries DEF Serve
    <3>2. CASE q.fn # "grant" /\ q.call = r
      <4>1. ledger' = ledger
        BY <3>2, <1>1, <1>4, ServeEffect
           DEF Serve, CreditReserve, CreditCommit, CreditRelease, ledgerVars, Function
      <4> QED BY <4>1, SameEntries
    <3>3. CASE q.fn # "grant" /\ q.call # r
      <4>1. \A e \in ledger' : e \in ledger \/ e.ref = q.call
        <5>1. CASE q.fn = "reserve"
          BY <5>1 DEF Serve, CreditReserve, ledgerVars
        <5>2. CASE q.fn = "commit"
          BY <5>2 DEF Serve, CreditCommit, ledgerVars
        <5>3. CASE q.fn = "release"
          BY <5>3 DEF Serve, CreditRelease, ledgerVars
        <5> QED BY <3>3, <5>1, <5>2, <5>3, ServeEffect DEF Function
      <4> QED BY <1>2, <3>3, <4>1 DEF Entries
    <3> QED BY <3>1, <3>2, <3>3
  <2> QED BY <1>3, <2>1, SameCharge
<1>5. CASE ~Has("refund", r)
  <2>1. Charge(r) = MaxHold /\ cost[r] = MaxHold
    BY <1>1, <1>5, ChargeKnown DEF EntriesInv
  <2>2. Charge(r)' \in {0, cost[r]}
    BY <1>2, <1>3 DEF ChargeBounded
  <2> QED BY <1>3, <2>1, <2>2
<1> QED BY <1>4, <1>5

\* The requests of the credits rail charge the standing effect, or give its
\* charge back.
LEMMA ServeContract ==
    ASSUME GateInv, TypeOK, MeteredInv, MeteredInv', RailType, ContractInv, Bill, Bill',
           UNCHANGED gateVars, UNCHANGED railVars, [ToolsNext]_toolsVars,
           NEW q \in net, Serve(q)
    PROVE  Contract!Next \/ UNCHANGED Contract!vars
<1>1. UNCHANGED <<effects, settled, unsettled, answer>>
  BY DEF gateVars, railVars
<1>2. Standing' = Standing /\ ToldAll' = ToldAll
  BY <1>1 DEF Standing, ToldAll, ToldOf
<1>3. \A r \in Calls : Has("commit", r) => Has("commit", r)' /\ Charge(r)' \in {0, Charge(r)}
  BY ServedCommitted DEF Bill
<1>4. CASE \E r \in Calls : Has("commit", r)' /\ ~Has("commit", r)
  <2>1. PICK r \in Calls : Has("commit", r)' /\ ~Has("commit", r)
    BY <1>4
  <2>2. \/ Asked("commit", r)
        \/ \E c \in Clients : stage[c] = "performed" /\ Rail(c) = "credits" /\ run[c] = r
    BY <2>1, CommitStep
  <2>3. rail[r] = "credits" /\ TookEffect(r)
    BY <2>2, Performed DEF ContractInv, BillInv, BillOf, Rail
  <2>4. PICK o \in effects : o.run = r
    BY <2>3 DEF TookEffect
  <2>5. o \in Standing /\ o \in BilledEffects' /\ r \notin settled
    BY <1>1, <2>1, <2>3, <2>4 DEF Standing, BilledEffects, ContractInv, BillInv, BillOf
  <2>6. \A p \in Standing : p = o
    BY <2>5 DEF ContractInv, StandInv
  <2>7. o \notin BilledEffects
    BY <2>1, <2>4, <2>5 DEF BilledEffects
  <2>8. BilledEffects = {} /\ BilledEffects' = {o}
    BY <1>2, <2>5, <2>6, <2>7 DEF Bill
  <2>9. Charged' \in 0..(MaxHold + Price)
    <3>1. r \in CommittedRuns'
      BY <2>1 DEF CommittedRuns
    <3>2. CommittedRuns' = {r} /\ settled' = {}
      BY <3>1, <1>1, <2>5 DEF Bill, BilledOnce
    <3>3. Charged' = Charge(r)' /\ Charge(r)' \in 0..MaxHold
      BY <3>2 DEF Bill, ChargedAddsUp, ChargeBounded
    <3> QED BY <3>3, ToolsCallAssumption, CreditAssumption
  <2> QED BY <1>2, <2>5, <2>8, <2>9, ContractCharges
<1>5. CASE \A r \in Calls : Has("commit", r)' => Has("commit", r)
  <2>1. CommittedRuns' = CommittedRuns
    BY <1>3, <1>5 DEF CommittedRuns
  <2>2. BilledEffects' = BilledEffects
    <3>1. ASSUME NEW o \in effects PROVE o.run \in Calls
      BY <3>1, ToolsCallAssumption DEF GateInv, RunsInv, G!TypeOK, G!Outcome
    <3> QED BY <1>1, <1>3, <1>5, <3>1 DEF BilledEffects
  <2>3. CASE \A r \in CommittedRuns : Charge(r)' = Charge(r)
    BY <1>1, <1>2, <2>1, <2>2, <2>3, PaidStays, ContractStutters
  <2>4. ASSUME NEW r \in CommittedRuns, Charge(r)' # Charge(r)
        PROVE  Contract!Next
    <3>1. r \in Calls /\ Charge(r)' = 0
      BY <1>3, <2>4 DEF CommittedRuns
    <3>2. CommittedRuns' = {r} /\ settled' = {}
      BY <1>1, <2>1, <2>4 DEF Bill, BilledOnce
    <3>3. Charged' = 0
      BY <3>1, <3>2 DEF Bill, ChargedAddsUp
    <3>4. BilledEffects # {}
      BY <2>4 DEF Bill
    <3> QED BY <1>2, <2>2, <3>3, <3>4, ContractGivesBack
  <2> QED BY <2>3, <2>4
<1> QED BY <1>4, <1>5

\* Steps that change neither effects nor bill, nor what anyone is told.
LEMMA ContractIdle ==
    ASSUME Bill, Bill', UNCHANGED <<effects, settled, unsettled, ledger, answer>>
    PROVE  UNCHANGED Contract!vars
<1>1. Standing' = Standing /\ ToldAll' = ToldAll
  BY DEF Standing, ToldAll, ToldOf
<1>2. Charged' = Charged /\ BilledEffects' = BilledEffects
  BY BillStays
<1> QED BY <1>1, <1>2, ContractStutters

\* Steps that answer one client, and do nothing to the world.
LEMMA ContractAnswers ==
    ASSUME Bill, Bill', ContractInv', UNCHANGED <<effects, settled, unsettled, ledger>>,
           NEW c \in Clients, \A d \in Clients : d # c => answer'[d] = answer[d]
    PROVE  Contract!Next
<1>1. Standing' = Standing /\ Charged' = Charged /\ BilledEffects' = BilledEffects
  BY BillStays DEF Standing
<1>2. ToldOf(c)' \in {Standing, {}}
  <2>1. CASE answer'[c].kind = "result"
    <3>1. AnswerKnown(c)'
      BY DEF ContractInv, ToldInv
    <3>2. Finished' /\ answer'[c].outcome = mem'[Proc].outcome
      BY <2>1, <3>1 DEF AnswerKnown, Known, Proc
    <3>3. Standing' = {mem'[Proc].outcome}
      BY <3>2 DEF ContractInv, StandInv, Proc
    <3> QED BY <1>1, <2>1, <3>2, <3>3 DEF ToldOf
  <2>2. CASE answer'[c].kind # "result"
    BY <2>2 DEF ToldOf
  <2> QED BY <2>1, <2>2
<1>3. \A d \in Clients : d # c => ToldOf(d)' = ToldOf(d)
  BY DEF ToldOf
<1>4. ToldAll' = [ToldAll EXCEPT ![c] = ToldOf(c)']
  BY <1>3 DEF ToldAll
<1>5. ToldAll' \in {[ToldAll EXCEPT ![c] = Standing], [ToldAll EXCEPT ![c] = {}]}
  BY <1>2, <1>4
<1> QED BY <1>1, <1>5, ContractTells

LEMMA PerformContract ==
    ASSUME GateInv, FreeInv, ContractInv, ContractInv', Bill, Bill',
           NEW c \in Clients, Perform(c)
    PROVE  Contract!Next
<1>1. /\ stage[c] = "executing" /\ stage' = [stage EXCEPT ![c] = "performed"]
      /\ effects' = effects \cup {Now(c)}
      /\ UNCHANGED <<args, run, settled, unsettled, ledger, answer>>
  BY DEF Perform, G!Perform, Now, vars, ledgerVars
<1>2. Standing = {}
  BY <1>1, NoneStands DEF ContractInv
<1>3. Standing' = {Now(c)}
  <2>1. stage'[c] = "performed" /\ Now(c)' = Now(c)
    BY <1>1 DEF GateInv, G!TypeOK, Now
  <2> QED BY <2>1 DEF ContractInv, StandInv
<1>4. Now(c) \in [args : Args, run : Calls]
  BY <1>1, ToolsCallAssumption DEF GateInv, RunsInv, Running, G!TypeOK, Now
<1>5. Charged' = Charged /\ \A r : Has("commit", r)' = Has("commit", r)
  BY <1>1, BillStays
<1>6. BilledEffects' = BilledEffects
  <2>1. run[c] \in Calls /\ ~TookEffect(run[c]) /\ run[c] \notin settled
    BY <1>1, <1>4 DEF FreeInv, FreeCall, TookEffect, Now
  <2>2. ~Has("commit", run[c])
    BY <2>1 DEF ContractInv, BillInv, BillOf
  <2> QED BY <1>1, <1>5, <2>1, <2>2 DEF BilledEffects, Now
<1>7. ToldAll' = ToldAll
  BY <1>1 DEF ToldAll, ToldOf
<1> QED BY <1>2, <1>3, <1>4, <1>5, <1>6, <1>7, ContractTakesEffect

\* On an x402 rail nothing is billed before the settlement.
LEMMA NotYetBilled ==
    ASSUME GateInv, ContractInv, Bill, NEW c \in Clients, stage[c] = "performed",
           Rail(c) = "x402", run[c] \notin settled
    PROVE  BilledEffects = {} /\ Standing = {Now(c)} /\ run[c] \in Calls
<1>1. Standing = {Now(c)} /\ run[c] \in Calls
  BY OneStands, Performed DEF ContractInv
<1>2. ~Has("commit", run[c])
  BY <1>1 DEF Rail, ContractInv, BillInv, BillOf
<1>3. Now(c) \notin BilledEffects
  BY <1>2 DEF BilledEffects, Now
<1> QED BY <1>1, <1>3 DEF Bill

LEMMA SettleContract ==
    ASSUME GateInv, ContractInv, Bill, Bill', NEW c \in Clients, Settle(c)
    PROVE  Contract!Next
<1>1. /\ stage[c] = "performed" /\ Rail(c) = "x402" /\ run[c] \notin settled
      /\ settled' = settled \cup {run[c]}
      /\ UNCHANGED <<effects, unsettled, ledger, answer>>
  BY DEF Settle, gateVars, vars, ledgerVars
<1>2. BilledEffects = {} /\ Standing = {Now(c)} /\ run[c] \in Calls
  BY <1>1, NotYetBilled
<1>3. Standing' = Standing /\ ToldAll' = ToldAll
  BY <1>1 DEF Standing, ToldAll, ToldOf
<1>4. BilledEffects' = {Now(c)}
  <2>1. Now(c) \in BilledEffects'
    BY <1>1, <1>2 DEF BilledEffects, Now, Standing
  <2> QED BY <1>2, <1>3, <2>1 DEF Bill
<1>5. Charged' \in 0..(MaxHold + Price)
  <2>1. run[c] \in settled'
    BY <1>1
  <2>2. CommittedRuns' = {} /\ settled' = {run[c]}
    BY <2>1 DEF Bill, BilledOnce
  <2>3. Charged' = Price
    BY <1>2, <2>2 DEF Bill, ChargedAddsUp
  <2> QED BY <2>3, ToolsCallAssumption, CreditAssumption
<1> QED BY <1>2, <1>3, <1>4, <1>5, ContractCharges

LEMMA WriteOffContract ==
    ASSUME GateInv, ContractInv, Bill, Bill', NEW c \in Clients, ReleaseUnsettled(c)
    PROVE  Contract!Next
<1>1. /\ stage[c] = "performed" /\ Rail(c) = "x402" /\ run[c] \notin settled
      /\ unsettled' = unsettled \cup {run[c]}
      /\ UNCHANGED <<effects, settled, ledger>>
      /\ answer' = [answer EXCEPT ![c] = G!Told("failure")]
  BY DEF ReleaseUnsettled, vars, ledgerVars
<1>2. BilledEffects = {} /\ Standing = {Now(c)} /\ mem[Proc].status = "pending"
  BY <1>1, NotYetBilled, OneStands DEF ContractInv
<1>3. Standing' = {}
  BY <1>1, <1>2 DEF Standing, Now
<1>4. Charged' = Charged /\ BilledEffects' = BilledEffects
  BY <1>1, BillStays
<1>5. ASSUME NEW d \in Clients PROVE ToldOf(d) = {} /\ ToldOf(d)' = {}
  <2>1. answer[d].kind # "result"
    BY <1>2 DEF ContractInv, ToldInv, AnswerKnown, Known, Finished
  <2>2. answer'[d].kind # "result"
    BY <1>1, <2>1 DEF GateInv, G!TypeOK, G!Told
  <2> QED BY <2>1, <2>2 DEF ToldOf
<1>6. ToldAll' = ToldAll /\ \A d \in Clients : ToldAll[d] = {}
  BY <1>5 DEF ToldAll
<1> QED BY <1>2, <1>3, <1>4, <1>6, ContractWritesOff

LEMMA GrantContract ==
    ASSUME Bill, Bill', UNCHANGED gateVars, UNCHANGED railVars, OrderPaid
    PROVE  UNCHANGED Contract!vars
<1>1. UNCHANGED <<effects, settled, unsettled, answer>>
  BY DEF gateVars, railVars
<1>2. \A r : Has("commit", r)' = Has("commit", r) /\ Charge(r)' = Charge(r)
  BY GrantEntries, SameCharge DEF OrderPaid
<1>3. CommittedRuns' = CommittedRuns /\ BilledEffects' = BilledEffects
  BY <1>1, <1>2 DEF CommittedRuns, BilledEffects
<1>4. Charged' = Charged
  BY <1>1, <1>2, <1>3, PaidStays
<1>5. Standing' = Standing /\ ToldAll' = ToldAll
  BY <1>1 DEF Standing, ToldAll, ToldOf
<1> QED BY <1>3, <1>4, <1>5, ContractStutters

\* Every step of the handler is one of the contract's, or none.
LEMMA ContractStep ==
    ASSUME GateInv, TypeOK, MeteredInv, MeteredInv', RailType, FreeInv,
           ContractInv, ContractInv', Bill, Bill', [ToolsNext]_toolsVars
    PROVE  Contract!Next \/ UNCHANGED Contract!vars
<1>1. ASSUME NEW c \in Clients, Gate(c) PROVE Contract!Next \/ UNCHANGED Contract!vars
  <2>1. UNCHANGED <<effects, settled, unsettled, ledger>>
    BY <1>1 DEF Gate, railVars, vars, ledgerVars, G!Call, G!LookupRead, G!ReplayDurable,
                G!RefuseDurable, G!FallThrough, G!DurableResolve
  <2>2. \A d \in Clients : d # c => answer'[d] = answer[d]
    BY <1>1 DEF Gate, G!Call, G!LookupRead, G!ReplayDurable, G!RefuseDurable,
                G!FallThrough, G!DurableResolve, GateInv, G!TypeOK
  <2> QED BY <2>1, <2>2, ContractAnswers
<1>2. ASSUME NEW c \in Clients, Complete(c) \/ Release(c)
      PROVE  Contract!Next \/ UNCHANGED Contract!vars
  <2>1. /\ UNCHANGED <<effects, settled, unsettled, ledger>>
        /\ \A d \in Clients : d # c => answer'[d] = answer[d]
    BY <1>2 DEF Complete, Release, G!Complete, G!Release, railVars, vars, ledgerVars,
                GateInv, G!TypeOK
  <2> QED BY <2>1, ContractAnswers
<1>3. ASSUME NEW c \in Clients, Start(c) \/ Meter(c) PROVE UNCHANGED Contract!vars
  <2>1. UNCHANGED <<effects, settled, unsettled, answer>>
    BY <1>3 DEF Start, Meter, G!DurableClaim, gateVars, railVars
  <2>2. ledger' = ledger
    BY <1>3 DEF Start, Meter, Arrive, FindAccount, MissAccount, Granted, BillingUnavailable,
                InsufficientCredits, StartTool, ToolSucceeds, ToolFails, FailedAnswered,
                ToolRaises, RaisedAnswered,
                Committed, CommitFailed, Undone, vars, ledgerVars
  <2> QED BY <2>1, <2>2, ContractIdle
<1>4. ASSUME Environment PROVE Contract!Next \/ UNCHANGED Contract!vars
  <2>1. ASSUME NEW w \in late, G!LateWriteLands(w), UNCHANGED <<vars, railVars>>
        PROVE  UNCHANGED Contract!vars
    BY <2>1, ContractIdle DEF G!LateWriteLands, G!callVars, vars, ledgerVars, railVars
  <2> QED BY <1>4, <2>1, ServeContract, GrantContract DEF Environment
<1>5. ASSUME UNCHANGED toolsVars PROVE UNCHANGED Contract!vars
  BY <1>5, ContractIdle DEF toolsVars, gateVars, vars, ledgerVars, railVars
<1> QED BY <1>1, <1>2, <1>3, <1>4, <1>5, PerformContract, SettleContract, WriteOffContract
        DEF ToolsNext, ToolStep

\* The whole handler implements RetryContract: for any number of clients and
\* retries, whichever rail each attempt takes and whatever either table loses
\* or delays, one effect stands under the key, it is charged at most once, a
\* charge that is given back stays given back, and a client is told that
\* effect's result or none.
THEOREM ContractKept == ToolsSpec => KeepsContract
<1>1. ToolsInit => Contract!Init
  <2> SUFFICES ASSUME ToolsInit PROVE Contract!Init
    OBVIOUS
  <2>1. effects = {} /\ settled = {} /\ \A c \in Clients : answer[c].kind # "result"
    BY DEF ToolsInit, G!Init, G!Told
  <2>2. {r \in Calls : Has("commit", r)} = {}
    BY DEF ToolsInit, Init, LedgerInit, Has, Entries
  <2>3. Charged = 0
    <3>1. Charged = Sum({}) + Price * 0
      BY <2>1, <2>2, FS_EmptySet DEF Charged, Sum
    <3> QED BY <3>1, SumEmpty, ToolsCallAssumption
  <2> QED BY <2>1, <2>3 DEF Contract!Init
<1>2. GateInv /\ TypeOK /\ MeteredInv /\ MeteredInv' /\ RailType /\ FreeInv /\ ContractInv
      /\ ContractInv' /\ Bill /\ Bill' /\ [ToolsNext]_toolsVars
      => [Contract!Next]_(Contract!vars)
  BY ContractStep
<1>3. ToolsSpec => []Bill
  BY BillHolds, RailTypeHolds, ContractInvHolds, RunsAreMetered, ChargesBounded, PTL
<1> QED BY <1>1, <1>2, <1>3, GateInvHolds, RailTypeHolds, FreeInvHolds, ContractInvHolds,
           RunsAreMetered, Inductive, PTL DEF ToolsSpec, KeepsContract, Contract!Spec
===============================================================================

----------------------- MODULE IdempotencyGateProofs -----------------------
(***************************************************************************)
(* What holds of the retry contract for any number of clients, processes,  *)
(* runs and crashes.                                                       *)
(***************************************************************************)
EXTENDS IdempotencyGate, TLAPS

\* A write leaves a well-formed table behind.
LEMMA AppliedType ==
    ASSUME rows \subseteq Row, NEW w \in Write
    PROVE  Applied(w) \subseteq Row
<1>1. w.status \in {"pending", "released", "complete"} /\ w.outcome \in OutcomeOrNone
  BY DEF Write
<1>2. PendingRow \in Row
  BY DEF PendingRow, Row, OutcomeOrNone
<1>3. ASSUME NEW r \in rows
      PROVE  [status |-> w.status,
              outcome |-> IF w.status = "complete" THEN w.outcome ELSE r.outcome] \in Row
  <2>1. r.outcome \in OutcomeOrNone
    BY DEF Row
  <2> QED BY <1>1, <2>1 DEF Row
<1>4. CASE w.op = "insert"
  BY <1>2, <1>4 DEF Applied
<1>5. CASE w.op # "insert"
  BY <1>3, <1>5 DEF Applied
<1> QED BY <1>4, <1>5

LEMMA DurableWriteType ==
    ASSUME rows \subseteq Row, late \subseteq Write, NEW w \in Write, DurableWrite(w)
    PROVE  rows' \subseteq Row /\ late' \subseteq Write
BY AppliedType DEF DurableWrite

LEMMA RecordTypes ==
    /\ NoRecord \in MemRecord /\ PendingRecord \in MemRecord
    /\ \A o \in OutcomeOrNone : CompleteRecord(o) \in MemRecord /\ Result(o) \in Answer
    /\ \A k \in {"none", "failure", "in_progress", "conflict"} : Told(k) \in Answer
    /\ \A o \in OutcomeOrNone, a \in Args : Replay(o, a) \in Answer
    /\ Insert \in Write
    /\ \A s \in {"released", "complete"}, o \in OutcomeOrNone : Resolve(s, o) \in Write
    /\ NoOutcome \in OutcomeOrNone
BY DEF NoRecord, PendingRecord, CompleteRecord, MemRecord, Result, Told, Answer,
       Replay, Insert, Resolve, Write, NoOutcome, OutcomeOrNone, Outcome

\* Each variable stays in its type: claims, rows, delayed writes and answers
\* are of the shapes the code gives them, under every interleaving.
THEOREM TypeCorrect == Spec => []TypeOK
<1>1. Init => TypeOK
  BY RecordTypes DEF Init, TypeOK, Phase
<1>2. TypeOK /\ [Next]_vars => TypeOK'
  <2> SUFFICES ASSUME TypeOK, [Next]_vars PROVE TypeOK'
    OBVIOUS
  <2> USE RecordTypes DEF TypeOK
  <2>1. ASSUME NEW c \in Calls, NEW p \in Procs, NEW a \in Args, Call(c, p, a)
        PROVE  TypeOK'
    <3>1. mem[p].outcome \in OutcomeOrNone
      BY DEF MemRecord
    <3>2. pc' \in [Calls -> Phase]
      BY <2>1 DEF Call, Phase
    <3>3. mem' \in [Procs -> MemRecord]
      BY <2>1 DEF Call
    <3>4. answer' \in [Calls -> Answer]
      BY <2>1, <3>1 DEF Call
    <3> QED BY <2>1, <3>2, <3>3, <3>4 DEF Call
  <2>2. ASSUME NEW c \in Calls, LookupRead(c) PROVE TypeOK'
    BY <2>2 DEF LookupRead, Phase
  <2>3. ASSUME NEW c \in Calls, ReplayDurable(c) PROVE TypeOK'
    <3>0. NoRow.status # "complete"
      BY DEF NoRow
    <3>1. seen[c] \in Row
      BY <2>3, <3>0 DEF ReplayDurable
    <3>2. seen[c].outcome \in OutcomeOrNone
      BY <3>1 DEF Row
    <3> QED BY <2>3, <3>2 DEF ReplayDurable, Phase
  <2>4. ASSUME NEW c \in Calls, RefuseDurable(c) PROVE TypeOK'
    BY <2>4 DEF RefuseDurable, StoreRelease, Phase
  <2>5. ASSUME NEW c \in Calls, FallThrough(c) PROVE TypeOK'
    BY <2>5 DEF FallThrough, Phase
  <2>6. ASSUME NEW c \in Calls, DurableClaim(c) PROVE TypeOK'
    <3>1. rows' \subseteq Row /\ late' \subseteq Write
      BY <2>6, DurableWriteType DEF DurableClaim
    <3> QED BY <2>6, <3>1 DEF DurableClaim, Phase
  <2>7. ASSUME NEW c \in Calls, Perform(c) PROVE TypeOK'
    BY <2>7 DEF Perform, Phase, Outcome
  <2>8. ASSUME NEW c \in Calls, Release(c) PROVE TypeOK'
    BY <2>8 DEF Release, StoreRelease, Phase
  <2>9. ASSUME NEW c \in Calls, Complete(c) PROVE TypeOK'
    <3>1. [args |-> args[c], run |-> run[c]] \in OutcomeOrNone
      BY DEF OutcomeOrNone, Outcome
    <3> QED BY <2>9, <3>1 DEF Complete, Phase
  <2>10. ASSUME NEW c \in Calls, DurableResolve(c) PROVE TypeOK'
    <3>1. answer[c].outcome \in OutcomeOrNone
      BY DEF Answer
    <3>2. rows' \subseteq Row /\ late' \subseteq Write
      BY <2>10, <3>1, DurableWriteType DEF DurableResolve
    <3> QED BY <2>10, <3>2 DEF DurableResolve, Phase
  <2>11. ASSUME NEW w \in late, LateWriteLands(w) PROVE TypeOK'
    BY <2>11, AppliedType DEF LateWriteLands, callVars
  <2>12. ASSUME NEW p \in Procs, Expire(p) PROVE TypeOK'
    BY <2>12 DEF Expire, callVars
  <2>13. ASSUME NEW p \in Procs, Crash(p) PROVE TypeOK'
    BY <2>13 DEF Crash, Phase
  <2>14. CASE UNCHANGED vars
    BY <2>14 DEF vars, callVars
  <2> QED
    BY <2>1, <2>2, <2>3, <2>4, <2>5, <2>6, <2>7, <2>8, <2>9, <2>10, <2>11,
       <2>12, <2>13, <2>14 DEF Next, Serve
<1> QED BY <1>1, <1>2, PTL DEF Spec

----------------------------------------------------------------------------
(* Mutual exclusion of the calls that own one process's claim.  The        *)
(* property is inductive as it stands: a claim is handed out only while    *)
(* the record is absent, hence while nobody holds one.                     *)

\* Steps that leave the records alone and let no call start to hold a claim.
LEMMA HoldersShrink ==
    ASSUME OneHolderPerProcess, mem' = mem, at' = at,
           \A c \in Calls : pc'[c] \in Holding => pc[c] \in Holding
    PROVE  OneHolderPerProcess'
BY DEF OneHolderPerProcess

\* Steps by which the holder c gives its claim up, whatever becomes of the
\* record of its process.
LEMMA HolderLeaves ==
    ASSUME OneHolderPerProcess, TypeOK, NEW c \in Calls, pc[c] \in Holding,
           NEW x, x \notin Holding, pc' = [pc EXCEPT ![c] = x], at' = at,
           \A p \in Procs : p # at[c] => mem'[p] = mem[p]
    PROVE  OneHolderPerProcess'
<1> SUFFICES ASSUME NEW d \in Calls, pc'[d] \in Holding
             PROVE  /\ mem'[at'[d]].status = "pending"
                    /\ \A e \in Calls : pc'[e] \in Holding /\ at'[e] = at'[d] => e = d
  BY DEF OneHolderPerProcess
<1>1. d # c /\ pc[d] \in Holding
  BY DEF TypeOK
<1>2. at[d] # at[c]
  BY <1>1 DEF OneHolderPerProcess
<1>3. mem'[at'[d]].status = "pending"
  BY <1>1, <1>2 DEF OneHolderPerProcess, TypeOK
<1>4. ASSUME NEW e \in Calls, pc'[e] \in Holding, at'[e] = at'[d] PROVE e = d
  BY <1>1, <1>4 DEF OneHolderPerProcess, TypeOK
<1> QED BY <1>3, <1>4

\* At any time at most one call owns the claim of a process, and the record
\* of that process stays pending until this call resolves it.
THEOREM OneHolder == Spec => []OneHolderPerProcess
<1>1. Init => OneHolderPerProcess
  BY DEF Init, OneHolderPerProcess, Holding
<1>2. TypeOK /\ OneHolderPerProcess /\ [Next]_vars => OneHolderPerProcess'
  <2> SUFFICES ASSUME TypeOK, OneHolderPerProcess, [Next]_vars
               PROVE  OneHolderPerProcess'
    OBVIOUS
  <2>1. ASSUME NEW c \in Calls, NEW p \in Procs, NEW a \in Args, Call(c, p, a)
        PROVE  OneHolderPerProcess'
    <3>1. pc[c] \notin Holding
      BY <2>1 DEF Call, Holding
    <3>2. CASE Reserve(p) = "claimed"
      <4>1. mem[p].status = "none"
        BY <3>2 DEF Reserve, TypeOK, MemRecord
      <4>2. /\ mem' = [mem EXCEPT ![p] = PendingRecord]
            /\ pc' = [pc EXCEPT ![c] = "lookup"]
            /\ at' = [at EXCEPT ![c] = p]
        BY <2>1, <3>2 DEF Call
      <4>3. \A d \in Calls : pc[d] \in Holding => at[d] # p
        BY <4>1 DEF OneHolderPerProcess
      <4>4. ASSUME NEW d \in Calls, pc'[d] \in Holding
            PROVE  mem'[at'[d]].status = "pending"
        BY <3>1, <4>2, <4>3, <4>4 DEF OneHolderPerProcess, TypeOK, PendingRecord
      <4>5. ASSUME NEW d \in Calls, NEW e \in Calls, pc'[d] \in Holding,
                   pc'[e] \in Holding, at'[e] = at'[d]
            PROVE  e = d
        BY <3>1, <4>2, <4>3, <4>5 DEF OneHolderPerProcess, TypeOK
      <4> QED BY <4>4, <4>5 DEF OneHolderPerProcess
    <3>3. CASE Reserve(p) # "claimed"
      <4>1. /\ mem' = mem
            /\ pc' = [pc EXCEPT ![c] = "answered"]
            /\ at' = [at EXCEPT ![c] = p]
        BY <2>1, <3>3 DEF Call
      <4>2. \A d \in Calls : pc'[d] \in Holding =>
               d # c /\ pc[d] \in Holding /\ at'[d] = at[d]
        BY <4>1 DEF TypeOK, Holding
      <4> QED BY <4>1, <4>2 DEF OneHolderPerProcess
    <3> QED BY <3>2, <3>3
  <2>2. ASSUME NEW c \in Calls, LookupRead(c) PROVE OneHolderPerProcess'
    BY <2>2, HoldersShrink DEF LookupRead, Holding, TypeOK
  <2>3. ASSUME NEW c \in Calls, ReplayDurable(c) PROVE OneHolderPerProcess'
    <3>1. pc[c] \in Holding /\ "answered" \notin Holding
      BY <2>3 DEF ReplayDurable, Holding
    <3>2. \A p \in Procs : p # at[c] => mem'[p] = mem[p]
      BY <2>3 DEF ReplayDurable, TypeOK
    <3> QED BY <2>3, <3>1, <3>2, HolderLeaves DEF ReplayDurable
  <2>4. ASSUME NEW c \in Calls, RefuseDurable(c) PROVE OneHolderPerProcess'
    <3>1. pc[c] \in Holding /\ "answered" \notin Holding
      BY <2>4 DEF RefuseDurable, Holding
    <3>2. \A p \in Procs : p # at[c] => mem'[p] = mem[p]
      BY <2>4 DEF RefuseDurable, StoreRelease, TypeOK
    <3> QED BY <2>4, <3>1, <3>2, HolderLeaves DEF RefuseDurable
  <2>5. ASSUME NEW c \in Calls, FallThrough(c) PROVE OneHolderPerProcess'
    BY <2>5, HoldersShrink DEF FallThrough, Holding, TypeOK
  <2>6. ASSUME NEW c \in Calls, DurableClaim(c) PROVE OneHolderPerProcess'
    BY <2>6, HoldersShrink DEF DurableClaim, Holding, TypeOK
  <2>7. ASSUME NEW c \in Calls, Perform(c) PROVE OneHolderPerProcess'
    BY <2>7, HoldersShrink DEF Perform, Holding, TypeOK
  <2>8. ASSUME NEW c \in Calls, Release(c) PROVE OneHolderPerProcess'
    <3>1. pc[c] \in Holding /\ "resolving" \notin Holding
      BY <2>8 DEF Release, Holding
    <3>2. \A p \in Procs : p # at[c] => mem'[p] = mem[p]
      BY <2>8 DEF Release, StoreRelease, TypeOK
    <3> QED BY <2>8, <3>1, <3>2, HolderLeaves DEF Release
  <2>9. ASSUME NEW c \in Calls, Complete(c) PROVE OneHolderPerProcess'
    <3>1. pc[c] \in Holding /\ "resolving" \notin Holding
      BY <2>9 DEF Complete, Holding
    <3>2. \A p \in Procs : p # at[c] => mem'[p] = mem[p]
      BY <2>9 DEF Complete, TypeOK
    <3> QED BY <2>9, <3>1, <3>2, HolderLeaves DEF Complete
  <2>10. ASSUME NEW c \in Calls, DurableResolve(c) PROVE OneHolderPerProcess'
    BY <2>10, HoldersShrink DEF DurableResolve, Holding, TypeOK
  <2>11. ASSUME NEW w \in late, LateWriteLands(w) PROVE OneHolderPerProcess'
    BY <2>11, HoldersShrink DEF LateWriteLands, callVars
  <2>12. ASSUME NEW p \in Procs, Expire(p) PROVE OneHolderPerProcess'
    <3>1. \A d \in Calls : pc[d] \in Holding => at[d] # p
      BY <2>12 DEF Expire, OneHolderPerProcess
    <3> QED BY <2>12, <3>1 DEF Expire, callVars, OneHolderPerProcess, TypeOK
  <2>13. ASSUME NEW p \in Procs, Crash(p) PROVE OneHolderPerProcess'
    <3>1. \A d \in Calls : pc'[d] \in Holding => pc[d] \in Holding /\ at[d] # p
      BY <2>13 DEF Crash, Holding, InFlight
    <3> QED BY <2>13, <3>1 DEF Crash, OneHolderPerProcess, TypeOK
  <2>14. CASE UNCHANGED vars
    BY <2>14 DEF vars, callVars, OneHolderPerProcess
  <2> QED
    BY <2>1, <2>2, <2>3, <2>4, <2>5, <2>6, <2>7, <2>8, <2>9, <2>10, <2>11,
       <2>12, <2>13, <2>14 DEF Next, Serve
<1> QED BY <1>1, <1>2, TypeCorrect, PTL DEF Spec

----------------------------------------------------------------------------
(* Answers are true in every mode: with lost and late durable writes, no   *)
(* unique index, failures, expiry, several processes and crashes.  Nothing *)
(* becomes complete anywhere unless its run has taken effect.              *)

TruthInv ==
    /\ \A p \in Procs : mem[p].status = "complete" => mem[p].outcome \in effects
    /\ \A r \in rows : r.status = "complete" => r.outcome \in effects
    /\ \A w \in late : w.status = "complete" => w.outcome \in effects
    /\ \A c \in Calls : seen[c].status = "complete" => seen[c].outcome \in effects
    /\ \A c \in Calls : pc[c] = "performed" =>
           [args |-> args[c], run |-> run[c]] \in effects
    /\ AnswersAreTrue

\* A write of nothing but true outcomes leaves only those in the table.
LEMMA AppliedTrue ==
    ASSUME NEW w, w.status = "complete" => w.outcome \in effects,
           \A r \in rows : r.status = "complete" => r.outcome \in effects
    PROVE  \A r \in Applied(w) : r.status = "complete" => r.outcome \in effects
<1>1. PendingRow.status # "complete"
  BY DEF PendingRow
<1>2. CASE w.op = "insert"
  BY <1>1, <1>2 DEF Applied
<1>3. CASE w.op # "insert"
  BY <1>3 DEF Applied
<1> QED BY <1>2, <1>3

LEMMA DurableWriteTrue ==
    ASSUME TruthInv, NEW w, w.status = "complete" => w.outcome \in effects,
           DurableWrite(w)
    PROVE  /\ \A r \in rows' : r.status = "complete" => r.outcome \in effects
           /\ \A v \in late' : v.status = "complete" => v.outcome \in effects
BY AppliedTrue DEF DurableWrite, TruthInv

\* Steps that touch neither the answers, the arguments nor the world.
LEMMA AnswersKept ==
    ASSUME AnswersAreTrue, answer' = answer, args' = args, effects \subseteq effects'
    PROVE  AnswersAreTrue'
BY DEF AnswersAreTrue

\* Steps that answer client c alone, with something true.
LEMMA AnswerGiven ==
    ASSUME TypeOK, AnswersAreTrue, NEW c \in Calls, NEW x,
           answer' = [answer EXCEPT ![c] = x], effects' = effects,
           \A d \in Calls : d # c => args'[d] = args[d],
           x.kind = "result" => x.outcome \in effects /\ x.outcome.args = args'[c],
           x.kind = "conflict" => \E o \in effects : o.args # args'[c]
    PROVE  AnswersAreTrue'
<1> SUFFICES ASSUME NEW d \in Calls
             PROVE  /\ answer'[d].kind = "result" =>
                          answer'[d].outcome \in effects /\ answer'[d].outcome.args = args'[d]
                    /\ answer'[d].kind = "conflict" => \E o \in effects : o.args # args'[d]
  BY DEF AnswersAreTrue
<1>1. CASE d = c
  BY <1>1 DEF TypeOK
<1>2. CASE d # c
  <2>1. answer'[d] = answer[d] /\ args'[d] = args[d]
    BY <1>2 DEF TypeOK
  <2> QED BY <2>1 DEF AnswersAreTrue
<1> QED BY <1>1, <1>2

\* A true outcome makes a true replay.
LEMMA ReplayTrue ==
    ASSUME NEW o \in effects, NEW a
    PROVE  /\ Replay(o, a).kind = "result" =>
                 Replay(o, a).outcome \in effects /\ Replay(o, a).outcome.args = a
           /\ Replay(o, a).kind = "conflict" => \E e \in effects : e.args # a
BY DEF Replay, Told, Result

LEMMA TruthInvariant == Spec => []TruthInv
<1>1. Init => TruthInv
  <2> SUFFICES ASSUME Init PROVE TruthInv
    OBVIOUS
  <2>1. AnswersAreTrue
    BY DEF Init, AnswersAreTrue, Told
  <2>2. \A c \in Calls : pc[c] # "performed" /\ seen[c].status # "complete"
    BY DEF Init, NoRow
  <2>3. \A p \in Procs : mem[p].status # "complete"
    BY DEF Init, NoRecord
  <2> QED BY <2>1, <2>2, <2>3 DEF Init, TruthInv
<1>2. TypeOK /\ TruthInv /\ [Next]_vars => TruthInv'
  <2> SUFFICES ASSUME TypeOK, TruthInv, [Next]_vars PROVE TruthInv'
    OBVIOUS
  <2>0. AnswersAreTrue
    BY DEF TruthInv
  <2>1. ASSUME NEW c \in Calls, NEW p \in Procs, NEW a \in Args, Call(c, p, a)
        PROVE  TruthInv'
    <3>1. \A q \in Procs : mem'[q].status = "complete" => mem'[q].outcome \in effects
      BY <2>1 DEF Call, TruthInv, TypeOK, PendingRecord
    <3>2. \A d \in Calls : seen'[d].status = "complete" => seen'[d].outcome \in effects
      BY <2>1 DEF Call, TruthInv, TypeOK, NoRow
    <3>3. \A d \in Calls : pc'[d] = "performed" =>
             [args |-> args'[d], run |-> run'[d]] \in effects
      BY <2>1 DEF Call, TruthInv, TypeOK
    <3>4. /\ effects' = effects /\ args' = [args EXCEPT ![c] = a]
          /\ \A d \in Calls : d # c => args'[d] = args[d]
          /\ args'[c] = a
      BY <2>1 DEF Call, TypeOK
    <3>5. UNCHANGED <<rows, late, effects>>
      BY <2>1 DEF Call
    <3>6. CASE Reserve(p) = "complete"
      <4>1. mem[p].outcome \in effects
        BY <3>6 DEF Reserve, TruthInv, TypeOK, MemRecord
      <4>2. answer' = [answer EXCEPT ![c] = Replay(mem[p].outcome, a)]
        BY <2>1, <3>6 DEF Call
      <4>3. AnswersAreTrue'
        BY <2>0, <3>4, <4>1, <4>2, ReplayTrue, AnswerGiven
      <4> QED BY <3>1, <3>2, <3>3, <3>5, <4>3 DEF TruthInv
    <3>7. CASE Reserve(p) # "complete"
      <4>1. PICK k \in {"none", "in_progress"} : answer' = [answer EXCEPT ![c] = Told(k)]
        BY <2>1, <3>7 DEF Call
      <4>2. Told(k).kind \notin {"result", "conflict"}
        BY DEF Told
      <4>3. AnswersAreTrue'
        BY <2>0, <3>4, <4>1, <4>2, AnswerGiven
      <4> QED BY <3>1, <3>2, <3>3, <3>5, <4>3 DEF TruthInv
    <3> QED BY <3>6, <3>7
  <2>2. ASSUME NEW c \in Calls, LookupRead(c) PROVE TruthInv'
    <3>1. AnswersAreTrue'
      BY <2>0, <2>2, AnswersKept DEF LookupRead
    <3>2. NoRow.status # "complete"
      BY DEF NoRow
    <3>3. \A d \in Calls : seen'[d].status = "complete" => seen'[d].outcome \in effects
      BY <2>2, <3>2 DEF LookupRead, TruthInv, TypeOK
    <3>4. \A d \in Calls : pc'[d] = "performed" => pc[d] = "performed"
      BY <2>2 DEF LookupRead, TypeOK
    <3> QED BY <2>2, <3>1, <3>3, <3>4 DEF LookupRead, TruthInv
  <2>3. ASSUME NEW c \in Calls, ReplayDurable(c) PROVE TruthInv'
    <3>1. seen[c].outcome \in effects
      BY <2>3 DEF ReplayDurable, TruthInv
    <3>2. AnswersAreTrue'
      BY <2>0, <2>3, <3>1, ReplayTrue, AnswerGiven DEF ReplayDurable
    <3>3. \A p \in Procs : mem'[p].status = "complete" => mem'[p].outcome \in effects
      BY <2>3, <3>1 DEF ReplayDurable, TruthInv, TypeOK, CompleteRecord
    <3> QED BY <2>3, <3>2, <3>3 DEF ReplayDurable, TruthInv, TypeOK
  <2>4. ASSUME NEW c \in Calls, RefuseDurable(c) PROVE TruthInv'
    <3>1. Told("in_progress").kind \notin {"result", "conflict"}
      BY DEF Told
    <3>2. AnswersAreTrue'
      BY <2>0, <2>4, <3>1, AnswerGiven DEF RefuseDurable
    <3> QED BY <2>4, <3>2 DEF RefuseDurable, StoreRelease, TruthInv, TypeOK, NoRecord
  <2>5. ASSUME NEW c \in Calls, FallThrough(c) PROVE TruthInv'
    <3>1. AnswersAreTrue'
      BY <2>0, <2>5, AnswersKept DEF FallThrough
    <3> QED BY <2>5, <3>1 DEF FallThrough, TruthInv, TypeOK
  <2>6. ASSUME NEW c \in Calls, DurableClaim(c) PROVE TruthInv'
    <3>1. Insert.status # "complete"
      BY DEF Insert
    <3>2. /\ \A r \in rows' : r.status = "complete" => r.outcome \in effects
          /\ \A v \in late' : v.status = "complete" => v.outcome \in effects
      BY <2>6, <3>1, DurableWriteTrue DEF DurableClaim
    <3>3. AnswersAreTrue'
      BY <2>0, <2>6, AnswersKept DEF DurableClaim
    <3> QED BY <2>6, <3>2, <3>3 DEF DurableClaim, TruthInv, TypeOK
  <2>7. ASSUME NEW c \in Calls, Perform(c) PROVE TruthInv'
    <3>1. AnswersAreTrue'
      BY <2>0, <2>7, AnswersKept DEF Perform
    <3> QED BY <2>7, <3>1 DEF Perform, TruthInv, TypeOK
  <2>8. ASSUME NEW c \in Calls, Release(c) PROVE TruthInv'
    <3>1. Told("failure").kind \notin {"result", "conflict"}
      BY DEF Told
    <3>2. AnswersAreTrue'
      BY <2>0, <2>8, <3>1, AnswerGiven DEF Release
    <3> QED BY <2>8, <3>2 DEF Release, StoreRelease, TruthInv, TypeOK, NoRecord
  <2>9. ASSUME NEW c \in Calls, Complete(c) PROVE TruthInv'
    <3> DEFINE o == [args |-> args[c], run |-> run[c]]
    <3>1. o \in effects /\ o.args = args[c]
      BY <2>9 DEF Complete, TruthInv
    <3>2. Result(o).kind = "result" /\ Result(o).outcome = o
      BY DEF Result
    <3>3. AnswersAreTrue'
      BY <2>0, <2>9, <3>1, <3>2, AnswerGiven DEF Complete
    <3>4. \A p \in Procs : mem'[p].status = "complete" => mem'[p].outcome \in effects
      BY <2>9, <3>1 DEF Complete, TruthInv, TypeOK, CompleteRecord
    <3> QED BY <2>9, <3>3, <3>4 DEF Complete, TruthInv, TypeOK
  <2>10. ASSUME NEW c \in Calls, DurableResolve(c) PROVE TruthInv'
    <3> DEFINE w == IF answer[c].kind = "result" THEN Resolve("complete", answer[c].outcome)
                                                 ELSE Resolve("released", NoOutcome)
    <3>1. DurableWrite(w)
      BY <2>10 DEF DurableResolve
    <3>2. w.status = "complete" => w.outcome \in effects
      BY <2>0 DEF Resolve, AnswersAreTrue
    <3> HIDE DEF w
    <3>3. /\ \A r \in rows' : r.status = "complete" => r.outcome \in effects
          /\ \A v \in late' : v.status = "complete" => v.outcome \in effects
      BY <3>1, <3>2, DurableWriteTrue
    <3>4. AnswersAreTrue'
      BY <2>0, <2>10, AnswersKept DEF DurableResolve
    <3> QED BY <2>10, <3>3, <3>4 DEF DurableResolve, TruthInv, TypeOK
  <2>11. ASSUME NEW w \in late, LateWriteLands(w) PROVE TruthInv'
    <3>1. \A r \in rows' : r.status = "complete" => r.outcome \in effects
      BY <2>11, AppliedTrue DEF LateWriteLands, TruthInv
    <3>2. AnswersAreTrue'
      BY <2>0, <2>11, AnswersKept DEF LateWriteLands, callVars
    <3> QED BY <2>11, <3>1, <3>2 DEF LateWriteLands, callVars, TruthInv
  <2>12. ASSUME NEW p \in Procs, Expire(p) PROVE TruthInv'
    <3>1. AnswersAreTrue'
      BY <2>0, <2>12, AnswersKept DEF Expire, callVars
    <3> QED BY <2>12, <3>1 DEF Expire, callVars, TruthInv, TypeOK, NoRecord
  <2>13. ASSUME NEW p \in Procs, Crash(p) PROVE TruthInv'
    <3>1. \A c \in Calls : answer'[c] = answer[c] \/ answer'[c] = Told("none")
      BY <2>13 DEF Crash
    <3>2. Told("none").kind \notin {"result", "conflict"}
      BY DEF Told
    <3>3. AnswersAreTrue'
      BY <2>0, <2>13, <3>1, <3>2 DEF Crash, AnswersAreTrue
    <3> QED BY <2>13, <3>3 DEF Crash, TruthInv, TypeOK, NoRecord
  <2>14. CASE UNCHANGED vars
    <3>1. AnswersAreTrue'
      BY <2>0, <2>14, AnswersKept DEF vars, callVars
    <3> QED BY <2>14, <3>1 DEF vars, callVars, TruthInv
  <2> QED
    BY <2>1, <2>2, <2>3, <2>4, <2>5, <2>6, <2>7, <2>8, <2>9, <2>10, <2>11,
       <2>12, <2>13, <2>14 DEF Next, Serve
<1> QED BY <1>1, <1>2, TypeCorrect, PTL DEF Spec

\* Whatever a client is told about its key is true of the world: the result
\* of a run that took effect with its arguments, or a conflict with one that
\* took effect with others.
THEOREM Truthful == Spec => []AnswersAreTrue
<1>1. TruthInv => AnswersAreTrue
  BY DEF TruthInv
<1> QED BY <1>1, TruthInvariant, PTL

----------------------------------------------------------------------------
(* At most one effect per key, over any number of retries and crashes:     *)
(* for one process whose durable requests arrive and a tool that does not  *)
(* fail after it was started.  (With failures it is false: see the run     *)
(* GateReclaimCrash.)  The row inserted before the tool is started is      *)
(* never released, so every later claim finds it; and until the row is     *)
(* there, nothing has happened.                                            *)

OnceInv ==
    /\ late = {}
    /\ \A r \in rows : r.status \in {"pending", "complete"}
    /\ \A c \in Calls : seen[c].status \in {"pending", "complete", "no row"}
    /\ effects # {} => rows # {}
    /\ \A c \in Calls :
         /\ pc[c] = "found" /\ seen[c].status = "no row" => rows = {}
         /\ pc[c] = "insert" => rows = {}
         /\ pc[c] \in {"executing", "performed", "resolving"} => rows # {}
         /\ pc[c] = "executing" => effects = {}
         /\ pc[c] = "resolving" => answer[c].kind = "result"
    /\ AtMostOneEffect

\* Steps that touch the table and the world not at all, and bring no call
\* into a phase that OnceInv speaks about.
LEMMA OnceKept ==
    ASSUME OnceInv, UNCHANGED <<rows, late, effects>>,
           \A c \in Calls : seen'[c] = seen[c] \/ seen'[c].status = "no row",
           \A c \in Calls :
               \/ pc'[c] \in {"idle", "lookup", "answered", "lost"}
               \/ pc'[c] = pc[c] /\ seen'[c] = seen[c] /\ answer'[c] = answer[c]
    PROVE  OnceInv'
BY DEF OnceInv, AtMostOneEffect

\* Until the row of the key is there, nothing has happened, and nothing makes
\* it claimable again.
LEMMA OnceInvariant ==
    ASSUME \A p, q \in Procs : p = q, Lossy = FALSE, MayFail = FALSE
    PROVE  Spec => []OnceInv
<1>1. Init => OnceInv
  <2> SUFFICES ASSUME Init PROVE OnceInv
    OBVIOUS
  <2>1. \A c \in Calls : pc[c] = "idle" /\ seen[c].status = "no row"
    BY DEF Init, NoRow
  <2> QED BY <2>1 DEF Init, OnceInv, AtMostOneEffect
<1>2. TypeOK /\ OneHolderPerProcess /\ OnceInv /\ [Next]_vars => OnceInv'
  <2> SUFFICES ASSUME TypeOK, OneHolderPerProcess, OnceInv, [Next]_vars
               PROVE  OnceInv'
    OBVIOUS
  <2>0. \A c, d \in Calls : pc[c] \in Holding /\ pc[d] \in Holding => c = d
    BY DEF OneHolderPerProcess, TypeOK
  <2>1. ASSUME NEW c \in Calls, NEW p \in Procs, NEW a \in Args, Call(c, p, a)
        PROVE  OnceInv'
    <3>1. \A d \in Calls : d # c =>
             pc'[d] = pc[d] /\ seen'[d] = seen[d] /\ answer'[d] = answer[d]
      BY <2>1 DEF Call, TypeOK
    <3>2. pc'[c] \in {"lookup", "answered"} /\ seen'[c].status = "no row"
      BY <2>1 DEF Call, TypeOK, NoRow
    <3> QED BY <2>1, <3>1, <3>2, OnceKept DEF Call
  <2>2. ASSUME NEW c \in Calls, LookupRead(c) PROVE OnceInv'
    <3>1. /\ seen'[c].status \in {"pending", "complete", "no row"}
          /\ seen'[c].status = "no row" => rows = {}
      <4>1. \/ \E r \in rows : seen'[c] = r
            \/ rows = {} /\ seen'[c] = NoRow
        BY <2>2 DEF LookupRead, TypeOK
      <4>2. NoRow.status = "no row"
        BY DEF NoRow
      <4> QED BY <4>1, <4>2 DEF OnceInv
    <3>2. pc'[c] = "found" /\ \A d \in Calls : d # c => pc'[d] = pc[d] /\ seen'[d] = seen[d]
      BY <2>2 DEF LookupRead, TypeOK
    <3> QED BY <2>2, <3>1, <3>2 DEF LookupRead, OnceInv, AtMostOneEffect
  <2>3. ASSUME NEW c \in Calls, ReplayDurable(c) PROVE OnceInv'
    BY <2>3, OnceKept DEF ReplayDurable, TypeOK
  <2>4. ASSUME NEW c \in Calls, RefuseDurable(c) PROVE OnceInv'
    BY <2>4, OnceKept DEF RefuseDurable, TypeOK
  <2>5. ASSUME NEW c \in Calls, FallThrough(c) PROVE OnceInv'
    <3>1. rows = {}
      BY <2>5 DEF FallThrough, OnceInv
    <3>2. pc'[c] = "insert" /\ \A d \in Calls : d # c => pc'[d] = pc[d]
      BY <2>5 DEF FallThrough, TypeOK
    <3> QED BY <2>5, <3>1, <3>2 DEF FallThrough, OnceInv, AtMostOneEffect
  <2>6. ASSUME NEW c \in Calls, DurableClaim(c) PROVE OnceInv'
    <3>1. pc[c] = "insert" /\ rows = {} /\ effects = {}
      BY <2>6 DEF DurableClaim, OnceInv
    <3>2. rows' = {PendingRow} /\ late' = {}
      BY <2>6, <3>1 DEF DurableClaim, DurableWrite, Applied, Insert, OnceInv
    <3>3. pc'[c] = "executing" /\ \A d \in Calls : d # c => pc'[d] = pc[d]
      BY <2>6 DEF DurableClaim, TypeOK
    <3>4. \A d \in Calls : d # c => pc[d] \notin {"found", "insert"}
      BY <2>0, <3>1 DEF Holding
    <3>5. PendingRow.status = "pending"
      BY DEF PendingRow
    <3> QED
      BY <2>6, <3>1, <3>2, <3>3, <3>4, <3>5 DEF DurableClaim, OnceInv, AtMostOneEffect
  <2>7. ASSUME NEW c \in Calls, Perform(c) PROVE OnceInv'
    <3>1. pc[c] = "executing" /\ effects = {} /\ rows # {}
      BY <2>7 DEF Perform, OnceInv
    <3>2. effects' = {[args |-> args[c], run |-> run[c]]}
      BY <2>7, <3>1 DEF Perform
    <3>3. pc'[c] = "performed" /\ \A d \in Calls : d # c => pc'[d] = pc[d]
      BY <2>7 DEF Perform, TypeOK
    <3>4. \A d \in Calls : d # c => pc[d] # "executing"
      BY <2>0, <3>1 DEF Holding
    <3>5. /\ UNCHANGED <<rows, late, seen, answer>>
          /\ \A d \in Calls : pc'[d] # "executing"
      BY <2>7, <3>3, <3>4 DEF Perform
    <3>6. AtMostOneEffect'
      BY <3>2 DEF AtMostOneEffect
    <3> QED BY <3>1, <3>3, <3>5, <3>6 DEF OnceInv
  <2>8. ASSUME NEW c \in Calls, Release(c) PROVE OnceInv'
    BY <2>8 DEF Release
  <2>9. ASSUME NEW c \in Calls, Complete(c) PROVE OnceInv'
    <3>1. /\ pc[c] = "performed" /\ pc'[c] = "resolving"
          /\ answer'[c].kind = "result"
          /\ \A d \in Calls : d # c => pc'[d] = pc[d] /\ answer'[d] = answer[d]
      BY <2>9 DEF Complete, TypeOK, Result
    <3> QED BY <2>9, <3>1 DEF Complete, OnceInv, AtMostOneEffect
  <2>10. ASSUME NEW c \in Calls, DurableResolve(c) PROVE OnceInv'
    <3> DEFINE w == Resolve("complete", answer[c].outcome)
    <3>1. pc[c] = "resolving" /\ answer[c].kind = "result" /\ rows # {}
      BY <2>10 DEF DurableResolve, OnceInv
    <3>2. rows' = Applied(w) /\ late' = {}
      BY <2>10, <3>1 DEF DurableResolve, DurableWrite, OnceInv
    <3>3. w.op # "insert" /\ w.status = "complete"
      BY DEF Resolve
    <3> HIDE DEF w
    <3>4. rows' = {[status |-> "complete", outcome |-> w.outcome] : r \in rows}
      BY <3>2, <3>3 DEF Applied
    <3>5. rows' # {} /\ \A r \in rows' : r.status = "complete"
      <4>1. PICK r \in rows : TRUE
        BY <3>1
      <4>2. [status |-> "complete", outcome |-> w.outcome] \in rows'
        BY <3>4, <4>1
      <4>3. \A q \in rows' : q = [status |-> "complete", outcome |-> w.outcome]
        BY <3>4
      <4> QED BY <4>2, <4>3
    <3>6. pc'[c] = "answered" /\ \A d \in Calls : d # c => pc'[d] = pc[d]
      BY <2>10 DEF DurableResolve, TypeOK
    <3> QED BY <2>10, <3>1, <3>2, <3>5, <3>6 DEF DurableResolve, OnceInv, AtMostOneEffect
  <2>11. ASSUME NEW w \in late, LateWriteLands(w) PROVE OnceInv'
    BY <2>11 DEF OnceInv
  <2>12. ASSUME NEW p \in Procs, Expire(p) PROVE OnceInv'
    BY <2>12, OnceKept DEF Expire, callVars
  <2>13. ASSUME NEW p \in Procs, Crash(p) PROVE OnceInv'
    BY <2>13, OnceKept DEF Crash
  <2>14. CASE UNCHANGED vars
    BY <2>14, OnceKept DEF vars, callVars
  <2> QED
    BY <2>1, <2>2, <2>3, <2>4, <2>5, <2>6, <2>7, <2>8, <2>9, <2>10, <2>11,
       <2>12, <2>13, <2>14 DEF Next, Serve
<1> QED BY <1>1, <1>2, TypeCorrect, OneHolder, PTL DEF Spec

\* A retried call takes effect, and is charged, at most once: with one server
\* process, durable requests that arrive and a tool that does not fail, over
\* any number of clients, retries, expiries and crashes.
THEOREM OnceOnly ==
    ASSUME \A p, q \in Procs : p = q, Lossy = FALSE, MayFail = FALSE
    PROVE  Spec => []AtMostOneEffect
<1>1. OnceInv => AtMostOneEffect
  BY DEF OnceInv
<1> QED BY <1>1, OnceInvariant, PTL

----------------------------------------------------------------------------
(* Under the same assumptions the gate implements the contract that its    *)
(* clients rely on.  A crash takes the answers of all calls under way, yet *)
(* the contract tells one client at a time: at most one call has a result  *)
(* that is still under way.                                                *)

Running == {"executing", "performed", "resolving"}

SoleRun ==
    /\ \A c, d \in Calls : pc[c] \in Running /\ pc[d] \in Running => c = d
    /\ \A c \in Calls : pc[c] \in Holding => answer[c].kind # "result"

\* Steps that let no call run that did not, and give no answer to a holder.
LEMMA SoleRunKept ==
    ASSUME SoleRun,
           \A c \in Calls : pc'[c] \in Running => pc[c] \in Running,
           \A c \in Calls : pc'[c] \in Holding =>
               \/ pc[c] \in Holding /\ answer'[c] = answer[c]
               \/ answer'[c].kind # "result"
    PROVE  SoleRun'
BY DEF SoleRun

LEMMA SoleRunInvariant ==
    ASSUME \A p, q \in Procs : p = q, Lossy = FALSE, MayFail = FALSE
    PROVE  Spec => []SoleRun
<1>1. Init => SoleRun
  BY DEF Init, SoleRun, Running, Holding
<1>2. TypeOK /\ OnceInv /\ SoleRun /\ [Next]_vars => SoleRun'
  <2> SUFFICES ASSUME TypeOK, OnceInv, SoleRun, [Next]_vars PROVE SoleRun'
    OBVIOUS
  <2> USE DEF Running, Holding
  <2>1. ASSUME NEW c \in Calls, NEW p \in Procs, NEW a \in Args, Call(c, p, a)
        PROVE  SoleRun'
    <3>1. Told("none").kind # "result"
      BY DEF Told
    <3>2. \A d \in Calls : d # c => pc'[d] = pc[d] /\ answer'[d] = answer[d]
      BY <2>1 DEF Call, TypeOK
    <3>3. \/ pc'[c] = "answered"
          \/ pc'[c] = "lookup" /\ answer'[c] = Told("none")
      BY <2>1 DEF Call, TypeOK
    <3> QED BY <3>1, <3>2, <3>3, SoleRunKept
  <2>2. ASSUME NEW c \in Calls, LookupRead(c) PROVE SoleRun'
    BY <2>2, SoleRunKept DEF LookupRead, TypeOK
  <2>3. ASSUME NEW c \in Calls, ReplayDurable(c) PROVE SoleRun'
    BY <2>3, SoleRunKept DEF ReplayDurable, TypeOK
  <2>4. ASSUME NEW c \in Calls, RefuseDurable(c) PROVE SoleRun'
    BY <2>4, SoleRunKept DEF RefuseDurable, TypeOK
  <2>5. ASSUME NEW c \in Calls, FallThrough(c) PROVE SoleRun'
    BY <2>5, SoleRunKept DEF FallThrough, TypeOK
  <2>6. ASSUME NEW c \in Calls, DurableClaim(c) PROVE SoleRun'
    <3>1. \A d \in Calls : pc[d] \notin Running
      BY <2>6 DEF DurableClaim, OnceInv
    <3>2. /\ pc[c] = "insert" /\ pc'[c] = "executing" /\ answer' = answer
          /\ \A d \in Calls : d # c => pc'[d] = pc[d]
      BY <2>6 DEF DurableClaim, TypeOK
    <3> QED BY <3>1, <3>2 DEF SoleRun
  <2>7. ASSUME NEW c \in Calls, Perform(c) PROVE SoleRun'
    BY <2>7, SoleRunKept DEF Perform, TypeOK
  <2>8. ASSUME NEW c \in Calls, Release(c) PROVE SoleRun'
    BY <2>8 DEF Release
  <2>9. ASSUME NEW c \in Calls, Complete(c) PROVE SoleRun'
    BY <2>9, SoleRunKept DEF Complete, TypeOK
  <2>10. ASSUME NEW c \in Calls, DurableResolve(c) PROVE SoleRun'
    BY <2>10, SoleRunKept DEF DurableResolve, TypeOK
  <2>11. ASSUME NEW w \in late, LateWriteLands(w) PROVE SoleRun'
    BY <2>11, SoleRunKept DEF LateWriteLands, callVars
  <2>12. ASSUME NEW p \in Procs, Expire(p) PROVE SoleRun'
    BY <2>12, SoleRunKept DEF Expire, callVars
  <2>13. ASSUME NEW p \in Procs, Crash(p) PROVE SoleRun'
    <3>1. \A d \in Calls : pc'[d] # "lost" => pc'[d] = pc[d] /\ answer'[d] = answer[d]
      BY <2>13 DEF Crash
    <3> QED BY <3>1, SoleRunKept
  <2>14. CASE UNCHANGED vars
    BY <2>14, SoleRunKept DEF vars, callVars
  <2> QED
    BY <2>1, <2>2, <2>3, <2>4, <2>5, <2>6, <2>7, <2>8, <2>9, <2>10, <2>11,
       <2>12, <2>13, <2>14 DEF Next, Serve
<1> QED BY <1>1, <1>2, TypeCorrect, OnceInvariant, PTL DEF Spec

\* The results client c was given last, as the contract sees them.
ToldOf(c) == IF answer[c].kind = "result" THEN {answer[c].outcome} ELSE {}

\* A step that answers one client, with the key's effect or no result, and
\* does nothing to the world, is the contract's Tell or none of its steps.
LEMMA OneIsTold ==
    ASSUME AtMostOneEffect, AnswersAreTrue', effects' = effects, NEW c \in Calls,
           \A d \in Calls : d # c => ToldOf(d)' = ToldOf(d)
    PROVE  Contract!Next
<1>1. ToldOf(c)' \in {effects, {}}
  <2>1. CASE answer'[c].kind = "result"
    <3>1. answer'[c].outcome \in effects
      BY <2>1 DEF AnswersAreTrue
    <3>2. effects = {answer'[c].outcome}
      BY <3>1 DEF AtMostOneEffect
    <3> QED BY <2>1, <3>2 DEF ToldOf
  <2>2. CASE answer'[c].kind # "result"
    BY <2>2 DEF ToldOf
  <2> QED BY <2>1, <2>2
<1>2. [d \in Calls |-> ToldOf(d)'] = [[d \in Calls |-> ToldOf(d)] EXCEPT ![c] = ToldOf(c)']
  OBVIOUS
<1>3. Contract!Tell(c)
  BY <1>1, <1>2 DEF Contract!Tell, ToldOf
<1> QED BY <1>3 DEF Contract!Next

LEMMA NobodyIsTold ==
    ASSUME effects' = effects, answer' = answer
    PROVE  UNCHANGED Contract!vars
BY DEF Contract!vars

\* The gate implements RetryContract: whatever its clients, its table and its
\* restarts do, the key's tool takes one effect and a client is told that
\* effect's result or none.
THEOREM ContractKept ==
    ASSUME \A p, q \in Procs : p = q, Lossy = FALSE, MayFail = FALSE
    PROVE  Spec => KeepsContract
<1>1. Init => Contract!Init
  <2> SUFFICES ASSUME Init PROVE Contract!Init
    OBVIOUS
  <2>1. \A c \in Calls : answer[c].kind # "result"
    BY DEF Init, Told
  <2> QED BY <2>1 DEF Init, Contract!Init
<1>2. /\ TypeOK /\ OnceInv /\ SoleRun /\ AnswersAreTrue
      /\ AnswersAreTrue' /\ OnceInv' /\ [Next]_vars
      => [Contract!Next]_(Contract!vars)
  <2> SUFFICES ASSUME TypeOK, OnceInv, SoleRun, AnswersAreTrue,
                      AnswersAreTrue', OnceInv', [Next]_vars
               PROVE  Contract!Next \/ UNCHANGED Contract!vars
    BY DEF Contract!vars
  <2>0. AtMostOneEffect /\ AtMostOneEffect'
    BY DEF OnceInv
  <2>1. ASSUME NEW c \in Calls, NEW p \in Procs, NEW a \in Args, Call(c, p, a)
        PROVE  Contract!Next
    <3>1. effects' = effects /\ \A d \in Calls : d # c => answer'[d] = answer[d]
      BY <2>1 DEF Call, TypeOK
    <3> QED BY <2>0, <3>1, OneIsTold DEF ToldOf
  <2>2. ASSUME NEW c \in Calls,
               ReplayDurable(c) \/ RefuseDurable(c) \/ Complete(c)
        PROVE  Contract!Next
    <3>1. effects' = effects /\ \A d \in Calls : d # c => answer'[d] = answer[d]
      BY <2>2 DEF ReplayDurable, RefuseDurable, Complete, TypeOK
    <3> QED BY <2>0, <3>1, OneIsTold DEF ToldOf
  <2>3. ASSUME NEW c \in Calls, Perform(c) PROVE Contract!Next
    <3> DEFINE o == [args |-> args[c], run |-> run[c]]
    <3>1. effects = {} /\ effects' = effects \cup {o} /\ answer' = answer
      BY <2>3 DEF Perform, OnceInv
    <3>2. o \in Outcome
      BY DEF TypeOK, Outcome
    <3>3. Contract!TakeEffect
      BY <3>1, <3>2 DEF Contract!TakeEffect
    <3> QED BY <3>3 DEF Contract!Next
  <2>4. ASSUME NEW c \in Calls,
               LookupRead(c) \/ FallThrough(c) \/ DurableClaim(c) \/ DurableResolve(c)
        PROVE  UNCHANGED Contract!vars
    BY <2>4, NobodyIsTold DEF LookupRead, FallThrough, DurableClaim, DurableResolve
  <2>5. ASSUME NEW c \in Calls, Release(c) PROVE FALSE
    BY <2>5 DEF Release
  <2>6. ASSUME NEW w \in late, LateWriteLands(w) PROVE FALSE
    BY <2>6 DEF OnceInv
  <2>7. ASSUME NEW p \in Procs, Expire(p) PROVE UNCHANGED Contract!vars
    BY <2>7, NobodyIsTold DEF Expire, callVars
  <2>8. ASSUME NEW p \in Procs, Crash(p)
        PROVE  Contract!Next \/ UNCHANGED Contract!vars
    <3>1. /\ effects' = effects
          /\ \A d \in Calls : \/ answer'[d] = answer[d]
                              \/ pc[d] \in InFlight /\ answer'[d] = Told("none")
      BY <2>8 DEF Crash
    <3>2. \A d \in Calls : pc[d] # "resolving" => ToldOf(d)' = ToldOf(d)
      <4> SUFFICES ASSUME NEW d \in Calls, pc[d] # "resolving"
                   PROVE  ToldOf(d)' = ToldOf(d)
        OBVIOUS
      <4>1. CASE answer'[d] = answer[d]
        BY <4>1 DEF ToldOf
      <4>2. CASE pc[d] \in InFlight /\ answer'[d] = Told("none")
        <5>1. answer[d].kind # "result"
          BY <4>2 DEF InFlight, SoleRun
        <5> QED BY <4>2, <5>1 DEF ToldOf, Told
      <4> QED BY <3>1, <4>1, <4>2
    <3>3. CASE \E c \in Calls : pc[c] = "resolving"
      <4>1. PICK c \in Calls : pc[c] = "resolving"
        BY <3>3
      <4>2. \A d \in Calls : d # c => pc[d] # "resolving"
        BY <4>1 DEF SoleRun, Running
      <4> QED BY <2>0, <3>1, <3>2, <4>2, OneIsTold
    <3>4. CASE \A c \in Calls : pc[c] # "resolving"
      <4>1. \A d \in Calls : ToldOf(d)' = ToldOf(d)
        BY <3>2, <3>4
      <4>2. [d \in Calls |-> ToldOf(d)'] = [d \in Calls |-> ToldOf(d)]
        BY <4>1
      <4> QED BY <3>1, <4>2 DEF Contract!vars, ToldOf
    <3> QED BY <3>3, <3>4
  <2>9. CASE UNCHANGED vars
    BY <2>9, NobodyIsTold DEF vars, callVars
  <2> QED
    BY <2>1, <2>2, <2>3, <2>4, <2>5, <2>6, <2>7, <2>8, <2>9 DEF Next, Serve
<1> QED
  BY <1>1, <1>2, TypeCorrect, Truthful, OnceInvariant, SoleRunInvariant, PTL
  DEF Spec, KeepsContract, Contract!Spec

----------------------------------------------------------------------------
(***************************************************************************)
(* The other world: one process that stays up while the table fails it.    *)
(* Memory alone keeps the contract, and neither the unique index nor a     *)
(* tool that never fails is needed.                                        *)
(***************************************************************************)

\* What took effect is held by its performer, and then by memory.
MemoryInv ==
    /\ \A p \in Procs : mem[p].status = "complete" => effects = {mem[p].outcome}
    /\ \A c \in Calls : pc[c] = "performed" => effects = {[args |-> args[c], run |-> run[c]]}
    /\ effects # {} => \/ \E p \in Procs : mem[p].status = "complete"
                       \/ \E c \in Calls : pc[c] = "performed"

\* Before its owner performs, nothing took effect.
LEMMA NothingYet ==
    ASSUME \A p, q \in Procs : p = q, TypeOK, OneHolderPerProcess, MemoryInv,
           NEW c \in Calls, pc[c] \in {"lookup", "found", "insert", "executing"}
    PROVE  /\ effects = {} /\ mem[at[c]].status = "pending"
           /\ \A d \in Calls : d # c => pc[d] \notin Holding
<1>1. /\ mem[at[c]].status = "pending" /\ at[c] \in Procs
      /\ \A d \in Calls : pc[d] \in Holding => d = c
  BY DEF OneHolderPerProcess, Holding, TypeOK
<1>2. \A d \in Calls : pc[d] # "performed"
  BY <1>1 DEF Holding
<1> QED BY <1>1, <1>2 DEF MemoryInv

LEMMA MemoryKept ==
    ASSUME MemoryInv, mem' = mem, effects' = effects,
           \A c \in Calls :
              (pc'[c] = "performed" <=> pc[c] = "performed") /\
              (pc[c] = "performed" => args'[c] = args[c] /\ run'[c] = run[c])
    PROVE  MemoryInv'
BY DEF MemoryInv

\* Nothing has taken effect after the step either, and nobody has performed.
LEMMA StillNothing ==
    ASSUME effects' = {}, \A p \in Procs : mem'[p].status # "complete",
           \A c \in Calls : pc'[c] # "performed"
    PROVE  MemoryInv'
BY DEF MemoryInv

LEMMA MemoryInvariant ==
    ASSUME \A p, q \in Procs : p = q, MaxCrashes = 0, MemoryExpires = FALSE
    PROVE  Spec => []MemoryInv
<1>1. Init => MemoryInv
  BY DEF Init, MemoryInv, NoRecord
<1>2. TypeOK /\ OneHolderPerProcess /\ TruthInv /\ MemoryInv /\ [Next]_vars => MemoryInv'
  <2> SUFFICES ASSUME TypeOK, OneHolderPerProcess, TruthInv, MemoryInv, [Next]_vars
               PROVE  MemoryInv'
    OBVIOUS
  <2>1. ASSUME NEW c \in Calls, NEW p \in Procs, NEW a \in Args, Call(c, p, a)
        PROVE  MemoryInv'
    <3>1. /\ pc[c] \in {"idle", "answered", "lost"} /\ effects' = effects
          /\ args' = [args EXCEPT ![c] = a] /\ run' = [run EXCEPT ![c] = 0]
      BY <2>1 DEF Call
    <3>2. CASE mem' = mem /\ pc' = [pc EXCEPT ![c] = "answered"]
      BY <3>1, <3>2, MemoryKept DEF TypeOK
    <3>3. CASE /\ Reserve(p) = "claimed" /\ mem' = [mem EXCEPT ![p] = PendingRecord]
               /\ pc' = [pc EXCEPT ![c] = "lookup"]
      <4>1. mem[p].status = "none"
        BY <3>3 DEF Reserve, TypeOK, MemRecord
      <4>2. \A d \in Calls : pc[d] # "performed"
        BY <4>1 DEF OneHolderPerProcess, Holding, TypeOK
      <4>3. \A q \in Procs : mem[q].status = "none" /\ mem'[q].status # "complete"
        BY <3>3, <4>1 DEF TypeOK, PendingRecord
      <4>4. effects' = {}
        BY <3>1, <4>2, <4>3 DEF MemoryInv
      <4>5. \A d \in Calls : pc'[d] # "performed"
        BY <3>3, <4>2 DEF TypeOK
      <4> QED BY <4>3, <4>4, <4>5, StillNothing
    <3> QED BY <2>1, <3>2, <3>3 DEF Call
  <2>2. ASSUME NEW c \in Calls, LookupRead(c) \/ FallThrough(c) \/ DurableResolve(c)
        PROVE  MemoryInv'
    BY <2>2, MemoryKept DEF LookupRead, FallThrough, DurableResolve, TypeOK
  <2>3. ASSUME NEW c \in Calls, ReplayDurable(c) PROVE FALSE
    <3>1. pc[c] = "found" /\ seen[c].status = "complete"
      BY <2>3 DEF ReplayDurable
    <3>2. effects = {}
      BY <3>1, NothingYet
    <3> QED BY <3>1, <3>2 DEF TruthInv
  <2>4. ASSUME NEW c \in Calls, RefuseDurable(c) \/ Release(c) PROVE MemoryInv'
    <3>1. /\ pc[c] \in {"found", "executing"} /\ StoreRelease(at[c]) /\ effects' = effects
          /\ pc' = [pc EXCEPT ![c] = "answered"] \/ pc' = [pc EXCEPT ![c] = "resolving"]
      BY <2>4 DEF RefuseDurable, Release
    <3>2. /\ effects = {} /\ mem[at[c]].status = "pending"
          /\ \A d \in Calls : d # c => pc[d] \notin Holding
      BY <3>1, NothingYet
    <3>3. \A q \in Procs : mem'[q].status # "complete"
      BY <3>1, <3>2 DEF StoreRelease, NoRecord, TypeOK
    <3>4. \A d \in Calls : pc'[d] # "performed"
      BY <3>1, <3>2 DEF Holding, TypeOK
    <3> QED BY <3>1, <3>2, <3>3, <3>4, StillNothing
  <2>5. ASSUME NEW c \in Calls, DurableClaim(c) PROVE MemoryInv'
    <3>1. /\ pc[c] = "insert" /\ pc' = [pc EXCEPT ![c] = "executing"]
          /\ mem' = mem /\ effects' = effects
      BY <2>5 DEF DurableClaim
    <3>2. /\ effects = {} /\ mem[at[c]].status = "pending"
          /\ \A d \in Calls : d # c => pc[d] \notin Holding
      BY <3>1, NothingYet
    <3>3. \A q \in Procs : mem'[q].status # "complete"
      BY <3>1, <3>2 DEF TypeOK
    <3>4. \A d \in Calls : pc'[d] # "performed"
      BY <3>1, <3>2 DEF Holding, TypeOK
    <3> QED BY <3>1, <3>2, <3>3, <3>4, StillNothing
  <2>6. ASSUME NEW c \in Calls, Perform(c) PROVE MemoryInv'
    <3> DEFINE o == [args |-> args[c], run |-> run[c]]
    <3>1. /\ pc[c] = "executing" /\ pc' = [pc EXCEPT ![c] = "performed"]
          /\ effects' = effects \cup {o} /\ UNCHANGED <<mem, args, run>>
      BY <2>6 DEF Perform
    <3>2. /\ effects = {} /\ mem[at[c]].status = "pending"
          /\ \A d \in Calls : d # c => pc[d] \notin Holding
      BY <3>1, NothingYet
    <3>3. \A q \in Procs : mem'[q].status # "complete"
      BY <3>1, <3>2 DEF TypeOK
    <3>4. \A d \in Calls : pc'[d] = "performed" <=> d = c
      BY <3>1, <3>2 DEF Holding, TypeOK
    <3>5. effects' = {o} /\ [args |-> args'[c], run |-> run'[c]] = o
      BY <3>1, <3>2
    <3> HIDE DEF o
    <3> QED BY <3>3, <3>4, <3>5 DEF MemoryInv
  <2>7. ASSUME NEW c \in Calls, Complete(c) PROVE MemoryInv'
    <3> DEFINE o == [args |-> args[c], run |-> run[c]]
    <3>1. /\ pc[c] = "performed" /\ pc' = [pc EXCEPT ![c] = "resolving"]
          /\ mem' = [mem EXCEPT ![at[c]] = CompleteRecord(o)] /\ effects' = effects
      BY <2>7 DEF Complete
    <3>2. effects = {o} /\ \A d \in Calls : d # c => pc[d] \notin Holding
      BY <3>1 DEF MemoryInv, OneHolderPerProcess, Holding, TypeOK
    <3>3. at[c] \in Procs /\ \A q \in Procs : mem'[q] = CompleteRecord(o)
      BY <3>1 DEF TypeOK
    <3>4. \A d \in Calls : pc'[d] # "performed"
      BY <3>1, <3>2 DEF Holding, TypeOK
    <3> HIDE DEF o
    <3>5. CompleteRecord(o).status = "complete" /\ CompleteRecord(o).outcome = o
      BY DEF CompleteRecord
    <3> QED BY <3>1, <3>2, <3>3, <3>4, <3>5 DEF MemoryInv
  <2>8. ASSUME NEW w \in late, LateWriteLands(w) PROVE MemoryInv'
    BY <2>8, MemoryKept DEF LateWriteLands, callVars
  <2>9. ASSUME NEW p \in Procs, Expire(p) \/ Crash(p) PROVE FALSE
    BY <2>9 DEF Expire, Crash, TypeOK
  <2>10. CASE UNCHANGED vars
    BY <2>10, MemoryKept DEF vars, callVars
  <2> QED
    BY <2>1, <2>2, <2>3, <2>4, <2>5, <2>6, <2>7, <2>8, <2>9, <2>10 DEF Next, Serve
<1> QED BY <1>1, <1>2, TypeCorrect, OneHolder, TruthInvariant, PTL DEF Spec

\* While the process stays up, a retried call takes effect at most once:
\* however many durable writes fail or land late, whether or not the tool may
\* fail and whether or not the unique index was applied.
THEOREM OnceInMemory ==
    ASSUME \A p, q \in Procs : p = q, MaxCrashes = 0, MemoryExpires = FALSE
    PROVE  Spec => []AtMostOneEffect
<1>1. MemoryInv => AtMostOneEffect
  BY DEF MemoryInv, AtMostOneEffect
<1> QED BY <1>1, MemoryInvariant, PTL

\* And it implements RetryContract: no client is told anything but the result
\* of the key's one effect, with the table down or wrong from start to end.
THEOREM ContractKeptInMemory ==
    ASSUME \A p, q \in Procs : p = q, MaxCrashes = 0, MemoryExpires = FALSE
    PROVE  Spec => KeepsContract
<1>1. Init => Contract!Init
  <2> SUFFICES ASSUME Init PROVE Contract!Init
    OBVIOUS
  <2>1. \A c \in Calls : answer[c].kind # "result"
    BY DEF Init, Told
  <2> QED BY <2>1 DEF Init, Contract!Init
<1>2. /\ TypeOK /\ OneHolderPerProcess /\ MemoryInv /\ AnswersAreTrue'
      /\ AtMostOneEffect /\ [Next]_vars
      => [Contract!Next]_(Contract!vars)
  <2> SUFFICES ASSUME TypeOK, OneHolderPerProcess, MemoryInv, AnswersAreTrue',
                      AtMostOneEffect, [Next]_vars
               PROVE  Contract!Next \/ UNCHANGED Contract!vars
    BY DEF Contract!vars
  <2>1. ASSUME NEW c \in Calls, NEW p \in Procs, NEW a \in Args, Call(c, p, a)
        PROVE  Contract!Next
    <3>1. effects' = effects /\ \A d \in Calls : d # c => answer'[d] = answer[d]
      BY <2>1 DEF Call, TypeOK
    <3> QED BY <3>1, OneIsTold DEF ToldOf
  <2>2. ASSUME NEW c \in Calls,
               ReplayDurable(c) \/ RefuseDurable(c) \/ Release(c) \/ Complete(c)
        PROVE  Contract!Next
    <3>1. effects' = effects /\ \A d \in Calls : d # c => answer'[d] = answer[d]
      BY <2>2 DEF ReplayDurable, RefuseDurable, Release, Complete, TypeOK
    <3> QED BY <3>1, OneIsTold DEF ToldOf
  <2>3. ASSUME NEW c \in Calls, Perform(c) PROVE Contract!Next
    <3> DEFINE o == [args |-> args[c], run |-> run[c]]
    <3>1. pc[c] = "executing" /\ effects' = effects \cup {o} /\ answer' = answer
      BY <2>3 DEF Perform
    <3>2. effects = {}
      BY <3>1, NothingYet
    <3>3. o \in Outcome
      BY DEF TypeOK, Outcome
    <3>4. Contract!TakeEffect
      BY <3>1, <3>2, <3>3 DEF Contract!TakeEffect
    <3> QED BY <3>4 DEF Contract!Next
  <2>4. ASSUME NEW c \in Calls,
               LookupRead(c) \/ FallThrough(c) \/ DurableClaim(c) \/ DurableResolve(c)
        PROVE  UNCHANGED Contract!vars
    BY <2>4, NobodyIsTold DEF LookupRead, FallThrough, DurableClaim, DurableResolve
  <2>5. ASSUME NEW w \in late, LateWriteLands(w) PROVE UNCHANGED Contract!vars
    BY <2>5, NobodyIsTold DEF LateWriteLands, callVars
  <2>6. ASSUME NEW p \in Procs, Expire(p) \/ Crash(p) PROVE FALSE
    BY <2>6 DEF Expire, Crash, TypeOK
  <2>7. CASE UNCHANGED vars
    BY <2>7, NobodyIsTold DEF vars, callVars
  <2> QED
    BY <2>1, <2>2, <2>3, <2>4, <2>5, <2>6, <2>7 DEF Next, Serve
<1> QED
  BY <1>1, <1>2, TypeCorrect, OneHolder, Truthful, MemoryInvariant, OnceInMemory, PTL
  DEF Spec, KeepsContract, Contract!Spec
============================================================================

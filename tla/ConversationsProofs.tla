------------------------ MODULE ConversationsProofs ------------------------
(***************************************************************************)
(* What holds of threads and replies for any number of sends, messages,    *)
(* webhook requests, sender numbers and rows per select.                   *)
(***************************************************************************)
EXTENDS Conversations, FiniteSetTheorems, TLAPS

\* A select returns a view, whatever it cuts off.
LEMMA SelectType ==
    ASSUME NEW S \in SUBSET Threads, NEW v \in Select(S)
    PROVE  v \in View /\ v.rows \subseteq S
<1>1. EmptyView \in View /\ EmptyView.rows \subseteq S
  BY DEF EmptyView, View
<1>2. ASSUME NEW U \in SUBSET S
      PROVE  [rows |-> U, full |-> Cardinality(S) >= Window] \in View
  <2>1. (Cardinality(S) >= Window) \in BOOLEAN
    OBVIOUS
  <2> QED BY <2>1 DEF View
<1>3. CASE v = EmptyView
  BY <1>1, <1>3
<1>4. CASE v # EmptyView
  <2>1. PICK U \in SUBSET S : v = [rows |-> U, full |-> Cardinality(S) >= Window]
    BY <1>4 DEF Select
  <2> QED BY <1>2, <2>1
<1> QED BY <1>3, <1>4

LEMMA PairRowsType ==
    ASSUME NEW n, NEW s
    PROVE  PairRows(n, s) \subseteq Threads
BY DEF PairRows

\* A reference finds threads.
LEMMA FindByRefType ==
    ASSUME NEW r
    PROVE  FindByRef(r) \subseteq Threads
BY DEF FindByRef

\* Setting a thread's state leaves every thread with a state the code knows.
LEMMA SetStateType ==
    ASSUME TypeOK, NEW t \in Threads, NEW s \in State, SetState(t, s)
    PROVE  state' \in [Threads -> State]
BY DEF SetState, TypeOK

LEMMA AttributeType ==
    ASSUME TypeOK, NEW h \in Handlers, NEW t \in Threads, Attribute(h, t)
    PROVE  /\ hpc' = [hpc EXCEPT ![h] = "matched"]
           /\ match' \in [Handlers -> Threads \cup {Nobody}]
BY DEF Attribute, TypeOK

\* The business answers messages it received, and those carry the reference
\* of a thread that was opened.
RefsInv ==
    /\ \A t \in Threads : pc[t] \notin {"idle", "opening"} => ref[t] \in Refs
    /\ \A t \in delivered : pc[t] \notin {"idle", "opening"}

\* Each variable stays in its type under every interleaving of sends,
\* replies and webhook requests: in particular a thread only ever has a state
\* that core/conversations.py names, and replies go to threads that exist.
THEOREM TypeCorrect == Spec => []TypeOK
<1> USE DEF TypeOK
<1>1. Init => TypeOK /\ RefsInv
  <2>1. Pool[1] \in Numbers
    BY ConversationAssumption DEF Numbers
  <2> QED BY <2>1 DEF Init, State, View, EmptyView, RefsInv
<1>2. TypeOK /\ RefsInv /\ [Next]_vars => TypeOK'
  <2> SUFFICES ASSUME TypeOK, RefsInv, [Next]_vars PROVE TypeOK'
    OBVIOUS
  <2> USE DEF intakeVars, sendVars
  <2>1. ASSUME NEW t \in Threads, Allocate(t) PROVE TypeOK'
    BY <2>1 DEF Allocate, Numbers
  <2>2. ASSUME NEW t \in Threads, Open(t) PROVE TypeOK'
    BY <2>2 DEF Open, State, LiveStates
  <2>3. ASSUME NEW t \in Threads, SendSucceeds(t) PROVE TypeOK'
    BY <2>3 DEF SendSucceeds
  <2>4. ASSUME NEW t \in Threads, SendFails(t) PROVE TypeOK'
    BY <2>4 DEF SendFails
  <2>5. ASSUME NEW t \in Threads, SendRefused(t) PROVE TypeOK'
    BY <2>5 DEF SendRefused
  <2>6. ASSUME NEW t \in Threads, LogOutbound(t) PROVE TypeOK'
    BY <2>6 DEF LogOutbound
  <2>7. ASSUME NEW t \in Threads, MarkAwaiting(t) PROVE TypeOK'
    <3>1. state' \in [Threads -> State]
      BY <2>7, SetStateType DEF MarkAwaiting, State, LiveStates
    <3> QED BY <2>7, <3>1 DEF MarkAwaiting
  <2>8. ASSUME NEW t \in Threads, MarkUnsent(t) PROVE TypeOK'
    <3>1. state' \in [Threads -> State]
      BY <2>8, SetStateType DEF MarkUnsent, State
    <3> QED BY <2>8, <3>1 DEF MarkUnsent
  <2>9. ASSUME NEW t \in Threads, Expire(t) PROVE TypeOK'
    BY <2>9 DEF Expire
  <2>10. ASSUME NEW m \in Replies, NEW t \in Threads, BusinessReplies(m, t)
         PROVE  TypeOK'
    <3>1. reply' \in [Replies -> Reply \cup {NoReply}]
      <4>1. ref[t] \in Refs /\ \A u \in delivered : ref[u] \in Refs
        BY <2>10 DEF BusinessReplies, RefsInv
      <4>2. PICK tap \in BOOLEAN, clear \in BOOLEAN,
                 quotes \in {{}, {ref[t]}} \cup {{ref[t], ref[u]} : u \in delivered} :
              reply' = [reply EXCEPT ![m] = [answers |-> t, tap |-> tap,
                                             quotes |-> quotes, clear |-> clear]]
        BY <2>10 DEF BusinessReplies
      <4>3. quotes \in SUBSET Refs
        BY <4>1
      <4> QED BY <4>2, <4>3 DEF Reply
    <3> QED BY <2>10, <3>1 DEF BusinessReplies
  <2>11. ASSUME NEW h \in Handlers, Receive(h) PROVE TypeOK'
    BY <2>11 DEF Receive
  <2>12. ASSUME NEW h \in Handlers, Store(h) PROVE TypeOK'
    BY <2>12 DEF Store
  <2>13. ASSUME NEW h \in Handlers, MatchTap(h) PROVE TypeOK'
    <3>1. CASE GoOn(h, "refs")
      BY <2>13, <3>1 DEF MatchTap, GoOn
    <3>2. CASE Answered(h) \in logged /\ Attribute(h, Answered(h))
      <4>1. Answered(h) \in Threads
        BY <3>2
      <4> HIDE DEF TypeOK
      <4>2. /\ hpc' = [hpc EXCEPT ![h] = "matched"]
            /\ match' \in [Handlers -> Threads \cup {Nobody}]
        BY <3>2, <4>1, AttributeType
      <4> QED BY <2>13, <4>2 DEF MatchTap, TypeOK
    <3> QED BY <2>13, <3>1, <3>2 DEF MatchTap
  <2>14. ASSUME NEW h \in Handlers, MatchRefs(h) PROVE TypeOK'
    <3>1. \/ \E t \in Threads : Attribute(h, t)
          \/ GoOn(h, "done") \/ GoOn(h, "open")
      BY <2>14, FindByRefType DEF MatchRefs
    <3> QED BY <2>14, <3>1, AttributeType DEF MatchRefs, GoOn
  <2>15. ASSUME NEW h \in Handlers, ReadOpen(h) PROVE TypeOK'
    <3>1. seen' \in [Handlers -> View]
      BY <2>15, SelectType, PairRowsType DEF ReadOpen
    <3> QED BY <2>15, <3>1 DEF ReadOpen
  <2>16. ASSUME NEW h \in Handlers, MatchPair(h) PROVE TypeOK'
    <3>1. PICK v \in Select(PairRows(number[Answered(h)], "awaiting_reply")) :
            \/ \E t \in (seen[h].rows \cup v.rows) \ expired : Attribute(h, t)
            \/ GoOn(h, "done")
      BY <2>16 DEF MatchPair
    <3>2. v.rows \subseteq Threads /\ seen[h].rows \subseteq Threads
      BY SelectType, PairRowsType DEF View
    <3>3. \/ \E t \in Threads : Attribute(h, t)
          \/ GoOn(h, "done")
      BY <3>1, <3>2
    <3>4. seen' \in [Handlers -> View]
      BY <2>16 DEF MatchPair, View, EmptyView
    <3> QED BY <2>16, <3>3, <3>4, AttributeType DEF MatchPair, GoOn
  <2>17. ASSUME NEW h \in Handlers, Resolve(h) PROVE TypeOK'
    <3>1. state' \in [Threads -> State]
      BY <2>17 DEF Resolve, SetState, State
    <3> QED BY <2>17, <3>1 DEF Resolve
  <2>18. CASE UNCHANGED vars
    BY <2>18 DEF vars
  <2> QED BY <2>1, <2>2, <2>3, <2>4, <2>5, <2>6, <2>7, <2>8, <2>9, <2>10, <2>11,
            <2>12, <2>13, <2>14, <2>15, <2>16, <2>17, <2>18
         DEF Next, Send, Intake
<1>3. TypeOK /\ RefsInv /\ [Next]_vars => RefsInv'
  <2> SUFFICES ASSUME TypeOK, RefsInv, [Next]_vars PROVE RefsInv'
    OBVIOUS
  <2> USE DEF RefsInv, intakeVars, sendVars
  <2>1. ASSUME NEW t \in Threads, Send(t) PROVE RefsInv'
    BY <2>1 DEF Send, Allocate, Open, SendSucceeds, SendFails, SendRefused,
                LogOutbound, MarkAwaiting, MarkUnsent, Expire
  <2>2. ASSUME NEW m \in Replies, NEW t \in Threads, BusinessReplies(m, t)
        PROVE  RefsInv'
    BY <2>2 DEF BusinessReplies
  <2>3. ASSUME NEW h \in Handlers, Intake(h) PROVE RefsInv'
    BY <2>3 DEF Intake, Receive, Store, MatchTap, MatchRefs, ReadOpen, MatchPair,
                Resolve
  <2>4. CASE UNCHANGED vars
    BY <2>4 DEF vars
  <2> QED BY <2>1, <2>2, <2>3, <2>4 DEF Next
<1> QED BY <1>1, <1>2, <1>3, PTL DEF Spec

----------------------------------------------------------------------------
(* Attribution once.                                                       *)

\* A webhook request that was let through as new, and has not found that
\* nobody can be told to be the one who is answered.
Taken(h) == hpc[h] \notin {"idle", "done"} \/ match[h] # Nobody

\* The first request that stores a message keeps all later ones out, and no
\* other is at work between its check and its store.
OnceInv ==
    /\ \A h \in Handlers : Taken(h) /\ hpc[h] # "storing" => msg[h] \in stored
    /\ \A h \in Handlers : hpc[h] \in {"idle", "storing"} => match[h] = Nobody
    /\ \A g, h \in Handlers : g # h /\ msg[g] = msg[h] /\ Taken(g) => ~Taken(h)

\* Requests that go on, or end, without letting another message in.
LEMMA OnceKept ==
    ASSUME OnceInv, NEW h \in Handlers, TypeOK, Taken(h), hpc[h] # "storing",
           msg' = msg, stored' = stored,
           NEW x, x \notin {"idle", "storing"}, hpc' = [hpc EXCEPT ![h] = x],
           \A g \in Handlers : g # h => match'[g] = match[g]
    PROVE  OnceInv'
<1>1. \A g \in Handlers : g # h => hpc'[g] = hpc[g] /\ match'[g] = match[g]
  BY DEF TypeOK
<1>2. hpc'[h] = x
  BY DEF TypeOK
<1>3. \A g \in Handlers : Taken(g)' => Taken(g)
  BY <1>1 DEF Taken
<1> QED BY <1>1, <1>2, <1>3 DEF OnceInv, Taken

\* The webhook attributes a message to a thread once, however often it is
\* delivered: the deduplication of _already_handled, with tables that answer.
THEOREM Once == ASSUME Lossy = FALSE PROVE Spec => []AttributedOnce
<1>1. Init => OnceInv
  BY DEF Init, OnceInv, Taken
<1>2. TypeOK /\ OnceInv /\ [Next]_vars => OnceInv'
  <2> SUFFICES ASSUME TypeOK, OnceInv, [Next]_vars PROVE OnceInv'
    OBVIOUS
  <2>1. ASSUME UNCHANGED <<stored, hpc, msg, match>> PROVE OnceInv'
    BY <2>1 DEF OnceInv, Taken
  <2>2. ASSUME NEW t \in Threads, Send(t) PROVE OnceInv'
    BY <2>1, <2>2 DEF Send, Allocate, Open, SendSucceeds, SendFails, SendRefused,
       LogOutbound, MarkAwaiting, MarkUnsent, Expire, intakeVars
  <2>3. ASSUME NEW m \in Replies, NEW t \in Threads, BusinessReplies(m, t)
        PROVE  OnceInv'
    BY <2>1, <2>3 DEF BusinessReplies
  <2>4. ASSUME NEW h \in Handlers, Receive(h) PROVE OnceInv'
    <3>1. match' = match /\ msg' = msg /\ stored' = stored
      BY <2>4 DEF Receive
    <3>2. \A g \in Handlers : g # h => hpc'[g] = hpc[g]
      BY <2>4 DEF Receive, TypeOK
    <3>3. CASE hpc'[h] = "done"
      BY <3>1, <3>2, <3>3, <2>4 DEF OnceInv, Taken, Receive, Posted
    <3>4. CASE hpc'[h] = "storing" /\ msg[h] \notin stored
      <4>1. \A g \in Handlers : g # h /\ msg[g] = msg[h] => ~Taken(g)
        BY <2>4, <3>4 DEF OnceInv, Receive, Posted
      <4>2. \A g \in Handlers : g # h => Taken(g)' = Taken(g)
        BY <3>1, <3>2 DEF Taken
      <4>3. match[h] = Nobody
        BY <2>4 DEF OnceInv, Receive, Posted
      <4> QED BY <3>1, <3>2, <3>4, <4>1, <4>2, <4>3 DEF OnceInv, Taken
    <3> QED BY <2>4, <3>3, <3>4 DEF Receive, TypeOK
  <2>5. ASSUME NEW h \in Handlers, Store(h) PROVE OnceInv'
    <3>1. match' = match /\ msg' = msg /\ stored \subseteq stored' /\ msg[h] \in stored'
      BY <2>5 DEF Store
    <3>2. hpc'[h] = "tap" /\ \A g \in Handlers : g # h => hpc'[g] = hpc[g]
      BY <2>5 DEF Store, TypeOK
    <3>3. \A g \in Handlers : Taken(g)' => Taken(g)
      BY <2>5, <3>1, <3>2 DEF Taken, Store
    <3> QED BY <3>1, <3>2, <3>3 DEF OnceInv, Taken
  <2>6. ASSUME NEW h \in Handlers, MatchTap(h) PROVE OnceInv'
    <3>1. PICK x \in {"matched", "refs"} : hpc' = [hpc EXCEPT ![h] = x]
      BY <2>6 DEF MatchTap, Attribute, GoOn
    <3>2. \A g \in Handlers : g # h => match'[g] = match[g]
      BY <2>6 DEF MatchTap, Attribute, GoOn, TypeOK
    <3> QED BY <2>6, <3>1, <3>2, OnceKept DEF MatchTap, Taken
  <2>7. ASSUME NEW h \in Handlers, MatchRefs(h) PROVE OnceInv'
    <3>1. PICK x \in {"matched", "open", "done"} : hpc' = [hpc EXCEPT ![h] = x]
      BY <2>7 DEF MatchRefs, Attribute, GoOn
    <3>2. \A g \in Handlers : g # h => match'[g] = match[g]
      BY <2>7 DEF MatchRefs, Attribute, GoOn, TypeOK
    <3> QED BY <2>7, <3>1, <3>2, OnceKept DEF MatchRefs, Taken
  <2>8. ASSUME NEW h \in Handlers, ReadOpen(h) PROVE OnceInv'
    BY <2>8, OnceKept DEF ReadOpen, Taken
  <2>9. ASSUME NEW h \in Handlers, MatchPair(h) PROVE OnceInv'
    <3>1. PICK x \in {"matched", "done"} : hpc' = [hpc EXCEPT ![h] = x]
      BY <2>9 DEF MatchPair, Attribute, GoOn
    <3>2. \A g \in Handlers : g # h => match'[g] = match[g]
      BY <2>9 DEF MatchPair, Attribute, GoOn, TypeOK
    <3> QED BY <2>9, <3>1, <3>2, OnceKept DEF MatchPair, Taken
  <2>10. ASSUME NEW h \in Handlers, Resolve(h) PROVE OnceInv'
    BY <2>10, OnceKept DEF Resolve, Taken
  <2>11. CASE UNCHANGED vars
    BY <2>1, <2>11 DEF vars, intakeVars
  <2> QED BY <2>2, <2>3, <2>4, <2>5, <2>6, <2>7, <2>8, <2>9, <2>10, <2>11
          DEF Next, Intake
<1>3. OnceInv => AttributedOnce
  BY DEF OnceInv, AttributedOnce, Taken
<1> QED BY <1>1, <1>2, <1>3, TypeCorrect, PTL DEF Spec

----------------------------------------------------------------------------
(* No guess between live threads.                                          *)

\* A select of a table that answers leaves no row out, or is full.
LEMMA SelectComplete ==
    ASSUME Lossy = FALSE, NEW S \in SUBSET Threads, NEW v \in Select(S)
    PROVE  v.full \/ v.rows = S
<1>1. IsFiniteSet(S) /\ Cardinality(S) \in Nat
  BY ConversationAssumption, FS_Subset, FS_CardinalityType
<1>2. PICK U \in SUBSET S :
        /\ v = [rows |-> U, full |-> Cardinality(S) >= Window]
        /\ Cardinality(U) = IF Cardinality(S) > Window THEN Window ELSE Cardinality(S)
  BY DEF Select
<1>3. CASE Cardinality(S) >= Window
  BY <1>2, <1>3
<1>4. CASE ~(Cardinality(S) >= Window)
  <2>1. Cardinality(U) = Cardinality(S)
    BY <1>1, <1>2, <1>4, ConversationAssumption
  <2>2. U = S
    BY <1>1, <2>1, FS_Subset
  <2> QED BY <1>2, <2>2
<1> QED BY <1>3, <1>4

\* One candidate means that neither select was cut off, and that the two
\* list no two different unexpired rows.
LEMMA OneCandidate ==
    ASSUME NEW v \in View, NEW w \in View, Candidates(v, w) = 1,
           NEW t \in (v.rows \cup w.rows) \ expired,
           NEW u \in (v.rows \cup w.rows) \ expired
    PROVE  ~v.full /\ ~w.full /\ t = u
<1> DEFINE A == {x \in v.rows : x \notin expired}
           B == {x \in w.rows : x \notin expired}
<1>1. /\ IsFiniteSet(A) /\ Cardinality(A) \in Nat
      /\ IsFiniteSet(B) /\ Cardinality(B) \in Nat
  <2>1. A \in SUBSET Threads /\ B \in SUBSET Threads
    BY DEF View
  <2> HIDE DEF A, B
  <2> QED BY <2>1, ConversationAssumption, FS_Subset, FS_CardinalityType
<1>2. Candidates(v, w) =
        IF (v.full \/ w.full) /\ Cardinality(A) + Cardinality(B) > 0
          THEN Cardinality(A) + Cardinality(B) + 1
          ELSE Cardinality(A) + Cardinality(B)
  BY DEF Candidates
<1>3. t \in A \cup B /\ u \in A \cup B
  OBVIOUS
<1> HIDE DEF A, B
<1>4. Cardinality(A) + Cardinality(B) = 1 /\ ~v.full /\ ~w.full
  BY <1>1, <1>2 DEF View
<1>5. CASE Cardinality(A) = 0
  <2>1. A = {} /\ Cardinality(B) = 1
    BY <1>1, <1>4, <1>5, FS_EmptySet
  <2>2. \E x : B = {x}
    BY <1>1, <2>1, FS_Singleton
  <2> QED BY <1>3, <1>4, <2>1, <2>2
<1>6. CASE Cardinality(A) # 0
  <2>1. Cardinality(A) = 1 /\ Cardinality(B) = 0
    BY <1>1, <1>4, <1>6
  <2>2. B = {}
    BY <1>1, <2>1, FS_EmptySet
  <2>3. \E x : A = {x}
    BY <1>1, <2>1, FS_Singleton
  <2> QED BY <1>3, <1>4, <2>2, <2>3
<1> QED BY <1>5, <1>6

\* Handlers only see replies to messages that are out, of threads that are
\* past Open: such a thread leaves the state open for good, so one that is
\* open at the second select was there at the first.
GuessInv ==
    /\ \A t \in delivered : pc[t] \notin {"idle", "opening"}
    /\ \A m \in Replies : reply[m] # NoReply => reply[m].answers \in delivered
    /\ \A h \in Handlers : hpc[h] # "idle" => reply[msg[h]] # NoReply
    /\ \A h \in Handlers :
          hpc[h] = "awaiting" /\ state[Answered(h)] = "open" /\ Answered(h) \notin expired
            => seen[h].full \/ Answered(h) \in seen[h].rows

\* A reply is never given to another thread by guess while the thread it
\* answers is live: the one-live-thread rule of correlate_inbound, its two
\* selects and their full windows, against every interleaving.
THEOREM NoGuess == ASSUME Lossy = FALSE PROVE Spec => NeverGuesses
<1> DEFINE A == \A h \in Handlers : match'[h] # match[h] =>
                   \/ match'[h] = Answered(h)
                   \/ Names(h, match'[h])
                   \/ ~Live(Answered(h))
<1>1. Init => GuessInv
  BY DEF Init, GuessInv
<1>2. TypeOK /\ GuessInv /\ [Next]_vars => GuessInv'
  <2> SUFFICES ASSUME TypeOK, GuessInv, [Next]_vars PROVE GuessInv'
    OBVIOUS
  <2> USE DEF TypeOK, GuessInv, Answered, intakeVars, sendVars
  <2>1. ASSUME NEW t \in Threads, Send(t) PROVE GuessInv'
    <3>1. UNCHANGED intakeVars
      BY <2>1 DEF Send, Allocate, Open, SendSucceeds, SendFails, SendRefused,
         LogOutbound, MarkAwaiting, MarkUnsent, Expire
    <3>2. delivered \subseteq delivered' /\ expired \subseteq expired'
      BY <2>1 DEF Send, Allocate, Open, SendSucceeds, SendFails, SendRefused,
         LogOutbound, MarkAwaiting, MarkUnsent, Expire
    <3>3. \A u \in delivered' : pc'[u] \notin {"idle", "opening"}
      BY <2>1 DEF Send, Allocate, Open, SendSucceeds, SendFails, SendRefused,
         LogOutbound, MarkAwaiting, MarkUnsent, Expire
    <3>4. \A u \in delivered : state'[u] = "open" => state[u] = "open"
      BY <2>1 DEF Send, Allocate, Open, SendSucceeds, SendFails, SendRefused,
         LogOutbound, MarkAwaiting, MarkUnsent, Expire, SetState
    <3>5. \A h \in Handlers : hpc[h] # "idle" => Answered(h) \in delivered
      OBVIOUS
    <3> QED BY <3>1, <3>2, <3>3, <3>4, <3>5
  <2>2. ASSUME NEW m \in Replies, NEW t \in Threads, BusinessReplies(m, t)
        PROVE  GuessInv'
    <3>1. /\ reply[m] = NoReply /\ t \in delivered
          /\ \A k \in Replies : k # m => reply'[k] = reply[k]
          /\ reply'[m].answers = t
          /\ UNCHANGED <<pc, delivered, state, expired, hpc, msg, seen>>
      BY <2>2 DEF BusinessReplies
    <3>2. \A h \in Handlers : hpc[h] # "idle" => reply'[msg[h]] = reply[msg[h]]
      BY <3>1
    <3> QED BY <3>1, <3>2
  <2>3. ASSUME NEW h \in Handlers, Receive(h) PROVE GuessInv'
    BY <2>3 DEF Receive, Posted
  <2>4. ASSUME NEW h \in Handlers, Store(h) PROVE GuessInv'
    BY <2>4 DEF Store
  <2>5. ASSUME NEW h \in Handlers, MatchTap(h) PROVE GuessInv'
    BY <2>5 DEF MatchTap, Attribute, GoOn
  <2>6. ASSUME NEW h \in Handlers, MatchRefs(h) PROVE GuessInv'
    BY <2>6 DEF MatchRefs, Attribute, GoOn
  <2>7. ASSUME NEW h \in Handlers, ReadOpen(h) PROVE GuessInv'
    <3> DEFINE a == Answered(h)
    <3>1. PICK v \in Select(PairRows(number[a], "open")) :
            seen' = [seen EXCEPT ![h] = v]
      BY <2>7 DEF ReadOpen
    <3>2. v.full \/ v.rows = PairRows(number[a], "open")
      BY SelectComplete, PairRowsType
    <3>3. a \in Threads
      BY <2>7 DEF ReadOpen
    <3>4. state[a] = "open" => v.full \/ a \in v.rows
      BY <3>2, <3>3 DEF PairRows
    <3> QED BY <2>7, <3>1, <3>4 DEF ReadOpen
  <2>8. ASSUME NEW h \in Handlers, MatchPair(h) PROVE GuessInv'
    BY <2>8 DEF MatchPair, Attribute, GoOn
  <2>9. ASSUME NEW h \in Handlers, Resolve(h) PROVE GuessInv'
    BY <2>9 DEF Resolve, SetState
  <2>10. CASE UNCHANGED vars
    BY <2>10 DEF vars
  <2> QED BY <2>1, <2>2, <2>3, <2>4, <2>5, <2>6, <2>7, <2>8, <2>9, <2>10
          DEF Next, Intake
<1>3. TypeOK /\ GuessInv /\ [Next]_vars => A
  <2> SUFFICES ASSUME TypeOK, GuessInv, [Next]_vars,
                      NEW h \in Handlers, match'[h] # match[h], Live(Answered(h))
               PROVE  match'[h] = Answered(h) \/ Names(h, match'[h])
    OBVIOUS
  <2>1. MatchTap(h) \/ MatchRefs(h) \/ MatchPair(h)
    <3>1. ASSUME NEW t \in Threads, Send(t) PROVE match' = match
      BY <3>1 DEF Send, Allocate, Open, SendSucceeds, SendFails, SendRefused,
         LogOutbound, MarkAwaiting, MarkUnsent, Expire, intakeVars
    <3>2. ASSUME NEW m \in Replies, NEW t \in Threads, BusinessReplies(m, t)
          PROVE  match' = match
      BY <3>2 DEF BusinessReplies
    <3>3. ASSUME NEW g \in Handlers, Receive(g) \/ Store(g) \/ ReadOpen(g) \/ Resolve(g)
          PROVE  match' = match
      BY <3>3 DEF Receive, Store, ReadOpen, Resolve
    <3>4. ASSUME NEW g \in Handlers, MatchTap(g) \/ MatchRefs(g) \/ MatchPair(g)
          PROVE  g = h
      <4>1. \A x \in Handlers : x # g => match'[x] = match[x]
        BY <3>4 DEF MatchTap, MatchRefs, MatchPair, Attribute, GoOn, TypeOK
      <4> QED BY <4>1
    <3>5. CASE UNCHANGED vars
      BY <3>5 DEF vars, intakeVars
    <3> QED BY <3>1, <3>2, <3>3, <3>4, <3>5 DEF Next, Intake
  <2>2. CASE MatchTap(h)
    BY <2>2 DEF MatchTap, Attribute, GoOn, TypeOK
  <2>3. CASE MatchRefs(h)
    <3>1. PICK t : Attribute(h, t) /\ \E r \in reply[msg[h]].quotes : t \in FindByRef(r)
      BY <2>3 DEF MatchRefs, GoOn
    <3>2. match'[h] = t
      BY <3>1 DEF Attribute, TypeOK
    <3> QED BY <3>1, <3>2 DEF Names, FindByRef
  <2>4. CASE MatchPair(h)
    <3> DEFINE a == Answered(h)
    <3>1. PICK v \in Select(PairRows(number[a], "awaiting_reply")) :
            /\ Candidates(seen[h], v) = 1
            /\ \E t \in (seen[h].rows \cup v.rows) \ expired : Attribute(h, t)
      BY <2>4 DEF MatchPair, GoOn
    <3>2. PICK t \in (seen[h].rows \cup v.rows) \ expired : Attribute(h, t)
      BY <3>1
    <3>3. v \in View /\ seen[h] \in View
      BY SelectType, PairRowsType DEF TypeOK
    <3>4. ~seen[h].full /\ ~v.full
      BY <3>1, <3>2, <3>3, OneCandidate
    <3>5. v.rows = PairRows(number[a], "awaiting_reply")
      BY <3>4, SelectComplete, PairRowsType
    <3>6. a \in Threads
      BY <2>4 DEF MatchPair, GuessInv, TypeOK, Answered
    <3>7. a \in (seen[h].rows \cup v.rows) \ expired
      BY <2>4, <3>4, <3>5, <3>6 DEF Live, LiveStates, PairRows, GuessInv, MatchPair
    <3>8. t = a
      BY <3>1, <3>2, <3>3, <3>7, OneCandidate
    <3> QED BY <3>2, <3>8 DEF Attribute, TypeOK
  <2> QED BY <2>1, <2>2, <2>3, <2>4
<1> QED BY <1>1, <1>2, <1>3, TypeCorrect, PTL DEF Spec, NeverGuesses
============================================================================

--------------------------- MODULE Conversations ---------------------------
(***************************************************************************)
(* Requests sent to one business over WhatsApp and the attribution of its  *)
(* replies (core/conversations.py, core/number_pool.py, the thread that    *)
(* core/send_message.py opens, agent_interface/whatsapp_webhook.py).       *)
(*                                                                         *)
(* Every send opens a thread: a row of `conversations` with one of our     *)
(* numbers and a reference.  The business's replies arrive at a webhook,   *)
(* which looks for the thread by the message tapped on, by the references  *)
(* quoted, and by the pair of numbers.  Sends and webhook requests are     *)
(* coroutines; each step below ends with a request to the table.           *)
(***************************************************************************)
EXTENDS Naturals, Sequences, FiniteSets

CONSTANTS
    Threads,    \* the sends on behalf of an end user; one thread each
    Replies,    \* messages of the business
    Handlers,   \* webhook requests, each bringing one message
    Pool,       \* the sequence of our sender numbers
    Refs,       \* reference tokens
    Window,     \* rows a select returns at most (25 and 200 in the code)
    Lossy       \* may requests to the tables fail?

ASSUME ConversationAssumption ==
    /\ IsFiniteSet(Threads)
    /\ Pool \in Seq(STRING) /\ Pool # <<>>
    /\ Window \in Nat \ {0}
    /\ Lossy \in BOOLEAN

VARIABLES
    pc,         \* pc[t]: where the send of thread t stands
    number,     \* number[t]: the sender number allocated to it
    ref,        \* ref[t]: its reference token
    state,      \* state[t]: its row's state, "none" if there is no row
    expired,    \* the threads whose expires_at has passed
    delivered,  \* the threads whose message the business received
    logged,     \* the threads whose wamid is in conversation_messages
    reply,      \* reply[m]: what the business sent as message m
    stored,     \* messages with a row in whatsapp_inbound
    hpc,        \* hpc[h]: where webhook request h stands
    msg,        \* msg[h]: the message it brings
    seen,       \* seen[h]: its first select on the pair of numbers
    match       \* match[h]: the thread it attributes its message to

sendVars == <<pc, number, ref, expired, delivered, logged>>
intakeVars == <<reply, stored, hpc, msg, seen, match>>
vars == <<sendVars, state, intakeVars>>

Numbers == {Pool[i] : i \in DOMAIN Pool}
LiveStates == {"open", "awaiting_reply"}
State == LiveStates \cup {"none", "resolved", "unsent"}     \* resolved: confirmed or closed

\* A message of the business: the thread it answers; whether it is a reply
\* to our very message; the references it quotes; and is it a clear yes or no?
Reply == [answers : Threads, tap : BOOLEAN, quotes : SUBSET Refs,
          clear : BOOLEAN]
Nobody == "nobody"
NoReply == [answers |-> Nobody, tap |-> FALSE, quotes |-> {}, clear |-> FALSE]

\* What a select returned: rows, and whether the window was full.
View == [rows : SUBSET Threads, full : BOOLEAN]
EmptyView == [rows |-> {}, full |-> FALSE]

TypeOK ==
    /\ pc \in [Threads -> {"idle", "opening", "sending", "logging", "marking",
                           "unsending", "sent"}]
    /\ number \in [Threads -> Numbers]
    /\ ref \in [Threads -> Refs \cup {"none"}]
    /\ state \in [Threads -> State]
    /\ expired \subseteq Threads /\ delivered \subseteq Threads
    /\ logged \subseteq Threads
    /\ reply \in [Replies -> Reply \cup {NoReply}]
    /\ stored \subseteq Replies
    /\ hpc \in [Handlers -> {"idle", "storing", "tap", "refs", "open",
                             "awaiting", "matched", "done"}]
    /\ msg \in [Handlers -> Replies]
    /\ seen \in [Handlers -> View]
    /\ match \in [Handlers -> Threads \cup {Nobody}]

Init ==
    /\ pc = [t \in Threads |-> "idle"]
    /\ number = [t \in Threads |-> Pool[1]]
    /\ ref = [t \in Threads |-> "none"]
    /\ state = [t \in Threads |-> "none"]
    /\ expired = {} /\ delivered = {} /\ logged = {}
    /\ reply = [m \in Replies |-> NoReply]
    /\ stored = {}
    /\ hpc = [h \in Handlers |-> "idle"]
    /\ msg \in [Handlers -> Replies]
    /\ seen = [h \in Handlers |-> EmptyView]
    /\ match = [h \in Handlers |-> Nobody]

----------------------------------------------------------------------------
(* Lookups.  select_rows never raises: a failure reads as no rows.         *)

Live(t) == state[t] \in LiveStates /\ t \notin expired

\* A select of the given rows, in no order, cut off at the window.
Select(rows) ==
    {[rows |-> S, full |-> Cardinality(rows) >= Window] :
        S \in {S \in SUBSET rows :
                 Cardinality(S) = IF Cardinality(rows) > Window
                                    THEN Window ELSE Cardinality(rows)}}
    \cup (IF Lossy THEN {EmptyView} ELSE {})

PairRows(n, s) == {t \in Threads : number[t] = n /\ state[t] = s}

\* How many candidates live_threads_for_pair lists: the live rows of either
\* view and, if a window was full, a sentinel for those it may have cut off.
CandidatesUnmarked(v, w) ==
    Cardinality({t \in v.rows : t \notin expired})
      + Cardinality({t \in w.rows : t \notin expired})
Candidates(v, w) ==
    LET listed == Cardinality({t \in v.rows : t \notin expired})
                    + Cardinality({t \in w.rows : t \notin expired})
    IN IF (v.full \/ w.full) /\ listed > 0 THEN listed + 1 ELSE listed

Counts(n) ==
    {Candidates(v, w) : v \in Select(PairRows(n, "open")),
                        w \in Select(PairRows(n, "awaiting_reply"))}

\* find_by_ref: the one live thread with that reference, else nothing.
FindByRef(r) ==
    LET rows == {t \in Threads : state[t] # "none" /\ ref[t] = r}
        live == {t \in rows : Live(t)}
    IN IF Cardinality(rows) < Window /\ Cardinality(live) = 1 THEN live ELSE {}

----------------------------------------------------------------------------
(* Sending.                                                                *)

\* allocate: the first number without live threads, else the one that
\* carries the fewest.  The counts are no longer true when they are used.  Its
\* selects, up to two a number, are read in one step.
Allocate(t) ==
    /\ pc[t] = "idle"
    /\ \E count \in [DOMAIN Pool -> 0..2 * Cardinality(Threads) + 1], i \in DOMAIN Pool :
         /\ \A j \in DOMAIN Pool : count[j] \in Counts(Pool[j])
         /\ \A j \in DOMAIN Pool :
              count[i] < count[j] \/ (count[i] = count[j] /\ i <= j)
         /\ number' = [number EXCEPT ![t] = Pool[i]]
    /\ pc' = [pc EXCEPT ![t] = "opening"]
    /\ UNCHANGED <<ref, state, expired, delivered, logged, intakeVars>>

\* open_conversation: a random token and a row, which may not be written.
Open(t) ==
    /\ pc[t] = "opening"
    /\ \E r \in Refs : ref' = [ref EXCEPT ![t] = r]
    /\ \/ state' = [state EXCEPT ![t] = "open"]
       \/ Lossy /\ UNCHANGED state
    /\ pc' = [pc EXCEPT ![t] = "sending"]
    /\ UNCHANGED <<number, expired, delivered, logged, intakeVars>>

\* The provider accepts the message and may or may not return its id.
SendSucceeds(t) ==
    /\ pc[t] = "sending"
    /\ delivered' = delivered \cup {t}
    /\ \E next \in {"logging", "sent"} : pc' = [pc EXCEPT ![t] = next]
    /\ UNCHANGED <<number, ref, state, expired, logged, intakeVars>>

\* The provider, or the connection to it, fails: the message may be out.
SendFails(t) ==
    /\ pc[t] = "sending"
    /\ delivered' \in {delivered, delivered \cup {t}}
    /\ pc' = [pc EXCEPT ![t] = "unsending"]
    /\ UNCHANGED <<number, ref, state, expired, logged, intakeVars>>

\* A compliance violation is answered at once; the thread's row stays.
SendRefused(t) ==
    /\ pc[t] = "sending"
    /\ pc' = [pc EXCEPT ![t] = "sent"]
    /\ UNCHANGED <<number, ref, state, expired, delivered, logged, intakeVars>>

\* record_outbound, first half.  A message needs its conversation's row.
LogOutbound(t) ==
    /\ pc[t] = "logging"
    /\ \/ logged' = IF state[t] = "none" THEN logged ELSE logged \cup {t}
       \/ Lossy /\ UNCHANGED logged
    /\ pc' = [pc EXCEPT ![t] = "marking"]
    /\ UNCHANGED <<number, ref, state, expired, delivered, intakeVars>>

\* An upsert of a row's state.  Without a row it makes one that has neither
\* numbers nor reference, which no lookup returns: none, for this model.
SetState(t, s) ==
    \/ state' = IF state[t] = "none" THEN state ELSE [state EXCEPT ![t] = s]
    \/ Lossy /\ UNCHANGED state

\* record_outbound, second half: whatever the state is by now.
MarkAwaiting(t) ==
    /\ pc[t] = "marking"
    /\ SetState(t, "awaiting_reply")
    /\ pc' = [pc EXCEPT ![t] = "sent"]
    /\ UNCHANGED <<number, ref, expired, delivered, logged, intakeVars>>

MarkUnsentMisnamed(t) ==
    /\ pc[t] = "unsending"
    /\ SetState(t, "failed")
    /\ pc' = [pc EXCEPT ![t] = "sent"]
    /\ UNCHANGED <<number, ref, expired, delivered, logged, intakeVars>>
MarkUnsent(t) ==
    /\ pc[t] = "unsending"
    /\ SetState(t, "unsent")
    /\ pc' = [pc EXCEPT ![t] = "sent"]
    /\ UNCHANGED <<number, ref, expired, delivered, logged, intakeVars>>

\* 72 h after it was opened; no send takes that long.
Expire(t) ==
    /\ pc[t] = "sent" /\ Live(t)
    /\ expired' = expired \cup {t}
    /\ UNCHANGED <<pc, number, ref, state, delivered, logged, intakeVars>>

----------------------------------------------------------------------------
(* The business answers a message it received, in any of the ways it can.  *)

BusinessReplies(m, t) ==
    /\ reply[m] = NoReply
    /\ t \in delivered
    /\ \E tap, clear \in BOOLEAN,
          quotes \in {{}, {ref[t]}} \cup {{ref[t], ref[u]} : u \in delivered} :
         reply' = [reply EXCEPT ![m] = [answers |-> t, tap |-> tap,
                                        quotes |-> quotes, clear |-> clear]]
    /\ UNCHANGED <<sendVars, state, stored, hpc, msg, seen, match>>

----------------------------------------------------------------------------
(* The webhook.                                                            *)

Answered(h) == reply[msg[h]].answers

\* Meta posts a message, and posts it again when it got no answer in time:
\* later than the time limits of the first two requests of a handler.  A post
\* may carry several messages, which receive() handles one after another; that
\* none of them waits for its deduplication until the next post is assumed too.
Posted(h) ==
    /\ hpc[h] = "idle"
    /\ reply[msg[h]] # NoReply
    /\ \A g \in Handlers : msg[g] = msg[h] => hpc[g] # "storing"

\* _already_handled: a failure to look reads as no.
ReceiveUnchecked(h) ==
    /\ Posted(h)
    /\ hpc' = [hpc EXCEPT ![h] = "storing"]
    /\ UNCHANGED <<sendVars, state, reply, stored, msg, seen, match>>
Receive(h) ==
    /\ Posted(h)
    /\ \/ /\ msg[h] \in stored
          /\ hpc' = [hpc EXCEPT ![h] = "done"]
       \/ /\ msg[h] \notin stored \/ Lossy
          /\ hpc' = [hpc EXCEPT ![h] = "storing"]
    /\ UNCHANGED <<sendVars, state, reply, stored, msg, seen, match>>

Store(h) ==
    /\ hpc[h] = "storing"
    /\ \/ stored' = stored \cup {msg[h]}
       \/ Lossy /\ UNCHANGED stored
    /\ hpc' = [hpc EXCEPT ![h] = "tap"]
    /\ UNCHANGED <<sendVars, state, reply, msg, seen, match>>

GoOn(h, next) ==
    /\ hpc' = [hpc EXCEPT ![h] = next]
    /\ UNCHANGED match
Attribute(h, t) ==
    /\ hpc' = [hpc EXCEPT ![h] = "matched"]
    /\ match' = [match EXCEPT ![h] = t]

\* Layer 1: the message tapped on, if its thread is live.
MatchTap(h) ==
    /\ hpc[h] = "tap"
    /\ LET exact == reply[msg[h]].tap /\ Answered(h) \in logged /\ Live(Answered(h))
       IN \/ exact /\ Attribute(h, Answered(h))
          \/ (~exact \/ Lossy) /\ GoOn(h, "refs")
    /\ UNCHANGED <<sendVars, state, reply, stored, msg, seen>>

\* Layer 2: the references quoted.  Two threads named: ask.
MatchRefs(h) ==
    /\ hpc[h] = "refs"
    /\ \E read \in {reply[msg[h]].quotes} \cup
                   (IF Lossy THEN SUBSET reply[msg[h]].quotes ELSE {}) :
         LET resolved == UNION {FindByRef(r) : r \in read} IN
           \/ \E t \in resolved : resolved = {t} /\ Attribute(h, t)
           \/ Cardinality(resolved) > 1 /\ GoOn(h, "done")
           \/ resolved = {} /\ GoOn(h, "open")
    /\ UNCHANGED <<sendVars, state, reply, stored, msg, seen>>

\* Layers 3 and 4: the live threads of the pair, one select per state.
ReadOpen(h) ==
    /\ hpc[h] = "open"
    /\ \E v \in Select(PairRows(number[Answered(h)], "open")) :
         seen' = [seen EXCEPT ![h] = v]
    /\ hpc' = [hpc EXCEPT ![h] = "awaiting"]
    /\ UNCHANGED <<sendVars, state, reply, stored, msg, match>>

MatchPair(h) ==
    /\ hpc[h] = "awaiting"
    /\ \E v \in Select(PairRows(number[Answered(h)], "awaiting_reply")) :
         LET n == Candidates(seen[h], v) IN
           \/ /\ n = 1
              /\ \E t \in (seen[h].rows \cup v.rows) \ expired : Attribute(h, t)
           \/ n > 1 /\ GoOn(h, "done")
           \/ n = 0 /\ GoOn(h, "done")
    /\ seen' = [seen EXCEPT ![h] = EmptyView]
    /\ UNCHANGED <<sendVars, state, reply, stored, msg>>

\* record_inbound, and a clear yes or no resolves the thread.
Resolve(h) ==
    /\ hpc[h] = "matched"
    /\ IF reply[msg[h]].clear THEN SetState(match[h], "resolved") ELSE UNCHANGED state
    /\ hpc' = [hpc EXCEPT ![h] = "done"]
    /\ UNCHANGED <<sendVars, reply, stored, msg, seen, match>>

----------------------------------------------------------------------------
Send(t) ==
    \/ Allocate(t) \/ Open(t) \/ SendSucceeds(t) \/ SendFails(t) \/ SendRefused(t)
    \/ LogOutbound(t) \/ MarkAwaiting(t) \/ MarkUnsent(t) \/ Expire(t)

Intake(h) ==
    \/ Receive(h) \/ Store(h) \/ MatchTap(h) \/ MatchRefs(h) \/ ReadOpen(h)
    \/ MatchPair(h) \/ Resolve(h)

Next ==
    \/ \E t \in Threads : Send(t)
    \/ \E m \in Replies, t \in Threads : BusinessReplies(m, t)
    \/ \E h \in Handlers : Intake(h)

Spec == Init /\ [][Next]_vars

----------------------------------------------------------------------------
(* Properties.                                                             *)

\* Does the message that h brings itself name thread t?
Names(h, t) == ref[t] \in reply[msg[h]].quotes

\* Never a guess between live threads: a reply is attributed to the thread
\* it answers or to one it names by reference, as long as the former is
\* live; whatever sends and other replies do between its lookups, and
\* however many rows the windows cut off.
NeverGuesses ==
    [][\A h \in Handlers : match'[h] # match[h] =>
          \/ match'[h] = Answered(h)
          \/ Names(h, match'[h])
          \/ ~Live(Answered(h))]_vars

\* A message that is delivered again is attributed once, so a repeated "yes"
\* cannot resolve the next thread.
AttributedOnce ==
    \A g, h \in Handlers :
        /\ g # h /\ msg[g] = msg[h]
        /\ match[g] # Nobody
        => match[h] = Nobody

\* A clear yes or no resolves the thread for good: it does not come back to
\* compete for the replies to other requests.
ResolvedStaysResolved ==
    [][\A t \in Threads :
          state[t] = "resolved" => state'[t] \notin LiveStates]_vars

\* A reply to a message in our ledger is exact (the provider says which
\* message): it is not routed to a stranger that it neither answers nor names.
ExactIsNeverRerouted ==
    \A h \in Handlers :
        match[h] # Nobody /\ reply[msg[h]].tap /\ Answered(h) \in logged
            => match[h] = Answered(h) \/ Names(h, match[h])
============================================================================

------------------------------- MODULE OptOuts -------------------------------
(***************************************************************************)
(* STOP: who asked not to be contacted any more, and the sends that have   *)
(* to respect it (compliance/consent_store.py, compliance/pre_check.py,    *)
(* agent_interface/unsubscribe.py, core/send_message.py).                  *)
(*                                                                         *)
(* A stop request adds the address to a set in memory and then writes a    *)
(* row; a process that starts reads the rows back.  A send tries its       *)
(* channels in turn, and every attempt passes the gate, which reads the    *)
(* set in the step that hands the message to the provider.                 *)
(***************************************************************************)
EXTENDS Naturals, Sequences

CONSTANTS
    Addresses,    \* what recipients are called: numbers, e-mail addresses
    Bare,         \* the numbers among them that are written without a plus
    Mail,         \* the e-mail addresses among them
    PersonOf,     \* PersonOf[a]: who is reached at a
    Stops,        \* requests to stop
    Sends,        \* calls of send_message, and digests
    Page,         \* rows that the read at startup returns (10000)
    ReadMayFail,  \* may the read at startup fail?
    MaxRestarts   \* bound on restarts

\* What is assumed of the constants; the MC module asks TLC.
OptOutsAssumption ==
    /\ Bare \subseteq Addresses /\ Mail \subseteq Addresses
    /\ Bare \cap Mail = {}
    /\ DOMAIN PersonOf = Addresses
    /\ Page \in Nat /\ MaxRestarts \in Nat /\ ReadMayFail \in BOOLEAN

VARIABLES
    optedOut,  \* the addresses in the set of the running process
    table,     \* rows of consent_optouts, oldest first
    partly,    \* did this process start without some of the rows?
    stop,      \* stop[k]: where stop request k stands
    handled,   \* addresses whose stop this process has taken
    confirmed, \* addresses whose owner was told that the stop is recorded
    send,      \* send[s]: where send s stands
    restarts

vars == <<optedOut, table, partly, stop, handled, confirmed, send, restarts>>

----------------------------------------------------------------------------
\* How a stop request comes in: as a WhatsApp message, through the tool
\* handle_inbound, or by the link in an e-mail.
Way == {"whatsapp", "inbound", "link"}

Stop == [phase : {"idle", "over"}] \cup [phase : {"writing"}, way : Way, address : Addresses]

\* How many channels a send tries: the preferred one and, for a number, text
\* messages if those were not preferred.
Chains(a) == IF a \in Mail THEN {1} ELSE {1, 2}

\* "attempt": before the gate of the first of the channels left;
\* "posting": at the await for the provider's answer.
\* "over": the receipt says sent, refused or failed, or the process ended.
\* despite holds the addresses that were owed silence at the post.
Send == [phase : {"idle"}]
        \cup [phase : {"attempt", "posting", "over"}, to : Addresses, left : 0..2,
              reached : BOOLEAN, despite : SUBSET Addresses]

Init == /\ optedOut = {}
        /\ table = <<>>
        /\ partly = FALSE
        /\ stop = [k \in Stops |-> [phase |-> "idle"]]
        /\ handled = {}
        /\ confirmed = {}
        /\ send = [s \in Sends |-> [phase |-> "idle"]]
        /\ restarts = 0

----------------------------------------------------------------------------
\* Stop requests.

\* The addresses a stop can name.  The WhatsApp webhook reports digits; the
\* link of an e-mail carries the address that the e-mail was sent to.
Named(way) ==
    CASE way = "whatsapp" -> Bare
      [] way = "inbound"  -> Addresses
      [] way = "link"     -> {a \in Mail : \E s \in Sends :
                                 send[s].phase # "idle" /\ send[s].to = a /\ send[s].reached}

\* Memory first: the stop takes effect before its row is written.
StopArrives(k) ==
    /\ stop[k].phase = "idle"
    /\ \E way \in Way : \E a \in Named(way) :
          /\ optedOut' = optedOut \cup {a}
          /\ handled' = handled \cup {a}
          /\ stop' = [stop EXCEPT ![k] = [phase |-> "writing", way |-> way, address |-> a]]
    /\ UNCHANGED <<table, partly, confirmed, send, restarts>>

\* What a requester would be told without a look at the outcome.
ConfirmsAnyway(way, ok) == way # "whatsapp"

\* Is the requester told that the stop is recorded?  The webhook answers the
\* provider, not the person, and whatever became of the row.
Confirms(way, ok) == ok /\ way # "whatsapp"

\* The write of the row: it may fail, and its answer may be lost.
StopWritten(k) ==
    /\ stop[k].phase = "writing"
    /\ \E lands, ok \in BOOLEAN :
          /\ ok => lands
          /\ table' = IF lands THEN Append(table, stop[k].address) ELSE table
          /\ confirmed' = IF Confirms(stop[k].way, ok)
                          THEN confirmed \cup {stop[k].address} ELSE confirmed
    /\ stop' = [stop EXCEPT ![k] = [phase |-> "over"]]
    /\ UNCHANGED <<optedOut, partly, handled, send, restarts>>

----------------------------------------------------------------------------
\* Sends.

Start(s) ==
    /\ send[s].phase = "idle"
    /\ \E a \in Addresses : \E chain \in Chains(a) :
          send' = [send EXCEPT ![s] = [phase |-> "attempt", to |-> a, left |-> chain,
                                       reached |-> FALSE, despite |-> {}]]
    /\ UNCHANGED <<optedOut, table, partly, stop, handled, confirmed, restarts>>

\* The opt-out rule of the gate.  The channel does not matter: a stop on one
\* holds for all.
Silenced(a) == a \in optedOut

\* Those who must not be written to: everybody whose stop this process took,
\* and, if it read all rows at its start, everybody who was told that the
\* stop is recorded.
Owed == handled \cup (IF partly THEN {} ELSE confirmed)

\* A send that is over, and whether it reached its recipient.
Over(s, reached) ==
    [send[s] EXCEPT !.phase = "over", !.left = 0, !.despite = {}, !.reached = @ \/ reached]

\* A send that falls back to its next channel.
NextChannel(s, reached) ==
    [send[s] EXCEPT !.phase = "attempt", !.left = @ - 1, !.despite = {},
                    !.reached = @ \/ reached]

\* The gate refuses, by the opt-out rule or by another one (content, consent
\* to marketing, quiet hours, campaign registry), which may refuse anything
\* here.  A refusal ends the send; the fallback is not tried.
Refuse(s) ==
    /\ send[s].phase = "attempt"
    /\ send' = [send EXCEPT ![s] = Over(s, FALSE)]
    /\ UNCHANGED <<optedOut, table, partly, stop, handled, confirmed, restarts>>

\* The gate lets the message pass and the adapter posts it.
Post(s) ==
    /\ send[s].phase = "attempt"
    /\ ~Silenced(send[s].to)
    /\ send' = [send EXCEPT ![s].phase = "posting", ![s].despite = Owed]
    /\ UNCHANGED <<optedOut, table, partly, stop, handled, confirmed, restarts>>

\* The provider delivered the message and said so.
Delivered(s) ==
    /\ send[s].phase = "posting"
    /\ send' = [send EXCEPT ![s] = Over(s, TRUE)]
    /\ UNCHANGED <<optedOut, table, partly, stop, handled, confirmed, restarts>>

\* The adapter is not configured, the provider refused, or no answer came,
\* which says nothing of the message.  The next channel is tried.
AttemptFails(s) ==
    /\ send[s].phase = "posting"
    /\ \E reached \in BOOLEAN :
          send' = [send EXCEPT ![s] = IF @.left = 1 THEN Over(s, reached)
                                                    ELSE NextChannel(s, reached)]
    /\ UNCHANGED <<optedOut, table, partly, stop, handled, confirmed, restarts>>

----------------------------------------------------------------------------
\* The rows that the read at startup returns: the newest ones.
Newest == IF Len(table) > Page
          THEN SubSeq(table, Len(table) - Page + 1, Len(table)) ELSE table

Addressed(rows) == {rows[i] : i \in 1..Len(rows)}

\* A process that trusts its memory reads nothing back.
HydratedNothing(rows) == {}

\* The set that a new process starts with.
Hydrated(rows) == Addressed(rows)

\* The process ends, with all it was doing, and a new one starts.  Startup
\* waits for the read but goes on when it fails or does not return all rows;
\* either is logged as an error.
Restart ==
    /\ restarts < MaxRestarts
    /\ restarts' = restarts + 1
    /\ \/ /\ optedOut' = Hydrated(Newest)
          /\ partly' = (Len(table) > Page)
       \/ /\ ReadMayFail
          /\ optedOut' = {}
          /\ partly' = TRUE
    /\ handled' = {}
    /\ stop' = [k \in Stops |-> IF stop[k].phase = "writing"
                                THEN [phase |-> "over"] ELSE stop[k]]
    /\ send' = [s \in Sends |-> IF send[s].phase \in {"attempt", "posting"}
                                THEN Over(s, FALSE) ELSE send[s]]
    /\ UNCHANGED <<table, confirmed>>

Next == \/ \E k \in Stops : StopArrives(k) \/ StopWritten(k)
        \/ \E s \in Sends : \/ Start(s) \/ Refuse(s) \/ Post(s)
                            \/ Delivered(s) \/ AttemptFails(s)
        \/ Restart

Spec == Init /\ [][Next]_vars

----------------------------------------------------------------------------
TypeOK ==
    /\ optedOut \subseteq Addresses
    /\ table \in Seq(Addresses)
    /\ partly \in BOOLEAN
    /\ stop \in [Stops -> Stop]
    /\ handled \subseteq Addresses
    /\ confirmed \subseteq Addresses
    /\ send \in [Sends -> Send]
    /\ restarts \in 0..MaxRestarts

\* Nothing is handed to a provider for an address whose stop this process has
\* taken, recorded or not, nor, through restarts, for one whose owner was told
\* that the stop is recorded, unless the process started without the rows
\* and said so in its log (_record_optout, handle_inbound, the hydration in
\* main.py and pre_check's rule).
StopsHold == \A s \in Sends : send[s].phase = "posting" => send[s].to \notin send[s].despite

\* A stop holds for the person: nothing is handed to a provider for any
\* address of somebody whose stop this process has taken
\* (ConsentStore.is_opted_out).
StopsCoverThePerson ==
    \A s \in Sends : send[s].phase = "posting" =>
        \A a \in send[s].despite : PersonOf[a] # PersonOf[send[s].to]
==============================================================================

--------------------------- MODULE BusinessProofs ---------------------------
(***************************************************************************)
(* Proofs about the parts of Business beside Bookings: the stops of OptOuts *)
(* and the digests of DemandQueue; and the type correctness of the whole.  *)
(***************************************************************************)
EXTENDS Business, BookingsProofs, SequenceTheorems, WellFoundedInduction

(***************************************************************************)
(* OptOuts: what holds of stop requests for any number of addresses,       *)
(* requests, sends, restarts and rows, and whichever part of the rows a    *)
(* process is able to read at its start.                                   *)
(***************************************************************************)


\* A send that tries its channels has one left.
ChannelLeft ==
    \A s \in Sends : send[s].phase \in {"attempt", "posting"} => send[s].left \in {1, 2}

\* The stages of a send that was started.
Started == [phase : {"attempt", "posting", "over"}, to : Addresses, left : 0..2,
            reached : BOOLEAN, despite : SUBSET Addresses]

LEMMA StartedSend ==
    ASSUME Consent!TypeOK, NEW s \in Sends, send[s].phase # "idle"
    PROVE  send[s] \in Started
<1>1. send[s] \in Consent!Send
  BY DEF Consent!TypeOK
<1> QED BY <1>1 DEF Consent!Send, Started

LEMMA OverType ==
    ASSUME Consent!TypeOK, NEW s \in Sends, send[s].phase # "idle", NEW b \in BOOLEAN
    PROVE  Consent!Over(s, b) \in Consent!Send /\ Consent!Over(s, b).phase = "over"
<1>1. send[s] \in Started
  BY StartedSend
<1>2. send[s].to \in Addresses
  BY <1>1 DEF Started
<1>3. (send[s].reached \/ b) \in BOOLEAN
  OBVIOUS
<1> DEFINE r == send[s].reached \/ b
<1>4. Consent!Over(s, b) = [send[s] EXCEPT !.phase = "over", !.left = 0, !.despite = {},
                                   !.reached = r]
  BY DEF Consent!Over
<1> HIDE DEF r
<1>5. Consent!Over(s, b) = [phase |-> "over", to |-> send[s].to, left |-> 0, reached |-> r,
                    despite |-> {}]
  BY <1>1, <1>4 DEF Started
<1> QED BY <1>2, <1>3, <1>5 DEF Consent!Send, r

LEMMA NextChannelType ==
    ASSUME Consent!TypeOK, NEW s \in Sends, send[s].phase # "idle", send[s].left = 2,
           NEW b \in BOOLEAN
    PROVE  Consent!NextChannel(s, b) \in Consent!Send /\ Consent!NextChannel(s, b).left = 1
<1>1. send[s] \in Started
  BY StartedSend
<1>2. send[s].to \in Addresses
  BY <1>1 DEF Started
<1>3. (send[s].reached \/ b) \in BOOLEAN
  OBVIOUS
<1> DEFINE r == send[s].reached \/ b
<1> DEFINE l == send[s].left - 1
<1>4. Consent!NextChannel(s, b) = [send[s] EXCEPT !.phase = "attempt", !.left = l,
                                          !.despite = {}, !.reached = r]
  BY DEF Consent!NextChannel
<1>6. l = 1
  OBVIOUS
<1> HIDE DEF r, l
<1>5. Consent!NextChannel(s, b) = [phase |-> "attempt", to |-> send[s].to, left |-> 1,
                           reached |-> r, despite |-> {}]
  BY <1>1, <1>4, <1>6 DEF Started
<1> QED BY <1>2, <1>3, <1>5 DEF Consent!Send, r

\* A new state of one send keeps the type of all.
LEMMA OneSend ==
    ASSUME Consent!TypeOK, ChannelLeft, NEW s \in Sends, NEW x \in Consent!Send,
           x.phase \in {"attempt", "posting"} => x.left \in {1, 2},
           send' = [send EXCEPT ![s] = x],
           UNCHANGED <<optedOut, table, partly, stop, handled, confirmed, restarts>>
    PROVE  Consent!TypeOK' /\ ChannelLeft'
BY DEF Consent!TypeOK, ChannelLeft

\* Every variable stays in its type, and a send never runs out of channels
\* before it is over.
THEOREM StopTypeCorrect ==
    ASSUME Consent!OptOutsAssumption
    PROVE  Consent!Spec => []Consent!TypeOK
<1>1. Consent!Init => Consent!TypeOK /\ ChannelLeft
  <2> SUFFICES ASSUME Consent!Init PROVE Consent!TypeOK /\ ChannelLeft
    OBVIOUS
  <2>1. \A s \in Sends : send[s].phase = "idle"
    BY DEF Consent!Init
  <2>2. send \in [Sends -> Consent!Send] /\ stop \in [Stops -> Consent!Stop]
    BY DEF Consent!Init, Consent!Send, Consent!Stop
  <2>3. table \in Seq(Addresses) /\ restarts \in 0..MaxRestarts
    BY DEF Consent!Init, Consent!OptOutsAssumption
  <2>4. partly \in BOOLEAN /\ optedOut = {} /\ handled = {} /\ confirmed = {}
    BY DEF Consent!Init
  <2> QED BY <2>1, <2>2, <2>3, <2>4 DEF Consent!TypeOK, ChannelLeft
<1>2. Consent!TypeOK /\ ChannelLeft /\ [Consent!Next]_Consent!vars => Consent!TypeOK' /\ ChannelLeft'
  <2> SUFFICES ASSUME Consent!TypeOK, ChannelLeft, [Consent!Next]_Consent!vars PROVE Consent!TypeOK' /\ ChannelLeft'
    OBVIOUS
  <2>1. ASSUME NEW k \in Stops, Consent!StopArrives(k) PROVE Consent!TypeOK' /\ ChannelLeft'
    <3>0. PICK way \in Consent!Way : \E a \in Consent!Named(way) :
             /\ optedOut' = optedOut \cup {a}
             /\ handled' = handled \cup {a}
             /\ stop' = [stop EXCEPT ![k] = [phase |-> "writing", way |-> way, address |-> a]]
      BY <2>1 DEF Consent!StopArrives
    <3>1. PICK a \in Consent!Named(way) :
             /\ optedOut' = optedOut \cup {a}
             /\ handled' = handled \cup {a}
             /\ stop' = [stop EXCEPT ![k] = [phase |-> "writing", way |-> way, address |-> a]]
      BY <3>0
    <3>2. a \in Addresses
      BY <3>1 DEF Consent!Named, Consent!Way, Consent!OptOutsAssumption
    <3>3. [phase |-> "writing", way |-> way, address |-> a] \in Consent!Stop
      BY <3>2 DEF Consent!Stop
    <3> QED BY <2>1, <3>1, <3>2, <3>3 DEF Consent!StopArrives, Consent!TypeOK, ChannelLeft
  <2>2. ASSUME NEW k \in Stops, Consent!StopWritten(k) PROVE Consent!TypeOK' /\ ChannelLeft'
    <3>1. stop[k] \in Consent!Stop /\ stop[k].phase = "writing"
      BY <2>2 DEF Consent!StopWritten, Consent!TypeOK
    <3>2. stop[k].address \in Addresses
      BY <3>1 DEF Consent!Stop
    <3>3. [phase |-> "over"] \in Consent!Stop
      BY DEF Consent!Stop
    <3>4. table' \in Seq(Addresses) /\ confirmed' \subseteq Addresses
      BY <2>2, <3>2 DEF Consent!StopWritten, Consent!TypeOK
    <3> QED BY <2>2, <3>3, <3>4 DEF Consent!StopWritten, Consent!TypeOK, ChannelLeft
  <2>3. ASSUME NEW s \in Sends, Consent!Start(s) PROVE Consent!TypeOK' /\ ChannelLeft'
    <3>0. PICK a \in Addresses : \E chain \in Consent!Chains(a) :
             send' = [send EXCEPT ![s] = [phase |-> "attempt", to |-> a, left |-> chain,
                                          reached |-> FALSE, despite |-> {}]]
      BY <2>3 DEF Consent!Start
    <3>1. PICK chain \in Consent!Chains(a) :
             send' = [send EXCEPT ![s] = [phase |-> "attempt", to |-> a, left |-> chain,
                                          reached |-> FALSE, despite |-> {}]]
      BY <3>0
    <3>2. chain \in {1, 2}
      BY DEF Consent!Chains
    <3>3. [phase |-> "attempt", to |-> a, left |-> chain,
           reached |-> FALSE, despite |-> {}] \in Consent!Send
      BY <3>2 DEF Consent!Send
    <3> QED BY <2>3, <3>1, <3>2, <3>3, OneSend DEF Consent!Start
  <2>4. ASSUME NEW s \in Sends, Consent!Refuse(s) PROVE Consent!TypeOK' /\ ChannelLeft'
    BY <2>4, OverType, OneSend DEF Consent!Refuse
  <2>5. ASSUME NEW s \in Sends, Consent!Post(s) PROVE Consent!TypeOK' /\ ChannelLeft'
    <3> DEFINE x == [send[s] EXCEPT !.phase = "posting", !.despite = Consent!Owed]
    <3>1. send[s] \in Started
      BY <2>5, StartedSend DEF Consent!Post
    <3>2. Consent!Owed \subseteq Addresses
      BY DEF Consent!Owed, Consent!TypeOK
    <3>3. x \in Consent!Send
      BY <3>1, <3>2 DEF Started, Consent!Send
    <3>4. x.left \in {1, 2}
      BY <2>5, <3>1 DEF Started, Consent!Post, ChannelLeft
    <3>5. send' = [send EXCEPT ![s] = x]
      BY <2>5 DEF Consent!Post, Consent!TypeOK
    <3> HIDE DEF x
    <3> QED BY <2>5, <3>3, <3>4, <3>5, OneSend DEF Consent!Post
  <2>6. ASSUME NEW s \in Sends, Consent!Delivered(s) PROVE Consent!TypeOK' /\ ChannelLeft'
    BY <2>6, OverType, OneSend DEF Consent!Delivered
  <2>7. ASSUME NEW s \in Sends, Consent!AttemptFails(s) PROVE Consent!TypeOK' /\ ChannelLeft'
    <3>1. send[s] \in Started /\ send[s].left \in {1, 2}
      BY <2>7, StartedSend DEF Consent!AttemptFails, ChannelLeft
    <3>2. PICK reached \in BOOLEAN :
             send' = [send EXCEPT ![s] = IF @.left = 1 THEN Consent!Over(s, reached)
                                                       ELSE Consent!NextChannel(s, reached)]
      BY <2>7 DEF Consent!AttemptFails
    <3>3. CASE send[s].left = 1
      BY <2>7, <3>2, <3>3, OverType, OneSend DEF Consent!AttemptFails
    <3>4. CASE send[s].left = 2
      <4>1. send[s].left # 1
        BY <3>4
      <4>2. send' = [send EXCEPT ![s] = Consent!NextChannel(s, reached)]
        BY <3>2, <4>1
      <4> QED BY <2>7, <3>4, <4>2, NextChannelType, OneSend DEF Consent!AttemptFails
    <3> QED BY <3>1, <3>3, <3>4
  <2>8. CASE Consent!Restart
    <3>1. Consent!Newest \in Seq(Addresses)
      BY DEF Consent!Newest, Consent!TypeOK, Consent!OptOutsAssumption
    <3>2. Consent!Addressed(Consent!Newest) \subseteq Addresses
      BY <3>1 DEF Consent!Addressed
    <3>3. optedOut' \subseteq Addresses /\ partly' \in BOOLEAN
      <4>1. (Len(table) > Page) \in BOOLEAN
        OBVIOUS
      <4>2. partly' = (Len(table) > Page) \/ partly' = TRUE
        BY <2>8, Zenon DEF Consent!Restart
      <4>3. optedOut' = Consent!Addressed(Consent!Newest) \/ optedOut' = {}
        BY <2>8, Zenon DEF Consent!Restart, Consent!Hydrated
      <4>4. partly' \in BOOLEAN
        BY <4>1, <4>2, Zenon
      <4> QED BY <3>2, <4>3, <4>4
    <3>4. [phase |-> "over"] \in Consent!Stop
      BY DEF Consent!Stop
    <3>5. stop' \in [Stops -> Consent!Stop]
      BY <2>8, <3>4 DEF Consent!Restart, Consent!TypeOK
    <3>6. ASSUME NEW s \in Sends
          PROVE  /\ send'[s] \in Consent!Send
                 /\ send'[s].phase \in {"attempt", "posting"} => send'[s].left \in {1, 2}
      <4>1. send'[s] = IF send[s].phase \in {"attempt", "posting"}
                       THEN Consent!Over(s, FALSE) ELSE send[s]
        BY <2>8, <3>6 DEF Consent!Restart
      <4>2. CASE send[s].phase \in {"attempt", "posting"}
        BY <4>1, <4>2, OverType
      <4>3. CASE send[s].phase \notin {"attempt", "posting"}
        BY <4>1, <4>3 DEF Consent!TypeOK
      <4> QED BY <4>2, <4>3
    <3>7. send' \in [Sends -> Consent!Send] /\ ChannelLeft'
      BY <2>8, <3>6 DEF Consent!Restart, ChannelLeft
    <3>8. restarts' \in 0..MaxRestarts
      BY <2>8 DEF Consent!Restart, Consent!TypeOK, Consent!OptOutsAssumption
    <3> QED BY <2>8, <3>3, <3>5, <3>7, <3>8 DEF Consent!Restart, Consent!TypeOK
  <2>9. CASE UNCHANGED Consent!vars
    BY <2>9 DEF Consent!vars, Consent!TypeOK, ChannelLeft
  <2> QED BY <2>1, <2>2, <2>3, <2>4, <2>5, <2>6, <2>7, <2>8, <2>9 DEF Consent!Next
<1> QED BY <1>1, <1>2, PTL DEF Consent!Spec

----------------------------------------------------------------------------
(* Stops hold.  Memory knows every stop that this process took, the rows   *)
(* every stop that anybody was told is recorded, and a process that read   *)
(* all rows knows those too: so the gate, which looks at memory alone,     *)
(* silences everybody who is owed it.                                      *)

Remembered ==
    /\ handled \subseteq optedOut
    /\ \A k \in Stops : stop[k].phase = "writing" => stop[k].address \in optedOut
    /\ confirmed \subseteq Consent!Addressed(table)
    /\ ~partly => confirmed \subseteq optedOut

\* A row that is added is read as well as the older ones.
LEMMA AddressedAppend ==
    ASSUME Consent!TypeOK, NEW a \in Addresses
    PROVE  Consent!Addressed(Append(table, a)) = Consent!Addressed(table) \cup {a}
<1> DEFINE longer == Append(table, a)
<1>1. /\ Len(table) \in Nat /\ Len(longer) = Len(table) + 1
      /\ \A i \in 1..Len(table) : longer[i] = table[i]
      /\ longer[Len(table) + 1] = a
  BY DEF Consent!TypeOK
<1> HIDE DEF longer
<1>2. \A i : i \in 1..Len(longer) <=> i \in 1..Len(table) \/ i = Len(table) + 1
  BY <1>1
<1>3. Consent!Addressed(longer) = Consent!Addressed(table) \cup {a}
  BY <1>1, <1>2 DEF Consent!Addressed
<1> QED BY <1>3 DEF longer

LEMMA RememberedKept ==
    ASSUME Remembered, UNCHANGED <<optedOut, table, partly, stop, handled, confirmed>>
    PROVE  Remembered'
BY DEF Remembered, Consent!Addressed

\* A send whose state changes is not at a post, or everybody who is owed
\* silence is somebody else.
LEMMA OtherPosts ==
    ASSUME Consent!TypeOK, Consent!StopsHold, NEW s \in Sends, NEW x,
           x.phase = "posting" => x.to \notin x.despite,
           send' = [send EXCEPT ![s] = x]
    PROVE  Consent!StopsHold'
BY DEF Consent!TypeOK, Consent!StopsHold

\* Nothing is handed to a provider for somebody whose stop this process took,
\* nor for anybody whose stop was confirmed, by this process or one before
\* it, unless it started without the rows: for any interleaving of stops,
\* sends with their fallbacks, lost writes and restarts.
THEOREM StopsAreRespected ==
    ASSUME Consent!OptOutsAssumption
    PROVE  Consent!Spec => []StopsHold
<1>1. Consent!Init => Remembered /\ Consent!StopsHold
  BY DEF Consent!Init, Remembered, Consent!StopsHold
<1>2. Consent!TypeOK /\ Consent!TypeOK' /\ Remembered /\ Consent!StopsHold /\ [Consent!Next]_Consent!vars
      => Remembered' /\ Consent!StopsHold'
  <2> SUFFICES ASSUME Consent!TypeOK, Consent!TypeOK', Remembered, Consent!StopsHold, [Consent!Next]_Consent!vars
               PROVE  Remembered' /\ Consent!StopsHold'
    OBVIOUS
  <2>1. ASSUME NEW k \in Stops, Consent!StopArrives(k) PROVE Remembered' /\ Consent!StopsHold'
    BY <2>1 DEF Consent!StopArrives, Remembered, Consent!StopsHold, Consent!TypeOK, Consent!Addressed
  <2>2. ASSUME NEW k \in Stops, Consent!StopWritten(k) PROVE Remembered' /\ Consent!StopsHold'
    <3> DEFINE a == stop[k].address
    <3>1. stop[k] \in Consent!Stop /\ stop[k].phase = "writing"
      BY <2>2 DEF Consent!StopWritten, Consent!TypeOK
    <3>2. a \in Addresses /\ a \in optedOut
      BY <3>1 DEF Consent!Stop, Remembered
    <3> HIDE DEF a
    <3>3. Consent!Addressed(Append(table, a)) = Consent!Addressed(table) \cup {a}
      BY <3>2, AddressedAppend
    <3>4. \/ table' = table /\ confirmed' = confirmed
          \/ table' = Append(table, a) /\ confirmed' \subseteq confirmed \cup {a}
      BY <2>2 DEF Consent!StopWritten, Consent!Confirms, a
    <3>5. confirmed' \subseteq Consent!Addressed(table')
      BY <3>3, <3>4 DEF Remembered
    <3>6. confirmed' \subseteq confirmed \cup {a}
      BY <3>4
    <3>7. \A j \in Stops : stop'[j].phase = "writing" => stop'[j] = stop[j]
      BY <2>2 DEF Consent!StopWritten, Consent!TypeOK
    <3>8. Remembered'
      BY <2>2, <3>2, <3>5, <3>6, <3>7 DEF Consent!StopWritten, Remembered, Consent!Addressed
    <3> QED BY <2>2, <3>8 DEF Consent!StopWritten, Consent!StopsHold
  <2>3. ASSUME NEW s \in Sends, Consent!Start(s) PROVE Remembered' /\ Consent!StopsHold'
    BY <2>3, RememberedKept, OtherPosts DEF Consent!Start
  <2>4. ASSUME NEW s \in Sends, Consent!Refuse(s) PROVE Remembered' /\ Consent!StopsHold'
    BY <2>4, RememberedKept, OtherPosts, OverType DEF Consent!Refuse
  <2>5. ASSUME NEW s \in Sends, Consent!Post(s) PROVE Remembered' /\ Consent!StopsHold'
    <3> DEFINE x == [send[s] EXCEPT !.phase = "posting", !.despite = Consent!Owed]
    <3>1. send[s] \in Started
      BY <2>5, StartedSend DEF Consent!Post
    <3>2. x.to = send[s].to /\ x.despite = Consent!Owed
      BY <3>1 DEF Started
    <3>3. Consent!Owed \subseteq optedOut
      BY DEF Consent!Owed, Remembered
    <3>4. x.to \notin x.despite
      BY <2>5, <3>2, <3>3 DEF Consent!Post, Consent!Silenced
    <3>5. send' = [send EXCEPT ![s] = x]
      BY <2>5 DEF Consent!Post, Consent!TypeOK
    <3> HIDE DEF x
    <3> QED BY <2>5, <3>4, <3>5, RememberedKept, OtherPosts DEF Consent!Post
  <2>6. ASSUME NEW s \in Sends, Consent!Delivered(s) PROVE Remembered' /\ Consent!StopsHold'
    BY <2>6, RememberedKept, OtherPosts, OverType DEF Consent!Delivered
  <2>7. ASSUME NEW s \in Sends, Consent!AttemptFails(s) PROVE Remembered' /\ Consent!StopsHold'
    <3>1. send[s] \in Started
      BY <2>7, StartedSend DEF Consent!AttemptFails
    <3>2. PICK reached \in BOOLEAN :
             send' = [send EXCEPT ![s] = IF @.left = 1 THEN Consent!Over(s, reached)
                                                       ELSE Consent!NextChannel(s, reached)]
      BY <2>7 DEF Consent!AttemptFails
    <3>3. Consent!Over(s, reached).phase = "over"
      BY <2>7, OverType DEF Consent!AttemptFails
    <3>4. send'[s].phase # "posting"
      BY <3>1, <3>2, <3>3 DEF Started, Consent!TypeOK, Consent!NextChannel
    <3>5. \A r \in Sends : r # s => send'[r] = send[r]
      BY <3>2 DEF Consent!TypeOK
    <3> QED BY <2>7, <3>4, <3>5, RememberedKept DEF Consent!AttemptFails, Consent!StopsHold
  <2>8. CASE Consent!Restart
    <3>1. \A s \in Sends : send'[s].phase # "posting"
      <4> SUFFICES ASSUME NEW s \in Sends PROVE send'[s].phase # "posting"
        OBVIOUS
      <4>1. send'[s] = IF send[s].phase \in {"attempt", "posting"}
                       THEN Consent!Over(s, FALSE) ELSE send[s]
        BY <2>8 DEF Consent!Restart
      <4> QED BY <4>1, OverType
    <3>2. \A k \in Stops : stop'[k].phase # "writing"
      BY <2>8 DEF Consent!Restart
    <3>3. ~partly' => optedOut' = Consent!Addressed(table)
      BY <2>8 DEF Consent!Restart, Consent!Newest, Consent!Hydrated
    <3>4. Remembered'
      BY <2>8, <3>2, <3>3 DEF Consent!Restart, Remembered, Consent!Addressed
    <3> QED BY <3>1, <3>4 DEF Consent!StopsHold
  <2>9. CASE UNCHANGED Consent!vars
    BY <2>9, RememberedKept DEF Consent!vars, Consent!StopsHold
  <2> QED BY <2>1, <2>2, <2>3, <2>4, <2>5, <2>6, <2>7, <2>8, <2>9 DEF Consent!Next
<1>3. Consent!StopsHold => StopsHold
  BY DEF StopsHold
<1> QED BY <1>1, <1>2, <1>3, StopTypeCorrect, PTL DEF Consent!Spec

----------------------------------------------------------------------------
(***************************************************************************)
(* DemandQueue: what holds of the requests to a business for any number of *)
(* requests, overlapping dispatches and replies, and whichever reads and   *)
(* writes of the table fail.                                               *)
(***************************************************************************)

\* Requests are finitely many, and so are those that a digest shows.
LEMMA DemandCounts == \A S : Demand!Cardinality(S) = Cardinality(S)
BY Zenon DEF Demand!Cardinality, Cardinality

LEMMA SomeRequests ==
    ASSUME Demand!DemandQueueAssumption, NEW S \in SUBSET Demand!Requests
    PROVE  IsFiniteSet(S) /\ Cardinality(S) \in Nat
<1>1. 1 \in Int /\ MaxRequests \in Int /\ S \subseteq 1..MaxRequests
  BY DEF Demand!Requests, Demand!DemandQueueAssumption
<1>2. IsFiniteSet(1..MaxRequests)
  BY Zenon, <1>1, FS_Interval
<1>3. IsFiniteSet(S)
  BY Zenon, <1>1, <1>2, FS_Subset
<1> QED BY Zenon, <1>3, FS_CardinalityType

LEMMA LastOf ==
    ASSUME NEW n \in Nat, NEW S \in SUBSET (1..n), S # {}
    PROVE  \E x \in S : \A y \in S : y <= x
<1> DEFINE R == {ij \in Nat \X Nat : ij[1] < ij[2]}
           T == {n - y : y \in S}
<1>1. T \in SUBSET Nat /\ T # {}
  <2>1. \A y \in S : n - y \in Nat
    OBVIOUS
  <2> QED BY <2>1
<1>2. PICK t \in T : \A u \in T : <<u, t>> \notin R
  <2>1. IsWellFoundedOn(R, Nat)
    BY NatLessThanWellFounded DEF OpToRel
  <2> HIDE DEF R, T
  <2> QED BY <1>1, <2>1, WFMin
<1>3. PICK x \in S : t = n - x
  BY <1>2
<1>4. ASSUME NEW y \in S PROVE y <= x
  <2>1. n - y \in T /\ n - y \in Nat /\ t \in Nat
    BY <1>1, <1>2
  <2>2. <<n - y, t>> \in Nat \X Nat /\ <<n - y, t>>[1] = n - y /\ <<n - y, t>>[2] = t
    BY <2>1
  <2>3. ~(n - y < t)
    BY <1>2, <2>1, <2>2
  <2> QED BY <1>3, <2>3
<1> QED BY <1>4

\* A digest has no more items than it may have: the number of the last one is
\* the number of items up to it.
LEMMA SliceFits ==
    ASSUME Demand!DemandQueueAssumption, NEW S \in SUBSET Demand!Requests
    PROVE  /\ Demand!Slice(S) \subseteq S
           /\ Cardinality(Demand!Slice(S)) <= DigestMax
<1> DEFINE T == Demand!Slice(S)
<1>1. T \subseteq S /\ \A r \in T : Demand!Number(r, S) <= DigestMax
  BY DEF Demand!Slice
<1> HIDE DEF T
<1>2. CASE T = {}
  BY <1>1, <1>2, FS_EmptySet DEF T, Demand!DemandQueueAssumption
<1>3. CASE T # {}
  <2>1. PICK m \in T : \A y \in T : y <= m
    BY <1>1, <1>3, LastOf DEF Demand!Requests, Demand!DemandQueueAssumption
  <2> DEFINE U == {q \in S : q <= m}
  <2>2. T \subseteq U /\ U \subseteq S
    BY <1>1, <2>1
  <2>3. IsFiniteSet(U) /\ Cardinality(U) \in Nat
    BY <2>2, SomeRequests
  <2>4. Demand!Number(m, S) = Cardinality(U)
    BY DemandCounts DEF Demand!Number
  <2>5. Cardinality(U) <= DigestMax
    BY <1>1, <2>1, <2>4
  <2> HIDE DEF U
  <2>6. Cardinality(T) <= Cardinality(U) /\ Cardinality(T) \in Nat
    BY <2>2, <2>3, FS_Subset, FS_CardinalityType
  <2> QED BY <1>1, <2>3, <2>5, <2>6 DEF T, Demand!DemandQueueAssumption
<1> QED BY <1>2, <1>3

----------------------------------------------------------------------------
(* The inductive invariant.  A digest that the business received is one     *)
(* whose dispatch rendered it, and is never rendered anew; a dispatch marks *)
(* what it rendered, once the provider confirmed it; and what a reply is    *)
(* about to decide has the number that the reply gave.                      *)

\* The requests that have a row.
Stored == {r \in Demand!Requests : request[r] # None}

\* x may be where dispatch d stands.
RunFits(d, x, received, stored) ==
    /\ d \in received => x.phase \in {"recording", "marking", "done"}
    /\ x.phase \in {"recording", "marking"} => d \in received
    /\ x.phase = "marking" => x.left \subseteq x.shown
    /\ x.shown \subseteq stored /\ x.left \subseteq stored
    /\ Cardinality(x.shown) <= DigestMax

\* x may be where the handling of a reply stands.
ReplyFits(x, received, runs) ==
    /\ x.phase = "idle" => x.says = {}
    /\ x.phase # "deciding" => x.left = {}
    /\ x.phase \in {"reading", "deciding"} => x.digest \in received
    /\ \A p \in x.left :
          /\ x.digest \in received /\ p.request \in runs[x.digest].shown
          /\ <<Demand!Number(p.request, runs[x.digest].shown), p.verdict>> \in x.says

QueueInv ==
    /\ \A d \in Runs : RunFits(d, run[d], inbox, Stored)
    /\ \A h \in Replies : ReplyFits(reply[h], inbox, run)
    /\ \A i \in 1..Len(digests) : digests[i] \in inbox
    /\ Demand!OnlyTheSeenLeave
    /\ Demand!NumbersHold

\* What was received stays as it was, and so do the replies to it.
SeenStays ==
    /\ \A d \in inbox : d \in inbox' /\ run'[d].shown = run[d].shown
    /\ \A h \in Replies : reply[h].says \subseteq reply'[h].says

\* Rows change as the two properties allow.
RowsMove ==
    \A r \in Demand!Requests :
        \/ request'[r] = request[r]
        \/ request'[r].state \in {"queued", "expired"}
        \/ request'[r].state = "dispatched" /\ \E d \in inbox : r \in run[d].shown
        \/ /\ request'[r].state \in Demand!Verdict
           /\ \E h \in Replies, d \in inbox :
                 /\ r \in run[d].shown
                 /\ <<Demand!Number(r, run[d].shown), request'[r].state>> \in reply[h].says

\* Dispatches and replies stand where they may after the step.
Moved ==
    /\ run' \in [Runs -> Demand!Run]
    /\ reply' \in [Replies -> Demand!Reply]
    /\ \A e \in Runs : RunFits(e, run'[e], inbox', Stored')
    /\ \A g \in Replies : ReplyFits(reply'[g], inbox', run')
    /\ SeenStays

LEMMA RowsAllowed ==
    ASSUME QueueInv, SeenStays, RowsMove
    PROVE  Demand!OnlyTheSeenLeave' /\ Demand!NumbersHold'
<1>1. Demand!OnlyTheSeenLeave'
  <2> SUFFICES ASSUME NEW r \in Demand!Requests, request'[r] # None,
                      request'[r].state \in {"dispatched"} \cup Demand!Verdict
               PROVE  \E d \in inbox' : r \in run'[d].shown
    BY Zenon DEF Demand!OnlyTheSeenLeave
  <2>1. \E d \in inbox : r \in run[d].shown
    BY DEF RowsMove, QueueInv, Demand!OnlyTheSeenLeave, Demand!Verdict
  <2> QED BY <2>1 DEF SeenStays
<1>2. Demand!NumbersHold'
  <2> SUFFICES ASSUME NEW r \in Demand!Requests, request'[r] # None,
                      request'[r].state \in Demand!Verdict
               PROVE  \E h \in Replies, d \in inbox' :
                         /\ r \in run'[d].shown
                         /\ <<Demand!Number(r, run'[d].shown), request'[r].state>> \in reply'[h].says
    BY Zenon DEF Demand!NumbersHold
  <2>1. \E h \in Replies, d \in inbox :
           /\ r \in run[d].shown
           /\ <<Demand!Number(r, run[d].shown), request'[r].state>> \in reply[h].says
    BY DEF RowsMove, QueueInv, Demand!NumbersHold, Demand!Verdict
  <2>2. PICK h \in Replies, d \in inbox :
           /\ r \in run[d].shown
           /\ <<Demand!Number(r, run[d].shown), request'[r].state>> \in reply[h].says
    BY <2>1
  <2>3. d \in inbox' /\ run'[d].shown = run[d].shown /\ reply[h].says \subseteq reply'[h].says
    BY DEF SeenStays
  <2> QED BY <2>2, <2>3
<1> QED BY <1>1, <1>2

----------------------------------------------------------------------------
\* A write to a row that is there leaves a row there, and the others alone.
LEMMA RowWritten ==
    ASSUME Demand!DemandQueueAssumption, Demand!TypeOK,
           NEW r \in Stored, NEW state \in Demand!State, NEW d \in Runs \cup {None},
           Demand!Written(r, state, d)
    PROVE  /\ request' \in [Demand!Requests -> Demand!Row \cup {None}]
           /\ Stored' = Stored
           /\ \A q \in Demand!Requests :
                 request'[q] = request[q] \/ (q = r /\ request'[q].state = state)
<1>1. r \in Demand!Requests /\ request[r] \in Demand!Row /\ None \notin Demand!Row
  BY DEF Stored, Demand!TypeOK, Demand!DemandQueueAssumption
<1> DEFINE x == [state |-> state, digest |-> IF d = None THEN request[r].digest ELSE d]
<1>2. x \in Demand!Row /\ x.state = state
  BY <1>1 DEF Demand!Row
<1>3. request' = [request EXCEPT ![r] = x] \/ request' = request
  BY <1>1 DEF Demand!Written, Demand!Patched
<1> HIDE DEF x
<1>4. CASE request' = request
  BY <1>4 DEF Demand!TypeOK, Stored
<1>5. CASE request' = [request EXCEPT ![r] = x]
  <2>1. request' \in [Demand!Requests -> Demand!Row \cup {None}]
    BY <1>1, <1>2, <1>5 DEF Demand!TypeOK
  <2>2. request'[r] = x /\ \A q \in Demand!Requests : q # r => request'[q] = request[q]
    BY <1>1, <1>5 DEF Demand!TypeOK
  <2>3. x # None
    BY <1>1, <1>2
  <2>4. Stored' = Stored
    BY <1>1, <2>2, <2>3 DEF Stored, Demand!Requests
  <2> QED BY <1>2, <2>1, <2>2, <2>4
<1> QED BY <1>3, <1>4, <1>5

\* A step of one dispatch leaves the others, and the replies, where they stood.
LEMMA RunMoves ==
    ASSUME Demand!TypeOK, QueueInv,
           NEW d \in Runs, NEW x \in Demand!Run, run' = [run EXCEPT ![d] = x],
           d \in inbox => x.shown = run[d].shown,
           inbox \subseteq inbox', inbox' \subseteq inbox \cup {d},
           Stored \subseteq Stored', RunFits(d, x, inbox', Stored'), reply' = reply
    PROVE  Moved
<1>1. run' \in [Runs -> Demand!Run] /\ run'[d] = x
      /\ \A e \in Runs : e # d => run'[e] = run[e]
  BY DEF Demand!TypeOK
<1>2. ASSUME NEW e \in Runs PROVE RunFits(e, run'[e], inbox', Stored')
  <2>1. CASE e = d
    BY <1>1, <2>1
  <2>2. CASE e # d
    <3>1. run'[e] = run[e] /\ RunFits(e, run[e], inbox, Stored)
      BY <1>1, <2>2 DEF QueueInv
    <3>2. e \in inbox' <=> e \in inbox
      BY <2>2
    <3> QED BY <3>1, <3>2 DEF RunFits
  <2> QED BY <2>1, <2>2
<1>3. SeenStays
  <2>1. \A e \in inbox : e \in Runs
    BY DEF Demand!TypeOK
  <2> QED BY <1>1, <2>1 DEF SeenStays
<1>4. ASSUME NEW h \in Replies PROVE ReplyFits(reply'[h], inbox', run')
  BY <1>3 DEF QueueInv, ReplyFits, SeenStays
<1> QED BY <1>1, <1>2, <1>3, <1>4 DEF Moved, Demand!TypeOK

\* A step of one reply leaves the others, and the dispatches, where they stood.
LEMMA ReplyMoves ==
    ASSUME Demand!TypeOK, QueueInv,
           NEW h \in Replies, NEW y \in Demand!Reply, reply' = [reply EXCEPT ![h] = y],
           reply[h].says \subseteq y.says, ReplyFits(y, inbox, run),
           Stored \subseteq Stored', UNCHANGED <<run, inbox>>
    PROVE  Moved
<1>1. reply' \in [Replies -> Demand!Reply] /\ reply'[h] = y
      /\ \A g \in Replies : g # h => reply'[g] = reply[g]
  BY DEF Demand!TypeOK
<1>2. ASSUME NEW e \in Runs PROVE RunFits(e, run'[e], inbox', Stored')
  BY DEF QueueInv, RunFits
<1>3. SeenStays
  BY <1>1 DEF SeenStays
<1>4. ASSUME NEW g \in Replies PROVE ReplyFits(reply'[g], inbox', run')
  <2>1. CASE g = h
    BY <1>1, <2>1 DEF ReplyFits
  <2>2. CASE g # h
    BY <1>1, <2>2 DEF QueueInv, ReplyFits
  <2> QED BY <2>1, <2>2
<1> QED BY <1>1, <1>2, <1>3, <1>4 DEF Moved, Demand!TypeOK

\* The rows that a read finds, or misses, have a row.
LEMMA QueuedStored ==
    \A rows \in Demand!Read(Demand!Queued) : rows \subseteq Stored
BY DEF Demand!Read, Demand!Queued, Stored

\* What a returned reply leaves behind.
LEMMA Returned ==
    ASSUME Demand!TypeOK, QueueInv, NEW h \in Replies, Demand!Return(h),
           Stored \subseteq Stored', UNCHANGED <<run, inbox>>
    PROVE  Moved
<1> DEFINE y == [phase |-> "done", says |-> reply[h].says, digest |-> None,
                 left |-> {}, closes |-> FALSE]
<1>1. reply[h] \in Demand!Reply
  BY DEF Demand!TypeOK
<1>2. y \in Demand!Reply /\ y.says = reply[h].says /\ y.phase = "done" /\ y.left = {}
  BY <1>1 DEF Demand!Reply
<1>3. reply' = [reply EXCEPT ![h] = y]
  BY DEF Demand!Return, Demand!TypeOK
<1> HIDE DEF y
<1>4. ReplyFits(y, inbox, run)
  BY <1>2 DEF ReplyFits
<1> QED BY <1>2, <1>3, <1>4, ReplyMoves

\* A step that moves neither dispatches nor replies.
LEMMA NoneMoves ==
    ASSUME Demand!TypeOK, QueueInv, Stored \subseteq Stored', UNCHANGED <<run, reply, inbox>>
    PROVE  Moved
BY DEF Moved, Demand!TypeOK, QueueInv, RunFits, ReplyFits, SeenStays

\* What is left to show of a step.
LEMMA StepHolds ==
    ASSUME QueueInv, Moved, RowsMove,
           ask' \in [Demand!Requests -> {"idle", "queued"}],
           request' \in [Demand!Requests -> Demand!Row \cup {None}],
           stale' \subseteq Demand!Requests, inbox' \subseteq Runs, resolved' \subseteq Runs,
           digests' \in Seq(Runs), \A i \in 1..Len(digests') : digests'[i] \in inbox'
    PROVE  Demand!TypeOK' /\ QueueInv'
<1>1. Demand!TypeOK'
  BY DEF Moved, Demand!TypeOK
<1>2. Demand!OnlyTheSeenLeave' /\ Demand!NumbersHold'
  BY RowsAllowed DEF Moved
<1> QED BY <1>1, <1>2 DEF Moved, QueueInv

\* A step that writes no rows.
LEMMA RowsStay ==
    ASSUME request' = request
    PROVE  Stored' = Stored /\ RowsMove
BY DEF Stored, RowsMove

----------------------------------------------------------------------------
LEMMA EnqueueStep ==
    ASSUME Demand!DemandQueueAssumption, Demand!TypeOK, QueueInv,
           NEW r \in Demand!Requests, Demand!Enqueue(r)
    PROVE  Demand!TypeOK' /\ QueueInv'
<1> DEFINE x == [state |-> "queued", digest |-> None]
<1>1. x \in Demand!Row /\ x.state = "queued"
  BY DEF Demand!Row, Demand!State
<1>2. request' = [request EXCEPT ![r] = x] \/ request' = request
  BY DEF Demand!Enqueue
<1>3. x # None
  BY <1>1 DEF Demand!DemandQueueAssumption
<1> HIDE DEF x
<1>4. /\ request' \in [Demand!Requests -> Demand!Row \cup {None}]
      /\ \A q \in Demand!Requests : request'[q] = request[q] \/ request'[q] = x
  BY <1>1, <1>2 DEF Demand!TypeOK
<1>5. Stored \subseteq Stored'
  BY <1>3, <1>4 DEF Stored, Demand!Requests
<1>6. RowsMove
  BY <1>1, <1>4 DEF RowsMove
<1>7. ask' \in [Demand!Requests -> {"idle", "queued"}]
  BY DEF Demand!Enqueue, Demand!TypeOK
<1>8. UNCHANGED <<stale, run, inbox, digests, resolved, reply>>
  BY DEF Demand!Enqueue
<1>9. Moved
  BY <1>5, <1>8, NoneMoves
<1> QED BY <1>4, <1>6, <1>7, <1>8, <1>9, StepHolds DEF Demand!TypeOK, QueueInv

LEMMA AgeStep ==
    ASSUME Demand!DemandQueueAssumption, Demand!TypeOK, QueueInv,
           NEW r \in Demand!Requests, Demand!Age(r)
    PROVE  Demand!TypeOK' /\ QueueInv'
<1>1. UNCHANGED <<ask, request, run, inbox, digests, resolved, reply>>
  BY DEF Demand!Age
<1>2. stale' \subseteq Demand!Requests
  BY DEF Demand!Age, Demand!TypeOK
<1>3. Moved /\ RowsMove
  BY <1>1, NoneMoves, RowsStay
<1> QED BY <1>1, <1>2, <1>3, StepHolds DEF Demand!TypeOK, QueueInv

----------------------------------------------------------------------------
(* The steps of a dispatch.                                                *)

LEMMA StartRunStep ==
    ASSUME Demand!DemandQueueAssumption, Demand!TypeOK, QueueInv,
           NEW d \in Runs, Demand!StartRun(d)
    PROVE  Demand!TypeOK' /\ QueueInv'
<1>1. UNCHANGED <<ask, request, stale, inbox, digests, resolved, reply>>
  BY DEF Demand!StartRun
<1>2. PICK rows \in Demand!Read(Demand!Queued) :
         run' = [run EXCEPT ![d].phase = "expiring", ![d].left = rows \cap stale]
  BY DEF Demand!StartRun
<1> DEFINE x == [run[d] EXCEPT !.phase = "expiring", !.left = rows \cap stale]
<1>3. rows \subseteq Stored /\ Stored \subseteq Demand!Requests
  BY QueuedStored DEF Stored
<1>4. run[d] \in Demand!Run /\ RunFits(d, run[d], inbox, Stored) /\ run[d].phase = "idle"
  BY DEF Demand!TypeOK, QueueInv, Demand!StartRun
<1>5. /\ x \in Demand!Run /\ x.phase = "expiring" /\ x.shown = run[d].shown
      /\ x.left = rows \cap stale
  BY <1>3, <1>4 DEF Demand!Run
<1>6. run' = [run EXCEPT ![d] = x]
  BY <1>2 DEF Demand!TypeOK
<1> HIDE DEF x
<1>7. RunFits(d, x, inbox, Stored)
  BY <1>3, <1>4, <1>5 DEF RunFits
<1>8. Stored' = Stored /\ RowsMove
  BY <1>1, RowsStay
<1>9. Moved
  BY <1>1, <1>5, <1>6, <1>7, <1>8, RunMoves
<1> QED BY <1>1, <1>8, <1>9, StepHolds DEF Demand!TypeOK, QueueInv

LEMMA ExpireOneStep ==
    ASSUME Demand!DemandQueueAssumption, Demand!TypeOK, QueueInv,
           NEW d \in Runs, Demand!ExpireOne(d)
    PROVE  Demand!TypeOK' /\ QueueInv'
<1>1. UNCHANGED <<ask, stale, inbox, digests, resolved, reply>> /\ run[d].phase = "expiring"
  BY DEF Demand!ExpireOne
<1>2. PICK r \in run[d].left :
         /\ Demand!Written(r, "expired", None)
         /\ run' = [run EXCEPT ![d].left = @ \ {r}]
  BY DEF Demand!ExpireOne
<1> DEFINE x == [run[d] EXCEPT !.left = @ \ {r}]
<1>3. run[d] \in Demand!Run /\ RunFits(d, run[d], inbox, Stored)
  BY DEF Demand!TypeOK, QueueInv
<1>4. r \in Stored /\ "expired" \in Demand!State
  BY <1>3 DEF RunFits, Demand!State
<1>5. /\ request' \in [Demand!Requests -> Demand!Row \cup {None}] /\ Stored' = Stored
      /\ \A q \in Demand!Requests :
            request'[q] = request[q] \/ (q = r /\ request'[r].state = "expired")
  BY <1>2, <1>4, RowWritten
<1>6. RowsMove
  BY <1>5 DEF RowsMove
<1>7. /\ x \in Demand!Run /\ x.phase = "expiring" /\ x.shown = run[d].shown
      /\ x.left = run[d].left \ {r}
  BY <1>1, <1>3 DEF Demand!Run
<1>8. run' = [run EXCEPT ![d] = x]
  BY <1>2 DEF Demand!TypeOK
<1> HIDE DEF x
<1>9. RunFits(d, x, inbox, Stored)
  BY <1>1, <1>3, <1>7 DEF RunFits
<1>10. Moved
  BY <1>1, <1>5, <1>7, <1>8, <1>9, RunMoves
<1> QED BY <1>1, <1>5, <1>6, <1>10, StepHolds DEF Demand!TypeOK, QueueInv

LEMMA ReadPendingStep ==
    ASSUME Demand!DemandQueueAssumption, Demand!TypeOK, QueueInv,
           NEW d \in Runs, Demand!ReadPending(d)
    PROVE  Demand!TypeOK' /\ QueueInv'
<1>1. /\ UNCHANGED <<ask, request, stale, inbox, digests, resolved, reply>>
      /\ run[d].phase = "expiring" /\ run[d].left = {}
  BY DEF Demand!ReadPending
<1>2. run[d] \in Demand!Run /\ RunFits(d, run[d], inbox, Stored)
  BY DEF Demand!TypeOK, QueueInv
<1>3. d \notin inbox
  BY <1>1, <1>2 DEF RunFits
<1>4. Stored' = Stored /\ RowsMove
  BY <1>1, RowsStay
<1>5. Moved
  <2>1. PICK rows \in Demand!Read(Demand!Queued) :
           \/ run' = [run EXCEPT ![d].phase = "sending",
                                 ![d].shown = Demand!Slice(rows \ stale)]
           \/ run' = [run EXCEPT ![d].phase = "done"]
    BY DEF Demand!ReadPending
  <2>2. CASE run' = [run EXCEPT ![d].phase = "done"]
    <3> DEFINE x == [run[d] EXCEPT !.phase = "done"]
    <3>1. /\ x \in Demand!Run /\ x.phase = "done" /\ x.shown = run[d].shown
          /\ x.left = run[d].left
      BY <1>2 DEF Demand!Run
    <3>2. run' = [run EXCEPT ![d] = x]
      BY <2>2 DEF Demand!TypeOK
    <3> HIDE DEF x
    <3>3. RunFits(d, x, inbox, Stored)
      BY <1>2, <3>1 DEF RunFits
    <3> QED BY <1>1, <1>4, <3>1, <3>2, <3>3, RunMoves
  <2>3. CASE run' = [run EXCEPT ![d].phase = "sending",
                                ![d].shown = Demand!Slice(rows \ stale)]
    <3> DEFINE S == rows \ stale
    <3> DEFINE x == [run[d] EXCEPT !.phase = "sending", !.shown = Demand!Slice(S)]
    <3>1. S \subseteq Stored /\ S \subseteq Demand!Requests
      BY QueuedStored DEF Stored
    <3>2. Demand!Slice(S) \subseteq S /\ Cardinality(Demand!Slice(S)) <= DigestMax
      BY <3>1, SliceFits
    <3>3. run' = [run EXCEPT ![d] = x]
      BY <2>3 DEF Demand!TypeOK
    <3> HIDE DEF S
    <3>4. /\ x \in Demand!Run /\ x.phase = "sending" /\ x.left = run[d].left
          /\ x.shown = Demand!Slice(S)
      BY <1>2, <3>1, <3>2 DEF Demand!Run
    <3> HIDE DEF x
    <3>5. RunFits(d, x, inbox, Stored)
      BY <1>1, <1>3, <3>1, <3>2, <3>4 DEF RunFits
    <3> QED BY <1>1, <1>3, <1>4, <3>3, <3>4, <3>5, RunMoves
  <2> QED BY <2>1, <2>2, <2>3
<1> QED BY <1>1, <1>4, <1>5, StepHolds DEF Demand!TypeOK, QueueInv

LEMMA SendStep ==
    ASSUME Demand!DemandQueueAssumption, Demand!TypeOK, QueueInv,
           NEW d \in Runs, Demand!Send(d)
    PROVE  Demand!TypeOK' /\ QueueInv'
<1>1. UNCHANGED <<ask, request, stale, digests, resolved, reply>> /\ run[d].phase = "sending"
  BY DEF Demand!Send
<1>2. PICK delivered \in BOOLEAN, ok \in BOOLEAN :
         /\ ok => delivered
         /\ inbox' = IF delivered THEN inbox \cup {d} ELSE inbox
         /\ run' = [run EXCEPT ![d].phase = Demand!AfterSend(ok)]
  BY DEF Demand!Send
<1> DEFINE x == [run[d] EXCEPT !.phase = Demand!AfterSend(ok)]
<1>3. run[d] \in Demand!Run /\ RunFits(d, run[d], inbox, Stored)
  BY DEF Demand!TypeOK, QueueInv
<1>4. /\ x \in Demand!Run /\ x.shown = run[d].shown /\ x.left = run[d].left
      /\ x.phase = IF ok THEN "recording" ELSE "done"
  BY <1>3 DEF Demand!Run, Demand!AfterSend
<1>5. run' = [run EXCEPT ![d] = x]
  BY <1>2 DEF Demand!TypeOK
<1> HIDE DEF x
<1>6. inbox \subseteq inbox' /\ inbox' \subseteq inbox \cup {d} /\ (ok => d \in inbox')
  BY <1>2
<1>7. RunFits(d, x, inbox', Stored)
  BY <1>3, <1>4, <1>6 DEF RunFits
<1>8. Stored' = Stored /\ RowsMove
  BY <1>1, RowsStay
<1>9. Moved
  BY <1>1, <1>4, <1>5, <1>6, <1>7, <1>8, RunMoves
<1>10. inbox' \subseteq Runs
  BY <1>6 DEF Demand!TypeOK
<1> QED BY <1>1, <1>6, <1>8, <1>9, <1>10, StepHolds DEF Demand!TypeOK, QueueInv

LEMMA RecordDigestStep ==
    ASSUME Demand!DemandQueueAssumption, Demand!TypeOK, QueueInv,
           NEW d \in Runs, Demand!RecordDigest(d)
    PROVE  Demand!TypeOK' /\ QueueInv'
<1>1. /\ UNCHANGED <<ask, request, stale, inbox, resolved, reply>>
      /\ run[d].phase = "recording"
      /\ digests' = Append(digests, d) \/ digests' = digests
      /\ run' = [run EXCEPT ![d].phase = "marking", ![d].left = run[d].shown]
  BY DEF Demand!RecordDigest
<1> DEFINE x == [run[d] EXCEPT !.phase = "marking", !.left = run[d].shown]
<1>2. run[d] \in Demand!Run /\ RunFits(d, run[d], inbox, Stored)
  BY DEF Demand!TypeOK, QueueInv
<1>3. d \in inbox
  BY <1>1, <1>2 DEF RunFits
<1>4. /\ x \in Demand!Run /\ x.phase = "marking" /\ x.shown = run[d].shown
      /\ x.left = run[d].shown
  BY <1>2 DEF Demand!Run
<1>5. run' = [run EXCEPT ![d] = x]
  BY <1>1 DEF Demand!TypeOK
<1> HIDE DEF x
<1>6. RunFits(d, x, inbox, Stored)
  BY <1>2, <1>3, <1>4 DEF RunFits
<1>7. Stored' = Stored /\ RowsMove
  BY <1>1, RowsStay
<1>8. Moved
  BY <1>1, <1>4, <1>5, <1>6, <1>7, RunMoves
<1>9. digests' \in Seq(Runs) /\ \A i \in 1..Len(digests') : digests'[i] \in inbox'
  <2>1. digests \in Seq(Runs) /\ \A i \in 1..Len(digests) : digests[i] \in inbox'
    BY <1>1 DEF Demand!TypeOK, QueueInv
  <2>2. CASE digests' = digests
    BY <2>1, <2>2
  <2>3. CASE digests' = Append(digests, d)
    <3>1. Append(digests, d) \in Seq(Runs) /\ Len(Append(digests, d)) = Len(digests) + 1
      BY <2>1
    <3>2. \A i \in 1..(Len(digests) + 1) :
             Append(digests, d)[i] = IF i <= Len(digests) THEN digests[i] ELSE d
      BY <2>1
    <3>3. Len(digests) \in Nat
      BY <2>1
    <3> QED BY <1>1, <1>3, <2>1, <2>3, <3>1, <3>2, <3>3
  <2> QED BY <1>1, <2>2, <2>3
<1> QED BY <1>1, <1>7, <1>8, <1>9, StepHolds DEF Demand!TypeOK, QueueInv

LEMMA MarkOneStep ==
    ASSUME Demand!DemandQueueAssumption, Demand!TypeOK, QueueInv,
           NEW d \in Runs, Demand!MarkOne(d)
    PROVE  Demand!TypeOK' /\ QueueInv'
<1>1. UNCHANGED <<ask, stale, inbox, digests, resolved, reply>> /\ run[d].phase = "marking"
  BY DEF Demand!MarkOne
<1>2. PICK r \in run[d].left :
         /\ Demand!Written(r, "dispatched", d)
         /\ run' = [run EXCEPT ![d].left = @ \ {r},
                               ![d].phase = IF run[d].left = {r} THEN "done" ELSE @]
  BY DEF Demand!MarkOne
<1> DEFINE x == [run[d] EXCEPT !.left = @ \ {r},
                               !.phase = IF run[d].left = {r} THEN "done" ELSE @]
<1>3. run[d] \in Demand!Run /\ RunFits(d, run[d], inbox, Stored)
  BY DEF Demand!TypeOK, QueueInv
<1>4. /\ r \in Stored /\ r \in run[d].shown /\ d \in inbox
      /\ "dispatched" \in Demand!State
  BY <1>1, <1>3 DEF RunFits, Demand!State
<1>5. /\ request' \in [Demand!Requests -> Demand!Row \cup {None}] /\ Stored' = Stored
      /\ \A q \in Demand!Requests :
            request'[q] = request[q] \/ (q = r /\ request'[r].state = "dispatched")
  BY <1>2, <1>4, RowWritten
<1>6. RowsMove
  BY <1>4, <1>5 DEF RowsMove
<1>7. /\ x \in Demand!Run /\ x.phase \in {"marking", "done"} /\ x.shown = run[d].shown
      /\ x.left = run[d].left \ {r}
  BY <1>1, <1>3 DEF Demand!Run
<1>8. run' = [run EXCEPT ![d] = x]
  BY <1>2 DEF Demand!TypeOK
<1> HIDE DEF x
<1>9. RunFits(d, x, inbox, Stored)
  BY <1>1, <1>3, <1>4, <1>7 DEF RunFits
<1>10. Moved
  BY <1>1, <1>5, <1>7, <1>8, <1>9, RunMoves
<1> QED BY <1>1, <1>5, <1>6, <1>10, StepHolds DEF Demand!TypeOK, QueueInv

LEMMA CutOffStep ==
    ASSUME Demand!DemandQueueAssumption, Demand!TypeOK, QueueInv,
           NEW d \in Runs, Demand!CutOff(d)
    PROVE  Demand!TypeOK' /\ QueueInv'
<1>1. /\ UNCHANGED <<ask, request, stale, inbox, digests, resolved, reply>>
      /\ run' = [run EXCEPT ![d].phase = "done", ![d].left = {}]
  BY DEF Demand!CutOff
<1> DEFINE x == [run[d] EXCEPT !.phase = "done", !.left = {}]
<1>2. run[d] \in Demand!Run /\ RunFits(d, run[d], inbox, Stored)
  BY DEF Demand!TypeOK, QueueInv
<1>3. x \in Demand!Run /\ x.phase = "done" /\ x.shown = run[d].shown /\ x.left = {}
  BY <1>2 DEF Demand!Run
<1>4. run' = [run EXCEPT ![d] = x]
  BY <1>1 DEF Demand!TypeOK
<1> HIDE DEF x
<1>5. RunFits(d, x, inbox, Stored)
  BY <1>2, <1>3 DEF RunFits
<1>6. Stored' = Stored /\ RowsMove
  BY <1>1, RowsStay
<1>7. Moved
  BY <1>1, <1>3, <1>4, <1>5, <1>6, RunMoves
<1> QED BY <1>1, <1>6, <1>7, StepHolds DEF Demand!TypeOK, QueueInv

----------------------------------------------------------------------------
(* The steps of a reply.                                                   *)

LEMMA BusinessRepliesStep ==
    ASSUME Demand!DemandQueueAssumption, Demand!TypeOK, QueueInv,
           NEW h \in Replies, Demand!BusinessReplies(h)
    PROVE  Demand!TypeOK' /\ QueueInv'
<1>1. UNCHANGED <<ask, request, stale, run, inbox, digests, resolved>>
  BY DEF Demand!BusinessReplies
<1> PICK d \in inbox :
         \E says \in SUBSET ((1..Demand!Cardinality(run[d].shown)) \X Demand!Verdict) \ {{}} :
             /\ reply[h].phase = "idle"
             /\ reply' = [reply EXCEPT ![h].phase = "arrived", ![h].says = says]
  BY DEF Demand!BusinessReplies
<1>2. PICK says \in SUBSET ((1..Demand!Cardinality(run[d].shown)) \X Demand!Verdict) \ {{}} :
         /\ reply[h].phase = "idle"
         /\ reply' = [reply EXCEPT ![h].phase = "arrived", ![h].says = says]
  OBVIOUS
<1>3. d \in Runs /\ run[d] \in Demand!Run /\ RunFits(d, run[d], inbox, Stored)
  BY DEF Demand!TypeOK, QueueInv
<1>4. says \subseteq (1..DigestMax) \X Demand!Verdict
  <2>1. run[d].shown \in SUBSET Demand!Requests
    BY <1>3 DEF Demand!Run
  <2>2. Cardinality(run[d].shown) \in Nat
    BY <2>1, SomeRequests
  <2>3. Cardinality(run[d].shown) <= DigestMax /\ DigestMax \in Nat
    BY <1>3 DEF RunFits, Demand!DemandQueueAssumption
  <2>4. says \subseteq (1..Cardinality(run[d].shown)) \X Demand!Verdict
    BY <1>2, DemandCounts
  <2>5. 1..Cardinality(run[d].shown) \subseteq 1..DigestMax
    BY <2>2, <2>3
  <2> QED BY <2>4, <2>5
<1> DEFINE y == [reply[h] EXCEPT !.phase = "arrived", !.says = says]
<1>5. reply[h] \in Demand!Reply /\ ReplyFits(reply[h], inbox, run) /\ reply[h].phase = "idle"
  BY <1>2 DEF Demand!TypeOK, QueueInv
<1>6. /\ y \in Demand!Reply /\ y.phase = "arrived" /\ y.says = says
      /\ y.digest = reply[h].digest /\ y.left = reply[h].left
  BY <1>4, <1>5 DEF Demand!Reply
<1>7. reply' = [reply EXCEPT ![h] = y]
  BY <1>2 DEF Demand!TypeOK
<1> HIDE DEF y
<1>8. reply[h].says \subseteq y.says
  BY <1>5 DEF ReplyFits
<1>9. ReplyFits(y, inbox, run)
  BY <1>5, <1>6, <1>8 DEF ReplyFits
<1>10. Stored' = Stored /\ RowsMove
  BY <1>1, RowsStay
<1>11. Moved
  BY <1>1, <1>6, <1>7, <1>8, <1>9, <1>10, ReplyMoves
<1> QED BY <1>1, <1>10, <1>11, StepHolds DEF Demand!TypeOK, QueueInv

LEMMA FindDigestStep ==
    ASSUME Demand!DemandQueueAssumption, Demand!TypeOK, QueueInv,
           NEW h \in Replies, Demand!FindDigest(h)
    PROVE  Demand!TypeOK' /\ QueueInv'
<1>1. /\ UNCHANGED <<ask, request, stale, run, inbox, digests, resolved>>
      /\ reply[h].phase = "arrived"
  BY DEF Demand!FindDigest
<1>2. Stored' = Stored /\ RowsMove
  BY <1>1, RowsStay
<1>3. Moved
  <2>1. CASE Demand!Return(h)
    BY <1>1, <1>2, <2>1, Returned
  <2>2. CASE \E i \in Demand!Awaiting :
               reply' = [reply EXCEPT ![h].phase = "reading", ![h].digest = digests[i]]
    <3>1. PICK i \in Demand!Awaiting :
             reply' = [reply EXCEPT ![h].phase = "reading", ![h].digest = digests[i]]
      BY <2>2
    <3>2. digests[i] \in inbox /\ digests[i] \in Runs
      BY DEF Demand!Awaiting, QueueInv, Demand!TypeOK
    <3> DEFINE y == [reply[h] EXCEPT !.phase = "reading", !.digest = digests[i]]
    <3>3. /\ reply[h] \in Demand!Reply /\ ReplyFits(reply[h], inbox, run)
      BY DEF Demand!TypeOK, QueueInv
    <3>4. /\ y \in Demand!Reply /\ y.phase = "reading" /\ y.says = reply[h].says
          /\ y.digest = digests[i] /\ y.left = reply[h].left
      BY <3>2, <3>3 DEF Demand!Reply
    <3>5. reply' = [reply EXCEPT ![h] = y]
      BY <3>1 DEF Demand!TypeOK
    <3> HIDE DEF y
    <3>6. ReplyFits(y, inbox, run)
      BY <1>1, <3>2, <3>3, <3>4 DEF ReplyFits
    <3> QED BY <1>1, <1>2, <3>4, <3>5, <3>6, ReplyMoves
  <2> QED BY <2>1, <2>2 DEF Demand!FindDigest
<1> QED BY <1>1, <1>2, <1>3, StepHolds DEF Demand!TypeOK, QueueInv

LEMMA ReadItemsStep ==
    ASSUME Demand!DemandQueueAssumption, Demand!TypeOK, QueueInv,
           NEW h \in Replies, Demand!ReadItems(h)
    PROVE  Demand!TypeOK' /\ QueueInv'
<1>1. /\ UNCHANGED <<ask, request, stale, run, inbox, digests, resolved>>
      /\ reply[h].phase = "reading"
  BY DEF Demand!ReadItems
<1>2. Stored' = Stored /\ RowsMove
  BY <1>1, RowsStay
<1> DEFINE d == reply[h].digest
<1>3. PICK found :
         LET pairs == Demand!Scored(reply[h].says, d, found)
         IN IF pairs = {} THEN Demand!Return(h)
            ELSE reply' = [reply EXCEPT
                    ![h].phase = "deciding", ![h].left = pairs,
                    ![h].closes = Demand!Cardinality(pairs)
                                     >= Demand!Cardinality(run[d].shown)]
  BY DEF Demand!ReadItems
<1> DEFINE pairs == Demand!Scored(reply[h].says, d, found)
           full == Demand!Cardinality(pairs) >= Demand!Cardinality(run[d].shown)
<1>4. reply[h] \in Demand!Reply /\ ReplyFits(reply[h], inbox, run) /\ d \in inbox /\ d \in Runs
  <2>1. reply[h] \in Demand!Reply /\ ReplyFits(reply[h], inbox, run)
    BY DEF Demand!TypeOK, QueueInv
  <2> QED BY <1>1, <2>1 DEF ReplyFits, Demand!TypeOK
<1>5. \A p \in pairs :
         /\ p \in [request : Demand!Requests, verdict : Demand!Verdict]
         /\ p.request \in run[d].shown
         /\ <<Demand!Number(p.request, run[d].shown), p.verdict>> \in reply[h].says
  <2>1. run[d].shown \subseteq Demand!Requests
    BY <1>4 DEF Demand!TypeOK, Demand!Run
  <2> QED BY <2>1 DEF Demand!Scored, Demand!Numbered
<1>6. full \in BOOLEAN
  OBVIOUS
<1>7. Moved
  <2>1. CASE Demand!Return(h)
    BY <1>1, <1>2, <2>1, Returned
  <2>2. CASE reply' = [reply EXCEPT ![h].phase = "deciding", ![h].left = pairs,
                                    ![h].closes = full]
    <3> HIDE DEF pairs, full
    <3> DEFINE y == [reply[h] EXCEPT !.phase = "deciding", !.left = pairs, !.closes = full]
    <3>1. /\ y \in Demand!Reply /\ y.phase = "deciding" /\ y.says = reply[h].says
          /\ y.digest = d /\ y.left = pairs
      BY <1>4, <1>5, <1>6 DEF Demand!Reply
    <3>2. reply' = [reply EXCEPT ![h] = y]
      BY <2>2 DEF Demand!TypeOK
    <3> HIDE DEF y
    <3>3. ReplyFits(y, inbox, run)
      BY <1>4, <1>5, <3>1 DEF ReplyFits
    <3> QED BY <1>1, <1>2, <3>1, <3>2, <3>3, ReplyMoves
  <2> QED BY <1>3, <2>1, <2>2
<1> QED BY <1>1, <1>2, <1>7, StepHolds DEF Demand!TypeOK, QueueInv

LEMMA DecideOneStep ==
    ASSUME Demand!DemandQueueAssumption, Demand!TypeOK, QueueInv,
           NEW h \in Replies, Demand!DecideOne(h)
    PROVE  Demand!TypeOK' /\ QueueInv'
<1>1. UNCHANGED <<ask, stale, run, inbox, digests, resolved>>
  BY DEF Demand!DecideOne
<1>2. PICK p \in reply[h].left :
         /\ reply[h].phase = "deciding"
         /\ Demand!Written(p.request, p.verdict, None)
         /\ reply' = [reply EXCEPT ![h].left = @ \ {p}]
  BY DEF Demand!DecideOne
<1> DEFINE d == reply[h].digest
           y == [reply[h] EXCEPT !.left = @ \ {p}]
<1>3. reply[h] \in Demand!Reply /\ ReplyFits(reply[h], inbox, run)
  BY DEF Demand!TypeOK, QueueInv
<1>4. /\ p.request \in Demand!Requests /\ p.verdict \in Demand!Verdict
      /\ p.verdict \in Demand!State
  BY <1>3 DEF Demand!Reply, Demand!Verdict, Demand!State
<1>5. /\ d \in inbox /\ d \in Runs /\ p.request \in run[d].shown
      /\ <<Demand!Number(p.request, run[d].shown), p.verdict>> \in reply[h].says
  BY <1>3 DEF ReplyFits, Demand!TypeOK
<1>6. p.request \in Stored
  BY <1>5 DEF QueueInv, RunFits
<1>7. /\ request' \in [Demand!Requests -> Demand!Row \cup {None}] /\ Stored' = Stored
      /\ \A q \in Demand!Requests :
            request'[q] = request[q] \/ (q = p.request /\ request'[q].state = p.verdict)
  BY <1>2, <1>4, <1>6, RowWritten
<1>8. RowsMove
  BY <1>4, <1>5, <1>7 DEF RowsMove
<1>9. /\ y \in Demand!Reply /\ y.phase = reply[h].phase /\ y.says = reply[h].says
      /\ y.digest = d /\ y.left = reply[h].left \ {p}
  BY <1>3 DEF Demand!Reply
<1>10. reply' = [reply EXCEPT ![h] = y]
  BY <1>2 DEF Demand!TypeOK
<1> HIDE DEF y
<1>11. ReplyFits(y, inbox, run)
  BY <1>2, <1>3, <1>5, <1>9 DEF ReplyFits
<1>12. Moved
  BY <1>1, <1>7, <1>9, <1>10, <1>11, ReplyMoves
<1> QED BY <1>1, <1>7, <1>8, <1>12, StepHolds DEF Demand!TypeOK, QueueInv

LEMMA CloseDigestStep ==
    ASSUME Demand!DemandQueueAssumption, Demand!TypeOK, QueueInv,
           NEW h \in Replies, Demand!CloseDigest(h)
    PROVE  Demand!TypeOK' /\ QueueInv'
<1>1. /\ UNCHANGED <<ask, request, stale, run, inbox, digests>> /\ Demand!Return(h)
      /\ reply[h].phase = "deciding" /\ resolved' \subseteq resolved \cup {reply[h].digest}
  BY DEF Demand!CloseDigest
<1>2. Stored' = Stored /\ RowsMove
  BY <1>1, RowsStay
<1>3. resolved' \subseteq Runs
  <2>1. reply[h].digest \in inbox
    BY <1>1 DEF QueueInv, ReplyFits
  <2> QED BY <1>1, <2>1 DEF Demand!TypeOK
<1>4. Moved
  BY <1>1, <1>2, Returned
<1> QED BY <1>1, <1>2, <1>3, <1>4, StepHolds DEF Demand!TypeOK, QueueInv

LEMMA GiveUpStep ==
    ASSUME Demand!DemandQueueAssumption, Demand!TypeOK, QueueInv,
           NEW h \in Replies, Demand!GiveUp(h)
    PROVE  Demand!TypeOK' /\ QueueInv'
<1>1. UNCHANGED <<ask, request, stale, run, inbox, digests, resolved>> /\ Demand!Return(h)
  BY DEF Demand!GiveUp
<1>2. Stored' = Stored /\ RowsMove
  BY <1>1, RowsStay
<1>3. Moved
  BY <1>1, <1>2, Returned
<1> QED BY <1>1, <1>2, <1>3, StepHolds DEF Demand!TypeOK, QueueInv

----------------------------------------------------------------------------
LEMMA QueueStep ==
    ASSUME Demand!DemandQueueAssumption, Demand!TypeOK, QueueInv, [Demand!Next]_Demand!vars
    PROVE  Demand!TypeOK' /\ QueueInv'
<1>1. ASSUME NEW r \in Demand!Requests, Demand!Enqueue(r) \/ Demand!Age(r)
      PROVE  Demand!TypeOK' /\ QueueInv'
  BY <1>1, EnqueueStep, AgeStep
<1>2. ASSUME NEW d \in Runs,
             \/ Demand!StartRun(d) \/ Demand!ExpireOne(d) \/ Demand!ReadPending(d)
             \/ Demand!Send(d) \/ Demand!RecordDigest(d) \/ Demand!MarkOne(d)
             \/ Demand!CutOff(d)
      PROVE  Demand!TypeOK' /\ QueueInv'
  BY <1>2, StartRunStep, ExpireOneStep, ReadPendingStep, SendStep, RecordDigestStep,
     MarkOneStep, CutOffStep
<1>3. ASSUME NEW h \in Replies,
             \/ Demand!BusinessReplies(h) \/ Demand!FindDigest(h) \/ Demand!ReadItems(h)
             \/ Demand!DecideOne(h) \/ Demand!CloseDigest(h) \/ Demand!GiveUp(h)
      PROVE  Demand!TypeOK' /\ QueueInv'
  BY <1>3, BusinessRepliesStep, FindDigestStep, ReadItemsStep, DecideOneStep,
     CloseDigestStep, GiveUpStep
<1>4. CASE UNCHANGED Demand!vars
  <2>1. UNCHANGED <<ask, request, stale, run, inbox, digests, resolved, reply>>
    BY <1>4 DEF Demand!vars
  <2>2. Moved /\ RowsMove
    BY <2>1, NoneMoves, RowsStay
  <2> QED BY <2>1, <2>2, StepHolds DEF Demand!TypeOK, QueueInv
<1> QED BY <1>1, <1>2, <1>3, <1>4 DEF Demand!Next

LEMMA QueueInvHolds ==
    ASSUME Demand!DemandQueueAssumption
    PROVE  Demand!Spec => [](Demand!TypeOK /\ QueueInv)
<1>1. Demand!Init => Demand!TypeOK /\ QueueInv
  <2> SUFFICES ASSUME Demand!Init PROVE Demand!TypeOK /\ QueueInv
    OBVIOUS
  <2>1. /\ \A d \in Runs : run[d] = [phase |-> "idle", shown |-> {}, left |-> {}]
        /\ \A h \in Replies : /\ reply[h].phase = "idle" /\ reply[h].says = {}
                              /\ reply[h].left = {}
        /\ \A r \in Demand!Requests : request[r] = None
        /\ inbox = {} /\ digests = <<>>
    BY DEF Demand!Init
  <2>2. Demand!TypeOK
    BY DEF Demand!Init, Demand!TypeOK, Demand!Run, Demand!Reply
  <2>3. Cardinality({}) = 0 /\ 0 <= DigestMax
    BY FS_EmptySet DEF Demand!DemandQueueAssumption
  <2>4. \A d \in Runs : RunFits(d, run[d], inbox, Stored)
    <3> SUFFICES ASSUME NEW d \in Runs PROVE RunFits(d, run[d], inbox, Stored)
      OBVIOUS
    <3>1. run[d].phase = "idle" /\ run[d].shown = {} /\ run[d].left = {}
      BY <2>1
    <3>2. Cardinality(run[d].shown) <= DigestMax
      BY <2>3, <3>1
    <3> QED BY <2>1, <3>1, <3>2 DEF RunFits
  <2>5. \A h \in Replies : ReplyFits(reply[h], inbox, run)
    BY <2>1 DEF ReplyFits
  <2>6. Demand!OnlyTheSeenLeave /\ Demand!NumbersHold
    BY <2>1 DEF Demand!OnlyTheSeenLeave, Demand!NumbersHold
  <2> QED BY <2>1, <2>2, <2>4, <2>5, <2>6 DEF QueueInv
<1>2. Demand!TypeOK /\ QueueInv /\ [Demand!Next]_Demand!vars
      => (Demand!TypeOK /\ QueueInv)'
  BY QueueStep
<1> QED BY <1>1, <1>2, PTL DEF Demand!Spec

\* The variables of DemandQueue stay within their types; a digest that was
\* rendered has at most DigestMax items (dispatch_digest, resolve_reply).
THEOREM QueueTypeCorrect ==
    ASSUME Demand!DemandQueueAssumption
    PROVE  Demand!Spec => []Demand!TypeOK
BY QueueInvHolds, PTL

\* A request leaves the queue, other than by its age, only in a digest that
\* the business received (dispatch_digest).
THEOREM TheSeenLeave ==
    ASSUME Demand!DemandQueueAssumption
    PROVE  Demand!Spec => []OnlyTheSeenLeave
<1>1. QueueInv => OnlyTheSeenLeave
  BY DEF QueueInv, OnlyTheSeenLeave
<1> QED BY <1>1, QueueInvHolds, PTL

\* A request is decided only by a reply that gave this verdict on the number
\* that the request had in a digest that the business received (resolve_reply).
THEOREM VerdictsReachTheirNumber ==
    ASSUME Demand!DemandQueueAssumption
    PROVE  Demand!Spec => []NumbersHold
<1>1. QueueInv => NumbersHold
  BY DEF QueueInv, NumbersHold
<1> QED BY <1>1, QueueInvHolds, PTL

----------------------------------------------------------------------------
(***************************************************************************)
(* Business: each step is a step of one part and stutters in the others.   *)
(***************************************************************************)
LEMMA BusinessParts ==
    BusinessSpec => Spec /\ Consent!Spec /\ Demand!Spec /\ [][active' = active]_active
<1>1. BusinessInit => Init /\ Consent!Init /\ Demand!Init
  BY DEF BusinessInit
<1>2. [BusinessNext]_<<active, vars, stopVars, queueVars>> =>
        /\ [Next]_vars /\ [Consent!Next]_Consent!vars /\ [Demand!Next]_Demand!vars
        /\ [active' = active]_active
  BY DEF BusinessNext, stopVars, queueVars, Consent!vars, Demand!vars
<1> QED BY <1>1, <1>2, PTL DEF BusinessSpec, Spec, Consent!Spec, Demand!Spec

\* Every variable of Business stays within its type, whichever part moves.
THEOREM BusinessTypeCorrect == BusinessSpec => []BusinessTypeOK
<1>1. Consent!OptOutsAssumption /\ Demand!DemandQueueAssumption
  BY BusinessAssumption
<1>2. Spec => []TypeOK
  BY TypeCorrect
<1>3. Consent!Spec => []Consent!TypeOK
  BY <1>1, StopTypeCorrect
<1>4. Demand!Spec => []Demand!TypeOK
  BY <1>1, QueueTypeCorrect
<1>5. BusinessInit => active \in {"bookings", "stops", "queue"}
  BY DEF BusinessInit
<1>6. active \in {"bookings", "stops", "queue"} /\ [active' = active]_active
      => (active \in {"bookings", "stops", "queue"})'
  OBVIOUS
<1>7. /\ TypeOK /\ Consent!TypeOK /\ Demand!TypeOK
      /\ active \in {"bookings", "stops", "queue"}
      => BusinessTypeOK
  BY DEF BusinessTypeOK
<1> QED BY <1>2, <1>3, <1>4, <1>5, <1>6, <1>7, BusinessParts, PTL DEF BusinessSpec
=============================================================================

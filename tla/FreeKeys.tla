------------------------------ MODULE FreeKeys ------------------------------
(***************************************************************************)
(* The e-mail verified free key (agent_interface/key_requests.py and       *)
(* key_request_logic.py).  A request stores one pending row per address    *)
(* and mails a signed link; a click on a link looks the row up, deletes it *)
(* and issues the key.  Rows outlive the process; a click is a series of   *)
(* awaits, and several clicks may be under way at once.                    *)
(***************************************************************************)
EXTENDS Naturals, FiniteSets

CONSTANTS
    Emails,         \* addresses that ask for a key
    Clicks,         \* clicks that can be under way at once
    MaxLinks,       \* bound on the links mailed to one address
    StoreMayFail,   \* may store_pending fail?  (it is best effort)
    ReadsMayFail,   \* may a select or a delete fail?
    MaxRestarts     \* bound on crashes of the process

\* What is assumed of the constants; the MC module asks TLC.
FreeKeysAssumption ==
    /\ MaxLinks \in Nat \ {0} /\ MaxRestarts \in Nat
    /\ {StoreMayFail, ReadsMayFail} \subseteq BOOLEAN

VARIABLES
    pendingRow,     \* pendingRow[e]: the number of the link in e's row, or 0
    machineRow,     \* has a machine-minted key a row of its own in the table?
    mailed,         \* mailed[e]: how many links were mailed to e
    live,           \* links that are not an hour old
    click,          \* click[c]: where a click stands
    issued,         \* addresses whose key was issued
    refused,        \* addresses that were told "already used"
    lost,           \* addresses whose click died after it deleted the row
    restarts        \* how many crashes happened

vars == <<pendingRow, machineRow, mailed, live, click, issued, refused, lost, restarts>>

Links == Emails \X (1..MaxLinks)
Free == [at |-> "free"]
Stage == {"lookup", "probe", "delete", "mint"}

TypeOK ==
    /\ pendingRow \in [Emails -> 0..MaxLinks]
    /\ machineRow \in BOOLEAN
    /\ mailed \in [Emails -> 0..MaxLinks]
    /\ live \subseteq Links
    /\ click \in [Clicks -> [at : Stage, link : Links] \cup {Free}]
    /\ {issued, refused, lost} \subseteq SUBSET Emails
    /\ restarts \in 0..MaxRestarts

Init ==
    /\ pendingRow = [e \in Emails |-> 0]
    /\ machineRow \in BOOLEAN
    /\ mailed = [e \in Emails |-> 0]
    /\ live = {}
    /\ click = [c \in Clicks |-> Free]
    /\ issued = {} /\ refused = {} /\ lost = {} /\ restarts = 0

At(c, stage) == click[c].at = stage
Email(c) == click[c].link[1]
Goto(c, stage) == click' = [click EXCEPT ![c].at = stage]
Leave(c) == click' = [click EXCEPT ![c] = Free]

----------------------------------------------------------------------------
\* The row after an upsert: it names the new link, or, when the address is
\* not the key that PostgREST merges on, still the first one.
Upserted(e, n) == IF pendingRow[e] = 0 THEN {n} ELSE {n, pendingRow[e]}

\* POST /keys/request: store_pending, then the mail; 200 only if it was sent.
Request(e) ==
    /\ mailed[e] < MaxLinks
    /\ LET n == mailed[e] + 1
       IN  /\ \/ pendingRow' \in {[pendingRow EXCEPT ![e] = m] : m \in Upserted(e, n)}
              \/ StoreMayFail /\ UNCHANGED pendingRow
           /\ mailed' = [mailed EXCEPT ![e] = n]
           /\ live' = live \cup {<<e, n>>}
    /\ UNCHANGED <<machineRow, click, issued, refused, lost, restarts>>

\* store_machine_minted: a row that no link names.
MachineMint ==
    /\ machineRow' = TRUE
    /\ UNCHANGED <<pendingRow, mailed, live, click, issued, refused, lost, restarts>>

Expire(k) ==
    /\ k \in live
    /\ live' = live \ {k}
    /\ UNCHANGED <<pendingRow, machineRow, mailed, click, issued, refused, lost, restarts>>

\* GET /keys/verify up to its first await: the signature and the hour.
Click(c) ==
    /\ At(c, "free")
    /\ \E k \in live : click' = [click EXCEPT ![c] = [at |-> "lookup", link |-> k]]
    /\ UNCHANGED <<pendingRow, machineRow, mailed, live, issued, refused, lost, restarts>>

----------------------------------------------------------------------------
(* consume_pending.                                                        *)

\* The row is looked up by address, whichever link it names.
Found(k) == pendingRow[k[1]] # 0

\* PendingLookupUnavailable: verify_free_key goes on with the signature alone.
UnavailableIsUsed(c) == Leave(c) /\ refused' = refused \cup {Email(c)}
Unavailable(c) == Goto(c, "mint") /\ UNCHANGED refused

Lookup(c) ==
    /\ At(c, "lookup")
    /\ \/ Found(click[c].link) /\ Goto(c, "delete") /\ UNCHANGED refused
       \/ ~Found(click[c].link) /\ Goto(c, "probe") /\ UNCHANGED refused
       \/ ReadsMayFail /\ Unavailable(c)
    /\ UNCHANGED <<pendingRow, machineRow, mailed, live, issued, lost, restarts>>

\* A table that shows no row at all may hide this one.
Probe(c) ==
    /\ At(c, "probe")
    /\ LET empty == ~machineRow /\ \A e \in Emails : pendingRow[e] = 0
       IN  \/ ~empty /\ Leave(c) /\ refused' = refused \cup {Email(c)}
           \/ (empty \/ ReadsMayFail) /\ Unavailable(c)
    /\ UNCHANGED <<pendingRow, machineRow, mailed, live, issued, lost, restarts>>

\* A refused delete leaves the row and is logged; one that raises, served or
\* not, counts as unavailable.  Each way the key is issued.
Delete(c) ==
    /\ At(c, "delete")
    /\ \/ pendingRow' = [pendingRow EXCEPT ![Email(c)] = 0]
       \/ ReadsMayFail /\ UNCHANGED pendingRow
    /\ Goto(c, "mint")
    /\ UNCHANGED <<machineRow, mailed, live, issued, refused, lost, restarts>>

\* The key, the same for every link of an address, is issued and mailed.
Mint(c) ==
    /\ At(c, "mint")
    /\ issued' = issued \cup {Email(c)}
    /\ Leave(c)
    /\ UNCHANGED <<pendingRow, machineRow, mailed, live, refused, lost, restarts>>

Crash ==
    /\ restarts < MaxRestarts
    /\ restarts' = restarts + 1
    /\ click' = [c \in Clicks |-> Free]
    /\ lost' = lost \cup {Email(c) : c \in {x \in Clicks : At(x, "mint")}}
    /\ UNCHANGED <<pendingRow, machineRow, mailed, live, issued, refused>>

Next ==
    \/ \E e \in Emails : Request(e)
    \/ MachineMint
    \/ \E k \in Links : Expire(k)
    \/ \E c \in Clicks : Click(c) \/ Lookup(c) \/ Probe(c) \/ Delete(c) \/ Mint(c)
    \/ Crash

Spec == Init /\ [][Next]_vars

----------------------------------------------------------------------------
(* Properties.                                                             *)

\* "Your key was issued the first time you clicked it": who is told so has a
\* key, or another click is about to issue it, or died on the way.  Either
\* of two links mailed to an address may be the one that is clicked first.
RefusalsAreTrue ==
    \A e \in refused :
        \/ e \in issued \cup lost
        \/ \E c \in Clicks : At(c, "mint") /\ Email(c) = e
============================================================================

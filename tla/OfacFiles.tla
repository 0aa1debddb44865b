----------------------------- MODULE OfacFiles -----------------------------
(***************************************************************************)
(* The two files of the OFAC list, names and aliases, as a process keeps   *)
(* them: fetched from the Treasury when a screen needs them, reused for a  *)
(* while, and served past that if a fetch fails (core/screen_sanctions.py, *)
(* _fetch_url and _call_ofac_sdn).                                         *)
(*                                                                         *)
(* Screens overlap at every await and share the copies, and the marks from *)
(* which an answer tells how old its copies were.                          *)
(***************************************************************************)
EXTENDS Naturals

CONSTANTS
    Lookups,  \* calls of screen_sanctions, in one process
    TTL,      \* how long a copy serves without a fetch (6 hours)
    MaxAge,   \* how long it serves if the fetch fails (7 days)
    MaxTime   \* bound on the clock

\* What is assumed of the constants; the MC module asks TLC.  A fetch takes
\* less than one tick of the clock, and the time to live is longer.
OfacFilesAssumption == {TTL, MaxAge, MaxTime} \subseteq Nat /\ 1 < TTL /\ TTL <= MaxAge

VARIABLES
    clock,
    copies,  \* copies[f]: the copy of file f in memory
    marked,  \* the files of which an old copy was served
    lookup   \* lookup[c]: where call c stands

vars == <<clock, copies, marked, lookup>>

----------------------------------------------------------------------------
Files == {"sdn", "alt"}
None == [got |-> FALSE]

\* at: the time before the fetch; asOf: the time of the content.
Copy == [got : {TRUE}, at : Nat, asOf : Nat]
Lookup == [phase : {"idle", "unscreened"}]
          \cup [phase : Files \cup {"merge", "fresh", "stale"},
                start : Nat, now : Nat, held : Copy \cup {None},
                used : [Files -> Copy \cup {None}]]

TypeOK ==
    /\ clock \in 0..MaxTime
    /\ copies \in [Files -> Copy \cup {None}]
    /\ marked \subseteq Files
    /\ lookup \in [Lookups -> Lookup]

Init ==
    /\ clock = 0
    /\ copies = [f \in Files |-> None]
    /\ marked = {}
    /\ lookup = [c \in Lookups |-> [phase |-> "idle"]]

----------------------------------------------------------------------------
\* Is the copy in memory served without a fetch?
Cached(f) == copies[f].got /\ clock - copies[f].at < TTL

\* A call that asks for file f: it uses the copy in memory, or remembers it
\* and the time, and waits.
Ask(r, f) ==
    IF Cached(f) THEN [r EXCEPT !.used[f] = copies[f], !.phase = "merge"]
    ELSE [r EXCEPT !.now = clock, !.held = copies[f], !.phase = f]

\* A call that has the names goes on to the aliases; without names, or with
\* both, it is done.
WithNames(r) == IF r.used["sdn"].got /\ r.phase = "merge" THEN Ask(r, "alt") ELSE r

Receive(c, f, copy) ==
    LET r == [lookup[c] EXCEPT !.used[f] = copy, !.held = None, !.phase = "merge"] IN
    lookup' = [lookup EXCEPT ![c] = IF f = "sdn" THEN WithNames(r) ELSE r]

Start(c) ==
    /\ lookup[c].phase \in {"idle", "fresh", "stale", "unscreened"}
    /\ lookup' = [lookup EXCEPT ![c] =
         WithNames(Ask([phase |-> "idle", start |-> clock, now |-> clock, held |-> None,
                        used |-> [f \in Files |-> None]], "sdn"))]
    /\ UNCHANGED <<clock, copies, marked>>

\* The marks that are left when file f was fetched.
UnmarkAll(f) == {}
Unmark(f) == marked \ {f}

\* The Treasury sends the file, as it was at some time during the fetch.
FetchSucceeds(c, f) ==
    /\ lookup[c].phase = f
    /\ \E t \in lookup[c].now..clock :
          LET copy == [got |-> TRUE, at |-> lookup[c].now, asOf |-> t] IN
          /\ copies' = [copies EXCEPT ![f] = copy]
          /\ Receive(c, f, copy)
    /\ marked' = Unmark(f)
    /\ UNCHANGED clock

\* A copy that may stand in for a file that could not be fetched.
ServableAtAnyAge(c) == lookup[c].held.got
Servable(c) == lookup[c].held.got /\ lookup[c].now - lookup[c].held.at <= MaxAge

\* No answer, an error page, or a body that is no list.
FetchFails(c, f) ==
    /\ lookup[c].phase = f
    /\ \/ Servable(c) /\ marked' = marked \cup {f} /\ Receive(c, f, lookup[c].held)
       \/ ~Servable(c) /\ UNCHANGED marked /\ Receive(c, f, None)
    /\ UNCHANGED <<clock, copies>>

\* The other lists are done too, and the answer is put together.  What it
\* tells of the age of its copies is what the marks say by now.
Answer(c) ==
    /\ lookup[c].phase = "merge"
    /\ lookup' = [lookup EXCEPT ![c] =
         IF \E f \in Files : ~lookup[c].used[f].got THEN [phase |-> "unscreened"]
         ELSE [lookup[c] EXCEPT !.phase = IF marked = {} THEN "fresh" ELSE "stale"]]
    /\ UNCHANGED <<clock, copies, marked>>

\* Time passes, but not more than one tick while a fetch is under way.
Tick ==
    /\ clock < MaxTime
    /\ \A c \in Lookups : lookup[c].phase \in Files => lookup[c].now = clock
    /\ clock' = clock + 1
    /\ UNCHANGED <<copies, marked, lookup>>

Next ==
    \/ \E c \in Lookups :
          Start(c) \/ Answer(c) \/ \E f \in Files : FetchSucceeds(c, f) \/ FetchFails(c, f)
    \/ Tick

Spec == Init /\ [][Next]_vars

----------------------------------------------------------------------------
(* Properties.                                                             *)

Screened(c) == lookup[c].phase \in {"fresh", "stale"}

\* Copies are current: a screen that counts the OFAC list as screened used
\* names and aliases as published no longer than the limit before it began,
\* whichever call fetched them, and whichever fetches failed since.
CopiesAreCurrent ==
    \A c \in Lookups : Screened(c) =>
        \A f \in Files : lookup[c].used[f].asOf + MaxAge >= lookup[c].start

\* Age is told: a screen that says that its copies were fetched fresh used no
\* copy past its time to live, unless the process has a newer one by now.
\* The exception is another call's: its fetch took the mark away before this
\* screen read it.
AgeIsTold ==
    \A c \in Lookups : lookup[c].phase = "fresh" =>
        \A f \in Files : LET used == lookup[c].used[f] IN
            used.at + TTL > lookup[c].start \/ copies[f].at > used.at
============================================================================

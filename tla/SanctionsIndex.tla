--------------------------- MODULE SanctionsIndex ---------------------------
(***************************************************************************)
(* One sanctions list that is screened from a local index: the job that    *)
(* refreshes the index from the publisher's feed (scripts/                 *)
(* refresh_sanctions_lists.py) and the screens that look a party up in it  *)
(* (core/screen_sanctions.py).                                             *)
(*                                                                         *)
(* The publisher lists and delists parties at any time.  A screen answers  *)
(* from rows of another day, so it asks first how old the oldest row is.   *)
(* Time is counted in days, as the code does; within a day steps come in   *)
(* any order.  One refresh runs at a time.                                 *)
(***************************************************************************)
EXTENDS Naturals, FiniteSets, Sequences, FiniteSetsExt

CONSTANTS
    Parties,        \* those who may be listed
    Screens,        \* calls of screen_sanctions, in one process
    StaleAfterDays, \* days after which the index is no screen (7)
    KeepPercent,    \* what a feed must hold of the index to be trusted (70)
    MaxDay,         \* bound on the days
    MaxRuns         \* bound on the runs of the refresh

\* What is assumed of the constants; the MC module asks TLC.
SanctionsIndexAssumption ==
    /\ IsFiniteSet(Parties)
    /\ StaleAfterDays \in Nat /\ KeepPercent \in 0..100
    /\ MaxDay \in Nat /\ StaleAfterDays < MaxDay /\ MaxRuns \in Nat

VARIABLES
    day,
    listed,   \* the parties on the publisher's list
    changed,  \* changed[p]: the last day on which the status of p was another
    index,    \* index[p]: the run that stamped the row of p; 0: no row
    began,    \* began[r]: the day that run r stamps on its rows
    refresh,  \* where the running refresh stands
    torn,     \* parties that a refresh stopped short of
    ageCache, \* what the process remembers of the age of the index
    screen    \* screen[s]: where screen s stands

publisher == <<day, listed, changed>>
loader == <<index, began, refresh, torn>>
vars == <<publisher, loader, ageCache, screen>>

----------------------------------------------------------------------------
NoAge == 0
Unread == [read |-> FALSE]
Runs == 1..Len(began)

Refresh == [phase : {"idle", "download"}]
           \cup [phase : {"upsert", "sweep"}, rows : Nat, left : SUBSET Parties]
Screen == [phase : {"idle", "unscreened"}]
          \cup [phase : {"age", "exact", "probe", "hit", "clean"},
                party : Parties, start : Nat, missed : BOOLEAN]

TypeOK ==
    /\ day \in 0..MaxDay /\ listed \subseteq Parties
    /\ changed \in [Parties -> 0..MaxDay]
    /\ index \in [Parties -> 0..Len(began)]
    /\ Len(began) \in 0..MaxRuns /\ \A r \in Runs : began[r] \in 1..day
    /\ refresh \in Refresh /\ torn \subseteq Parties
    /\ ageCache \in {Unread} \cup [read : {TRUE}, oldest : 0..MaxDay]
    /\ screen \in [Screens -> Screen]

\* The first day leaves room for StaleAfterDays days before it.
Init ==
    /\ day = StaleAfterDays + 1
    /\ listed \in SUBSET Parties /\ changed = [p \in Parties |-> 0]
    /\ index = [p \in Parties |-> 0] /\ began = <<>>
    /\ refresh = [phase |-> "idle"] /\ torn = {}
    /\ ageCache = Unread /\ screen = [s \in Screens |-> [phase |-> "idle"]]

\* Days on which p was listed, or was not, for a moment at least: the last.
LastListed(p) == IF p \in listed THEN day ELSE changed[p]
LastUnlisted(p) == IF p \in listed THEN changed[p] ELSE day

----------------------------------------------------------------------------
(* The publisher.                                                          *)

Publish(p) ==
    /\ listed' = IF p \in listed THEN listed \ {p} ELSE listed \cup {p}
    /\ changed' = [changed EXCEPT ![p] = day]
    /\ UNCHANGED <<day, loader, ageCache, screen>>

Midnight ==
    /\ day < MaxDay
    /\ day' = day + 1
    /\ UNCHANGED <<listed, changed, loader, ageCache, screen>>

----------------------------------------------------------------------------
(* The refresh job.                                                        *)

Rows == {p \in Parties : index[p] # 0}
This == Len(began)

\* The stamp is taken before anything is downloaded.
Begin ==
    /\ refresh.phase = "idle" /\ Len(began) < MaxRuns
    /\ began' = Append(began, day)
    /\ refresh' = [phase |-> "download"]
    /\ UNCHANGED <<publisher, index, torn, ageCache, screen>>

\* The feed arrives, or does not.  One without rows is not written.
Download ==
    /\ refresh.phase = "download"
    /\ \/ refresh' = [phase |-> "idle"]
       \/ /\ listed # {}
          /\ refresh' = [phase |-> "upsert", rows |-> Cardinality(listed), left |-> listed]
    /\ UNCHANGED <<publisher, index, began, torn, ageCache, screen>>

\* A batch of rows: written and stamped, new or not.
Upsert ==
    /\ refresh.phase = "upsert"
    /\ \E p \in refresh.left :
          /\ index' = [index EXCEPT ![p] = This]
          /\ torn' = torn \ {p}
          /\ refresh' = [refresh EXCEPT !.left = @ \ {p},
                            !.phase = IF refresh.left = {p} THEN "sweep" ELSE "upsert"]
    /\ UNCHANGED <<publisher, began, ageCache, screen>>

\* A batch that fails, whether or not the database wrote it, ends the run
\* without a sweep.
UpsertFails ==
    /\ refresh.phase = "upsert"
    /\ \E written \in {{}} \cup {{p} : p \in refresh.left} :
          /\ index' = [p \in Parties |-> IF p \in written THEN This ELSE index[p]]
          /\ torn' = (torn \ written) \cup {p \in refresh.left \ written : index[p] = 0}
    /\ refresh' = [phase |-> "idle"]
    /\ UNCHANGED <<publisher, began, ageCache, screen>>

\* Which rows a sweep deletes.
Delisted(p) == index[p] \in 1..(This - 1)

\* Is the feed large enough to be trusted with deleting?
Trusted(kept, prior) == 100 * kept >= KeepPercent * prior

\* The two counts and the delete.  The count of rows that this run stamped
\* reads as 0 when it fails; without the count of all rows there is nothing
\* to compare with.  Nobody else writes rows, so the three are one step.
Sweep ==
    /\ refresh.phase = "sweep"
    /\ \E fresh \in {0, Cardinality({p \in Parties : index[p] = This})},
          prior \in {0, Cardinality(Rows)}, served \in BOOLEAN :
          index' = IF fresh >= refresh.rows /\ Trusted(refresh.rows, prior) /\ served
                   THEN [p \in Parties |-> IF Delisted(p) THEN 0 ELSE index[p]]
                   ELSE index
    /\ refresh' = [phase |-> "idle"]
    /\ UNCHANGED <<publisher, began, torn, ageCache, screen>>

\* The job dies between two steps.
JobDies ==
    /\ refresh.phase # "idle"
    /\ torn' = IF refresh.phase = "upsert"
               THEN torn \cup {p \in refresh.left : index[p] = 0} ELSE torn
    /\ refresh' = [phase |-> "idle"]
    /\ UNCHANGED <<publisher, index, began, ageCache, screen>>

----------------------------------------------------------------------------
(* A screen.                                                               *)

Goto(s, phase) == screen' = [screen EXCEPT ![s].phase = phase]
Unscreened(s) == screen' = [screen EXCEPT ![s] = [phase |-> "unscreened"]]

\* The day on which the index was last refreshed: that of its oldest row.
Oldest == IF Rows = {} THEN NoAge ELSE began[Min({index[p] : p \in Rows})]

\* An index of unknown age, or too old, is not asked.
UsableAtAnyAge(oldest) == oldest # NoAge
Usable(oldest) == oldest # NoAge /\ day - oldest <= StaleAfterDays

Enter(s, p, start, oldest) ==
    screen' = [screen EXCEPT ![s] =
                 IF Usable(oldest)
                 THEN [phase |-> "exact", party |-> p, start |-> start, missed |-> FALSE]
                 ELSE [phase |-> "unscreened"]]

\* A new screen, up to its first await.
Start(s) ==
    /\ screen[s].phase \in {"idle", "hit", "clean", "unscreened"}
    /\ \E p \in Parties :
          IF ageCache.read THEN Enter(s, p, day, ageCache.oldest)
          ELSE screen' = [screen EXCEPT ![s] =
                            [phase |-> "age", party |-> p, start |-> day, missed |-> FALSE]]
    /\ UNCHANGED <<publisher, loader, ageCache>>

\* The age is read.  A failure is not remembered.
ListRefreshedAt(s) ==
    /\ screen[s].phase = "age"
    /\ \/ /\ ageCache' = [read |-> TRUE, oldest |-> Oldest]
          /\ Enter(s, screen[s].party, screen[s].start, Oldest)
       \/ UNCHANGED ageCache /\ Unscreened(s)
    /\ UNCHANGED <<publisher, loader>>

\* The remembered age lapses (after a quarter of an hour).
AgeLapses ==
    /\ ageCache.read
    /\ ageCache' = Unread
    /\ UNCHANGED <<publisher, loader, screen>>

\* What an unreachable index is taken for.
FailureReadsAsEmpty(s) == Goto(s, "probe")
Failure(s) == Unscreened(s)

\* Parties of a feed that were never written.  The rows of the others were
\* stamped, so the index looks fresh without them.
Missing == torn \cup (IF refresh.phase = "upsert" THEN refresh.left ELSE {})

\* The lookup of the name itself.
Exact(s) ==
    /\ screen[s].phase = "exact"
    /\ \/ LET p == screen[s].party IN
          screen' = [screen EXCEPT ![s].phase = IF p \in Rows THEN "hit" ELSE "probe",
                                   ![s].missed = p \in Missing]
       \/ Failure(s)
    /\ UNCHANGED <<publisher, loader, ageCache>>

\* Nothing was found: is there anything to be found?  The lookup of longer
\* names follows, and if it fails the screen is reported as a partial one.
Probe(s) ==
    /\ screen[s].phase = "probe"
    /\ \/ Rows # {} /\ Goto(s, "clean")
       \/ Unscreened(s)
    /\ UNCHANGED <<publisher, loader, ageCache>>

----------------------------------------------------------------------------
Next ==
    \/ \E p \in Parties : Publish(p)
    \/ Midnight
    \/ Begin \/ Download \/ Upsert \/ UpsertFails \/ Sweep \/ JobDies
    \/ \E s \in Screens : Start(s) \/ ListRefreshedAt(s) \/ Exact(s) \/ Probe(s)
    \/ AgeLapses

Spec == Init /\ [][Next]_vars

----------------------------------------------------------------------------
(* Properties.                                                             *)

\* A clean answer is no older than the limit: at some moment since that many
\* days before the screen began, the party was not on the publisher's list.
\* Old rows, failed requests and remembered ages do not turn into a
\* clearance.  Exempt are the parties that a refresh stopped short of, or is
\* about to write, which the age of the index does not show.
CleanIsCurrent ==
    \A s \in Screens :
        screen[s].phase = "clean" /\ ~screen[s].missed =>
            LastUnlisted(screen[s].party) + StaleAfterDays >= screen[s].start

\* Nor is a hit: at some moment since then the party was listed.  A delisted
\* party is not accused for longer than that, whatever becomes of the sweeps.
HitsAreCurrent ==
    \A s \in Screens :
        screen[s].phase = "hit" => LastListed(screen[s].party) + StaleAfterDays >= screen[s].start
=============================================================================

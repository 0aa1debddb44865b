------------------------------ MODULE Services ------------------------------
(***************************************************************************)
(* What an agent comes for and what it pays with: PolarOrders, FreeKeys    *)
(* and DataQuota, and the screening of parties that the quota meters       *)
(* (SanctionsIndex, OfacFiles, NameMatch, TradeRestriction).  They share   *)
(* no state, and a behaviour explores each of them on its own, the others  *)
(* standing still: which one is chosen at the start.                       *)
(***************************************************************************)
EXTENDS PolarOrders

CONSTANTS
    Emails, Clicks, MaxLinks, StoreMayFail, ReadsMayFail, MaxRestarts,
    Callers, Limit, Days, MaxCalls,
    Parties, Screens, StaleAfterDays, KeepPercent, MaxDay, MaxRuns,
    Lookups, TTL, MaxAge, MaxTime,
    Words, Generic, Short, Percent, Top, MaxWider, Lists, ShipmentLists, Named, MaxParties,
    Parts  \* the parts that are explored

VARIABLES
    active,
    pendingRow, machineRow, mailed, live, click, issued, refused, lost, restarts,
    today, counter, inQuota, late, allowed, refusals, disturbed,
    day, listed, changed, index, began, refresh, torn, ageCache, screen,
    clock, copies, marked, lookup,
    query, ofac, rows, got, answer,
    parties, destination, reach, answers, verdict

keyVars == <<pendingRow, machineRow, mailed, live, click, issued, refused, lost, restarts>>
quotaVars == <<today, counter, inQuota, late, allowed, refusals, disturbed>>
indexVars == <<day, listed, changed, index, began, refresh, torn, ageCache, screen>>
fileVars == <<clock, copies, marked, lookup>>
matchVars == <<query, got, answer>>
listVars == <<ofac, rows>>
tradeVars == <<parties, destination, reach, answers, verdict>>

Keys == INSTANCE FreeKeys
Quota == INSTANCE DataQuota
Local == INSTANCE SanctionsIndex
Treasury == INSTANCE OfacFiles
Match == INSTANCE NameMatch
Trade == INSTANCE TradeRestriction WITH Lists <- ShipmentLists

\* What the modules assume of their constants.
ASSUME ServicesAssumption ==
    /\ Parts \subseteq {"polar", "keys", "quota", "index", "files", "match", "trade"}
    /\ Keys!FreeKeysAssumption /\ Quota!DataQuotaAssumption
    /\ Local!SanctionsIndexAssumption /\ Treasury!OfacFilesAssumption
    /\ Match!NameMatchAssumption /\ Trade!TradeRestrictionAssumption

\* A part that is not explored has one initial state.
ServicesInit ==
    /\ active \in Parts
    /\ Init /\ Quota!Init /\ Treasury!Init
    /\ Keys!Init /\ (active # "keys" => machineRow = FALSE)
    /\ Local!Init /\ (active # "index" => listed = {})
    /\ IF active = "match" THEN Match!Init
       ELSE query = {} /\ got = {} /\ answer = Match!NoAnswer
    /\ IF active = "trade" THEN Trade!Init
       ELSE /\ parties = {} /\ destination = "standard" /\ reach = [p \in Named |-> {}]
            /\ answers = [p \in Named |-> Trade!NoAnswer] /\ verdict = Trade!NoVerdict
    /\ active \notin {"match", "trade"} => ofac = <<>> /\ rows = {}

screenVars == <<indexVars, fileVars, matchVars, listVars, tradeVars>>

ServicesNext ==
    /\ UNCHANGED active
    /\ \/ /\ active = "polar" /\ Next
          /\ UNCHANGED <<keyVars, quotaVars, screenVars>>
       \/ /\ active = "keys" /\ Keys!Next
          /\ UNCHANGED <<vars, quotaVars, screenVars>>
       \/ /\ active = "quota" /\ Quota!Next
          /\ UNCHANGED <<vars, keyVars, screenVars>>
       \/ /\ active = "index" /\ Local!Next
          /\ UNCHANGED <<vars, keyVars, quotaVars, fileVars, matchVars, listVars, tradeVars>>
       \/ /\ active = "files" /\ Treasury!Next
          /\ UNCHANGED <<vars, keyVars, quotaVars, indexVars, matchVars, listVars, tradeVars>>
       \/ /\ active = "match" /\ Match!Next
          /\ UNCHANGED <<vars, keyVars, quotaVars, indexVars, fileVars, tradeVars>>
       \/ /\ active = "trade" /\ Trade!Next
          /\ UNCHANGED <<vars, keyVars, quotaVars, indexVars, fileVars, matchVars>>

ServicesSpec ==
    ServicesInit /\ [][ServicesNext]_<<active, vars, keyVars, quotaVars, screenVars>>

----------------------------------------------------------------------------
\* The type invariant of the part that moves.
ServicesTypeOK ==
    CASE active = "polar" -> TypeOK
      [] active = "keys" -> Keys!TypeOK
      [] active = "quota" -> Quota!TypeOK
      [] active = "index" -> Local!TypeOK
      [] active = "files" -> Treasury!TypeOK
      [] active = "match" -> Match!TypeOK
      [] active = "trade" -> Trade!TypeOK

\* Who is told that the key was issued has a key (FreeKeys).
RefusalsAreTrue == Keys!RefusalsAreTrue

\* A call is refused only on a day that had its limit of calls (DataQuota).
RefusalsAreDue == Quota!RefusalsAreDue

\* Without overlaps and failures the limit holds (DataQuota).
QuotaHolds == Quota!QuotaHolds

\* A clean answer is about a list of no more than the limit ago
\* (SanctionsIndex).
CleanIsCurrent == Local!CleanIsCurrent

\* A hit is about a list of no more than the limit ago (SanctionsIndex).
HitsAreCurrent == Local!HitsAreCurrent

\* Screened OFAC copies are no older than the limit (OfacFiles).
CopiesAreCurrent == Treasury!CopiesAreCurrent

\* An answer that says "fetched fresh" used copies that were (OfacFiles).
AgeIsTold == Treasury!AgeIsTold

\* Clean means that no list that counts has the name (NameMatch).
CleanMeansUnlisted == Match!CleanMeansUnlisted

\* A hit has exactly the words of the query (NameMatch).
HitsAreExact == Match!HitsAreExact

\* A verdict is true of every party (TradeRestriction).
VerdictIsTrue == Trade!VerdictIsTrue
==============================================================================

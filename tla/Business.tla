------------------------------ MODULE Business ------------------------------
(***************************************************************************)
(* What the server does with businesses and recipients: Bookings, OptOuts  *)
(* and DemandQueue.  The three share no state, and a behaviour explores    *)
(* each on its own, the others standing still: which one is chosen at the  *)
(* start.                                                                  *)
(***************************************************************************)
EXTENDS Bookings

CONSTANTS
    Addresses, Bare, Mail, PersonOf, Stops, Sends, Page, ReadMayFail, MaxRestarts,
    MaxRequests, Runs, Replies, MinDigest, DigestMax

VARIABLES
    active,
    optedOut, table, partly, stop, handled, confirmed, send, restarts,
    ask, request, stale, run, inbox, digests, resolved, reply

stopVars == <<optedOut, table, partly, stop, handled, confirmed, send, restarts>>
queueVars == <<ask, request, stale, run, inbox, digests, resolved, reply>>

Consent == INSTANCE OptOuts
Demand == INSTANCE DemandQueue WITH row <- request

ASSUME BusinessAssumption ==
    Consent!OptOutsAssumption /\ Demand!DemandQueueAssumption

BusinessInit ==
    /\ active \in {"bookings", "stops", "queue"}
    /\ Init /\ Consent!Init /\ Demand!Init

BusinessNext ==
    /\ UNCHANGED active
    /\ \/ active = "bookings" /\ Next /\ UNCHANGED <<stopVars, queueVars>>
       \/ active = "stops" /\ Consent!Next /\ UNCHANGED <<vars, queueVars>>
       \/ active = "queue" /\ Demand!Next /\ UNCHANGED <<vars, stopVars>>

BusinessSpec == BusinessInit /\ [][BusinessNext]_<<active, vars, stopVars, queueVars>>

----------------------------------------------------------------------------
\* The type invariant of the part that moves.
BusinessTypeOK ==
    CASE active = "bookings" -> TypeOK
      [] active = "stops" -> Consent!TypeOK
      [] active = "queue" -> Demand!TypeOK

\* Stops hold through restarts if they were confirmed (OptOuts).
StopsHold == Consent!StopsHold

\* A stop holds for every address of a person (OptOuts).
StopsCoverThePerson == Consent!StopsCoverThePerson

\* Requests leave the queue only in a digest that was received (DemandQueue).
OnlyTheSeenLeave == Demand!OnlyTheSeenLeave

\* Verdicts reach the request that had their number (DemandQueue).
NumbersHold == Demand!NumbersHold
==============================================================================

------------------------- MODULE MCIdempotencyGate -------------------------
(***************************************************************************)
(* IdempotencyGate for TLC, in one of two worlds that is chosen at the     *)
(* start: the configuration's, whose table answers and whose process       *)
(* restarts, or an outage, in which the table may lose, delay or misanswer *)
(* every request and the tool may fail, in a process that stays up.        *)
(***************************************************************************)
EXTENDS IdempotencyGate

VARIABLE outage

Outage == INSTANCE IdempotencyGate WITH
    UniqueIndex <- FALSE, Lossy <- TRUE, MayFail <- TRUE, MemoryExpires <- FALSE,
    MaxCrashes <- 0

GateInit == outage \in BOOLEAN /\ Init

GateNext ==
    /\ UNCHANGED outage
    /\ \/ ~outage /\ Next
       \/ outage /\ Outage!Next

GateSpec ==
    /\ GateInit /\ [][GateNext]_<<outage, vars>>
    /\ \A c \in Calls :
            WF_<<outage, vars>>(/\ UNCHANGED outage
                                /\ IF outage THEN Outage!Serve(c) ELSE Serve(c))
============================================================================

-------------------------- MODULE TradeRestriction --------------------------
(***************************************************************************)
(* The verdict on a shipment (core/map_trade_restriction.py): each party   *)
(* is screened on its own, as NameMatch has it, and what the screens found *)
(* or could not ask is put together with the risk of the destination.      *)
(*                                                                         *)
(* The screens run concurrently, so the lists may be within reach of one   *)
(* and not of another.                                                     *)
(***************************************************************************)
EXTENDS Naturals, FiniteSets, Sequences

CONSTANTS
    Words, Generic, Short, Percent, Top, MaxWider, Lists,  \* of NameMatch
    Named,      \* names of parties; one without a Latin word is {}
    MaxParties  \* parties that one call may name (20)

VARIABLES
    ofac, rows,   \* the lists
    parties,      \* the parties that the call names
    destination,  \* the kind of the destination country
    reach,        \* reach[p]: the requests answered to the screen of p
    answers,      \* answers[p]: what the screen of p answered
    verdict

vars == <<ofac, rows, parties, destination, reach, answers, verdict>>

Screening(p) ==
    INSTANCE NameMatch WITH query <- p, got <- reach[p], answer <- answers[p]

\* What is assumed of the constants, of the screen of any name as well; the MC
\* module asks TLC.
TradeRestrictionAssumption ==
    /\ Named \subseteq SUBSET Words /\ IsFiniteSet(Named) /\ MaxParties \in Nat
    /\ Screening({})!NameMatchAssumption

----------------------------------------------------------------------------
NoAnswer == [status |-> "none"]
NoVerdict == [reason |-> "none"]
Refusal == [reason |-> "bad_input"]

\* A screen that raised: nothing was screened.
Failure == [status |-> "not_screened", matches |-> {}, candidates |-> {}, complete |-> FALSE]

Destination == {"comprehensive_embargo", "advisory", "standard"}

TypeOK ==
    /\ parties \subseteq Named /\ destination \in Destination
    /\ \A p \in Named : answers[p] # Failure => Screening(p)!TypeOK
    /\ \/ verdict \in {NoVerdict, Refusal}
       \/ /\ verdict.reason \in {"restricted", "advisory", "partial"}
          /\ verdict.restricted \in BOOLEAN /\ verdict.fullyScreened \in BOOLEAN

\* A longer list is refused as a whole, not cut.
TooMany == Cardinality(parties) > MaxParties

\* Parties that are not screened reach nothing.
Init ==
    /\ \E l \in Lists : ofac = l.ofac /\ rows = l.rows
    /\ parties \in SUBSET Named /\ destination \in Destination
    /\ reach \in [Named -> {g \in SUBSET {"sdn", "alt", "exact", "wide"} :
                              "alt" \in g => "sdn" \in g}]
    /\ \A p \in Named : p \notin parties \/ TooMany => reach[p] = {}
    /\ answers = [p \in Named |-> NoAnswer]
    /\ verdict = NoVerdict

----------------------------------------------------------------------------
Refuse ==
    /\ verdict = NoVerdict /\ TooMany
    /\ verdict' = Refusal
    /\ UNCHANGED <<ofac, rows, parties, destination, reach, answers>>

ScreenParty(p) ==
    /\ p \in parties /\ ~TooMany
    /\ answers[p] = NoAnswer
    /\ \E answer \in {Screening(p)!Result(page) : page \in Screening(p)!Pages} \cup {Failure} :
          answers' = [answers EXCEPT ![p] = answer]
    /\ UNCHANGED <<ofac, rows, parties, destination, reach, verdict>>

\* Parties that were matched, and parties not all of whose lists were asked.
Matched == {p \in parties : answers[p].matches # {}}
GapsOfFailures == {p \in parties : answers[p] = Failure}
Gaps == {p \in parties : ~answers[p].complete}

Restricted == destination = "comprehensive_embargo" \/ Matched # {}

Reason ==
    IF Restricted THEN "restricted"
    ELSE IF destination = "advisory" /\ Gaps = {} THEN "advisory" ELSE "partial"

Answer ==
    /\ verdict = NoVerdict /\ ~TooMany
    /\ \A p \in parties : answers[p] # NoAnswer
    /\ verdict' = [reason |-> Reason, restricted |-> Restricted, fullyScreened |-> Gaps = {}]
    /\ UNCHANGED <<ofac, rows, parties, destination, reach, answers>>

Next == Refuse \/ Answer \/ \E p \in Named : ScreenParty(p)
Spec == Init /\ [][Next]_vars

----------------------------------------------------------------------------
(* Properties.                                                             *)

\* The screens' own promise, for each party: it is listed under its very
\* words.  Exempt is a name of one word that a row repeats (NameMatch).
Listed(p) ==
    \/ Screening(p)!OnOfac(p)
    \/ \E r \in rows : r.words = p /\ ~(r.repeats /\ Cardinality(p) = 1)

\* A verdict is true of every party.  One that restricts no party and says
\* that all were fully screened means that each list was asked for each of
\* them, and whoever is listed is shown as a candidate at least; one that
\* says restricted has a destination or a listed party to show.
VerdictIsTrue ==
    verdict \notin {NoVerdict, Refusal} =>
        /\ verdict.fullyScreened => \A p \in parties :
              /\ {"sdn", "alt", "exact"} \subseteq reach[p] /\ rows # {}
              /\ Listed(p) => answers[p].matches \cup answers[p].candidates # {}
        /\ verdict.restricted /\ destination # "comprehensive_embargo" =>
              \E p \in parties : Listed(p)
=============================================================================

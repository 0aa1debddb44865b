----------------------------- MODULE MCBusiness -----------------------------
(***************************************************************************)
(* Business for TLC.                                                       *)
(***************************************************************************)
EXTENDS Business, TLC

\* A number with and without its plus, and an e-mail address.
OnePhone == [a \in {"plus", "bare", "mail"} |-> IF a = "mail" THEN "p2" ELSE "p1"]

\* Agents are interchangeable, and so are stops, sends and dispatches: in the
\* configuration the four sets are one.
Symmetry == Permutations(Agents)
=============================================================================

---------------------------- MODULE MCToolsCall ----------------------------
(* ToolsCall for TLC.  Clients are interchangeable.                        *)
EXTENDS ToolsCall, TLC

Symmetry == Permutations(Clients)
============================================================================

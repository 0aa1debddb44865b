---------------------------- MODULE MCMeteredTool ----------------------------
(* MeteredTool for TLC. *)
EXTENDS MeteredTool
============================================================================

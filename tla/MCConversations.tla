-------------------------- MODULE MCConversations --------------------------
(* Conversations for TLC: sends, messages and webhook requests are         *)
(* interchangeable, and so are reference tokens.                           *)
EXTENDS Conversations, TLC

TwoNumbers == <<"n1", "n2">>

Symmetry == Permutations(Threads) \cup Permutations(Replies)
              \cup Permutations(Handlers) \cup Permutations(Refs)
============================================================================

-------------------------- MODULE MCConversations --------------------------
(* Conversations on a few requests, for TLC. *)
EXTENDS Conversations, TLC

RequestSymmetry == Permutations(Requests)
============================================================================

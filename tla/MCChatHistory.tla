--------------------------- MODULE MCChatHistory ---------------------------
(* An instance of ChatHistory for TLC: two accounts that are alike. *)
EXTENDS ChatHistory

Symmetry == Permutations(Accounts)
=============================================================================

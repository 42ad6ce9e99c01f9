------------------------------ MODULE MCLogins ------------------------------
(* An instance of Logins for TLC. *)
EXTENDS Logins, TLC

Symmetry == Permutations(Browsers)
=============================================================================

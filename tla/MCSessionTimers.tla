-------------------------- MODULE MCSessionTimers --------------------------
(* Instances of SessionTimers for TLC. *)
EXTENDS SessionTimers
=============================================================================

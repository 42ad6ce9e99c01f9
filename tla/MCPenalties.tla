---------------------------- MODULE MCPenalties ----------------------------
(* Instances of Penalties for TLC. *)
EXTENDS Penalties
=============================================================================

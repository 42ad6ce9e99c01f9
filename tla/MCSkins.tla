------------------------------ MODULE MCSkins ------------------------------
(* An instance of Skins for TLC. *)
EXTENDS Skins
=============================================================================

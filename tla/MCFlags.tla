------------------------------ MODULE MCFlags ------------------------------
(* Instance of Flags for TLC: the heights are scaled down so that a drop from
   the upper one reaches the floor just as the flag has waited long enough, and
   one from the lower one long before. *)
EXTENDS Flags

Heights == {-4, 1}
FloorHeight == -4
=============================================================================

------------------------------ MODULE MCIpBans ------------------------------
(* Instances of IpBans for TLC. *)
EXTENDS IpBans
=============================================================================

---------------------------- MODULE MCMmoServer ----------------------------
(* Instances of MmoServer for TLC: two connections of one account, from one
   address, each with an id of its own. *)
EXTENDS MmoServerInv

TwoSessions == {"s1", "s2"}
TwoIds == {1, 2}
OneAccount == [s \in TwoSessions |-> "a"]
OneIp == [s \in TwoSessions |-> "ip"]
OwnDraw == [s \in TwoSessions |-> IF s = "s1" THEN {1} ELSE {2}]

\* Two rooms, both flags in the first: a player may carry one or both, and may
\* leave them behind by going to the second.
TwoRooms == {16, 1000}
FlagsInFirst == <<16, 16>>
=============================================================================

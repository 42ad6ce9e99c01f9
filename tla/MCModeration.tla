---------------------------- MODULE MCModeration ----------------------------
(* An instance of Moderation for TLC: two connections of one account, one room,
   and a trial moderator who may ban for a short time only. *)
EXTENDS Moderation

TwoSessions == {"s1", "s2"}
OneAccount == [s \in TwoSessions |-> "a"]
OneIp == [s \in TwoSessions |-> "ip"]
OwnDraw == [s \in TwoSessions |-> IF s = "s1" THEN {1} ELSE {2}]
NoFlags == << >>

Roles == [trial |-> 2, moderator |-> 5]
TrialModerator == [c \in {"c"} |-> "trial"]
=============================================================================

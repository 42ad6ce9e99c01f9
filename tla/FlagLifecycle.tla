--------------------------- MODULE FlagLifecycle ---------------------------
(***************************************************************************)
(* What the flags of a room promise to its players (abstract): a flag is   *)
(* at home, carried by one player, or loose; nobody takes it from the      *)
(* player that carries it but by making it loose; and no flag is loose for *)
(* ever.  Flags implements this.                                           *)
(***************************************************************************)
CONSTANTS
    Flag,         \* the flags
    Players,      \* the players that may carry one
    Home, Loose   \* where a flag is that nobody carries

VARIABLE where

Init == where = [f \in Flag |-> Home]

Take(f, p) ==
    /\ where[f] \notin Players
    /\ where' = [where EXCEPT ![f] = p]

Lose(f) ==
    /\ where[f] \in Players
    /\ where' = [where EXCEPT ![f] = Loose]

Return(f) ==
    /\ where[f] = Loose
    /\ where' = [where EXCEPT ![f] = Home]

Next == \E f \in Flag : (\E p \in Players : Take(f, p)) \/ Lose(f) \/ Return(f)

Spec == Init /\ [][Next]_where

FairSpec == Spec /\ \A f \in Flag : WF_where(Return(f))
=============================================================================

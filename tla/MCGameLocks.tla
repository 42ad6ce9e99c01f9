---------------------------- MODULE MCGameLocks ----------------------------
(* An instance of GameLocks for TLC: a pool of two workers, two rooms with one
   player each. *)
EXTENDS GameLocks

TwoPlayers == [p \in {"p1", "p2"} |-> IF p = "p1" THEN 1 ELSE 2]
SameWorkers == Permutations(Workers)
=============================================================================

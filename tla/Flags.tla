------------------------------- MODULE Flags -------------------------------
(***************************************************************************)
(* The flags of one room (crates/sm64js-ws/src/room.rs, struct Flag).      *)
(*                                                                         *)
(* Two threads work on them.  The server actor links and drops them when   *)
(* it handles a grab, an attack or a Disconnect; the game loop (game.rs)   *)
(* makes each flag fall and age, one write lock per flag and turn.         *)
(* A grab and an attack share the room with the loop, and meet it at the   *)
(* flag's lock.  A Disconnect has the room for itself (get_mut), so that   *)
(* the look-up and the drop in drop_flag_if_holding are one step here.     *)
(***************************************************************************)
EXTENDS Integers

CONSTANTS
    Flag,      \* the flags of the room, numbered in their order
    Players,   \* the players (socket ids) of the room
    None,      \* Option::None
    Spots,     \* the places a flag can be at, seen from above
    HomeSpot,  \* start_pos seen from above, the same name for each flag
    MaxIdle,   \* the turns a loose flag stays where it is (3000 in the code)
    HomeY,     \* the height of start_pos
    Floor,     \* the height at which a falling flag stops (-10000)
    PlayerY,   \* the heights an attacker may be at
    Lift,      \* how far above the given place a flag is dropped (600)
    MaxY,      \* bound: a flag lying higher is not dropped by a Disconnect
    Fall,      \* how far a flag falls in a turn (2)
    Home, Loose  \* names for where a flag is that nobody carries

ASSUME FlagsAssumption ==
    /\ Flag \subseteq Nat
    /\ None \notin Players
    /\ Home \notin Players /\ Loose \notin Players /\ Home # Loose
    /\ HomeSpot \in Spots
    /\ MaxIdle \in Nat
    /\ HomeY \in Int /\ Floor \in Int /\ PlayerY \subseteq Int /\ Lift \in Int
    /\ Fall \in Nat \ {0}

VARIABLES
    linked,   \* linked_to_player
    atStart,  \* at_start_position
    idle,     \* idle_timer
    falling,  \* fall_mode
    spot,     \* pos[0] and pos[2]
    height,   \* pos[1]
    lain      \* observer: the turns a flag has been loose since it was last
              \* dropped, 0 while it is carried or at home

vars == <<linked, atStart, idle, falling, spot, height, lain>>

TypeOK ==
    /\ linked \in [Flag -> Players \cup {None}]
    /\ atStart \in [Flag -> BOOLEAN]
    /\ idle \in [Flag -> 0 .. MaxIdle]
    /\ falling \in [Flag -> BOOLEAN]
    /\ spot \in [Flag -> Spots]
    /\ height \in [Flag -> Int]
    /\ lain \in [Flag -> Nat]

\* Flag::new
Init ==
    /\ linked = [f \in Flag |-> None]
    /\ atStart = [f \in Flag |-> TRUE]
    /\ idle = [f \in Flag |-> 0]
    /\ falling = [f \in Flag |-> FALSE]
    /\ spot = [f \in Flag |-> HomeSpot]
    /\ height = [f \in Flag |-> HomeY]
    /\ lain = [f \in Flag |-> 0]

-----------------------------------------------------------------------------
(* The server actor *)

\* Flag::drop, from height y.  It lands up to 500 away from the given place in
\* both directions, so any spot is possible; the timer and at_start_position
\* are left as they are.
Drop(f, y) ==
    /\ linked' = [linked EXCEPT ![f] = None]
    /\ falling' = [falling EXCEPT ![f] = TRUE]
    /\ \E p \in Spots : spot' = [spot EXCEPT ![f] = p]
    /\ height' = [height EXCEPT ![f] = y + Lift]
    /\ lain' = [lain EXCEPT ![f] = 0]
    /\ UNCHANGED <<atStart, idle>>

\* Mutant: a carried flag can be grabbed.
GrabMutSteals(f, p) ==
    /\ linked' = [linked EXCEPT ![f] = p]
    /\ falling' = [falling EXCEPT ![f] = FALSE]
    /\ atStart' = [atStart EXCEPT ![f] = FALSE]
    /\ idle' = [idle EXCEPT ![f] = 0]
    /\ lain' = [lain EXCEPT ![f] = 0]
    /\ UNCHANGED <<spot, height>>

\* Mutant: the timer of an earlier stay goes on.
GrabMutOldTimer(f, p) ==
    /\ linked[f] = None
    /\ linked' = [linked EXCEPT ![f] = p]
    /\ falling' = [falling EXCEPT ![f] = FALSE]
    /\ atStart' = [atStart EXCEPT ![f] = FALSE]
    /\ lain' = [lain EXCEPT ![f] = 0]
    /\ UNCHANGED <<idle, spot, height>>

\* process_grab_flag: a free flag close enough (seen from above) to the place
\* the player says it is at.
Grab(f, p) ==
    /\ linked[f] = None
    /\ linked' = [linked EXCEPT ![f] = p]
    /\ falling' = [falling EXCEPT ![f] = FALSE]
    /\ atStart' = [atStart EXCEPT ![f] = FALSE]
    /\ idle' = [idle EXCEPT ![f] = 0]
    /\ lain' = [lain EXCEPT ![f] = 0]
    /\ UNCHANGED <<spot, height>>

\* process_attack: the attack must name the player the flag is linked to.
Attack(f, target) ==
    /\ linked[f] = target
    /\ \E y \in PlayerY : Drop(f, y)

Held(p) == {f \in Flag : linked[f] = p}

\* drop_flag_if_holding: the first flag linked to the player is dropped, not where
\* the player is but above where it was grabbed.
DropFlagIfHolding(p) ==
    \E f \in Held(p) :
        /\ \A g \in Held(p) : f <= g
        /\ height[f] <= MaxY
        /\ Drop(f, height[f])

-----------------------------------------------------------------------------
(* The game loop: one flag's turn of process_flags *)

FallenHeight(f) ==
    IF falling[f] /\ height[f] > Floor THEN height[f] - Fall ELSE height[f]

\* Mutant: the timer is compared before it is incremented.
AgeMutLate(f) ==
    /\ LET ages == linked[f] = None /\ ~atStart[f] IN
          /\ ~(ages /\ idle[f] > MaxIdle)
          /\ idle' = IF ages THEN [idle EXCEPT ![f] = @ + 1] ELSE idle
          /\ lain' = IF ages THEN [lain EXCEPT ![f] = @ + 1] ELSE lain
    /\ height' = [height EXCEPT ![f] = FallenHeight(f)]
    /\ UNCHANGED <<linked, atStart, falling, spot>>

\* process_falling and process_idle of a flag that is still waiting, carried or
\* at home.
Age(f) ==
    /\ LET ages == linked[f] = None /\ ~atStart[f] IN
          /\ ~(ages /\ idle[f] + 1 > MaxIdle)
          /\ idle' = IF ages THEN [idle EXCEPT ![f] = @ + 1] ELSE idle
          /\ lain' = IF ages THEN [lain EXCEPT ![f] = @ + 1] ELSE lain
    /\ height' = [height EXCEPT ![f] = FallenHeight(f)]
    /\ UNCHANGED <<linked, atStart, falling, spot>>

\* Mutant: a flag comes home still falling.
GoHomeMutFalling(f) ==
    /\ linked[f] = None
    /\ ~atStart[f]
    /\ idle[f] + 1 > MaxIdle
    /\ spot' = [spot EXCEPT ![f] = HomeSpot]
    /\ height' = [height EXCEPT ![f] = HomeY]
    /\ atStart' = [atStart EXCEPT ![f] = TRUE]
    /\ idle' = [idle EXCEPT ![f] = 0]
    /\ lain' = [lain EXCEPT ![f] = 0]
    /\ UNCHANGED <<linked, falling>>

\* process_idle of a flag that has waited long enough: it goes home.
GoHome(f) ==
    /\ linked[f] = None
    /\ ~atStart[f]
    /\ idle[f] + 1 > MaxIdle
    /\ spot' = [spot EXCEPT ![f] = HomeSpot]
    /\ height' = [height EXCEPT ![f] = HomeY]
    /\ falling' = [falling EXCEPT ![f] = FALSE]
    /\ atStart' = [atStart EXCEPT ![f] = TRUE]
    /\ idle' = [idle EXCEPT ![f] = 0]
    /\ lain' = [lain EXCEPT ![f] = 0]
    /\ UNCHANGED linked

Turn(f) == Age(f) \/ GoHome(f)

-----------------------------------------------------------------------------

Server ==
    \/ \E f \in Flag, p \in Players : Grab(f, p) \/ Attack(f, p)
    \/ \E p \in Players : DropFlagIfHolding(p)

Next == Server \/ \E f \in Flag : Turn(f)

Spec == Init /\ [][Next]_vars

\* The loop thread gives every flag a turn, for ever (it sleeps 33 ms between
\* two rounds).
Fairness == \A f \in Flag : WF_vars(Turn(f))

FairSpec == Spec /\ Fairness

-----------------------------------------------------------------------------
(* Safety *)

\* A carried flag is fresh: it does not fall, and when it is dropped its timer
\* starts from 0, although drop() does not touch the timer.
CarriedFlagIsFresh ==
    \A f \in Flag : linked[f] # None => idle[f] = 0 /\ ~falling[f] /\ ~atStart[f]

\* at_start_position is right: a flag that has it is at its start position,
\* does not fall, does not age and is carried by nobody.
AtStartIsAtStart ==
    \A f \in Flag : atStart[f] =>
        /\ spot[f] = HomeSpot /\ height[f] = HomeY
        /\ linked[f] = None /\ ~falling[f] /\ idle[f] = 0

\* A flag goes home only from where it lies, and when it has lain there for MaxIdle
\* turns since it was last dropped: no grab or drop leaves it the turns of an
\* earlier stay, and no turn is counted twice or while it is carried.
HomeOnlyWhenAged ==
    [][\A f \in Flag :
          atStart'[f] /\ ~atStart[f] => lain[f] = MaxIdle /\ linked[f] = None]_vars

-----------------------------------------------------------------------------
(* What the flags implement *)

WhereIs ==
    [f \in Flag |->
        IF linked[f] # None THEN linked[f]
        ELSE IF atStart[f] THEN Home ELSE Loose]

Lifecycle == INSTANCE FlagLifecycle WITH where <- WhereIs

\* Every flag is at home, carried or loose, passes from player to player only
\* by being loose, and never stays loose for ever.
ImplementsLifecycle == Lifecycle!FairSpec
=============================================================================

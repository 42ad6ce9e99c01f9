--------------------------- MODULE GameLoopProofs ----------------------------
(***************************************************************************)
(* Theorems about what the game loop works on: of Flags, for any number of *)
(* flags and players and any times, and of GameLocks, for any number of    *)
(* workers, rooms and players.                                             *)
(***************************************************************************)
EXTENDS Flags, GameLocks, SequenceTheorems, FiniteSetTheorems, WellFoundedInduction, TLAPS

-----------------------------------------------------------------------------
(* Flags *)

\* The timer of a loose flag counts the turns since it was dropped.
TimerIsRight ==
    \A f \in Flag : linked[f] = None /\ ~atStart[f] => idle[f] = lain[f]

\* Only with CarriedFlagIsFresh are AtStartIsAtStart and TimerIsRight kept: a drop
\* leaves the timer and at_start_position as it finds them.
IInv ==
    /\ TypeOK
    /\ CarriedFlagIsFresh
    /\ AtStartIsAtStart
    /\ TimerIsRight

LEMMA InitInvariant == Init => IInv
  BY FlagsAssumption
     DEF Init, IInv, TypeOK, CarriedFlagIsFresh, AtStartIsAtStart, TimerIsRight

\* Only a carried flag is ever dropped.
LEMMA DropKeeps ==
    ASSUME IInv, NEW f \in Flag, NEW y \in Int, linked[f] # None,
           Drop(f, y)
    PROVE  IInv'
<1>1. ~atStart[f] /\ idle[f] = 0
  BY DEF IInv, CarriedFlagIsFresh
<1>2. TypeOK'
  BY <1>1, FlagsAssumption DEF IInv, TypeOK, Drop
<1>3. CarriedFlagIsFresh'
  BY DEF IInv, TypeOK, Drop, CarriedFlagIsFresh
<1>4. AtStartIsAtStart'
  BY <1>1 DEF IInv, TypeOK, Drop, AtStartIsAtStart
<1>5. TimerIsRight'
  BY <1>1 DEF IInv, TypeOK, Drop, TimerIsRight
<1> QED
  BY <1>2, <1>3, <1>4, <1>5 DEF IInv

LEMMA StepInvariant == IInv /\ [Next]_vars => IInv'
<1> SUFFICES ASSUME IInv, [Next]_vars PROVE IInv'
  OBVIOUS
<1> USE FlagsAssumption
<1>1. ASSUME NEW f \in Flag, NEW p \in Players, Grab(f, p) PROVE IInv'
  <2>1. TypeOK'
    BY <1>1 DEF IInv, TypeOK, Grab
  <2>2. CarriedFlagIsFresh'
    BY <1>1 DEF IInv, TypeOK, Grab, CarriedFlagIsFresh
  <2>3. AtStartIsAtStart'
    BY <1>1 DEF IInv, TypeOK, Grab, AtStartIsAtStart
  <2>4. TimerIsRight'
    BY <1>1 DEF IInv, TypeOK, Grab, TimerIsRight
  <2> QED BY <2>1, <2>2, <2>3, <2>4 DEF IInv
<1>2. ASSUME NEW f \in Flag, NEW p \in Players, Attack(f, p) PROVE IInv'
  <2>1. PICK y \in Int : Drop(f, y)
    BY <1>2 DEF Attack
  <2> QED BY <1>2, <2>1, DropKeeps DEF Attack
<1>3. ASSUME NEW p \in Players, DropFlagIfHolding(p) PROVE IInv'
  <2>1. PICK f \in Flag : linked[f] = p /\ Drop(f, height[f])
    BY <1>3 DEF DropFlagIfHolding, Held
  <2>2. linked[f] # None /\ height[f] \in Int
    BY <2>1 DEF IInv, TypeOK
  <2> QED BY <2>1, <2>2, DropKeeps
<1>4. ASSUME NEW f \in Flag, Age(f) PROVE IInv'
  <2>1. idle' \in [Flag -> 0 .. MaxIdle]
    BY <1>4 DEF IInv, TypeOK, Age
  <2>2. height' \in [Flag -> Int]
    <3>1. FallenHeight(f) \in Int
      BY DEF IInv, TypeOK, FallenHeight
    <3> QED BY <1>4, <3>1 DEF IInv, TypeOK, Age
  <2>3. TypeOK'
    <3>1. lain' \in [Flag -> Nat]
      BY <1>4 DEF IInv, TypeOK, Age
    <3> QED BY <1>4, <2>1, <2>2, <3>1 DEF IInv, TypeOK, Age
  <2>4. CarriedFlagIsFresh'
    BY <1>4 DEF IInv, TypeOK, Age, CarriedFlagIsFresh
  <2>5. AtStartIsAtStart'
    BY <1>4 DEF IInv, TypeOK, Age, AtStartIsAtStart, FallenHeight
  <2>6. TimerIsRight'
    BY <1>4 DEF IInv, TypeOK, Age, TimerIsRight
  <2> QED BY <2>3, <2>4, <2>5, <2>6 DEF IInv
<1>5. ASSUME NEW f \in Flag, GoHome(f) PROVE IInv'
  <2>1. TypeOK'
    BY <1>5 DEF IInv, TypeOK, GoHome
  <2>2. CarriedFlagIsFresh'
    BY <1>5 DEF IInv, TypeOK, GoHome, CarriedFlagIsFresh
  <2>3. AtStartIsAtStart'
    BY <1>5 DEF IInv, TypeOK, GoHome, AtStartIsAtStart
  <2>4. TimerIsRight'
    BY <1>5 DEF IInv, TypeOK, GoHome, TimerIsRight
  <2> QED BY <2>1, <2>2, <2>3, <2>4 DEF IInv
<1>6. CASE UNCHANGED vars
  BY <1>6 DEF vars, IInv, TypeOK, CarriedFlagIsFresh, AtStartIsAtStart, TimerIsRight
<1> QED
  BY <1>1, <1>2, <1>3, <1>4, <1>5, <1>6 DEF Next, Server, Turn

\* The inductive invariant of a room's flags (room.rs, struct Flag).
THEOREM Invariance == Spec => []IInv
  BY InitInvariant, StepInvariant, PTL DEF Spec

\* The fields of a flag keep their types; in particular idle_timer never
\* exceeds MaxIdle between two turns.
THEOREM TypeCorrect == Spec => []TypeOK
  BY Invariance, PTL DEF IInv

\* A carried flag has a timer of 0 and does not fall, so drop() need not reset.
THEOREM CarriedIsFresh == Spec => []CarriedFlagIsFresh
  BY Invariance, PTL DEF IInv

\* at_start_position never lies.
THEOREM StartIsStart == Spec => []AtStartIsAtStart
  BY Invariance, PTL DEF IInv

\* A flag (process_idle) goes home only when it has lain for MaxIdle turns since it
\* was last dropped.
THEOREM HomeWhenAged == Spec => HomeOnlyWhenAged
<1> DEFINE A == \A f \in Flag :
                   atStart'[f] /\ ~atStart[f] => lain[f] = MaxIdle /\ linked[f] = None
<1>1. IInv /\ [Next]_vars => [A]_vars
  <2> SUFFICES ASSUME IInv, Next, NEW f \in Flag, atStart'[f], ~atStart[f]
               PROVE  lain[f] = MaxIdle /\ linked[f] = None
    OBVIOUS
  <2>1. ~Server
    BY DEF Server, Grab, Attack, DropFlagIfHolding, Held, Drop, IInv, TypeOK
  <2>2. GoHome(f)
    BY <2>1 DEF Next, Turn, Age, GoHome, IInv, TypeOK
  <2>3. linked[f] = None /\ idle[f] = lain[f]
    BY <2>2 DEF GoHome, IInv, TimerIsRight
  <2> QED BY <2>2, <2>3, FlagsAssumption DEF GoHome, IInv, TypeOK
<1> QED
  BY <1>1, Invariance, PTL DEF Spec, HomeOnlyWhenAged

-----------------------------------------------------------------------------

\* The flags implement the abstract life of a flag (its safety part: that a
\* loose flag goes home is left to the model checker).
THEOREM Refinement == Spec => Lifecycle!Spec
<1>1. Init => Lifecycle!Init
  BY DEF Init, Lifecycle!Init, WhereIs
<1>2. IInv /\ [Next]_vars => [Lifecycle!Next]_WhereIs
  <2> SUFFICES ASSUME IInv, [Next]_vars
               PROVE  Lifecycle!Next \/ UNCHANGED WhereIs
    OBVIOUS
  <2> USE FlagsAssumption
  <2>1. ASSUME NEW f \in Flag, NEW p \in Players, Grab(f, p) PROVE Lifecycle!Take(f, p)
    <3>1. WhereIs[f] \notin Players
      BY <2>1 DEF Grab, WhereIs
    <3>2. WhereIs' = [WhereIs EXCEPT ![f] = p]
      BY <2>1 DEF Grab, WhereIs, IInv, TypeOK
    <3> QED BY <3>1, <3>2 DEF Lifecycle!Take
  <2>2. ASSUME NEW f \in Flag, NEW y, linked[f] # None, Drop(f, y)
        PROVE  Lifecycle!Lose(f)
    <3>1. linked[f] \in Players /\ ~atStart[f]
      BY <2>2 DEF IInv, TypeOK, CarriedFlagIsFresh
    <3>2. WhereIs[f] \in Players
      BY <3>1 DEF WhereIs
    <3>3. WhereIs' = [WhereIs EXCEPT ![f] = Loose]
      BY <2>2, <3>1 DEF Drop, WhereIs, IInv, TypeOK
    <3> QED BY <3>2, <3>3 DEF Lifecycle!Lose
  <2>3. ASSUME NEW f \in Flag, GoHome(f) PROVE Lifecycle!Return(f)
    <3>1. WhereIs[f] = Loose
      BY <2>3 DEF GoHome, WhereIs
    <3>2. WhereIs' = [WhereIs EXCEPT ![f] = Home]
      BY <2>3 DEF GoHome, WhereIs, IInv, TypeOK
    <3> QED BY <3>1, <3>2 DEF Lifecycle!Return
  <2>4. ASSUME UNCHANGED <<linked, atStart>> PROVE UNCHANGED WhereIs
    BY <2>4 DEF WhereIs
  <2>5. ASSUME NEW f \in Flag, NEW p \in Players, Attack(f, p)
        PROVE  Lifecycle!Lose(f)
    BY <2>2, <2>5 DEF Attack
  <2>6. ASSUME NEW p \in Players, DropFlagIfHolding(p)
        PROVE  \E f \in Flag : Lifecycle!Lose(f)
    <3>1. PICK f \in Flag : linked[f] = p /\ Drop(f, height[f])
      BY <2>6 DEF DropFlagIfHolding, Held
    <3> QED BY <2>2, <3>1
  <2>7. CASE \E f \in Flag : Age(f)
    BY <2>4, <2>7 DEF Age
  <2>8. CASE UNCHANGED vars
    BY <2>4, <2>8 DEF vars
  <2> QED BY <2>1, <2>3, <2>5, <2>6, <2>7, <2>8
             DEF Next, Server, Turn, Lifecycle!Next
<1> QED
  BY <1>1, <1>2, Invariance, PTL DEF Spec, Lifecycle!Spec

-----------------------------------------------------------------------------
(* GameLocks: what a thread holds *)

Writes == 3
Holding == [Locks -> 0 .. Writes]
Nothing == [l \in Locks |-> 0]

\* What a thread holds: of each lock, how often it reads it, or that it writes it.
Holds(t) == [l \in Locks |-> IF Has(t, l) THEN Writes ELSE reads[l][t]]

\* What it holds after a step.
After(h, x) ==
    CASE x[1] = "read" -> [h EXCEPT ![x[2]] = @ + 1]
      [] x[1] = "write" -> [h EXCEPT ![x[2]] = Writes]
      [] x[1] = "free" -> [h EXCEPT ![x[2]] = IF @ = Writes THEN 0 ELSE @ - 1]
      [] OTHER -> h

RoomLocks == {Room(r) : r \in Rooms}
PlayerLocks == {Player(p) : p \in Playing}
OnlyRooms(h) == \A l \in Locks : h[l] > 0 => l \in RoomLocks
Shares(h) == \A l \in Locks : h[l] # Writes
NoPlayer(h) == \A l \in PlayerLocks : h[l] = 0

\* What a worker may hold when it comes to a step: nothing but rooms, which it
\* reads, except under the short guards of a player.
WorkerMay(h, x) ==
    /\ x[1] = "free" => h[x[2]] > 0
    /\ x = Read(Clients) => h[Clients] = 0 /\ Shares(h)
    /\ x[1] # "free" /\ x # Read(Clients) => OnlyRooms(h) /\ Shares(h)
    /\ \A r \in Rooms : x = Read(Room(r)) \/ x = <<"end", r>> => h[Room(r)] = 0
    /\ x[1] = "write" => x[2] \in PlayerLocks

\* What the server may hold.
ServerMay(h, x) ==
    /\ x[1] = "free" => h[x[2]] > 0
    /\ h[Clients] = Writes => x[1] = "free"
    /\ x = Write(Clients) => h[Clients] = 0
    /\ x = Read(Clients) => h[Clients] <= 1
    /\ \A r \in Rooms :
        /\ x = Read(Room(r)) => h[Room(r)] = 0 /\ \A l \in RoomLocks : h[l] # Writes
        /\ x = Write(Room(r)) =>
              /\ NoPlayer(h)
              /\ \A q \in Rooms : h[Room(q)] > 0 => h[Room(q)] = Writes /\ q = r - 1
    /\ \A p \in Playing :
        /\ x = Read(Player(p)) =>
              \A l \in PlayerLocks : h[l] > 0 =>
                 l = Player(p) /\ h[l] = 1 /\ h[Room(RoomOf[p])] = Writes
        /\ x = Write(Player(p)) => NoPlayer(h)
    /\ x[1] \in {"fork", "await"} => NoPlayer(h) /\ Shares(h)
    /\ x[1] \notin {"done", "end"}

May(t, h, x) == IF t = Actor THEN ServerMay(h, x) ELSE WorkerMay(h, x)

\* The script s takes a thread from holding h to holding k, and keeps to what it
\* may do.
Runs(t, h, s, k) ==
    \E c \in [1 .. Len(s) + 1 -> Holding] :
        /\ c[1] = h /\ c[Len(s) + 1] = k
        /\ \A i \in 1 .. Len(s) : May(t, c[i], s[i]) /\ c[i + 1] = After(c[i], s[i])

LEMMA RunsNone ==
  ASSUME NEW t, NEW h \in Holding
  PROVE  Runs(t, h, << >>, h)
<1> DEFINE c == [i \in 1 .. 1 |-> h]
<1>1. c \in [1 .. Len(<< >>) + 1 -> Holding] /\ c[1] = h /\ c[Len(<< >>) + 1] = h
  OBVIOUS
<1>2. \A i \in 1 .. Len(<< >>) : FALSE
  OBVIOUS
<1> QED
  BY <1>1, <1>2 DEF Runs

LEMMA RunsOne ==
  ASSUME NEW t, NEW h \in Holding, NEW x, May(t, h, x), After(h, x) \in Holding
  PROVE  Runs(t, h, <<x>>, After(h, x))
<1> DEFINE k == After(h, x)
           c == [i \in 1 .. 2 |-> IF i = 1 THEN h ELSE k]
<1> HIDE DEF k
<1>1. k \in Holding /\ k = After(h, x)
  BY DEF k
<1>2. /\ Len(<<x>>) = 1
      /\ c \in [1 .. Len(<<x>>) + 1 -> Holding] /\ c[1] = h /\ c[Len(<<x>>) + 1] = k
      /\ c[2] = k /\ <<x>>[1] = x
  BY <1>1
<1> HIDE DEF c
<1>3. \A i \in 1 .. Len(<<x>>) : i = 1
  BY <1>2
<1>4. \A i \in 1 .. Len(<<x>>) : May(t, c[i], <<x>>[i]) /\ c[i + 1] = After(c[i], <<x>>[i])
  BY <1>1, <1>2, <1>3
<1> QED
  BY <1>1, <1>2, <1>4 DEF Runs

LEMMA RunsThen ==
  ASSUME NEW t, NEW S, NEW a \in Seq(S), NEW b \in Seq(S), NEW h, NEW k, NEW m,
         Runs(t, h, a, k), Runs(t, k, b, m)
  PROVE  Runs(t, h, a \o b, m)
<1>1. PICK c \in [1 .. Len(a) + 1 -> Holding] :
          /\ c[1] = h /\ c[Len(a) + 1] = k
          /\ \A i \in 1 .. Len(a) : May(t, c[i], a[i]) /\ c[i + 1] = After(c[i], a[i])
  BY DEF Runs
<1>2. PICK d \in [1 .. Len(b) + 1 -> Holding] :
          /\ d[1] = k /\ d[Len(b) + 1] = m
          /\ \A i \in 1 .. Len(b) : May(t, d[i], b[i]) /\ d[i + 1] = After(d[i], b[i])
  BY DEF Runs
<1> DEFINE n == Len(a \o b)
           f == [i \in 1 .. n + 1 |-> IF i <= Len(a) THEN c[i] ELSE d[i - Len(a)]]
<1>3. /\ Len(a) \in Nat /\ Len(b) \in Nat /\ n = Len(a) + Len(b)
      /\ \A i \in 1 .. n : (a \o b)[i] = IF i <= Len(a) THEN a[i] ELSE b[i - Len(a)]
  OBVIOUS
<1> HIDE DEF n
<1>4. f \in [1 .. n + 1 -> Holding]
  BY <1>3
<1>5. \A i \in 1 .. n + 1 : f[i] = IF i <= Len(a) THEN c[i] ELSE d[i - Len(a)]
  OBVIOUS
<1> HIDE DEF f
<1>6. f[Len(a) + 1] = c[Len(a) + 1]
  BY <1>1, <1>2, <1>3, <1>5
<1>7. f[1] = h /\ f[n + 1] = m
  <2>1. CASE Len(a) = 0
    BY <1>1, <1>2, <1>3, <1>5, <2>1
  <2>2. CASE Len(a) > 0
    <3>1. 1 <= Len(a) /\ 1 \in 1 .. n + 1
      BY <1>3, <2>2
    <3>2. f[1] = h
      BY <1>1, <1>5, <3>1
    <3>3. n + 1 \in 1 .. n + 1 /\ ~(n + 1 <= Len(a)) /\ (n + 1) - Len(a) = Len(b) + 1
      BY <1>3
    <3>4. f[n + 1] = d[Len(b) + 1]
      BY <1>5, <3>3
    <3>5. QED BY <1>2, <3>2, <3>4
  <2>3. QED BY <1>3, <2>1, <2>2
<1>8. ASSUME NEW i \in 1 .. n
      PROVE  May(t, f[i], (a \o b)[i]) /\ f[i + 1] = After(f[i], (a \o b)[i])
  <2>1. CASE i <= Len(a)
    <3>1. i \in 1 .. Len(a) /\ i + 1 \in 1 .. n + 1
      BY <1>3, <2>1
    <3>2. f[i] = c[i] /\ (a \o b)[i] = a[i]
      BY <1>3, <1>5, <2>1
    <3>3. f[i + 1] = c[i + 1]
      BY <1>3, <1>5, <1>6, <3>1
    <3>4. QED BY <1>1, <3>1, <3>2, <3>3
  <2>2. CASE i > Len(a)
    <3> DEFINE j == i - Len(a)
    <3>1. j \in 1 .. Len(b) /\ i + 1 \in 1 .. n + 1 /\ (i + 1) - Len(a) = j + 1 /\ ~(i <= Len(a))
          /\ ~(i + 1 <= Len(a))
      BY <1>3, <2>2
    <3>2. f[i] = d[j] /\ f[i + 1] = d[j + 1] /\ (a \o b)[i] = b[j]
      BY <1>3, <1>5, <3>1
    <3> HIDE DEF j
    <3>3. QED BY <1>2, <3>1, <3>2
  <2>3. QED BY <1>3, <2>1, <2>2
<1> QED
  BY <1>4, <1>7, <1>8 DEF Runs, n

LEMMA RunsOn ==
  ASSUME NEW t, NEW S, NEW s \in Seq(S), s # << >>, NEW h, NEW k, Runs(t, h, s, k)
  PROVE  /\ May(t, h, s[1]) /\ After(h, s[1]) \in Holding
         /\ Runs(t, After(h, s[1]), Tail(s), k)
<1>1. PICK c \in [1 .. Len(s) + 1 -> Holding] :
          /\ c[1] = h /\ c[Len(s) + 1] = k
          /\ \A i \in 1 .. Len(s) : May(t, c[i], s[i]) /\ c[i + 1] = After(c[i], s[i])
  BY DEF Runs
<1>2. /\ Len(s) \in Nat /\ Len(s) > 0 /\ Len(Tail(s)) = Len(s) - 1
      /\ \A i \in 1 .. Len(s) - 1 : Tail(s)[i] = s[i + 1]
  OBVIOUS
<1>3. May(t, h, s[1]) /\ c[2] = After(h, s[1]) /\ c[2] \in Holding
  BY <1>1, <1>2
<1> DEFINE d == [i \in 1 .. Len(s) |-> c[i + 1]]
<1>4. d \in [1 .. Len(Tail(s)) + 1 -> Holding] /\ d[1] = c[2] /\ d[Len(Tail(s)) + 1] = k
  BY <1>1, <1>2
<1>5. \A i \in 1 .. Len(Tail(s)) : May(t, d[i], Tail(s)[i]) /\ d[i + 1] = After(d[i], Tail(s)[i])
  <2> SUFFICES ASSUME NEW i \in 1 .. Len(s) - 1
               PROVE  May(t, d[i], Tail(s)[i]) /\ d[i + 1] = After(d[i], Tail(s)[i])
    BY <1>2
  <2>1. d[i] = c[i + 1] /\ d[i + 1] = c[i + 2] /\ i + 1 \in 1 .. Len(s) /\ (i + 1) + 1 = i + 2
    BY <1>2
  <2> QED BY <1>1, <1>2, <2>1
<1> HIDE DEF d
<1> QED
  BY <1>3, <1>4, <1>5 DEF Runs

LEMMA RunsEnd ==
  ASSUME NEW t, NEW h, NEW k, Runs(t, h, << >>, k)
  PROVE  h = k
  BY DEF Runs

-----------------------------------------------------------------------------
(* Scripts one after another *)

LEMMA LeastNatural ==
    ASSUME NEW S \in SUBSET Nat, S # {}
    PROVE  \E n \in S : \A m \in S : n <= m
<1> DEFINE Less == OpToRel(<, Nat)
<1>1. IsWellFoundedOn(Less, Nat)
  BY NatLessThanWellFounded
<1>2. \A m, n \in Nat : m < n => <<m, n>> \in Less
  BY DEF OpToRel
<1> HIDE DEF Less
<1>3. PICK n \in S : \A m \in S : <<m, n>> \notin Less
  BY <1>1, WFMin
<1>4. \A m \in S : ~(m < n)
  BY <1>2, <1>3
<1> QED
  BY <1>4

\* f[i] is what the first i of the sequences ss make, for i up to k.
Joins(ss, f, k) ==
    /\ f = [i \in 1 .. k |-> f[i]]
    /\ \A i \in 1 .. k : f[i] = IF i = 1 THEN ss[i] ELSE f[i - 1] \o ss[i]

LEMMA JoinsExist ==
  ASSUME NEW S, NEW ss \in Seq(Seq(S))
  PROVE  \E f : Joins(ss, f, Len(ss))
<1> DEFINE N == Len(ss)
           Missing == {m \in Nat : m <= N /\ ~\E f : Joins(ss, f, m)}
<1>0. N \in Nat
  OBVIOUS
<1> HIDE DEF N
<1> SUFFICES ASSUME Missing # {} PROVE FALSE
  BY <1>0 DEF N
<1>1. PICK m \in Missing : \A k \in Missing : m <= k
  <2>1. Missing \in SUBSET Nat
    OBVIOUS
  <2> HIDE DEF Missing
  <2>2. QED BY <2>1, LeastNatural
<1>2. m # 0
  <2> SUFFICES \E f : Joins(ss, f, 0)
    BY <1>0, <1>1
  <2> DEFINE f == [i \in 1 .. 0 |-> i]
  <2>1. f = [i \in 1 .. 0 |-> f[i]]
    OBVIOUS
  <2> HIDE DEF f
  <2>2. Joins(ss, f, 0)
    BY <2>1 DEF Joins
  <2>3. QED BY <2>2
<1>3. m \in Nat /\ m - 1 \in Nat /\ m - 1 <= N /\ m <= N
  BY <1>0, <1>1, <1>2
<1>4. m - 1 \notin Missing
  <2> HIDE DEF Missing
  <2>2. QED BY <1>1, <1>3
<1>5. PICK f : Joins(ss, f, m - 1)
  BY <1>3, <1>4
<1> DEFINE g == [i \in 1 .. m |-> IF i # m THEN f[i]
                                  ELSE IF i = 1 THEN ss[i] ELSE f[i - 1] \o ss[i]]
<1>6. g = [i \in 1 .. m |-> g[i]] /\ \A i \in 1 .. m - 1 : g[i] = f[i]
  <2>1. \A i \in 1 .. m - 1 : i \in 1 .. m /\ i # m
    BY <1>3
  <2>2. QED BY <2>1
<1>7. g[m] = IF m = 1 THEN ss[m] ELSE f[m - 1] \o ss[m]
  BY <1>2, <1>3
<1> HIDE DEF g
<1>8. ASSUME NEW i \in 1 .. m
      PROVE  g[i] = IF i = 1 THEN ss[i] ELSE g[i - 1] \o ss[i]
  <2>1. CASE i = m
    <3>1. m = 1 \/ m - 1 \in 1 .. m - 1
      BY <1>2, <1>3
    <3>2. QED BY <1>6, <1>7, <2>1, <3>1
  <2>2. CASE i # m
    <3>1. i \in 1 .. m - 1 /\ (i = 1 \/ i - 1 \in 1 .. m - 1)
      BY <1>3, <2>2
    <3>2. f[i] = IF i = 1 THEN ss[i] ELSE f[i - 1] \o ss[i]
      BY <1>5, <3>1 DEF Joins
    <3>3. QED BY <1>6, <3>1, <3>2
  <2>3. QED BY <2>1, <2>2
<1>9. Joins(ss, g, m)
  BY <1>6, <1>8 DEF Joins
<1> QED
  BY <1>1, <1>9

LEMMA FlattenJoins ==
  ASSUME NEW S, NEW ss \in Seq(Seq(S)), Len(ss) # 0
  PROVE  \E f : Joins(ss, f, Len(ss)) /\ FlattenSeq(ss) = f[Len(ss)]
<1> DEFINE Loop(f) == f = [i \in 1 .. Len(ss) |->
                              IF i = 1 THEN ss[i] ELSE f[i - 1] \o ss[i]]
<1>1. FlattenSeq(ss) = (CHOOSE f : Loop(f))[Len(ss)]
  BY DEF FlattenSeq
<1>2. \A f : Loop(f) <=> Joins(ss, f, Len(ss))
  BY DEF Joins
<1>3. \E f : Loop(f)
  BY <1>2, JoinsExist
<1> HIDE DEF Loop
<1>4. Loop(CHOOSE f : Loop(f))
  BY <1>3
<1>5. QED BY <1>1, <1>2, <1>4

LEMMA FlattenRuns ==
  ASSUME NEW t, NEW S, NEW ss \in Seq(Seq(S)), NEW hs \in [1 .. Len(ss) + 1 -> Holding],
         \A i \in 1 .. Len(ss) : Runs(t, hs[i], ss[i], hs[i + 1])
  PROVE  FlattenSeq(ss) \in Seq(S) /\ Runs(t, hs[1], FlattenSeq(ss), hs[Len(ss) + 1])
<1> DEFINE N == Len(ss)
<1>0. N \in Nat /\ \A i \in 1 .. N : ss[i] \in Seq(S)
  OBVIOUS
<1>1. CASE N = 0
  <2>1. ss = << >> /\ FlattenSeq(ss) = ss
    BY <1>1 DEF FlattenSeq
  <2>2. hs[1] \in Holding
    BY <1>1
  <2>3. Runs(t, hs[1], << >>, hs[1]) /\ << >> \in Seq(S)
    BY <2>2, RunsNone
  <2>4. hs[Len(ss) + 1] = hs[1]
    BY <1>1
  <2>5. FlattenSeq(ss) = << >>
    BY <2>1
  <2>6. QED BY <2>3, <2>4, <2>5
<1>2. CASE N # 0
  <2>1. PICK f : Joins(ss, f, N) /\ FlattenSeq(ss) = f[N]
    BY <1>2, FlattenJoins
  <2> DEFINE Good(m) == f[m] \in Seq(S) /\ Runs(t, hs[1], f[m], hs[m + 1])
             Bad == {m \in Nat : m \in 1 .. N /\ ~Good(m)}
  <2> SUFFICES Good(N)
    BY <2>1
  <2> SUFFICES ASSUME Bad # {} PROVE FALSE
    <3>1. N \in Nat /\ N \in 1 .. N
      BY <1>0, <1>2
    <3> HIDE DEF Good, N
    <3>2. QED BY <3>1
  <2>2. PICK m \in Bad : \A k \in Bad : m <= k
    <3>1. Bad \in SUBSET Nat
      OBVIOUS
    <3> HIDE DEF Bad
    <3>2. QED BY <3>1, LeastNatural
  <2>3. m \in 1 .. N
    OBVIOUS
  <2>4. f[m] = IF m = 1 THEN ss[m] ELSE f[m - 1] \o ss[m]
    BY <2>1, <2>3 DEF Joins
  <2>5. Runs(t, hs[m], ss[m], hs[m + 1]) /\ ss[m] \in Seq(S)
    BY <1>0, <2>3
  <2>6. CASE m = 1
    BY <2>2, <2>4, <2>5, <2>6
  <2>7. CASE m # 1
    <3>1. m - 1 \in 1 .. N /\ m - 1 \in Nat /\ (m - 1) + 1 = m /\ ~(m <= m - 1)
      BY <1>0, <2>3, <2>7
    <3>2. Good(m - 1)
      BY <2>2, <3>1
    <3>3. f[m - 1] \in Seq(S) /\ Runs(t, hs[1], f[m - 1], hs[m])
      BY <3>1, <3>2
    <3>4. f[m] \in Seq(S)
      BY <2>4, <2>5, <2>7, <3>3
    <3>5. Runs(t, hs[1], f[m], hs[m + 1])
      BY <2>4, <2>5, <2>7, <3>3, RunsThen
    <3>6. QED BY <2>2, <3>4, <3>5
  <2>8. QED BY <2>6, <2>7
<1> QED
  BY <1>1, <1>2

-----------------------------------------------------------------------------
(* The guards of a script *)

LockSteps == {Read(l) : l \in Locks} \cup {Write(l) : l \in Locks} \cup {Free(l) : l \in Locks}

\* The pieces that a group may have.
PiecesFor(g) ==
    IF g = OfServer THEN {<<k, p>> : k \in {"look", "cosmetics"}, p \in Playing}
    ELSE IF g[1] = "player" THEN {<<"look", p>> : p \in Playing}
    ELSE {<<k, p>> : k \in {"look", "skin", "message"}, p \in PlayersIn(g[2])}
            \cup {<<"flags", g[2]>>}

\* The last step of a job.
Ends ==
    {<<"end", r>> : r \in Rooms}
        \cup UNION {{<<"done", g, x>> : x \in PiecesFor(g)} : g \in Groups}

Forks(g) == {<<"fork", g, ps>> : ps \in SUBSET PiecesFor(g)}
CallSteps(g) == LockSteps \cup Forks(g) \cup {Await(g)}
Steps == Ends \cup UNION {CallSteps(g) : g \in Groups}

LEMMA TwoSteps ==
  ASSUME NEW x, NEW y
  PROVE  <<x, y>> = <<x>> \o <<y>>
<1> DEFINE S == {x, y}
           a == <<x>> \o <<y>>
           b == <<x, y>>
<1>1. a \in Seq(S) /\ b \in Seq(S)
  OBVIOUS
<1>2. Len(a) = 2 /\ Len(b) = 2 /\ a[1] = x /\ a[2] = y /\ b[1] = x /\ b[2] = y
  OBVIOUS
<1> HIDE DEF a, b, S
<1>3. \A i \in 1 .. Len(a) : a[i] = b[i]
  BY <1>2
<1>4. a = b
  BY <1>1, <1>2, <1>3, SeqEqual
<1> QED
  BY <1>4 DEF a, b

LEMMA LockFacts ==
  /\ Clients \in Locks /\ \A r \in Rooms : Room(r) \in Locks /\ \A p \in Playing : Player(p) \in Locks
  /\ \A r \in Rooms : Room(r) \in Groups /\ Room(r) # Clients /\ Room(r) # OfServer
                      /\ \A q \in Rooms : Room(r) = Room(q) => r = q
  /\ \A p \in Playing : Player(p) \in Groups /\ Player(p) # Clients /\ Player(p) # OfServer
                      /\ \A q \in Playing : Player(p) = Player(q) => p = q
  /\ \A r \in Rooms, p \in Playing : Room(r) # Player(p)
  /\ \A p \in Playing : RoomOf[p] \in Rooms
  /\ Clients # OfServer /\ OfServer \in Groups
  /\ \A l \in Locks : l = Clients \/ l \in RoomLocks \/ l \in PlayerLocks
  /\ RoomLocks \subseteq Locks /\ PlayerLocks \subseteq Locks
  /\ Clients \notin RoomLocks /\ Clients \notin PlayerLocks /\ RoomLocks \cap PlayerLocks = {}
<1> USE LocksAssumption DEF Clients, Room, Player, Locks, Groups, OfServer, RoomLocks, PlayerLocks
<1>1. /\ Clients \in Locks
      /\ \A r \in Rooms : Room(r) \in Locks
      /\ \A p \in Playing : Player(p) \in Locks
  OBVIOUS
<1>2. \A r \in Rooms : Room(r) # Clients /\ Room(r) # OfServer
                       /\ \A q \in Rooms : Room(r) = Room(q) => r = q
  OBVIOUS
<1>3. \A p \in Playing : Player(p) # Clients /\ Player(p) # OfServer
                       /\ \A q \in Playing : Player(p) = Player(q) => p = q
  OBVIOUS
<1>4. \A r \in Rooms, p \in Playing : Room(r) # Player(p)
  OBVIOUS
<1>5. \A p \in Playing : RoomOf[p] \in Rooms
  OBVIOUS
<1>6. Clients # OfServer /\ OfServer \in Groups
  OBVIOUS
<1>7. \A l \in Locks : l = Clients \/ l \in RoomLocks \/ l \in PlayerLocks
  OBVIOUS
<1>8. /\ \A r \in Rooms : Room(r) \in Groups
      /\ \A p \in Playing : Player(p) \in Groups
  BY <1>1, <1>2, <1>3
<1>9. /\ RoomLocks \subseteq Locks /\ PlayerLocks \subseteq Locks
      /\ Clients \notin RoomLocks /\ Clients \notin PlayerLocks /\ RoomLocks \cap PlayerLocks = {}
  OBVIOUS
<1>10. \A r \in Rooms : Room(r) \in Locks /\ \A p \in Playing : Player(p) \in Locks
  BY <1>1
<1> QED
  BY <1>1, <1>2, <1>3, <1>4, <1>5, <1>6, <1>7, <1>8, <1>9, <1>10

LEMMA NoneHeld == Nothing \in Holding /\ \A l \in Locks : Nothing[l] = 0
  BY DEF Nothing, Holding, Writes

\* A guard may be dropped by whoever has it.
LEMMA MayFree ==
  ASSUME NEW t, NEW h \in Holding, NEW l \in Locks, h[l] > 0
  PROVE  May(t, h, Free(l))
<1>1. /\ Free(l)[1] = "free" /\ Free(l)[2] = l
      /\ \A m : Free(l) # Read(m) /\ Free(l) # Write(m) /\ Free(l) # <<"end", m>>
  BY DEF Free, Read, Write
<1>2. WorkerMay(h, Free(l))
  BY <1>1 DEF WorkerMay
<1>3. ServerMay(h, Free(l))
  BY <1>1 DEF ServerMay
<1> QED
  BY <1>2, <1>3 DEF May

LEMMA AfterStep ==
  ASSUME NEW h \in Holding, NEW l \in Locks
  PROVE  /\ After(h, Read(l)) = [h EXCEPT ![l] = @ + 1]
         /\ After(h, Write(l)) = [h EXCEPT ![l] = Writes]
         /\ After(h, Free(l)) = [h EXCEPT ![l] = IF @ = Writes THEN 0 ELSE @ - 1]
         /\ h[l] < Writes => After(h, Read(l)) \in Holding
         /\ After(h, Write(l)) \in Holding
         /\ h[l] > 0 => After(h, Free(l)) \in Holding
<1>1. /\ After(h, Read(l)) = [h EXCEPT ![l] = @ + 1]
      /\ After(h, Write(l)) = [h EXCEPT ![l] = Writes]
      /\ After(h, Free(l)) = [h EXCEPT ![l] = IF @ = Writes THEN 0 ELSE @ - 1]
  BY DEF After, Read, Write, Free
<1>2. h[l] \in 0 .. 3
  BY DEF Holding, Writes
<1>3. h[l] < Writes => [h EXCEPT ![l] = @ + 1] \in Holding
  BY <1>2 DEF Holding, Writes
<1>4. [h EXCEPT ![l] = Writes] \in Holding
  BY <1>2 DEF Holding, Writes
<1>5. h[l] > 0 => [h EXCEPT ![l] = IF @ = Writes THEN 0 ELSE @ - 1] \in Holding
  BY <1>2 DEF Holding, Writes
<1> QED
  BY <1>1, <1>3, <1>4, <1>5

\* A guard that is taken and given back leaves things as they were.
LEMMA ReadAndFree ==
  ASSUME NEW t, NEW h \in Holding, NEW l \in Locks, h[l] < 2, May(t, h, Read(l)),
         NEW k, k = [h EXCEPT ![l] = @ + 1]
  PROVE  k \in Holding /\ Runs(t, h, <<Read(l)>>, k) /\ Runs(t, k, <<Free(l)>>, h)
<1>1. h[l] \in 0 .. 1 /\ k = After(h, Read(l)) /\ k \in Holding
  BY AfterStep DEF Holding, Writes
<1>2. h[l] + 1 # Writes /\ h[l] + 1 - 1 = h[l] /\ h[l] + 1 > 0 /\ k[l] = h[l] + 1
  BY <1>1 DEF Holding, Writes
<1>3. After(k, Free(l)) = h
  <2>1. After(k, Free(l)) = [k EXCEPT ![l] = h[l]]
    BY <1>1, <1>2, AfterStep
  <2>2. [k EXCEPT ![l] = h[l]] = h
    BY DEF Holding
  <2>3. QED BY <2>1, <2>2
<1>4. Runs(t, h, <<Read(l)>>, k)
  BY <1>1, RunsOne
<1>5. Runs(t, k, <<Free(l)>>, h)
  BY <1>1, <1>2, <1>3, MayFree, RunsOne
<1> QED
  BY <1>1, <1>4, <1>5

LEMMA WriteAndFree ==
  ASSUME NEW t, NEW h \in Holding, NEW l \in Locks, h[l] = 0, May(t, h, Write(l)),
         NEW k, k = [h EXCEPT ![l] = Writes]
  PROVE  k \in Holding /\ Runs(t, h, <<Write(l)>>, k) /\ Runs(t, k, <<Free(l)>>, h)
<1>1. k \in Holding /\ k[l] = Writes /\ k = After(h, Write(l)) /\ k[l] > 0
  BY AfterStep DEF Holding, Writes
<1>2. After(k, Free(l)) = h
  <2>1. After(k, Free(l)) = [k EXCEPT ![l] = 0]
    BY <1>1, AfterStep
  <2>2. [k EXCEPT ![l] = 0] = h
    BY DEF Holding
  <2>3. QED BY <2>1, <2>2
<1>3. Runs(t, h, <<Write(l)>>, k)
  BY <1>1, RunsOne
<1>4. Runs(t, k, <<Free(l)>>, h)
  BY <1>1, <1>2, MayFree, RunsOne
<1> QED
  BY <1>1, <1>3, <1>4

LEMMA UnderGuard ==
  ASSUME NEW t, NEW S, NEW x \in S, NEW y \in S, NEW s \in Seq(S), NEW h, NEW k,
         Runs(t, h, <<x>>, k), Runs(t, k, s, k), Runs(t, k, <<y>>, h)
  PROVE  Runs(t, h, (<<x>> \o s) \o <<y>>, h)
<1>1. <<x>> \in Seq(S) /\ <<y>> \in Seq(S) /\ <<x>> \o s \in Seq(S)
  OBVIOUS
<1>2. Runs(t, h, <<x>> \o s, k)
  BY <1>1, RunsThen
<1> QED
  BY <1>1, <1>2, RunsThen

LEMMA ReadOnceRuns ==
  ASSUME NEW t, NEW h \in Holding, NEW l \in Locks, h[l] < 2, May(t, h, Read(l))
  PROVE  Runs(t, h, ReadOnce(l), h)
<1> DEFINE x == Read(l)
           y == Free(l)
<1>1. ReadOnce(l) = <<x>> \o <<y>>
  BY DEF ReadOnce
<1>2. Runs(t, h, <<x>>, [h EXCEPT ![l] = @ + 1]) /\ Runs(t, [h EXCEPT ![l] = @ + 1], <<y>>, h)
  BY ReadAndFree
<1> HIDE DEF x, y
<1>3. <<x>> \in Seq({x, y}) /\ <<y>> \in Seq({x, y})
  OBVIOUS
<1> QED
  BY <1>1, <1>2, <1>3, RunsThen

LEMMA WriteOnceRuns ==
  ASSUME NEW t, NEW h \in Holding, NEW l \in Locks, h[l] = 0, May(t, h, Write(l))
  PROVE  Runs(t, h, WriteOnce(l), h)
<1> DEFINE x == Write(l)
           y == Free(l)
<1>1. WriteOnce(l) = <<x>> \o <<y>>
  BY DEF WriteOnce
<1>2. Runs(t, h, <<x>>, [h EXCEPT ![l] = Writes]) /\ Runs(t, [h EXCEPT ![l] = Writes], <<y>>, h)
  BY WriteAndFree
<1> HIDE DEF x, y
<1>3. <<x>> \in Seq({x, y}) /\ <<y>> \in Seq({x, y})
  OBVIOUS
<1> QED
  BY <1>1, <1>2, <1>3, RunsThen

LEMMA LookRuns ==
  ASSUME NEW t, NEW h \in Holding, NEW p \in Playing, h[Player(p)] < 2, h[Clients] < 2,
         May(t, h, Read(Player(p))),
         May(t, [h EXCEPT ![Player(p)] = @ + 1], Read(Clients))
  PROVE  Runs(t, h, Look(p), h)
<1> DEFINE k == [h EXCEPT ![Player(p)] = @ + 1]
           S == {Read(Player(p)), Read(Clients), Free(Clients), Free(Player(p))}
<1>1. Player(p) \in Locks /\ Clients \in Locks /\ Player(p) # Clients
  BY LockFacts
<1>2. k \in Holding /\ k[Clients] < 2
  BY <1>1, AfterStep DEF Writes, Holding
<1>3. ReadOnce(Clients) \in Seq(S)
  BY DEF ReadOnce
<1>4. Look(p) = (<<Read(Player(p))>> \o ReadOnce(Clients)) \o <<Free(Player(p))>>
  BY DEF Look, ReadOnce
<1>5. Runs(t, k, ReadOnce(Clients), k)
  BY <1>1, <1>2, ReadOnceRuns
<1>6. Runs(t, h, (<<Read(Player(p))>> \o ReadOnce(Clients)) \o <<Free(Player(p))>>, h)
  <2>1. Read(Player(p)) \in S /\ Free(Player(p)) \in S
    OBVIOUS
  <2>2. Runs(t, h, <<Read(Player(p))>>, k) /\ Runs(t, k, <<Free(Player(p))>>, h)
    BY <1>1, ReadAndFree
  <2> HIDE DEF S, k
  <2>3. QED BY <1>3, <1>5, <2>1, <2>2, UnderGuard
<1> QED
  BY <1>4, <1>6

\* Nothing is taken or given back while a call is made and awaited.
LEMMA ForAllRuns ==
  ASSUME NEW t, NEW h \in Holding, NEW g, NEW kind, NEW r,
         May(t, h, Fork(g, kind, PlayersIn(r))), May(t, h, Await(g))
  PROVE  Runs(t, h, ForAll(g, kind, r), h)
<1> DEFINE x == Fork(g, kind, PlayersIn(r))
           y == Await(g)
<1>1. After(h, x) = h /\ After(h, y) = h
  BY DEF After, Fork, Await
<1>2. ForAll(g, kind, r) = <<x>> \o <<y>>
  BY DEF ForAll
<1>3. May(t, h, x) /\ May(t, h, y)
  OBVIOUS
<1> HIDE DEF x, y
<1>4. Runs(t, h, <<x>>, h) /\ Runs(t, h, <<y>>, h)
  BY <1>1, <1>3, RunsOne
<1>5. <<x>> \in Seq({x, y}) /\ <<y>> \in Seq({x, y})
  OBVIOUS
<1> QED
  BY <1>2, <1>4, <1>5, RunsThen

-----------------------------------------------------------------------------
(* The server's scripts *)

\* Every call made is awaited at once.
Paired(g, s) ==
    \A i \in 1 .. Len(s) :
        /\ s[i][1] = "fork" => i < Len(s) /\ s[i + 1] = Await(g)
        /\ s[i][1] = "await" => i > 1 /\ s[i - 1][1] = "fork"

\* A part of a script, that makes calls of one group only and takes t from the
\* guards h to the guards k.
Part(t, g, h, s, k) ==
    s \in Seq(CallSteps(g)) /\ Paired(g, s) /\ Runs(t, h, s, k)

LEMMA LockStepFacts ==
  /\ \A g : LockSteps \subseteq CallSteps(g)
  /\ \A l \in Locks : Read(l) \in LockSteps /\ Write(l) \in LockSteps /\ Free(l) \in LockSteps
  /\ \A x \in LockSteps : x[1] \in {"read", "write", "free"} /\ x[2] \in Locks
<1>1. \A x \in LockSteps : x[1] \in {"read", "write", "free"} /\ x[2] \in Locks
  BY DEF LockSteps, Read, Write, Free
<1>2. \A g : LockSteps \subseteq CallSteps(g)
  BY DEF CallSteps
<1>3. \A l \in Locks : Read(l) \in LockSteps /\ Write(l) \in LockSteps /\ Free(l) \in LockSteps
  BY DEF LockSteps
<1> QED
  BY <1>1, <1>2, <1>3

LEMMA PairedThen ==
  ASSUME NEW g, NEW S, NEW a \in Seq(S), NEW b \in Seq(S), Paired(g, a), Paired(g, b)
  PROVE  Paired(g, a \o b)
<1> DEFINE n == Len(a \o b)
           s == a \o b
<1>1. /\ Len(a) \in Nat /\ Len(b) \in Nat /\ n = Len(a) + Len(b)
      /\ \A i \in 1 .. n : s[i] = IF i <= Len(a) THEN a[i] ELSE b[i - Len(a)]
  OBVIOUS
<1> HIDE DEF s
<1> SUFFICES ASSUME NEW i \in 1 .. n
             PROVE  /\ s[i][1] = "fork" => i < n /\ s[i + 1] = Await(g)
                    /\ s[i][1] = "await" => i > 1 /\ s[i - 1][1] = "fork"
  BY DEF Paired, s
<1> HIDE DEF n
<1>2. CASE i <= Len(a)
  <2>1. i \in 1 .. Len(a) /\ s[i] = a[i]
    BY <1>1, <1>2
  <2>2. /\ a[i][1] = "fork" => i < Len(a) /\ a[i + 1] = Await(g)
        /\ a[i][1] = "await" => i > 1 /\ a[i - 1][1] = "fork"
    BY <2>1 DEF Paired
  <2>3. i < Len(a) => i + 1 \in 1 .. n /\ i + 1 <= Len(a) /\ i < n
    BY <1>1
  <2>4. i > 1 => i - 1 \in 1 .. n /\ i - 1 <= Len(a)
    BY <1>1, <1>2
  <2>5. QED BY <1>1, <2>1, <2>2, <2>3, <2>4
<1>3. CASE i > Len(a)
  <2> DEFINE j == i - Len(a)
  <2>1. j \in 1 .. Len(b) /\ s[i] = b[j]
    BY <1>1, <1>3
  <2>2. j < Len(b) => /\ i + 1 \in 1 .. n /\ ~(i + 1 <= Len(a)) /\ i < n
                      /\ (i + 1) - Len(a) = j + 1
    BY <1>1, <1>3
  <2>3. j > 1 => /\ i - 1 \in 1 .. n /\ ~(i - 1 <= Len(a)) /\ i > 1
                 /\ (i - 1) - Len(a) = j - 1
    BY <1>1, <1>3
  <2> HIDE DEF j
  <2>4. /\ b[j][1] = "fork" => j < Len(b) /\ b[j + 1] = Await(g)
        /\ b[j][1] = "await" => j > 1 /\ b[j - 1][1] = "fork"
    BY <2>1 DEF Paired
  <2>5. QED BY <1>1, <2>1, <2>2, <2>3, <2>4
<1>4. QED BY <1>1, <1>2, <1>3

LEMMA LocksPart ==
  ASSUME NEW t, NEW g, NEW h, NEW k, NEW s \in Seq(LockSteps), Runs(t, h, s, k)
  PROVE  Part(t, g, h, s, k)
<1>1. \A i \in 1 .. Len(s) : s[i] \in LockSteps
  OBVIOUS
<1>2. Paired(g, s)
  BY <1>1, LockStepFacts DEF Paired
<1>3. s \in Seq(CallSteps(g))
  BY LockStepFacts
<1> QED
  BY <1>2, <1>3 DEF Part

LEMMA PartThen ==
  ASSUME NEW t, NEW g, NEW h, NEW k, NEW m, NEW a, NEW b,
         Part(t, g, h, a, k), Part(t, g, k, b, m)
  PROVE  Part(t, g, h, a \o b, m)
<1> DEFINE S == CallSteps(g)
<1>1. a \in Seq(S) /\ b \in Seq(S)
  BY DEF Part
<1> HIDE DEF S
<1>2. a \o b \in Seq(S)
  BY <1>1
<1>3. Paired(g, a \o b)
  BY <1>1, PairedThen DEF Part
<1>4. Runs(t, h, a \o b, m)
  BY <1>1, RunsThen DEF Part
<1> QED
  BY <1>2, <1>3, <1>4 DEF Part, S

LEMMA ReadOncePart ==
  ASSUME NEW t, NEW g, NEW h \in Holding, NEW l \in Locks, h[l] < 2, May(t, h, Read(l))
  PROVE  Part(t, g, h, ReadOnce(l), h) /\ ReadOnce(l) \in Seq(LockSteps)
<1>1. ReadOnce(l) \in Seq(LockSteps)
  BY LockStepFacts DEF ReadOnce
<1> QED
  BY <1>1, ReadOnceRuns, LocksPart

LEMMA WriteOncePart ==
  ASSUME NEW t, NEW g, NEW h \in Holding, NEW l \in Locks, h[l] = 0, May(t, h, Write(l))
  PROVE  Part(t, g, h, WriteOnce(l), h) /\ WriteOnce(l) \in Seq(LockSteps)
<1>1. WriteOnce(l) \in Seq(LockSteps)
  BY LockStepFacts DEF WriteOnce
<1> QED
  BY <1>1, WriteOnceRuns, LocksPart

LEMMA LookSteps ==
  ASSUME NEW p \in Playing
  PROVE  Look(p) \in Seq(LockSteps)
<1>1. /\ Read(Player(p)) \in LockSteps /\ Read(Clients) \in LockSteps
      /\ Free(Player(p)) \in LockSteps /\ Free(Clients) \in LockSteps
  BY LockFacts, LockStepFacts
<1> QED
  BY <1>1 DEF Look

LEMMA SingleLocks ==
  ASSUME NEW l \in Locks
  PROVE  <<Read(l)>> \in Seq(LockSteps) /\ <<Write(l)>> \in Seq(LockSteps)
         /\ <<Free(l)>> \in Seq(LockSteps)
  BY LockStepFacts

\* A guard is taken, and given back.
LEMMA ReadPart ==
  ASSUME NEW t, NEW g, NEW h \in Holding, NEW l \in Locks, h[l] < 2, May(t, h, Read(l)),
         NEW k, k = [h EXCEPT ![l] = @ + 1]
  PROVE  k \in Holding /\ Part(t, g, h, <<Read(l)>>, k) /\ Part(t, g, k, <<Free(l)>>, h)
<1>1. k \in Holding /\ Runs(t, h, <<Read(l)>>, k) /\ Runs(t, k, <<Free(l)>>, h)
  BY ReadAndFree
<1> QED
  BY <1>1, SingleLocks, LocksPart

LEMMA WritePart ==
  ASSUME NEW t, NEW g, NEW h \in Holding, NEW l \in Locks, h[l] = 0, May(t, h, Write(l)),
         NEW k, k = [h EXCEPT ![l] = Writes]
  PROVE  k \in Holding /\ Part(t, g, h, <<Write(l)>>, k) /\ Part(t, g, k, <<Free(l)>>, h)
<1>1. k \in Holding /\ Runs(t, h, <<Write(l)>>, k) /\ Runs(t, k, <<Free(l)>>, h)
  BY WriteAndFree
<1> QED
  BY <1>1, SingleLocks, LocksPart

\* Three steps at once.
LEMMA ThreePart ==
  ASSUME NEW t, NEW g, NEW h, NEW k, NEW m, NEW n,
         NEW x \in LockSteps, NEW y \in LockSteps, NEW z \in LockSteps,
         Runs(t, h, <<x>>, k), Runs(t, k, <<y>>, m), Runs(t, m, <<z>>, n)
  PROVE  Part(t, g, h, <<x, y, z>>, n)
<1>1. \A u, v, w : Runs(t, v, <<u>>, w) => v \in Holding /\ w \in Holding
                                           /\ May(t, v, u) /\ w = After(v, u)
  <2> SUFFICES ASSUME NEW u, NEW v, NEW w, Runs(t, v, <<u>>, w)
               PROVE  v \in Holding /\ w \in Holding /\ May(t, v, u) /\ w = After(v, u)
    OBVIOUS
  <2>1. Len(<<u>>) = 1 /\ <<u>>[1] = u
    OBVIOUS
  <2>2. PICK c \in [1 .. 2 -> Holding] : c[1] = v /\ c[2] = w /\ May(t, c[1], u) /\ c[2] = After(c[1], u)
    BY <2>1 DEF Runs
  <2>3. QED BY <2>2
<1> DEFINE s == <<x, y, z>>
           c == [i \in 1 .. 4 |-> IF i = 1 THEN h ELSE IF i = 2 THEN k ELSE IF i = 3 THEN m ELSE n]
<1>2. c \in [1 .. 4 -> Holding] /\ c[1] = h /\ c[2] = k /\ c[3] = m /\ c[4] = n
  BY <1>1
<1>3. s \in Seq(LockSteps) /\ Len(s) = 3 /\ s[1] = x /\ s[2] = y /\ s[3] = z
  OBVIOUS
<1> HIDE DEF s, c
<1>4. ASSUME NEW i \in 1 .. 3 PROVE May(t, c[i], s[i]) /\ c[i + 1] = After(c[i], s[i])
  <2>1. CASE i = 1
    BY <1>1, <1>2, <1>3, <2>1
  <2>2. CASE i = 2
    BY <1>1, <1>2, <1>3, <2>2
  <2>3. CASE i = 3
    BY <1>1, <1>2, <1>3, <2>3
  <2>4. QED BY <2>1, <2>2, <2>3
<1>5. Runs(t, h, s, n)
  BY <1>2, <1>3, <1>4 DEF Runs
<1> QED
  BY <1>3, <1>5, LocksPart DEF s

LEMMA ForAllPart ==
  ASSUME NEW t, NEW h \in Holding, NEW g, NEW kind, NEW r,
         Fork(g, kind, PlayersIn(r)) \in Forks(g),
         May(t, h, Fork(g, kind, PlayersIn(r))), May(t, h, Await(g))
  PROVE  Part(t, g, h, ForAll(g, kind, r), h)
<1> DEFINE x == Fork(g, kind, PlayersIn(r))
           y == Await(g)
<1>1. /\ ForAll(g, kind, r) = <<x, y>> /\ x[1] = "fork" /\ y[1] = "await"
      /\ x \in CallSteps(g) /\ y \in CallSteps(g) /\ y = Await(g)
  BY DEF ForAll, Fork, Await, CallSteps
<1> HIDE DEF x, y
<1>2. Len(<<x, y>>) = 2 /\ <<x, y>>[1] = x /\ <<x, y>>[2] = y
      /\ \A i \in 1 .. 2 : i = 1 \/ i = 2
  OBVIOUS
<1>3. Paired(g, <<x, y>>)
  BY <1>1, <1>2 DEF Paired
<1>4. <<x, y>> \in Seq(CallSteps(g))
  BY <1>1
<1>5. Runs(t, h, ForAll(g, kind, r), h)
  BY ForAllRuns
<1> QED
  BY <1>1, <1>3, <1>4, <1>5 DEF Part

LEMMA ListOfPlayers ==
  ASSUME NEW r \in Rooms
  PROVE  SetToSeq(PlayersIn(r)) \in Seq(PlayersIn(r))
<1> DEFINE S == PlayersIn(r)
           n == Cardinality(S)
<1>1. IsFiniteSet(S)
  BY LocksAssumption, FS_Subset DEF PlayersIn
<1> HIDE DEF S
<1>2. n \in Nat /\ ExistsBijection(1 .. n, S)
  BY <1>1, FS_CardinalityType
<1>3. \E f \in [1 .. n -> S] : IsInjective(f)
  BY <1>2 DEF ExistsBijection, Bijection, Injection
<1>4. SetToSeq(S) \in [1 .. n -> S]
  BY <1>3 DEF SetToSeq
<1>5. SetToSeq(S) \in Seq(S)
  BY <1>2, <1>4
<1> QED
  BY <1>5 DEF S

\* The same done for all players of a room, one after another.
LEMMA EachPlayerRuns ==
  ASSUME NEW t, NEW h \in Holding, NEW r \in Rooms, NEW S, NEW f,
         \A p \in PlayersIn(r) : f[p] \in Seq(S) /\ Runs(t, h, f[p], h)
  PROVE  LET ss == [i \in 1 .. Len(SetToSeq(PlayersIn(r))) |-> f[SetToSeq(PlayersIn(r))[i]]]
         IN  FlattenSeq(ss) \in Seq(S) /\ Runs(t, h, FlattenSeq(ss), h)
<1> DEFINE ps == SetToSeq(PlayersIn(r))
           ss == [i \in 1 .. Len(ps) |-> f[ps[i]]]
           hs == [i \in 1 .. Len(ps) + 1 |-> h]
<1>1. ps \in Seq(PlayersIn(r))
  BY ListOfPlayers
<1> HIDE DEF ps
<1>2. Len(ps) \in Nat /\ \A i \in 1 .. Len(ps) : ps[i] \in PlayersIn(r)
  BY <1>1
<1>3. \A i \in 1 .. Len(ps) : ss[i] = f[ps[i]] /\ ss[i] \in Seq(S) /\ Runs(t, h, ss[i], h)
  BY <1>2
<1>4. ss \in Seq(Seq(S)) /\ Len(ss) = Len(ps)
  BY <1>2, <1>3
<1>5. /\ hs \in [1 .. Len(ss) + 1 -> Holding]
      /\ \A i \in 1 .. Len(ss) : hs[i] = h /\ hs[i + 1] = h
      /\ hs[1] = h /\ hs[Len(ss) + 1] = h
  BY <1>2, <1>4
<1> HIDE DEF ss, hs
<1>6. FlattenSeq(ss) \in Seq(S) /\ Runs(t, h, FlattenSeq(ss), h)
  <2>1. \A i \in 1 .. Len(ss) : Runs(t, hs[i], ss[i], hs[i + 1])
    BY <1>3, <1>4, <1>5
  <2>2. FlattenSeq(ss) \in Seq(S) /\ Runs(t, hs[1], FlattenSeq(ss), hs[Len(ss) + 1])
    BY <1>4, <1>5, <2>1, FlattenRuns
  <2>3. QED BY <1>5, <2>2
<1> QED
  BY <1>6 DEF ss, ps

LEMMA MayRead ==
  ASSUME NEW h \in Holding, NEW l \in Locks,
         h[Clients] # Writes, l = Clients => h[Clients] < 2,
         l \in RoomLocks => h[l] = 0 /\ \A m \in RoomLocks : h[m] # Writes,
         \A p \in Playing : l = Player(p) =>
            \A m \in PlayerLocks : h[m] > 0 =>
               m = l /\ h[m] = 1 /\ h[Room(RoomOf[p])] = Writes
  PROVE  May(Actor, h, Read(l))
<1>1. /\ Read(l)[1] = "read"
      /\ \A m : Read(l) # Write(m)
      /\ \A m \in Locks : Read(l) = Read(m) => l = m
  BY DEF Read, Write
<1>2. Read(l) = Read(Clients) => h[Clients] <= 1
  BY <1>1, LockFacts DEF Holding, Writes
<1>3. ASSUME NEW r \in Rooms, Read(l) = Read(Room(r))
      PROVE  h[Room(r)] = 0 /\ \A m \in RoomLocks : h[m] # Writes
  <2>1. l = Room(r) /\ l \in RoomLocks
    BY <1>1, <1>3, LockFacts DEF RoomLocks
  <2>2. QED BY <2>1
<1>4. ASSUME NEW p \in Playing, Read(l) = Read(Player(p))
      PROVE  \A m \in PlayerLocks : h[m] > 0 =>
                m = Player(p) /\ h[m] = 1 /\ h[Room(RoomOf[p])] = Writes
  <2>1. l = Player(p)
    BY <1>1, <1>4, LockFacts
  <2>2. QED BY <2>1
<1> QED
  BY <1>1, <1>2, <1>3, <1>4 DEF May, ServerMay

LEMMA MayWrite ==
  ASSUME NEW h \in Holding, NEW l \in Locks, h[Clients] = 0, NoPlayer(h),
         \A r \in Rooms : l = Room(r) =>
            \A q \in Rooms : h[Room(q)] > 0 => h[Room(q)] = Writes /\ q = r - 1
  PROVE  May(Actor, h, Write(l))
<1>1. /\ Write(l)[1] = "write"
      /\ \A m : Write(l) # Read(m)
      /\ \A m \in Locks : Write(l) = Write(m) => l = m
  BY DEF Read, Write
<1>2. h[Clients] # Writes
  BY DEF Writes
<1>3. ASSUME NEW r \in Rooms, Write(l) = Write(Room(r))
      PROVE  \A q \in Rooms : h[Room(q)] > 0 => h[Room(q)] = Writes /\ q = r - 1
  BY <1>1, <1>3, LockFacts
<1> QED
  BY <1>1, <1>2, <1>3 DEF May, ServerMay

LEMMA MayCall ==
  ASSUME NEW h \in Holding, NoPlayer(h), Shares(h), NEW x, x[1] \in {"fork", "await"}
  PROVE  May(Actor, h, x)
<1>1. /\ \A m : x # Read(m) /\ x # Write(m)
      /\ x[1] # "free" /\ x[1] \notin {"done", "end"}
  BY DEF Read, Write
<1>2. h[Clients] # Writes
  BY LockFacts DEF Shares
<1> QED
  BY <1>1, <1>2 DEF May, ServerMay

\* With nothing in its hand the server may take any lock.
LEMMA FreshMay ==
  ASSUME NEW l \in Locks
  PROVE  May(Actor, Nothing, Read(l)) /\ May(Actor, Nothing, Write(l))
<1>1. /\ Nothing \in Holding /\ Nothing[Clients] = 0 /\ NoPlayer(Nothing)
      /\ \A m \in Locks : Nothing[m] = 0
  BY NoneHeld, LockFacts DEF NoPlayer
<1>2. \A m \in Locks : ~(Nothing[m] > 0) /\ Nothing[m] # Writes
  BY <1>1 DEF Writes
<1>3. May(Actor, Nothing, Read(l))
  BY <1>1, <1>2, LockFacts, MayRead
<1>4. May(Actor, Nothing, Write(l))
  BY <1>1, <1>2, LockFacts, MayWrite
<1> QED
  BY <1>3, <1>4

LEMMA FreshParts ==
  ASSUME NEW l \in Locks
  PROVE  /\ Part(Actor, OfServer, Nothing, ReadOnce(l), Nothing)
         /\ Part(Actor, OfServer, Nothing, WriteOnce(l), Nothing)
<1>1. Nothing \in Holding /\ Nothing[l] = 0
  BY NoneHeld
<1> QED
  BY <1>1, FreshMay, ReadOncePart, WriteOncePart

LEMMA JoinRuns ==
  ASSUME NEW r \in Rooms
  PROVE  Part(Actor, OfServer, Nothing, JoinScript(r), Nothing)
<1> DEFINE l == Room(r)
           k == [Nothing EXCEPT ![l] = Writes]
<1>1. l \in Locks /\ l # Clients /\ l \notin PlayerLocks /\ Clients \in Locks
      /\ Nothing \in Holding /\ Nothing[l] = 0
  BY LockFacts, NoneHeld DEF RoomLocks
<1>2. /\ k \in Holding
      /\ Part(Actor, OfServer, Nothing, <<Write(l)>>, k)
      /\ Part(Actor, OfServer, k, <<Free(l)>>, Nothing)
  BY <1>1, FreshMay, WritePart
<1>3. k[Clients] = 0 /\ NoPlayer(k)
  BY <1>1, NoneHeld, LockFacts DEF NoPlayer, Holding
<1> HIDE DEF k
<1>4. May(Actor, k, Write(Clients))
  BY <1>1, <1>2, <1>3, LockFacts, MayWrite
<1>5. Part(Actor, OfServer, k, WriteOnce(Clients), k)
  BY <1>1, <1>2, <1>3, <1>4, WriteOncePart
<1> QED
  BY <1>2, <1>5, PartThen DEF JoinScript

LEMMA LeaveRuns ==
  ASSUME NEW p \in Playing
  PROVE  Part(Actor, OfServer, Nothing, LeaveScript(p), Nothing)
  BY LockFacts, FreshParts, PartThen DEF LeaveScript

LEMMA KickRuns == Part(Actor, OfServer, Nothing, KickScript, Nothing)
<1> DEFINE k == [Nothing EXCEPT ![Clients] = @ + 1]
<1>1. /\ Clients \in Locks /\ Clients \notin RoomLocks
      /\ \A p \in Playing : Clients # Player(p)
      /\ Nothing \in Holding /\ Nothing[Clients] = 0 /\ Nothing[Clients] < 2
  BY LockFacts, NoneHeld
<1>2. /\ k \in Holding
      /\ Part(Actor, OfServer, Nothing, <<Read(Clients)>>, k)
      /\ Part(Actor, OfServer, k, <<Free(Clients)>>, Nothing)
  BY <1>1, FreshMay, ReadPart
<1>3. k[Clients] = 1
  BY <1>1 DEF Holding
<1> HIDE DEF k
<1>4. k[Clients] < 2 /\ k[Clients] # Writes
  BY <1>3 DEF Writes
<1>5. Part(Actor, OfServer, k, ReadOnce(Clients), k)
  BY <1>1, <1>2, <1>4, MayRead, ReadOncePart
<1>6. Part(Actor, OfServer, Nothing, WriteOnce(Clients), Nothing)
  BY <1>1, FreshParts
<1> QED
  BY <1>2, <1>5, <1>6, PartThen DEF KickScript

\* After s, a room's guard, and a call over its players under it.
LEMMA CallUnderRoom ==
  ASSUME NEW r \in Rooms, NEW kind \in {"look", "cosmetics"}, NEW s,
         Part(Actor, OfServer, Nothing, s, Nothing)
  PROVE  Part(Actor, OfServer, Nothing,
              ((s \o <<Read(Room(r))>>) \o ForAll(OfServer, kind, r)) \o <<Free(Room(r))>>, Nothing)
<1> DEFINE l == Room(r)
           k == [Nothing EXCEPT ![l] = @ + 1]
           x == Fork(OfServer, kind, PlayersIn(r))
<1>1. l \in Locks /\ l \notin PlayerLocks /\ Nothing \in Holding /\ Nothing[l] = 0 /\ Nothing[l] < 2
  BY LockFacts, NoneHeld DEF RoomLocks
<1>2. /\ k \in Holding
      /\ Part(Actor, OfServer, Nothing, <<Read(l)>>, k)
      /\ Part(Actor, OfServer, k, <<Free(l)>>, Nothing)
  BY <1>1, FreshMay, ReadPart
<1>3. NoPlayer(k) /\ Shares(k)
  <2>1. \A m \in Locks : k[m] = IF m = l THEN 1 ELSE 0
    BY <1>1, NoneHeld DEF Holding
  <2>2. QED BY <1>1, <2>1, LockFacts DEF NoPlayer, Shares, Writes
<1> HIDE DEF k
<1>4. x \in Forks(OfServer)
  <2>1. {<<kind, p>> : p \in PlayersIn(r)} \in SUBSET PiecesFor(OfServer)
    BY DEF PiecesFor, PlayersIn
  <2>2. QED BY <2>1 DEF Forks, Fork
<1>5. x[1] = "fork" /\ Await(OfServer)[1] = "await"
  BY DEF Fork, Await
<1>6. May(Actor, k, x) /\ May(Actor, k, Await(OfServer))
  BY <1>2, <1>3, <1>5, MayCall
<1>7. Part(Actor, OfServer, k, ForAll(OfServer, kind, r), k)
  BY <1>2, <1>4, <1>6, ForAllPart
<1> QED
  BY <1>2, <1>7, PartThen

LEMMA CosmeticsRuns ==
  ASSUME NEW p \in Playing
  PROVE  Part(Actor, OfServer, Nothing, CosmeticsScript(p), Nothing)
<1>1. RoomOf[p] \in Rooms
  BY LockFacts
<1>2. Part(Actor, OfServer, Nothing, ReadOnce(Clients), Nothing)
  BY LockFacts, FreshParts
<1> QED
  BY <1>1, <1>2, CallUnderRoom DEF CosmeticsScript

\* The player's guard, the client's twice, and the room's within.
LEMMA ChatGuards ==
  ASSUME NEW p \in Playing, NEW r \in Rooms, NEW s,
         Part(Actor, OfServer, Nothing, s, Nothing)
  PROVE  Part(Actor, OfServer, Nothing,
              ((s \o <<Write(Player(p)), Read(Clients), Read(Clients)>>) \o ReadOnce(Room(r)))
                  \o <<Free(Clients), Free(Clients), Free(Player(p))>>, Nothing)
<1> DEFINE l == Player(p)
           g == OfServer
           k == [Nothing EXCEPT ![l] = Writes]
           m == [k EXCEPT ![Clients] = @ + 1]
           n == [m EXCEPT ![Clients] = @ + 1]
<1>1. /\ l \in Locks /\ l # Clients /\ l \notin RoomLocks /\ Clients \in Locks
      /\ Clients \notin RoomLocks
      /\ \A q \in Playing : Clients # Player(q)
      /\ Room(r) \in Locks /\ Room(r) # Clients
      /\ \A q \in Playing : Room(r) # Player(q)
      /\ RoomLocks \subseteq Locks
  BY LockFacts DEF PlayerLocks
<1>2. Nothing \in Holding /\ \A x \in Locks : Nothing[x] = 0
  BY NoneHeld
<1>3. /\ k \in Holding /\ k[Clients] = 0 /\ \A x \in RoomLocks : k[x] = 0
      /\ Runs(Actor, Nothing, <<Write(l)>>, k) /\ Runs(Actor, k, <<Free(l)>>, Nothing)
  <2>1. /\ k \in Holding
        /\ Runs(Actor, Nothing, <<Write(l)>>, k) /\ Runs(Actor, k, <<Free(l)>>, Nothing)
    BY <1>1, <1>2, FreshMay, WriteAndFree
  <2>2. k[Clients] = 0 /\ \A x \in RoomLocks : k[x] = 0
    BY <1>1, <1>2 DEF Holding
  <2>3. QED BY <2>1, <2>2
<1> HIDE DEF k
<1>4. /\ m \in Holding /\ m[Clients] = 1 /\ \A x \in RoomLocks : m[x] = 0
      /\ Runs(Actor, k, <<Read(Clients)>>, m) /\ Runs(Actor, m, <<Free(Clients)>>, k)
  <2>1. k[Clients] # Writes /\ k[Clients] < 2
    BY <1>3 DEF Writes
  <2>2. May(Actor, k, Read(Clients))
    BY <1>1, <1>3, <2>1, MayRead
  <2>3. /\ m \in Holding
        /\ Runs(Actor, k, <<Read(Clients)>>, m) /\ Runs(Actor, m, <<Free(Clients)>>, k)
    BY <1>1, <1>3, <2>1, <2>2, ReadAndFree
  <2>4. m[Clients] = 1 /\ \A x \in RoomLocks : m[x] = 0
    BY <1>1, <1>3 DEF Holding
  <2>5. QED BY <2>3, <2>4
<1> HIDE DEF m
<1>5. /\ n \in Holding /\ n[Clients] = 2 /\ \A x \in RoomLocks : n[x] = 0
      /\ Runs(Actor, m, <<Read(Clients)>>, n) /\ Runs(Actor, n, <<Free(Clients)>>, m)
  <2>1. m[Clients] # Writes /\ m[Clients] < 2
    BY <1>4 DEF Writes
  <2>2. May(Actor, m, Read(Clients))
    BY <1>1, <1>4, <2>1, MayRead
  <2>3. /\ n \in Holding
        /\ Runs(Actor, m, <<Read(Clients)>>, n) /\ Runs(Actor, n, <<Free(Clients)>>, m)
    BY <1>1, <1>4, <2>1, <2>2, ReadAndFree
  <2>4. n[Clients] = 2 /\ \A x \in RoomLocks : n[x] = 0
    BY <1>1, <1>4 DEF Holding
  <2>5. QED BY <2>3, <2>4
<1> HIDE DEF n
<1>6. Part(Actor, g, n, ReadOnce(Room(r)), n)
  <2>1. n[Clients] # Writes /\ Room(r) \in RoomLocks
    BY <1>5 DEF Writes, RoomLocks
  <2>2. n[Room(r)] = 0 /\ n[Room(r)] < 2 /\ \A x \in RoomLocks : n[x] # Writes
    BY <1>5, <2>1 DEF Writes
  <2>3. May(Actor, n, Read(Room(r)))
    BY <1>1, <1>5, <2>1, <2>2, MayRead
  <2>4. QED BY <1>1, <1>5, <2>2, <2>3, ReadOncePart
<1>7. Part(Actor, g, Nothing, <<Write(l), Read(Clients), Read(Clients)>>, n)
  BY <1>1, <1>3, <1>4, <1>5, LockStepFacts, ThreePart
<1>8. Part(Actor, g, n, <<Free(Clients), Free(Clients), Free(l)>>, Nothing)
  BY <1>1, <1>3, <1>4, <1>5, LockStepFacts, ThreePart
<1> QED
  BY <1>6, <1>7, <1>8, PartThen

LEMMA ChatRuns ==
  ASSUME NEW p \in Playing
  PROVE  Part(Actor, OfServer, Nothing, ChatScript(p), Nothing)
<1> DEFINE r == RoomOf[p]
           a == ReadOnce(Clients) \o ReadOnce(Player(p))
           b == ((a \o <<Write(Player(p)), Read(Clients), Read(Clients)>>) \o ReadOnce(Room(r)))
                   \o <<Free(Clients), Free(Clients), Free(Player(p))>>
           c == b \o ReadOnce(Clients)
<1>1. r \in Rooms /\ Clients \in Locks /\ Player(p) \in Locks
  BY LockFacts
<1>2. Part(Actor, OfServer, Nothing, a, Nothing)
  BY <1>1, FreshParts, PartThen
<1> HIDE DEF a
<1>3. Part(Actor, OfServer, Nothing, b, Nothing)
  BY <1>1, <1>2, ChatGuards
<1> HIDE DEF b
<1>4. Part(Actor, OfServer, Nothing, c, Nothing)
  BY <1>1, <1>3, FreshParts, PartThen
<1> HIDE DEF c
<1>5. Part(Actor, OfServer, Nothing,
           ((c \o <<Read(Room(r))>>) \o ForAll(OfServer, "look", r)) \o <<Free(Room(r))>>, Nothing)
  BY <1>1, <1>4, CallUnderRoom
<1> QED
  BY <1>5 DEF a, b, c, ChatScript, Broadcast

\* The player list has the guard of the last room it came to.
AtRoom(r) == IF r = 0 THEN Nothing ELSE [Nothing EXCEPT ![Room(r)] = Writes]

LEMMA AtRoomFacts ==
  ASSUME NEW r \in Rooms
  PROVE  LET h == AtRoom(r)
         IN  /\ h \in Holding /\ h[Room(r)] = Writes
             /\ \A l \in Locks : l # Room(r) => h[l] = 0
             /\ h[Clients] = 0 /\ NoPlayer(h)
             /\ \A q \in Rooms : h[Room(q)] > 0 => q = r
<1>1. r # 0
  BY DEF Rooms
<1>2. AtRoom(r) = [Nothing EXCEPT ![Room(r)] = Writes]
  BY <1>1 DEF AtRoom
<1>3. AtRoom(r) \in Holding
  <2>1. Nothing \in Holding /\ Room(r) \in Locks
    BY NoneHeld, LockFacts
  <2>2. QED BY <1>2, <2>1 DEF Holding, Writes
<1>4. AtRoom(r)[Room(r)] = Writes /\ \A l \in Locks : l # Room(r) => AtRoom(r)[l] = 0
  BY <1>2, NoneHeld, LockFacts DEF Holding
<1>5. AtRoom(r)[Clients] = 0 /\ NoPlayer(AtRoom(r))
  <2>1. Clients # Room(r) /\ \A l \in PlayerLocks : l \in Locks /\ l # Room(r)
    BY LockFacts DEF PlayerLocks
  <2>2. QED BY <1>4, <2>1, LockFacts DEF NoPlayer
<1>6. \A q \in Rooms : AtRoom(r)[Room(q)] > 0 => q = r
  BY <1>4, LockFacts
<1> QED
  BY <1>3, <1>4, <1>5, <1>6

LEMMA ListedPlayerRuns ==
  ASSUME NEW r \in Rooms, NEW p \in PlayersIn(r)
  PROVE  ListedPlayer(p) \in Seq(LockSteps) /\ Runs(Actor, AtRoom(r), ListedPlayer(p), AtRoom(r))
<1> DEFINE h == AtRoom(r)
           l == Player(p)
           k == [h EXCEPT ![l] = @ + 1]
           j == [k EXCEPT ![l] = @ + 1]
<1>1. p \in Playing /\ RoomOf[p] = r
  BY DEF PlayersIn
<1>2. /\ l \in Locks /\ l # Clients /\ l \notin RoomLocks /\ Clients \in Locks
      /\ Clients \notin RoomLocks /\ l # Room(r) /\ Room(r) \in Locks /\ Room(r) # Clients
      /\ \A q \in Playing : Clients # Player(q)
      /\ \A m \in PlayerLocks : m \in Locks /\ m # Room(r)
  BY <1>1, LockFacts DEF PlayerLocks
<1>3. /\ h \in Holding /\ h[Room(r)] = Writes
      /\ \A m \in Locks : m # Room(r) => h[m] = 0
      /\ h[Clients] = 0
  BY AtRoomFacts
<1> HIDE DEF h
<1>4. /\ k \in Holding /\ k[l] = 1 /\ k[Room(r)] = Writes /\ k[Clients] = 0
      /\ \A m \in Locks : m # Room(r) /\ m # l => k[m] = 0
  <2>1. h[l] = 0 /\ h[l] < Writes
    BY <1>2, <1>3 DEF Writes
  <2>2. k \in Holding
    BY <1>2, <1>3, <2>1, AfterStep
  <2>3. k[l] = 1 /\ \A m \in Locks : m # l => k[m] = h[m]
    BY <1>2, <1>3, <2>1 DEF Holding
  <2>4. QED BY <1>2, <1>3, <2>2, <2>3
<1>5. May(Actor, h, Read(l)) /\ May(Actor, k, Read(l))
  <2>1. ASSUME NEW q \in Playing, l = Player(q)
        PROVE  \A m \in PlayerLocks :
                  /\ h[m] > 0 => m = l /\ h[m] = 1 /\ h[Room(RoomOf[q])] = Writes
                  /\ k[m] > 0 => m = l /\ k[m] = 1 /\ k[Room(RoomOf[q])] = Writes
    <3>1. q = p
      BY <1>1, <2>1, LockFacts
    <3>2. QED BY <1>1, <1>2, <1>3, <1>4, <3>1
  <2>2. h[Clients] # Writes /\ k[Clients] # Writes
    BY <1>3, <1>4 DEF Writes
  <2>3. May(Actor, h, Read(l))
    BY <1>2, <1>3, <2>1, <2>2, MayRead
  <2>4. May(Actor, k, Read(l))
    BY <1>2, <1>4, <2>1, <2>2, MayRead
  <2>5. QED BY <2>3, <2>4
<1>6. /\ Runs(Actor, h, <<Read(l)>>, k) /\ Runs(Actor, k, <<Free(l)>>, h)
  <2>1. h[l] < 2
    BY <1>2, <1>3
  <2>2. QED BY <1>2, <1>3, <1>5, <2>1, ReadAndFree
<1>7. Runs(Actor, h, Look(p), h)
  <2>1. h[l] < 2 /\ h[Clients] < 2
    BY <1>2, <1>3
  <2>2. May(Actor, k, Read(Clients))
    <3>1. k[Clients] # Writes /\ k[Clients] < 2
      BY <1>4 DEF Writes
    <3>2. QED BY <1>2, <1>4, <3>1, MayRead
  <2>3. QED BY <1>1, <1>3, <1>5, <2>1, <2>2, LookRuns
<1> HIDE DEF k
<1>8. Runs(Actor, k, Look(p), k)
  <2>1. k[l] < 2 /\ k[Clients] < 2
    BY <1>4
  <2>2. j \in Holding /\ j[Clients] = 0
    <3>1. k[l] < Writes
      BY <1>4 DEF Writes
    <3>2. j \in Holding
      BY <1>2, <1>4, <3>1 DEF Holding, Writes
    <3>3. QED BY <1>2, <1>4, <3>2 DEF Holding
  <2>3. May(Actor, j, Read(Clients))
    <3>1. j[Clients] # Writes /\ j[Clients] < 2
      BY <2>2 DEF Writes
    <3> HIDE DEF j
    <3>2. QED BY <1>2, <2>2, <3>1, MayRead
  <2>4. QED BY <1>1, <1>4, <1>5, <2>1, <2>3, LookRuns
<1> DEFINE S == LockSteps
           a == Look(p)
           x == Read(l)
           y == Free(l)
<1>9. a \in Seq(S) /\ x \in S /\ y \in S
  BY <1>1, <1>2, LookSteps, LockStepFacts
<1>10. ListedPlayer(p) = ((a \o <<x>>) \o a) \o <<y>>
  BY DEF ListedPlayer
<1>11. Runs(Actor, h, <<x>>, k) /\ Runs(Actor, k, <<y>>, h) /\ Runs(Actor, h, a, h)
       /\ Runs(Actor, k, a, k)
  BY <1>6, <1>7, <1>8
<1> HIDE DEF a, x, y, S
<1>12. <<x>> \in Seq(S) /\ <<y>> \in Seq(S) /\ a \o <<x>> \in Seq(S)
       /\ (a \o <<x>>) \o a \in Seq(S) /\ ((a \o <<x>>) \o a) \o <<y>> \in Seq(S)
  BY <1>9
<1>13. Runs(Actor, h, a \o <<x>>, k)
  BY <1>9, <1>11, <1>12, RunsThen
<1>14. Runs(Actor, h, (a \o <<x>>) \o a, k)
  BY <1>9, <1>11, <1>12, <1>13, RunsThen
<1>15. Runs(Actor, h, ((a \o <<x>>) \o a) \o <<y>>, h)
  BY <1>11, <1>12, <1>14, RunsThen
<1> QED
  BY <1>10, <1>12, <1>15 DEF h, S

LEMMA ListedRoomRuns ==
  ASSUME NEW r \in Rooms
  PROVE  ListedRoom(r) \in Seq(LockSteps) /\ Runs(Actor, AtRoom(r - 1), ListedRoom(r), AtRoom(r))
<1> DEFINE S == LockSteps
           h == AtRoom(r - 1)
           k == AtRoom(r)
           a == <<Write(Room(r))>>
           b == IF r = 1 THEN << >> ELSE <<Free(Room(r - 1))>>
           f == [p \in PlayersIn(r) |-> ListedPlayer(p)]
           c == FlattenSeq([i \in 1 .. Len(SetToSeq(PlayersIn(r))) |->
                                ListedPlayer(SetToSeq(PlayersIn(r))[i])])
           d == FlattenSeq([i \in 1 .. Len(SetToSeq(PlayersIn(r))) |->
                                f[SetToSeq(PlayersIn(r))[i]]])
           m == [h EXCEPT ![Room(r)] = Writes]
<1>1. /\ Room(r) \in Locks /\ Room(r) # Clients /\ Room(r) \in RoomLocks
      /\ \A q \in Rooms : Room(r) = Room(q) => r = q
      /\ r \in Nat /\ r # 0 /\ (r # 1 => r - 1 \in Rooms /\ r - 1 # 0 /\ r - 1 # r)
  BY LockFacts, LocksAssumption DEF Rooms, RoomLocks
<1>2. /\ h \in Holding /\ h[Room(r)] = 0 /\ h[Clients] = 0 /\ NoPlayer(h)
      /\ \A q \in Rooms : h[Room(q)] > 0 => h[Room(q)] = Writes /\ q = r - 1
  <2>1. CASE r = 1
    <3>1. h = Nothing
      BY <2>1 DEF AtRoom
    <3>2. QED BY <1>1, <3>1, NoneHeld, LockFacts DEF NoPlayer
  <2>2. CASE r # 1
    <3>1. r - 1 \in Rooms
      BY <1>1, <2>2
    <3>2. /\ h \in Holding /\ h[Room(r - 1)] = Writes /\ h[Clients] = 0 /\ NoPlayer(h)
          /\ \A l \in Locks : l # Room(r - 1) => h[l] = 0
          /\ \A q \in Rooms : h[Room(q)] > 0 => q = r - 1
      BY <3>1, AtRoomFacts
    <3>3. Room(r) # Room(r - 1)
      BY <1>1, <2>2, <3>1
    <3>4. QED BY <1>1, <3>2, <3>3
  <2>3. QED BY <2>1, <2>2
<1>3. May(Actor, h, Write(Room(r)))
  BY <1>1, <1>2, MayWrite
<1>4. Runs(Actor, h, a, m) /\ m \in Holding
  BY <1>1, <1>2, <1>3, WriteAndFree
<1>5. Runs(Actor, m, b, k)
  <2>1. CASE r = 1
    <3>1. h = Nothing /\ k = m /\ b = << >>
      BY <1>1, <2>1 DEF AtRoom
    <3>2. QED BY <1>4, <3>1, RunsNone
  <2>2. CASE r # 1
    <3> DEFINE q == r - 1
    <3>1. /\ q \in Rooms /\ Room(q) \in Locks /\ Room(q) # Room(r) /\ b = <<Free(Room(q))>>
          /\ q # 0
      BY <1>1, <2>2, LockFacts
    <3>2. h = [Nothing EXCEPT ![Room(q)] = Writes] /\ k = [Nothing EXCEPT ![Room(r)] = Writes]
      BY <1>1, <3>1 DEF AtRoom
    <3>3. m[Room(q)] = Writes
      BY <3>1, <3>2, NoneHeld DEF Holding
    <3>4. After(m, Free(Room(q))) = [m EXCEPT ![Room(q)] = 0]
      BY <1>4, <3>1, <3>3, AfterStep
    <3>5. [m EXCEPT ![Room(q)] = 0] = k
      BY <1>1, <3>1, <3>2 DEF Nothing
    <3> HIDE DEF m, k, q
    <3>6. m[Room(q)] > 0
      BY <3>3 DEF Writes
    <3>7. k \in Holding
      <4>1. [m EXCEPT ![Room(q)] = 0] \in Holding
        BY <1>4, <3>1 DEF Holding, Writes
      <4>2. QED BY <3>5, <4>1
    <3>8. May(Actor, m, Free(Room(q)))
      BY <1>4, <3>1, <3>6, MayFree
    <3>9. Runs(Actor, m, <<Free(Room(q))>>, k)
      BY <1>4, <3>4, <3>5, <3>7, <3>8, RunsOne
    <3>10. QED BY <3>1, <3>9
  <2>3. QED BY <2>1, <2>2
<1>6. c \in Seq(S) /\ Runs(Actor, k, c, k)
  <2>1. \A p \in PlayersIn(r) : f[p] \in Seq(S) /\ Runs(Actor, k, f[p], k)
    BY ListedPlayerRuns
  <2>2. k \in Holding
    BY AtRoomFacts
  <2> HIDE DEF f, S, k
  <2>3. d \in Seq(S) /\ Runs(Actor, k, d, k)
    BY <2>1, <2>2, EachPlayerRuns
  <2>4. \A i \in 1 .. Len(SetToSeq(PlayersIn(r))) :
           f[SetToSeq(PlayersIn(r))[i]] = ListedPlayer(SetToSeq(PlayersIn(r))[i])
    <3>1. \A i \in 1 .. Len(SetToSeq(PlayersIn(r))) : SetToSeq(PlayersIn(r))[i] \in PlayersIn(r)
      BY ListOfPlayers
    <3>2. QED BY <3>1 DEF f
  <2>5. [i \in 1 .. Len(SetToSeq(PlayersIn(r))) |-> f[SetToSeq(PlayersIn(r))[i]]]
        = [i \in 1 .. Len(SetToSeq(PlayersIn(r))) |-> ListedPlayer(SetToSeq(PlayersIn(r))[i])]
    BY <2>4
  <2>6. QED BY <2>3, <2>5
<1>7. a \in Seq(S) /\ b \in Seq(S)
  <2>1. a \in Seq(S)
    BY <1>1, SingleLocks
  <2>2. CASE r = 1
    BY <2>1, <2>2
  <2>3. CASE r # 1
    <3>1. Room(r - 1) \in Locks
      BY <1>1, <2>3, LockFacts
    <3>2. QED BY <2>1, <2>3, <3>1, SingleLocks
  <2>4. QED BY <2>2, <2>3
<1>8. ListedRoom(r) = (a \o b) \o c
  BY DEF ListedRoom
<1> HIDE DEF a, b, c, m, h, k, S
<1>9. a \o b \in Seq(S) /\ (a \o b) \o c \in Seq(S)
  BY <1>6, <1>7
<1>10. Runs(Actor, h, a \o b, k)
  BY <1>4, <1>5, <1>7, RunsThen
<1>11. Runs(Actor, h, (a \o b) \o c, k)
  BY <1>6, <1>9, <1>10, RunsThen
<1> QED
  BY <1>8, <1>9, <1>11 DEF h, k, S

LEMMA PlayerListRuns == Part(Actor, OfServer, Nothing, PlayerListScript, Nothing)
<1> DEFINE S == LockSteps
           ss == [r \in Rooms |-> ListedRoom(r)]
           hs == [i \in 1 .. LastRoom + 1 |-> AtRoom(i - 1)]
           a == FlattenSeq(ss)
           b == <<Free(Room(LastRoom))>>
           k == AtRoom(LastRoom)
<1>1. LastRoom \in Nat /\ LastRoom # 0 /\ LastRoom \in Rooms /\ Rooms = 1 .. LastRoom
  BY LocksAssumption DEF Rooms
<1>2. \A r \in Rooms : ss[r] \in Seq(S) /\ Runs(Actor, AtRoom(r - 1), ss[r], AtRoom(r))
  BY ListedRoomRuns
<1>3. ss \in Seq(Seq(S)) /\ Len(ss) = LastRoom
  BY <1>1, <1>2
<1>4. \A i \in 0 .. LastRoom : AtRoom(i) \in Holding
  <2>1. AtRoom(0) \in Holding
    BY NoneHeld DEF AtRoom
  <2>2. \A r \in Rooms : AtRoom(r) \in Holding
    BY AtRoomFacts
  <2>3. QED BY <1>1, <2>1, <2>2
<1>5. hs \in [1 .. Len(ss) + 1 -> Holding] /\ hs[1] = AtRoom(0) /\ hs[Len(ss) + 1] = AtRoom(LastRoom)
      /\ \A i \in 1 .. Len(ss) : hs[i] = AtRoom(i - 1) /\ hs[i + 1] = AtRoom(i)
  <2>1. \A i \in 1 .. LastRoom + 1 : i - 1 \in 0 .. LastRoom
    BY <1>1
  <2>2. 1 \in 1 .. LastRoom + 1 /\ LastRoom + 1 \in 1 .. LastRoom + 1
        /\ 1 - 1 = 0 /\ (LastRoom + 1) - 1 = LastRoom
    BY <1>1
  <2>3. \A i \in 1 .. LastRoom : i \in 1 .. LastRoom + 1 /\ i + 1 \in 1 .. LastRoom + 1 /\ (i + 1) - 1 = i
    BY <1>1
  <2>4. QED BY <1>3, <1>4, <2>1, <2>2, <2>3
<1> HIDE DEF ss, hs, S
<1>6. a \in Seq(S) /\ Runs(Actor, AtRoom(0), a, k)
  <2>1. \A i \in 1 .. Len(ss) : Runs(Actor, hs[i], ss[i], hs[i + 1])
    BY <1>1, <1>2, <1>3, <1>5
  <2>2. FlattenSeq(ss) \in Seq(S) /\ Runs(Actor, hs[1], FlattenSeq(ss), hs[Len(ss) + 1])
    BY <1>3, <1>5, <2>1, FlattenRuns
  <2>3. QED BY <1>5, <2>2
<1>7. Runs(Actor, k, b, Nothing)
  <2>1. Room(LastRoom) \in Locks
    BY <1>1, LockFacts
  <2>2. Nothing \in Holding /\ Nothing[Room(LastRoom)] = 0
    BY <2>1, NoneHeld
  <2>3. k = [Nothing EXCEPT ![Room(LastRoom)] = Writes]
    BY <1>1 DEF AtRoom
  <2>4. QED BY <2>1, <2>2, <2>3, FreshMay, WriteAndFree
<1>8. b \in Seq(S)
  BY <1>1, LockFacts, SingleLocks DEF S
<1>9. PlayerListScript = a \o b /\ AtRoom(0) = Nothing
  BY DEF PlayerListScript, ss, AtRoom
<1> HIDE DEF a, b, k
<1>10. a \o b \in Seq(S) /\ Runs(Actor, Nothing, a \o b, Nothing)
  BY <1>6, <1>7, <1>8, <1>9, RunsThen
<1> QED
  BY <1>9, <1>10, LocksPart DEF S

\* Every script of the server keeps to what the server may do, and gives back
\* what it takes.
LEMMA ServerRuns ==
  ASSUME NEW s \in ServerScripts
  PROVE  Part(Actor, OfServer, Nothing, s, Nothing)
<1>1. ASSUME NEW r \in Rooms, s = JoinScript(r)
      PROVE  Part(Actor, OfServer, Nothing, s, Nothing)
  BY <1>1, JoinRuns
<1>2. ASSUME NEW p \in Playing,
             s \in {LeaveScript(p), ChatScript(p), CosmeticsScript(p), Look(p),
                    WriteOnce(Player(p)), ReadOnce(Clients) \o ReadOnce(Room(RoomOf[p]))}
      PROVE  Part(Actor, OfServer, Nothing, s, Nothing)
  <2>1. Player(p) \in Locks /\ Clients \in Locks /\ Room(RoomOf[p]) \in Locks
    BY LockFacts
  <2>2. Part(Actor, OfServer, Nothing, Look(p), Nothing)
    <3> DEFINE k == [Nothing EXCEPT ![Player(p)] = @ + 1]
    <3>1. /\ Nothing \in Holding /\ Nothing[Player(p)] < 2 /\ Nothing[Clients] < 2
      BY <2>1, NoneHeld
    <3>2. k \in Holding /\ k[Clients] = 0
      BY <2>1, <3>1, NoneHeld, LockFacts DEF Holding, Writes
    <3> HIDE DEF k
    <3>3. k[Clients] # Writes /\ k[Clients] < 2 /\ Clients \notin RoomLocks
          /\ \A q \in Playing : Clients # Player(q)
      BY <3>2, LockFacts DEF Writes
    <3>4. May(Actor, k, Read(Clients))
      BY <2>1, <3>2, <3>3, MayRead
    <3>5. May(Actor, Nothing, Read(Player(p)))
      BY <2>1, FreshMay
    <3>6. Runs(Actor, Nothing, Look(p), Nothing)
      BY <3>1, <3>4, <3>5, LookRuns DEF k
    <3>7. QED BY <3>6, LookSteps, LocksPart
  <2>3. Part(Actor, OfServer, Nothing, WriteOnce(Player(p)), Nothing)
    BY <2>1, FreshParts
  <2>4. Part(Actor, OfServer, Nothing, ReadOnce(Clients) \o ReadOnce(Room(RoomOf[p])), Nothing)
    BY <2>1, FreshParts, PartThen
  <2>5. QED BY <1>2, <2>2, <2>3, <2>4, LeaveRuns, ChatRuns, CosmeticsRuns
<1>3. ASSUME s \in {PlayerListScript, KickScript, WriteOnce(Clients)}
      PROVE  Part(Actor, OfServer, Nothing, s, Nothing)
  BY <1>3, PlayerListRuns, KickRuns, FreshParts, LockFacts
<1> QED
  BY <1>1, <1>2, <1>3 DEF ServerScripts

-----------------------------------------------------------------------------
(* The workers' jobs *)

\* A worker that begins a job, makes a call or waits holds rooms only, to read.
Calm(h) == OnlyRooms(h) /\ Shares(h)

\* The other steps of the job whose last step is f.
StepsOf(f) ==
    IF f[1] = "end"
    THEN {Read(Room(f[2])), Free(Room(f[2])), Await(Room(f[2]))} \cup Forks(Room(f[2]))
            \cup {Read(l) : l \in PlayerLocks} \cup {Free(l) : l \in PlayerLocks}
    ELSE LET kind == f[3][1]
             l == Player(f[3][2])
         IN  IF kind = "look" THEN {Read(l), Read(Clients), Free(Clients), Free(l)}
             ELSE IF kind \in {"skin", "cosmetics"} THEN {Read(l), Write(l), Free(l)}
             ELSE IF kind = "message" THEN Forks(l) \cup {Await(l)}
             ELSE {}

\* The step y may come after x in what a worker has left to do.
Adjacent(x, y) ==
    /\ x \in Ends => y[1] = "await"
    /\ x[1] = "fork" => y = Await(x[2])
    /\ y[1] = "await" => x \in Ends \/ x[1] = "fork"
    /\ y[1] = "end" => x = Free(Room(y[2]))
    /\ \A r \in Rooms : (x = Free(Room(r)) => y = <<"end", r>>) /\ y # Read(Room(r))
    /\ \A p \in Playing : x = Await(Player(p)) => y \in Ends

\* A job as it is begun.
Job(w, h, s, f) ==
    /\ s \in Seq(Steps) /\ s # << >> /\ s[Len(s)] = f /\ f \in Ends
    /\ \A i \in 1 .. Len(s) - 1 : s[i] \in StepsOf(f) /\ Adjacent(s[i], s[i + 1])
    /\ Runs(w, h, s, h)

LEMMA EndFacts ==
  /\ \A f \in Ends : f[1] \in {"done", "end"}
  /\ \A f \in Ends : f[1] = "end" => f[2] \in Rooms /\ f = <<"end", f[2]>>
  /\ \A f \in Ends : f[1] = "done" => f[2] \in Groups /\ f[3] \in PiecesFor(f[2])
                                      /\ f = <<"done", f[2], f[3]>>
  /\ \A g : \A f \in Forks(g) : f[1] = "fork" /\ f[2] = g /\ f[3] \in SUBSET PiecesFor(g)
  /\ Ends \subseteq Steps /\ \A g \in Groups : CallSteps(g) \subseteq Steps
  /\ LockSteps \subseteq Steps
<1>1. \A f \in Ends : f[1] \in {"done", "end"}
  BY DEF Ends
<1>2. \A f \in Ends : f[1] = "end" => f[2] \in Rooms /\ f = <<"end", f[2]>>
  BY DEF Ends
<1>3. \A f \in Ends : f[1] = "done" => f[2] \in Groups /\ f[3] \in PiecesFor(f[2])
                                       /\ f = <<"done", f[2], f[3]>>
  BY DEF Ends
<1>4. \A g : \A f \in Forks(g) : f[1] = "fork" /\ f[2] = g /\ f[3] \in SUBSET PiecesFor(g)
  BY DEF Forks
<1>5. Ends \subseteq Steps /\ \A g \in Groups : CallSteps(g) \subseteq Steps
  <2>1. ASSUME NEW x \in Ends PROVE x \in Steps
    BY <2>1 DEF Steps
  <2>2. ASSUME NEW g \in Groups, NEW x \in CallSteps(g) PROVE x \in Steps
    BY <2>2 DEF Steps
  <2>3. QED BY <2>1, <2>2
<1>6. LockSteps \subseteq Steps
  BY <1>5, LockFacts, LockStepFacts
<1> QED
  BY <1>1, <1>2, <1>3, <1>4, <1>5, <1>6

LEMMA CalmFacts ==
  ASSUME NEW h \in Holding, Calm(h)
  PROVE  /\ h[Clients] = 0 /\ \A l \in PlayerLocks : h[l] = 0
         /\ \A l \in Locks : h[l] < Writes
<1>1. \A l \in Locks : h[l] \in 0 .. 3
  BY DEF Holding, Writes
<1>2. \A l \in Locks : l \notin RoomLocks => h[l] = 0
  BY <1>1 DEF Calm, OnlyRooms
<1>3. \A l \in Locks : h[l] < Writes
  BY <1>1 DEF Calm, Shares, Writes
<1> QED
  BY <1>2, <1>3, LockFacts

LEMMA CalmMay ==
  ASSUME NEW w \in Workers, NEW h \in Holding, Calm(h)
  PROVE  /\ \A l \in PlayerLocks : May(w, h, Read(l)) /\ May(w, h, Write(l))
         /\ \A x : x[1] \in {"fork", "await", "done"} => May(w, h, x)
         /\ \A r \in Rooms : h[Room(r)] = 0 =>
               May(w, h, Read(Room(r))) /\ May(w, h, <<"end", r>>)
<1>1. w # Actor
  BY LocksAssumption
<1>2. /\ \A l : Read(l)[1] = "read" /\ Write(l)[1] = "write" /\ Write(l)[2] = l
      /\ \A l : \A m : Read(l) = Read(m) => l = m
      /\ \A l : \A m : Write(l) # Read(m)
      /\ \A l : \A r : Read(l) # <<"end", r>> /\ Write(l) # <<"end", r>>
  BY DEF Read, Write
<1>3. /\ \A l \in PlayerLocks : l # Clients /\ \A r \in Rooms : l # Room(r)
      /\ \A r \in Rooms : Room(r) # Clients
      /\ \A r, q \in Rooms : Room(r) = Room(q) => r = q
  BY LockFacts DEF RoomLocks
<1>4. ASSUME NEW l \in PlayerLocks PROVE May(w, h, Read(l)) /\ May(w, h, Write(l))
  BY <1>1, <1>2, <1>3 DEF May, WorkerMay, Calm
<1>5. ASSUME NEW x, x[1] \in {"fork", "await", "done"} PROVE May(w, h, x)
  <2>1. x[1] # "free" /\ x[1] # "write" /\ \A l : x # Read(l) /\ x # <<"end", l>>
    BY <1>2, <1>5
  <2>2. QED BY <1>1, <2>1 DEF May, WorkerMay, Calm
<1>6. ASSUME NEW r \in Rooms, h[Room(r)] = 0
      PROVE  May(w, h, Read(Room(r))) /\ May(w, h, <<"end", r>>)
  <2>1. May(w, h, Read(Room(r)))
    BY <1>1, <1>2, <1>3, <1>6 DEF May, WorkerMay, Calm
  <2>2. <<"end", r>>[1] = "end" /\ \A q : <<"end", r>> = <<"end", q>> => q = r
        /\ \A l : <<"end", r>> # Read(l)
    BY DEF Read
  <2>3. \A q \in Rooms : <<"end", r>> = Read(Room(q)) \/ <<"end", r>> = <<"end", q>> => h[Room(q)] = 0
    BY <1>6, <2>2
  <2>4. May(w, h, <<"end", r>>)
    BY <1>1, <2>2, <2>3 DEF May, WorkerMay, Calm
  <2>5. QED BY <2>1, <2>4
<1> QED
  BY <1>4, <1>5, <1>6

\* The end of a job: nothing is taken or given back.
LEMMA EndRuns ==
  ASSUME NEW w, NEW h \in Holding, NEW x, x[1] \in {"fork", "await", "done", "end"}, May(w, h, x)
  PROVE  Runs(w, h, <<x>>, h)
<1>1. After(h, x) = h
  BY DEF After
<1> QED
  BY <1>1, RunsOne

\* What a worker does to one player and is then done with.
LEMMA PlainJob ==
  ASSUME NEW w, NEW h, NEW f \in Ends, f[1] = "done",
         NEW T, T \subseteq StepsOf(f),
         T \subseteq {Read(l) : l \in Locks \ RoomLocks} \cup {Write(l) : l \in Locks \ RoomLocks}
                        \cup {Free(l) : l \in Locks \ RoomLocks},
         NEW s \in Seq(T), Runs(w, h, s, h), Runs(w, h, <<f>>, h)
  PROVE  Job(w, h, s \o <<f>>, f)
<1> DEFINE z == s \o <<f>>
           n == Len(s)
<1>1. T \subseteq Steps
  <2>1. T \subseteq LockSteps
    BY DEF LockSteps
  <2>2. QED BY <2>1, EndFacts
<1>2. s \in Seq(Steps) /\ <<f>> \in Seq(Steps) /\ z \in Seq(Steps)
  BY <1>1, EndFacts
<1>3. Runs(w, h, z, h)
  BY <1>2, RunsThen
<1>4. /\ n \in Nat /\ Len(z) = n + 1 /\ z[n + 1] = f /\ \A i \in 1 .. n : z[i] = s[i] /\ s[i] \in T
      /\ z # << >>
  BY <1>2
<1>5. \A x \in T : /\ x[1] \in {"read", "write", "free"} /\ x \notin Ends
                   /\ \A r \in Rooms : x # Read(Room(r)) /\ x # Free(Room(r))
                   /\ \A l : x # Await(l)
  <2>1. \A r \in Rooms : Room(r) \in RoomLocks
    BY DEF RoomLocks
  <2>2. QED BY <2>1, EndFacts DEF Read, Write, Free, Await
<1>6. /\ \A r \in Rooms : f # Read(Room(r))
      /\ f[1] \notin {"await", "end"}
  BY DEF Read
<1> HIDE DEF z, n
<1>7. ASSUME NEW i \in 1 .. n PROVE z[i] \in StepsOf(f) /\ Adjacent(z[i], z[i + 1])
  <2>1. z[i] \in T
    BY <1>4
  <2>2. z[i + 1] = f \/ z[i + 1] \in T
    BY <1>4
  <2>3. Adjacent(z[i], z[i + 1])
    BY <1>5, <1>6, <2>1, <2>2 DEF Adjacent
  <2>4. QED BY <2>1, <2>3
<1>8. Len(z) - 1 = n
  BY <1>4
<1> QED
  BY <1>2, <1>3, <1>4, <1>7, <1>8 DEF Job, z

\* A player's piece.
LEMMA PieceJob ==
  ASSUME NEW w \in Workers, NEW h \in Holding, Calm(h),
         NEW g \in Groups, NEW x \in PiecesFor(g)
  PROVE  Job(w, h, PieceScript(x[1], x[2]) \o << <<"done", g, x>> >>, <<"done", g, x>>)
<1> DEFINE f == <<"done", g, x>>
           l == Player(x[2])
           r == RoomOf[x[2]]
<1>1. f \in Ends /\ f[1] = "done" /\ f[3] = x /\ f[2] = g
  BY DEF Ends
<1>2. /\ x[1] \in {"look", "skin", "cosmetics", "message", "flags"}
      /\ x[1] # "flags" => x[2] \in Playing
  BY DEF PiecesFor, PlayersIn
<1>3. Runs(w, h, <<f>>, h)
  <2>1. May(w, h, f)
    BY <1>1, CalmMay
  <2> HIDE DEF f
  <2>2. QED BY <1>1, <2>1, EndRuns
<1>4. x[1] # "flags" =>
        /\ l \in Locks \ RoomLocks /\ l \in PlayerLocks /\ l # Clients /\ l \in Groups
        /\ h[l] = 0 /\ May(w, h, Read(l)) /\ May(w, h, Write(l)) /\ r \in Rooms
  <2>1. x[2] \in Playing => l \in PlayerLocks
    BY DEF PlayerLocks
  <2>2. QED BY <1>2, <2>1, LockFacts, CalmFacts, CalmMay
<1>5. Clients \in Locks \ RoomLocks
  BY LockFacts
<1>6. StepsOf(f) = IF x[1] = "look" THEN {Read(l), Read(Clients), Free(Clients), Free(l)}
                   ELSE IF x[1] \in {"skin", "cosmetics"} THEN {Read(l), Write(l), Free(l)}
                   ELSE IF x[1] = "message" THEN Forks(l) \cup {Await(l)}
                   ELSE {}
  BY <1>1 DEF StepsOf
<1> HIDE DEF f, l, r
<1>7. CASE x[1] = "look"
  <2> DEFINE T == {Read(l), Read(Clients), Free(Clients), Free(l)}
             k == [h EXCEPT ![l] = @ + 1]
  <2>1. T \subseteq StepsOf(f)
    BY <1>6, <1>7
  <2>2. T \subseteq {Read(m) : m \in Locks \ RoomLocks} \cup {Write(m) : m \in Locks \ RoomLocks}
                        \cup {Free(m) : m \in Locks \ RoomLocks}
    BY <1>4, <1>5, <1>7
  <2>3. Look(x[2]) \in Seq(T)
    BY DEF Look, l
  <2>4. May(w, k, Read(Clients))
    <3>1. k[Clients] = 0 /\ Shares(k)
      BY <1>4, <1>7, CalmFacts, LockFacts DEF Holding, Shares, Writes
    <3>2. /\ Read(Clients)[1] = "read"
          /\ \A q \in Rooms : Read(Clients) # Read(Room(q)) /\ Read(Clients) # <<"end", q>>
      BY LockFacts DEF Read
    <3> HIDE DEF k
    <3>3. QED BY <3>1, <3>2, LocksAssumption DEF May, WorkerMay
  <2>5. Runs(w, h, Look(x[2]), h)
    BY <1>2, <1>4, <1>7, <2>4, CalmFacts, LookRuns DEF l
  <2>6. PieceScript(x[1], x[2]) = Look(x[2])
    BY <1>7 DEF PieceScript
  <2> HIDE DEF T
  <2>7. Job(w, h, Look(x[2]) \o <<f>>, f)
    BY <1>1, <1>3, <2>1, <2>2, <2>3, <2>5, PlainJob
  <2>8. QED BY <2>6, <2>7 DEF f
<1>8. CASE x[1] \in {"skin", "cosmetics"}
  <2> DEFINE T == {Read(l), Write(l), Free(l)}
             a == ReadOnce(l)
             b == WriteOnce(l)
  <2>1. T \subseteq StepsOf(f)
    BY <1>6, <1>8
  <2>2. T \subseteq {Read(m) : m \in Locks \ RoomLocks} \cup {Write(m) : m \in Locks \ RoomLocks}
                        \cup {Free(m) : m \in Locks \ RoomLocks}
    BY <1>4, <1>8
  <2>3. a \in Seq(T) /\ b \in Seq(T)
    BY DEF ReadOnce, WriteOnce
  <2>4. Runs(w, h, a, h) /\ Runs(w, h, b, h)
    BY <1>4, <1>8, ReadOnceRuns, WriteOnceRuns
  <2>5. PieceScript(x[1], x[2]) = IF x[1] = "skin" THEN a \o b ELSE (a \o a) \o b
    BY <1>8 DEF PieceScript, l
  <2> HIDE DEF T, a, b
  <2>6. a \o b \in Seq(T) /\ a \o a \in Seq(T)
    BY <2>3
  <2>7. Runs(w, h, a \o b, h) /\ Runs(w, h, a \o a, h)
    BY <2>3, <2>4, RunsThen
  <2>8. (a \o a) \o b \in Seq(T) /\ Runs(w, h, (a \o a) \o b, h)
    <3> DEFINE c == a \o a
    <3>1. c \in Seq(T) /\ Runs(w, h, c, h)
      BY <2>6, <2>7
    <3> HIDE DEF c
    <3>2. c \o b \in Seq(T) /\ Runs(w, h, c \o b, h)
      BY <2>3, <2>4, <3>1, RunsThen
    <3>3. QED BY <3>2 DEF c
  <2>9. PieceScript(x[1], x[2]) \in Seq(T) /\ Runs(w, h, PieceScript(x[1], x[2]), h)
    BY <2>5, <2>6, <2>7, <2>8
  <2>10. Job(w, h, PieceScript(x[1], x[2]) \o <<f>>, f)
    BY <1>1, <1>3, <2>1, <2>2, <2>9, PlainJob
  <2>11. QED BY <2>10 DEF f
<1>9. CASE x[1] = "message"
  <2> DEFINE y == Fork(l, "look", PlayersIn(r))
             z == Await(l)
             s == PieceScript(x[1], x[2]) \o <<f>>
  <2>1. y \in Forks(l) /\ z \in StepsOf(f) /\ y \in StepsOf(f)
    <3>1. {<<"look", p>> : p \in PlayersIn(r)} \in SUBSET PiecesFor(l)
      BY <1>2, <1>9, LockFacts DEF PiecesFor, PlayersIn, l, Player
    <3>2. QED BY <1>6, <1>9, <3>1 DEF Forks, Fork
  <2>2. /\ y[1] = "fork" /\ y[2] = l /\ z[1] = "await" /\ z[2] = l
        /\ \A q : y # Free(q) /\ z # Free(q) /\ z # Read(q) /\ f # Read(q) /\ y # Await(q)
        /\ f[1] # "fork" /\ f[1] # "await" /\ f[1] # "end" /\ z[1] # "fork" /\ z[1] # "end"
    BY <1>1 DEF Fork, Await, Free, Read
  <2>3. PieceScript(x[1], x[2]) = <<y, z>>
    BY <1>9 DEF PieceScript, Broadcast, ForAll, l, r
  <2>4. May(w, h, y) /\ May(w, h, z)
    BY <2>2, CalmMay
  <2>5. y \in Steps /\ z \in Steps /\ f \in Steps
    <3>1. y \in CallSteps(l) /\ z \in CallSteps(l)
      BY <2>1 DEF CallSteps
    <3>2. QED BY <1>1, <1>4, <1>9, <3>1, EndFacts
  <2>6. y \notin Ends /\ z \notin Ends
    BY <2>2, EndFacts
  <2> HIDE DEF y
  <2>7. Runs(w, h, <<y>>, h) /\ Runs(w, h, <<z>>, h)
    BY <2>2, <2>4, EndRuns
  <2>13. z = Await(y[2]) /\ z = Await(l)
    BY <2>2
  <2> HIDE DEF z
  <2>8. /\ <<y>> \in Seq(Steps) /\ <<z>> \in Seq(Steps)
        /\ <<f>> \in Seq(Steps) /\ <<y, z>> \in Seq(Steps)
    BY <2>5
  <2>15. <<y, z>> = <<y>> \o <<z>>
    BY TwoSteps
  <2>9. Runs(w, h, s, h) /\ s \in Seq(Steps)
    <3>1. Runs(w, h, <<y, z>>, h)
      BY <2>7, <2>8, <2>15, RunsThen
    <3> DEFINE a == <<y, z>>
               b == <<f>>
    <3>2. a \in Seq(Steps) /\ b \in Seq(Steps) /\ Runs(w, h, a, h) /\ Runs(w, h, b, h)
      BY <1>3, <2>8, <3>1
    <3>3. s = a \o b
      BY <2>3
    <3> HIDE DEF a, b, s
    <3>4. QED BY <3>2, <3>3, RunsThen
  <2>10. /\ Len(s) = 3 /\ s[1] = y /\ s[2] = z /\ s[3] = f /\ s # << >>
         /\ \A i \in 1 .. 2 : i = 1 \/ i = 2
    BY <2>3
  <2> HIDE DEF s
  <2>11. Adjacent(y, z) /\ Adjacent(z, f)
    <3>1. Adjacent(y, z)
      BY <2>2, <2>6, <2>13 DEF Adjacent
    <3>2. Adjacent(z, f)
      BY <1>1, <2>2, <2>6 DEF Adjacent
    <3>3. QED BY <3>1, <3>2
  <2>12. Job(w, h, s, f)
    BY <1>1, <2>1, <2>9, <2>10, <2>11 DEF Job
  <2>14. QED BY <2>12 DEF s, f
<1>10. CASE x[1] = "flags"
  <2>1. PieceScript(x[1], x[2]) = << >>
    BY <1>10 DEF PieceScript
  <2>2. PieceScript(x[1], x[2]) \o <<f>> = <<f>>
    BY <2>1
  <2>3. Job(w, h, <<f>>, f)
    <3>1. <<f>> \in Seq(Steps) /\ Len(<<f>>) = 1 /\ <<f>>[1] = f /\ <<f>> # << >>
          /\ \A i \in 1 .. 1 - 1 : FALSE
      BY <1>1, EndFacts
    <3>2. QED BY <1>1, <1>3, <3>1 DEF Job
  <2>4. QED BY <2>2, <2>3 DEF f
<1> QED
  BY <1>2, <1>7, <1>8, <1>9, <1>10

\* The steps of a room's job between its first and its last two.
BodySteps(r) ==
    Forks(Room(r)) \cup {Await(Room(r))}
        \cup {Read(l) : l \in PlayerLocks} \cup {Free(l) : l \in PlayerLocks}

\* The part of a room's job under its guard.
Body(w, r, k, s) == s \in Seq(BodySteps(r)) /\ Part(w, Room(r), k, s, k)

LEMMA BodyThen ==
  ASSUME NEW w, NEW r, NEW k, NEW a, NEW b, Body(w, r, k, a), Body(w, r, k, b)
  PROVE  Body(w, r, k, a \o b)
<1> DEFINE S == BodySteps(r)
<1>1. a \in Seq(S) /\ b \in Seq(S)
  BY DEF Body
<1> HIDE DEF S
<1>2. a \o b \in Seq(S)
  BY <1>1
<1>3. Part(w, Room(r), k, a \o b, k)
  BY PartThen DEF Body
<1> QED
  BY <1>2, <1>3 DEF Body, S

\* A call is made and awaited.
LEMMA CallBody ==
  ASSUME NEW w \in Workers, NEW r \in Rooms, NEW k \in Holding, Calm(k),
         NEW x \in Forks(Room(r))
  PROVE  Body(w, r, k, <<x, Await(Room(r))>>)
<1> DEFINE g == Room(r)
           y == Await(g)
<1>1. x[1] = "fork" /\ y[1] = "await" /\ y = Await(g)
  BY EndFacts DEF Await
<1>2. May(w, k, x) /\ May(w, k, y)
  BY <1>1, CalmMay
<1>3. Runs(w, k, <<x>>, k) /\ Runs(w, k, <<y>>, k)
  BY <1>1, <1>2, EndRuns
<1>4. x \in BodySteps(r) /\ y \in BodySteps(r) /\ x \in CallSteps(g) /\ y \in CallSteps(g)
  BY DEF BodySteps, CallSteps
<1> HIDE DEF y
<1>5. Runs(w, k, <<x, y>>, k)
  <2>1. <<x>> \in Seq(CallSteps(g)) /\ <<y>> \in Seq(CallSteps(g))
    BY <1>4
  <2>2. Runs(w, k, <<x>> \o <<y>>, k)
    BY <1>3, <2>1, RunsThen
  <2>3. QED BY <2>2, TwoSteps
<1>6. Len(<<x, y>>) = 2 /\ <<x, y>>[1] = x /\ <<x, y>>[2] = y
      /\ \A i \in 1 .. 2 : i = 1 \/ i = 2
  OBVIOUS
<1>7. Paired(g, <<x, y>>)
  BY <1>1, <1>6 DEF Paired
<1>8. <<x, y>> \in Seq(BodySteps(r)) /\ <<x, y>> \in Seq(CallSteps(g))
  BY <1>4
<1> QED
  BY <1>5, <1>7, <1>8 DEF Body, Part, y

\* Each player of the room is read.
LEMMA ReadersBody ==
  ASSUME NEW w \in Workers, NEW r \in Rooms, NEW k \in Holding, Calm(k)
  PROVE  Body(w, r, k, FlattenSeq([i \in 1 .. Len(SetToSeq(PlayersIn(r))) |->
                           ReadOnce(Player(SetToSeq(PlayersIn(r))[i]))]))
<1> DEFINE S == {Read(l) : l \in PlayerLocks} \cup {Free(l) : l \in PlayerLocks}
           f == [p \in PlayersIn(r) |-> ReadOnce(Player(p))]
           ps == SetToSeq(PlayersIn(r))
           a == FlattenSeq([i \in 1 .. Len(ps) |-> ReadOnce(Player(ps[i]))])
           b == FlattenSeq([i \in 1 .. Len(ps) |-> f[ps[i]]])
<1>1. ASSUME NEW p \in PlayersIn(r)
      PROVE  f[p] \in Seq(S) /\ Runs(w, k, f[p], k)
  <2> DEFINE l == Player(p)
  <2>1. p \in Playing /\ l \in PlayerLocks
    BY DEF PlayersIn, PlayerLocks
  <2>2. l \in Locks /\ k[l] = 0 /\ May(w, k, Read(l))
    BY <2>1, LockFacts, CalmFacts, CalmMay
  <2>3. Runs(w, k, ReadOnce(l), k)
    BY <2>2, ReadOnceRuns
  <2>4. ReadOnce(l) \in Seq(S)
    BY <2>1 DEF ReadOnce
  <2> HIDE DEF S
  <2>5. QED BY <2>3, <2>4
<1>2. S \subseteq LockSteps
  BY LockFacts DEF LockSteps
<1>3. S \subseteq BodySteps(r)
  BY DEF BodySteps
<1>4. a = b
  <2>1. ps \in Seq(PlayersIn(r))
    BY ListOfPlayers
  <2> HIDE DEF ps
  <2>2. \A i \in 1 .. Len(ps) : f[ps[i]] = ReadOnce(Player(ps[i]))
    BY <2>1
  <2> HIDE DEF f
  <2>3. [i \in 1 .. Len(ps) |-> ReadOnce(Player(ps[i]))] = [i \in 1 .. Len(ps) |-> f[ps[i]]]
    BY <2>2
  <2>4. QED BY <2>3
<1> HIDE DEF S, f
<1>5. b \in Seq(S) /\ Runs(w, k, b, k)
  BY <1>1, EachPlayerRuns
<1> HIDE DEF a, b
<1>6. b \in Seq(LockSteps) /\ b \in Seq(BodySteps(r))
  BY <1>2, <1>3, <1>5
<1>7. Body(w, r, k, b)
  BY <1>5, <1>6, LocksPart DEF Body
<1> QED
  BY <1>4, <1>7 DEF a, ps

LEMMA CallsOfRooms ==
  ASSUME NEW r \in Rooms
  PROVE  /\ Fork(Room(r), "flags", {r}) \in Forks(Room(r))
         /\ \A kind \in {"look", "skin", "message"} :
               Fork(Room(r), kind, PlayersIn(r)) \in Forks(Room(r))
<1>1. PiecesFor(Room(r)) = {<<k, p>> : k \in {"look", "skin", "message"}, p \in PlayersIn(r)}
                              \cup {<<"flags", r>>}
  BY LockFacts DEF PiecesFor, Room
<1>2. {<<"flags", p>> : p \in {r}} \in SUBSET PiecesFor(Room(r))
  BY <1>1
<1>3. ASSUME NEW kind \in {"look", "skin", "message"}
      PROVE  {<<kind, p>> : p \in PlayersIn(r)} \in SUBSET PiecesFor(Room(r))
  BY <1>1
<1> QED
  BY <1>2, <1>3 DEF Forks, Fork

\* What is left of a room's job under its guard, for each of the loop's calls.
LEMMA RoomBody ==
  ASSUME NEW w \in Workers, NEW r \in Rooms, NEW k \in Holding, Calm(k),
         NEW kind \in {"flags", "data", "skins", "valid"}
  PROVE  \E s : Body(w, r, k, s)
                /\ RoomScript(kind, r) = (<<Read(Room(r))>> \o s) \o <<Free(Room(r)), <<"end", r>>>>
<1> DEFINE l == Room(r)
           look == ForAll(l, "look", r)
           skin == ForAll(l, "skin", r)
           message == ForAll(l, "message", r)
           flags == <<Fork(l, "flags", {r}), Await(l)>>
           each == FlattenSeq([i \in 1 .. Len(SetToSeq(PlayersIn(r))) |->
                           ReadOnce(Player(SetToSeq(PlayersIn(r))[i]))])
<1>1. Body(w, r, k, look) /\ Body(w, r, k, skin) /\ Body(w, r, k, message)
  BY CallBody, CallsOfRooms DEF ForAll
<1>2. Body(w, r, k, flags)
  BY CallBody, CallsOfRooms
<1>3. Body(w, r, k, each)
  BY ReadersBody
<1>4. /\ kind = "flags" => RoomScript(kind, r) = (<<Read(l)>> \o flags) \o <<Free(l), <<"end", r>>>>
      /\ kind = "data" => RoomScript(kind, r) = (<<Read(l)>> \o (look \o look)) \o <<Free(l), <<"end", r>>>>
      /\ kind = "skins" => RoomScript(kind, r) = (<<Read(l)>> \o (skin \o message)) \o <<Free(l), <<"end", r>>>>
      /\ kind = "valid" => RoomScript(kind, r) = (<<Read(l)>> \o (each \o look)) \o <<Free(l), <<"end", r>>>>
  <2> HIDE DEF each
  <2>1. kind = "flags" => RoomScript(kind, r) = (<<Read(l)>> \o flags) \o <<Free(l), <<"end", r>>>>
    BY DEF RoomScript
  <2>2. kind = "data" => RoomScript(kind, r) = (<<Read(l)>> \o (look \o look)) \o <<Free(l), <<"end", r>>>>
    BY DEF RoomScript, Broadcast
  <2>3. kind = "skins" => RoomScript(kind, r) = (<<Read(l)>> \o (skin \o message)) \o <<Free(l), <<"end", r>>>>
    BY DEF RoomScript
  <2>4. kind = "valid" => RoomScript(kind, r) = (<<Read(l)>> \o (each \o look)) \o <<Free(l), <<"end", r>>>>
    BY DEF RoomScript, Broadcast, each
  <2>5. QED BY <2>1, <2>2, <2>3, <2>4
<1> HIDE DEF look, skin, message, flags, each, l
<1>5. Body(w, r, k, look \o look) /\ Body(w, r, k, skin \o message) /\ Body(w, r, k, each \o look)
  BY <1>1, <1>3, BodyThen
<1> QED
  BY <1>2, <1>4, <1>5 DEF l

LEMMA RoomJob ==
  ASSUME NEW w \in Workers, NEW r \in Rooms, NEW h \in Holding, Calm(h), h[Room(r)] = 0,
         NEW kind \in {"flags", "data", "skins", "valid"}
  PROVE  Job(w, h, RoomScript(kind, r), <<"end", r>>) /\ RoomScript(kind, r)[1] = Read(Room(r))
<1> DEFINE l == Room(r)
           k == [h EXCEPT ![l] = @ + 1]
           f == <<"end", r>>
           x == Read(l)
           y == Free(l)
<1>1. /\ l \in Locks /\ l \in RoomLocks /\ l \notin PlayerLocks /\ h[l] < 2
      /\ l \in Groups /\ \A q \in Rooms : Room(q) = l => q = r
  BY LockFacts DEF RoomLocks
<1>2. May(w, h, x) /\ May(w, h, f)
  BY CalmMay
<1>3. k \in Holding /\ Runs(w, h, <<x>>, k) /\ Runs(w, k, <<y>>, h)
  BY <1>1, <1>2, ReadAndFree
<1>4. Calm(k)
  BY <1>1 DEF Calm, OnlyRooms, Shares, Holding, Writes
<1>5. Runs(w, h, <<f>>, h)
  BY <1>2, EndRuns
<1>6. PICK s : Body(w, r, k, s) /\ RoomScript(kind, r) = (<<x>> \o s) \o <<y, f>>
  BY <1>3, <1>4, RoomBody
<1>7. /\ s \in Seq(BodySteps(r)) /\ Paired(l, s) /\ Runs(w, k, s, k)
  BY <1>6 DEF Body, Part
<1> DEFINE z == RoomScript(kind, r)
           n == Len(s)
           S == BodySteps(r)
<1>8. /\ f \in Ends /\ f[1] = "end" /\ f[2] = r
  BY DEF Ends
<1>9. /\ x \in StepsOf(f) /\ y \in StepsOf(f) /\ S \subseteq StepsOf(f)
  BY <1>8 DEF StepsOf, BodySteps
<1>10. x \in Steps /\ y \in Steps /\ f \in Steps /\ S \subseteq Steps
  <2>1. x \in LockSteps /\ y \in LockSteps
    BY <1>1, LockStepFacts
  <2>2. S \subseteq CallSteps(l)
    <3>1. \A m \in PlayerLocks : Read(m) \in LockSteps /\ Free(m) \in LockSteps
      BY LockFacts, LockStepFacts
    <3>2. QED BY <3>1 DEF BodySteps, CallSteps
  <2>3. QED BY <1>1, <1>8, <2>1, <2>2, EndFacts
<1>11. /\ x[1] = "read" /\ y[1] = "free" /\ y = Free(Room(f[2]))
       /\ \A q : x # Free(q) /\ x # Await(q) /\ y # Read(q) /\ y # Await(q) /\ f # Read(q)
       /\ \A q \in Rooms : y = Free(Room(q)) => q = r
       /\ x \notin Ends /\ y \notin Ends /\ f = <<"end", r>>
  <2>1. /\ x[1] = "read" /\ y[1] = "free" /\ y = Free(Room(f[2]))
        /\ \A q : x # Free(q) /\ x # Await(q) /\ y # Read(q) /\ y # Await(q) /\ f # Read(q)
    BY DEF Read, Free, Await
  <2>2. \A q \in Rooms : y = Free(Room(q)) => q = r
    BY <1>1 DEF Free
  <2>3. QED BY <2>1, <2>2, EndFacts
<1>12. \A u \in S : /\ u[1] \in {"read", "free", "fork", "await"} /\ u \notin Ends
                    /\ u[1] = "fork" => u[2] = l
                    /\ \A q \in Rooms : u # Read(Room(q)) /\ u # Free(Room(q))
                    /\ \A p \in Playing : u # Await(Player(p))
  <2> SUFFICES ASSUME NEW u \in S
               PROVE  /\ u[1] \in {"read", "free", "fork", "await"} /\ u \notin Ends
                      /\ u[1] = "fork" => u[2] = l
                      /\ \A q \in Rooms : u # Read(Room(q)) /\ u # Free(Room(q))
                      /\ \A p \in Playing : u # Await(Player(p))
    OBVIOUS
  <2>1. CASE u \in Forks(l)
    BY <2>1, EndFacts DEF Read, Free, Await
  <2>2. CASE u = Await(l)
    BY <2>2, EndFacts, LockFacts DEF Read, Free, Await
  <2>3. CASE u \in {Read(m) : m \in PlayerLocks} \cup {Free(m) : m \in PlayerLocks}
    <3>1. PICK m \in PlayerLocks : u = Read(m) \/ u = Free(m)
      BY <2>3
    <3>2. \A q \in Rooms : Room(q) # m
      BY <3>1, LockFacts DEF RoomLocks
    <3>3. QED BY <3>1, <3>2, EndFacts DEF Read, Free, Await
  <2>4. QED BY <2>1, <2>2, <2>3 DEF BodySteps
<1> HIDE DEF x, y, f, k, l, S
<1>13. <<y, f>> = <<y>> \o <<f>>
  BY TwoSteps
<1>14. s \in Seq(S) /\ s \in Seq(Steps) /\ <<x>> \in Seq(Steps) /\ <<y>> \in Seq(Steps)
       /\ <<f>> \in Seq(Steps) /\ <<y, f>> \in Seq(Steps)
  BY <1>7, <1>10 DEF S
<1>15. Runs(w, h, <<x>> \o s, k) /\ <<x>> \o s \in Seq(Steps)
  <2> DEFINE a == <<x>>
  <2>1. a \in Seq(Steps) /\ Runs(w, h, a, k)
    BY <1>3, <1>14
  <2> HIDE DEF a
  <2>2. Runs(w, h, a \o s, k) /\ a \o s \in Seq(Steps)
    BY <1>7, <1>14, <2>1, RunsThen
  <2>3. QED BY <2>2 DEF a
<1>16. Runs(w, k, <<y>> \o <<f>>, h)
  BY <1>3, <1>5, <1>14, RunsThen
<1>17. Runs(w, h, z, h) /\ z \in Seq(Steps)
  <2> DEFINE a == <<x>> \o s
             b == <<y, f>>
  <2>1. a \in Seq(Steps) /\ b \in Seq(Steps) /\ Runs(w, h, a, k) /\ Runs(w, k, b, h) /\ z = a \o b
    BY <1>6, <1>13, <1>14, <1>15, <1>16
  <2> HIDE DEF a, b, z
  <2>2. QED BY <2>1, RunsThen
<1>18. /\ n \in Nat /\ Len(z) = n + 3 /\ z[1] = x /\ z[n + 2] = y /\ z[n + 3] = f
       /\ \A i \in 2 .. n + 1 : z[i] = s[i - 1] /\ s[i - 1] \in S
       /\ z # << >>
  BY <1>6, <1>14
<1>19. \A i \in 1 .. n : /\ s[i][1] = "fork" => i < n /\ s[i + 1] = Await(l)
                         /\ s[i][1] = "await" => i > 1 /\ s[i - 1][1] = "fork"
  BY <1>7 DEF Paired
<1> HIDE DEF z, n
<1>20. ASSUME NEW i \in 1 .. n + 2 PROVE z[i] \in StepsOf(f) /\ Adjacent(z[i], z[i + 1])
  <2>1. CASE i = 1
    <3>1. CASE n = 0
      BY <1>8, <1>9, <1>11, <1>18, <2>1, <3>1 DEF Adjacent
    <3>2. CASE n > 0
      <4>1. 2 \in 2 .. n + 1 /\ 2 - 1 = 1 /\ 1 \in 1 .. n
        BY <1>18, <3>2
      <4>2. z[2] = s[1] /\ s[1] \in S
        BY <1>18, <4>1
      <4>3. s[1][1] # "await" /\ s[1][1] # "end"
        BY <1>12, <1>19, <4>1, <4>2
      <4>4. QED BY <1>9, <1>11, <1>12, <1>18, <2>1, <4>2, <4>3 DEF Adjacent
    <3>3. QED BY <1>18, <3>1, <3>2
  <2>2. CASE i \in 2 .. n
    <3>1. /\ i - 1 \in 1 .. n /\ i + 1 \in 2 .. n + 1 /\ (i + 1) - 1 = i /\ i \in 1 .. n
          /\ i \in 2 .. n + 1 /\ (i - 1) + 1 = i
      BY <1>18, <2>2
    <3> DEFINE u == s[i - 1]
               v == s[i]
    <3>2. z[i] = u /\ z[i + 1] = v /\ u \in S /\ v \in S
      BY <1>18, <3>1
    <3>3. (u[1] = "fork" => v = Await(l)) /\ (v[1] = "await" => u[1] = "fork")
      BY <1>19, <3>1
    <3> HIDE DEF u, v
    <3>4. v[1] # "end"
      BY <1>12, <3>2
    <3>5. QED BY <1>9, <1>12, <3>2, <3>3, <3>4 DEF Adjacent
  <2>3. CASE i = n + 1 /\ i # 1
    <3>1. i \in 2 .. n + 1 /\ i - 1 = n /\ n \in 1 .. n /\ i + 1 = n + 2
      BY <1>18, <2>3
    <3>2. z[i] = s[n] /\ s[n] \in S /\ z[i + 1] = y /\ s[n][1] # "fork"
      BY <1>18, <1>19, <3>1
    <3>3. QED BY <1>9, <1>11, <1>12, <3>2 DEF Adjacent
  <2>4. CASE i = n + 2
    <3>1. z[i] = y /\ z[i + 1] = f
      BY <1>18, <2>4
    <3>2. \A q \in Rooms : y = Free(Room(q)) => f = <<"end", q>>
      BY <1>11
    <3>3. QED BY <1>8, <1>9, <1>11, <3>1, <3>2 DEF Adjacent
  <2>5. QED BY <1>18, <2>1, <2>2, <2>3, <2>4
<1>21. Job(w, h, z, f)
  <2>1. Len(z) - 1 = n + 2 /\ z[Len(z)] = f
    BY <1>18
  <2>2. QED BY <1>8, <1>17, <1>18, <1>20, <2>1 DEF Job
<1> QED
  BY <1>18, <1>21 DEF z, f, x, l

-----------------------------------------------------------------------------
(* The invariant *)

\* What a worker has left to do is the rest of its jobs, the innermost first.
WorkerShape(s) ==
    /\ \A i \in 1 .. Len(s) :
          \E e \in i .. Len(s) : s[e] \in Ends /\ \A j \in i .. e - 1 : s[j] \in StepsOf(s[e])
    /\ \A i \in 1 .. Len(s) - 1 : Adjacent(s[i], s[i + 1])

ServerShape(s) ==
    /\ \A i \in 1 .. Len(s) : s[i] \in CallSteps(OfServer)
    /\ \A i \in 1 .. Len(s) : s[i][1] = "fork" => i < Len(s) /\ s[i + 1] = Await(OfServer)
    /\ \A i \in 2 .. Len(s) : s[i][1] = "await" => s[i - 1][1] = "fork"

Shapes == (\A w \in Workers : WorkerShape(script[w])) /\ ServerShape(script[Actor])

\* No job is done twice.
Once ==
    \A w, v \in Workers : \A i \in 1 .. Len(script[w]), j \in 1 .. Len(script[v]) :
        script[w][i] \in Ends /\ script[w][i] = script[v][j] => w = v /\ i = j

\* A job that has been begun has not been done.
Live ==
    \A w \in Workers : \A i \in 1 .. Len(script[w]) :
        /\ \A r \in Rooms : script[w][i] = <<"end", r>> => r \in unended \ unbegun
        /\ \A g \in Groups : \A x \in PiecesFor(g) :
              script[w][i] = <<"done", g, x>> => x \in open[g] \ pieces[g]

Offered == \A g \in Groups : pieces[g] \subseteq open[g] /\ open[g] \subseteq PiecesFor(g)

\* A call that has been made and not yet returned: its await is the next step, or
\* the next one after the jobs begun meanwhile.
Waits(s, g) == \E i \in 1 .. Len(s) : s[i] = Await(g) /\ (i = 1 \/ s[i - 1] \in Ends)

Awaited == \A g \in Groups : open[g] # {} => \E t \in Threads : Waits(script[t], g)

\* A worker holds the room whose job it has begun, from the first step on.
Inside(s, r) ==
    /\ s # << >> /\ s[1] # Read(Room(r))
    /\ \E i \in 1 .. Len(s) : s[i] = Free(Room(r))

RoomsHeld ==
    \A w \in Workers, r \in Rooms :
        reads[Room(r)][w] = IF Inside(script[w], r) THEN 1 ELSE 0

Writers == \A l \in Locks, w \in Workers : writer[l] = w => l \in PlayerLocks

\* x ends the job of the room r, or one of its pieces.
Of(x, r) == x = <<"end", r>> \/ (x[1] = "done" /\ x[2] = Room(r))

\* The rooms can be ranked such that a worker that waits in one room's job has
\* begun it in the jobs and pieces of higher ones only.
Ranked(f) ==
    \A w \in Workers : \A i, j \in 1 .. Len(script[w]) : \A q, r \in Rooms :
        i < j /\ script[w][i] = <<"end", q>> /\ Of(script[w][j], r) => f[q] < f[r]
Ordered == \E f \in [Rooms -> Nat] : Ranked(f)

Courses == \A t \in Threads : Holds(t) \in Holding /\ Runs(t, Holds(t), script[t], Nothing)

Exclusion == \A l \in Locks, t \in Threads : Has(t, l) => \A u \in Threads : reads[l][u] = 0

LockTypes ==
    /\ script \in [Threads -> Seq(Steps)]
    /\ writer \in [Locks -> Threads \cup {NoOne}]
    /\ reads \in [Locks -> [Threads -> 0 .. 2]]
    /\ pieces \in [Groups -> SUBSET UNION {PiecesFor(g) : g \in Groups}]
    /\ open \in [Groups -> SUBSET UNION {PiecesFor(g) : g \in Groups}]
    /\ call \in {"flags", "data", "skins", "valid"}
    /\ unbegun \subseteq unended /\ unended \subseteq Rooms

Jobs == Shapes /\ Once /\ Live
Calls == Offered /\ Awaited
Guards == Courses /\ Exclusion /\ RoomsHeld /\ Writers

LocksIInv == LockTypes /\ Jobs /\ Calls /\ Ordered /\ Guards

-----------------------------------------------------------------------------
(* What is left to do *)

LEMMA StepFacts ==
  /\ \A x \in Steps : /\ x[1] = "read" => x[2] \in Locks /\ x = Read(x[2])
                      /\ x[1] = "write" => x[2] \in Locks /\ x = Write(x[2])
                      /\ x[1] = "free" => x[2] \in Locks /\ x = Free(x[2])
  /\ \A x \in Steps : /\ x[1] = "await" => x[2] \in Groups /\ x = Await(x[2])
                      /\ x[1] = "fork" => x[2] \in Groups /\ x \in Forks(x[2])
  /\ \A x \in Steps : x[1] \in {"done", "end"} => x \in Ends
<1> SUFFICES ASSUME NEW x \in Steps
             PROVE  /\ /\ x[1] = "read" => x[2] \in Locks /\ x = Read(x[2])
                       /\ x[1] = "write" => x[2] \in Locks /\ x = Write(x[2])
                       /\ x[1] = "free" => x[2] \in Locks /\ x = Free(x[2])
                    /\ /\ x[1] = "await" => x[2] \in Groups /\ x = Await(x[2])
                       /\ x[1] = "fork" => x[2] \in Groups /\ x \in Forks(x[2])
                    /\ x[1] \in {"done", "end"} => x \in Ends
  OBVIOUS
<1>1. CASE x \in Ends
  BY <1>1, EndFacts
<1>2. CASE x \in LockSteps
  BY <1>2 DEF LockSteps, Read, Write, Free
<1>3. ASSUME NEW g \in Groups, x \in Forks(g) \/ x = Await(g)
      PROVE  (x[1] = "fork" /\ x \in Forks(g) /\ x[2] = g) \/ (x[1] = "await" /\ x = Await(g) /\ x[2] = g)
  BY <1>3, EndFacts DEF Await
<1>4. x \in Ends \/ x \in LockSteps \/ \E g \in Groups : x \in Forks(g) \/ x = Await(g)
  <2>1. x \in Ends \/ \E g \in Groups : x \in CallSteps(g)
    BY DEF Steps
  <2>2. QED BY <2>1 DEF CallSteps
<1>5. CASE \E g \in Groups : x \in Forks(g) \/ x = Await(g)
  BY <1>3, <1>5
<1> QED
  BY <1>1, <1>2, <1>4, <1>5

\* The steps of a job are not the ends of others.
LEMMA InnerSteps ==
  ASSUME NEW f \in Ends, NEW x \in StepsOf(f)
  PROVE  /\ x[1] \in {"read", "write", "free", "fork", "await"} /\ x \notin Ends
         /\ x[1] = "write" => f[1] = "done" /\ f[3][1] \in {"skin", "cosmetics"} /\ x[2] = Player(f[3][2])
         /\ x[1] \in {"fork", "await"} =>
               \/ f[1] = "end" /\ x[2] = Room(f[2])
               \/ f[1] = "done" /\ f[3][1] = "message" /\ x[2] = Player(f[3][2])
         /\ \A r \in Rooms : x = Read(Room(r)) \/ x = Free(Room(r)) => f = <<"end", r>>
<1>1. CASE f[1] = "end"
  <2>1. f[2] \in Rooms /\ f = <<"end", f[2]>>
    BY <1>1, EndFacts
  <2>2. StepsOf(f) = {Read(Room(f[2])), Free(Room(f[2])), Await(Room(f[2]))} \cup Forks(Room(f[2]))
            \cup {Read(l) : l \in PlayerLocks} \cup {Free(l) : l \in PlayerLocks}
    BY <1>1 DEF StepsOf
  <2>3. CASE x = Read(Room(f[2])) \/ x = Free(Room(f[2])) \/ x = Await(Room(f[2]))
    <3>1. x[1] \in {"read", "free", "await"} /\ x[2] = Room(f[2]) /\ (x[1] = "await" => x = Await(Room(f[2])))
      BY <2>3 DEF Read, Free, Await
    <3>2. \A r \in Rooms : x = Read(Room(r)) \/ x = Free(Room(r)) => r = f[2]
      BY <2>1, <3>1, LockFacts DEF Read, Free
    <3>3. x \notin Ends
      BY <3>1, EndFacts
    <3>4. QED BY <1>1, <2>1, <3>1, <3>2, <3>3
  <2>4. CASE x \in Forks(Room(f[2]))
    <3>1. x[1] = "fork" /\ x[2] = Room(f[2])
      BY <2>4, EndFacts
    <3>2. x \notin Ends /\ \A r \in Rooms : x # Read(Room(r)) /\ x # Free(Room(r))
      BY <3>1, EndFacts DEF Read, Free
    <3>3. QED BY <1>1, <3>1, <3>2
  <2>5. CASE x \in {Read(l) : l \in PlayerLocks} \cup {Free(l) : l \in PlayerLocks}
    <3>1. PICK l \in PlayerLocks : x = Read(l) \/ x = Free(l)
      BY <2>5
    <3>2. x[1] \in {"read", "free"} /\ x[2] = l
      BY <3>1 DEF Read, Free
    <3>3. \A r \in Rooms : Room(r) # l
      BY LockFacts DEF RoomLocks
    <3>4. x \notin Ends /\ \A r \in Rooms : x # Read(Room(r)) /\ x # Free(Room(r))
      BY <3>2, <3>3, EndFacts DEF Read, Free
    <3>5. QED BY <3>2, <3>4
  <2>6. QED BY <2>2, <2>3, <2>4, <2>5
<1>2. CASE f[1] = "done"
  <2> DEFINE kind == f[3][1]
             l == Player(f[3][2])
  <2>1. f[2] \in Groups /\ f[3] \in PiecesFor(f[2])
    BY <1>2, EndFacts
  <2>2. StepsOf(f) = IF kind = "look" THEN {Read(l), Read(Clients), Free(Clients), Free(l)}
                     ELSE IF kind \in {"skin", "cosmetics"} THEN {Read(l), Write(l), Free(l)}
                     ELSE IF kind = "message" THEN Forks(l) \cup {Await(l)}
                     ELSE {}
    BY <1>2 DEF StepsOf
  <2>3. \A r \in Rooms : Room(r) # Clients /\ (f[3][2] \in Playing => Room(r) # l)
    BY LockFacts
  <2>4. kind # "flags" => f[3][2] \in Playing
    BY <2>1 DEF PiecesFor, PlayersIn
  <2> HIDE DEF kind, l
  <2>5. CASE kind = "look"
    <3>1. x[1] \in {"read", "free"} /\ x[2] \in {l, Clients}
      BY <2>2, <2>5 DEF Read, Free
    <3>2. \A r \in Rooms : x # Read(Room(r)) /\ x # Free(Room(r))
      BY <2>3, <2>4, <2>5, <3>1 DEF Read, Free
    <3>3. x \notin Ends
      BY <3>1, EndFacts
    <3>4. QED BY <3>1, <3>2, <3>3
  <2>6. CASE kind \in {"skin", "cosmetics"}
    <3>1. x[1] \in {"read", "free", "write"} /\ x[2] = l
      BY <2>2, <2>6 DEF Read, Free, Write
    <3>2. \A r \in Rooms : x # Read(Room(r)) /\ x # Free(Room(r))
      BY <2>3, <2>4, <2>6, <3>1 DEF Read, Free
    <3>3. x \notin Ends
      BY <3>1, EndFacts
    <3>4. QED BY <1>2, <2>6, <3>1, <3>2, <3>3 DEF kind, l
  <2>7. CASE kind = "message"
    <3>1. x[1] \in {"fork", "await"} /\ x[2] = l
      BY <2>2, <2>7, EndFacts DEF Await
    <3>2. \A r \in Rooms : x # Read(Room(r)) /\ x # Free(Room(r))
      BY <3>1 DEF Read, Free
    <3>3. x \notin Ends
      BY <3>1, EndFacts
    <3>4. QED BY <1>2, <2>7, <3>1, <3>2, <3>3 DEF kind, l
  <2>8. QED BY <2>2, <2>5, <2>6, <2>7
<1> QED
  BY <1>1, <1>2, EndFacts

\* After a step of t the others have the same left to do, and t one step less.
LEMMA ProceedShifts ==
  ASSUME script \in [Threads -> Seq(Steps)], NEW t \in Threads, ~Idle(t), Proceed(t)
  PROVE  /\ script' \in [Threads -> Seq(Steps)] /\ script'[t] = Tail(script[t])
         /\ \A u \in Threads : u # t => script'[u] = script[u]
         /\ Len(script[t]) \in Nat \ {0} /\ Len(script'[t]) = Len(script[t]) - 1
         /\ \A i \in 1 .. Len(script'[t]) : script'[t][i] = script[t][i + 1]
         /\ script[t][1] \in Steps
<1>1. script[t] \in Seq(Steps) /\ script[t] # << >>
  BY DEF Idle
<1>2. script'[t] = Tail(script[t]) /\ \A u \in Threads : u # t => script'[u] = script[u]
  BY DEF Proceed
<1> DEFINE s == script[t]
<1> HIDE DEF s
<1>3. s \in Seq(Steps) /\ s # << >>
  BY <1>1 DEF s
<1>4. /\ Len(s) \in Nat \ {0} /\ Len(Tail(s)) = Len(s) - 1 /\ Tail(s) \in Seq(Steps)
      /\ \A i \in 1 .. Len(Tail(s)) : Tail(s)[i] = s[i + 1]
      /\ s[1] \in Steps
  BY <1>3
<1>5. script' \in [Threads -> Seq(Steps)]
  BY <1>4 DEF Proceed, s
<1> QED
  BY <1>2, <1>4, <1>5 DEF s

\* When a worker begins a job, the others have the same left to do.
LEMMA BeginShifts ==
  ASSUME script \in [Threads -> Seq(Steps)], NEW w \in Threads, NEW b \in Seq(Steps),
         script' = [script EXCEPT ![w] = b \o @]
  PROVE  /\ script' \in [Threads -> Seq(Steps)] /\ script'[w] = b \o script[w]
         /\ \A u \in Threads : u # w => script'[u] = script[u]
         /\ Len(b) \in Nat /\ Len(script[w]) \in Nat
         /\ Len(script'[w]) = Len(b) + Len(script[w])
         /\ \A i \in 1 .. Len(b) : script'[w][i] = b[i]
         /\ \A i \in 1 .. Len(script[w]) : script'[w][Len(b) + i] = script[w][i]
         /\ \A i \in 1 .. Len(script'[w]) :
               i \in 1 .. Len(b) \/ (i - Len(b) \in 1 .. Len(script[w])
                                      /\ script'[w][i] = script[w][i - Len(b)])
<1> DEFINE s == script[w]
<1>1. s \in Seq(Steps) /\ script'[w] = b \o s
  OBVIOUS
<1>2. script' \in [Threads -> Seq(Steps)]
  BY <1>1
<1> HIDE DEF s
<1>3. /\ Len(b) \in Nat /\ Len(s) \in Nat /\ Len(b \o s) = Len(b) + Len(s)
      /\ \A i \in 1 .. Len(b) : (b \o s)[i] = b[i]
      /\ \A i \in 1 .. Len(s) : (b \o s)[Len(b) + i] = s[i]
  BY <1>1
<1>4. \A i \in 1 .. Len(b) + Len(s) :
          i \in 1 .. Len(b) \/ (i - Len(b) \in 1 .. Len(s) /\ (b \o s)[i] = s[i - Len(b)])
  <2> SUFFICES ASSUME NEW i \in 1 .. Len(b) + Len(s), i \notin 1 .. Len(b)
               PROVE  i - Len(b) \in 1 .. Len(s) /\ (b \o s)[i] = s[i - Len(b)]
    OBVIOUS
  <2>1. i - Len(b) \in 1 .. Len(s) /\ Len(b) + (i - Len(b)) = i
    BY <1>3
  <2>2. QED BY <1>3, <2>1
<1>5. \A u \in Threads : u # w => script'[u] = script[u]
  OBVIOUS
<1> QED
  BY <1>1, <1>2, <1>3, <1>4, <1>5 DEF s

LEMMA ShapesProceed ==
  ASSUME script \in [Threads -> Seq(Steps)], Shapes, NEW t \in Threads, ~Idle(t), Proceed(t)
  PROVE  Shapes'
<1> DEFINE s == script[t]
           z == script'[t]
<1>1. /\ Len(s) \in Nat \ {0} /\ Len(z) = Len(s) - 1 /\ \A i \in 1 .. Len(z) : z[i] = s[i + 1]
      /\ \A u \in Threads : u # t => script'[u] = script[u]
  BY ProceedShifts
<1>2. t \in Workers => WorkerShape(s)
  BY DEF Shapes
<1>3. t = Actor => ServerShape(s)
  BY DEF Shapes
<1> HIDE DEF s, z
<1>4. ASSUME t \in Workers PROVE WorkerShape(z)
  <2>1. ASSUME NEW i \in 1 .. Len(z)
        PROVE  \E e \in i .. Len(z) : z[e] \in Ends /\ \A j \in i .. e - 1 : z[j] \in StepsOf(z[e])
    <3>1. i + 1 \in 1 .. Len(s)
      BY <1>1
    <3>2. PICK e \in i + 1 .. Len(s) : s[e] \in Ends /\ \A j \in i + 1 .. e - 1 : s[j] \in StepsOf(s[e])
      BY <1>2, <1>4, <3>1 DEF WorkerShape
    <3>3. e - 1 \in i .. Len(z) /\ z[e - 1] = s[e]
      BY <1>1
    <3>4. ASSUME NEW j \in i .. (e - 1) - 1 PROVE z[j] \in StepsOf(z[e - 1])
      <4>1. j \in 1 .. Len(z) /\ j + 1 \in i + 1 .. e - 1
        BY <1>1
      <4>2. QED BY <1>1, <3>2, <3>3, <4>1
    <3>5. QED BY <3>2, <3>3, <3>4
  <2>2. ASSUME NEW i \in 1 .. Len(z) - 1 PROVE Adjacent(z[i], z[i + 1])
    <3>1. i + 1 \in 1 .. Len(s) - 1 /\ i \in 1 .. Len(z) /\ i + 1 \in 1 .. Len(z)
      BY <1>1
    <3>2. QED BY <1>1, <1>2, <1>4, <3>1 DEF WorkerShape
  <2>3. QED BY <2>1, <2>2 DEF WorkerShape
<1>5. ASSUME t = Actor PROVE ServerShape(z)
  <2>1. ASSUME NEW i \in 1 .. Len(z)
        PROVE  z[i] \in CallSteps(OfServer)
               /\ (z[i][1] = "fork" => i < Len(z) /\ z[i + 1] = Await(OfServer))
    <3>1. i + 1 \in 1 .. Len(s) /\ z[i] = s[i + 1]
      BY <1>1
    <3>2. /\ s[i + 1] \in CallSteps(OfServer)
          /\ s[i + 1][1] = "fork" => i + 1 < Len(s) /\ s[i + 1 + 1] = Await(OfServer)
      BY <1>3, <1>5, <3>1 DEF ServerShape
    <3>3. QED BY <1>1, <3>1, <3>2
  <2>2. ASSUME NEW i \in 2 .. Len(z), z[i][1] = "await" PROVE z[i - 1][1] = "fork"
    <3>1. i + 1 \in 2 .. Len(s) /\ (i + 1) - 1 = i /\ z[i] = s[i + 1] /\ z[i - 1] = s[i]
      BY <1>1
    <3>2. QED BY <1>3, <1>5, <2>2, <3>1 DEF ServerShape
  <2>3. QED BY <2>1, <2>2 DEF ServerShape
<1> QED
  BY <1>1, <1>4, <1>5, LocksAssumption DEF Shapes, Threads, z

LEMMA OnceProceed ==
  ASSUME script \in [Threads -> Seq(Steps)], Once, NEW t \in Threads, ~Idle(t), Proceed(t)
  PROVE  Once'
<1>1. /\ Len(script[t]) \in Nat \ {0} /\ Len(script'[t]) = Len(script[t]) - 1
      /\ \A i \in 1 .. Len(script'[t]) : script'[t][i] = script[t][i + 1]
      /\ \A u \in Threads : u # t => script'[u] = script[u]
  BY ProceedShifts
<1> SUFFICES ASSUME NEW w \in Workers, NEW v \in Workers,
                    NEW i \in 1 .. Len(script'[w]), NEW j \in 1 .. Len(script'[v]),
                    script'[w][i] \in Ends, script'[w][i] = script'[v][j]
             PROVE  w = v /\ i = j
  BY DEF Once
<1> DEFINE m == IF w = t THEN i + 1 ELSE i
           n == IF v = t THEN j + 1 ELSE j
<1>2. w \in Threads /\ v \in Threads
  BY DEF Threads
<1>3. m \in 1 .. Len(script[w]) /\ script'[w][i] = script[w][m]
  BY <1>1, <1>2
<1>4. n \in 1 .. Len(script[v]) /\ script'[v][j] = script[v][n]
  BY <1>1, <1>2
<1> HIDE DEF m, n
<1>5. script[w][m] \in Ends /\ script[w][m] = script[v][n]
  BY <1>3, <1>4
<1>6. w = v /\ m = n
  BY <1>3, <1>4, <1>5 DEF Once
<1> QED BY <1>6 DEF m, n

\* What every end in what is left to do was before.
LEMMA LeftBefore ==
  ASSUME script \in [Threads -> Seq(Steps)], NEW t \in Threads, ~Idle(t), Proceed(t),
         NEW u \in Threads, NEW i \in 1 .. Len(script'[u])
  PROVE  \E m \in 1 .. Len(script[u]) :
            script'[u][i] = script[u][m] /\ m = (IF u = t THEN i + 1 ELSE i)
<1>1. /\ Len(script[t]) \in Nat \ {0} /\ Len(script'[t]) = Len(script[t]) - 1
      /\ \A k \in 1 .. Len(script'[t]) : script'[t][k] = script[t][k + 1]
      /\ \A v \in Threads : v # t => script'[v] = script[v]
  BY ProceedShifts
<1>2. CASE u = t
  <2>1. i + 1 \in 1 .. Len(script[u]) /\ script'[u][i] = script[u][i + 1]
    BY <1>1, <1>2
  <2>2. QED BY <1>2, <2>1
<1>3. CASE u # t
  BY <1>1, <1>3
<1> QED
  BY <1>2, <1>3

LEMMA OrderedProceed ==
  ASSUME script \in [Threads -> Seq(Steps)], Ordered, NEW t \in Threads, ~Idle(t), Proceed(t)
  PROVE  Ordered'
<1>1. PICK f \in [Rooms -> Nat] : Ranked(f)
  BY DEF Ordered
<1>2. ASSUME NEW w \in Workers, NEW i \in 1 .. Len(script'[w]), NEW j \in 1 .. Len(script'[w]),
             NEW q \in Rooms, NEW r \in Rooms,
             i < j, script'[w][i] = <<"end", q>>, Of(script'[w][j], r)
      PROVE  f[q] < f[r]
  <2>1. w \in Threads
    BY DEF Threads
  <2>2. PICK m \in 1 .. Len(script[w]) :
           script'[w][i] = script[w][m] /\ m = (IF w = t THEN i + 1 ELSE i)
    BY <2>1, LeftBefore
  <2>3. PICK n \in 1 .. Len(script[w]) :
           script'[w][j] = script[w][n] /\ n = (IF w = t THEN j + 1 ELSE j)
    BY <2>1, LeftBefore
  <2>4. m < n
    BY <1>2, <2>2, <2>3
  <2>5. script[w][m] = <<"end", q>> /\ Of(script[w][n], r)
    BY <1>2, <2>2, <2>3
  <2> HIDE <2>2, <2>3
  <2>6. QED BY <1>1, <2>4, <2>5 DEF Ranked
<1> QED
  BY <1>2 DEF Ordered, Ranked

\* The calls that t has made and that have not returned.
LEMMA WaitsProceed ==
  ASSUME script \in [Threads -> Seq(Steps)], NEW t \in Threads, ~Idle(t), Proceed(t),
         NEW g, NEW u \in Threads, Waits(script[u], g), u = t => script[t][1] # Await(g)
  PROVE  Waits(script'[u], g)
<1>1. /\ Len(script[t]) \in Nat \ {0} /\ Len(script'[t]) = Len(script[t]) - 1
      /\ \A k \in 1 .. Len(script'[t]) : script'[t][k] = script[t][k + 1]
      /\ \A v \in Threads : v # t => script'[v] = script[v]
  BY ProceedShifts
<1>2. CASE u # t
  BY <1>1, <1>2
<1>3. CASE u = t
  <2>1. PICK i \in 1 .. Len(script[t]) :
           script[t][i] = Await(g) /\ (i = 1 \/ script[t][i - 1] \in Ends)
    BY <1>3 DEF Waits
  <2>2. i # 1 /\ script[t][i - 1] \in Ends
    BY <1>3, <2>1
  <2> DEFINE k == i - 1
  <2>3. k \in 1 .. Len(script'[t]) /\ k + 1 = i
    BY <1>1, <2>1, <2>2
  <2>4. script'[t][k] = Await(g)
    BY <1>1, <2>1, <2>3
  <2>5. k # 1 => script'[t][k - 1] \in Ends
    <3>1. k # 1 => k - 1 \in 1 .. Len(script'[t]) /\ (k - 1) + 1 = i - 1
      BY <1>1, <2>3
    <3>2. QED BY <1>1, <2>2, <3>1
  <2> HIDE DEF k
  <2>6. QED BY <1>3, <2>3, <2>4, <2>5 DEF Waits
<1> QED
  BY <1>2, <1>3

\* A worker w begins a job, b, with f as its last step.
Begins(w, h, b, f) ==
    /\ Job(w, h, b, f) /\ w \in Workers
    /\ script' = [script EXCEPT ![w] = b \o @]
    /\ Idle(w) \/ Does(w, "await")

LEMMA JobFacts ==
  ASSUME NEW w, NEW h, NEW b, NEW f, Job(w, h, b, f)
  PROVE  /\ b \in Seq(Steps) /\ Len(b) \in Nat \ {0} /\ Len(b) \in 1 .. Len(b) /\ b[Len(b)] = f /\ f \in Ends
         /\ \A i \in 1 .. Len(b) : i = Len(b) \/ (i \in 1 .. Len(b) - 1 /\ b[i] \in StepsOf(f) /\ b[i] \notin Ends)
<1>1. b \in Seq(Steps) /\ b # << >> /\ b[Len(b)] = f /\ f \in Ends
      /\ \A i \in 1 .. Len(b) - 1 : b[i] \in StepsOf(f)
  BY DEF Job
<1>2. Len(b) \in Nat \ {0} /\ Len(b) \in 1 .. Len(b)
  BY <1>1
<1>3. ASSUME NEW i \in 1 .. Len(b), i # Len(b)
      PROVE  i \in 1 .. Len(b) - 1 /\ b[i] \in StepsOf(f) /\ b[i] \notin Ends
  <2>1. i \in 1 .. Len(b) - 1
    BY <1>2, <1>3
  <2>2. QED BY <1>1, <2>1, InnerSteps
<1> QED
  BY <1>1, <1>2, <1>3

\* A step of the new script is one of the job or one that was there before.
LEMMA BegunBefore ==
  ASSUME script \in [Threads -> Seq(Steps)], NEW w, NEW h, NEW b, NEW f, Begins(w, h, b, f),
         NEW u \in Threads, NEW i \in 1 .. Len(script'[u])
  PROVE  \/ u = w /\ i \in 1 .. Len(b) /\ script'[u][i] = b[i]
         \/ \E m \in 1 .. Len(script[u]) :
               script'[u][i] = script[u][m] /\ i = (IF u = w THEN Len(b) + m ELSE m)
<1>1. b \in Seq(Steps) /\ w \in Threads /\ script' = [script EXCEPT ![w] = b \o @]
  BY JobFacts DEF Begins, Threads
<1> DEFINE n == Len(b)
<1>2. /\ \A v \in Threads : v # w => script'[v] = script[v]
      /\ n \in Nat /\ Len(script[w]) \in Nat
      /\ \A k \in 1 .. Len(b) : script'[w][k] = b[k]
      /\ \A k \in 1 .. Len(script'[w]) :
            k \in 1 .. n \/ (k - n \in 1 .. Len(script[w]) /\ script'[w][k] = script[w][k - n])
  BY <1>1, BeginShifts
<1> HIDE DEF n
<1>3. CASE u # w
  BY <1>2, <1>3
<1>4. CASE u = w /\ i \in 1 .. n
  BY <1>2, <1>4 DEF n
<1>5. CASE u = w /\ i \notin 1 .. n
  <2>1. i - n \in 1 .. Len(script[w]) /\ script'[w][i] = script[w][i - n]
    BY <1>2, <1>5
  <2>2. i = n + (i - n)
    BY <1>2
  <2>3. QED BY <1>5, <2>1, <2>2 DEF n
<1> QED
  BY <1>3, <1>4, <1>5

LEMMA ShapesBegin ==
  ASSUME script \in [Threads -> Seq(Steps)], Shapes, NEW w, NEW h, NEW b, NEW f, Begins(w, h, b, f)
  PROVE  Shapes'
<1> DEFINE s == script[w]
           z == script'[w]
           n == Len(b)
<1>1. b \in Seq(Steps) /\ w \in Workers /\ w \in Threads /\ script' = [script EXCEPT ![w] = b \o @]
  BY JobFacts DEF Begins, Threads
<1>2. /\ n \in Nat \ {0} /\ b[n] = f /\ f \in Ends
      /\ \A i \in 1 .. n - 1 : b[i] \in StepsOf(f) /\ Adjacent(b[i], b[i + 1])
  BY JobFacts DEF Begins, Job
<1>3. /\ Len(s) \in Nat /\ Len(z) = n + Len(s)
      /\ \A i \in 1 .. n : z[i] = b[i]
      /\ \A i \in 1 .. Len(s) : z[n + i] = s[i]
      /\ \A u \in Threads : u # w => script'[u] = script[u]
  BY <1>1, BeginShifts
<1>4. WorkerShape(s)
  BY <1>1 DEF Shapes
<1>5. Len(s) = 0 \/ s[1][1] = "await"
  BY <1>1 DEF Begins, Idle, Does
<1> HIDE DEF s, z, n
<1>6. ASSUME NEW i \in 1 .. Len(z)
      PROVE  \E e \in i .. Len(z) : z[e] \in Ends /\ \A j \in i .. e - 1 : z[j] \in StepsOf(z[e])
  <2>1. CASE i \in 1 .. n
    <3>1. n \in i .. Len(z) /\ z[n] = f /\ z[n] \in Ends
      BY <1>2, <1>3, <2>1
    <3>2. ASSUME NEW j \in i .. n - 1 PROVE z[j] \in StepsOf(z[n])
      <4>1. j \in 1 .. n - 1 /\ j \in 1 .. n
        BY <1>2, <2>1
      <4>2. QED BY <1>2, <1>3, <3>1, <4>1
    <3>3. QED BY <3>1, <3>2
  <2>2. CASE i > n
    <3> DEFINE k == i - n
    <3>1. k \in 1 .. Len(s)
      BY <1>2, <1>3, <2>2
    <3>2. PICK d \in k .. Len(s) : s[d] \in Ends /\ \A j \in k .. d - 1 : s[j] \in StepsOf(s[d])
      BY <1>4, <3>1 DEF WorkerShape
    <3>3. n + d \in i .. Len(z) /\ z[n + d] = s[d] /\ d \in 1 .. Len(s)
      BY <1>2, <1>3, <3>1, <3>2
    <3>4. ASSUME NEW j \in i .. (n + d) - 1 PROVE z[j] \in StepsOf(z[n + d])
      <4>1. j - n \in k .. d - 1 /\ j - n \in 1 .. Len(s) /\ n + (j - n) = j
        BY <1>2, <1>3, <3>1, <3>2, <3>3, <2>2
      <4>2. z[j] = s[j - n]
        BY <1>3, <4>1
      <4>3. QED BY <3>2, <3>3, <4>1, <4>2
    <3>5. QED BY <3>2, <3>3, <3>4
  <2>3. QED BY <1>2, <1>3, <2>1, <2>2
<1>7. ASSUME NEW i \in 1 .. Len(z) - 1 PROVE Adjacent(z[i], z[i + 1])
  <2>1. CASE i \in 1 .. n - 1
    <3>1. i \in 1 .. n /\ i + 1 \in 1 .. n
      BY <1>2, <2>1
    <3>2. QED BY <1>2, <1>3, <2>1, <3>1
  <2>2. CASE i = n
    <3>1. Len(s) # 0 /\ 1 \in 1 .. Len(s) /\ n \in 1 .. n
      BY <1>2, <1>3, <2>2
    <3>2. z[i] = f /\ z[i + 1] = s[1] /\ s[1][1] = "await"
      BY <1>2, <1>3, <1>5, <2>2, <3>1
    <3>3. f[1] \in {"done", "end"} /\ f \in Ends
      BY <1>2, EndFacts
    <3>4. /\ \A r \in Rooms : f # Free(Room(r)) /\ s[1] # Read(Room(r))
          /\ \A p \in Playing : f # Await(Player(p))
          /\ f[1] # "fork" /\ s[1][1] # "end"
      BY <3>2, <3>3 DEF Free, Read, Await
    <3>5. QED BY <3>2, <3>3, <3>4 DEF Adjacent
  <2>3. CASE i > n
    <3>1. i - n \in 1 .. Len(s) - 1 /\ n + (i - n) = i /\ n + ((i - n) + 1) = i + 1
          /\ i - n \in 1 .. Len(s) /\ (i - n) + 1 \in 1 .. Len(s)
      BY <1>2, <1>3, <2>3
    <3>2. z[i] = s[i - n] /\ z[i + 1] = s[(i - n) + 1]
      BY <1>3, <3>1
    <3>3. QED BY <1>4, <3>1, <3>2 DEF WorkerShape
  <2>4. QED BY <1>2, <1>3, <2>1, <2>2, <2>3
<1>8. WorkerShape(z)
  BY <1>6, <1>7 DEF WorkerShape
<1> QED
  BY <1>1, <1>3, <1>8, LocksAssumption DEF Shapes, Threads, z

\* An end in the new script is the job's, or it was there before.
LEMMA EndBefore ==
  ASSUME script \in [Threads -> Seq(Steps)], NEW w, NEW h, NEW b, NEW f, Begins(w, h, b, f),
         NEW v \in Workers, NEW i \in 1 .. Len(script'[v]), script'[v][i] \in Ends
  PROVE  \/ v = w /\ i = Len(b) /\ script'[v][i] = f
         \/ \E m \in 1 .. Len(script[v]) :
               script'[v][i] = script[v][m] /\ i = (IF v = w THEN Len(b) + m ELSE m)
<1>1. b[Len(b)] = f /\ \A k \in 1 .. Len(b) : k = Len(b) \/ b[k] \notin Ends
  BY JobFacts DEF Begins
<1>2. v \in Threads
  BY DEF Threads
<1>3. CASE v = w /\ i \in 1 .. Len(b) /\ script'[v][i] = b[i]
  BY <1>1, <1>3
<1> QED
  BY <1>2, <1>3, BegunBefore

LEMMA OnceBegin ==
  ASSUME script \in [Threads -> Seq(Steps)], Once, NEW w, NEW h, NEW b, NEW f, Begins(w, h, b, f),
         \A u \in Workers : \A i \in 1 .. Len(script[u]) : script[u][i] # f
  PROVE  Once'
<1>1. /\ b \in Seq(Steps) /\ Len(b) \in Nat \ {0} /\ b[Len(b)] = f /\ f \in Ends
      /\ \A i \in 1 .. Len(b) : i = Len(b) \/ b[i] \notin Ends
  BY JobFacts DEF Begins
<1>2. ASSUME NEW v \in Workers, NEW i \in 1 .. Len(script'[v]), script'[v][i] \in Ends
      PROVE  \/ v = w /\ i = Len(b) /\ script'[v][i] = f
             \/ \E m \in 1 .. Len(script[v]) :
                   script'[v][i] = script[v][m] /\ i = (IF v = w THEN Len(b) + m ELSE m)
  BY <1>2, EndBefore
<1> SUFFICES ASSUME NEW u \in Workers, NEW v \in Workers,
                    NEW i \in 1 .. Len(script'[u]), NEW j \in 1 .. Len(script'[v]),
                    script'[u][i] \in Ends, script'[u][i] = script'[v][j]
             PROVE  u = v /\ i = j
  BY DEF Once
<1>3. CASE u = w /\ i = Len(b) /\ script'[u][i] = f
  <2>1. CASE v = w /\ j = Len(b)
    BY <1>3, <2>1
  <2>2. CASE \E m \in 1 .. Len(script[v]) : script'[v][j] = script[v][m]
    BY <1>3, <2>2
  <2>3. QED BY <1>2, <2>1, <2>2
<1>4. CASE v = w /\ j = Len(b) /\ script'[v][j] = f
  <2>1. CASE u = w /\ i = Len(b)
    BY <1>4, <2>1
  <2>2. CASE \E m \in 1 .. Len(script[u]) : script'[u][i] = script[u][m]
    BY <1>4, <2>2
  <2>3. QED BY <1>2, <2>1, <2>2
<1>5. ASSUME NEW m \in 1 .. Len(script[u]), NEW k \in 1 .. Len(script[v]),
             script'[u][i] = script[u][m], i = (IF u = w THEN Len(b) + m ELSE m),
             script'[v][j] = script[v][k], j = (IF v = w THEN Len(b) + k ELSE k)
      PROVE  u = v /\ i = j
  <2>1. script[u][m] \in Ends /\ script[u][m] = script[v][k]
    BY <1>5
  <2>2. u = v /\ m = k
    BY <2>1 DEF Once
  <2>3. QED BY <1>5, <2>2
<1> QED
  BY <1>2, <1>3, <1>4, <1>5

LEMMA WaitsBegin ==
  ASSUME script \in [Threads -> Seq(Steps)], NEW w, NEW h, NEW b, NEW f, Begins(w, h, b, f),
         NEW g, NEW u \in Threads, Waits(script[u], g)
  PROVE  Waits(script'[u], g)
<1> DEFINE n == Len(b)
<1>1. b \in Seq(Steps) /\ n \in Nat \ {0} /\ b[n] = f /\ f \in Ends
      /\ w \in Threads /\ script' = [script EXCEPT ![w] = b \o @]
  BY JobFacts DEF Begins, Threads
<1>2. /\ \A v \in Threads : v # w => script'[v] = script[v]
      /\ Len(script[w]) \in Nat /\ Len(script'[w]) = n + Len(script[w])
      /\ \A i \in 1 .. n : script'[w][i] = b[i]
      /\ \A i \in 1 .. Len(script[w]) : script'[w][n + i] = script[w][i]
  BY <1>1, BeginShifts
<1> HIDE DEF n
<1>3. CASE u # w
  BY <1>2, <1>3
<1>4. CASE u = w
  <2>1. PICK i \in 1 .. Len(script[w]) :
           script[w][i] = Await(g) /\ (i = 1 \/ script[w][i - 1] \in Ends)
    BY <1>4 DEF Waits
  <2> DEFINE k == n + i
  <2>2. k \in 1 .. Len(script'[w]) /\ script'[w][k] = Await(g) /\ k - 1 = n + (i - 1)
    BY <1>1, <1>2, <2>1
  <2>3. script'[w][k - 1] \in Ends
    <3>1. CASE i = 1
      <4>1. k - 1 = n /\ n \in 1 .. n
        BY <1>1, <2>2, <3>1
      <4>2. QED BY <1>1, <1>2, <4>1
    <3>2. CASE i # 1
      <4>1. i - 1 \in 1 .. Len(script[w]) /\ script[w][i - 1] \in Ends
        BY <1>2, <2>1, <3>2
      <4>2. QED BY <1>2, <2>2, <4>1
    <3>3. QED BY <3>1, <3>2
  <2> HIDE DEF k
  <2>4. QED BY <1>4, <2>2, <2>3 DEF Waits
<1> QED
  BY <1>3, <1>4

LEMMA OrderedBegin ==
  ASSUME script \in [Threads -> Seq(Steps)], Ordered, NEW w, NEW h, NEW b, NEW f, Begins(w, h, b, f),
         NEW r \in Rooms,
         f[1] = "done" \/ f = <<"end", r>>,
         f[1] = "end" => \A u \in Workers : \A i \in 1 .. Len(script[u]) : ~Of(script[u][i], r)
  PROVE  Ordered'
<1>1. PICK e \in [Rooms -> Nat] : Ranked(e)
  BY DEF Ordered
<1>2. /\ b \in Seq(Steps) /\ Len(b) \in Nat \ {0} /\ b[Len(b)] = f /\ f \in Ends
      /\ \A i \in 1 .. Len(b) : i = Len(b) \/ b[i] \notin Ends
  BY JobFacts DEF Begins
<1>3. \A x : (\E q \in Rooms : Of(x, q)) /\ x \in Steps => x \in Ends
  BY StepFacts DEF Of
<1> DEFINE d == [q \in Rooms |-> IF f[1] = "end" /\ q = r THEN 0
                                 ELSE IF f[1] = "end" THEN e[q] + 1 ELSE e[q]]
<1>4. /\ d \in [Rooms -> Nat]
      /\ \A q \in Rooms : d[q] = IF f[1] = "end" /\ q = r THEN 0
                                 ELSE IF f[1] = "end" THEN e[q] + 1 ELSE e[q]
  BY <1>1
<1> HIDE DEF d
<1>5. ASSUME NEW v \in Workers, NEW i \in 1 .. Len(script'[v]), NEW j \in 1 .. Len(script'[v]),
             NEW q \in Rooms, NEW o \in Rooms,
             i < j, script'[v][i] = <<"end", q>>, Of(script'[v][j], o)
      PROVE  d[q] < d[o]
  <2>1. v \in Threads /\ script'[v] \in Seq(Steps)
    <3>1. script' \in [Threads -> Seq(Steps)]
      BY <1>2, BeginShifts DEF Begins, Threads
    <3>2. QED BY <3>1 DEF Threads
  <2>2. script'[v][i] \in Ends /\ script'[v][j] \in Ends
    <3>1. script'[v][j] \in Steps
      BY <2>1
    <3>2. script'[v][i] \in Ends
      BY <1>5 DEF Ends
    <3>3. QED BY <1>3, <1>5, <3>1, <3>2
  <2>10. ASSUME NEW c \in 1 .. Len(script'[v]), script'[v][c] \in Ends
         PROVE  \/ v = w /\ c = Len(b) /\ script'[v][c] = f
                \/ \E m \in 1 .. Len(script[v]) :
                      script'[v][c] = script[v][m] /\ c = (IF v = w THEN Len(b) + m ELSE m)
    BY <2>10, EndBefore
  <2>3. \/ v = w /\ i = Len(b) /\ script'[v][i] = f
        \/ \E m \in 1 .. Len(script[v]) :
              script'[v][i] = script[v][m] /\ i = (IF v = w THEN Len(b) + m ELSE m)
    BY <2>2, <2>10
  <2>4. \/ v = w /\ j = Len(b) /\ script'[v][j] = f
        \/ \E m \in 1 .. Len(script[v]) :
              script'[v][j] = script[v][m] /\ j = (IF v = w THEN Len(b) + m ELSE m)
    BY <2>2, <2>10
  <2>5. ASSUME NEW k \in 1 .. Len(script[v]), script'[v][j] = script[v][k],
               f[1] = "end"
        PROVE  o # r
    BY <1>5, <2>5
  <2>6. CASE v = w /\ i = Len(b) /\ script'[v][i] = f
    <3>5. ~(v = w /\ j = Len(b))
      BY <1>2, <1>5, <2>6
    <3>1. PICK k \in 1 .. Len(script[v]) :
              script'[v][j] = script[v][k] /\ j = (IF v = w THEN Len(b) + k ELSE k)
      BY <2>4, <3>5
    <3>2. f[1] = "end" /\ q = r
      BY <1>5, <2>6
    <3>3. o # r
      BY <2>5, <3>1, <3>2
    <3>4. QED BY <1>1, <1>4, <3>2, <3>3
  <2>7. ASSUME NEW m \in 1 .. Len(script[v]),
               script'[v][i] = script[v][m], i = (IF v = w THEN Len(b) + m ELSE m)
        PROVE  d[q] < d[o]
    <3>1. ~(v = w /\ j = Len(b))
      BY <1>2, <1>5, <2>7
    <3>2. PICK k \in 1 .. Len(script[v]) :
              script'[v][j] = script[v][k] /\ j = (IF v = w THEN Len(b) + k ELSE k)
      BY <2>4, <3>1
    <3>3. m < k
      BY <1>2, <1>5, <2>7, <3>2
    <3>4. script[v][m] = <<"end", q>> /\ Of(script[v][k], o)
      BY <1>5, <2>7, <3>2
    <3> HIDE <2>7, <3>2
    <3>5. e[q] < e[o]
      BY <1>1, <3>3, <3>4 DEF Ranked
    <3>6. f[1] = "end" => q # r /\ o # r
      BY <3>4 DEF Of
    <3>7. QED BY <1>1, <1>4, <3>5, <3>6
  <2>8. QED BY <2>3, <2>6, <2>7
<1>6. Ranked(d)'
  BY <1>5 DEF Ranked
<1> QED
  BY <1>4, <1>6 DEF Ordered

-----------------------------------------------------------------------------
(* What the threads hold *)

\* Whoever comes to take a lock to write does not hold it.
LEMMA WriteFree ==
  ASSUME NEW t \in Threads, NEW h \in Holding, NEW l \in Locks, May(t, h, Write(l))
  PROVE  h[l] = 0
<1>1. h[l] \in 0 .. 3
  BY DEF Holding, Writes
<1>2. Write(l)[1] = "write" /\ Write(l)[2] = l /\ \A m : Write(l) # Read(m)
  BY DEF Write, Read
<1>3. CASE t # Actor
  <2>1. WorkerMay(h, Write(l))
    BY <1>3 DEF May
  <2>2. l \in PlayerLocks /\ OnlyRooms(h)
    BY <1>2, <2>1 DEF WorkerMay
  <2>3. l \notin RoomLocks
    BY <2>2, LockFacts
  <2>4. QED BY <1>1, <2>2, <2>3 DEF OnlyRooms
<1>4. CASE t = Actor
  <2>1. ServerMay(h, Write(l))
    BY <1>4 DEF May
  <2>2. CASE l = Clients
    BY <2>1, <2>2 DEF ServerMay
  <2>3. ASSUME NEW r \in Rooms, l = Room(r) PROVE h[l] = 0
    <3>1. h[Room(r)] > 0 => r = r - 1
      BY <2>1, <2>3 DEF ServerMay
    <3>2. r \in Nat
      BY DEF Rooms
    <3>3. QED BY <1>1, <2>3, <3>1, <3>2
  <2>4. ASSUME NEW p \in Playing, l = Player(p) PROVE h[l] = 0
    <3>1. NoPlayer(h)
      BY <2>1, <2>4 DEF ServerMay
    <3>2. QED BY <2>4, <3>1 DEF NoPlayer, PlayerLocks
  <2>5. QED BY <2>2, <2>3, <2>4, LockFacts DEF RoomLocks, PlayerLocks
<1> QED
  BY <1>3, <1>4

\* A lock is read at most once when it is about to be read again.
LEMMA ReadBound ==
  ASSUME NEW t \in Threads, NEW h \in Holding, NEW l \in Locks, May(t, h, Read(l))
  PROVE  h[l] <= 1 /\ \A r \in Rooms : l = Room(r) => h[l] = 0
<1>1. h[l] \in 0 .. 3
  BY DEF Holding, Writes
<1>2. Read(l)[1] = "read"
  BY DEF Read
<1>3. CASE t # Actor
  <2>1. WorkerMay(h, Read(l))
    BY <1>3 DEF May
  <2>2. CASE l = Clients
    BY <2>1, <2>2, LockFacts DEF WorkerMay
  <2>3. ASSUME NEW r \in Rooms, l = Room(r) PROVE h[l] = 0
    BY <2>1, <2>3 DEF WorkerMay
  <2>4. ASSUME NEW p \in Playing, l = Player(p) PROVE h[l] = 0 /\ \A r \in Rooms : l # Room(r)
    <3>1. Read(l) # Read(Clients) /\ l \notin RoomLocks
      BY <2>4, LockFacts DEF Read, PlayerLocks
    <3>2. OnlyRooms(h)
      BY <1>2, <2>1, <3>1 DEF WorkerMay
    <3>3. QED BY <1>1, <3>1, <3>2 DEF OnlyRooms, RoomLocks
  <2>5. QED BY <2>2, <2>3, <2>4, LockFacts DEF RoomLocks, PlayerLocks
<1>4. CASE t = Actor
  <2>1. ServerMay(h, Read(l))
    BY <1>4 DEF May
  <2>2. CASE l = Clients
    BY <2>1, <2>2, LockFacts DEF ServerMay
  <2>3. ASSUME NEW r \in Rooms, l = Room(r) PROVE h[l] = 0
    BY <2>1, <2>3 DEF ServerMay
  <2>4. ASSUME NEW p \in Playing, l = Player(p) PROVE h[l] <= 1 /\ \A r \in Rooms : l # Room(r)
    <3>1. l \in PlayerLocks
      BY <2>4 DEF PlayerLocks
    <3>2. h[l] > 0 => h[l] = 1
      BY <2>1, <2>4, <3>1 DEF ServerMay
    <3>3. QED BY <1>1, <2>4, <3>2, LockFacts
  <2>5. QED BY <2>2, <2>3, <2>4, LockFacts DEF RoomLocks, PlayerLocks
<1> QED
  BY <1>3, <1>4

LEMMA HoldsFacts ==
  ASSUME LockTypes, NEW t \in Threads, NEW l \in Locks
  PROVE  /\ Holds(t)[l] = IF Has(t, l) THEN Writes ELSE reads[l][t]
         /\ reads[l][t] \in 0 .. 2
         /\ Holds(t)[l] = Writes <=> Has(t, l)
         /\ Has(t, l) => writer[l] = t
         /\ writer[l] = t /\ ~Has(t, l) => script[t] # << >> /\ script[t][1] = Write(l)
<1>1. Holds(t)[l] = IF Has(t, l) THEN Writes ELSE reads[l][t]
  BY DEF Holds
<1>2. reads[l][t] \in 0 .. 2
  BY DEF LockTypes
<1>3. Holds(t)[l] = Writes <=> Has(t, l)
  BY <1>1, <1>2 DEF Writes
<1>4. ASSUME writer[l] = t, ~Has(t, l)
      PROVE  script[t] # << >> /\ script[t][1] = Write(l)
  <2>1. script[t] # << >> /\ script[t][1][1] = "write" /\ script[t][1][2] = l
    BY <1>4 DEF Has, Does, Idle, Its
  <2>2. script[t][1] \in Steps
    BY <2>1 DEF LockTypes
  <2>3. QED BY <2>1, <2>2, StepFacts
<1>5. Has(t, l) => writer[l] = t
  BY DEF Has
<1> QED
  BY <1>1, <1>2, <1>3, <1>4, <1>5

LEMMA HoldsSame ==
  ASSUME NEW u \in Threads, script'[u] = script[u],
         \A l \in Locks : (writer'[l] = u <=> writer[l] = u) /\ reads'[l][u] = reads[l][u]
  PROVE  Holds(u)' = Holds(u) /\ \A l \in Locks : Has(u, l)' <=> Has(u, l)
<1>1. ASSUME NEW l \in Locks PROVE Has(u, l)' <=> Has(u, l)
  BY DEF Has, Does, Idle, Its
<1> QED
  BY <1>1 DEF Holds

\* What t holds after a step that leads from the guards h to k.
LEMMA HoldsAfter ==
  ASSUME LockTypes, NEW t \in Threads, NEW k \in Holding, NEW s \in Seq(Steps), script'[t] = s,
         Runs(t, k, s, Nothing),
         \A l \in Locks : /\ writer'[l] = t => k[l] = Writes
                          /\ k[l] = Writes => writer'[l] = t
                          /\ k[l] # Writes => reads'[l][t] = k[l]
  PROVE  Holds(t)' = k /\ \A l \in Locks : Has(t, l)' <=> k[l] = Writes
<1>1. ASSUME NEW l \in Locks PROVE Has(t, l)' <=> k[l] = Writes
  <2>1. ASSUME k[l] = Writes, s # << >>, s[1][1] = "write", s[1][2] = l PROVE FALSE
    <3>1. s[1] \in Steps
      BY <2>1
    <3>2. s[1] = Write(l)
      BY <2>1, <3>1, StepFacts
    <3>3. May(t, k, s[1])
      BY <2>1, RunsOn
    <3>4. k[l] = 0
      BY <3>2, <3>3, WriteFree
    <3>5. QED BY <2>1, <3>4 DEF Writes
  <2>2. QED BY <2>1 DEF Has, Does, Idle, Its
<1>2. k = [l \in Locks |-> IF k[l] = Writes THEN Writes ELSE reads'[l][t]]
  <2>1. \A l \in Locks : k[l] = IF k[l] = Writes THEN Writes ELSE reads'[l][t]
    OBVIOUS
  <2>2. k = [l \in Locks |-> k[l]]
    BY DEF Holding
  <2>3. QED BY <2>1, <2>2
<1>3. Holds(t)' = [l \in Locks |-> IF Has(t, l)' THEN Writes ELSE reads'[l][t]]
  BY DEF Holds
<1> QED
  BY <1>1, <1>2, <1>3

LEMMA StepCourse ==
  ASSUME LockTypes, Courses, NEW t \in Threads, ~Idle(t)
  PROVE  LET x == script[t][1]
             h == Holds(t)
         IN  /\ x \in Steps /\ h \in Holding /\ May(t, h, x) /\ After(h, x) \in Holding
             /\ Tail(script[t]) \in Seq(Steps) /\ Runs(t, After(h, x), Tail(script[t]), Nothing)
<1> DEFINE s == script[t]
<1>1. s \in Seq(Steps) /\ s # << >>
  BY DEF LockTypes, Idle
<1>2. Holds(t) \in Holding /\ Runs(t, Holds(t), s, Nothing)
  BY DEF Courses
<1> HIDE DEF s
<1>3. s[1] \in Steps /\ Tail(s) \in Seq(Steps)
  BY <1>1
<1> QED
  BY <1>1, <1>2, <1>3, RunsOn DEF s

\* A step after which t holds what it should, and the others what they held.
LEMMA CoursesProceed ==
  ASSUME LockTypes, Courses, NEW t \in Threads, ~Idle(t), Proceed(t),
         NEW k, k = After(Holds(t), script[t][1]),
         \A u \in Threads, l \in Locks :
            u # t => (writer'[l] = u <=> writer[l] = u) /\ reads'[l][u] = reads[l][u],
         \A l \in Locks : /\ writer'[l] = t => k[l] = Writes
                          /\ k[l] = Writes => writer'[l] = t
                          /\ k[l] # Writes => reads'[l][t] = k[l]
  PROVE  /\ Courses'
         /\ \A l \in Locks : Has(t, l)' <=> k[l] = Writes
         /\ \A u \in Threads, l \in Locks : u # t => (Has(u, l)' <=> Has(u, l))
<1>1. /\ k \in Holding /\ Tail(script[t]) \in Seq(Steps) /\ Runs(t, k, Tail(script[t]), Nothing)
  BY StepCourse
<1>2. script'[t] = Tail(script[t]) /\ \A u \in Threads : u # t => script'[u] = script[u]
  BY ProceedShifts DEF LockTypes
<1>3. Holds(t)' = k /\ \A l \in Locks : Has(t, l)' <=> k[l] = Writes
  BY <1>1, <1>2, HoldsAfter
<1>4. ASSUME NEW u \in Threads, u # t
      PROVE  Holds(u)' = Holds(u) /\ \A l \in Locks : Has(u, l)' <=> Has(u, l)
  BY <1>2, <1>4, HoldsSame
<1>5. ASSUME NEW u \in Threads
      PROVE  Holds(u)' \in Holding /\ Runs(u, Holds(u)', script'[u], Nothing)
  <2>1. CASE u = t
    BY <1>1, <1>2, <1>3, <2>1
  <2>2. CASE u # t
    BY <1>2, <1>4, <2>2 DEF Courses
  <2>3. QED BY <2>1, <2>2
<1>6. Courses'
  BY <1>5 DEF Courses
<1> QED
  BY <1>3, <1>4, <1>6

\* The types of the locks.
LocksTyped ==
    /\ writer \in [Locks -> Threads \cup {NoOne}]
    /\ reads \in [Locks -> [Threads -> 0 .. 2]]

LEMMA ExclusionSame ==
  ASSUME Exclusion, reads' = reads, \A u \in Threads, l \in Locks : Has(u, l)' => Has(u, l)
  PROVE  Exclusion'
  BY DEF Exclusion

LEMMA ReadKeeps ==
  ASSUME LockTypes, Courses, Exclusion, NEW t \in Threads, AcquireRead(t)
  PROVE  Courses' /\ Exclusion' /\ LocksTyped'
<1> DEFINE x == script[t][1]
           l == x[2]
           h == Holds(t)
           k == After(h, x)
<1>1. ~Idle(t) /\ Proceed(t) /\ writer' = writer /\ writer[l] = NoOne /\ x[1] = "read"
      /\ reads' = [reads EXCEPT ![l][t] = @ + 1]
  BY DEF AcquireRead, Does, Its
<1>2. x \in Steps /\ h \in Holding /\ May(t, h, x) /\ k \in Holding
  BY <1>1, StepCourse
<1>3. l \in Locks /\ x = Read(l)
  BY <1>1, <1>2, StepFacts
<1>4. h[l] <= 1 /\ k = [h EXCEPT ![l] = @ + 1] /\ h[l] \in Nat
  <2>1. May(t, h, Read(l)) /\ k = After(h, Read(l))
    BY <1>2, <1>3
  <2> HIDE DEF h, k, l
  <2>2. h[l] <= 1 /\ k = [h EXCEPT ![l] = @ + 1]
    BY <1>2, <1>3, <2>1, ReadBound, AfterStep
  <2>3. QED BY <1>2, <1>3, <2>2 DEF Holding, Writes
<1>5. NoOne \notin Threads
  BY LocksAssumption DEF Threads
<1>6. \A m \in Locks : /\ h[m] = Writes => writer[m] = t
                       /\ writer[m] = t => h[m] = Writes
                       /\ h[m] # Writes => reads[m][t] = h[m]
  <2> SUFFICES ASSUME NEW m \in Locks
               PROVE  /\ h[m] = Writes => writer[m] = t
                      /\ writer[m] = t => h[m] = Writes
                      /\ h[m] # Writes => reads[m][t] = h[m]
    OBVIOUS
  <2>1. x # Write(m)
    BY <1>1 DEF Write
  <2>2. QED BY <2>1, HoldsFacts
<1>7. reads \in [Locks -> [Threads -> 0 .. 2]] /\ writer \in [Locks -> Threads \cup {NoOne}]
  BY DEF LockTypes
<1>8. \A m \in Locks, u \in Threads :
         reads'[m][u] = IF m = l /\ u = t THEN reads[m][u] + 1 ELSE reads[m][u]
  BY <1>1, <1>3, <1>7
<1>9. Has(t, l) <=> h[l] = Writes
  BY <1>3, HoldsFacts
<1>10. k = After(Holds(t), script[t][1])
  OBVIOUS
<1> HIDE DEF x, l, h, k
<1>11. \A m \in Locks : /\ writer'[m] = t => k[m] = Writes
                        /\ k[m] = Writes => writer'[m] = t
                        /\ k[m] # Writes => reads'[m][t] = k[m]
  <2> SUFFICES ASSUME NEW m \in Locks
               PROVE  /\ writer'[m] = t => k[m] = Writes
                      /\ k[m] = Writes => writer'[m] = t
                      /\ k[m] # Writes => reads'[m][t] = k[m]
    OBVIOUS
  <2>1. CASE m = l
    <3>1. k[l] = h[l] + 1 /\ h[l] # Writes /\ k[l] # Writes
      BY <1>2, <1>3, <1>4 DEF Holding, Writes
    <3>2. QED BY <1>1, <1>3, <1>5, <1>6, <1>8, <2>1, <3>1
  <2>2. CASE m # l
    <3>1. k[m] = h[m]
      BY <1>2, <1>3, <1>4, <2>2 DEF Holding
    <3>2. QED BY <1>1, <1>6, <1>8, <2>2, <3>1
  <2>3. QED BY <2>1, <2>2
<1>12. /\ Courses'
       /\ \A m \in Locks : Has(t, m)' <=> k[m] = Writes
       /\ \A u \in Threads, m \in Locks : u # t => (Has(u, m)' <=> Has(u, m))
  BY <1>1, <1>8, <1>10, <1>11, CoursesProceed
<1>13. LocksTyped'
  <2>1. reads[l][t] <= 1
    BY <1>1, <1>3, <1>4, <1>5, <1>6, <1>7 DEF Writes
  <2>2. ASSUME NEW m \in Locks, NEW u \in Threads PROVE reads'[m][u] \in 0 .. 2
    BY <1>7, <1>8, <2>1
  <2>3. reads' \in [Locks -> [Threads -> 0 .. 2]]
    <3>1. reads' = [reads EXCEPT ![l] = [reads[l] EXCEPT ![t] = @ + 1]]
      BY <1>1
    <3>2. [reads[l] EXCEPT ![t] = @ + 1] \in [Threads -> 0 .. 2]
      BY <1>3, <1>7, <2>1
    <3>3. QED BY <1>7, <3>1, <3>2
  <2>4. writer' \in [Locks -> Threads \cup {NoOne}]
    BY <1>1, <1>7
  <2>5. QED BY <2>3, <2>4 DEF LocksTyped
<1>14. ASSUME NEW m \in Locks, NEW u \in Threads, Has(u, m)', NEW v \in Threads
       PROVE  reads'[m][v] = 0
  <2>1. Has(u, m) /\ m # l
    <3>1. CASE u # t
      <4>1. Has(u, m)
        BY <1>12, <1>14, <3>1
      <4>2. writer[m] = u
        BY <4>1 DEF Has
      <4>3. QED BY <1>1, <1>5, <4>1, <4>2
    <3>2. CASE u = t
      <4>1. writer'[m] = t
        BY <1>11, <1>12, <1>14, <3>2
      <4>2. m # l /\ h[m] = Writes
        BY <1>1, <1>5, <1>6, <4>1
      <4>3. QED BY <3>2, <4>2, HoldsFacts DEF h
    <3>3. QED BY <3>1, <3>2
  <2>2. QED BY <1>8, <2>1 DEF Exclusion
<1>15. Exclusion'
  BY <1>14 DEF Exclusion
<1> QED
  BY <1>12, <1>13, <1>15

LEMMA WriteKeeps ==
  ASSUME LockTypes, Courses, Exclusion, NEW t \in Threads, AcquireWrite(t)
  PROVE  Courses' /\ Exclusion' /\ LocksTyped'
<1> DEFINE x == script[t][1]
           l == x[2]
           h == Holds(t)
           k == After(h, x)
<1>1. ~Idle(t) /\ Proceed(t) /\ writer' = writer /\ reads' = reads /\ writer[l] = t /\ x[1] = "write"
      /\ \A u \in Threads : reads[l][u] = 0
  BY DEF AcquireWrite, Does, Its, lockVars
<1>2. x \in Steps /\ h \in Holding /\ May(t, h, x) /\ k \in Holding
  BY <1>1, StepCourse
<1>3. l \in Locks /\ x = Write(l) /\ \A m \in Locks : x = Write(m) => m = l
  BY <1>1, <1>2, StepFacts DEF Write
<1>4. k = [h EXCEPT ![l] = Writes]
  BY <1>2, <1>3, AfterStep
<1>6. \A m \in Locks : m # l =>
                       /\ h[m] = Writes => writer[m] = t
                       /\ writer[m] = t => h[m] = Writes
                       /\ h[m] # Writes => reads[m][t] = h[m]
  BY <1>3, HoldsFacts
<1>10. k = After(Holds(t), script[t][1])
  OBVIOUS
<1> HIDE DEF x, l, h, k
<1>11. \A m \in Locks : /\ writer'[m] = t => k[m] = Writes
                        /\ k[m] = Writes => writer'[m] = t
                        /\ k[m] # Writes => reads'[m][t] = k[m]
  BY <1>1, <1>2, <1>3, <1>4, <1>6 DEF Holding
<1>12. /\ Courses'
       /\ \A m \in Locks : Has(t, m)' <=> k[m] = Writes
       /\ \A u \in Threads, m \in Locks : u # t => (Has(u, m)' <=> Has(u, m))
  BY <1>1, <1>10, <1>11, CoursesProceed
<1>13. LocksTyped'
  BY <1>1 DEF LockTypes, LocksTyped
<1>14. ASSUME NEW m \in Locks, NEW u \in Threads, Has(u, m)', NEW v \in Threads
       PROVE  reads'[m][v] = 0
  <2>1. m = l \/ Has(u, m)
    <3>1. CASE u = t /\ m # l
      <4>1. h[m] = Writes
        BY <1>2, <1>3, <1>4, <1>12, <1>14, <3>1 DEF Holding
      <4>2. QED BY <3>1, <4>1, HoldsFacts DEF h
    <3>2. QED BY <1>12, <1>14, <3>1
  <2>2. QED BY <1>1, <2>1 DEF Exclusion
<1>15. Exclusion'
  BY <1>14 DEF Exclusion
<1> QED
  BY <1>12, <1>13, <1>15

LEMMA ReleaseKeeps ==
  ASSUME LockTypes, Courses, Exclusion, NEW t \in Threads, Release(t)
  PROVE  Courses' /\ Exclusion' /\ LocksTyped'
<1> DEFINE x == script[t][1]
           l == x[2]
           h == Holds(t)
           k == After(h, x)
<1>1. ~Idle(t) /\ Proceed(t) /\ x[1] = "free"
      /\ IF writer[l] = t
         THEN writer' = [writer EXCEPT ![l] = NoOne] /\ reads' = reads
         ELSE reads' = [reads EXCEPT ![l][t] = @ - 1] /\ writer' = writer
  BY DEF Release, Does, Its
<1>2. x \in Steps /\ h \in Holding /\ May(t, h, x) /\ k \in Holding
  BY <1>1, StepCourse
<1>3. l \in Locks /\ x = Free(l)
  BY <1>1, <1>2, StepFacts
<1>4. k = [h EXCEPT ![l] = IF @ = Writes THEN 0 ELSE @ - 1] /\ h[l] > 0 /\ h[l] \in Nat
  <2>1. k = [h EXCEPT ![l] = IF @ = Writes THEN 0 ELSE @ - 1]
    BY <1>2, <1>3, AfterStep
  <2>2. h[l] > 0
    BY <1>1, <1>2 DEF May, WorkerMay, ServerMay
  <2>3. QED BY <1>2, <1>3, <2>1, <2>2 DEF Holding, Writes
<1>5. NoOne \notin Threads
  BY LocksAssumption DEF Threads
<1>6. \A m \in Locks : /\ h[m] = Writes => writer[m] = t
                       /\ writer[m] = t => h[m] = Writes
                       /\ h[m] # Writes => reads[m][t] = h[m]
  <2> SUFFICES ASSUME NEW m \in Locks
               PROVE  /\ h[m] = Writes => writer[m] = t
                      /\ writer[m] = t => h[m] = Writes
                      /\ h[m] # Writes => reads[m][t] = h[m]
    OBVIOUS
  <2>1. x # Write(m)
    BY <1>1 DEF Write
  <2>2. QED BY <2>1, HoldsFacts
<1>7. reads \in [Locks -> [Threads -> 0 .. 2]] /\ writer \in [Locks -> Threads \cup {NoOne}]
  BY DEF LockTypes
<1>8. \A m \in Locks : h[m] = Writes => Has(t, m) /\ \A u \in Threads : reads[m][u] = 0
  BY HoldsFacts DEF Exclusion
<1>10. k = After(Holds(t), script[t][1])
  OBVIOUS
<1>16. \A m \in Locks : (Has(t, m) <=> h[m] = Writes)
  BY HoldsFacts
<1> HIDE DEF x, l, h, k
<1>9. \A m \in Locks, u \in Threads :
         reads'[m][u] = IF m = l /\ u = t /\ h[l] # Writes THEN reads[m][u] - 1 ELSE reads[m][u]
  BY <1>1, <1>3, <1>6, <1>7
<1>17. \A m \in Locks : writer'[m] = IF m = l /\ h[l] = Writes THEN NoOne ELSE writer[m]
  BY <1>1, <1>3, <1>6, <1>7
<1>11. \A m \in Locks : /\ writer'[m] = t => k[m] = Writes
                        /\ k[m] = Writes => writer'[m] = t
                        /\ k[m] # Writes => reads'[m][t] = k[m]
  <2> SUFFICES ASSUME NEW m \in Locks
               PROVE  /\ writer'[m] = t => k[m] = Writes
                      /\ k[m] = Writes => writer'[m] = t
                      /\ k[m] # Writes => reads'[m][t] = k[m]
    OBVIOUS
  <2>1. CASE m = l /\ h[l] = Writes
    <3>1. k[l] = 0 /\ reads[l][t] = 0 /\ 0 # Writes
      BY <1>2, <1>3, <1>4, <1>8, <2>1 DEF Holding, Writes
    <3>2. QED BY <1>3, <1>5, <1>9, <1>17, <2>1, <3>1
  <2>2. CASE m = l /\ h[l] # Writes
    <3>1. k[l] = h[l] - 1 /\ k[l] # Writes
      <4>1. h[l] \in 0 .. 3
        BY <1>2, <1>3 DEF Holding, Writes
      <4>2. k[l] = h[l] - 1
        BY <1>2, <1>3, <1>4, <2>2 DEF Holding
      <4>3. QED BY <4>1, <4>2 DEF Writes
    <3>2. QED BY <1>3, <1>6, <1>9, <1>17, <2>2, <3>1
  <2>3. CASE m # l
    <3>1. k[m] = h[m]
      BY <1>2, <1>3, <1>4, <2>3 DEF Holding
    <3>2. QED BY <1>6, <1>9, <1>17, <2>3, <3>1
  <2>4. QED BY <2>1, <2>2, <2>3
<1>18. \A u \in Threads, m \in Locks :
          u # t => (writer'[m] = u <=> writer[m] = u) /\ reads'[m][u] = reads[m][u]
  BY <1>3, <1>5, <1>6, <1>9, <1>17
<1>12. /\ Courses'
       /\ \A m \in Locks : Has(t, m)' <=> k[m] = Writes
       /\ \A u \in Threads, m \in Locks : u # t => (Has(u, m)' <=> Has(u, m))
  BY <1>1, <1>10, <1>11, <1>18, CoursesProceed
<1>13. LocksTyped'
  <2>1. h[l] # Writes => reads[l][t] > 0
    BY <1>3, <1>4, <1>6
  <2>2. reads' \in [Locks -> [Threads -> 0 .. 2]]
    <3>1. CASE reads' = reads
      BY <1>7, <3>1
    <3>2. CASE reads' = [reads EXCEPT ![l][t] = @ - 1] /\ h[l] # Writes
      <4>1. [reads[l] EXCEPT ![t] = @ - 1] \in [Threads -> 0 .. 2]
        BY <1>3, <1>7, <2>1, <3>2
      <4>2. QED BY <1>7, <3>2, <4>1
    <3>3. QED BY <1>1, <1>3, <1>6, <3>1, <3>2
  <2>3. writer' \in [Locks -> Threads \cup {NoOne}]
    BY <1>1, <1>7
  <2>4. QED BY <2>2, <2>3 DEF LocksTyped
<1>14. ASSUME NEW m \in Locks, NEW u \in Threads, Has(u, m)', NEW v \in Threads
       PROVE  reads'[m][v] = 0
  <2>1. Has(u, m) /\ (m = l => h[l] = Writes)
    <3>1. CASE u = t
      <4>1. k[m] = Writes
        BY <1>12, <1>14, <3>1
      <4>2. m # l /\ h[m] = Writes
        <5>1. h[l] \in 0 .. 3
          BY <1>2, <1>3 DEF Holding, Writes
        <5>2. k[l] # Writes
          BY <1>2, <1>3, <1>4, <5>1 DEF Holding, Writes
        <5>3. m # l
          BY <4>1, <5>2
        <5>4. QED BY <1>2, <1>3, <1>4, <4>1, <5>3 DEF Holding
      <4>3. QED BY <1>16, <3>1, <4>2
    <3>2. CASE u # t
      <4>1. Has(u, m)
        BY <1>12, <1>14, <3>2
      <4>2. reads[m][t] = 0
        BY <4>1 DEF Exclusion
      <4>3. m = l => h[l] = Writes
        BY <1>3, <1>4, <1>6, <4>2
      <4>4. QED BY <4>1, <4>3
    <3>3. QED BY <3>1, <3>2
  <2>2. QED BY <1>3, <1>9, <2>1 DEF Exclusion
<1>15. Exclusion'
  BY <1>14 DEF Exclusion
<1> QED
  BY <1>12, <1>13, <1>15

\* A step that is about no lock.
LEMMA OtherKeeps ==
  ASSUME LockTypes, Courses, Exclusion, NEW t \in Threads, ~Idle(t), Proceed(t),
         script[t][1][1] \in {"fork", "await", "done", "end"}, UNCHANGED lockVars
  PROVE  Courses' /\ Exclusion' /\ LocksTyped'
<1> DEFINE x == script[t][1]
           h == Holds(t)
<1>1. writer' = writer /\ reads' = reads
  BY DEF lockVars
<1>2. After(h, x) = h
  BY DEF After
<1>3. \A m \in Locks : /\ writer[m] = t => h[m] = Writes
                       /\ h[m] = Writes => writer[m] = t
                       /\ h[m] # Writes => reads[m][t] = h[m]
  <2> SUFFICES ASSUME NEW m \in Locks
               PROVE  /\ writer[m] = t => h[m] = Writes
                      /\ h[m] = Writes => writer[m] = t
                      /\ h[m] # Writes => reads[m][t] = h[m]
    OBVIOUS
  <2>1. x # Write(m)
    BY DEF Write
  <2>2. QED BY <2>1, HoldsFacts
<1>4. \A m \in Locks : Has(t, m) <=> h[m] = Writes
  BY HoldsFacts
<1>5. h = After(Holds(t), script[t][1])
  BY <1>2
<1> HIDE DEF x, h
<1>6. /\ Courses'
      /\ \A m \in Locks : Has(t, m)' <=> h[m] = Writes
      /\ \A u \in Threads, m \in Locks : u # t => (Has(u, m)' <=> Has(u, m))
  BY <1>1, <1>3, <1>5, CoursesProceed
<1>7. Exclusion'
  BY <1>1, <1>4, <1>6, ExclusionSame
<1>8. LocksTyped'
  BY <1>1 DEF LockTypes, LocksTyped
<1> QED
  BY <1>6, <1>7, <1>8

LEMMA AnnounceKeeps ==
  ASSUME LockTypes, Courses, Exclusion, NEW t \in Threads, AnnounceWrite(t)
  PROVE  Courses' /\ Exclusion' /\ LocksTyped'
<1> DEFINE x == script[t][1]
           l == x[2]
<1>1. /\ ~Idle(t) /\ x[1] = "write" /\ writer[l] = NoOne
      /\ writer' = [writer EXCEPT ![l] = t] /\ script' = script /\ reads' = reads
  BY DEF AnnounceWrite, Does, Its
<1>2. x \in Steps /\ l \in Locks /\ x = Write(l)
  BY <1>1, StepCourse, StepFacts
<1>3. NoOne \notin Threads /\ writer \in [Locks -> Threads \cup {NoOne}]
  BY LocksAssumption DEF Threads, LockTypes
<1>4. \A m \in Locks : writer'[m] = IF m = l THEN t ELSE writer[m]
  BY <1>1, <1>2, <1>3
<1>5. ASSUME NEW u \in Threads, NEW m \in Locks PROVE Has(u, m)' <=> Has(u, m)
  <2>1. CASE m # l
    BY <1>1, <1>4, <2>1 DEF Has, Does, Idle, Its
  <2>2. CASE m = l /\ u # t
    BY <1>1, <1>3, <1>4, <2>2 DEF Has
  <2>3. CASE m = l /\ u = t
    <3>1. ~Has(u, m)
      BY <1>1, <1>3, <2>3 DEF Has
    <3>2. Does(t, "write")' /\ Its(t)' = l
      BY <1>1 DEF Does, Idle, Its
    <3>3. QED BY <2>3, <3>1, <3>2 DEF Has
  <2>4. QED BY <2>1, <2>2, <2>3
<1>6. ASSUME NEW u \in Threads PROVE Holds(u)' = Holds(u)
  BY <1>1, <1>5 DEF Holds
<1>7. ASSUME NEW u \in Threads
      PROVE  Holds(u)' \in Holding /\ Runs(u, Holds(u)', script'[u], Nothing)
  BY <1>1, <1>6 DEF Courses
<1>8. Courses'
  BY <1>7 DEF Courses
<1>9. LocksTyped'
  <2>1. writer' \in [Locks -> Threads \cup {NoOne}]
    BY <1>1, <1>3
  <2>2. QED BY <1>1, <2>1 DEF LockTypes, LocksTyped
<1> QED
  BY <1>1, <1>5, <1>8, <1>9, ExclusionSame

\* A worker that may begin a job holds rooms only, to read, and waits for no lock.
LEMMA Waiting ==
  ASSUME LockTypes, Courses, NEW w \in Workers, Idle(w) \/ Does(w, "await")
  PROVE  /\ Holds(w) \in Holding /\ Calm(Holds(w))
         /\ \A l \in Locks : writer[l] # w /\ ~Has(w, l) /\ Holds(w)[l] = reads[l][w]
<1>1. w \in Threads /\ w # Actor
  BY LocksAssumption DEF Threads
<1>2. Holds(w) \in Holding
  BY <1>1 DEF Courses
<1>3. Calm(Holds(w))
  <2>1. CASE Idle(w)
    <3>1. Runs(w, Holds(w), << >>, Nothing)
      BY <1>1, <2>1 DEF Courses, Idle
    <3>2. Holds(w) = Nothing
      BY <3>1, RunsEnd
    <3>3. QED BY <3>2, NoneHeld DEF Calm, OnlyRooms, Shares, Writes
  <2>2. CASE Does(w, "await")
    <3> DEFINE x == script[w][1]
    <3>1. ~Idle(w) /\ x[1] = "await"
      BY <2>2 DEF Does
    <3>2. May(w, Holds(w), x)
      BY <1>1, <3>1, StepCourse
    <3>3. x # Read(Clients)
      BY <3>1 DEF Read
    <3> HIDE DEF x
    <3>4. QED BY <1>1, <3>1, <3>2, <3>3 DEF Calm, May, WorkerMay
  <2>3. QED BY <2>1, <2>2
<1>4. ASSUME NEW l \in Locks
      PROVE  writer[l] # w /\ ~Has(w, l) /\ Holds(w)[l] = reads[l][w]
  <2>1. ~Has(w, l)
    BY <1>1, <1>3, HoldsFacts DEF Calm, Shares
  <2>2. writer[l] = w => script[w] # << >> /\ script[w][1] = Write(l)
    BY <1>1, <2>1, HoldsFacts
  <2>3. writer[l] # w
    <3>1. Write(l)[1] = "write"
      BY DEF Write
    <3>2. QED BY <2>2, <3>1 DEF Does, Idle
  <2>4. QED BY <1>1, <2>1, <2>3, HoldsFacts
<1> QED
  BY <1>2, <1>3, <1>4

LEMMA BeginKeeps ==
  ASSUME LockTypes, Courses, Exclusion, NEW w, NEW b, NEW f, Begins(w, Holds(w), b, f), UNCHANGED lockVars
  PROVE  Courses' /\ Exclusion' /\ LocksTyped'
<1>1. writer' = writer /\ reads' = reads /\ w \in Workers /\ w \in Threads
  BY DEF lockVars, Begins, Threads
<1>2. b \in Seq(Steps) /\ Runs(w, Holds(w), b, Holds(w))
  BY DEF Begins, Job
<1>3. script'[w] = b \o script[w] /\ \A u \in Threads : u # w => script'[u] = script[u]
  BY <1>1, <1>2, BeginShifts DEF Begins, LockTypes
<1>4. \A l \in Locks : writer[l] # w /\ ~Has(w, l)
  BY <1>1, Waiting DEF Begins
<1>5. ASSUME NEW u \in Threads, NEW l \in Locks PROVE Has(u, l)' <=> Has(u, l)
  <2>1. CASE u = w
    BY <1>1, <1>4, <2>1 DEF Has
  <2>2. CASE u # w
    BY <1>1, <1>3, <2>2 DEF Has, Does, Idle, Its
  <2>3. QED BY <2>1, <2>2
<1>6. ASSUME NEW u \in Threads PROVE Holds(u)' = Holds(u)
  BY <1>1, <1>5 DEF Holds
<1>7. Runs(w, Holds(w), b \o script[w], Nothing)
  <2> DEFINE s == script[w]
             h == Holds(w)
  <2>1. s \in Seq(Steps) /\ Runs(w, h, s, Nothing) /\ Runs(w, h, b, h)
    BY <1>1, <1>2 DEF LockTypes, Courses
  <2> HIDE DEF s, h
  <2>2. Runs(w, h, b \o s, Nothing)
    BY <1>2, <2>1, RunsThen
  <2>3. QED BY <2>2 DEF s, h
<1>8. ASSUME NEW u \in Threads
      PROVE  Holds(u)' \in Holding /\ Runs(u, Holds(u)', script'[u], Nothing)
  <2>1. CASE u = w
    BY <1>1, <1>3, <1>6, <1>7, <2>1 DEF Courses
  <2>2. CASE u # w
    BY <1>3, <1>6, <2>2 DEF Courses
  <2>3. QED BY <2>1, <2>2
<1>9. Courses'
  BY <1>8 DEF Courses
<1>10. LocksTyped'
  BY <1>1 DEF LockTypes, LocksTyped
<1> QED
  BY <1>1, <1>5, <1>9, <1>10, ExclusionSame

\* The server begins with the next message.
LEMMA HandleKeeps ==
  ASSUME LockTypes, Courses, Exclusion, Idle(Actor), NEW s \in ServerScripts,
         script' = [script EXCEPT ![Actor] = s], UNCHANGED lockVars
  PROVE  Courses' /\ Exclusion' /\ LocksTyped' /\ script' \in [Threads -> Seq(Steps)]
         /\ ServerShape(s) /\ \A u \in Workers : script'[u] = script[u]
<1>1. writer' = writer /\ reads' = reads /\ Actor \in Threads
  BY DEF lockVars, Threads
<1>2. s \in Seq(CallSteps(OfServer)) /\ Paired(OfServer, s) /\ Runs(Actor, Nothing, s, Nothing)
  BY ServerRuns DEF Part
<1>3. s \in Seq(Steps)
  BY <1>2, LockFacts, EndFacts
<1>4. script' \in [Threads -> Seq(Steps)] /\ script'[Actor] = s
      /\ \A u \in Threads : u # Actor => script'[u] = script[u]
  BY <1>1, <1>3 DEF LockTypes
<1>5. ServerShape(s)
  <2>1. \A i \in 1 .. Len(s) : s[i] \in CallSteps(OfServer)
    BY <1>2
  <2>2. \A i \in 2 .. Len(s) : i \in 1 .. Len(s)
    BY <1>3
  <2>3. QED BY <1>2, <2>1, <2>2 DEF ServerShape, Paired
<1>6. Holds(Actor) = Nothing
  <2>1. Runs(Actor, Holds(Actor), << >>, Nothing)
    BY <1>1 DEF Courses, Idle
  <2>2. QED BY <2>1, RunsEnd
<1>7. \A l \in Locks : writer[l] # Actor /\ ~Has(Actor, l)
  <2> SUFFICES ASSUME NEW l \in Locks PROVE writer[l] # Actor /\ ~Has(Actor, l)
    OBVIOUS
  <2>1. ~Has(Actor, l)
    BY <1>1, <1>6, NoneHeld, HoldsFacts DEF Writes
  <2>2. QED BY <1>1, <2>1, HoldsFacts DEF Idle
<1>8. ASSUME NEW u \in Threads, NEW l \in Locks PROVE Has(u, l)' <=> Has(u, l)
  <2>1. CASE u = Actor
    BY <1>1, <1>7, <2>1 DEF Has
  <2>2. CASE u # Actor
    BY <1>1, <1>4, <2>2 DEF Has, Does, Idle, Its
  <2>3. QED BY <2>1, <2>2
<1>9. ASSUME NEW u \in Threads PROVE Holds(u)' = Holds(u)
  BY <1>1, <1>8 DEF Holds
<1>10. ASSUME NEW u \in Threads
      PROVE  Holds(u)' \in Holding /\ Runs(u, Holds(u)', script'[u], Nothing)
  <2>1. CASE u = Actor
    BY <1>1, <1>2, <1>4, <1>6, <1>9, <2>1, NoneHeld
  <2>2. CASE u # Actor
    BY <1>4, <1>9, <2>2 DEF Courses
  <2>3. QED BY <2>1, <2>2
<1>11. Courses'
  BY <1>10 DEF Courses
<1>12. LocksTyped'
  BY <1>1 DEF LockTypes, LocksTyped
<1>13. \A u \in Workers : script'[u] = script[u]
  BY <1>4, LocksAssumption DEF Threads
<1> QED
  BY <1>1, <1>4, <1>5, <1>8, <1>11, <1>12, <1>13, ExclusionSame

-----------------------------------------------------------------------------
(* Where the rooms are held *)

\* The first end in what a worker has left to do is that of the job it is in.
LEMMA FirstEnd ==
  ASSUME NEW s \in Seq(Steps), WorkerShape(s), NEW i \in 1 .. Len(s)
  PROVE  \E e \in i .. Len(s) :
            /\ s[e] \in Ends /\ e \in 1 .. Len(s)
            /\ \A j \in i .. e - 1 : s[j] \in StepsOf(s[e]) /\ s[j] \notin Ends
<1>1. PICK e \in i .. Len(s) : s[e] \in Ends /\ \A j \in i .. e - 1 : s[j] \in StepsOf(s[e])
  BY DEF WorkerShape
<1>2. \A j \in i .. e - 1 : s[j] \notin Ends
  BY <1>1, InnerSteps
<1> QED
  BY <1>1, <1>2

\* The guard of a room is given back just before its job ends.
LEMMA FreeEnds ==
  ASSUME NEW s \in Seq(Steps), WorkerShape(s), NEW r \in Rooms
  PROVE  /\ \A i \in 1 .. Len(s) : s[i] = Free(Room(r)) => i + 1 \in 1 .. Len(s) /\ s[i + 1] = <<"end", r>>
         /\ \A i \in 2 .. Len(s) : s[i] = <<"end", r>> => i - 1 \in 1 .. Len(s) /\ s[i - 1] = Free(Room(r))
         /\ \A i \in 2 .. Len(s) : s[i] # Read(Room(r))
<1>1. ASSUME NEW i \in 1 .. Len(s), s[i] = Free(Room(r))
      PROVE  i + 1 \in 1 .. Len(s) /\ s[i + 1] = <<"end", r>>
  <2>1. s[i] \notin Ends
    BY <1>1, EndFacts DEF Free
  <2>2. PICK e \in i .. Len(s) : s[e] \in Ends
    BY DEF WorkerShape
  <2>3. e # i
    BY <2>1, <2>2
  <2>4. i \in 1 .. Len(s) - 1 /\ i + 1 \in 1 .. Len(s)
    BY <2>2, <2>3
  <2>5. Adjacent(s[i], s[i + 1])
    BY <2>4 DEF WorkerShape
  <2>6. QED BY <1>1, <2>4, <2>5 DEF Adjacent
<1>2. ASSUME NEW i \in 2 .. Len(s)
      PROVE  i - 1 \in 1 .. Len(s) /\ Adjacent(s[i - 1], s[i])
  <2>1. i - 1 \in 1 .. Len(s) - 1 /\ (i - 1) + 1 = i /\ i - 1 \in 1 .. Len(s)
    BY <1>2
  <2>2. QED BY <2>1 DEF WorkerShape
<1>3. <<"end", r>>[1] = "end" /\ <<"end", r>>[2] = r
  OBVIOUS
<1>4. ASSUME NEW i \in 2 .. Len(s), s[i] = <<"end", r>>
      PROVE  i - 1 \in 1 .. Len(s) /\ s[i - 1] = Free(Room(r))
  <2>1. s[i][1] = "end" /\ s[i][2] = r
    BY <1>3, <1>4
  <2>2. QED BY <1>2, <2>1 DEF Adjacent
<1>5. ASSUME NEW i \in 2 .. Len(s) PROVE s[i] # Read(Room(r))
  BY <1>2 DEF Adjacent
<1> QED
  BY <1>1, <1>4, <1>5

LEMMA InsideNext ==
  ASSUME NEW s \in Seq(Steps), WorkerShape(s), s # << >>, NEW r \in Rooms,
         NEW z, z = Tail(s),
         \A i, j \in 1 .. Len(s) : s[i] \in Ends /\ s[i] = s[j] => i = j
  PROVE  /\ s[1] = Read(Room(r)) => Inside(z, r) /\ ~Inside(s, r)
         /\ s[1] = Free(Room(r)) => ~Inside(z, r) /\ Inside(s, r)
         /\ s[1] # Read(Room(r)) /\ s[1] # Free(Room(r)) => (Inside(z, r) <=> Inside(s, r))
<1>1. /\ Len(s) \in Nat \ {0} /\ z \in Seq(Steps) /\ Len(z) = Len(s) - 1
      /\ \A i \in 1 .. Len(z) : z[i] = s[i + 1]
      /\ \A i \in 2 .. Len(s) : i - 1 \in 1 .. Len(z) /\ z[i - 1] = s[i]
  <2>1. Len(s) \in Nat \ {0} /\ z \in Seq(Steps) /\ Len(z) = Len(s) - 1
        /\ \A i \in 1 .. Len(z) : z[i] = s[i + 1]
    OBVIOUS
  <2>2. \A i \in 2 .. Len(s) : i - 1 \in 1 .. Len(z) /\ (i - 1) + 1 = i
    BY <2>1
  <2>3. QED BY <2>1, <2>2
<1>2. z # << >> <=> Len(z) # 0
  BY <1>1, EmptySeq
<1>3. 1 \in 1 .. Len(s)
  BY <1>1
<1>4. \A i \in 2 .. Len(s) : s[i] # Read(Room(r))
  BY FreeEnds
<1>5. z # << >> => z[1] # Read(Room(r))
  <2>1. z # << >> => 1 \in 1 .. Len(z) /\ 1 + 1 \in 2 .. Len(s)
    BY <1>1, <1>2
  <2>2. QED BY <1>1, <1>4, <2>1
<1>6. Inside(z, r) <=> \E i \in 2 .. Len(s) : s[i] = Free(Room(r))
  <2>1. ASSUME NEW i \in 2 .. Len(s), s[i] = Free(Room(r)) PROVE Inside(z, r)
    <3>1. i - 1 \in 1 .. Len(z) /\ z[i - 1] = Free(Room(r)) /\ z # << >>
      BY <1>1, <1>2, <2>1
    <3>2. QED BY <1>5, <3>1 DEF Inside
  <2>2. ASSUME Inside(z, r) PROVE \E i \in 2 .. Len(s) : s[i] = Free(Room(r))
    <3>1. PICK i \in 1 .. Len(z) : z[i] = Free(Room(r))
      BY <2>2 DEF Inside
    <3>2. i + 1 \in 2 .. Len(s) /\ s[i + 1] = Free(Room(r))
      BY <1>1, <3>1
    <3>3. QED BY <3>2
  <2>3. QED BY <2>1, <2>2
<1>7. Inside(s, r) <=> s[1] # Read(Room(r)) /\ \E i \in 1 .. Len(s) : s[i] = Free(Room(r))
  BY DEF Inside
<1>8. Read(Room(r)) # Free(Room(r))
  BY DEF Read, Free
<1>9. CASE s[1] = Read(Room(r))
  <2>1. PICK e \in 1 .. Len(s) : s[e] \in Ends /\ \A j \in 1 .. e - 1 : s[j] \in StepsOf(s[e])
    BY <1>3 DEF WorkerShape
  <2>2. s[1] \notin Ends
    BY <1>9, EndFacts DEF Read
  <2>3. e \in 2 .. Len(s) /\ 1 \in 1 .. e - 1
    BY <2>1, <2>2
  <2>4. s[e] = <<"end", r>>
    BY <1>9, <2>1, <2>3, InnerSteps
  <2>5. e - 1 \in 1 .. Len(s) /\ s[e - 1] = Free(Room(r))
    BY <2>3, <2>4, FreeEnds
  <2>6. e - 1 # 1
    BY <1>8, <1>9, <2>5
  <2>7. e - 1 \in 2 .. Len(s)
    BY <2>3, <2>5, <2>6
  <2>8. QED BY <1>6, <1>7, <1>8, <1>9, <2>5, <2>7
<1>10. CASE s[1] = Free(Room(r))
  <2>1. 1 + 1 \in 1 .. Len(s) /\ s[1 + 1] = <<"end", r>>
    BY <1>3, <1>10, FreeEnds
  <2>2. ASSUME NEW i \in 2 .. Len(s), s[i] = Free(Room(r)) PROVE FALSE
    <3>1. i + 1 \in 1 .. Len(s) /\ s[i + 1] = <<"end", r>>
      BY <2>2, FreeEnds
    <3>2. <<"end", r>> \in Ends
      BY DEF Ends
    <3>3. i + 1 = 1 + 1
      BY <2>1, <3>1, <3>2
    <3>4. QED BY <3>3
  <2>3. QED BY <1>3, <1>6, <1>7, <1>8, <1>10, <2>2
<1>11. CASE s[1] # Read(Room(r)) /\ s[1] # Free(Room(r))
  <2>1. \A i \in 1 .. Len(s) : s[i] = Free(Room(r)) => i \in 2 .. Len(s)
    BY <1>1, <1>11
  <2>2. \A i \in 2 .. Len(s) : i \in 1 .. Len(s)
    BY <1>1
  <2>3. QED BY <1>6, <1>7, <1>11, <2>1, <2>2
<1> QED
  BY <1>9, <1>10, <1>11

LEMMA InsideBegin ==
  ASSUME script \in [Threads -> Seq(Steps)], Shapes, NEW w, NEW h, NEW b, NEW f, Begins(w, h, b, f),
         NEW r \in Rooms
  PROVE  /\ f # <<"end", r>> => (Inside(script'[w], r) <=> Inside(script[w], r))
         /\ b[1] = Read(Room(r)) => ~Inside(script'[w], r)
         /\ (\A i \in 1 .. Len(script[w]) : script[w][i] # <<"end", r>>) => ~Inside(script[w], r)
<1> DEFINE s == script[w]
           z == script'[w]
           n == Len(b)
<1>1. b \in Seq(Steps) /\ w \in Workers /\ w \in Threads /\ script' = [script EXCEPT ![w] = b \o @]
      /\ n \in Nat \ {0}
      /\ \A i \in 1 .. n : i = n \/ b[i] \in StepsOf(f)
  BY JobFacts DEF Begins, Threads
<1>2. b[n] = f /\ f \in Ends
  BY JobFacts DEF Begins
<1>3. /\ Len(s) \in Nat /\ Len(z) = n + Len(s) /\ z \in Seq(Steps)
      /\ \A i \in 1 .. n : z[i] = b[i]
      /\ \A i \in 1 .. Len(s) : z[n + i] = s[i]
      /\ \A i \in 1 .. Len(z) : i \in 1 .. n \/ (i - n \in 1 .. Len(s) /\ z[i] = s[i - n])
  BY <1>1, BeginShifts
<1>4. WorkerShape(s) /\ s \in Seq(Steps)
  BY <1>1 DEF Shapes
<1>5. s = << >> \/ s[1][1] = "await"
  BY <1>1 DEF Begins, Idle, Does
<1> HIDE DEF s, z, n
<1>6. z # << >> /\ z[1] = b[1]
  <2>1. Len(z) # 0 /\ 1 \in 1 .. n
    BY <1>1, <1>3
  <2>2. QED BY <1>3, <2>1
<1>7. s # << >> => s[1] # Read(Room(r))
  BY <1>5 DEF Read
<1>8. (\A i \in 1 .. Len(s) : s[i] # <<"end", r>>) => ~Inside(s, r)
  BY <1>4, FreeEnds DEF Inside
<1>9. b[1] = Read(Room(r)) => ~Inside(z, r)
  BY <1>6 DEF Inside
<1>10. ASSUME f # <<"end", r>>
       PROVE  Inside(z, r) <=> Inside(s, r)
  <2>1. \A i \in 1 .. n : b[i] # Read(Room(r)) /\ b[i] # Free(Room(r))
    <3> SUFFICES ASSUME NEW i \in 1 .. n PROVE b[i] # Read(Room(r)) /\ b[i] # Free(Room(r))
      OBVIOUS
    <3>1. CASE i = n
      BY <1>2, <3>1, EndFacts DEF Read, Free
    <3>2. CASE b[i] \in StepsOf(f)
      BY <1>2, <1>10, <3>2, InnerSteps
    <3>3. QED BY <1>1, <3>1, <3>2
  <2>2. z[1] # Read(Room(r))
    <3>1. 1 \in 1 .. n
      BY <1>1
    <3>2. QED BY <1>6, <2>1, <3>1
  <2>3. ASSUME NEW i \in 1 .. Len(s), s[i] = Free(Room(r))
        PROVE  \E j \in 1 .. Len(z) : z[j] = Free(Room(r))
    <3>1. n + i \in 1 .. Len(z) /\ z[n + i] = s[i]
      BY <1>1, <1>3
    <3>2. QED BY <2>3, <3>1
  <2>4. ASSUME NEW j \in 1 .. Len(z), z[j] = Free(Room(r))
        PROVE  s # << >> /\ \E i \in 1 .. Len(s) : s[i] = Free(Room(r))
    <3>1. j - n \in 1 .. Len(s) /\ z[j] = s[j - n]
      BY <1>3, <2>1, <2>4
    <3>2. Len(s) # 0
      BY <1>3, <3>1
    <3>3. QED BY <2>4, <3>1, <3>2
  <2>5. QED BY <1>6, <1>7, <2>2, <2>3, <2>4 DEF Inside
<1> QED
  BY <1>8, <1>9, <1>10 DEF s, z

LEMMA RoomsHeldProceed ==
  ASSUME LockTypes, Shapes, Once, RoomsHeld, NEW t \in Threads, ~Idle(t), Proceed(t),
         \A u \in Threads, r \in Rooms : u # t => reads'[Room(r)][u] = reads[Room(r)][u],
         t \in Workers => \A r \in Rooms :
            reads'[Room(r)][t] = IF script[t][1] = Read(Room(r)) THEN reads[Room(r)][t] + 1
                                 ELSE IF script[t][1] = Free(Room(r)) THEN reads[Room(r)][t] - 1
                                 ELSE reads[Room(r)][t]
  PROVE  RoomsHeld'
<1>1. script'[t] = Tail(script[t]) /\ \A u \in Threads : u # t => script'[u] = script[u]
  BY ProceedShifts DEF LockTypes
<1>2. ASSUME NEW w \in Workers, NEW r \in Rooms
      PROVE  reads'[Room(r)][w] = IF Inside(script'[w], r) THEN 1 ELSE 0
  <2>1. reads[Room(r)][w] = IF Inside(script[w], r) THEN 1 ELSE 0
    BY DEF RoomsHeld
  <2>2. w \in Threads
    BY DEF Threads
  <2>3. CASE w # t
    BY <1>1, <2>1, <2>2, <2>3
  <2>4. CASE w = t
    <3> DEFINE s == script[t]
    <3>1. s \in Seq(Steps) /\ s # << >> /\ WorkerShape(s)
      BY <2>4 DEF LockTypes, Idle, Shapes
    <3>2. \A i, j \in 1 .. Len(s) : s[i] \in Ends /\ s[i] = s[j] => i = j
      BY <2>4 DEF Once
    <3>3. reads'[Room(r)][t] = IF s[1] = Read(Room(r)) THEN reads[Room(r)][t] + 1
                               ELSE IF s[1] = Free(Room(r)) THEN reads[Room(r)][t] - 1
                               ELSE reads[Room(r)][t]
      BY <2>4
    <3> HIDE DEF s
    <3>4. /\ s[1] = Read(Room(r)) => Inside(Tail(s), r) /\ ~Inside(s, r)
          /\ s[1] = Free(Room(r)) => ~Inside(Tail(s), r) /\ Inside(s, r)
          /\ s[1] # Read(Room(r)) /\ s[1] # Free(Room(r)) => (Inside(Tail(s), r) <=> Inside(s, r))
      BY <3>1, <3>2, InsideNext
    <3>5. script'[t] = Tail(s) /\ reads[Room(r)][t] = IF Inside(s, r) THEN 1 ELSE 0
      BY <1>1, <2>1, <2>4 DEF s
    <3>6. Read(Room(r)) # Free(Room(r))
      BY DEF Read, Free
    <3>7. QED BY <2>4, <3>3, <3>4, <3>5, <3>6
  <2>5. QED BY <2>3, <2>4
<1> QED
  BY <1>2 DEF RoomsHeld, Inside

-----------------------------------------------------------------------------
(* The calls *)

\* The job that makes the call of a group.
LEMMA Caller ==
  ASSUME NEW f \in Ends, NEW x \in StepsOf(f), x[1] \in {"fork", "await"}
  PROVE  /\ x[2] \in RoomLocks \cup PlayerLocks
         /\ \A r \in Rooms : x[2] = Room(r) => f = <<"end", r>>
         /\ \A p \in Playing : x[2] = Player(p) => f = <<"done", Room(RoomOf[p]), <<"message", p>>>>
<1>1. \/ f[1] = "end" /\ x[2] = Room(f[2])
      \/ f[1] = "done" /\ f[3][1] = "message" /\ x[2] = Player(f[3][2])
  BY InnerSteps
<1>2. CASE f[1] = "end" /\ x[2] = Room(f[2])
  <2>1. f[2] \in Rooms /\ f = <<"end", f[2]>>
    BY <1>2, EndFacts
  <2>2. QED BY <1>2, <2>1, LockFacts DEF RoomLocks
<1>3. CASE f[1] = "done" /\ f[3][1] = "message" /\ x[2] = Player(f[3][2])
  <2> DEFINE g == f[2]
             p == f[3][2]
  <2>1. g \in Groups /\ f[3] \in PiecesFor(g) /\ f = <<"done", g, f[3]>>
    BY <1>3, EndFacts
  <2>2. g # OfServer /\ g[1] # "player"
    BY <1>3, <2>1 DEF PiecesFor
  <2>3. PICK q \in Rooms : g = Room(q)
    BY <2>1, <2>2 DEF Groups, Locks, Player
  <2>4. f[3] \in {<<k, o>> : k \in {"look", "skin", "message"}, o \in PlayersIn(g[2])} \cup {<<"flags", g[2]>>}
    BY <2>1, <2>2 DEF PiecesFor
  <2>5. g[2] = q
    BY <2>3 DEF Room
  <2>6. p \in PlayersIn(q) /\ f[3] = <<"message", p>>
    BY <1>3, <2>4, <2>5
  <2>7. p \in Playing /\ RoomOf[p] = q
    BY <2>6 DEF PlayersIn
  <2>8. f = <<"done", Room(RoomOf[p]), <<"message", p>>>>
    BY <2>1, <2>3, <2>6, <2>7
  <2> HIDE DEF p, g
  <2>9. x[2] = Player(p)
    BY <1>3 DEF p
  <2>10. QED BY <2>7, <2>8, <2>9, LockFacts DEF PlayerLocks
<1> QED
  BY <1>1, <1>2, <1>3

LEMMA ServerCalls ==
  ASSUME NEW x \in CallSteps(OfServer)
  PROVE  x[1] \in {"fork", "await"} => x[2] = OfServer
  BY EndFacts, LockStepFacts DEF CallSteps, Await

\* In the script s the job that the i-th step, about the group g, belongs to ends at e.
EndOfCall(s, i, g, e) ==
    /\ s[e] \in Ends /\ e \in 1 .. Len(s)
    /\ \A j \in i .. e - 1 : s[j] \notin Ends
    /\ \A r \in Rooms : g = Room(r) => s[e] = <<"end", r>>
    /\ \A p \in Playing : g = Player(p) => s[e] = <<"done", Room(RoomOf[p]), <<"message", p>>>>

\* Who makes or awaits a call of a room or of a player is a worker, in the job it
\* belongs to.
LEMMA InCall ==
  ASSUME LockTypes, Shapes, NEW t \in Threads, NEW i \in 1 .. Len(script[t]), NEW g,
         script[t][i][1] \in {"fork", "await"}, script[t][i][2] = g, g # OfServer
  PROVE  /\ t \in Workers /\ g \in RoomLocks \cup PlayerLocks
         /\ \E e \in i .. Len(script[t]) : EndOfCall(script[t], i, g, e)
<1> DEFINE s == script[t]
           x == s[i]
<1>1. t # Actor /\ t \in Workers
  <2>1. CASE t = Actor
    <3>1. x \in CallSteps(OfServer)
      BY <2>1 DEF Shapes, ServerShape
    <3> HIDE DEF x
    <3>2. x[1] \in {"fork", "await"} => x[2] = OfServer
      BY <3>1, ServerCalls
    <3>3. QED BY <3>2 DEF x
  <2>2. QED BY <2>1 DEF Threads
<1>2. s \in Seq(Steps) /\ WorkerShape(s)
  BY <1>1 DEF LockTypes, Shapes
<1>3. x[1] \in {"fork", "await"}
  OBVIOUS
<1> HIDE DEF s
<1>4. PICK e \in i .. Len(s) :
            /\ s[e] \in Ends /\ e \in 1 .. Len(s)
            /\ \A j \in i .. e - 1 : s[j] \in StepsOf(s[e]) /\ s[j] \notin Ends
  <2>1. i \in 1 .. Len(s)
    BY DEF s
  <2>2. QED BY <1>2, <2>1, FirstEnd
<1>5. x \in StepsOf(s[e])
  <2>1. x \notin Ends
    BY <1>3, EndFacts
  <2>2. i \in i .. e - 1
    BY <1>4, <2>1
  <2>3. QED BY <1>4, <2>2
<1> HIDE DEF x
<1>6. /\ x[2] \in RoomLocks \cup PlayerLocks
      /\ \A r \in Rooms : x[2] = Room(r) => s[e] = <<"end", r>>
      /\ \A p \in Playing : x[2] = Player(p) => s[e] = <<"done", Room(RoomOf[p]), <<"message", p>>>>
  BY <1>3, <1>4, <1>5, Caller
<1>7. x[2] = g
  BY DEF x, s
<1>8. EndOfCall(s, i, g, e)
  BY <1>4, <1>6, <1>7 DEF EndOfCall
<1> QED
  BY <1>1, <1>6, <1>7, <1>8 DEF s

\* A call is made when the one before has returned.
LEMMA FreshCall ==
  ASSUME LockTypes, Shapes, Once, Awaited, NEW t \in Threads, ~Idle(t), script[t][1][1] = "fork"
  PROVE  open[script[t][1][2]] = {}
<1> DEFINE g == script[t][1][2]
<1> SUFFICES ASSUME open[g] # {} PROVE FALSE
  OBVIOUS
<1>1. Len(script[t]) \in Nat \ {0} /\ 1 \in 1 .. Len(script[t])
  BY DEF LockTypes, Idle
<1>2. g \in Groups
  BY <1>1, StepFacts DEF LockTypes
<1>3. PICK u \in Threads : Waits(script[u], g)
  BY <1>2 DEF Awaited
<1>4. PICK i \in 1 .. Len(script[u]) :
         script[u][i] = Await(g) /\ (i = 1 \/ script[u][i - 1] \in Ends)
  BY <1>3 DEF Waits
<1> HIDE DEF g
<1>5. script[u][i][1] = "await" /\ script[u][i][2] = g
  BY <1>4 DEF Await
<1>6. CASE g = OfServer
  <2>1. u = Actor
    <3>1. CASE u \in Workers
      <4>1. script[u] \in Seq(Steps) /\ WorkerShape(script[u])
        BY <3>1 DEF LockTypes, Shapes
      <4>2. PICK e \in i .. Len(script[u]) :
              /\ script[u][e] \in Ends
              /\ \A j \in i .. e - 1 : script[u][j] \in StepsOf(script[u][e])
        BY <4>1 DEF WorkerShape
      <4>3. i # e
        BY <1>5, <4>2, EndFacts
      <4>4. script[u][i] \in StepsOf(script[u][e])
        BY <4>2, <4>3
      <4>5. g \in RoomLocks \cup PlayerLocks
        BY <1>5, <4>2, <4>4, Caller
      <4>6. QED BY <1>6, <4>5, LockFacts DEF RoomLocks, PlayerLocks
    <3>2. QED BY <3>1 DEF Threads
  <2>2. t = Actor
    <3>1. CASE t \in Workers
      <4>1. script[t] \in Seq(Steps) /\ WorkerShape(script[t])
        BY <3>1 DEF LockTypes, Shapes
      <4>2. PICK e \in 1 .. Len(script[t]) :
              /\ script[t][e] \in Ends
              /\ \A j \in 1 .. e - 1 : script[t][j] \in StepsOf(script[t][e])
        BY <1>1, <4>1 DEF WorkerShape
      <4>3. 1 # e
        BY <4>2, EndFacts
      <4>4. script[t][1] \in StepsOf(script[t][e])
        BY <4>2, <4>3
      <4>5. g \in RoomLocks \cup PlayerLocks
        BY <4>2, <4>4, Caller DEF g
      <4>6. QED BY <1>6, <4>5, LockFacts DEF RoomLocks, PlayerLocks
    <3>2. QED BY <3>1 DEF Threads
  <2>3. i # 1 /\ script[u][i - 1] \in Ends
    BY <1>4, <1>5, <2>1, <2>2
  <2>4. i - 1 \in 1 .. Len(script[u])
    BY <1>4, <2>3
  <2>5. script[u][i - 1] \in CallSteps(OfServer)
    BY <2>1, <2>4 DEF Shapes, ServerShape
  <2>6. \A x \in CallSteps(OfServer) : x[1] \in {"read", "write", "free", "fork", "await"}
    BY EndFacts, LockStepFacts DEF CallSteps, Await
  <2>7. QED BY <2>3, <2>5, <2>6, EndFacts
<1>7. CASE g # OfServer
  <2>1. t \in Workers /\ g \in RoomLocks \cup PlayerLocks
        /\ \E e \in 1 .. Len(script[t]) : EndOfCall(script[t], 1, g, e)
    <3>1. script[t][1][2] = g
      BY DEF g
    <3>2. QED BY <1>1, <1>7, <3>1, InCall
  <2>2. PICK e \in 1 .. Len(script[t]) : EndOfCall(script[t], 1, g, e)
    BY <2>1
  <2>3. u \in Workers /\ \E d \in i .. Len(script[u]) : EndOfCall(script[u], i, g, d)
    BY <1>5, <1>7, InCall
  <2>4. PICK d \in i .. Len(script[u]) : EndOfCall(script[u], i, g, d)
    BY <2>3
  <2>5. script[u][d] = script[t][e]
    BY <2>1, <2>2, <2>4 DEF RoomLocks, PlayerLocks, EndOfCall
  <2>10. d \in 1 .. Len(script[u]) /\ script[u][d] \in Ends /\ \A j \in 1 .. e - 1 : script[t][j] \notin Ends
    BY <2>2, <2>4 DEF EndOfCall
  <2>6. u = t /\ d = e
    BY <2>1, <2>2, <2>3, <2>5, <2>10 DEF Once
  <2>7. i # 1 /\ script[t][i - 1] \in Ends
    BY <1>4, <1>5, <2>6
  <2>8. i - 1 \in 1 .. e - 1
    BY <1>4, <2>4, <2>6, <2>7
  <2>9. QED BY <2>7, <2>8, <2>10
<1> QED
  BY <1>6, <1>7

-----------------------------------------------------------------------------
(* The invariant holds *)

\* The types of the pool.
PoolTyped ==
    /\ pieces \in [Groups -> SUBSET UNION {PiecesFor(g) : g \in Groups}]
    /\ open \in [Groups -> SUBSET UNION {PiecesFor(g) : g \in Groups}]
    /\ call \in {"flags", "data", "skins", "valid"}
    /\ unbegun \subseteq unended /\ unended \subseteq Rooms

\* A job that has been begun stays undone until its last step.
LEMMA LiveProceed ==
  ASSUME LockTypes, Shapes, Once, Live, NEW t \in Threads, ~Idle(t), Proceed(t),
         \A r \in Rooms : r \in unended \ unbegun /\ script[t][1] # <<"end", r>>
                             => r \in unended' \ unbegun',
         \A g \in Groups : \A x \in PiecesFor(g) :
            x \in open[g] \ pieces[g] /\ script[t][1] # <<"done", g, x>>
               => x \in open'[g] \ pieces'[g]
  PROVE  Live'
<1>1. ASSUME NEW w \in Workers, NEW i \in 1 .. Len(script'[w]), script'[w][i] \in Ends
      PROVE  \E m \in 1 .. Len(script[w]) :
                script'[w][i] = script[w][m] /\ script[w][m] # script[t][1]
  <2>1. w \in Threads
    BY DEF Threads
  <2>2. PICK m \in 1 .. Len(script[w]) :
           script'[w][i] = script[w][m] /\ m = (IF w = t THEN i + 1 ELSE i)
    BY <2>1, LeftBefore DEF LockTypes
  <2>3. ASSUME script[w][m] = script[t][1] PROVE FALSE
    <3>1. 1 \in 1 .. Len(script[t])
      BY DEF LockTypes, Idle
    <3>2. CASE t = Actor
      <4>1. script[t][1] \in CallSteps(OfServer)
        BY <3>1, <3>2 DEF Shapes, ServerShape
      <4>2. \A x \in CallSteps(OfServer) : x[1] \in {"read", "write", "free", "fork", "await"}
        BY EndFacts, LockStepFacts DEF CallSteps, Await
      <4>3. QED BY <1>1, <2>2, <2>3, <4>1, <4>2, EndFacts
    <3>3. CASE t \in Workers
      <4>1. script[w][m] \in Ends /\ script[w][m] = script[t][1]
        BY <1>1, <2>2, <2>3
      <4>2. w = t /\ m = 1
        BY <3>1, <3>3, <4>1 DEF Once
      <4>3. QED BY <2>2, <4>2
    <3>4. QED BY <3>2, <3>3 DEF Threads
  <2>4. QED BY <2>2, <2>3
<1>2. ASSUME NEW w \in Workers, NEW i \in 1 .. Len(script'[w]), NEW r \in Rooms,
             script'[w][i] = <<"end", r>>
      PROVE  r \in unended' \ unbegun'
  <2>1. <<"end", r>> \in Ends
    BY DEF Ends
  <2>2. PICK m \in 1 .. Len(script[w]) :
           script'[w][i] = script[w][m] /\ script[w][m] # script[t][1]
    BY <1>1, <1>2, <2>1
  <2>3. r \in unended \ unbegun
    BY <1>2, <2>2 DEF Live
  <2>4. QED BY <1>2, <2>2, <2>3
<1>3. ASSUME NEW w \in Workers, NEW i \in 1 .. Len(script'[w]), NEW g \in Groups,
             NEW x \in PiecesFor(g), script'[w][i] = <<"done", g, x>>
      PROVE  x \in open'[g] \ pieces'[g]
  <2>1. <<"done", g, x>> \in Ends
    BY DEF Ends
  <2>2. PICK m \in 1 .. Len(script[w]) :
           script'[w][i] = script[w][m] /\ script[w][m] # script[t][1]
    BY <1>1, <1>3, <2>1
  <2>3. x \in open[g] \ pieces[g]
    BY <1>3, <2>2 DEF Live
  <2>4. QED BY <1>3, <2>2, <2>3
<1> QED
  BY <1>2, <1>3 DEF Live

LEMMA AwaitedProceed ==
  ASSUME LockTypes, Awaited, NEW t \in Threads, ~Idle(t), Proceed(t),
         \A g \in Groups : open'[g] # {} =>
            (open[g] # {} /\ script[t][1] # Await(g)) \/ Waits(script'[t], g)
  PROVE  Awaited'
<1>1. ASSUME NEW g \in Groups, open'[g] # {}
      PROVE  \E u \in Threads : Waits(script'[u], g)
  <2>1. CASE Waits(script'[t], g)
    BY <2>1
  <2>2. CASE open[g] # {} /\ script[t][1] # Await(g)
    <3>1. PICK u \in Threads : Waits(script[u], g)
      BY <2>2 DEF Awaited
    <3>2. Waits(script'[u], g)
      BY <2>2, <3>1, WaitsProceed DEF LockTypes
    <3>3. QED BY <3>2
  <2>3. QED BY <1>1, <2>1, <2>2
<1> QED
  BY <1>1 DEF Awaited, Waits

\* A step that is about locks only.
LEMMA PoolSame ==
  ASSUME LocksIInv, NEW t \in Threads, ~Idle(t), Proceed(t), UNCHANGED poolVars,
         script[t][1] \notin Ends,
         \A g \in Groups : script[t][1] = Await(g) => open[g] = {}
  PROVE  PoolTyped' /\ Live' /\ Offered' /\ Awaited'
<1>1. pieces' = pieces /\ open' = open /\ call' = call /\ unbegun' = unbegun /\ unended' = unended
  BY DEF poolVars
<1>2. LockTypes /\ Shapes /\ Once /\ Live /\ Offered /\ Awaited
  BY DEF LocksIInv, Jobs, Calls
<1>3. Live'
  BY <1>1, <1>2, LiveProceed
<1>4. Awaited'
  BY <1>1, <1>2, AwaitedProceed
<1>5. Offered'
  BY <1>1, <1>2 DEF Offered
<1>6. PoolTyped'
  BY <1>1, <1>2 DEF LockTypes, PoolTyped
<1> QED
  BY <1>3, <1>4, <1>5, <1>6

\* What every step of a thread keeps.
LEMMA StepKeeps ==
  ASSUME LocksIInv, NEW t \in Threads, ~Idle(t), Proceed(t),
         PoolTyped', LocksTyped', Live', Offered', Awaited', Courses', Exclusion', RoomsHeld', Writers'
  PROVE  LocksIInv'
<1>1. LockTypes /\ Shapes /\ Once /\ Ordered
  BY DEF LocksIInv, Jobs
<1>2. script' \in [Threads -> Seq(Steps)] /\ Shapes' /\ Once' /\ Ordered'
  BY <1>1, ProceedShifts, ShapesProceed, OnceProceed, OrderedProceed DEF LockTypes
<1>3. LockTypes'
  BY <1>2 DEF LockTypes, PoolTyped, LocksTyped
<1> QED
  BY <1>2, <1>3 DEF LocksIInv, Jobs, Calls, Guards

LEMMA WritersSame ==
  ASSUME Writers, \A l \in Locks, w \in Workers : writer'[l] = w => writer[l] = w \/ l \in PlayerLocks
  PROVE  Writers'
  BY DEF Writers

LEMMA IInvRead ==
  ASSUME LocksIInv, NEW t \in Threads, AcquireRead(t)
  PROVE  LocksIInv'
<1> DEFINE x == script[t][1]
           l == x[2]
<1>1. LockTypes /\ Shapes /\ Once /\ Courses /\ Exclusion /\ RoomsHeld /\ Writers
  BY DEF LocksIInv, Jobs, Guards
<1>2. ~Idle(t) /\ Proceed(t) /\ x[1] = "read" /\ writer' = writer /\ UNCHANGED poolVars
      /\ reads' = [reads EXCEPT ![l][t] = @ + 1]
  BY DEF AcquireRead, Does, Its
<1>3. Courses' /\ Exclusion' /\ LocksTyped'
  BY <1>1, ReadKeeps
<1>4. x \in Steps /\ l \in Locks /\ x = Read(l)
  BY <1>1, <1>2, StepCourse, StepFacts
<1>5. x \notin Ends /\ \A g \in Groups : x # Await(g)
  BY <1>2, EndFacts DEF Await
<1>6. PoolTyped' /\ Live' /\ Offered' /\ Awaited'
  BY <1>2, <1>5, PoolSame
<1>7. \A m \in Locks, u \in Threads : reads'[m][u] = IF m = l /\ u = t THEN reads[m][u] + 1 ELSE reads[m][u]
  BY <1>1, <1>2, <1>4 DEF LockTypes
<1>8. \A r \in Rooms : Room(r) \in Locks /\ x # Free(Room(r)) /\ (x = Read(Room(r)) <=> Room(r) = l)
  BY <1>2, <1>4, LockFacts DEF Read, Free
<1>9. RoomsHeld'
  <2>1. \A u \in Threads, r \in Rooms : u # t => reads'[Room(r)][u] = reads[Room(r)][u]
    BY <1>7, <1>8
  <2>2. t \in Workers => \A r \in Rooms :
            reads'[Room(r)][t] = IF script[t][1] = Read(Room(r)) THEN reads[Room(r)][t] + 1
                                 ELSE IF script[t][1] = Free(Room(r)) THEN reads[Room(r)][t] - 1
                                 ELSE reads[Room(r)][t]
    BY <1>7, <1>8
  <2>3. QED BY <1>1, <1>2, <2>1, <2>2, RoomsHeldProceed
<1>10. Writers'
  BY <1>1, <1>2, WritersSame
<1> QED
  BY <1>2, <1>3, <1>6, <1>9, <1>10, StepKeeps

LEMMA IInvAnnounce ==
  ASSUME LocksIInv, NEW t \in Threads, AnnounceWrite(t)
  PROVE  LocksIInv'
<1> DEFINE x == script[t][1]
           l == x[2]
<1>1. LockTypes /\ Courses /\ Exclusion /\ Writers
  BY DEF LocksIInv, Guards
<1>2. /\ ~Idle(t) /\ x[1] = "write" /\ writer' = [writer EXCEPT ![l] = t] /\ script' = script
      /\ reads' = reads /\ UNCHANGED poolVars
  BY DEF AnnounceWrite, Does, Its
<1>3. pieces' = pieces /\ open' = open /\ call' = call /\ unbegun' = unbegun /\ unended' = unended
  BY <1>2 DEF poolVars
<1>4. Courses' /\ Exclusion' /\ LocksTyped'
  BY <1>1, AnnounceKeeps
<1>5. x \in Steps /\ l \in Locks /\ x = Write(l) /\ May(t, Holds(t), x)
  BY <1>1, <1>2, StepCourse, StepFacts
<1>6. t \in Workers => l \in PlayerLocks
  BY <1>2, <1>5, LocksAssumption DEF May, WorkerMay
<1>7. Writers'
  <2>1. \A m \in Locks : writer'[m] = IF m = l THEN t ELSE writer[m]
    BY <1>1, <1>2, <1>5 DEF LockTypes
  <2>2. QED BY <1>1, <1>6, <2>1, WritersSame
<1>8. LockTypes'
  BY <1>1, <1>2, <1>3, <1>4 DEF LockTypes, LocksTyped
<1>9. Jobs' /\ Calls' /\ Ordered' /\ RoomsHeld'
  <2>1. Jobs /\ Calls /\ Ordered /\ RoomsHeld
    BY DEF LocksIInv, Guards
  <2> USE <1>2, <1>3
  <2>2. Jobs'
    BY <2>1 DEF Jobs, Shapes, Once, Live
  <2>3. Calls'
    BY <2>1 DEF Calls, Offered, Awaited, Waits
  <2>4. Ordered'
    BY <2>1 DEF Ordered, Ranked, Of
  <2>5. RoomsHeld'
    BY <2>1 DEF RoomsHeld, Inside
  <2>6. QED BY <2>2, <2>3, <2>4, <2>5
<1> QED
  BY <1>4, <1>7, <1>8, <1>9 DEF LocksIInv, Guards

LEMMA IInvWrite ==
  ASSUME LocksIInv, NEW t \in Threads, AcquireWrite(t)
  PROVE  LocksIInv'
<1> DEFINE x == script[t][1]
<1>1. LockTypes /\ Shapes /\ Once /\ Courses /\ Exclusion /\ RoomsHeld /\ Writers
  BY DEF LocksIInv, Jobs, Guards
<1>2. ~Idle(t) /\ Proceed(t) /\ x[1] = "write" /\ writer' = writer /\ reads' = reads /\ UNCHANGED poolVars
  BY DEF AcquireWrite, Does, Its, lockVars
<1>3. Courses' /\ Exclusion' /\ LocksTyped'
  BY <1>1, WriteKeeps
<1>4. x \notin Ends /\ (\A g \in Groups : x # Await(g)) /\ \A r : x # Read(r) /\ x # Free(r)
  BY <1>2, EndFacts DEF Await, Read, Free
<1>5. PoolTyped' /\ Live' /\ Offered' /\ Awaited'
  BY <1>2, <1>4, PoolSame
<1>6. RoomsHeld'
  BY <1>1, <1>2, <1>4, RoomsHeldProceed
<1>7. Writers'
  BY <1>1, <1>2, WritersSame
<1> QED
  BY <1>2, <1>3, <1>5, <1>6, <1>7, StepKeeps

LEMMA IInvRelease ==
  ASSUME LocksIInv, NEW t \in Threads, Release(t)
  PROVE  LocksIInv'
<1> DEFINE x == script[t][1]
           l == x[2]
<1>1. LockTypes /\ Shapes /\ Once /\ Courses /\ Exclusion /\ RoomsHeld /\ Writers
  BY DEF LocksIInv, Jobs, Guards
<1>2. /\ ~Idle(t) /\ Proceed(t) /\ x[1] = "free" /\ UNCHANGED poolVars
      /\ IF writer[l] = t
         THEN writer' = [writer EXCEPT ![l] = NoOne] /\ reads' = reads
         ELSE reads' = [reads EXCEPT ![l][t] = @ - 1] /\ writer' = writer
  BY DEF Release, Does, Its
<1>3. Courses' /\ Exclusion' /\ LocksTyped'
  BY <1>1, ReleaseKeeps
<1>4. x \in Steps /\ l \in Locks /\ x = Free(l)
  BY <1>1, <1>2, StepCourse, StepFacts
<1>5. x \notin Ends /\ \A g \in Groups : x # Await(g)
  BY <1>2, EndFacts DEF Await
<1>6. PoolTyped' /\ Live' /\ Offered' /\ Awaited'
  BY <1>2, <1>5, PoolSame
<1>7. \A m \in Locks, u \in Threads :
         reads'[m][u] = IF m = l /\ u = t /\ writer[l] # t THEN reads[m][u] - 1 ELSE reads[m][u]
  BY <1>1, <1>2, <1>4 DEF LockTypes
<1>8. \A r \in Rooms : Room(r) \in Locks /\ x # Read(Room(r)) /\ (x = Free(Room(r)) <=> Room(r) = l)
  BY <1>2, <1>4, LockFacts DEF Read, Free
<1>9. RoomsHeld'
  <2>1. \A u \in Threads, r \in Rooms : u # t => reads'[Room(r)][u] = reads[Room(r)][u]
    BY <1>7, <1>8
  <2>2. ASSUME t \in Workers, NEW r \in Rooms
        PROVE  reads'[Room(r)][t] = IF script[t][1] = Read(Room(r)) THEN reads[Room(r)][t] + 1
                                    ELSE IF script[t][1] = Free(Room(r)) THEN reads[Room(r)][t] - 1
                                    ELSE reads[Room(r)][t]
    <3>1. writer[Room(r)] # t
      BY <1>1, <2>2, LockFacts DEF Writers, RoomLocks
    <3>2. QED BY <1>7, <1>8, <3>1
  <2>3. QED BY <1>1, <1>2, <2>1, <2>2, RoomsHeldProceed
<1>10. Writers'
  <2>1. NoOne \notin Workers
    BY LocksAssumption
  <2>2. \A m \in Locks : writer'[m] = writer[m] \/ writer'[m] = NoOne
    BY <1>1, <1>2, <1>4 DEF LockTypes
  <2>3. QED BY <1>1, <2>1, <2>2, WritersSame
<1> QED
  BY <1>2, <1>3, <1>6, <1>9, <1>10, StepKeeps

LEMMA IInvSplit ==
  ASSUME LocksIInv, NEW t \in Threads, Split(t)
  PROVE  LocksIInv'
<1> DEFINE x == script[t][1]
           g == x[2]
<1>1. LockTypes /\ Shapes /\ Once /\ Live /\ Offered /\ Awaited /\ Courses /\ Exclusion /\ RoomsHeld /\ Writers
  BY DEF LocksIInv, Jobs, Calls, Guards
<1>2. /\ ~Idle(t) /\ Proceed(t) /\ x[1] = "fork" /\ UNCHANGED lockVars
      /\ pieces' = [pieces EXCEPT ![g] = x[3]] /\ open' = [open EXCEPT ![g] = x[3]]
      /\ call' = call /\ unbegun' = unbegun /\ unended' = unended
  BY DEF Split, Does, Its
<1>3. writer' = writer /\ reads' = reads
  BY <1>2 DEF lockVars
<1>4. Courses' /\ Exclusion' /\ LocksTyped'
  BY <1>1, <1>2, OtherKeeps
<1>5. x \in Steps /\ g \in Groups /\ x \in Forks(g)
  BY <1>1, <1>2, StepCourse, StepFacts
<1>6. x[3] \subseteq PiecesFor(g)
  BY <1>5, EndFacts
<1>7. open[g] = {}
  BY <1>1, <1>2, FreshCall
<1>8. /\ \A o \in Groups : o # g => open'[o] = open[o] /\ pieces'[o] = pieces[o]
      /\ open'[g] = x[3] /\ pieces'[g] = x[3]
  BY <1>1, <1>2, <1>5 DEF LockTypes
<1>9. PoolTyped'
  <2>1. x[3] \in SUBSET UNION {PiecesFor(o) : o \in Groups}
    BY <1>5, <1>6
  <2>2. /\ pieces' \in [Groups -> SUBSET UNION {PiecesFor(o) : o \in Groups}]
        /\ open' \in [Groups -> SUBSET UNION {PiecesFor(o) : o \in Groups}]
    BY <1>1, <1>2, <2>1 DEF LockTypes
  <2>3. QED BY <1>1, <1>2, <2>2 DEF LockTypes, PoolTyped
<1>10. Offered'
  <2>1. ASSUME NEW o \in Groups PROVE pieces'[o] \subseteq open'[o] /\ open'[o] \subseteq PiecesFor(o)
    <3>1. CASE o = g
      BY <1>6, <1>8, <3>1
    <3>2. CASE o # g
      BY <1>1, <1>8, <3>2 DEF Offered
    <3>3. QED BY <3>1, <3>2
  <2>2. QED BY <2>1 DEF Offered
<1>11. x \notin Ends /\ (\A o \in Groups : x # Await(o)) /\ (\A r : x # Read(r) /\ x # Free(r))
       /\ (\A o, y : x # <<"done", o, y>> /\ x # <<"end", o>>)
  BY <1>2, EndFacts DEF Await, Read, Free
<1>12. Live'
  <2>1. \A r \in Rooms : r \in unended \ unbegun /\ x # <<"end", r>> => r \in unended' \ unbegun'
    BY <1>2
  <2>2. \A o \in Groups : \A y \in PiecesFor(o) :
            y \in open[o] \ pieces[o] /\ x # <<"done", o, y>> => y \in open'[o] \ pieces'[o]
    BY <1>7, <1>8
  <2>3. QED BY <1>1, <1>2, <2>1, <2>2, LiveProceed
<1>13. Waits(script'[t], g)
  <2> DEFINE s == script[t]
             z == script'[t]
  <2>1. /\ Len(s) \in Nat \ {0} /\ Len(z) = Len(s) - 1 /\ 1 \in 1 .. Len(s)
        /\ \A i \in 1 .. Len(z) : z[i] = s[i + 1]
    BY <1>1, <1>2, ProceedShifts DEF LockTypes
  <2>2. 1 < Len(s) /\ s[1 + 1] = Await(g)
    <3>1. CASE t = Actor
      <4>1. x \in CallSteps(OfServer)
        BY <1>1, <2>1, <3>1 DEF Shapes, ServerShape
      <4>2. g = OfServer
        BY <1>2, <4>1, ServerCalls
      <4>3. QED BY <1>1, <1>2, <2>1, <3>1, <4>2 DEF Shapes, ServerShape
    <3>2. CASE t \in Workers
      <4>1. WorkerShape(s)
        BY <1>1, <3>2 DEF Shapes
      <4>2. PICK e \in 1 .. Len(s) : s[e] \in Ends
        BY <2>1, <4>1 DEF WorkerShape
      <4>3. e # 1
        BY <1>11, <4>2
      <4>4. 1 \in 1 .. Len(s) - 1
        BY <2>1, <4>2, <4>3
      <4>5. Adjacent(s[1], s[1 + 1])
        BY <4>1, <4>4 DEF WorkerShape
      <4>6. QED BY <1>2, <2>1, <4>4, <4>5 DEF Adjacent
    <3>3. QED BY <3>1, <3>2 DEF Threads
  <2>3. 1 \in 1 .. Len(z) /\ z[1] = Await(g)
    BY <2>1, <2>2
  <2> HIDE DEF z, s
  <2>4. Waits(z, g)
    BY <2>3 DEF Waits
  <2>5. QED BY <2>4 DEF z
<1>14. Awaited'
  <2>1. \A o \in Groups : open'[o] # {} =>
            (open[o] # {} /\ x # Await(o)) \/ Waits(script'[t], o)
    BY <1>8, <1>11, <1>13
  <2>2. QED BY <1>1, <1>2, <2>1, AwaitedProceed
<1>15. RoomsHeld'
  BY <1>1, <1>2, <1>3, <1>11, RoomsHeldProceed
<1>16. Writers'
  BY <1>1, <1>3, WritersSame
<1> QED
  BY <1>2, <1>4, <1>9, <1>10, <1>12, <1>14, <1>15, <1>16, StepKeeps

LEMMA IInvReturn ==
  ASSUME LocksIInv, NEW t \in Threads, Return(t)
  PROVE  LocksIInv'
<1> DEFINE x == script[t][1]
<1>1. LockTypes /\ Shapes /\ Once /\ Courses /\ Exclusion /\ RoomsHeld /\ Writers
  BY DEF LocksIInv, Jobs, Guards
<1>2. /\ ~Idle(t) /\ Proceed(t) /\ x[1] = "await" /\ open[x[2]] = {} /\ UNCHANGED lockVars
      /\ UNCHANGED poolVars
  BY DEF Return, Does, Its
<1>3. writer' = writer /\ reads' = reads
  BY <1>2 DEF lockVars
<1>4. Courses' /\ Exclusion' /\ LocksTyped'
  BY <1>1, <1>2, OtherKeeps
<1>5. x \notin Ends /\ (\A g \in Groups : x = Await(g) => open[g] = {})
      /\ \A r : x # Read(r) /\ x # Free(r)
  BY <1>2, EndFacts DEF Await, Read, Free
<1>6. PoolTyped' /\ Live' /\ Offered' /\ Awaited'
  BY <1>2, <1>5, PoolSame
<1>7. RoomsHeld'
  BY <1>1, <1>2, <1>3, <1>5, RoomsHeldProceed
<1>8. Writers'
  BY <1>1, <1>3, WritersSame
<1> QED
  BY <1>2, <1>4, <1>6, <1>7, <1>8, StepKeeps

\* Only workers come to the end of a job.
LEMMA WorkersEnd ==
  ASSUME LockTypes, Shapes, NEW t \in Threads, ~Idle(t), script[t][1][1] \in {"done", "end"}
  PROVE  t \in Workers /\ script[t][1] \in Ends /\ 1 \in 1 .. Len(script[t])
<1>1. 1 \in 1 .. Len(script[t]) /\ script[t][1] \in Steps
  BY StepCourse DEF LockTypes, Idle
<1>2. script[t][1] \in Ends
  BY <1>1, StepFacts
<1>3. t # Actor
  <2>1. CASE t = Actor
    <3>1. script[t][1] \in CallSteps(OfServer)
      BY <1>1, <2>1 DEF Shapes, ServerShape
    <3>2. \A y \in CallSteps(OfServer) : y[1] \in {"read", "write", "free", "fork", "await"}
      BY EndFacts, LockStepFacts DEF CallSteps, Await
    <3>3. QED BY <3>1, <3>2
  <2>2. QED BY <2>1
<1> QED
  BY <1>1, <1>2, <1>3 DEF Threads

LEMMA IInvEndPiece ==
  ASSUME LocksIInv, NEW t \in Threads, EndPiece(t)
  PROVE  LocksIInv'
<1> DEFINE x == script[t][1]
           g == x[2]
<1>1. LockTypes /\ Shapes /\ Once /\ Live /\ Offered /\ Awaited /\ Courses /\ Exclusion /\ RoomsHeld /\ Writers
  BY DEF LocksIInv, Jobs, Calls, Guards
<1>2. /\ ~Idle(t) /\ Proceed(t) /\ x[1] = "done" /\ UNCHANGED lockVars
      /\ open' = [open EXCEPT ![g] = @ \ {x[3]}] /\ pieces' = pieces
      /\ call' = call /\ unbegun' = unbegun /\ unended' = unended
  BY DEF EndPiece, Does, Its
<1>3. writer' = writer /\ reads' = reads
  BY <1>2 DEF lockVars
<1>4. Courses' /\ Exclusion' /\ LocksTyped'
  BY <1>1, <1>2, OtherKeeps
<1>5. x \in Ends /\ t \in Workers /\ 1 \in 1 .. Len(script[t])
  BY <1>1, <1>2, WorkersEnd
<1>6. g \in Groups /\ x[3] \in PiecesFor(g) /\ x = <<"done", g, x[3]>>
  BY <1>2, <1>5, EndFacts
<1>7. x[3] \in open[g] \ pieces[g]
  BY <1>1, <1>5, <1>6 DEF Live
<1>8. /\ \A o \in Groups : o # g => open'[o] = open[o]
      /\ open'[g] = open[g] \ {x[3]}
  BY <1>1, <1>2, <1>6 DEF LockTypes
<1>9. PoolTyped'
  <2>1. open' \in [Groups -> SUBSET UNION {PiecesFor(o) : o \in Groups}]
    BY <1>1, <1>2 DEF LockTypes
  <2>2. QED BY <1>1, <1>2, <2>1 DEF LockTypes, PoolTyped
<1>10. Offered'
  <2>1. ASSUME NEW o \in Groups PROVE pieces'[o] \subseteq open'[o] /\ open'[o] \subseteq PiecesFor(o)
    BY <1>1, <1>2, <1>7, <1>8 DEF Offered
  <2>2. QED BY <2>1 DEF Offered
<1>11. (\A o \in Groups : x # Await(o)) /\ (\A r : x # Read(r) /\ x # Free(r))
  BY <1>2 DEF Await, Read, Free
<1>12. Live'
  <2>1. \A r \in Rooms : r \in unended \ unbegun /\ x # <<"end", r>> => r \in unended' \ unbegun'
    BY <1>2
  <2>2. ASSUME NEW o \in Groups, NEW y \in PiecesFor(o), y \in open[o] \ pieces[o], x # <<"done", o, y>>
        PROVE  y \in open'[o] \ pieces'[o]
    <3>1. o = g => y # x[3]
      BY <1>6, <2>2
    <3>2. QED BY <1>2, <1>8, <2>2, <3>1
  <2>3. QED BY <1>1, <1>2, <2>1, <2>2, LiveProceed
<1>13. Awaited'
  <2>1. \A o \in Groups : open'[o] # {} => open[o] # {} /\ x # Await(o)
    BY <1>8, <1>11
  <2>2. QED BY <1>1, <1>2, <2>1, AwaitedProceed
<1>14. RoomsHeld'
  BY <1>1, <1>2, <1>3, <1>11, RoomsHeldProceed
<1>15. Writers'
  BY <1>1, <1>3, WritersSame
<1> QED
  BY <1>2, <1>4, <1>9, <1>10, <1>12, <1>13, <1>14, <1>15, StepKeeps

LEMMA IInvEndRoom ==
  ASSUME LocksIInv, NEW t \in Threads, EndRoom(t)
  PROVE  LocksIInv'
<1> DEFINE x == script[t][1]
           q == x[2]
<1>1. LockTypes /\ Shapes /\ Once /\ Live /\ Offered /\ Awaited /\ Courses /\ Exclusion /\ RoomsHeld /\ Writers
  BY DEF LocksIInv, Jobs, Calls, Guards
<1>2. /\ ~Idle(t) /\ Proceed(t) /\ x[1] = "end" /\ UNCHANGED lockVars
      /\ unended' = unended \ {q} /\ pieces' = pieces /\ open' = open
      /\ call' = call /\ unbegun' = unbegun
  BY DEF EndRoom, Does, Its
<1>3. writer' = writer /\ reads' = reads
  BY <1>2 DEF lockVars
<1>4. Courses' /\ Exclusion' /\ LocksTyped'
  BY <1>1, <1>2, OtherKeeps
<1>5. x \in Ends /\ t \in Workers /\ 1 \in 1 .. Len(script[t])
  BY <1>1, <1>2, WorkersEnd
<1>6. q \in Rooms /\ x = <<"end", q>>
  BY <1>2, <1>5, EndFacts
<1>7. q \in unended \ unbegun
  BY <1>1, <1>5, <1>6 DEF Live
<1>8. PoolTyped'
  BY <1>1, <1>2, <1>7 DEF LockTypes, PoolTyped
<1>9. Offered'
  BY <1>1, <1>2 DEF Offered
<1>10. (\A o \in Groups : x # Await(o)) /\ (\A r : x # Read(r) /\ x # Free(r))
  BY <1>2 DEF Await, Read, Free
<1>11. Live'
  <2>1. \A r \in Rooms : r \in unended \ unbegun /\ x # <<"end", r>> => r \in unended' \ unbegun'
    BY <1>2, <1>6
  <2>2. \A o \in Groups : \A y \in PiecesFor(o) :
            y \in open[o] \ pieces[o] /\ x # <<"done", o, y>> => y \in open'[o] \ pieces'[o]
    BY <1>2
  <2>3. QED BY <1>1, <1>2, <2>1, <2>2, LiveProceed
<1>12. Awaited'
  BY <1>1, <1>2, <1>10, AwaitedProceed
<1>13. RoomsHeld'
  BY <1>1, <1>2, <1>3, <1>10, RoomsHeldProceed
<1>14. Writers'
  BY <1>1, <1>3, WritersSame
<1> QED
  BY <1>2, <1>4, <1>8, <1>9, <1>11, <1>12, <1>13, <1>14, StepKeeps

-----------------------------------------------------------------------------
(* A job is begun *)

\* A job that is begun was offered, and is not offered any more.
LEMMA LiveBegin ==
  ASSUME LockTypes, Live, NEW w, NEW h, NEW b, NEW f, Begins(w, h, b, f),
         \A r \in Rooms : r \in unended \ unbegun \/ f = <<"end", r>> => r \in unended' \ unbegun',
         \A g \in Groups : \A x \in PiecesFor(g) :
            x \in open[g] \ pieces[g] \/ f = <<"done", g, x>> => x \in open'[g] \ pieces'[g]
  PROVE  Live'
<1>1. ASSUME NEW v \in Workers, NEW i \in 1 .. Len(script'[v]), script'[v][i] \in Ends
      PROVE  script'[v][i] = f \/ \E m \in 1 .. Len(script[v]) : script'[v][i] = script[v][m]
  <2>1. \/ v = w /\ i = Len(b) /\ script'[v][i] = f
        \/ \E m \in 1 .. Len(script[v]) :
              script'[v][i] = script[v][m] /\ i = (IF v = w THEN Len(b) + m ELSE m)
    BY <1>1, EndBefore DEF LockTypes
  <2>2. QED BY <2>1
<1>2. ASSUME NEW v \in Workers, NEW i \in 1 .. Len(script'[v]), NEW r \in Rooms,
             script'[v][i] = <<"end", r>>
      PROVE  r \in unended' \ unbegun'
  <2>1. script'[v][i] \in Ends
    BY <1>2 DEF Ends
  <2>2. CASE script'[v][i] = f
    BY <1>2, <2>2
  <2>3. CASE \E m \in 1 .. Len(script[v]) : script'[v][i] = script[v][m]
    BY <1>2, <2>3 DEF Live
  <2>4. QED BY <1>1, <2>1, <2>2, <2>3
<1>3. ASSUME NEW v \in Workers, NEW i \in 1 .. Len(script'[v]), NEW g \in Groups,
             NEW x \in PiecesFor(g), script'[v][i] = <<"done", g, x>>
      PROVE  x \in open'[g] \ pieces'[g]
  <2>1. script'[v][i] \in Ends
    BY <1>3 DEF Ends
  <2>2. CASE script'[v][i] = f
    BY <1>3, <2>2
  <2>3. CASE \E m \in 1 .. Len(script[v]) : script'[v][i] = script[v][m]
    BY <1>3, <2>3 DEF Live
  <2>4. QED BY <1>1, <2>1, <2>2, <2>3
<1> QED
  BY <1>2, <1>3 DEF Live

\* A worker holds the same rooms when it has begun a job.
LEMMA RoomsHeldBegin ==
  ASSUME LockTypes, Shapes, RoomsHeld, NEW w, NEW h, NEW b, NEW f, Begins(w, h, b, f),
         reads' = reads,
         \A r \in Rooms : f = <<"end", r>> => b[1] = Read(Room(r)),
         \A u \in Workers : \A i \in 1 .. Len(script[u]) : script[u][i] # f
  PROVE  RoomsHeld'
<1>1. w \in Workers /\ w \in Threads /\ b \in Seq(Steps)
      /\ \A u \in Threads : u # w => script'[u] = script[u]
  <2>1. w \in Workers /\ w \in Threads /\ b \in Seq(Steps) /\ script' = [script EXCEPT ![w] = b \o @]
    BY JobFacts DEF Begins, Threads
  <2>2. QED BY <2>1, BeginShifts DEF LockTypes
<1>2. ASSUME NEW v \in Workers, NEW r \in Rooms
      PROVE  Inside(script'[v], r) <=> Inside(script[v], r)
  <2>1. CASE v # w
    BY <1>1, <2>1 DEF Threads
  <2>2. CASE v = w
    <3>1. /\ f # <<"end", r>> => (Inside(script'[w], r) <=> Inside(script[w], r))
          /\ b[1] = Read(Room(r)) => ~Inside(script'[w], r)
          /\ (\A i \in 1 .. Len(script[w]) : script[w][i] # <<"end", r>>) => ~Inside(script[w], r)
      BY InsideBegin DEF LockTypes
    <3>2. QED BY <1>1, <2>2, <3>1
  <2>3. QED BY <2>1, <2>2
<1> QED
  BY <1>2 DEF RoomsHeld, Inside

\* What beginning a piece and beginning a room have in common.
LEMMA JobBegun ==
  ASSUME LocksIInv, NEW w, NEW b, NEW f, Begins(w, Holds(w), b, f), UNCHANGED lockVars,
         open' = open, PoolTyped', Offered', Live', Ordered',
         \A r \in Rooms : f = <<"end", r>> => b[1] = Read(Room(r)),
         \A u \in Workers : \A i \in 1 .. Len(script[u]) : script[u][i] # f
  PROVE  LocksIInv'
<1>1. LockTypes /\ Shapes /\ Once /\ Awaited /\ Courses /\ Exclusion /\ RoomsHeld /\ Writers
  BY DEF LocksIInv, Jobs, Calls, Guards
<1>2. script \in [Threads -> Seq(Steps)] /\ writer' = writer /\ reads' = reads
  BY <1>1 DEF LockTypes, lockVars
<1>3. Courses' /\ Exclusion' /\ LocksTyped'
  BY <1>1, BeginKeeps
<1>4. Shapes' /\ Once'
  BY <1>1, <1>2, ShapesBegin, OnceBegin
<1>5. Awaited'
  <2>1. ASSUME NEW g \in Groups, open'[g] # {} PROVE \E t \in Threads : Waits(script'[t], g)
    <3>1. PICK t \in Threads : Waits(script[t], g)
      BY <1>1, <2>1 DEF Awaited
    <3>2. QED BY <1>2, <3>1, WaitsBegin
  <2>2. QED BY <2>1 DEF Awaited
<1>6. RoomsHeld'
  BY <1>1, <1>2, RoomsHeldBegin
<1>7. Writers'
  BY <1>1, <1>2, WritersSame
<1>8. script' \in [Threads -> Seq(Steps)]
  <2>1. w \in Threads /\ b \in Seq(Steps) /\ script' = [script EXCEPT ![w] = b \o @]
    BY JobFacts DEF Begins, Threads
  <2>2. QED BY <1>2, <2>1, BeginShifts
<1>9. LockTypes'
  BY <1>3, <1>8 DEF LockTypes, PoolTyped, LocksTyped
<1> QED
  BY <1>3, <1>4, <1>5, <1>6, <1>7, <1>9 DEF LocksIInv, Jobs, Calls, Guards

LEMMA IInvTakePiece ==
  ASSUME LocksIInv, NEW w \in Workers, NEW g \in Groups, TakePiece(w, g)
  PROVE  LocksIInv'
<1>1. LockTypes /\ Live /\ Offered /\ Ordered /\ Courses
  BY DEF LocksIInv, Jobs, Calls, Guards
<1>2. PICK x \in pieces[g] :
         /\ pieces' = [pieces EXCEPT ![g] = @ \ {x}]
         /\ script' = [script EXCEPT ![w] =
               PieceScript(x[1], x[2]) \o << <<"done", g, x>> >> \o @]
  BY DEF TakePiece
<1>3. /\ Idle(w) \/ Does(w, "await")
      /\ open' = open /\ call' = call /\ unbegun' = unbegun /\ unended' = unended
      /\ UNCHANGED lockVars
  BY DEF TakePiece, MayTakeWork
<1>4. x \in open[g] /\ x \in PiecesFor(g)
  BY <1>1, <1>2 DEF Offered
<1> DEFINE f == <<"done", g, x>>
           p == PieceScript(x[1], x[2])
           b == p \o <<f>>
<1>5. Holds(w) \in Holding /\ Calm(Holds(w))
  BY <1>1, <1>3, Waiting
<1>6. Job(w, Holds(w), b, f)
  BY <1>4, <1>5, PieceJob
<1>7. script' = [script EXCEPT ![w] = b \o @]
  <2>1. w \in Threads /\ script[w] \in Seq(Steps)
    BY <1>1 DEF LockTypes, Threads
  <2>2. script' = [script EXCEPT ![w] = p \o <<f>> \o @]
    BY <1>2
  <2> HIDE DEF p, f
  <2>3. QED BY <2>2
<1>8. f[1] = "done" /\ \A r : f # <<"end", r>>
  OBVIOUS
<1>9. \A o, y : f = <<"done", o, y>> => o = g /\ y = x
  OBVIOUS
<1>10. Begins(w, Holds(w), b, f)
  BY <1>3, <1>6, <1>7 DEF Begins
<1> HIDE DEF b, p
<1>11. /\ pieces'[g] = pieces[g] \ {x}
       /\ \A o \in Groups : o # g => pieces'[o] = pieces[o]
       /\ pieces' \in [Groups -> SUBSET UNION {PiecesFor(o) : o \in Groups}]
  BY <1>1, <1>2 DEF LockTypes
<1>12. PoolTyped'
  BY <1>1, <1>3, <1>11 DEF LockTypes, PoolTyped
<1>13. Offered'
  <2>1. ASSUME NEW o \in Groups PROVE pieces'[o] \subseteq open'[o] /\ open'[o] \subseteq PiecesFor(o)
    BY <1>1, <1>3, <1>11 DEF Offered
  <2>2. QED BY <2>1 DEF Offered
<1>14. \A u \in Workers : \A i \in 1 .. Len(script[u]) : script[u][i] # f
  BY <1>1, <1>4 DEF Live
<1> HIDE DEF f
<1>15. Live'
  <2>1. \A r \in Rooms : r \in unended \ unbegun \/ f = <<"end", r>> => r \in unended' \ unbegun'
    BY <1>3, <1>8
  <2>2. ASSUME NEW o \in Groups, NEW y \in PiecesFor(o),
               y \in open[o] \ pieces[o] \/ f = <<"done", o, y>>
        PROVE  y \in open'[o] \ pieces'[o]
    <3>1. CASE f = <<"done", o, y>>
      BY <1>3, <1>4, <1>9, <1>11, <3>1
    <3>2. CASE y \in open[o] \ pieces[o]
      BY <1>3, <1>11, <3>2
    <3>3. QED BY <2>2, <3>1, <3>2
  <2>3. QED BY <1>1, <1>10, <2>1, <2>2, LiveBegin
<1>16. Ordered'
  <2>1. PICK r \in Rooms : TRUE
    BY LocksAssumption DEF Rooms
  <2>2. script \in [Threads -> Seq(Steps)] /\ f[1] # "end"
    BY <1>1, <1>8 DEF LockTypes
  <2>3. QED BY <1>1, <1>8, <1>10, <2>1, <2>2, OrderedBegin
<1> QED
  BY <1>3, <1>8, <1>10, <1>12, <1>13, <1>14, <1>15, <1>16, JobBegun

\* No piece of a room whose job no worker is in has been begun.
LEMMA NoJobNoPiece ==
  ASSUME LocksIInv, NEW r \in Rooms,
         \A u \in Workers : \A i \in 1 .. Len(script[u]) : script[u][i] # <<"end", r>>
  PROVE  open[Room(r)] = {}
<1> SUFFICES ASSUME open[Room(r)] # {} PROVE FALSE
  OBVIOUS
<1>1. LockTypes /\ Shapes /\ Awaited
  BY DEF LocksIInv, Jobs, Calls
<1>2. Room(r) \in Groups /\ Room(r) # OfServer
  BY LockFacts
<1>3. PICK t \in Threads : Waits(script[t], Room(r))
  BY <1>1, <1>2 DEF Awaited
<1>4. PICK i \in 1 .. Len(script[t]) : script[t][i] = Await(Room(r))
  BY <1>3 DEF Waits
<1> DEFINE g == Room(r)
<1>5. script[t][i][1] = "await" /\ script[t][i][2] = g
  BY <1>4 DEF Await
<1>6. g # OfServer /\ g = Room(r)
  BY <1>2
<1> HIDE DEF g
<1>7. t \in Workers /\ \E e \in i .. Len(script[t]) : EndOfCall(script[t], i, g, e)
  BY <1>1, <1>5, <1>6, InCall
<1>8. PICK e \in i .. Len(script[t]) : EndOfCall(script[t], i, g, e)
  BY <1>7
<1>9. e \in 1 .. Len(script[t]) /\ script[t][e] = <<"end", r>>
  BY <1>6, <1>8 DEF EndOfCall
<1> QED
  BY <1>7, <1>9

LEMMA IInvTakeRoom ==
  ASSUME LocksIInv, NEW w \in Workers, NEW r \in Rooms, TakeRoom(w, r)
  PROVE  LocksIInv'
<1>1. LockTypes /\ Shapes /\ Live /\ Offered /\ Ordered /\ Courses /\ RoomsHeld
  BY DEF LocksIInv, Jobs, Calls, Guards
<1>2. /\ Idle(w) \/ Does(w, "await")
      /\ r \in unbegun /\ unbegun' = unbegun \ {r}
      /\ script' = [script EXCEPT ![w] = RoomScript(call, r) \o @]
      /\ open' = open /\ pieces' = pieces /\ call' = call /\ unended' = unended
      /\ UNCHANGED lockVars
  BY DEF TakeRoom, MayTakeWork
<1> DEFINE f == <<"end", r>>
           b == RoomScript(call, r)
           h == Holds(w)
<1>3. \A u \in Workers : \A i \in 1 .. Len(script[u]) : script[u][i] # f
  BY <1>1, <1>2 DEF Live
<1>4. open[Room(r)] = {}
  BY <1>3, NoJobNoPiece
<1>5. h \in Holding /\ Calm(h) /\ h[Room(r)] = reads[Room(r)][w]
  BY <1>1, <1>2, Waiting, LockFacts
<1>6. ~Inside(script[w], r)
  <2>1. script[w] \in Seq(Steps) /\ WorkerShape(script[w])
    BY <1>1 DEF LockTypes, Shapes, Threads
  <2>2. QED BY <1>3, <2>1, FreeEnds DEF Inside
<1>7. h[Room(r)] = 0
  BY <1>1, <1>5, <1>6 DEF RoomsHeld
<1>8. Job(w, h, b, f) /\ b[1] = Read(Room(r))
  BY <1>1, <1>5, <1>7, RoomJob DEF LockTypes
<1>9. Begins(w, h, b, f)
  BY <1>2, <1>8 DEF Begins
<1>10. PoolTyped'
  BY <1>1, <1>2 DEF LockTypes, PoolTyped
<1>11. Offered'
  BY <1>1, <1>2 DEF Offered
<1>12. \A q : f = <<"end", q>> => q = r
  OBVIOUS
<1>13. f[1] = "end" /\ \A o, y : f # <<"done", o, y>>
  OBVIOUS
<1>14. ASSUME NEW u \in Workers, NEW i \in 1 .. Len(script[u])
       PROVE  ~Of(script[u][i], r)
  <2> DEFINE y == script[u][i]
  <2>1. y \in Steps
    BY <1>1 DEF LockTypes, Threads
  <2>2. CASE y[1] = "done" /\ y[2] = Room(r)
    <3>1. y \in Ends
      BY <2>1, <2>2, StepFacts
    <3>2. y[2] \in Groups /\ y[3] \in PiecesFor(y[2]) /\ y = <<"done", y[2], y[3]>>
      BY <2>2, <3>1, EndFacts
    <3>3. y[3] \in open[Room(r)]
      BY <1>1, <2>2, <3>2 DEF Live
    <3>4. QED BY <1>4, <3>3
  <2>3. QED BY <1>3, <2>2 DEF Of
<1> HIDE DEF f, b, h
<1>15. Live'
  <2>1. \A q \in Rooms : q \in unended \ unbegun \/ f = <<"end", q>> => q \in unended' \ unbegun'
    BY <1>1, <1>2, <1>12 DEF LockTypes
  <2>2. \A o \in Groups : \A y \in PiecesFor(o) :
            y \in open[o] \ pieces[o] \/ f = <<"done", o, y>> => y \in open'[o] \ pieces'[o]
    BY <1>2, <1>13
  <2>3. QED BY <1>1, <1>9, <2>1, <2>2, LiveBegin
<1>16. Ordered'
  <2>1. script \in [Threads -> Seq(Steps)] /\ f = <<"end", r>>
    BY <1>1 DEF LockTypes, f
  <2>2. QED BY <1>1, <1>9, <1>14, <2>1, OrderedBegin
<1>17. \A q \in Rooms : f = <<"end", q>> => b[1] = Read(Room(q))
  BY <1>8, <1>12
<1>18. Begins(w, Holds(w), b, f)
  BY <1>9 DEF h
<1> QED
  BY <1>2, <1>3, <1>10, <1>11, <1>15, <1>16, <1>17, <1>18, JobBegun

-----------------------------------------------------------------------------
(* The other steps *)

\* What does not depend on the pool.
LEMMA ScriptSame ==
  ASSUME LocksIInv, script' = script, UNCHANGED lockVars,
         PoolTyped', Live', Offered', open' = open
  PROVE  LocksIInv'
<1>1. script' = script /\ writer' = writer /\ reads' = reads
  BY DEF lockVars
<1>2. \A t \in Threads : Holds(t)' = Holds(t) /\ \A l \in Locks : Has(t, l)' <=> Has(t, l)
  BY <1>1, HoldsSame
<1>3. Courses'
  BY <1>1, <1>2 DEF LocksIInv, Guards, Courses
<1>4. Exclusion'
  BY <1>1, <1>2 DEF LocksIInv, Guards, Exclusion
<1>5. Shapes' /\ Once' /\ RoomsHeld' /\ Writers'
  BY <1>1 DEF LocksIInv, Jobs, Guards, Shapes, Once, RoomsHeld, Writers
<1>6. Awaited'
  BY <1>1 DEF LocksIInv, Calls, Awaited
<1>7. Ordered'
  <2>1. PICK f \in [Rooms -> Nat] : Ranked(f)
    BY DEF LocksIInv, Ordered
  <2>2. Ranked(f)'
    BY <1>1, <2>1 DEF Ranked
  <2>3. QED BY <2>2 DEF Ordered
<1>8. LockTypes'
  BY <1>1 DEF LocksIInv, LockTypes, PoolTyped
<1> QED
  BY <1>3, <1>4, <1>5, <1>6, <1>7, <1>8 DEF LocksIInv, Jobs, Calls, Guards

LEMMA IInvNextCall ==
  ASSUME LocksIInv, NextCall
  PROVE  LocksIInv'
<1>1. LockTypes /\ Live /\ Offered
  BY DEF LocksIInv, Jobs, Calls
<1>2. /\ unended = {} /\ unbegun' = Rooms /\ unended' = Rooms
      /\ script' = script /\ pieces' = pieces /\ open' = open /\ UNCHANGED lockVars
  BY DEF NextCall
<1>3. call' \in {"flags", "data", "skins", "valid"}
  BY <1>1 DEF NextCall, LockTypes
<1>4. PoolTyped'
  BY <1>1, <1>2, <1>3 DEF LockTypes, PoolTyped
<1>5. Offered'
  BY <1>1, <1>2 DEF Offered
<1>6. Live'
  BY <1>1, <1>2 DEF Live
<1> QED
  BY <1>2, <1>4, <1>5, <1>6, ScriptSame

LEMMA IInvStutter ==
  ASSUME LocksIInv, UNCHANGED locksVars
  PROVE  LocksIInv'
<1>1. LockTypes /\ Live /\ Offered
  BY DEF LocksIInv, Jobs, Calls
<1>2. /\ script' = script /\ pieces' = pieces /\ open' = open /\ UNCHANGED lockVars
      /\ call' = call /\ unbegun' = unbegun /\ unended' = unended
  BY DEF locksVars, lockVars
<1>3. PoolTyped' /\ Offered' /\ Live'
  BY <1>1, <1>2 DEF LockTypes, PoolTyped, Offered, Live
<1> QED
  BY <1>2, <1>3, ScriptSame

LEMMA IInvHandle ==
  ASSUME LocksIInv, Handle
  PROVE  LocksIInv'
<1>1. LockTypes /\ Shapes /\ Once /\ Live /\ Offered /\ Awaited /\ Courses /\ Exclusion /\ RoomsHeld /\ Writers
  BY DEF LocksIInv, Jobs, Calls, Guards
<1>2. PICK s \in ServerScripts : script' = [script EXCEPT ![Actor] = s]
  BY DEF Handle
<1>3. /\ Idle(Actor) /\ UNCHANGED lockVars /\ writer' = writer /\ reads' = reads
      /\ pieces' = pieces /\ open' = open /\ call' = call /\ unbegun' = unbegun /\ unended' = unended
  BY DEF Handle, lockVars, poolVars
<1>4. Courses' /\ Exclusion' /\ LocksTyped' /\ script' \in [Threads -> Seq(Steps)]
      /\ ServerShape(s) /\ \A u \in Workers : script'[u] = script[u]
  BY <1>1, <1>2, <1>3, HandleKeeps
<1>5. Actor \in Threads /\ script'[Actor] = s /\ \A t \in Threads : t = Actor \/ t \in Workers
  BY <1>1, <1>2 DEF LockTypes, Threads
<1>6. LockTypes'
  BY <1>1, <1>3, <1>4 DEF LockTypes, LocksTyped
<1>7. Shapes'
  BY <1>1, <1>4, <1>5 DEF Shapes
<1>8. Once' /\ RoomsHeld' /\ Writers'
  BY <1>1, <1>3, <1>4 DEF Once, RoomsHeld, Writers
<1>9. Live' /\ Offered'
  BY <1>1, <1>3, <1>4 DEF Live, Offered
<1>10. Awaited'
  <2>1. ASSUME NEW g \in Groups, open'[g] # {} PROVE \E t \in Threads : Waits(script'[t], g)
    <3>1. PICK t \in Threads : Waits(script[t], g)
      BY <1>1, <1>3, <2>1 DEF Awaited
    <3>2. t # Actor
      BY <1>3, <3>1 DEF Waits, Idle
    <3>3. QED BY <1>4, <1>5, <3>1, <3>2
  <2>2. QED BY <2>1 DEF Awaited
<1>11. Ordered'
  <2>1. PICK f \in [Rooms -> Nat] : Ranked(f)
    BY DEF LocksIInv, Ordered
  <2>2. Ranked(f)'
    BY <1>4, <2>1 DEF Ranked
  <2>3. QED BY <2>2 DEF Ordered
<1> QED
  BY <1>4, <1>6, <1>7, <1>8, <1>9, <1>10, <1>11 DEF LocksIInv, Jobs, Calls, Guards

LEMMA IInvInit ==
  ASSUME LocksInit
  PROVE  LocksIInv
<1>1. /\ \A t \in Threads : script[t] = << >> /\ Len(script[t]) = 0
      /\ \A l \in Locks : writer[l] = NoOne
      /\ \A l \in Locks, t \in Threads : reads[l][t] = 0
      /\ \A g \in Groups : pieces[g] = {} /\ open[g] = {}
  BY DEF LocksInit
<1>2. NoOne \notin Threads /\ Workers \subseteq Threads /\ Actor \in Threads
  BY LocksAssumption DEF Threads
<1>3. LockTypes
  <2>1. script \in [Threads -> Seq(Steps)]
    BY DEF LocksInit
  <2>2. writer \in [Locks -> Threads \cup {NoOne}]
    BY DEF LocksInit
  <2>3. reads \in [Locks -> [Threads -> 0 .. 2]]
    BY DEF LocksInit
  <2>4. /\ pieces \in [Groups -> SUBSET UNION {PiecesFor(g) : g \in Groups}]
        /\ open \in [Groups -> SUBSET UNION {PiecesFor(g) : g \in Groups}]
    BY DEF LocksInit
  <2>5. /\ call \in {"flags", "data", "skins", "valid"}
        /\ unbegun \subseteq unended /\ unended \subseteq Rooms
    BY DEF LocksInit
  <2>6. QED BY <2>1, <2>2, <2>3, <2>4, <2>5 DEF LockTypes
<1>4. \A t \in Threads, l \in Locks : ~Has(t, l)
  BY <1>1, <1>2 DEF Has
<1>5. ASSUME NEW t \in Threads PROVE Holds(t) = Nothing
  BY <1>1, <1>4 DEF Holds, Nothing
<1>6. Courses
  <2>1. ASSUME NEW t \in Threads
        PROVE  Holds(t) \in Holding /\ Runs(t, Holds(t), script[t], Nothing)
    BY <1>1, <1>5, NoneHeld, RunsNone
  <2>2. QED BY <2>1 DEF Courses
<1>7. Exclusion
  BY <1>4 DEF Exclusion
<1>8. RoomsHeld
  BY <1>1, <1>2, LockFacts DEF RoomsHeld, Inside
<1>9. Writers
  BY <1>1, <1>2 DEF Writers
<1>10. Shapes
  <2>1. ASSUME NEW s, s = << >> PROVE WorkerShape(s) /\ ServerShape(s)
    BY <2>1 DEF WorkerShape, ServerShape
  <2>2. QED BY <1>1, <1>2, <2>1 DEF Shapes
<1>11. Once /\ Live
  BY <1>1, <1>2 DEF Once, Live
<1>12. Offered /\ Awaited
  BY <1>1 DEF Offered, Awaited
<1>13. Ordered
  <2> DEFINE f == [r \in Rooms |-> 0]
  <2>1. f \in [Rooms -> Nat]
    OBVIOUS
  <2>2. Ranked(f)
    BY <1>1, <1>2 DEF Ranked
  <2>3. QED BY <2>1, <2>2 DEF Ordered
<1> QED
  BY <1>3, <1>6, <1>7, <1>8, <1>9, <1>10, <1>11, <1>12, <1>13
  DEF LocksIInv, Jobs, Calls, Guards

\* The inductive invariant of the locks: whatever the server and the workers of the
\* loop's pool do, what they have left to do fits the guards they hold, and the pieces
\* that are open have a thread that waits for them.
THEOREM LocksInvariance == LocksSpec => []LocksIInv
<1>1. LocksInit => LocksIInv
  BY IInvInit
<1>2. LocksIInv /\ [LocksNext]_locksVars => LocksIInv'
  <2> SUFFICES ASSUME LocksIInv, [LocksNext]_locksVars PROVE LocksIInv'
    OBVIOUS
  <2>1. ASSUME NEW t \in Threads, Step(t) PROVE LocksIInv'
    BY <2>1, IInvRead, IInvAnnounce, IInvWrite, IInvRelease, IInvSplit, IInvReturn,
       IInvEndPiece, IInvEndRoom DEF Step
  <2>2. ASSUME NEW w \in Workers, NEW g \in Groups, TakePiece(w, g) PROVE LocksIInv'
    BY <2>2, IInvTakePiece
  <2>3. ASSUME NEW w \in Workers, NEW r \in Rooms, TakeRoom(w, r) PROVE LocksIInv'
    BY <2>3, IInvTakeRoom
  <2>4. CASE NextCall
    BY <2>4, IInvNextCall
  <2>5. CASE Handle
    BY <2>5, IInvHandle
  <2>6. CASE UNCHANGED locksVars
    BY <2>6, IInvStutter
  <2>7. QED BY <2>1, <2>2, <2>3, <2>4, <2>5, <2>6 DEF LocksNext
<1>3. QED BY <1>1, <1>2, PTL DEF LocksSpec

LEMMA InvariantTypes ==
  ASSUME LocksIInv
  PROVE  LocksTypeOK
<1>1. LockTypes /\ Offered /\ Courses /\ Exclusion
  BY DEF LocksIInv, Calls, Guards
<1>2. ASSUME NEW t \in Threads, Idle(t), NEW l \in Locks
      PROVE  writer[l] # t /\ reads[l][t] = 0
  <2>1. Runs(t, Holds(t), << >>, Nothing)
    BY <1>1, <1>2 DEF Courses, Idle
  <2>2. Holds(t)[l] = 0
    BY <2>1, RunsEnd, NoneHeld
  <2>3. ~Has(t, l) /\ reads[l][t] = 0
    BY <1>1, <2>2, HoldsFacts DEF Writes
  <2>4. writer[l] # t
    BY <1>1, <1>2, <2>3, HoldsFacts DEF Idle
  <2>5. QED BY <2>3, <2>4
<1>3. \A g \in Groups : pieces[g] \subseteq open[g]
  BY <1>1 DEF Offered
<1>4. \A l \in Locks, t \in Threads : Has(t, l) => \A u \in Threads : reads[l][u] = 0
  BY <1>1 DEF Exclusion
<1> QED
  BY <1>1, <1>2, <1>3, <1>4 DEF LocksTypeOK, LockTypes

\* The types of GameLocks; a lock is held by one writer or by readers, and a worker
\* of the pool or the server without anything to do holds none: every handler and
\* every closure of the loop gives back what it took.
THEOREM LocksTypes == LocksSpec => []LocksTypeOK
BY LocksInvariance, InvariantTypes, PTL

-----------------------------------------------------------------------------
(* Threads that wait for one another *)

Stuck(D) == LocksIInv /\ D \in SUBSET Threads /\ Deadlocked(D)

\* The step at which a thread of D is blocked.
LEMMA StuckAt ==
  ASSUME NEW D, Stuck(D), NEW t \in D
  PROVE  LET x == script[t][1]
             l == x[2]
         IN  /\ t \in Threads /\ ~Idle(t) /\ 1 \in 1 .. Len(script[t]) /\ x \in Steps /\ x \notin Ends
             /\ Holds(t) \in Holding /\ May(t, Holds(t), x)
             /\ x[1] \in {"read", "write", "await"}
             /\ x[1] = "read" => l \in Locks /\ x = Read(l) /\ writer[l] \in D
             /\ x[1] = "write" => l \in Locks /\ x = Write(l)
                                  /\ (writer[l] \in D \ {t} \/ \E u \in D : reads[l][u] > 0)
<1> DEFINE x == script[t][1]
           l == x[2]
<1>1. t \in Threads /\ LockTypes /\ Courses /\ BlockedBy(t, D)
  BY DEF Stuck, Deadlocked, LocksIInv, Guards
<1>2. ~Idle(t) /\ x[1] \in {"read", "write", "await"}
      /\ (x[1] = "read" => writer[l] \in D)
      /\ (x[1] = "write" => writer[l] \in D \ {t} \/ \E u \in D : reads[l][u] > 0)
  BY <1>1 DEF BlockedBy, Does, Its
<1>3. x \in Steps /\ Holds(t) \in Holding /\ May(t, Holds(t), x)
  BY <1>1, <1>2, StepCourse
<1>4. 1 \in 1 .. Len(script[t])
  BY <1>1, <1>2 DEF LockTypes, Idle
<1> HIDE DEF x
<1>5. x \notin Ends
  BY <1>2, EndFacts
<1>6. (x[1] = "read" => l \in Locks /\ x = Read(l)) /\ (x[1] = "write" => l \in Locks /\ x = Write(l))
  BY <1>3, StepFacts
<1> QED
  BY <1>1, <1>2, <1>3, <1>4, <1>5, <1>6 DEF x

\* A worker of D has nothing but rooms, and those to read.
LEMMA StuckWorker ==
  ASSUME NEW D, Stuck(D), NEW w \in Workers, w \in D
  PROVE  /\ script[w][1] # Read(Clients) => Calm(Holds(w))
         /\ Shares(Holds(w)) /\ Holds(w)[Clients] = 0
         /\ script[w][1][1] = "write" => script[w][1][2] \in PlayerLocks
         /\ \A l \in Locks : ~Has(w, l) /\ reads[l][w] = Holds(w)[l]
<1> DEFINE x == script[w][1]
           h == Holds(w)
<1>1. w \in Threads /\ h \in Holding /\ x[1] \in {"read", "write", "await"} /\ WorkerMay(h, x)
  BY StuckAt, LocksAssumption DEF May
<1>2. Clients \in Locks /\ Clients \notin RoomLocks
  BY LockFacts
<1>3. x # Read(Clients) => Calm(h)
  BY <1>1 DEF WorkerMay, Calm
<1>4. Shares(h)
  BY <1>1 DEF WorkerMay
<1>5. h[Clients] = 0
  <2>1. h[Clients] \in 0 .. Writes
    BY <1>1, <1>2 DEF Holding
  <2>2. OnlyRooms(h) => ~(h[Clients] > 0)
    BY <1>2 DEF OnlyRooms
  <2>3. h[Clients] = 0 \/ OnlyRooms(h)
    BY <1>1 DEF WorkerMay
  <2>4. QED BY <2>1, <2>2, <2>3 DEF Writes
<1>6. x[1] = "write" => x[2] \in PlayerLocks
  BY <1>1 DEF WorkerMay
<1>7. \A l \in Locks : ~Has(w, l) /\ reads[l][w] = h[l]
  BY <1>1, <1>4, HoldsFacts DEF Shares, Stuck, LocksIInv
<1> QED
  BY <1>3, <1>4, <1>5, <1>6, <1>7

\* Nobody of D waits for the clients.
LEMMA ClientsFree ==
  ASSUME NEW D, Stuck(D), NEW t \in D
  PROVE  script[t][1] # Read(Clients) /\ script[t][1] # Write(Clients)
<1>1. Clients \in Locks /\ Clients \notin PlayerLocks /\ D \subseteq Threads /\ Threads = Workers \cup {Actor}
      /\ Writers /\ LockTypes
  BY LockFacts DEF Stuck, Threads, LocksIInv, Guards
<1>2. Read(Clients)[1] = "read" /\ Read(Clients)[2] = Clients
      /\ Write(Clients)[1] = "write" /\ Write(Clients)[2] = Clients
  BY DEF Read, Write
<1>3. ASSUME NEW u \in D, script[u][1] = Write(Clients)
      PROVE  FALSE
  <2>1. u = Actor
    BY <1>1, <1>2, <1>3, StuckWorker
  <2>2. writer[Clients] \in D \ {u} \/ \E v \in D : reads[Clients][v] > 0
    BY <1>2, <1>3, StuckAt
  <2>3. writer[Clients] \notin D \ {u}
    BY <1>1, <2>1 DEF Writers
  <2>4. PICK v \in D : reads[Clients][v] > 0
    BY <2>2, <2>3
  <2>5. v = Actor
    <3>1. v \in Workers => reads[Clients][v] = 0
      BY <1>1, StuckWorker
    <3>2. QED BY <1>1, <2>4, <3>1
  <2>6. Holds(Actor)[Clients] = 0
    BY <1>3, <2>1, StuckAt DEF May, ServerMay
  <2>7. ~Has(Actor, Clients) /\ reads[Clients][Actor] = 0
    BY <1>1, <2>1, <2>6, HoldsFacts DEF Writes
  <2>8. QED BY <2>4, <2>5, <2>7
<1>4. ASSUME script[t][1] = Read(Clients)
      PROVE  FALSE
  <2>1. writer[Clients] \in D
    BY <1>2, <1>4, StuckAt
  <2>2. Actor \in D /\ writer[Clients] = Actor
    BY <1>1, <2>1 DEF Writers
  <2>3. Has(Actor, Clients)
    <3>1. ~Has(Actor, Clients) => script[Actor][1] = Write(Clients)
      BY <1>1, <2>2, HoldsFacts
    <3>2. QED BY <1>3, <2>2, <3>1
  <2>4. Holds(Actor)[Clients] = Writes
    BY <1>1, <2>2, <2>3, HoldsFacts
  <2>5. script[Actor][1][1] = "free"
    BY <2>2, <2>4, StuckAt DEF May, ServerMay
  <2>6. QED BY <2>2, <2>5, StuckAt
<1> QED
  BY <1>3, <1>4

\* Only the server writes rooms, and it does not wait to read one.
LEMMA RoomsFree ==
  ASSUME NEW D, Stuck(D), NEW r \in Rooms
  PROVE  /\ writer[Room(r)] \in D => writer[Room(r)] = Actor
         /\ Actor \in D => script[Actor][1] # Read(Room(r))
<1>1. Room(r) \in Locks /\ Room(r) \notin PlayerLocks /\ D \subseteq Threads /\ Threads = Workers \cup {Actor}
      /\ Writers /\ LockTypes
  <2>1. Room(r) \in Locks /\ Room(r) \notin PlayerLocks
    BY LockFacts DEF RoomLocks
  <2>2. QED BY <2>1 DEF Stuck, Threads, LocksIInv, Guards
<1>2. writer[Room(r)] \in D => writer[Room(r)] = Actor
  BY <1>1 DEF Writers
<1>3. ASSUME Actor \in D, script[Actor][1] = Read(Room(r)) PROVE FALSE
  <2>1. Read(Room(r))[1] = "read" /\ Read(Room(r))[2] = Room(r) /\ Read(Room(r)) # Write(Room(r))
    BY DEF Read, Write
  <2>2. writer[Room(r)] = Actor
    BY <1>2, <1>3, <2>1, StuckAt
  <2>3. Has(Actor, Room(r))
    BY <1>1, <1>3, <2>1, <2>2, HoldsFacts
  <2>4. Holds(Actor)[Room(r)] = Writes
    BY <1>1, <1>3, <2>3, HoldsFacts
  <2>5. Holds(Actor)[Room(r)] = 0
    BY <1>3, StuckAt DEF May, ServerMay
  <2>6. QED BY <2>4, <2>5 DEF Writes
<1> QED
  BY <1>2, <1>3

-----------------------------------------------------------------------------
(* Who makes the calls whose pieces are begun *)

\* While pieces of a room are open a worker holds the room.
LEMMA RoomOfPieces ==
  ASSUME LocksIInv, NEW r \in Rooms, open[Room(r)] # {}
  PROVE  \E v \in Workers : reads[Room(r)][v] = 1
<1> DEFINE g == Room(r)
<1>1. LockTypes /\ Shapes /\ Once /\ Awaited /\ RoomsHeld
  BY DEF LocksIInv, Jobs, Calls, Guards
<1>2. g \in Groups /\ g # OfServer
  BY LockFacts
<1>3. PICK v \in Threads : Waits(script[v], g)
  BY <1>1, <1>2 DEF Awaited
<1>4. PICK i \in 1 .. Len(script[v]) :
         script[v][i] = Await(g) /\ (i = 1 \/ script[v][i - 1] \in Ends)
  BY <1>3 DEF Waits
<1>5. g = Room(r)
  OBVIOUS
<1> HIDE DEF g
<1>6. script[v][i][1] = "await" /\ script[v][i][2] = g
  BY <1>4 DEF Await
<1>7. v \in Workers /\ \E e \in i .. Len(script[v]) : EndOfCall(script[v], i, g, e)
  BY <1>1, <1>2, <1>6, InCall
<1>8. PICK e \in i .. Len(script[v]) : EndOfCall(script[v], i, g, e)
  BY <1>7
<1> DEFINE s == script[v]
<1>9. s \in Seq(Steps) /\ WorkerShape(s) /\ \A k, j \in 1 .. Len(s) : s[k] \in Ends /\ s[k] = s[j] => k = j
  BY <1>1, <1>7 DEF LockTypes, Shapes, Once
<1>10. /\ s[e] = <<"end", r>> /\ e \in 1 .. Len(s) /\ s[e] \in Ends
       /\ i \in 1 .. Len(s) /\ s[i] = Await(g) /\ (i = 1 \/ s[i - 1] \in Ends)
       /\ s[i] \notin Ends
  <2>1. s[i] \notin Ends
    BY <1>6, EndFacts
  <2>2. QED BY <1>4, <1>5, <1>8, <2>1 DEF EndOfCall
<1> HIDE DEF s
<1>11. e \in 2 .. Len(s) /\ i < e /\ 1 \in 1 .. Len(s)
  BY <1>8, <1>9, <1>10
<1>12. e - 1 \in 1 .. Len(s) /\ s[e - 1] = Free(Room(r))
  BY <1>9, <1>10, <1>11, FreeEnds
<1>13. s[1] # Read(Room(r))
  <2> SUFFICES ASSUME s[1] = Read(Room(r)) PROVE FALSE
    OBVIOUS
  <2>1. PICK d \in 1 .. Len(s) :
            /\ s[d] \in Ends /\ \A j \in 1 .. d - 1 : s[j] \in StepsOf(s[d]) /\ s[j] \notin Ends
    BY <1>9, <1>11, FirstEnd
  <2>2. s[1] \notin Ends /\ s[1] # Await(g)
    BY EndFacts DEF Read, Await
  <2>3. 1 \in 1 .. d - 1
    BY <2>1, <2>2
  <2>4. s[d] = <<"end", r>>
    BY <2>1, <2>3, InnerSteps
  <2>5. d = e
    BY <1>9, <1>10, <2>1, <2>4
  <2>6. i # 1
    BY <1>10, <2>2
  <2>7. i - 1 \in 1 .. d - 1
    BY <1>10, <1>11, <2>5, <2>6
  <2>8. QED BY <1>10, <2>1, <2>6, <2>7
<1>14. s # << >>
  BY <1>9, <1>11
<1>15. Inside(s, r)
  BY <1>12, <1>13, <1>14 DEF Inside
<1>16. reads[Room(r)][v] = 1
  BY <1>1, <1>7, <1>15 DEF RoomsHeld, s
<1> QED
  BY <1>7, <1>16

\* While pieces of the server are open it waits for them.
LEMMA ServerAwaits ==
  ASSUME LocksIInv, open[OfServer] # {}
  PROVE  script[Actor][1] = Await(OfServer)
<1>1. LockTypes /\ Shapes /\ Awaited
  BY DEF LocksIInv, Jobs, Calls
<1>2. PICK u \in Threads : Waits(script[u], OfServer)
  BY <1>1, LockFacts DEF Awaited
<1>3. PICK i \in 1 .. Len(script[u]) :
         script[u][i] = Await(OfServer) /\ (i = 1 \/ script[u][i - 1] \in Ends)
  BY <1>2 DEF Waits
<1>4. script[u][i][1] = "await" /\ script[u][i][2] = OfServer
  BY <1>3 DEF Await
<1>5. u = Actor
  <2>1. CASE u \in Workers
    <3>1. script[u] \in Seq(Steps) /\ WorkerShape(script[u])
      BY <1>1, <2>1 DEF LockTypes, Shapes
    <3>2. PICK e \in i .. Len(script[u]) :
            /\ script[u][e] \in Ends
            /\ \A j \in i .. e - 1 : script[u][j] \in StepsOf(script[u][e])
      BY <3>1 DEF WorkerShape
    <3>3. i # e
      BY <1>4, <3>2, EndFacts
    <3>4. script[u][i] \in StepsOf(script[u][e])
      BY <3>2, <3>3
    <3>5. OfServer \in RoomLocks \cup PlayerLocks
      BY <1>4, <3>2, <3>4, Caller
    <3>6. QED BY <3>5, LockFacts DEF RoomLocks, PlayerLocks
  <2>2. QED BY <2>1 DEF Threads
<1>6. i = 1
  <2> SUFFICES ASSUME i # 1 PROVE FALSE
    OBVIOUS
  <2>1. i - 1 \in 1 .. Len(script[u]) /\ script[u][i - 1] \in Ends
    BY <1>3
  <2>2. script[u][i - 1] \in CallSteps(OfServer)
    BY <1>1, <1>5, <2>1 DEF Shapes, ServerShape
  <2>3. \A x \in CallSteps(OfServer) : x[1] \in {"read", "write", "free", "fork", "await"}
    BY EndFacts, LockStepFacts DEF CallSteps, Await
  <2>4. QED BY <2>1, <2>2, <2>3, EndFacts
<1> QED
  BY <1>3, <1>5, <1>6

\* A worker that is to write a player does so for the room of this player, or for
\* the server.
LEMMA PlayerWritten ==
  ASSUME LocksIInv, NEW u \in Workers, NEW p \in Playing, ~Idle(u), script[u][1] = Write(Player(p))
  PROVE  open[OfServer] # {} \/ open[Room(RoomOf[p])] # {}
<1> DEFINE s == script[u]
<1>1. LockTypes /\ Shapes /\ Live
  BY DEF LocksIInv, Jobs
<1>2. s \in Seq(Steps) /\ WorkerShape(s) /\ 1 \in 1 .. Len(s) /\ s[1] = Write(Player(p))
  BY <1>1 DEF LockTypes, Shapes, Threads, Idle
<1>3. \A e \in 1 .. Len(s) : \A g \in Groups : \A x \in PiecesFor(g) :
          s[e] = <<"done", g, x>> => x \in open[g]
  BY <1>1 DEF Live
<1> HIDE DEF s
<1>4. PICK e \in 1 .. Len(s) :
          /\ s[e] \in Ends /\ \A j \in 1 .. e - 1 : s[j] \in StepsOf(s[e]) /\ s[j] \notin Ends
  BY <1>2, FirstEnd
<1>5. s[1] \notin Ends /\ s[1][1] = "write" /\ s[1][2] = Player(p)
  BY <1>2, EndFacts DEF Write
<1>6. 1 \in 1 .. e - 1
  BY <1>4, <1>5
<1> DEFINE f == s[e]
           g == f[2]
           x == f[3]
<1>7. f[1] = "done" /\ x[1] \in {"skin", "cosmetics"} /\ Player(p) = Player(x[2])
  BY <1>4, <1>5, <1>6, InnerSteps
<1>8. g \in Groups /\ x \in PiecesFor(g) /\ f = <<"done", g, x>>
  BY <1>4, <1>7, EndFacts
<1>9. x \in open[g]
  BY <1>3, <1>8
<1> HIDE DEF f, g, x
<1>10. CASE g # OfServer
  <2>1. g[1] # "player"
    BY <1>7, <1>8, <1>10 DEF PiecesFor
  <2>2. PICK q \in Rooms : g = Room(q)
    BY <1>8, <1>10, <2>1 DEF Groups, Locks, Player
  <2>3. g[2] = q
    BY <2>2 DEF Room
  <2>4. x \in {<<k, o>> : k \in {"look", "skin", "message"}, o \in PlayersIn(q)} \cup {<<"flags", q>>}
    BY <1>8, <1>10, <2>1, <2>3 DEF PiecesFor
  <2>5. x[2] \in PlayersIn(q)
    BY <1>7, <2>4
  <2>6. x[2] \in Playing /\ RoomOf[x[2]] = q
    BY <2>5 DEF PlayersIn
  <2>7. x[2] = p
    BY <1>7, <2>6, LockFacts
  <2>8. QED BY <1>9, <2>2, <2>6, <2>7
<1> QED
  BY <1>9, <1>10

\* The first step of the jobs begun, or of what is left of the innermost one.
LEMMA JobStart ==
  ASSUME NEW s \in Seq(Steps), WorkerShape(s), NEW j \in 1 .. Len(s), s[j] \in Ends, s[1] \notin Ends
  PROVE  \E k \in 1 .. j - 1 : s[k] \in StepsOf(s[j]) /\ (k = 1 \/ s[k][1] = "await")
<1> DEFINE S == {k \in 1 .. j : \A m \in k .. j - 1 : s[m] \notin Ends}
<1>1. S \in SUBSET Nat /\ j \in S
  OBVIOUS
<1>2. PICK k \in S : \A m \in S : k <= m
  <2> HIDE DEF S
  <2>1. QED BY <1>1, LeastNatural
<1>3. k \in 1 .. j /\ \A m \in k .. j - 1 : s[m] \notin Ends
  BY <1>2
<1>4. k = 1 \/ (k - 1 \in 1 .. Len(s) - 1 /\ s[k - 1] \in Ends)
  <2> SUFFICES ASSUME k # 1, s[k - 1] \notin Ends PROVE FALSE
    BY <1>3
  <2>1. k - 1 \in 1 .. j /\ \A m \in k - 1 .. j - 1 : s[m] \notin Ends
    BY <1>3
  <2>2. k - 1 \in S
    BY <2>1
  <2>3. QED BY <1>2, <1>3, <2>2
<1> HIDE <1>2
<1> HIDE DEF S
<1>5. k = 1 \/ s[k][1] = "await"
  <2> SUFFICES ASSUME k # 1 PROVE s[k][1] = "await"
    OBVIOUS
  <2>1. k - 1 \in 1 .. Len(s) - 1 /\ s[k - 1] \in Ends /\ (k - 1) + 1 = k
    BY <1>3, <1>4
  <2>2. Adjacent(s[k - 1], s[(k - 1) + 1])
    BY <2>1 DEF WorkerShape
  <2>3. QED BY <2>1, <2>2 DEF Adjacent
<1>6. k # j
  BY <1>5, EndFacts
<1>7. PICK e \in k .. Len(s) : s[e] \in Ends /\ \A m \in k .. e - 1 : s[m] \in StepsOf(s[e])
  <2>1. k \in 1 .. Len(s)
    BY <1>3
  <2>2. QED BY <2>1 DEF WorkerShape
<1>8. \A m \in k .. e - 1 : s[m] \notin Ends
  BY <1>7, InnerSteps
<1>9. e = j
  BY <1>3, <1>7, <1>8
<1>10. k \in 1 .. j - 1 /\ k \in k .. e - 1
  BY <1>3, <1>6, <1>9
<1> QED
  BY <1>5, <1>7, <1>9, <1>10

-----------------------------------------------------------------------------
(* Nobody waits for a player *)

\* The server, when it waits with a player's guard in its hand, is about to read
\* the player once more, while it writes the list of the player's room.
LEMMA ServerWithPlayer ==
  ASSUME NEW D, Stuck(D), Actor \in D, NEW p \in Playing, Holds(Actor)[Player(p)] > 0
  PROVE  \/ script[Actor][1] = Write(Player(p)) /\ Has(Actor, Player(p))
         \/ script[Actor][1] = Read(Player(p)) /\ Has(Actor, Room(RoomOf[p]))
<1> DEFINE x == script[Actor][1]
           h == Holds(Actor)
           q == Player(p)
<1>1. /\ x \in Steps /\ x[1] \in {"read", "write", "await"} /\ h \in Holding /\ ServerMay(h, x)
      /\ x[1] = "read" => x[2] \in Locks /\ x = Read(x[2])
      /\ x[1] = "write" => x[2] \in Locks /\ x = Write(x[2])
  BY StuckAt DEF May
<1>2. x # Read(Clients) /\ x # Write(Clients) /\ \A r \in Rooms : x # Read(Room(r))
  BY ClientsFree, RoomsFree
<1>3. q \in PlayerLocks /\ q \in Locks /\ h[q] > 0 /\ Room(RoomOf[p]) \in Locks
  BY LockFacts DEF PlayerLocks
<1> HIDE DEF x, h, q
<1>4. ~NoPlayer(h)
  <2>1. h[q] \in 0 .. Writes
    BY <1>1, <1>3 DEF Holding
  <2>2. QED BY <1>3, <2>1 DEF NoPlayer, Writes
<1>5. x[1] = "read"
  <2>1. x[1] # "await"
    BY <1>1, <1>4 DEF ServerMay
  <2>2. ASSUME x[1] = "write" PROVE FALSE
    <3>1. x = Write(x[2]) /\ (x[2] = Clients \/ x[2] \in RoomLocks \/ x[2] \in PlayerLocks)
      BY <1>1, <2>2, LockFacts
    <3>2. CASE x[2] \in RoomLocks
      <4>1. PICK r \in Rooms : x = Write(Room(r))
        BY <3>1, <3>2 DEF RoomLocks
      <4>2. QED BY <1>1, <1>4, <4>1 DEF ServerMay
    <3>3. CASE x[2] \in PlayerLocks
      <4>1. PICK o \in Playing : x = Write(Player(o))
        BY <3>1, <3>3 DEF PlayerLocks
      <4>2. QED BY <1>1, <1>4, <4>1 DEF ServerMay
    <3>4. QED BY <1>2, <3>1, <3>2, <3>3
  <2>3. QED BY <1>1, <2>1, <2>2
<1>6. x[2] \in PlayerLocks
  <2>1. x = Read(x[2]) /\ (x[2] = Clients \/ x[2] \in RoomLocks \/ x[2] \in PlayerLocks)
    BY <1>1, <1>5, LockFacts
  <2>2. x[2] \notin RoomLocks
    BY <1>2, <2>1 DEF RoomLocks
  <2>3. QED BY <1>2, <2>1, <2>2
<1>7. PICK o \in Playing : x[2] = Player(o)
  BY <1>6 DEF PlayerLocks
<1>8. x = Read(Player(o))
  BY <1>1, <1>5, <1>7
<1>9. q = Player(o) /\ h[Room(RoomOf[o])] = Writes
  BY <1>1, <1>3, <1>8 DEF ServerMay
<1>10. o = p
  BY <1>9, LockFacts DEF q
<1>11. Has(Actor, Room(RoomOf[p]))
  <2>1. LockTypes /\ Actor \in Threads
    BY DEF Stuck, LocksIInv, Threads
  <2>2. QED BY <1>3, <1>9, <1>10, <2>1, HoldsFacts DEF h
<1> QED
  BY <1>8, <1>10, <1>11 DEF x

\* No thread of D has a player to write, or keeps the readers of one out.
LEMMA PlayersUnwritten ==
  ASSUME NEW D, Stuck(D), NEW p \in Playing
  PROVE  writer[Player(p)] \notin D
<1> SUFFICES ASSUME writer[Player(p)] \in D PROVE FALSE
  OBVIOUS
<1> DEFINE q == Player(p)
           u == writer[q]
<1>1. /\ u \in D /\ u \in Threads /\ Threads = Workers \cup {Actor} /\ LockTypes
      /\ Exclusion /\ LocksIInv /\ D \subseteq Threads
  BY DEF Stuck, LocksIInv, Guards, Threads
<1>2. q \in Locks /\ q \in PlayerLocks /\ q \notin RoomLocks /\ q # Clients
  BY LockFacts DEF PlayerLocks
<1>3. Write(q)[1] = "write" /\ Write(q)[2] = q /\ Write(q) # Read(q)
  BY DEF Write, Read
<1>4. \A v \in D \cap Workers : reads[q][v] = 0 /\ ~Has(v, q)
  <2> SUFFICES ASSUME NEW v \in D \cap Workers PROVE reads[q][v] = 0 /\ ~Has(v, q)
    OBVIOUS
  <2>1. Calm(Holds(v)) /\ ~Has(v, q) /\ reads[q][v] = Holds(v)[q]
    BY <1>2, StuckWorker, ClientsFree
  <2>2. Holds(v) \in Holding
    BY StuckAt
  <2>3. QED BY <1>2, <2>1, <2>2, CalmFacts
<1>5. script[u][1] = Write(q)
  <2>1. ~Has(u, q) => script[u][1] = Write(q)
    BY <1>1, <1>2, HoldsFacts
  <2>2. ASSUME Has(u, q) PROVE script[u][1] = Write(q)
    <3>1. u = Actor
      BY <1>1, <1>4, <2>2
    <3>2. Holds(Actor)[q] > 0
      BY <1>1, <1>2, <2>2, <3>1, HoldsFacts DEF Writes
    <3>3. script[Actor][1] = Write(q) \/ script[Actor][1] = Read(q)
      BY <1>1, <3>1, <3>2, ServerWithPlayer
    <3>4. script[Actor][1] # Read(q)
      <4> SUFFICES ASSUME script[Actor][1] = Read(q) PROVE FALSE
        OBVIOUS
      <4>1. May(Actor, Holds(Actor), Read(q))
        BY <1>1, <3>1, StuckAt
      <4>2. Holds(Actor)[q] <= 1
        BY <1>1, <1>2, <3>1, <4>1, StuckAt, ReadBound
      <4>3. QED BY <1>1, <1>2, <2>2, <3>1, <4>2, HoldsFacts DEF Writes
    <3>5. QED BY <3>1, <3>3, <3>4
  <2>3. QED BY <2>1, <2>2
<1>6. PICK v \in D : reads[q][v] > 0
  BY <1>1, <1>3, <1>5, StuckAt
<1>7. v = Actor /\ Actor \in D
  BY <1>1, <1>4, <1>6
<1>8. reads[q][Actor] \in 0 .. 2 /\ reads[q][Actor] > 0
  BY <1>1, <1>2, <1>6, <1>7, HoldsFacts
<1>9. ~Has(Actor, q)
  <2> SUFFICES ASSUME Has(Actor, q) PROVE FALSE
    OBVIOUS
  <2>1. reads[q][Actor] = 0
    BY <1>1, <1>2 DEF Exclusion
  <2>2. QED BY <1>8, <2>1
<1>10. Holds(Actor)[q] > 0
  BY <1>1, <1>2, <1>8, <1>9, HoldsFacts
<1>11. script[Actor][1] = Read(q) /\ Has(Actor, Room(RoomOf[p]))
  BY <1>7, <1>9, <1>10, ServerWithPlayer
<1>12. u \in Workers
  BY <1>1, <1>3, <1>5, <1>11
<1>13. open[OfServer] # {} \/ open[Room(RoomOf[p])] # {}
  <2>1. ~Idle(u)
    BY <1>1, StuckAt
  <2>2. QED BY <1>1, <1>5, <1>12, <2>1, PlayerWritten
<1>14. CASE open[OfServer] # {}
  <2>1. script[Actor][1] = Await(OfServer)
    BY <1>1, <1>14, ServerAwaits
  <2>2. QED BY <1>11, <2>1 DEF Read, Await
<1>15. CASE open[Room(RoomOf[p])] # {}
  <2>1. RoomOf[p] \in Rooms /\ Room(RoomOf[p]) \in Locks
    BY LockFacts
  <2>2. PICK o \in Workers : reads[Room(RoomOf[p])][o] = 1
    BY <1>1, <1>15, <2>1, RoomOfPieces
  <2>3. reads[Room(RoomOf[p])][o] = 0
    BY <1>1, <1>11, <2>1 DEF Exclusion
  <2>4. QED BY <2>2, <2>3
<1> QED
  BY <1>13, <1>14, <1>15

\* So no thread of D waits for a player.
LEMMA PlayersFree ==
  ASSUME NEW D, Stuck(D), NEW t \in D, NEW p \in Playing
  PROVE  script[t][1] # Read(Player(p)) /\ script[t][1] # Write(Player(p))
<1> DEFINE q == Player(p)
<1>1. D \subseteq Threads /\ Threads = Workers \cup {Actor} /\ LockTypes /\ Exclusion
  BY DEF Stuck, LocksIInv, Guards, Threads
<1>2. q \in Locks /\ q \in PlayerLocks
  BY LockFacts DEF PlayerLocks
<1>3. Write(q)[1] = "write" /\ Write(q)[2] = q /\ Read(q)[1] = "read" /\ Read(q)[2] = q
  BY DEF Write, Read
<1>4. script[t][1] # Read(q)
  BY <1>3, StuckAt, PlayersUnwritten
<1>5. ASSUME script[t][1] = Write(q) PROVE FALSE
  <2>1. PICK v \in D : reads[q][v] > 0
    BY <1>3, <1>5, StuckAt, PlayersUnwritten
  <2>2. v \notin Workers
    <3> SUFFICES ASSUME v \in Workers PROVE FALSE
      OBVIOUS
    <3>1. Calm(Holds(v)) /\ reads[q][v] = Holds(v)[q] /\ Holds(v) \in Holding
      BY <1>2, StuckWorker, ClientsFree, StuckAt
    <3>2. Holds(v)[q] = 0
      BY <1>2, <3>1, CalmFacts
    <3>3. QED BY <2>1, <3>1, <3>2
  <2>3. v = Actor
    BY <1>1, <2>2
  <2>4. ~Has(Actor, q)
    <3> SUFFICES ASSUME Has(Actor, q) PROVE FALSE
      OBVIOUS
    <3>1. writer[q] = Actor
      BY DEF Has
    <3>2. QED BY <2>3, <3>1, PlayersUnwritten
  <2>5. Holds(Actor)[q] > 0
    BY <1>1, <1>2, <2>1, <2>3, <2>4, HoldsFacts
  <2>6. script[Actor][1] = Read(q)
    BY <2>3, <2>4, <2>5, ServerWithPlayer
  <2>7. QED BY <1>3, <2>3, <2>6, StuckAt, PlayersUnwritten
<1> QED
  BY <1>4, <1>5

-----------------------------------------------------------------------------
(* The deadlock that is left *)

\* A worker of D waits to read a room that the server writes, or for the pieces
\* of a room that another one has begun.
LEMMA WorkersStuck ==
  ASSUME NEW D, Stuck(D), NEW w \in Workers, w \in D
  PROVE  \E r \in Rooms :
            \/ script[w][1] = Read(Room(r)) /\ writer[Room(r)] = Actor /\ Actor \in D
            \/ /\ script[w][1] = Await(Room(r))
               /\ \E v \in D \cap Workers : \E j \in 1 .. Len(script[v]) :
                     script[v][j] \in Ends /\ script[v][j][1] = "done" /\ script[v][j][2] = Room(r)
<1> DEFINE x == script[w][1]
           l == x[2]
<1>1. /\ LocksIInv /\ LockTypes /\ Shapes /\ Live /\ Offered /\ BlockedBy(w, D)
  BY DEF Stuck, Deadlocked, LocksIInv, Jobs, Calls
<1>2. /\ w \in Threads /\ x \in Steps /\ 1 \in 1 .. Len(script[w])
      /\ x[1] \in {"read", "write", "await"}
      /\ x[1] = "read" => l \in Locks /\ x = Read(l) /\ writer[l] \in D
      /\ x[1] = "write" => l \in Locks /\ x = Write(l)
  BY StuckAt
<1>3. x # Read(Clients) /\ \A p \in Playing : x # Read(Player(p)) /\ x # Write(Player(p))
  BY ClientsFree, PlayersFree
<1>4. x[1] = "write" => l \in PlayerLocks
  BY StuckWorker
<1>5. CASE x[1] = "read"
  <2>1. l \in RoomLocks
    BY <1>2, <1>3, <1>5, LockFacts DEF PlayerLocks
  <2>2. PICK r \in Rooms : l = Room(r)
    BY <2>1 DEF RoomLocks
  <2>3. writer[Room(r)] \in D
    BY <1>2, <1>5, <2>2
  <2>4. writer[Room(r)] = Actor
    BY <2>3, RoomsFree
  <2>5. QED BY <1>2, <1>5, <2>2, <2>3, <2>4
<1>6. CASE x[1] = "write"
  BY <1>2, <1>3, <1>4, <1>6 DEF PlayerLocks
<1>7. CASE x[1] = "await"
  <2>1. l \in Groups /\ x = Await(l)
    BY <1>2, <1>7, StepFacts
  <2>2. /\ \A g \in Groups : pieces[g] = {}
        /\ \E v \in D \cap Workers, piece \in open[l] : Contains(script[v], <<"done", l, piece>>)
    BY <1>1, <1>7, <2>1 DEF BlockedBy, Does, Its
  <2>11. PICK v \in D \cap Workers, piece \in open[l] : Contains(script[v], <<"done", l, piece>>)
    BY <2>2
  <2>3. PICK j \in 1 .. Len(script[v]) : script[v][j] = <<"done", l, piece>>
    BY <2>11 DEF Contains
  <2> DEFINE f == <<"done", l, piece>>
  <2>4. piece \in PiecesFor(l)
    BY <1>1, <2>1, <2>3 DEF Offered
  <2>5. f \in Ends /\ f[1] = "done" /\ f[2] = l /\ f[3] = piece
    BY <2>1, <2>4 DEF Ends
  <2>6. l \in RoomLocks \cup PlayerLocks
    <3>1. w # Actor
      BY LocksAssumption
    <3>2. l # OfServer
      <4>1. CASE l = OfServer
        <5>1. script[Actor][1] = Await(OfServer)
          BY <1>1, <2>3, <4>1, ServerAwaits
        <5>2. PICK e \in 1 .. Len(script[w]) :
                 /\ script[w][e] \in Ends
                 /\ \A i \in 1 .. e - 1 : script[w][i] \in StepsOf(script[w][e])
          BY <1>1, <1>2 DEF Shapes, WorkerShape
        <5>3. e # 1 /\ 1 \in 1 .. e - 1
          BY <1>2, <1>7, <5>2, EndFacts
        <5>4. QED BY <1>7, <4>1, <5>2, <5>3, Caller, LockFacts DEF RoomLocks, PlayerLocks
      <4>2. QED BY <4>1
    <3>3. QED BY <2>1, <3>2, LockFacts DEF Groups
  <2>7. l \notin PlayerLocks
    <3> SUFFICES ASSUME l \in PlayerLocks PROVE FALSE
      OBVIOUS
    <3>1. PICK p \in Playing : l = Player(p)
      BY DEF PlayerLocks
    <3>2. \E o \in Playing : piece = <<"look", o>>
      <4>1. l # OfServer /\ l[1] = "player"
        BY <3>1, LockFacts DEF Player
      <4>2. QED BY <2>4, <4>1 DEF PiecesFor
    <3>3. PICK o \in Playing : piece = <<"look", o>>
      BY <3>2
    <3> DEFINE s == script[v]
               y == s[1]
    <3>4. StepsOf(f) = {Read(Player(o)), Read(Clients), Free(Clients), Free(Player(o))}
      BY <2>5, <3>3 DEF StepsOf
    <3>5. /\ s \in Seq(Steps) /\ WorkerShape(s) /\ s[1] \notin Ends
          /\ y # Read(Clients) /\ y # Read(Player(o)) /\ y[1] \in {"read", "write", "await"}
      <4>1. s \in Seq(Steps) /\ WorkerShape(s)
        BY <1>1, <2>3 DEF LockTypes, Shapes, Threads
      <4>2. v \in D
        BY <2>3
      <4>3. QED BY <4>1, <4>2, StuckAt, ClientsFree, PlayersFree
    <3>6. s[j] = f /\ j \in 1 .. Len(s)
      BY <2>3
    <3> HIDE DEF s, f
    <3>7. PICK k \in 1 .. j - 1 : s[k] \in StepsOf(s[j]) /\ (k = 1 \/ s[k][1] = "await")
      BY <2>5, <3>5, <3>6, JobStart
    <3>8. s[k] \in {Read(Player(o)), Read(Clients), Free(Clients), Free(Player(o))}
      BY <3>4, <3>6, <3>7
    <3>9. s[k][1] \in {"read", "free"}
      BY <3>8 DEF Read, Free
    <3>10. k = 1
      BY <3>7, <3>9
    <3>11. y \in {Free(Clients), Free(Player(o))}
      BY <3>5, <3>8, <3>10
    <3>12. y[1] = "free"
      BY <3>11 DEF Free
    <3>13. QED BY <3>5, <3>12
  <2>8. PICK r \in Rooms : l = Room(r)
    BY <2>6, <2>7 DEF RoomLocks
  <2>9. script[v][j] \in Ends /\ script[v][j][1] = "done" /\ script[v][j][2] = Room(r)
    BY <2>3, <2>5, <2>8
  <2>10. QED BY <2>1, <2>3, <2>8, <2>9
<1> QED
  BY <1>2, <1>5, <1>6, <1>7

\* Not all workers of D wait for pieces.
LEMMA ReaderStuck ==
  ASSUME NEW D, Stuck(D), D \cap Workers # {}
  PROVE  \E w \in D \cap Workers, q \in Rooms :
            script[w][1] = Read(Room(q)) /\ writer[Room(q)] = Actor /\ Actor \in D
<1> SUFFICES ASSUME ~\E w \in D \cap Workers, q \in Rooms :
                       script[w][1] = Read(Room(q)) /\ writer[Room(q)] = Actor /\ Actor \in D
             PROVE  FALSE
  OBVIOUS
<1>1. LockTypes /\ Shapes /\ LocksIInv
  BY DEF Stuck, LocksIInv, Jobs
<1>2. PICK f \in [Rooms -> Nat] : Ranked(f)
  BY <1>1 DEF LocksIInv, Ordered
<1>3. ASSUME NEW w \in D \cap Workers
      PROVE  \E r \in Rooms :
                /\ script[w][1] = Await(Room(r))
                /\ \E v \in D \cap Workers : \E j \in 1 .. Len(script[v]) :
                      script[v][j] \in Ends /\ script[v][j][1] = "done" /\ script[v][j][2] = Room(r)
  BY WorkersStuck
<1> DEFINE WaitsAt(w, n) == \E r \in Rooms : script[w][1] = Await(Room(r)) /\ n = f[r]
           S == {n \in Nat : \E w \in D \cap Workers : WaitsAt(w, n)}
<1>4. S \in SUBSET Nat /\ S # {}
  <2>1. PICK w \in D \cap Workers : TRUE
    OBVIOUS
  <2>2. PICK r \in Rooms : script[w][1] = Await(Room(r))
    BY <1>3
  <2>3. f[r] \in S
    BY <2>1, <2>2
  <2>4. QED BY <2>3
<1>5. PICK n \in S : \A m \in S : n <= m
  <2> HIDE DEF S
  <2>1. QED BY <1>4, LeastNatural
<1>6. PICK w \in D \cap Workers, r \in Rooms : script[w][1] = Await(Room(r)) /\ n = f[r]
  <2>1. n \in S
    BY <1>5
  <2>2. QED BY <2>1
<1>7. PICK v \in D \cap Workers : \E j \in 1 .. Len(script[v]) :
         script[v][j] \in Ends /\ script[v][j][1] = "done" /\ script[v][j][2] = Room(r)
  <2>1. PICK o \in Rooms :
            /\ script[w][1] = Await(Room(o))
            /\ \E v \in D \cap Workers : \E j \in 1 .. Len(script[v]) :
                  script[v][j] \in Ends /\ script[v][j][1] = "done" /\ script[v][j][2] = Room(o)
    BY <1>3
  <2>2. Room(o) = Room(r)
    BY <1>6, <2>1 DEF Await
  <2>3. QED BY <2>1, <2>2
<1>21. PICK j \in 1 .. Len(script[v]) :
          script[v][j] \in Ends /\ script[v][j][1] = "done" /\ script[v][j][2] = Room(r)
  BY <1>7
<1>8. PICK q \in Rooms : script[v][1] = Await(Room(q))
  BY <1>3
<1>9. f[q] \in S
  BY <1>2, <1>8
<1> HIDE DEF S
<1>10. n <= f[q]
  BY <1>5, <1>9
<1> DEFINE g == Room(q)
<1>11. script[v][1][1] = "await" /\ script[v][1][2] = g /\ g # OfServer /\ 1 \in 1 .. Len(script[v])
       /\ v \in Threads
  <2>1. g # OfServer
    BY LockFacts
  <2>2. v \in D
    BY <1>7
  <2>3. QED BY <1>8, <2>1, <2>2, StuckAt DEF Await
<1>12. g = Room(q)
  OBVIOUS
<1> HIDE DEF g
<1>13. \E e \in 1 .. Len(script[v]) : EndOfCall(script[v], 1, g, e)
  BY <1>1, <1>11, InCall
<1>14. PICK e \in 1 .. Len(script[v]) : EndOfCall(script[v], 1, g, e)
  BY <1>13
<1>15. script[v][e] = <<"end", q>> /\ \A i \in 1 .. e - 1 : script[v][i] \notin Ends
  BY <1>12, <1>14 DEF EndOfCall
<1>16. e # j
  BY <1>15, <1>21
<1>17. e < j
  <2>1. j \notin 1 .. e - 1
    BY <1>15, <1>21
  <2>2. QED BY <1>14, <1>16, <1>21, <2>1
<1>18. Of(script[v][j], r)
  BY <1>21 DEF Of
<1>19. f[q] < f[r]
  <2>1. v \in Workers /\ j \in 1 .. Len(script[v]) /\ script[v][e] = <<"end", q>>
    BY <1>7, <1>15, <1>21
  <2> HIDE <1>3
  <2>2. QED BY <1>2, <1>14, <1>17, <1>18, <2>1 DEF Ranked
<1>20. f[q] \in Nat /\ f[r] \in Nat
  BY <1>2
<1> QED
  BY <1>6, <1>10, <1>19, <1>20

\* The server waits to write a room that a worker of D reads, with the room before it
\* in its hand, for which a worker of D waits.
LEMMA StuckIsListCycle ==
  ASSUME NEW D, Stuck(D)
  PROVE  ListCycle(D)
<1>1. /\ LockTypes /\ Shapes /\ Once /\ Exclusion /\ RoomsHeld /\ D \subseteq Threads /\ D # {}
      /\ Threads = Workers \cup {Actor}
  BY DEF Stuck, Deadlocked, LocksIInv, Jobs, Guards, Threads
<1>2. Actor \in D
  <2>1. CASE D \cap Workers # {}
    BY <2>1, ReaderStuck
  <2>2. CASE D \cap Workers = {}
    BY <1>1, <2>2
  <2>3. QED BY <2>1, <2>2
<1> DEFINE x == script[Actor][1]
           h == Holds(Actor)
           l == x[2]
<1>3. /\ x \in Steps /\ x[1] \in {"read", "write", "await"} /\ h \in Holding /\ ServerMay(h, x)
      /\ ~Idle(Actor)
      /\ x[1] = "read" => l \in Locks /\ x = Read(l)
      /\ x[1] = "write" => l \in Locks /\ x = Write(l)
                           /\ (writer[l] \in D \ {Actor} \/ \E u \in D : reads[l][u] > 0)
  BY <1>2, StuckAt DEF May
<1>4. x # Read(Clients) /\ x # Write(Clients) /\ (\A r \in Rooms : x # Read(Room(r)))
      /\ \A p \in Playing : x # Read(Player(p)) /\ x # Write(Player(p))
  BY <1>2, ClientsFree, RoomsFree, PlayersFree
<1>5. x[1] # "read"
  BY <1>3, <1>4, LockFacts DEF RoomLocks, PlayerLocks
<1>6. x[1] # "await"
  <2> SUFFICES ASSUME x[1] = "await" PROVE FALSE
    OBVIOUS
  <2>1. BlockedBy(Actor, D)
    BY <1>2 DEF Stuck, Deadlocked
  <2>2. D \cap Workers # {}
    <3>1. Workers \subseteq D \/ \E w \in D \cap Workers : TRUE
      BY <2>1 DEF BlockedBy, Does, Its
    <3>2. QED BY <3>1, LocksAssumption
  <2>3. PICK w \in D \cap Workers, q \in Rooms :
            script[w][1] = Read(Room(q)) /\ writer[Room(q)] = Actor
    BY <2>2, ReaderStuck
  <2>4. Room(q) \in Locks
    BY LockFacts
  <2>5. Write(Room(q))[1] = "write"
    BY DEF Write
  <2>6. Has(Actor, Room(q))
    BY <1>1, <2>3, <2>4, <2>5, HoldsFacts
  <2>7. h[Room(q)] = Writes
    BY <1>1, <2>4, <2>6, HoldsFacts
  <2>8. Shares(h)
    BY <1>3 DEF ServerMay
  <2>9. QED BY <2>4, <2>7, <2>8 DEF Shares
<1>7. x[1] = "write" /\ l \in RoomLocks
  BY <1>3, <1>4, <1>5, <1>6, LockFacts DEF PlayerLocks
<1>8. PICK r \in Rooms : l = Room(r)
  BY <1>7 DEF RoomLocks
<1>9. x = Write(Room(r)) /\ Room(r) \in Locks /\ Room(r) \notin PlayerLocks
  BY <1>3, <1>7, <1>8, LockFacts DEF RoomLocks
<1>10. h[Room(r)] = 0 /\ ~Has(Actor, Room(r)) /\ reads[Room(r)][Actor] = 0
  <2>1. h[Room(r)] = 0
    BY <1>1, <1>3, <1>9, WriteFree DEF May
  <2>2. QED BY <1>1, <1>9, <2>1, HoldsFacts DEF Writes
<1>11. \E u \in D : reads[Room(r)][u] > 0
  <2>1. writer[Room(r)] \notin D \ {Actor}
    BY RoomsFree
  <2>2. QED BY <1>3, <1>7, <1>8, <2>1
<1>12. PICK u \in D : reads[Room(r)][u] > 0
  BY <1>11
<1>13. u \in D \cap Workers
  BY <1>1, <1>10, <1>12
<1>14. PICK w \in D \cap Workers, q \in Rooms :
          script[w][1] = Read(Room(q)) /\ writer[Room(q)] = Actor
  BY <1>13, ReaderStuck
<1>15. q # r
  <2> SUFFICES ASSUME q = r PROVE FALSE
    OBVIOUS
  <2>1. Inside(script[u], r)
    BY <1>12, <1>13, <1>1 DEF RoomsHeld
  <2>2. PICK i \in 1 .. Len(script[u]) : script[u][i] = Free(Room(r))
    BY <2>1 DEF Inside
  <2>3. script[u] \in Seq(Steps) /\ WorkerShape(script[u])
        /\ script[w] \in Seq(Steps) /\ WorkerShape(script[w])
    BY <1>1, <1>13, <1>14 DEF LockTypes, Shapes
  <2>4. i + 1 \in 1 .. Len(script[u]) /\ script[u][i + 1] = <<"end", r>>
    BY <2>2, <2>3, FreeEnds
  <2>5. 1 \in 1 .. Len(script[w]) /\ script[w][1] \notin Ends
    BY <1>14, StuckAt
  <2>6. PICK e \in 1 .. Len(script[w]) :
            /\ script[w][e] \in Ends
            /\ \A j \in 1 .. e - 1 : script[w][j] \in StepsOf(script[w][e]) /\ script[w][j] \notin Ends
    BY <2>3, <2>5, FirstEnd
  <2>7. 1 \in 1 .. e - 1
    BY <2>5, <2>6
  <2>8. script[w][e] = <<"end", r>>
    BY <1>14, <2>6, <2>7, InnerSteps
  <2>9. w = u
    <3>1. script[w][e] \in Ends /\ script[w][e] = script[u][i + 1]
      BY <2>4, <2>6, <2>8
    <3>2. w \in Workers /\ u \in Workers
      BY <1>13, <1>14
    <3>3. QED BY <1>1, <2>4, <2>6, <3>1, <3>2 DEF Once
  <2>10. QED BY <1>14, <2>1, <2>9 DEF Inside
<1>16. Room(q) \in Locks /\ Room(q) # Room(r)
  BY <1>15, LockFacts
<1>17. Has(Actor, Room(q))
  <2>1. script[Actor][1] # Write(Room(q))
    BY <1>9, <1>16 DEF Write
  <2>2. QED BY <1>1, <1>14, <1>16, <2>1, HoldsFacts
<1>18. q = r - 1
  <2>1. h[Room(q)] = Writes
    BY <1>1, <1>16, <1>17, HoldsFacts
  <2>2. h[Room(q)] > 0
    BY <2>1 DEF Writes
  <2>3. QED BY <1>3, <1>9, <2>2 DEF ServerMay
<1>19. r \in Rooms \ {1} /\ Room(r - 1) = Room(q)
  BY <1>18 DEF Rooms
<1>20. Does(Actor, "write") /\ Its(Actor) = Room(r)
  BY <1>3, <1>7, <1>8 DEF Does, Its
<1>21. Does(w, "read") /\ Its(w) = Room(r - 1)
  <2>1. ~Idle(w)
    BY <1>14, StuckAt
  <2>2. QED BY <1>14, <1>19, <2>1 DEF Does, Its, Read
<1>22. u \in Workers \cap D /\ w \in Workers \cap D
  BY <1>13, <1>14
<1>23. Has(Actor, Room(r - 1))
  BY <1>17, <1>19
<1> QED
  BY <1>2, <1>12, <1>19, <1>20, <1>21, <1>22, <1>23 DEF ListCycle

LEMMA InvariantDeadlocks ==
  ASSUME LocksIInv
  PROVE  OnlyTheListDeadlocks
BY StuckIsListCycle DEF Stuck, OnlyTheListDeadlocks

\* For any number of workers, rooms and players: threads that wait for one another for
\* ever are in the one circle that the player list's iter_mut makes, and nothing else
\* in the handlers of the server and the closures of the game loop deadlocks.
THEOREM OneDeadlockIsLeft == LocksSpec => []OnlyTheListDeadlocks
BY LocksInvariance, InvariantDeadlocks, PTL
=============================================================================

------------------------ MODULE SessionTimersProofs ------------------------
(***************************************************************************)
(* SessionTimers, for any timeouts, any share of the positions kept and    *)
(* any set of positions.  The properties need each other: the clocks stay  *)
(* within their types because a session that is late is closed, and how    *)
(* long a client has stood still is bounded by how far the sample is       *)
(* behind (Sampled): as many positions as came since it was taken, each    *)
(* within the timeout of the one before, then the AFK clock.               *)
(***************************************************************************)
EXTENDS SessionTimers, TLAPS

\* The two clocks that messages set tell what they are meant to tell.
ClocksAreRight == hb = unheard /\ hbData = unseen

OpenIsOnTime == open => hb <= Timeout /\ hbData <= Timeout /\ hbAfk <= AfkTimeout

\* How long the client can have stood still while the last position kept is
\* another, is its own and new to the AFK check, and is known to the AFK check.
Sampled ==
    open =>
        /\ data # lastPos =>
              loopIndex >= 1 /\ still <= Timeout * (loopIndex - 1) + hbData
        /\ data = lastPos /\ dataAfk # data => still <= Timeout * (Every - 1)
        /\ data = lastPos /\ dataAfk = data => still <= Timeout * (Every - 1) + 1 + hbAfk

IInv == TypeOK /\ ClocksAreRight /\ OpenIsOnTime /\ Sampled

\* The time that n positions take at most.
LEMMA SpanFacts ==
  /\ Timeout * (Every - 1) \in Nat
  /\ StillBound \in Nat /\ StillBound = Timeout * (Every - 1) + 1 + AfkTimeout
  /\ \A n \in 1 .. Every - 1 :
        /\ Timeout * (n - 1) \in Nat
        /\ Timeout * (n - 1) + Timeout = Timeout * ((n + 1) - 1)
        /\ Timeout * (n - 1) + Timeout <= Timeout * (Every - 1)
<1>1. ASSUME NEW m \in Nat PROVE Timeout * m \in Nat /\ Timeout * m + Timeout = Timeout * (m + 1)
  BY TimersAssumption
<1>2. ASSUME NEW m \in Nat, NEW n \in Nat, m <= n PROVE Timeout * m <= Timeout * n
  <2>1. Timeout * n = Timeout * m + Timeout * (n - m) /\ n - m \in Nat
    BY <1>2, TimersAssumption
  <2>2. Timeout * m \in Nat /\ Timeout * (n - m) \in Nat /\ Timeout * n \in Nat
    BY <1>1, <2>1
  <2> QED BY <2>1, <2>2
<1>3. Every - 1 \in Nat /\ AfkTimeout \in Nat
  BY TimersAssumption
<1>4. Timeout * (Every - 1) \in Nat
  BY <1>1, <1>3
<1>5. ASSUME NEW n \in 1 .. Every - 1
      PROVE  /\ Timeout * (n - 1) \in Nat
             /\ Timeout * (n - 1) + Timeout = Timeout * ((n + 1) - 1)
             /\ Timeout * (n - 1) + Timeout <= Timeout * (Every - 1)
  <2>1. n - 1 \in Nat /\ n \in Nat /\ (n - 1) + 1 = n /\ (n + 1) - 1 = n /\ n <= Every - 1
    BY <1>3
  <2>2. Timeout * (n - 1) \in Nat /\ Timeout * (n - 1) + Timeout = Timeout * n
    BY <1>1, <2>1
  <2>3. Timeout * n <= Timeout * (Every - 1)
    BY <1>2, <1>3, <2>1
  <2> QED BY <2>1, <2>2, <2>3
<1> QED BY <1>3, <1>4, <1>5 DEF StillBound

LEMMA InitIInv == Init => IInv
  BY TimersAssumption, SpanFacts
  DEF Init, IInv, TypeOK, ClocksAreRight, OpenIsOnTime, Sampled, Samples

\* A clock that has run out stays where it is.
LEMMA LaterIs ==
    ASSUME NEW max \in Nat, NEW n \in 0 .. max + 1
    PROVE  Later(n, max) \in 0 .. max + 1 /\ Later(n, max) <= n + 1
  BY DEF Later

\* What an interval does to the clocks that messages set, and to the observers.
LEMMA ElapseFacts ==
    ASSUME TypeOK, ClocksAreRight, Elapse
    PROVE  /\ hb' \in 0 .. Timeout + 1 /\ hbData' \in 0 .. Timeout + 1
           /\ unheard' \in 0 .. Timeout + 1 /\ unseen' \in 0 .. Timeout + 1
           /\ still' \in 0 .. StillBound + 1 /\ still' <= still + 1
           /\ hbData <= Timeout => hbData' = hbData + 1
           /\ data' = data /\ loopIndex' = loopIndex /\ lastPos' = lastPos
           /\ ClocksAreRight'
<1>1. Timeout \in Nat /\ StillBound \in Nat
  BY TimersAssumption, SpanFacts
<1>2. /\ hb \in 0 .. Timeout + 1 /\ hbData \in 0 .. Timeout + 1
      /\ unheard \in 0 .. Timeout + 1 /\ unseen \in 0 .. Timeout + 1
      /\ still \in 0 .. StillBound + 1
  BY DEF TypeOK
<1>3. hbData <= Timeout => Later(hbData, Timeout) = hbData + 1
  BY <1>1, <1>2 DEF Later
<1> QED BY <1>1, <1>2, <1>3, LaterIs DEF Elapse, ClocksAreRight

LEMMA Step == IInv /\ [Next]_vars => IInv'
<1> SUFFICES ASSUME IInv, [Next]_vars PROVE IInv'
  OBVIOUS
<1> USE TimersAssumption DEF IInv
<1>0. /\ TypeOK /\ ClocksAreRight /\ OpenIsOnTime /\ Sampled
      /\ Timeout \in Nat /\ AfkTimeout \in Nat /\ Every \in Nat
  OBVIOUS
<1>1. CASE Pong
  BY <1>1 DEF Pong, TypeOK, ClocksAreRight, OpenIsOnTime, Sampled
<1>2. ASSUME NEW p \in Positions, Mario(p) PROVE IInv'
  <2>1. /\ open /\ open' = open /\ hb' = hb /\ hbAfk' = hbAfk /\ dataAfk' = dataAfk
        /\ hbData' = 0 /\ unseen' = 0 /\ unheard' = unheard /\ lastPos' = p
        /\ still' = IF p = lastPos THEN still ELSE 0
        /\ p \in Samples
    BY <1>2 DEF Mario, Sends, Samples
  <2>2. \/ loopIndex + 1 >= Every /\ data' = p /\ loopIndex' = 0
        \/ loopIndex + 1 < Every /\ data' = data /\ loopIndex' = loopIndex + 1
    BY <1>2, <1>0 DEF Mario, Sample, TypeOK
  <2>3. TypeOK'
    BY <2>1, <2>2, SpanFacts DEF TypeOK
  <2>4. ClocksAreRight' /\ OpenIsOnTime'
    BY <1>0, <2>1 DEF ClocksAreRight, OpenIsOnTime
\* Before the position came, the client had stood still for no longer than the
\* positions it has sent since the sample may take.
  <2>5. /\ data # lastPos => /\ loopIndex \in 1 .. Every - 1
                             /\ still <= Timeout * (loopIndex - 1) + Timeout
        /\ loopIndex \in Nat /\ still \in Nat /\ hbAfk \in Nat
    BY <1>0, <2>1, SpanFacts DEF TypeOK, OpenIsOnTime, Sampled
  <2>6. CASE p # lastPos
    <3>1. still' = 0
      BY <2>1, <2>6
    <3>2. CASE data' = p
      <4>1. 0 <= Timeout * (Every - 1) /\ 0 <= Timeout * (Every - 1) + 1 + hbAfk
        BY <2>5, SpanFacts
      <4> QED BY <2>1, <2>3, <2>4, <3>1, <3>2, <4>1 DEF Sampled
    <3>3. CASE data' # p
      <4>1. loopIndex' = loopIndex + 1 /\ loopIndex' \in 1 .. Every - 1
        BY <1>0, <2>2, <2>5, <3>3
      <4>2. Timeout * (loopIndex' - 1) \in Nat
        BY <4>1, SpanFacts
      <4> QED BY <2>1, <2>3, <2>4, <3>1, <3>3, <4>1, <4>2 DEF Sampled
    <3> QED BY <2>3, <2>4, <3>2, <3>3
  <2>7. CASE p = lastPos
    <3>1. still' = still
      BY <2>1, <2>7
    <3>2. CASE data = lastPos
      <4>1. data' = data
        BY <2>2, <2>7, <3>2
      <4> QED BY <1>0, <2>1, <2>3, <2>4, <2>7, <3>1, <3>2, <4>1 DEF Sampled
    <3>3. CASE data # lastPos /\ data' = p
      <4>1. still <= Timeout * (Every - 1)
        BY <2>5, <3>3, SpanFacts
      <4>2. still <= Timeout * (Every - 1) + 1 + hbAfk
        BY <2>5, <4>1, SpanFacts
      <4> QED BY <2>1, <2>3, <2>4, <3>1, <3>3, <4>1, <4>2 DEF Sampled
    <3>4. CASE data # lastPos /\ data' # p
      <4>1. loopIndex' = loopIndex + 1
        BY <2>2, <3>4
      <4>2. still <= Timeout * (loopIndex' - 1) + 0 /\ loopIndex' >= 1
        BY <2>5, <3>4, <4>1, SpanFacts
      <4> QED BY <2>1, <2>3, <2>4, <3>1, <3>4, <4>2 DEF Sampled
    <3> QED BY <3>2, <3>3, <3>4
  <2> QED BY <2>6, <2>7
<1>3. CASE Close
  BY <1>3 DEF Close, observers, TypeOK, ClocksAreRight, OpenIsOnTime, Sampled
<1>4. CASE TimeOut
  BY <1>4, ElapseFacts DEF TimeOut, TypeOK, OpenIsOnTime, Sampled
<1>5. ASSUME Answers
      PROVE  /\ open /\ Elapse /\ hb' <= Timeout /\ hbData' <= Timeout
             /\ hbData' = hbData + 1
             /\ data # lastPos => loopIndex >= 1 /\ still' <= Timeout * (loopIndex - 1) + hbData'
             /\ data = lastPos /\ dataAfk # data => still' <= Timeout * (Every - 1) + 1
             /\ data = lastPos /\ dataAfk = data => still' <= Timeout * (Every - 1) + 1 + (hbAfk + 1)
  <2>1. open /\ Elapse /\ hb' <= Timeout /\ hbData' <= Timeout
    BY <1>5 DEF Answers
  <2>2. hbData' = hbData + 1 /\ still' <= still + 1 /\ still' \in Nat
    BY <1>0, <2>1, ElapseFacts, SpanFacts DEF OpenIsOnTime
  <2>3. still \in Nat /\ hbData \in Nat /\ hbAfk \in Nat /\ loopIndex \in 0 .. Every - 1
    BY <1>0, SpanFacts DEF TypeOK
  <2>4. CASE data # lastPos
    <3>1. loopIndex \in 1 .. Every - 1 /\ still <= Timeout * (loopIndex - 1) + hbData
      BY <1>0, <2>1, <2>3, <2>4 DEF Sampled
    <3>2. Timeout * (loopIndex - 1) \in Nat
      BY <3>1, SpanFacts
    <3> QED BY <2>1, <2>2, <2>3, <2>4, <3>1, <3>2
  <2>5. CASE data = lastPos
    BY <1>0, <2>1, <2>2, <2>3, <2>5, SpanFacts DEF Sampled
  <2> QED BY <2>4, <2>5
<1>6. CASE BeatMoved
  <2>1. Answers /\ dataAfk # data /\ dataAfk' = data /\ hbAfk' = 0 /\ open' = open
    BY <1>6 DEF BeatMoved
  <2>2. /\ data' = data /\ loopIndex' = loopIndex /\ lastPos' = lastPos
        /\ ClocksAreRight'
    BY <1>0, <1>5, <2>1, ElapseFacts
  <2>3. TypeOK'
    BY <1>0, <1>5, <2>1, ElapseFacts DEF TypeOK
  <2>4. OpenIsOnTime'
    BY <1>0, <1>5, <2>1 DEF OpenIsOnTime
  <2>5. Sampled'
    BY <1>5, <2>1, <2>2, SpanFacts DEF Sampled
  <2> QED BY <2>2, <2>3, <2>4, <2>5
<1>7. CASE BeatSame
  <2>1. /\ Answers /\ dataAfk = data /\ hbAfk' = hbAfk + 1 /\ hbAfk + 1 <= AfkTimeout
        /\ open' = open /\ dataAfk' = dataAfk
    BY <1>7, <1>0 DEF BeatSame, IsOver, TypeOK
  <2>2. /\ data' = data /\ loopIndex' = loopIndex /\ lastPos' = lastPos
        /\ ClocksAreRight'
    BY <1>0, <1>5, <2>1, ElapseFacts
  <2>3. TypeOK'
    BY <1>0, <1>5, <2>1, ElapseFacts DEF TypeOK
  <2>4. OpenIsOnTime'
    BY <1>0, <1>5, <2>1 DEF OpenIsOnTime
  <2>5. Sampled'
    BY <1>5, <2>1, <2>2, SpanFacts DEF Sampled
  <2> QED BY <2>2, <2>3, <2>4, <2>5
<1>8. CASE AfkStop
  <2>1. Answers /\ hbAfk' = hbAfk + 1 /\ open' = FALSE /\ dataAfk' = dataAfk
    BY <1>8 DEF AfkStop
  <2>2. hbAfk <= AfkTimeout
    BY <1>0, <1>5, <2>1 DEF OpenIsOnTime
  <2>3. TypeOK'
    <3>1. hbAfk' \in 0 .. AfkTimeout + 1
      BY <1>0, <2>1, <2>2 DEF TypeOK
    <3>2. Elapse /\ open' \in BOOLEAN /\ dataAfk' = dataAfk
      BY <1>5, <2>1
    <3> QED BY <1>0, <3>1, <3>2, ElapseFacts DEF TypeOK
  <2> QED BY <1>0, <1>5, <2>1, <2>3, ElapseFacts DEF OpenIsOnTime, Sampled
<1>9. CASE UNCHANGED vars
  BY <1>9 DEF vars, observers, TypeOK, ClocksAreRight, OpenIsOnTime, Sampled
<1> QED BY <1>1, <1>2, <1>3, <1>4, <1>6, <1>7, <1>8, <1>9 DEF Next, Tick

\* The inductive invariant of the clocks (session.rs 66-109, 254-276).
THEOREM Invariance == Spec => []IInv
<1> QED BY InitIInv, Step, PTL DEF Spec

\* The clocks of a session (session.rs, hb) stay within their timeouts.
THEOREM TypeCorrect == Spec => []TypeOK
<1>1. IInv => TypeOK
  BY DEF IInv
<1> QED BY <1>1, Invariance, PTL

\* A session that is open after its heartbeat (session.rs 254-276) has lately
\* heard a pong and a position, and one of another place no longer ago than
\* Every - 1 positions and the AFK timeout take.
THEOREM OpenIsHeard == Spec => []OpenIsRecent
<1>1. IInv => OpenIsRecent
  <2> SUFFICES ASSUME IInv, open
               PROVE  unheard <= Timeout /\ unseen <= Timeout /\ still <= StillBound
    BY DEF OpenIsRecent
  <2>1. unheard <= Timeout /\ unseen <= Timeout
    BY DEF IInv, ClocksAreRight, OpenIsOnTime
  <2>2. /\ Timeout \in Nat /\ AfkTimeout \in Nat
        /\ still \in Nat /\ hbData \in Nat /\ hbAfk \in Nat
        /\ hbData <= Timeout /\ hbAfk <= AfkTimeout
        /\ data # lastPos => loopIndex \in 1 .. Every - 1
    BY TimersAssumption, SpanFacts DEF IInv, TypeOK, OpenIsOnTime, Sampled
  <2>3. CASE data # lastPos
    <3>1. /\ loopIndex \in 1 .. Every - 1
          /\ still <= Timeout * (loopIndex - 1) + hbData
      BY <2>2, <2>3 DEF IInv, Sampled
    <3> QED BY <2>1, <2>2, <3>1, SpanFacts
  <2>4. CASE data = lastPos
    <3>1. \/ still <= Timeout * (Every - 1)
          \/ still <= Timeout * (Every - 1) + 1 + hbAfk
      BY <2>4 DEF IInv, Sampled
    <3> QED BY <2>1, <2>2, <3>1, SpanFacts
  <2> QED BY <2>3, <2>4
<1> QED BY <1>1, Invariance, PTL
=============================================================================

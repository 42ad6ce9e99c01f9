---------------------------- MODULE IpBansProofs ----------------------------
(***************************************************************************)
(* IpBans, for every number of checks, every duration and an unbounded     *)
(* clock.  A ban asked for while no check was under way is safe because a  *)
(* check that starts later reads that very ban: it deletes the row only    *)
(* when the ban asked for is over (ReadTheAsked).                          *)
(***************************************************************************)
EXTENDS IpBans, TLAPS

\* What makes QuietBanStands inductive: every check under way read the ban
\* last asked for, and one about to delete has seen it expired.
ReadTheAsked ==
    (quiet /\ asked \in Nat) =>
        \A c \in Checkers :
            /\ step[c] # "idle" => found[c] = asked
            /\ step[c] = "delete" => now > asked

IInv == TypeOK /\ NotLongerThanAsked /\ QuietBanStands /\ ReadTheAsked

LEMMA InitIInv == Init => IInv
  BY BansAssumption
  DEF Init, IInv, TypeOK, Expiries, NotLongerThanAsked, QuietBanStands,
      ReadTheAsked

\* Every step keeps the types.
LEMMA TypeStep == TypeOK /\ [Next]_vars => TypeOK'
<1> SUFFICES ASSUME TypeOK, [Next]_vars PROVE TypeOK'
  OBVIOUS
<1> USE BansAssumption DEF TypeOK, Expiries
<1>1. ASSUME NEW e \in Expiries, Ban(e) PROVE TypeOK'
  BY <1>1 DEF Ban, Upserted
<1>2. CASE PostBan
  <2>1. ASSUME NEW d \in Durations, Ban(now + d) PROVE TypeOK'
    <3>1. now + d \in Expiries
      OBVIOUS
    <3>2. QED BY <3>1, <2>1, <1>1
  <2>2. CASE Ban(Forever)
    BY <2>2, <1>1
  <2>3. QED BY <1>2, <2>1, <2>2 DEF PostBan
<1>3. ASSUME NEW c \in Checkers, Select(c) PROVE TypeOK'
  BY <1>3 DEF Select
<1>4. ASSUME NEW c \in Checkers, Judge(c) PROVE TypeOK'
  BY <1>4 DEF Judge, Expired
<1>5. ASSUME NEW c \in Checkers, Delete(c) PROVE TypeOK'
  BY <1>5 DEF Delete
<1>6. CASE Tick
  BY <1>6 DEF Tick
<1>7. CASE UNCHANGED vars
  BY <1>7 DEF vars
<1>8. QED BY <1>2, <1>3, <1>4, <1>5, <1>6, <1>7 DEF Next

\* Every step keeps the three facts about the ban last asked for.
LEMMA AskedStep ==
    IInv /\ [Next]_vars => NotLongerThanAsked' /\ QuietBanStands' /\ ReadTheAsked'
<1> SUFFICES ASSUME IInv, [Next]_vars
             PROVE  NotLongerThanAsked' /\ QuietBanStands' /\ ReadTheAsked'
  OBVIOUS
<1> USE BansAssumption
    DEF IInv, TypeOK, Expiries, NotLongerThanAsked, QuietBanStands, ReadTheAsked
<1>1. CASE PostBan
  \* A new ban: it is the row, unless it is a permanent one, and no check under
  \* way is one that began after it.
  <2>1. ASSUME NEW d \in Durations, Ban(now + d)
        PROVE  NotLongerThanAsked' /\ QuietBanStands' /\ ReadTheAsked'
    <3>1. now + d \in Nat /\ now + d # Forever
      OBVIOUS
    <3>2. row' = now + d
      BY <3>1, <2>1 DEF Ban, Upserted
    <3>3. QED BY <3>1, <3>2, <2>1 DEF Ban
  <2>2. CASE Ban(Forever)
    BY <2>2 DEF Ban
  <2>3. QED BY <1>1, <2>1, <2>2 DEF PostBan
<1>2. ASSUME NEW c \in Checkers, Select(c)
      PROVE  NotLongerThanAsked' /\ QuietBanStands' /\ ReadTheAsked'
  BY <1>2 DEF Select
<1>3. ASSUME NEW c \in Checkers, Judge(c)
      PROVE  NotLongerThanAsked' /\ QuietBanStands' /\ ReadTheAsked'
  BY <1>3 DEF Judge, Expired
<1>4. ASSUME NEW c \in Checkers, Delete(c)
      PROVE  NotLongerThanAsked' /\ QuietBanStands' /\ ReadTheAsked'
  BY <1>4 DEF Delete
<1>5. CASE Tick
  BY <1>5 DEF Tick
<1>6. CASE UNCHANGED vars
  BY <1>6 DEF vars
<1>7. QED BY <1>1, <1>2, <1>3, <1>4, <1>5, <1>6 DEF Next

\* The inductive invariant holds of the table, the clock and the checks in
\* every behaviour of ban_ip and is_ip_banned.
THEOREM Invariance == Spec => []IInv
<1>1. IInv /\ [Next]_vars => IInv'
  BY TypeStep, AskedStep DEF IInv
<1>2. QED BY InitIInv, <1>1, PTL DEF Spec

\* The table and the checks keep their types.
THEOREM TypeCorrect == Spec => []TypeOK
<1>1. IInv => TypeOK
  BY DEF IInv
<1>2. QED BY Invariance, <1>1, PTL

\* A temporary ban is never outlasted by the ban it replaced (ban_ip).
THEOREM NeverLongerThanAsked == Spec => []NotLongerThanAsked
<1>1. IInv => NotLongerThanAsked
  BY DEF IInv
<1>2. QED BY Invariance, <1>1, PTL

\* A temporary ban asked for while no is_ip_banned was under way stands to its
\* last moment, against any number of later checks.
THEOREM QuietBansStand == Spec => []QuietBanStands
<1>1. IInv => QuietBanStands
  BY DEF IInv
<1>2. QED BY Invariance, <1>1, PTL
=============================================================================

-------------------------- MODULE PenaltiesProofs --------------------------
(***************************************************************************)
(* Penalties, for any number of moderators, checks and chat messages.      *)
(*                                                                         *)
(* While a lone write is under way nobody else inserts, so what it has     *)
(* loaded covers the table until it has emptied it (LoneSees).  After it,  *)
(* the others delete by id, and an id they have loaded is either older     *)
(* than the new record's or that record's alone (LastIsAlone): then the    *)
(* check keeps it, or deletes it when it is over.                          *)
(***************************************************************************)
EXTENDS Penalties, TLAPS

\* Ids are given out in order.
IdsAreOld ==
    /\ \A r \in rows : r.id < nextId
    /\ \A p \in Actors : \A r \in seen[p] : r.id < nextId

\* What a call knows at each statement.
CallsAreOrdered ==
    \A p \in Actors :
        /\ pc[p] \in {"idle", "chat"} => want[p] = Nothing
        /\ pc[p] \in {"replace", "insert"} => want[p] # Nothing
        /\ pc[p] \in {"idle", "chat", "load", "insert"} => seen[p] = {}
        /\ pc[p] \in {"expire", "replace"} => seen[p] = {keep[p]}
        /\ pc[p] = "expire" => Expired(keep[p].until)

\* A lone write is alone.
LoneIsAlone ==
    \A p \in Actors : lone[p] =>
        /\ Writing(p)
        /\ \A q \in Actors : q # p => ~Writing(q)

\* A lone write has loaded all there is, until it has deleted it.
LoneSees ==
    \A p \in Actors : lone[p] =>
        /\ pc[p] \in {"tidy", "expire", "replace"} => rows \subseteq seen[p]
        /\ pc[p] = "insert" => rows = {}

\* After a lone write: nobody writes, and who has loaded its record has loaded
\* nothing else.
LastIsAlone ==
    last # Nothing =>
        /\ \A p \in Actors : ~Writing(p)
        /\ \A p \in Actors : last \in seen[p] => seen[p] = {last}

IInv ==
    /\ TypeOK /\ IdsAreOld /\ CallsAreOrdered
    /\ LoneIsAlone /\ LoneSees /\ LastIsAlone /\ LoneWriteStands

-----------------------------------------------------------------------------

LEMMA InitIInv == Init => IInv
  BY PenaltiesAssumption
  DEF Init, IInv, TypeOK, IdsAreOld, CallsAreOrdered, LoneIsAlone, LoneSees,
      LastIsAlone, LoneWriteStands, Expiries, Statements, Writing

\* Every step keeps the types; a call that inserts has something to insert.
LEMMA TypeStep == TypeOK /\ CallsAreOrdered /\ [Next]_vars => TypeOK'
<1> SUFFICES ASSUME TypeOK, CallsAreOrdered, [Next]_vars PROVE TypeOK'
  OBVIOUS
<1> USE PenaltiesAssumption DEF TypeOK, Statements
<1>1. ASSUME NEW p \in Actors, NEW e \in Expiries, StartWrite(p, e),
             pc[p] \in {"idle", "chat"}
      PROVE  TypeOK'
  BY <1>1 DEF StartWrite
<1>2. ASSUME NEW p \in Actors, PostPenalty(p) PROVE TypeOK'
  <2>1. \A d \in Durations : now + d \in Expiries
    BY DEF Expiries
  <2>2. Forever \in Expiries
    BY DEF Expiries
  <2>3. QED BY <1>1, <1>2, <2>1, <2>2 DEF PostPenalty
<1>3. ASSUME NEW p \in Actors, StartCheck(p) PROVE TypeOK'
  BY <1>3 DEF StartCheck
<1>4. ASSUME NEW p \in Actors, ChatPasses(p) PROVE TypeOK'
  BY <1>4 DEF ChatPasses
<1>5. ASSUME NEW p \in Actors, AutoMute(p) PROVE TypeOK'
  <2>1. now + AutoTime \in Expiries
    BY DEF Expiries
  <2>2. QED BY <1>1, <1>5, <2>1 DEF AutoMute
<1>6. ASSUME NEW p \in Actors, Load(p) PROVE TypeOK'
  BY <1>6 DEF Load, WhenFree, Strongest
<1>7. ASSUME NEW p \in Actors, LoadFails(p) PROVE TypeOK'
  BY <1>7 DEF LoadFails, WhenFree
<1>8. ASSUME NEW p \in Actors, DeleteOther(p) PROVE TypeOK'
  BY <1>8 DEF DeleteOther
<1>9. ASSUME NEW p \in Actors, Judge(p) PROVE TypeOK'
  BY <1>9 DEF Judge
<1>10. ASSUME NEW p \in Actors, Answer(p) PROVE TypeOK'
  BY <1>10 DEF Answer, Forget
<1>11. ASSUME NEW p \in Actors, DeleteExpired(p) PROVE TypeOK'
  BY <1>11 DEF DeleteExpired, Forget, WhenFree
<1>12. ASSUME NEW p \in Actors, Replace(p) PROVE TypeOK'
  BY <1>12 DEF Replace, Forget
<1>13. ASSUME NEW p \in Actors, Insert(p) PROVE TypeOK'
  <2>1. want[p] # Nothing
    BY <1>13 DEF Insert, CallsAreOrdered
  <2>2. [id |-> nextId, until |-> want[p]] \in Record
    BY <1>13, <2>1 DEF Record
  <2>3. QED BY <1>13, <2>2 DEF Insert
<1>14. ASSUME NEW p \in Actors, Fail(p) PROVE TypeOK'
  BY <1>14 DEF Fail, Forget
<1>15. CASE Tick
  BY <1>15 DEF Tick
<1>16. CASE UNCHANGED vars
  BY <1>16 DEF vars
<1>17. QED BY <1>2, <1>3, <1>4, <1>5, <1>6, <1>7, <1>8, <1>9, <1>10, <1>11,
             <1>12, <1>13, <1>14, <1>15, <1>16 DEF Next, Call, Statement

-----------------------------------------------------------------------------

\* What a step must keep, beside the types.
Rest ==
    /\ IdsAreOld /\ CallsAreOrdered
    /\ LoneIsAlone /\ LoneSees /\ LastIsAlone /\ LoneWriteStands

\* A write begins: nobody else's is lone from now on.
LEMMA StartWriteStep ==
  ASSUME IInv, NEW p \in Actors, NEW e \in Expiries, StartWrite(p, e),
         pc[p] \in {"idle", "chat"}
  PROVE  Rest'
<1> USE PenaltiesAssumption DEF IInv, TypeOK, StartWrite
<1>1. IdsAreOld'
  BY DEF IdsAreOld
<1>2. CallsAreOrdered'
  BY DEF CallsAreOrdered, Expired
<1>3. LoneIsAlone'
  BY DEF LoneIsAlone, Writing
<1>4. LoneSees'
  BY DEF LoneSees
<1>5. LastIsAlone' /\ LoneWriteStands'
  BY DEF LastIsAlone, LoneWriteStands
<1>6. QED BY <1>1, <1>2, <1>3, <1>4, <1>5 DEF Rest

\* The steps that neither write a record nor begin a write, but for the
\* statements that delete.
LEMMA QuietStep ==
  ASSUME IInv, NEW p \in Actors,
         StartCheck(p) \/ ChatPasses(p) \/ LoadFails(p) \/ Judge(p)
           \/ Answer(p) \/ Fail(p)
  PROVE  Rest'
<1> USE PenaltiesAssumption DEF IInv, TypeOK, StartCheck, ChatPasses, LoadFails,
        Judge, Answer, Fail, Forget, WhenFree
<1>1. IdsAreOld'
  BY DEF IdsAreOld
<1>2. CallsAreOrdered'
  BY DEF CallsAreOrdered, Expired, Statements
<1>3. \A q \in Actors : Writing(q)' => Writing(q)
  BY DEF Writing, CallsAreOrdered
<1>4. LoneIsAlone'
  BY <1>3 DEF LoneIsAlone, Writing, CallsAreOrdered
<1>5. LoneSees'
  BY DEF LoneSees, LoneIsAlone, CallsAreOrdered, Writing
<1>6. LastIsAlone' /\ LoneWriteStands'
  BY <1>3 DEF LastIsAlone, LoneWriteStands, Expired
<1>7. QED BY <1>1, <1>2, <1>4, <1>5, <1>6 DEF Rest

\* What is loaded is what there is.
LEMMA LoadStep ==
  ASSUME IInv, NEW p \in Actors, Load(p)
  PROVE  Rest'
<1> USE PenaltiesAssumption DEF IInv, TypeOK, Load, WhenFree
<1>1. IdsAreOld'
  BY DEF IdsAreOld
<1>2. CallsAreOrdered'
  BY DEF CallsAreOrdered, Expired
<1>3. \A q \in Actors : Writing(q)' <=> Writing(q)
  BY DEF Writing, CallsAreOrdered
<1>4. LoneIsAlone'
  BY <1>3 DEF LoneIsAlone
<1>5. LoneSees'
  BY DEF LoneSees
<1>6. LastIsAlone' /\ LoneWriteStands'
  BY <1>3 DEF LastIsAlone, LoneWriteStands, Expired
<1>7. QED BY <1>1, <1>2, <1>4, <1>5, <1>6 DEF Rest

\* Clean-up spares the strongest, which is the last lone write's if that was
\* loaded.
LEMMA DeleteOtherStep ==
  ASSUME IInv, NEW p \in Actors, DeleteOther(p)
  PROVE  Rest'
<1> USE PenaltiesAssumption DEF IInv, TypeOK, DeleteOther
<1>1. IdsAreOld'
  BY DEF IdsAreOld
<1>2. CallsAreOrdered'
  BY DEF CallsAreOrdered, Expired
<1>3. \A q \in Actors : Writing(q)' <=> Writing(q)
  BY DEF Writing
<1>4. LoneIsAlone'
  BY <1>3 DEF LoneIsAlone
<1>5. LoneSees'
  BY DEF LoneSees
<1>6. LastIsAlone'
  BY <1>3 DEF LastIsAlone
<1>7. LoneWriteStands'
  BY DEF LastIsAlone, LoneWriteStands, Expired
<1>8. QED BY <1>1, <1>2, <1>4, <1>5, <1>6, <1>7 DEF Rest

\* The last lone write's record is deleted by a check only when it is over, and
\* by a writer never: that one would be writing.
LEMMA DeleteKeptStep ==
  ASSUME IInv, NEW p \in Actors, DeleteExpired(p) \/ Replace(p)
  PROVE  Rest'
<1> USE PenaltiesAssumption
    DEF IInv, TypeOK, DeleteExpired, Replace, Forget, WhenFree
<1>1. IdsAreOld'
  BY DEF IdsAreOld
<1>2. CallsAreOrdered'
  BY DEF CallsAreOrdered, Expired
<1>3. \A q \in Actors : Writing(q)' <=> Writing(q)
  BY DEF Writing, CallsAreOrdered
<1>4. LoneIsAlone'
  BY <1>3 DEF LoneIsAlone
<1>5. LoneSees'
  BY DEF LoneSees, CallsAreOrdered
<1>6. LastIsAlone'
  BY <1>3 DEF LastIsAlone
<1>7. LoneWriteStands'
  BY DEF LastIsAlone, LoneWriteStands, CallsAreOrdered, Expired, Writing
<1>8. QED BY <1>1, <1>2, <1>4, <1>5, <1>6, <1>7 DEF Rest

\* A lone write's record is the only one, and new to all who have loaded.
LEMMA InsertStep ==
  ASSUME IInv, NEW p \in Actors, Insert(p)
  PROVE  Rest'
<1> USE PenaltiesAssumption DEF IInv, TypeOK, Insert
<1> DEFINE new == [id |-> nextId, until |-> want[p]]
<1>1. new.id = nextId /\ nextId' = nextId + 1 /\ nextId \in Nat
  OBVIOUS
<1>2. \A r \in Record : r.id \in Nat
  BY DEF Record
<1>3. IdsAreOld'
  BY <1>1, <1>2 DEF IdsAreOld
<1>4. CallsAreOrdered'
  BY DEF CallsAreOrdered, Expired
<1>5. (Writing(p) /\ last = Nothing) \/ lone[p]
  BY DEF Writing, CallsAreOrdered, LastIsAlone
<1>6. \A q \in Actors : Writing(q)' => Writing(q) /\ q # p
  BY DEF Writing
<1>7. LoneIsAlone'
  BY <1>6 DEF LoneIsAlone, Writing
<1>8. LoneSees'
  BY DEF LoneSees, LoneIsAlone, Writing, CallsAreOrdered
<1>9. CASE lone[p]
  <2>1. rows' = {new} /\ last' = new
    BY <1>9 DEF LoneSees
  <2>2. \A q \in Actors : ~Writing(q)'
    BY <1>6, <1>9 DEF LoneIsAlone
  <2>3. \A q \in Actors : new \notin seen'[q]
    BY <1>1 DEF IdsAreOld
  <2>4. QED
    BY <1>3, <1>4, <1>7, <1>8, <2>1, <2>2, <2>3
    DEF Rest, LastIsAlone, LoneWriteStands
<1>10. CASE ~lone[p]
  BY <1>3, <1>4, <1>5, <1>7, <1>8, <1>10 DEF Rest, LastIsAlone, LoneWriteStands
<1>11. QED BY <1>9, <1>10

\* Time passes: what is over stays over.
LEMMA TickStep == ASSUME IInv, Tick PROVE Rest'
<1> USE PenaltiesAssumption DEF IInv, TypeOK, Tick
<1>1. \A e \in Expiries : Expired(e) => Expired(e)'
  BY DEF Expired, Expiries
<1>2. \A r \in Record : r.until \in Expiries
  BY DEF Record
<1>3. CallsAreOrdered'
  BY <1>1, <1>2 DEF CallsAreOrdered
<1>4. LoneWriteStands'
  BY <1>1, <1>2 DEF LoneWriteStands
<1>5. IdsAreOld' /\ LoneIsAlone' /\ LoneSees' /\ LastIsAlone'
  BY DEF IdsAreOld, LoneIsAlone, LoneSees, LastIsAlone, Writing
<1>6. QED BY <1>3, <1>4, <1>5 DEF Rest

LEMMA RestStep == IInv /\ [Next]_vars => Rest'
<1> SUFFICES ASSUME IInv, [Next]_vars PROVE Rest'
  OBVIOUS
<1>1. ASSUME NEW p \in Actors, PostPenalty(p) PROVE Rest'
  <2>1. \A d \in Durations : now + d \in Expiries
    BY PenaltiesAssumption DEF IInv, TypeOK, Expiries
  <2>2. Forever \in Expiries
    BY DEF Expiries
  <2>3. QED BY <1>1, <2>1, <2>2, StartWriteStep DEF PostPenalty
<1>2. ASSUME NEW p \in Actors, AutoMute(p) PROVE Rest'
  <2>1. now + AutoTime \in Expiries
    BY PenaltiesAssumption DEF IInv, TypeOK, Expiries
  <2>2. QED BY <1>2, <2>1, StartWriteStep DEF AutoMute
<1>3. CASE UNCHANGED vars
  BY <1>3 DEF vars, IInv, Rest, IdsAreOld, CallsAreOrdered, LoneIsAlone, LoneSees,
              LastIsAlone, LoneWriteStands, Writing, Expired
<1>4. QED
  BY <1>1, <1>2, <1>3, QuietStep, LoadStep, DeleteOtherStep, DeleteKeptStep,
     InsertStep, TickStep
  DEF Next, Call, Statement

\* The inductive invariant holds in every interleaving of the statements of
\* ban_account, mute_account and the two checks.
THEOREM Invariance == Spec => []IInv
<1>1. IInv /\ [Next]_vars => IInv'
  BY TypeStep, RestStep DEF IInv, Rest
<1>2. QED BY InitIInv, <1>1, PTL DEF Spec

\* The table, the calls and what they have loaded keep their types.
THEOREM TypeCorrect == Spec => []TypeOK
<1>1. IInv => TypeOK
  BY DEF IInv
<1>2. QED BY Invariance, <1>1, PTL

\* A ban or mute written while no other was being written is the account's only
\* record until the next write, and stays to its last moment.
THEOREM LoneWritesStand == Spec => []LoneWriteStands
<1>1. IInv => LoneWriteStands
  BY DEF IInv
<1>2. QED BY Invariance, <1>1, PTL
=============================================================================

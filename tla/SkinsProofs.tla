---------------------------- MODULE SkinsProofs ----------------------------
(***************************************************************************)
(* Skins, for any number of players and painters and mailboxes without a   *)
(* limit.  The last word on its way about a skin is the right one because  *)
(* it is so even for players who were never to be told (OnItsWay): an      *)
(* answer that comes with broadcasts before it must not be taken back by   *)
(* them.  Nothing of the time before somebody entered the room is on its   *)
(* way to him, for a session reads all of its mailbox before it asks       *)
(* (ReadBeforeAsking), and the loop that sends keeps the door shut.        *)
(***************************************************************************)
EXTENDS Skins, TLAPS, WellFoundedInduction

Messages == [of : Players, skin : Looks]
Boxes == Seq(Messages)

HeardIn(box, p) == {n \in 1 .. Len(box) : box[n].of = p}
LastIn(box, p) ==
    box[CHOOSE n \in HeardIn(box, p) : \A m \in HeardIn(box, p) : m <= n].skin

InFlight(c, p) == taken[p] # NoSkin /\ (loop = "taking" \/ <<p, c>> \in unsent)

Absent == \A p \in Players \ inRoom : skin[p] = NoSkin
NoReply == \A c \in Players : call[c] # "answered" => reply[c] = NoSkins
ReadBeforeAsking ==
    \A c \in online \ inRoom :
        call[c] \in {"looking", "join", "skins"} => mail[c] = << >>
NotOfOneself == \A c \in Players : c \notin told[c]
OnItsWay ==
    \A c, p \in inRoom :
        /\ skin[p] # NoSkin /\ ~updated[p]
        /\ InFlight(c, p) \/ HeardIn(mail[c], p) # {} \/ p \in told[c]
        => LastWord(c, p) = skin[p]

IInv ==
    /\ TypeOK
    /\ Absent /\ NoReply /\ ReadBeforeAsking /\ NotOfOneself /\ OnItsWay

-----------------------------------------------------------------------------
(* Mailboxes. *)

\* A set of positions has a last one.
LEMMA GreatestPosition ==
    ASSUME NEW k \in Nat, NEW S \in SUBSET (1 .. k), S # {}
    PROVE  \E n \in S : \A m \in S : m <= n
<1> DEFINE Less == OpToRel(<, Nat)
<1> DEFINE T == {k - n : n \in S}
<1>1. T \subseteq Nat /\ T # {}
  <2>1. \A n \in S : k - n \in Nat
    OBVIOUS
  <2> QED BY <2>1
<1>2. IsWellFoundedOn(Less, Nat)
  BY NatLessThanWellFounded
<1>3. \A m, n \in Nat : m < n => <<m, n>> \in Less
  BY DEF OpToRel
<1> HIDE DEF Less
<1>4. PICK t \in T : \A u \in T : <<u, t>> \notin Less
  BY <1>1, <1>2, WFMin
<1>5. \A u \in T : ~(u < t)
  BY <1>1, <1>3, <1>4
<1>6. PICK n \in S : t = k - n
  BY <1>4
<1>7. \A m \in S : m <= n
  <2> TAKE m \in S
  <2>1. k - m \in T
    OBVIOUS
  <2>2. ~(k - m < k - n)
    BY <2>1, <1>5, <1>6
  <2> QED BY <2>2
<1> QED BY <1>6, <1>7

\* The last word in a mailbox about p is the one no later one follows.
LEMMA LastInIs ==
    ASSUME NEW box \in Boxes, NEW p \in Players, NEW n \in HeardIn(box, p),
           \A m \in HeardIn(box, p) : m <= n
    PROVE  LastIn(box, p) = box[n].skin
<1>1. HeardIn(box, p) \subseteq Nat
  BY DEF HeardIn, Boxes
<1>2. (CHOOSE i \in HeardIn(box, p) : \A m \in HeardIn(box, p) : m <= i) = n
  BY <1>1
<1> QED BY <1>2 DEF LastIn

\* A message that arrives is the last word about its player, and changes
\* nothing about the others.
LEMMA Arrives ==
    ASSUME NEW box \in Boxes, NEW msg \in Messages, NEW p \in Players
    PROVE  /\ msg.of = p => /\ HeardIn(Append(box, msg), p) # {}
                            /\ LastIn(Append(box, msg), p) = msg.skin
           /\ msg.of # p => /\ HeardIn(Append(box, msg), p) = HeardIn(box, p)
                            /\ HeardIn(box, p) # {} =>
                                  LastIn(Append(box, msg), p) = LastIn(box, p)
<1> DEFINE longer == Append(box, msg)
<1>1. /\ longer \in Boxes /\ Len(longer) = Len(box) + 1 /\ Len(box) \in Nat
      /\ longer[Len(box) + 1] = msg
      /\ \A n \in 1 .. Len(box) : longer[n] = box[n]
  BY DEF Boxes
<1> HIDE DEF longer
<1>2. CASE msg.of = p
  <2>1. Len(box) + 1 \in HeardIn(longer, p)
    BY <1>1, <1>2 DEF HeardIn
  <2>2. \A m \in HeardIn(longer, p) : m <= Len(box) + 1
    BY <1>1 DEF HeardIn
  <2>3. LastIn(longer, p) = msg.skin
    BY <1>1, <2>1, <2>2, LastInIs
  <2> QED BY <2>1, <2>3, <1>2 DEF longer
<1>3. CASE msg.of # p
  <2>1. HeardIn(longer, p) = HeardIn(box, p)
    BY <1>1, <1>3 DEF HeardIn
  <2>2. ASSUME HeardIn(box, p) # {}
        PROVE  LastIn(longer, p) = LastIn(box, p)
    <3>1. PICK n \in HeardIn(box, p) : \A m \in HeardIn(box, p) : m <= n
      BY <1>1, <2>2, GreatestPosition DEF HeardIn
    <3>2. LastIn(box, p) = box[n].skin
      BY <3>1, LastInIs
    <3>3. LastIn(longer, p) = longer[n].skin
      BY <1>1, <2>1, <3>1, LastInIs
    <3> QED BY <1>1, <3>2, <3>3 DEF HeardIn
  <2> QED BY <2>1, <2>2, <1>3 DEF longer
<1> QED BY <1>2, <1>3

\* A message that is read was not the last word, or was the only one.
LEMMA IsRead ==
    ASSUME NEW box \in Boxes, box # << >>, NEW p \in Players
    PROVE  /\ HeardIn(Tail(box), p) # {} =>
                  HeardIn(box, p) # {} /\ LastIn(Tail(box), p) = LastIn(box, p)
           /\ HeardIn(Tail(box), p) = {} /\ HeardIn(box, p) # {} =>
                  Head(box).of = p /\ LastIn(box, p) = Head(box).skin
<1> DEFINE rest == Tail(box)
<1>1. /\ rest \in Boxes /\ Len(box) \in Nat \ {0} /\ Len(rest) = Len(box) - 1
      /\ \A n \in 1 .. Len(box) - 1 : rest[n] = box[n + 1]
      /\ Head(box) = box[1]
  BY DEF Boxes
<1> HIDE DEF rest
<1>2. \A n \in HeardIn(rest, p) : n + 1 \in HeardIn(box, p)
  BY <1>1 DEF HeardIn
<1>3. \A n \in HeardIn(box, p) : n # 1 => n - 1 \in HeardIn(rest, p)
  <2> TAKE n \in HeardIn(box, p)
  <2> HAVE n # 1
  <2>1. n \in 2 .. Len(box) /\ box[n].of = p
    BY <1>1 DEF HeardIn
  <2>2. n - 1 \in 1 .. Len(box) - 1 /\ rest[n - 1] = box[n]
    BY <1>1, <2>1
  <2> QED BY <1>1, <2>1, <2>2 DEF HeardIn
<1>4. ASSUME HeardIn(rest, p) # {}
      PROVE  HeardIn(box, p) # {} /\ LastIn(rest, p) = LastIn(box, p)
  <2>1. PICK n \in HeardIn(rest, p) : \A m \in HeardIn(rest, p) : m <= n
    <3>1. Len(rest) \in Nat /\ HeardIn(rest, p) \in SUBSET (1 .. Len(rest))
      BY <1>1 DEF HeardIn
    <3> QED BY <3>1, <1>4, GreatestPosition
  <2>2. n \in Nat \ {0} /\ n + 1 \in HeardIn(box, p)
    BY <1>1, <1>2, <2>1 DEF HeardIn
  <2>3. \A m \in HeardIn(box, p) : m <= n + 1
    <3> TAKE m \in HeardIn(box, p)
    <3>1. m \in Nat
      BY <1>1 DEF HeardIn
    <3>2. m # 1 => m - 1 <= n
      BY <1>3, <2>1
    <3> QED BY <2>2, <3>1, <3>2
  <2>4. LastIn(box, p) = box[n + 1].skin
    BY <2>2, <2>3, LastInIs
  <2>5. LastIn(rest, p) = rest[n].skin
    BY <1>1, <2>1, LastInIs
  <2>6. rest[n] = box[n + 1]
    BY <1>1, <2>1 DEF HeardIn
  <2> QED BY <2>2, <2>4, <2>5, <2>6
<1>5. ASSUME HeardIn(rest, p) = {}, HeardIn(box, p) # {}
      PROVE  Head(box).of = p /\ LastIn(box, p) = Head(box).skin
  <2>1. HeardIn(box, p) = {1}
    BY <1>3, <1>5
  <2>2. LastIn(box, p) = box[1].skin
    <3>1. 1 \in HeardIn(box, p) /\ \A m \in HeardIn(box, p) : m <= 1
      BY <2>1
    <3> QED BY <3>1, LastInIs
  <2> QED BY <1>1, <2>1, <2>2 DEF HeardIn
<1> QED BY <1>4, <1>5 DEF rest

-----------------------------------------------------------------------------
(* Types. *)

LEMMA InitIInv == Init => IInv
<1> SUFFICES ASSUME Init PROVE IInv
  OBVIOUS
<1>1. TypeOK
  <2>1. << >> \in Boxes
    BY DEF Boxes
  <2> QED BY <2>1 DEF Init, TypeOK, Skin, NoSkins, Boxes, Messages
<1>2. Absent /\ NoReply /\ ReadBeforeAsking /\ NotOfOneself /\ OnItsWay
  BY DEF Init, Absent, NoReply, ReadBeforeAsking, NotOfOneself, OnItsWay, NoSkins
<1> QED BY <1>1, <1>2 DEF IInv

\* What the session does keeps the types.
LEMMA SessionTypes ==
    ASSUME TypeOK, NEW c \in Players,
           Look(c) \/ LookAway(c) \/ Ask(c) \/ TakeReply(c) \/ Read(c)
    PROVE  TypeOK'
<1>1. CASE Look(c) \/ LookAway(c) \/ Ask(c)
  BY <1>1 DEF Look, LookAway, Ask, loopVars, TypeOK
<1>2. CASE TakeReply(c)
  BY <1>2 DEF TakeReply, loopVars, TypeOK, Skin, NoSkins
<1>3. CASE Read(c)
  <2>1. mail[c] \in Boxes /\ mail[c] # << >>
    BY <1>3 DEF Read, TypeOK, Boxes, Messages
  <2>2. Head(mail[c]) \in Messages /\ Tail(mail[c]) \in Boxes
    BY <2>1 DEF Boxes
  <2>3. mail' \in [Players -> Boxes]
    BY <1>3, <2>2 DEF Read, TypeOK, Boxes, Messages
  <2>4. seen' \in [Players -> [Players -> Skin]]
    BY <1>3, <2>2 DEF Read, TypeOK, Messages, Skin
  <2> QED BY <1>3, <2>3, <2>4 DEF Read, loopVars, TypeOK, Boxes, Messages
<1> QED BY <1>1, <1>2, <1>3

\* What the server does keeps the types.
LEMMA ServerTypes ==
    ASSUME TypeOK, NEW c \in Players,
           AnswerJoin(c) \/ AnswerSkins(c) \/ Vanish(c) \/ (\E new \in Skin : SetSkin(c, new))
    PROVE  TypeOK'
<1>1. CASE AnswerJoin(c)
  <2>1. inRoom' \subseteq online'
    BY <1>1 DEF AnswerJoin, EnterRoom, Drop, TypeOK
  <2>2. skin' \in [Players -> Skin] /\ updated' \in [Players -> BOOLEAN]
    BY <1>1 DEF AnswerJoin, EnterRoom, Drop, TypeOK, Skin
  <2>3. told' \in [Players -> SUBSET Players]
    BY <1>1 DEF AnswerJoin, EnterRoom, TypeOK
  <2>4. NoSkins \in [Players -> Skin]
    BY DEF NoSkins, Skin
  <2>5. /\ reply' \in [Players -> [Players -> Skin]]
        /\ call' \in [Players -> {"none", "looking", "join", "skins", "answered"}]
    BY <1>1, <2>4 DEF AnswerJoin, Answer, TypeOK
  <2> QED BY <1>1, <2>1, <2>2, <2>3, <2>5 DEF AnswerJoin, loopVars, TypeOK, NoSkins
<1>2. CASE AnswerSkins(c)
  <2>1. skin \in [Players -> Skin] /\ NoSkins \in [Players -> Skin]
    BY DEF TypeOK, NoSkins, Skin
  <2>2. /\ reply' \in [Players -> [Players -> Skin]]
        /\ call' \in [Players -> {"none", "looking", "join", "skins", "answered"}]
    BY <1>2, <2>1 DEF AnswerSkins, Answer, TypeOK
  <2>3. told' \in [Players -> SUBSET Players]
    <3>1. Dressed \ {c} \in SUBSET Players
      BY DEF Dressed, TypeOK
    <3> QED BY <1>2, <3>1 DEF AnswerSkins, TypeOK
  <2> QED BY <1>2, <2>2, <2>3 DEF AnswerSkins, loopVars, TypeOK, NoSkins
<1>3. CASE Vanish(c)
  <2>1. << >> \in Seq([of : Players, skin : Looks])
    OBVIOUS
  <2>2. inRoom' \subseteq online' /\ online' \subseteq Players
    BY <1>3 DEF Vanish, Drop, TypeOK
  <2>3. skin' \in [Players -> Skin] /\ updated' \in [Players -> BOOLEAN]
    BY <1>3 DEF Vanish, Drop, TypeOK, Skin
  <2>4. NoSkins \in [Players -> Skin]
    BY DEF NoSkins, Skin
  <2>5. /\ reply' \in [Players -> [Players -> Skin]]
        /\ seen' \in [Players -> [Players -> Skin]]
    BY <1>3, <2>4 DEF Vanish, TypeOK
  <2>6. /\ call' \in [Players -> {"none", "looking", "join", "skins", "answered"}]
        /\ mail' \in [Players -> Seq([of : Players, skin : Looks])]
        /\ told' \in [Players -> SUBSET Players]
    BY <1>3, <2>1 DEF Vanish, TypeOK
  <2> QED BY <1>3, <2>2, <2>3, <2>5, <2>6 DEF Vanish, loopVars, TypeOK, NoSkins
<1>4. ASSUME NEW new \in Skin, SetSkin(c, new) PROVE TypeOK'
  <2>1. told' \in [Players -> SUBSET Players]
    <3>1. \A d \in Players :
             told[d] \cup (IF d \in inRoom \ {c} THEN {c} ELSE {}) \in SUBSET Players
      BY DEF TypeOK
    <3> QED BY <1>4, <3>1 DEF SetSkin
  <2>2. skin' \in [Players -> Skin] /\ updated' \in [Players -> BOOLEAN]
    BY <1>4 DEF SetSkin, TypeOK
  <2> QED BY <1>4, <2>1, <2>2 DEF SetSkin, loopVars, sessionVars, TypeOK, NoSkins
<1> QED BY <1>1, <1>2, <1>3, <1>4

\* What the game loop does keeps the types.
LEMMA LoopTypes ==
    ASSUME TypeOK, LoopStep
    PROVE  TypeOK'
<1>1. CASE StartSkins
  BY <1>1 DEF StartSkins, sessionVars, TypeOK
<1>2. CASE Collect
  BY <1>2 DEF Collect, sessionVars, TypeOK
<1>3. CASE Finish
  BY <1>3 DEF Finish, sessionVars, TypeOK, NoSkins, Skin
<1>4. ASSUME NEW p \in Players, Visit(p) PROVE TypeOK'
  BY <1>4 DEF Visit, sessionVars, TypeOK
<1>5. ASSUME NEW p \in Players, NEW c \in Players, Send(p, c) PROVE TypeOK'
  <2>1. taken[p] \in Looks
    BY <1>5 DEF Send, TypeOK, Skin
  <2> DEFINE msg == [of |-> p, skin |-> taken[p]]
  <2>2. mail[c] \in Boxes /\ msg \in Messages
    BY <2>1 DEF TypeOK, Boxes, Messages
  <2>3. Append(mail[c], msg) \in Boxes
    BY <2>2 DEF Boxes
  <2>4. mail' \in [Players -> Boxes]
    BY <1>5, <2>3 DEF Send, TypeOK, Boxes, Messages
  <2> QED BY <1>5, <2>4 DEF Send, TypeOK, Boxes, Messages
<1> QED BY <1>1, <1>2, <1>3, <1>4, <1>5 DEF LoopStep

-----------------------------------------------------------------------------
(* The invariant, actor by actor. *)

\* The last word in the terms of this module.
LEMMA LastWordIs ==
    ASSUME NEW c, NEW p
    PROVE  LastWord(c, p) = IF InFlight(c, p) THEN taken[p]
                            ELSE IF HeardIn(mail[c], p) # {} THEN LastIn(mail[c], p)
                            ELSE IF reply[c][p] # NoSkin THEN reply[c][p]
                            ELSE seen[c][p]
  BY DEF LastWord, InFlight, HeardIn, LastIn

\* The last word on a way that no step touches.
LEMMA SameWord ==
    ASSUME NEW c, NEW p, IInv, c \in inRoom, p \in inRoom,
           skin'[p] # NoSkin /\ ~updated'[p],
           skin'[p] = skin[p] /\ updated'[p] = updated[p],
           InFlight(c, p)' <=> InFlight(c, p), taken'[p] = taken[p],
           mail'[c] = mail[c], reply'[c][p] = reply[c][p], seen'[c][p] = seen[c][p],
           InFlight(c, p)' \/ HeardIn(mail[c], p)' # {} \/ p \in told'[c],
           p \in told'[c] => p \in told[c]
    PROVE  LastWord(c, p)' = skin'[p]
<1>1. LastWord(c, p)' = LastWord(c, p)
  BY DEF LastWord, InFlight
<1>2. LastWord(c, p) = skin[p]
  BY DEF IInv, OnItsWay, HeardIn
<1> QED BY <1>1, <1>2

\* The four facts beside OnItsWay.
Manners == Absent /\ NoReply /\ ReadBeforeAsking /\ NotOfOneself

LEMMA SessionManners ==
    ASSUME IInv, NEW c \in Players,
           Look(c) \/ LookAway(c) \/ Ask(c) \/ TakeReply(c) \/ Read(c)
    PROVE  Manners'
<1> USE DEF Manners, IInv, TypeOK, Absent, NoReply, ReadBeforeAsking, NotOfOneself
<1>1. CASE Look(c) \/ LookAway(c) \/ Ask(c)
  BY <1>1 DEF Look, LookAway, Ask
<1>2. CASE TakeReply(c)
  BY <1>2 DEF TakeReply, NoSkins
<1>3. CASE Read(c)
  BY <1>3 DEF Read
<1> QED BY <1>1, <1>2, <1>3

LEMMA ServerManners ==
    ASSUME IInv, NEW c \in Players,
           AnswerJoin(c) \/ AnswerSkins(c) \/ Vanish(c) \/ (\E new \in Skin : SetSkin(c, new))
    PROVE  Manners'
<1> USE DEF Manners, IInv, TypeOK, Absent, NoReply, ReadBeforeAsking, NotOfOneself
<1>1. CASE AnswerJoin(c)
  BY <1>1 DEF AnswerJoin, EnterRoom, Drop, Answer, NoSkins
<1>2. CASE AnswerSkins(c)
  <2>1. /\ online' = online /\ inRoom' = inRoom /\ skin' = skin /\ mail' = mail
        /\ call' = [call EXCEPT ![c] = "answered"]
        /\ \A d \in Players \ {c} : reply'[d] = reply[d] /\ told'[d] = told[d]
        /\ told'[c] \in {Dressed \ {c}, told[c]}
    BY <1>2 DEF AnswerSkins, Answer
  <2>2. NoReply'
    BY <2>1 DEF NoSkins
  <2>3. NotOfOneself'
    BY <2>1
  <2>4. Absent' /\ ReadBeforeAsking'
    BY <2>1
  <2> QED BY <2>2, <2>3, <2>4
<1>3. CASE Vanish(c)
  BY <1>3 DEF Vanish, Drop, NoSkins
<1>4. ASSUME NEW new \in Skin, SetSkin(c, new) PROVE Manners'
  BY <1>4 DEF SetSkin, sessionVars
<1> QED BY <1>1, <1>2, <1>3, <1>4

LEMMA LoopManners ==
    ASSUME IInv, LoopStep
    PROVE  Manners'
<1> USE DEF Manners, IInv, TypeOK, Absent, NoReply, ReadBeforeAsking, NotOfOneself
<1>1. CASE StartSkins \/ Collect \/ Finish
  BY <1>1 DEF StartSkins, Collect, Finish, sessionVars, NoSkins
<1>2. ASSUME NEW p \in Players, Visit(p) PROVE Manners'
  BY <1>2 DEF Visit, sessionVars, NoSkins
<1>3. ASSUME NEW p \in Players, NEW c \in Players, Send(p, c) PROVE Manners'
  BY <1>3 DEF Send, NoSkins
<1> QED BY <1>1, <1>2, <1>3 DEF LoopStep

\* What a session reads moves from its mailbox, or from the answer, to its
\* client: the last word stays.
LEMMA SessionKeepsWord ==
    ASSUME IInv, NEW c \in Players,
           Look(c) \/ LookAway(c) \/ Ask(c) \/ TakeReply(c) \/ Read(c)
    PROVE  OnItsWay'
<1> SUFFICES ASSUME NEW d \in inRoom', NEW p \in inRoom',
                    skin'[p] # NoSkin /\ ~updated'[p],
                    InFlight(d, p)' \/ HeardIn(mail[d], p)' # {} \/ p \in told'[d]
             PROVE  LastWord(d, p)' = skin'[p]
  BY DEF OnItsWay
<1>1. /\ inRoom' = inRoom /\ skin' = skin /\ updated' = updated /\ told' = told
      /\ taken' = taken /\ loop' = loop /\ unsent' = unsent
  BY DEF Look, LookAway, Ask, TakeReply, Read, loopVars
<1>2. InFlight(d, p)' <=> InFlight(d, p)
  BY <1>1 DEF InFlight
<1>3. d \in Players /\ p \in Players
  BY <1>1 DEF IInv, TypeOK
<1>4. CASE Look(c) \/ LookAway(c) \/ Ask(c)
  BY <1>1, <1>2, <1>4, SameWord DEF Look, LookAway, Ask
<1>5. CASE d # c
  <2>1. mail'[d] = mail[d] /\ reply'[d][p] = reply[d][p] /\ seen'[d][p] = seen[d][p]
    BY <1>3, <1>5 DEF Look, LookAway, Ask, TakeReply, Read, IInv, TypeOK
  <2> QED BY <1>1, <1>2, <2>1, SameWord
<1>6. CASE TakeReply(c) /\ d = c
  <2>1. mail' = mail
    BY <1>6 DEF TakeReply
  <2>2. (InFlight(d, p) \/ HeardIn(mail[d], p) # {} \/ p \in told[d])
    BY <1>1, <1>2, <2>1 DEF HeardIn
  <2>3. LastWord(d, p) = skin[p]
    BY <1>1, <2>2 DEF IInv, OnItsWay
  <2>4. reply'[c][p] = NoSkin
    BY <1>3, <1>6 DEF TakeReply, IInv, TypeOK, NoSkins
  <2>5. CASE InFlight(d, p) \/ HeardIn(mail[d], p) # {}
    BY <1>1, <1>2, <2>1, <2>3, <2>5, LastWordIs
      DEF LastWord, InFlight, HeardIn, LastIn
  <2>6. CASE ~InFlight(d, p) /\ HeardIn(mail[d], p) = {}
    <3>1. p # c
      BY <1>3, <1>6, <2>2, <2>6 DEF IInv, NotOfOneself
    <3>2. seen'[c][p] = IF reply[c][p] # NoSkin THEN reply[c][p] ELSE seen[c][p]
      BY <1>3, <1>6, <3>1 DEF TakeReply, IInv, TypeOK
    <3>3. LastWord(d, p)' = seen'[c][p]
      BY <1>2, <1>6, <2>1, <2>4, <2>6 DEF LastWord, InFlight, HeardIn
    <3> QED BY <1>1, <1>6, <2>3, <2>6, <3>2, <3>3, LastWordIs
  <2> QED BY <2>5, <2>6
<1>7. CASE Read(c) /\ d = c
  <2>1. /\ mail[c] \in Boxes /\ mail[c] # << >> /\ mail'[c] = Tail(mail[c])
        /\ reply' = reply /\ call[c] = "none"
    BY <1>7 DEF Read, IInv, TypeOK, Boxes, Messages
  <2>2. reply[c][p] = NoSkin
    BY <1>3, <2>1 DEF IInv, NoReply, NoSkins
  <2>3. InFlight(d, p) \/ HeardIn(mail[d], p) # {} \/ p \in told[d]
    BY <1>1, <1>2, <1>3, <1>7, <2>1, IsRead DEF HeardIn
  <2>4. LastWord(d, p) = skin[p]
    BY <1>1, <2>3 DEF IInv, OnItsWay
  <2>5. HeardIn(mail[d], p)' = HeardIn(Tail(mail[c]), p)
    BY <1>7, <2>1 DEF HeardIn
  <2>6. CASE InFlight(d, p)
    BY <1>1, <1>2, <2>4, <2>6, LastWordIs DEF LastWord, InFlight
  <2>7. CASE ~InFlight(d, p) /\ HeardIn(Tail(mail[c]), p) # {}
    <3>1. LastWord(d, p)' = LastIn(Tail(mail[c]), p)
      BY <1>2, <1>7, <2>1, <2>7 DEF LastWord, InFlight, HeardIn, LastIn
    <3>2. LastWord(d, p) = LastIn(mail[c], p)
      BY <1>3, <1>7, <2>1, <2>7, IsRead, LastWordIs
    <3>3. LastIn(Tail(mail[c]), p) = LastIn(mail[c], p)
      BY <1>3, <2>1, <2>7, IsRead
    <3> QED BY <1>1, <2>4, <3>1, <3>2, <3>3
  <2>8. CASE ~InFlight(d, p) /\ HeardIn(Tail(mail[c]), p) = {}
    <3>1. p # c
      BY <1>1, <1>2, <1>3, <1>7, <2>5, <2>8 DEF IInv, NotOfOneself
    <3>2. LastWord(d, p)' = seen'[c][p]
      BY <1>2, <1>7, <2>1, <2>2, <2>5, <2>8 DEF LastWord, InFlight, HeardIn
    <3>3. CASE HeardIn(mail[c], p) = {}
      <4>1. Head(mail[c]).of # p
        BY <2>1, <3>3 DEF HeardIn, Boxes
      <4>2. seen'[c][p] = seen[c][p]
        BY <1>3, <1>7, <4>1 DEF Read, IInv, TypeOK
      <4> QED BY <1>1, <1>7, <2>2, <2>4, <2>8, <3>2, <3>3, <4>2, LastWordIs
    <3>4. CASE HeardIn(mail[c], p) # {}
      <4>1. Head(mail[c]).of = p /\ LastIn(mail[c], p) = Head(mail[c]).skin
        BY <1>3, <2>1, <2>8, <3>4, IsRead
      <4>2. seen'[c][p] = Head(mail[c]).skin
        BY <1>3, <1>7, <3>1, <4>1 DEF Read, IInv, TypeOK
      <4> QED BY <1>1, <1>7, <2>4, <2>8, <3>2, <3>4, <4>1, <4>2, LastWordIs
    <3> QED BY <3>3, <3>4
  <2> QED BY <2>6, <2>7, <2>8
<1> QED BY <1>4, <1>5, <1>6, <1>7

\* The server gives all skins away, sets marks, lets in those who have read all
\* their mail and lets go.
LEMMA ServerKeepsWord ==
    ASSUME IInv, NEW c \in Players,
           AnswerJoin(c) \/ AnswerSkins(c) \/ Vanish(c) \/ (\E new \in Skin : SetSkin(c, new))
    PROVE  OnItsWay'
<1> SUFFICES ASSUME NEW d \in inRoom', NEW p \in inRoom',
                    skin'[p] # NoSkin /\ ~updated'[p],
                    InFlight(d, p)' \/ HeardIn(mail[d], p)' # {} \/ p \in told'[d]
             PROVE  LastWord(d, p)' = skin'[p]
  BY DEF OnItsWay
<1>1. taken' = taken /\ loop' = loop /\ unsent' = unsent
  BY DEF AnswerJoin, AnswerSkins, Vanish, SetSkin, loopVars
<1>2. InFlight(d, p)' <=> InFlight(d, p)
  BY <1>1 DEF InFlight
<1>3. d \in Players /\ p \in Players /\ c \in Players
  <2>1. TypeOK'
    BY ServerTypes DEF IInv
  <2> QED BY <2>1 DEF TypeOK
<1>4. ASSUME NEW new \in Skin, SetSkin(c, new)
      PROVE  LastWord(d, p)' = skin'[p]
  <2>1. p # c
    BY <1>3, <1>4 DEF SetSkin, IInv, TypeOK
  <2>2. /\ inRoom' = inRoom /\ skin'[p] = skin[p] /\ updated'[p] = updated[p]
        /\ mail' = mail /\ reply' = reply /\ seen' = seen
        /\ p \in told'[d] => p \in told[d]
    BY <1>3, <1>4, <2>1 DEF SetSkin, sessionVars, IInv, TypeOK
  <2> QED BY <1>1, <1>2, <2>2, SameWord
<1>5. CASE Vanish(c)
  <2>1. p # c /\ d # c
    BY <1>5 DEF Vanish, Drop
  <2>2. /\ d \in inRoom /\ p \in inRoom
        /\ skin'[p] = skin[p] /\ updated'[p] = updated[p]
        /\ mail'[d] = mail[d] /\ reply'[d] = reply[d] /\ seen'[d] = seen[d]
        /\ told'[d] = told[d]
    BY <1>3, <1>5, <2>1 DEF Vanish, Drop, IInv, TypeOK
  <2> QED BY <1>1, <1>2, <2>2, SameWord
<1>6. CASE AnswerJoin(c)
  <2>1. /\ reply[c] = NoSkins /\ reply' = reply
    BY <1>6 DEF AnswerJoin, Answer, IInv, TypeOK, NoReply
  <2>2. mail' = mail /\ seen' = seen
    BY <1>6 DEF AnswerJoin
  <2>3. CASE EnterRoom(c)
    <3>1. p # c
      BY <1>3, <2>3 DEF EnterRoom, IInv, Absent
    <3>2. d # c
      <4>1. mail[c] = << >>
        BY <1>6, <2>3 DEF AnswerJoin, EnterRoom, IInv, ReadBeforeAsking
      <4>2. ~InFlight(c, p)
        BY <1>3, <2>3 DEF EnterRoom, InFlight, IInv, TypeOK, NoSkins
      <4>3. told'[c] = {}
        BY <1>3, <2>3 DEF EnterRoom, IInv, TypeOK
      <4> QED BY <1>2, <2>2, <4>1, <4>2, <4>3 DEF HeardIn
    <3>3. /\ d \in inRoom /\ p \in inRoom
          /\ skin' = skin /\ updated' = updated /\ told'[d] = told[d]
      BY <1>3, <2>3, <3>1, <3>2 DEF EnterRoom, IInv, TypeOK
    <3> QED BY <1>1, <1>2, <2>1, <2>2, <3>3, SameWord
  <2>4. CASE Drop(c) /\ told' = told
    <3>1. p # c /\ d # c
      BY <2>4 DEF Drop
    <3>2. /\ d \in inRoom /\ p \in inRoom
          /\ skin'[p] = skin[p] /\ updated'[p] = updated[p]
      BY <1>3, <2>4, <3>1 DEF Drop, IInv, TypeOK
    <3> QED BY <1>1, <1>2, <2>1, <2>2, <2>4, <3>2, SameWord
  <2>5. CASE UNCHANGED <<inRoom, skin, updated, told>>
    BY <1>1, <1>2, <2>1, <2>2, <2>5, SameWord
  <2> QED BY <1>6, <2>3, <2>4, <2>5 DEF AnswerJoin
<1>7. CASE AnswerSkins(c)
  <2>1. /\ inRoom' = inRoom /\ skin' = skin /\ updated' = updated
        /\ mail' = mail /\ seen' = seen
    BY <1>7 DEF AnswerSkins
  <2>2. CASE d = c
    <3>1. reply'[c] = skin
      BY <1>3, <1>7, <2>1, <2>2 DEF AnswerSkins, Answer, IInv, TypeOK
    <3>2. CASE InFlight(d, p) \/ HeardIn(mail[d], p) # {}
      <4>1. LastWord(d, p) = skin[p]
        BY <2>1, <3>2 DEF IInv, OnItsWay
      <4>2. LastWord(d, p)' = LastWord(d, p)
        BY <1>1, <1>2, <2>1, <3>2 DEF LastWord, InFlight, HeardIn
      <4> QED BY <2>1, <4>1, <4>2
    <3>3. CASE ~InFlight(d, p) /\ HeardIn(mail[d], p) = {}
      <4>1. LastWord(d, p)' = reply'[c][p]
        BY <1>2, <2>1, <2>2, <3>1, <3>3 DEF LastWord, InFlight, HeardIn
      <4> QED BY <2>1, <3>1, <4>1
    <3> QED BY <3>2, <3>3
  <2>3. CASE d # c
    <3>1. reply'[d] = reply[d] /\ told'[d] = told[d]
      BY <1>3, <1>7, <2>3 DEF AnswerSkins, Answer, IInv, TypeOK
    <3> QED BY <1>1, <1>2, <2>1, <3>1, SameWord
  <2> QED BY <2>2, <2>3
<1> QED BY <1>4, <1>5, <1>6, <1>7

\* What the loop takes under a player's lock is the skin itself, and what it
\* sends comes after everything sent before.
LEMMA LoopKeepsWord ==
    ASSUME IInv, LoopStep
    PROVE  OnItsWay'
<1> SUFFICES ASSUME NEW d \in inRoom', NEW q \in inRoom',
                    skin'[q] # NoSkin /\ ~updated'[q],
                    InFlight(d, q)' \/ HeardIn(mail[d], q)' # {} \/ q \in told'[d]
             PROVE  LastWord(d, q)' = skin'[q]
  BY DEF OnItsWay
<1>1. inRoom' = inRoom /\ skin' = skin /\ told' = told /\ reply' = reply /\ seen' = seen
  BY DEF LoopStep, StartSkins, Collect, Finish, Visit, Send, sessionVars
<1>2. d \in Players /\ q \in Players
  BY <1>1 DEF IInv, TypeOK
<1>3. CASE StartSkins \/ Collect \/ Finish
  <2>1. updated' = updated /\ mail' = mail
    BY <1>3 DEF StartSkins, Collect, Finish, sessionVars
  <2>2. InFlight(d, q)' <=> InFlight(d, q)
    BY <1>1, <1>2, <1>3
      DEF StartSkins, Collect, Finish, InFlight, IInv, TypeOK, NoSkins
  <2>3. InFlight(d, q) => taken'[q] = taken[q]
    BY <1>3 DEF StartSkins, Collect, Finish, InFlight
  <2>4. LastWord(d, q) = skin[q]
    BY <1>1, <2>1, <2>2 DEF IInv, OnItsWay, HeardIn
  <2>5. LastWord(d, q)' = LastWord(d, q)
    BY <1>1, <2>1, <2>2, <2>3 DEF LastWord, InFlight, HeardIn
  <2> QED BY <1>1, <2>4, <2>5
<1>4. ASSUME NEW p \in Players, Visit(p)
      PROVE  LastWord(d, q)' = skin'[q]
  <2>1. mail' = mail /\ unsent' = unsent /\ loop' = loop /\ loop = "taking"
    BY <1>4 DEF Visit, sessionVars
  <2>2. CASE p = q /\ updated[p]
    <3>1. taken'[q] = skin[q]
      BY <1>2, <1>4, <2>2 DEF Visit, IInv, TypeOK
    <3> QED BY <1>1, <2>1, <3>1 DEF LastWord
  <2>3. CASE ~(p = q /\ updated[p])
    <3>1. taken'[q] = taken[q] /\ updated'[q] = updated[q]
      BY <1>2, <1>4, <2>3 DEF Visit, IInv, TypeOK
    <3>2. InFlight(d, q)' <=> InFlight(d, q)
      BY <2>1, <3>1 DEF InFlight
    <3> QED BY <1>1, <2>1, <3>1, <3>2, SameWord
  <2> QED BY <2>2, <2>3
<1>5. ASSUME NEW p \in Players, NEW c \in Players, Send(p, c)
      PROVE  LastWord(d, q)' = skin'[q]
  <2> DEFINE msg == [of |-> p, skin |-> taken[p]]
  <2>1. /\ updated' = updated /\ taken' = taken /\ loop' = loop
        /\ <<p, c>> \in unsent /\ unsent' = unsent \ {<<p, c>>}
        /\ taken[p] # NoSkin /\ loop = "sending"
    BY <1>5 DEF Send, IInv, TypeOK
  <2>2. mail[d] \in Boxes /\ msg \in Messages
    BY <1>2, <2>1 DEF IInv, TypeOK, Boxes, Messages, Skin
  <2>3. d = c => mail'[d] = Append(mail[d], msg)
    BY <1>1, <1>2, <1>5 DEF Send, IInv, TypeOK
  <2>4. d # c => mail'[d] = mail[d]
    BY <1>1, <1>2, <1>5 DEF Send, IInv, TypeOK
  <2>5. msg.of = p /\ msg.skin = taken[p]
    OBVIOUS
  <2> HIDE DEF msg
  <2>6. CASE d = c /\ q = p
    <3>1. HeardIn(mail'[d], q) # {} /\ LastIn(mail'[d], q) = taken[p]
      BY <1>2, <2>2, <2>3, <2>6, <2>5, Arrives
    <3>2. ~InFlight(d, q)'
      BY <2>1, <2>6 DEF InFlight
    <3>3. LastWord(d, q)' = taken[p]
      BY <3>1, <3>2 DEF LastWord, InFlight, HeardIn, LastIn
    <3>4. InFlight(d, q)
      BY <2>1, <2>6 DEF InFlight
    <3>5. LastWord(d, q) = taken[p] /\ LastWord(d, q) = skin[q]
      BY <1>1, <2>1, <2>6, <3>4, LastWordIs DEF IInv, OnItsWay
    <3> QED BY <1>1, <3>3, <3>5
  <2>7. CASE d # c \/ q # p
    <3>1. InFlight(d, q)' <=> InFlight(d, q)
      BY <2>1, <2>7 DEF InFlight
    <3>2. /\ HeardIn(mail'[d], q) = HeardIn(mail[d], q)
          /\ HeardIn(mail[d], q) # {} => LastIn(mail'[d], q) = LastIn(mail[d], q)
      <4>1. CASE d = c
        <5>1. msg.of # q
          BY <2>7, <2>5, <4>1
        <5>2. /\ HeardIn(Append(mail[d], msg), q) = HeardIn(mail[d], q)
              /\ HeardIn(mail[d], q) # {} =>
                    LastIn(Append(mail[d], msg), q) = LastIn(mail[d], q)
          BY <1>2, <2>2, <5>1, Arrives
        <5> QED BY <2>3, <4>1, <5>2
      <4>2. CASE d # c
        BY <2>4, <4>2
      <4> QED BY <4>1, <4>2
    <3>3. HeardIn(mail[d], q)' = HeardIn(mail'[d], q)
      BY DEF HeardIn
    <3>4. LastWord(d, q) = skin[q]
      BY <1>1, <2>1, <3>1, <3>2, <3>3 DEF IInv, OnItsWay
    <3>5. LastWord(d, q)' = IF InFlight(d, q)' THEN taken'[q]
                            ELSE IF HeardIn(mail'[d], q) # {} THEN LastIn(mail'[d], q)
                            ELSE IF reply'[d][q] # NoSkin THEN reply'[d][q]
                            ELSE seen'[d][q]
      BY DEF LastWord, InFlight, HeardIn, LastIn
    <3>6. LastWord(d, q)' = LastWord(d, q)
      BY <1>1, <2>1, <3>1, <3>2, <3>5, LastWordIs
    <3> QED BY <1>1, <3>4, <3>6
  <2> QED BY <2>6, <2>7
<1> QED BY <1>3, <1>4, <1>5 DEF LoopStep

-----------------------------------------------------------------------------
(* The theorems. *)

LEMMA Step == IInv /\ [Next]_vars => IInv'
<1> SUFFICES ASSUME IInv, [Next]_vars PROVE IInv'
  OBVIOUS
<1> USE DEF IInv, Manners
<1>1. CASE LoopStep
  BY <1>1, LoopTypes, LoopManners, LoopKeepsWord
<1>2. ASSUME NEW c \in Players, ServerStep(c) \/ SessionStep(c) \/ PlayerStep(c)
      PROVE  IInv'
  <2>1. CASE AnswerJoin(c) \/ AnswerSkins(c) \/ Vanish(c) \/ (\E new \in Skin : SetSkin(c, new))
    BY <2>1, ServerTypes, ServerManners, ServerKeepsWord
  <2>2. CASE Look(c) \/ LookAway(c) \/ Ask(c) \/ TakeReply(c) \/ Read(c)
    BY <2>2, SessionTypes, SessionManners, SessionKeepsWord
  <2> QED BY <1>2, <2>1, <2>2 DEF ServerStep, SessionStep, PlayerStep
<1>3. CASE UNCHANGED vars
  <2>1. TypeOK'
    BY <1>3 DEF vars, loopVars, sessionVars, TypeOK, NoSkins
  <2>2. Manners'
    BY <1>3 DEF vars, loopVars, sessionVars, Absent, NoReply, ReadBeforeAsking,
                NotOfOneself, NoSkins
  <2>3. OnItsWay'
    <3>1. \A c, p : LastWord(c, p)' = LastWord(c, p) /\ (InFlight(c, p)' <=> InFlight(c, p))
      BY <1>3 DEF vars, loopVars, sessionVars, InFlight, LastWord
    <3> QED BY <1>3, <3>1 DEF vars, loopVars, sessionVars, OnItsWay, HeardIn
  <2> QED BY <2>1, <2>2, <2>3
<1> QED BY <1>1, <1>2, <1>3 DEF Next

\* The inductive invariant of the skins (client.rs 196-207, room.rs 160-214,
\* server.rs 220-283, 420-434), for any number of players.
THEOREM Invariance == Spec => []IInv
<1> QED BY InitIInv, Step, PTL DEF Spec

\* Skins, answers and mailboxes keep their types, and what the loop has taken is
\* forgotten when it is sent.
THEOREM TypeCorrect == Spec => []TypeOK
<1>1. IInv => TypeOK
  BY DEF IInv
<1> QED BY <1>1, Invariance, PTL

\* The last word on its way to a player about another's skin is that skin, unless
\* it is marked to be sent again: broadcasts of the loop and answers of the
\* server that overtake each other leave nobody with an old skin.
THEOREM LastWordsAreRight == Spec => []LastWordIsTheSkin
<1>1. IInv => LastWordIsTheSkin
  <2> SUFFICES ASSUME IInv, NEW c \in inRoom, NEW p \in inRoom \cap told[c],
                      skin[p] # NoSkin /\ ~updated[p]
               PROVE  LastWord(c, p) = skin[p]
    BY DEF LastWordIsTheSkin
  <2> QED BY DEF IInv, OnItsWay
<1> QED BY <1>1, Invariance, PTL
=============================================================================

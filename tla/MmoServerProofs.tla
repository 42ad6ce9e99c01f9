-------------------------- MODULE MmoServerProofs --------------------------
(***************************************************************************)
(* Theorems of MmoServer, for every set of connections, rooms and flags,   *)
(* and of Moderation, which composes the calls of post_ban with it.        *)
(***************************************************************************)
EXTENDS Moderation, MmoServerInv, SequenceTheorems, WellFoundedInduction, TLAPS

LEMMA TailFacts ==
    ASSUME NEW S, NEW q \in Seq(S), q # << >>
    PROVE  /\ Len(q) \in Nat \ {0}
           /\ Head(q) = q[1]
           /\ Head(q) \in S
           /\ q[Len(q)] \in S
           /\ Tail(q) \in Seq(S)
           /\ Len(Tail(q)) = Len(q) - 1
           /\ \A n \in 1 .. Len(Tail(q)) : Tail(q)[n] = q[n + 1]
           /\ Tail(q) = << >> <=> Len(q) = 1
<1>1. /\ Len(q) \in Nat \ {0}
      /\ Head(q) = q[1]
      /\ Tail(q) \in Seq(S)
      /\ Len(Tail(q)) = Len(q) - 1
      /\ \A n \in 1 .. Len(Tail(q)) : Tail(q)[n] = q[n + 1]
  BY HeadTailProperties, EmptySeq, LenProperties
<1>2. q[1] \in S /\ q[Len(q)] \in S
  BY <1>1, ElementOfSeq
<1>3. Tail(q) = << >> <=> Len(q) = 1
  BY <1>1, EmptySeq
<1> QED
  BY <1>1, <1>2, <1>3

LEMMA AppendFacts ==
    ASSUME NEW S, NEW q \in Seq(S), NEW e \in S
    PROVE  /\ Append(q, e) \in Seq(S)
           /\ Append(q, e) # << >>
           /\ Len(q) \in Nat
           /\ Len(Append(q, e)) = Len(q) + 1
           /\ Append(q, e)[Len(q) + 1] = e
           /\ \A n \in 1 .. Len(q) : Append(q, e)[n] = q[n]
  BY AppendProperties, LenProperties

-----------------------------------------------------------------------------
(* Types *)

LEMMA InitType == Init => TypeOK
  BY ConstantsAssumption DEF Init, TypeOK, Stages

LEMMA MailType ==
    ASSUME TypeOK, NEW s \in Sessions
    PROVE  /\ mailbox[s] \in Seq(Message)
           /\ mailbox[s] # << >> =>
                /\ Head(mailbox[s]) \in Message
                /\ Tail(mailbox[s]) \in Seq(Message)
           /\ \A m \in Message :
                [mailbox EXCEPT ![s] = Append(@, m)] \in [Sessions -> Seq(Message)]
<1>1. mailbox[s] \in Seq(Message)
  BY DEF TypeOK
<1>2. \A m \in Message : Append(mailbox[s], m) \in Seq(Message)
  BY <1>1, AppendFacts
<1>3. \A m \in Message :
          [mailbox EXCEPT ![s] = Append(@, m)] \in [Sessions -> Seq(Message)]
  BY <1>2 DEF TypeOK
<1> QED
  BY <1>1, <1>3, TailFacts

\* The shapes of message the handlers read.
LEMMA MessageFields ==
    ASSUME NEW m \in Message
    PROVE  /\ m.type \in {"connect", "disconnect", "data", "join", "grab", "attack"}
           /\ m.type # "connect" => m.id \in SocketIds \cup {NoId}
           /\ m.type = "join" => m.level \in Rooms
           /\ m.type \in {"grab", "attack"} => m.flag \in Flags
           /\ m.type = "attack" => m.target \in SocketIds
  BY DEF Message

LEMMA ReceiveType ==
    ASSUME TypeOK, NEW s \in Sessions, NEW type, Receives(s, type)
    PROVE  /\ Head(mailbox[s]) \in Message
           /\ mailbox' \in [Sessions -> Seq(Message)]
  BY MailType DEF Receives, TypeOK

LEMMA PlayerStepType ==
    ASSUME TypeOK, NEW s \in Sessions, PlayerStep(s)
    PROVE  TypeOK'
<1> USE DEF TypeOK, gameVars, sessionVars, Stages
<1>1. CASE Start(s)
  <2>1. [type |-> "connect"] \in Message
    BY DEF Message
  <2> QED BY <1>1, <2>1, MailType DEF Start
<1>2. CASE Close(s)
  <2>1. [type |-> "disconnect", id |-> sid[s]] \in Message
    BY DEF Message
  <2> QED BY <1>2, <2>1, MailType DEF Close, Leave
<1>3. CASE SendData(s)
  <2>1. [type |-> "data", id |-> sid[s]] \in Message
    BY DEF Message
  <2> QED BY <1>3, <2>1, MailType DEF SendData, Forward
<1>4. CASE SendGrab(s)
  <2>1. \A f \in Flags : [type |-> "grab", id |-> sid[s], flag |-> f] \in Message
    BY DEF Message
  <2> QED BY <1>4, <2>1, MailType DEF SendGrab, Forward
<1>5. CASE SendAttack(s)
  <2>1. \A f \in Flags, t \in SocketIds :
          [type |-> "attack", id |-> sid[s], flag |-> f, target |-> t] \in Message
    BY DEF Message
  <2> QED BY <1>5, <2>1, MailType DEF SendAttack, Forward
<1>6. CASE SendJoin(s)
  <2>1. \A r \in Rooms : [type |-> "join", id |-> sid[s], level |-> r] \in Message
    BY DEF Message
  <2> QED BY <1>6, <2>1, MailType DEF SendJoin
<1> QED
  BY <1>1, <1>2, <1>3, <1>4, <1>5, <1>6 DEF PlayerStep

LEMMA SessionStepType ==
    ASSUME TypeOK, NEW s \in Sessions, SessionStep(s)
    PROVE  TypeOK'
<1> USE DEF TypeOK, gameVars, sessionVars, Stages
<1>1. CASE TakeId(s)
  BY <1>1 DEF TakeId
<1>2. CASE TakeReply(s)
  BY <1>2 DEF TakeReply
<1>3. CASE HandleKick(s)
  <2>1. [type |-> "disconnect", id |-> sid[s]] \in Message
    BY DEF Message
  <2> QED BY <1>3, <2>1, MailType DEF HandleKick, Leave
<1>4. CASE DropActor(s)
  BY <1>4 DEF DropActor
<1> QED
  BY <1>1, <1>2, <1>3, <1>4 DEF SessionStep

\* Removing an id, or replacing an entry, keeps a table a table.
LEMMA ReleaseType ==
    ASSUME TypeOK, NEW id
    PROVE  Release(id) \in [Rooms -> SUBSET SocketIds]
  BY DEF TypeOK, Release

LEMMA ClientUpdate ==
    ASSUME TypeOK, NEW id \in SocketIds, clients[id] # None
    PROVE  /\ clients[id] \in Client
           /\ [clients[id] EXCEPT !.placed = TRUE] \in Client
           /\ \A r \in Rooms : [clients[id] EXCEPT !.level = r] \in Client
           /\ [clients EXCEPT ![id].placed = TRUE] \in [SocketIds -> Client \cup {None}]
           /\ \A r \in Rooms :
                 [clients EXCEPT ![id].level = r] \in [SocketIds -> Client \cup {None}]
<1>1. clients[id] \in Client
  BY DEF TypeOK
<1>2. /\ [clients[id] EXCEPT !.placed = TRUE] \in Client
      /\ \A r \in Rooms : [clients[id] EXCEPT !.level = r] \in Client
  BY <1>1 DEF Client
<1> DEFINE p == [clients[id] EXCEPT !.placed = TRUE]
           l(r) == [clients[id] EXCEPT !.level = r]
<1>3. [clients EXCEPT ![id] = p] \in [SocketIds -> Client \cup {None}]
  <2> HIDE DEF p
  <2> QED BY <1>2 DEF TypeOK, p
<1> QED
  BY <1>1, <1>2, <1>3

LEMMA KickOwnerType ==
    ASSUME TypeOK, NEW id \in SocketIds, clients[id] # None, KickOwner(id)
    PROVE  kick' \in [Sessions -> BOOLEAN]
<1>1. clients[id].owner \in Sessions
  BY DEF TypeOK, Client
<1> QED
  BY <1>1 DEF TypeOK, KickOwner, Reachable

LEMMA ServerStepType ==
    ASSUME TypeOK, NEW s \in Sessions, ServerStep(s)
    PROVE  TypeOK'
<1> USE DEF gameVars, sessionVars
<1>1. CASE SkipRequest(s)
  BY <1>1, ReceiveType DEF SkipRequest, TypeOK
<1>2. CASE HandleConnect(s)
  <2>1. mailbox' \in [Sessions -> Seq(Message)]
    BY <1>2, ReceiveType DEF HandleConnect
  <2>2. kick' \in [Sessions -> BOOLEAN]
    BY <1>2, KickOwnerType DEF HandleConnect, ClientsOfAccount, TypeOK
  <2>3. PICK id \in Draw[s] :
          /\ clients' = [clients EXCEPT ![id] =
                           [owner |-> s, level |-> None, placed |-> FALSE]]
          /\ reply' = [reply EXCEPT ![s] = id]
    BY <1>2 DEF HandleConnect, NewClient
  <2>4. id \in SocketIds
    BY ConstantsAssumption
  <2>5. [owner |-> s, level |-> None, placed |-> FALSE] \in Client
    BY DEF Client
  <2> QED BY <1>2, <2>1, <2>2, <2>3, <2>4, <2>5 DEF HandleConnect, TypeOK
<1>3. CASE HandleDisconnect(s)
  <2>1. mailbox' \in [Sessions -> Seq(Message)]
    BY <1>3, ReceiveType DEF HandleDisconnect
  <2> DEFINE id == Head(mailbox[s]).id
  <2>2. roster' \in [Rooms -> SUBSET SocketIds]
    BY <1>3, ReleaseType DEF HandleDisconnect
  <2>3. holder' \in [Flags -> SocketIds \cup {None}]
    BY <1>3 DEF HandleDisconnect, DropFlagIfHolding, TypeOK
  <2>4. clients' \in [SocketIds -> Client \cup {None}]
    BY <1>3 DEF HandleDisconnect, TypeOK
  <2>5. players' \in [SocketIds -> Rooms \cup {None}]
    BY <1>3 DEF HandleDisconnect, TypeOK
  <2> QED BY <1>3, <2>1, <2>2, <2>3, <2>4, <2>5 DEF HandleDisconnect, TypeOK
<1>4. CASE HandleData(s)
  <2>1. mailbox' \in [Sessions -> Seq(Message)]
    BY <1>4, ReceiveType DEF HandleData
  <2>2. clients' \in [SocketIds -> Client \cup {None}]
    BY <1>4, ClientUpdate DEF HandleData, TypeOK, Present
  <2> QED BY <1>4, <2>1, <2>2 DEF HandleData, TypeOK
<1>5. CASE HandleGrab(s)
  <2>1. mailbox' \in [Sessions -> Seq(Message)]
    BY <1>5, ReceiveType DEF HandleGrab
  <2>2. holder' \in [Flags -> SocketIds \cup {None}]
    BY <1>5 DEF HandleGrab, TypeOK, Present
  <2> QED BY <1>5, <2>1, <2>2 DEF HandleGrab, TypeOK
<1>6. CASE HandleAttack(s)
  <2>1. mailbox' \in [Sessions -> Seq(Message)]
    BY <1>6, ReceiveType DEF HandleAttack
  <2>2. holder' \in [Flags -> SocketIds \cup {None}]
    BY <1>6 DEF HandleAttack, TypeOK
  <2> QED BY <1>6, <2>1, <2>2 DEF HandleAttack, TypeOK
<1>7. CASE HandleJoin(s)
  <2>1. mailbox' \in [Sessions -> Seq(Message)]
    BY <1>7, ReceiveType DEF HandleJoin
  <2>2. Head(mailbox[s]).level \in Rooms
    BY <1>7, ReceiveType, MessageFields DEF HandleJoin, Receives
  <2>3. reply' \in [Sessions -> SocketIds \cup {NoId, None}]
    BY <1>7 DEF HandleJoin, TypeOK
  <2>4. CASE UNCHANGED gameVars
    BY <1>7, <2>1, <2>3, <2>4 DEF HandleJoin, TypeOK
  <2>5. ASSUME NEW id, NEW r \in Rooms, AcceptJoin(id, r)
        PROVE  /\ clients' \in [SocketIds -> Client \cup {None}]
               /\ players' \in [SocketIds -> Rooms \cup {None}]
               /\ roster' \in [Rooms -> SUBSET SocketIds]
               /\ holder' = holder
    <3>1. clients' \in [SocketIds -> Client \cup {None}]
      <4>1. CASE clients[id] # None
        BY <2>5, <4>1, ClientUpdate DEF AcceptJoin, Present
      <4>2. CASE clients[id] = None
        BY <2>5, <4>2 DEF AcceptJoin, Present, TypeOK
      <4> QED BY <4>1, <4>2
    <3>2. players' \in [SocketIds -> Rooms \cup {None}]
      BY <2>5 DEF AcceptJoin, TypeOK
    <3>3. roster' \in [Rooms -> SUBSET SocketIds]
      BY <2>5, ReleaseType DEF AcceptJoin
    <3> QED BY <2>5, <3>1, <3>2, <3>3 DEF AcceptJoin
  <2> QED BY <1>7, <2>1, <2>2, <2>3, <2>4, <2>5 DEF HandleJoin, TypeOK
<1> QED
  BY <1>1, <1>2, <1>3, <1>4, <1>5, <1>6, <1>7 DEF ServerStep

\* Both kicks choose among clients of the table.
LEMMA KickedAreClients ==
    ASSUME KickClientByAccountId \/ KickClientByIpAddr
    PROVE  \E found \in SUBSET SocketIds :
              KickOne(found) /\ \A id \in found : clients[id] # None
<1>1. CASE KickClientByAccountId
  <2>1. PICK a \in KickAccounts : KickOne(ClientsOfAccount(a))
    BY <1>1 DEF KickClientByAccountId
  <2>2. /\ ClientsOfAccount(a) \in SUBSET SocketIds
        /\ \A id \in ClientsOfAccount(a) : clients[id] # None
    BY DEF ClientsOfAccount
  <2> QED BY <2>1, <2>2
<1>2. CASE KickClientByIpAddr
  <2>1. PICK ip \in KickIps : KickOne(ClientsOfIp(ip))
    BY <1>2 DEF KickClientByIpAddr
  <2>2. /\ ClientsOfIp(ip) \in SUBSET SocketIds
        /\ \A id \in ClientsOfIp(ip) : clients[id] # None
    BY DEF ClientsOfIp
  <2> QED BY <2>1, <2>2
<1> QED BY <1>1, <1>2

LEMMA KickOneType ==
    ASSUME TypeOK, KickClientByAccountId \/ KickClientByIpAddr
    PROVE  TypeOK'
<1>1. PICK found \in SUBSET SocketIds :
        KickOne(found) /\ \A id \in found : clients[id] # None
  BY KickedAreClients
<1>2. PICK id \in found :
          /\ KickOwner(id)
          /\ clients' = [clients EXCEPT ![id] = None]
          /\ players' = [players EXCEPT ![id] = None]
          /\ roster' = Release(id)
  BY <1>1 DEF KickOne
<1>3. kick' \in [Sessions -> BOOLEAN]
  BY <1>1, <1>2, KickOwnerType
<1>4. roster' \in [Rooms -> SUBSET SocketIds]
  BY <1>2, ReleaseType
<1> QED
  BY <1>1, <1>2, <1>3, <1>4 DEF KickOne, TypeOK

\* Every table and queue holds what its type says, in every reachable state.
THEOREM TypeCorrect == Spec => []TypeOK
<1>1. TypeOK /\ [Next]_vars => TypeOK'
  <2> SUFFICES ASSUME TypeOK, [Next]_vars PROVE TypeOK'
    OBVIOUS
  <2>1. CASE UNCHANGED vars
    BY <2>1 DEF vars, TypeOK
  <2>2. ASSUME NEW s \in Sessions, ServerStep(s) \/ SessionStep(s) \/ PlayerStep(s)
        PROVE  TypeOK'
    BY <2>2, ServerStepType, SessionStepType, PlayerStepType
  <2>3. CASE KickClientByAccountId \/ KickClientByIpAddr
    BY <2>3, KickOneType
  <2> QED BY <2>1, <2>2, <2>3 DEF Next
<1> QED
  BY <1>1, InitType, PTL DEF Spec

-----------------------------------------------------------------------------
(* What the invariant says of the message a handler reads *)

LEMMA HeadFacts ==
    ASSUME IInv, NEW s \in Sessions, mailbox[s] # << >>
    PROVE  LET m == Head(mailbox[s]) IN
           /\ m \in Message
           /\ m.type = "connect" =>
                /\ sid[s] = NoId
                /\ stage[s] \in {"connecting", "stopping", "stopped"}
                /\ \A id \in SocketIds : clients[id] # None => clients[id].owner # s
           /\ m.type # "connect" => m.id = sid[s]
           /\ m.type = "disconnect" => Over(s) /\ Tail(mailbox[s]) = << >>
           /\ m.type \notin {"connect", "disconnect"} =>
                /\ sid[s] \in Draw[s]
                /\ sid[s] \in SocketIds
                /\ sid[s] # NoId
                /\ stage[s] \notin {"new", "connecting"}
           /\ m.type # "disconnect" /\ Over(s) => Tail(mailbox[s]) # << >>
<1> DEFINE m == Head(mailbox[s])
<1>1. /\ mailbox[s] \in Seq(Message)
      /\ Len(mailbox[s]) \in Nat \ {0}
      /\ m = mailbox[s][1]
      /\ m \in Message
      /\ Tail(mailbox[s]) = << >> <=> Len(mailbox[s]) = 1
  BY TailFacts, MailType DEF IInv
<1>2. 1 \in 1 .. Len(mailbox[s])
  BY <1>1
<1>3. /\ m.type = "connect" => sid[s] = NoId
      /\ m.type # "connect" => m.id = sid[s]
      /\ m.type = "disconnect" => Len(mailbox[s]) = 1
      /\ m.type \notin {"connect", "disconnect"} => sid[s] # NoId
  BY <1>1, <1>2 DEF IInv, MailIsOrdered
<1>4. m.type = "connect" =>
         /\ stage[s] \in {"connecting", "stopping", "stopped"}
         /\ \A id \in SocketIds : clients[id] # None => clients[id].owner # s
  BY <1>1, <1>3 DEF IInv, BeforeTheId, ClientsHaveOwners, TypeOK, Stages
<1>5. m.type = "disconnect" => Over(s)
  BY <1>1, <1>3 DEF IInv, DisconnectIsLast
<1>6. m.type # "disconnect" /\ Over(s) => Tail(mailbox[s]) # << >>
  BY <1>1 DEF IInv, DisconnectIsLast
<1>7. sid[s] # NoId => /\ sid[s] \in Draw[s]
                       /\ sid[s] \in SocketIds
                       /\ stage[s] \notin {"new", "connecting"}
  BY ConstantsAssumption DEF IInv, IdsAreDrawn, BeforeTheId
<1> QED
  BY <1>1, <1>3, <1>4, <1>5, <1>6, <1>7

\* The ids of two sessions differ; so do the ids they wait for.
LEMMA IdsDiffer ==
    ASSUME IInv, NEW s \in Sessions, NEW t \in Sessions, s # t,
           NEW id \in Draw[s]
    PROVE  /\ sid[t] # id
           /\ stage[t] = "connecting" => reply[t] # id
           /\ clients[id] # None => clients[id].owner # t
<1>1. id \in SocketIds /\ id # NoId /\ id # None /\ id \notin Draw[t]
  BY ConstantsAssumption, DrawsDisjoint
<1> QED
  BY <1>1 DEF IInv, IdsAreDrawn, ClientsHaveOwners

LEMMA ReceiveMail ==
    ASSUME IInv, NEW s \in Sessions, NEW type, Receives(s, type),
           UNCHANGED <<stage, sid>>
    PROVE  MailIsOrdered' /\ DisconnectIsLast'
<1> DEFINE q == mailbox[s]
<1>1. /\ Len(q) \in Nat \ {0}
      /\ Len(Tail(q)) = Len(q) - 1
      /\ \A n \in 1 .. Len(Tail(q)) : Tail(q)[n] = q[n + 1]
      /\ Tail(q) = << >> <=> Len(q) = 1
  BY TailFacts, MailType DEF IInv, Receives
<1>2. mailbox' = [mailbox EXCEPT ![s] = Tail(q)]
  BY DEF Receives
<1>3. /\ mailbox'[s] = Tail(q)
      /\ \A t \in Sessions : t # s => mailbox'[t] = mailbox[t]
  BY <1>2 DEF IInv, TypeOK
<1>4. MailIsOrdered'
  <2> SUFFICES ASSUME NEW t \in Sessions, NEW n \in 1 .. Len(mailbox'[t])
               PROVE  LET m == mailbox'[t][n] IN
                      /\ m.type = "connect" => n = 1 /\ sid[t] = NoId
                      /\ m.type # "connect" => m.id = sid[t]
                      /\ m.type = "disconnect" => n = Len(mailbox'[t])
                      /\ m.type \notin {"connect", "disconnect"} => sid[t] # NoId
    BY DEF MailIsOrdered
  <2>1. CASE t = s
    <3>a. mailbox'[t] = Tail(q)
      BY <1>3, <2>1
    <3>b. n \in 1 .. Len(Tail(q))
      BY <3>a
    <3>1. n \in Nat /\ n + 1 \in 1 .. Len(q) /\ n + 1 # 1
      <4> HIDE DEF q
      <4> QED BY <1>1, <3>b
    <3>2. mailbox'[t][n] = q[n + 1]
      <4> HIDE DEF q
      <4> QED BY <1>1, <3>a
    <3>3. /\ q[n + 1].type # "connect" /\ q[n + 1].id = sid[s]
          /\ q[n + 1].type = "disconnect" => n + 1 = Len(q)
          /\ q[n + 1].type # "disconnect" => sid[s] # NoId
      BY <3>1 DEF IInv, MailIsOrdered
    <3>4. n + 1 = Len(q) => n = Len(mailbox'[t])
      <4>1. n + 1 = Len(q) => n = Len(Tail(q))
        <5> DEFINE a == Len(q)
                   b == Len(Tail(q))
        <5>1. a \in Nat /\ b = a - 1 /\ n \in Nat
          BY <1>1, <3>1
        <5> HIDE DEF a, b
        <5>2. n + 1 = a => n = b
          BY <5>1
        <5> QED BY <5>2 DEF a, b
      <4> QED BY <4>1, <3>a
    <3> QED BY <2>1, <3>2, <3>3, <3>4
  <2>2. CASE t # s
    BY <1>3, <2>2 DEF IInv, MailIsOrdered
  <2> QED BY <2>1, <2>2
<1>5. DisconnectIsLast'
  <2> SUFFICES ASSUME NEW t \in Sessions, mailbox'[t] # << >>
               PROVE  Over(t) <=> mailbox'[t][Len(mailbox'[t])].type = "disconnect"
    BY DEF DisconnectIsLast, Over
  <2>1. CASE t = s
    <3>0. Tail(q) # << >>
      BY <1>3, <2>1
    <3>1. Len(q) - 1 \in 1 .. Len(Tail(q)) /\ (Len(q) - 1) + 1 = Len(q)
      <4> HIDE DEF q
      <4> QED BY <1>1, <3>0
    <3>2. mailbox'[t][Len(mailbox'[t])] = q[Len(q)]
      BY <1>1, <1>3, <2>1, <3>1
    <3>3. Over(s) <=> q[Len(q)].type = "disconnect"
      BY <1>1, <1>3, <2>1 DEF IInv, DisconnectIsLast, Receives
    <3> QED BY <2>1, <3>2, <3>3
  <2>2. CASE t # s
    BY <1>3, <2>2 DEF IInv, DisconnectIsLast
  <2> QED BY <2>1, <2>2
<1> QED
  BY <1>4, <1>5

\* A session that is not over may append a message that carries its id; the
\* last one, when it ends, is its Disconnect.
LEMMA SendMail ==
    ASSUME IInv, NEW s \in Sessions, NEW m \in Message,
           stage[s] \notin {"new", "stopping", "stopped"},
           m.type # "connect", m.id = sid[s],
           m.type # "disconnect" => sid[s] # NoId,
           mailbox' = [mailbox EXCEPT ![s] = Append(@, m)],
           sid' = sid,
           \A t \in Sessions : t # s => stage'[t] = stage[t],
           stage'[s] \in {"stopping", "stopped"} <=> m.type = "disconnect"
    PROVE  MailIsOrdered' /\ DisconnectIsLast'
<1> DEFINE q == mailbox[s]
<1>1. /\ Append(q, m) # << >>
      /\ Len(q) \in Nat
      /\ Len(Append(q, m)) = Len(q) + 1
      /\ Append(q, m)[Len(q) + 1] = m
      /\ \A n \in 1 .. Len(q) : Append(q, m)[n] = q[n]
  BY AppendFacts, MailType DEF IInv
<1>2. /\ mailbox'[s] = Append(q, m)
      /\ \A t \in Sessions : t # s => mailbox'[t] = mailbox[t]
  BY DEF IInv, TypeOK
<1>3. \A n \in 1 .. Len(q) : q[n].type # "disconnect"
  <2> SUFFICES ASSUME NEW n \in 1 .. Len(q), q[n].type = "disconnect" PROVE FALSE
    OBVIOUS
  <2>1. n = Len(q) /\ q # << >>
    BY <1>1, EmptySeq DEF IInv, MailIsOrdered
  <2> QED BY <2>1 DEF IInv, DisconnectIsLast, Over
<1>4. MailIsOrdered'
  <2> SUFFICES ASSUME NEW t \in Sessions, NEW n \in 1 .. Len(mailbox'[t])
               PROVE  LET k == mailbox'[t][n] IN
                      /\ k.type = "connect" => n = 1 /\ sid[t] = NoId
                      /\ k.type # "connect" => k.id = sid[t]
                      /\ k.type = "disconnect" => n = Len(mailbox'[t])
                      /\ k.type \notin {"connect", "disconnect"} => sid[t] # NoId
    BY DEF MailIsOrdered
  <2>1. CASE t = s /\ n = Len(q) + 1
    BY <1>1, <1>2, <2>1
  <2>2. CASE t = s /\ n # Len(q) + 1
    <3>1. n \in 1 .. Len(q) /\ mailbox'[t][n] = q[n]
      BY <1>1, <1>2, <2>2
    <3> QED BY <1>3, <2>2, <3>1 DEF IInv, MailIsOrdered
  <2>3. CASE t # s
    BY <1>2, <2>3 DEF IInv, MailIsOrdered
  <2> QED BY <2>1, <2>2, <2>3
<1>5. DisconnectIsLast'
  BY <1>1, <1>2 DEF IInv, DisconnectIsLast, Over
<1> QED
  BY <1>4, <1>5

-----------------------------------------------------------------------------
(* The queues *)

LEMMA ServerMail ==
    ASSUME IInv, NEW s \in Sessions, ServerStep(s)
    PROVE  /\ MailIsOrdered' /\ DisconnectIsLast'
           /\ UNCHANGED <<stage, sid>>
           /\ mailbox[s] # << >>
           /\ mailbox' = [mailbox EXCEPT ![s] = Tail(@)]
<1>1. \E type : Receives(s, type) /\ UNCHANGED <<stage, sid>>
  <2>1. CASE SkipRequest(s)
    BY <2>1 DEF SkipRequest, sessionVars
  <2>2. CASE HandleConnect(s)
    BY <2>2 DEF HandleConnect, NewClient
  <2>3. CASE HandleDisconnect(s)
    BY <2>3 DEF HandleDisconnect, sessionVars
  <2>4. CASE HandleData(s)
    BY <2>4 DEF HandleData, sessionVars
  <2>5. CASE HandleGrab(s)
    BY <2>5 DEF HandleGrab, sessionVars
  <2>6. CASE HandleAttack(s)
    BY <2>6 DEF HandleAttack, sessionVars
  <2>7. CASE HandleJoin(s)
    BY <2>7 DEF HandleJoin
  <2> QED BY <2>1, <2>2, <2>3, <2>4, <2>5, <2>6, <2>7 DEF ServerStep
<1> QED
  BY <1>1, ReceiveMail DEF Receives

LEMMA StartMail ==
    ASSUME IInv, NEW s \in Sessions, Start(s)
    PROVE  MailIsOrdered' /\ DisconnectIsLast'
<1> DEFINE m == [type |-> "connect"]
<1>1. m \in Message /\ m.type = "connect"
  BY DEF Message
<1>2. mailbox[s] = << >> /\ sid[s] = NoId
  BY DEF IInv, BeforeTheId, Start
<1>3. /\ mailbox'[s] = <<m>>
      /\ \A t \in Sessions : t # s => mailbox'[t] = mailbox[t]
      /\ stage'[s] = "connecting"
      /\ \A t \in Sessions : t # s => stage'[t] = stage[t]
      /\ sid' = sid
  BY <1>1, <1>2 DEF Start, IInv, TypeOK
<1>4. Len(<<m>>) = 1 /\ <<m>>[1] = m
  OBVIOUS
<1> HIDE DEF m
<1>5. MailIsOrdered'
  <2> SUFFICES ASSUME NEW t \in Sessions, NEW n \in 1 .. Len(mailbox'[t])
               PROVE  LET k == mailbox'[t][n] IN
                      /\ k.type = "connect" => n = 1 /\ sid[t] = NoId
                      /\ k.type # "connect" => k.id = sid[t]
                      /\ k.type = "disconnect" => n = Len(mailbox'[t])
                      /\ k.type \notin {"connect", "disconnect"} => sid[t] # NoId
    BY <1>3 DEF MailIsOrdered
  <2>1. CASE t = s
    BY <1>1, <1>2, <1>3, <1>4, <2>1
  <2>2. CASE t # s
    BY <1>3, <2>2 DEF IInv, MailIsOrdered
  <2> QED BY <2>1, <2>2
<1>6. DisconnectIsLast'
  <2> SUFFICES ASSUME NEW t \in Sessions, mailbox'[t] # << >>
               PROVE  (Over(t))' <=> mailbox'[t][Len(mailbox'[t])].type = "disconnect"
    BY DEF DisconnectIsLast
  <2>1. CASE t = s
    BY <1>1, <1>3, <1>4, <2>1 DEF Over
  <2>2. CASE t # s
    BY <1>3, <2>2 DEF IInv, DisconnectIsLast, Over
  <2> QED BY <2>1, <2>2
<1> QED
  BY <1>5, <1>6

LEMMA LeaveMail ==
    ASSUME IInv, NEW s \in Sessions, Leave(s),
           stage[s] \in {"connecting", "open", "waiting"}
    PROVE  MailIsOrdered' /\ DisconnectIsLast'
<1> DEFINE m == [type |-> "disconnect", id |-> sid[s]]
<1>1. m \in Message /\ m.type = "disconnect" /\ m.id = sid[s]
  BY DEF Message, IInv, TypeOK
<1>2. /\ mailbox' = [mailbox EXCEPT ![s] = Append(@, m)]
      /\ sid' = sid
      /\ stage'[s] = "stopping"
      /\ \A t \in Sessions : t # s => stage'[t] = stage[t]
  BY DEF Leave, IInv, TypeOK
<1> HIDE DEF m
<1> QED
  BY <1>1, <1>2, SendMail

LEMMA ForwardMail ==
    ASSUME IInv, NEW s \in Sessions, NEW m \in Message, stage[s] = "open",
           m.type \notin {"connect", "disconnect"}, m.id = sid[s],
           mailbox' = [mailbox EXCEPT ![s] = Append(@, m)],
           sid' = sid,
           \A t \in Sessions : t # s => stage'[t] = stage[t],
           stage'[s] \in {"open", "waiting"}
    PROVE  MailIsOrdered' /\ DisconnectIsLast'
<1>1. sid[s] # NoId
  BY DEF IInv, BeforeTheId
<1> QED
  BY <1>1, SendMail

\* The steps of a session leave the game's tables alone; it stays, and its
\* queue grows.
LEMMA PlayerMail ==
    ASSUME IInv, NEW s \in Sessions, PlayerStep(s)
    PROVE  MailIsOrdered' /\ DisconnectIsLast'
<1> USE DEF sessionVars, gameVars
<1>1. CASE Start(s)
  BY <1>1, StartMail
<1>2. CASE Close(s)
  BY <1>2, LeaveMail DEF Close
<1>3. CASE SendData(s)
  <2>1. [type |-> "data", id |-> sid[s]] \in Message
    BY DEF Message, IInv, TypeOK
  <2> QED BY <1>3, <2>1, ForwardMail DEF SendData, Forward
<1>4. CASE SendGrab(s)
  <2>1. \A f \in Flags : [type |-> "grab", id |-> sid[s], flag |-> f] \in Message
    BY DEF Message, IInv, TypeOK
  <2> QED BY <1>4, <2>1, ForwardMail DEF SendGrab, Forward
<1>5. CASE SendAttack(s)
  <2>1. \A f \in Flags, t \in SocketIds :
          [type |-> "attack", id |-> sid[s], flag |-> f, target |-> t] \in Message
    BY DEF Message, IInv, TypeOK
  <2> QED BY <1>5, <2>1, ForwardMail DEF SendAttack, Forward
<1>6. CASE SendJoin(s)
  <2>1. \A r \in Rooms : [type |-> "join", id |-> sid[s], level |-> r] \in Message
    BY DEF Message, IInv, TypeOK
  <2>2. /\ stage'[s] = "waiting"
        /\ \A t \in Sessions : t # s => stage'[t] = stage[t]
    BY <1>6 DEF SendJoin, IInv, TypeOK
  <2> QED BY <1>6, <2>1, <2>2, ForwardMail DEF SendJoin
<1> QED
  BY <1>1, <1>2, <1>3, <1>4, <1>5, <1>6 DEF PlayerStep

LEMMA SessionMail ==
    ASSUME IInv, NEW s \in Sessions, SessionStep(s)
    PROVE  MailIsOrdered' /\ DisconnectIsLast'
<1> USE DEF gameVars
<1>1. CASE TakeId(s)
  <2>1. mailbox[s] = << >>
    BY <1>1 DEF TakeId, IInv, BeforeTheId
  <2>2. /\ mailbox' = mailbox
        /\ \A t \in Sessions : t # s => sid'[t] = sid[t] /\ stage'[t] = stage[t]
    BY <1>1 DEF TakeId, IInv, TypeOK
  <2>3. Len(mailbox[s]) = 0
    BY <2>1
  <2>4. MailIsOrdered'
    <3> SUFFICES ASSUME NEW t \in Sessions, NEW n \in 1 .. Len(mailbox[t])
                 PROVE  LET k == mailbox[t][n] IN
                        /\ k.type = "connect" => n = 1 /\ sid'[t] = NoId
                        /\ k.type # "connect" => k.id = sid'[t]
                        /\ k.type = "disconnect" => n = Len(mailbox[t])
                        /\ k.type \notin {"connect", "disconnect"} => sid'[t] # NoId
      BY <2>2 DEF MailIsOrdered
    <3>1. t # s
      BY <2>3
    <3> QED BY <2>2, <3>1 DEF IInv, MailIsOrdered
  <2>5. DisconnectIsLast'
    BY <2>1, <2>2 DEF IInv, DisconnectIsLast, Over
  <2> QED BY <2>4, <2>5
<1>2. CASE TakeReply(s)
  <2>1. /\ mailbox' = mailbox /\ sid' = sid
        /\ \A t \in Sessions : Over(t)' <=> Over(t)
    BY <1>2 DEF TakeReply, IInv, TypeOK, Over
  <2> QED BY <2>1 DEF IInv, MailIsOrdered, DisconnectIsLast
<1>3. CASE HandleKick(s)
  BY <1>3, LeaveMail DEF HandleKick
<1>4. CASE DropActor(s)
  <2>1. /\ mailbox' = mailbox /\ sid' = sid
        /\ \A t \in Sessions : Over(t)' <=> Over(t)
    BY <1>4 DEF DropActor, IInv, TypeOK, Over
  <2> QED BY <2>1 DEF IInv, MailIsOrdered, DisconnectIsLast
<1> QED
  BY <1>1, <1>2, <1>3, <1>4 DEF SessionStep

-----------------------------------------------------------------------------
(* The steps of a session preserve the invariant *)

LEMMA GrowKeeps ==
    ASSUME IInv, NEW s \in Sessions, NEW m \in Message, m.type # "connect",
           mailbox' = [mailbox EXCEPT ![s] = Append(@, m)],
           UNCHANGED <<sid, reply, kick, gameVars>>,
           stage[s] \in {"connecting", "open", "waiting"},
           stage'[s] \in {"open", "waiting", "stopping"},
           stage[s] = "connecting" => stage'[s] = "stopping",
           \A t \in Sessions : t # s => stage'[t] = stage[t]
    PROVE  /\ BeforeTheId' /\ IdsAreDrawn' /\ ClientsHaveOwners'
           /\ PlayersHaveOwners' /\ ForgottenIsKicked'
           /\ ClientLevelMatchesPlayer' /\ RosterMatchesPlayers'
           /\ DisconnectedIsForgotten'
<1>1. /\ mailbox'[s] # << >>
      /\ mailbox[s] = << >> => mailbox'[s][1] = m
      /\ mailbox[s] # << >> => mailbox'[s][1] = mailbox[s][1]
      /\ \A t \in Sessions : t # s => mailbox'[t] = mailbox[t]
  <2> DEFINE q == mailbox[s]
  <2>1. q \in Seq(Message)
    BY MailType DEF IInv
  <2>2. /\ Append(q, m) # << >>
        /\ Len(q) \in Nat
        /\ Append(q, m)[Len(q) + 1] = m
        /\ \A n \in 1 .. Len(q) : Append(q, m)[n] = q[n]
    BY <2>1, AppendFacts
  <2>3. q = << >> => Append(q, m)[1] = m
    BY <2>2
  <2>4. q # << >> => Append(q, m)[1] = q[1]
    <3>1. q # << >> => Len(q) # 0
      BY <2>1, EmptySeq
    <3>2. q # << >> => 1 \in 1 .. Len(q)
      BY <2>2, <3>1
    <3> QED BY <2>2, <3>2
  <2>5. /\ mailbox'[s] = Append(q, m)
        /\ \A t \in Sessions : t # s => mailbox'[t] = mailbox[t]
    BY DEF IInv, TypeOK
  <2> QED BY <2>2, <2>3, <2>4, <2>5
<1>2. BeforeTheId'
  BY <1>1 DEF IInv, BeforeTheId
<1>3. IdsAreDrawn'
  BY DEF IInv, IdsAreDrawn
<1>4. ClientsHaveOwners'
  <2> SUFFICES ASSUME NEW id \in SocketIds, clients[id] # None
               PROVE  LET t == clients[id].owner IN
                      /\ id \in Draw[t]
                      /\ stage'[t] # "new"
                      /\ sid[t] # NoId => sid[t] = id
                      /\ stage'[t] = "connecting" => reply[t] = id
                      /\ mailbox'[t] # << >> => mailbox'[t][1].type # "connect"
    BY DEF ClientsHaveOwners, gameVars
  <2>1. clients[id].owner \in Sessions
    BY DEF IInv, TypeOK, Client
  <2> QED BY <1>1, <2>1 DEF IInv, ClientsHaveOwners
<1>5. PlayersHaveOwners'
  BY DEF IInv, PlayersHaveOwners, gameVars
<1>6. ForgottenIsKicked'
  BY DEF IInv, ForgottenIsKicked, gameVars
<1>7. ClientLevelMatchesPlayer' /\ RosterMatchesPlayers'
  BY DEF IInv, ClientLevelMatchesPlayer, RosterMatchesPlayers, gameVars
<1>8. DisconnectedIsForgotten'
  BY <1>1 DEF IInv, DisconnectedIsForgotten, gameVars, Over
<1> QED
  BY <1>2, <1>3, <1>4, <1>5, <1>6, <1>7, <1>8

LEMMA LeaveKeeps ==
    ASSUME IInv, NEW s \in Sessions, Leave(s),
           stage[s] \in {"connecting", "open", "waiting"}
    PROVE  /\ BeforeTheId' /\ IdsAreDrawn' /\ ClientsHaveOwners'
           /\ PlayersHaveOwners' /\ ForgottenIsKicked'
           /\ ClientLevelMatchesPlayer' /\ RosterMatchesPlayers'
           /\ DisconnectedIsForgotten'
<1> DEFINE m == [type |-> "disconnect", id |-> sid[s]]
<1>1. m \in Message /\ m.type # "connect"
  BY DEF Message, IInv, TypeOK
<1>2. /\ mailbox' = [mailbox EXCEPT ![s] = Append(@, m)]
      /\ UNCHANGED <<sid, reply, kick, gameVars>>
      /\ stage'[s] = "stopping"
      /\ \A t \in Sessions : t # s => stage'[t] = stage[t]
  BY DEF Leave, IInv, TypeOK
<1> HIDE DEF m
<1> QED
  BY <1>1, <1>2, GrowKeeps

LEMMA PlayerKeeps ==
    ASSUME IInv, NEW s \in Sessions, PlayerStep(s)
    PROVE  /\ BeforeTheId' /\ IdsAreDrawn' /\ ClientsHaveOwners'
           /\ PlayersHaveOwners' /\ ForgottenIsKicked'
           /\ ClientLevelMatchesPlayer' /\ RosterMatchesPlayers'
           /\ DisconnectedIsForgotten'
<1>1. CASE Start(s)
  <2>1. /\ mailbox[s] = << >> /\ reply[s] = None /\ sid[s] = NoId
        /\ mailbox'[s] # << >>
        /\ \A t \in Sessions : t # s => mailbox'[t] = mailbox[t] /\ stage'[t] = stage[t]
        /\ stage'[s] = "connecting"
        /\ UNCHANGED <<sid, reply, kick, gameVars>>
    <3>1. [type |-> "connect"] \in Message
      BY DEF Message
    <3>2. Append(mailbox[s], [type |-> "connect"]) # << >>
      BY <3>1, AppendFacts, MailType DEF IInv
    <3> QED BY <1>1, <3>2 DEF Start, IInv, TypeOK, BeforeTheId
  <2>3. BeforeTheId'
    BY <1>1, <2>1, ConstantsAssumption DEF IInv, BeforeTheId
  <2>4. IdsAreDrawn'
    BY <2>1 DEF IInv, IdsAreDrawn
  <2>5. ClientsHaveOwners'
    <3> SUFFICES ASSUME NEW id \in SocketIds, clients[id] # None
                 PROVE  LET t == clients[id].owner IN
                        /\ id \in Draw[t]
                        /\ stage'[t] # "new"
                        /\ sid[t] # NoId => sid[t] = id
                        /\ stage'[t] = "connecting" => reply[t] = id
                        /\ mailbox'[t] # << >> => mailbox'[t][1].type # "connect"
      BY <2>1 DEF ClientsHaveOwners, gameVars
    <3>1. clients[id].owner \in Sessions /\ clients[id].owner # s
      BY <1>1 DEF IInv, TypeOK, Client, ClientsHaveOwners, Start
    <3> QED BY <2>1, <3>1 DEF IInv, ClientsHaveOwners
  <2>6. PlayersHaveOwners'
    BY <2>1 DEF IInv, PlayersHaveOwners, gameVars
  <2>7. ForgottenIsKicked'
    BY <2>1 DEF IInv, ForgottenIsKicked, gameVars
  <2>8. ClientLevelMatchesPlayer' /\ RosterMatchesPlayers'
    BY <2>1 DEF IInv, ClientLevelMatchesPlayer, RosterMatchesPlayers, gameVars
  <2>9. DisconnectedIsForgotten'
    BY <2>1 DEF IInv, DisconnectedIsForgotten, gameVars, Over
  <2> QED BY <2>3, <2>4, <2>5, <2>6, <2>7, <2>8, <2>9
<1>2. CASE Close(s)
  BY <1>2, LeaveKeeps DEF Close
<1>3. CASE SendData(s)
  <2>1. [type |-> "data", id |-> sid[s]] \in Message
    BY DEF Message, IInv, TypeOK
  <2> QED BY <1>3, <2>1, GrowKeeps DEF SendData, Forward, sessionVars
<1>4. CASE SendGrab(s)
  <2>1. \A f \in Flags : [type |-> "grab", id |-> sid[s], flag |-> f] \in Message
    BY DEF Message, IInv, TypeOK
  <2> QED BY <1>4, <2>1, GrowKeeps DEF SendGrab, Forward, sessionVars
<1>5. CASE SendAttack(s)
  <2>1. \A f \in Flags, t \in SocketIds :
          [type |-> "attack", id |-> sid[s], flag |-> f, target |-> t] \in Message
    BY DEF Message, IInv, TypeOK
  <2> QED BY <1>5, <2>1, GrowKeeps DEF SendAttack, Forward, sessionVars
<1>6. CASE SendJoin(s)
  <2>1. \A r \in Rooms : [type |-> "join", id |-> sid[s], level |-> r] \in Message
    BY DEF Message, IInv, TypeOK
  <2>2. /\ stage'[s] = "waiting"
        /\ \A t \in Sessions : t # s => stage'[t] = stage[t]
    BY <1>6 DEF SendJoin, IInv, TypeOK
  <2> QED BY <1>6, <2>1, <2>2, GrowKeeps DEF SendJoin
<1> QED
  BY <1>1, <1>2, <1>3, <1>4, <1>5, <1>6 DEF PlayerStep

LEMMA SessionKeeps ==
    ASSUME IInv, NEW s \in Sessions, SessionStep(s)
    PROVE  /\ BeforeTheId' /\ IdsAreDrawn' /\ ClientsHaveOwners'
           /\ PlayersHaveOwners' /\ ForgottenIsKicked'
           /\ ClientLevelMatchesPlayer' /\ RosterMatchesPlayers'
           /\ DisconnectedIsForgotten'
<1>1. CASE TakeId(s)
  <2>1. /\ sid[s] = NoId /\ reply[s] \in Draw[s] /\ reply[s] \in SocketIds
        /\ reply[s] # NoId
        /\ sid'[s] = reply[s] /\ stage'[s] = "open" /\ reply'[s] = None
        /\ \A t \in Sessions : t # s =>
              sid'[t] = sid[t] /\ stage'[t] = stage[t] /\ reply'[t] = reply[t]
        /\ UNCHANGED <<kick, mailbox, gameVars>>
    BY <1>1, ConstantsAssumption DEF TakeId, IInv, TypeOK, BeforeTheId, IdsAreDrawn
  <2>2. BeforeTheId'
    BY <2>1 DEF IInv, BeforeTheId
  <2>3. IdsAreDrawn'
    BY <2>1 DEF IInv, IdsAreDrawn
  <2>4. ClientsHaveOwners'
    BY <1>1, <2>1 DEF IInv, ClientsHaveOwners, TypeOK, Client, gameVars, TakeId
  <2>5. PlayersHaveOwners'
    BY <2>1, ConstantsAssumption DEF IInv, PlayersHaveOwners, gameVars
  <2>6. ForgottenIsKicked'
    BY <1>1, <2>1 DEF IInv, ForgottenIsKicked, gameVars, TakeId
  <2>7. ClientLevelMatchesPlayer' /\ RosterMatchesPlayers'
    BY <2>1 DEF IInv, ClientLevelMatchesPlayer, RosterMatchesPlayers, gameVars
  <2>8. DisconnectedIsForgotten'
    BY <2>1 DEF IInv, DisconnectedIsForgotten, gameVars, Over
  <2> QED BY <2>2, <2>3, <2>4, <2>5, <2>6, <2>7, <2>8
<1>2. CASE TakeReply(s)
  <2>1. /\ stage[s] = "waiting" /\ stage'[s] = "open" /\ reply'[s] = None
        /\ \A t \in Sessions : t # s => stage'[t] = stage[t] /\ reply'[t] = reply[t]
        /\ UNCHANGED <<sid, kick, mailbox, gameVars>>
    BY <1>2 DEF TakeReply, IInv, TypeOK
  <2>2. BeforeTheId' /\ IdsAreDrawn'
    BY <2>1 DEF IInv, BeforeTheId, IdsAreDrawn
  <2>3. ClientsHaveOwners'
    BY <2>1 DEF IInv, ClientsHaveOwners, TypeOK, Client, gameVars
  <2>4. PlayersHaveOwners' /\ ClientLevelMatchesPlayer' /\ RosterMatchesPlayers'
    BY <2>1 DEF IInv, PlayersHaveOwners, ClientLevelMatchesPlayer,
                RosterMatchesPlayers, gameVars
  <2>5. ForgottenIsKicked'
    BY <2>1 DEF IInv, ForgottenIsKicked, gameVars
  <2>6. DisconnectedIsForgotten'
    BY <2>1 DEF IInv, DisconnectedIsForgotten, gameVars, Over
  <2> QED BY <2>2, <2>3, <2>4, <2>5, <2>6
<1>3. CASE HandleKick(s)
  BY <1>3, LeaveKeeps DEF HandleKick
<1>4. CASE DropActor(s)
  <2>1. /\ stage[s] = "stopping" /\ stage'[s] = "stopped"
        /\ \A t \in Sessions : t # s =>
              stage'[t] = stage[t] /\ reply'[t] = reply[t] /\ kick'[t] = kick[t]
        /\ UNCHANGED <<sid, mailbox, gameVars>>
    BY <1>4 DEF DropActor, IInv, TypeOK
  <2>2. BeforeTheId' /\ IdsAreDrawn'
    BY <2>1 DEF IInv, BeforeTheId, IdsAreDrawn
  <2>3. ClientsHaveOwners'
    BY <2>1 DEF IInv, ClientsHaveOwners, TypeOK, Client, gameVars
  <2>4. PlayersHaveOwners' /\ ClientLevelMatchesPlayer' /\ RosterMatchesPlayers'
    BY <2>1 DEF IInv, PlayersHaveOwners, ClientLevelMatchesPlayer,
                RosterMatchesPlayers, gameVars
  <2>5. ForgottenIsKicked'
    BY <2>1 DEF IInv, ForgottenIsKicked, gameVars
  <2>6. DisconnectedIsForgotten'
    BY <2>1 DEF IInv, DisconnectedIsForgotten, gameVars, Over
  <2> QED BY <2>2, <2>3, <2>4, <2>5, <2>6
<1> QED
  BY <1>1, <1>2, <1>3, <1>4 DEF SessionStep

-----------------------------------------------------------------------------
(* The steps of the server preserve the invariant *)

\* What a server step does to the queues, as the other conjuncts see it.
LEMMA TakenMail ==
    ASSUME IInv, NEW s \in Sessions, ServerStep(s)
    PROVE  /\ UNCHANGED <<stage, sid>>
           /\ mailbox[s] # << >>
           /\ mailbox'[s] = Tail(mailbox[s])
           /\ mailbox'[s] # << >> => mailbox'[s][1].type # "connect"
           /\ \A t \in Sessions : t # s => mailbox'[t] = mailbox[t]
<1>1. /\ UNCHANGED <<stage, sid>>
      /\ mailbox[s] # << >>
      /\ mailbox'[s] = Tail(mailbox[s])
      /\ \A t \in Sessions : t # s => mailbox'[t] = mailbox[t]
  BY ServerMail DEF IInv, TypeOK
<1>2. ASSUME mailbox'[s] # << >> PROVE mailbox'[s][1].type # "connect"
  <2> DEFINE q == mailbox[s]
  <2>1. /\ Len(q) \in Nat \ {0}
        /\ Len(Tail(q)) = Len(q) - 1
        /\ \A n \in 1 .. Len(Tail(q)) : Tail(q)[n] = q[n + 1]
        /\ Len(q) # 1
    BY <1>1, <1>2, TailFacts, MailType DEF IInv
  <2>2. 1 \in 1 .. Len(Tail(q)) /\ 2 \in 1 .. Len(q)
    <3> HIDE DEF q
    <3> QED BY <2>1
  <2>3. mailbox'[s][1] = q[2]
    BY <1>1, <2>1, <2>2
  <2>4. q[2].type # "connect"
    BY <2>2 DEF IInv, MailIsOrdered
  <2> QED BY <2>3, <2>4
<1> QED
  BY <1>1, <1>2

\* Handlers that touch neither the sessions nor who is in which table.
LEMMA HandlerKeeps ==
    ASSUME IInv, NEW s \in Sessions, ServerStep(s),
           UNCHANGED <<reply, kick, players, roster>>,
           TypeOK',
           \A id \in SocketIds :
              /\ clients'[id] = None <=> clients[id] = None
              /\ clients[id] # None => /\ clients'[id].owner = clients[id].owner
                                       /\ clients'[id].level = clients[id].level,
           Head(mailbox[s]).type # "connect" \/ Over(s),
           Head(mailbox[s]).type # "disconnect"
    PROVE  /\ BeforeTheId' /\ IdsAreDrawn' /\ ClientsHaveOwners'
           /\ PlayersHaveOwners' /\ ForgottenIsKicked'
           /\ ClientLevelMatchesPlayer' /\ RosterMatchesPlayers'
           /\ DisconnectedIsForgotten'
<1>1. /\ UNCHANGED <<stage, sid>>
      /\ mailbox[s] # << >>
      /\ mailbox'[s] # << >> => mailbox'[s][1].type # "connect"
      /\ \A t \in Sessions : t # s => mailbox'[t] = mailbox[t]
  BY TakenMail
<1>2. stage[s] # "connecting"
  BY <1>1, HeadFacts DEF Over
<1>3. BeforeTheId'
  BY <1>1, <1>2 DEF IInv, BeforeTheId
<1>4. IdsAreDrawn'
  BY <1>1 DEF IInv, IdsAreDrawn
<1>5. ClientsHaveOwners'
  <2> SUFFICES ASSUME NEW id \in SocketIds, clients'[id] # None
               PROVE  LET t == clients'[id].owner IN
                      /\ id \in Draw[t]
                      /\ stage'[t] # "new"
                      /\ sid'[t] # NoId => sid'[t] = id
                      /\ stage'[t] = "connecting" => reply'[t] = id
                      /\ mailbox'[t] # << >> => mailbox'[t][1].type # "connect"
    BY DEF ClientsHaveOwners
  <2>1. clients[id] # None /\ clients'[id].owner = clients[id].owner
    OBVIOUS
  <2>2. clients[id].owner \in Sessions
    BY <2>1 DEF IInv, TypeOK, Client
  <2> QED BY <1>1, <2>1, <2>2 DEF IInv, ClientsHaveOwners
<1>6. PlayersHaveOwners'
  BY <1>1 DEF IInv, PlayersHaveOwners
<1>7. ForgottenIsKicked'
  BY <1>1, ConstantsAssumption DEF IInv, ForgottenIsKicked, IdsAreDrawn, BeforeTheId
<1>8. ClientLevelMatchesPlayer' /\ RosterMatchesPlayers'
  BY DEF IInv, ClientLevelMatchesPlayer, RosterMatchesPlayers
<1>9. DisconnectedIsForgotten'
  <2>0. mailbox'[s] = Tail(mailbox[s])
    BY TakenMail
  <2>1. Over(s) => mailbox'[s] # << >>
    BY <1>1, <2>0, HeadFacts
  <2>2. ASSUME NEW t \in Sessions, sid[t] # NoId PROVE sid[t] \in SocketIds
    BY <2>2 DEF IInv, TypeOK
  <2> QED BY <1>1, <2>1, <2>2 DEF IInv, DisconnectedIsForgotten, Over
<1> QED
  BY <1>3, <1>4, <1>5, <1>6, <1>7, <1>8, <1>9

LEMMA ConnectKeeps ==
    ASSUME IInv, NEW s \in Sessions, HandleConnect(s)
    PROVE  /\ BeforeTheId' /\ IdsAreDrawn' /\ ClientsHaveOwners'
           /\ PlayersHaveOwners' /\ ForgottenIsKicked'
           /\ ClientLevelMatchesPlayer' /\ RosterMatchesPlayers'
           /\ DisconnectedIsForgotten'
<1>1. /\ UNCHANGED <<stage, sid, players, roster>>
      /\ mailbox[s] # << >>
      /\ mailbox'[s] = Tail(mailbox[s])
      /\ mailbox'[s] # << >> => mailbox'[s][1].type # "connect"
      /\ \A t \in Sessions : t # s => mailbox'[t] = mailbox[t]
  BY TakenMail DEF ServerStep, HandleConnect
<1>2. /\ sid[s] = NoId
      /\ stage[s] \in {"connecting", "stopping"}
      /\ \A i \in SocketIds : clients[i] # None => clients[i].owner # s
      /\ Over(s) => mailbox'[s] # << >>
  BY <1>1, HeadFacts DEF HandleConnect, Receives, Reachable
<1>3. PICK id \in Draw[s] :
        /\ clients' = [clients EXCEPT ![id] =
                         [owner |-> s, level |-> None, placed |-> FALSE]]
        /\ reply' = [reply EXCEPT ![s] = id]
  BY DEF HandleConnect, NewClient
<1>4. id \in SocketIds /\ id # NoId /\ id # None
  BY ConstantsAssumption
<1>5. /\ clients'[id] = [owner |-> s, level |-> None, placed |-> FALSE]
      /\ clients'[id] # None
      /\ \A i \in SocketIds : i # id => clients'[i] = clients[i]
      /\ reply'[s] = id
      /\ \A t \in Sessions : t # s => reply'[t] = reply[t]
  <2>0. [owner |-> s, level |-> None, placed |-> FALSE] \in Client
    BY DEF Client
  <2>1. [owner |-> s, level |-> None, placed |-> FALSE] # None
    BY <2>0, NoneIsNoClient
  <2> QED BY <1>3, <1>4, <2>1 DEF IInv, TypeOK
<1>6. \A t \in Sessions : kick[t] => kick'[t]
  BY DEF HandleConnect, KickOwner, IInv, TypeOK
<1>7. players[id] = None
  <2>1. ASSUME players[id] # None PROVE FALSE
    <3>1. PICK t \in Sessions : sid[t] = id
      BY <1>4, <2>1 DEF IInv, PlayersHaveOwners
    <3>2. t # s
      BY <1>2, <1>4, <3>1
    <3> QED BY <3>1, <3>2, IdsDiffer
  <2> QED BY <2>1
<1>8. stage[s] = "connecting" => mailbox'[s] = << >>
  <2> SUFFICES ASSUME stage[s] = "connecting", mailbox'[s] # << >> PROVE FALSE
    OBVIOUS
  <2>1. MailIsOrdered' /\ DisconnectIsLast'
    BY ServerMail DEF ServerStep
  <2>2. mailbox'[s] \in Seq(Message) /\ Len(mailbox'[s]) \in Nat \ {0}
    BY <1>1, TailFacts, MailType, EmptySeq, LenProperties DEF IInv
  <2>3. 1 \in 1 .. Len(mailbox'[s])
    BY <2>2
  <2>4. mailbox'[s][1].type = "disconnect"
    BY <1>1, <1>2, <2>1, <2>3 DEF MailIsOrdered
  <2>5. Len(mailbox'[s]) = 1
    BY <2>1, <2>3, <2>4 DEF MailIsOrdered
  <2>6. Over(s)'
    BY <2>1, <2>4, <2>5 DEF DisconnectIsLast
  <2> QED BY <1>1, <2>6 DEF Over
<1>9. BeforeTheId'
  BY <1>1, <1>2, <1>4, <1>5, <1>8, NoneIsNoClient DEF IInv, BeforeTheId
<1>10. IdsAreDrawn'
  BY <1>1, <1>4, <1>5 DEF IInv, IdsAreDrawn
<1>11. ClientsHaveOwners'
  <2> SUFFICES ASSUME NEW i \in SocketIds, clients'[i] # None
               PROVE  LET t == clients'[i].owner IN
                      /\ i \in Draw[t]
                      /\ stage'[t] # "new"
                      /\ sid'[t] # NoId => sid'[t] = i
                      /\ stage'[t] = "connecting" => reply'[t] = i
                      /\ mailbox'[t] # << >> => mailbox'[t][1].type # "connect"
    BY DEF ClientsHaveOwners
  <2>1. CASE i = id
    <3>1. clients'[i].owner = s
      BY <1>5, <2>1
    <3> QED BY <1>1, <1>2, <1>3, <1>5, <2>1, <3>1
  <2>2. CASE i # id
    <3>1. clients'[i] = clients[i] /\ clients[i].owner \in Sessions /\ clients[i].owner # s
      BY <1>2, <1>5, <2>2 DEF IInv, TypeOK, Client
    <3> QED BY <1>1, <1>5, <3>1 DEF IInv, ClientsHaveOwners
  <2> QED BY <2>1, <2>2
<1>12. PlayersHaveOwners'
  BY <1>1 DEF IInv, PlayersHaveOwners
<1>13. ForgottenIsKicked'
  <2> SUFFICES ASSUME NEW t \in Sessions
               PROVE  /\ stage[t] \in {"open", "waiting"} /\ clients'[sid[t]] = None
                            => kick'[t]
                      /\ (stage[t] = "connecting" /\ reply'[t] # None
                            /\ clients'[reply'[t]] = None) => kick'[t]
    BY <1>1 DEF ForgottenIsKicked
  <2>1. CASE t = s
    BY <1>2, <1>5, <2>1
  <2>2. CASE t # s
    <3>1. stage[t] \in {"open", "waiting"} => sid[t] \in SocketIds /\ sid[t] # id
      BY <2>2, IdsDiffer DEF IInv, BeforeTheId, TypeOK
    <3>2. stage[t] = "connecting" /\ reply[t] # None
            => reply[t] \in SocketIds /\ reply[t] # id
      BY <2>2, IdsDiffer, ConstantsAssumption DEF IInv, IdsAreDrawn
    <3> QED BY <1>5, <1>6, <2>2, <3>1, <3>2 DEF IInv, ForgottenIsKicked
  <2> QED BY <2>1, <2>2
<1>14. ClientLevelMatchesPlayer'
  BY <1>1, <1>5, <1>7 DEF IInv, ClientLevelMatchesPlayer
<1>15. RosterMatchesPlayers'
  BY <1>1 DEF IInv, RosterMatchesPlayers
<1>16. DisconnectedIsForgotten'
  <2> SUFFICES ASSUME NEW t \in Sessions, Over(t), mailbox'[t] = << >>, sid[t] # NoId
               PROVE  clients'[sid[t]] = None /\ players[sid[t]] = None
    BY <1>1 DEF DisconnectedIsForgotten, Over
  <2>1. t # s
    BY <1>2
  <2>2. sid[t] \in SocketIds /\ sid[t] # id
    BY <2>1, IdsDiffer DEF IInv, TypeOK
  <2> QED BY <1>1, <1>5, <2>1, <2>2 DEF IInv, DisconnectedIsForgotten
<1> QED
  BY <1>9, <1>10, <1>11, <1>12, <1>13, <1>14, <1>15, <1>16

LEMMA DisconnectKeeps ==
    ASSUME IInv, NEW s \in Sessions, HandleDisconnect(s)
    PROVE  /\ BeforeTheId' /\ IdsAreDrawn' /\ ClientsHaveOwners'
           /\ PlayersHaveOwners' /\ ForgottenIsKicked'
           /\ ClientLevelMatchesPlayer' /\ RosterMatchesPlayers'
           /\ DisconnectedIsForgotten'
<1> DEFINE id == sid[s]
<1>1. /\ UNCHANGED <<stage, sid, reply, kick>>
      /\ mailbox[s] # << >>
      /\ mailbox'[s] # << >> => mailbox'[s][1].type # "connect"
      /\ \A t \in Sessions : t # s => mailbox'[t] = mailbox[t]
  BY TakenMail DEF ServerStep, HandleDisconnect, sessionVars
<1>2. Head(mailbox[s]).id = id /\ Over(s)
  BY <1>1, HeadFacts DEF HandleDisconnect, Receives
<1>3. /\ clients' = [i \in SocketIds |-> IF i = id THEN None ELSE clients[i]]
      /\ players' = [i \in SocketIds |-> IF i = id THEN None ELSE players[i]]
      /\ roster' = [r \in Rooms |-> roster[r] \ {id}]
  BY <1>2 DEF HandleDisconnect, Release
<1>4. ASSUME NEW t \in Sessions, t # s
      PROVE  /\ sid[t] # NoId => sid[t] \in SocketIds /\ sid[t] # id
             /\ stage[t] = "connecting" /\ reply[t] # None
                  => reply[t] \in SocketIds /\ reply[t] # id
  <2>1. sid[t] # NoId => sid[t] \in Draw[t] /\ sid[t] \in SocketIds
    BY DEF IInv, IdsAreDrawn, TypeOK
  <2>2. stage[t] = "connecting" /\ reply[t] # None
          => reply[t] \in Draw[t] /\ reply[t] \in SocketIds
    BY ConstantsAssumption DEF IInv, IdsAreDrawn
  <2>3. \A i \in Draw[t] : i # id
    BY <1>4, IdsDiffer
  <2> QED BY <2>1, <2>2, <2>3
<1> HIDE DEF id
<1>5. BeforeTheId' /\ IdsAreDrawn'
  BY <1>1, <1>2 DEF IInv, BeforeTheId, IdsAreDrawn, Over
<1>6. ClientsHaveOwners'
  <2> SUFFICES ASSUME NEW i \in SocketIds, clients'[i] # None
               PROVE  LET t == clients'[i].owner IN
                      /\ i \in Draw[t]
                      /\ stage[t] # "new"
                      /\ sid[t] # NoId => sid[t] = i
                      /\ stage[t] = "connecting" => reply[t] = i
                      /\ mailbox'[t] # << >> => mailbox'[t][1].type # "connect"
    BY <1>1 DEF ClientsHaveOwners
  <2>1. clients'[i] = clients[i] /\ clients[i] # None /\ clients[i].owner \in Sessions
    BY <1>3 DEF IInv, TypeOK, Client
  <2> QED BY <1>1, <2>1 DEF IInv, ClientsHaveOwners
<1>7. PlayersHaveOwners'
  BY <1>1, <1>3 DEF IInv, PlayersHaveOwners
<1>8. ForgottenIsKicked'
  <2> SUFFICES ASSUME NEW t \in Sessions
               PROVE  /\ stage[t] \in {"open", "waiting"} /\ clients'[sid[t]] = None
                            => kick[t]
                      /\ (stage[t] = "connecting" /\ reply[t] # None
                            /\ clients'[reply[t]] = None) => kick[t]
    BY <1>1 DEF ForgottenIsKicked
  <2>1. CASE t = s
    BY <1>2, <2>1 DEF Over
  <2>2. CASE t # s
    <3>1. stage[t] \in {"open", "waiting"} => sid[t] # NoId
      BY DEF IInv, BeforeTheId
    <3> QED BY <1>3, <1>4, <2>2, <3>1 DEF IInv, ForgottenIsKicked
  <2> QED BY <2>1, <2>2
<1>9. ClientLevelMatchesPlayer'
  BY <1>3 DEF IInv, ClientLevelMatchesPlayer
<1>10. RosterMatchesPlayers'
  BY <1>3, ConstantsAssumption DEF IInv, RosterMatchesPlayers
<1>11. DisconnectedIsForgotten'
  <2> SUFFICES ASSUME NEW t \in Sessions, Over(t), mailbox'[t] = << >>, sid[t] # NoId
               PROVE  clients'[sid[t]] = None /\ players'[sid[t]] = None
    BY <1>1 DEF DisconnectedIsForgotten, Over
  <2>1. sid[t] \in SocketIds
    BY DEF IInv, TypeOK
  <2>2. CASE t = s
    BY <1>3, <2>1, <2>2 DEF id
  <2>3. CASE t # s
    BY <1>1, <1>3, <1>4, <2>1, <2>3 DEF IInv, DisconnectedIsForgotten
  <2> QED BY <2>2, <2>3
<1> QED
  BY <1>5, <1>6, <1>7, <1>8, <1>9, <1>10, <1>11

LEMMA JoinKeeps ==
    ASSUME IInv, NEW s \in Sessions, HandleJoin(s)
    PROVE  /\ BeforeTheId' /\ IdsAreDrawn' /\ ClientsHaveOwners'
           /\ PlayersHaveOwners' /\ ForgottenIsKicked'
           /\ ClientLevelMatchesPlayer' /\ RosterMatchesPlayers'
           /\ DisconnectedIsForgotten'
<1> DEFINE id == sid[s]
           r == Head(mailbox[s]).level
<1>1. /\ UNCHANGED <<stage, sid, kick>>
      /\ mailbox[s] # << >>
      /\ mailbox'[s] = Tail(mailbox[s])
      /\ mailbox'[s] # << >> => mailbox'[s][1].type # "connect"
      /\ \A t \in Sessions : t # s => mailbox'[t] = mailbox[t]
  BY TakenMail DEF ServerStep, HandleJoin
<1>2. /\ id \in Draw[s] /\ id \in SocketIds /\ id # NoId
      /\ stage[s] \notin {"new", "connecting"}
      /\ Head(mailbox[s]).id = id
      /\ r \in Rooms
      /\ Over(s) => mailbox'[s] # << >>
  BY <1>1, HeadFacts, MessageFields DEF HandleJoin, Receives
<1>3. /\ reply'[s] = NoId
      /\ \A t \in Sessions : t # s => reply'[t] = reply[t]
  BY DEF HandleJoin, IInv, TypeOK
\* What the tables become, whether the join is accepted or refused.
<1>4. /\ \A i \in SocketIds : i # id => clients'[i] = clients[i] /\ players'[i] = players[i]
      /\ clients'[id] = None <=> clients[id] = None
      /\ clients[id] # None => clients'[id].owner = clients[id].owner
      /\ clients[id] # None => clients'[id].level = players'[id]
      /\ \A q \in Rooms, i \in SocketIds : i # id => (i \in roster'[q] <=> i \in roster[q])
      /\ \A q \in Rooms : id \in roster'[q] <=> players'[id] = q
  <2>1. CASE UNCHANGED gameVars
    BY <1>2, <2>1 DEF gameVars, IInv, ClientLevelMatchesPlayer, RosterMatchesPlayers
  <2>2. CASE AcceptJoin(id, r)
    <3>1. /\ players'[id] = r
          /\ \A i \in SocketIds : i # id => players'[i] = players[i]
      BY <1>2, <2>2 DEF AcceptJoin, IInv, TypeOK
    <3>2. /\ \A q \in Rooms, i \in SocketIds : i # id => (i \in roster'[q] <=> i \in roster[q])
          /\ \A q \in Rooms : id \in roster'[q] <=> q = r
      <4>1. roster' = [q \in Rooms |-> IF q = r THEN (roster[q] \ {id}) \cup {id}
                                               ELSE roster[q] \ {id}]
        BY <1>2, <2>2 DEF AcceptJoin, Release
      <4> QED BY <1>2, <4>1
    <3>3. CASE clients[id] = None
      BY <1>2, <2>2, <3>1, <3>2, <3>3 DEF AcceptJoin, Present
    <3>4. CASE clients[id] # None
      <4> DEFINE c == [clients[id] EXCEPT !.level = r]
      <4>1. c \in Client /\ c.owner = clients[id].owner /\ c.level = r
        BY <1>2, <3>4, ClientUpdate DEF Client, IInv
      <4>2. clients' = [clients EXCEPT ![id] = c]
        BY <1>2, <2>2, <3>4 DEF AcceptJoin, Present
      <4>3. /\ clients'[id] = c
            /\ \A i \in SocketIds : i # id => clients'[i] = clients[i]
        <5> HIDE DEF c
        <5> QED BY <1>2, <4>2 DEF IInv, TypeOK
      <4>4. c # None
        BY <4>1, NoneIsNoClient
      <4> HIDE DEF c
      <4> QED BY <3>1, <3>2, <3>4, <4>1, <4>3, <4>4
    <3> QED BY <3>3, <3>4
  <2> QED BY <1>2, <2>1, <2>2 DEF HandleJoin
<1>5. ASSUME NEW t \in Sessions, t # s
      PROVE  /\ sid[t] # NoId => sid[t] \in SocketIds /\ sid[t] # id
             /\ stage[t] = "connecting" /\ reply[t] # None
                  => reply[t] \in SocketIds /\ reply[t] # id
  BY <1>2, <1>5, IdsDiffer, ConstantsAssumption DEF IInv, IdsAreDrawn, TypeOK
<1>6. sid'[s] = id
  BY <1>1
<1> HIDE DEF id, r
<1>7. BeforeTheId' /\ IdsAreDrawn'
  BY <1>1, <1>2, <1>3 DEF IInv, BeforeTheId, IdsAreDrawn
<1>8. ClientsHaveOwners'
  <2> SUFFICES ASSUME NEW i \in SocketIds, clients'[i] # None
               PROVE  LET t == clients'[i].owner IN
                      /\ i \in Draw[t]
                      /\ stage[t] # "new"
                      /\ sid[t] # NoId => sid[t] = i
                      /\ stage[t] = "connecting" => reply'[t] = i
                      /\ mailbox'[t] # << >> => mailbox'[t][1].type # "connect"
    BY <1>1 DEF ClientsHaveOwners
  <2>1. /\ clients[i] # None
        /\ clients'[i].owner = clients[i].owner
    BY <1>4
  <2>2. clients[i].owner \in Sessions
    BY <2>1 DEF IInv, TypeOK, Client
  <2> QED BY <1>1, <1>2, <1>3, <2>1, <2>2 DEF IInv, ClientsHaveOwners
<1>9. PlayersHaveOwners'
  BY <1>1, <1>4, <1>6 DEF IInv, PlayersHaveOwners
<1>10. ForgottenIsKicked'
  <2> SUFFICES ASSUME NEW t \in Sessions
               PROVE  /\ stage[t] \in {"open", "waiting"} /\ clients'[sid[t]] = None
                            => kick[t]
                      /\ (stage[t] = "connecting" /\ reply'[t] # None
                            /\ clients'[reply'[t]] = None) => kick[t]
    BY <1>1 DEF ForgottenIsKicked
  <2>1. CASE t = s
    BY <1>1, <1>2, <1>4, <1>6, <2>1 DEF IInv, ForgottenIsKicked
  <2>2. CASE t # s
    <3>1. stage[t] \in {"open", "waiting"} => sid[t] # NoId
      BY DEF IInv, BeforeTheId
    <3> QED BY <1>3, <1>4, <1>5, <2>2, <3>1 DEF IInv, ForgottenIsKicked
  <2> QED BY <2>1, <2>2
<1>11. ClientLevelMatchesPlayer'
  BY <1>4 DEF IInv, ClientLevelMatchesPlayer
<1>12. RosterMatchesPlayers'
  BY <1>4 DEF IInv, RosterMatchesPlayers
<1>13. DisconnectedIsForgotten'
  <2> SUFFICES ASSUME NEW t \in Sessions, Over(t), mailbox'[t] = << >>, sid[t] # NoId
               PROVE  clients'[sid[t]] = None /\ players'[sid[t]] = None
    BY <1>1 DEF DisconnectedIsForgotten, Over
  <2>1. t # s
    BY <1>2
  <2> QED BY <1>1, <1>4, <1>5, <2>1 DEF IInv, DisconnectedIsForgotten
<1> QED
  BY <1>7, <1>8, <1>9, <1>10, <1>11, <1>12, <1>13

LEMMA KickKeeps ==
    ASSUME IInv, KickClientByAccountId \/ KickClientByIpAddr
    PROVE  /\ MailIsOrdered' /\ DisconnectIsLast'
           /\ BeforeTheId' /\ IdsAreDrawn' /\ ClientsHaveOwners'
           /\ PlayersHaveOwners' /\ ForgottenIsKicked'
           /\ ClientLevelMatchesPlayer' /\ RosterMatchesPlayers'
           /\ DisconnectedIsForgotten'
<1>1. PICK found \in SUBSET SocketIds :
        KickOne(found) /\ \A id \in found : clients[id] # None
  BY KickedAreClients
<1>2. PICK id \in found :
          /\ Reachable(clients[id].owner)
          /\ KickOwner(id)
          /\ clients' = [clients EXCEPT ![id] = None]
          /\ players' = [players EXCEPT ![id] = None]
          /\ roster' = Release(id)
  BY <1>1 DEF KickOne
<1> DEFINE s == clients[id].owner
<1>3. UNCHANGED <<stage, sid, reply, mailbox>>
  BY <1>1 DEF KickOne
<1>4. id \in SocketIds /\ s \in Sessions /\ id \in Draw[s]
  BY <1>1 DEF IInv, TypeOK, Client, ClientsHaveOwners
<1>5. /\ clients'[id] = None /\ players'[id] = None
      /\ \A i \in SocketIds : i # id => clients'[i] = clients[i] /\ players'[i] = players[i]
      /\ \A q \in Rooms : roster'[q] = roster[q] \ {id}
  BY <1>2, <1>4 DEF IInv, TypeOK, Release
<1>6. kick'[s] /\ \A t \in Sessions : kick[t] => kick'[t]
  BY <1>2, <1>4 DEF KickOwner, IInv, TypeOK
<1> HIDE DEF s
<1>7. MailIsOrdered' /\ DisconnectIsLast' /\ BeforeTheId' /\ IdsAreDrawn'
  BY <1>3 DEF IInv, MailIsOrdered, DisconnectIsLast, BeforeTheId, IdsAreDrawn, Over
<1>8. ClientsHaveOwners'
  BY <1>3, <1>5 DEF IInv, ClientsHaveOwners
<1>9. PlayersHaveOwners'
  BY <1>3, <1>5 DEF IInv, PlayersHaveOwners
<1>10. ForgottenIsKicked'
  <2> SUFFICES ASSUME NEW t \in Sessions
               PROVE  /\ stage[t] \in {"open", "waiting"} /\ clients'[sid[t]] = None
                            => kick'[t]
                      /\ (stage[t] = "connecting" /\ reply[t] # None
                            /\ clients'[reply[t]] = None) => kick'[t]
    BY <1>3 DEF ForgottenIsKicked
  <2>1. CASE t = s
    BY <1>6, <2>1
  <2>2. CASE t # s
    <3>1. /\ stage[t] \in {"open", "waiting"} => sid[t] \in SocketIds /\ sid[t] # id
          /\ stage[t] = "connecting" /\ reply[t] # None
                => reply[t] \in SocketIds /\ reply[t] # id
      BY <1>4, <2>2, IdsDiffer, ConstantsAssumption
         DEF IInv, IdsAreDrawn, BeforeTheId, TypeOK
    <3> QED BY <1>5, <1>6, <3>1 DEF IInv, ForgottenIsKicked
  <2> QED BY <2>1, <2>2
<1>11. ClientLevelMatchesPlayer'
  BY <1>5 DEF IInv, ClientLevelMatchesPlayer
<1>12. RosterMatchesPlayers'
  BY <1>4, <1>5, ConstantsAssumption DEF IInv, RosterMatchesPlayers
<1>13. DisconnectedIsForgotten'
  BY <1>3, <1>5 DEF IInv, DisconnectedIsForgotten, Over, TypeOK
<1> QED
  BY <1>7, <1>8, <1>9, <1>10, <1>11, <1>12, <1>13

LEMMA ServerKeeps ==
    ASSUME IInv, TypeOK', NEW s \in Sessions, ServerStep(s)
    PROVE  /\ BeforeTheId' /\ IdsAreDrawn' /\ ClientsHaveOwners'
           /\ PlayersHaveOwners' /\ ForgottenIsKicked'
           /\ ClientLevelMatchesPlayer' /\ RosterMatchesPlayers'
           /\ DisconnectedIsForgotten'
<1>1. CASE SkipRequest(s)
  <2>1. /\ UNCHANGED <<reply, kick, clients, players, roster>>
        /\ Over(s)
        /\ Head(mailbox[s]).type # "disconnect"
    BY <1>1 DEF SkipRequest, Receives, Reachable, Over, sessionVars, gameVars
  <2> QED BY <2>1, HandlerKeeps
<1>2. CASE HandleConnect(s)
  BY <1>2, ConnectKeeps
<1>3. CASE HandleDisconnect(s)
  BY <1>3, DisconnectKeeps
<1>4. CASE HandleData(s)
  <2> DEFINE id == Head(mailbox[s]).id
  <2>1. /\ UNCHANGED <<reply, kick, players, roster>>
        /\ Head(mailbox[s]).type \notin {"connect", "disconnect"}
        /\ clients' = IF Present(id) THEN [clients EXCEPT ![id].placed = TRUE]
                                     ELSE clients
    BY <1>4 DEF HandleData, Receives, sessionVars
  <2>2. ASSUME NEW i \in SocketIds
        PROVE  /\ clients'[i] = None <=> clients[i] = None
               /\ clients[i] # None => /\ clients'[i].owner = clients[i].owner
                                       /\ clients'[i].level = clients[i].level
    <3>1. CASE Present(id) /\ i = id
      <4> DEFINE c == [clients[id] EXCEPT !.placed = TRUE]
      <4>1. id \in SocketIds /\ clients[id] # None
        BY <3>1 DEF Present
      <4>2. c \in Client /\ c.owner = clients[id].owner /\ c.level = clients[id].level
        BY <4>1, ClientUpdate DEF IInv, Client
      <4>3. clients' = [clients EXCEPT ![id] = c]
        BY <2>1, <3>1
      <4> HIDE DEF c
      <4>4. clients'[id] = c
        BY <4>1, <4>3 DEF IInv, TypeOK
      <4> QED BY <3>1, <4>1, <4>2, <4>4, NoneIsNoClient
    <3>2. CASE Present(id) /\ i # id
      BY <2>1, <3>2 DEF IInv, TypeOK
    <3>3. CASE ~Present(id)
      BY <2>1, <3>3
    <3> QED BY <3>1, <3>2, <3>3
  <2> HIDE DEF id
  <2> QED BY <2>1, <2>2, HandlerKeeps
<1>5. CASE HandleGrab(s)
  <2>1. /\ UNCHANGED <<reply, kick, clients, players, roster>>
        /\ Head(mailbox[s]).type \notin {"connect", "disconnect"}
    BY <1>5 DEF HandleGrab, Receives, sessionVars
  <2> QED BY <2>1, HandlerKeeps
<1>6. CASE HandleAttack(s)
  <2>1. /\ UNCHANGED <<reply, kick, clients, players, roster>>
        /\ Head(mailbox[s]).type \notin {"connect", "disconnect"}
    BY <1>6 DEF HandleAttack, Receives, sessionVars
  <2> QED BY <2>1, HandlerKeeps
<1>7. CASE HandleJoin(s)
  BY <1>7, JoinKeeps
<1> QED
  BY <1>1, <1>2, <1>3, <1>4, <1>5, <1>6, <1>7 DEF ServerStep

-----------------------------------------------------------------------------
(* The theorems *)

LEMMA InitInvariant == Init => IInv
<1> SUFFICES ASSUME Init PROVE IInv
  OBVIOUS
<1>1. TypeOK
  BY InitType
<1>2. \A s \in Sessions : mailbox[s] = << >> /\ Len(mailbox[s]) = 0
  BY DEF Init
<1>3. MailIsOrdered /\ DisconnectIsLast
  BY <1>2 DEF MailIsOrdered, DisconnectIsLast
<1>4. BeforeTheId /\ IdsAreDrawn
  BY <1>2 DEF BeforeTheId, IdsAreDrawn, Init
<1>5. ClientsHaveOwners /\ PlayersHaveOwners /\ ForgottenIsKicked
  BY DEF Init, ClientsHaveOwners, PlayersHaveOwners, ForgottenIsKicked
<1>6. ClientLevelMatchesPlayer /\ RosterMatchesPlayers /\ DisconnectedIsForgotten
  BY ConstantsAssumption
     DEF Init, ClientLevelMatchesPlayer, RosterMatchesPlayers, DisconnectedIsForgotten
<1> QED
  BY <1>1, <1>3, <1>4, <1>5, <1>6 DEF IInv

LEMMA StepInvariant == IInv /\ [Next]_vars => IInv'
<1> SUFFICES ASSUME IInv, [Next]_vars PROVE IInv'
  OBVIOUS
<1>1. CASE UNCHANGED vars
  BY <1>1 DEF vars, IInv, TypeOK, MailIsOrdered, DisconnectIsLast, BeforeTheId,
              IdsAreDrawn, ClientsHaveOwners, PlayersHaveOwners, ForgottenIsKicked,
              ClientLevelMatchesPlayer, RosterMatchesPlayers,
              DisconnectedIsForgotten, Over
<1>2. ASSUME NEW s \in Sessions, ServerStep(s) PROVE IInv'
  <2>1. TypeOK'
    BY <1>2, ServerStepType DEF IInv
  <2>2. MailIsOrdered' /\ DisconnectIsLast'
    BY <1>2, ServerMail
  <2> QED BY <1>2, <2>1, <2>2, ServerKeeps DEF IInv
<1>3. ASSUME NEW s \in Sessions, SessionStep(s) PROVE IInv'
  BY <1>3, SessionStepType, SessionMail, SessionKeeps DEF IInv
<1>4. ASSUME NEW s \in Sessions, PlayerStep(s) PROVE IInv'
  BY <1>4, PlayerStepType, PlayerMail, PlayerKeeps DEF IInv
<1>5. CASE KickClientByAccountId \/ KickClientByIpAddr
  BY <1>5, KickOneType, KickKeeps DEF IInv
<1> QED
  BY <1>1, <1>2, <1>3, <1>4, <1>5 DEF Next

THEOREM Invariance == Spec => []IInv
  BY InitInvariant, StepInvariant, PTL DEF Spec

\* In every reachable state a client carries the level of its player: routing
\* by Client.level never sends an attack, a grab or a chat line to a room the
\* player is not in.
THEOREM LevelsAgree == Spec => []ClientLevelMatchesPlayer
<1>1. IInv => ClientLevelMatchesPlayer
  BY DEF IInv
<1> QED
  BY <1>1, Invariance, PTL

\* The Weak references that upgrade are those of the room's players.
THEOREM RostersAgree == Spec => []RosterMatchesPlayers
<1>1. IInv => RosterMatchesPlayers
  BY DEF IInv
<1> QED
  BY <1>1, Invariance, PTL

\* Once its Disconnect is handled, a session's client and player are gone for
\* good, in whatever order the server took the messages of all the sessions.
THEOREM DisconnectForgets == Spec => []DisconnectedIsForgotten
<1>1. IInv => DisconnectedIsForgotten
  BY DEF IInv
<1> QED
  BY <1>1, Invariance, PTL

\* The only client entries that outlive their session are those of connections
\* lost before the answer to Connect was read.
THEOREM OrphansExplained == Spec => []OrphanClientNeverLearntItsId
<1>1. IInv => OrphanClientNeverLearntItsId
  <2> SUFFICES ASSUME IInv, NEW id \in SocketIds, clients[id] # None,
                      Over(clients[id].owner), mailbox[clients[id].owner] = << >>,
                      sid[clients[id].owner] # NoId
               PROVE  FALSE
    BY DEF OrphanClientNeverLearntItsId
  <2>1. clients[id].owner \in Sessions
    BY DEF IInv, TypeOK, Client
  <2>2. sid[clients[id].owner] = id
    BY <2>1 DEF IInv, ClientsHaveOwners
  <2> QED BY <2>1, <2>2 DEF IInv, DisconnectedIsForgotten
<1> QED
  BY <1>1, Invariance, PTL

\* A player that has lost its client belongs to a session that is being kicked
\* or has a Disconnect on its way.
THEOREM GhostsExplained == Spec => []GhostPlayersAreLeaving
<1>1. IInv => GhostPlayersAreLeaving
  <2> SUFFICES ASSUME IInv, NEW id \in SocketIds, players[id] # None, clients[id] = None
               PROVE  \E s \in Sessions :
                        sid[s] = id /\ (kick[s] \/ (Over(s) /\ mailbox[s] # << >>))
    BY DEF GhostPlayersAreLeaving
  <2>1. PICK s \in Sessions : sid[s] = id
    BY DEF IInv, PlayersHaveOwners
  <2>2. id # NoId
    BY ConstantsAssumption
  <2>3. CASE stage[s] \in {"open", "waiting"}
    BY <2>1, <2>3 DEF IInv, ForgottenIsKicked
  <2>4. CASE Over(s)
    BY <2>1, <2>2, <2>4 DEF IInv, DisconnectedIsForgotten
  <2>5. stage[s] \in {"open", "waiting"} \/ Over(s)
    BY <2>1, <2>2 DEF IInv, TypeOK, Stages, BeforeTheId, Over
  <2> QED BY <2>1, <2>3, <2>4, <2>5
<1> QED
  BY <1>1, Invariance, PTL

\* No step takes a flag from one player and gives it to another, and none gives
\* it to somebody who is not playing in its room.
THEOREM FlagsPassWhenFree == Spec => FlagPassesOnlyWhenFree
<1> DEFINE Passes == \A f \in Flags :
                        holder'[f] # holder[f] /\ holder'[f] # None
                            => /\ holder[f] = None
                               /\ clients[holder'[f]] # None
                               /\ players[holder'[f]] = RoomOf[f]
<1>1. IInv /\ [Next]_vars => [Passes]_vars
  <2> SUFFICES ASSUME IInv, Next, NEW f \in Flags,
                      holder'[f] # holder[f], holder'[f] # None
               PROVE  /\ holder[f] = None
                      /\ clients[holder'[f]] # None
                      /\ players[holder'[f]] = RoomOf[f]
    OBVIOUS
  <2>1. PICK s \in Sessions : HandleGrab(s)
    <3>1. ASSUME NEW s \in Sessions, PlayerStep(s) \/ SessionStep(s) PROVE FALSE
      BY <3>1 DEF PlayerStep, SessionStep, Start, Close, Leave, SendData, SendGrab,
                  SendAttack, SendJoin, Forward, TakeId, TakeReply, HandleKick,
                  DropActor, gameVars
    <3>2. ASSUME NEW s \in Sessions, HandleDisconnect(s) PROVE FALSE
      BY <3>2 DEF HandleDisconnect, DropFlagIfHolding
    <3>3. ASSUME NEW s \in Sessions, HandleAttack(s) PROVE FALSE
      BY <3>3 DEF HandleAttack, IInv, TypeOK
    <3>4. ASSUME NEW s \in Sessions,
                 SkipRequest(s) \/ HandleConnect(s) \/ HandleData(s) \/ HandleJoin(s)
          PROVE  FALSE
      BY <3>4 DEF SkipRequest, HandleConnect, HandleData, HandleJoin, AcceptJoin,
                  gameVars
    <3>5. CASE KickClientByAccountId \/ KickClientByIpAddr
      BY <3>5 DEF KickClientByAccountId, KickClientByIpAddr, KickOne
    <3> QED BY <3>1, <3>2, <3>3, <3>4, <3>5 DEF Next, ServerStep
  <2> DEFINE id == Head(mailbox[s]).id
             g == Head(mailbox[s]).flag
  <2>2. /\ Present(id) /\ clients[id].level = RoomOf[g]
        /\ holder[g] = None
        /\ holder' = [holder EXCEPT ![g] = id]
    BY <2>1 DEF HandleGrab
  <2>3. g \in Flags
    BY <2>1, ReceiveType, MessageFields DEF HandleGrab, Receives, IInv
  <2> HIDE DEF id, g
  <2>4. f = g /\ holder'[f] = id
    BY <2>2, <2>3 DEF IInv, TypeOK
  <2>5. id \in SocketIds /\ clients[id] # None
    BY <2>2 DEF Present
  <2> QED BY <2>2, <2>4, <2>5 DEF IInv, ClientLevelMatchesPlayer
<1> QED
  BY <1>1, Invariance, PTL DEF Spec, FlagPassesOnlyWhenFree

\* A non-empty set of naturals has a least element.
LEMMA LeastNatural ==
    ASSUME NEW S \in SUBSET Nat, S # {}
    PROVE  \E n \in S : \A m \in S : n <= m
<1> DEFINE Less == OpToRel(<, Nat)
<1>1. IsWellFoundedOn(Less, Nat)
  BY NatLessThanWellFounded
<1>2. \A m, n \in Nat : m < n => <<m, n>> \in Less
  BY DEF OpToRel
<1> HIDE DEF Less
<1>3. PICK n \in S : \A m \in S : <<m, n>> \notin Less
  BY <1>1, WFMin
<1>4. \A m \in S : ~(m < n)
  BY <1>2, <1>3
<1> QED
  BY <1>4

\* Who steps out of the room of a flag: no step of a session does it, and of the
\* server's handlers only three.
LEMMA WhoStopsPlaying ==
    ASSUME IInv, Next, NEW id \in SocketIds, players'[id] # players[id]
    PROVE  \/ \E s \in Sessions : HandleDisconnect(s) \/ HandleJoin(s)
           \/ KickClientByAccountId \/ KickClientByIpAddr
<1>1. ASSUME NEW s \in Sessions, PlayerStep(s) \/ SessionStep(s) PROVE FALSE
  BY <1>1 DEF PlayerStep, SessionStep, Start, Close, Leave, SendData, SendGrab,
              SendAttack, SendJoin, Forward, TakeId, TakeReply, HandleKick,
              DropActor, gameVars
<1>2. ASSUME NEW s \in Sessions,
             \/ SkipRequest(s) \/ HandleConnect(s) \/ HandleData(s)
             \/ HandleGrab(s) \/ HandleAttack(s)
      PROVE  FALSE
  BY <1>2 DEF SkipRequest, HandleConnect, HandleData, HandleGrab, HandleAttack,
              gameVars
<1> QED
  BY <1>1, <1>2 DEF Next, ServerStep

\* A flag stays linked to somebody who no longer plays in its room in the three
\* known ways only, for any number of flags and rooms.
THEOREM FlagsAreLeftInThreeWays == Spec => FlagIsLeftInThreeWays
<1> DEFINE Left == \A f \in Flags :
              LET id == holder[f] IN
              (id # None /\ holder'[f] = id
                         /\ players[id] = RoomOf[f] /\ players'[id] # RoomOf[f])
                  => \/ players'[id] # None
                     \/ \E g \in Flags : /\ g < f /\ RoomOf[g] = RoomOf[f]
                                         /\ holder[g] = id /\ holder'[g] = None
                     \/ /\ mailbox' = mailbox
                        /\ clients[id] # None /\ clients'[id] = None
<1>1. IInv /\ [Next]_vars => [Left]_vars
  <2> SUFFICES ASSUME IInv, Next, NEW f \in Flags, NEW id, id = holder[f],
                      id # None, holder'[f] = id,
                      players[id] = RoomOf[f], players'[id] # RoomOf[f],
                      players'[id] = None
               PROVE  \/ \E g \in Flags : /\ g < f /\ RoomOf[g] = RoomOf[f]
                                          /\ holder[g] = id /\ holder'[g] = None
                      \/ /\ mailbox' = mailbox
                         /\ clients[id] # None /\ clients'[id] = None
    OBVIOUS
  <2>1. id \in SocketIds /\ RoomOf[f] \in Rooms /\ RoomOf[f] # None
    BY ConstantsAssumption DEF IInv, TypeOK
  <2>2. ASSUME NEW s \in Sessions, HandleDisconnect(s)
        PROVE  \E g \in Flags : /\ g < f /\ RoomOf[g] = RoomOf[f]
                               /\ holder[g] = id /\ holder'[g] = None
    <3> DEFINE held == {g \in Flags : RoomOf[g] = RoomOf[f] /\ holder[g] = id}
    <3>1. /\ id = Head(mailbox[s]).id
          /\ holder' = DropFlagIfHolding(players[id], id)
      <4>1. id = Head(mailbox[s]).id
        BY <2>1, <2>2 DEF HandleDisconnect, IInv, TypeOK
      <4> QED BY <2>1, <2>2, <4>1 DEF HandleDisconnect, Playing
    <3>2. held \in SUBSET Nat /\ f \in held
      BY ConstantsAssumption
    <3>3. PICK g \in held : \A h \in held : g <= h
      BY <3>2, LeastNatural
    <3>4. IsFirstHeld(g, players[id], id) /\ holder'[g] = None
      BY <3>1, <3>3 DEF IsFirstHeld, DropFlagIfHolding
    <3>5. g # f /\ g <= f /\ g \in Nat /\ f \in Nat
      BY <3>2, <3>3, <3>4
    <3>6. g < f
      <4> HIDE DEF held
      <4> QED BY <3>5
    <3> QED BY <3>3, <3>4, <3>6
  <2>3. ASSUME NEW s \in Sessions, HandleJoin(s)
        PROVE  FALSE
    <3>1. CASE UNCHANGED gameVars
      BY <2>1, <3>1 DEF gameVars
    <3>2. CASE AcceptJoin(Head(mailbox[s]).id, Head(mailbox[s]).level)
      <4>1. Head(mailbox[s]).level \in Rooms
        BY <2>3, ReceiveType, MessageFields DEF HandleJoin, Receives, IInv
      <4> QED BY <2>1, <3>2, <4>1, ConstantsAssumption DEF AcceptJoin, IInv, TypeOK
    <3> QED BY <2>3, <3>1, <3>2 DEF HandleJoin
  <2>4. CASE KickClientByAccountId \/ KickClientByIpAddr
    <3>1. PICK found \in SUBSET SocketIds :
            KickOne(found) /\ \A i \in found : clients[i] # None
      BY <2>4, KickedAreClients
    <3>2. PICK i \in found : /\ clients' = [clients EXCEPT ![i] = None]
                             /\ players' = [players EXCEPT ![i] = None]
      BY <3>1 DEF KickOne
    <3>3. i = id
      BY <2>1, <3>2 DEF IInv, TypeOK
    <3> QED BY <2>1, <3>1, <3>2, <3>3 DEF KickOne, IInv, TypeOK
  <2> QED BY <2>1, <2>2, <2>3, <2>4, WhoStopsPlaying
<1> QED
  BY <1>1, Invariance, PTL DEF Spec, FlagIsLeftInThreeWays

\* A session that is being kicked, or is over, stays so.
LEMMA EndingStays ==
    ASSUME IInv, Next, NEW s \in Sessions, kick[s] \/ Over(s)
    PROVE  kick'[s] \/ Over(s)'
<1>1. ASSUME NEW t \in Sessions, PlayerStep(t) PROVE kick'[s] \/ Over(s)'
  BY <1>1 DEF PlayerStep, Start, Close, Leave, SendData, SendGrab, SendAttack,
              SendJoin, Forward, gameVars, sessionVars, Over, IInv, TypeOK
<1>2. ASSUME NEW t \in Sessions, SessionStep(t) PROVE kick'[s] \/ Over(s)'
  BY <1>2 DEF SessionStep, TakeId, TakeReply, HandleKick, Leave, DropActor,
              gameVars, Over, IInv, TypeOK
<1>3. ASSUME NEW id \in SocketIds, clients[id] # None, KickOwner(id), stage' = stage
      PROVE  kick'[s] \/ Over(s)'
  BY <1>3 DEF KickOwner, Over, IInv, TypeOK, Client
<1>4. ASSUME NEW t \in Sessions, ServerStep(t) PROVE kick'[s] \/ Over(s)'
  <2>1. CASE HandleConnect(t)
    BY <2>1, <1>3 DEF HandleConnect, ClientsOfAccount, Over
  <2>2. CASE ~HandleConnect(t)
    BY <1>4, <2>2 DEF ServerStep, SkipRequest, HandleDisconnect, HandleData,
                      HandleGrab, HandleAttack, HandleJoin, sessionVars, Over
  <2> QED BY <2>1, <2>2
<1>5. CASE KickClientByAccountId \/ KickClientByIpAddr
  BY <1>3, <1>5, KickedAreClients DEF KickOne
<1> QED
  BY <1>1, <1>2, <1>4, <1>5 DEF Next

\* Only Connect makes a client.
LEMMA ClientsShrink ==
    ASSUME IInv, Next, ~\E s \in Sessions : HandleConnect(s),
           NEW id \in SocketIds, clients'[id] # None
    PROVE  clients[id] # None /\ clients'[id].owner = clients[id].owner
<1>1. ASSUME NEW s \in Sessions, PlayerStep(s) \/ SessionStep(s)
      PROVE  clients' = clients
  BY <1>1 DEF PlayerStep, SessionStep, Start, Close, Leave, SendData, SendGrab,
              SendAttack, SendJoin, Forward, TakeId, TakeReply, HandleKick,
              DropActor, gameVars
<1>2. ASSUME NEW i, Present(i),
             \/ clients' = [clients EXCEPT ![i].placed = TRUE]
             \/ \E r \in Rooms : clients' = [clients EXCEPT ![i].level = r]
      PROVE  clients[id] # None /\ clients'[id].owner = clients[id].owner
  <2>1. i \in SocketIds /\ clients[i] \in Client
    BY <1>2 DEF Present, IInv, TypeOK
  <2>2. i # id => clients'[id] = clients[id]
    BY <1>2 DEF IInv, TypeOK
  <2>3. i = id => clients'[id].owner = clients[id].owner
    BY <1>2, <2>1 DEF IInv, TypeOK, Client
  <2> QED BY <1>2, <2>2, <2>3 DEF Present
<1>3. ASSUME NEW s \in Sessions, ServerStep(s)
      PROVE  clients[id] # None /\ clients'[id].owner = clients[id].owner
  <2>1. CASE SkipRequest(s) \/ HandleGrab(s) \/ HandleAttack(s)
    BY <2>1 DEF SkipRequest, HandleGrab, HandleAttack, gameVars
  <2>2. CASE HandleDisconnect(s)
    BY <2>2 DEF HandleDisconnect, IInv, TypeOK
  <2>3. CASE HandleData(s)
    BY <2>3, <1>2 DEF HandleData
  <2>4. CASE HandleJoin(s)
    <3>1. Head(mailbox[s]).level \in Rooms
      BY <2>4, ReceiveType, MessageFields DEF HandleJoin, Receives, IInv
    <3> QED BY <1>2, <2>4, <3>1 DEF HandleJoin, AcceptJoin, gameVars
  <2> QED BY <1>3, <2>1, <2>2, <2>3, <2>4 DEF ServerStep
<1>4. CASE KickClientByAccountId \/ KickClientByIpAddr
  BY <1>4, KickedAreClients DEF KickOne, IInv, TypeOK
<1> QED
  BY <1>1, <1>3, <1>4 DEF Next

\* Two clients of one account that both stay have a third connection of the
\* account to thank for it, which a Connect (server.rs 60-83) found in place of the
\* first; for any number of connections.
THEOREM DuplicatesAreKicked == Spec => []DuplicateIsKicked
<1>1. Init => DuplicateIsKicked
  BY DEF Init, DuplicateIsKicked
<1>2. IInv /\ DuplicateIsKicked /\ Next => DuplicateIsKicked'
  <2> SUFFICES ASSUME IInv, DuplicateIsKicked, Next,
                      NEW i \in SocketIds, NEW j \in SocketIds, i # j,
                      clients'[i] # None, clients'[j] # None,
                      AccountOf[clients'[i].owner] = AccountOf[clients'[j].owner],
                      \A k \in {i, j} :
                          /\ ~kick'[clients'[k].owner]
                          /\ stage'[clients'[k].owner] \notin {"stopping", "stopped"}
               PROVE  \E s \in Sessions : /\ AccountOf[s] = AccountOf[clients'[i].owner]
                                         /\ ~Stays(s)'
    BY DEF DuplicateIsKicked, Stays, Over
  <2>1. \A s \in Sessions : Stays(s)' => Stays(s)
    BY EndingStays DEF Stays
\* Two clients that were there before: so was the third connection.
  <2>2. ASSUME clients[i] # None, clients'[i].owner = clients[i].owner,
               clients[j] # None, clients'[j].owner = clients[j].owner
        PROVE  \E s \in Sessions : /\ AccountOf[s] = AccountOf[clients'[i].owner]
                                  /\ ~Stays(s)'
    <3>1. clients[i].owner \in Sessions /\ clients[j].owner \in Sessions
      BY <2>2 DEF IInv, TypeOK, Client
    <3>2. Stays(clients[i].owner) /\ Stays(clients[j].owner)
      BY <2>1, <2>2, <3>1 DEF Stays, Over
    <3>3. PICK s \in Sessions : /\ AccountOf[s] = AccountOf[clients[i].owner]
                               /\ ~Stays(s)
      BY <2>2, <3>2 DEF DuplicateIsKicked
    <3> QED BY <2>1, <2>2, <3>3
  <2>3. CASE ~\E s \in Sessions : HandleConnect(s)
    BY <2>2, <2>3, ClientsShrink
  <2>4. ASSUME NEW s \in Sessions, HandleConnect(s)
        PROVE  \E t \in Sessions : /\ AccountOf[t] = AccountOf[clients'[i].owner]
                                  /\ ~Stays(t)'
    <3>1. PICK id \in Draw[s] : clients' = [clients EXCEPT ![id] = NewClient(s)]
      BY <2>4 DEF HandleConnect
    <3>2. id \in SocketIds /\ clients'[id].owner = s
      BY <3>1, ConstantsAssumption DEF IInv, TypeOK, NewClient
    <3>3. \A k \in SocketIds : k # id => clients'[k] = clients[k]
      BY <3>1, <3>2 DEF IInv, TypeOK
\* The new client's account had one: somebody was kicked.
    <3>4. ASSUME NEW k \in SocketIds, clients[k] # None,
                 AccountOf[clients[k].owner] = AccountOf[s]
          PROVE  \E t \in Sessions : AccountOf[t] = AccountOf[s] /\ ~Stays(t)'
      <4>1. k \in ClientsOfAccount(AccountOf[s])
        BY <3>4 DEF ClientsOfAccount
      <4>2. PICK old \in ClientsOfAccount(AccountOf[s]) : KickOwner(old)
        BY <2>4, <4>1 DEF HandleConnect
      <4>3. clients[old].owner \in Sessions /\ AccountOf[clients[old].owner] = AccountOf[s]
        BY <4>2 DEF ClientsOfAccount, IInv, TypeOK, Client
      <4>4. kick'[clients[old].owner] \/ stage[clients[old].owner] = "stopped"
        BY <4>2, <4>3 DEF KickOwner, Reachable, IInv, TypeOK
      <4>5. stage' = stage
        BY <2>4 DEF HandleConnect
      <4> QED BY <4>3, <4>4, <4>5 DEF Stays, Over
    <3>5. CASE i = id
      BY <3>2, <3>3, <3>4, <3>5
    <3>6. CASE j = id
      BY <3>2, <3>3, <3>4, <3>6
    <3>7. CASE i # id /\ j # id
      BY <2>2, <3>3, <3>7
    <3> QED BY <3>5, <3>6, <3>7
  <2> QED BY <2>3, <2>4
<1>3. DuplicateIsKicked /\ UNCHANGED vars => DuplicateIsKicked'
  BY DEF DuplicateIsKicked, Stays, vars, Over
<1> QED
  BY <1>1, <1>2, <1>3, Invariance, PTL DEF Spec

-----------------------------------------------------------------------------
(* Moderation: the composition behaves as MmoServer, and what a ban reaches *)

\* Every step of the composition is a step of MmoServer, or leaves it alone.
LEMMA StepIsServerStep ==
    ASSUME ModerationTypeOK, ModerationNext
    PROVE  [Next]_vars
<1>1. CASE ServerOrSession
  BY <1>1 DEF ServerOrSession, Next
<1>2. ASSUME NEW c \in Callers, AnswerKick(c)
      PROVE  [Next]_vars
  <2>1. call[c].account \in KickAccounts
    BY <1>2, ModerationAssumption DEF AnswerKick, ModerationTypeOK
  <2>2. CASE KickOne(ClientsOfAccount(call[c].account))
    BY <2>1, <2>2 DEF Next, KickClientByAccountId
  <2> QED BY <1>2, <2>2 DEF AnswerKick, KickAccount
<1>3. CASE ModerationStep /\ ~\E c \in Callers : AnswerKick(c)
  BY <1>3 DEF ModerationStep, Admit, AdmitUnread, PostBan, WriteBan, CallFails, Expire
<1> QED
  BY <1>1, <1>2, <1>3 DEF ModerationNext

LEMMA TermType ==
    ASSUME NEW asked \in Durations \cup {Permanent}
    PROVE  Term(asked) \in Terms
  BY ModerationAssumption DEF Term, Terms, Converted

-----------------------------------------------------------------------------
(* The invariant *)

\* A permission once checked is that of the call's role.
CallsArePermitted ==
    \A c \in Callers : call[c].step # "none" => HasPermission(c, call[c].asked)

\* An admitted session that no ban has missed is on its way out as soon as the
\* kick of a ban has been handled, and not only when the ban is written.
KickedOrMissed ==
    \A s \in admitted \ missed :
        (ban[AccountOf[s]] # None \/ KickIsPast(AccountOf[s])) => kick[s] \/ Over(s)

ModerationInv ==
    /\ IInv
    /\ ModerationTypeOK
    /\ CallsArePermitted
    /\ BansAreWithinRights
    /\ KickedOrMissed

LEMMA InitModeration == ModerationInit => ModerationInv
<1> SUFFICES ASSUME ModerationInit PROVE ModerationInv
  OBVIOUS
<1>1. IInv
  BY InitInvariant DEF ModerationInit
<1>2. ModerationTypeOK
  BY DEF ModerationInit, Init, ModerationTypeOK, Call, NoCall
<1>3. CallsArePermitted /\ BansAreWithinRights /\ KickedOrMissed
  BY DEF ModerationInit, CallsArePermitted, BansAreWithinRights, KickedOrMissed, NoCall
<1> QED
  BY <1>1, <1>2, <1>3 DEF ModerationInv

\* The calls and the records keep their types.
LEMMA ModerationTypeKept ==
    ASSUME IInv, ModerationTypeOK, ModerationNext
    PROVE  ModerationTypeOK'
<1>1. CASE ServerOrSession
  <2>1. UNCHANGED moderationVars /\ Next
    BY <1>1 DEF ServerOrSession, Next
  <2>2. ASSUME NEW s \in Sessions, stage'[s] # "new" PROVE s \in admitted
    <3>1. CASE stage[s] # "new"
      BY <3>1 DEF ModerationTypeOK
    <3>2. CASE stage[s] = "new"
      <4>1. ASSUME NEW t \in Sessions, t # s, PlayerStep(t) PROVE FALSE
        BY <2>2, <3>2, <4>1
           DEF PlayerStep, Start, Close, Leave, SendData, SendGrab, SendAttack,
               SendJoin, Forward, gameVars, sessionVars, IInv, TypeOK
      <4>2. ASSUME NEW t \in Sessions, ServerStep(t) \/ SessionStep(t) PROVE FALSE
        BY <2>2, <3>2, <4>2
           DEF SessionStep, TakeId, TakeReply, HandleKick, Leave, DropActor,
               ServerStep, SkipRequest, HandleConnect, HandleDisconnect, HandleData,
               HandleGrab, HandleAttack, HandleJoin, gameVars, sessionVars, IInv, TypeOK
      <4>3. ~KickClientByIpAddr
        BY <2>2, <3>2 DEF KickClientByIpAddr, KickOne
      <4> QED BY <1>1, <3>2, <4>1, <4>2, <4>3 DEF ServerOrSession
    <3> QED BY <3>1, <3>2
  <2> QED BY <2>1, <2>2 DEF ModerationTypeOK, moderationVars
<1>2. ASSUME NEW s \in Sessions, Admit(s) \/ AdmitUnread(s) PROVE ModerationTypeOK'
  BY <1>2 DEF Admit, AdmitUnread, ModerationTypeOK, vars
<1>3. ASSUME NEW c \in Callers, NEW a \in Accounts,
             NEW asked \in Durations \cup {Permanent}, PostBan(c, a, asked)
      PROVE  ModerationTypeOK'
  <2> DEFINE new == [step |-> "kick", account |-> a, asked |-> asked]
  <2>1. new \in Call /\ new.account \in Accounts /\ new.asked # None
    BY ModerationAssumption DEF Call
  <2>2. call' = [call EXCEPT ![c] = new]
    BY <1>3 DEF PostBan
  <2> HIDE DEF new
  <2> QED BY <1>3, <2>1, <2>2 DEF PostBan, ModerationTypeOK, vars
<1>4. ASSUME NEW c \in Callers, AnswerKick(c) PROVE ModerationTypeOK'
  <2>1. stage' = stage
    BY <1>4 DEF AnswerKick, KickAccount, KickOne, vars
  <2> QED BY <1>4, <2>1 DEF AnswerKick, ModerationTypeOK, Call
<1>5. ASSUME NEW c \in Callers, WriteBan(c) PROVE ModerationTypeOK'
  <2>1. call[c].asked \in Durations \cup {Permanent}
    BY <1>5 DEF WriteBan, ModerationTypeOK, Call
  <2>2. NoCall \in Call /\ NoCall.step = "none"
    BY DEF NoCall, Call
  <2> QED BY <1>5, <2>1, <2>2, TermType DEF WriteBan, ModerationTypeOK, vars
<1>6. ASSUME NEW c \in Callers, CallFails(c) PROVE ModerationTypeOK'
  BY <1>6 DEF CallFails, ModerationTypeOK, vars, NoCall, Call
<1>7. ASSUME NEW a \in Accounts, Expire(a) PROVE ModerationTypeOK'
  BY <1>7 DEF Expire, ModerationTypeOK, vars
<1> QED
  BY <1>1, <1>2, <1>3, <1>4, <1>5, <1>6, <1>7 DEF ModerationNext, ModerationStep

\* A ban is written with the duration that was checked.
LEMMA RightsKept ==
    ASSUME ModerationTypeOK, CallsArePermitted, BansAreWithinRights, ModerationNext
    PROVE  CallsArePermitted' /\ BansAreWithinRights'
<1>1. CASE UNCHANGED <<ban, call>>
  BY <1>1 DEF CallsArePermitted, BansAreWithinRights
<1>2. ASSUME NEW c \in Callers, NEW a \in Accounts,
             NEW asked \in Durations \cup {Permanent}, PostBan(c, a, asked)
      PROVE  CallsArePermitted' /\ BansAreWithinRights'
  <2>1. /\ UNCHANGED ban
        /\ HasPermission(c, asked)
        /\ call'[c].asked = asked
        /\ \A d \in Callers : d # c => call'[d] = call[d]
    BY <1>2 DEF PostBan, ModerationTypeOK
  <2> QED BY <2>1 DEF CallsArePermitted, BansAreWithinRights
<1>3. ASSUME NEW c \in Callers, AnswerKick(c)
      PROVE  CallsArePermitted' /\ BansAreWithinRights'
  <2>1. /\ UNCHANGED ban
        /\ call[c].step # "none"
        /\ \A d \in Callers : call'[d].asked = call[d].asked
        /\ \A d \in Callers : d # c => call'[d] = call[d]
    BY <1>3 DEF AnswerKick, ModerationTypeOK, Call
  <2> QED BY <2>1 DEF CallsArePermitted, BansAreWithinRights
<1>4. ASSUME NEW c \in Callers, WriteBan(c)
      PROVE  CallsArePermitted' /\ BansAreWithinRights'
  <2> DEFINE a == call[c].account
             asked == call[c].asked
  <2>1. /\ a \in Accounts /\ asked \in Durations \cup {Permanent}
        /\ HasPermission(c, asked)
    BY <1>4 DEF WriteBan, ModerationTypeOK, Call, CallsArePermitted
  <2>2. /\ ban'[a] = Term(asked)
        /\ \A b \in Accounts : b # a => ban'[b] = ban[b]
        /\ \A d \in Callers : call'[d].step # "none" => call'[d] = call[d]
    BY <1>4, <2>1 DEF WriteBan, ModerationTypeOK, NoCall
  <2>3. IF Term(asked) = Permanent THEN RoleOf[c] \in MayBanForEver
        ELSE Term(asked) <= TempBanLimit[RoleOf[c]]
    BY <2>1, ModerationAssumption DEF HasPermission, Term, Converted
  <2> HIDE DEF a, asked
  <2> QED BY <2>2, <2>3 DEF CallsArePermitted, BansAreWithinRights
<1>5. ASSUME NEW c \in Callers, CallFails(c)
      PROVE  CallsArePermitted' /\ BansAreWithinRights'
  <2>1. /\ UNCHANGED ban
        /\ \A d \in Callers : call'[d].step # "none" => call'[d] = call[d]
    BY <1>5 DEF CallFails, ModerationTypeOK, NoCall
  <2> QED BY <2>1 DEF CallsArePermitted, BansAreWithinRights
<1>6. ASSUME NEW a \in Accounts, Expire(a)
      PROVE  CallsArePermitted' /\ BansAreWithinRights'
  <2>1. /\ UNCHANGED call
        /\ \A b \in Accounts : ban'[b] # None => ban'[b] = ban[b]
    BY <1>6 DEF Expire, ModerationTypeOK
  <2> QED BY <2>1 DEF CallsArePermitted, BansAreWithinRights
<1>7. (\E s \in Sessions : Admit(s) \/ AdmitUnread(s)) => UNCHANGED <<ban, call>>
  BY DEF Admit, AdmitUnread
<1>8. ServerOrSession => UNCHANGED <<ban, call>>
  BY DEF ServerOrSession, moderationVars
<1> QED
  BY <1>1, <1>2, <1>3, <1>4, <1>5, <1>6, <1>7, <1>8 DEF ModerationNext, ModerationStep

\* The kick of a ban ends the only client of the account.
LEMMA OnlyClientIsKicked ==
    ASSUME IInv, NEW s \in Sessions, IsOnlyClient(s), KickAccount(AccountOf[s])
    PROVE  kick'[s] \/ Over(s)'
<1>1. PICK id \in SocketIds :
        ClientsOfAccount(AccountOf[s]) = {id} /\ clients[id].owner = s
  BY DEF IsOnlyClient
<1>2. CASE KickOne(ClientsOfAccount(AccountOf[s]))
  BY <1>1, <1>2 DEF KickOne, KickOwner, IInv, TypeOK
<1>3. CASE UNCHANGED vars /\ ~Reachable(s)
  BY <1>3 DEF vars, Reachable, Over
<1> QED
  BY <1>1, <1>2, <1>3 DEF KickAccount

\* Nobody slips through but the missed: the kick comes before the ban, and both
\* before the next connection that is admitted.
LEMMA KickedOrMissedKept ==
    ASSUME ModerationInv, ModerationNext
    PROVE  KickedOrMissed'
<1> USE DEF ModerationInv
<1>1. \A s \in Sessions : kick[s] \/ Over(s) => kick'[s] \/ Over(s)'
  <2>1. CASE Next
    BY <2>1, EndingStays
  <2>2. CASE UNCHANGED vars
    BY <2>2 DEF vars, Over
  <2> QED BY <2>1, <2>2, StepIsServerStep
<1>2. ASSUME /\ admitted' \subseteq Sessions
             /\ admitted' \ missed' \subseteq admitted \ missed
             /\ \A a \in Accounts :
                  /\ ban'[a] # None => ban[a] # None \/ KickIsPast(a)
                  /\ KickIsPast(a)' => KickIsPast(a)
      PROVE  KickedOrMissed'
  BY <1>1, <1>2 DEF KickedOrMissed, Accounts
<1>3. CASE ServerOrSession
  BY <1>2, <1>3 DEF ServerOrSession, moderationVars, ModerationTypeOK, KickIsPast
<1>4. ASSUME NEW s \in Sessions, Admit(s) \/ AdmitUnread(s)
      PROVE  KickedOrMissed'
  <2>1. /\ UNCHANGED <<ban, call, kick, stage>>
        /\ admitted' \subseteq Sessions
        /\ admitted' \ missed' \subseteq (admitted \ missed) \cup {s}
        /\ s \in missed' \/ (ban[AccountOf[s]] = None /\ ~KickIsPast(AccountOf[s]))
    BY <1>4 DEF Admit, AdmitUnread, ModerationTypeOK, vars
  <2> QED BY <2>1 DEF KickedOrMissed, KickIsPast, Over
<1>5. ASSUME NEW c \in Callers, NEW a \in Accounts,
             NEW asked \in Durations \cup {Permanent}, PostBan(c, a, asked)
      PROVE  KickedOrMissed'
  <2>1. \A d \in Callers : call'[d].step = "locate" => call'[d] = call[d]
    BY <1>5 DEF PostBan, ModerationTypeOK
  <2> QED BY <1>2, <1>5, <2>1 DEF PostBan, ModerationTypeOK, KickIsPast
<1>6. ASSUME NEW c \in Callers, AnswerKick(c)
      PROVE  KickedOrMissed'
  <2> DEFINE a == call[c].account
  <2>1. /\ UNCHANGED <<ban, admitted>>
        /\ KickAccount(a)
        /\ missed' = missed \cup {s \in admitted : AccountOf[s] = a /\ ~IsOnlyClient(s)}
        /\ admitted \subseteq Sessions
    BY <1>6 DEF AnswerKick, ModerationTypeOK
  <2>2. \A b \in Accounts : b # a => (KickIsPast(b)' => KickIsPast(b))
    <3>1. \A d \in Callers : d # c => call'[d] = call[d]
      BY <1>6 DEF AnswerKick, ModerationTypeOK
    <3>2. call'[c].account = a
      BY <1>6 DEF AnswerKick, ModerationTypeOK, Call
    <3> HIDE DEF a
    <3> QED BY <3>1, <3>2 DEF KickIsPast
  <2>3. SUFFICES ASSUME NEW s \in admitted', s \notin missed',
                        ban'[AccountOf[s]] # None \/ KickIsPast(AccountOf[s])'
                 PROVE  kick'[s] \/ Over(s)'
    BY DEF KickedOrMissed
  <2>4. s \in Sessions /\ s \in admitted \ missed /\ AccountOf[s] \in Accounts
    BY <2>1, <2>3 DEF Accounts
  <2>5. CASE AccountOf[s] = a
    BY <2>1, <2>3, <2>4, <2>5, OnlyClientIsKicked
  <2>6. CASE AccountOf[s] # a
    <3>1. kick[s] \/ Over(s)
      BY <2>1, <2>2, <2>3, <2>4, <2>6 DEF KickedOrMissed
    <3> QED BY <1>1, <2>4, <3>1
  <2> QED BY <2>5, <2>6
<1>7. ASSUME NEW c \in Callers, WriteBan(c)
      PROVE  KickedOrMissed'
  <2>1. /\ UNCHANGED <<admitted, missed>>
        /\ KickIsPast(call[c].account)
        /\ \A a \in Accounts : a # call[c].account => ban'[a] = ban[a]
        /\ \A d \in Callers : call'[d].step = "locate" => call'[d] = call[d]
    BY <1>7 DEF WriteBan, ModerationTypeOK, KickIsPast, NoCall
  <2> QED BY <1>2, <2>1 DEF ModerationTypeOK, KickIsPast
<1>8. ASSUME NEW c \in Callers, CallFails(c)
      PROVE  KickedOrMissed'
  <2>1. /\ UNCHANGED <<admitted, missed, ban>>
        /\ \A d \in Callers : call'[d].step = "locate" => call'[d] = call[d]
    BY <1>8 DEF CallFails, ModerationTypeOK, NoCall
  <2> QED BY <1>2, <2>1 DEF ModerationTypeOK, KickIsPast
<1>9. ASSUME NEW a \in Accounts, Expire(a)
      PROVE  KickedOrMissed'
  <2>1. /\ UNCHANGED <<admitted, missed, call>>
        /\ \A b \in Accounts : ban'[b] # None => ban'[b] = ban[b]
    BY <1>9 DEF Expire, ModerationTypeOK
  <2> QED BY <1>2, <2>1 DEF ModerationTypeOK, KickIsPast
<1> QED
  BY <1>3, <1>4, <1>5, <1>6, <1>7, <1>8, <1>9 DEF ModerationNext, ModerationStep

-----------------------------------------------------------------------------
(* The theorems *)

\* The composition is an MmoServer whose administrators kick when they ban:
\* everything proved of MmoServer holds of it.
THEOREM ServerIsMmoServer == ModerationSpec => Spec /\ []ModerationInv
<1>1. ModerationInit => Init /\ ModerationInv
  BY InitModeration DEF ModerationInit
<1>2. ModerationInv /\ [ModerationNext]_allVars => [Next]_vars /\ ModerationInv'
  <2>1. ASSUME ModerationInv, ModerationNext PROVE [Next]_vars /\ ModerationInv'
    <3>1. [Next]_vars
      BY <2>1, StepIsServerStep DEF ModerationInv
    <3>2. IInv'
      BY <2>1, <3>1, StepInvariant DEF ModerationInv
    <3>3. ModerationTypeOK'
      BY <2>1, ModerationTypeKept DEF ModerationInv
    <3>4. CallsArePermitted' /\ BansAreWithinRights'
      BY <2>1, RightsKept DEF ModerationInv
    <3>5. KickedOrMissed'
      BY <2>1, KickedOrMissedKept
    <3> QED BY <3>1, <3>2, <3>3, <3>4, <3>5 DEF ModerationInv
  <2>2. ASSUME ModerationInv, UNCHANGED allVars PROVE [Next]_vars /\ ModerationInv'
    <3>1. UNCHANGED vars /\ UNCHANGED moderationVars
      BY <2>2 DEF allVars
    <3>2. IInv'
      BY <2>2, <3>1, StepInvariant DEF ModerationInv
    <3>3. ModerationTypeOK'
      BY <2>2, <3>1 DEF ModerationInv, ModerationTypeOK, vars, moderationVars
    <3>4. CallsArePermitted' /\ BansAreWithinRights' /\ KickedOrMissed'
      BY <2>2, <3>1 DEF ModerationInv, CallsArePermitted, BansAreWithinRights,
                        KickedOrMissed, KickIsPast, Over, vars, moderationVars
    <3> QED BY <3>1, <3>2, <3>3, <3>4 DEF ModerationInv
  <2> QED BY <2>1, <2>2
<1> QED
  BY <1>1, <1>2, PTL DEF ModerationSpec, Spec

\* Calls, bans and admitted connections keep their types, and no session starts
\* that was not admitted.
THEOREM ModerationTypes == ModerationSpec => []ModerationTypeOK
<1>1. ModerationInv => ModerationTypeOK
  BY DEF ModerationInv
<1> QED
  BY <1>1, ServerIsMmoServer, PTL

\* Whoever is connected to a banned account is being kicked, or is one of those
\* the kick or the check could not reach, for any number of connections,
\* accounts and calls that overlap.
THEOREM BannedAreKicked == ModerationSpec => []BannedAreKickedUnlessMissed
<1>1. ModerationInv => BannedAreKickedUnlessMissed
  BY DEF ModerationInv, KickedOrMissed, BannedAreKickedUnlessMissed
<1> QED
  BY <1>1, ServerIsMmoServer, PTL

\* A ban in force is one that the role of some caller may impose, also when the
\* duration asked for cannot be represented.
THEOREM BansWithinRights == ModerationSpec => []BansAreWithinRights
<1>1. ModerationInv => BansAreWithinRights
  BY DEF ModerationInv
<1> QED
  BY <1>1, ServerIsMmoServer, PTL
=============================================================================

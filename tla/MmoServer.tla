------------------------------ MODULE MmoServer ------------------------------
(***************************************************************************)
(* The game server actor (crates/sm64js-ws/src/server.rs), the websocket   *)
(* sessions that talk to it (session.rs), and the two tables they share    *)
(* with the game loop: clients (client.rs) and the rooms (room.rs).        *)
(*                                                                         *)
(* A session is an actor of its own.  It sends its messages to the server  *)
(* in order (one queue per session, mailbox[s]); the server handles one    *)
(* message at a time, whichever session's comes first.  Administrators     *)
(* kick through the HTTP API, which also reaches the server as messages.   *)
(*                                                                         *)
(* Positions, names, skins and chat are not part of this module.  Flag     *)
(* movement is in Flags, chat in ChatHistory.                              *)
(***************************************************************************)
EXTENDS Naturals, Sequences, FiniteSets

CONSTANTS
    Sessions,     \* websocket connections, each used once
    SocketIds,    \* the non-zero ids rand::thread_rng().gen::<u32>() may give
    Rooms,        \* the levels that have a room (init_rooms)
    Flags,        \* all flags, numbered in the order of Room.flags
    RoomOf,       \* the room a flag belongs to
    AccountOf,    \* the account a connection was authenticated with
    IpOf,         \* the address a connection comes from
    Draw,         \* the ids the generator may give to a connection
    KickAccounts, \* accounts an administrator may kick
    KickIps,      \* addresses an administrator may kick
    MaxMail,      \* bound: messages of a session the server has not handled
    NoId,         \* the id 0 a session carries until Connect is answered
    None          \* Option::None

Accounts == {AccountOf[s] : s \in Sessions}
Ips == {IpOf[s] : s \in Sessions}

ASSUME ConstantsAssumption ==
    /\ Flags \subseteq Nat
    /\ RoomOf \in [Flags -> Rooms]
    /\ Draw \in [Sessions -> SUBSET SocketIds]
    /\ MaxMail \in Nat
    /\ NoId \notin SocketIds
    /\ None \notin SocketIds \cup {NoId}
    /\ None \notin Rooms

\* The generator does not give the same id to two connections.  The code does
\* not check it (server.rs:78-81); it holds but for 2^-32 accidents.
ASSUME DrawsDisjoint ==
    \A s, t \in Sessions : s # t => Draw[s] \cap Draw[t] = {}

VARIABLES
    stage,    \* stage[s]: how far the session actor is
    sid,      \* sid[s]: Sm64JsWsSession.id
    reply,    \* reply[s]: the answer to the request the session waits for
    kick,     \* kick[s]: a Message::Kick is in the session's mailbox
    mailbox,  \* mailbox[s]: messages from s the server has not handled
    clients,  \* Sm64JsServer.clients
    players,  \* Sm64JsServer.players: the level of each player
    roster,   \* roster[r]: ids whose Weak in Room.players upgrades
    holder    \* holder[f]: Flag.linked_to_player

vars == <<stage, sid, reply, kick, mailbox, clients, players, roster, holder>>

sessionVars == <<stage, sid, reply, kick>>
gameVars == <<clients, players, roster, holder>>

-----------------------------------------------------------------------------
(* Types *)

Stages == {"new", "connecting", "open", "waiting", "stopping", "stopped"}

Client == [owner : Sessions, level : Rooms \cup {None}, placed : BOOLEAN]

ASSUME NoneIsNoClient == None \notin Client

Message ==
         [type : {"connect"}]
    \cup [type : {"disconnect", "data"}, id : SocketIds \cup {NoId}]
    \cup [type : {"join"}, id : SocketIds \cup {NoId}, level : Rooms]
    \cup [type : {"grab"}, id : SocketIds \cup {NoId}, flag : Flags]
    \cup [type : {"attack"}, id : SocketIds \cup {NoId}, flag : Flags,
          target : SocketIds]

TypeOK ==
    /\ stage \in [Sessions -> Stages]
    /\ sid \in [Sessions -> SocketIds \cup {NoId}]
    /\ reply \in [Sessions -> SocketIds \cup {NoId, None}]
    /\ kick \in [Sessions -> BOOLEAN]
    /\ mailbox \in [Sessions -> Seq(Message)]
    /\ clients \in [SocketIds -> Client \cup {None}]
    /\ players \in [SocketIds -> Rooms \cup {None}]
    /\ roster \in [Rooms -> SUBSET SocketIds]
    /\ holder \in [Flags -> SocketIds \cup {None}]

Init ==
    /\ stage = [s \in Sessions |-> "new"]
    /\ sid = [s \in Sessions |-> NoId]
    /\ reply = [s \in Sessions |-> None]
    /\ kick = [s \in Sessions |-> FALSE]
    /\ mailbox = [s \in Sessions |-> << >>]
    /\ clients = [i \in SocketIds |-> None]
    /\ players = [i \in SocketIds |-> None]
    /\ roster = [r \in Rooms |-> {}]
    /\ holder = [f \in Flags |-> None]

-----------------------------------------------------------------------------
(* The session actor *)

\* An actor that has not been dropped still owns its mailbox: do_send to it
\* is Ok.  Once it is dropped do_send is an Err.
Reachable(s) == stage[s] # "stopped"

\* started(): ask the server for an id and wait for it.
Start(s) ==
    /\ stage[s] = "new"
    /\ stage' = [stage EXCEPT ![s] = "connecting"]
    /\ mailbox' = [mailbox EXCEPT ![s] = Append(@, [type |-> "connect"])]
    /\ UNCHANGED <<sid, reply, kick, gameVars>>

\* The answer to Connect arrives: the session takes its id.
TakeId(s) ==
    /\ stage[s] = "connecting"
    /\ reply[s] # None
    /\ sid' = [sid EXCEPT ![s] = reply[s]]
    /\ reply' = [reply EXCEPT ![s] = None]
    /\ stage' = [stage EXCEPT ![s] = "open"]
    /\ UNCHANGED <<kick, mailbox, gameVars>>

\* The answer to SendJoinGame arrives: the session listens again.
TakeReply(s) ==
    /\ stage[s] = "waiting"
    /\ reply[s] # None
    /\ reply' = [reply EXCEPT ![s] = None]
    /\ stage' = [stage EXCEPT ![s] = "open"]
    /\ UNCHANGED <<sid, kick, mailbox, gameVars>>

\* A message of the player is forwarded without waiting (do_send).
Forward(s, msg) ==
    /\ stage[s] = "open"
    /\ Len(mailbox[s]) < MaxMail
    /\ mailbox' = [mailbox EXCEPT ![s] = Append(@, msg)]
    /\ UNCHANGED <<sessionVars, gameVars>>

SendData(s) == Forward(s, [type |-> "data", id |-> sid[s]])

SendGrab(s) ==
    \E f \in Flags : Forward(s, [type |-> "grab", id |-> sid[s], flag |-> f])

SendAttack(s) ==
    \E f \in Flags, t \in SocketIds :
        Forward(s, [type |-> "attack", id |-> sid[s], flag |-> f, target |-> t])

\* JoinGameMsg: the session forwards it and waits for the answer; meanwhile it
\* reads neither its player's messages nor its mailbox.
SendJoin(s) ==
    /\ stage[s] = "open"
    /\ Len(mailbox[s]) < MaxMail
    /\ \E r \in Rooms :
          mailbox' = [mailbox EXCEPT ![s] =
                        Append(@, [type |-> "join", id |-> sid[s], level |-> r])]
    /\ stage' = [stage EXCEPT ![s] = "waiting"]
    /\ UNCHANGED <<sid, reply, kick, gameVars>>

\* Mutant: the session says goodbye with the id it was created with.
LeaveMutFirstId(s) ==
    /\ stage' = [stage EXCEPT ![s] = "stopping"]
    /\ mailbox' = [mailbox EXCEPT ![s] = Append(@, [type |-> "disconnect", id |-> NoId])]
    /\ UNCHANGED <<sid, reply, kick, gameVars>>

\* stopping(): whatever stops the session, it sends Disconnect with its id.
Leave(s) ==
    /\ stage' = [stage EXCEPT ![s] = "stopping"]
    /\ mailbox' = [mailbox EXCEPT ![s] =
                     Append(@, [type |-> "disconnect", id |-> sid[s]])]
    /\ UNCHANGED <<sid, reply, kick, gameVars>>

\* The connection is closed or lost, a heartbeat check fails, or the player
\* sends Close: at any time after started(), even while a request is pending.
Close(s) ==
    /\ stage[s] \in {"connecting", "open", "waiting"}
    /\ Leave(s)

\* Mutant: a Kick is read, and the session goes on.
HandleKickMutGoesOn(s) ==
    /\ stage[s] = "open"
    /\ kick[s]
    /\ kick' = [kick EXCEPT ![s] = FALSE]
    /\ UNCHANGED <<stage, sid, reply, mailbox, gameVars>>

\* Message::Kick is read from the mailbox, which only an open session does.
HandleKick(s) ==
    /\ stage[s] = "open"
    /\ kick[s]
    /\ Leave(s)

\* The stopped actor is dropped, with its mailbox and its pending request.
DropActor(s) ==
    /\ stage[s] = "stopping"
    /\ stage' = [stage EXCEPT ![s] = "stopped"]
    /\ reply' = [reply EXCEPT ![s] = None]
    /\ kick' = [kick EXCEPT ![s] = FALSE]
    /\ UNCHANGED <<sid, mailbox, gameVars>>

-----------------------------------------------------------------------------
(* The server actor: one handler per message *)

Present(id) == id \in SocketIds /\ clients[id] # None

Playing(id) == id \in SocketIds /\ players[id] # None

Receives(s, type) ==
    /\ mailbox[s] # << >>
    /\ Head(mailbox[s]).type = type
    /\ mailbox' = [mailbox EXCEPT ![s] = Tail(@)]

\* Mutant: nobody is told.
KickOwnerMutSilent(id) == kick' = kick

\* do_send(Message::Kick) to the session that owns a client entry.
KickOwner(id) ==
    kick' = [kick EXCEPT ![clients[id].owner] = @ \/ Reachable(clients[id].owner)]

ClientsOfAccount(a) ==
    {i \in SocketIds : clients[i] # None /\ AccountOf[clients[i].owner] = a}

ClientsOfIp(ip) ==
    {i \in SocketIds : clients[i] # None /\ IpOf[clients[i].owner] = ip}

\* Mutant: the room keeps its players alive.
ReleaseMutStrong(id) == roster

\* Dropping the only Arc of a player makes every Weak to it dead.
Release(id) == [r \in Rooms |-> roster[r] \ {id}]

\* A request whose sender has been dropped is not handled at all.
SkipRequest(s) ==
    /\ Receives(s, "connect") \/ Receives(s, "join")
    /\ ~Reachable(s)
    /\ UNCHANGED <<sessionVars, gameVars>>

\* Mutant: a client is created in room 0.
NewClientMutRoomZero(s) == [owner |-> s, level |-> NoId, placed |-> FALSE]

\* Client::new
NewClient(s) == [owner |-> s, level |-> None, placed |-> FALSE]

\* Mutant: the older session of the account stays.
HandleConnectMutNoKick(s) ==
    /\ Receives(s, "connect")
    /\ Reachable(s)
    /\ \E id \in Draw[s] :
          /\ clients' = [clients EXCEPT ![id] = NewClient(s)]
          /\ reply' = [reply EXCEPT ![s] = id]
    /\ UNCHANGED <<stage, sid, kick, players, roster, holder>>

\* Connect: kick one session of the same account, if there is any, and insert a
\* new client.  The map's order decides which one find() returns.
HandleConnect(s) ==
    /\ Receives(s, "connect")
    /\ Reachable(s)
    /\ \/ /\ ClientsOfAccount(AccountOf[s]) = {}
          /\ kick' = kick
       \/ \E old \in ClientsOfAccount(AccountOf[s]) : KickOwner(old)
    /\ \E id \in Draw[s] :
          /\ clients' = [clients EXCEPT ![id] = NewClient(s)]
          /\ reply' = [reply EXCEPT ![s] = id]
    /\ UNCHANGED <<stage, sid, players, roster, holder>>

\* find() returns the first flag of the room that is linked to the player.
IsFirstHeld(f, r, id) ==
    LET held == {g \in Flags : RoomOf[g] = r /\ holder[g] = id}
    IN  f \in held /\ \A g \in held : f <= g

\* Mutant: a player that leaves keeps its flag.
DropFlagIfHoldingMutKeeps(r, id) == holder

DropFlagIfHolding(r, id) ==
    [f \in Flags |-> IF IsFirstHeld(f, r, id) THEN None ELSE holder[f]]

\* Mutant: Disconnect forgets the client but not its player.
HandleDisconnectMutPlayerStays(s) ==
    /\ Receives(s, "disconnect")
    /\ LET id == Head(mailbox[s]).id IN
          clients' = [i \in SocketIds |-> IF i = id THEN None ELSE clients[i]]
    /\ UNCHANGED <<sessionVars, players, roster, holder>>

\* Disconnect: forget the client and its player; the player's room drops a flag.
HandleDisconnect(s) ==
    /\ Receives(s, "disconnect")
    /\ LET id == Head(mailbox[s]).id IN
          /\ clients' = [i \in SocketIds |-> IF i = id THEN None ELSE clients[i]]
          /\ players' = [i \in SocketIds |-> IF i = id THEN None ELSE players[i]]
          /\ roster' = Release(id)
          /\ holder' = IF Playing(id) THEN DropFlagIfHolding(players[id], id)
                                      ELSE holder
    /\ UNCHANGED sessionVars

\* SetData: the client now has a position.
HandleData(s) ==
    /\ Receives(s, "data")
    /\ LET id == Head(mailbox[s]).id IN
          clients' = IF Present(id) THEN [clients EXCEPT ![id].placed = TRUE]
                                    ELSE clients
    /\ UNCHANGED <<sessionVars, players, roster, holder>>

\* Mutant: a flag is taken from whoever carries it.
HandleGrabMutSteals(s) ==
    /\ Receives(s, "grab")
    /\ LET id == Head(mailbox[s]).id
           f == Head(mailbox[s]).flag
       IN  \/ /\ Present(id) /\ clients[id].level = RoomOf[f]
              /\ holder' = [holder EXCEPT ![f] = id]
           \/ holder' = holder
    /\ UNCHANGED <<sessionVars, clients, players, roster>>

\* SendGrabFlag: a free flag of the client's room is linked to it when it is
\* near; how near is not modelled.
HandleGrab(s) ==
    /\ Receives(s, "grab")
    /\ LET id == Head(mailbox[s]).id
           f == Head(mailbox[s]).flag
       IN  \/ /\ Present(id) /\ clients[id].level = RoomOf[f]
              /\ holder[f] = None
              /\ holder' = [holder EXCEPT ![f] = id]
           \/ holder' = holder
    /\ UNCHANGED <<sessionVars, clients, players, roster>>

\* SendAttack: a flag of the client's room drops if it is linked to the target.
HandleAttack(s) ==
    /\ Receives(s, "attack")
    /\ LET id == Head(mailbox[s]).id
           f == Head(mailbox[s]).flag
       IN  holder' = IF /\ Present(id) /\ clients[id].placed
                        /\ clients[id].level = RoomOf[f]
                        /\ holder[f] = Head(mailbox[s]).target
                     THEN [holder EXCEPT ![f] = None]
                     ELSE holder
    /\ UNCHANGED <<sessionVars, clients, players, roster>>

\* Mutant: the level is not written to the client.
AcceptJoinMutNoLevel(id, r) ==
    /\ id \in SocketIds
    /\ id \notin roster[r]
    /\ roster' = [Release(id) EXCEPT ![r] = @ \cup {id}]
    /\ players' = [players EXCEPT ![id] = r]
    /\ UNCHANGED <<clients, holder>>

\* SendJoinGame accepted: a new player in the room, replacing any player of the
\* same id in another room.
AcceptJoin(id, r) ==
    /\ id \in SocketIds
    /\ id \notin roster[r]
    /\ roster' = [Release(id) EXCEPT ![r] = @ \cup {id}]
    /\ clients' = IF Present(id) THEN [clients EXCEPT ![id].level = r] ELSE clients
    /\ players' = [players EXCEPT ![id] = r]
    /\ UNCHANGED holder

\* Mutant: a refused join is not answered.
HandleJoinMutNoAnswer(s) ==
    /\ Receives(s, "join")
    /\ Reachable(s)
    /\ \/ /\ AcceptJoin(Head(mailbox[s]).id, Head(mailbox[s]).level)
          /\ reply' = [reply EXCEPT ![s] = NoId]
       \/ UNCHANGED <<gameVars, reply>>
    /\ UNCHANGED <<stage, sid, kick>>

\* SendJoinGame: refused for a player already there, and for the name or level
\* the message carries (either answer is possible).
HandleJoin(s) ==
    /\ Receives(s, "join")
    /\ Reachable(s)
    /\ \/ AcceptJoin(Head(mailbox[s]).id, Head(mailbox[s]).level)
       \/ UNCHANGED gameVars
    /\ reply' = [reply EXCEPT ![s] = NoId]
    /\ UNCHANGED <<stage, sid, kick>>

\* KickClientByAccountId, KickClientByIpAddr: kick one client and forget it
\* and its player; its flag stays linked.  When the send fails (`?`) nothing is
\* forgotten.
KickOne(found) ==
    /\ \E id \in found :
          /\ Reachable(clients[id].owner)
          /\ KickOwner(id)
          /\ clients' = [clients EXCEPT ![id] = None]
          /\ players' = [players EXCEPT ![id] = None]
          /\ roster' = Release(id)
    /\ UNCHANGED <<stage, sid, reply, mailbox, holder>>

KickClientByAccountId == \E a \in KickAccounts : KickOne(ClientsOfAccount(a))

KickClientByIpAddr == \E ip \in KickIps : KickOne(ClientsOfIp(ip))

-----------------------------------------------------------------------------

ServerStep(s) ==
    \/ SkipRequest(s) \/ HandleConnect(s) \/ HandleDisconnect(s) \/ HandleData(s)
    \/ HandleGrab(s) \/ HandleAttack(s) \/ HandleJoin(s)

SessionStep(s) ==
    \/ TakeId(s) \/ TakeReply(s) \/ HandleKick(s) \/ DropActor(s)

PlayerStep(s) ==
    \/ Start(s) \/ Close(s) \/ SendData(s) \/ SendGrab(s) \/ SendAttack(s)
    \/ SendJoin(s)

Next ==
    \/ \E s \in Sessions : ServerStep(s) \/ SessionStep(s) \/ PlayerStep(s)
    \/ KickClientByAccountId
    \/ KickClientByIpAddr

Spec == Init /\ [][Next]_vars

\* The executor polls an actor that has a message or an answer to read, and a
\* mailbox is a queue: no message waits for ever.  When a pending answer has
\* come, the context reads its mailbox before the socket, so a Kick is not
\* overtaken by join requests for ever.  Nothing is assumed of players and
\* administrators.
Fairness ==
    \A s \in Sessions :
        /\ WF_vars(ServerStep(s))
        /\ WF_vars(SessionStep(s))
        /\ SF_vars(HandleKick(s))

FairSpec == Spec /\ Fairness

-----------------------------------------------------------------------------
(* Safety *)

Over(s) == stage[s] \in {"stopping", "stopped"}

\* The level a client carries (used to route its attacks, grabs and chat, and to
\* choose who gets lobby data) is that of its player, or both are absent.
ClientLevelMatchesPlayer ==
    \A id \in SocketIds : clients[id] # None => clients[id].level = players[id]

\* The live Weak references of a room, which broadcasts follow and has_player
\* asks, are exactly the players whose level is that room, although players are
\* inserted and removed without a word to the room.
RosterMatchesPlayers ==
    \A r \in Rooms, id \in SocketIds : id \in roster[r] <=> players[id] = r

\* When the server has handled everything a finished session sent, nothing is
\* left in the tables under the id the session knew: no message handled late
\* brings its client or player back.
DisconnectedIsForgotten ==
    \A s \in Sessions :
        Over(s) /\ mailbox[s] = << >> /\ sid[s] # NoId
            => clients[sid[s]] = None /\ players[sid[s]] = None

\* A client entry that outlives its session is there for one reason only: the
\* session ended before it learnt its id and said goodbye as id 0.
OrphanClientNeverLearntItsId ==
    \A id \in SocketIds :
        (clients[id] # None /\ Over(clients[id].owner)
                            /\ mailbox[clients[id].owner] = << >>)
            => sid[clients[id].owner] = NoId

\* A player without a client (a kicked session's join that was on its way) is
\* on its way out: its session has a Kick or a Disconnect still to be read.
GhostPlayersAreLeaving ==
    \A id \in SocketIds :
        players[id] # None /\ clients[id] = None
            => \E s \in Sessions :
                  sid[s] = id /\ (kick[s] \/ (Over(s) /\ mailbox[s] # << >>))

\* Nothing ends the session: no Kick is on its way to it, and it is not over.
Stays(s) == ~kick[s] /\ ~Over(s)

\* Of two clients of one account, one is being kicked or over, unless a third
\* connection of the account is: a Connect kicks the first client it finds, which
\* may be one that is on its way out already.
DuplicateIsKicked ==
    \A i, j \in SocketIds :
        (/\ i # j /\ clients[i] # None /\ clients[j] # None
         /\ AccountOf[clients[i].owner] = AccountOf[clients[j].owner]
         /\ Stays(clients[i].owner) /\ Stays(clients[j].owner))
            => \E s \in Sessions : /\ AccountOf[s] = AccountOf[clients[i].owner]
                                  /\ ~Stays(s)

\* A flag passes to a player only when nobody has it, and only to one who is
\* both a client and a player of the flag's room.
FlagPassesOnlyWhenFree ==
    [][\A f \in Flags :
          holder'[f] # holder[f] /\ holder'[f] # None
              => /\ holder[f] = None
                 /\ clients[holder'[f]] # None
                 /\ players[holder'[f]] = RoomOf[f]]_vars

\* A player that ceases to play in the room of a flag it carries drops the flag,
\* but for three cases in which the code leaves it linked to an id that no longer
\* plays there: the player goes to another room; its Disconnect drops a flag of
\* the room with a lower number; an administrator kicks it, and the server has
\* no message of a session in hand.
FlagIsLeftInThreeWays ==
    [][\A f \in Flags :
          LET id == holder[f] IN
          (id # None /\ holder'[f] = id
                     /\ players[id] = RoomOf[f] /\ players'[id] # RoomOf[f])
              => \/ players'[id] # None
                 \/ \E g \in Flags : /\ g < f /\ RoomOf[g] = RoomOf[f]
                                     /\ holder[g] = id /\ holder'[g] = None
                 \/ /\ mailbox' = mailbox
                    /\ clients[id] # None /\ clients'[id] = None]_vars

-----------------------------------------------------------------------------
(* Liveness *)

\* A session that has been sent a Kick ends, and all it sent is handled.
KickedSessionEnds ==
    \A s \in Sessions : kick[s] ~> (stage[s] = "stopped" /\ mailbox[s] = << >>)

\* A player without a client does not stay.
GhostPlayersVanish ==
    \A id \in SocketIds :
        (players[id] # None /\ clients[id] = None) ~> (players[id] = None)

\* A session waiting for an answer gets it or ends.
NobodyWaitsForEver ==
    \A s \in Sessions :
        stage[s] \in {"connecting", "waiting"} ~> stage[s] \in {"open", "stopped"}
=============================================================================

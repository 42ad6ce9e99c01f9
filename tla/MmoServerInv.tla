---------------------------- MODULE MmoServerInv ----------------------------
(***************************************************************************)
(* The inductive invariant of MmoServer: what the queues of the sessions   *)
(* and the tables of the server know of each other.                        *)
(***************************************************************************)
EXTENDS MmoServer

\* A session's queue is its Connect, or its requests followed by its
\* Disconnect; every message but Connect carries the session's id.
MailIsOrdered ==
    \A s \in Sessions : \A n \in 1 .. Len(mailbox[s]) :
        LET m == mailbox[s][n] IN
        /\ m.type = "connect" => n = 1 /\ sid[s] = NoId
        /\ m.type # "connect" => m.id = sid[s]
        /\ m.type = "disconnect" => n = Len(mailbox[s])
        /\ m.type \notin {"connect", "disconnect"} => sid[s] # NoId

\* A finished session's last message is its Disconnect, and only a finished
\* session has sent one.
DisconnectIsLast ==
    \A s \in Sessions :
        mailbox[s] # << >> =>
            (Over(s) <=> mailbox[s][Len(mailbox[s])].type = "disconnect")

\* What a session that has no id yet has sent and got.
BeforeTheId ==
    \A s \in Sessions :
        /\ stage[s] = "new" => mailbox[s] = << >> /\ reply[s] = None
        /\ stage[s] \in {"new", "connecting"} => sid[s] = NoId
        /\ stage[s] = "connecting" =>
              (reply[s] = None <=> mailbox[s] # << >>)
        /\ stage[s] = "connecting" => reply[s] # NoId
        /\ stage[s] \in {"open", "waiting"} => sid[s] # NoId

\* The ids a session has been given are its own.
IdsAreDrawn ==
    \A s \in Sessions :
        /\ sid[s] # NoId => sid[s] \in Draw[s]
        /\ stage[s] = "connecting" /\ reply[s] # None => reply[s] \in Draw[s]

\* A session whose Connect is not handled owns no client; one that knows its id
\* owns no other.
ClientsHaveOwners ==
    \A id \in SocketIds : clients[id] # None =>
        LET s == clients[id].owner IN
        /\ id \in Draw[s]
        /\ stage[s] # "new"
        /\ sid[s] # NoId => sid[s] = id
        /\ stage[s] = "connecting" => reply[s] = id
        /\ mailbox[s] # << >> => mailbox[s][1].type # "connect"

\* A player was made by a session that knows its id.
PlayersHaveOwners ==
    \A id \in SocketIds : players[id] # None => \E s \in Sessions : sid[s] = id

\* A live session without its client has been sent a Kick.
ForgottenIsKicked ==
    \A s \in Sessions :
        /\ stage[s] \in {"open", "waiting"} /\ clients[sid[s]] = None => kick[s]
        /\ (stage[s] = "connecting" /\ reply[s] # None /\ clients[reply[s]] = None)
              => kick[s]

IInv ==
    /\ TypeOK
    /\ MailIsOrdered
    /\ DisconnectIsLast
    /\ BeforeTheId
    /\ IdsAreDrawn
    /\ ClientsHaveOwners
    /\ PlayersHaveOwners
    /\ ForgottenIsKicked
    /\ ClientLevelMatchesPlayer
    /\ RosterMatchesPlayers
    /\ DisconnectedIsForgotten
=============================================================================

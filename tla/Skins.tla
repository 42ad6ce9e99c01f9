------------------------------- MODULE Skins -------------------------------
(***************************************************************************)
(* How the players of a room learn each other's skins (crates/sm64js-ws/   *)
(* src/client.rs, room.rs, server.rs, game.rs).                            *)
(*                                                                         *)
(* The server actor stores a skin and marks it as updated.  The game loop  *)
(* visits the players, takes the skins that are marked and sends them to   *)
(* everybody in the room; it holds a read lock on the room all the time,   *)
(* so that nobody joins meanwhile, but skins change and players leave.     *)
(* Whoever comes later asks for all skins; the session that waits for the  *)
(* answer does not read its mailbox, and reads all of it afterwards.       *)
(***************************************************************************)
EXTENDS Naturals, Sequences, FiniteSets

CONSTANTS
    Players,  \* connections (socket ids)
    Painters, \* bound: the players who set skins
    Looks,    \* the skins there are
    NoSkin,   \* skin_data is None
    MaxMail   \* bound: broadcasts a session has not read

ASSUME SkinsAssumption ==
    NoSkin \notin Looks /\ Painters \subseteq Players /\ MaxMail \in Nat

VARIABLES
    online,   \* the connections there are
    inRoom,   \* the players of the room: Weak references that upgrade
    skin,     \* Player.skin_data
    updated,  \* Player.skin_data_updated
    loop,     \* what the game loop does: "idle", "taking", "sending"
    unvisited,\* the players it has not looked at
    taken,    \* the skins it has taken
    unsent,   \* pairs of a player and a recipient it has not sent to
    call,     \* call[c]: the request the session of c waits for, or "looking"
              \* when it is about to look at its socket
    reply,    \* reply[c]: the skins in the answer to it
    mail,     \* mail[c]: broadcast skins in the mailbox of c's session
    seen,     \* seen[c][p]: the last skin of another player p c has been sent
    told      \* observer, told[c]: whose skin c has asked for, or was in the
              \* room to be told of

loopVars == <<loop, unvisited, taken, unsent>>
sessionVars == <<call, reply, mail, seen>>
vars == <<online, inRoom, skin, updated, loopVars, sessionVars, told>>

Skin == Looks \cup {NoSkin}

NoSkins == [p \in Players |-> NoSkin]

TypeOK ==
    /\ online \subseteq Players
    /\ inRoom \subseteq online
    /\ skin \in [Players -> Skin]
    /\ updated \in [Players -> BOOLEAN]
    /\ loop \in {"idle", "taking", "sending"}
    /\ unvisited \subseteq Players
    /\ taken \in [Players -> Skin]
    /\ unsent \subseteq Players \X Players
    /\ \A pair \in unsent : taken[pair[1]] # NoSkin
    /\ loop # "taking" => unvisited = {}
    /\ loop # "sending" => unsent = {}
    /\ loop = "idle" => taken = NoSkins
    /\ call \in [Players -> {"none", "looking", "join", "skins", "answered"}]
    /\ reply \in [Players -> [Players -> Skin]]
    /\ mail \in [Players -> Seq([of : Players, skin : Looks])]
    /\ seen \in [Players -> [Players -> Skin]]
    /\ told \in [Players -> SUBSET Players]

Init ==
    /\ online = Players /\ inRoom = {}
    /\ skin = NoSkins
    /\ updated = [p \in Players |-> FALSE]
    /\ loop = "idle" /\ unvisited = {} /\ taken = NoSkins /\ unsent = {}
    /\ call = [c \in Players |-> "none"]
    /\ reply = [c \in Players |-> NoSkins]
    /\ mail = [c \in Players |-> << >>]
    /\ seen = [c \in Players |-> NoSkins]
    /\ told = [c \in Players |-> {}]

-----------------------------------------------------------------------------
(* The session of a player *)

\* It looks at its socket after it has read all of its mailbox, which may be
\* filled again meanwhile.
Look(c) ==
    /\ c \in online
    /\ call[c] = "none"
    /\ mail[c] = << >>
    /\ call' = [call EXCEPT ![c] = "looking"]
    /\ UNCHANGED <<online, inRoom, skin, updated, loopVars, reply, mail, seen, told>>

\* There is nothing to wait for.
LookAway(c) ==
    /\ c \in online
    /\ call[c] = "looking"
    /\ call' = [call EXCEPT ![c] = "none"]
    /\ UNCHANGED <<online, inRoom, skin, updated, loopVars, reply, mail, seen, told>>

\* The player joins this room or moves to another, or asks for the skins: the
\* session sends the request and waits.
Ask(c) ==
    /\ c \in online
    /\ call[c] = "looking"
    /\ \E what \in {"join", "skins"} : call' = [call EXCEPT ![c] = what]
    /\ UNCHANGED <<online, inRoom, skin, updated, loopVars, reply, mail, seen, told>>

\* The answer has come: its skins go to the client.
TakeReply(c) ==
    /\ c \in online
    /\ call[c] = "answered"
    /\ call' = [call EXCEPT ![c] = "none"]
    /\ reply' = [reply EXCEPT ![c] = NoSkins]
    /\ seen' = [seen EXCEPT ![c] =
                  [p \in Players |-> IF p # c /\ reply[c][p] # NoSkin THEN reply[c][p] ELSE @[p]]]
    /\ UNCHANGED <<online, inRoom, skin, updated, loopVars, mail, told>>

\* A broadcast is read from the mailbox, which a waiting session does not do.
Read(c) ==
    /\ c \in online
    /\ call[c] = "none"
    /\ mail[c] # << >>
    /\ LET from == Head(mail[c]).of IN
       seen' = IF from # c THEN [seen EXCEPT ![c][from] = Head(mail[c]).skin] ELSE seen
    /\ mail' = [mail EXCEPT ![c] = Tail(@)]
    /\ UNCHANGED <<online, inRoom, skin, updated, loopVars, call, reply, told>>

-----------------------------------------------------------------------------
(* The server actor *)

\* p's Player is dropped.
Drop(p) ==
    /\ inRoom' = inRoom \ {p}
    /\ skin' = [skin EXCEPT ![p] = NoSkin]
    /\ updated' = [updated EXCEPT ![p] = FALSE]

\* Mutant: only a first skin is marked.
SetSkinMutFirst(p, new) ==
    /\ p \in inRoom
    /\ call[p] # "answered"
    /\ skin' = [skin EXCEPT ![p] = new]
    /\ updated' = [updated EXCEPT ![p] = @ \/ skin[p] = NoSkin]
    /\ told' = [c \in Players |-> told[c] \cup (IF c \in inRoom \ {p} THEN {p} ELSE {})]
    /\ UNCHANGED <<online, inRoom, loopVars, sessionVars>>

\* SendSkin, sent some time ago, perhaps without a skin.
SetSkin(p, new) ==
    /\ p \in inRoom
    /\ call[p] # "answered"
    /\ skin' = [skin EXCEPT ![p] = new]
    /\ updated' = [updated EXCEPT ![p] = TRUE]
    /\ told' = [c \in Players |-> told[c] \cup (IF c \in inRoom \ {p} THEN {p} ELSE {})]
    /\ UNCHANGED <<online, inRoom, loopVars, sessionVars>>

Dressed == {p \in inRoom : skin[p] # NoSkin}

Answer(c, skins) ==
    /\ call' = [call EXCEPT ![c] = "answered"]
    /\ reply' = [reply EXCEPT ![c] = skins]

\* SendJoinGame for this room waits for its write lock.
EnterRoom(c) ==
    /\ loop = "idle"
    /\ c \notin inRoom
    /\ inRoom' = inRoom \cup {c}
    /\ told' = [told EXCEPT ![c] = {}]
    /\ UNCHANGED <<skin, updated>>

\* SendJoinGame for this room or another: it is refused for the room the player
\* is in, and may be for the name.  The Player of another room is dropped.
AnswerJoin(c) ==
    /\ c \in online
    /\ call[c] = "join"
    /\ \/ EnterRoom(c)
       \/ c \in inRoom /\ Drop(c) /\ told' = told
       \/ UNCHANGED <<inRoom, skin, updated, told>>
    /\ Answer(c, NoSkins)
    /\ UNCHANGED <<online, loopVars, mail, seen>>

\* Mutant: the mark is taken off, as the game loop does.
AnswerSkinsMutClears(c) ==
    /\ c \in online
    /\ call[c] = "skins"
    /\ IF c \in inRoom
       THEN /\ Answer(c, skin)
            /\ updated' = [p \in Players |-> FALSE]
            /\ told' = [told EXCEPT ![c] = Dressed \ {c}]
       ELSE Answer(c, NoSkins) /\ UNCHANGED <<updated, told>>
    /\ UNCHANGED <<online, inRoom, skin, loopVars, mail, seen>>

\* SendRequestCosmetics: the skins of everybody in the client's room.
AnswerSkins(c) ==
    /\ c \in online
    /\ call[c] = "skins"
    /\ IF c \in inRoom
       THEN Answer(c, skin) /\ told' = [told EXCEPT ![c] = Dressed \ {c}]
       ELSE Answer(c, NoSkins) /\ told' = told
    /\ UNCHANGED <<online, inRoom, skin, updated, loopVars, mail, seen>>

\* Disconnect, or a kick: the client and its player are forgotten at any time.
\* What the session still does is of no interest.
Vanish(p) ==
    /\ p \in online
    /\ online' = online \ {p}
    /\ Drop(p)
    /\ call' = [call EXCEPT ![p] = "none"]
    /\ reply' = [reply EXCEPT ![p] = NoSkins]
    /\ mail' = [mail EXCEPT ![p] = << >>]
    /\ seen' = [seen EXCEPT ![p] = NoSkins]
    /\ told' = [told EXCEPT ![p] = {}]
    /\ UNCHANGED loopVars

-----------------------------------------------------------------------------
(* The game loop: Room::broadcast_skins *)

\* The mailboxes of actors have no limit for do_send: the bound is the model's.
StartSkins ==
    /\ loop = "idle"
    /\ \A c \in Players : Len(mail[c]) + Cardinality(inRoom \cap Painters) <= MaxMail
    /\ loop' = "taking"
    /\ unvisited' = inRoom
    /\ UNCHANGED <<online, inRoom, skin, updated, taken, unsent, sessionVars, told>>

\* get_updated_skin_data under the player's lock, unless the player has left.
Visit(p) ==
    /\ loop = "taking"
    /\ p \in unvisited
    /\ unvisited' = unvisited \ {p}
    /\ IF updated[p]
       THEN /\ taken' = [taken EXCEPT ![p] = skin[p]]
            /\ updated' = [updated EXCEPT ![p] = FALSE]
       ELSE UNCHANGED <<taken, updated>>
    /\ UNCHANGED <<online, inRoom, skin, loop, unsent, sessionVars, told>>

\* All players are visited: the messages are complete.
Collect ==
    /\ loop = "taking"
    /\ unvisited = {}
    /\ loop' = "sending"
    /\ unsent' = {p \in Players : taken[p] # NoSkin} \X inRoom
    /\ UNCHANGED <<online, inRoom, skin, updated, unvisited, taken, sessionVars, told>>

\* broadcast_message sends one of them to one player, in any order, unless that
\* player has left.
Send(p, c) ==
    /\ <<p, c>> \in unsent
    /\ unsent' = unsent \ {<<p, c>>}
    /\ mail' = IF c \in inRoom
               THEN [mail EXCEPT ![c] = Append(@, [of |-> p, skin |-> taken[p]])]
               ELSE mail
    /\ UNCHANGED <<online, inRoom, skin, updated, loop, unvisited, taken, call,
                   reply, seen, told>>

\* Mutant: what was taken is not forgotten.
FinishMutKeeps ==
    /\ loop = "sending"
    /\ unsent = {}
    /\ loop' = "idle"
    /\ UNCHANGED <<online, inRoom, skin, updated, unvisited, taken, unsent, sessionVars, told>>

Finish ==
    /\ loop = "sending"
    /\ unsent = {}
    /\ loop' = "idle"
    /\ taken' = NoSkins
    /\ UNCHANGED <<online, inRoom, skin, updated, unvisited, unsent, sessionVars, told>>

-----------------------------------------------------------------------------

LoopStep ==
    \/ StartSkins \/ Collect \/ Finish
    \/ \E p \in Players : Visit(p) \/ \E c \in Players : Send(p, c)

ServerStep(c) == AnswerJoin(c) \/ AnswerSkins(c)

SessionStep(c) == LookAway(c) \/ TakeReply(c) \/ Read(c)

PlayerStep(p) ==
    \/ Look(p) \/ Ask(p) \/ Vanish(p)
    \/ p \in Painters /\ \E new \in Skin : SetSkin(p, new)

Next ==
    \/ LoopStep
    \/ \E p \in Players : ServerStep(p) \/ SessionStep(p) \/ PlayerStep(p)

Spec == Init /\ [][Next]_vars

\* The loop never ends, actors with work are polled, and whoever waits for the
\* write lock gets it, which is free most of the time.  Nothing is assumed of
\* players, who may ask, change skins and change rooms for ever.
Fairness ==
    /\ WF_vars(LoopStep)
    /\ \A c \in Players :
          WF_vars(ServerStep(c)) /\ WF_vars(SessionStep(c))

FairSpec == Spec /\ Fairness

-----------------------------------------------------------------------------
(* Properties *)

\* What c will have seen of p when all that is on its way has arrived: the
\* broadcast under way comes after what waits in the mailbox, and that after the
\* answer the session waits for.
LastWord(c, p) ==
    LET heard == {n \in 1 .. Len(mail[c]) : mail[c][n].of = p} IN
    IF taken[p] # NoSkin /\ (loop = "taking" \/ <<p, c>> \in unsent)
    THEN taken[p]
    ELSE IF heard # {}
    THEN mail[c][CHOOSE n \in heard : \A m \in heard : m <= n].skin
    ELSE IF reply[c][p] # NoSkin
    THEN reply[c][p]
    ELSE seen[c][p]

\* Answers, broadcasts and changes overtake each other, but the last word on its
\* way to a player about another's skin is the right one, unless the skin is
\* marked to be sent again.
LastWordIsTheSkin ==
    \A c \in inRoom : \A p \in inRoom \cap told[c] :
        skin[p] # NoSkin /\ ~updated[p] => LastWord(c, p) = skin[p]

\* A player who is in the room when a skin is set, or asks for it later, gets to
\* see it, unless it changes or one of them leaves.
SkinArrives ==
    \A p \in Painters : \A c \in Players \ {p} : \A look \in Looks :
        (c \in inRoom /\ p \in inRoom /\ p \in told[c] /\ skin[p] = look)
            ~> (seen[c][p] = look \/ skin[p] # look \/ c \notin inRoom \/ p \notin inRoom)
=============================================================================

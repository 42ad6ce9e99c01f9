------------------------------ MODULE GameLocks ------------------------------
(***************************************************************************)
(* The locks that the game loop and the server actor share, and who waits  *)
(* for whom.                                                               *)
(*                                                                         *)
(* Rooms and Clients are DashMaps: every shard of them is a lock of its    *)
(* own, and a guard on an entry holds the whole shard.  A shard of Rooms   *)
(* is taken to hold one room, and Clients to be one shard, the worst case. *)
(* Each Player is behind one more lock.  Three kinds of threads meet:      *)
(*   - the server actor, which handles one message at a time;              *)
(*   - the game loop, which makes one parallel call over all rooms after   *)
(*     another and takes no lock itself;                                   *)
(*   - the workers of the rayon pool, which do the loop's jobs (one for    *)
(*     each room) and the pieces these jobs are split into (one for each   *)
(*     player).  A worker that waits for its pieces does other work        *)
(*     meanwhile: it may begin the job of another room with the guard of   *)
(*     the first in its hand.                                              *)
(*                                                                         *)
(* What a thread has left to do is a sequence of steps on locks and on     *)
(* groups of pieces, so a handler is its script here: what it computes is  *)
(* left out.  The locks of the flags and of the chat history are held      *)
(* without waiting for another one, and are left out too: what the loop    *)
(* does to the flags of a room is one piece without a lock of its own.     *)
(***************************************************************************)
EXTENDS Naturals, Sequences, FiniteSets, SequencesExt

CONSTANTS
    Workers,    \* the threads of the rayon pool
    Actor,      \* the server actor
    NoOne,      \* not a thread
    LastRoom,   \* Rooms has the shards 1..LastRoom, in the order of iter_mut
    RoomOf      \* the room of each player

Rooms == 1 .. LastRoom
Playing == DOMAIN RoomOf
PlayersIn(r) == {p \in Playing : RoomOf[p] = r}

ASSUME LocksAssumption ==
    /\ Workers # {}
    /\ Actor \notin Workers /\ NoOne \notin Workers \cup {Actor}
    /\ LastRoom \in Nat \ {0}
    /\ RoomOf \in [Playing -> Rooms] /\ IsFiniteSet(Playing)

Threads == Workers \cup {Actor}
Clients == <<"clients", 0>>
Room(r) == <<"room", r>>
Player(p) == <<"player", p>>
Locks == {Clients} \cup {Room(r) : r \in Rooms} \cup {Player(p) : p \in Playing}

\* Whose pieces they are: a room's, those of the message about a player's skin,
\* or the server's.
OfServer == <<"server", 0>>
Groups == {OfServer} \cup (Locks \ {Clients})

VARIABLES
    script,     \* what each thread has left to do, the innermost job first
    writer,     \* the thread that has taken the lock to write
    reads,      \* how often each thread holds the lock to read
    pieces,     \* the pieces of each group no worker has begun
    open,       \* the pieces of each group not done yet
    call,       \* the parallel call the loop is in
    unbegun,    \* the rooms of this call whose job no worker has begun
    unended     \* the rooms of this call whose job has not ended

locksVars == <<script, writer, reads, pieces, open, call, unbegun, unended>>
lockVars == <<writer, reads>>
poolVars == <<pieces, open, call, unbegun, unended>>

---------------------------------------------------------------------------
(* Scripts. *)

Read(l) == <<"read", l>>
Write(l) == <<"write", l>>
Free(l) == <<"free", l>>
Fork(g, kind, ps) == <<"fork", g, {<<kind, p>> : p \in ps}>>
Await(g) == <<"await", g>>

\* Player::get_data, send_message, is_in_game_admin, get_account_id: the
\* player is read, and its client is looked up under that guard.
Look(p) == <<Read(Player(p)), Read(Clients), Free(Clients), Free(Player(p))>>
ReadOnce(l) == <<Read(l), Free(l)>>
WriteOnce(l) == <<Write(l), Free(l)>>

\* A parallel call over the players of a room: it returns when all are done.
ForAll(g, kind, r) == <<Fork(g, kind, PlayersIn(r)), Await(g)>>
Broadcast(g, r) == ForAll(g, "look", r)

\* One player's part of a parallel call.  A message about a skin is itself
\* broadcast to the players of the room.
PieceScript(kind, p) ==
    CASE kind = "look" -> Look(p)
      [] kind = "skin" -> ReadOnce(Player(p)) \o WriteOnce(Player(p))
      [] kind = "cosmetics" -> ReadOnce(Player(p)) \o ReadOnce(Player(p))
                                   \o WriteOnce(Player(p))
      [] kind = "message" -> Broadcast(Player(p), RoomOf[p])
      [] kind = "flags" -> << >>

\* The closure of each par_iter over the rooms, under the guard of the shard.
\* In the call "valid" the room's worker reads the players itself.
RoomScript(kind, r) ==
    <<Read(Room(r))>>
    \o (CASE kind = "flags" -> <<Fork(Room(r), "flags", {r}), Await(Room(r))>>
          [] kind = "data" -> ForAll(Room(r), "look", r)
                               \o Broadcast(Room(r), r)
          [] kind = "skins" -> ForAll(Room(r), "skin", r)
                                \o ForAll(Room(r), "message", r)
          [] kind = "valid" -> FlattenSeq([i \in 1 .. Len(SetToSeq(PlayersIn(r))) |->
                                   ReadOnce(Player(SetToSeq(PlayersIn(r))[i]))])
                                \o Broadcast(Room(r), r))
    \o <<Free(Room(r)), <<"end", r>>>>

\* SendJoinGame: the roster is written, and the client under its guard.
JoinScript(r) == <<Write(Room(r))>> \o WriteOnce(Clients) \o <<Free(Room(r))>>

\* Disconnect.
LeaveScript(p) ==
    WriteOnce(Clients) \o ReadOnce(Player(p)) \o WriteOnce(Room(RoomOf[p]))

\* SendChat with a message: add_chat_message runs under the player's guard and
\* looks the client up twice, the second time under the guard of the first.
ChatScript(p) ==
    LET r == RoomOf[p] IN
    ReadOnce(Clients) \o ReadOnce(Player(p))
    \o <<Write(Player(p)), Read(Clients), Read(Clients)>> \o ReadOnce(Room(r))
    \o <<Free(Clients), Free(Clients), Free(Player(p))>>
    \o ReadOnce(Clients)
    \o <<Read(Room(r))>> \o Broadcast(OfServer, r) \o <<Free(Room(r))>>

\* SendRequestCosmetics.
CosmeticsScript(p) ==
    LET r == RoomOf[p] IN
    ReadOnce(Clients) \o <<Read(Room(r))>> \o ForAll(OfServer, "cosmetics", r)
    \o <<Free(Room(r))>>

\* KickClientByAccountId, KickClientByIpAddr: the client found is looked up again
\* under the guard of the search.
KickScript == <<Read(Clients)>> \o ReadOnce(Clients) \o <<Free(Clients)>> \o WriteOnce(Clients)

\* A player of the list: the second statement reads it within a read.
ListedPlayer(p) == Look(p) \o <<Read(Player(p))>> \o Look(p) \o <<Free(Player(p))>>

\* Mutant: `iter' instead, whose guards admit the workers.
ListedRoomMutShared(r) ==
    <<Read(Room(r))>>
    \o (IF r = 1 THEN << >> ELSE <<Free(Room(r - 1))>>)
    \o FlattenSeq([i \in 1 .. Len(SetToSeq(PlayersIn(r))) |->
                       ListedPlayer(SetToSeq(PlayersIn(r))[i])])

\* iter_mut gives a shard's guard back only when it has the next one.
ListedRoom(r) ==
    <<Write(Room(r))>>
    \o (IF r = 1 THEN << >> ELSE <<Free(Room(r - 1))>>)
    \o FlattenSeq([i \in 1 .. Len(SetToSeq(PlayersIn(r))) |->
                       ListedPlayer(SetToSeq(PlayersIn(r))[i])])
PlayerListScript ==
    FlattenSeq([r \in Rooms |-> ListedRoom(r)]) \o <<Free(Room(LastRoom))>>

\* GetPlayers looks at every player; SendSkin writes one; Connect and SetData
\* write a client; SendAttack and SendGrabFlag read a client, then a room.
ServerScripts ==
    UNION {{JoinScript(r) : r \in Rooms},
           UNION {{LeaveScript(p), ChatScript(p), CosmeticsScript(p), Look(p),
                   WriteOnce(Player(p)),
                   ReadOnce(Clients) \o ReadOnce(Room(RoomOf[p]))} : p \in Playing},
           {PlayerListScript, KickScript, WriteOnce(Clients)}}

---------------------------------------------------------------------------
LocksInit ==
    /\ script = [t \in Threads |-> << >>]
    /\ writer = [l \in Locks |-> NoOne]
    /\ reads = [l \in Locks |-> [t \in Threads |-> 0]]
    /\ pieces = [g \in Groups |-> {}]
    /\ open = [g \in Groups |-> {}]
    /\ call = "valid"
    /\ unbegun = {}
    /\ unended = {}

Idle(t) == script[t] = << >>
Does(t, what) == ~Idle(t) /\ script[t][1][1] = what
Its(t) == script[t][1][2]       \* the lock, group or room the step is about
Proceed(t) == script' = [script EXCEPT ![t] = Tail(@)]

\* A lock that a writer holds, or waits for, admits no reader: not even one
\* that reads it already.
AcquireRead(t) ==
    /\ Does(t, "read")
    /\ writer[Its(t)] = NoOne
    /\ reads' = [reads EXCEPT ![Its(t)][t] = @ + 1]
    /\ Proceed(t)
    /\ UNCHANGED <<writer, poolVars>>

\* A writer first keeps new readers out, then waits for the last one to leave.
AnnounceWrite(t) ==
    /\ Does(t, "write")
    /\ writer[Its(t)] = NoOne
    /\ writer' = [writer EXCEPT ![Its(t)] = t]
    /\ UNCHANGED <<script, reads, poolVars>>

\* Mutant: it does not wait for the readers.
AcquireWriteMutEarly(t) ==
    /\ Does(t, "write")
    /\ writer[Its(t)] = t
    /\ Proceed(t)
    /\ UNCHANGED <<lockVars, poolVars>>

AcquireWrite(t) ==
    /\ Does(t, "write")
    /\ writer[Its(t)] = t
    /\ \A u \in Threads : reads[Its(t)][u] = 0
    /\ Proceed(t)
    /\ UNCHANGED <<lockVars, poolVars>>

Release(t) ==
    /\ Does(t, "free")
    /\ IF writer[Its(t)] = t
       THEN writer' = [writer EXCEPT ![Its(t)] = NoOne] /\ UNCHANGED reads
       ELSE reads' = [reads EXCEPT ![Its(t)][t] = @ - 1] /\ UNCHANGED writer
    /\ Proceed(t)
    /\ UNCHANGED poolVars

\* The call is split and offered to the pool.
Split(t) ==
    /\ Does(t, "fork")
    /\ pieces' = [pieces EXCEPT ![Its(t)] = script[t][1][3]]
    /\ open' = [open EXCEPT ![Its(t)] = script[t][1][3]]
    /\ Proceed(t)
    /\ UNCHANGED <<lockVars, call, unbegun, unended>>

\* All pieces are done: the call returns.
Return(t) ==
    /\ Does(t, "await")
    /\ open[Its(t)] = {}
    /\ Proceed(t)
    /\ UNCHANGED <<lockVars, poolVars>>

EndPiece(t) ==
    /\ Does(t, "done")
    /\ open' = [open EXCEPT ![Its(t)] = @ \ {script[t][1][3]}]
    /\ Proceed(t)
    /\ UNCHANGED <<lockVars, pieces, call, unbegun, unended>>

EndRoom(t) ==
    /\ Does(t, "end")
    /\ unended' = unended \ {Its(t)}
    /\ Proceed(t)
    /\ UNCHANGED <<lockVars, pieces, open, call, unbegun>>

Step(t) ==
    \/ AcquireRead(t) \/ AnnounceWrite(t) \/ AcquireWrite(t) \/ Release(t)
    \/ Split(t) \/ Return(t) \/ EndPiece(t) \/ EndRoom(t)

\* A worker takes work when it has none, or when what it has must wait for
\* pieces that others do.
MayTakeWork(w) == Idle(w) \/ (Does(w, "await") /\ open[Its(w)] # {})

TakePiece(w, g) ==
    /\ MayTakeWork(w)
    /\ \E piece \in pieces[g] :
        /\ pieces' = [pieces EXCEPT ![g] = @ \ {piece}]
        /\ script' = [script EXCEPT ![w] =
               PieceScript(piece[1], piece[2]) \o << <<"done", g, piece>> >> \o @]
    /\ UNCHANGED <<lockVars, open, call, unbegun, unended>>

TakeRoom(w, r) ==
    /\ MayTakeWork(w)
    /\ r \in unbegun
    /\ unbegun' = unbegun \ {r}
    /\ script' = [script EXCEPT ![w] = RoomScript(call, r) \o @]
    /\ UNCHANGED <<lockVars, pieces, open, call, unended>>

\* The loop's next call: process_flags and broadcast_data in every turn; in some
\* turns broadcast_skins and broadcast_valid_update follow.
NextCall ==
    /\ unended = {}
    /\ call' \in (CASE call = "flags" -> {"data"}
                    [] call = "data" -> {"flags", "skins"}
                    [] call = "skins" -> {"valid"}
                    [] call = "valid" -> {"flags"})
    /\ unbegun' = Rooms
    /\ unended' = Rooms
    /\ UNCHANGED <<script, lockVars, pieces, open>>

\* The server actor takes the next message.
Handle ==
    /\ Idle(Actor)
    /\ \E s \in ServerScripts : script' = [script EXCEPT ![Actor] = s]
    /\ UNCHANGED <<lockVars, poolVars>>

LocksNext ==
    \/ \E t \in Threads : Step(t)
    \/ \E w \in Workers : (\E g \in Groups : TakePiece(w, g))
                           \/ (\E r \in Rooms : TakeRoom(w, r))
    \/ NextCall
    \/ Handle

LocksSpec == LocksInit /\ [][LocksNext]_locksVars

---------------------------------------------------------------------------
(* What must hold. *)

\* A thread that has taken a lock to write has it, once the last reader left.
Has(t, l) == writer[l] = t /\ ~(Does(t, "write") /\ Its(t) = l)

\* The types; and a lock is held by one writer or by readers, and by none who
\* has nothing left to do.
LocksTypeOK ==
    /\ writer \in [Locks -> Threads \cup {NoOne}]
    /\ reads \in [Locks -> [Threads -> 0 .. 2]]
    /\ unbegun \subseteq unended /\ unended \subseteq Rooms
    /\ \A g \in Groups : pieces[g] \subseteq open[g]
    /\ \A l \in Locks, t \in Threads :
        /\ Has(t, l) => \A u \in Threads : reads[l][u] = 0
        /\ Idle(t) => writer[l] # t /\ reads[l][t] = 0

\* t cannot go on before a thread of D does.  An idle worker takes any piece, so
\* a piece that no worker has begun waits only when all of them are in D.
BlockedBy(t, D) ==
    \/ Does(t, "read") /\ writer[Its(t)] \in D
    \/ /\ Does(t, "write")
       /\ \/ writer[Its(t)] \in D \ {t}
          \/ \E u \in D : reads[Its(t)][u] > 0
    \/ /\ Does(t, "await") /\ open[Its(t)] # {}
       /\ t \in Workers => unbegun = {} /\ \A g \in Groups : pieces[g] = {}
       /\ \/ pieces[Its(t)] # {} /\ Workers \subseteq D
          \/ \E w \in D \cap Workers, piece \in open[Its(t)] :
                Contains(script[w], <<"done", Its(t), piece>>)

\* Threads that wait for one another for ever.
Deadlocked(D) == D # {} /\ \A t \in D : BlockedBy(t, D)

\* The player list has the guard of a room and waits for the next one, which a
\* worker reads; the job of the first has been begun, by this worker or by one
\* for whose pieces it waits, and its worker waits for the guard of the list.
ListCycle(D) ==
    \E r \in Rooms \ {1}, u, w \in Workers \cap D :
        /\ Actor \in D /\ Has(Actor, Room(r - 1))
        /\ Does(Actor, "write") /\ Its(Actor) = Room(r) /\ reads[Room(r)][u] > 0
        /\ Does(w, "read") /\ Its(w) = Room(r - 1)

\* In that one way the threads deadlock, and in no other: neither the writes of
\* the players that meet their reads, nor the reads of a client or a player
\* under an earlier read of the same, nor the pieces that the server waits for
\* with a room's guard in its hand.
OnlyTheListDeadlocks ==
    \A D \in SUBSET Threads : Deadlocked(D) => ListCycle(D)
=============================================================================

# The sm64js MMO server in TLA+

A model of the server of sm64js (`src/crates/`, Rust, actix actors), checked with
TLC on small instances, and theorems about it proved with TLAPS for every value
of the constants. Line numbers are those of the files under `src/crates/`.

## The system

| part | code | state it keeps | operations |
| --- | --- | --- | --- |
| game server actor | `sm64js-ws/src/server.rs`, `client.rs` | `clients` (a concurrent map, shared with the game loop), `players`, the rooms (shared), the chat history (shared) | one handler per message: Connect, Disconnect, SetData, SendAttack, SendGrabFlag, SendChat, SendSkin, SendJoinGame, BroadcastLobbyData, two kicks, GetPlayers, SendRequestCosmetics, SendPlayerList |
| websocket session | `sm64js-ws/src/session.rs` | its id, three clocks, the last two sampled positions | `started`, `stopping`, the stream handler, `Message::{SendData, Kick}`, the heartbeat `hb` |
| rooms and flags | `sm64js-ws/src/room.rs` | weak references to players, flags | players, broadcasts, grab, attack, drop, `process_flags` |
| game loop | `sm64js-ws/src/game.rs` | a counter | every 33 ms: data of every room, flags; now and then skins and the player list |
| chat history | `sm64js-common/src/chat.rs` | all messages by time | `add_message`, `get_messages` |
| bans and mutes of accounts | `sm64js-db/src/lib.rs` 383-497, 523-556 | tables `bans`, `mutes` | `ban_account`, `mute_account`, `is_account_banned`, `is_account_muted` |
| bans of addresses | `sm64js-db/src/lib.rs` 417-438, 499-521 | table `ip_bans` | `ban_ip`, `is_ip_banned` |
| accounts, login sessions | `sm64js-db/src/lib.rs` 29-381, `sm64js-api/src/login.rs`, `logout.rs`, `sm64js-auth/src/auth.rs`, `identity.rs` | tables of accounts and sessions, the cookie | login by Discord or Google, the middleware that looks the session up, logout |
| permissions | `sm64js-auth/src/lib.rs` | roles, a constant table | `has_permission` |
| HTTP API | `sm64js-api/src/` | none of its own | bans, mutes, players, chat |
| bootstrap | `sm64js/src/`, `sm64js-env/src/` | none | wiring |

How they interact. A browser opens a websocket (`sm64js/src/websocket.rs`), after a
check that its account is not banned; a session actor starts. It asks the server
for an id (Connect) and waits; later it forwards what its player sends, mostly
without waiting (`do_send`), but waits for the answer to a join, to a chat message
and to a request for cosmetics (`ctx.wait`): until then it reads neither its socket
nor its mailbox. It says Disconnect when it stops. The server writes to sessions by
`do_send` too (data, Kick). The HTTP workers send kicks to the server and use the
database directly, through a pool, without transactions. The game loop is a thread
that takes the locks of clients, rooms, players and flags.

What is hard, and which component has to be right about it:

- *Order of messages.* The server sees the messages of one session in order, but
  those of several sessions, and the kicks, interleaved at will; a session may have
  stopped by the time its request is handled, and a kicked one is not yet aware of it.
  The tables must agree with each other, and nothing of a finished session may stay.
- *Waiting.* A session that waits is deaf, so Kick must get through later.
- *News that overtakes itself.* Skins reach a player in answers and in broadcasts,
  which wait in a mailbox meanwhile: the last one to arrive must be the right one.
- *Flags between two threads.* Grabs and attacks share a room with the game loop, which
  makes its flags fall, age and go home at the same time.
- *Statements without transactions.* Each login, ban, mute and check is several SQL
  statements; others run in between and any may fail.
- *Bans of players who are there.* A ban is a kick, a request to another service
  and a write, in this order; a connection is a check, a new actor and a message to the
  server. Each fits between two steps of the other.
- *Locks under locks.* The game loop and the server take the same locks of rooms,
  clients and players, the loop in a pool of threads that begin other work while they
  wait, with guards in their hands.
- *Clocks.* Three clocks and a sampled position decide when a session has died;
  windows of 15 s and 60 s decide which chat is too much; expiries have a boundary.

`PROJECT.json` has the list of hazards with their lines.

## The modules

| module | models | proofs |
| --- | --- | --- |
| `MmoServer` | server actor, life of sessions, clients, players, rooms' rosters, who holds a flag | `MmoServerInv` (invariant), `MmoServerProofs` |
| `Moderation` | `post_ban`, the check of a new websocket, permissions; extends `MmoServer` and implements it | `MmoServerProofs` |
| `GameLocks` | the locks of rooms, clients and players, the server's handlers and the loop's pool | `GameLoopProofs` |
| `FlagLifecycle` | abstract: where a flag may be and how it passes | |
| `Flags` | flags of a room, server and game loop lock by lock; implements `FlagLifecycle` | `GameLoopProofs` |
| `SessionTimers` | heartbeat and AFK clocks of a session | `SessionTimersProofs` |
| `IpBans` | `ip_bans`: the upsert, the check, its deletion | `IpBansProofs` |
| `Penalties` | `bans` or `mutes` of an account, SQL statement by statement | `PenaltiesProofs` |
| `ChatHistory` | limits of chat, automatic mute, query | `ChatHistoryProofs` |
| `Skins` | skins in a room: server, game loop, mailboxes and waiting sessions | `SkinsProofs` |
| `Logins` | accounts, identities, sessions and cookies, statement by statement | `LoginsProofs` |

`MC*` modules and the `.cfg` files instantiate them for TLC. A definition whose name
contains `Mut` is a deliberate bug: it takes no part in the specification, and
says which mistake a property would notice.

### MmoServer

One action per handler. The variable `mailbox[s]` is the part of the server's queue
that came from session `s`: actix keeps the order per sender, and between senders
any order is possible, so the server takes the head of any of them. A session goes
through `stage`: `new`, `connecting` (`started` has sent Connect), `open`,
`waiting` (a join is unanswered), `stopping` (`stopping` has sent Disconnect),
`stopped` (the actor is dropped: its address no longer accepts messages and the
server skips its requests). Chat and cosmetics requests wait like a join that is
refused and change none of this module's state, so that they are behaviours it has.

- `Close` is everything that ends a session from outside: a closed or failing socket,
  a heartbeat check. A waiting context looks at none of these, but when the
  connection is lost the HTTP dispatcher drops the context, which stops the actor
  also while a request is pending; the id that Disconnect carries is then still 0 if
  Connect's answer was not taken.
- `HandleJoin` accepts, or refuses for the name, a level without a room, or a player that
  is there already. The join inserts a new player: the `Arc` of the old one is
  dropped, and with it every `Weak` to it, in whichever room: `Release`.
- `KickOne` removes the client and the player but, as the code, does not make the
  player drop its flag.
- Which client `find()` returns when there are several is left open.

Left out: positions (except whether a client has one), distances, names, skins,
and the text of messages. What happens to a flag besides, and between these steps, is in `Flags`. The game loop writes no
variable of this module: it never links a flag or changes a table.

The ids are drawn from `Draw[s]`. `DrawsDisjoint` says that two connections do not
draw the same 32-bit number; the code does not check it.

### Moderation

`MmoServer` with those who ban and those who connect. A call of `post_ban` is cut at its
awaits: `PostBan` checks the permission and asks for the kick, `AnswerKick` is the server
handling it, `WriteBan` comes after the answer of the location service, and
`CallFails` is every error in between. The ban and its check are one step each; their
statements are in `Penalties`. `Admit` is `index()`, which finds no ban and creates the
session's actor, `AdmitUnread` the same after a SELECT that failed. A connection starts
(`MmoServer`) some time after it is admitted, so that bans fit in between.

`HasPermission` compares durations as `role_has_permission` does, after `Converted`, which
takes a duration that `chrono` cannot represent for zero. `missed` is an observer: the
sessions which the kick of a ban could not reach, for they were admitted after it, were
not yet known to the server, or were not the account's only client. Kicks by address come
as in `MmoServer`. A look-up of the address is in `IpBans`; `index()` does not ask for it.

### GameLocks

Threads, locks, and a script for each handler: the sequence of locks it takes and
releases and of the parallel pieces it makes and awaits. What it computes is left out. The
maps are DashMaps, whose guards hold a shard; a room has a shard of its own and the
clients share one. The locks are those of `parking_lot`: a writer announces itself,
which keeps new readers out, and waits for the old ones (`AnnounceWrite`,
`AcquireWrite`), so that reading twice in one thread may block.

The pool is that of `rayon`: a job for each room, pieces for each player, also pieces within
pieces when skins are sent. A worker that awaits its pieces takes any other work
(`TakePiece`, `TakeRoom`), so its script is a stack. The server, not of the pool, only
waits. The loop's counters, which decide in which turn it also sends skins and lists, are a
choice in `NextCall`. Left out: the locks of flags (a room's flags are one piece) and of
the chat history, taken last and released before another is waited for, and the pool of
database connections.

### Flags

`linked`, `atStart`, `idle`, `falling`, `spot`, `height` are the fields of `Flag`
(the two horizontal coordinates are a place, `spot`). A grab and an attack have one
write lock of the flag, a flag's turn in the loop (`Turn`) another. A Disconnect has the
whole room's guard to write, which keeps `process_flags` out, so that the two locks of
`drop_flag_if_holding`, to find the flag and to drop it, are one step. `WhereIs` maps
a flag to `FlagLifecycle`: at home, carried by a player, or loose. `lain` is an observer:
the turns a flag has been loose since it was last dropped, whatever the code's timer says.

### SessionTimers

Time is counted in heartbeat intervals of 5 s. The clocks count timer events since
they were set, which is the real time rounded up. When the heartbeat itself has set the AFK
clock, an exact multiple may count either way (`MayBeOver`); when `new()` has, a little
before the first interval began, it may not (`IsOver`). `data` is the
position kept by every 30th `MarioMsg` (`Sample`), and the check compares two kept ones.

`unheard`, `unseen`, `lastPos` and `still` are observers, set by what the client sends and
not by what the code makes of it: when it last sent a pong, a position, another position
than before. `StillBound` is how long a client that stands still may stay: one that sends
its position as rarely as it may, every `Timeout` intervals, keeps the sample from
being taken for `Every - 1` more positions, then a heartbeat takes the sample for a move and
starts the AFK clock. With the constants of the code that is 24 * 29 + 1 + 60 = 757 intervals,
about an hour, where CLIENT_AFK_TIMEOUT says five minutes. A position is never empty and equals
itself: one that is not a number would not.

### IpBans and Penalties

A row of `ip_bans` is an expiry. `Upserted` is the upsert with what the derived
`AsChangeset` does with a `None`: it leaves the column alone. A check is two
statements: the select with its judgement, and the deletion by address. `TypeOK` says too what
a check has in hand: a row to judge, and to delete only one whose expiry has passed.

`Penalties` stands for `bans` and for `mutes`: the code of both is the same but for
the names. Each SQL statement is a step of a call, which may fail (`Faults`): an
error ends the call, except that a failing SELECT counts as no record, and that the
chat handler takes an error of its check for "not muted". `want` is the expiry a
writer is about to write. `lone` and `last` are observers.

### ChatHistory

`Say` is `handle_chat` with `add_message`: the message is kept with the mark `spam`
if too many counted before it, whatever becomes of it; then it mutes the account
(`SayExcessive`), is answered and not broadcast (`SayIgnored`), or is broadcast
(`SayHeard`). `loud` stands for the test of capitals, `empty` for the empty text. A muted
account is turned away, unless its mute cannot be read: mutes that do not load
are `None`, any other failure is an error, and both count as not muted (`PassesMute`). `excuses` is an observer that counts
such messages, mutes that could not be written, and a moderator's interventions.
`GetMessages` is the loop of `get_messages` from the newest message back. Players'
names and the ids of Discord and Google filter like `by`. The mute is one value:
the table behind it is `Penalties`.

### Skins

`skin` and `updated` are the fields of `Player`, for the players of one room; a player
who goes to another room is dropped from this one. `StartSkins`, `Visit`, `Collect`,
`Send`, `Finish` are `Room::broadcast_skins`: the marks are taken off player by player,
then the messages go out in any order; the room's read lock is held from the first to
the last, so that `EnterRoom` waits. A session (`call`) reads its mailbox until it is
empty, then looks at its socket, asks and waits; the window between the two, in which
mail may arrive, is `"looking"`. `SendSkin` is sent without waiting and may come from
long ago, so `SetSkin` may happen whenever the player is there, except
between the handling of its session's request and the taking of the answer, when
everything sent before has been handled. `told` is an observer.

### Logins

A *user* is a row of `discord_accounts` or of `google_accounts`, whose code is the same
but for names; `identity` is its `account_id`. `login[b].step` is the statement that
comes next: the look-up, the ban check, the first session and its deletion, a new
account, the upsert, the new session, the cookie. `Fail` ends a login before any of
them. A statement that fails is no failure in two places: `is_account_banned` takes
it for no ban (`unread`), the look-up of a session for no session (`extra`). The ban check
itself is `Penalties`; here a ban is in force or not. `owner`, `extra`, `twins`, `unread`
and `barred` are observers. Left out: the requests to Discord and Google (they come
before the first statement), the check of the address (`IpBans`), the token in the
cookie, and the fixed account of debug builds.

## What TLC checks

| run | question | bounds, and why they are enough |
| --- | --- | --- |
| `mmo_core` | do the server's tables agree, and is whoever stays in them explained, flags included? | two connections of one account from one address, a room with two flags and one without, any number of kicks, one unhandled message per session beside its Disconnect. Two connections are what a duplicate login needs; two rooms what changing room needs; two flags what carrying two needs. |
| `moderation` | who is still connected after a ban? do kicked sessions end, ghosts vanish, waits end? | two connections of one account, one room, a trial moderator whose longest ban is shorter than what may be asked for; with fairness. Two connections let one be missed and the other not. |
| `flags` | are flags consistent between server and game loop; do they live the abstract life? | two flags, two players, two places; 3 idle turns and heights such that a falling flag reaches the floor before, at and after its idle time |
| `timers` | is a session that stays open alive; does an idle client leave? | timeouts of 2 and 5 intervals, every 3rd position kept, two positions: the AFK time is longer than the others, as in the code, and the samples may alias |
| `timers_afk` | *finding:* does AFK mean that the client did not move? | the same |
| `ipbans` | does a ban last as asked, against two checks? | durations 0 and 2 and permanent, clock up to 4 |
| `ipbans_permanent` | *finding:* is a permanent ban permanent? | the same |
| `penalties` | is a write nobody overlapped the last word? | one moderator, one check, one chat message, three records, any statement may fail |
| `chat` | do the limits hold; is a mute earned; does a query find what it should? | two alike accounts, windows 1 and 2 with limits 1 and 2, four moments, five messages: enough for both windows to slide, for a flood after an excuse, and for two accounts to mix. Symmetry in the accounts. |
| `skins` | does the last word on its way to a player about another's skin hold, and does the skin arrive? | two players, one of whom sets two skins: what a player learns of another depends on no third; two unread broadcasts per session let an old one meet a newer answer |
| `locks` | can the server and the game loop wait for each other for ever? | two workers, two rooms with a player each: two workers are what stealing needs beside the thief's own room, two rooms what the player list needs. Symmetry in the workers. |
| `logins` | are too many sessions explained, is the account kept, does a banned user stay out? | two browsers of one user, two accounts, three sessions, one ban: two logins at once, also first ones, and a third after them. Symmetry in the browsers. |

Notes on properties:

- `DuplicateIsKicked`: Connect kicks one client of the account, the first it finds, and
  that may be one already on its way out. So two may both stay when there is a third that is
  being kicked or is over, and only then; with two connections there is no excuse.
- `OpenIsRecent` compares an open session with what its client did, not with the code's own
  clocks: a message that resets a clock which is not its own, an early return that
  leaves a clock unchecked, or a sample that is not compared would break it.
- `HomeOnlyWhenAged` likewise compares with `lain`: a timer that a grab does not
  reset would send a flag home before its time when it is dropped again.
- `FloodIsStopped` allows one message over the limit for each excuse, `HeardRarely` none:
  what is broadcast is limited whatever becomes of mutes.
- `FlagIsLeftInThreeWays` says how a flag stays linked to somebody who does not play
  in its room, which the code allows: the player goes to another room; it carries two
  flags, and its Disconnect drops the first only; an administrator kicks it, for the kick
  handlers do not drop flags. No text of the repository promises more, so these are
  listed as hazards, not as findings; the property is that there is no fourth way.
- `BannedAreKickedUnlessMissed` likewise names those a ban can miss. The order of
  `post_ban`, kick first and write later, is what lets a player come back in between.
- `OnlyTheListDeadlocks`: `SendPlayerList` walks over the rooms with `iter_mut`, which
  keeps the guard of one shard until it has the next. A worker that sends the data of the
  second room may, while it waits for its pieces, begin the job of the first: it waits
  for the list, and the list for it. With three rooms or more the one that waits for the
  list may be another worker, who has taken a piece of the second room and begun the
  job of the first inside: `ListCycle` names a worker that reads the one room and a worker
  that waits for the other, and they need not be the same. The game loop asks for the list only when
  `ENABLE_PLAYER_LIST` is set, and nothing in the repository says that it cannot
  stop there, so this too is a hazard and not a finding; the property is that whenever
  threads wait in a circle, this is the circle.
- `OrphanClientNeverLearntItsId` tells of a leak the code has: a session that ends
  between the server's answer to Connect and its taking of it leaves its client entry
  for ever, for it says goodbye as id 0.
- `QueryFindsNewest` leaves out queries with both a `from` and a `to`: with a `to` the
  code never looks at `from`.
- `LoneWriteStands` says nothing about writes that overlap, which may leave two
  records, nor about a call whose SELECT failed.
- `CHECK_DEADLOCK FALSE` is set where the system may stop: all sessions are over, the
  session has closed, the clock or the number of records has reached its bound, or, in
  `locks`, the player list has deadlocked.
- `SessionsAreAccountedFor` and `AccountIsKept` say what two logins at once can
  do at worst, and who suffers it: two sessions where one was meant, of which a later
  login deletes one; two accounts for a user, of which the row keeps the later.
- `LastWordIsTheSkin` and `SkinArrives` speak of skins that are there. One that is taken
  off is never broadcast: `get_updated_skin_data` returns `None` for it.

Findings (violation runs): an active client can be stopped as AFK; a permanent ban of
an address with a temporary ban ends with the latter. Two more defects are
known and described as hazards: a check that has read an expired ban of an
address deletes its successor (hence the quiet in `QuietBanStands`), and the automatic
mute replaces a permanent one written after the message was let through (hence
the lone writer in `LoneWriteStands`).

### Fairness

`MmoServer`: weak fairness of the server's step on each session's queue (the executor
polls an actor with messages, and the mailbox is a queue, so no message waits for
ever) and of a session's own steps. Strong fairness of `HandleKick`: when the
answer a session waits for has arrived, its context polls the mailbox before the
socket's stream, so a Kick is read before the player can send another join. Nothing
is assumed of players and administrators. The run `moderation` checks what
follows, with the calls of moderators, of which nothing is assumed either. `GameLocks` is
checked without fairness: a deadlock is a state. `Flags`: each flag's turn (the game loop never
ends). `SessionTimers`: the interval
timer of an open session fires. `Skins`: the game loop goes on, the server handles
what a session waits for, and a session is polled while it has something to do.

## What is proved

TLAPS proves, for any number of sessions, rooms, flags, players, moderators, checks or
messages:

- `MmoServerProofs`: `TypeCorrect`, `LevelsAgree`, `RostersAgree`, `DisconnectForgets`,
  `OrphansExplained`, `GhostsExplained`, `FlagsPassWhenFree`, `FlagsAreLeftInThreeWays`,
  `DuplicatesAreKicked`. They follow from the
  invariant `IInv` of `MmoServerInv`. The properties are about tables, but are
  kept by what is on its way: a join handled late must not bring a finished player
  back, because a Disconnect is always the last message of its session
  (`MailIsOrdered`, `DisconnectIsLast`); a message carries the session's own id, which
  no other has (`BeforeTheId`, `IdsAreDrawn`, `ClientsHaveOwners`,
  `PlayersHaveOwners`); whoever lost its client has been sent a Kick
  (`ForgottenIsKicked`). The proof of a step has a part for the queues (`ServerMail`,
  `PlayerMail`, `SessionMail`) and one for the tables, handler by handler (`ConnectKeeps`,
  `DisconnectKeeps`, `JoinKeeps`, `KickKeeps`). That a Disconnect drops the first flag
  needs a least number in a set (`LeastNatural`, from well-foundedness).
- the same module, of `Moderation`: `ServerIsMmoServer` (the composition implements `MmoServer`, so that
  all of its theorems hold of it), `ModerationTypes`, `BannedAreKicked`,
  `BansWithinRights`. The invariant adds that a session which no ban has missed is on its
  way out from the kick on, and not only from the writing (`KickedOrMissed`), and that
  what was permitted is what is written (`CallsArePermitted`).
- `GameLoopProofs`, of `Flags`: `TypeCorrect`, `CarriedIsFresh`, `StartIsStart`, `HomeWhenAged`, and
  `Refinement`: `Flags` implements the safety part of `FlagLifecycle`. A drop leaves the
  timer and the mark of the start alone, so that `AtStartIsAtStart`, and that the timer of a loose
  flag counts its turns since the drop (`TimerIsRight`), need `CarriedFlagIsFresh`.
- the same module, of `GameLocks`: `LocksTypes` and `OneDeadlockIsLeft`, for any number of
  workers, rooms and players. The invariant `LocksIInv` ties scripts to guards. A script *runs*
  from what a thread holds to nothing (`Courses`), and at each step it may only make
  what the thread's guards allow (`WorkerMay`, `ServerMay`): a worker waits or makes a call with
  nothing but rooms in its hand, to read; the server takes no room to write except the next one
  of its list, and reads a player under a guard of the same player only while it writes that
  player's room. That the scripts of the handlers and closures keep to this is proved piece by
  piece (`ServerRuns`, `PieceJob`, `RoomJob`), the player list over any number of
  rooms. The rest says whose work is whose: no job is begun twice (`Once`), a job
  begun is not done and a piece not begun is offered (`Live`, `Offered`), open pieces have a
  thread that waits for them (`Awaited`), a worker reads a room from the first step of the
  room's job to the last (`RoomsHeld`), and the rooms can be ranked by when their jobs
  were begun (`Ordered`).
  Then the threads of a circle are asked what they wait for. Not for the clients, which are
  written with nothing else in hand (`ClientsFree`). Not for players (`PlayersFree`): the server reads
  one twice only in the list, whose room it writes, while a worker that writes a player does so in a
  job of that room or of a server that waits for it. Not all for pieces (`ReaderStuck`): the
  piece each waits for was begun under a room of lower rank, and ranks have a least one. So
  somebody waits for a room that the server writes, and the server waits for the next.
- `SkinsProofs`: `TypeCorrect`, `LastWordsAreRight`, for mailboxes without a limit. The
  invariant is stronger in whom it speaks of: also who was never to be told has no old
  skin behind a new one (`OnItsWay`), for an answer must not be taken back by mail. Mail from
  before an answer was read before asking (`ReadBeforeAsking`); who is not in the room
  has no skin (`Absent`), and who is not answered no reply (`NoReply`).
- `SessionTimersProofs`: `TypeCorrect`, `OpenIsHeard`, for any timeouts and any share of
  the positions kept. The invariant says that the two clocks set by messages tell what the
  observers do (`ClocksAreRight`), and how long a client can have stood still while the sample
  is of another place, is its own but not yet compared, or has been (`Sampled`): as many
  timeouts as positions came since the sample, all of them, or these and the AFK clock.
- `IpBansProofs`: `TypeCorrect`, `NeverLongerThanAsked`, `QuietBansStand`. The invariant adds
  `ReadTheAsked`: after a ban asked for in quiet, every check under way has read that
  very ban, and one about to delete has seen it expired.
- `PenaltiesProofs`: `TypeCorrect`, `LoneWritesStand`. The invariant adds that ids
  are given out in order, so that the clean-up of stale data cannot hit a new record
  (`IdsAreOld`), that a lone writer has loaded all there is until it has deleted it
  (`LoneIsAlone`, `LoneSees`), and that a check which has loaded the record of a lone
  write has loaded nothing else, so that it keeps it (`LastIsAlone`).
- `LoginsProofs`: `TypeCorrect`, `BannedAreKeptOut`, `AccountsAreKept`,
  `SessionsAreAccounted`. The invariant
  adds which account a login has in hand (`LoginsKnow`), that a user without a row has
  one login at most that will write it, unless they are twins (`FirstsAreTwins`),
  that an account belongs to one user and a user to one account, twins apart
  (`RowsAreSingle`, `AccountsAreSingle`), and where a login of a barred user can still
  be (`BarredKnow`). How many sessions a user has is not inductive, for a login adds one
  several statements after it looked. What is, is a balance (`Balanced`): the sessions that no
  login under way is about to delete, with the logins that will add one, are no more than
  one and the excused ones (`extra`). The sets are compared by functions from one into the
  other: a session about to be deleted stands for the login which deletes it.
- `ChatHistoryProofs`: `TypeCorrect`, `PlayersAreHeardRarely`, `FloodsAreStopped`,
  `MutesAreEarned`, `QueriesFindNewest`, for windows and limits of any size and a history of any
  length. Who is heard is an observer of the last few; that it and the history tell the
  same is the invariant (`HeardIsKept`, `HeardInOrder`, `HistoryIsPast`), from which
  a message that would be one too many is counted by the code too. For floods it is that
  an account with one message over the limit in a span is muted until the span is over
  (`FloodIsMuted`). For the query, what has
  been found is right after each turn of the loop (`RightFrom`, `TurnKeepsRight`). The loop
  is a recursive function, which the provers cannot unfold by induction: a first turn that
  goes wrong would have a right one before it (`LeastNatural`). `QueryFinds` is
  proved for any limit and time.

Assumptions, all named and evaluated by TLC: `ConstantsAssumption`, `NoneIsNoClient` and
`DrawsDisjoint` (`MmoServer`), `ModerationAssumption`, `FlagsAssumption`, `TimersAssumption`,
`BansAssumption`, `PenaltiesAssumption`, `ChatAssumption`, `SkinsAssumption`, `LoginsAssumption` and
`LocksAssumption` (there is a worker, and finitely many players, each in a room).

Model-checked only: liveness, which is out of the prover's reach. Every invariant and action
property of a run is a theorem. `CarriedIsFresh` and
`BansWithinRights` are theorems that no run of the project asks for.

## What is not modelled

- `sm64js/src/permission.rs` is in no crate. Environment, protobuf, compression,
  geolocation and Discord messages are input and output.
- The broadcast to the lobby only reads. The permissions other than those for account
  bans are looked up in the same way, and guard reads, announcements and mutes.
- The database pool: the server takes its connections while it holds a player's
  guard, and waits when there is none; listed as a hazard.
- `src/openapi/rapidoc-min.js`, the repository's only JavaScript, is a vendored, minified
  viewer of the API's documentation.

## What is left

1. `Presence`: an abstract specification of what the server promises (an account
   appears, plays, leaves), refined by `MmoServer`; its safety part to be proved.
2. Liveness of `GameLocks` without the player list: every call of the loop ends. It
   needs a smaller instance, or scripts with fewer steps.

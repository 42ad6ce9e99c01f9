--------------------------- MODULE SessionTimers ---------------------------
(***************************************************************************)
(* The three clocks of a websocket session                                 *)
(* (crates/sm64js-ws/src/session.rs, hb and the Ping, Pong and MarioMsg    *)
(* branches of the stream handler): the connection is closed when the      *)
(* client does not answer pings, sends no MarioMsg, or looks away from     *)
(* keyboard (AFK).                                                         *)
(*                                                                         *)
(* Time is counted in heartbeat intervals (HEARTBEAT_INTERVAL, 5 s); a     *)
(* clock is the number of interval timers that have fired since it was     *)
(* set.  The real time since then is up to one interval less, which is why *)
(* `>' on durations is `>' on these counts.                                *)
(***************************************************************************)
EXTENDS Naturals

CONSTANTS
    Timeout,     \* CLIENT_TIMEOUT, in intervals (24)
    AfkTimeout,  \* CLIENT_AFK_TIMEOUT, in intervals (60)
    Every,       \* of how many MarioMsg one position is kept (30)
    Positions,   \* the positions a client may report
    Empty        \* the empty Vec both samples start with

ASSUME TimersAssumption ==
    /\ Timeout \in Nat \ {0} /\ AfkTimeout \in Nat \ {0} /\ Every \in Nat \ {0}
    /\ Empty \notin Positions

VARIABLES
    open,        \* the session has not stopped
    hb,          \* intervals since the last Ping or Pong
    hbData,      \* intervals since the last MarioMsg
    hbAfk,       \* intervals since the two samples last differed
    data,        \* the last position kept
    dataAfk,     \* the position kept at the last check (data_afk_check)
    loopIndex,   \* MarioMsg since a position was kept (data_loop_index)
    unheard,     \* observer: intervals since the client last pinged or ponged
    unseen,      \* observer: intervals since it last sent a position
    lastPos,     \* observer: the position it sent last
    still        \* observer: intervals since it last sent another than before

\* The observers are set by what the client sends and by nothing else; the clocks
\* by what the code makes of it.
observers == <<unheard, unseen, lastPos, still>>

vars == <<open, hb, hbData, hbAfk, data, dataAfk, loopIndex, observers>>

Samples == Positions \cup {Empty}

\* How long a client that stands still may stay: one that sends its position as
\* rarely as it may makes the sample wait for Every - 1 more positions, the
\* heartbeat after that takes the sample for a move, and the AFK clock starts.
StillBound == Timeout * (Every - 1) + 1 + AfkTimeout

TypeOK ==
    /\ open \in BOOLEAN
    /\ hb \in 0 .. Timeout + 1
    /\ hbData \in 0 .. Timeout + 1
    /\ hbAfk \in 0 .. AfkTimeout + 1
    /\ data \in Samples /\ dataAfk \in Samples /\ lastPos \in Samples
    /\ loopIndex \in 0 .. Every - 1
    /\ unheard \in 0 .. Timeout + 1
    /\ unseen \in 0 .. Timeout + 1
    /\ still \in 0 .. StillBound + 1

\* new(): the clocks are set a little before the interval timer is started.
Init ==
    /\ open = TRUE
    /\ hb = 1 /\ hbData = 1 /\ hbAfk = 1
    /\ data = Empty /\ dataAfk = Empty
    /\ loopIndex = 0
    /\ unheard = 1 /\ unseen = 1
    /\ lastPos = Empty /\ still = 0

-----------------------------------------------------------------------------

\* Ping or Pong: only these two answer the heartbeat.
Pong ==
    /\ open
    /\ hb' = 0
    /\ unheard' = 0
    /\ UNCHANGED <<open, hbData, hbAfk, data, dataAfk, loopIndex, unseen, lastPos, still>>

\* The client sends a position (observers only).
Sends(p) ==
    /\ unseen' = 0
    /\ lastPos' = p
    /\ still' = IF p = lastPos THEN still ELSE 0
    /\ UNCHANGED unheard

\* Mutant: one message too many before a position is kept.
SampleMutOneMore(p) ==
    IF loopIndex >= Every
    THEN data' = p /\ loopIndex' = 0
    ELSE data' = data /\ loopIndex' = loopIndex + 1

\* Every Every-th position is kept for the AFK check.
Sample(p) ==
    IF loopIndex + 1 >= Every
    THEN data' = p /\ loopIndex' = 0
    ELSE data' = data /\ loopIndex' = loopIndex + 1

\* Mutant: sending any position counts as moving.
MarioMutMoves(p) ==
    /\ open
    /\ hbData' = 0 /\ hbAfk' = 0
    /\ Sample(p)
    /\ Sends(p)
    /\ UNCHANGED <<open, hb, dataAfk>>

\* Mutant: whatever the client sends answers the heartbeat.
MarioMutPongs(p) ==
    /\ open
    /\ hbData' = 0 /\ hb' = 0
    /\ Sample(p)
    /\ Sends(p)
    /\ UNCHANGED <<open, hbAfk, dataAfk>>

\* MarioMsg
Mario(p) ==
    /\ open
    /\ hbData' = 0
    /\ Sample(p)
    /\ Sends(p)
    /\ UNCHANGED <<open, hb, hbAfk, dataAfk>>

\* The connection is closed or fails.
Close ==
    /\ open
    /\ open' = FALSE
    /\ UNCHANGED <<hb, hbData, hbAfk, data, dataAfk, loopIndex, observers>>

\* An interval goes by.
Later(n, max) == IF n > max THEN n ELSE n + 1

Elapse ==
    /\ hb' = Later(hb, Timeout)
    /\ hbData' = Later(hbData, Timeout)
    /\ unheard' = Later(unheard, Timeout)
    /\ unseen' = Later(unseen, Timeout)
    /\ still' = Later(still, StillBound)
    /\ UNCHANGED <<data, loopIndex, lastPos>>

\* The heartbeat of a client that did not answer, or sent no position.
TimeOut ==
    /\ open
    /\ Elapse
    /\ hb' > Timeout \/ hbData' > Timeout
    /\ open' = FALSE
    /\ UNCHANGED <<hbAfk, dataAfk>>

Answers == open /\ Elapse /\ hb' <= Timeout /\ hbData' <= Timeout

\* The heartbeat when the sample has changed since the last one.
BeatMoved ==
    /\ Answers
    /\ dataAfk # data
    /\ dataAfk' = data
    /\ hbAfk' = 0
    /\ open' = open

\* Whether hbAfk is over after one more interval.  A heartbeat that set it is
\* an exact multiple of intervals ago, which may count as over or not; new() set
\* it a little before the first interval began.
IsOver == hbAfk + 1 > AfkTimeout

MayBeOver == IsOver \/ (dataAfk # Empty /\ hbAfk + 1 = AfkTimeout)

\* The heartbeat when the sample has not changed, for not too long.
BeatSame ==
    /\ Answers
    /\ dataAfk = data
    /\ ~IsOver
    /\ hbAfk' = hbAfk + 1
    /\ UNCHANGED <<open, dataAfk>>

\* ... and for too long.
AfkStop ==
    /\ Answers
    /\ dataAfk = data
    /\ MayBeOver
    /\ hbAfk' = hbAfk + 1
    /\ open' = FALSE
    /\ UNCHANGED dataAfk

Tick == TimeOut \/ BeatMoved \/ BeatSame \/ AfkStop

Next == Pong \/ (\E p \in Positions : Mario(p)) \/ Close \/ Tick

Spec == Init /\ [][Next]_vars

\* The interval timer of an open session fires again.
FairSpec == Spec /\ WF_vars(Tick)

-----------------------------------------------------------------------------

\* A session that stays open has lately heard a pong and a position, and one of
\* another place no longer ago than the samples can hide: no message keeps a clock
\* alive that is not its own, no early return of hb() leaves a clock unchecked, and
\* neither rare positions nor the sampling let a client stand still for longer.
OpenIsRecent ==
    open => unheard <= Timeout /\ unseen <= Timeout /\ still <= StillBound

\* A client that has stopped moving is disconnected in the end, however busily
\* it sends its position and answers pings.
StillClientsLeave == <>[][lastPos' = lastPos]_vars => <>~open

\* What the comment of CLIENT_AFK_TIMEOUT (session.rs:20) says: a client is
\* kicked for not updating its location.  So at least its location did not
\* change in the last interval.
AfkMeansStill == [][AfkStop => still' > 1]_vars
=============================================================================

---------------------------- MODULE ChatHistory ----------------------------
(***************************************************************************)
(* Chat: what the server actor does with a message of a player             *)
(* (crates/sm64js-ws/src/server.rs, SendChat and handle_chat; client.rs,   *)
(* add_chat_message), the history it keeps (crates/sm64js-common/src/      *)
(* chat.rs), which counts the messages of an account to limit them, and    *)
(* the query of the history.                                               *)
(*                                                                         *)
(* Time is in whole seconds; the clock does not go back.  The mute of an   *)
(* account is one value here: the table behind it is in Penalties.  The    *)
(* key of the history, a time in nanoseconds, is taken to be new for each  *)
(* message.  Censoring and formatting are left out.                        *)
(***************************************************************************)
EXTENDS Integers, Sequences, SequencesExt, FiniteSets

CONSTANTS
    Accounts,     \* the accounts of players that chat
    Kinds,        \* what a message is like: "plain", "loud" or "empty"
    Short, Few,   \* Few messages in Short seconds are too many (15, 3)
    Long, Many,   \* Many in Long seconds are far too many (60, 30)
    MuteFor,      \* the duration of the automatic mute (300)
    MaxTime,      \* bound: the clock stops here
    MaxMessages,  \* bound: the length of the history
    MaxExcuses,   \* bound: excuses per account
    Forever,      \* a permanent mute
    Nothing       \* Option::None

ASSUME ChatAssumption ==
    /\ Kinds \subseteq {"plain", "loud", "empty"}
    /\ Short \in Nat /\ Few \in Nat \ {0}
    /\ Long \in Nat /\ Many \in Nat \ {0}
    /\ MuteFor \in Nat /\ MuteFor >= Long
    /\ MaxTime \in Nat /\ MaxMessages \in Nat /\ MaxExcuses \in Nat
    /\ Forever \notin Nat /\ Nothing \notin Nat /\ Forever # Nothing

VARIABLES
    now,      \* Utc::now()
    history,  \* ChatHistory: the messages, oldest first
    muted,    \* muted[a]: expires_at of the account's mute, or Nothing
    heard,    \* observer, heard[a]: when messages of a were broadcast
    earned,   \* observer, earned[a]: when a was last muted automatically
    excuses   \* observer, excuses[a]: times a moderator changed a's mute, and
              \* messages of a whose mute could not be read or not be written

vars == <<now, history, muted, heard, earned, excuses>>

Message == [account : Accounts, at : Nat, spam : BOOLEAN]

TypeOK ==
    /\ now \in Nat
    /\ history \in Seq(Message)
    /\ \A i, j \in 1 .. Len(history) : i < j => history[i].at <= history[j].at
    /\ muted \in [Accounts -> Nat \cup {Forever, Nothing}]
    /\ heard \in [Accounts -> Seq(Nat)]
    /\ earned \in [Accounts -> Nat \cup {Nothing}]
    /\ excuses \in [Accounts -> Nat]

Init ==
    /\ now = 0
    /\ history = << >>
    /\ muted = [a \in Accounts |-> Nothing]
    /\ heard = [a \in Accounts |-> << >>]
    /\ earned = [a \in Accounts |-> Nothing]
    /\ excuses = [a \in Accounts |-> 0]

-----------------------------------------------------------------------------
(* Limits *)

\* The messages of a sent since a time, and those among them that counted.
SentSince(a, t) ==
    {n \in 1 .. Len(history) : history[n].account = a /\ history[n].at >= t}

CountedSince(a, t) == {n \in SentSince(a, t) : ~history[n].spam}

\* Mutant: one message more is let through.
IsSpamMutOneMore(a) == Cardinality(CountedSince(a, now - Short)) > Few

IsSpam(a) == Cardinality(CountedSince(a, now - Short)) >= Few

\* Mutant: the messages of all accounts are counted.
IsExcessiveSpamMutAll(a) ==
    Cardinality(UNION {SentSince(b, now - Long) : b \in Accounts}) >= Many

\* Mutant: a message is counted once it is no spam.
IsExcessiveSpamMutCounted(a) == Cardinality(CountedSince(a, now - Long)) >= Many

IsExcessiveSpam(a) == Cardinality(SentSince(a, now - Long)) >= Many

IsMuted(a) == muted[a] # Nothing /\ (muted[a] = Forever \/ now <= muted[a])

-----------------------------------------------------------------------------
(* A message of a player *)

\* Mutant: the newest message comes first.
KeepMutFirst(a) ==
    history' = <<[account |-> a, at |-> now, spam |-> IsSpam(a)]>> \o history

\* add_message: the message is kept, whatever becomes of it.
Keep(a) ==
    history' = Append(history, [account |-> a, at |-> now, spam |-> IsSpam(a)])

\* An observer's step: the database, or a moderator, stood in the mute's way.
Excuse(a) ==
    /\ excuses[a] < MaxExcuses
    /\ excuses' = [excuses EXCEPT ![a] = @ + 1]

\* `if let Ok(Some(mute)) = is_account_muted': an account that is muted is told so
\* and nothing is kept, unless the mute cannot be read: mutes that do not load are
\* None, any other failure an Err, and both count as not muted.
PassesMute(a) == IF IsMuted(a) THEN Excuse(a) ELSE UNCHANGED excuses

\* Too many by far: an automatic mute, which may fail to be written.
SayExcessive(a) ==
    /\ IsExcessiveSpam(a)
    /\ Keep(a)
    /\ \/ /\ muted' = [muted EXCEPT ![a] = now + MuteFor]
          /\ earned' = [earned EXCEPT ![a] = now]
          /\ PassesMute(a)
       \/ /\ Excuse(a)
          /\ UNCHANGED <<muted, earned>>
    /\ UNCHANGED <<now, heard>>

\* Too many, or capital letters, or nothing: kept and not broadcast.
SayIgnored(a, kind) ==
    /\ ~IsExcessiveSpam(a)
    /\ IsSpam(a) \/ kind # "plain"
    /\ Keep(a)
    /\ PassesMute(a)
    /\ UNCHANGED <<now, muted, heard, earned>>

\* Mutant: spam is broadcast too.
SayHeardMutSpam(a, kind) ==
    /\ ~IsExcessiveSpam(a)
    /\ kind = "plain"
    /\ Keep(a)
    /\ heard' = [heard EXCEPT ![a] = Append(@, now)]
    /\ PassesMute(a)
    /\ UNCHANGED <<now, muted, earned>>

SayHeard(a, kind) ==
    /\ ~IsExcessiveSpam(a)
    /\ ~IsSpam(a) /\ kind = "plain"
    /\ Keep(a)
    /\ heard' = [heard EXCEPT ![a] = Append(@, now)]
    /\ PassesMute(a)
    /\ UNCHANGED <<now, muted, earned>>

\* handle_chat of a message that is not turned away by a mute.
Say(a, kind) ==
    /\ Len(history) < MaxMessages
    /\ SayExcessive(a) \/ SayIgnored(a, kind) \/ SayHeard(a, kind)

\* A moderator mutes or unmutes (post_mute).
Moderate(a) ==
    /\ Excuse(a)
    /\ \E until \in {now, Forever} : muted' = [muted EXCEPT ![a] = until]
    /\ earned' = [earned EXCEPT ![a] = Nothing]
    /\ UNCHANGED <<now, history, heard>>

Tick ==
    /\ now < MaxTime
    /\ now' = now + 1
    /\ UNCHANGED <<history, muted, heard, earned, excuses>>

Next ==
    \/ \E a \in Accounts, kind \in Kinds : Say(a, kind)
    \/ \E a \in Accounts : Moderate(a)
    \/ Tick

Spec == Init /\ [][Next]_vars

-----------------------------------------------------------------------------
(* The query of the history: get_messages *)

Query == [from : Nat \cup {Nothing}, to : Nat \cup {Nothing}, limit : Nat,
          by : Accounts \cup {Nothing}]

\* Mutant: the loop stops one message late.
VisitMutLate(query, found, msg) ==
    IF \/ found.done
       \/ query.to # Nothing /\ msg.at >= query.to
    THEN found
    ELSE IF query.to = Nothing /\ query.from # Nothing /\ msg.at <= query.from
    THEN [found EXCEPT !.done = TRUE]
    ELSE IF query.by # Nothing /\ query.by # msg.account
    THEN found
    ELSE [list |-> Append(found.list, msg), done |-> Len(found.list) >= query.limit]

\* One turn of the loop, which goes from the newest message to the oldest.  The
\* lower limit of the time is looked at only when there is no upper one.
Visit(query, found, msg) ==
    IF \/ found.done
       \/ query.to # Nothing /\ msg.at >= query.to
    THEN found
    ELSE IF query.to = Nothing /\ query.from # Nothing /\ msg.at <= query.from
    THEN [found EXCEPT !.done = TRUE]
    ELSE IF query.by # Nothing /\ query.by # msg.account
    THEN found
    ELSE [list |-> Append(found.list, msg), done |-> Len(found.list) + 1 >= query.limit]

GetMessages(query) ==
    LET found[n \in 1 .. Len(history) + 1] ==
            IF n > Len(history)
            THEN [list |-> << >>, done |-> FALSE]
            ELSE Visit(query, found[n + 1], history[n])
    IN  Reverse(found[1].list)

-----------------------------------------------------------------------------
(* Properties *)

\* However a player mixes messages that are shouted, ignored or rejected, no
\* span of Short seconds has more than Few of its messages broadcast.
HeardRarely ==
    \A a \in Accounts : \A n \in 1 .. Len(heard[a]) :
        n > Few => heard[a][n] - heard[a][n - Few] > Short

\* The history does not let itself be flooded: in no span of Long seconds does an
\* account leave more than one message over the limit in it, and one more for
\* each time a moderator intervened and for each message whose mute could not be
\* read or written.
FloodIsStopped ==
    \A a \in Accounts, t \in 0 .. now :
        Cardinality({n \in SentSince(a, t) : history[n].at <= t + Long})
            <= Many + 1 + excuses[a]

\* An automatic mute is the account's own doing.
MuteIsEarned ==
    \A a \in Accounts : earned[a] # Nothing =>
        Cardinality({n \in SentSince(a, earned[a] - Long) : history[n].at <= earned[a]})
            > Many

\* What a reader of the API asks for, but with both limits of time.
Wanted(query, msg) ==
    /\ query.from # Nothing => msg.at > query.from
    /\ query.to # Nothing => msg.at < query.to
    /\ query.by # Nothing => msg.account = query.by

\* The positions of the messages asked for.
Matches(query) == {n \in 1 .. Len(history) : Wanted(query, history[n])}

\* One message is found when none is asked for.
Limit(query) == IF query.limit = 0 THEN 1 ELSE query.limit

\* All of them when they are fewer than the limit, else as many as the limit; and
\* one is as far from the end as there are later ones.
FindsNewest(query, found) ==
    LET all == Matches(query) IN
    /\ Len(found) = IF Cardinality(all) < Limit(query) THEN Cardinality(all)
                    ELSE Limit(query)
    /\ \A n \in all :
          LET later == Cardinality({m \in all : m > n})
          IN  later < Limit(query) => found[Len(found) - later] = history[n]

\* From any time, or to any time.
Spans ==
         [from : 0 .. now, to : {Nothing}]
    \cup [from : {Nothing}, to : {Nothing} \cup 0 .. now]

\* The query finds the newest messages that match, oldest first, as many as asked
\* for: the loop of get_messages stops neither early nor late, for what it has not
\* looked at is too old or too much.
QueryFindsNewest ==
    \A span \in Spans, limit \in 0 .. Len(history), by \in Accounts \cup {Nothing} :
        LET query == [from |-> span.from, to |-> span.to, limit |-> limit, by |-> by]
        IN  FindsNewest(query, GetMessages(query))
=============================================================================

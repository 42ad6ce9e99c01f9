----------------------------- MODULE Penalties -----------------------------
(***************************************************************************)
(* The bans, or the mutes, of one account (crates/sm64js-db/src/lib.rs).   *)
(* ban_account and is_account_banned are written like mute_account and     *)
(* is_account_muted, on a table of their own: this module is either pair.  *)
(*                                                                         *)
(* Both writers begin with the check, which also cleans up: it keeps the   *)
(* strongest record it has loaded, deletes the others one by one, and that *)
(* one too when it is over.  A writer then deletes what is left and        *)
(* inserts its own record.  Nothing runs in a transaction: every SQL       *)
(* statement is a step, and may fail.                                      *)
(***************************************************************************)
EXTENDS Naturals

CONSTANTS
    Moderators,  \* requests that ban or mute (post_ban, post_mute)
    Checkers,    \* requests that only check (websocket index, logins)
    Muters,      \* chat messages: a check, then perhaps an automatic mute
    Durations,   \* the durations a moderator may ask for
    AutoTime,    \* the duration of an automatic mute (300 s)
    Faults,      \* whether statements may fail
    MaxTime,     \* bound: the clock stops here
    MaxRows,     \* bound: records ever inserted
    Forever,     \* the expiry of a permanent record (expires_at is None)
    Nothing      \* Option::None elsewhere

Actors == Moderators \cup Checkers \cup Muters

Expiries == Nat \cup {Forever}

Record == [id : Nat, until : Expiries]

ASSUME PenaltiesAssumption ==
    /\ Moderators \cap Checkers = {}
    /\ Moderators \cap Muters = {}
    /\ Checkers \cap Muters = {}
    /\ Durations \subseteq Nat /\ AutoTime \in Nat
    /\ Faults \in BOOLEAN
    /\ MaxTime \in Nat /\ MaxRows \in Nat
    /\ Forever \notin Nat
    /\ Nothing \notin Expiries /\ Nothing \notin Record

VARIABLES
    now,     \* Utc::now()
    rows,    \* the records of the account
    nextId,  \* the next value of the table's serial id
    pc,      \* pc[p]: the statement p is at
    want,    \* want[p]: the expiry p is to write; Nothing for a check
    seen,    \* seen[p]: the records p has loaded and not deleted
    keep,    \* keep[p]: max_ban, the strongest of them
    lone,    \* observer, lone[p]: no other write has overlapped p's, and p's
             \* look at the table was answered
    last     \* observer: the record of the last write, if that was a lone one

vars == <<now, rows, nextId, pc, want, seen, keep, lone, last>>

Statements == {"load", "tidy", "expire", "replace", "insert"}

TypeOK ==
    /\ now \in Nat
    /\ rows \subseteq Record
    /\ nextId \in Nat
    /\ pc \in [Actors -> Statements \cup {"idle", "chat"}]
    /\ want \in [Actors -> Expiries \cup {Nothing}]
    /\ seen \in [Actors -> SUBSET Record]
    /\ keep \in [Actors -> Record \cup {Nothing}]
    /\ \A p \in Actors : pc[p] \in {"tidy", "expire", "replace"} => keep[p] \in seen[p]
    /\ lone \in [Actors -> BOOLEAN]
    /\ last \in Record \cup {Nothing}

Init ==
    /\ now = 0
    /\ rows = {} /\ nextId = 0
    /\ pc = [p \in Actors |-> "idle"]
    /\ want = [p \in Actors |-> Nothing]
    /\ seen = [p \in Actors |-> {}]
    /\ keep = [p \in Actors |-> Nothing]
    /\ lone = [p \in Actors |-> FALSE]
    /\ last = Nothing

Expired(expiry) == expiry # Forever /\ now > expiry

Writing(p) == pc[p] # "idle" /\ want[p] # Nothing

-----------------------------------------------------------------------------
(* Calls *)

\* p begins to write a record with this expiry.
StartWrite(p, expiry) ==
    /\ pc' = [pc EXCEPT ![p] = "load"]
    /\ want' = [want EXCEPT ![p] = expiry]
    /\ lone' = [q \in Actors |->
                   q = p /\ \A w \in Actors \ {p} : ~Writing(w)]
    /\ last' = Nothing
    /\ UNCHANGED <<now, rows, nextId, seen, keep>>

\* post_ban, post_mute: a duration gives an expiry, no duration a permanent one.
PostPenalty(p) ==
    /\ p \in Moderators
    /\ pc[p] = "idle"
    /\ \/ \E d \in Durations : StartWrite(p, now + d)
       \/ StartWrite(p, Forever)

\* The check before a websocket or a login, and before a chat message.
StartCheck(p) ==
    /\ p \in Checkers \cup Muters
    /\ pc[p] = "idle"
    /\ pc' = [pc EXCEPT ![p] = "load"]
    /\ UNCHANGED <<now, rows, nextId, want, seen, keep, lone, last>>

\* handle_chat goes on: the message is an ordinary one, or one too many.
ChatPasses(p) ==
    /\ pc[p] = "chat"
    /\ pc' = [pc EXCEPT ![p] = "idle"]
    /\ UNCHANGED <<now, rows, nextId, want, seen, keep, lone, last>>

AutoMute(p) ==
    /\ pc[p] = "chat"
    /\ StartWrite(p, now + AutoTime)

-----------------------------------------------------------------------------
(* The check: is_account_banned, is_account_muted *)

\* The first permanent record, or else one that expires last.
Strongest(r, set) ==
    /\ r \in set
    /\ IF \E q \in set : q.until = Forever
       THEN r.until = Forever
       ELSE \A q \in set : q.until <= r.until

\* Where p goes on when its check says that the account has no penalty.
WhenFree(p) ==
    IF want[p] # Nothing THEN "insert"
    ELSE IF p \in Muters THEN "chat" ELSE "idle"

\* The locals of the check go out of scope.
Forget(p) ==
    /\ seen' = [seen EXCEPT ![p] = {}]
    /\ keep' = [keep EXCEPT ![p] = Nothing]

\* SELECT the records of the account.
Load(p) ==
    /\ pc[p] = "load"
    /\ seen' = [seen EXCEPT ![p] = rows]
    /\ \/ /\ rows = {}
          /\ pc' = [pc EXCEPT ![p] = WhenFree(p)]
          /\ keep' = keep
       \/ \E r \in rows :
             /\ Strongest(r, rows)
             /\ keep' = [keep EXCEPT ![p] = r]
             /\ pc' = [pc EXCEPT ![p] = "tidy"]
    /\ UNCHANGED <<now, rows, nextId, want, lone, last>>

\* A SELECT that fails counts as no record (the else branch).
LoadFails(p) ==
    /\ Faults
    /\ pc[p] = "load"
    /\ pc' = [pc EXCEPT ![p] = WhenFree(p)]
    /\ lone' = [lone EXCEPT ![p] = FALSE]
    /\ UNCHANGED <<now, rows, nextId, want, seen, keep, last>>

\* Mutant: the strongest record is not spared.
DeleteOtherMutAll(p) ==
    /\ pc[p] = "tidy"
    /\ \E r \in seen[p] :
          /\ rows' = rows \ {r}
          /\ seen' = [seen EXCEPT ![p] = @ \ {r}]
    /\ UNCHANGED <<now, nextId, pc, want, keep, lone, last>>

\* DELETE another one than the strongest, by its id.
DeleteOther(p) ==
    /\ pc[p] = "tidy"
    /\ \E r \in seen[p] \ {keep[p]} :
          /\ rows' = rows \ {r}
          /\ seen' = [seen EXCEPT ![p] = @ \ {r}]
    /\ UNCHANGED <<now, nextId, pc, want, keep, lone, last>>

\* The strongest is over, or a writer is to replace it ...
Judge(p) ==
    /\ pc[p] = "tidy"
    /\ seen[p] = {keep[p]}
    /\ Expired(keep[p].until) \/ want[p] # Nothing
    /\ pc' = [pc EXCEPT ![p] = IF Expired(keep[p].until) THEN "expire" ELSE "replace"]
    /\ UNCHANGED <<now, rows, nextId, want, seen, keep, lone, last>>

\* ... or it is the answer.
Answer(p) ==
    /\ pc[p] = "tidy"
    /\ seen[p] = {keep[p]}
    /\ ~Expired(keep[p].until) /\ want[p] = Nothing
    /\ pc' = [pc EXCEPT ![p] = "idle"]
    /\ Forget(p)
    /\ UNCHANGED <<now, rows, nextId, want, lone, last>>

DeleteExpired(p) ==
    /\ pc[p] = "expire"
    /\ rows' = rows \ {keep[p]}
    /\ pc' = [pc EXCEPT ![p] = WhenFree(p)]
    /\ Forget(p)
    /\ UNCHANGED <<now, nextId, want, lone, last>>

-----------------------------------------------------------------------------
(* The rest of ban_account, mute_account *)

\* Mutant: the record in force stays beside the new one.
ReplaceMutKeeps(p) ==
    /\ pc[p] = "replace"
    /\ pc' = [pc EXCEPT ![p] = "insert"]
    /\ Forget(p)
    /\ UNCHANGED <<now, rows, nextId, want, lone, last>>

\* DELETE the record the check has answered, by its id.
Replace(p) ==
    /\ pc[p] = "replace"
    /\ rows' = rows \ {keep[p]}
    /\ pc' = [pc EXCEPT ![p] = "insert"]
    /\ Forget(p)
    /\ UNCHANGED <<now, nextId, want, lone, last>>

\* INSERT.
Insert(p) ==
    LET new == [id |-> nextId, until |-> want[p]] IN
    /\ pc[p] = "insert"
    /\ nextId < MaxRows
    /\ rows' = rows \cup {new}
    /\ nextId' = nextId + 1
    /\ pc' = [pc EXCEPT ![p] = "idle"]
    /\ want' = [want EXCEPT ![p] = Nothing]
    /\ last' = IF lone[p] THEN new ELSE last
    /\ lone' = [lone EXCEPT ![p] = FALSE]
    /\ UNCHANGED <<now, seen, keep>>

\* A statement fails: the call ends with what it has done so far.  handle_chat
\* takes an error of its check for `not muted'.
Fail(p) ==
    /\ Faults
    /\ pc[p] \in Statements
    /\ pc' = [pc EXCEPT ![p] =
                IF p \in Muters /\ want[p] = Nothing THEN "chat" ELSE "idle"]
    /\ want' = [want EXCEPT ![p] = Nothing]
    /\ lone' = [lone EXCEPT ![p] = FALSE]
    /\ Forget(p)
    /\ UNCHANGED <<now, rows, nextId, last>>

Tick ==
    /\ now < MaxTime
    /\ now' = now + 1
    /\ UNCHANGED <<rows, nextId, pc, want, seen, keep, lone, last>>

-----------------------------------------------------------------------------

Call(p) == PostPenalty(p) \/ StartCheck(p) \/ ChatPasses(p) \/ AutoMute(p)

Statement(p) ==
    \/ Load(p) \/ LoadFails(p) \/ DeleteOther(p) \/ Judge(p) \/ Answer(p)
    \/ DeleteExpired(p) \/ Replace(p) \/ Insert(p) \/ Fail(p)

Next == (\E p \in Actors : Call(p) \/ Statement(p)) \/ Tick

Spec == Init /\ [][Next]_vars

-----------------------------------------------------------------------------

\* A write that no other write has overlapped, and that could read the table,
\* is the last word: until the next one begins its record is the only one, and
\* stays to its last moment, against the clean-up of every check, also of those
\* that have loaded older records, and although other calls fail half-way.
LoneWriteStands ==
    last # Nothing =>
        /\ rows \subseteq {last}
        /\ ~Expired(last.until) => last \in rows
=============================================================================

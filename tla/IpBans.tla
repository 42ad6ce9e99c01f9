------------------------------- MODULE IpBans -------------------------------
(***************************************************************************)
(* The bans of one IP address: ban_ip and is_ip_banned                     *)
(* (crates/sm64js-db/src/lib.rs), as POST of a ban (sm64js-api, ip_ban.rs) *)
(* and the logins (login.rs) call them.  The table ip_bans has the address *)
(* as its primary key, so there is one row or none.                        *)
(*                                                                         *)
(* Every HTTP worker has a database connection of its own and there are no *)
(* transactions: each SQL statement is a step, and so is each look at the  *)
(* clock between two of them.                                              *)
(***************************************************************************)
EXTENDS Naturals

CONSTANTS
    Checkers,   \* requests that may be inside is_ip_banned
    Durations,  \* the durations a temporary ban may be asked for
    MaxTime,    \* bound: the clock stops here
    Forever,    \* the expiry of a permanent ban (expires_at is None)
    NoRow       \* no row for the address

ASSUME BansAssumption ==
    /\ Durations \subseteq Nat
    /\ MaxTime \in Nat
    /\ Forever \notin Nat /\ NoRow \notin Nat /\ Forever # NoRow

VARIABLES
    now,     \* Utc::now()
    row,     \* expires_at of the row, or NoRow
    step,    \* step[c]: where the check c is
    found,   \* found[c]: the row the check c has read
    asked,   \* observer: the expiry last asked for, or NoRow
    quiet    \* observer: no check was under way when it was asked for

vars == <<now, row, step, found, asked, quiet>>

Expiries == Nat \cup {Forever}

\* A check judges what it has found, and deletes only for a ban that is over.
TypeOK ==
    /\ now \in Nat
    /\ row \in Expiries \cup {NoRow}
    /\ step \in [Checkers -> {"idle", "judge", "delete"}]
    /\ found \in [Checkers -> Expiries \cup {NoRow}]
    /\ \A c \in Checkers :
          /\ step[c] = "judge" => found[c] # NoRow
          /\ step[c] = "delete" => found[c] \in Nat /\ now > found[c]
    /\ asked \in Expiries \cup {NoRow}
    /\ quiet \in BOOLEAN

Init ==
    /\ now = 0
    /\ row = NoRow
    /\ step = [c \in Checkers |-> "idle"]
    /\ found = [c \in Checkers |-> NoRow]
    /\ asked = NoRow
    /\ quiet = TRUE

-----------------------------------------------------------------------------

\* Mutant: ON CONFLICT DO NOTHING.
UpsertedMutNothing(old, expiry) == IF old # NoRow THEN old ELSE expiry

\* INSERT ... ON CONFLICT DO UPDATE SET.  AsChangeset leaves a field that is
\* None out of the SET list: the old expiry stays.
Upserted(old, expiry) ==
    IF old # NoRow /\ expiry = Forever THEN old ELSE expiry

\* post_ban: a duration gives an expiry, no duration a permanent ban.
Ban(expiry) ==
    /\ row' = Upserted(row, expiry)
    /\ asked' = expiry
    /\ quiet' = (\A c \in Checkers : step[c] = "idle")
    /\ UNCHANGED <<now, step, found>>

PostBan ==
    \/ \E d \in Durations : Ban(now + d)
    \/ Ban(Forever)

\* is_ip_banned, first the SELECT.  Without a row the answer is `no'.
Select(c) ==
    /\ step[c] = "idle"
    /\ found' = [found EXCEPT ![c] = row]
    /\ step' = [step EXCEPT ![c] = IF row = NoRow THEN "idle" ELSE "judge"]
    /\ UNCHANGED <<now, row, asked, quiet>>

\* Mutant: a ban is over at its last moment.
ExpiredMutEarly(expiry) == expiry # Forever /\ now >= expiry

\* Mutant: Options are compared as they are, and None is less than any time.
ExpiredMutNone(expiry) == expiry = Forever \/ now > expiry

\* A ban with an expiry is over after it.
Expired(expiry) == expiry # Forever /\ now > expiry

\* ... then the clock: the ban read is in force (the answer), or it is over.
Judge(c) ==
    /\ step[c] = "judge"
    /\ step' = [step EXCEPT ![c] = IF Expired(found[c]) THEN "delete" ELSE "idle"]
    /\ UNCHANGED <<now, row, found, asked, quiet>>

\* ... and a ban that is over is deleted, by its address alone.
Delete(c) ==
    /\ step[c] = "delete"
    /\ row' = NoRow
    /\ step' = [step EXCEPT ![c] = "idle"]
    /\ UNCHANGED <<now, found, asked, quiet>>

Tick ==
    /\ now < MaxTime
    /\ now' = now + 1
    /\ UNCHANGED <<row, step, found, asked, quiet>>

Next ==
    \/ PostBan
    \/ \E c \in Checkers : Select(c) \/ Judge(c) \/ Delete(c)
    \/ Tick

Spec == Init /\ [][Next]_vars

-----------------------------------------------------------------------------

\* A temporary ban, "0s" to lift a ban included, overwrites whatever ban there
\* was: no check, before or after it, makes the address banned for longer.
NotLongerThanAsked ==
    asked \in Nat => row \in {asked, NoRow}

\* A temporary ban asked for while no check was under way is in force to its
\* last moment, whatever checks come after it.
QuietBanStands ==
    (quiet /\ asked \in Nat /\ now <= asked) => row = asked

\* What the documentation of expires_in (ip_ban.rs:101-102) says of a ban
\* without one: it is permanent, and overwrites an existing ban.
PermanentMeansPermanent == asked = Forever => row = Forever
=============================================================================

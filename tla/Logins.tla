------------------------------- MODULE Logins -------------------------------
(***************************************************************************)
(* Accounts, identities and login sessions (crates/sm64js-db/src/lib.rs,   *)
(* sm64js-api/src/login.rs and logout.rs, sm64js-auth/src/auth.rs and      *)
(* identity.rs).                                                           *)
(*                                                                         *)
(* A user is somebody Discord or Google knows: the row of the user in      *)
(* discord_accounts or google_accounts names the account.  A login is a    *)
(* sequence of statements without a transaction, which the web server's    *)
(* workers run for several browsers at once, and any of which may fail.    *)
(***************************************************************************)
EXTENDS Naturals, FiniteSets

CONSTANTS
    Browsers,
    Users,
    NoUser,       \* for a browser in which no login is under way
    MaxAccounts,  \* bound: rows ever inserted into accounts
    MaxSessions,  \* bound: rows ever inserted into the tables of sessions
    MaxBans       \* bound: bans written

ASSUME LoginsAssumption ==
    /\ NoUser \notin Users
    /\ MaxAccounts \in Nat /\ MaxSessions \in Nat /\ MaxBans \in Nat

VARIABLES
    accounts,  \* the last id in accounts, whose rows are never deleted
    identity,  \* identity[u]: the account_id of u's row, 0 when there is none
    sessions,  \* the rows of the tables of sessions
    lastId,    \* the last id in the tables of sessions
    banned,    \* the accounts with a ban in force
    bans,      \* the number of bans written
    cookie,    \* cookie[b]: the session_id in b's cookie, 0 without a cookie
    auth,      \* auth[b]: the session in the Identity of b's request, or 0
    login,     \* login[b]: the login of b that is under way
    owner,     \* observer, owner[a]: the user whose row has named a
    extra,     \* observer, extra[u]: logins of u that began during another one
               \* or could not read the session to replace (up to
               \* the bound of sessions)
    twins,     \* observer: users for whom two logins under way found no row
    unread     \* observer: users for whom a login could not read the bans

observers == <<owner, extra, twins, unread>>
banVars == <<banned, bans>>
vars == <<accounts, identity, sessions, lastId, banVars, cookie, auth,
          login, observers>>

Accounts == 1 .. MaxAccounts

Steps == {"none", "ban", "first", "delete", "account", "upsert", "insert", "set"}

\* account and session are 0 while there is none; barred is an observer: the user
\* had a banned account when the login began.
Login == [step : Steps, user : Users \cup {NoUser}, account : 0 .. MaxAccounts,
          session : 0 .. MaxSessions, barred : BOOLEAN]

NoLogin == [step |-> "none", user |-> NoUser, account |-> 0, session |-> 0, barred |-> FALSE]

SessionsOf(u) == {s \in sessions : s.user = u}

\* The logins of u that have not inserted their session.
Underway(u) ==
    {b \in Browsers : login[b].user = u /\ login[b].step \notin {"none", "set"}}

TypeOK ==
    /\ accounts \in 0 .. MaxAccounts
    /\ identity \in [Users -> 0 .. accounts]
    /\ sessions \subseteq [id : 1 .. lastId, user : Users]
    /\ \A s, t \in sessions : s.id = t.id => s = t
    /\ \A s \in sessions : identity[s.user] # 0
    /\ lastId \in 0 .. MaxSessions
    /\ banned \subseteq 1 .. accounts
    /\ bans \in 0 .. MaxBans
    /\ cookie \in [Browsers -> 0 .. lastId]
    /\ auth \in [Browsers -> 0 .. lastId]
    /\ login \in [Browsers -> Login]
    /\ \A b \in Browsers : login[b].step = "none" <=> login[b].user = NoUser
    /\ owner \in [Accounts -> Users \cup {NoUser}]
    /\ extra \in [Users -> 0 .. MaxSessions]
    /\ twins \subseteq Users
    /\ unread \subseteq Users

Init ==
    /\ accounts = 0 /\ identity = [u \in Users |-> 0]
    /\ sessions = {} /\ lastId = 0
    /\ banned = {} /\ bans = 0
    /\ cookie = [b \in Browsers |-> 0]
    /\ auth = [b \in Browsers |-> 0]
    /\ login = [b \in Browsers |-> NoLogin]
    /\ owner = [a \in Accounts |-> NoUser]
    /\ extra = [u \in Users |-> 0]
    /\ twins = {} /\ unread = {}

-----------------------------------------------------------------------------
(* A login: insert_discord_session and insert_google_session *)

CountExtra(u) == extra' = [extra EXCEPT ![u] = IF @ < MaxSessions THEN @ + 1 ELSE @]

\* The address is not banned and the provider has told who the user is, and the
\* first statement looks for the user's row: get_discord_account_if_exists,
\* get_google_account_if_exists.
Find(b, u) ==
    /\ login[b].step = "none"
    /\ LET first == identity[u] = 0 IN
       /\ login' = [login EXCEPT ![b] =
             [step |-> IF first THEN "account" ELSE "ban", user |-> u,
              account |-> identity[u], session |-> 0,
              barred |-> \E a \in banned : owner[a] = u]]
       /\ twins' = IF first /\ \E c \in Underway(u) : login[c].step \in {"account", "upsert"}
                   THEN twins \cup {u} ELSE twins
    /\ IF Underway(u) = {} THEN extra' = extra ELSE CountExtra(u)
    /\ UNCHANGED <<accounts, identity, sessions, lastId, banVars, cookie, auth,
                   owner, unread>>

\* Mutant: a ban is found, and nothing is done about it.
CheckBanMutPasses(b) ==
    /\ login[b].step = "ban"
    /\ login' = [login EXCEPT ![b].step = "first"]
    /\ UNCHANGED <<accounts, identity, sessions, lastId, banVars, cookie, auth,
                   observers>>

\* is_account_banned, which takes a SELECT that fails for no ban.  The update of
\* the account's last_ip follows.
CheckBan(b) ==
    /\ login[b].step = "ban"
    /\ \/ /\ login[b].account \notin banned
          /\ login' = [login EXCEPT ![b].step = "first"]
          /\ unread' = unread
       \/ /\ login[b].account \in banned
          /\ login' = [login EXCEPT ![b] = NoLogin]
          /\ unread' = unread
       \/ /\ login' = [login EXCEPT ![b].step = "first"]
          /\ unread' = unread \cup {login[b].user}
    /\ UNCHANGED <<accounts, identity, sessions, lastId, banVars, cookie, auth,
                   owner, extra, twins>>

\* Mutant: without a session the account is not passed on.
FirstMutNoAccount(b) ==
    /\ login[b].step = "first"
    /\ \/ \E s \in SessionsOf(login[b].user) :
            login' = [login EXCEPT ![b].step = "delete", ![b].session = s.id]
       \/ /\ SessionsOf(login[b].user) = {}
          /\ login' = [login EXCEPT ![b].step = "account"]
    /\ UNCHANGED <<accounts, identity, sessions, lastId, banVars, cookie, auth,
                   observers>>

\* The first session that belongs to the user: the statement has no order.  One
\* that fails is taken for no session.
First(b) ==
    /\ login[b].step = "first"
    /\ \/ /\ \E s \in SessionsOf(login[b].user) :
                login' = [login EXCEPT ![b].step = "delete", ![b].session = s.id]
          /\ extra' = extra
       \/ /\ SessionsOf(login[b].user) = {}
          /\ login' = [login EXCEPT ![b].step = "upsert"]
          /\ extra' = extra
       \/ /\ login' = [login EXCEPT ![b].step = "upsert"]
          /\ CountExtra(login[b].user)
    /\ UNCHANGED <<accounts, identity, sessions, lastId, banVars, cookie, auth,
                   owner, twins, unread>>

\* Mutant: the session is kept.
DeleteMutKeeps(b) ==
    /\ login[b].step = "delete"
    /\ login' = [login EXCEPT ![b].step = "upsert", ![b].session = 0]
    /\ UNCHANGED <<accounts, identity, sessions, lastId, banVars, cookie, auth, observers>>

\* delete_discord_session, delete_google_session
Delete(b) ==
    /\ login[b].step = "delete"
    /\ sessions' = {s \in sessions : s.id # login[b].session}
    /\ login' = [login EXCEPT ![b].step = "upsert", ![b].session = 0]
    /\ UNCHANGED <<accounts, identity, lastId, banVars, cookie, auth, observers>>

\* Mutant: the user's own row is not written.
InsertAccountMutNoRow(b) ==
    /\ login[b].step = "account"
    /\ accounts < MaxAccounts
    /\ accounts' = accounts + 1
    /\ login' = [login EXCEPT ![b].step = "insert", ![b].account = accounts']
    /\ UNCHANGED <<identity, sessions, lastId, banVars, cookie, auth, observers>>

\* insert_account
InsertAccount(b) ==
    /\ login[b].step = "account"
    /\ accounts < MaxAccounts
    /\ accounts' = accounts + 1
    /\ login' = [login EXCEPT ![b].step = "upsert", ![b].account = accounts']
    /\ UNCHANGED <<identity, sessions, lastId, banVars, cookie, auth, observers>>

\* upsert_discord_account, upsert_google_account: a row that is there already
\* gets the account of this login.
Upsert(b) ==
    /\ login[b].step = "upsert"
    /\ identity' = [identity EXCEPT ![login[b].user] = login[b].account]
    /\ owner' = [owner EXCEPT ![login[b].account] = login[b].user]
    /\ login' = [login EXCEPT ![b].step = "insert"]
    /\ UNCHANGED <<accounts, sessions, lastId, banVars, cookie, auth,
                   extra, twins, unread>>

InsertSession(b) ==
    /\ login[b].step = "insert"
    /\ lastId < MaxSessions
    /\ lastId' = lastId + 1
    /\ sessions' = sessions \cup {[id |-> lastId', user |-> login[b].user]}
    /\ login' = [login EXCEPT ![b].step = "set", ![b].session = lastId']
    /\ UNCHANGED <<accounts, identity, banVars, cookie, auth, observers>>

\* The response carries the cookie.
SetCookie(b) ==
    /\ login[b].step = "set"
    /\ cookie' = [cookie EXCEPT ![b] = login[b].session]
    /\ login' = [login EXCEPT ![b] = NoLogin]
    /\ UNCHANGED <<accounts, identity, sessions, lastId, banVars, auth, observers>>

\* A statement fails, or the response does not reach the browser: what was done
\* is done.
Fail(b) ==
    /\ login[b].step # "none"
    /\ login' = [login EXCEPT ![b] = NoLogin]
    /\ UNCHANGED <<accounts, identity, sessions, lastId, banVars, cookie, auth,
                   observers>>

-----------------------------------------------------------------------------
(* Requests with a cookie *)

\* The middleware: get_auth_info finds the session of the cookie, or nobody.  It
\* may have expired meanwhile, which nothing else looks at: then its row is
\* deleted and the cookie purged, as it is for every statement that fails.
Authenticate(b) ==
    /\ cookie[b] # 0
    /\ auth[b] = 0
    /\ \/ /\ \E s \in sessions : s.id = cookie[b]
          /\ auth' = [auth EXCEPT ![b] = cookie[b]]
          /\ UNCHANGED <<sessions, cookie>>
       \/ /\ sessions' \in {sessions, {s \in sessions : s.id # cookie[b]}}
          /\ cookie' = [cookie EXCEPT ![b] = 0]
          /\ auth' = auth
    /\ UNCHANGED <<accounts, identity, lastId, banVars, login, observers>>

\* post_logout deletes the session of the Identity and clears the cookie.
Logout(b) ==
    /\ auth[b] # 0
    /\ sessions' = {s \in sessions : s.id # auth[b]}
    /\ cookie' = [cookie EXCEPT ![b] = 0]
    /\ auth' = [auth EXCEPT ![b] = 0]
    /\ UNCHANGED <<accounts, identity, lastId, banVars, login, observers>>

\* Any other request leaves all this alone, and so does a logout that fails.
Respond(b) ==
    /\ auth[b] # 0
    /\ auth' = [auth EXCEPT ![b] = 0]
    /\ UNCHANGED <<accounts, identity, sessions, lastId, banVars, cookie, login,
                   observers>>

-----------------------------------------------------------------------------
(* Moderators *)

Ban(a) ==
    /\ a \in 1 .. accounts \ banned
    /\ bans < MaxBans
    /\ bans' = bans + 1
    /\ banned' = banned \cup {a}
    /\ UNCHANGED <<accounts, identity, sessions, lastId, cookie, auth, login,
                   observers>>

\* A ban ends: its time is over.
Lift(a) ==
    /\ a \in banned
    /\ banned' = banned \ {a}
    /\ login' = [b \in Browsers |->
                    IF login[b].user = owner[a] THEN [login[b] EXCEPT !.barred = FALSE]
                    ELSE login[b]]
    /\ UNCHANGED <<accounts, identity, sessions, lastId, bans, cookie, auth,
                   observers>>

-----------------------------------------------------------------------------

LoginStep(b) ==
    \/ \E u \in Users : Find(b, u)
    \/ CheckBan(b) \/ First(b) \/ Delete(b) \/ InsertAccount(b)
    \/ Upsert(b) \/ InsertSession(b) \/ SetCookie(b) \/ Fail(b)

RequestStep(b) == Authenticate(b) \/ Logout(b) \/ Respond(b)

Next ==
    \/ \E b \in Browsers : LoginStep(b) \/ RequestStep(b)
    \/ \E a \in Accounts : Ban(a) \/ Lift(a)

Spec == Init /\ [][Next]_vars

-----------------------------------------------------------------------------
(* Properties *)

\* A login replaces the user's session.  Two at once leave one too many, which
\* no later login clears away, but there are never more sessions of a user than
\* logins that overlapped, or could not read what to replace, explain.
SessionsAreAccountedFor ==
    \A u \in Users : Cardinality(SessionsOf(u)) <= 1 + extra[u]

\* A user's row keeps its account, with its bans and mutes, whatever logins of
\* the user fail half way or overlap, unless two at once were the first.
AccountIsKept ==
    [][\A u \in Users \ twins : identity[u] # 0 => identity'[u] = identity[u]]_vars

\* A user who had a banned account when a login began does not get a session
\* from it, unless the ban has ended, could not be read, or the user got a
\* second account from two first logins at once.
BannedStayOut ==
    \A b \in Browsers :
        login[b].step = "set" /\ login[b].barred => login[b].user \in twins \cup unread
=============================================================================

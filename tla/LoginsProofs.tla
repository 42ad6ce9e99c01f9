---------------------------- MODULE LoginsProofs ----------------------------
(***************************************************************************)
(* Logins, for any number of users and browsers and tables of any size.    *)
(*                                                                         *)
(* A login that found the user's row knows the account the row names; one  *)
(* that found none is the only one to write the row (LoginsKnow), unless   *)
(* two found none at once (FirstsAreTwins).  So an account is only ever    *)
(* named by one user's row, and a user's row names only one account        *)
(* (RowsAreSingle, AccountsAreSingle): the banned account is the one whose *)
(* bans the login reads (BarredKnow).                                      *)
(*                                                                         *)
(* The sessions are counted last.  The sessions that no login is about to  *)
(* delete and the logins under way, each of which may leave one, are       *)
(* together no more than the overlaps explain, with one place more while   *)
(* none of the logins has looked for the session to replace (Balanced).    *)
(***************************************************************************)
EXTENDS Logins, FiniteSetTheorems, TLAPS

\* Steps of a login that has found the user's row, and of one that has not and
\* has not written it.
Found == {"ban", "first", "delete"}
Writing == {"account", "upsert"}

\* What a login knows at each step.
LoginsKnow ==
    \A b \in Browsers : LET l == login[b] IN
        /\ l.account <= accounts
        /\ l.session <= lastId
        /\ l.step = "none" => l.account = 0
        /\ l.step \in Found \cup {"upsert"} =>
               /\ l.account # 0
               /\ identity[l.user] \in {0, l.account} \/ l.user \in twins
        /\ l.step \in Found \cup {"insert"} => identity[l.user] # 0
        /\ l.step = "account" => identity[l.user] = 0 \/ l.user \in twins

\* Two logins that are about to write a user's first row.
FirstsAreTwins ==
    \A b, c \in Browsers :
        /\ b # c
        /\ login[b].user = login[c].user
        /\ login[b].step \in Writing
        /\ login[c].step \in Writing
        /\ identity[login[b].user] = 0
        => login[b].user \in twins

\* A user's row has named one account.
RowsAreSingle ==
    /\ \A a \in Accounts : owner[a] # NoUser => a <= accounts
    /\ \A a \in Accounts :
           owner[a] # NoUser => identity[owner[a]] = a \/ owner[a] \in twins
    /\ \A u \in Users : identity[u] # 0 => owner[identity[u]] = u

\* An account that a login is about to use is the user's, or has just been
\* inserted by this login.
AccountsAreSingle ==
    \A b \in Browsers : LET l == login[b] IN
        l.account # 0 =>
            \/ owner[l.account] = l.user
            \/ /\ owner[l.account] = NoUser
               /\ l.step = "upsert"
               /\ \A c \in Browsers : c # b => login[c].account # l.account

\* How far the login of a user with a banned account gets.
BarredKnow ==
    \A b \in Browsers : LET l == login[b] IN
        l.barred =>
            /\ l.step = "account" => l.user \in twins
            /\ l.step = "ban" => l.account \in banned \/ l.user \in twins
            /\ l.step \in {"first", "delete", "upsert", "insert", "set"} =>
                   l.user \in twins \cup unread

IInv ==
    /\ TypeOK /\ LoginsKnow /\ FirstsAreTwins
    /\ RowsAreSingle /\ AccountsAreSingle /\ BarredKnow

-----------------------------------------------------------------------------

LEMMA InitIInv == Init => IInv
  BY LoginsAssumption
  DEF Init, IInv, TypeOK, LoginsKnow, FirstsAreTwins, RowsAreSingle,
      AccountsAreSingle, BarredKnow, NoLogin, Login, Steps, Accounts, Found, Writing

\* A login whose record is replaced.
LEMMA LoginReplaced ==
  ASSUME TypeOK, NEW b \in Browsers, NEW l \in Login,
         l.step = "none" <=> l.user = NoUser,
         login' = [login EXCEPT ![b] = l]
  PROVE  /\ login' \in [Browsers -> Login]
         /\ \A c \in Browsers : login'[c].step = "none" <=> login'[c].user = NoUser
<1>1. login \in [Browsers -> Login]
  BY DEF TypeOK
<1>2. \A c \in Browsers : login[c].step = "none" <=> login[c].user = NoUser
  BY DEF TypeOK
<1>3. login'[b] = l /\ \A c \in Browsers \ {b} : login'[c] = login[c]
  BY <1>1
<1>4. QED BY <1>1, <1>2, <1>3

\* A login that goes to another step, perhaps with another account or session.
LEMMA LoginMoves ==
  ASSUME NEW l \in Login, NEW s \in Steps, NEW a \in 0 .. MaxAccounts,
         NEW i \in 0 .. MaxSessions
  PROVE  /\ [l EXCEPT !.step = s] \in Login
         /\ [l EXCEPT !.step = s, !.account = a] \in Login
         /\ [l EXCEPT !.step = s, !.session = i] \in Login
  BY DEF Login

LEMMA NoLoginType == NoLogin \in Login /\ NoLogin.step = "none" /\ NoLogin.user = NoUser
  BY LoginsAssumption DEF NoLogin, Login, Steps

LEMMA ExtraType ==
  ASSUME TypeOK, NEW u \in Users, CountExtra(u)
  PROVE  extra' \in [Users -> 0 .. MaxSessions]
<1>1. extra \in [Users -> 0 .. MaxSessions] /\ MaxSessions \in Nat
  BY LoginsAssumption DEF TypeOK
<1>2. QED BY <1>1 DEF CountExtra

\* What a login is when a step of it begins.
LEMMA LoginBefore ==
  ASSUME TypeOK, NEW b \in Browsers
  PROVE  /\ login[b] \in Login
         /\ login[b].step # "none" => login[b].user \in Users
  BY DEF TypeOK, Login

\* Every step keeps the types.
LEMMA TypeStep == IInv /\ [Next]_vars => TypeOK'
<1> SUFFICES ASSUME IInv, [Next]_vars PROVE TypeOK'
  OBVIOUS
<1>0. TypeOK /\ LoginsKnow
  BY DEF IInv
<1> DEFINE LoginType ==
        /\ login' \in [Browsers -> Login]
        /\ \A b \in Browsers : login'[b].step = "none" <=> login'[b].user = NoUser
\* A step that changes logins and observers only.
<1>a. ASSUME LoginType, extra' \in [Users -> 0 .. MaxSessions], twins' \subseteq Users,
             unread' \subseteq Users, owner' = owner,
             UNCHANGED <<accounts, identity, sessions, lastId, banVars, cookie, auth>>
      PROVE  TypeOK'
  BY <1>0, <1>a DEF TypeOK, banVars
<1>1. ASSUME NEW b \in Browsers, NEW u \in Users, Find(b, u) PROVE TypeOK'
  <2> DEFINE barred == \E a \in banned : owner[a] = u
             s == IF identity[u] = 0 THEN "account" ELSE "ban"
             l == [step |-> s, user |-> u, account |-> identity[u], session |-> 0,
                   barred |-> barred]
  <2>1. identity[u] \in 0 .. MaxAccounts
    BY <1>0, LoginsAssumption DEF TypeOK
  <2>2. l \in Login /\ l.step # "none" /\ l.user # NoUser
    <3>1. barred \in BOOLEAN
      OBVIOUS
    <3>2. s \in Steps /\ s # "none" /\ u # NoUser
      BY LoginsAssumption DEF Steps
    <3> HIDE DEF barred, s
    <3>3. QED BY <2>1, <3>1, <3>2, LoginsAssumption DEF Login
  <2>3. login' = [login EXCEPT ![b] = l]
    BY <1>1 DEF Find
  <2> HIDE DEF l
  <2>4. LoginType
    BY <1>0, <2>2, <2>3, LoginReplaced
  <2>5. extra' \in [Users -> 0 .. MaxSessions]
    BY <1>0, <1>1, ExtraType DEF Find, TypeOK
  <2>6. twins' \subseteq Users
    BY <1>0, <1>1 DEF Find, TypeOK
  <2>7. unread' \subseteq Users
    BY <1>0, <1>1 DEF Find, TypeOK
  <2>8. QED BY <1>1, <2>4, <2>5, <2>6, <2>7, <1>a DEF Find, banVars
<1>b. ASSUME NEW b \in Browsers, login[b].step # "none",
             NEW s \in Steps \ {"none"}, NEW a \in 0 .. MaxAccounts,
             NEW i \in 0 .. MaxSessions,
             \/ login' = [login EXCEPT ![b].step = s]
             \/ login' = [login EXCEPT ![b].step = s, ![b].account = a]
             \/ login' = [login EXCEPT ![b].step = s, ![b].session = i]
      PROVE  LoginType
  <2>1. login[b] \in Login /\ login[b].user # NoUser
    BY <1>0, <1>b DEF TypeOK
  <2>2. CASE login' = [login EXCEPT ![b].step = s]
    <3> DEFINE l == [login[b] EXCEPT !.step = s]
    <3>1. l \in Login /\ l.step # "none" /\ l.user # NoUser
      BY <2>1, LoginMoves DEF Login
    <3>2. login' = [login EXCEPT ![b] = l]
      BY <2>2
    <3> HIDE DEF l
    <3>3. QED BY <1>0, <3>1, <3>2, LoginReplaced
  <2>3. CASE login' = [login EXCEPT ![b].step = s, ![b].account = a]
    <3> DEFINE l == [login[b] EXCEPT !.step = s, !.account = a]
    <3>1. l \in Login /\ l.step # "none" /\ l.user # NoUser
      BY <2>1, LoginMoves DEF Login
    <3>2. login' = [login EXCEPT ![b] = l]
      BY <1>0, <2>3 DEF TypeOK
    <3> HIDE DEF l
    <3>3. QED BY <1>0, <3>1, <3>2, LoginReplaced
  <2>4. CASE login' = [login EXCEPT ![b].step = s, ![b].session = i]
    <3> DEFINE l == [login[b] EXCEPT !.step = s, !.session = i]
    <3>1. l \in Login /\ l.step # "none" /\ l.user # NoUser
      BY <2>1, LoginMoves DEF Login
    <3>2. login' = [login EXCEPT ![b] = l]
      BY <1>0, <2>4 DEF TypeOK
    <3> HIDE DEF l
    <3>3. QED BY <1>0, <3>1, <3>2, LoginReplaced
  <2>5. QED BY <1>b, <2>2, <2>3, <2>4
<1>c. ASSUME NEW b \in Browsers, login' = [login EXCEPT ![b] = NoLogin] PROVE LoginType
  BY <1>0, <1>c, NoLoginType, LoginReplaced
<1>d. \A s \in {"first", "delete", "upsert", "insert", "set"} : s \in Steps \ {"none"}
  BY DEF Steps
<1>e. 0 \in 0 .. MaxAccounts /\ 0 \in 0 .. MaxSessions
  BY LoginsAssumption
<1>2. ASSUME NEW b \in Browsers, CheckBan(b) PROVE TypeOK'
  <2>1. LoginType
    BY <1>2, <1>b, <1>c, <1>d, <1>e DEF CheckBan
  <2>2. login[b].user \in Users
    BY <1>0, <1>2, LoginBefore DEF CheckBan
  <2>3. unread' \subseteq Users
    BY <1>0, <1>2, <2>2 DEF CheckBan, TypeOK
  <2>4. QED BY <1>0, <1>2, <2>1, <2>3, <1>a DEF CheckBan, TypeOK, banVars
<1>3. ASSUME NEW b \in Browsers, First(b) PROVE TypeOK'
  <2>1. \A s \in sessions : s.id \in 0 .. MaxSessions
    BY <1>0, LoginsAssumption DEF TypeOK
  <2>2. LoginType
    BY <1>3, <2>1, <1>b, <1>d, <1>e DEF First, SessionsOf
  <2>3. login[b].user \in Users
    BY <1>0, <1>3, LoginBefore DEF First
  <2>4. extra' \in [Users -> 0 .. MaxSessions]
    BY <1>0, <1>3, <2>3, ExtraType DEF First, TypeOK
  <2>5. QED BY <1>0, <1>3, <2>2, <2>4, <1>a DEF First, TypeOK, banVars
<1>4. ASSUME NEW b \in Browsers, Delete(b) PROVE TypeOK'
  <2>1. LoginType
    BY <1>4, <1>b, <1>d, <1>e DEF Delete
  <2>2. QED BY <1>0, <1>4, <2>1 DEF Delete, TypeOK, observers, banVars
<1>5. ASSUME NEW b \in Browsers, InsertAccount(b) PROVE TypeOK'
  <2>1. accounts' \in 0 .. MaxAccounts /\ accounts <= accounts'
    BY <1>0, <1>5, LoginsAssumption DEF InsertAccount, TypeOK
  <2>2. LoginType
    BY <1>5, <2>1, <1>b, <1>d, <1>e DEF InsertAccount
  <2>3. identity' \in [Users -> 0 .. accounts'] /\ banned' \subseteq 1 .. accounts'
    BY <1>0, <1>5, LoginsAssumption DEF InsertAccount, TypeOK, banVars
  <2>4. QED BY <1>0, <1>5, <2>1, <2>2, <2>3 DEF InsertAccount, TypeOK, observers, banVars
<1>6. ASSUME NEW b \in Browsers, Upsert(b) PROVE TypeOK'
  <2>1. LoginType
    BY <1>6, <1>b, <1>d, <1>e DEF Upsert
  <2>2. login[b].account \in 1 .. accounts /\ login[b].user \in Users
    <3>1. login[b].user \in Users /\ login[b].account \in Nat
      BY <1>0, <1>6, LoginBefore, LoginsAssumption DEF Upsert, Login
    <3>2. login[b].account # 0 /\ login[b].account <= accounts
      BY <1>0, <1>6 DEF Upsert, LoginsKnow
    <3>3. accounts \in Nat
      BY <1>0, LoginsAssumption DEF TypeOK
    <3>4. QED BY <3>1, <3>2, <3>3
  <2>3. /\ identity' \in [Users -> 0 .. accounts]
        /\ \A u \in Users : identity[u] # 0 => identity'[u] # 0
    BY <1>0, <1>6, <2>2, LoginsAssumption DEF Upsert, TypeOK
  <2>4. owner' \in [Accounts -> Users \cup {NoUser}]
    BY <1>0, <1>6, <2>2 DEF Upsert, TypeOK
  <2>5. QED BY <1>0, <1>6, <2>1, <2>3, <2>4 DEF Upsert, TypeOK, banVars
<1>7. ASSUME NEW b \in Browsers, InsertSession(b) PROVE TypeOK'
  <2>1. lastId' \in 1 .. MaxSessions /\ lastId \in Nat /\ lastId' = lastId + 1
    BY <1>0, <1>7, LoginsAssumption DEF InsertSession, TypeOK
  <2>2. LoginType
    <3>1. lastId' \in 0 .. MaxSessions
      BY <2>1
    <3>2. QED BY <1>7, <3>1, <1>b, <1>d, <1>e DEF InsertSession
  <2> DEFINE new == [id |-> lastId', user |-> login[b].user]
  <2>3. login[b].user \in Users /\ identity[login[b].user] # 0
    BY <1>0, <1>7, LoginBefore DEF InsertSession, LoginsKnow
  <2>4. sessions' = sessions \cup {new}
    BY <1>7 DEF InsertSession
  <2>5. /\ sessions' \subseteq [id : 1 .. lastId', user : Users]
        /\ \A s, t \in sessions' : s.id = t.id => s = t
        /\ \A s \in sessions' : identity[s.user] # 0
    <3>1. \A s \in sessions :
             s \in [id : 1 .. lastId, user : Users] /\ identity[s.user] # 0
      BY <1>0 DEF TypeOK
    <3>2. \A s \in sessions : s.id # new.id /\ s.id \in 1 .. lastId'
      BY <2>1, <3>1
    <3>3. \A s, t \in sessions : s.id = t.id => s = t
      BY <1>0 DEF TypeOK
    <3>4. \A s \in sessions : s \in [id : 1 .. lastId', user : Users]
      BY <3>1, <3>2
    <3>5. new \in [id : 1 .. lastId', user : Users]
      BY <2>1, <2>3
    <3>6. new.user = login[b].user
      OBVIOUS
    <3> HIDE DEF new
    <3>7. QED BY <2>3, <2>4, <3>1, <3>2, <3>3, <3>4, <3>5, <3>6
  <2>6. cookie' \in [Browsers -> 0 .. lastId'] /\ auth' \in [Browsers -> 0 .. lastId']
    BY <1>0, <1>7, <2>1 DEF InsertSession, TypeOK
  <2>7. identity' = identity
    BY <1>7 DEF InsertSession
  <2>8. QED
    BY <1>0, <1>7, <2>1, <2>2, <2>5, <2>6, <2>7
    DEF InsertSession, TypeOK, observers, banVars
<1>8. ASSUME NEW b \in Browsers, SetCookie(b) PROVE TypeOK'
  <2>1. LoginType
    BY <1>8, <1>c DEF SetCookie
  <2>2. login[b].session \in 0 .. lastId
    <3>1. login[b].session \in Nat
      BY <1>0, LoginBefore, LoginsAssumption DEF Login
    <3>2. login[b].session <= lastId /\ lastId \in Nat
      BY <1>0, LoginsAssumption DEF LoginsKnow, TypeOK
    <3>3. QED BY <3>1, <3>2
  <2>3. QED BY <1>0, <1>8, <2>1, <2>2 DEF SetCookie, TypeOK, observers, banVars
<1>9. ASSUME NEW b \in Browsers, Fail(b) PROVE TypeOK'
  <2>1. LoginType
    BY <1>9, <1>c DEF Fail
  <2>2. QED BY <1>0, <1>9, <2>1 DEF Fail, TypeOK, observers, banVars
<1>10. ASSUME NEW b \in Browsers, Authenticate(b) PROVE TypeOK'
  BY <1>0, <1>10, LoginsAssumption DEF Authenticate, TypeOK, observers, banVars
<1>11. ASSUME NEW b \in Browsers, Logout(b) PROVE TypeOK'
  BY <1>0, <1>11, LoginsAssumption DEF Logout, TypeOK, observers, banVars
<1>12. ASSUME NEW b \in Browsers, Respond(b) PROVE TypeOK'
  BY <1>0, <1>12, LoginsAssumption DEF Respond, TypeOK, observers, banVars
<1>13. ASSUME NEW a \in Accounts, Ban(a) PROVE TypeOK'
  <2>1. banned' \subseteq 1 .. accounts /\ bans' \in 0 .. MaxBans
    BY <1>0, <1>13, LoginsAssumption DEF Ban, TypeOK
  <2>2. QED BY <1>0, <1>13, <2>1 DEF Ban, TypeOK, observers
<1>14. ASSUME NEW a \in Accounts, Lift(a) PROVE TypeOK'
  <2>1. \A b \in Browsers :
           /\ login'[b] \in Login
           /\ login'[b].step = login[b].step /\ login'[b].user = login[b].user
    BY <1>0, <1>14 DEF Lift, TypeOK, Login
  <2>2. LoginType
    BY <1>0, <1>14, <2>1 DEF Lift, TypeOK
  <2>3. QED BY <1>0, <1>14, <2>2 DEF Lift, TypeOK, observers
<1>15. CASE UNCHANGED vars
  BY <1>0, <1>15 DEF TypeOK, vars, observers, banVars
<1>16. QED
  BY <1>1, <1>2, <1>3, <1>4, <1>5, <1>6, <1>7, <1>8, <1>9, <1>10, <1>11, <1>12,
     <1>13, <1>14, <1>15
  DEF Next, LoginStep, RequestStep

\* What the check for a ban does to the logins.
LEMMA CheckBanEffect ==
  ASSUME TypeOK, NEW b \in Browsers, CheckBan(b)
  PROVE  /\ \A c \in Browsers \ {b} : login'[c] = login[c]
         /\ \/ /\ login'[b].step = "none" /\ login'[b].account = 0
               /\ login'[b].session = 0 /\ login'[b].barred = FALSE
            \/ /\ login'[b].step = "first"
               /\ login'[b].user = login[b].user
               /\ login'[b].account = login[b].account
               /\ login'[b].session = login[b].session
               /\ login'[b].barred = login[b].barred
               /\ login[b].account \notin banned \/ login[b].user \in unread'
         /\ login[b].step = "ban" /\ login[b].user \in Users
         /\ unread \subseteq unread'
         /\ UNCHANGED <<accounts, identity, lastId, owner, twins, banned>>
<1>1. login \in [Browsers -> Login] /\ login[b] \in Login
  BY DEF TypeOK
<1>2. login[b].step = "ban" /\ login[b].user \in Users
  BY LoginBefore DEF CheckBan
<1>3. CASE login' = [login EXCEPT ![b] = NoLogin]
  <2>1. login'[b] = NoLogin /\ \A c \in Browsers \ {b} : login'[c] = login[c]
    BY <1>1, <1>3
  <2>2. /\ login'[b].step = "none" /\ login'[b].account = 0
        /\ login'[b].session = 0 /\ login'[b].barred = FALSE
    BY <2>1 DEF NoLogin
  <2>3. QED BY <1>2, <2>1, <2>2 DEF CheckBan, banVars
<1>4. CASE /\ login' = [login EXCEPT ![b].step = "first"]
           /\ login[b].account \notin banned \/ login[b].user \in unread'
  <2>1. /\ login'[b] = [login[b] EXCEPT !.step = "first"]
        /\ \A c \in Browsers \ {b} : login'[c] = login[c]
    BY <1>1, <1>4
  <2>2. /\ login'[b].step = "first"
        /\ login'[b].user = login[b].user
        /\ login'[b].account = login[b].account
        /\ login'[b].session = login[b].session
        /\ login'[b].barred = login[b].barred
    BY <1>1, <2>1 DEF Login
  <2>3. QED BY <1>2, <1>4, <2>1, <2>2 DEF CheckBan, banVars
<1>5. QED BY <1>3, <1>4 DEF CheckBan

\* Every step keeps what the logins know.
LEMMA KnowStep == IInv /\ [Next]_vars => LoginsKnow'
<1> SUFFICES ASSUME IInv, [Next]_vars PROVE LoginsKnow'
  OBVIOUS
<1> USE LoginsAssumption
    DEF IInv, TypeOK, LoginsKnow, NoLogin, Login, Found, Writing,
        banVars, observers, FirstsAreTwins, SessionsOf
<1>1. ASSUME NEW b \in Browsers, NEW u \in Users, Find(b, u) PROVE LoginsKnow'
  <2>1. /\ login'[b].user = u /\ login'[b].account = identity[u] /\ login'[b].session = 0
        /\ login'[b].step = IF identity[u] = 0 THEN "account" ELSE "ban"
        /\ \A c \in Browsers \ {b} : login'[c] = login[c]
    BY <1>1 DEF Find
  <2>2. twins \subseteq twins' /\ UNCHANGED <<accounts, identity, lastId, owner, banned, unread>>
    BY <1>1 DEF Find
  <2>3. identity[u] \in 0 .. accounts /\ accounts \in Nat /\ lastId \in Nat
    OBVIOUS
  <2> SUFFICES ASSUME NEW c \in Browsers PROVE LET l == login'[c] IN
        /\ l.account <= accounts
        /\ l.session <= lastId
        /\ l.step = "none" => l.account = 0
        /\ l.step \in Found \cup {"upsert"} =>
               /\ l.account # 0
               /\ identity[l.user] \in {0, l.account} \/ l.user \in twins'
        /\ l.step \in Found \cup {"insert"} => identity[l.user] # 0
        /\ l.step = "account" => identity[l.user] = 0 \/ l.user \in twins'
    BY <2>2
  <2>4. CASE c = b
    BY <2>1, <2>3, <2>4
  <2>5. CASE c # b
    BY <2>1, <2>2, <2>5
  <2>6. QED BY <2>4, <2>5
<1>2. ASSUME NEW b \in Browsers, CheckBan(b) PROVE LoginsKnow'
  <2>1. TypeOK
    OBVIOUS
  <2>2. /\ \/ login'[b].step = "none" /\ login'[b].account = 0 /\ login'[b].session = 0
           \/ (/\ login'[b].step = "first" /\ login'[b].user = login[b].user
                                 /\ login'[b].account = login[b].account
                                 /\ login'[b].session = login[b].session)
        /\ \A c \in Browsers \ {b} : login'[c] = login[c]
        /\ UNCHANGED <<accounts, identity, lastId, twins>>
        /\ login[b].step = "ban"
    BY <1>2, <2>1, CheckBanEffect
  <2>3. accounts \in Nat /\ lastId \in Nat
    OBVIOUS
  <2> SUFFICES ASSUME NEW c \in Browsers PROVE LET l == login'[c] IN
        /\ l.account <= accounts
        /\ l.session <= lastId
        /\ l.step = "none" => l.account = 0
        /\ l.step \in Found \cup {"upsert"} =>
               /\ l.account # 0
               /\ identity[l.user] \in {0, l.account} \/ l.user \in twins
        /\ l.step \in Found \cup {"insert"} => identity[l.user] # 0
        /\ l.step = "account" => identity[l.user] = 0 \/ l.user \in twins
    BY <2>2
  <2>4. CASE c = b
    BY <2>1, <2>2, <2>3, <2>4
  <2>5. CASE c # b
    BY <2>2, <2>5
  <2>6. QED BY <2>4, <2>5
<1>3. ASSUME NEW b \in Browsers, First(b) PROVE LoginsKnow'
  BY <1>3 DEF First
<1>4. ASSUME NEW b \in Browsers, Delete(b) PROVE LoginsKnow'
  BY <1>4 DEF Delete
<1>5. ASSUME NEW b \in Browsers, InsertAccount(b) PROVE LoginsKnow'
  BY <1>5 DEF InsertAccount
<1>6. ASSUME NEW b \in Browsers, Upsert(b) PROVE LoginsKnow'
  BY <1>6 DEF Upsert
<1>7. ASSUME NEW b \in Browsers, InsertSession(b) PROVE LoginsKnow'
  BY <1>7 DEF InsertSession
<1>8. ASSUME NEW b \in Browsers, SetCookie(b) PROVE LoginsKnow'
  BY <1>8 DEF SetCookie
<1>9. ASSUME NEW b \in Browsers, Fail(b) PROVE LoginsKnow'
  BY <1>9 DEF Fail
<1>10. ASSUME NEW b \in Browsers, Authenticate(b) PROVE LoginsKnow'
  BY <1>10 DEF Authenticate
<1>11. ASSUME NEW b \in Browsers, Logout(b) PROVE LoginsKnow'
  BY <1>11 DEF Logout
<1>12. ASSUME NEW b \in Browsers, Respond(b) PROVE LoginsKnow'
  BY <1>12 DEF Respond
<1>13. ASSUME NEW a \in Accounts, Ban(a) PROVE LoginsKnow'
  BY <1>13 DEF Ban
<1>14. ASSUME NEW a \in Accounts, Lift(a) PROVE LoginsKnow'
  BY <1>14 DEF Lift
<1>15. CASE UNCHANGED vars
  BY <1>15 DEF vars, observers, banVars
<1>16. QED
  BY <1>1, <1>2, <1>3, <1>4, <1>5, <1>6, <1>7, <1>8, <1>9, <1>10, <1>11, <1>12, <1>13, <1>14, <1>15
  DEF Next, LoginStep, RequestStep

\* Every step keeps the twins.
LEMMA TwinsStep == IInv /\ [Next]_vars => FirstsAreTwins'
<1> SUFFICES ASSUME IInv, [Next]_vars PROVE FirstsAreTwins'
  OBVIOUS
<1> USE LoginsAssumption
    DEF IInv, TypeOK, LoginsKnow, NoLogin, Login, Found, Writing,
        banVars, observers, FirstsAreTwins, Underway
<1>1. ASSUME NEW b \in Browsers, NEW u \in Users, Find(b, u) PROVE FirstsAreTwins'
  BY <1>1 DEF Find
<1>2. ASSUME NEW b \in Browsers, CheckBan(b) PROVE FirstsAreTwins'
  BY <1>2 DEF CheckBan
<1>3. ASSUME NEW b \in Browsers, First(b) PROVE FirstsAreTwins'
  BY <1>3 DEF First
<1>4. ASSUME NEW b \in Browsers, Delete(b) PROVE FirstsAreTwins'
  BY <1>4 DEF Delete
<1>5. ASSUME NEW b \in Browsers, InsertAccount(b) PROVE FirstsAreTwins'
  BY <1>5 DEF InsertAccount
<1>6. ASSUME NEW b \in Browsers, Upsert(b) PROVE FirstsAreTwins'
  BY <1>6 DEF Upsert
<1>7. ASSUME NEW b \in Browsers, InsertSession(b) PROVE FirstsAreTwins'
  BY <1>7 DEF InsertSession
<1>8. ASSUME NEW b \in Browsers, SetCookie(b) PROVE FirstsAreTwins'
  BY <1>8 DEF SetCookie
<1>9. ASSUME NEW b \in Browsers, Fail(b) PROVE FirstsAreTwins'
  BY <1>9 DEF Fail
<1>10. ASSUME NEW b \in Browsers, Authenticate(b) PROVE FirstsAreTwins'
  BY <1>10 DEF Authenticate
<1>11. ASSUME NEW b \in Browsers, Logout(b) PROVE FirstsAreTwins'
  BY <1>11 DEF Logout
<1>12. ASSUME NEW b \in Browsers, Respond(b) PROVE FirstsAreTwins'
  BY <1>12 DEF Respond
<1>13. ASSUME NEW a \in Accounts, Ban(a) PROVE FirstsAreTwins'
  BY <1>13 DEF Ban
<1>14. ASSUME NEW a \in Accounts, Lift(a) PROVE FirstsAreTwins'
  BY <1>14 DEF Lift
<1>15. CASE UNCHANGED vars
  BY <1>15 DEF vars, observers, banVars
<1>16. QED
  BY <1>1, <1>2, <1>3, <1>4, <1>5, <1>6, <1>7, <1>8, <1>9, <1>10, <1>11, <1>12, <1>13, <1>14, <1>15
  DEF Next, LoginStep, RequestStep

\* Every step keeps a user's row single.
LEMMA RowsStep == IInv /\ [Next]_vars => RowsAreSingle'
<1> SUFFICES ASSUME IInv, [Next]_vars PROVE RowsAreSingle'
  OBVIOUS
<1> USE LoginsAssumption
    DEF IInv, TypeOK, LoginsKnow, NoLogin, Login, Found, Writing,
        banVars, observers, RowsAreSingle, AccountsAreSingle, Accounts
<1>1. ASSUME NEW b \in Browsers, NEW u \in Users, Find(b, u) PROVE RowsAreSingle'
  BY <1>1 DEF Find
<1>2. ASSUME NEW b \in Browsers, CheckBan(b) PROVE RowsAreSingle'
  BY <1>2 DEF CheckBan
<1>3. ASSUME NEW b \in Browsers, First(b) PROVE RowsAreSingle'
  BY <1>3 DEF First
<1>4. ASSUME NEW b \in Browsers, Delete(b) PROVE RowsAreSingle'
  BY <1>4 DEF Delete
<1>5. ASSUME NEW b \in Browsers, InsertAccount(b) PROVE RowsAreSingle'
  BY <1>5 DEF InsertAccount
<1>6. ASSUME NEW b \in Browsers, Upsert(b) PROVE RowsAreSingle'
  <2> DEFINE u == login[b].user
             a == login[b].account
  <2>1. u \in Users /\ a \in Accounts /\ a <= accounts /\ a # 0
    <3>1. login[b] \in Login /\ login[b].step = "upsert"
      BY <1>6 DEF Upsert
    <3>2. u \in Users /\ a \in 0 .. MaxAccounts
      BY <3>1
    <3>3. a # 0 /\ a <= accounts
      BY <3>1
    <3>4. QED BY <3>2, <3>3
  <2>2. /\ identity' = [identity EXCEPT ![u] = a] /\ owner' = [owner EXCEPT ![a] = u]
        /\ UNCHANGED <<accounts, twins>>
    BY <1>6 DEF Upsert
  <2>3. identity[u] \in {0, a} \/ u \in twins
    BY <1>6 DEF Upsert
  <2>4. owner[a] \in {u, NoUser}
    BY <2>1
  <2> HIDE DEF u, a
  <2>5. \A x \in Accounts : owner'[x] # NoUser => x <= accounts
    BY <2>1, <2>2
  <2>6. \A x \in Accounts :
           owner'[x] # NoUser => identity'[owner'[x]] = x \/ owner'[x] \in twins
    <3> SUFFICES ASSUME NEW x \in Accounts, owner'[x] # NoUser
                 PROVE  identity'[owner'[x]] = x \/ owner'[x] \in twins
      OBVIOUS
    <3>1. CASE x = a
      BY <2>1, <2>2, <3>1
    <3>2. CASE x # a /\ owner[x] = u
      BY <2>1, <2>2, <2>3, <3>2
    <3>3. CASE x # a /\ owner[x] # u
      BY <2>1, <2>2, <3>3
    <3>4. QED BY <3>1, <3>2, <3>3
  <2>7. \A v \in Users : identity'[v] # 0 => owner'[identity'[v]] = v
    <3> SUFFICES ASSUME NEW v \in Users, identity'[v] # 0
                 PROVE  owner'[identity'[v]] = v
      OBVIOUS
    <3>1. CASE v = u
      BY <2>1, <2>2, <3>1
    <3>2. CASE v # u
      <4>1. identity[v] # 0 /\ identity[v] \in Accounts /\ owner[identity[v]] = v
        BY <2>1, <2>2, <3>2
      <4>2. identity[v] # a
        BY <2>4, <3>2, <4>1
      <4>3. QED BY <2>1, <2>2, <3>2, <4>1, <4>2
    <3>3. QED BY <3>1, <3>2
  <2>8. QED BY <2>2, <2>5, <2>6, <2>7
<1>7. ASSUME NEW b \in Browsers, InsertSession(b) PROVE RowsAreSingle'
  BY <1>7 DEF InsertSession
<1>8. ASSUME NEW b \in Browsers, SetCookie(b) PROVE RowsAreSingle'
  BY <1>8 DEF SetCookie
<1>9. ASSUME NEW b \in Browsers, Fail(b) PROVE RowsAreSingle'
  BY <1>9 DEF Fail
<1>10. ASSUME NEW b \in Browsers, Authenticate(b) PROVE RowsAreSingle'
  BY <1>10 DEF Authenticate
<1>11. ASSUME NEW b \in Browsers, Logout(b) PROVE RowsAreSingle'
  BY <1>11 DEF Logout
<1>12. ASSUME NEW b \in Browsers, Respond(b) PROVE RowsAreSingle'
  BY <1>12 DEF Respond
<1>13. ASSUME NEW a \in Accounts, Ban(a) PROVE RowsAreSingle'
  BY <1>13 DEF Ban
<1>14. ASSUME NEW a \in Accounts, Lift(a) PROVE RowsAreSingle'
  BY <1>14 DEF Lift
<1>15. CASE UNCHANGED vars
  BY <1>15 DEF vars, observers, banVars
<1>16. QED
  BY <1>1, <1>2, <1>3, <1>4, <1>5, <1>6, <1>7, <1>8, <1>9, <1>10, <1>11, <1>12, <1>13, <1>14, <1>15
  DEF Next, LoginStep, RequestStep

\* Every step keeps accounts single.
LEMMA AccountsStep == IInv /\ [Next]_vars => AccountsAreSingle'
<1> SUFFICES ASSUME IInv, [Next]_vars PROVE AccountsAreSingle'
  OBVIOUS
<1> USE LoginsAssumption
    DEF IInv, TypeOK, LoginsKnow, NoLogin, Login, Found, Writing,
        banVars, observers, RowsAreSingle, AccountsAreSingle, Accounts
<1>1. ASSUME NEW b \in Browsers, NEW u \in Users, Find(b, u) PROVE AccountsAreSingle'
  <2>1. /\ login'[b].user = u /\ login'[b].account = identity[u] /\ login'[b].session = 0
        /\ login'[b].step = IF identity[u] = 0 THEN "account" ELSE "ban"
        /\ \A c \in Browsers \ {b} : login'[c] = login[c]
    BY <1>1 DEF Find
  <2>2. twins \subseteq twins' /\ UNCHANGED <<accounts, identity, lastId, owner, banned, unread>>
    BY <1>1 DEF Find
  <2>3. identity[u] \in 0 .. accounts /\ accounts \in Nat /\ lastId \in Nat
    OBVIOUS
  <2>4. identity[u] # 0 => owner[identity[u]] = u
    OBVIOUS
  <2> SUFFICES ASSUME NEW c \in Browsers
               PROVE  LET l == login'[c] IN
           l.account # 0 =>
              \/ owner[l.account] = l.user
              \/ /\ owner[l.account] = NoUser
                 /\ l.step = "upsert"
                 /\ \A d \in Browsers : d # c => login'[d].account # l.account
    BY <2>2
  <2>5. CASE c = b
    BY <2>1, <2>4, <2>5
  <2>6. CASE c # b
    <3>1. login'[c] = login[c]
      BY <2>1, <2>6
    <3>2. CASE login[c].account # 0 /\ owner[login[c].account] = NoUser
      <4>1. login'[b].account # login[c].account
        BY <2>1, <2>4, <3>2
      <4>2. \A d \in Browsers : d # c => login[d].account # login[c].account
        BY <3>2
      <4>3. login[c].step = "upsert"
        BY <3>2
      <4>4. \A d \in Browsers : d # c => login'[d].account # login[c].account
        BY <2>1, <4>1, <4>2
      <4>5. QED BY <2>2, <3>1, <3>2, <4>3, <4>4
    <3>3. QED BY <3>1, <3>2
  <2>7. QED BY <2>5, <2>6
<1>2. ASSUME NEW b \in Browsers, CheckBan(b) PROVE AccountsAreSingle'
  <2>1. TypeOK
    OBVIOUS
  <2>2. /\ \/ login'[b].account = 0
           \/ (/\ login'[b].user = login[b].user
                                 /\ login'[b].account = login[b].account)
        /\ \A c \in Browsers \ {b} : login'[c] = login[c]
        /\ owner' = owner
        /\ login[b].step = "ban"
    BY <1>2, <2>1, CheckBanEffect
  <2>3. login[b].account # 0 => owner[login[b].account] = login[b].user
    BY <2>2
  <2>4. \A c \in Browsers : login'[c].account \in {0, login[c].account}
    BY <2>2
  <2> SUFFICES ASSUME NEW c \in Browsers
               PROVE  LET l == login'[c] IN
           l.account # 0 =>
              \/ owner[l.account] = l.user
              \/ /\ owner[l.account] = NoUser
                 /\ l.step = "upsert"
                 /\ \A d \in Browsers : d # c => login'[d].account # l.account
    BY <2>2
  <2>5. CASE c = b
    BY <2>2, <2>3, <2>5
  <2>6. CASE c # b
    <3>1. login'[c] = login[c] /\ login[c].account \in 0 .. MaxAccounts
      BY <2>2, <2>6
    <3>2. CASE login[c].account # 0 /\ owner[login[c].account] # login[c].user
      BY <2>4, <3>1, <3>2
    <3>3. QED BY <3>1, <3>2
  <2>7. QED BY <2>5, <2>6
<1>3. ASSUME NEW b \in Browsers, First(b) PROVE AccountsAreSingle'
  <2>1. login[b] \in Login
    OBVIOUS
  <2>2. /\ login'[b].user = login[b].user
        /\ login'[b].account = login[b].account
        /\ \A c \in Browsers \ {b} : login'[c] = login[c]
        /\ owner' = owner
        /\ login[b].step = "first"
    BY <1>3, <2>1 DEF First
  <2>3. login[b].account # 0 => owner[login[b].account] = login[b].user
    BY <2>2
  <2>4. \A c \in Browsers : login'[c].account \in {0, login[c].account}
    BY <2>2
  <2> SUFFICES ASSUME NEW c \in Browsers
               PROVE  LET l == login'[c] IN
           l.account # 0 =>
              \/ owner[l.account] = l.user
              \/ /\ owner[l.account] = NoUser
                 /\ l.step = "upsert"
                 /\ \A d \in Browsers : d # c => login'[d].account # l.account
    BY <2>2
  <2>5. CASE c = b
    BY <2>2, <2>3, <2>5
  <2>6. CASE c # b
    <3>1. login'[c] = login[c] /\ login[c].account \in 0 .. MaxAccounts
      BY <2>2, <2>6
    <3>2. CASE login[c].account # 0 /\ owner[login[c].account] # login[c].user
      BY <2>4, <3>1, <3>2
    <3>3. QED BY <3>1, <3>2
  <2>7. QED BY <2>5, <2>6
<1>4. ASSUME NEW b \in Browsers, Delete(b) PROVE AccountsAreSingle'
  <2>1. login[b] \in Login
    OBVIOUS
  <2>2. /\ login'[b].user = login[b].user
        /\ login'[b].account = login[b].account
        /\ \A c \in Browsers \ {b} : login'[c] = login[c]
        /\ owner' = owner
        /\ login[b].step = "delete"
    BY <1>4, <2>1 DEF Delete
  <2>3. login[b].account # 0 => owner[login[b].account] = login[b].user
    BY <2>2
  <2>4. \A c \in Browsers : login'[c].account \in {0, login[c].account}
    BY <2>2
  <2> SUFFICES ASSUME NEW c \in Browsers
               PROVE  LET l == login'[c] IN
           l.account # 0 =>
              \/ owner[l.account] = l.user
              \/ /\ owner[l.account] = NoUser
                 /\ l.step = "upsert"
                 /\ \A d \in Browsers : d # c => login'[d].account # l.account
    BY <2>2
  <2>5. CASE c = b
    BY <2>2, <2>3, <2>5
  <2>6. CASE c # b
    <3>1. login'[c] = login[c] /\ login[c].account \in 0 .. MaxAccounts
      BY <2>2, <2>6
    <3>2. CASE login[c].account # 0 /\ owner[login[c].account] # login[c].user
      BY <2>4, <3>1, <3>2
    <3>3. QED BY <3>1, <3>2
  <2>7. QED BY <2>5, <2>6
<1>5. ASSUME NEW b \in Browsers, InsertAccount(b) PROVE AccountsAreSingle'
  <2>1. login[b] \in Login /\ accounts \in Nat /\ accounts + 1 \in Accounts
    BY <1>5 DEF InsertAccount
  <2>2. /\ login'[b].user = login[b].user
        /\ login'[b].account = accounts + 1 /\ login'[b].step = "upsert"
        /\ login[b].step = "account"
        /\ \A c \in Browsers \ {b} : login'[c] = login[c]
        /\ owner' = owner
    BY <1>5, <2>1 DEF InsertAccount
  <2>3. owner[accounts + 1] = NoUser
    BY <2>1
  <2>4. \A c \in Browsers : login[c].account \in Nat /\ login[c].account <= accounts
    OBVIOUS
  <2> SUFFICES ASSUME NEW c \in Browsers
               PROVE  LET l == login'[c] IN
           l.account # 0 =>
              \/ owner[l.account] = l.user
              \/ /\ owner[l.account] = NoUser
                 /\ l.step = "upsert"
                 /\ \A d \in Browsers : d # c => login'[d].account # l.account
    BY <2>2
  <2>5. CASE c = b
    <3>1. \A d \in Browsers : d # b => login'[d].account # accounts + 1
      BY <2>1, <2>2, <2>4
    <3>2. QED BY <2>2, <2>3, <2>5, <3>1
  <2>6. CASE c # b
    <3>1. login'[c] = login[c] /\ login[c].account # accounts + 1
      BY <2>1, <2>2, <2>4, <2>6
    <3>2. CASE login[c].account # 0 /\ owner[login[c].account] # login[c].user
      <4>0. \A d \in Browsers : d # c => login[d].account # login[c].account
        BY <3>2
      <4>1. \A d \in Browsers : d # c => login'[d].account # login[c].account
        <5> HIDE DEF IInv, TypeOK, LoginsKnow, AccountsAreSingle, RowsAreSingle
        <5>1. QED BY <2>2, <3>1, <4>0
      <4>2. owner[login[c].account] = NoUser /\ login[c].step = "upsert"
        BY <3>2
      <4>3. QED BY <2>2, <3>1, <4>1, <4>2
    <3>3. QED BY <3>1, <3>2
  <2>7. QED BY <2>5, <2>6
<1>6. ASSUME NEW b \in Browsers, Upsert(b) PROVE AccountsAreSingle'
  BY <1>6 DEF Upsert
<1>7. ASSUME NEW b \in Browsers, InsertSession(b) PROVE AccountsAreSingle'
  <2>1. login[b] \in Login
    OBVIOUS
  <2>2. /\ login'[b].user = login[b].user
        /\ login'[b].account = login[b].account
        /\ \A c \in Browsers \ {b} : login'[c] = login[c]
        /\ owner' = owner
        /\ login[b].step = "insert"
    BY <1>7, <2>1 DEF InsertSession
  <2>3. login[b].account # 0 => owner[login[b].account] = login[b].user
    BY <2>2
  <2>4. \A c \in Browsers : login'[c].account \in {0, login[c].account}
    BY <2>2
  <2> SUFFICES ASSUME NEW c \in Browsers
               PROVE  LET l == login'[c] IN
           l.account # 0 =>
              \/ owner[l.account] = l.user
              \/ /\ owner[l.account] = NoUser
                 /\ l.step = "upsert"
                 /\ \A d \in Browsers : d # c => login'[d].account # l.account
    BY <2>2
  <2>5. CASE c = b
    BY <2>2, <2>3, <2>5
  <2>6. CASE c # b
    <3>1. login'[c] = login[c] /\ login[c].account \in 0 .. MaxAccounts
      BY <2>2, <2>6
    <3>2. CASE login[c].account # 0 /\ owner[login[c].account] # login[c].user
      BY <2>4, <3>1, <3>2
    <3>3. QED BY <3>1, <3>2
  <2>7. QED BY <2>5, <2>6
<1>8. ASSUME NEW b \in Browsers, SetCookie(b) PROVE AccountsAreSingle'
  BY <1>8 DEF SetCookie
<1>9. ASSUME NEW b \in Browsers, Fail(b) PROVE AccountsAreSingle'
  BY <1>9 DEF Fail
<1>10. ASSUME NEW b \in Browsers, Authenticate(b) PROVE AccountsAreSingle'
  BY <1>10 DEF Authenticate
<1>11. ASSUME NEW b \in Browsers, Logout(b) PROVE AccountsAreSingle'
  BY <1>11 DEF Logout
<1>12. ASSUME NEW b \in Browsers, Respond(b) PROVE AccountsAreSingle'
  BY <1>12 DEF Respond
<1>13. ASSUME NEW a \in Accounts, Ban(a) PROVE AccountsAreSingle'
  BY <1>13 DEF Ban
<1>14. ASSUME NEW a \in Accounts, Lift(a) PROVE AccountsAreSingle'
  BY <1>14 DEF Lift
<1>15. CASE UNCHANGED vars
  BY <1>15 DEF vars, observers, banVars
<1>16. QED
  BY <1>1, <1>2, <1>3, <1>4, <1>5, <1>6, <1>7, <1>8, <1>9, <1>10, <1>11, <1>12, <1>13, <1>14, <1>15
  DEF Next, LoginStep, RequestStep

\* Every step keeps the banned out.
LEMMA BarredStep == IInv /\ [Next]_vars => BarredKnow'
<1> SUFFICES ASSUME IInv, [Next]_vars PROVE BarredKnow'
  OBVIOUS
<1> USE LoginsAssumption
    DEF IInv, TypeOK, LoginsKnow, NoLogin, Login, Found, Writing,
        banVars, observers, RowsAreSingle, AccountsAreSingle, BarredKnow, Accounts
<1>1. ASSUME NEW b \in Browsers, NEW u \in Users, Find(b, u) PROVE BarredKnow'
  <2>1. /\ login'[b].user = u /\ login'[b].account = identity[u] /\ login'[b].session = 0
        /\ login'[b].step = IF identity[u] = 0 THEN "account" ELSE "ban"
        /\ \A c \in Browsers \ {b} : login'[c] = login[c]
    BY <1>1 DEF Find
  <2>2. twins \subseteq twins' /\ UNCHANGED <<accounts, identity, lastId, owner, banned, unread>>
    BY <1>1 DEF Find
  <2>3. identity[u] \in 0 .. accounts /\ accounts \in Nat /\ lastId \in Nat
    OBVIOUS
  <2>4. login'[b].barred => \E a \in banned : owner[a] = u
    BY <1>1 DEF Find
  <2>5. (\E a \in banned : owner[a] = u) => identity[u] \in banned \/ u \in twins
    <3> SUFFICES ASSUME NEW a \in banned, owner[a] = u
                 PROVE  identity[u] \in banned \/ u \in twins
      OBVIOUS
    <3>1. a \in Accounts
      OBVIOUS
    <3>2. u # NoUser
      OBVIOUS
    <3>3. QED BY <3>1, <3>2
  <2>6. 0 \notin banned
    OBVIOUS
  <2> SUFFICES ASSUME NEW c \in Browsers
               PROVE  LET l == login'[c] IN
           l.barred =>
              /\ l.step = "account" => l.user \in twins'
              /\ l.step = "ban" => l.account \in banned \/ l.user \in twins'
              /\ l.step \in {"first", "delete", "upsert", "insert", "set"} =>
                     l.user \in twins' \cup unread'
    BY <2>2
  <2>7. CASE c = b
    BY <2>1, <2>2, <2>4, <2>5, <2>6, <2>7
  <2>8. CASE c # b
    BY <2>1, <2>2, <2>8
  <2>9. QED BY <2>7, <2>8
<1>2. ASSUME NEW b \in Browsers, CheckBan(b) PROVE BarredKnow'
  <2>1. \A c \in Browsers \ {b} : login'[c] = login[c]
    BY <1>2 DEF CheckBan
  <2>2. twins' = twins /\ banned' = banned /\ unread \subseteq unread'
    BY <1>2 DEF CheckBan
  <2> SUFFICES ASSUME NEW c \in Browsers
               PROVE  LET l == login'[c] IN
           l.barred =>
              /\ l.step = "account" => l.user \in twins'
              /\ l.step = "ban" => l.account \in banned \/ l.user \in twins'
              /\ l.step \in {"first", "delete", "upsert", "insert", "set"} =>
                     l.user \in twins' \cup unread'
    BY <2>2
  <2>3. CASE c = b
    <3>0. TypeOK
      OBVIOUS
    <3>1. \/ ~login'[b].barred
          \/ /\ login'[b].step = "first" /\ login'[b].user = login[b].user
             /\ login[b].account \notin banned \/ login[b].user \in unread'
             /\ login'[b].barred = login[b].barred
      BY <1>2, <3>0, CheckBanEffect
    <3>2. login[b].step = "ban"
      BY <1>2 DEF CheckBan
    <3>3. QED BY <2>2, <2>3, <3>1, <3>2
  <2>4. CASE c # b
    BY <2>1, <2>2, <2>4
  <2>5. QED BY <2>3, <2>4
<1>3. ASSUME NEW b \in Browsers, First(b) PROVE BarredKnow'
  <2>1. \A c \in Browsers \ {b} : login'[c] = login[c]
    BY <1>3 DEF First
  <2>2. twins' = twins /\ banned' = banned /\ unread \subseteq unread'
    BY <1>3 DEF First
  <2> SUFFICES ASSUME NEW c \in Browsers
               PROVE  LET l == login'[c] IN
           l.barred =>
              /\ l.step = "account" => l.user \in twins'
              /\ l.step = "ban" => l.account \in banned \/ l.user \in twins'
              /\ l.step \in {"first", "delete", "upsert", "insert", "set"} =>
                     l.user \in twins' \cup unread'
    BY <2>2
  <2>3. CASE c = b
    <3>1. /\ login[b].step = "first" /\ login'[b].step \in {"delete", "upsert"}
          /\ login'[b].user = login[b].user /\ login'[b].barred = login[b].barred
      BY <1>3 DEF First
    <3>2. QED BY <2>2, <2>3, <3>1
  <2>4. CASE c # b
    BY <2>1, <2>2, <2>4
  <2>5. QED BY <2>3, <2>4
<1>4. ASSUME NEW b \in Browsers, Delete(b) PROVE BarredKnow'
  BY <1>4 DEF Delete
<1>5. ASSUME NEW b \in Browsers, InsertAccount(b) PROVE BarredKnow'
  BY <1>5 DEF InsertAccount
<1>6. ASSUME NEW b \in Browsers, Upsert(b) PROVE BarredKnow'
  BY <1>6 DEF Upsert
<1>7. ASSUME NEW b \in Browsers, InsertSession(b) PROVE BarredKnow'
  BY <1>7 DEF InsertSession
<1>8. ASSUME NEW b \in Browsers, SetCookie(b) PROVE BarredKnow'
  BY <1>8 DEF SetCookie
<1>9. ASSUME NEW b \in Browsers, Fail(b) PROVE BarredKnow'
  BY <1>9 DEF Fail
<1>10. ASSUME NEW b \in Browsers, Authenticate(b) PROVE BarredKnow'
  BY <1>10 DEF Authenticate
<1>11. ASSUME NEW b \in Browsers, Logout(b) PROVE BarredKnow'
  BY <1>11 DEF Logout
<1>12. ASSUME NEW b \in Browsers, Respond(b) PROVE BarredKnow'
  BY <1>12 DEF Respond
<1>13. ASSUME NEW a \in Accounts, Ban(a) PROVE BarredKnow'
  BY <1>13 DEF Ban
<1>14. ASSUME NEW a \in Accounts, Lift(a) PROVE BarredKnow'
  BY <1>14 DEF Lift
<1>15. CASE UNCHANGED vars
  BY <1>15 DEF vars, observers, banVars
<1>16. QED
  BY <1>1, <1>2, <1>3, <1>4, <1>5, <1>6, <1>7, <1>8, <1>9, <1>10, <1>11, <1>12, <1>13, <1>14, <1>15
  DEF Next, LoginStep, RequestStep

-----------------------------------------------------------------------------

\* The inductive invariant holds of the tables and of every login under way,
\* whatever the statements of insert_discord_session and insert_google_session
\* are interleaved with and wherever they fail.
THEOREM Invariance == Spec => []IInv
<1>1. IInv /\ [Next]_vars => IInv'
  BY TypeStep, KnowStep, TwinsStep, RowsStep, AccountsStep, BarredStep DEF IInv
<1>2. QED BY InitIInv, <1>1, PTL DEF Spec

\* The tables, the cookies and the logins keep their types: ids of sessions are
\* unique and every session is of a user with a row.
THEOREM TypeCorrect == Spec => []TypeOK
<1>1. IInv => TypeOK
  BY DEF IInv
<1>2. QED BY Invariance, <1>1, PTL

\* A login that gets a session (insert_discord_session, insert_google_session)
\* is not one of a user who had a banned account when it began.
THEOREM BannedAreKeptOut == Spec => []BannedStayOut
<1>1. IInv => BannedStayOut
  BY DEF IInv, BarredKnow, BannedStayOut
<1>2. QED BY Invariance, <1>1, PTL

\* The row of a user keeps its account (upsert_discord_account,
\* upsert_google_account).
THEOREM AccountsAreKept == Spec => AccountIsKept
<1> DEFINE Kept == \A u \in Users \ twins : identity[u] # 0 => identity'[u] = identity[u]
<1>1. IInv /\ [Next]_vars => [Kept]_vars
  <2> SUFFICES ASSUME IInv, [Next]_vars PROVE Kept
    OBVIOUS
  <2>1. CASE identity' = identity
    BY <2>1
  <2>2. ASSUME NEW b \in Browsers, Upsert(b) PROVE Kept
    <3>1. /\ identity' = [identity EXCEPT ![login[b].user] = login[b].account]
          /\ login[b].step = "upsert"
      BY <2>2 DEF Upsert
    <3>2. identity[login[b].user] \in {0, login[b].account} \/ login[b].user \in twins
      BY <3>1 DEF IInv, LoginsKnow
    <3>3. identity \in [Users -> 0 .. accounts]
      BY DEF IInv, TypeOK
    <3>4. QED BY <3>1, <3>2, <3>3
  <2>3. QED
    BY <2>1, <2>2
    DEF Next, LoginStep, RequestStep, Find, CheckBan, First, Delete, InsertAccount,
        InsertSession, SetCookie, Fail, Authenticate, Logout, Respond, Ban, Lift, vars
<1>2. QED BY Invariance, <1>1, PTL DEF Spec, AccountIsKept
-----------------------------------------------------------------------------
(* How many sessions a user has *)

\* The logins of a user that have not looked for a session yet, the sessions that
\* one of the others is about to delete, and the sessions that will stay.
Behind(u) == {b \in Underway(u) : login[b].step \in {"ban", "first"}}
Doomed(u) ==
    {s \in SessionsOf(u) : \E b \in Underway(u) :
        login[b].step = "delete" /\ login[b].session = s.id}
Staying(u) == SessionsOf(u) \ Doomed(u)

\* Logins under way U, those of them that are behind B, the sessions that stay S
\* and the logins e that explain more than one: there is one place more while
\* all the logins under way have yet to look for a session.
Balance(U, B, S, e) ==
    /\ IsFiniteSet(U) /\ IsFiniteSet(S)
    /\ e < MaxSessions =>
        /\ Cardinality(U) <= 1 + e
        /\ Cardinality(S) + Cardinality(U) <= IF U # {} /\ U = B THEN 2 + e ELSE 1 + e

BalanceOf(u) == Balance(Underway(u), Behind(u), Staying(u), extra[u])
Balanced == \A u \in Users : BalanceOf(u)

\* One login more that overlaps another.
OneMore(e) == IF e < MaxSessions THEN e + 1 ELSE e

LEMMA BalanceShrinks ==
  ASSUME NEW U, NEW B, NEW S, NEW e \in Nat, Balance(U, B, S, e), NEW T \in SUBSET S
  PROVE  Balance(U, B, T, e)
<1>1. /\ IsFiniteSet(T) /\ Cardinality(T) \in Nat /\ Cardinality(S) \in Nat
      /\ Cardinality(T) <= Cardinality(S)
  BY FS_Subset, FS_CardinalityType DEF Balance
<1>2. Cardinality(U) \in Nat
  BY FS_CardinalityType DEF Balance
<1> QED BY <1>1, <1>2 DEF Balance

\* A login ends, and leaves at most one session more unless it was behind.
LEMMA BalanceLeaves ==
  ASSUME NEW U, NEW B \in SUBSET U, NEW S, NEW e \in Nat, Balance(U, B, S, e),
         NEW b \in U, NEW x, NEW T \in SUBSET (S \cup {x}),
         b \in B => T \subseteq S
  PROVE  Balance(U \ {b}, B \ {b}, T, e)
<1>1. /\ IsFiniteSet(U \ {b}) /\ Cardinality(U) \in Nat
      /\ Cardinality(U \ {b}) = Cardinality(U) - 1
  BY FS_RemoveElement, FS_CardinalityType DEF Balance
<1>2. /\ IsFiniteSet(S \cup {x}) /\ Cardinality(S) \in Nat
      /\ Cardinality(S \cup {x}) <= Cardinality(S) + 1
      /\ Cardinality(S \cup {x}) \in Nat
  <2>1. IsFiniteSet(S)
    BY DEF Balance
  <2> QED BY <2>1, FS_AddElement, FS_CardinalityType
<1>3. /\ IsFiniteSet(T) /\ Cardinality(T) \in Nat
      /\ Cardinality(T) <= Cardinality(S) + 1
  <2>1. IsFiniteSet(T) /\ Cardinality(T) <= Cardinality(S \cup {x})
    BY <1>2, FS_Subset
  <2> QED BY <1>2, <2>1, FS_CardinalityType
<1>4. b \in B => Cardinality(T) <= Cardinality(S)
  BY FS_Subset DEF Balance
<1>5. U # {} /\ (b \notin B => U # B)
  OBVIOUS
<1>6. U # B => U \ {b} # B \ {b} \/ b \notin B
  OBVIOUS
<1> QED BY <1>1, <1>2, <1>3, <1>4, <1>5, <1>6 DEF Balance

\* A login of a user with a row begins: it is behind.
LEMMA BalanceBegins ==
  ASSUME NEW U, NEW B \in SUBSET U, NEW S, NEW e \in Nat, Balance(U, B, S, e),
         NEW b, b \notin U
  PROVE  Balance(U \cup {b}, B \cup {b}, S, IF U = {} THEN e ELSE OneMore(e))
<1>1. /\ IsFiniteSet(U \cup {b}) /\ Cardinality(U) \in Nat
      /\ Cardinality(U \cup {b}) = Cardinality(U) + 1
  BY FS_AddElement, FS_CardinalityType DEF Balance
<1>2. IsFiniteSet(S) /\ Cardinality(S) \in Nat
  BY FS_CardinalityType DEF Balance
<1>3. U \cup {b} # {} /\ (U \cup {b} = B \cup {b} <=> U = B)
  OBVIOUS
<1>4. U = {} => Cardinality(U) = 0 /\ B = {}
  BY FS_EmptySet
<1> QED BY <1>1, <1>2, <1>3, <1>4, LoginsAssumption DEF Balance, OneMore

\* The first login of a user begins: there is nothing to look for.
LEMMA BalanceBeginsFirst ==
  ASSUME NEW U, NEW B \in SUBSET U, NEW e \in Nat, Balance(U, B, {}, e),
         NEW b, b \notin U
  PROVE  Balance(U \cup {b}, B, {}, IF U = {} THEN e ELSE OneMore(e))
<1>1. /\ IsFiniteSet(U \cup {b}) /\ Cardinality(U) \in Nat
      /\ Cardinality(U \cup {b}) = Cardinality(U) + 1
  BY FS_AddElement, FS_CardinalityType DEF Balance
<1>2. IsFiniteSet({}) /\ Cardinality({}) = 0
  BY FS_EmptySet
<1>3. U = {} => Cardinality(U) = 0
  BY FS_EmptySet
<1> QED BY <1>1, <1>2, <1>3, LoginsAssumption DEF Balance, OneMore

\* A login finds a session to delete.
LEMMA BalanceFinds ==
  ASSUME NEW U, NEW B \in SUBSET U, NEW S, NEW e \in Nat, Balance(U, B, S, e),
         NEW b \in B, NEW x, U = B => x \in S
  PROVE  Balance(U, B \ {b}, S \ {x}, e)
<1>1. Cardinality(U) \in Nat
  BY FS_CardinalityType DEF Balance
<1>2. /\ IsFiniteSet(S \ {x}) /\ Cardinality(S) \in Nat
      /\ Cardinality(S \ {x}) = IF x \in S THEN Cardinality(S) - 1 ELSE Cardinality(S)
  <2>1. IsFiniteSet(S)
    BY DEF Balance
  <2> QED BY <2>1, FS_RemoveElement, FS_CardinalityType
<1>3. U # B \ {b}
  OBVIOUS
<1> QED BY <1>1, <1>2, <1>3 DEF Balance

\* A login finds that there is no session, or does not see the one there is.
LEMMA BalanceMisses ==
  ASSUME NEW U, NEW B \in SUBSET U, NEW S, NEW e \in Nat, Balance(U, B, S, e),
         NEW b \in B
  PROVE  /\ S = {} => Balance(U, B \ {b}, S, e)
         /\ Balance(U, B \ {b}, S, OneMore(e))
<1>1. IsFiniteSet(S) /\ Cardinality(U) \in Nat /\ Cardinality(S) \in Nat
  BY FS_CardinalityType DEF Balance
<1>2. U # B \ {b}
  OBVIOUS
<1>3. S = {} => Cardinality(S) = 0
  BY FS_EmptySet
<1> QED BY <1>1, <1>2, <1>3, LoginsAssumption DEF Balance, OneMore

-----------------------------------------------------------------------------

LEMMA InitBalanced == Init => Balanced
<1> SUFFICES ASSUME Init, NEW u \in Users PROVE BalanceOf(u)
  BY DEF Balanced
<1>1. Underway(u) = {} /\ Staying(u) = {}
  BY LoginsAssumption DEF Init, Underway, Staying, SessionsOf, NoLogin
<1>2. extra[u] = 0
  BY DEF Init
<1> QED BY <1>1, <1>2, FS_EmptySet DEF BalanceOf, Balance

\* A user whose logins stay where they are, and none of whose sessions comes.
LEMMA BalanceStays ==
  ASSUME TypeOK, NEW v \in Users, BalanceOf(v),
         Underway(v)' = Underway(v), Behind(v)' = Behind(v),
         Staying(v)' \subseteq Staying(v), extra'[v] = extra[v]
  PROVE  BalanceOf(v)'
<1>1. extra[v] \in Nat
  BY LoginsAssumption DEF TypeOK
<1> QED BY <1>1, BalanceShrinks DEF BalanceOf

\* A step of one login leaves the balance of the other users alone.
LEMMA BalanceOfOthers ==
  ASSUME TypeOK, Balanced, NEW b \in Browsers, NEW u, 
         login[b].user \in {u, NoUser}, login'[b].user \in {u, NoUser},
         \A c \in Browsers \ {b} : login'[c] = login[c],
         NEW v \in Users, v # u,
         SessionsOf(v)' \subseteq SessionsOf(v), extra'[v] = extra[v]
  PROVE  BalanceOf(v)'
<1>1. login[b].user # v /\ login'[b].user # v
  BY LoginsAssumption
<1>2. Underway(v)' = Underway(v)
  BY <1>1 DEF Underway
<1>3. \A c \in Underway(v) : login'[c] = login[c]
  BY <1>1 DEF Underway
<1>4. Behind(v)' = Behind(v)
  BY <1>2, <1>3 DEF Behind
<1>5. Staying(v)' \subseteq Staying(v)
  BY <1>2, <1>3 DEF Staying, Doomed, SessionsOf
<1>6. BalanceOf(v)
  BY DEF Balanced
<1> QED BY <1>2, <1>4, <1>5, <1>6, BalanceStays

\* A login of user u ends, or gets its session: at most one session more stays.
LEMMA BalanceOfLeaver ==
  ASSUME TypeOK, Balanced, NEW b \in Browsers, NEW u \in Users, login[b].user = u,
         login[b].step \notin {"none", "set"},
         login'[b].step \in {"none", "set"},
         \A c \in Browsers \ {b} : login'[c] = login[c],
         NEW x, SessionsOf(u)' \subseteq SessionsOf(u) \cup {x},
         login[b].step \in {"ban", "first"} => sessions' = sessions,
         login[b].step = "delete" =>
            \A s \in SessionsOf(u) : s.id = login[b].session => s = x,
         extra' = extra
  PROVE  BalanceOf(u)'
<1>2. b \in Underway(u)
  BY DEF Underway
<1>3. Underway(u)' = Underway(u) \ {b}
  BY DEF Underway
<1>4. Behind(u)' = Behind(u) \ {b} /\ Behind(u) \subseteq Underway(u)
  BY <1>3 DEF Behind, Underway
<1>5. \A c \in Underway(u) \ {b} : login'[c] = login[c]
  BY DEF Underway
<1>6. Staying(u)' \subseteq Staying(u) \cup {x}
  BY <1>3, <1>5 DEF Staying, Doomed
<1>7. b \in Behind(u) => Staying(u)' \subseteq Staying(u)
  BY <1>3, <1>5 DEF Staying, Doomed, Behind, SessionsOf
<1>8. BalanceOf(u) /\ extra'[u] = extra[u] /\ extra[u] \in Nat
  BY LoginsAssumption DEF Balanced, TypeOK
<1>9. Balance(Underway(u), Behind(u), Staying(u), extra[u])
  BY <1>8 DEF BalanceOf
<1>10. /\ Behind(u) \in SUBSET Underway(u)
       /\ Staying(u)' \in SUBSET (Staying(u) \cup {x})
  BY <1>4, <1>6
<1>11. Balance(Underway(u) \ {b}, Behind(u) \ {b}, Staying(u)', extra[u])
  BY <1>2, <1>7, <1>8, <1>9, <1>10, BalanceLeaves
<1> QED BY <1>3, <1>4, <1>8, <1>11 DEF BalanceOf

\* Every step keeps the balance.
LEMMA BalancedStep == TypeOK /\ Balanced /\ [Next]_vars => Balanced'
<1> SUFFICES ASSUME TypeOK, Balanced, [Next]_vars PROVE Balanced'
  OBVIOUS
<1>a. ASSUME login' = login, \A v \in Users : SessionsOf(v)' \subseteq SessionsOf(v),
             extra' = extra
      PROVE  Balanced'
  <2> SUFFICES ASSUME NEW v \in Users PROVE BalanceOf(v)'
    BY DEF Balanced
  <2>1. Underway(v)' = Underway(v) /\ Behind(v)' = Behind(v)
    BY <1>a DEF Underway, Behind
  <2>2. Staying(v)' \subseteq Staying(v)
    BY <1>a DEF Staying, Doomed, Underway
  <2>3. BalanceOf(v)
    BY DEF Balanced
  <2> QED BY <1>a, <2>1, <2>2, <2>3, BalanceStays
\* A step of one login: its user's balance is what is left to show.
<1>b. ASSUME NEW b \in Browsers, NEW u \in Users,
             login[b].user \in {u, NoUser}, login'[b].user \in {u, NoUser},
             \A c \in Browsers \ {b} : login'[c] = login[c],
             \A v \in Users \ {u} : SessionsOf(v)' \subseteq SessionsOf(v),
             \A v \in Users \ {u} : extra'[v] = extra[v],
             BalanceOf(u)'
      PROVE  Balanced'
  <2> SUFFICES ASSUME NEW v \in Users, v # u PROVE BalanceOf(v)'
    BY <1>b DEF Balanced
  <2> QED BY <1>b, BalanceOfOthers
<1>c. extra \in [Users -> Nat]
  BY LoginsAssumption DEF TypeOK
<1>d. \A u \in Users : BalanceOf(u) /\ Behind(u) \subseteq Underway(u)
  BY DEF Balanced, Behind
<1>e. ASSUME NEW u \in Users, CountExtra(u)
      PROVE  /\ extra'[u] = OneMore(extra[u])
             /\ \A v \in Users \ {u} : extra'[v] = extra[v]
  BY <1>c, <1>e DEF CountExtra, OneMore
<1>1. ASSUME NEW b \in Browsers, NEW u \in Users, Find(b, u) PROVE Balanced'
  <2> DEFINE first == identity[u] = 0
  <2>1. /\ login[b].step = "none" /\ login[b].user = NoUser
        /\ login'[b].user = u /\ login'[b].step = IF first THEN "account" ELSE "ban"
        /\ \A c \in Browsers \ {b} : login'[c] = login[c]
        /\ sessions' = sessions
    BY <1>1 DEF Find, TypeOK
  <2>2. /\ extra'[u] = IF Underway(u) = {} THEN extra[u] ELSE OneMore(extra[u])
        /\ \A v \in Users \ {u} : extra'[v] = extra[v]
    BY <1>1, <1>e DEF Find
  <2>3. b \notin Underway(u) /\ Underway(u)' = Underway(u) \cup {b}
    BY <2>1, LoginsAssumption DEF Underway
  <2>4. Behind(u)' = IF first THEN Behind(u) ELSE Behind(u) \cup {b}
    BY <2>1, <2>3 DEF Behind, Underway
  <2>5. Staying(u)' = Staying(u)
    BY <2>1, <2>3 DEF Staying, Doomed, Underway, SessionsOf
  <2>6. first => Staying(u) = {}
    BY DEF Staying, SessionsOf, TypeOK
  <2>7. CASE first
    <3>1. Balance(Underway(u), Behind(u), {}, extra[u])
      BY <1>d, <2>6, <2>7 DEF BalanceOf
    <3>2. extra[u] \in Nat /\ Behind(u) \in SUBSET Underway(u)
      BY <1>c, <1>d
    <3>3. Balance(Underway(u) \cup {b}, Behind(u), {}, extra'[u])
      <4>1. Balance(Underway(u) \cup {b}, Behind(u), {},
                    IF Underway(u) = {} THEN extra[u] ELSE OneMore(extra[u]))
        BY <2>3, <3>1, <3>2, BalanceBeginsFirst
      <4> QED BY <2>2, <4>1
    <3>4. BalanceOf(u)'
      BY <2>3, <2>4, <2>5, <2>6, <2>7, <3>3 DEF BalanceOf
    <3> QED BY <1>b, <2>1, <2>2, <3>4 DEF SessionsOf
  <2>8. CASE ~first
    <3>1. BalanceOf(u)'
      BY <1>c, <1>d, <2>2, <2>3, <2>4, <2>5, <2>8, BalanceBegins DEF BalanceOf
    <3> QED BY <1>b, <2>1, <2>2, <3>1 DEF SessionsOf
  <2> QED BY <1>b, <2>1, <2>2, <2>7, <2>8 DEF SessionsOf
\* The steps of a login that has begun.
<1>f. ASSUME NEW b \in Browsers, login[b].step # "none"
      PROVE  login[b].user \in Users /\ login[b] \in Login
  BY <1>f, LoginBefore
\* A login that moves, but neither ends nor looks for its session.
<1>g. ASSUME NEW b \in Browsers, login[b].step \notin {"none", "set"},
             login'[b].user = login[b].user,
             login'[b].step \notin {"none", "set", "delete"},
             login'[b].step \in {"ban", "first"} <=> login[b].step \in {"ban", "first"},
             \A c \in Browsers \ {b} : login'[c] = login[c],
             sessions' = {s \in sessions : login[b].step = "delete" => s.id # login[b].session},
             extra' = extra
      PROVE  Balanced'
  <2>0. PICK u \in Users : login[b].user = u
    BY <1>f, <1>g
  <2>2. Underway(u)' = Underway(u)
    BY <1>g, <2>0 DEF Underway
  <2>3. Behind(u)' = Behind(u)
    BY <1>g, <2>0 DEF Behind, Underway
  <2>4. Staying(u)' \subseteq Staying(u)
    BY <1>g, <2>0 DEF Staying, Doomed, SessionsOf, Underway
  <2>5. BalanceOf(u)'
    BY <1>d, <1>g, <2>0, <2>2, <2>3, <2>4, BalanceStays
  <2> QED BY <1>b, <1>g, <2>0, <2>5 DEF SessionsOf
<1>2. ASSUME NEW b \in Browsers, CheckBan(b) PROVE Balanced'
  <2>1. CASE login' = [login EXCEPT ![b].step = "first"]
    <3>1. sessions' = {s \in sessions : login[b].step = "delete" => s.id # login[b].session}
      BY <1>2 DEF CheckBan
    <3> QED BY <1>2, <1>f, <1>g, <2>1, <3>1 DEF CheckBan, TypeOK, Login
  <2>2. CASE login' = [login EXCEPT ![b] = NoLogin]
    <3>1. /\ login'[b] = NoLogin /\ login[b].step = "ban"
          /\ \A c \in Browsers \ {b} : login'[c] = login[c]
          /\ sessions' = sessions /\ extra' = extra
      BY <1>2, <2>2 DEF CheckBan, TypeOK
    <3>2. PICK u \in Users : login[b].user = u
      BY <1>f, <3>1
    <3>3. BalanceOf(u)'
      BY <3>1, <3>2, BalanceOfLeaver DEF SessionsOf, NoLogin
    <3> QED BY <1>b, <3>1, <3>2, <3>3 DEF SessionsOf, NoLogin
  <2> QED BY <1>2, <2>1, <2>2 DEF CheckBan
<1>3. ASSUME NEW b \in Browsers, First(b) PROVE Balanced'
  <2>0. PICK u \in Users : login[b].user = u
    BY <1>f, <1>3 DEF First
  <2>1. /\ u \in Users /\ login[b] \in Login /\ login[b].step = "first"
        /\ sessions' = sessions
    BY <1>3, <1>f DEF First
  <2>2. /\ login'[b].user = u /\ login'[b].step \in {"delete", "upsert"}
        /\ \A c \in Browsers \ {b} : login'[c] = login[c]
    BY <1>3, <2>0, <2>1 DEF First, TypeOK, Login
  <2>3. b \in Behind(u) /\ Underway(u)' = Underway(u)
    BY <2>0, <2>1, <2>2 DEF Behind, Underway
  <2>4. Behind(u)' = Behind(u) \ {b}
    BY <2>0, <2>1, <2>2 DEF Behind, Underway
  <2>5. BalanceOf(u)' /\ \A v \in Users \ {u} : extra'[v] = extra[v]
    <3>1. ASSUME NEW s \in SessionsOf(u), extra' = extra,
                 login' = [login EXCEPT ![b].step = "delete", ![b].session = s.id]
          PROVE  BalanceOf(u)'
      <4>1. login'[b].step = "delete" /\ login'[b].session = s.id
        BY <2>0, <2>1, <3>1 DEF TypeOK, Login
      <4>2. \A t \in SessionsOf(u) : t.id = s.id => t = s
        BY DEF TypeOK, SessionsOf
      <4>3. Staying(u)' = Staying(u) \ {s}
        BY <2>0, <2>1, <2>2, <2>3, <4>1, <4>2 DEF Staying, Doomed, SessionsOf, Underway, Behind
      <4>4. Underway(u) = Behind(u) => s \in Staying(u)
        BY DEF Behind, Staying, Doomed
      <4> QED BY <1>c, <1>d, <2>0, <2>1, <2>3, <2>4, <3>1, <4>3, <4>4, BalanceFinds DEF BalanceOf
    <3>2. ASSUME login'[b].step = "upsert" PROVE Staying(u)' = Staying(u)
      BY <2>0, <2>1, <2>2, <2>3, <3>2 DEF Staying, Doomed, SessionsOf, Underway
    <3>3. ASSUME SessionsOf(u) = {}, extra' = extra, login'[b].step = "upsert"
          PROVE  BalanceOf(u)'
      <4>1. Staying(u) = {}
        BY <3>3 DEF Staying
      <4>2. Balance(Underway(u), Behind(u), Staying(u), extra[u])
        BY <1>d DEF BalanceOf
      <4>3. extra[u] \in Nat /\ Behind(u) \in SUBSET Underway(u) /\ b \in Behind(u)
        BY <1>c, <1>d, <2>3
      <4>4. Balance(Underway(u), Behind(u) \ {b}, Staying(u), extra[u])
        BY <4>1, <4>2, <4>3, BalanceMisses
      <4> QED BY <2>3, <2>4, <3>2, <3>3, <4>4 DEF BalanceOf
    <3>4. ASSUME CountExtra(u), login'[b].step = "upsert"
          PROVE  BalanceOf(u)' /\ \A v \in Users \ {u} : extra'[v] = extra[v]
      <4> QED BY <1>c, <1>d, <1>e, <2>0, <2>1, <2>3, <2>4, <3>2, <3>4, BalanceMisses DEF BalanceOf
    <3>5. \/ \E s \in SessionsOf(u) :
                 /\ login' = [login EXCEPT ![b].step = "delete", ![b].session = s.id]
                 /\ extra' = extra
          \/ SessionsOf(u) = {} /\ extra' = extra /\ login'[b].step = "upsert"
          \/ CountExtra(u) /\ login'[b].step = "upsert"
      BY <1>3, <2>0, <2>1 DEF First, TypeOK, Login
    <3> QED BY <3>1, <3>3, <3>4, <3>5
  <2> QED BY <1>b, <2>0, <2>1, <2>2, <2>5 DEF SessionsOf
<1>4. ASSUME NEW b \in Browsers, Delete(b) PROVE Balanced'
  <2>1. login[b] \in Login
    BY DEF TypeOK
  <2>2. /\ login[b].step = "delete" /\ login'[b].step = "upsert"
        /\ login'[b].user = login[b].user
        /\ \A c \in Browsers \ {b} : login'[c] = login[c]
        /\ sessions' = {s \in sessions : s.id # login[b].session} /\ extra' = extra
    BY <1>4, <2>1 DEF Delete, TypeOK, Login, observers
  <2> QED BY <1>g, <2>2
<1>5. ASSUME NEW b \in Browsers, InsertAccount(b) \/ Upsert(b) PROVE Balanced'
  <2>1. login[b] \in Login
    BY DEF TypeOK
  <2>2. /\ login[b].step \in {"account", "upsert"} /\ login'[b].step \in {"upsert", "insert"}
        /\ login'[b].user = login[b].user
        /\ \A c \in Browsers \ {b} : login'[c] = login[c]
        /\ sessions' = sessions /\ extra' = extra
    BY <1>5, <2>1 DEF InsertAccount, Upsert, TypeOK, Login, observers
  <2>3. sessions' = {s \in sessions : login[b].step = "delete" => s.id # login[b].session}
    BY <2>2
  <2> QED BY <1>g, <2>2, <2>3
<1>6. ASSUME NEW b \in Browsers, InsertSession(b) PROVE Balanced'
  <2> DEFINE x == [id |-> lastId', user |-> login[b].user]
  <2>1. login[b] \in Login
    BY DEF TypeOK
  <2>2. /\ login[b].step = "insert" /\ login'[b].step = "set"
        /\ login'[b].user = login[b].user
        /\ \A c \in Browsers \ {b} : login'[c] = login[c]
        /\ sessions' = sessions \cup {x} /\ extra' = extra
    BY <1>6, <2>1 DEF InsertSession, TypeOK, Login, observers
  <2>3. \A v \in Users \ {login[b].user} : SessionsOf(v)' \subseteq SessionsOf(v)
    BY <2>2 DEF SessionsOf
  <2>5. PICK u \in Users : login[b].user = u
    BY <1>f, <2>2
  <2>6. PICK y : y = x
    OBVIOUS
  <2> HIDE DEF x
  <2>7. BalanceOf(u)'
    BY <2>2, <2>5, <2>6, BalanceOfLeaver DEF SessionsOf
  <2> QED BY <1>b, <2>2, <2>3, <2>5, <2>7
<1>7. ASSUME NEW b \in Browsers, SetCookie(b) \/ Fail(b) PROVE Balanced'
  <2>1. /\ login[b].step # "none" /\ login'[b] = NoLogin
        /\ \A c \in Browsers \ {b} : login'[c] = login[c]
        /\ sessions' = sessions /\ extra' = extra
    BY <1>7 DEF SetCookie, Fail, TypeOK, observers
  <2>0. PICK u \in Users : login[b].user = u
    BY <1>f, <2>1
  <2>3. CASE login[b].step = "set"
    <3>1. Underway(u)' = Underway(u) /\ \A c \in Underway(u) : login'[c] = login[c]
      BY <2>0, <2>1, <2>3 DEF Underway, NoLogin
    <3>2. Behind(u)' = Behind(u) /\ Staying(u)' = Staying(u)
      BY <2>0, <2>1, <3>1 DEF Behind, Staying, Doomed, SessionsOf
    <3>3. BalanceOf(u)'
      BY <1>d, <2>0, <2>1, <3>1, <3>2, BalanceStays
    <3> QED BY <1>b, <2>1, <2>0, <3>3 DEF SessionsOf, NoLogin
  <2>4. CASE login[b].step # "set"
    <3>1. PICK x : \A s \in SessionsOf(u) : s.id = login[b].session => s = x
      BY DEF TypeOK, SessionsOf
    <3>2. BalanceOf(u)'
      BY <2>0, <2>1, <2>4, <3>1, BalanceOfLeaver DEF SessionsOf, NoLogin
    <3> QED BY <1>b, <2>0, <2>1, <3>2 DEF SessionsOf, NoLogin
  <2> QED BY <2>3, <2>4
<1>8. ASSUME NEW b \in Browsers, RequestStep(b) PROVE Balanced'
  <2>1. login' = login /\ extra' = extra /\ sessions' \subseteq sessions
    BY <1>8 DEF RequestStep, Authenticate, Logout, Respond, observers
  <2> QED BY <1>a, <2>1 DEF SessionsOf
<1>9. ASSUME NEW a \in Accounts, Ban(a) PROVE Balanced'
  BY <1>9, <1>a DEF Ban, observers, SessionsOf
<1>10. ASSUME NEW a \in Accounts, Lift(a) PROVE Balanced'
  <2> SUFFICES ASSUME NEW v \in Users PROVE BalanceOf(v)'
    BY DEF Balanced
  <2>1. \A b \in Browsers :
           /\ login'[b].step = login[b].step
           /\ login'[b].user = login[b].user
           /\ login'[b].session = login[b].session
    BY <1>10 DEF Lift, TypeOK, Login
  <2>2. Underway(v)' = Underway(v)
    BY <2>1 DEF Underway
  <2>3. Behind(v)' = Behind(v)
    BY <2>1, <2>2 DEF Behind, Underway
  <2>4. Staying(v)' \subseteq Staying(v)
    BY <1>10, <2>1, <2>2 DEF Staying, Doomed, SessionsOf, Underway, Lift
  <2> QED BY <1>10, <1>d, <2>2, <2>3, <2>4, BalanceStays DEF Lift, observers
<1>11. CASE UNCHANGED vars
  BY <1>11, <1>a DEF vars, observers, SessionsOf
<1> QED
  BY <1>1, <1>2, <1>3, <1>4, <1>5, <1>6, <1>7, <1>8, <1>9, <1>10, <1>11
  DEF Next, LoginStep

\* Ids are unique: a user has no more sessions than there were ids.
LEMMA SessionsAreFew ==
  ASSUME TypeOK, NEW u \in Users
  PROVE  /\ IsFiniteSet(SessionsOf(u))
         /\ Cardinality(SessionsOf(u)) <= MaxSessions
<1> DEFINE f == [s \in SessionsOf(u) |-> s.id]
<1>1. lastId \in Nat /\ lastId <= MaxSessions /\ MaxSessions \in Nat
  BY LoginsAssumption DEF TypeOK
<1>2. IsFiniteSet(1 .. lastId) /\ Cardinality(1 .. lastId) = lastId
  BY <1>1, FS_Interval
<1>3. f \in Injection(SessionsOf(u), 1 .. lastId)
  <2>1. f \in [SessionsOf(u) -> 1 .. lastId]
    BY DEF TypeOK, SessionsOf
  <2>2. \A s, t \in SessionsOf(u) : f[s] = f[t] => s = t
    BY DEF TypeOK, SessionsOf
  <2> QED BY <2>1, <2>2 DEF Injection, IsInjective
<1> HIDE DEF f
<1>4. IsFiniteSet(SessionsOf(u)) /\ Cardinality(SessionsOf(u)) <= lastId
  BY <1>2, <1>3, FS_Injection
<1>5. Cardinality(SessionsOf(u)) \in Nat
  BY <1>4, FS_CardinalityType
<1> QED BY <1>1, <1>4, <1>5

\* Every session about to be deleted is the target of another login.
LEMMA DoomedAreFew ==
  ASSUME TypeOK, NEW u \in Users, IsFiniteSet(Underway(u))
  PROVE  /\ IsFiniteSet(Doomed(u))
         /\ Cardinality(Doomed(u)) <= Cardinality(Underway(u))
<1> DEFINE f == [s \in Doomed(u) |->
               CHOOSE b \in Underway(u) : login[b].step = "delete" /\ login[b].session = s.id]
<1>1. \A s \in Doomed(u) : f[s] \in Underway(u) /\ login[f[s]].session = s.id
  <2> SUFFICES ASSUME NEW s \in Doomed(u)
               PROVE  f[s] \in Underway(u) /\ login[f[s]].session = s.id
    OBVIOUS
  <2>1. \E b \in Underway(u) : login[b].step = "delete" /\ login[b].session = s.id
    BY DEF Doomed
  <2> QED BY <2>1
<1>2. f \in Injection(Doomed(u), Underway(u))
  <2>1. f \in [Doomed(u) -> Underway(u)]
    BY <1>1
  <2>2. \A s, t \in Doomed(u) : s.id = t.id => s = t
    BY DEF TypeOK, Doomed, SessionsOf
  <2>3. \A s, t \in Doomed(u) : f[s] = f[t] => s = t
    BY <1>1, <2>2
  <2> HIDE DEF f
  <2> QED BY <2>1, <2>3 DEF Injection, IsInjective
<1> HIDE DEF f
<1> QED BY <1>2, FS_Injection

LEMMA BalancedAccounts == TypeOK /\ Balanced => SessionsAreAccountedFor
<1> SUFFICES ASSUME TypeOK, Balanced, NEW u \in Users
             PROVE  Cardinality(SessionsOf(u)) <= 1 + extra[u]
  BY DEF SessionsAreAccountedFor
<1>1. extra[u] \in Nat /\ extra[u] <= MaxSessions /\ MaxSessions \in Nat
  BY LoginsAssumption DEF TypeOK
<1>2. IsFiniteSet(SessionsOf(u)) /\ Cardinality(SessionsOf(u)) \in Nat
  BY SessionsAreFew, FS_CardinalityType
<1>3. CASE extra[u] = MaxSessions
  BY <1>1, <1>2, <1>3, SessionsAreFew
<1>4. CASE extra[u] < MaxSessions
  <2> DEFINE U == Underway(u)  S == Staying(u)  D == Doomed(u)
  <2>1. /\ IsFiniteSet(U) /\ IsFiniteSet(S)
        /\ Cardinality(S) + Cardinality(U) <=
              IF U # {} /\ U = Behind(u) THEN 2 + extra[u] ELSE 1 + extra[u]
    BY <1>4 DEF Balanced, BalanceOf, Balance
  <2>2. IsFiniteSet(D) /\ Cardinality(D) <= Cardinality(U)
    BY <2>1, DoomedAreFew
  <2>3. Cardinality(S) \in Nat /\ Cardinality(U) \in Nat /\ Cardinality(D) \in Nat
    BY <2>1, <2>2, FS_CardinalityType
  <2>4. Cardinality(SessionsOf(u)) = Cardinality(S) + Cardinality(D)
    <3>1. SessionsOf(u) = S \cup D /\ S \cap D = {}
      BY DEF Staying, Doomed
    <3> HIDE DEF S, D
    <3>2. Cardinality(S \cap D) = 0
      BY <3>1, FS_EmptySet
    <3>3. Cardinality(S \cup D) = Cardinality(S) + Cardinality(D) - Cardinality(S \cap D)
      BY <2>1, <2>2, FS_Union
    <3> QED BY <2>3, <3>1, <3>2, <3>3
  <2>5. CASE U # {} /\ U = Behind(u)
    <3>1. D = {}
      BY <2>5 DEF Doomed, Behind
    <3>2. Cardinality(D) = 0
      BY <3>1, FS_EmptySet
    <3>3. Cardinality(U) # 0
      BY <2>1, <2>5, FS_EmptySet
    <3> HIDE DEF U, S, D
    <3> QED BY <1>1, <1>2, <2>1, <2>3, <2>4, <2>5, <3>2, <3>3
  <2>6. CASE ~(U # {} /\ U = Behind(u))
    <3>1. Cardinality(S) + Cardinality(U) <= 1 + extra[u]
      BY <2>1, <2>6
    <3> HIDE DEF U, S, D
    <3> QED BY <1>1, <2>2, <2>3, <2>4, <3>1
  <2> QED BY <2>5, <2>6
<1> QED BY <1>1, <1>3, <1>4

\* The tables keep no more sessions of a user than one and the logins that
\* overlapped, or could not read the session to replace, explain
\* (insert_discord_session, insert_google_session), for any number of browsers.
THEOREM SessionsAreAccounted == Spec => []SessionsAreAccountedFor
<1>1. Init => Balanced
  BY InitBalanced
<1>2. IInv /\ Balanced /\ [Next]_vars => Balanced'
  BY BalancedStep DEF IInv
<1>3. IInv /\ Balanced => SessionsAreAccountedFor
  BY BalancedAccounts DEF IInv
<1> QED BY Invariance, <1>1, <1>2, <1>3, PTL DEF Spec
=============================================================================

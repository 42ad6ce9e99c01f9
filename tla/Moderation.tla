----------------------------- MODULE Moderation -----------------------------
(***************************************************************************)
(* Bans against players who are connected: post_ban (sm64js-api/src/ban.rs,*)
(* ip_ban.rs), the check of a new websocket (sm64js/src/websocket.rs) and  *)
(* the permissions (sm64js-auth/src/lib.rs), composed with the server and  *)
(* the sessions of MmoServer.                                              *)
(*                                                                         *)
(* A call of post_ban is cut at its awaits: it asks the server for a kick, *)
(* asks another service where the player is, and only then writes the ban. *)
(* The statements of one write or check are in Penalties; here each is one *)
(* step.                                                                   *)
(***************************************************************************)
EXTENDS MmoServer

CONSTANTS
    Callers,         \* requests of moderators, one call after the other
    RoleOf,          \* the Discord role of a caller
    TempBanLimit,    \* TempBanLimit[r]: the longest TempBanAccount of role r
    MayBanForEver,   \* the roles with PermBanAccount
    Durations,       \* expires_in of the requests that have one
    LongestDuration, \* what chrono::Duration::from_std can represent
    Permanent        \* a ban without expiry

ASSUME ModerationAssumption ==
    /\ RoleOf \in [Callers -> DOMAIN TempBanLimit]
    /\ TempBanLimit \in [DOMAIN TempBanLimit -> Nat]
    /\ Durations \subseteq Nat
    /\ LongestDuration \in Nat
    /\ Permanent \notin Nat
    /\ Accounts \subseteq KickAccounts
    /\ None \notin Nat \cup {Permanent} \cup Accounts

VARIABLES
    admitted,  \* connections whose request has passed index()
    ban,       \* ban[a]: the duration of the ban in force of account a
    call,      \* call[c]: the call of post_ban that c has under way
    missed     \* observer: sessions that the kick of a ban could not reach

moderationVars == <<admitted, ban, call, missed>>
allVars == <<vars, moderationVars>>

Terms == {0} \cup Durations \cup {Permanent}

Call == [step : {"none", "kick", "locate"}, account : Accounts \cup {None},
         asked : Durations \cup {Permanent, None}]

NoCall == [step |-> "none", account |-> None, asked |-> None]

ModerationTypeOK ==
    /\ admitted \subseteq Sessions
    /\ \A s \in Sessions : stage[s] # "new" => s \in admitted
    /\ ban \in [Accounts -> Terms \cup {None}]
    /\ call \in [Callers -> Call]
    /\ \A c \in Callers : call[c].step # "none" =>
          call[c].account \in Accounts /\ call[c].asked # None
    /\ missed \subseteq admitted

ModerationInit ==
    /\ Init
    /\ admitted = {} /\ missed = {}
    /\ ban = [a \in Accounts |-> None]
    /\ call = [c \in Callers |-> NoCall]

-----------------------------------------------------------------------------
(* A new websocket *)

\* A ban of a is on its way, and its kick has been handled.
KickIsPast(a) == \E c \in Callers : call[c].step = "locate" /\ call[c].account = a

\* Mutant: the ban is not looked up.
AdmitMutUnchecked(s) ==
    /\ stage[s] = "new" /\ s \notin admitted
    /\ admitted' = admitted \cup {s}
    /\ missed' = IF KickIsPast(AccountOf[s]) THEN missed \cup {s} ELSE missed
    /\ UNCHANGED <<vars, ban, call>>

\* index(): no ban is found, and the actor of the session is created.
Admit(s) ==
    /\ stage[s] = "new" /\ s \notin admitted
    /\ ban[AccountOf[s]] = None
    /\ admitted' = admitted \cup {s}
    /\ missed' = IF KickIsPast(AccountOf[s]) THEN missed \cup {s} ELSE missed
    /\ UNCHANGED <<vars, ban, call>>

\* The SELECT of the bans fails, which is_account_banned takes for no ban.
AdmitUnread(s) ==
    /\ stage[s] = "new" /\ s \notin admitted
    /\ admitted' = admitted \cup {s}
    /\ missed' = missed \cup {s}
    /\ UNCHANGED <<vars, ban, call>>

-----------------------------------------------------------------------------
(* post_ban *)

\* Duration::from_std, and zero when the duration is too long.
Converted(d) == IF d <= LongestDuration THEN d ELSE 0

\* has_permission, with role_has_permission: durations are compared.
HasPermission(c, asked) ==
    IF asked = Permanent THEN RoleOf[c] \in MayBanForEver
    ELSE Converted(asked) <= TempBanLimit[RoleOf[c]]

\* A permitted request sends KickClientByAccountId and waits.
PostBan(c, a, asked) ==
    /\ call[c].step = "none"
    /\ HasPermission(c, asked)
    /\ call' = [call EXCEPT ![c] = [step |-> "kick", account |-> a, asked |-> asked]]
    /\ UNCHANGED <<vars, admitted, ban, missed>>

\* The owner of the account's only client, whom a kick is sure to find.
IsOnlyClient(s) ==
    \E id \in SocketIds :
        ClientsOfAccount(AccountOf[s]) = {id} /\ clients[id].owner = s

\* What the server may do with a kick: nothing when it finds no client or one
\* whose session is gone; post_ban prints that error and goes on.
KickAccount(a) ==
    \/ KickOne(ClientsOfAccount(a))
    \/ /\ ClientsOfAccount(a) = {}
       /\ UNCHANGED vars
    \/ /\ \E id \in ClientsOfAccount(a) : ~Reachable(clients[id].owner)
       /\ UNCHANGED vars

\* The server handles the kick, and the answer lets the call go on: it looks the
\* account up and sends the request for its location.
AnswerKick(c) ==
    /\ call[c].step = "kick"
    /\ KickAccount(call[c].account)
    /\ call' = [call EXCEPT ![c].step = "locate"]
    /\ missed' = missed \cup {s \in admitted : /\ AccountOf[s] = call[c].account
                                               /\ ~IsOnlyClient(s)}
    /\ UNCHANGED <<admitted, ban>>

\* The expiry that is written.
Term(asked) == IF asked = Permanent THEN Permanent ELSE Converted(asked)

\* The location has come, or the service has said that it knows none.
WriteBan(c) ==
    /\ call[c].step = "locate"
    /\ ban' = [ban EXCEPT ![call[c].account] = Term(call[c].asked)]
    /\ call' = [call EXCEPT ![c] = NoCall]
    /\ UNCHANGED <<vars, admitted, missed>>

\* The call ends with an error: the account is unknown, the request for the
\* location fails, a statement fails, or the moderator is gone.
CallFails(c) ==
    /\ call[c].step # "none"
    /\ call' = [call EXCEPT ![c] = NoCall]
    /\ UNCHANGED <<vars, admitted, ban, missed>>

\* A temporary ban ends.
Expire(a) ==
    /\ ban[a] \notin {None, Permanent}
    /\ ban' = [ban EXCEPT ![a] = None]
    /\ UNCHANGED <<vars, admitted, call, missed>>

-----------------------------------------------------------------------------

\* Mutant: the actor is created before the bans are looked up.
ServerOrSessionMutEarly ==
    /\ \/ \E s \in Sessions : ServerStep(s) \/ SessionStep(s) \/ PlayerStep(s)
       \/ KickClientByIpAddr
    /\ UNCHANGED moderationVars

\* A step of MmoServer; only an admitted connection starts.  The kick by address
\* is what post_ban of ip_ban.rs does to sessions; its record is in IpBans, and
\* index() does not ask for it.
ServerOrSession ==
    /\ \/ \E s \in Sessions : ServerStep(s) \/ SessionStep(s)
       \/ \E s \in Sessions : PlayerStep(s) /\ (stage[s] = "new" => s \in admitted)
       \/ KickClientByIpAddr
    /\ UNCHANGED moderationVars

ModerationStep ==
    \/ \E s \in Sessions : Admit(s) \/ AdmitUnread(s)
    \/ \E c \in Callers :
          \/ \E a \in Accounts, asked \in Durations \cup {Permanent} :
                PostBan(c, a, asked)
          \/ AnswerKick(c) \/ WriteBan(c) \/ CallFails(c)
    \/ \E a \in Accounts : Expire(a)

ModerationNext == ServerOrSession \/ ModerationStep

ModerationSpec == ModerationInit /\ [][ModerationNext]_allVars

\* The fairness of MmoServer; nothing is assumed of calls.
FairModerationSpec == ModerationSpec /\ Fairness

-----------------------------------------------------------------------------
(* Properties *)

\* While an account is banned, its sessions are over, or they are about to read
\* a Kick, but for those the ban could not reach: admitted between its kick and
\* its writing, or not yet known to the server at the kick, or not the only
\* client of the account then, or let in by a check that could not read.
BannedAreKickedUnlessMissed ==
    \A s \in admitted \ missed :
        ban[AccountOf[s]] # None => kick[s] \/ Over(s)

\* No ban lasts longer than some caller's role may impose, however long a
\* duration was asked for: check and write must convert it alike.
BansAreWithinRights ==
    \A a \in Accounts : ban[a] # None =>
        \E c \in Callers :
            IF ban[a] = Permanent THEN RoleOf[c] \in MayBanForEver
            ELSE ban[a] <= TempBanLimit[RoleOf[c]]
=============================================================================

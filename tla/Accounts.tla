------------------------------ MODULE Accounts ------------------------------
(***************************************************************************)
(* The platform's operators: users with roles and passwords, the sessions  *)
(* their logins open, and the links that invite a user or reset a          *)
(* password.  A request is authorised once, when it arrives, and acts in   *)
(* later statements; the calls that can take the last superadmin away hold *)
(* an advisory lock from their check to their commit.                      *)
(*                                                                         *)
(* Sources: internal/infra/postgres/auth.go, mail.go (invites),            *)
(* internal/api/http/auth.go, admin.go, mail.go, cmd/admin/main.go.        *)
(* A password is the number of the change that set it, so two passwords    *)
(* are never equal; whoever logs in knows the current one.  disabled and   *)
(* locked users are treated alike and are one status here; of the roles    *)
(* only superadmin is told apart.                                          *)
(***************************************************************************)
EXTENDS Naturals, Sequences

CONSTANTS
  User,         \* the users that may exist
  Root,         \* the one the installation bootstraps
  Call,         \* requests the API serves at the same time
  MaxPassword,  \* how many passwords are set
  MaxSessions,  \* how many sessions are opened
  MaxInvites    \* how many links are sent

NoCall == "nobody"

ASSUME RootAssumption == Root \in User

ASSUME CallAssumption == NoCall \notin Call

ASSUME BoundsAssumption ==
  MaxPassword \in Nat /\ MaxSessions \in Nat /\ MaxInvites \in Nat

VARIABLES
  users,      \* platform_users with their superadmin role
  sessions,   \* user_sessions
  invites,    \* platform_user_invites
  passwords,  \* how many passwords have been set
  calls,      \* what each request is doing
  lock        \* the holder of megavpn:platform-superadmin-quorum

vars == <<users, sessions, invites, passwords, calls, lock>>

Idle == [op |-> "idle", step |-> "none", user |-> Root, grant |-> FALSE, seen |-> 0]

UserRow ==
  [status : {"absent", "active", "disabled"}, superadmin : BOOLEAN,
   password : 0..MaxPassword]

SessionRow ==
  [user : User, password : 0..MaxPassword, revoked : BOOLEAN, raced : BOOLEAN]

InviteRow ==
  [user : User,
   status : {"pending", "sent", "delivery_failed", "accepted", "revoked", "expired"},
   late : BOOLEAN]

\* EnsureBootstrapPlatformUser has created the first superadmin.
Init ==
  /\ users = [u \in User |->
                [status |-> IF u = Root THEN "active" ELSE "absent",
                 superadmin |-> u = Root, password |-> 0]]
  /\ sessions = <<>>
  /\ invites = <<>>
  /\ passwords = 0
  /\ calls = [c \in Call |-> Idle]
  /\ lock = NoCall

-----------------------------------------------------------------------------
Exists(u) == users[u].status # "absent"

ActiveSuperadmin(u) == users[u].status = "active" /\ users[u].superadmin

\* ResolveAuthContext: the session is not revoked and its user is active.
ResolveAuthContext(s) == ~sessions[s].revoked /\ users[sessions[s].user].status = "active"

\* requireSuperadmin, on the roles read when the request arrived.
requireSuperadmin(s) == ResolveAuthContext(s) /\ users[sessions[s].user].superadmin

\* Mutant: the sessions of the user are left as they are.
keepSessions(u) == sessions

revokeSessions(u) ==
  [s \in DOMAIN sessions |->
     IF sessions[s].user = u THEN [sessions[s] EXCEPT !.revoked = TRUE] ELSE sessions[s]]

\* The rows on delete cascade removes, kept here as revoked.
withoutUser(u) ==
  [i \in DOMAIN invites |->
     IF invites[i].user = u THEN [invites[i] EXCEPT !.status = "revoked"] ELSE invites[i]]

Open(i) == invites[i].status \in {"pending", "sent", "delivery_failed"}

Start(c, op, u, grant, seen) ==
  /\ calls[c] = Idle
  /\ calls' = [calls EXCEPT ![c] =
                 [op |-> op, step |-> "authorised", user |-> u, grant |-> grant, seen |-> seen]]

Done(c) == calls' = [calls EXCEPT ![c] = Idle]

At(c, op, step) == calls[c].op = op /\ calls[c].step = step

-----------------------------------------------------------------------------
(* Logging in: the password is checked, then the session is inserted. *)

login(c) ==
  /\ \E u \in User :
        /\ users[u].status = "active"
        /\ Start(c, "login", u, FALSE, users[u].password)
  /\ UNCHANGED <<users, sessions, invites, passwords, lock>>

\* The insert fails when the user is gone; a failed audit revokes the session.
CreateUserSession(c) ==
  LET u == calls[c].user IN
  /\ At(c, "login", "authorised")
  /\ Len(sessions) < MaxSessions
  /\ \/ Exists(u) /\ \E audited \in BOOLEAN :
          sessions' = Append(sessions,
            [user |-> u, password |-> calls[c].seen, revoked |-> ~audited,
             raced |-> users[u].status # "active" \/ users[u].password # calls[c].seen])
     \/ ~Exists(u) /\ sessions' = sessions
  /\ Done(c)
  /\ UNCHANGED <<users, invites, passwords, lock>>

logout ==
  /\ \E s \in DOMAIN sessions :
        /\ ResolveAuthContext(s)
        /\ sessions' = [sessions EXCEPT ![s].revoked = TRUE]
  /\ UNCHANGED <<users, invites, passwords, calls, lock>>

revokeAllPlatformSessions ==
  /\ \E s \in DOMAIN sessions :
        /\ requireSuperadmin(s)
        /\ sessions' = [t \in DOMAIN sessions |->
                          IF t = s THEN sessions[t] ELSE [sessions[t] EXCEPT !.revoked = TRUE]]
  /\ UNCHANGED <<users, invites, passwords, calls, lock>>

-----------------------------------------------------------------------------
(* Passwords: an operator's own, another user's, or the admin command's. *)

changePassword(c) ==
  /\ \/ \E s \in DOMAIN sessions :
          /\ ResolveAuthContext(s)
          /\ Start(c, "password", sessions[s].user, FALSE, 0)
     \/ \E s \in DOMAIN sessions, u \in User :
          /\ requireSuperadmin(s)
          /\ Start(c, "password", u, FALSE, 0)
  /\ UNCHANGED <<users, sessions, invites, passwords, lock>>

setPassword(u) ==
  /\ passwords < MaxPassword
  /\ passwords' = passwords + 1
  /\ users' = [users EXCEPT ![u].password = passwords + 1]
  /\ sessions' = revokeSessions(u)

UpdatePlatformUserPassword(c) ==
  /\ At(c, "password", "authorised")
  /\ IF Exists(calls[c].user)
       THEN setPassword(calls[c].user)
       ELSE UNCHANGED <<users, sessions, passwords>>
  /\ Done(c)
  /\ UNCHANGED <<invites, lock>>

\* megavpn-admin reset-password; -activate goes on with a status change.
resetPassword(c) ==
  /\ \E u \in User :
        /\ Exists(u)
        /\ setPassword(u)
        /\ \/ users[u].status # "active" /\ Start(c, "status", u, TRUE, 0)
           \/ calls[c] = Idle /\ UNCHANGED calls
  /\ UNCHANGED <<invites, lock>>

-----------------------------------------------------------------------------
(* The calls that change who may administer the platform. *)

BeginMutation(c) ==
  /\ \E s \in DOMAIN sessions, u \in User, op \in {"status", "roles", "delete"}, grant \in BOOLEAN :
        /\ requireSuperadmin(s)
        /\ op = "delete" => u # sessions[s].user /\ ~grant
        /\ Start(c, op, u, grant, 0)
  /\ UNCHANGED <<users, sessions, invites, passwords, lock>>

\* Whether the call would take an active superadmin away.
Withdraws(c) ==
  /\ ActiveSuperadmin(calls[c].user)
  /\ ~calls[c].grant

\* Mutant: the check is made without waiting for the lock.
noLock == TRUE

lockFree == lock = NoCall

lastSuperadminRemains(c) ==
  Withdraws(c) => \E u \in User \ {calls[c].user} : ActiveSuperadmin(u)

\* The advisory lock, the check and the refusal.
LockAndCheck(c) ==
  /\ calls[c].op \in {"status", "roles", "delete"}
  /\ calls[c].step = "authorised"
  /\ lockFree
  /\ IF Exists(calls[c].user) /\ lastSuperadminRemains(c)
       THEN /\ lock' = c
            /\ calls' = [calls EXCEPT ![c].step = "checked"]
       ELSE Done(c) /\ lock' = lock
  /\ UNCHANGED <<users, sessions, invites, passwords>>

\* Mutant: who is disabled keeps the sessions.
statusOnly(c) ==
  LET u == calls[c].user IN
  /\ At(c, "status", "checked")
  /\ users' = [users EXCEPT ![u].status =
                 IF @ = "absent" THEN @ ELSE IF calls[c].grant THEN "active" ELSE "disabled"]
  /\ lock' = NoCall
  /\ Done(c)
  /\ UNCHANGED <<sessions, invites, passwords>>

UpdatePlatformUserStatus(c) ==
  LET u == calls[c].user IN
  /\ At(c, "status", "checked")
  /\ users' = [users EXCEPT ![u].status =
                 IF @ = "absent" THEN @ ELSE IF calls[c].grant THEN "active" ELSE "disabled"]
  /\ sessions' = IF calls[c].grant THEN sessions ELSE revokeSessions(u)
  /\ lock' = NoCall
  /\ Done(c)
  /\ UNCHANGED <<invites, passwords>>

UpdatePlatformUser(c) ==
  /\ At(c, "roles", "checked")
  /\ users' = [users EXCEPT ![calls[c].user].superadmin = calls[c].grant]
  /\ lock' = NoCall
  /\ Done(c)
  /\ UNCHANGED <<sessions, invites, passwords>>

DeletePlatformUser(c) ==
  LET u == calls[c].user IN
  /\ At(c, "delete", "checked")
  /\ users' = [users EXCEPT ![u].status = "absent", ![u].superadmin = FALSE]
  /\ sessions' = revokeSessions(u)
  /\ invites' = withoutUser(u)
  /\ lock' = NoCall
  /\ Done(c)
  /\ UNCHANGED passwords

-----------------------------------------------------------------------------
(* New users, invitations and reset links. *)

\* createPlatformUser, with the password the operator chose; the id is new.
CreatePlatformUser ==
  /\ \E s \in DOMAIN sessions, u \in User, superadmin \in BOOLEAN :
        /\ requireSuperadmin(s)
        /\ ~Exists(u)
        /\ \A t \in DOMAIN sessions : sessions[t].user # u
        /\ \A i \in DOMAIN invites : invites[i].user # u
        /\ \A c \in Call : calls[c].user # u
        /\ passwords < MaxPassword
        /\ passwords' = passwords + 1
        /\ users' = [users EXCEPT ![u] = [status |-> "active", superadmin |-> superadmin,
                                          password |-> passwords + 1]]
  /\ UNCHANGED <<sessions, invites, calls, lock>>

\* resendPlatformUserInvite and sendPlatformUserPasswordReset: the open links
\* are revoked, then the new one is inserted.
createPlatformUserInviteInTx(c) ==
  /\ \E s \in DOMAIN sessions, u \in User :
        /\ requireSuperadmin(s)
        /\ Exists(u)
        /\ Start(c, "invite", u, FALSE, 0)
        /\ invites' = [i \in DOMAIN invites |->
                         IF invites[i].user = u /\ Open(i)
                           THEN [invites[i] EXCEPT !.status = "revoked"] ELSE invites[i]]
  /\ UNCHANGED <<users, sessions, passwords, lock>>

insertInvite(c) ==
  /\ At(c, "invite", "authorised")
  /\ Len(invites) < MaxInvites
  /\ invites' = IF Exists(calls[c].user)
                  THEN Append(invites, [user |-> calls[c].user, status |-> "pending", late |-> FALSE])
                  ELSE invites
  /\ Done(c)
  /\ UNCHANGED <<users, sessions, passwords, lock>>

MarkPlatformUserInviteDelivered ==
  /\ \E i \in DOMAIN invites, status \in {"sent", "delivery_failed"} :
        /\ invites[i].status \in {"pending", "delivery_failed"}
        /\ invites' = [invites EXCEPT ![i].status = status]
  /\ UNCHANGED <<users, sessions, passwords, calls, lock>>

InviteTimePasses ==
  /\ \E i \in DOMAIN invites : ~invites[i].late /\ invites' = [invites EXCEPT ![i].late = TRUE]
  /\ UNCHANGED <<users, sessions, passwords, calls, lock>>

\* Reading a link marks it expired only while it is pending.
GetPlatformUserInviteByToken ==
  /\ \E i \in DOMAIN invites :
        /\ invites[i].status = "pending" /\ invites[i].late
        /\ invites' = [invites EXCEPT ![i].status = "expired"]
  /\ UNCHANGED <<users, sessions, passwords, calls, lock>>

\* One transaction over the link's row and its user's; then, as at a login,
\* a session is inserted.
AcceptPlatformUserInvite(c) ==
  /\ \E i \in DOMAIN invites :
        /\ Open(i)
        /\ \/ /\ ~invites[i].late
              /\ passwords < MaxPassword
              /\ passwords' = passwords + 1
              /\ users' = [users EXCEPT ![invites[i].user].password = passwords + 1,
                                        ![invites[i].user].status = "active"]
              /\ sessions' = revokeSessions(invites[i].user)
              /\ invites' = [invites EXCEPT ![i].status = "accepted"]
              /\ Start(c, "login", invites[i].user, FALSE, passwords + 1)
           \/ /\ invites[i].late
              /\ calls[c] = Idle
              /\ invites' = [invites EXCEPT ![i].status = "expired"]
              /\ UNCHANGED <<users, sessions, passwords, calls>>
  /\ UNCHANGED lock

Next ==
  \/ \E c \in Call :
        \/ login(c) \/ CreateUserSession(c)
        \/ changePassword(c) \/ UpdatePlatformUserPassword(c) \/ resetPassword(c)
        \/ BeginMutation(c) \/ LockAndCheck(c)
        \/ UpdatePlatformUserStatus(c) \/ UpdatePlatformUser(c) \/ DeletePlatformUser(c)
        \/ createPlatformUserInviteInTx(c) \/ insertInvite(c) \/ AcceptPlatformUserInvite(c)
  \/ logout \/ revokeAllPlatformSessions
  \/ CreatePlatformUser
  \/ MarkPlatformUserInviteDelivered \/ InviteTimePasses \/ GetPlatformUserInviteByToken

Spec == Init /\ [][Next]_vars

-----------------------------------------------------------------------------
TypeOK ==
  /\ users \in [User -> UserRow]
  /\ sessions \in Seq(SessionRow)
  /\ invites \in Seq(InviteRow)
  /\ passwords \in 0..MaxPassword
  /\ calls \in [Call -> [op : {"idle", "login", "password", "status", "roles", "delete", "invite"},
                         step : {"none", "authorised", "checked"}, user : User,
                         grant : BOOLEAN, seen : 0..MaxPassword]]
  /\ lock \in Call \cup {NoCall}

(***************************************************************************)
(* However disabling, demotion and deletion interleave, some user is an    *)
(* active superadmin: two superadmins who remove each other at once do not *)
(* both succeed, and neither do two requests that were authorised before   *)
(* the first of them committed.                                            *)
(***************************************************************************)
AdminRemains == \E u \in User : ActiveSuperadmin(u)

(***************************************************************************)
(* A session that opens the API was opened with the password its user has  *)
(* now: whoever changes a password, by any of the four ways, ends the      *)
(* sessions the old one opened.  Exempt is the login that read the old     *)
(* password before the change and inserted its session after it.           *)
(***************************************************************************)
OldPasswordOpensNothing ==
  \A s \in DOMAIN sessions :
    ResolveAuthContext(s) /\ ~sessions[s].raced =>
      sessions[s].password = users[sessions[s].user].password

(***************************************************************************)
(* No step gives life back to a session: enabling a user again, or an      *)
(* accepted reset link, does not revive the sessions that ended when the   *)
(* user was disabled.                                                      *)
(***************************************************************************)
NothingReopens ==
  [][\A s \in DOMAIN sessions :
       ResolveAuthContext(s)' /\ ~sessions[s].raced => ResolveAuthContext(s)]_vars
=============================================================================

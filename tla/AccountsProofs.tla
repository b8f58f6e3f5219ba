--------------------------- MODULE AccountsProofs ---------------------------
(***************************************************************************)
(* Proofs about Accounts, for any users, requests and bounds: somebody can *)
(* always administer the platform, an old password opens nothing, and no   *)
(* session comes back.  AdminRemains alone is not inductive: between a     *)
(* call's check and its commit other calls go on, so the invariant adds    *)
(* that a call that has checked holds the lock and that what it has seen   *)
(* still is so.                                                            *)
(***************************************************************************)
EXTENDS Accounts, SequenceTheorems, TLAPS

\* What call c, once it has checked, relies on until it commits.
Checked(c) ==
  calls[c].step = "checked" =>
    /\ lock = c
    /\ calls[c].grant \/ \E u \in User \ {calls[c].user} : ActiveSuperadmin(u)

\* A deletion grants nothing.
Deleting(c) == calls[c].op = "delete" => ~calls[c].grant

IInv == TypeOK /\ AdminRemains /\ \A c \in Call : Checked(c) /\ Deleting(c)

CallRow ==
  [op : {"idle", "login", "password", "status", "roles", "delete", "invite"},
   step : {"none", "authorised", "checked"}, user : User,
   grant : BOOLEAN, seen : 0..MaxPassword]

\* A sequence rewritten place by place is a sequence.
LEMMA Rewritten ==
  ASSUME NEW S, NEW s \in Seq(S), NEW F(_), \A i \in DOMAIN s : F(i) \in S
  PROVE  [i \in DOMAIN s |-> F(i)] \in Seq(S)
<1>1. DOMAIN s = 1..Len(s) /\ Len(s) \in Nat
  OBVIOUS
<1>2. [i \in 1..Len(s) |-> F(i)] \in [1..Len(s) -> S]
  BY <1>1
<1> QED BY <1>1, <1>2, SeqDef

\* Ending the sessions of a user leaves rows of user_sessions.
LEMMA RevokedTyped ==
  ASSUME TypeOK, NEW u
  PROVE  revokeSessions(u) \in Seq(SessionRow)
<1> DEFINE F(s) == IF sessions[s].user = u THEN [sessions[s] EXCEPT !.revoked = TRUE] ELSE sessions[s]
<1>1. ASSUME NEW s \in DOMAIN sessions PROVE F(s) \in SessionRow
  <2>1. sessions[s] \in SessionRow
    BY DEF TypeOK
  <2> QED BY <2>1 DEF SessionRow
<1>2. sessions \in Seq(SessionRow)
  BY DEF TypeOK
<1> HIDE DEF F
<1>3. [s \in DOMAIN sessions |-> F(s)] \in Seq(SessionRow)
  BY <1>1, <1>2, Rewritten
<1> QED BY <1>3 DEF F, revokeSessions

-----------------------------------------------------------------------------
\* A call that begins or ends is typed, is not past its check, and no other
\* call changes.
LEMMA StartStep ==
  ASSUME TypeOK, NEW c \in Call, NEW op \in {"login", "password", "status", "roles", "delete", "invite"},
         NEW u \in User, NEW grant \in BOOLEAN, NEW seen \in 0..MaxPassword,
         op = "delete" => ~grant, Start(c, op, u, grant, seen)
  PROVE  /\ calls' \in [Call -> CallRow]
         /\ calls'[c].step # "checked"
         /\ calls'[c].op = "delete" => ~calls'[c].grant
         /\ \A d \in Call \ {c} : calls'[d] = calls[d]
  BY DEF TypeOK, CallRow, Start

\* A request that ends is idle, and the others stay as they are.
LEMMA DoneStep ==
  ASSUME TypeOK, NEW c \in Call, Done(c)
  PROVE  /\ calls' \in [Call -> CallRow]
         /\ calls'[c].step # "checked"
         /\ calls'[c].op # "delete"
         /\ \A d \in Call \ {c} : calls'[d] = calls[d]
  BY RootAssumption, BoundsAssumption DEF TypeOK, CallRow, Done, Idle

\* A step that takes no administrator away, leaves the lock alone and moves
\* no call past its check.
LEMMA Harmless ==
  ASSUME IInv, TypeOK', UNCHANGED lock,
         \A u \in User : ActiveSuperadmin(u) => ActiveSuperadmin(u)',
         \A c \in Call : \/ calls'[c] = calls[c]
                         \/ /\ calls'[c].step # "checked"
                            /\ calls'[c].op = "delete" => ~calls'[c].grant
  PROVE  IInv'
<1>1. AdminRemains'
  BY DEF IInv, AdminRemains
<1>2. ASSUME NEW c \in Call PROVE Checked(c)' /\ Deleting(c)'
  BY DEF IInv, Checked, Deleting
<1> QED BY <1>1, <1>2 DEF IInv

\* A call that commits changes the row of its user only, and keeps whoever
\* administers if it grants.
LEMMA Commits ==
  ASSUME IInv, TypeOK', NEW c \in Call, calls[c].step = "checked", Done(c), lock' = NoCall,
         \A u \in User \ {calls[c].user} : users'[u] = users[u],
         calls[c].grant => \A u \in User : ActiveSuperadmin(u) => ActiveSuperadmin(u)'
  PROVE  IInv'
<1>1. \A d \in Call \ {c} : calls[d].step # "checked"
  BY DEF IInv, Checked
<1>2. /\ calls'[c].step # "checked" /\ calls'[c].op # "delete"
      /\ \A d \in Call \ {c} : calls'[d] = calls[d]
  BY DoneStep DEF IInv
<1>3. AdminRemains'
  <2>1. CASE calls[c].grant
    BY <2>1 DEF IInv, AdminRemains
  <2>2. CASE ~calls[c].grant
    <3>1. PICK u \in User \ {calls[c].user} : ActiveSuperadmin(u)
      BY <2>2 DEF IInv, Checked
    <3> QED BY <3>1 DEF ActiveSuperadmin, AdminRemains
  <2> QED BY <2>1, <2>2
<1>4. ASSUME NEW d \in Call PROVE Checked(d)' /\ Deleting(d)'
  BY <1>1, <1>2 DEF IInv, Checked, Deleting
<1> QED BY <1>3, <1>4 DEF IInv

-----------------------------------------------------------------------------
\* Rows that the typing gives.
LEMMA RowsTyped ==
  ASSUME TypeOK
  PROVE  /\ \A s \in DOMAIN sessions : sessions[s] \in SessionRow /\ sessions[s].user \in User
         /\ \A i \in DOMAIN invites : invites[i] \in InviteRow /\ invites[i].user \in User
         /\ \A u \in User : users[u] \in UserRow /\ users[u].password \in 0..MaxPassword
         /\ \A c \in Call : calls[c] \in CallRow /\ calls[c].user \in User
                              /\ calls[c].seen \in 0..MaxPassword
<1>1. \A s \in DOMAIN sessions : sessions[s] \in SessionRow
  BY DEF TypeOK
<1>2. \A i \in DOMAIN invites : invites[i] \in InviteRow
  BY DEF TypeOK
<1>3. \A u \in User : users[u] \in UserRow
  BY DEF TypeOK
<1>4. \A c \in Call : calls[c] \in CallRow
  BY DEF TypeOK, CallRow
<1> QED BY <1>1, <1>2, <1>3, <1>4 DEF SessionRow, InviteRow, UserRow, CallRow

\* login, and the requests that only begin something.
LEMMA BeginStep ==
  ASSUME IInv, NEW c \in Call, login(c) \/ changePassword(c) \/ BeginMutation(c)
  PROVE  IInv'
<1>1. TypeOK
  BY DEF IInv
<1>2. UNCHANGED <<users, sessions, invites, passwords, lock>>
  BY DEF login, changePassword, BeginMutation
<1>3. \E op \in {"login", "password", "status", "roles", "delete", "invite"}, u \in User,
        grant \in BOOLEAN, seen \in 0..MaxPassword :
        (op = "delete" => ~grant) /\ Start(c, op, u, grant, seen)
  <2>1. 0 \in 0..MaxPassword
    BY BoundsAssumption
  <2>2. CASE login(c)
    BY <2>2, <1>1, RowsTyped DEF login
  <2>3. CASE changePassword(c)
    BY <2>1, <2>3, <1>1, RowsTyped DEF changePassword
  <2>4. CASE BeginMutation(c)
    BY <2>1, <2>4 DEF BeginMutation
  <2> QED BY <2>2, <2>3, <2>4
<1>4. /\ calls' \in [Call -> CallRow]
      /\ calls'[c].step # "checked" /\ (calls'[c].op = "delete" => ~calls'[c].grant)
      /\ \A d \in Call \ {c} : calls'[d] = calls[d]
  BY <1>1, <1>3, StartStep
<1>5. TypeOK'
  BY <1>1, <1>2, <1>4 DEF TypeOK, CallRow
<1>6. \A u \in User : ActiveSuperadmin(u) => ActiveSuperadmin(u)'
  BY <1>2 DEF ActiveSuperadmin
<1> QED BY <1>2, <1>4, <1>5, <1>6, Harmless

\* CreateUserSession: one row of user_sessions more, or none.
LEMMA CreateUserSessionStep ==
  ASSUME IInv, NEW c \in Call, CreateUserSession(c)
  PROVE  IInv'
<1> DEFINE u == calls[c].user
<1>1. TypeOK /\ UNCHANGED <<users, invites, passwords, lock>> /\ Done(c)
  BY DEF IInv, CreateUserSession
<1>2. sessions' \in Seq(SessionRow)
  <2>1. CASE sessions' = sessions
    BY <1>1, <2>1 DEF TypeOK
  <2>2. CASE \E audited \in BOOLEAN :
               sessions' = Append(sessions,
                 [user |-> u, password |-> calls[c].seen, revoked |-> ~audited,
                  raced |-> users[u].status # "active" \/ users[u].password # calls[c].seen])
    <3>1. PICK audited \in BOOLEAN :
               sessions' = Append(sessions,
                 [user |-> u, password |-> calls[c].seen, revoked |-> ~audited,
                  raced |-> users[u].status # "active" \/ users[u].password # calls[c].seen])
      BY <2>2
    <3>2. [user |-> u, password |-> calls[c].seen, revoked |-> ~audited,
           raced |-> users[u].status # "active" \/ users[u].password # calls[c].seen] \in SessionRow
      BY <1>1, RowsTyped DEF SessionRow
    <3> QED BY <1>1, <3>1, <3>2, AppendProperties DEF TypeOK
  <2> QED BY <2>1, <2>2 DEF CreateUserSession
<1>3. TypeOK'
  BY <1>1, <1>2, DoneStep DEF TypeOK, CallRow
<1>4. \A v \in User : ActiveSuperadmin(v) => ActiveSuperadmin(v)'
  BY <1>1 DEF ActiveSuperadmin
<1> QED BY <1>1, <1>3, <1>4, DoneStep, Harmless

\* logout and revokeAllPlatformSessions only end sessions.
LEMMA EndSessionsStep ==
  ASSUME IInv, logout \/ revokeAllPlatformSessions
  PROVE  IInv'
<1>1. TypeOK /\ UNCHANGED <<users, invites, passwords, calls, lock>>
  BY DEF IInv, logout, revokeAllPlatformSessions
<1>2. sessions' \in Seq(SessionRow)
  <2>1. CASE logout
    <3>1. PICK s \in DOMAIN sessions : sessions' = [sessions EXCEPT ![s].revoked = TRUE]
      BY <2>1 DEF logout
    <3>2. [sessions[s] EXCEPT !.revoked = TRUE] \in SessionRow
      BY <1>1, RowsTyped DEF SessionRow
    <3> QED BY <1>1, <3>1, <3>2, ExceptSeq DEF TypeOK
  <2>2. CASE revokeAllPlatformSessions
    <3>1. PICK s \in DOMAIN sessions :
             sessions' = [t \in DOMAIN sessions |->
                            IF t = s THEN sessions[t] ELSE [sessions[t] EXCEPT !.revoked = TRUE]]
      BY <2>2 DEF revokeAllPlatformSessions
    <3> DEFINE F(t) == IF t = s THEN sessions[t] ELSE [sessions[t] EXCEPT !.revoked = TRUE]
    <3>2. ASSUME NEW t \in DOMAIN sessions PROVE F(t) \in SessionRow
      <4>1. sessions[t] \in SessionRow
        BY <1>1, RowsTyped
      <4> QED BY <4>1 DEF SessionRow
    <3>3. sessions \in Seq(SessionRow)
      BY <1>1 DEF TypeOK
    <3> HIDE DEF F
    <3>4. [t \in DOMAIN sessions |-> F(t)] \in Seq(SessionRow)
      BY <3>2, <3>3, Rewritten
    <3> QED BY <3>1, <3>4 DEF F
  <2> QED BY <2>1, <2>2
<1>3. TypeOK'
  BY <1>1, <1>2 DEF TypeOK
<1>4. \A u \in User : ActiveSuperadmin(u) => ActiveSuperadmin(u)'
  BY <1>1 DEF ActiveSuperadmin
<1> QED BY <1>1, <1>3, <1>4, Harmless

\* A new password changes neither status nor role.
LEMMA SetPasswordTables ==
  ASSUME TypeOK, NEW u \in User, setPassword(u)
  PROVE  /\ users' \in [User -> UserRow]
         /\ sessions' \in Seq(SessionRow)
         /\ passwords' \in 0..MaxPassword
         /\ \A v \in User : ActiveSuperadmin(v) => ActiveSuperadmin(v)'
<1>1. passwords + 1 \in 0..MaxPassword
  BY BoundsAssumption DEF TypeOK, setPassword
<1>2. users' = [users EXCEPT ![u].password = passwords + 1] /\ users \in [User -> UserRow]
  BY DEF TypeOK, setPassword
<1>3. [users[u] EXCEPT !.password = passwords + 1] \in UserRow
  BY <1>1, <1>2 DEF UserRow
<1>4. users' \in [User -> UserRow]
  BY <1>2, <1>3
<1>5. \A v \in User : users'[v].status = users[v].status /\ users'[v].superadmin = users[v].superadmin
  BY <1>2 DEF UserRow
<1> QED BY <1>1, <1>4, <1>5, RevokedTyped DEF setPassword, ActiveSuperadmin

\* UpdatePlatformUserPassword, of a user who may be gone.
LEMMA PasswordStep ==
  ASSUME IInv, NEW c \in Call, UpdatePlatformUserPassword(c)
  PROVE  IInv'
<1>1. TypeOK /\ calls[c].user \in User /\ UNCHANGED <<invites, lock>> /\ Done(c)
  BY RowsTyped DEF IInv, UpdatePlatformUserPassword
<1>2. setPassword(calls[c].user) \/ UNCHANGED <<users, sessions, passwords>>
  BY DEF UpdatePlatformUserPassword
<1>3. /\ users' \in [User -> UserRow] /\ sessions' \in Seq(SessionRow) /\ passwords' \in 0..MaxPassword
      /\ \A v \in User : ActiveSuperadmin(v) => ActiveSuperadmin(v)'
  <2>1. CASE setPassword(calls[c].user)
    BY <1>1, <2>1, SetPasswordTables
  <2>2. CASE UNCHANGED <<users, sessions, passwords>>
    BY <1>1, <2>2 DEF TypeOK, ActiveSuperadmin
  <2> QED BY <1>2, <2>1, <2>2
<1>4. TypeOK'
  BY <1>1, <1>3, DoneStep DEF TypeOK, CallRow
<1> QED BY <1>1, <1>3, <1>4, DoneStep, Harmless

\* megavpn-admin reset-password, which may go on to activate the user.
LEMMA ResetPasswordStep ==
  ASSUME IInv, NEW c \in Call, resetPassword(c)
  PROVE  IInv'
<1>1. TypeOK /\ UNCHANGED <<invites, lock>>
  BY DEF IInv, resetPassword
<1>2. PICK u \in User : /\ setPassword(u)
                        /\ Start(c, "status", u, TRUE, 0) \/ UNCHANGED calls
  BY DEF resetPassword
<1>3. /\ users' \in [User -> UserRow] /\ sessions' \in Seq(SessionRow) /\ passwords' \in 0..MaxPassword
      /\ \A v \in User : ActiveSuperadmin(v) => ActiveSuperadmin(v)'
  BY <1>1, <1>2, SetPasswordTables
<1>4. /\ calls' \in [Call -> CallRow]
      /\ \A d \in Call : \/ calls'[d] = calls[d]
                         \/ calls'[d].step # "checked" /\ (calls'[d].op = "delete" => ~calls'[d].grant)
  <2>1. CASE Start(c, "status", u, TRUE, 0)
    <3>1. 0 \in 0..MaxPassword
      BY BoundsAssumption
    <3> QED BY <1>1, <2>1, <3>1, StartStep
  <2>2. CASE UNCHANGED calls
    BY <1>1, <2>2 DEF TypeOK, CallRow
  <2> QED BY <1>2, <2>1, <2>2
<1>5. TypeOK'
  BY <1>1, <1>3, <1>4 DEF TypeOK, CallRow
<1> QED BY <1>1, <1>3, <1>4, <1>5, Harmless

\* The check: whoever withdraws somebody has seen another administrator.
LEMMA LockAndCheckStep ==
  ASSUME IInv, NEW c \in Call, LockAndCheck(c)
  PROVE  IInv'
<1>1. TypeOK /\ UNCHANGED <<users, sessions, invites, passwords>> /\ lock = NoCall
  BY DEF IInv, LockAndCheck, lockFree
<1>2. \A d \in Call : calls[d].step # "checked"
  BY <1>1, CallAssumption DEF IInv, Checked
<1>3. CASE Exists(calls[c].user) /\ lastSuperadminRemains(c)
  <2>1. lock' = c /\ calls' = [calls EXCEPT ![c].step = "checked"]
    BY <1>3 DEF LockAndCheck
  <2>2. calls \in [Call -> CallRow] /\ calls[c] \in CallRow
    BY <1>1 DEF TypeOK, CallRow
  <2>3. [calls[c] EXCEPT !.step = "checked"] \in CallRow
    BY <2>2 DEF CallRow
  <2>4. calls' \in [Call -> CallRow]
    BY <2>1, <2>2, <2>3
  <2>5. /\ calls'[c].user = calls[c].user /\ calls'[c].grant = calls[c].grant
        /\ calls'[c].op = calls[c].op
        /\ \A d \in Call \ {c} : calls'[d] = calls[d]
    BY <2>1, <2>2 DEF CallRow
  <2>6. TypeOK'
    BY <1>1, <2>1, <2>4 DEF TypeOK, CallRow
  <2>7. AdminRemains'
    BY <1>1 DEF IInv, AdminRemains, ActiveSuperadmin
  <2>8. calls[c].grant \/ \E u \in User \ {calls[c].user} : ActiveSuperadmin(u)
    BY <1>3 DEF IInv, AdminRemains, lastSuperadminRemains, Withdraws
  <2>9. Checked(c)' /\ Deleting(c)'
    BY <1>1, <2>1, <2>5, <2>8 DEF Checked, Deleting, IInv, ActiveSuperadmin
  <2>10. \A d \in Call \ {c} : Checked(d)' /\ Deleting(d)'
    BY <1>2, <2>5 DEF Checked, Deleting, IInv
  <2> QED BY <2>6, <2>7, <2>9, <2>10 DEF IInv
<1>4. CASE ~(Exists(calls[c].user) /\ lastSuperadminRemains(c))
  <2>1. Done(c) /\ lock' = lock
    BY <1>4 DEF LockAndCheck
  <2>2. TypeOK'
    BY <1>1, <2>1, DoneStep DEF TypeOK, CallRow
  <2>3. \A u \in User : ActiveSuperadmin(u) => ActiveSuperadmin(u)'
    BY <1>1 DEF ActiveSuperadmin
  <2> QED BY <1>1, <2>1, <2>2, <2>3, DoneStep, Harmless
<1> QED BY <1>3, <1>4

\* The three commits.
LEMMA StatusStep ==
  ASSUME IInv, NEW c \in Call, UpdatePlatformUserStatus(c)
  PROVE  IInv'
<1> DEFINE u == calls[c].user
           st == IF users[u].status = "absent" THEN "absent"
                 ELSE IF calls[c].grant THEN "active" ELSE "disabled"
<1>1. /\ TypeOK /\ u \in User /\ users \in [User -> UserRow]
      /\ calls[c].step = "checked" /\ Done(c) /\ lock' = NoCall
      /\ UNCHANGED <<invites, passwords>>
  BY RowsTyped DEF IInv, TypeOK, UpdatePlatformUserStatus, At
<1>2. users' = [users EXCEPT ![u].status = st]
  BY DEF UpdatePlatformUserStatus
<1>3. st \in {"absent", "active", "disabled"} /\ (calls[c].grant /\ users[u].status # "absent" => st = "active")
  OBVIOUS
<1> HIDE DEF st
<1>4. [users[u] EXCEPT !.status = st] \in UserRow
  BY <1>1, <1>3 DEF UserRow
<1>5. users' \in [User -> UserRow] /\ \A v \in User \ {u} : users'[v] = users[v]
  BY <1>1, <1>2, <1>4
<1>6. sessions' \in Seq(SessionRow)
  BY <1>1, RevokedTyped DEF UpdatePlatformUserStatus, TypeOK
<1>7. TypeOK'
  BY <1>1, <1>5, <1>6, DoneStep DEF TypeOK, CallRow
<1>8. calls[c].grant => \A v \in User : ActiveSuperadmin(v) => ActiveSuperadmin(v)'
  <2>1. users'[u].status = st /\ users'[u].superadmin = users[u].superadmin
    BY <1>1, <1>2 DEF UserRow
  <2> QED BY <1>3, <1>5, <2>1 DEF ActiveSuperadmin
<1> QED BY <1>1, <1>5, <1>7, <1>8, Commits

\* UpdatePlatformUser writes the roles.
LEMMA RolesStep ==
  ASSUME IInv, NEW c \in Call, UpdatePlatformUser(c)
  PROVE  IInv'
<1> DEFINE u == calls[c].user
<1>1. /\ TypeOK /\ u \in User /\ users \in [User -> UserRow] /\ calls[c].grant \in BOOLEAN
      /\ calls[c].step = "checked" /\ Done(c) /\ lock' = NoCall
      /\ UNCHANGED <<sessions, invites, passwords>>
  BY RowsTyped DEF IInv, TypeOK, UpdatePlatformUser, At
<1>2. users' = [users EXCEPT ![u].superadmin = calls[c].grant]
  BY DEF UpdatePlatformUser
<1>3. [users[u] EXCEPT !.superadmin = calls[c].grant] \in UserRow
  BY <1>1 DEF UserRow
<1>4. users' \in [User -> UserRow] /\ \A v \in User \ {u} : users'[v] = users[v]
  BY <1>1, <1>2, <1>3
<1>5. TypeOK'
  BY <1>1, <1>4, DoneStep DEF TypeOK, CallRow
<1>6. calls[c].grant => \A v \in User : ActiveSuperadmin(v) => ActiveSuperadmin(v)'
  <2>1. users'[u].status = users[u].status /\ users'[u].superadmin = calls[c].grant
    BY <1>1, <1>2 DEF UserRow
  <2> QED BY <1>4, <2>1 DEF ActiveSuperadmin
<1> QED BY <1>1, <1>4, <1>5, <1>6, Commits

\* A user's links go with the user.
LEMMA WithoutUserTyped ==
  ASSUME TypeOK, NEW u
  PROVE  withoutUser(u) \in Seq(InviteRow)
<1> DEFINE F(i) == IF invites[i].user = u THEN [invites[i] EXCEPT !.status = "revoked"] ELSE invites[i]
<1>1. ASSUME NEW i \in DOMAIN invites PROVE F(i) \in InviteRow
  <2>1. invites[i] \in InviteRow
    BY RowsTyped
  <2> QED BY <2>1 DEF InviteRow
<1>2. invites \in Seq(InviteRow)
  BY DEF TypeOK
<1> HIDE DEF F
<1>3. [i \in DOMAIN invites |-> F(i)] \in Seq(InviteRow)
  BY <1>1, <1>2, Rewritten
<1> QED BY <1>3 DEF F, withoutUser

\* DeletePlatformUser takes the user's row away.
LEMMA DeleteStep ==
  ASSUME IInv, NEW c \in Call, DeletePlatformUser(c)
  PROVE  IInv'
<1> DEFINE u == calls[c].user
<1>1. /\ TypeOK /\ u \in User /\ users \in [User -> UserRow]
      /\ calls[c].step = "checked" /\ ~calls[c].grant /\ Done(c) /\ lock' = NoCall
      /\ UNCHANGED passwords
  BY RowsTyped DEF IInv, TypeOK, DeletePlatformUser, At, Deleting
<1>2. users' = [users EXCEPT ![u].status = "absent", ![u].superadmin = FALSE]
  BY DEF DeletePlatformUser
<1>3. [[users[u] EXCEPT !.status = "absent"] EXCEPT !.superadmin = FALSE] \in UserRow
  BY <1>1 DEF UserRow
<1>4. users' \in [User -> UserRow] /\ \A v \in User \ {u} : users'[v] = users[v]
  BY <1>1, <1>2, <1>3
<1>5. sessions' \in Seq(SessionRow) /\ invites' \in Seq(InviteRow)
  BY <1>1, RevokedTyped, WithoutUserTyped DEF DeletePlatformUser
<1>6. TypeOK'
  BY <1>1, <1>4, <1>5, DoneStep DEF TypeOK, CallRow
<1> QED BY <1>1, <1>4, <1>6, Commits

-----------------------------------------------------------------------------
\* createPlatformUser adds a user.
LEMMA CreatePlatformUserStep ==
  ASSUME IInv, CreatePlatformUser
  PROVE  IInv'
<1>1. TypeOK /\ UNCHANGED <<sessions, invites, calls, lock>> /\ users \in [User -> UserRow]
  BY DEF IInv, TypeOK, CreatePlatformUser
<1>2. PICK u \in User, superadmin \in BOOLEAN :
        /\ ~Exists(u)
        /\ passwords < MaxPassword /\ passwords' = passwords + 1
        /\ users' = [users EXCEPT ![u] = [status |-> "active", superadmin |-> superadmin,
                                          password |-> passwords + 1]]
  BY DEF CreatePlatformUser
<1>3. passwords + 1 \in 0..MaxPassword
  BY <1>1, <1>2, BoundsAssumption DEF TypeOK
<1>4. users' \in [User -> UserRow]
  BY <1>1, <1>2, <1>3 DEF UserRow
<1>5. TypeOK'
  BY <1>1, <1>2, <1>3, <1>4 DEF TypeOK
<1>6. \A v \in User : ActiveSuperadmin(v) => ActiveSuperadmin(v)'
  BY <1>1, <1>2 DEF ActiveSuperadmin, Exists
<1> QED BY <1>1, <1>5, <1>6, Harmless

\* The steps on links that change nothing but links.
LEMMA InviteRowStep ==
  ASSUME IInv, MarkPlatformUserInviteDelivered \/ InviteTimePasses \/ GetPlatformUserInviteByToken
  PROVE  IInv'
<1>1. TypeOK /\ UNCHANGED <<users, sessions, passwords, calls, lock>>
  BY DEF IInv, MarkPlatformUserInviteDelivered, InviteTimePasses, GetPlatformUserInviteByToken
<1>2. \E i \in DOMAIN invites, r \in InviteRow : invites' = [invites EXCEPT ![i] = r]
  <2>1. CASE MarkPlatformUserInviteDelivered
    <3>1. PICK i \in DOMAIN invites, status \in {"sent", "delivery_failed"} :
            invites' = [invites EXCEPT ![i].status = status]
      BY <2>1 DEF MarkPlatformUserInviteDelivered
    <3>2. [invites[i] EXCEPT !.status = status] \in InviteRow
      BY <1>1, RowsTyped DEF InviteRow
    <3> QED BY <3>1, <3>2
  <2>2. CASE InviteTimePasses
    <3>1. PICK i \in DOMAIN invites : invites' = [invites EXCEPT ![i].late = TRUE]
      BY <2>2 DEF InviteTimePasses
    <3>2. [invites[i] EXCEPT !.late = TRUE] \in InviteRow
      BY <1>1, RowsTyped DEF InviteRow
    <3> QED BY <3>1, <3>2
  <2>3. CASE GetPlatformUserInviteByToken
    <3>1. PICK i \in DOMAIN invites : invites' = [invites EXCEPT ![i].status = "expired"]
      BY <2>3 DEF GetPlatformUserInviteByToken
    <3>2. [invites[i] EXCEPT !.status = "expired"] \in InviteRow
      BY <1>1, RowsTyped DEF InviteRow
    <3> QED BY <3>1, <3>2
  <2> QED BY <2>1, <2>2, <2>3
<1>3. invites' \in Seq(InviteRow)
  BY <1>1, <1>2, ExceptSeq DEF TypeOK
<1>4. TypeOK'
  BY <1>1, <1>3 DEF TypeOK
<1>5. \A u \in User : ActiveSuperadmin(u) => ActiveSuperadmin(u)'
  BY <1>1 DEF ActiveSuperadmin
<1> QED BY <1>1, <1>4, <1>5, Harmless

\* A new link: the open ones are revoked, then it is inserted.
LEMMA InviteStep ==
  ASSUME IInv, NEW c \in Call, createPlatformUserInviteInTx(c)
  PROVE  IInv'
<1>1. TypeOK /\ UNCHANGED <<users, sessions, passwords, lock>>
  BY DEF IInv, createPlatformUserInviteInTx
<1>2. PICK u \in User :
        /\ Start(c, "invite", u, FALSE, 0)
        /\ invites' = [i \in DOMAIN invites |->
                         IF invites[i].user = u /\ Open(i)
                           THEN [invites[i] EXCEPT !.status = "revoked"] ELSE invites[i]]
  BY DEF createPlatformUserInviteInTx
<1>3. /\ calls' \in [Call -> CallRow]
      /\ calls'[c].step # "checked" /\ (calls'[c].op = "delete" => ~calls'[c].grant)
      /\ \A d \in Call \ {c} : calls'[d] = calls[d]
  <2>1. 0 \in 0..MaxPassword
    BY BoundsAssumption
  <2> QED BY <1>1, <1>2, <2>1, StartStep
<1>4. invites' \in Seq(InviteRow)
  <2> DEFINE F(i) == IF invites[i].user = u /\ Open(i)
                       THEN [invites[i] EXCEPT !.status = "revoked"] ELSE invites[i]
  <2>1. ASSUME NEW i \in DOMAIN invites PROVE F(i) \in InviteRow
    <3>1. invites[i] \in InviteRow
      BY <1>1, RowsTyped
    <3> QED BY <3>1 DEF InviteRow
  <2>2. invites \in Seq(InviteRow)
    BY <1>1 DEF TypeOK
  <2> HIDE DEF F
  <2>3. [i \in DOMAIN invites |-> F(i)] \in Seq(InviteRow)
    BY <2>1, <2>2, Rewritten
  <2> QED BY <1>2, <2>3 DEF F
<1>5. TypeOK'
  BY <1>1, <1>3, <1>4 DEF TypeOK, CallRow
<1>6. \A v \in User : ActiveSuperadmin(v) => ActiveSuperadmin(v)'
  BY <1>1 DEF ActiveSuperadmin
<1> QED BY <1>1, <1>3, <1>5, <1>6, Harmless

\* The second statement of a new link.
LEMMA InsertInviteStep ==
  ASSUME IInv, NEW c \in Call, insertInvite(c)
  PROVE  IInv'
<1>1. TypeOK /\ UNCHANGED <<users, sessions, passwords, lock>> /\ Done(c)
  BY DEF IInv, insertInvite
<1>2. [user |-> calls[c].user, status |-> "pending", late |-> FALSE] \in InviteRow
  BY <1>1, RowsTyped DEF InviteRow
<1>3. invites' \in Seq(InviteRow)
  BY <1>1, <1>2, AppendProperties DEF TypeOK, insertInvite
<1>4. TypeOK'
  BY <1>1, <1>3, DoneStep DEF TypeOK, CallRow
<1>5. \A v \in User : ActiveSuperadmin(v) => ActiveSuperadmin(v)'
  BY <1>1 DEF ActiveSuperadmin
<1> QED BY <1>1, <1>4, <1>5, DoneStep, Harmless

\* Accepting a link sets a password and activates; it never demotes.
LEMMA AcceptStep ==
  ASSUME IInv, NEW c \in Call, AcceptPlatformUserInvite(c)
  PROVE  IInv'
<1>1. TypeOK /\ UNCHANGED lock /\ users \in [User -> UserRow]
  BY DEF IInv, TypeOK, AcceptPlatformUserInvite
<1>2. PICK i \in DOMAIN invites :
        \/ /\ passwords < MaxPassword /\ passwords' = passwords + 1
           /\ users' = [users EXCEPT ![invites[i].user].password = passwords + 1,
                                     ![invites[i].user].status = "active"]
           /\ sessions' = revokeSessions(invites[i].user)
           /\ invites' = [invites EXCEPT ![i].status = "accepted"]
           /\ Start(c, "login", invites[i].user, FALSE, passwords + 1)
        \/ /\ invites' = [invites EXCEPT ![i].status = "expired"]
           /\ UNCHANGED <<users, sessions, passwords, calls>>
  BY DEF AcceptPlatformUserInvite
<1> DEFINE u == invites[i].user
<1>3. u \in User /\ invites[i] \in InviteRow
  BY <1>1, RowsTyped
<1>4. invites' \in Seq(InviteRow)
  <2>1. [invites[i] EXCEPT !.status = "accepted"] \in InviteRow
    BY <1>3 DEF InviteRow
  <2>2. [invites[i] EXCEPT !.status = "expired"] \in InviteRow
    BY <1>3 DEF InviteRow
  <2>3. invites \in Seq(InviteRow) /\ i \in 1..Len(invites)
    BY <1>1 DEF TypeOK
  <2>4. PICK r \in InviteRow : invites' = [invites EXCEPT ![i] = r]
    BY <1>2, <2>1, <2>2
  <2> QED BY <2>3, <2>4, ExceptSeq
<1>5. CASE UNCHANGED <<users, sessions, passwords, calls>>
  <2>1. TypeOK'
    BY <1>1, <1>4, <1>5 DEF TypeOK
  <2>2. \A v \in User : ActiveSuperadmin(v) => ActiveSuperadmin(v)'
    BY <1>5 DEF ActiveSuperadmin
  <2> QED BY <1>1, <1>5, <2>1, <2>2, Harmless
<1>6. CASE /\ passwords < MaxPassword /\ passwords' = passwords + 1
           /\ users' = [users EXCEPT ![u].password = passwords + 1, ![u].status = "active"]
           /\ sessions' = revokeSessions(u)
           /\ Start(c, "login", u, FALSE, passwords + 1)
  <2>1. passwords + 1 \in 0..MaxPassword
    BY <1>1, <1>6, BoundsAssumption DEF TypeOK
  <2>2. [[users[u] EXCEPT !.password = passwords + 1] EXCEPT !.status = "active"] \in UserRow
    BY <1>1, <1>3, <2>1 DEF UserRow
  <2>3. users' \in [User -> UserRow]
    BY <1>1, <1>3, <1>6, <2>2
  <2>4. /\ calls' \in [Call -> CallRow]
        /\ calls'[c].step # "checked" /\ (calls'[c].op = "delete" => ~calls'[c].grant)
        /\ \A d \in Call \ {c} : calls'[d] = calls[d]
    BY <1>1, <1>3, <1>6, <2>1, StartStep
  <2>5. sessions' \in Seq(SessionRow)
    BY <1>1, <1>6, RevokedTyped
  <2>6. TypeOK'
    BY <1>1, <1>4, <1>6, <2>1, <2>3, <2>4, <2>5 DEF TypeOK, CallRow
  <2>7. /\ users'[u].status = "active" /\ users'[u].superadmin = users[u].superadmin
        /\ \A v \in User \ {u} : users'[v] = users[v]
    BY <1>1, <1>3, <1>6 DEF UserRow
  <2>8. \A v \in User : ActiveSuperadmin(v) => ActiveSuperadmin(v)'
    BY <2>7 DEF ActiveSuperadmin
  <2> QED BY <1>1, <2>4, <2>6, <2>8, Harmless
<1> QED BY <1>2, <1>5, <1>6

-----------------------------------------------------------------------------
\* The state the installation bootstraps satisfies the invariant.
LEMMA InitIInv == Init => IInv
<1> SUFFICES ASSUME Init PROVE IInv
  OBVIOUS
<1>1. 0 \in 0..MaxPassword
  BY BoundsAssumption
<1>2. TypeOK
  <2>1. users \in [User -> UserRow]
    BY <1>1 DEF Init, UserRow
  <2>2. sessions \in Seq(SessionRow) /\ invites \in Seq(InviteRow)
    BY DEF Init
  <2>3. calls \in [Call -> CallRow]
    BY <1>1, RootAssumption DEF Init, Idle, CallRow
  <2> QED BY <1>1, <2>1, <2>2, <2>3 DEF Init, TypeOK, CallRow
<1>3. AdminRemains
  BY RootAssumption DEF Init, AdminRemains, ActiveSuperadmin
<1>4. \A c \in Call : Checked(c) /\ Deleting(c)
  BY DEF Init, Idle, Checked, Deleting
<1> QED BY <1>2, <1>3, <1>4 DEF IInv

\* Every step of every request keeps it.
LEMMA NextIInv == IInv /\ [Next]_vars => IInv'
<1> SUFFICES ASSUME IInv, [Next]_vars PROVE IInv'
  OBVIOUS
<1>1. CASE UNCHANGED vars
  BY <1>1 DEF vars, IInv, TypeOK, AdminRemains, Checked, Deleting, ActiveSuperadmin
<1>2. ASSUME NEW c \in Call, login(c) \/ changePassword(c) \/ BeginMutation(c) PROVE IInv'
  BY <1>2, BeginStep
<1>3. ASSUME NEW c \in Call, CreateUserSession(c) PROVE IInv'
  BY <1>3, CreateUserSessionStep
<1>4. ASSUME NEW c \in Call, UpdatePlatformUserPassword(c) PROVE IInv'
  BY <1>4, PasswordStep
<1>5. ASSUME NEW c \in Call, resetPassword(c) PROVE IInv'
  BY <1>5, ResetPasswordStep
<1>6. ASSUME NEW c \in Call, LockAndCheck(c) PROVE IInv'
  BY <1>6, LockAndCheckStep
<1>7. ASSUME NEW c \in Call, UpdatePlatformUserStatus(c) PROVE IInv'
  BY <1>7, StatusStep
<1>8. ASSUME NEW c \in Call, UpdatePlatformUser(c) PROVE IInv'
  BY <1>8, RolesStep
<1>9. ASSUME NEW c \in Call, DeletePlatformUser(c) PROVE IInv'
  BY <1>9, DeleteStep
<1>10. ASSUME NEW c \in Call, createPlatformUserInviteInTx(c) PROVE IInv'
  BY <1>10, InviteStep
<1>11. ASSUME NEW c \in Call, insertInvite(c) PROVE IInv'
  BY <1>11, InsertInviteStep
<1>12. ASSUME NEW c \in Call, AcceptPlatformUserInvite(c) PROVE IInv'
  BY <1>12, AcceptStep
<1>13. CASE logout \/ revokeAllPlatformSessions
  BY <1>13, EndSessionsStep
<1>14. CASE CreatePlatformUser
  BY <1>14, CreatePlatformUserStep
<1>15. CASE MarkPlatformUserInviteDelivered \/ InviteTimePasses \/ GetPlatformUserInviteByToken
  BY <1>15, InviteRowStep
<1> QED BY <1>1, <1>2, <1>3, <1>4, <1>5, <1>6, <1>7, <1>8, <1>9, <1>10, <1>11, <1>12, <1>13,
           <1>14, <1>15 DEF Next

\* The rows are typed, and a call that has checked holds the lock and what it
\* has seen still is so.
THEOREM AccountsInvariant == Spec => []IInv
  BY InitIInv, NextIInv, PTL DEF Spec

\* However the calls that disable, demote and delete users interleave, an
\* active superadmin is left (the advisory lock and the check in
\* UpdatePlatformUserStatus, UpdatePlatformUser and DeletePlatformUser).
THEOREM AnAdminRemains == Spec => []AdminRemains
<1>1. IInv => AdminRemains
  BY DEF IInv
<1> QED BY <1>1, AccountsInvariant, PTL
-----------------------------------------------------------------------------
(***************************************************************************)
(* Sessions.  A live session whose login was not overtaken belongs to an   *)
(* active user and was opened with the password the user has now.  Both    *)
(* properties follow: a session that is not revoked was not revoked        *)
(* before, so its user was active before.                                  *)
(***************************************************************************)
Fresh(s) ==
  ~sessions[s].revoked /\ ~sessions[s].raced =>
    /\ users[sessions[s].user].status = "active"
    /\ users[sessions[s].user].password = sessions[s].password

SessionsFresh == \A s \in DOMAIN sessions : Fresh(s)

\* What a step may do to session s and to its user's row.
Revoking(s) ==
  /\ sessions'[s].user = sessions[s].user
  /\ sessions'[s].password = sessions[s].password
  /\ sessions'[s].raced = sessions[s].raced
  /\ ~sessions'[s].revoked =>
       /\ ~sessions[s].revoked
       /\ users'[sessions[s].user].password = users[sessions[s].user].password
       /\ users[sessions[s].user].status = "active" => users'[sessions[s].user].status = "active"

\* A step that opens no session and lets those live on whose users keep
\* their status and password.
OnlyRevokes == DOMAIN sessions' = DOMAIN sessions /\ \A s \in DOMAIN sessions : Revoking(s)

\* Such a step keeps the sessions fresh.
LEMMA OnlyRevokesKeepsFresh ==
  ASSUME SessionsFresh, OnlyRevokes
  PROVE  SessionsFresh'
  BY DEF SessionsFresh, Fresh, OnlyRevokes, Revoking

\* Revoking a user's sessions: the other sessions stay as they are.
LEMMA RevokeSessionsRevokes ==
  ASSUME TypeOK, NEW u \in User, users \in [User -> UserRow],
         sessions' = revokeSessions(u),
         \A v \in User \ {u} : users'[v] = users[v]
  PROVE  OnlyRevokes
<1>1. DOMAIN sessions' = DOMAIN sessions
  BY DEF revokeSessions
<1>2. ASSUME NEW s \in DOMAIN sessions PROVE Revoking(s)
  <2>1. sessions[s] \in SessionRow /\ sessions[s].user \in User
    BY RowsTyped
  <2>2. CASE sessions[s].user = u
    <3>1. sessions'[s] = [sessions[s] EXCEPT !.revoked = TRUE]
      BY <2>2 DEF revokeSessions
    <3> QED BY <2>1, <3>1 DEF Revoking, SessionRow
  <2>3. CASE sessions[s].user # u
    <3>1. sessions'[s] = sessions[s] /\ users'[sessions[s].user] = users[sessions[s].user]
      BY <2>1, <2>3 DEF revokeSessions
    <3> QED BY <3>1 DEF Revoking
  <2> QED BY <2>2, <2>3
<1> QED BY <1>1, <1>2 DEF OnlyRevokes

\* The sessions are left alone, and so are status and password of whoever
\* is active.
LEMMA KeepSessionsRevokes ==
  ASSUME TypeOK, sessions' = sessions,
         \A u \in User : users[u].status = "active" =>
           users'[u].status = "active" /\ users'[u].password = users[u].password,
         \A s \in DOMAIN sessions : users'[sessions[s].user].password = users[sessions[s].user].password
  PROVE  OnlyRevokes
  BY RowsTyped DEF OnlyRevokes, Revoking

\* A new password ends the sessions that the old one opened.
LEMMA SetPasswordRevokes ==
  ASSUME TypeOK, NEW u \in User, setPassword(u)
  PROVE  OnlyRevokes
<1>1. users \in [User -> UserRow]
  BY DEF TypeOK
<1>2. \A v \in User \ {u} : users'[v] = users[v]
  BY <1>1 DEF setPassword
<1> QED BY <1>1, <1>2, RevokeSessionsRevokes DEF setPassword

\* Every step but the insert of a session is of this kind.
LEMMA StepsOnlyRevoke ==
  ASSUME IInv, [Next]_vars
  PROVE  OnlyRevokes \/ \E c \in Call : CreateUserSession(c)
<1>0. TypeOK /\ users \in [User -> UserRow]
  BY DEF IInv, TypeOK
<1>1. CASE UNCHANGED <<users, sessions>>
  BY <1>0, <1>1, KeepSessionsRevokes
<1>2. CASE logout
  <2>1. UNCHANGED users
    BY <1>2 DEF logout
  <2>2. PICK t \in DOMAIN sessions : sessions' = [sessions EXCEPT ![t].revoked = TRUE]
    BY <1>2 DEF logout
  <2>3. ASSUME NEW s \in DOMAIN sessions PROVE Revoking(s)
    <3>1. sessions[s] \in SessionRow
      BY <1>0, RowsTyped
    <3>2. sessions'[s] = IF s = t THEN [sessions[s] EXCEPT !.revoked = TRUE] ELSE sessions[s]
      BY <1>0, <2>2 DEF TypeOK
    <3> QED BY <2>1, <3>1, <3>2 DEF Revoking, SessionRow
  <2> QED BY <1>0, <2>2, <2>3 DEF OnlyRevokes, TypeOK
<1>3. CASE revokeAllPlatformSessions
  <2>1. UNCHANGED users
    BY <1>3 DEF revokeAllPlatformSessions
  <2>2. PICK t \in DOMAIN sessions :
          sessions' = [s \in DOMAIN sessions |->
                         IF s = t THEN sessions[s] ELSE [sessions[s] EXCEPT !.revoked = TRUE]]
    BY <1>3 DEF revokeAllPlatformSessions
  <2>3. ASSUME NEW s \in DOMAIN sessions PROVE Revoking(s)
    <3>1. sessions[s] \in SessionRow
      BY <1>0, RowsTyped
    <3>2. sessions'[s] = IF s = t THEN sessions[s] ELSE [sessions[s] EXCEPT !.revoked = TRUE]
      BY <2>2
    <3> QED BY <2>1, <3>1, <3>2 DEF Revoking, SessionRow
  <2> QED BY <2>2, <2>3 DEF OnlyRevokes
<1>4. ASSUME NEW c \in Call, UpdatePlatformUserPassword(c) \/ resetPassword(c) PROVE OnlyRevokes
  <2>1. UNCHANGED <<users, sessions>> \/ \E u \in User : setPassword(u)
    BY <1>0, <1>4, RowsTyped DEF UpdatePlatformUserPassword, resetPassword
  <2> QED BY <1>0, <1>1, <2>1, SetPasswordRevokes, KeepSessionsRevokes
<1>5. ASSUME NEW c \in Call, UpdatePlatformUserStatus(c) PROVE OnlyRevokes
  <2> DEFINE u == calls[c].user
             st == IF users[u].status = "absent" THEN "absent"
                   ELSE IF calls[c].grant THEN "active" ELSE "disabled"
  <2>1. u \in User
    BY <1>0, RowsTyped
  <2>2. users' = [users EXCEPT ![u].status = st]
    BY <1>5 DEF UpdatePlatformUserStatus
  <2>3. CASE calls[c].grant
    <3>1. sessions' = sessions
      BY <1>5, <2>3 DEF UpdatePlatformUserStatus
    <3>2. \A v \in User : users'[v].password = users[v].password
      BY <1>0, <2>1, <2>2 DEF UserRow
    <3>3. \A v \in User : users[v].status = "active" => users'[v].status = "active"
      BY <1>0, <2>1, <2>2, <2>3 DEF UserRow
    <3> QED BY <1>0, <3>1, <3>2, <3>3, RowsTyped, KeepSessionsRevokes
  <2>4. CASE ~calls[c].grant
    <3>1. sessions' = revokeSessions(u)
      BY <1>5, <2>4 DEF UpdatePlatformUserStatus
    <3>2. \A v \in User \ {u} : users'[v] = users[v]
      BY <1>0, <2>1, <2>2
    <3> QED BY <1>0, <2>1, <3>1, <3>2, RevokeSessionsRevokes
  <2> QED BY <2>3, <2>4
<1>6. ASSUME NEW c \in Call, UpdatePlatformUser(c) PROVE OnlyRevokes
  <2>1. sessions' = sessions /\ users' = [users EXCEPT ![calls[c].user].superadmin = calls[c].grant]
    BY <1>6 DEF UpdatePlatformUser
  <2>2. \A v \in User : users'[v].status = users[v].status /\ users'[v].password = users[v].password
    BY <1>0, <2>1, RowsTyped DEF UserRow
  <2> QED BY <1>0, <2>1, <2>2, RowsTyped, KeepSessionsRevokes
<1>7. ASSUME NEW c \in Call, DeletePlatformUser(c) PROVE OnlyRevokes
  <2>1. calls[c].user \in User
    BY <1>0, RowsTyped
  <2>2. \A v \in User \ {calls[c].user} : users'[v] = users[v]
    BY <1>0, <1>7, <2>1 DEF DeletePlatformUser
  <2> QED BY <1>0, <1>7, <2>1, <2>2, RevokeSessionsRevokes DEF DeletePlatformUser
<1>8. CASE CreatePlatformUser
  <2>1. PICK u \in User :
          /\ ~Exists(u)
          /\ \A t \in DOMAIN sessions : sessions[t].user # u
          /\ \A v \in User \ {u} : users'[v] = users[v]
    BY <1>0, <1>8 DEF CreatePlatformUser
  <2>2. sessions' = sessions
    BY <1>8 DEF CreatePlatformUser
  <2> QED BY <1>0, <2>1, <2>2, RowsTyped DEF OnlyRevokes, Revoking
<1>9. ASSUME NEW c \in Call, AcceptPlatformUserInvite(c) PROVE OnlyRevokes
  <2>1. CASE UNCHANGED <<users, sessions>>
    BY <1>0, <2>1, KeepSessionsRevokes
  <2>2. CASE \E i \in DOMAIN invites :
               /\ users' = [users EXCEPT ![invites[i].user].password = passwords + 1,
                                         ![invites[i].user].status = "active"]
               /\ sessions' = revokeSessions(invites[i].user)
    <3>1. PICK i \in DOMAIN invites :
               /\ users' = [users EXCEPT ![invites[i].user].password = passwords + 1,
                                         ![invites[i].user].status = "active"]
               /\ sessions' = revokeSessions(invites[i].user)
      BY <2>2
    <3>2. invites[i].user \in User
      BY <1>0, RowsTyped
    <3>3. \A v \in User \ {invites[i].user} : users'[v] = users[v]
      BY <1>0, <3>1, <3>2
    <3> QED BY <1>0, <3>1, <3>2, <3>3, RevokeSessionsRevokes
  <2> QED BY <1>9, <2>1, <2>2 DEF AcceptPlatformUserInvite
<1>10. ASSUME NEW c \in Call,
              \/ login(c) \/ changePassword(c) \/ BeginMutation(c) \/ LockAndCheck(c)
              \/ createPlatformUserInviteInTx(c) \/ insertInvite(c)
       PROVE  UNCHANGED <<users, sessions>>
  BY <1>10 DEF login, changePassword, BeginMutation, LockAndCheck, createPlatformUserInviteInTx, insertInvite
<1>11. CASE MarkPlatformUserInviteDelivered \/ InviteTimePasses \/ GetPlatformUserInviteByToken
  BY <1>1, <1>11 DEF MarkPlatformUserInviteDelivered, InviteTimePasses, GetPlatformUserInviteByToken
<1>12. CASE UNCHANGED vars
  BY <1>1, <1>12 DEF vars
<1> QED BY <1>1, <1>2, <1>3, <1>4, <1>5, <1>6, <1>7, <1>8, <1>9, <1>10, <1>11, <1>12 DEF Next

\* The session a login inserts is raced, or opened by an active user with the
\* password of now; the others stay.
LEMMA InsertedIsFresh ==
  ASSUME IInv, SessionsFresh, NEW c \in Call, CreateUserSession(c)
  PROVE  /\ SessionsFresh'
         /\ \A s \in DOMAIN sessions : sessions'[s] = sessions[s]
         /\ UNCHANGED users
<1>1. TypeOK /\ UNCHANGED users
  BY DEF IInv, CreateUserSession
<1>2. CASE sessions' = sessions
  BY <1>1, <1>2 DEF SessionsFresh, Fresh
<1>3. CASE \E r \in SessionRow :
             /\ sessions' = Append(sessions, r)
             /\ ~r.raced => users[r.user].status = "active" /\ users[r.user].password = r.password
  <2>1. PICK r \in SessionRow :
             /\ sessions' = Append(sessions, r)
             /\ ~r.raced => users[r.user].status = "active" /\ users[r.user].password = r.password
    BY <1>3
  <2>2. /\ \A s \in DOMAIN sessions : sessions'[s] = sessions[s]
        /\ \A s \in DOMAIN sessions' : s \in DOMAIN sessions \/ sessions'[s] = r
    BY <1>1, <2>1, AppendProperties DEF TypeOK
  <2> QED BY <1>1, <2>1, <2>2 DEF SessionsFresh, Fresh
<1>4. sessions' = sessions
      \/ \E r \in SessionRow :
             /\ sessions' = Append(sessions, r)
             /\ ~r.raced => users[r.user].status = "active" /\ users[r.user].password = r.password
  <2> DEFINE R(audited) == [user |-> calls[c].user, password |-> calls[c].seen, revoked |-> ~audited,
                            raced |-> users[calls[c].user].status # "active"
                                        \/ users[calls[c].user].password # calls[c].seen]
  <2>1. \A audited \in BOOLEAN :
          /\ R(audited) \in SessionRow
          /\ ~R(audited).raced => users[R(audited).user].status = "active"
                                    /\ users[R(audited).user].password = R(audited).password
    BY <1>1, RowsTyped DEF SessionRow
  <2>2. sessions' = sessions \/ \E audited \in BOOLEAN : sessions' = Append(sessions, R(audited))
    BY DEF CreateUserSession
  <2> HIDE DEF R
  <2> QED BY <2>1, <2>2
<1> QED BY <1>2, <1>3, <1>4, <1>1

\* Sessions stay fresh.
LEMMA NextFresh == IInv /\ SessionsFresh /\ [Next]_vars => SessionsFresh'
  BY StepsOnlyRevoke, OnlyRevokesKeepsFresh, InsertedIsFresh

\* A live session is fresh, unless its login was overtaken by a change.
THEOREM SessionsStayFresh == Spec => []SessionsFresh
<1>1. Init => SessionsFresh
  BY DEF Init, SessionsFresh
<1> QED BY <1>1, NextFresh, AccountsInvariant, PTL DEF Spec

\* Whichever way a password is changed, the sessions that the old one opened
\* no longer open the API (the revocations in UpdatePlatformUserPassword and
\* AcceptPlatformUserInvite), for any number of users, sessions and requests.
THEOREM OldPasswordsAreDead == Spec => []OldPasswordOpensNothing
<1>1. SessionsFresh => OldPasswordOpensNothing
  BY DEF SessionsFresh, Fresh, OldPasswordOpensNothing, ResolveAuthContext
<1> QED BY <1>1, SessionsStayFresh, PTL

\* Enabling a user, and accepting a link, revive none of the sessions that
\* ended before (revokeSessions in UpdatePlatformUserStatus).
THEOREM SessionsNeverReopen == Spec => NothingReopens
<1>1. ASSUME IInv, SessionsFresh, [Next]_vars
      PROVE  [\A s \in DOMAIN sessions :
                ResolveAuthContext(s)' /\ ~sessions[s].raced => ResolveAuthContext(s)]_vars
  <2>1. CASE OnlyRevokes
    BY <1>1, <2>1 DEF OnlyRevokes, Revoking, SessionsFresh, Fresh, ResolveAuthContext
  <2>2. CASE \E c \in Call : CreateUserSession(c)
    BY <1>1, <2>2, InsertedIsFresh DEF ResolveAuthContext
  <2> QED BY <1>1, <2>1, <2>2, StepsOnlyRevoke
<1> QED BY <1>1, AccountsInvariant, SessionsStayFresh, PTL DEF Spec, NothingReopens
=============================================================================

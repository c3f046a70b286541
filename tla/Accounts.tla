------------------------------- MODULE Accounts -------------------------------
(***************************************************************************)
(* The account directory and the session registry: the users, auth_sessions *)
(* and password_reset_tokens tables, and every operation on them that the   *)
(* server actions, the sign-in callback and the operator scripts perform.   *)
(*                                                                         *)
(* Each SQLite transaction is one action.  Hashing a password (bcrypt)      *)
(* yields to other requests, and a sign-in commits again when its session's *)
(* row is written: an operation that hashes or commits twice is as many     *)
(* actions, and a row of tasks carries what it knows from one to the next.  *)
(* A password is a generation: a change writes one that no account holds.   *)
(*                                                                         *)
(* An operator with an underscore in its name is a seeded fault: the       *)
(* definition after it with one slip.  Nothing uses it.                    *)
(***************************************************************************)
EXTENDS Integers, FiniteSets

CONSTANTS User, Session, Token, Task,  \* ids of rows and of requests in flight
          NONE,
          MaxVersion,                  \* bound on users.auth_version
          MaxPassword                  \* bound on password generations

ASSUME AccountsAssumption ==
  /\ NONE \notin User
  /\ MaxPassword \in Nat \ {0}

VARIABLES mode,       \* SUPERSCRIBER_AUTH_MODE, fixed while the process runs
          users,      \* the users table
          sessions,   \* the auth_sessions table
          tokens,     \* the password_reset_tokens table
          tasks,      \* requests under way, in memory
          designee,   \* auth_control.break_glass_user_id
          claimFile,  \* admin-claim.token exists next to the database
          offboarded  \* history: an operator has offboarded a linked account

accountVars == <<users, sessions, tokens, tasks, designee, claimFile, offboarded>>

Modes == {"local", "dual", "authentik-primary"}
Roles == {"admin", "reviewer"}    \* what these operations tell apart
Sources == {"local", "authentik", "break_glass"}
NoPassword == 0                   \* an account that only signs in elsewhere
Disabled == -1                    \* a "disabled:..." hash matches nothing

NoUser == [status |-> "absent", role |-> "reviewer", by |-> NONE,
           removed |-> FALSE, pw |-> NoPassword, must |-> FALSE, ver |-> 0]
NoSession == [status |-> "none", user |-> NONE, source |-> "local", ver |-> 0,
              due |-> FALSE, role |-> "reviewer", pw |-> NoPassword, proof |-> NONE,
              shown |-> NONE]
NoToken == [status |-> "none", user |-> NONE, due |-> FALSE, pw |-> NoPassword]
Idle == [op |-> "idle"]

DirectoryInit ==
  /\ mode \in Modes
  /\ users = [u \in User |-> NoUser]
  /\ sessions = [s \in Session |-> NoSession]
  /\ tokens = [k \in Token |-> NoToken]
  /\ tasks = [t \in Task |-> Idle]
  /\ designee = NONE
  /\ claimFile = FALSE
  /\ offboarded = FALSE

-----------------------------------------------------------------------------
(* Reading the tables *)

Exists(u) == users[u].status # "absent"
Active(u) == users[u].status = "active"
ActiveAdmins == {u \in User : Active(u) /\ users[u].role = "admin"}
\* A new password is the next generation, which no account has.
IsNewer(n) == \A u \in User : users[u].pw < n
NewPassword == CHOOSE n \in 1 .. MaxPassword : IsNewer(n)

\* What both validateAuthSession and revalidateActiveActor accept.
Usable(s) ==
  /\ sessions[s].status = "active"
  /\ ~sessions[s].due
  /\ Active(sessions[s].user)
  /\ sessions[s].ver = users[sessions[s].user].ver

LiveActor(s) == Usable(s)
LiveAdmin(s) == LiveActor(s) /\ users[sessions[s].user].role = "admin"
Actor(s) == sessions[s].user
\* Server actions also refuse a session that still owes a password change.
ActingAdmin(s) == LiveAdmin(s) /\ ~users[Actor(s)].must

Redeemable(k) == tokens[k].status = "live" /\ ~tokens[k].due
\* What completePasswordReset asks of the account inside its transaction.
MayRedeem(k) ==
  /\ Redeemable(k)
  /\ designee # tokens[k].user
  /\ Active(tokens[k].user)
  /\ users[tokens[k].user].pw # Disabled

\* Triggers of the database, and the same rules in the services: the break-glass
\* designee stays an active administrator, and an administrator remains.
KeepsDesignee(u) == designee # u
KeepsAnAdmin(u) == u \in ActiveAdmins => ActiveAdmins \ {u} # {}
MayDesignate(u) == u \in ActiveAdmins

MayDeactivate_Alone(u) == KeepsDesignee(u)  \* fault: the other administrators are not counted
\* assertMayDeactivate
MayDeactivate(u) == KeepsDesignee(u) /\ KeepsAnAdmin(u)

-----------------------------------------------------------------------------
(* Writing the tables *)

Bumped(u) == users[u].ver + 1
\* The guard that bounds the model; the column has no bound.
CanBump(u) == users[u].ver < MaxVersion
CanRehash == \E n \in 1 .. MaxPassword : IsNewer(n)

\* revokeUserSessions
Revoked(S) == [s \in Session |->
                 IF s \in S /\ sessions[s].status = "active"
                 THEN [sessions[s] EXCEPT !.status = "revoked"] ELSE sessions[s]]
SessionsOf(u) == {s \in Session : sessions[s].user = u}
RevokeAll(u) == sessions' = Revoked(SessionsOf(u))

\* invalidateUserResetTokens
Invalidated(u) == [k \in Token |->
                     IF tokens[k].status = "live" /\ tokens[k].user = u
                     THEN [tokens[k] EXCEPT !.status = "dead"] ELSE tokens[k]]
InvalidateAll(u) == tokens' = Invalidated(u)

\* issueResetToken: the newest link wins.
Issued(u, k) == [Invalidated(u) EXCEPT
                   ![k] = [status |-> "live", user |-> u, due |-> FALSE, pw |-> users[u].pw]]

\* createAuthSession copies the version the account has when it is called.
\* role, pw, proof and shown are history: the account's role and password at the
\* row, the ceremony or subject, and what was shown to be let in (see OpenSession).
Minted(u, source, proof) ==
  [status |-> "active", user |-> u, source |-> source, ver |-> users[u].ver, due |-> FALSE,
   role |-> users[u].role, pw |-> users[u].pw, proof |-> proof, shown |-> NONE]

Forget(t) == tasks' = [tasks EXCEPT ![t] = Idle]
Remember(t, r) == tasks[t] = Idle /\ tasks' = [tasks EXCEPT ![t] = r]

NewAccount(u, role, must) ==
  [NoUser EXCEPT !.status = "active", !.role = role, !.pw = NewPassword,
                 !.must = must, !.ver = 1]

-----------------------------------------------------------------------------
(* First-run setup and the administrator recovery claim *)

CreateBootstrapAdmin(u) ==
  /\ \A v \in User : ~Exists(v)
  /\ users' = [users EXCEPT ![u] = NewAccount(u, "admin", FALSE)]
  /\ UNCHANGED <<sessions, tokens, tasks, designee, claimFile, offboarded>>

Unmanageable == ActiveAdmins = {} /\ \E u \in User : Exists(u)

\* Rendering the sign-up door of an instance without an administrator writes
\* the claim token for whoever can read the host's disk.
EnsureAdminClaimToken ==
  /\ Unmanageable /\ ~claimFile
  /\ claimFile' = TRUE
  /\ UNCHANGED <<users, sessions, tokens, tasks, designee, offboarded>>

\* What claimRecoveryAdminAction asks before the hash and createRecoveryAdmin after.
ClaimOpen == mode # "authentik-primary" /\ Unmanageable /\ claimFile

\* The token file is removed inside the transaction but not by it: a crash
\* before the commit loses the token and keeps the tables.
CreateRecoveryAdmin(u, crashed) ==
  /\ ClaimOpen
  /\ ~Exists(u) /\ CanRehash
  /\ claimFile' = FALSE
  /\ users' = IF crashed THEN users
              ELSE [users EXCEPT ![u] = NewAccount(u, "admin", FALSE)]
  /\ UNCHANGED <<sessions, tokens, tasks, designee, offboarded>>

-----------------------------------------------------------------------------
(* Signing in with a password, session validation, signing out *)

\* The row verifyLocalCredentials reads before it compares the password.
SignInBegin(t, u) ==
  /\ mode # "authentik-primary"
  /\ Exists(u) /\ ~users[u].removed
  /\ Active(u) \/ users[u].by = u
  /\ users[u].pw > NoPassword
  /\ Remember(t, [op |-> "signin", user |-> u, ver |-> users[u].ver, pw |-> users[u].pw])
  /\ UNCHANGED <<users, sessions, tokens, designee, claimFile, offboarded>>

MayRevive_Any(u) == Active(u) \/ CanBump(u)  \* fault: whoever deactivated it
\* reviveAtSignIn: only its owner's own deactivation is lifted by a sign-in.
MayRevive(u) == Active(u) \/ (users[u].by = u /\ CanBump(u))
Revive(u) == IF Active(u) THEN users[u]
             ELSE [users[u] EXCEPT !.status = "active", !.by = NONE, !.ver = Bumped(u)]

SignInCurrent_Stale(task) == TRUE  \* fault: nothing is read again after the yield
SignInCurrent(task) == users[task.user].ver = task.ver /\ users[task.user].pw = task.pw

\* What a source goes by: the account's password, or the role its groups map to.
Held(u, source) == IF source = "local" THEN users[u].pw ELSE users[u].role

\* Let in, and on the way to createAuthSession.  shown is what the caller showed;
\* held is history: what the account had at that moment.
Admitted(u, source, proof, shown) ==
  [op |-> "open", user |-> u, source |-> source, proof |-> proof,
   shown |-> shown, held |-> Held(u, source)]

\* The password matched: in one transaction the row is read again and the
\* account revived.
SignInFinish(t) ==
  LET u == tasks[t].user IN
  /\ tasks[t].op = "signin"
  /\ IF SignInCurrent(tasks[t]) /\ MayRevive(u)
     THEN /\ users' = [users EXCEPT ![u] = Revive(u)]
          /\ tasks' = [tasks EXCEPT ![t] = Admitted(u, "local", NONE, tasks[t].pw)]
     ELSE UNCHANGED users /\ Forget(t)
  /\ UNCHANGED <<sessions, tokens, designee, claimFile, offboarded>>

\* The jwt callback writes the session's row, a commit of its own some awaits
\* later, and reads nothing but the account's version.  Of a caller whose account
\* has changed since, the history field shown keeps nothing.
OpenSession(t, s) ==
  LET task == tasks[t] IN
  /\ task.op = "open"
  /\ sessions[s] = NoSession
  /\ Forget(t)
  /\ sessions' = [sessions EXCEPT
       ![s] = [Minted(task.user, task.source, task.proof) EXCEPT
                 !.shown = IF Held(task.user, task.source) = task.held
                           THEN task.shown ELSE NONE]]
  /\ UNCHANGED <<users, tokens, designee, claimFile, offboarded>>

\* The clock passes the idle or the absolute bound of a session.
SessionFallsDue(s) ==
  /\ sessions[s].status = "active" /\ ~sessions[s].due
  /\ sessions' = [sessions EXCEPT ![s].due = TRUE]
  /\ UNCHANGED <<users, tokens, tasks, designee, claimFile, offboarded>>

Refused_Touched(s) == [sessions[s] EXCEPT !.due = FALSE]  \* fault: touched before it is judged
Refused(s) == [sessions[s] EXCEPT !.status = IF sessions[s].due THEN "expired" ELSE "revoked"]

\* A request validates its session: an unusable active row is marked for good.
\* (A usable one may have its idle bound pushed back, which due abstracts.)
ValidateAuthSession(s) ==
  /\ sessions[s].status = "active" /\ ~Usable(s)
  /\ sessions' = [sessions EXCEPT ![s] = Refused(s)]
  /\ UNCHANGED <<users, tokens, tasks, designee, claimFile, offboarded>>

RevokeCurrentSession(s) ==
  /\ Usable(s)
  /\ sessions' = Revoked({s})
  /\ UNCHANGED <<users, tokens, tasks, designee, claimFile, offboarded>>

RetireVersion_Kept(u) == users[u]  \* fault: only the rows are revoked
\* retireUserSessions: the version advances and the rows are revoked together.
RetireVersion(u) == [users[u] EXCEPT !.ver = Bumped(u)]

\* scripts/auth-revoke.ts
OperatorRevoke(u) ==
  /\ Exists(u) /\ CanBump(u)
  /\ users' = [users EXCEPT ![u] = RetireVersion(u)]
  /\ RevokeAll(u)
  /\ UNCHANGED <<tokens, tasks, designee, claimFile, offboarded>>

-----------------------------------------------------------------------------
(* Password reset links *)

LinkFallsDue(k) ==
  /\ tokens[k].status = "live" /\ ~tokens[k].due
  /\ tokens' = [tokens EXCEPT ![k].due = TRUE]
  /\ UNCHANGED <<users, sessions, tasks, designee, claimFile, offboarded>>

\* checkSelfServiceEligibility
MayRequest(u) ==
  Active(u) /\ ~users[u].removed /\ users[u].pw > NoPassword /\ designee # u

\* A self-service request that reaches the mail seam; every other outcome of
\* requestPasswordReset leaves the tables alone.
RequestPasswordReset(u, k) ==
  /\ mode # "authentik-primary"
  /\ MayRequest(u)
  /\ tokens[k] = NoToken
  /\ tokens' = Issued(u, k)
  /\ UNCHANGED <<users, sessions, tasks, designee, claimFile, offboarded>>

AdminIssuePasswordReset(s, u, k) ==
  /\ ActingAdmin(s)
  /\ Active(u) /\ designee # u /\ users[u].pw # Disabled
  /\ tokens[k] = NoToken /\ CanBump(u)
  /\ tokens' = Issued(u, k)
  /\ users' = [users EXCEPT ![u] = RetireVersion(u)]
  /\ RevokeAll(u)
  /\ UNCHANGED <<tasks, designee, claimFile, offboarded>>

CompleteResetBegin(t, k) ==
  /\ Redeemable(k)
  /\ Remember(t, [op |-> "redeem", token |-> k])
  /\ UNCHANGED <<users, sessions, tokens, designee, claimFile, offboarded>>

StillRedeemable_Active(k) ==  \* fault: the link is not read again after the yield
  designee # tokens[k].user /\ Active(tokens[k].user) /\ users[tokens[k].user].pw # Disabled
StillRedeemable(k) == MayRedeem(k)

\* The new hash is ready: link, designation and account are read again.
CompleteResetFinish(t) ==
  LET k == tasks[t].token  u == tokens[k].user IN
  /\ tasks[t].op = "redeem"
  /\ Forget(t)
  /\ IF StillRedeemable(k) /\ CanBump(u) /\ CanRehash
     THEN /\ tokens' = [Invalidated(u) EXCEPT ![k].status = "used"]
          /\ users' = [users EXCEPT ![u] = [RetireVersion(u) EXCEPT
                                              !.pw = NewPassword, !.must = FALSE]]
          /\ RevokeAll(u)
     ELSE UNCHANGED <<users, sessions, tokens>>
  /\ UNCHANGED <<designee, claimFile, offboarded>>

-----------------------------------------------------------------------------
(* Accounts created by an administrator, and the first sign-in *)

CreateTemporaryBegin(t, s) ==
  /\ ActingAdmin(s)
  /\ Remember(t, [op |-> "temporary", session |-> s])
  /\ UNCHANGED <<users, sessions, tokens, designee, claimFile, offboarded>>

\* createAccountWithTemporaryPassword checks its actor again when it inserts.
CreateTemporaryFinish(t, u, role) ==
  /\ tasks[t].op = "temporary"
  /\ Forget(t)
  /\ users' = IF ~Exists(u) /\ LiveAdmin(tasks[t].session) /\ CanRehash
              THEN [users EXCEPT ![u] = NewAccount(u, role, TRUE)] ELSE users
  /\ UNCHANGED <<sessions, tokens, designee, claimFile, offboarded>>

CreateUserBegin(t, s) ==
  /\ ActingAdmin(s)
  /\ Remember(t, [op |-> "create"])
  /\ UNCHANGED <<users, sessions, tokens, designee, claimFile, offboarded>>

\* createLocalUser inserts with the authority its caller had before the hash.
CreateUserFinish(t, u, role) ==
  /\ tasks[t].op = "create"
  /\ Forget(t)
  /\ users' = IF ~Exists(u) /\ CanRehash
              THEN [users EXCEPT ![u] = NewAccount(u, role, FALSE)] ELSE users
  /\ UNCHANGED <<sessions, tokens, designee, claimFile, offboarded>>

MandatoryChangeBegin(t, s) ==
  /\ Usable(s)
  /\ Remember(t, [op |-> "mandatory", session |-> s])
  /\ UNCHANGED <<users, sessions, tokens, designee, claimFile, offboarded>>

\* The other sessions of the account are revoked; the version stays, so the
\* session that made the change goes on (its history follows the new password).
MandatoryChangeFinish(t) ==
  LET s == tasks[t].session  u == Actor(s) IN
  /\ tasks[t].op = "mandatory"
  /\ Forget(t)
  /\ IF LiveActor(s) /\ users[u].must /\ CanRehash
     THEN /\ users' = [users EXCEPT ![u].pw = NewPassword, ![u].must = FALSE]
          /\ sessions' = [Revoked(SessionsOf(u) \ {s}) EXCEPT
               ![s].pw = NewPassword,
               ![s].shown = IF sessions[s].source = "local" THEN NewPassword ELSE @]
          /\ InvalidateAll(u)
     ELSE UNCHANGED <<users, sessions, tokens>>
  /\ UNCHANGED <<designee, claimFile, offboarded>>

-----------------------------------------------------------------------------
(* Role and lifecycle *)

\* changeAccountRole; an incompatible assignment may refuse it (Casefile).
ChangeAccountRole(s, u, role) ==
  /\ ActingAdmin(s)
  /\ Exists(u) /\ users[u].role # role /\ CanBump(u)
  /\ role # "admin" => KeepsDesignee(u) /\ KeepsAnAdmin(u)
  /\ users' = [users EXCEPT ![u] = [RetireVersion(u) EXCEPT !.role = role]]
  /\ RevokeAll(u)
  /\ UNCHANGED <<tokens, tasks, designee, claimFile, offboarded>>

Deactivated(u, by) == [users[u] EXCEPT !.status = "inactive", !.by = by, !.ver = Bumped(u)]

DeactivateOwnAccount(s) ==
  LET u == Actor(s) IN
  /\ Usable(s) /\ ~users[u].must
  /\ MayDeactivate(u) /\ CanBump(u)
  /\ users' = [users EXCEPT ![u] = Deactivated(u, u)]
  /\ InvalidateAll(u)
  /\ RevokeAll(u)
  /\ UNCHANGED <<tasks, designee, claimFile, offboarded>>

\* changeAccountLifecycle.  A removed account keeps its row, its email is freed.
Lifecycle(s, u, action) ==
  /\ ActingAdmin(s)
  /\ Exists(u) /\ ~users[u].removed /\ CanBump(u)
  /\ action = "reactivate" => ~Active(u)
  /\ action = "deactivate" => Active(u)
  /\ action # "reactivate" => MayDeactivate(u) /\ Actor(s) # u
  /\ users' = [users EXCEPT ![u] =
       CASE action = "reactivate" ->
              [@ EXCEPT !.status = "active", !.by = NONE, !.ver = Bumped(u)]
         [] action = "deactivate" -> Deactivated(u, Actor(s))
         [] action = "remove" ->
              [Deactivated(u, Actor(s)) EXCEPT !.removed = TRUE, !.pw = NoPassword,
                                               !.must = FALSE]]
  /\ InvalidateAll(u)
  /\ RevokeAll(u)
  /\ UNCHANGED <<tasks, designee, claimFile, offboarded>>

\* offboardLinkedUser deactivates without assertMayDeactivate: it can remove
\* the last administrator, but the trigger keeps the break-glass designee.
OffboardLinkedUser(u) ==
  /\ Exists(u) /\ KeepsDesignee(u) /\ CanBump(u)
  /\ users' = [users EXCEPT ![u] = Deactivated(u, NONE)]
  /\ RevokeAll(u)
  /\ offboarded' = TRUE
  /\ UNCHANGED <<tokens, tasks, designee, claimFile>>

-----------------------------------------------------------------------------
(* The break-glass designation *)

\* The administration surface only makes the first designation; the script
\* may point it elsewhere.
DesignateBreakGlassUser(u) ==
  /\ MayDesignate(u) /\ designee # u
  /\ designee' = u
  /\ UNCHANGED <<users, sessions, tokens, tasks, claimFile, offboarded>>

TransferBreakGlassDesignation(u) ==
  /\ designee # NONE /\ MayDesignate(u) /\ CanBump(designee)
  /\ users' = [users EXCEPT ![designee] = [RetireVersion(designee) EXCEPT !.pw = Disabled]]
  /\ RevokeAll(designee)
  /\ designee' = u
  /\ UNCHANGED <<tokens, tasks, claimFile, offboarded>>

-----------------------------------------------------------------------------
\* The process stops: requests in flight are lost, the tables are kept.
Restart ==
  /\ \E t \in Task : tasks[t] # Idle
  /\ tasks' = [t \in Task |-> Idle]
  /\ UNCHANGED <<users, sessions, tokens, designee, claimFile, offboarded>>

\* What the administration surface offers.
ByAdministrator(s) ==
  \/ \E u \in User, role \in Roles : ChangeAccountRole(s, u, role)
  \/ \E u \in User, action \in {"deactivate", "reactivate", "remove"} : Lifecycle(s, u, action)
  \/ \E u \in User, k \in Token : AdminIssuePasswordReset(s, u, k)
  \/ \E t \in Task : CreateTemporaryBegin(t, s) \/ CreateUserBegin(t, s)

\* First-run setup and the claim of a system nobody administers.
FirstRun ==
  \/ \E u \in User : CreateBootstrapAdmin(u)
  \/ EnsureAdminClaimToken
  \/ \E u \in User, crashed \in BOOLEAN : CreateRecoveryAdmin(u, crashed)

PasswordLinks ==
  \/ \E u \in User, k \in Token : RequestPasswordReset(u, k)
  \/ \E t \in Task, k \in Token : CompleteResetBegin(t, k)

OwnAccount(s) ==
  \/ \E t \in Task : MandatoryChangeBegin(t, s)
  \/ DeactivateOwnAccount(s)

\* The hash is ready: the rest of a request.
AfterHash(t) ==
  \/ SignInFinish(t)
  \/ \E s \in Session : OpenSession(t, s)
  \/ CompleteResetFinish(t)
  \/ \E u \in User, role \in Roles : CreateTemporaryFinish(t, u, role) \/ CreateUserFinish(t, u, role)
  \/ MandatoryChangeFinish(t)

SessionStep(s) ==
  SessionFallsDue(s) \/ ValidateAuthSession(s) \/ RevokeCurrentSession(s)

\* By script or by a scheduled import rather than by a signed-in account.
ByOperator(u) ==
  \/ OperatorRevoke(u)
  \/ OffboardLinkedUser(u)
  \/ DesignateBreakGlassUser(u)
  \/ TransferBreakGlassDesignation(u)

AccountNext ==
  \/ FirstRun
  \/ \E t \in Task, u \in User : SignInBegin(t, u)
  \/ \E t \in Task : AfterHash(t)
  \/ \E s \in Session : SessionStep(s) \/ ByAdministrator(s) \/ OwnAccount(s)
  \/ PasswordLinks
  \/ \E k \in Token : LinkFallsDue(k)
  \/ \E u \in User : ByOperator(u)

directoryVars == <<mode, accountVars>>
DirectoryNext == (AccountNext \/ Restart) /\ UNCHANGED mode
DirectorySpec == DirectoryInit /\ [][DirectoryNext]_directoryVars

-----------------------------------------------------------------------------
(* Properties *)

\* A session the registry still accepts has lived through no change of its
\* account's role or, a password session, password: both are what they were when
\* its row was written.  The password or the role its caller was let in on is the
\* account's present one too, except where the account changed between that check
\* and the row (shown is NONE then): the code rereads the password after the hash
\* and the version at the row, and nothing tells it of a change in between.
UsableSessionsAreCurrent ==
  \A s \in Session : Usable(s) =>
    LET account == users[Actor(s)] IN
    /\ sessions[s].role = account.role
    /\ sessions[s].source = "local" =>
         sessions[s].pw = account.pw /\ sessions[s].shown \in {account.pw, NONE}
    /\ sessions[s].source = "authentik" => sessions[s].shown \in {account.role, NONE}

\* Once refused, a session is refused for good: no reactivation, sign-in or
\* later version of the account makes it usable again.
RefusedForGood ==
  [][\A s \in Session : sessions[s] # NoSession /\ ~Usable(s) => ~Usable(s)']_directoryVars

\* A reset link that is over stays as it ended, also when the request that
\* redeems it is waiting for its hash; of an account's links one is live, and
\* one that would be accepted was issued for the password the account has now.
ResetLinksAreCurrent ==
  [][/\ \A k \in Token : tokens[k].status \in {"dead", "used"} => tokens'[k] = tokens[k]
     /\ \A k \in Token : MayRedeem(k)' => tokens'[k].pw = users'[tokens'[k].user].pw
     /\ \A j, k \in Token : tokens'[j].status = "live" /\ tokens'[k].status = "live"
                            /\ tokens'[j].user = tokens'[k].user => j = k]_directoryVars

\* Administrators cannot lock themselves out: while nobody is offboarded by an
\* operator, an instance with accounts has an active administrator, and the
\* break-glass designee is one.
AnAdminRemains ==
  /\ offboarded \/ ~Unmanageable
  /\ designee # NONE => designee \in ActiveAdmins

\* A removed account never comes back, and one that somebody other than its
\* owner deactivated comes back only by the hand of another administrator and
\* with no session open: no sign-in, local or institutional, in flight or
\* later, lifts the decision.
DeactivationSticks ==
  [][\A u \in User : Exists(u) /\ ~Active(u) /\ Active(u)' =>
       /\ ~users[u].removed
       /\ \/ users[u].by = u
          \/ /\ \E s \in Session : ActingAdmin(s) /\ Actor(s) # u
             /\ \A s \in SessionsOf(u)' : ~Usable(s)']_directoryVars
=============================================================================

---------------------------- MODULE Accounts_proofs ----------------------------
(***************************************************************************)
(* Proofs about the accounts, their sessions and links, the provider's       *)
(* identities and emergency access together, for any number of accounts,     *)
(* sessions, links, codes and requests in flight.                            *)
(***************************************************************************)
EXTENDS Emergency, FiniteSetTheorems, TLAPS

-----------------------------------------------------------------------------
(* The rows *)

Passwords == Disabled .. MaxPassword
Account == [status : {"absent", "active", "inactive"}, role : Roles, by : User \cup {NONE},
            removed : BOOLEAN, pw : Passwords, must : BOOLEAN, ver : Nat]
Proofs == Subject \cup Ceremony \cup {NONE}
Shown == Passwords \cup Roles \cup {NONE}
SessionRow == [status : {"none", "active", "revoked", "expired"}, user : User \cup {NONE},
               source : Sources, ver : Nat, due : BOOLEAN, role : Roles, pw : Passwords,
               proof : Proofs, shown : Shown]
Link == [status : {"none", "live", "dead", "used"}, user : User \cup {NONE}, due : BOOLEAN,
         pw : Passwords]
TaskRow ==
  {Idle} \cup [op : {"signin"}, user : User, ver : Nat, pw : Passwords]
         \cup [op : {"open"}, user : User, source : {"local", "authentik"}, proof : Proofs,
               shown : Shown, held : Shown]
         \cup [op : {"redeem"}, token : Token]
         \cup [op : {"temporary", "mandatory"}, session : Session]
         \cup [op : {"create"}]
         \cup [op : {"prove"}, user : User, right : BOOLEAN, code : Code \cup {NONE}]
         \cup [op : {"assert"}, challenge : Challenge]
         \cup [op : {"emergency", "activate"}, ceremony : Ceremony, user : User]
Identity == [status : {"none", "active", "retired"}, user : User \cup {NONE}]
ChallengeRow == [status : {"none", "open", "spent"}, user : User \cup {NONE},
                 kind : {"registration", "authentication"}]
CodeRow == [status : {"none", "live", "rotated", "used"}, user : User \cup {NONE}]
CeremonyRow == [status : {"none", "live", "lapsed", "consumed"}, user : User \cup {NONE},
                proof : Code \cup Challenge \cup {NONE}]

AccountType ==
  /\ users \in [User -> Account]
  /\ sessions \in [Session -> SessionRow]
  /\ tokens \in [Token -> Link]
  /\ tasks \in [Task -> TaskRow]
  /\ designee \in User \cup {NONE}
  /\ offboarded \in BOOLEAN

IdentityType == identities \in [Subject -> Identity]

ProofType ==
  /\ challenges \in [Challenge -> ChallengeRow]
  /\ codes \in [Code -> CodeRow]
  /\ ceremonies \in [Ceremony -> CeremonyRow]

RowType == AccountType /\ IdentityType /\ ProofType

\* Requests that name the account they are about to let in.
Personal == {"signin", "open", "emergency", "activate"}

\* Rows that are in use belong to accounts that exist, and an account is made on
\* request only where there is one already.
Somebody == \E u \in User : Exists(u)
References ==
  /\ \A u \in User : ~Exists(u) => users[u] = NoUser
  /\ \A s \in Session : sessions[s].status # "none" =>
       sessions[s].user \in User /\ Exists(sessions[s].user)
  /\ \A k \in Token : tokens[k].status # "none" => tokens[k].user \in User /\ Exists(tokens[k].user)
  /\ \A x \in Subject : identities[x].status # "none" =>
       identities[x].user \in User /\ Exists(identities[x].user)
  /\ \A x \in Subject : identities[x].status = "none" => identities[x] = NoLink
  /\ \A t \in Task : tasks[t].op \in Personal => Exists(tasks[t].user)
  /\ \A t \in Task : tasks[t].op = "open" => tasks[t].shown = tasks[t].held
  /\ \A t \in Task : tasks[t].op \in {"create", "temporary"} => Somebody
  /\ designee # NONE => Exists(designee)

\* A new password is a generation of the model.
LEMMA NewPasswordType == CanRehash => NewPassword \in Passwords
<1> SUFFICES ASSUME CanRehash PROVE NewPassword \in Passwords
  OBVIOUS
<1>1. NewPassword \in 1 .. MaxPassword
  BY DEF CanRehash, NewPassword
<1> QED
  BY <1>1, AccountsAssumption DEF Passwords, Disabled

\* The rows that revocation, deactivation and a sign-in write are accounts.
LEMMA RetiredRow ==
  ASSUME AccountType, NEW u \in User
  PROVE  /\ RetireVersion(u) \in Account
         /\ \A v \in User \cup {NONE} : Deactivated(u, v) \in Account
         /\ Revive(u) \in Account
<1>1. users[u] \in Account
  BY DEF AccountType
<1>2. Bumped(u) \in Nat
  BY <1>1 DEF Account, Bumped
<1>3. \A r \in Account, n \in Nat : [r EXCEPT !.ver = n] \in Account
  BY DEF Account
<1>4. \A r \in Account, v \in User \cup {NONE}, n \in Nat :
        [r EXCEPT !.status = "inactive", !.by = v, !.ver = n] \in Account
  BY DEF Account
<1>5. \A r \in Account, n \in Nat :
        [r EXCEPT !.status = "active", !.by = NONE, !.ver = n] \in Account
  BY DEF Account
<1> QED
  BY <1>1, <1>2, <1>3, <1>4, <1>5 DEF RetireVersion, Deactivated, Revive

\* So is the row of a new account.
LEMMA FreshRow ==
  ASSUME AccountType, CanRehash, NEW u \in User, NEW role \in Roles, NEW must \in BOOLEAN
  PROVE  NewAccount(u, role, must) \in Account
BY NewPasswordType, AccountsAssumption DEF NewAccount, NoUser, Account, Roles

\* Revoking sessions changes the status of the active ones and nothing else.
LEMMA RevokedRows ==
  ASSUME AccountType, NEW S
  PROVE  /\ Revoked(S) \in [Session -> SessionRow]
         /\ \A s \in Session :
              /\ Revoked(S)[s].status = IF s \in S /\ sessions[s].status = "active" THEN "revoked"
                                        ELSE sessions[s].status
              /\ Revoked(S)[s].user = sessions[s].user /\ Revoked(S)[s].ver = sessions[s].ver
              /\ Revoked(S)[s].role = sessions[s].role /\ Revoked(S)[s].pw = sessions[s].pw
              /\ Revoked(S)[s].source = sessions[s].source /\ Revoked(S)[s].due = sessions[s].due
              /\ Revoked(S)[s].proof = sessions[s].proof
              /\ Revoked(S)[s].shown = sessions[s].shown
<1>1. \A s \in Session : [sessions[s] EXCEPT !.status = "revoked"] \in SessionRow
  BY DEF AccountType, SessionRow
<1> QED
  BY <1>1 DEF AccountType, SessionRow, Revoked

\* Invalidating the links of an account kills its live ones and nothing else.
LEMMA InvalidatedRows ==
  ASSUME AccountType, NEW u
  PROVE  /\ Invalidated(u) \in [Token -> Link]
         /\ \A k \in Token :
              /\ Invalidated(u)[k].status = IF tokens[k].status = "live" /\ tokens[k].user = u
                                            THEN "dead" ELSE tokens[k].status
              /\ Invalidated(u)[k].user = tokens[k].user /\ Invalidated(u)[k].pw = tokens[k].pw
              /\ Invalidated(u)[k].due = tokens[k].due
<1>1. \A k \in Token : [tokens[k] EXCEPT !.status = "dead"] \in Link
  BY DEF AccountType, Link
<1> QED
  BY <1>1 DEF AccountType, Link, Invalidated

\* What a request in flight remembers, by its operation.
LEMMA TaskFields ==
  ASSUME AccountType, NEW t \in Task
  PROVE  /\ tasks[t].op \in Personal => tasks[t].user \in User
         /\ tasks[t].op = "signin" => tasks[t].pw \in Passwords
         /\ tasks[t].op = "open" => /\ tasks[t].source \in {"local", "authentik"}
                                    /\ tasks[t].proof \in Proofs /\ tasks[t].shown \in Shown
         /\ tasks[t].op \in {"emergency", "activate"} => tasks[t].ceremony \in Ceremony
         /\ tasks[t].op = "redeem" => tasks[t].token \in Token
         /\ tasks[t].op \in {"temporary", "mandatory"} => tasks[t].session \in Session
         /\ tasks[t].op = "prove" => tasks[t].user \in User /\ tasks[t].code \in Code \cup {NONE}
         /\ tasks[t].op = "assert" => tasks[t].challenge \in Challenge
         /\ Idle.op = "idle"
BY DEF AccountType, TaskRow, Idle, Personal

-----------------------------------------------------------------------------
(* What the steps do *)

Others(u) == \A v \in User \ {u} : users'[v] = users[v]

\* A row of its own, so that nothing refers to it; the first is an administrator.
Made(u) ==
  /\ ~Exists(u) /\ Others(u)
  /\ users'[u].status = "active" /\ ~users'[u].removed
  /\ users'[u].role = "admin" \/ Somebody
  /\ UNCHANGED <<sessions, tokens, designee, offboarded>>

\* Somebody is let in, and the account is active again.
Revived(u) ==
  /\ Exists(u) /\ MayRevive(u) /\ Others(u)
  /\ users'[u] = Revive(u)
  /\ UNCHANGED <<sessions, tokens, designee, offboarded>>

\* A session opened on what the account is at that moment, for whom was let in.
Opened(u, s) ==
  /\ Exists(u)
  /\ sessions[s] = NoSession
  /\ \A r \in Session \ {s} : sessions'[r] = sessions[r]
  /\ sessions'[s].status = "active" /\ sessions'[s].user = u
  /\ sessions'[s].ver = users[u].ver /\ sessions'[s].role = users[u].role
  /\ sessions'[s].source = "local" =>
       sessions'[s].pw = users[u].pw /\ sessions'[s].shown \in {users[u].pw, NONE}
  /\ sessions'[s].source = "authentik" => sessions'[s].shown \in {users[u].role, NONE}
  /\ sessions'[s].source = "break_glass" =>
       \E t \in Task : /\ tasks[t].op = "activate" /\ sessions'[s].proof = tasks[t].ceremony
                       /\ Forget(t) /\ UNCHANGED ceremonies
  /\ UNCHANGED <<users, tokens, designee, offboarded>>

\* A removed account is out of its owner's reach.
Barred(a, u) == a.removed => a.status = "inactive" /\ a.by # u

\* The links of an account whose row changes.
LinksFollow(u) ==
  \/ tokens' = tokens /\ users'[u].pw \in {users[u].pw, Disabled}
  \/ tokens' = Invalidated(u)
  \/ \E k \in Token : /\ tokens[k] = NoToken
                      /\ tokens' = Issued(u, k) /\ users'[u].pw = users[u].pw
  \/ \E k \in Token : /\ tokens[k].user = u /\ tokens[k].status = "live"
                      /\ tokens' = [Invalidated(u) EXCEPT ![k].status = "used"]

\* The row advances its version and every session of the account is revoked.
Retired(u) ==
  /\ Exists(u) /\ Others(u)
  /\ users'[u].status # "absent" /\ users'[u].ver = users[u].ver + 1
  /\ sessions' = Revoked(SessionsOf(u))
  /\ LinksFollow(u)
  /\ Barred(users[u], u) => Barred(users'[u], u)
  /\ ~Active(u) /\ users'[u].status = "active" =>
       ~users[u].removed /\ \E s \in Session : ActingAdmin(s) /\ Actor(s) # u
  /\ u \in ActiveAdmins /\ ~(users'[u].status = "active" /\ users'[u].role = "admin") =>
       designee # u /\ designee' = designee /\ (offboarded' \/ ActiveAdmins \ {u} # {})
  /\ designee' \in ActiveAdmins \cup {designee}
  /\ offboarded => offboarded'

\* The password alone, by a session that stays and from now on stands for it.
Rehashed(u, s) ==
  /\ Usable(s) /\ Actor(s) = u /\ Exists(u) /\ Others(u)
  /\ users'[u] = [users[u] EXCEPT !.pw = users'[u].pw, !.must = FALSE]
  /\ sessions' = [Revoked(SessionsOf(u) \ {s}) EXCEPT
       ![s].pw = users'[u].pw,
       ![s].shown = IF sessions[s].source = "local" THEN users'[u].pw ELSE @]
  /\ tokens' = Invalidated(u)
  /\ UNCHANGED <<designee, offboarded>>

\* Sessions that were accepted may no longer be.
Weaker(s) ==
  \/ sessions'[s] = sessions[s]
  \/ /\ sessions[s].status = "active"
     /\ sessions'[s].status \in {"active", "revoked", "expired"}
     /\ sessions[s].due => sessions'[s].due
     /\ sessions'[s].user = sessions[s].user /\ sessions'[s].ver = sessions[s].ver
     /\ sessions'[s].role = sessions[s].role /\ sessions'[s].pw = sessions[s].pw
     /\ sessions'[s].source = sessions[s].source /\ sessions'[s].proof = sessions[s].proof
     /\ sessions'[s].shown = sessions[s].shown
Weakened ==
  /\ \A s \in Session : Weaker(s)
  /\ UNCHANGED <<users, tokens, designee, offboarded>>

LinkIssued(u, k) ==
  /\ Exists(u) /\ tokens[k] = NoToken
  /\ tokens' = Issued(u, k)
  /\ UNCHANGED <<users, sessions, designee, offboarded>>

LinkLapsed(k) ==
  /\ tokens[k].status = "live"
  /\ tokens' = [tokens EXCEPT ![k].due = TRUE]
  /\ UNCHANGED <<users, sessions, designee, offboarded>>

Designated(u) ==
  /\ u \in ActiveAdmins /\ designee' = u
  /\ UNCHANGED <<users, sessions, tokens, offboarded>>

Quiet == UNCHANGED <<users, sessions, tokens, designee, offboarded>>

Typed ==
  /\ users' \in [User -> Account]
  /\ sessions' \in [Session -> SessionRow]
  /\ tokens' \in [Token -> Link]
  /\ designee' \in User \cup {NONE}
  /\ offboarded' \in BOOLEAN

\* A request starts, ends or goes on.
TasksGoOn ==
  \A t \in Task :
    \/ tasks'[t] = tasks[t]
    \/ tasks'[t] = Idle
    \/ /\ tasks'[t] \in TaskRow
       /\ tasks'[t].op \in Personal => Exists(tasks'[t].user)
       /\ tasks'[t].op = "open" => tasks'[t].shown = tasks'[t].held
       /\ tasks'[t].op \in {"create", "temporary"} => Somebody
       /\ tasks'[t].op = "activate" =>
            /\ tasks[t].op = "emergency" /\ tasks[t].ceremony = tasks'[t].ceremony
            /\ ceremonies[tasks[t].ceremony].status = "live"
            /\ ceremonies' = [ceremonies EXCEPT ![tasks[t].ceremony].status = "consumed"]
            /\ \A r \in Task \ {t} : tasks'[r] = tasks[r]
       /\ tasks'[t].op = "assert" =>
            /\ challenges[tasks'[t].challenge].status = "open"
            /\ challenges' = [challenges EXCEPT ![tasks'[t].challenge].status = "spent"]
            /\ \A r \in Task \ {t} : tasks'[r] = tasks[r]

Effect ==
  \/ Quiet \/ Weakened
  \/ \E u \in User : Made(u) \/ Retired(u) \/ Designated(u) \/ Revived(u)
  \/ \E u \in User, s \in Session : Opened(u, s) \/ Rehashed(u, s)
  \/ \E u \in User, k \in Token : LinkIssued(u, k)
  \/ \E k \in Token : LinkLapsed(k)

\* Ending, starting and leaving alone a request.
LEMMA Forgetting ==
  ASSUME AccountType, NEW t \in Task, Forget(t)
  PROVE  TasksGoOn /\ tasks' \in [Task -> TaskRow]
BY DEF AccountType, Forget, TasksGoOn, TaskRow

LEMMA Remembering ==
  ASSUME AccountType, NEW t \in Task, NEW r \in TaskRow, Remember(t, r),
         r.op \in Personal => Exists(r.user),
         r.op = "open" => r.shown = r.held,
         r.op \in {"create", "temporary"} => Somebody,
         r.op \notin {"assert", "activate"}
  PROVE  TasksGoOn /\ tasks' \in [Task -> TaskRow]
BY DEF AccountType, Remember, TasksGoOn

LEMMA StillThere ==
  ASSUME AccountType, UNCHANGED tasks
  PROVE  TasksGoOn /\ tasks' \in [Task -> TaskRow]
BY DEF AccountType, TasksGoOn

\* A step that leaves the tables alone.
LEMMA Unchanged ==
  ASSUME AccountType, Quiet
  PROVE  Effect /\ Typed
BY DEF AccountType, Quiet, Effect, Typed

\* What an active session stands for.
LEMMA ActorExists ==
  ASSUME References, NEW s \in Session, Usable(s) \/ ActingAdmin(s)
  PROVE  /\ Usable(s) /\ Actor(s) \in User /\ Exists(Actor(s)) /\ Active(Actor(s)) /\ Somebody
         /\ ActingAdmin(s) => Actor(s) \in ActiveAdmins
BY DEF References, Usable, ActingAdmin, LiveAdmin, LiveActor, Actor, Active, Exists, Somebody,
       ActiveAdmins

-----------------------------------------------------------------------------
(* Each operation has one of these effects *)

Right == Effect /\ Typed /\ TasksGoOn /\ tasks' \in [Task -> TaskRow]

\* Inserting an account.
LEMMA MakingRight ==
  ASSUME AccountType, NEW u \in User, NEW role \in Roles, NEW must \in BOOLEAN, CanRehash,
         ~Exists(u), role = "admin" \/ Somebody,
         users' = [users EXCEPT ![u] = NewAccount(u, role, must)],
         UNCHANGED <<sessions, tokens, designee, offboarded>>
  PROVE  Effect /\ Typed
<1>1. NewAccount(u, role, must) \in Account
  BY FreshRow
<1>2. users' \in [User -> Account] /\ users'[u] = NewAccount(u, role, must)
  BY <1>1 DEF AccountType
<1>3. Made(u)
  BY <1>2 DEF Made, Others, NewAccount, NoUser, AccountType
<1> QED
  BY <1>2, <1>3 DEF Effect, Typed, AccountType

\* A step of the requests only.
LEMMA QuietRight ==
  ASSUME AccountType, Quiet, TasksGoOn, tasks' \in [Task -> TaskRow]
  PROVE  Right
BY Unchanged DEF Right

LEMMA FirstRunRight ==
  ASSUME RowType, References, FirstRun
  PROVE  Right
<1>1. TasksGoOn /\ tasks' \in [Task -> TaskRow]
  BY StillThere DEF RowType, FirstRun, CreateBootstrapAdmin, EnsureAdminClaimToken,
     CreateRecoveryAdmin
<1>2. ASSUME NEW u \in User, CreateBootstrapAdmin(u) PROVE Right
  <2>1. ~Exists(u) /\ \A v \in User : users[v] = NoUser
    BY <1>2 DEF CreateBootstrapAdmin, References
  <2>2. IsNewer(1)
    BY <2>1 DEF IsNewer, NoUser, NoPassword
  <2>3. CanRehash
    BY <2>2, AccountsAssumption DEF CanRehash
  <2> QED
    BY <1>1, <1>2, <2>1, <2>3, MakingRight DEF CreateBootstrapAdmin, RowType, Roles, Right
<1>3. ASSUME EnsureAdminClaimToken PROVE Right
  BY <1>1, <1>3, QuietRight DEF EnsureAdminClaimToken, Quiet, RowType
<1>4. ASSUME NEW u \in User, NEW crashed \in BOOLEAN, CreateRecoveryAdmin(u, crashed) PROVE Right
  <2>1. CASE crashed
    BY <1>1, <1>4, <2>1, QuietRight DEF CreateRecoveryAdmin, Quiet, RowType
  <2>2. CASE ~crashed
    <3>1. Somebody
      BY <1>4 DEF CreateRecoveryAdmin, ClaimOpen, Unmanageable, Somebody
    <3> QED
      BY <1>1, <1>4, <2>2, <3>1, MakingRight DEF CreateRecoveryAdmin, RowType, Roles, Right
  <2> QED
    BY <2>1, <2>2
<1> QED
  BY <1>2, <1>3, <1>4 DEF FirstRun

LEMMA SignInBeginRight ==
  ASSUME RowType, References, NEW t \in Task, NEW u \in User, SignInBegin(t, u)
  PROVE  Right
<1> DEFINE r == [op |-> "signin", user |-> u, ver |-> users[u].ver, pw |-> users[u].pw]
<1>1. users[u] \in Account
  BY DEF RowType, AccountType
<1>2. r \in TaskRow
  BY <1>1 DEF TaskRow, Account
<1>3. Remember(t, r) /\ Exists(u) /\ r.op = "signin" /\ r.user = u
  BY DEF SignInBegin
<1>4. TasksGoOn /\ tasks' \in [Task -> TaskRow]
  BY <1>2, <1>3, Remembering DEF RowType
<1> QED
  BY <1>4, QuietRight DEF SignInBegin, Quiet, RowType

\* Letting somebody in revives the account.
LEMMA RevivedRow ==
  ASSUME AccountType, NEW u \in User, MayRevive(u), Exists(u),
         users' = [users EXCEPT ![u] = Revive(u)],
         UNCHANGED <<sessions, tokens, designee, offboarded>>
  PROVE  Effect /\ Typed
<1>1. Revive(u) \in Account
  BY RetiredRow
<1>2. users' \in [User -> Account] /\ users'[u] = Revive(u) /\ Others(u)
  BY <1>1 DEF AccountType, Others
<1>3. Revived(u)
  BY <1>2 DEF Revived
<1> QED
  BY <1>2, <1>3 DEF Effect, Typed, AccountType

\* What is remembered of somebody let in.
LEMMA AdmittedRow ==
  ASSUME AccountType, NEW u \in User, NEW source \in {"local", "authentik"}, NEW proof \in Proofs,
         NEW shown, shown = Held(u, source)
  PROVE  LET r == Admitted(u, source, proof, shown)
         IN  r \in TaskRow /\ r.op = "open" /\ r.user = u /\ r.shown = r.held
<1>1. users[u] \in Account
  BY DEF AccountType
<1>2. shown \in Shown
  BY <1>1 DEF Held, Shown, Account
<1> QED
  BY <1>2 DEF Admitted, TaskRow

\* A session opened for an account as it is.
LEMMA OpenedRow ==
  ASSUME AccountType, NEW u \in User, Exists(u), NEW s \in Session, NEW row \in SessionRow,
         sessions[s] = NoSession,
         sessions' = [sessions EXCEPT ![s] = row],
         row.status = "active", row.user = u, row.ver = users[u].ver, row.role = users[u].role,
         row.source = "local" => row.pw = users[u].pw /\ row.shown \in {users[u].pw, NONE},
         row.source = "authentik" => row.shown \in {users[u].role, NONE},
         row.source = "break_glass" =>
           \E t \in Task : /\ tasks[t].op = "activate" /\ row.proof = tasks[t].ceremony
                           /\ Forget(t) /\ UNCHANGED ceremonies,
         UNCHANGED <<users, tokens, designee, offboarded>>
  PROVE  Effect /\ Typed
<1>1. sessions' \in [Session -> SessionRow] /\ sessions'[s] = row
      /\ \A r \in Session \ {s} : sessions'[r] = sessions[r]
  BY DEF AccountType
<1>2. Opened(u, s)
  BY <1>1 DEF Opened
<1> QED
  BY <1>1, <1>2 DEF Effect, Typed, AccountType

\* createAuthSession writes a session row.
LEMMA MintedRow ==
  ASSUME AccountType, NEW u \in User, NEW source \in Sources, NEW proof \in Proofs
  PROVE  /\ \A shown \in Shown :
              LET row == [Minted(u, source, proof) EXCEPT !.shown = shown]
              IN  /\ row \in SessionRow /\ row.status = "active" /\ row.user = u
                  /\ row.ver = users[u].ver /\ row.role = users[u].role /\ row.pw = users[u].pw
                  /\ row.source = source /\ row.proof = proof /\ row.shown = shown
         /\ Minted(u, source, proof) = [Minted(u, source, proof) EXCEPT !.shown = NONE]
<1>1. users[u] \in Account
  BY DEF AccountType
<1> QED
  <2> DEFINE base == Minted(u, source, proof)
  <2>1. /\ base \in SessionRow /\ base.status = "active" /\ base.user = u
        /\ base.ver = users[u].ver /\ base.role = users[u].role /\ base.pw = users[u].pw
        /\ base.source = source /\ base.proof = proof /\ base.shown = NONE
    BY <1>1 DEF Minted, SessionRow, Account, Shown
  <2> HIDE DEF base
  <2>2. \A shown \in Shown : [base EXCEPT !.shown = shown] \in SessionRow
    BY <2>1 DEF SessionRow
  <2>3. \A shown : LET row == [base EXCEPT !.shown = shown]
                   IN  /\ row.status = base.status /\ row.user = base.user
                       /\ row.ver = base.ver /\ row.role = base.role /\ row.pw = base.pw
                       /\ row.source = base.source /\ row.proof = base.proof
                       /\ row.shown = shown
    BY <2>1 DEF SessionRow
  <2>4. base = [base EXCEPT !.shown = NONE]
    BY <2>1 DEF SessionRow
  <2> QED
    BY <2>1, <2>2, <2>3, <2>4 DEF base

LEMMA SignInFinishRight ==
  ASSUME RowType, References, NEW t \in Task, SignInFinish(t)
  PROVE  Right
<1> USE DEF RowType
<1> DEFINE u == tasks[t].user
           r == Admitted(u, "local", NONE, tasks[t].pw)
<1>1. tasks[t].op = "signin" /\ u \in User /\ Exists(u)
  BY TaskFields DEF SignInFinish, References, Personal
<1>2. CASE SignInCurrent(tasks[t]) /\ MayRevive(u)
  <2>1. users' = [users EXCEPT ![u] = Revive(u)] /\ tasks' = [tasks EXCEPT ![t] = r]
        /\ UNCHANGED <<sessions, tokens, designee, offboarded>>
    BY <1>2 DEF SignInFinish
  <2>2. tasks[t].pw = Held(u, "local")
    BY <1>2 DEF SignInCurrent, Held
  <2>3. r \in TaskRow /\ r.op = "open" /\ r.user = u /\ r.shown = r.held
    BY <1>1, <2>2, AdmittedRow DEF Proofs
  <2> HIDE DEF r
  <2>4. TasksGoOn /\ tasks' \in [Task -> TaskRow]
    BY <1>1, <2>1, <2>3 DEF AccountType, TasksGoOn
  <2>5. Effect /\ Typed
    BY <1>1, <1>2, <2>1, RevivedRow
  <2> QED
    BY <2>4, <2>5 DEF Right
<1>3. CASE ~(SignInCurrent(tasks[t]) /\ MayRevive(u))
  <2>1. Forget(t) /\ Quiet
    BY <1>3 DEF SignInFinish, Quiet
  <2> QED
    BY <2>1, Forgetting, QuietRight
<1> QED
  BY <1>2, <1>3

LEMMA OpenSessionRight ==
  ASSUME RowType, References, NEW t \in Task, NEW s \in Session, OpenSession(t, s)
  PROVE  Right
<1> USE DEF RowType
<1> DEFINE u == tasks[t].user
           source == tasks[t].source
           seen == IF Held(u, source) = tasks[t].held THEN tasks[t].shown ELSE NONE
           row == [Minted(u, source, tasks[t].proof) EXCEPT !.shown = seen]
<1>1. /\ tasks[t].op = "open" /\ u \in User /\ Exists(u) /\ source \in {"local", "authentik"}
      /\ tasks[t].proof \in Proofs /\ tasks[t].shown \in Shown /\ tasks[t].shown = tasks[t].held
  BY TaskFields DEF OpenSession, References, Personal
<1>2. seen \in Shown /\ seen \in {Held(u, source), NONE}
  BY <1>1 DEF Shown
<1>3. sessions[s] = NoSession /\ sessions' = [sessions EXCEPT ![s] = row]
      /\ UNCHANGED <<users, tokens, designee, offboarded>>
  BY DEF OpenSession
<1>4. /\ row \in SessionRow /\ row.status = "active" /\ row.user = u
      /\ row.ver = users[u].ver /\ row.role = users[u].role /\ row.pw = users[u].pw
      /\ row.source = source /\ row.shown = seen
  BY <1>1, <1>2, MintedRow DEF Sources
<1> HIDE DEF row, seen
<1>5. /\ row.source = "local" => row.pw = users[u].pw /\ row.shown \in {users[u].pw, NONE}
      /\ row.source = "authentik" => row.shown \in {users[u].role, NONE}
      /\ row.source # "break_glass"
  BY <1>1, <1>2, <1>4 DEF Held
<1>6. Effect /\ Typed
  BY <1>1, <1>3, <1>4, <1>5, OpenedRow
<1> QED
  BY <1>6, Forgetting DEF OpenSession, Right

\* Revoking, expiring and ageing sessions.
LEMMA WeakenedRight ==
  ASSUME AccountType, sessions' \in [Session -> SessionRow], Weakened, UNCHANGED tasks
  PROVE  Right
BY StillThere DEF AccountType, Weakened, Effect, Typed, Right

\* Revocation weakens sessions.
LEMMA RevokedWeaker ==
  ASSUME AccountType, NEW S
  PROVE  \A s \in Session : sessions' = Revoked(S) => Weaker(s)
<1> SUFFICES ASSUME NEW s \in Session, sessions' = Revoked(S) PROVE Weaker(s)
  OBVIOUS
<1>1. CASE s \in S /\ sessions[s].status = "active"
  BY <1>1, RevokedRows DEF Weaker
<1>2. CASE ~(s \in S /\ sessions[s].status = "active")
  BY <1>2 DEF Weaker, Revoked
<1> QED
  BY <1>1, <1>2

LEMMA RevokingRight ==
  ASSUME AccountType, NEW S, sessions' = Revoked(S), UNCHANGED tasks,
         UNCHANGED <<users, tokens, designee, offboarded>>
  PROVE  Right
<1>1. sessions' \in [Session -> SessionRow]
  BY RevokedRows
<1>2. Weakened
  BY RevokedWeaker DEF Weakened
<1> QED
  BY <1>1, <1>2, WeakenedRight

LEMMA SessionStepRight ==
  ASSUME RowType, References, NEW s \in Session, SessionStep(s)
  PROVE  Right
<1> USE DEF RowType
<1>1. CASE SessionFallsDue(s)
  <2>1. [sessions[s] EXCEPT !.due = TRUE] \in SessionRow
    BY DEF AccountType, SessionRow
  <2>2. sessions' = [sessions EXCEPT ![s] = [sessions[s] EXCEPT !.due = TRUE]]
        /\ sessions[s].status = "active"
    BY <1>1 DEF SessionFallsDue
  <2>3. sessions' \in [Session -> SessionRow]
    BY <2>1, <2>2 DEF AccountType
  <2>4. sessions'[s] = [sessions[s] EXCEPT !.due = TRUE]
        /\ \A r \in Session \ {s} : sessions'[r] = sessions[r]
    BY <2>2 DEF AccountType
  <2>5. sessions[s] \in SessionRow
    BY DEF AccountType
  <2>6. Weakened
    BY <1>1, <2>2, <2>4, <2>5 DEF Weakened, Weaker, SessionFallsDue, SessionRow
  <2> QED
    BY <1>1, <2>3, <2>6, WeakenedRight DEF SessionFallsDue
<1>2. CASE ValidateAuthSession(s)
  <2>1. Refused(s) \in SessionRow
    BY DEF AccountType, SessionRow, Refused
  <2>2. sessions' = [sessions EXCEPT ![s] = Refused(s)] /\ sessions[s].status = "active"
    BY <1>2 DEF ValidateAuthSession
  <2>3. sessions' \in [Session -> SessionRow]
    BY <2>1, <2>2 DEF AccountType
  <2>4. sessions'[s] = Refused(s) /\ \A r \in Session \ {s} : sessions'[r] = sessions[r]
    BY <2>2 DEF AccountType
  <2>5. sessions[s] \in SessionRow
    BY DEF AccountType
  <2>6. Weakened
    BY <1>2, <2>2, <2>4, <2>5 DEF Weakened, Weaker, ValidateAuthSession, SessionRow, Refused
  <2> QED
    BY <1>2, <2>3, <2>6, WeakenedRight DEF ValidateAuthSession
<1>3. CASE RevokeCurrentSession(s)
  BY <1>3, RevokingRight DEF RevokeCurrentSession
<1> QED
  BY <1>1, <1>2, <1>3 DEF SessionStep

\* What the operations share that end all sessions of an account.
LEMMA RetiringRows ==
  ASSUME AccountType, NEW u \in User, Exists(u), NEW a \in Account,
         a.status # "absent", a.ver = Bumped(u),
         users' = [users EXCEPT ![u] = a], RevokeAll(u)
  PROVE  /\ users' \in [User -> Account] /\ users'[u] = a /\ Others(u)
         /\ users'[u].status # "absent" /\ users'[u].ver = users[u].ver + 1
         /\ sessions' \in [Session -> SessionRow]
         /\ sessions' = Revoked(SessionsOf(u))
<1>1. users' \in [User -> Account] /\ users'[u] = a /\ Others(u)
  BY DEF AccountType, Others
<1>2. sessions' \in [Session -> SessionRow]
  BY RevokedRows DEF RevokeAll
<1> QED
  BY <1>1, <1>2 DEF Bumped, RevokeAll

LEMMA OperatorRevokeRight ==
  ASSUME RowType, References, NEW u \in User, OperatorRevoke(u)
  PROVE  Right
<1> USE DEF RowType
<1>1. users[u] \in Account /\ RetireVersion(u) \in Account
  BY RetiredRow DEF AccountType
<1>2. RetireVersion(u).ver = Bumped(u)
      /\ \A f \in {"status", "role", "by", "removed", "pw"} : RetireVersion(u)[f] = users[u][f]
  BY <1>1 DEF RetireVersion, Account
<1>3. /\ users' \in [User -> Account] /\ users'[u] = RetireVersion(u) /\ Others(u)
      /\ users'[u].status # "absent" /\ users'[u].ver = users[u].ver + 1
      /\ sessions' \in [Session -> SessionRow]
      /\ sessions' = Revoked(SessionsOf(u))
  BY <1>1, <1>2, RetiringRows DEF OperatorRevoke, Exists
<1>4. Retired(u)
  BY <1>2, <1>3 DEF Retired, OperatorRevoke, LinksFollow, Barred, Active, ActiveAdmins
<1> QED
  BY <1>3, <1>4, StillThere DEF OperatorRevoke, Right, Effect, Typed, AccountType

LEMMA LinkFallsDueRight ==
  ASSUME RowType, NEW k \in Token, LinkFallsDue(k)
  PROVE  Right
<1> USE DEF RowType
<1>1. [tokens[k] EXCEPT !.due = TRUE] \in Link
  BY DEF AccountType, Link
<1>2. tokens' \in [Token -> Link]
  BY <1>1 DEF AccountType, LinkFallsDue
<1>3. LinkLapsed(k)
  BY DEF LinkFallsDue, LinkLapsed
<1> QED
  BY <1>2, <1>3, StillThere DEF LinkFallsDue, Right, Effect, Typed, AccountType

\* issueResetToken writes a link.
LEMMA IssuedRows ==
  ASSUME AccountType, NEW u \in User, NEW k \in Token
  PROVE  Issued(u, k) \in [Token -> Link]
<1>1. users[u] \in Account
  BY DEF AccountType
<1>2. [status |-> "live", user |-> u, due |-> FALSE, pw |-> users[u].pw] \in Link
  BY <1>1 DEF Link, Account
<1> QED
  BY <1>2, InvalidatedRows DEF Issued

LEMMA LinksRight ==
  ASSUME RowType, References, PasswordLinks
  PROVE  Right
<1> USE DEF RowType
<1>1. ASSUME NEW u \in User, NEW k \in Token, RequestPasswordReset(u, k) PROVE Right
  <2>1. LinkIssued(u, k)
    BY <1>1 DEF RequestPasswordReset, MayRequest, Active, Exists, LinkIssued
  <2>2. tokens' \in [Token -> Link]
    BY <1>1, IssuedRows DEF RequestPasswordReset
  <2> QED
    BY <1>1, <2>1, <2>2, StillThere DEF RequestPasswordReset, Right, Effect, Typed, AccountType
<1>2. ASSUME NEW t \in Task, NEW k \in Token, CompleteResetBegin(t, k) PROVE Right
  <2> DEFINE r == [op |-> "redeem", token |-> k]
  <2>1. r \in TaskRow
    BY DEF TaskRow
  <2>2. TasksGoOn /\ tasks' \in [Task -> TaskRow]
    BY <1>2, <2>1, Remembering DEF CompleteResetBegin, Personal
  <2> QED
    BY <1>2, <2>2, QuietRight DEF CompleteResetBegin, Quiet
<1> QED
  BY <1>1, <1>2 DEF PasswordLinks

\* The parts of a row that an operation leaves, and who acts.
LEMMA RetiredFields ==
  ASSUME AccountType, NEW u \in User
  PROVE  /\ users[u] \in Account
         /\ RetireVersion(u).ver = Bumped(u) /\ RetireVersion(u).status = users[u].status
         /\ RetireVersion(u).role = users[u].role /\ RetireVersion(u).by = users[u].by
         /\ RetireVersion(u).removed = users[u].removed /\ RetireVersion(u).pw = users[u].pw
         /\ \A v \in User \cup {NONE} :
              /\ Deactivated(u, v).ver = Bumped(u) /\ Deactivated(u, v).status = "inactive"
              /\ Deactivated(u, v).by = v /\ Deactivated(u, v).removed = users[u].removed
              /\ Deactivated(u, v).role = users[u].role /\ Deactivated(u, v).pw = users[u].pw
BY DEF AccountType, Account, RetireVersion, Deactivated

LEMMA CompleteResetRight ==
  ASSUME RowType, References, NEW t \in Task, CompleteResetFinish(t)
  PROVE  Right
<1> USE DEF RowType
<1> DEFINE k == tasks[t].token
           u == tokens[k].user
           a == [RetireVersion(u) EXCEPT !.pw = NewPassword, !.must = FALSE]
<1>1. TasksGoOn /\ tasks' \in [Task -> TaskRow]
  BY Forgetting DEF CompleteResetFinish
<1>2. k \in Token
  BY TaskFields DEF CompleteResetFinish
<1>3. CASE StillRedeemable(k) /\ CanBump(u) /\ CanRehash
  <2>1. tokens[k].status = "live" /\ Active(u) /\ designee # u
    BY <1>3 DEF StillRedeemable, MayRedeem, Redeemable
  <2>2. u \in User /\ Exists(u)
    BY <1>2, <2>1 DEF References
  <2>3. RetireVersion(u) \in Account
    BY <2>2, RetiredRow
  <2>4. NewPassword \in Passwords
    BY <1>3, NewPasswordType
  <2>5. a \in Account /\ a.ver = RetireVersion(u).ver /\ a.status = RetireVersion(u).status
        /\ a.role = RetireVersion(u).role /\ a.by = RetireVersion(u).by
        /\ a.removed = RetireVersion(u).removed
    BY <2>3, <2>4 DEF Account
  <2>6. /\ a.ver = Bumped(u) /\ a.status = users[u].status /\ a.role = users[u].role
        /\ a.by = users[u].by /\ a.removed = users[u].removed
    BY <2>2, <2>5, RetiredFields
  <2>7. /\ users' = [users EXCEPT ![u] = a] /\ RevokeAll(u)
        /\ tokens' = [Invalidated(u) EXCEPT ![k].status = "used"]
        /\ UNCHANGED <<designee, offboarded>>
    BY <1>3 DEF CompleteResetFinish
  <2>8. /\ users' \in [User -> Account] /\ users'[u] = a /\ Others(u)
        /\ users'[u].status # "absent" /\ users'[u].ver = users[u].ver + 1
        /\ sessions' \in [Session -> SessionRow]
        /\ sessions' = Revoked(SessionsOf(u))
    BY <2>2, <2>5, <2>6, <2>7, RetiringRows DEF Exists
  <2>9. tokens' \in [Token -> Link]
    <3>1. Invalidated(u) \in [Token -> Link]
      BY InvalidatedRows
    <3>2. [Invalidated(u)[k] EXCEPT !.status = "used"] \in Link
      BY <1>2, <3>1 DEF Link
    <3> QED
      BY <1>2, <2>7, <3>1, <3>2
  <2>10. LinksFollow(u)
    BY <1>2, <2>1, <2>7 DEF LinksFollow
  <2>11. Retired(u)
    BY <2>2, <2>6, <2>7, <2>8, <2>10 DEF Retired, Barred, Active, ActiveAdmins
  <2> QED
    BY <1>1, <2>2, <2>7, <2>8, <2>9, <2>11 DEF Right, Effect, Typed, AccountType
<1>4. CASE ~(StillRedeemable(k) /\ CanBump(u) /\ CanRehash)
  BY <1>1, <1>4, QuietRight DEF CompleteResetFinish, Quiet
<1> QED
  BY <1>3, <1>4

LEMMA CreatingRight ==
  ASSUME RowType, References, NEW t \in Task, NEW u \in User, NEW role \in Roles,
         CreateTemporaryFinish(t, u, role) \/ CreateUserFinish(t, u, role)
  PROVE  Right
<1> USE DEF RowType
<1>1. TasksGoOn /\ tasks' \in [Task -> TaskRow]
  BY Forgetting DEF CreateTemporaryFinish, CreateUserFinish
<1>2. Somebody
  BY DEF CreateTemporaryFinish, CreateUserFinish, References
<1>3. UNCHANGED <<sessions, tokens, designee, offboarded>>
  BY DEF CreateTemporaryFinish, CreateUserFinish
<1>4. CASE users' = users
  BY <1>1, <1>3, <1>4, QuietRight DEF Quiet
<1>5. CASE users' # users
  <2>1. PICK must \in BOOLEAN : users' = [users EXCEPT ![u] = NewAccount(u, role, must)]
    BY <1>5 DEF CreateTemporaryFinish, CreateUserFinish
  <2>2. ~Exists(u) /\ CanRehash
    BY <1>5 DEF CreateTemporaryFinish, CreateUserFinish
  <2>3. Effect /\ Typed
    BY <1>2, <1>3, <2>1, <2>2, MakingRight
  <2> QED
    BY <1>1, <2>3 DEF Right
<1> QED
  BY <1>4, <1>5

LEMMA MandatoryRight ==
  ASSUME RowType, References, NEW t \in Task, MandatoryChangeFinish(t)
  PROVE  Right
<1> USE DEF RowType
<1> DEFINE s == tasks[t].session
           u == Actor(s)
           a == [users[u] EXCEPT !.pw = NewPassword, !.must = FALSE]
<1>1. TasksGoOn /\ tasks' \in [Task -> TaskRow]
  BY Forgetting DEF MandatoryChangeFinish
<1>2. s \in Session
  BY TaskFields DEF MandatoryChangeFinish
<1>3. CASE LiveActor(s) /\ users[u].must /\ CanRehash
  <2>1. Usable(s) /\ u \in User /\ Exists(u)
    BY <1>2, <1>3, ActorExists DEF LiveActor
  <2>2. NewPassword \in Passwords
    BY <1>3, NewPasswordType
  <2>3. users[u] \in Account
    BY <2>1 DEF AccountType
  <2>4. a \in Account
    BY <2>2, <2>3 DEF Account
  <2>5. /\ users' = [users EXCEPT ![u] = a]
        /\ sessions' = [Revoked(SessionsOf(u) \ {s}) EXCEPT
             ![s].pw = NewPassword,
             ![s].shown = IF sessions[s].source = "local" THEN NewPassword ELSE @]
        /\ tokens' = Invalidated(u)
        /\ UNCHANGED <<designee, offboarded>>
    <3>1. users' = [users EXCEPT ![u].pw = NewPassword, ![u].must = FALSE]
      BY <1>3 DEF MandatoryChangeFinish
    <3>2. users' = [users EXCEPT ![u] = a]
      BY <2>1, <2>3, <3>1 DEF AccountType, Account
    <3> QED
      BY <1>3, <3>2 DEF MandatoryChangeFinish, InvalidateAll
  <2>6. users' \in [User -> Account] /\ users'[u] = a /\ Others(u)
    BY <2>1, <2>4, <2>5 DEF AccountType, Others
  <2>7. a.pw = NewPassword
    BY <2>3 DEF Account
  <2>8. Rehashed(u, s)
    BY <2>1, <2>5, <2>6, <2>7 DEF Rehashed
  <2>9. sessions' \in [Session -> SessionRow]
    <3>1. Revoked(SessionsOf(u) \ {s}) \in [Session -> SessionRow]
      BY RevokedRows
    <3> DEFINE row == Revoked(SessionsOf(u) \ {s})[s]
               seen == IF sessions[s].source = "local" THEN NewPassword ELSE row.shown
    <3>2. row \in SessionRow /\ NewPassword \in Passwords
      BY <1>2, <2>2, <3>1
    <3>3. seen \in Shown
      BY <3>2 DEF SessionRow, Shown
    <3>4. [row EXCEPT !.pw = NewPassword, !.shown = seen] \in SessionRow
      BY <3>2, <3>3 DEF SessionRow
    <3>5. sessions' = [Revoked(SessionsOf(u) \ {s}) EXCEPT
                         ![s] = [row EXCEPT !.pw = NewPassword, !.shown = seen]]
      BY <1>2, <2>5, <3>1, <3>2 DEF SessionRow
    <3> QED
      BY <1>2, <3>1, <3>4, <3>5
  <2>10. tokens' \in [Token -> Link]
    BY <2>5, InvalidatedRows
  <2> QED
    BY <1>1, <1>2, <2>1, <2>5, <2>6, <2>8, <2>9, <2>10 DEF Right, Effect, Typed, AccountType
<1>4. CASE ~(LiveActor(s) /\ users[u].must /\ CanRehash)
  BY <1>1, <1>4, QuietRight DEF MandatoryChangeFinish, Quiet
<1> QED
  BY <1>3, <1>4

LEMMA ChangeRoleRight ==
  ASSUME RowType, References, NEW s \in Session, NEW u \in User, NEW role \in Roles,
         ChangeAccountRole(s, u, role)
  PROVE  Right
<1> USE DEF RowType
<1> DEFINE a == [RetireVersion(u) EXCEPT !.role = role]
<1>1. TasksGoOn /\ tasks' \in [Task -> TaskRow]
  BY StillThere DEF ChangeAccountRole
<1>2. RetireVersion(u) \in Account
  BY RetiredRow
<1>3. a \in Account /\ a.ver = RetireVersion(u).ver /\ a.status = RetireVersion(u).status
      /\ a.role = role /\ a.by = RetireVersion(u).by /\ a.pw = RetireVersion(u).pw
      /\ a.removed = RetireVersion(u).removed
  BY <1>2 DEF Account
<1>4. /\ a.ver = Bumped(u) /\ a.status = users[u].status
      /\ a.by = users[u].by /\ a.removed = users[u].removed /\ a.pw = users[u].pw
  BY <1>3, RetiredFields
<1>5. /\ users' = [users EXCEPT ![u] = a] /\ RevokeAll(u) /\ Exists(u)
      /\ UNCHANGED <<tokens, designee, offboarded>>
      /\ role # "admin" => KeepsDesignee(u) /\ KeepsAnAdmin(u)
  BY DEF ChangeAccountRole
<1>6. /\ users' \in [User -> Account] /\ users'[u] = a /\ Others(u)
      /\ users'[u].status # "absent" /\ users'[u].ver = users[u].ver + 1
      /\ sessions' \in [Session -> SessionRow]
      /\ sessions' = Revoked(SessionsOf(u))
  BY <1>3, <1>4, <1>5, RetiringRows DEF Exists
<1>7. Retired(u)
  BY <1>3, <1>4, <1>5, <1>6
     DEF Retired, LinksFollow, Barred, Active, ActiveAdmins, KeepsDesignee, KeepsAnAdmin
<1> QED
  BY <1>1, <1>5, <1>6, <1>7 DEF Right, Effect, Typed, AccountType

LEMMA DeactivatingRight ==
  ASSUME RowType, References, NEW s \in Session, DeactivateOwnAccount(s)
  PROVE  Right
<1> USE DEF RowType
<1> DEFINE u == Actor(s)
           a == Deactivated(u, u)
<1>1. TasksGoOn /\ tasks' \in [Task -> TaskRow]
  BY StillThere DEF DeactivateOwnAccount
<1>2. u \in User /\ Exists(u) /\ Active(u)
  BY ActorExists DEF DeactivateOwnAccount
<1>3. a \in Account
  BY <1>2, RetiredRow
<1>4. /\ a.ver = Bumped(u) /\ a.status = "inactive" /\ a.removed = users[u].removed
  BY <1>2, RetiredFields
<1>5. /\ users' = [users EXCEPT ![u] = a] /\ RevokeAll(u) /\ tokens' = Invalidated(u)
      /\ UNCHANGED <<designee, offboarded>> /\ KeepsDesignee(u) /\ KeepsAnAdmin(u)
  BY DEF DeactivateOwnAccount, InvalidateAll, MayDeactivate
<1>6. /\ users' \in [User -> Account] /\ users'[u] = a /\ Others(u)
      /\ users'[u].status # "absent" /\ users'[u].ver = users[u].ver + 1
      /\ sessions' \in [Session -> SessionRow]
      /\ sessions' = Revoked(SessionsOf(u))
  BY <1>2, <1>3, <1>4, <1>5, RetiringRows
<1>7. Retired(u)
  BY <1>2, <1>4, <1>5, <1>6
     DEF Retired, LinksFollow, Barred, Active, KeepsDesignee, KeepsAnAdmin
<1>8. tokens' \in [Token -> Link]
  BY <1>5, InvalidatedRows
<1> QED
  BY <1>1, <1>2, <1>5, <1>6, <1>7, <1>8 DEF Right, Effect, Typed, AccountType

LEMMA LifecycleRight ==
  ASSUME RowType, References, NEW s \in Session, NEW u \in User,
         NEW action \in {"deactivate", "reactivate", "remove"}, Lifecycle(s, u, action)
  PROVE  Right
<1> USE DEF RowType
<1> DEFINE b == Deactivated(u, Actor(s))
           a == CASE action = "reactivate" ->
                       [users[u] EXCEPT !.status = "active", !.by = NONE, !.ver = Bumped(u)]
                  [] action = "deactivate" -> b
                  [] action = "remove" ->
                       [b EXCEPT !.removed = TRUE, !.pw = NoPassword, !.must = FALSE]
<1>1. TasksGoOn /\ tasks' \in [Task -> TaskRow]
  BY StillThere DEF Lifecycle
<1>2. /\ ActingAdmin(s) /\ Actor(s) \in User /\ Exists(u) /\ ~users[u].removed
      /\ action # "reactivate" => KeepsDesignee(u) /\ KeepsAnAdmin(u) /\ Actor(s) # u
      /\ action = "reactivate" => ~Active(u)
  BY ActorExists DEF Lifecycle, MayDeactivate
<1>3. users[u] \in Account
  BY DEF AccountType
<1>4. b \in Account /\ b.ver = Bumped(u) /\ b.status = "inactive" /\ b.by = Actor(s)
      /\ b.removed = users[u].removed
  BY <1>2, RetiredRow, RetiredFields
<1>5. /\ users' = [users EXCEPT ![u] = a] /\ RevokeAll(u) /\ tokens' = Invalidated(u)
      /\ UNCHANGED <<designee, offboarded>>
  BY DEF Lifecycle, InvalidateAll, AccountType
<1>6. /\ a \in Account /\ a.ver = Bumped(u) /\ a.status # "absent"
      /\ a.removed => a.status = "inactive" /\ a.by # u
      /\ action # "reactivate" => a.status = "inactive"
  <2>1. CASE action = "reactivate"
    <3>1. a = Revive(u)
      BY <1>2, <2>1 DEF Revive
    <3>2. Bumped(u) \in Nat
      BY <1>3 DEF Bumped, Account
    <3>3. \A n \in Nat :
            LET r == [users[u] EXCEPT !.status = "active", !.by = NONE, !.ver = n]
            IN r.ver = n /\ r.status = "active" /\ r.removed = users[u].removed
      BY <1>3 DEF Account
    <3>4. a.ver = Bumped(u) /\ a.status = "active" /\ a.removed = users[u].removed
      BY <2>1, <3>2, <3>3
    <3> QED
      BY <1>2, <2>1, <3>1, <3>4, RetiredRow
  <2>2. CASE action = "deactivate"
    BY <1>2, <1>4, <2>2
  <2>3. CASE action = "remove"
    <3>1. a = [b EXCEPT !.removed = TRUE, !.pw = NoPassword, !.must = FALSE]
      BY <2>3
    <3>2. NoPassword \in Passwords
      BY AccountsAssumption DEF NoPassword, Passwords, Disabled
    <3>3. a \in Account /\ a.ver = b.ver /\ a.status = b.status /\ a.by = b.by
      BY <1>4, <3>1, <3>2 DEF Account
    <3> QED
      BY <1>2, <1>4, <3>3
  <2> QED
    BY <2>1, <2>2, <2>3
<1>7. /\ users' \in [User -> Account] /\ users'[u] = a /\ Others(u)
      /\ users'[u].status # "absent" /\ users'[u].ver = users[u].ver + 1
      /\ sessions' \in [Session -> SessionRow]
      /\ sessions' = Revoked(SessionsOf(u))
  BY <1>2, <1>5, <1>6, RetiringRows
<1>8. LinksFollow(u)
  BY <1>5 DEF LinksFollow
<1>9. ~Active(u) /\ users'[u].status = "active" =>
        ~users[u].removed /\ \E r \in Session : ActingAdmin(r) /\ Actor(r) # u
  <2>1. Usable(s) /\ Active(Actor(s))
    BY <1>2, ActorExists
  <2> QED
    BY <1>2, <2>1
<1>10. u \in ActiveAdmins => action # "reactivate"
  BY <1>2 DEF ActiveAdmins
<1>11. Barred(users'[u], u)
  BY <1>6, <1>7 DEF Barred
<1>12. Retired(u)
  BY <1>2, <1>5, <1>7, <1>8, <1>9, <1>10, <1>11 DEF Retired, KeepsDesignee, KeepsAnAdmin
<1>13. tokens' \in [Token -> Link]
  BY <1>5, InvalidatedRows
<1> QED
  BY <1>1, <1>5, <1>7, <1>12, <1>13 DEF Right, Effect, Typed, AccountType

LEMMA OffboardRight ==
  ASSUME RowType, References, NEW u \in User, OffboardLinkedUser(u)
  PROVE  Right
<1> USE DEF RowType
<1> DEFINE a == Deactivated(u, NONE)
<1>1. TasksGoOn /\ tasks' \in [Task -> TaskRow]
  BY StillThere DEF OffboardLinkedUser
<1>2. a \in Account /\ a.ver = Bumped(u) /\ a.status = "inactive" /\ a.by = NONE
      /\ a.removed = users[u].removed /\ a.pw = users[u].pw
  BY RetiredRow, RetiredFields
<1>3. /\ users' = [users EXCEPT ![u] = a] /\ RevokeAll(u) /\ Exists(u) /\ KeepsDesignee(u)
      /\ UNCHANGED <<tokens, designee>> /\ offboarded' = TRUE
  BY DEF OffboardLinkedUser
<1>4. /\ users' \in [User -> Account] /\ users'[u] = a /\ Others(u)
      /\ users'[u].status # "absent" /\ users'[u].ver = users[u].ver + 1
      /\ sessions' \in [Session -> SessionRow]
      /\ sessions' = Revoked(SessionsOf(u))
  BY <1>2, <1>3, RetiringRows
<1>5. Retired(u)
  BY <1>2, <1>3, <1>4, AccountsAssumption DEF Retired, LinksFollow, Barred, KeepsDesignee
<1> QED
  BY <1>1, <1>3, <1>4, <1>5 DEF Right, Effect, Typed, AccountType

LEMMA DesignateRight ==
  ASSUME RowType, NEW u \in User, DesignateBreakGlassUser(u)
  PROVE  Right
<1>1. Designated(u)
  BY DEF DesignateBreakGlassUser, MayDesignate, Designated
<1> QED
  BY <1>1, StillThere DEF RowType, DesignateBreakGlassUser, Right, Effect, Typed, AccountType

LEMMA TransferRight ==
  ASSUME RowType, References, NEW u \in User, TransferBreakGlassDesignation(u)
  PROVE  Right
<1> USE DEF RowType
<1> DEFINE d == designee
           a == [RetireVersion(d) EXCEPT !.pw = Disabled]
<1>1. TasksGoOn /\ tasks' \in [Task -> TaskRow]
  BY StillThere DEF TransferBreakGlassDesignation
<1>2. d \in User /\ Exists(d)
  BY DEF TransferBreakGlassDesignation, AccountType, References
<1>3. RetireVersion(d) \in Account /\ Disabled \in Passwords
  BY <1>2, RetiredRow, AccountsAssumption DEF Passwords, Disabled
<1>4. a \in Account /\ a.ver = RetireVersion(d).ver /\ a.status = RetireVersion(d).status
      /\ a.role = RetireVersion(d).role /\ a.by = RetireVersion(d).by /\ a.pw = Disabled
      /\ a.removed = RetireVersion(d).removed
  BY <1>3 DEF Account
<1>5. /\ a.ver = Bumped(d) /\ a.status = users[d].status /\ a.role = users[d].role
      /\ a.by = users[d].by /\ a.removed = users[d].removed
  BY <1>2, <1>4, RetiredFields
<1>6. /\ users' = [users EXCEPT ![d] = a] /\ RevokeAll(d) /\ u \in ActiveAdmins
      /\ UNCHANGED <<tokens, offboarded>> /\ designee' = u
  BY DEF TransferBreakGlassDesignation, MayDesignate
<1>7. /\ users' \in [User -> Account] /\ users'[d] = a /\ Others(d)
      /\ users'[d].status # "absent" /\ users'[d].ver = users[d].ver + 1
      /\ sessions' \in [Session -> SessionRow]
      /\ sessions' = Revoked(SessionsOf(d))
  BY <1>2, <1>4, <1>5, <1>6, RetiringRows DEF Exists
<1>8. Retired(d)
  BY <1>2, <1>4, <1>5, <1>6, <1>7 DEF Retired, LinksFollow, Barred, Active, ActiveAdmins
<1> QED
  BY <1>1, <1>2, <1>6, <1>7, <1>8 DEF Right, Effect, Typed, AccountType

LEMMA AdminIssueRight ==
  ASSUME RowType, References, NEW s \in Session, NEW u \in User, NEW k \in Token,
         AdminIssuePasswordReset(s, u, k)
  PROVE  Right
<1> USE DEF RowType
<1>1. TasksGoOn /\ tasks' \in [Task -> TaskRow]
  BY StillThere DEF AdminIssuePasswordReset
<1>2. RetireVersion(u) \in Account
  BY RetiredRow
<1>3. /\ users' = [users EXCEPT ![u] = RetireVersion(u)] /\ RevokeAll(u) /\ Active(u)
      /\ tokens[k] = NoToken /\ tokens' = Issued(u, k)
      /\ UNCHANGED <<designee, offboarded>>
  BY DEF AdminIssuePasswordReset
<1>4. Exists(u)
  BY <1>3 DEF Active, Exists
<1>5. /\ users' \in [User -> Account] /\ users'[u] = RetireVersion(u) /\ Others(u)
      /\ users'[u].status # "absent" /\ users'[u].ver = users[u].ver + 1
      /\ sessions' \in [Session -> SessionRow]
      /\ sessions' = Revoked(SessionsOf(u))
  BY <1>2, <1>3, <1>4, RetiredFields, RetiringRows DEF Exists
<1>6. LinksFollow(u)
  BY <1>3, <1>5, RetiredFields DEF LinksFollow
<1>7. Retired(u)
  BY <1>3, <1>4, <1>5, <1>6, RetiredFields DEF Retired, Barred, Active, ActiveAdmins
<1>8. tokens' \in [Token -> Link]
  BY <1>3, IssuedRows
<1> QED
  BY <1>1, <1>3, <1>5, <1>7, <1>8 DEF Right, Effect, Typed, AccountType

LEMMA BeginningRight ==
  ASSUME RowType, References, NEW t \in Task, NEW s \in Session,
         CreateTemporaryBegin(t, s) \/ CreateUserBegin(t, s) \/ MandatoryChangeBegin(t, s)
  PROVE  Right
<1> USE DEF RowType
<1>1. Quiet
  BY DEF CreateTemporaryBegin, CreateUserBegin, MandatoryChangeBegin, Quiet
<1>2. PICK r \in {[op |-> "temporary", session |-> s], [op |-> "create"],
                  [op |-> "mandatory", session |-> s]} :
        Remember(t, r)
  BY DEF CreateTemporaryBegin, CreateUserBegin, MandatoryChangeBegin
<1>3. r \in TaskRow /\ r.op \in {"temporary", "create", "mandatory"}
  BY DEF TaskRow
<1>4. Somebody
  BY ActorExists DEF CreateTemporaryBegin, CreateUserBegin, MandatoryChangeBegin
<1>5. TasksGoOn /\ tasks' \in [Task -> TaskRow]
  BY <1>2, <1>3, <1>4, Remembering DEF Personal
<1> QED
  BY <1>1, <1>5, QuietRight

\* Every operation on accounts, sessions and links has one of the effects.
LEMMA AccountRight ==
  ASSUME RowType, References, AccountNext
  PROVE  Right
<1>1. ASSUME NEW t \in Task, AfterHash(t) PROVE Right
  BY <1>1, SignInFinishRight, OpenSessionRight, CompleteResetRight, CreatingRight, MandatoryRight DEF AfterHash
<1>2. ASSUME NEW s \in Session, ByAdministrator(s) PROVE Right
  BY <1>2, ChangeRoleRight, LifecycleRight, AdminIssueRight, BeginningRight DEF ByAdministrator
<1>3. ASSUME NEW s \in Session, OwnAccount(s) PROVE Right
  BY <1>3, BeginningRight, DeactivatingRight DEF OwnAccount
<1>4. ASSUME NEW u \in User, ByOperator(u) PROVE Right
  BY <1>4, OperatorRevokeRight, OffboardRight, DesignateRight, TransferRight DEF ByOperator
<1> QED
  BY <1>1, <1>2, <1>3, <1>4, FirstRunRight, SignInBeginRight, SessionStepRight, LinksRight,
     LinkFallsDueRight DEF AccountNext

LEMMA OidcSignInRight ==
  ASSUME RowType, References, NEW t \in Task, NEW x \in Subject, NEW claimed \in Roles,
         OidcSignIn(t, x, claimed)
  PROVE  Right
<1> USE DEF RowType
<1> DEFINE u == identities[x].user
           r == Admitted(u, "authentik", x, claimed)
<1>1. identities[x].status = "active" /\ MayRevive(u) /\ claimed = users[u].role
  BY DEF OidcSignIn, OidcAdmission
<1>2. u \in User /\ Exists(u)
  BY <1>1 DEF References
<1>3. claimed = Held(u, "authentik")
  BY <1>1 DEF Held
<1>4. r \in TaskRow /\ r.op = "open" /\ r.user = u /\ r.shown = r.held
  BY <1>2, <1>3, AdmittedRow DEF Proofs
<1>5. UNCHANGED tasks \/ Remember(t, r)
  BY DEF OidcSignIn
<1> HIDE DEF r
<1>6. TasksGoOn /\ tasks' \in [Task -> TaskRow]
  BY <1>2, <1>4, <1>5, StillThere, Remembering
<1>7. Effect /\ Typed
  BY <1>1, <1>2, RevivedRow DEF OidcSignIn
<1> QED
  BY <1>6, <1>7 DEF Right

\* So has every operation of institutional sign-in.
LEMMA FederationRight ==
  ASSUME RowType, References, FederationNext
  PROVE  Right
<1>1. CASE UNCHANGED accountVars
  BY <1>1, StillThere, QuietRight DEF accountVars, Quiet, RowType
<1>2. ASSUME NEW x \in Subject, NEW S \in SUBSET Session, BackchannelLogout(x, S) PROVE Right
  BY <1>2, RevokingRight DEF BackchannelLogout, RowType
<1> QED
  BY <1>1, <1>2, OidcSignInRight
     DEF FederationNext, ApplyIdentityImport, RetireIdentityLink, RelinkIdentity

LEMMA ProvingRight ==
  ASSUME RowType, References, NEW t \in Task, Proving(t)
  PROVE  Right
<1> USE DEF RowType
<1>1. ASSUME NEW right \in BOOLEAN, NEW k \in Code \cup {NONE}, BeginEmergencyAccess(t, right, k)
      PROVE  Right
  <2> DEFINE r == [op |-> "prove", user |-> designee, right |-> right, code |-> k]
  <2>1. designee \in User
    BY <1>1 DEF BeginEmergencyAccess, AccountType
  <2>2. r \in TaskRow
    BY <2>1 DEF TaskRow
  <2>3. TasksGoOn /\ tasks' \in [Task -> TaskRow]
    BY <1>1, <2>2, Remembering DEF BeginEmergencyAccess, Personal
  <2> QED
    BY <1>1, <2>3, QuietRight DEF BeginEmergencyAccess, Quiet
<1>2. CASE PasswordRefused(t)
  BY <1>2, Forgetting, QuietRight DEF PasswordRefused, Quiet
<1>3. ASSUME NEW c \in Challenge, PasswordAccepted(t, c) PROVE Right
  BY <1>3, Forgetting, QuietRight DEF PasswordAccepted, Quiet
<1>4. ASSUME NEW c \in Challenge, AssertionBegin(t, c) PROVE Right
  <2> DEFINE r == [op |-> "assert", challenge |-> c]
  <2>1. r \in TaskRow
    BY DEF TaskRow
  <2>2. tasks' = [tasks EXCEPT ![t] = r]
    BY <1>4 DEF AssertionBegin, Remember
  <2>3. tasks' \in [Task -> TaskRow] /\ tasks'[t] = r /\ \A q \in Task \ {t} : tasks'[q] = tasks[q]
    BY <2>1, <2>2 DEF AccountType
  <2>4. TasksGoOn
    <3>1. /\ challenges[c].status = "open"
          /\ challenges' = [challenges EXCEPT ![c].status = "spent"]
      BY <1>4 DEF AssertionBegin
    <3>2. r.op = "assert" /\ r.challenge = c
      OBVIOUS
    <3>3. tasks'[t].op = "assert" /\ tasks'[t].challenge = c /\ tasks'[t] \in TaskRow
      BY <2>1, <2>3, <3>2
    <3> HIDE DEF r
    <3> QED
      BY <2>3, <3>1, <3>3 DEF TasksGoOn, Personal
  <2> QED
    BY <1>4, <2>3, <2>4, QuietRight DEF AssertionBegin, Quiet
<1>5. ASSUME NEW m \in Ceremony, NEW crashed \in BOOLEAN, CodeAccepted(t, m, crashed) PROVE Right
  BY <1>5, Forgetting, QuietRight DEF CodeAccepted, Quiet
<1>6. ASSUME NEW m \in Ceremony, NEW v \in BOOLEAN, AssertionFinish(t, m, v) PROVE Right
  BY <1>6, Forgetting, QuietRight DEF AssertionFinish, Quiet
<1> QED
  BY <1>1, <1>2, <1>3, <1>4, <1>5, <1>6 DEF Proving

\* Consuming the ceremony is the only way to where the session is opened.
LEMMA ConsumeRight ==
  ASSUME RowType, References, NEW t \in Task, ConsumeCeremony(t)
  PROVE  Right
<1> USE DEF RowType
<1> DEFINE m == tasks[t].ceremony
           r == [tasks[t] EXCEPT !.op = "activate"]
<1>1. tasks[t].op = "emergency" /\ Quiet
  BY DEF ConsumeCeremony, Quiet
<1>2. CASE CeremonyIsLive(m)
  <2>1. /\ tasks' = [tasks EXCEPT ![t].op = "activate"]
        /\ ceremonies' = [ceremonies EXCEPT ![m].status = "consumed"]
        /\ ceremonies[m].status = "live"
    BY <1>2 DEF ConsumeCeremony, CeremonyIsLive
  <2>2. tasks[t] \in [op : {"emergency", "activate"}, ceremony : Ceremony, user : User]
    BY <1>1 DEF AccountType, TaskRow, Idle
  <2>3. r \in [op : {"emergency", "activate"}, ceremony : Ceremony, user : User]
        /\ r.op = "activate" /\ r.ceremony = m /\ r.user = tasks[t].user
    BY <2>2
  <2>4. r \in TaskRow /\ Exists(tasks[t].user)
    BY <1>1, <2>3 DEF TaskRow, References, Personal
  <2>5. tasks' = [tasks EXCEPT ![t] = r]
    BY <2>1
  <2> HIDE DEF r
  <2>6. tasks'[t] = r /\ \A q \in Task \ {t} : tasks'[q] = tasks[q]
    BY <2>5 DEF AccountType
  <2>7. TasksGoOn /\ tasks' \in [Task -> TaskRow]
    BY <1>1, <2>1, <2>3, <2>4, <2>5, <2>6 DEF AccountType, TasksGoOn
  <2> QED
    BY <1>1, <2>7, QuietRight
<1>3. CASE ~CeremonyIsLive(m)
  BY <1>1, <1>3, Forgetting, QuietRight DEF ConsumeCeremony
<1> QED
  BY <1>2, <1>3

LEMMA OpenEmergencyRight ==
  ASSUME RowType, References, NEW t \in Task, NEW s \in Session, NEW crashed \in BOOLEAN,
         OpenEmergency(t, s, crashed)
  PROVE  Right
<1> USE DEF RowType
<1> DEFINE u == tasks[t].user
           row == Minted(u, "break_glass", tasks[t].ceremony)
<1>1. tasks[t].op = "activate" /\ u \in User /\ Exists(u) /\ tasks[t].ceremony \in Ceremony
  BY TaskFields DEF OpenEmergency, References, Personal
<1>2. /\ row \in SessionRow /\ row.status = "active" /\ row.user = u
      /\ row.ver = users[u].ver /\ row.role = users[u].role
      /\ row.source = "break_glass" /\ row.proof = tasks[t].ceremony
  <2>1. row = [row EXCEPT !.shown = NONE] /\ NONE \in Shown
    BY <1>1, MintedRow DEF Sources, Proofs, Shown
  <2> QED
    BY <1>1, <2>1, MintedRow DEF Sources, Proofs
<1>3. /\ sessions[s] = NoSession /\ sessions' = [sessions EXCEPT ![s] = row]
      /\ Forget(t) /\ UNCHANGED ceremonies
      /\ UNCHANGED <<users, tokens, designee, offboarded>>
  BY DEF OpenEmergency
<1> HIDE DEF row
<1>4. Effect /\ Typed
  BY <1>1, <1>2, <1>3, OpenedRow
<1> QED
  BY <1>3, <1>4, Forgetting DEF Right

LEMMA MintingRight ==
  ASSUME RowType, References, NEW t \in Task, Minting(t)
  PROVE  Right
<1> USE DEF RowType
<1>1. ASSUME NEW m \in Ceremony, AuthorizeEmergency(t, m) PROVE Right
  <2> DEFINE r == [op |-> "emergency", ceremony |-> m, user |-> ceremonies[m].user]
  <2>1. ceremonies[m].user \in User /\ Exists(ceremonies[m].user)
    BY <1>1 DEF AuthorizeEmergency, ActiveAdmins, Active, Exists
  <2>2. r \in TaskRow /\ r.op = "emergency" /\ r.user = ceremonies[m].user
    BY <2>1 DEF TaskRow
  <2>3. Remember(t, r) /\ Quiet
    BY <1>1 DEF AuthorizeEmergency, Quiet
  <2> HIDE DEF r
  <2>4. TasksGoOn /\ tasks' \in [Task -> TaskRow]
    BY <2>1, <2>2, <2>3, Remembering
  <2> QED
    BY <2>3, <2>4, QuietRight
<1>2. CASE OpenEmergencyRefused(t)
  BY <1>2, Forgetting, QuietRight DEF OpenEmergencyRefused, Quiet
<1> QED
  BY <1>1, <1>2, ConsumeRight, OpenEmergencyRight DEF Minting

\* And every one of emergency access.
LEMMA EmergencyRight ==
  ASSUME RowType, References, EmergencyNext
  PROVE  Right
<1>1. CASE UNCHANGED accountVars
  BY <1>1, StillThere, QuietRight DEF accountVars, Quiet, RowType
<1> QED
  BY <1>1, ProvingRight, MintingRight
     DEF EmergencyNext, Custody, BeginKeyEnrollment, CompleteKeyEnrollment, RotateRecoveryCodes,
         LockLapses, ChallengeLapses, CeremonyLapses

\* And every step of the three over one database.
LEMMA SystemRight ==
  ASSUME RowType, References, SystemNext
  PROVE  Right
<1>1. CASE Restart
  BY <1>1, QuietRight DEF Restart, Quiet, TasksGoOn, TaskRow, RowType
<1> QED
  BY <1>1, AccountRight, FederationRight, EmergencyRight DEF SystemNext

-----------------------------------------------------------------------------
(* The provider's identities *)

OneLink ==
  \A x, y \in Subject :
    /\ identities[x].status = "active" /\ identities[y].status = "active"
    /\ identities[x].user = identities[y].user
    => x = y

\* What a step makes of the identities.
IdentitiesKept ==
  /\ identities' \in [Subject -> Identity]
  /\ \A x \in Subject :
       /\ identities'[x].status = "none" => identities'[x] = NoLink
       /\ identities'[x].status # "none" =>
            identities'[x].user \in User /\ Exists(identities'[x].user)
       /\ identities[x].status # "none" => identities'[x].user = identities[x].user
       /\ identities[x].status = "retired" => identities'[x].status = "retired"
  /\ OneLink => OneLink'

\* The identities are left alone.
LEMMA SameIdentities ==
  ASSUME IdentityType, References, UNCHANGED identities
  PROVE  IdentitiesKept
BY DEF IdentityType, References, IdentitiesKept, OneLink

\* Some links are retired and nothing else happens to them.
LEMMA FewerIdentities ==
  ASSUME IdentityType, References,
         NEW S, identities' = [x \in Subject |->
           IF identities[x].status = "active" /\ x \in S
           THEN [identities[x] EXCEPT !.status = "retired"] ELSE identities[x]]
  PROVE  IdentitiesKept
<1>1. \A x \in Subject : [identities[x] EXCEPT !.status = "retired"] \in Identity
  BY DEF IdentityType, Identity
<1>2. identities' \in [Subject -> Identity]
  BY <1>1 DEF IdentityType
<1>3. \A x \in Subject : /\ identities'[x].user = identities[x].user
                         /\ \/ identities'[x].status = identities[x].status
                            \/ /\ identities[x].status = "active"
                               /\ identities'[x].status = "retired"
                         /\ identities[x].status # "active" => identities'[x] = identities[x]
  BY DEF IdentityType, Identity
<1>4. OneLink => OneLink'
  BY <1>3 DEF OneLink
<1> QED
  BY <1>2, <1>3, <1>4 DEF References, IdentitiesKept

\* applyIdentityLink over a whole mapping.
LEMMA ImportedIdentities ==
  ASSUME IdentityType, References, NEW entries \in Mappings, ApplyIdentityImport(entries)
  PROVE  IdentitiesKept
<1>0. PICK D \in SUBSET Subject : entries \in [D -> User]
  BY DEF Mappings
<1>1. DOMAIN entries = D /\ D \subseteq Subject /\ \A x \in D : entries[x] \in User
  BY <1>0
<1>2. /\ \A x \in D : Exists(entries[x]) /\ identities[x].status = "none" /\ LinkOf(entries[x]) = {}
      /\ \A x, y \in D : entries[x] = entries[y] => x = y
  BY <1>1 DEF ApplyIdentityImport, Unused
<1>3. /\ identities' \in [Subject -> Identity]
      /\ \A z \in Subject : z \in D => identities'[z].status = "active"
                                       /\ identities'[z].user = entries[z]
      /\ \A z \in Subject : z \notin D => identities'[z] = identities[z]
  BY <1>1 DEF ApplyIdentityImport, Linked, IdentityType, Identity
<1>4. \A x \in Subject : \A y \in D :
        identities[x].status = "active" => identities[x].user # entries[y]
  BY <1>2 DEF LinkOf
<1>5. OneLink => OneLink'
  <2> SUFFICES ASSUME OneLink, NEW x \in Subject, NEW y \in Subject,
                      identities'[x].status = "active", identities'[y].status = "active",
                      identities'[x].user = identities'[y].user
               PROVE  x = y
    BY DEF OneLink
  <2>1. CASE x \in D /\ y \in D
    BY <1>2, <1>3, <2>1
  <2>2. CASE x \in D /\ y \notin D
    <3>1. identities[y].status = "active" /\ identities[y].user = entries[x]
      BY <1>3, <2>2
    <3> QED
      BY <1>4, <2>2, <3>1
  <2>3. CASE x \notin D /\ y \in D
    <3>1. identities[x].status = "active" /\ identities[x].user = entries[y]
      BY <1>3, <2>3
    <3> QED
      BY <1>4, <2>3, <3>1
  <2>4. CASE x \notin D /\ y \notin D
    <3>1. identities'[x] = identities[x] /\ identities'[y] = identities[y]
      BY <1>3, <2>4
    <3> QED
      BY <3>1 DEF OneLink
  <2> QED
    BY <2>1, <2>2, <2>3, <2>4
<1> QED
  BY <1>1, <1>2, <1>3, <1>5 DEF References, IdentitiesKept

\* A relink retires one subject and links another.
LEMMA RelinkedIdentities ==
  ASSUME IdentityType, References, NEW x \in Subject, NEW y \in Subject, RelinkIdentity(x, y)
  PROVE  IdentitiesKept
<1> DEFINE u == identities[x].user
<1>1. identities[x].status = "active" /\ identities[y].status = "none" /\ x # y
  BY DEF RelinkIdentity, Unused
<1>2. u \in User /\ Exists(u)
  BY <1>1 DEF References
<1>3. /\ [identities[x] EXCEPT !.status = "retired"] \in Identity
      /\ [identities[x] EXCEPT !.status = "retired"].user = u
      /\ [identities[x] EXCEPT !.status = "retired"].status = "retired"
      /\ Linked(y, u) \in Identity
  BY <1>2 DEF IdentityType, Identity, Linked
<1>4. identities' = [identities EXCEPT ![x] = [identities[x] EXCEPT !.status = "retired"],
                                       ![y] = Linked(y, u)]
  BY DEF RelinkIdentity, IdentityType
<1>5. /\ identities' \in [Subject -> Identity]
      /\ identities'[x].status = "retired" /\ identities'[x].user = u
      /\ identities'[y] = [status |-> "active", user |-> u]
      /\ \A z \in Subject \ {x, y} : identities'[z] = identities[z]
  BY <1>1, <1>3, <1>4 DEF IdentityType, Linked
<1>6. OneLink => OneLink'
  <2> SUFFICES ASSUME OneLink, NEW a \in Subject, NEW b \in Subject,
                      identities'[a].status = "active", identities'[b].status = "active",
                      identities'[a].user = identities'[b].user
               PROVE  a = b
    BY DEF OneLink
  <2>1. a # x /\ b # x
    BY <1>5
  <2>2. \A c \in {a, b} : c # y => identities'[c] = identities[c]
    BY <1>5, <2>1
  <2>3. \A c \in {a, b} : c # y /\ identities[c].user = u => c = x
    BY <1>1, <2>2 DEF OneLink
  <2>4. CASE a = y \/ b = y
    BY <1>5, <2>1, <2>2, <2>3, <2>4
  <2>5. CASE a # y /\ b # y
    BY <2>2, <2>5 DEF OneLink
  <2> QED
    BY <2>4, <2>5
<1> QED
  BY <1>1, <1>2, <1>5, <1>6 DEF References, IdentitiesKept

\* No step gives a subject away or an account two active subjects.
LEMMA IdentitiesStep ==
  ASSUME RowType, References, [SystemNext]_systemVars
  PROVE  IdentitiesKept
<1> USE DEF RowType
<1>1. CASE UNCHANGED identities
  BY <1>1, SameIdentities
<1>2. CASE identities' = RetiredWithAccount
  <2> DEFINE S == {x \in Subject : users'[identities[x].user].removed
                                   /\ ~users[identities[x].user].removed}
  <2>1. identities' = [x \in Subject |->
           IF identities[x].status = "active" /\ x \in S
           THEN [identities[x] EXCEPT !.status = "retired"] ELSE identities[x]]
    BY <1>2 DEF RetiredWithAccount
  <2> HIDE DEF S
  <2> QED
    BY <2>1, FewerIdentities
<1>3. ASSUME NEW x \in Subject, RetireIdentityLink(x) PROVE IdentitiesKept
  <2>1. identities' = [z \in Subject |->
           IF identities[z].status = "active" /\ z \in {x}
           THEN [identities[z] EXCEPT !.status = "retired"] ELSE identities[z]]
    BY <1>3 DEF RetireIdentityLink, IdentityType
  <2> QED
    BY <2>1, FewerIdentities
<1>4. CASE FederationNext
  BY <1>1, <1>3, <1>4, ImportedIdentities, RelinkedIdentities
     DEF FederationNext, OidcSignIn, BackchannelLogout
<1>5. CASE EmergencyNext
  <2>1. UNCHANGED identities
    BY <1>5 DEF EmergencyNext, Custody, BeginKeyEnrollment, CompleteKeyEnrollment,
       RotateRecoveryCodes, Proving, BeginEmergencyAccess, PasswordRefused, PasswordAccepted,
       CodeAccepted, AssertionBegin, AssertionFinish, LockLapses, ChallengeLapses, CeremonyLapses,
       Minting, AuthorizeEmergency, ConsumeCeremony, OpenEmergency, OpenEmergencyRefused
  <2> QED
    BY <1>1, <2>1
<1> QED
  BY <1>1, <1>2, <1>4, <1>5 DEF SystemNext, systemVars, EmergencyRestart

-----------------------------------------------------------------------------
(* Types and references are kept *)

\* A mandatory change writes the password only.
LEMMA RehashedRow ==
  ASSUME AccountType, NEW u \in User, NEW s \in Session, Rehashed(u, s)
  PROVE  /\ users'[u].status = users[u].status /\ users'[u].role = users[u].role
         /\ users'[u].by = users[u].by /\ users'[u].removed = users[u].removed
         /\ users'[u].ver = users[u].ver
<1>1. users[u] \in Account
  BY DEF AccountType
<1>2. \A p : LET r == [users[u] EXCEPT !.pw = p, !.must = FALSE] IN
            /\ r.status = users[u].status /\ r.role = users[u].role
            /\ r.by = users[u].by /\ r.removed = users[u].removed /\ r.ver = users[u].ver
  BY <1>1 DEF Account
<1>3. PICK p : users'[u] = [users[u] EXCEPT !.pw = p, !.must = FALSE]
  BY DEF Rehashed
<1> QED
  BY <1>2, <1>3

\* Accounts are never deleted.
LEMMA EffectGrows ==
  ASSUME AccountType, Effect
  PROVE  \A u \in User : /\ Exists(u) => users'[u].status # "absent"
                         /\ users'[u].status = "absent" => users'[u] = users[u]
<1>1. ASSUME UNCHANGED users PROVE \A u \in User : users'[u] = users[u]
  BY <1>1
<1>2. ASSUME NEW u \in User, Made(u) \/ Retired(u)
      PROVE  Others(u) /\ users'[u].status # "absent"
  BY <1>2 DEF Made, Retired
<1>3. ASSUME NEW u \in User, Revived(u)
      PROVE  Others(u) /\ users'[u].status # "absent"
  <2>1. users[u] \in Account /\ Exists(u) /\ users'[u] = Revive(u)
    BY <1>3 DEF AccountType, Revived
  <2> QED
    BY <1>3, <2>1 DEF Revived, Revive, Account, Exists
<1>4. ASSUME NEW u \in User, NEW s \in Session, Rehashed(u, s)
      PROVE  Others(u) /\ users'[u].status # "absent"
  <2>1. users'[u].status = users[u].status
    BY <1>4, RehashedRow
  <2> QED
    BY <1>4, <2>1 DEF Rehashed, Exists
<1>5. ASSUME NEW u \in User, Others(u), users'[u].status # "absent"
      PROVE  \A v \in User : /\ Exists(v) => users'[v].status # "absent"
                             /\ users'[v].status = "absent" => users'[v] = users[v]
  BY <1>5 DEF Others, Exists
<1> QED
  BY <1>1, <1>2, <1>3, <1>4, <1>5
     DEF Effect, Quiet, Weakened, Designated, Opened, LinkIssued, LinkLapsed, Exists

\* Sessions keep their owner, and a new one has an owner that exists.
LEMMA EffectSessions ==
  ASSUME AccountType, Effect, NEW s \in Session, sessions'[s].status # "none"
  PROVE  \/ sessions[s].status # "none" /\ sessions'[s].user = sessions[s].user
         \/ sessions'[s].user \in User /\ Exists(sessions'[s].user)
<1>1. CASE Quiet \/ \E u \in User : Made(u) \/ Designated(u) \/ Revived(u)
  BY <1>1 DEF Quiet, Made, Designated, Revived
<1>2. CASE Weakened
  BY <1>2 DEF Weakened, Weaker
<1>3. ASSUME NEW u \in User, Retired(u)
      PROVE  sessions[s].status # "none" /\ sessions'[s].user = sessions[s].user
  BY <1>3, RevokedRows DEF Retired
<1>4. ASSUME NEW u \in User, NEW r \in Session, Opened(u, r)
      PROVE  \/ sessions'[s] = sessions[s]
             \/ sessions'[s].user \in User /\ Exists(sessions'[s].user)
  BY <1>4 DEF Opened
<1>5. ASSUME NEW u \in User, NEW r \in Session, Rehashed(u, r)
      PROVE  sessions[s].status # "none" /\ sessions'[s].user = sessions[s].user
  <2> DEFINE S == SessionsOf(u) \ {r}
  <2>1. Revoked(S) \in [Session -> SessionRow]
        /\ Revoked(S)[s].user = sessions[s].user
        /\ (sessions[s].status = "none" => Revoked(S)[s].status = "none")
    <3> HIDE DEF S
    <3> QED
      BY RevokedRows
  <2>2. sessions' = [Revoked(S) EXCEPT
          ![r].pw = users'[u].pw,
          ![r].shown = IF sessions[r].source = "local" THEN users'[u].pw ELSE @]
    BY <1>5 DEF Rehashed
  <2> HIDE DEF S
  <2>3. sessions'[s].user = Revoked(S)[s].user /\ sessions'[s].status = Revoked(S)[s].status
    BY <2>1, <2>2 DEF SessionRow
  <2> QED
    BY <2>1, <2>3
<1>6. CASE UNCHANGED sessions
  BY <1>6
<1> QED
  BY <1>1, <1>2, <1>3, <1>4, <1>5, <1>6 DEF Effect, LinkIssued, LinkLapsed

\* The newest link and what is left of the others.
LEMMA IssuedFields ==
  ASSUME AccountType, NEW u \in User, NEW k \in Token
  PROVE  /\ Issued(u, k)[k] = [status |-> "live", user |-> u, due |-> FALSE, pw |-> users[u].pw]
         /\ \A j \in Token \ {k} : Issued(u, k)[j] = Invalidated(u)[j]
BY InvalidatedRows DEF Issued

\* What LinksFollow makes of each link.
LEMMA FollowedLinks ==
  ASSUME AccountType, NEW u \in User, LinksFollow(u) \/ tokens' = Invalidated(u), NEW j \in Token
  PROVE  \/ tokens'[j] = tokens[j]
         \/ /\ tokens[j] = NoToken
            /\ tokens'[j] = [status |-> "live", user |-> u, due |-> FALSE, pw |-> users[u].pw]
            /\ users'[u].pw = users[u].pw
            /\ tokens' = Issued(u, j)
         \/ /\ tokens[j].status = "live" /\ tokens[j].user = u
            /\ tokens'[j].status \in {"dead", "used"} /\ tokens'[j].user = tokens[j].user
<1>1. Invalidated(u)[j] = tokens[j]
      \/ /\ tokens[j].status = "live" /\ tokens[j].user = u
         /\ Invalidated(u)[j].status = "dead" /\ Invalidated(u)[j].user = tokens[j].user
  BY InvalidatedRows DEF Invalidated
<1>2. CASE tokens' = tokens \/ tokens' = Invalidated(u)
  BY <1>1, <1>2
<1>3. ASSUME NEW k \in Token, tokens[k] = NoToken, tokens' = Issued(u, k),
             users'[u].pw = users[u].pw
      PROVE  \/ /\ j = k
                /\ tokens'[j] = [status |-> "live", user |-> u, due |-> FALSE, pw |-> users[u].pw]
             \/ tokens'[j] = Invalidated(u)[j]
  BY <1>3, IssuedFields
<1>4. ASSUME NEW k \in Token, tokens[k].user = u, tokens[k].status = "live",
             tokens' = [Invalidated(u) EXCEPT ![k].status = "used"]
      PROVE  \/ j = k /\ tokens'[j].status = "used" /\ tokens'[j].user = tokens[j].user
             \/ tokens'[j] = Invalidated(u)[j]
  <2>1. Invalidated(u) \in [Token -> Link] /\ Invalidated(u)[k].user = tokens[k].user
    BY InvalidatedRows
  <2> QED
    BY <1>4, <2>1 DEF Link
<1> QED
  BY <1>1, <1>2, <1>3, <1>4 DEF LinksFollow

KnownOwner(j) ==
  \/ tokens[j].status # "none" /\ tokens'[j].user = tokens[j].user
  \/ tokens'[j].user \in User /\ Exists(tokens'[j].user)

\* Links keep their owner, and a new one has an owner that exists.
LEMMA EffectTokens ==
  ASSUME AccountType, Effect, NEW j \in Token, tokens'[j].status # "none"
  PROVE  KnownOwner(j)
<1>1. ASSUME UNCHANGED tokens PROVE KnownOwner(j)
  BY <1>1 DEF KnownOwner
<1>2. ASSUME NEW u \in User, Exists(u), LinksFollow(u) \/ tokens' = Invalidated(u)
      PROVE  KnownOwner(j)
  <2>1. CASE tokens'[j] = tokens[j]
    BY <2>1 DEF KnownOwner
  <2>2. CASE tokens'[j] = [status |-> "live", user |-> u, due |-> FALSE, pw |-> users[u].pw]
    BY <1>2, <2>2 DEF KnownOwner
  <2>3. CASE tokens[j].status = "live" /\ tokens'[j].user = tokens[j].user
    BY <2>3 DEF KnownOwner
  <2> QED
    BY <1>2, <2>1, <2>2, <2>3, FollowedLinks
<1>3. ASSUME NEW u \in User, NEW k \in Token, LinkIssued(u, k)
      PROVE  KnownOwner(j)
  <2>1. Exists(u) /\ tokens' = Issued(u, k)
    BY <1>3 DEF LinkIssued
  <2>2. CASE j = k
    <3>1. tokens'[j].user = u
      <4>1. Issued(u, k)[k] = [status |-> "live", user |-> u, due |-> FALSE, pw |-> users[u].pw]
        BY IssuedFields
      <4> QED
        BY <2>1, <2>2, <4>1
    <3> QED
      BY <2>1, <3>1 DEF KnownOwner
  <2>3. CASE j # k
    <3>1. tokens'[j] = Invalidated(u)[j]
      BY <2>1, <2>3, IssuedFields
    <3>2. /\ Invalidated(u)[j].user = tokens[j].user
          /\ (tokens[j].status = "none" => Invalidated(u)[j].status = "none")
      BY InvalidatedRows
    <3> QED
      BY <3>1, <3>2 DEF KnownOwner
  <2> QED
    BY <2>2, <2>3
<1>4. ASSUME NEW k \in Token, LinkLapsed(k)
      PROVE  KnownOwner(j)
  BY <1>4 DEF LinkLapsed, AccountType, Link, KnownOwner
<1>5. CASE Quiet \/ Weakened
  BY <1>1, <1>5 DEF Quiet, Weakened
<1>6. ASSUME NEW u \in User, Made(u) \/ Retired(u) \/ Designated(u) \/ Revived(u)
      PROVE  KnownOwner(j)
  BY <1>1, <1>2, <1>6 DEF Made, Retired, Designated, Revived
<1>7. ASSUME NEW u \in User, NEW s \in Session, Opened(u, s) \/ Rehashed(u, s)
      PROVE  KnownOwner(j)
  BY <1>1, <1>2, <1>7 DEF Opened, Rehashed
<1> QED
  <2>1. CASE \E u \in User : Made(u) \/ Retired(u) \/ Designated(u) \/ Revived(u)
    BY <1>6, <2>1
  <2>2. CASE \E u \in User, s \in Session : Opened(u, s) \/ Rehashed(u, s)
    BY <1>7, <2>2
  <2>3. CASE \E u \in User, k \in Token : LinkIssued(u, k)
    BY <1>3, <2>3
  <2>4. CASE \E k \in Token : LinkLapsed(k)
    BY <1>4, <2>4
  <2> QED
    BY <1>5, <2>1, <2>2, <2>3, <2>4 DEF Effect

-----------------------------------------------------------------------------
(* Challenges, codes and ceremonies *)

\* A ceremony is issued for a code that is used up with it, or for a challenge that
\* was spent before; it is consumed by a request that goes on to open a session.
CeremonyEffect ==
  \/ UNCHANGED ceremonies
  \/ \E m \in Ceremony : /\ ceremonies[m].status = "live"
                         /\ ceremonies' = [ceremonies EXCEPT ![m].status = "lapsed"]
  \/ \E m \in Ceremony, k \in Code, u \in User :
       /\ ceremonies[m] = NoCeremony
       /\ codes[k].status = "live" /\ codes'[k].status = "used"
       /\ ceremonies' = IssuedCeremony(m, u, k)
  \/ \E m \in Ceremony, t \in Task, u \in User \cup {NONE} :
       /\ ceremonies[m] = NoCeremony
       /\ tasks[t].op = "assert" /\ Forget(t)
       /\ ceremonies' = IssuedCeremony(m, u, tasks[t].challenge)
  \/ \E m \in Ceremony :
       /\ ceremonies[m].status = "live"
       /\ ceremonies' = [ceremonies EXCEPT ![m].status = "consumed"]

ProofsGoOn ==
  /\ challenges' \in [Challenge -> ChallengeRow]
  /\ codes' \in [Code -> CodeRow]
  /\ \A c \in Challenge : challenges[c].status = "spent" => challenges'[c].status = "spent"
  /\ \A k \in Code : codes[k].status = "used" => codes'[k].status = "used"
  /\ CeremonyEffect

\* Steps that leave challenges and codes alone.
LEMMA ProofsStay ==
  ASSUME ProofType, UNCHANGED <<challenges, codes>>, CeremonyEffect
  PROVE  ProofsGoOn
BY DEF ProofType, ProofsGoOn

\* Spending a challenge.
LEMMA SpentRow ==
  ASSUME ProofType, NEW c \in Challenge
  PROVE  LET r == [challenges[c] EXCEPT !.status = "spent"] IN
         r \in ChallengeRow /\ r.status = "spent"
BY DEF ProofType, ChallengeRow

\* What the custodian does to keys and codes.
LEMMA CustodyProofs ==
  ASSUME RowType, References, NEW s \in Session, Custody(s)
  PROVE  ProofsGoOn
<1>1. UNCHANGED ceremonies /\ CeremonyEffect
  BY DEF Custody, BeginKeyEnrollment, CompleteKeyEnrollment, RotateRecoveryCodes, CeremonyEffect
<1>2. designee \in User
  BY ActorExists DEF Custody, BeginKeyEnrollment, CompleteKeyEnrollment, RotateRecoveryCodes,
     Custodian
<1>3. ASSUME NEW c \in Challenge, BeginKeyEnrollment(s, c) PROVE ProofsGoOn
  <2>1. [status |-> "open", user |-> designee, kind |-> "registration"] \in ChallengeRow
    BY <1>2 DEF ChallengeRow
  <2> QED
    BY <1>1, <1>3, <2>1 DEF BeginKeyEnrollment, NoChallenge, ProofsGoOn, RowType, ProofType
<1>4. ASSUME NEW c \in Challenge, NEW v \in BOOLEAN, CompleteKeyEnrollment(s, c, v)
      PROVE  ProofsGoOn
  BY <1>1, <1>4, SpentRow DEF CompleteKeyEnrollment, ProofsGoOn, RowType, ProofType
<1>5. ASSUME NEW fresh \in SUBSET Code, RotateRecoveryCodes(s, fresh) PROVE ProofsGoOn
  <2>1. \A k \in Code : [codes[k] EXCEPT !.status = "rotated"] \in CodeRow
    BY DEF RowType, ProofType, CodeRow
  <2>2. [status |-> "live", user |-> designee] \in CodeRow
    BY <1>2 DEF CodeRow
  <2>3. codes' \in [Code -> CodeRow]
    BY <1>5, <2>1, <2>2 DEF RotateRecoveryCodes, RowType, ProofType
  <2>4. \A k \in Code : codes[k].status = "used" => codes'[k] = codes[k]
    BY <1>5 DEF RotateRecoveryCodes, NoCode
  <2> QED
    BY <1>1, <1>5, <2>3, <2>4 DEF RotateRecoveryCodes, ProofsGoOn, RowType, ProofType
<1> QED
  BY <1>3, <1>4, <1>5 DEF Custody

\* What proving a password, a code or a key does.
LEMMA ProvingProofs ==
  ASSUME RowType, References, NEW t \in Task, Proving(t)
  PROVE  ProofsGoOn
<1> USE DEF RowType
<1>1. ASSUME NEW right \in BOOLEAN, NEW k \in Code \cup {NONE}, BeginEmergencyAccess(t, right, k)
      PROVE  ProofsGoOn
  BY <1>1, ProofsStay DEF BeginEmergencyAccess, emergencyVars, CeremonyEffect
<1>2. ASSUME PasswordRefused(t) PROVE ProofsGoOn
  BY <1>2, ProofsStay DEF PasswordRefused, CeremonyEffect
<1>3. ASSUME NEW c \in Challenge, PasswordAccepted(t, c) PROVE ProofsGoOn
  <2>1. tasks[t].user \in User
    BY <1>3, TaskFields DEF PasswordAccepted
  <2>2. [status |-> "open", user |-> tasks[t].user, kind |-> "authentication"] \in ChallengeRow
    BY <2>1 DEF ChallengeRow
  <2>3. CeremonyEffect /\ UNCHANGED codes
    BY <1>3 DEF PasswordAccepted, CeremonyEffect
  <2>4. \/ challenges' = challenges
        \/ challenges' = [challenges EXCEPT ![c] = [status |-> "open", user |-> tasks[t].user,
                                                   kind |-> "authentication"]]
    BY <1>3 DEF PasswordAccepted
  <2> QED
    BY <1>3, <2>2, <2>3, <2>4 DEF PasswordAccepted, NoChallenge, ProofsGoOn, ProofType
<1>4. ASSUME NEW c \in Challenge, AssertionBegin(t, c) PROVE ProofsGoOn
  BY <1>4, SpentRow DEF AssertionBegin, ProofsGoOn, ProofType, CeremonyEffect
<1>5. ASSUME NEW m \in Ceremony, NEW crashed \in BOOLEAN, CodeAccepted(t, m, crashed)
      PROVE  ProofsGoOn
  <2> DEFINE k == tasks[t].code
  <2>1. k \in Code /\ tasks[t].user \in User
    BY <1>5, TaskFields DEF CodeAccepted
  <2>2. [codes[k] EXCEPT !.status = "used"] \in CodeRow
        /\ [codes[k] EXCEPT !.status = "used"].status = "used"
    BY <2>1 DEF ProofType, CodeRow
  <2>3. codes' = [codes EXCEPT ![k] = [codes[k] EXCEPT !.status = "used"]]
        /\ codes[k].status = "live"
    BY <1>5 DEF CodeAccepted, CodeIsLive
  <2>4. codes' \in [Code -> CodeRow] /\ codes'[k].status = "used"
        /\ \A j \in Code : codes[j].status = "used" => codes'[j].status = "used"
    BY <2>1, <2>2, <2>3 DEF ProofType
  <2>5. \/ UNCHANGED ceremonies
        \/ ceremonies[m] = NoCeremony /\ ceremonies' = IssuedCeremony(m, tasks[t].user, k)
    BY <1>5 DEF CodeAccepted
  <2>6. CeremonyEffect
    BY <2>1, <2>3, <2>4, <2>5 DEF CeremonyEffect
  <2> QED
    BY <1>5, <2>4, <2>6 DEF CodeAccepted, ProofsGoOn, ProofType
<1>6. ASSUME NEW m \in Ceremony, NEW v \in BOOLEAN, AssertionFinish(t, m, v) PROVE ProofsGoOn
  <2> DEFINE u == challenges[tasks[t].challenge].user
  <2>1. u \in User \cup {NONE}
    BY <1>6, TaskFields DEF AssertionFinish, ProofType, ChallengeRow
  <2>2. CeremonyEffect
    BY <1>6, <2>1 DEF AssertionFinish, CeremonyEffect
  <2> QED
    BY <1>6, <2>2, ProofsStay DEF AssertionFinish
<1> QED
  BY <1>1, <1>2, <1>3, <1>4, <1>5, <1>6 DEF Proving

\* No step makes a spent challenge or a used code good again.
LEMMA ProofsStep ==
  ASSUME RowType, References, [SystemNext]_systemVars
  PROVE  ProofsGoOn
<1> USE DEF RowType
<1>1. CASE UNCHANGED emergencyVars
  BY <1>1, ProofsStay DEF emergencyVars, CeremonyEffect
<1>2. CASE EmergencyRestart
  <2>1. CeremonyEffect
    BY <1>2 DEF EmergencyRestart, CeremonyEffect
  <2> QED
    BY <1>2, <2>1, SpentRow DEF EmergencyRestart, ProofsGoOn, ProofType
<1>3. ASSUME NEW u \in User, LockLapses(u) PROVE ProofsGoOn
  BY <1>3, ProofsStay DEF LockLapses, CeremonyEffect
<1>4. ASSUME NEW c \in Challenge, ChallengeLapses(c) PROVE ProofsGoOn
  BY <1>4, SpentRow DEF ChallengeLapses, ProofsGoOn, ProofType, CeremonyEffect
<1>5. ASSUME NEW m \in Ceremony, CeremonyLapses(m) PROVE ProofsGoOn
  BY <1>5, ProofsStay DEF CeremonyLapses, CeremonyEffect
<1>6. ASSUME NEW t \in Task, Minting(t) PROVE ProofsGoOn
  <2>1. ASSUME NEW m \in Ceremony, AuthorizeEmergency(t, m) PROVE ProofsGoOn
    BY <2>1, <1>1 DEF AuthorizeEmergency
  <2>2. CASE OpenEmergencyRefused(t)
    BY <2>2, <1>1 DEF OpenEmergencyRefused
  <2>3. ASSUME NEW s \in Session, NEW crashed \in BOOLEAN, OpenEmergency(t, s, crashed)
        PROVE  ProofsGoOn
    BY <2>3, ProofsStay DEF OpenEmergency, CeremonyEffect
  <2>4. CASE ConsumeCeremony(t)
    <3>1. tasks[t].ceremony \in Ceremony
      BY <2>4, TaskFields DEF ConsumeCeremony
    <3>2. CeremonyEffect
      BY <2>4, <3>1 DEF ConsumeCeremony, CeremonyIsLive, CeremonyEffect
    <3> QED
      BY <2>4, <3>2, ProofsStay DEF ConsumeCeremony
  <2> QED
    BY <1>6, <2>1, <2>2, <2>3, <2>4 DEF Minting
<1>7. CASE EmergencyNext
  BY <1>3, <1>4, <1>5, <1>6, <1>7, CustodyProofs, ProvingProofs DEF EmergencyNext
<1> QED
  BY <1>1, <1>2, <1>7 DEF SystemNext, systemVars

\* Ceremonies keep their type.
LEMMA CeremoniesTyped ==
  ASSUME RowType, CeremonyEffect
  PROVE  ceremonies' \in [Ceremony -> CeremonyRow]
<1> USE DEF RowType, ProofType
<1>1. ASSUME NEW m \in Ceremony
      PROVE  /\ [ceremonies[m] EXCEPT !.status = "lapsed"] \in CeremonyRow
             /\ [ceremonies[m] EXCEPT !.status = "consumed"] \in CeremonyRow
  BY <1>1 DEF CeremonyRow
<1>2. ASSUME NEW u \in User \cup {NONE}, NEW p \in Code \cup Challenge
      PROVE  [status |-> "live", user |-> u, proof |-> p] \in CeremonyRow
  BY <1>2 DEF CeremonyRow
<1>3. ASSUME NEW m \in Ceremony, NEW u \in User \cup {NONE}, NEW p \in Code \cup Challenge
      PROVE  IssuedCeremony(m, u, p) \in [Ceremony -> CeremonyRow]
  BY <1>2 DEF IssuedCeremony
<1>4. ASSUME NEW m \in Ceremony, ceremonies' = [ceremonies EXCEPT ![m].status = "consumed"]
      PROVE  ceremonies' \in [Ceremony -> CeremonyRow]
  BY <1>1, <1>4
<1>5. ASSUME NEW t \in Task, tasks[t].op = "assert" PROVE tasks[t].challenge \in Challenge
  BY <1>5, TaskFields
<1>6. ASSUME NEW m \in Ceremony, ceremonies' = [ceremonies EXCEPT ![m].status = "lapsed"]
      PROVE  ceremonies' \in [Ceremony -> CeremonyRow]
  BY <1>1, <1>6
<1>7. ASSUME NEW m \in Ceremony, NEW k \in Code, NEW u \in User,
             ceremonies' = IssuedCeremony(m, u, k)
      PROVE  ceremonies' \in [Ceremony -> CeremonyRow]
  BY <1>3, <1>7
<1>8. ASSUME NEW m \in Ceremony, NEW t \in Task, NEW u \in User \cup {NONE},
             tasks[t].op = "assert", ceremonies' = IssuedCeremony(m, u, tasks[t].challenge)
      PROVE  ceremonies' \in [Ceremony -> CeremonyRow]
  BY <1>3, <1>5, <1>8
<1>9. CASE UNCHANGED ceremonies
  BY <1>9
<1> QED
  BY <1>4, <1>6, <1>7, <1>8, <1>9 DEF CeremonyEffect

-----------------------------------------------------------------------------
(* Types and references are kept *)

\* Every step keeps the types.
LEMMA TypesKept ==
  ASSUME RowType, References, [SystemNext]_systemVars
  PROVE  RowType'
<1>1. IdentityType'
  BY IdentitiesStep DEF IdentitiesKept, IdentityType
<1>2. ProofType'
  BY ProofsStep, CeremoniesTyped DEF ProofsGoOn, ProofType
<1>3. AccountType'
  <2>1. CASE UNCHANGED systemVars
    BY <2>1 DEF systemVars, directoryVars, accountVars, RowType, AccountType
  <2>2. CASE SystemNext
    BY <2>2, SystemRight DEF Right, Typed, AccountType
  <2> QED
    BY <2>1, <2>2
<1> QED
  BY <1>1, <1>2, <1>3 DEF RowType

\* The designee is an account that exists.
LEMMA DesigneeExists ==
  ASSUME RowType, References, Effect, designee' # NONE
  PROVE  designee' \in User /\ Exists(designee')
<1>1. designee \in User \cup {NONE} /\ (designee # NONE => Exists(designee))
  BY DEF RowType, AccountType, References
<1>2. \A u \in ActiveAdmins : u \in User /\ Exists(u)
  BY DEF ActiveAdmins, Active, Exists
<1>3. designee' = designee \/ designee' \in ActiveAdmins
  BY DEF Effect, Quiet, Weakened, Made, Retired, Designated, Revived, Opened, Rehashed,
     LinkIssued, LinkLapsed
<1> QED
  BY <1>1, <1>2, <1>3

\* A step of the system, or none at all, has one of the effects.
LEMMA RestOrStep ==
  ASSUME RowType, References, [SystemNext]_systemVars
  PROVE  Effect /\ Typed /\ TasksGoOn /\ tasks' \in [Task -> TaskRow]
<1>1. CASE UNCHANGED systemVars
  <2>1. Quiet /\ UNCHANGED tasks
    BY <1>1 DEF systemVars, directoryVars, accountVars, Quiet
  <2> QED
    BY <2>1, Unchanged, StillThere DEF RowType
<1>2. CASE SystemNext
  BY <1>2, SystemRight DEF Right
<1> QED
  BY <1>1, <1>2

\* Every step keeps the references.
LEMMA ReferencesKept ==
  ASSUME RowType, References, [SystemNext]_systemVars
  PROVE  References'
<1> USE DEF RowType
<1>1. Effect /\ Typed /\ TasksGoOn
  BY RestOrStep
<1>2. \A u \in User : /\ Exists(u) => users'[u].status # "absent"
                      /\ users'[u].status = "absent" => users'[u] = users[u]
  BY <1>1, EffectGrows DEF Exists
<1>3. \A u \in User : users'[u].status = "absent" => users'[u] = NoUser
  BY <1>2 DEF References, Exists
<1>4. ASSUME NEW s \in Session, sessions'[s].status # "none"
      PROVE  sessions'[s].user \in User /\ users'[sessions'[s].user].status # "absent"
  <2>1. sessions'[s].user \in User /\ Exists(sessions'[s].user)
    BY <1>1, <1>4, EffectSessions DEF References
  <2> QED
    BY <1>2, <2>1
<1>5. ASSUME NEW k \in Token, tokens'[k].status # "none"
      PROVE  tokens'[k].user \in User /\ users'[tokens'[k].user].status # "absent"
  <2>1. tokens'[k].user \in User /\ Exists(tokens'[k].user)
    BY <1>1, <1>5, EffectTokens DEF References, KnownOwner
  <2> QED
    BY <1>2, <2>1
<1>6. ASSUME NEW x \in Subject, identities'[x].status # "none"
      PROVE  identities'[x].user \in User /\ users'[identities'[x].user].status # "absent"
  BY <1>2, <1>6, IdentitiesStep DEF IdentitiesKept
<1>7. \A x \in Subject : identities'[x].status = "none" => identities'[x] = NoLink
  BY IdentitiesStep DEF IdentitiesKept
<1>8. Somebody => Somebody'
  BY <1>2 DEF Somebody, Exists
<1>9. ASSUME NEW t \in Task
      PROVE  /\ tasks'[t].op \in Personal => users'[tasks'[t].user].status # "absent"
             /\ tasks'[t].op = "open" => tasks'[t].shown = tasks'[t].held
             /\ tasks'[t].op \in {"create", "temporary"} => Somebody'
  <2>1. \/ tasks'[t] = tasks[t]
        \/ tasks'[t] = Idle
        \/ /\ tasks'[t] \in TaskRow
           /\ tasks'[t].op \in Personal => Exists(tasks'[t].user)
           /\ tasks'[t].op = "open" => tasks'[t].shown = tasks'[t].held
           /\ tasks'[t].op \in {"create", "temporary"} => Somebody
    BY <1>1 DEF TasksGoOn
  <2>2. tasks[t].op \in Personal => tasks[t].user \in User
    BY TaskFields
  <2>3. tasks'[t] \in TaskRow /\ tasks'[t].op \in Personal => tasks'[t].user \in User
    BY DEF TaskRow, Idle, Personal
  <2>4. CASE tasks'[t] = tasks[t]
    BY <1>2, <1>8, <2>2, <2>4 DEF References
  <2>5. CASE tasks'[t] = Idle
    BY <2>5 DEF Idle, Personal
  <2> QED
    BY <1>2, <1>8, <2>1, <2>3, <2>4, <2>5
<1>10. designee' # NONE => users'[designee'].status # "absent"
  BY <1>1, <1>2, DesigneeExists
<1> QED
  BY <1>3, <1>4, <1>5, <1>6, <1>7, <1>9, <1>10 DEF References, Exists

\* The initial tables are typed and empty.
LEMMA AtFirst ==
  ASSUME EmergencyInit
  PROVE  RowType /\ References
<1> USE DEF EmergencyInit, FederationInit, DirectoryInit
<1>1. AccountType
  <2>1. NoPassword \in Passwords
    BY AccountsAssumption DEF NoPassword, Passwords, Disabled
  <2>2. NoUser \in Account
    BY <2>1 DEF NoUser, Account, Roles
  <2>3. NoSession \in SessionRow
    BY <2>1 DEF NoSession, SessionRow, Roles, Sources, Proofs, Shown
  <2>4. NoToken \in Link
    BY <2>1 DEF NoToken, Link
  <2>5. Idle \in TaskRow
    BY DEF TaskRow
  <2> QED
    BY <2>2, <2>3, <2>4, <2>5 DEF AccountType
<1>2. IdentityType
  BY DEF IdentityType, Identity, NoLink
<1>3. ProofType
  BY DEF ProofType, NoChallenge, NoCode, NoCeremony, ChallengeRow, CodeRow, CeremonyRow
<1>4. References
  BY DEF References, Exists, NoUser, NoSession, NoToken, NoLink, Idle, Personal
<1> QED
  BY <1>1, <1>2, <1>3, <1>4 DEF RowType

\* Rows keep their types, and what refers to an account refers to one that exists.
THEOREM SystemRows == SystemSpec => [](RowType /\ References)
<1>1. EmergencyInit => RowType /\ References
  BY AtFirst
<1>2. RowType /\ References /\ [SystemNext]_systemVars => (RowType /\ References)'
  BY TypesKept, ReferencesKept
<1> QED
  BY <1>1, <1>2, PTL DEF SystemSpec

-----------------------------------------------------------------------------
(* Administrators *)

\* No effect takes the last administrator, or the designee's administration, away.
LEMMA AdminStays ==
  ASSUME RowType, References, Effect, AnAdminRemains
  PROVE  AnAdminRemains'
<1> USE DEF RowType
<1> DEFINE IsAdmin(u) == users[u].status = "active" /\ users[u].role = "admin"
           Goal == /\ offboarded' \/ (\E u \in User : IsAdmin(u)') \/ ~Somebody'
                   /\ designee' # NONE => \E a \in User : a = designee' /\ IsAdmin(a)'
<1>1. /\ offboarded \/ (\E u \in User : IsAdmin(u)) \/ ~Somebody
      /\ designee # NONE => designee \in User /\ IsAdmin(designee)
  BY DEF AnAdminRemains, Unmanageable, ActiveAdmins, Active, Somebody
<1>2. SUFFICES Goal
  BY DEF AnAdminRemains, Unmanageable, ActiveAdmins, Active, Somebody
<1>3. CASE UNCHANGED <<users, offboarded>> /\ (designee' = designee \/ designee' \in ActiveAdmins)
  <2>1. designee' \in ActiveAdmins => designee' \in User /\ IsAdmin(designee')
    BY DEF ActiveAdmins, Active
  <2> QED
    BY <1>1, <1>3, <2>1 DEF Somebody, Exists
<1>4. ASSUME NEW u \in User, Made(u) PROVE Goal
  <2>1. \A v \in User : IsAdmin(v) => v # u /\ IsAdmin(v)'
    BY <1>4 DEF Made, Others, Exists
  <2>2. IsAdmin(u)' \/ Somebody
    BY <1>4 DEF Made
  <2>3. UNCHANGED <<designee, offboarded>>
    BY <1>4 DEF Made
  <2> QED
    BY <1>1, <2>1, <2>2, <2>3
<1>5. ASSUME NEW u \in User, Retired(u) PROVE Goal
  <2>1. \A v \in User : v # u /\ IsAdmin(v) => IsAdmin(v)'
    BY <1>5 DEF Retired, Others
  <2>2. IsAdmin(u) /\ ~IsAdmin(u)' =>
          /\ designee # u /\ designee' = designee
          /\ offboarded' \/ \E v \in User \ {u} : IsAdmin(v)
    BY <1>5 DEF Retired, ActiveAdmins, Active
  <2>3. /\ designee' = designee \/ (designee' \in User /\ IsAdmin(designee'))
        /\ offboarded => offboarded'
    BY <1>5 DEF Retired, ActiveAdmins, Active
  <2>4. Somebody
    BY <1>5 DEF Retired, Somebody
  <2>5. offboarded' \/ \E v \in User : IsAdmin(v)'
    <3>1. CASE offboarded
      BY <2>3, <3>1
    <3>2. CASE \E v \in User : IsAdmin(v)
      BY <2>1, <2>2, <3>2
    <3> QED
      BY <1>1, <2>4, <3>1, <3>2
  <2>6. designee' # NONE => \E a \in User : a = designee' /\ IsAdmin(a)'
    BY <1>1, <2>1, <2>2, <2>3
  <2> QED
    BY <2>5, <2>6
<1>6. ASSUME NEW u \in User, Exists(u), Others(u), users'[u].role = users[u].role,
             Active(u) => users'[u].status = "active", UNCHANGED <<designee, offboarded>>
      PROVE  Goal
  <2>1. \A v \in User : IsAdmin(v) => IsAdmin(v)'
    BY <1>6 DEF Others, Active
  <2>2. Somebody
    BY <1>6 DEF Somebody
  <2> QED
    BY <1>1, <1>6, <2>1, <2>2
<1>7. ASSUME NEW u \in User, Revived(u) PROVE Goal
  <2>1. Revive(u).role = users[u].role /\ (Active(u) => Revive(u) = users[u])
    BY DEF Revive, AccountType, Account
  <2>2. Exists(u) /\ Others(u) /\ users'[u] = Revive(u) /\ UNCHANGED <<designee, offboarded>>
    BY <1>7 DEF Revived
  <2> HIDE DEF Goal
  <2> QED
    BY <1>6, <2>1, <2>2 DEF Active
<1>8. ASSUME NEW u \in User, NEW s \in Session, Rehashed(u, s) PROVE Goal
  <2>1. users'[u].role = users[u].role /\ users'[u].status = users[u].status
    BY <1>8, RehashedRow
  <2>2. Exists(u) /\ Others(u) /\ UNCHANGED <<designee, offboarded>>
    BY <1>8 DEF Rehashed
  <2> HIDE DEF Goal
  <2> QED
    BY <1>6, <2>1, <2>2 DEF Active
<1>9. CASE \/ Quiet \/ Weakened \/ \E u \in User : Designated(u)
           \/ \E u \in User, s \in Session : Opened(u, s)
           \/ \E u \in User, k \in Token : LinkIssued(u, k)
           \/ \E k \in Token : LinkLapsed(k)
  BY <1>3, <1>9 DEF Quiet, Weakened, Designated, Opened, LinkIssued, LinkLapsed
<1> QED
  BY <1>4, <1>5, <1>7, <1>8, <1>9 DEF Effect

\* Administrators cannot lock themselves out (assertMayDeactivate, changeAccountRole): whatever
\* they, their requests in flight and the operators do, short of offboardLinkedUser, an
\* instance with accounts has an administrator and the break-glass designee is one.
THEOREM AdminTheorem == SystemSpec => []AnAdminRemains
<1>1. EmergencyInit => AnAdminRemains
  BY DEF EmergencyInit, FederationInit, DirectoryInit, AnAdminRemains, Unmanageable, Exists, NoUser
<1>2. RowType /\ References /\ AnAdminRemains /\ [SystemNext]_systemVars => AnAdminRemains'
  BY RestOrStep, AdminStays
<1> QED
  BY <1>1, <1>2, SystemRows, PTL DEF SystemSpec

-----------------------------------------------------------------------------
(* Sessions *)

\* The version tells whether role or status have changed since.
LEMMA VersionsTell ==
  ASSUME RowType, Effect, NEW u \in User, Exists(u)
  PROVE  \/ users'[u].ver > users[u].ver
         \/ /\ users'[u].ver = users[u].ver
            /\ users'[u].status = users[u].status /\ users'[u].role = users[u].role
<1> USE DEF RowType
<1>0. users[u] \in Account /\ users[u].ver \in Nat
  BY DEF AccountType, Account
<1>1. CASE users'[u] = users[u]
  BY <1>0, <1>1
<1>2. ASSUME NEW v \in User, Made(v) \/ Retired(v)
      PROVE  users'[u] = users[u] \/ (u = v /\ users'[u].ver > users[u].ver)
  BY <1>0, <1>2 DEF Made, Retired, Others
<1>3. ASSUME NEW v \in User, Revived(v)
      PROVE  users'[u] = users[u] \/ (u = v /\ users'[u].ver > users[u].ver)
  <2>1. CASE u = v /\ ~Active(v)
    <3>1. Revive(u).ver = users[u].ver + 1
      BY <1>0, <2>1 DEF Revive, Bumped, Account
    <3> QED
      BY <1>0, <1>3, <2>1, <3>1 DEF Revived
  <2>2. CASE u = v /\ Active(v)
    BY <1>3, <2>2 DEF Revived, Revive
  <2> QED
    BY <1>3, <2>1, <2>2 DEF Revived, Others
<1>4. ASSUME NEW v \in User, NEW s \in Session, Rehashed(v, s)
      PROVE  /\ users'[u].ver = users[u].ver
             /\ users'[u].status = users[u].status /\ users'[u].role = users[u].role
  <2>1. CASE u = v
    BY <1>4, <2>1, RehashedRow
  <2>2. CASE u # v
    BY <1>4, <2>2 DEF Rehashed, Others
  <2> QED
    BY <2>1, <2>2
<1>5. CASE \E v \in User : Made(v) \/ Retired(v) \/ Revived(v)
  BY <1>1, <1>2, <1>3, <1>5
<1>6. CASE \E v \in User, s \in Session : Rehashed(v, s)
  BY <1>4, <1>6
<1>7. CASE users' = users
  BY <1>1, <1>7
<1> QED
  BY <1>5, <1>6, <1>7 DEF Effect, Quiet, Weakened, Designated, Opened, LinkIssued, LinkLapsed

\* A session that is active after a step is new, or was active and stands for no more:
\* its password, and what its caller showed, follow the account's when the account's
\* version does not change.
Follows(s) ==
  LET u == sessions[s].user IN
  /\ sessions[s].status = "active"
  /\ sessions'[s].user = u /\ sessions'[s].ver = sessions[s].ver
  /\ sessions'[s].role = sessions[s].role /\ sessions'[s].source = sessions[s].source
  /\ sessions[s].due => sessions'[s].due
  /\ \/ users'[u].ver > users[u].ver
     \/ /\ sessions'[s].pw = sessions[s].pw /\ users'[u].pw = users[u].pw
        /\ sessions'[s].shown = sessions[s].shown
     \/ /\ sessions'[s].pw = users'[u].pw
        /\ sessions'[s].shown = IF sessions[s].source = "local" THEN users'[u].pw
                                ELSE sessions[s].shown

\* How a session comes to be active after a step.
LEMMA SessionAfter ==
  ASSUME RowType, References, Effect, NEW s \in Session, sessions'[s].status = "active"
  PROVE  Follows(s) \/ \E u \in User : Opened(u, s)
<1> USE DEF RowType
<1> DEFINE o == sessions[s].user
<1>1. CASE users' = users /\ Weaker(s)
  BY <1>1 DEF Weaker, Follows
<1>2. ASSUME sessions'[s] = sessions[s], users'[o] = users[o] \/ users'[o].ver > users[o].ver
      PROVE  Follows(s)
  BY <1>2 DEF Follows
<1>3. ASSUME NEW u \in User, Made(u) PROVE Follows(s)
  <2>1. sessions'[s] = sessions[s]
    BY <1>3 DEF Made
  <2>2. o \in User /\ Exists(o)
    BY <2>1 DEF References
  <2> QED
    BY <1>2, <1>3, <2>1, <2>2 DEF Made, Others
<1>4. ASSUME NEW u \in User, Retired(u) PROVE Follows(s)
  <2>1. sessions'[s] = sessions[s] /\ o # u
    BY <1>4, RevokedRows DEF Retired, Revoked, SessionsOf, AccountType, SessionRow
  <2>2. o \in User
    BY <2>1 DEF References
  <2> QED
    BY <1>2, <1>4, <2>1, <2>2 DEF Retired, Others
<1>5. ASSUME NEW u \in User, Revived(u) PROVE Follows(s)
  <2>1. sessions'[s] = sessions[s]
    BY <1>5 DEF Revived
  <2>2. o \in User /\ Exists(o)
    BY <2>1 DEF References
  <2>3. users'[o] = users[o] \/ users'[o].ver > users[o].ver
    <3>1. users[u] \in Account /\ users[u].ver \in Nat
      BY DEF AccountType, Account
    <3>2. CASE o = u /\ ~Active(u)
      <4>1. Revive(u).ver = users[u].ver + 1
        BY <3>1, <3>2 DEF Revive, Bumped, Account
      <4> QED
        BY <1>5, <3>1, <3>2, <4>1 DEF Revived
    <3>3. CASE o = u /\ Active(u)
      BY <1>5, <3>3 DEF Revived, Revive
    <3> QED
      BY <1>5, <2>2, <3>2, <3>3 DEF Revived, Others
  <2> QED
    BY <1>2, <2>1, <2>3
<1>6. ASSUME NEW u \in User, NEW r \in Session, Rehashed(u, r) PROVE Follows(s)
  <2> DEFINE S == SessionsOf(u) \ {r}
  <2>1. /\ Revoked(S) \in [Session -> SessionRow]
        /\ Revoked(S)[s].status = IF s \in S /\ sessions[s].status = "active" THEN "revoked"
                                  ELSE sessions[s].status
        /\ Revoked(S)[s].user = sessions[s].user /\ Revoked(S)[s].ver = sessions[s].ver
        /\ Revoked(S)[s].role = sessions[s].role /\ Revoked(S)[s].pw = sessions[s].pw
        /\ Revoked(S)[s].source = sessions[s].source /\ Revoked(S)[s].due = sessions[s].due
        /\ Revoked(S)[s].shown = sessions[s].shown
    <3> HIDE DEF S
    <3> QED
      BY RevokedRows
  <2>2. sessions' = [Revoked(S) EXCEPT
          ![r].pw = users'[u].pw,
          ![r].shown = IF sessions[r].source = "local" THEN users'[u].pw ELSE @]
    BY <1>6 DEF Rehashed
  <2>3. s # r => s \notin SessionsOf(u) \/ s \in S
    OBVIOUS
  <2> HIDE DEF S
  <2>4. /\ sessions'[s].status = Revoked(S)[s].status /\ sessions'[s].user = Revoked(S)[s].user
        /\ sessions'[s].ver = Revoked(S)[s].ver /\ sessions'[s].role = Revoked(S)[s].role
        /\ sessions'[s].source = Revoked(S)[s].source /\ sessions'[s].due = Revoked(S)[s].due
        /\ sessions'[s].pw = IF s = r THEN users'[u].pw ELSE Revoked(S)[s].pw
        /\ sessions'[s].shown = IF s = r /\ sessions[s].source = "local" THEN users'[u].pw
                                ELSE Revoked(S)[s].shown
    BY <2>1, <2>2 DEF SessionRow
  <2>5. sessions[s].status = "active" /\ s \notin S
    BY <1>6, <2>1, <2>4
  <2>6. CASE s = r
    <3>1. o = u
      BY <1>6, <2>6 DEF Rehashed, Actor
    <3> QED
      BY <2>1, <2>4, <2>5, <2>6, <3>1 DEF Follows
  <2>7. CASE s # r
    <3>1. o # u
      BY <2>3, <2>5, <2>7 DEF SessionsOf
    <3>2. o \in User
      BY <2>5 DEF References
    <3>3. users'[o] = users[o]
      BY <1>6, <3>1, <3>2 DEF Rehashed, Others
    <3> QED
      BY <2>1, <2>4, <2>5, <2>7, <3>3 DEF Follows
  <2> QED
    BY <2>6, <2>7
<1>7. ASSUME NEW u \in User, NEW r \in Session, Opened(u, r)
       PROVE  Follows(s) \/ Opened(u, s)
  <2>1. CASE s # r
    <3>1. sessions'[s] = sessions[s] /\ users' = users
      BY <1>7, <2>1 DEF Opened
    <3> QED
      BY <1>2, <3>1
  <2> QED
    BY <1>7, <2>1
<1>8. CASE \/ Quiet \/ Weakened \/ \E u \in User : Designated(u)
           \/ \E u \in User, k \in Token : LinkIssued(u, k)
           \/ \E k \in Token : LinkLapsed(k)
  BY <1>1, <1>8 DEF Quiet, Weakened, Designated, LinkIssued, LinkLapsed, Weaker
<1> QED
  <2>1. CASE \E u \in User : Made(u) \/ Retired(u) \/ Revived(u)
    BY <1>3, <1>4, <1>5, <2>1
  <2>2. CASE \E u \in User, r \in Session : Opened(u, r) \/ Rehashed(u, r)
    BY <1>7, <1>6, <2>2
  <2> QED
    BY <1>8, <2>1, <2>2 DEF Effect

\* Why a session that is still accepted is right about its account: at the account's
\* version it has the account's role and, if it was opened on it, the password; and
\* what its caller showed is the account's, where it is known.
StandFor ==
  \A s \in Session : sessions[s].status = "active" =>
    LET u == sessions[s].user IN
    /\ sessions[s].ver =< users[u].ver
    /\ sessions[s].ver = users[u].ver =>
         /\ sessions[s].role = users[u].role
         /\ sessions[s].source = "local" =>
              sessions[s].pw = users[u].pw /\ sessions[s].shown \in {users[u].pw, NONE}
         /\ sessions[s].source = "authentik" => sessions[s].shown \in {users[u].role, NONE}

\* Every effect keeps sessions right about their accounts.
LEMMA StandForKept ==
  ASSUME RowType, References, Effect, Typed, StandFor
  PROVE  StandFor'
<1> USE DEF RowType
<1> DEFINE Stands(s) ==
      LET u == sessions[s].user IN
      /\ sessions[s].ver =< users[u].ver
      /\ sessions[s].ver = users[u].ver =>
           /\ sessions[s].role = users[u].role
           /\ sessions[s].source = "local" =>
                sessions[s].pw = users[u].pw /\ sessions[s].shown \in {users[u].pw, NONE}
           /\ sessions[s].source = "authentik" => sessions[s].shown \in {users[u].role, NONE}
<1> SUFFICES ASSUME NEW s \in Session, sessions'[s].status = "active"
             PROVE  Stands(s)'
  BY DEF StandFor
<1>1. CASE Follows(s)
  <2> DEFINE u == sessions[s].user
  <2>1. u \in User /\ Exists(u) /\ sessions[s].status = "active"
    BY <1>1 DEF Follows, References
  <2>2. users[u].ver \in Nat /\ sessions[s].ver \in Nat
    BY <2>1 DEF AccountType, Account, SessionRow
  <2>3. \/ users'[u].ver \in Nat /\ users'[u].ver > users[u].ver
        \/ users'[u].ver = users[u].ver /\ users'[u].role = users[u].role
    <3>1. \/ users'[u].ver > users[u].ver
          \/ users'[u].ver = users[u].ver /\ users'[u].role = users[u].role
      BY <2>1, VersionsTell
    <3>2. users'[u].ver \in Nat
      BY <2>1 DEF Typed, Account
    <3> QED
      BY <3>1, <3>2
  <2> QED
    BY <1>1, <2>1, <2>2, <2>3 DEF Follows, StandFor
<1>2. ASSUME NEW u \in User, Opened(u, s) PROVE Stands(s)'
  <2>1. users' = users /\ users[u].ver \in Nat
    BY <1>2 DEF Opened, AccountType, Account
  <2> QED
    BY <1>2, <2>1 DEF Opened
<1> QED
  BY <1>1, <1>2, SessionAfter

\* A session accepted after a step was accepted before it, or is new.
LEMMA RefusalLasts ==
  ASSUME RowType, References, StandFor, Effect, NEW s \in Session,
         sessions[s] # NoSession, Usable(s)'
  PROVE  Usable(s)
<1> DEFINE u == sessions[s].user
<1>1. /\ sessions'[s].status = "active" /\ ~sessions'[s].due
      /\ users'[sessions'[s].user].status = "active"
      /\ sessions'[s].ver = users'[sessions'[s].user].ver
  BY DEF Usable, Active
<1>2. Follows(s)
  BY <1>1, SessionAfter DEF Opened
<1>3. /\ sessions[s].status = "active" /\ ~sessions[s].due
      /\ users'[u].status = "active" /\ sessions[s].ver = users'[u].ver
  BY <1>1, <1>2 DEF Follows
<1>4. u \in User /\ Exists(u) /\ sessions[s].ver =< users[u].ver
  BY <1>3 DEF References, StandFor
<1>5. users[u].ver \in Nat /\ sessions[s].ver \in Nat
  BY <1>4 DEF RowType, AccountType, Account, SessionRow
<1>6. ~(users'[u].ver > users[u].ver)
  BY <1>3, <1>4, <1>5
<1>7. users'[u].ver = users[u].ver /\ users'[u].status = users[u].status
  BY <1>4, <1>6, VersionsTell
<1> QED
  BY <1>3, <1>7 DEF Usable, Active

\* Sessions are right about their accounts in every reachable state.
LEMMA StandingIsInvariant == SystemSpec => []StandFor
<1>1. EmergencyInit => StandFor
  BY DEF EmergencyInit, FederationInit, DirectoryInit, StandFor, NoSession
<1>2. RowType /\ References /\ StandFor /\ [SystemNext]_systemVars => StandFor'
  BY RestOrStep, StandForKept
<1> QED
  BY <1>1, <1>2, SystemRows, PTL DEF SystemSpec

\* Every session that validateAuthSession accepts has its account's present role and, with a
\* password, its present password since its row was written (createAuthSession); what its
\* caller was let in on (verifyLocalCredentials, resolveOidcAdmission) is present too, unless
\* the account changed between that check and the row, a window the code leaves open.
THEOREM CurrentTheorem == SystemSpec => []UsableSessionsAreCurrent
<1>1. StandFor => UsableSessionsAreCurrent
  BY DEF StandFor, UsableSessionsAreCurrent, Usable, Actor
<1> QED
  BY <1>1, StandingIsInvariant, PTL

\* A session that validateAuthSession would refuse once is refused for good, whatever
\* reviveAtSignIn, changeAccountLifecycle or a later sign-in does to the account.
THEOREM RefusalTheorem == SystemSpec => RefusedForGood
<1> DEFINE Lasts == \A s \in Session : sessions[s] # NoSession /\ ~Usable(s) => ~Usable(s)'
<1>1. RowType /\ References /\ StandFor /\ [SystemNext]_systemVars => Lasts
  BY RestOrStep, RefusalLasts
<1> QED
  BY <1>1, SystemRows, StandingIsInvariant, PTL DEF SystemSpec, RefusedForGood

-----------------------------------------------------------------------------
(* Deactivation *)

\* An account that was removed is not one its owner deactivated.
RemovedIsBarred == \A u \in User : Barred(users[u], u)

\* Every effect keeps removal out of the owner's reach.
LEMMA BarredStays ==
  ASSUME RowType, Effect, RemovedIsBarred
  PROVE  RemovedIsBarred'
<1> USE DEF RowType
<1> SUFFICES ASSUME NEW u \in User PROVE Barred(users'[u], u)
  BY DEF RemovedIsBarred
<1>0. users[u] \in Account /\ Barred(users[u], u)
  BY DEF AccountType, RemovedIsBarred
<1>1. CASE users'[u] = users[u]
  BY <1>0, <1>1
<1>2. ASSUME NEW v \in User, Made(v) \/ Retired(v) PROVE Barred(users'[u], u)
  <2>1. CASE u = v
    BY <1>0, <1>2, <2>1 DEF Made, Retired, Barred
  <2>2. CASE u # v
    BY <1>1, <1>2, <2>2 DEF Made, Retired, Others
  <2> QED
    BY <2>1, <2>2
<1>3. ASSUME NEW v \in User, Revived(v) PROVE Barred(users'[u], u)
  <2>1. CASE u = v /\ ~Active(u)
    <3>1. users[u].by = u /\ users'[u] = Revive(u)
      BY <1>3, <2>1 DEF Revived, MayRevive
    <3>2. Revive(u).removed = users[u].removed
      BY <1>0, <2>1 DEF Revive, Account
    <3> QED
      BY <1>0, <3>1, <3>2 DEF Barred
  <2>2. CASE u = v /\ Active(u)
    BY <1>1, <1>3, <2>2 DEF Revived, Revive
  <2>3. CASE u # v
    BY <1>1, <1>3, <2>3 DEF Revived, Others
  <2> QED
    BY <2>1, <2>2, <2>3
<1>4. ASSUME NEW v \in User, NEW s \in Session, Rehashed(v, s) PROVE Barred(users'[u], u)
  <2>1. CASE u = v
    BY <1>0, <1>4, <2>1, RehashedRow DEF Barred
  <2>2. CASE u # v
    BY <1>1, <1>4, <2>2 DEF Rehashed, Others
  <2> QED
    BY <2>1, <2>2
<1>5. CASE \E v \in User : Made(v) \/ Retired(v) \/ Revived(v)
  BY <1>2, <1>3, <1>5
<1>6. CASE \E v \in User, s \in Session : Rehashed(v, s)
  BY <1>4, <1>6
<1>7. CASE users' = users
  BY <1>1, <1>7
<1> QED
  BY <1>5, <1>6, <1>7 DEF Effect, Quiet, Weakened, Designated, Opened, LinkIssued, LinkLapsed

\* Who can make an inactive account active, and in what state of its sessions.
LEMMA WhoComesBack ==
  ASSUME RowType, References, Effect, RemovedIsBarred, NEW u \in User,
         Exists(u), ~Active(u), Active(u)'
  PROVE  /\ ~users[u].removed
         /\ \/ users[u].by = u
            \/ /\ \E s \in Session : ActingAdmin(s) /\ Actor(s) # u
               /\ \A s \in SessionsOf(u)' : ~Usable(s)'
<1> USE DEF RowType
<1>0. users'[u] # users[u] /\ Barred(users[u], u)
  BY DEF Active, RemovedIsBarred
<1>1. CASE Retired(u)
  <2>1. ~users[u].removed /\ \E s \in Session : ActingAdmin(s) /\ Actor(s) # u
    BY <1>1 DEF Retired, Active
  <2>2. ASSUME NEW s \in Session, sessions'[s].user = u PROVE sessions'[s].status # "active"
    BY <1>1, <2>2, RevokedRows DEF Retired, SessionsOf
  <2>3. \A s \in SessionsOf(u)' : ~Usable(s)'
    BY <2>2 DEF SessionsOf, Usable
  <2> QED
    BY <2>1, <2>3
<1>2. ASSUME Revived(u) PROVE users[u].by = u /\ ~users[u].removed
  BY <1>0, <1>2 DEF Revived, MayRevive, Barred
<1>3. ASSUME NEW s \in Session PROVE ~Rehashed(u, s)
  BY DEF Rehashed, Usable, Actor
<1>4. ~Made(u)
  BY DEF Made
<1>5. \A v \in User, s \in Session :
        v # u => ~Made(v) /\ ~Retired(v) /\ ~Revived(v) /\ ~Rehashed(v, s)
  BY <1>0 DEF Made, Retired, Revived, Rehashed, Others
<1>6. Retired(u) \/ Revived(u)
  <2>1. CASE \E v \in User : Made(v) \/ Retired(v) \/ Revived(v)
    BY <1>4, <2>1, <1>0 DEF Made, Retired, Revived, Others
  <2>2. CASE \E v \in User, s \in Session : Rehashed(v, s)
    BY <1>3, <1>5, <2>2
  <2>3. CASE users' = users
    BY <1>0, <2>3
  <2> QED
    BY <2>1, <2>2, <2>3 DEF Effect, Quiet, Weakened, Designated, Opened, LinkIssued, LinkLapsed
<1> QED
  BY <1>1, <1>2, <1>6

\* Removal is out of the owner's reach in every reachable state.
LEMMA BarredIsInvariant == SystemSpec => []RemovedIsBarred
<1>1. EmergencyInit => RemovedIsBarred
  BY DEF EmergencyInit, FederationInit, DirectoryInit, RemovedIsBarred, Barred, NoUser
<1>2. RowType /\ References /\ RemovedIsBarred /\ [SystemNext]_systemVars => RemovedIsBarred'
  BY RestOrStep, BarredStays
<1> QED
  BY <1>1, <1>2, SystemRows, PTL DEF SystemSpec

\* Nobody who was removed comes back, and nobody whom another deactivated comes back
\* except by changeAccountLifecycle, an administrator's, and with no session open.
THEOREM DeactivationTheorem == SystemSpec => DeactivationSticks
<1> DEFINE Sticks ==
      \A u \in User : Exists(u) /\ ~Active(u) /\ Active(u)' =>
        /\ ~users[u].removed
        /\ \/ users[u].by = u
           \/ /\ \E s \in Session : ActingAdmin(s) /\ Actor(s) # u
              /\ \A s \in SessionsOf(u)' : ~Usable(s)'
<1>1. RowType /\ References /\ RemovedIsBarred /\ [SystemNext]_systemVars => Sticks
  BY RestOrStep, WhoComesBack
<1> QED
  BY <1>1, SystemRows, BarredIsInvariant, PTL DEF SystemSpec, DeactivationSticks

-----------------------------------------------------------------------------
(* Password links *)

\* A link that is live after a step is its account's newest, or was live before and
\* the account's password is what it was or none at all.
Newest(j) ==
  LET v == tokens'[j].user IN
  /\ tokens'[j].pw = users'[v].pw
  /\ \A k \in Token \ {j} : tokens'[k].user = v => tokens'[k].status # "live"
StillLive(j) ==
  LET v == tokens[j].user IN
  /\ tokens[j].status = "live" /\ tokens'[j].user = v /\ tokens'[j].pw = tokens[j].pw
  /\ users'[v].pw \in {users[v].pw, Disabled}

\* A link that survives an invalidation is another account's.
LEMMA LiveAfterInvalidation ==
  ASSUME RowType, NEW u \in User, NEW j \in Token, Invalidated(u)[j].status = "live"
  PROVE  Invalidated(u)[j] = tokens[j] /\ tokens[j].user # u /\ tokens[j].status = "live"
BY InvalidatedRows DEF Invalidated, RowType

\* A link live after another was issued.
LEMMA LiveAfterIssue ==
  ASSUME RowType, NEW u \in User, NEW k \in Token, tokens' = Issued(u, k), Others(u),
         users'[u].pw = users[u].pw,
         NEW j \in Token, tokens'[j].status = "live", tokens'[j].user \in User
  PROVE  Newest(j) \/ StillLive(j)
<1> USE DEF RowType
<1>1. CASE j = k
  <2>1. tokens'[j].user = u /\ tokens'[j].pw = users[u].pw
    <3>1. Issued(u, k)[k] = [status |-> "live", user |-> u, due |-> FALSE, pw |-> users[u].pw]
      BY IssuedFields
    <3> QED
      BY <1>1, <3>1
  <2>2. \A i \in Token \ {j} : tokens'[i] = Invalidated(u)[i]
    BY <1>1, IssuedFields
  <2>3. \A i \in Token : Invalidated(u)[i].user = u => Invalidated(u)[i].status # "live"
    BY InvalidatedRows
  <2> QED
    BY <2>1, <2>2, <2>3 DEF Newest
<1>2. CASE j # k
  <2>1. tokens'[j] = Invalidated(u)[j]
    BY <1>2, IssuedFields
  <2>2. tokens'[j] = tokens[j] /\ tokens[j].user # u /\ tokens[j].status = "live"
    BY <2>1, LiveAfterInvalidation
  <2> QED
    BY <2>2 DEF StillLive, Others
<1> QED
  BY <1>1, <1>2

\* How a link comes to be live after a step.
LEMMA LinkAfter ==
  ASSUME RowType, References, Effect, NEW j \in Token, tokens'[j].status = "live"
  PROVE  Newest(j) \/ StillLive(j)
<1> USE DEF RowType
<1> DEFINE v == tokens'[j].user
<1>0. v \in User /\ Exists(v)
  BY EffectTokens DEF KnownOwner, References
<1>1. ASSUME tokens' = tokens, users'[v].pw \in {users[v].pw, Disabled} PROVE StillLive(j)
  BY <1>1 DEF StillLive
<1>2. ASSUME NEW u \in User, Others(u), tokens' = Invalidated(u) PROVE StillLive(j)
  <2>1. tokens'[j] = tokens[j] /\ tokens[j].user # u /\ tokens[j].status = "live"
    BY <1>2, LiveAfterInvalidation
  <2> QED
    BY <1>0, <1>2, <2>1 DEF StillLive, Others
<1>3. ASSUME NEW u \in User, Others(u), NEW k \in Token, tokens[k].user = u,
             tokens' = [Invalidated(u) EXCEPT ![k].status = "used"]
      PROVE  StillLive(j)
  <2>1. Invalidated(u) \in [Token -> Link]
    BY InvalidatedRows
  <2>2. j # k => tokens'[j] = Invalidated(u)[j]
    BY <1>3, <2>1
  <2>3. j = k => tokens'[j].status = "used"
    BY <1>3, <2>1 DEF Link
  <2>4. tokens'[j] = tokens[j] /\ tokens[j].user # u /\ tokens[j].status = "live"
    BY <2>2, <2>3, LiveAfterInvalidation
  <2> QED
    BY <1>0, <1>3, <2>4 DEF StillLive, Others
<1>4. ASSUME NEW u \in User, Made(u) PROVE StillLive(j)
  <2>1. v # u /\ tokens' = tokens
    BY <1>0, <1>4 DEF Made
  <2>2. users'[v] = users[v]
    BY <1>0, <1>4, <2>1 DEF Made, Others
  <2> QED
    BY <1>1, <2>1, <2>2
<1>5. ASSUME NEW u \in User, Retired(u) PROVE Newest(j) \/ StillLive(j)
  <2>1. Others(u) /\ LinksFollow(u)
    BY <1>5 DEF Retired
  <2>2. CASE tokens' = tokens /\ users'[u].pw \in {users[u].pw, Disabled}
    BY <1>0, <1>1, <2>1, <2>2 DEF Others
  <2>3. CASE tokens' = Invalidated(u)
    BY <1>2, <2>1, <2>3
  <2>4. CASE \E k \in Token : tokens' = Issued(u, k) /\ users'[u].pw = users[u].pw
    BY <1>0, <2>1, <2>4, LiveAfterIssue
  <2>5. CASE \E k \in Token : /\ tokens[k].user = u
                              /\ tokens' = [Invalidated(u) EXCEPT ![k].status = "used"]
    BY <1>3, <2>1, <2>5
  <2> QED
    BY <2>1, <2>2, <2>3, <2>4, <2>5 DEF LinksFollow
<1>6. ASSUME NEW u \in User, Revived(u) PROVE StillLive(j)
  <2>1. Revive(u).pw = users[u].pw
    BY DEF Revive, AccountType, Account
  <2>2. users'[v].pw = users[v].pw
    BY <1>0, <1>6, <2>1 DEF Revived, Others
  <2>3. tokens' = tokens
    BY <1>6 DEF Revived
  <2> QED
    BY <1>1, <2>2, <2>3
<1>7. ASSUME NEW u \in User, NEW s \in Session, Rehashed(u, s) PROVE StillLive(j)
  BY <1>2, <1>7 DEF Rehashed
<1>8. ASSUME NEW u \in User, NEW k \in Token, LinkIssued(u, k) PROVE Newest(j) \/ StillLive(j)
  BY <1>0, <1>8, LiveAfterIssue DEF LinkIssued, Others
<1>9. ASSUME NEW k \in Token, LinkLapsed(k) PROVE StillLive(j)
  <2>1. /\ tokens'[j].user = tokens[j].user /\ tokens'[j].pw = tokens[j].pw
        /\ tokens'[j].status = tokens[j].status /\ users' = users
    BY <1>9 DEF LinkLapsed, AccountType, Link
  <2> QED
    BY <2>1 DEF StillLive
<1>10. CASE \/ Quiet \/ Weakened \/ \E u \in User : Designated(u)
            \/ \E u \in User, s \in Session : Opened(u, s)
  BY <1>1, <1>10 DEF Quiet, Weakened, Designated, Opened
<1> QED
  <2>1. CASE \E u \in User : Made(u) \/ Retired(u) \/ Revived(u)
    BY <1>4, <1>5, <1>6, <2>1
  <2>2. CASE \E u \in User, s \in Session : Rehashed(u, s)
    BY <1>7, <2>2
  <2>3. CASE \E u \in User, k \in Token : LinkIssued(u, k)
    BY <1>8, <2>3
  <2>4. CASE \E k \in Token : LinkLapsed(k)
    BY <1>9, <2>4
  <2> QED
    BY <1>10, <2>1, <2>2, <2>3, <2>4 DEF Effect

\* Of an account's links one is live, and it is worth what the account's password is.
LinksStand ==
  /\ \A j, k \in Token : /\ tokens[j].status = "live" /\ tokens[k].status = "live"
                         /\ tokens[j].user = tokens[k].user
                         => j = k
  /\ \A k \in Token : tokens[k].status = "live" =>
       users[tokens[k].user].pw \in {tokens[k].pw, Disabled}

\* Every effect keeps links single and worth the account's password.
LEMMA LinksStandKept ==
  ASSUME RowType, References, Effect, LinksStand
  PROVE  LinksStand'
<1>1. ASSUME NEW j \in Token, NEW k \in Token, tokens'[j].status = "live",
             tokens'[k].status = "live", tokens'[j].user = tokens'[k].user
      PROVE  j = k
  <2>1. CASE Newest(j) \/ Newest(k)
    BY <1>1, <2>1 DEF Newest
  <2>2. CASE StillLive(j) /\ StillLive(k)
    BY <1>1, <2>2 DEF StillLive, LinksStand
  <2> QED
    BY <1>1, <2>1, <2>2, LinkAfter
<1>2. ASSUME NEW k \in Token, tokens'[k].status = "live"
      PROVE  users'[tokens'[k].user].pw \in {tokens'[k].pw, Disabled}
  BY <1>2, LinkAfter DEF Newest, StillLive, LinksStand
<1> QED
  BY <1>1, <1>2 DEF LinksStand

\* A link that is over is not written again.
LEMMA LinkEnds ==
  ASSUME RowType, Effect, NEW k \in Token, tokens[k].status \in {"dead", "used"}
  PROVE  tokens'[k] = tokens[k]
<1> USE DEF RowType
<1>1. ASSUME NEW u \in User, LinksFollow(u) \/ tokens' = Invalidated(u) PROVE tokens'[k] = tokens[k]
  <2>1. NoToken.status = "none"
    BY DEF NoToken
  <2>2. \/ tokens'[k] = tokens[k]
        \/ tokens[k] = NoToken
        \/ tokens[k].status = "live"
    BY <1>1, FollowedLinks
  <2> QED
    BY <2>1, <2>2
<1>2. ASSUME NEW u \in User, NEW j \in Token, LinkIssued(u, j) PROVE tokens'[k] = tokens[k]
  <2>1. k # j
    BY <1>2 DEF LinkIssued, NoToken
  <2>2. tokens'[k] = Invalidated(u)[k]
    BY <1>2, <2>1, IssuedFields DEF LinkIssued
  <2> QED
    BY <2>2 DEF Invalidated
<1>3. ASSUME NEW j \in Token, LinkLapsed(j) PROVE tokens'[k] = tokens[k]
  BY <1>3 DEF LinkLapsed, AccountType
<1>4. CASE \E u \in User : Made(u) \/ Retired(u) \/ Designated(u) \/ Revived(u)
  BY <1>1, <1>4 DEF Made, Retired, Designated, Revived
<1>5. CASE \E u \in User, s \in Session : Opened(u, s) \/ Rehashed(u, s)
  BY <1>1, <1>5 DEF Opened, Rehashed
<1>6. CASE Quiet \/ Weakened
  BY <1>6 DEF Quiet, Weakened
<1> QED
  BY <1>2, <1>3, <1>4, <1>5, <1>6 DEF Effect

\* Links are single and current in every reachable state.
LEMMA LinksAreInvariant == SystemSpec => []LinksStand
<1>1. EmergencyInit => LinksStand
  BY DEF EmergencyInit, FederationInit, DirectoryInit, LinksStand, NoToken
<1>2. RowType /\ References /\ LinksStand /\ [SystemNext]_systemVars => LinksStand'
  BY RestOrStep, LinksStandKept
<1> QED
  BY <1>1, <1>2, SystemRows, PTL DEF SystemSpec

\* A link that is over stays over; of an account's links one is live (issueResetToken), and
\* one that completePasswordReset would accept was issued for the account's present password.
THEOREM LinksTheorem == SystemSpec => ResetLinksAreCurrent
<1> DEFINE Ended == \A k \in Token : tokens[k].status \in {"dead", "used"} => tokens'[k] = tokens[k]
           Worth == \A k \in Token : MayRedeem(k)' => tokens'[k].pw = users'[tokens'[k].user].pw
           Single == \A j, k \in Token :
                       tokens'[j].status = "live" /\ tokens'[k].status = "live"
                       /\ tokens'[j].user = tokens'[k].user => j = k
<1>1. RowType /\ References /\ [SystemNext]_systemVars => Ended
  BY RestOrStep, LinkEnds
<1>2. LinksStand' => Worth
  BY DEF LinksStand, MayRedeem, Redeemable
<1>3. LinksStand' => Single
  BY DEF LinksStand
<1>4. RowType /\ References /\ LinksStand /\ [SystemNext]_systemVars => Ended /\ Worth /\ Single
  BY <1>1, <1>2, <1>3, RestOrStep, LinksStandKept
<1> QED
  BY <1>4, SystemRows, LinksAreInvariant, PTL DEF SystemSpec, ResetLinksAreCurrent

-----------------------------------------------------------------------------
(* Subjects *)

\* An account has one active subject in every reachable state.
LEMMA OneLinkIsInvariant == SystemSpec => []OneLink
<1>1. EmergencyInit => OneLink
  BY DEF EmergencyInit, FederationInit, OneLink, NoLink
<1>2. RowType /\ References /\ OneLink /\ [SystemNext]_systemVars => OneLink'
  BY IdentitiesStep DEF IdentitiesKept
<1> QED
  BY <1>1, <1>2, SystemRows, PTL DEF SystemSpec

\* A set without two elements has at most one.
LEMMA AtMostOne ==
  ASSUME NEW S, \A x, y \in S : x = y
  PROVE  Cardinality(S) <= 1
<1>1. CASE S = {}
  BY <1>1, FS_EmptySet
<1>2. CASE S # {}
  <2>1. PICK x \in S : TRUE
    BY <1>2
  <2>2. S = {x}
    BY <2>1
  <2> QED
    BY <2>2, FS_Singleton
<1> QED
  BY <1>1, <1>2

\* A subject never changes hands (applyIdentityLink, RelinkIdentity), a retired one admits
\* nobody again, and an account has one active link.
THEOREM SubjectsTheorem == SystemSpec => SubjectsAreReserved
<1> DEFINE Kept == \A x \in Subject : identities[x] # NoLink =>
                     /\ identities'[x].user = identities[x].user
                     /\ identities[x].status = "retired" => identities'[x].status = "retired"
           One == \A u \in User : Cardinality(LinkOf(u)') <= 1
<1>1. RowType /\ References /\ [SystemNext]_systemVars => Kept
  BY IdentitiesStep DEF IdentitiesKept, References
<1>2. OneLink' => One
  <2> SUFFICES ASSUME OneLink', NEW u \in User PROVE Cardinality(LinkOf(u)') <= 1
    OBVIOUS
  <2>1. \A x, y \in LinkOf(u)' : x = y
    BY DEF LinkOf, OneLink
  <2> QED
    BY <2>1, AtMostOne
<1>3. RowType /\ References /\ OneLink /\ [SystemNext]_systemVars => Kept /\ One
  BY <1>1, <1>2, IdentitiesStep DEF IdentitiesKept
<1> QED
  BY <1>3, SystemRows, OneLinkIsInvariant, PTL DEF SystemSpec, SubjectsAreReserved

-----------------------------------------------------------------------------
(* Proofs of emergency access *)

UsedUp(p) ==
  \/ p \in Code /\ codes[p].status = "used"
  \/ /\ p \in Challenge /\ challenges[p].status = "spent"
     /\ \A t \in Task : tasks[t].op = "assert" => tasks[t].challenge # p

\* A challenge that is being answered is spent, and answered once.
Answering ==
  /\ \A t \in Task : tasks[t].op = "assert" => challenges[tasks[t].challenge].status = "spent"
  /\ \A r, t \in Task : /\ tasks[r].op = "assert" /\ tasks[t].op = "assert"
                        /\ tasks[r].challenge = tasks[t].challenge
                        => r = t

\* What a ceremony was issued for is used up, and for no other ceremony.
IssuedOnce ==
  /\ \A m \in Ceremony : Granted(m) => UsedUp(ceremonies[m].proof)
  /\ \A m, n \in Ceremony : /\ Granted(m) /\ Granted(n)
                            /\ ceremonies[m].proof = ceremonies[n].proof
                            => m = n

\* An emergency session was opened by a ceremony of its own, which is consumed.
OpenedOnce ==
  /\ \A s \in BreakGlassSessions :
       sessions[s].proof \in Ceremony /\ ceremonies[sessions[s].proof].status = "consumed"
  /\ \A r, s \in BreakGlassSessions : sessions[r].proof = sessions[s].proof => r = s

\* So is one that a request is about to open; no other request is about to, and none has.
Activating ==
  /\ \A t \in Task : tasks[t].op = "activate" =>
       /\ ceremonies[tasks[t].ceremony].status = "consumed"
       /\ \A s \in BreakGlassSessions : sessions[s].proof # tasks[t].ceremony
  /\ \A r, t \in Task : /\ tasks[r].op = "activate" /\ tasks[t].op = "activate"
                        /\ tasks[r].ceremony = tasks[t].ceremony
                        => r = t

\* Every step keeps answers to challenges apart.
LEMMA AnswersGoOn ==
  ASSUME RowType, Answering, TasksGoOn, ProofsGoOn
  PROVE  Answering'
<1> USE DEF RowType
<1>1. \A t \in Task : tasks[t].op = "assert" => tasks[t].challenge \in Challenge
  BY TaskFields
<1>2. Idle.op = "idle"
  BY DEF Idle
<1>3. ASSUME NEW t \in Task, tasks'[t].op = "assert"
      PROVE  \/ tasks'[t] = tasks[t]
             \/ /\ tasks'[t] \in TaskRow /\ challenges[tasks'[t].challenge].status = "open"
                /\ challenges' = [challenges EXCEPT ![tasks'[t].challenge].status = "spent"]
                /\ \A r \in Task \ {t} : tasks'[r] = tasks[r]
  BY <1>2, <1>3 DEF TasksGoOn
<1>4. ASSUME NEW r \in TaskRow, r.op = "assert" PROVE r.challenge \in Challenge
  BY <1>4 DEF TaskRow, Idle
<1>5. ASSUME NEW t \in Task, tasks'[t].op = "assert"
      PROVE  challenges'[tasks'[t].challenge].status = "spent"
  <2>1. CASE tasks'[t] = tasks[t]
    BY <1>1, <1>5, <2>1 DEF Answering, ProofsGoOn
  <2>2. CASE /\ tasks'[t] \in TaskRow
             /\ challenges' = [challenges EXCEPT ![tasks'[t].challenge].status = "spent"]
    <3>1. tasks'[t].challenge \in Challenge
      BY <1>4, <1>5, <2>2
    <3> QED
      BY <2>2, <3>1, SpentRow DEF ProofType, ChallengeRow
  <2> QED
    BY <1>3, <1>5, <2>1, <2>2
<1>6. ASSUME NEW r \in Task, NEW t \in Task, tasks'[r].op = "assert", tasks'[t].op = "assert",
             tasks'[r].challenge = tasks'[t].challenge
      PROVE  r = t
  <2>1. CASE tasks'[r] = tasks[r] /\ tasks'[t] = tasks[t]
    BY <1>6, <2>1 DEF Answering
  <2>2. ASSUME NEW a \in Task, NEW b \in Task, a # b, {a, b} = {r, t},
               challenges[tasks'[a].challenge].status = "open",
               \A c \in Task \ {a} : tasks'[c] = tasks[c]
        PROVE  FALSE
    BY <1>6, <2>2 DEF Answering
  <2> QED
    BY <1>3, <1>6, <2>1, <2>2
<1> QED
  BY <1>5, <1>6 DEF Answering

\* What is used up stays so.
LEMMA UsedUpStays ==
  ASSUME RowType, TasksGoOn, ProofsGoOn, NEW p, UsedUp(p)
  PROVE  UsedUp(p)'
<1>1. CASE p \in Code /\ codes[p].status = "used"
  BY <1>1 DEF ProofsGoOn, UsedUp
<1>2. CASE /\ p \in Challenge /\ challenges[p].status = "spent"
           /\ \A t \in Task : tasks[t].op = "assert" => tasks[t].challenge # p
  <2>1. challenges'[p].status = "spent"
    BY <1>2 DEF ProofsGoOn
  <2>2. ASSUME NEW t \in Task, tasks'[t].op = "assert" PROVE tasks'[t].challenge # p
    <3>1. \/ tasks'[t] = tasks[t]
          \/ challenges[tasks'[t].challenge].status = "open"
      <4>1. Idle.op # "assert"
        BY DEF Idle
      <4> QED
        BY <2>2, <4>1 DEF TasksGoOn
    <3> QED
      BY <1>2, <2>2, <3>1
  <2> QED
    BY <1>2, <2>1, <2>2 DEF UsedUp
<1> QED
  BY <1>1, <1>2 DEF UsedUp

\* Issuing a ceremony writes one row.
LEMMA IssuedRow ==
  ASSUME RowType, NEW m \in Ceremony, NEW u, NEW p, ceremonies' = IssuedCeremony(m, u, p)
  PROVE  /\ ceremonies'[m].status = "live" /\ ceremonies'[m].proof = p
         /\ \A n \in Ceremony \ {m} : ceremonies'[n] = ceremonies[n]
BY DEF RowType, ProofType, IssuedCeremony

\* So does ending one.
LEMMA StatusRow ==
  ASSUME RowType, NEW m \in Ceremony, NEW status,
         ceremonies' = [ceremonies EXCEPT ![m].status = status]
  PROVE  /\ ceremonies'[m].status = status /\ ceremonies'[m].proof = ceremonies[m].proof
         /\ \A n \in Ceremony \ {m} : ceremonies'[n] = ceremonies[n]
BY DEF RowType, ProofType, CeremonyRow

\* No ceremony is issued.
LEMMA IssuedBefore ==
  ASSUME RowType, TasksGoOn, ProofsGoOn, IssuedOnce,
         \A m \in Ceremony : Granted(m)' => Granted(m) /\ ceremonies'[m].proof = ceremonies[m].proof
  PROVE  IssuedOnce'
<1>1. ASSUME NEW m \in Ceremony, Granted(m)' PROVE \E p : p = ceremonies'[m].proof /\ UsedUp(p)'
  <2>1. UsedUp(ceremonies[m].proof) /\ ceremonies'[m].proof = ceremonies[m].proof
    BY <1>1 DEF IssuedOnce
  <2> QED
    BY <2>1, UsedUpStays
<1>2. ASSUME NEW m \in Ceremony, NEW n \in Ceremony, Granted(m)', Granted(n)',
             ceremonies'[m].proof = ceremonies'[n].proof
      PROVE  m = n
  BY <1>2 DEF IssuedOnce
<1> QED
  BY <1>1, <1>2 DEF IssuedOnce

\* One is, for a proof no other has.
LEMMA IssuedNow ==
  ASSUME RowType, TasksGoOn, ProofsGoOn, IssuedOnce, NEW m \in Ceremony, NEW u, NEW p,
         ceremonies' = IssuedCeremony(m, u, p), ~UsedUp(p), UsedUp(p)'
  PROVE  IssuedOnce'
<1>1. /\ ceremonies'[m].proof = p
      /\ \A n \in Ceremony \ {m} : ceremonies'[n] = ceremonies[n]
  BY IssuedRow
<1>2. \A n \in Ceremony \ {m} :
        Granted(n)' => Granted(n) /\ ceremonies'[n].proof = ceremonies[n].proof
  BY <1>1 DEF Granted
<1>3. ASSUME NEW n \in Ceremony, Granted(n)', n # m
      PROVE  UsedUp(ceremonies[n].proof) /\ ceremonies'[n].proof = ceremonies[n].proof
  BY <1>2, <1>3 DEF IssuedOnce
<1>4. ASSUME NEW n \in Ceremony, Granted(n)' PROVE \E q : q = ceremonies'[n].proof /\ UsedUp(q)'
  <2>1. CASE n = m
    BY <1>1, <2>1
  <2>2. CASE n # m
    BY <1>3, <1>4, <2>2, UsedUpStays
  <2> QED
    BY <2>1, <2>2
<1>5. ASSUME NEW n \in Ceremony, Granted(n)', n # m PROVE ceremonies'[n].proof # p
  BY <1>3, <1>5
<1>6. ASSUME NEW j \in Ceremony, NEW n \in Ceremony, Granted(j)', Granted(n)',
             ceremonies'[j].proof = ceremonies'[n].proof
      PROVE  j = n
  <2>1. CASE j = m \/ n = m
    BY <1>1, <1>5, <1>6, <2>1
  <2>2. CASE j # m /\ n # m
    BY <1>2, <1>6, <2>2 DEF IssuedOnce
  <2> QED
    BY <2>1, <2>2
<1> QED
  BY <1>4, <1>6 DEF IssuedOnce

\* Every step keeps proofs apart.
LEMMA IssuedOnceKept ==
  ASSUME RowType, Answering, TasksGoOn, ProofsGoOn, IssuedOnce
  PROVE  IssuedOnce'
<1>1. CASE UNCHANGED ceremonies
  BY <1>1, IssuedBefore DEF Granted
<1>2. ASSUME NEW m \in Ceremony, ceremonies[m].status = "live", NEW status,
             ceremonies' = [ceremonies EXCEPT ![m].status = status]
      PROVE  IssuedOnce'
  <2>1. \A n \in Ceremony : Granted(n)' => Granted(n) /\ ceremonies'[n].proof = ceremonies[n].proof
    BY <1>2, StatusRow DEF Granted
  <2> QED
    BY <2>1, IssuedBefore
<1>3. ASSUME NEW m \in Ceremony, NEW k \in Code, NEW u \in User,
             codes[k].status = "live", codes'[k].status = "used",
             ceremonies' = IssuedCeremony(m, u, k)
      PROVE  IssuedOnce'
  <2>1. ~UsedUp(k) /\ UsedUp(k)'
    BY <1>3, EmergencyAssumption DEF UsedUp
  <2> QED
    BY <1>3, <2>1, IssuedNow
<1>4. ASSUME NEW m \in Ceremony, NEW t \in Task, NEW u \in User \cup {NONE},
             tasks[t].op = "assert", Forget(t),
             ceremonies' = IssuedCeremony(m, u, tasks[t].challenge)
      PROVE  IssuedOnce'
  <2>0. PICK c \in Challenge : c = tasks[t].challenge
    BY <1>4, TaskFields DEF RowType
  <2>1. c \in Challenge /\ challenges[c].status = "spent"
    BY <1>4, <2>0 DEF Answering
  <2>2. ~UsedUp(c)
    BY <1>4, <2>0, <2>1, EmergencyAssumption DEF UsedUp
  <2>3. challenges'[c].status = "spent"
    BY <2>1 DEF ProofsGoOn
  <2>4. ASSUME NEW r \in Task, tasks'[r].op = "assert" PROVE tasks'[r].challenge # c
    <3>1. r # t /\ tasks'[r] = tasks[r]
      BY <1>4, <2>4 DEF Forget, Idle, RowType, AccountType
    <3> QED
      BY <1>4, <2>0, <2>4, <3>1 DEF Answering
  <2>5. UsedUp(c)'
    BY <2>1, <2>3, <2>4 DEF UsedUp
  <2> QED
    BY <1>4, <2>0, <2>2, <2>5, IssuedNow
<1> QED
  BY <1>1, <1>2, <1>3, <1>4 DEF ProofsGoOn, CeremonyEffect

\* A session keeps its source and its proof once it is opened.
LEMMA SessionOrigin ==
  ASSUME RowType, Effect, NEW s \in Session
  PROVE  \/ sessions'[s].source = sessions[s].source /\ sessions'[s].proof = sessions[s].proof
         \/ \E u \in User : Opened(u, s)
<1> USE DEF RowType
<1>1. CASE sessions'[s] = sessions[s] \/ Weaker(s)
  BY <1>1 DEF Weaker
<1>2. ASSUME NEW u \in User, Retired(u)
      PROVE  sessions'[s].source = sessions[s].source /\ sessions'[s].proof = sessions[s].proof
  BY <1>2, RevokedRows DEF Retired
<1>3. ASSUME NEW u \in User, NEW r \in Session, Opened(u, r)
      PROVE  s = r \/ sessions'[s] = sessions[s]
  BY <1>3 DEF Opened
<1>4. ASSUME NEW u \in User, NEW r \in Session, Rehashed(u, r)
      PROVE  sessions'[s].source = sessions[s].source /\ sessions'[s].proof = sessions[s].proof
  <2> DEFINE S == SessionsOf(u) \ {r}
  <2>1. /\ Revoked(S) \in [Session -> SessionRow]
        /\ Revoked(S)[s].source = sessions[s].source /\ Revoked(S)[s].proof = sessions[s].proof
    <3> HIDE DEF S
    <3> QED
      BY RevokedRows
  <2>2. sessions' = [Revoked(S) EXCEPT
          ![r].pw = users'[u].pw,
          ![r].shown = IF sessions[r].source = "local" THEN users'[u].pw ELSE @]
    BY <1>4 DEF Rehashed
  <2> HIDE DEF S
  <2> QED
    BY <2>1, <2>2 DEF SessionRow
<1>5. CASE \/ Quiet \/ Weakened \/ \E u \in User : Made(u) \/ Designated(u) \/ Revived(u)
           \/ \E u \in User, k \in Token : LinkIssued(u, k)
           \/ \E k \in Token : LinkLapsed(k)
  BY <1>1, <1>5 DEF Quiet, Weakened, Made, Designated, Revived, LinkIssued, LinkLapsed
<1>6. CASE \E u \in User, r \in Session : Opened(u, r) \/ Rehashed(u, r)
  BY <1>1, <1>3, <1>4, <1>6
<1> QED
  BY <1>2, <1>5, <1>6 DEF Effect

\* A consumed ceremony stays consumed.
LEMMA ConsumedStays ==
  ASSUME RowType, CeremonyEffect, NEW m \in Ceremony, ceremonies[m].status = "consumed"
  PROVE  ceremonies'[m].status = "consumed"
<1>1. ASSUME NEW n \in Ceremony, ceremonies[n].status = "live", NEW status,
             ceremonies' = [ceremonies EXCEPT ![n].status = status]
      PROVE  ceremonies'[m].status = "consumed"
  BY <1>1, StatusRow
<1>2. ASSUME NEW n \in Ceremony, NEW u, NEW p, ceremonies[n] = NoCeremony,
             ceremonies' = IssuedCeremony(n, u, p)
      PROVE  ceremonies'[m].status = "consumed"
  BY <1>2, IssuedRow DEF NoCeremony
<1> QED
  BY <1>1, <1>2 DEF CeremonyEffect

\* The request that consumed a ceremony opens its session, and is over.
LEMMA OpenedNow ==
  ASSUME RowType, Effect, OpenedOnce, Activating, NEW u \in User, NEW s \in Session,
         Opened(u, s), sessions'[s].source = "break_glass"
  PROVE  OpenedOnce' /\ Activating'
<1> USE DEF RowType
<1>1. PICK t \in Task : /\ tasks[t].op = "activate" /\ sessions'[s].proof = tasks[t].ceremony
                       /\ Forget(t) /\ UNCHANGED ceremonies
  BY DEF Opened
<1> DEFINE m == tasks[t].ceremony
<1>2. /\ m \in Ceremony /\ ceremonies[m].status = "consumed"
      /\ \A r \in BreakGlassSessions : sessions[r].proof # m
  BY <1>1, TaskFields DEF Activating
<1>3. tasks'[t] = Idle /\ Idle.op # "activate" /\ \A r \in Task \ {t} : tasks'[r] = tasks[r]
  BY <1>1 DEF Forget, AccountType, Idle
<1>4. s \notin BreakGlassSessions /\ \A r \in Session \ {s} : sessions'[r] = sessions[r]
  BY DEF Opened, BreakGlassSessions, NoSession
<1>5. ASSUME NEW r \in BreakGlassSessions'
      PROVE  \/ r = s /\ sessions'[r].proof = m
             \/ r \in BreakGlassSessions /\ sessions'[r].proof = sessions[r].proof
  BY <1>1, <1>4 DEF BreakGlassSessions
<1>6. OpenedOnce'
  <2>1. ASSUME NEW r \in BreakGlassSessions'
        PROVE  /\ sessions'[r].proof \in Ceremony
               /\ ceremonies'[sessions'[r].proof].status = "consumed"
    BY <1>1, <1>2, <1>5 DEF OpenedOnce
  <2>2. ASSUME NEW q \in BreakGlassSessions', NEW r \in BreakGlassSessions',
               sessions'[q].proof = sessions'[r].proof
        PROVE  q = r
    BY <1>2, <1>5, <2>2 DEF OpenedOnce
  <2> QED
    BY <2>1, <2>2 DEF OpenedOnce
<1>7. Activating'
  <2>1. ASSUME NEW r \in Task, tasks'[r].op = "activate"
        PROVE  /\ tasks'[r] = tasks[r] /\ tasks[r].ceremony # m
               /\ ceremonies'[tasks'[r].ceremony].status = "consumed"
    BY <1>1, <1>3, <2>1 DEF Activating
  <2>2. ASSUME NEW r \in Task, tasks'[r].op = "activate", NEW q \in BreakGlassSessions'
        PROVE  sessions'[q].proof # tasks'[r].ceremony
    BY <1>5, <2>1, <2>2 DEF Activating
  <2> QED
    BY <2>1, <2>2 DEF Activating
<1> QED
  BY <1>6, <1>7

\* Other steps open none, and a ceremony is consumed by one request at a time.
LEMMA OpenedBefore ==
  ASSUME RowType, TasksGoOn, CeremonyEffect, OpenedOnce, Activating,
         \A s \in Session :
           sessions'[s].source = "break_glass" \/ sessions[s].source = "break_glass" =>
           sessions'[s].source = sessions[s].source /\ sessions'[s].proof = sessions[s].proof
  PROVE  OpenedOnce' /\ Activating'
<1> USE DEF RowType
<1>1. ASSUME NEW s \in BreakGlassSessions'
      PROVE  s \in BreakGlassSessions /\ sessions'[s].proof = sessions[s].proof
  BY DEF BreakGlassSessions
<1>2. OpenedOnce'
  BY <1>1, ConsumedStays DEF OpenedOnce
<1>3. ASSUME NEW t \in Task, tasks'[t].op = "activate"
      PROVE  \/ tasks'[t] = tasks[t]
             \/ /\ tasks'[t].ceremony \in Ceremony
                /\ ceremonies[tasks'[t].ceremony].status = "live"
                /\ ceremonies'[tasks'[t].ceremony].status = "consumed"
                /\ \A r \in Task \ {t} : tasks'[r] = tasks[r]
  <2>1. Idle.op # "activate"
    BY DEF Idle
  <2>2. CASE tasks'[t] # tasks[t]
    <3>1. /\ tasks[t].op = "emergency" /\ tasks[t].ceremony = tasks'[t].ceremony
          /\ ceremonies[tasks[t].ceremony].status = "live"
          /\ ceremonies' = [ceremonies EXCEPT ![tasks[t].ceremony].status = "consumed"]
          /\ \A r \in Task \ {t} : tasks'[r] = tasks[r]
      BY <1>3, <2>1, <2>2 DEF TasksGoOn
    <3>2. tasks[t].ceremony \in Ceremony
      BY <3>1, TaskFields
    <3> QED
      BY <3>1, <3>2, StatusRow
  <2> QED
    BY <2>2
<1>4. ASSUME NEW t \in Task, tasks[t].op = "activate"
      PROVE  /\ tasks[t].ceremony \in Ceremony
             /\ ceremonies[tasks[t].ceremony].status = "consumed"
             /\ ceremonies'[tasks[t].ceremony].status = "consumed"
  BY <1>4, TaskFields, ConsumedStays DEF Activating
<1>5. ASSUME NEW t \in Task, tasks'[t].op = "activate"
      PROVE  /\ ceremonies'[tasks'[t].ceremony].status = "consumed"
             /\ \A s \in BreakGlassSessions' : sessions'[s].proof # tasks'[t].ceremony
  <2>1. CASE tasks'[t] = tasks[t]
    BY <1>1, <1>4, <1>5, <2>1 DEF Activating
  <2>2. CASE /\ ceremonies[tasks'[t].ceremony].status = "live"
             /\ ceremonies'[tasks'[t].ceremony].status = "consumed"
    BY <1>1, <2>2 DEF OpenedOnce
  <2> QED
    BY <1>3, <1>5, <2>1, <2>2
<1>6. ASSUME NEW r \in Task, NEW t \in Task, tasks'[r].op = "activate",
             tasks'[t].op = "activate", tasks'[r].ceremony = tasks'[t].ceremony
      PROVE  r = t
  <2>1. CASE tasks'[r] = tasks[r] /\ tasks'[t] = tasks[t]
    BY <1>6, <2>1 DEF Activating
  <2>2. ASSUME NEW a \in Task, NEW b \in Task, a # b, {a, b} = {r, t},
               ceremonies[tasks'[a].ceremony].status = "live",
               \A c \in Task \ {a} : tasks'[c] = tasks[c]
        PROVE  FALSE
    BY <1>4, <1>6, <2>2
  <2> QED
    BY <1>3, <1>6, <2>1, <2>2
<1> QED
  BY <1>2, <1>5, <1>6 DEF Activating

\* Every step keeps ceremonies and the sessions they open apart.
LEMMA OpenedOnceKept ==
  ASSUME RowType, Effect, TasksGoOn, ProofsGoOn, OpenedOnce, Activating
  PROVE  OpenedOnce' /\ Activating'
<1>1. CASE \E u \in User, s \in Session : Opened(u, s) /\ sessions'[s].source = "break_glass"
  BY <1>1, OpenedNow
<1>2. CASE ~\E u \in User, s \in Session : Opened(u, s) /\ sessions'[s].source = "break_glass"
  <2>1. ASSUME NEW s \in Session,
               sessions'[s].source = "break_glass" \/ sessions[s].source = "break_glass"
        PROVE  sessions'[s].source = sessions[s].source /\ sessions'[s].proof = sessions[s].proof
    <3>1. ASSUME NEW u \in User, Opened(u, s) PROVE FALSE
      BY <1>2, <2>1, <3>1 DEF Opened, NoSession
    <3> QED
      BY <3>1, SessionOrigin
  <2> QED
    BY <2>1, OpenedBefore DEF ProofsGoOn
<1> QED
  BY <1>1, <1>2

\* A proof opens at most one session: a challenge or a recovery code issues one ceremony
\* (completeEmergencyKeyAssertionAction, useBreakGlassRecoveryCode) and is spent by then, and
\* consumeBreakGlassCeremony lets one request go on to openEmergencyActivation.
THEOREM ProofsTheorem == SystemSpec => []ProofsAreSpentOnce
<1> DEFINE Apart == Answering /\ IssuedOnce /\ OpenedOnce /\ Activating
<1>1. EmergencyInit => Apart
  <2> SUFFICES ASSUME EmergencyInit PROVE Apart
    OBVIOUS
  <2>1. Answering /\ Activating
    BY DEF EmergencyInit, FederationInit, DirectoryInit, Answering, Activating, Idle
  <2>2. IssuedOnce /\ OpenedOnce
    BY DEF EmergencyInit, FederationInit, DirectoryInit, IssuedOnce, OpenedOnce, Granted,
       BreakGlassSessions, NoCeremony, NoSession
  <2> QED
    BY <2>1, <2>2
<1>2. RowType /\ References /\ Apart /\ [SystemNext]_systemVars => Apart'
  <2> SUFFICES ASSUME RowType, References, Apart, [SystemNext]_systemVars PROVE Apart'
    OBVIOUS
  <2>1. Effect /\ TasksGoOn /\ ProofsGoOn
    BY RestOrStep, ProofsStep
  <2> QED
    BY <2>1, AnswersGoOn, IssuedOnceKept, OpenedOnceKept
<1>3. Apart => ProofsAreSpentOnce
  <2>1. ASSUME NEW p, UsedUp(p) PROVE ProofIsSpent(p)
    BY <2>1, EmergencyAssumption DEF UsedUp, ProofIsSpent
  <2> QED
    BY <2>1 DEF IssuedOnce, OpenedOnce, ProofsAreSpentOnce
<1> QED
  BY <1>1, <1>2, <1>3, SystemRows, PTL DEF SystemSpec
=============================================================================

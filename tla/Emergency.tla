------------------------------- MODULE Emergency -------------------------------
(***************************************************************************)
(* Emergency (break-glass) access: the designated administrator proves a    *)
(* password and then either a security key or a one-time recovery code, is  *)
(* given a one-time ceremony token, and trades it for a short session.      *)
(* Challenges and failure counts live in the memory of the process; codes,  *)
(* keys and ceremonies are tables.                                          *)
(***************************************************************************)
EXTENDS Federation

CONSTANTS Challenge, Code, Ceremony,
          MaxKeys,      \* MAX_ENROLLED_KEYS
          MaxFailures   \* EMERGENCY_MAX_FAILURES

ASSUME EmergencyAssumption == Challenge \cap Code = {} /\ NONE \notin Code

VARIABLES challenges,   \* the map of challenges, in memory
          attempts,     \* emergencyAttempts of the designee, in memory
          keys,         \* webauthn_credentials: how many an account has
          codes,        \* break_glass_recovery_codes
          ceremonies,   \* break_glass_ceremonies
          activations   \* emergency_activations, by the session they opened

emergencyVars == <<challenges, attempts, keys, codes, ceremonies, activations>>

NoChallenge == [status |-> "none", user |-> NONE, kind |-> "authentication"]
NoCode == [status |-> "none", user |-> NONE]
NoCeremony == [status |-> "none", user |-> NONE, proof |-> NONE]
NoAttempts == [failures |-> 0, locked |-> FALSE]

EmergencyInit ==
  /\ FederationInit
  /\ challenges = [c \in Challenge |-> NoChallenge]
  /\ attempts = [u \in User |-> NoAttempts]
  /\ keys = [u \in User |-> 0]
  /\ codes = [k \in Code |-> NoCode]
  /\ ceremonies = [m \in Ceremony |-> NoCeremony]
  /\ activations = {}

-----------------------------------------------------------------------------
(* Custody: keys and recovery codes, managed by the designee's own session *)

Custodian(s) == ActingAdmin(s) /\ Actor(s) = designee

BeginKeyEnrollment(s, c) ==
  /\ Custodian(s) /\ keys[designee] < MaxKeys
  /\ challenges[c] = NoChallenge
  /\ challenges' = [challenges EXCEPT
       ![c] = [status |-> "open", user |-> designee, kind |-> "registration"]]
  /\ UNCHANGED <<accountVars, identities, attempts, keys, codes, ceremonies, activations>>

\* The challenge is spent whether or not the key's answer verifies; the number
\* of keys is not counted again.
CompleteKeyEnrollment(s, c, verified) ==
  /\ Custodian(s)
  /\ challenges[c].status = "open" /\ challenges[c].kind = "registration"
  /\ challenges' = [challenges EXCEPT ![c].status = "spent"]
  /\ keys' = IF verified THEN [keys EXCEPT ![challenges[c].user] = @ + 1] ELSE keys
  /\ UNCHANGED <<accountVars, identities, attempts, codes, ceremonies, activations>>

\* A new set replaces every code not used yet.
RotateRecoveryCodes(s, fresh) ==
  /\ Custodian(s)
  /\ fresh # {} /\ \A k \in fresh : codes[k] = NoCode
  /\ codes' = [k \in Code |->
       IF k \in fresh THEN [status |-> "live", user |-> designee]
       ELSE IF codes[k].status = "live" /\ codes[k].user = designee
            THEN [codes[k] EXCEPT !.status = "rotated"] ELSE codes[k]]
  /\ UNCHANGED <<accountVars, identities, challenges, attempts, keys, ceremonies, activations>>

-----------------------------------------------------------------------------
(* Proving: the password (a hash, so two actions), then a key or a code *)

\* right: the password offered is the designee's.  code is NONE on the key path.
BeginEmergencyAccess(t, right, code) ==
  /\ mode # "local"
  /\ designee # NONE /\ ~attempts[designee].locked
  /\ right => users[designee].pw > NoPassword
  /\ Remember(t, [op |-> "prove", user |-> designee, right |-> right, code |-> code])
  /\ UNCHANGED <<users, sessions, tokens, designee, claimFile, offboarded, identities,
                 emergencyVars>>

\* recordFailedEmergencyAttempt
Failed(a) == IF a.failures + 1 >= MaxFailures THEN [failures |-> 0, locked |-> TRUE]
             ELSE [a EXCEPT !.failures = @ + 1]

LockLapses(u) ==
  /\ attempts[u].locked
  /\ attempts' = [attempts EXCEPT ![u] = NoAttempts]
  /\ UNCHANGED <<accountVars, identities, challenges, keys, codes, ceremonies, activations>>

CodeIsLive(k, u) == codes[k].status = "live" /\ codes[k].user = u

PasswordRefused(t) ==
  LET task == tasks[t] IN
  /\ task.op = "prove"
  /\ ~task.right \/ (task.code # NONE /\ ~CodeIsLive(task.code, task.user))
  /\ Forget(t)
  /\ attempts' = [attempts EXCEPT ![task.user] = Failed(@)]
  /\ UNCHANGED <<users, sessions, tokens, designee, claimFile, offboarded, identities,
                 challenges, keys, codes, ceremonies, activations>>

\* The key path: a challenge, or nothing when no key is enrolled.
PasswordAccepted(t, c) ==
  LET task == tasks[t] IN
  /\ task.op = "prove" /\ task.right /\ task.code = NONE
  /\ challenges[c] = NoChallenge
  /\ Forget(t)
  /\ attempts' = [attempts EXCEPT ![task.user] = NoAttempts]
  /\ challenges' = IF keys[task.user] = 0 THEN challenges
                   ELSE [challenges EXCEPT ![c] = [status |-> "open", user |-> task.user,
                                                   kind |-> "authentication"]]
  /\ UNCHANGED <<users, sessions, tokens, designee, claimFile, offboarded, identities,
                 keys, codes, ceremonies, activations>>

IssuedCeremony(m, u, proof) ==
  [ceremonies EXCEPT ![m] = [status |-> "live", user |-> u, proof |-> proof]]

\* The code path: one UPDATE claims the code, then the ceremony is issued.  A
\* crash between the two leaves a used code that opened nothing.
CodeAccepted(t, m, crashed) ==
  LET task == tasks[t] IN
  /\ task.op = "prove" /\ task.right /\ task.code # NONE
  /\ CodeIsLive(task.code, task.user)
  /\ ceremonies[m] = NoCeremony
  /\ Forget(t)
  /\ attempts' = [attempts EXCEPT ![task.user] = NoAttempts]
  /\ codes' = [codes EXCEPT ![task.code].status = "used"]
  /\ ceremonies' = IF crashed THEN ceremonies ELSE IssuedCeremony(m, task.user, task.code)
  /\ UNCHANGED <<users, sessions, tokens, designee, claimFile, offboarded, identities,
                 challenges, keys, activations>>

\* The challenge is spent before the signature is verified, which yields.
AssertionBegin(t, c) ==
  /\ challenges[c].status = "open" /\ challenges[c].kind = "authentication"
  /\ challenges' = [challenges EXCEPT ![c].status = "spent"]
  /\ Remember(t, [op |-> "assert", challenge |-> c])
  /\ UNCHANGED <<users, sessions, tokens, designee, claimFile, offboarded, identities,
                 attempts, keys, codes, ceremonies, activations>>

AssertionFinish(t, m, verified) ==
  /\ tasks[t].op = "assert"
  /\ ceremonies[m] = NoCeremony
  /\ Forget(t)
  /\ ceremonies' = IF verified
                   THEN IssuedCeremony(m, challenges[tasks[t].challenge].user, tasks[t].challenge)
                   ELSE ceremonies
  /\ UNCHANGED <<users, sessions, tokens, designee, claimFile, offboarded, identities,
                 challenges, attempts, keys, codes, activations>>

ChallengeLapses(c) ==
  /\ challenges[c].status = "open"
  /\ challenges' = [challenges EXCEPT ![c].status = "spent"]
  /\ UNCHANGED <<accountVars, identities, attempts, keys, codes, ceremonies, activations>>

-----------------------------------------------------------------------------
(* Minting *)

CeremonyLapses(m) ==
  /\ ceremonies[m].status = "live"
  /\ ceremonies' = [ceremonies EXCEPT ![m].status = "lapsed"]
  /\ UNCHANGED <<accountVars, identities, challenges, attempts, keys, codes, activations>>

\* authorize peeks at the ceremony, once per request that presents it.
AuthorizeEmergency(t, m) ==
  /\ mode # "local"
  /\ ceremonies[m].status = "live"
  /\ ceremonies[m].user \in ActiveAdmins
  /\ Remember(t, [op |-> "emergency", ceremony |-> m, user |-> ceremonies[m].user])
  /\ UNCHANGED <<users, sessions, tokens, designee, claimFile, offboarded, identities,
                 emergencyVars>>

CeremonyIsLive_Peeked(m) == TRUE  \* fault: what authorize saw is trusted
CeremonyIsLive(m) == ceremonies[m].status = "live"

\* The jwt callback consumes the ceremony, a commit of its own; only the first
\* request wins.
ConsumeCeremony(t) ==
  LET task == tasks[t] IN
  /\ task.op = "emergency"
  /\ IF CeremonyIsLive(task.ceremony)
     THEN /\ ceremonies' = [ceremonies EXCEPT ![task.ceremony].status = "consumed"]
          /\ tasks' = [tasks EXCEPT ![t].op = "activate"]
     ELSE UNCHANGED ceremonies /\ Forget(t)
  /\ UNCHANGED <<users, sessions, tokens, designee, claimFile, offboarded, identities,
                 challenges, attempts, keys, codes, activations>>

\* openEmergencyActivation: the session row is written before its activation, in
\* two statements.  A crash between them leaves a session that no cookie names.
OpenEmergency(t, s, crashed) ==
  LET task == tasks[t] IN
  /\ task.op = "activate"
  /\ sessions[s] = NoSession
  /\ Forget(t)
  /\ sessions' = [sessions EXCEPT ![s] = Minted(task.user, "break_glass", task.ceremony)]
  /\ activations' = IF crashed THEN activations ELSE activations \cup {s}
  /\ UNCHANGED <<users, tokens, designee, claimFile, offboarded, identities,
                 challenges, attempts, keys, codes, ceremonies>>

\* It throws on a reason of the wrong length, which the key path did not check;
\* the ceremony stays consumed.
OpenEmergencyRefused(t) ==
  /\ tasks[t].op = "activate"
  /\ ceremonies[tasks[t].ceremony].proof \in Challenge
  /\ Forget(t)
  /\ UNCHANGED <<users, sessions, tokens, designee, claimFile, offboarded, identities,
                 emergencyVars>>

\* Trading the ceremony for a session.
Minting(t) ==
  \/ \E m \in Ceremony : AuthorizeEmergency(t, m)
  \/ ConsumeCeremony(t)
  \/ \E s \in Session, crashed \in BOOLEAN : OpenEmergency(t, s, crashed)
  \/ OpenEmergencyRefused(t)

\* What the designated custodian does beforehand.
Custody(s) ==
  \/ \E c \in Challenge : BeginKeyEnrollment(s, c)
  \/ \E c \in Challenge, v \in BOOLEAN : CompleteKeyEnrollment(s, c, v)
  \/ \E fresh \in SUBSET Code : RotateRecoveryCodes(s, fresh)

\* Proving who one is: the password first, then a code or a key.
Proving(t) ==
  \/ \E right \in BOOLEAN, k \in Code \cup {NONE} : BeginEmergencyAccess(t, right, k)
  \/ PasswordRefused(t)
  \/ \E c \in Challenge : PasswordAccepted(t, c) \/ AssertionBegin(t, c)
  \/ \E m \in Ceremony, crashed \in BOOLEAN : CodeAccepted(t, m, crashed)
  \/ \E m \in Ceremony, v \in BOOLEAN : AssertionFinish(t, m, v)

EmergencyNext ==
  \/ \E s \in Session : Custody(s)
  \/ \E t \in Task : Proving(t) \/ Minting(t)
  \/ \E u \in User : LockLapses(u)
  \/ \E c \in Challenge : ChallengeLapses(c)
  \/ \E m \in Ceremony : CeremonyLapses(m)

\* Challenges and failure counts do not survive the process.
EmergencyRestart ==
  /\ challenges' = [c \in Challenge |->
       IF challenges[c].status = "open" THEN [challenges[c] EXCEPT !.status = "spent"]
       ELSE challenges[c]]
  /\ attempts' = [u \in User |-> NoAttempts]
  /\ UNCHANGED <<identities, keys, codes, ceremonies, activations>>

-----------------------------------------------------------------------------
(* The three components over one database *)

SystemNext ==
  /\ UNCHANGED mode
  /\ \/ AccountNext /\ identities' = RetiredWithAccount /\ UNCHANGED emergencyVars
     \/ FederationNext /\ UNCHANGED emergencyVars
     \/ EmergencyNext
     \/ Restart /\ EmergencyRestart

systemVars == <<directoryVars, identities, emergencyVars>>
SystemSpec == EmergencyInit /\ [][SystemNext]_systemVars

-----------------------------------------------------------------------------
(* Properties *)

BreakGlassSessions == {s \in Session : sessions[s].source = "break_glass"}
Granted(m) == ceremonies[m].status # "none"

\* The recovery code or the challenge behind a ceremony cannot be shown again.
ProofIsSpent(proof) ==
  IF proof \in Code THEN codes[proof].status = "used" ELSE challenges[proof].status = "spent"

\* A proof opens at most one session: the emergency sessions come from ceremonies
\* of their own, each consumed, and the ceremonies from challenges or recovery
\* codes of their own, each spent - however the requests that present one
\* ceremony overlap and wherever the process stops.  (The converse is not
\* claimed: a crash or a refused reason can spend a proof on no session.)
ProofsAreSpentOnce ==
  /\ \A r, s \in BreakGlassSessions : sessions[r].proof = sessions[s].proof => r = s
  /\ \A m, n \in Ceremony : Granted(m) /\ Granted(n)
       /\ ceremonies[m].proof = ceremonies[n].proof => m = n
  /\ \A s \in BreakGlassSessions : ceremonies[sessions[s].proof].status = "consumed"
  /\ \A m \in Ceremony : Granted(m) => ProofIsSpent(ceremonies[m].proof)
=============================================================================

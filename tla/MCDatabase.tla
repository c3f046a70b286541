------------------------------- MODULE MCDatabase -------------------------------
(***************************************************************************)
(* One database: how its writers share it (StateStore), and the accounts,   *)
(* sessions, identities and emergency proofs it holds (Emergency, which     *)
(* extends Federation and Accounts).  A behaviour moves one of four parts:  *)
(* the store, or the accounts in one of the three authentication modes.     *)
(* The parts share no variable; inside a part everything interleaves.       *)
(***************************************************************************)
EXTENDS StateStore, Emergency, TLC

CONSTANTS w1, w2, g1, g2, g3, u1, u2, s1, s2, s3, k1, k2, x1, x2, c1, c2, m1, m2   \* rows, in the order they are used

VARIABLE part

databaseVars == <<part, vars, systemVars>>

ModeOf == [store |-> "local", local |-> "local", federated |-> "authentik-primary",
           emergency |-> "dual"]

DatabaseInit ==
  /\ part \in DOMAIN ModeOf
  /\ Init
  /\ EmergencyInit /\ mode = ModeOf[part]

\* Writers of one kind start in order, and rows of one table are taken in
\* order: they differ in nothing else.
Started(w) == pc[w] # "idle" \/ (w \in Whole /\ loads[w] + tries[w] > 0)
WritersInOrder ==
  /\ Started(w2) => Started(w1)
  /\ Started(g2) => Started(g1)
  /\ Started(g3) => Started(g2)
InOrder ==
  /\ Exists(u2) => Exists(u1)
  /\ sessions[s2] # NoSession => sessions[s1] # NoSession
  /\ sessions[s3] # NoSession => sessions[s2] # NoSession
  /\ tokens[k2] # NoToken => tokens[k1] # NoToken
  /\ ~Unused(x2) => ~Unused(x1)
  /\ challenges[c2] # NoChallenge => challenges[c1] # NoChallenge
  /\ ceremonies[m2] # NoCeremony => ceremonies[m1] # NoCeremony

Newest == CHOOSE n \in 0 .. MaxPassword :
            n \in {users[u].pw : u \in User} \cup {0} /\ \A u \in User : users[u].pw <= n
Busy == Cardinality({t \in Task : tasks[t] # Idle})
Links == {k \in Token : tokens[k] # NoToken}
Opened(source) == {s \in Session : sessions[s] # NoSession /\ sessions[s].source = source}

\* Bounds: requests in flight leave less room for new versions, sessions and links.
LocalBound ==
  /\ ~offboarded
  /\ Cardinality(Opened("local")) <= 2
  /\ Cardinality(Opened("local")) + Cardinality(Links) <= (IF Busy = 2 THEN 2 ELSE 3)
  /\ Busy + Newest <= 4 /\ Busy + users[u1].ver + users[u2].ver <= 5
FederatedBound ==
  /\ Busy <= 1
  /\ Busy + Cardinality(Opened("local")) + Cardinality(Opened("authentik")) <= 2
  /\ Links = {}
  /\ Newest <= 2 /\ users[u1].ver + users[u2].ver <= 4
AtTheDoor == {t \in Task : tasks[t].op \in {"emergency", "activate"}}
EmergencyBound ==
  /\ Cardinality({t \in Task : tasks[t] # Idle} \ AtTheDoor) <= 1
  /\ AtTheDoor # {} => Busy = Cardinality(AtTheDoor)
  /\ Cardinality(Opened("local")) <= 1
  /\ Newest <= 2 /\ \A u \in User : users[u].ver <= 2

\* With emergency access, of the other parts' operations those that open a
\* custodian's session and change its account or the designation.
CustodyStep ==
  /\ \/ \E u \in User : CreateBootstrapAdmin(u)
     \/ \E t \in Task, u \in User : SignInBegin(t, u)
     \/ \E t \in Task : SignInFinish(t)
     \/ \E t \in Task, s \in Session : OpenSession(t, s)
     \/ \E u \in User : OperatorRevoke(u)
     \/ \E t \in Task, s \in Session : CreateUserBegin(t, s)
     \/ \E t \in Task, u \in User : CreateUserFinish(t, u, "admin")
     \/ \E u \in User : DesignateBreakGlassUser(u)
     \/ \E u \in User : TransferBreakGlassDesignation(u)
     \/ \E u \in User : OffboardLinkedUser(u)
     \/ EnsureAdminClaimToken
     \/ \E u \in User, crashed \in BOOLEAN : CreateRecoveryAdmin(u, crashed)
  /\ UNCHANGED <<identities, emergencyVars>>

AccountStep == AccountNext /\ identities' = RetiredWithAccount /\ UNCHANGED emergencyVars

DatabaseNext ==
  /\ UNCHANGED part
  /\ \/ part = "store" /\ Next /\ UNCHANGED systemVars /\ WritersInOrder'
     \/ /\ part # "store" /\ UNCHANGED <<vars, mode>>
        /\ \/ part = "local" /\ AccountStep /\ LocalBound'
           \/ /\ part = "federated"
              /\ AccountStep \/ (FederationNext /\ UNCHANGED emergencyVars)
              /\ FederatedBound'
           \/ part = "emergency" /\ (CustodyStep \/ EmergencyNext) /\ EmergencyBound'
           \/ Restart /\ EmergencyRestart
        /\ InOrder'

DatabaseSpec == DatabaseInit /\ [][DatabaseNext]_databaseVars

\* Of a session or a link that is over, only what a property asks is told apart.
SessionSeen(s) ==
  CASE sessions[s].status \in {"active", "none"} -> sessions[s]
    [] sessions[s].source = "break_glass" -> <<"over", sessions[s].proof>>
    [] OTHER -> "over"
LinkSeen(k) == IF tokens[k].status \in {"live", "none"} THEN tokens[k] ELSE "over"
Seen == <<part, vars, mode, users, [s \in Session |-> SessionSeen(s)],
          [k \in Token |-> LinkSeen(k)], tasks, designee, claimFile, offboarded, identities,
          emergencyVars>>

DatabaseSymmetry == Permutations(Task)
=============================================================================

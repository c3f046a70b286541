------------------------------ MODULE Federation ------------------------------
(***************************************************************************)
(* Institutional sign-in: the external_identities table, which binds a      *)
(* subject of the one configured issuer to a local account, the admission   *)
(* of an OIDC sign-in, back-channel logout and the operators' import.       *)
(* A subject is reserved forever once it has been linked.                   *)
(***************************************************************************)
EXTENDS Accounts

CONSTANT Subject      \* subjects of the configured issuer

VARIABLE identities   \* the external_identities table

NoLink == [status |-> "none", user |-> NONE]

FederationInit == DirectoryInit /\ identities = [x \in Subject |-> NoLink]

LinkOf(u) == {x \in Subject : identities[x].status = "active" /\ identities[x].user = u}
Unused_Retired(x) == identities[x].status # "active"  \* fault: retirement frees it
Unused(x) == identities[x].status = "none"

Linked(x, u) == [status |-> "active", user |-> u]

\* Removing an account retires its links in the same transaction.
RetiredWithAccount ==
  [x \in Subject |-> IF identities[x].status = "active"
                        /\ users'[identities[x].user].removed
                        /\ ~users[identities[x].user].removed
                     THEN [identities[x] EXCEPT !.status = "retired"] ELSE identities[x]]

\* scripts/identity-import.ts: the dry run and applyIdentityLink refuse the
\* whole mapping if one entry is refused.
ApplyIdentityImport(entries) ==
  /\ DOMAIN entries # {}
  /\ \A x \in DOMAIN entries : Exists(entries[x]) /\ Unused(x) /\ LinkOf(entries[x]) = {}
  /\ \A x, y \in DOMAIN entries : entries[x] = entries[y] => x = y
  /\ identities' = [x \in Subject |-> IF x \in DOMAIN entries THEN Linked(x, entries[x])
                                      ELSE identities[x]]
  /\ UNCHANGED accountVars

RetireIdentityLink(x) ==
  /\ identities[x].status = "active"
  /\ identities' = [identities EXCEPT ![x].status = "retired"]
  /\ UNCHANGED accountVars

\* A new subject for the same person; the account's sessions are left alone.
RelinkIdentity(x, y) ==
  /\ identities[x].status = "active" /\ Unused(y)
  /\ identities' = [identities EXCEPT ![x].status = "retired",
                                      ![y] = Linked(y, identities[x].user)]
  /\ UNCHANGED accountVars

OidcAdmission_AnyRole(x, claimed) ==  \* fault: the claim is trusted
  /\ mode # "local" /\ identities[x].status = "active" /\ MayRevive(identities[x].user)
\* resolveOidcAdmission.  claimed is the one role the provider's groups map to:
\* it must be the account's own.
OidcAdmission(x, claimed) ==
  LET u == identities[x].user IN
  /\ mode # "local"
  /\ identities[x].status = "active"
  /\ MayRevive(u)
  /\ claimed = users[u].role

\* The signIn callback admits, and the jwt callback admits again before it opens
\* the session; either revives the account, in a transaction of its own.
OidcSignIn(t, x, claimed) ==
  LET u == identities[x].user IN
  /\ OidcAdmission(x, claimed)
  /\ users' = [users EXCEPT ![u] = Revive(u)]
  /\ \/ UNCHANGED tasks
     \/ Remember(t, Admitted(u, "authentik", x, claimed))
  /\ UNCHANGED <<sessions, tokens, designee, claimFile, offboarded, identities>>

ProviderSessions(u) == {s \in SessionsOf(u) : sessions[s].source = "authentik"}

\* A valid logout token names a subject, or one provider session of it.  The
\* replay slot is claimed after the revocation and only labels the event, so a
\* second delivery of the token does the same again.
BackchannelLogout(x, S) ==
  /\ mode # "local" /\ ~Unused(x)
  /\ \/ S = ProviderSessions(identities[x].user)
     \/ S \subseteq {s \in ProviderSessions(identities[x].user) : sessions[s].proof = x}
  /\ Revoked(S) # sessions
  /\ sessions' = Revoked(S)
  /\ UNCHANGED <<users, tokens, tasks, designee, claimFile, offboarded, identities>>

Mappings == UNION {[D -> User] : D \in SUBSET Subject}

FederationNext ==
  \/ \E entries \in Mappings : ApplyIdentityImport(entries)
  \/ \E x \in Subject : RetireIdentityLink(x)
  \/ \E x, y \in Subject : RelinkIdentity(x, y)
  \/ \E t \in Task, x \in Subject, claimed \in Roles : OidcSignIn(t, x, claimed)
  \/ \E x \in Subject, S \in SUBSET Session : BackchannelLogout(x, S)

-----------------------------------------------------------------------------
(* Properties *)

\* A subject never changes hands: it stays with the account it was first linked
\* to, and once retired it admits nobody again; an account has one active link.
SubjectsAreReserved ==
  [][/\ \A x \in Subject : identities[x] # NoLink =>
          /\ identities'[x].user = identities[x].user
          /\ identities[x].status = "retired" => identities'[x].status = "retired"
     /\ \A u \in User : Cardinality(LinkOf(u)') <= 1]_<<directoryVars, identities>>
=============================================================================

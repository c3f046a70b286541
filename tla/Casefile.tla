------------------------------ MODULE Casefile ------------------------------
(***************************************************************************)
(* The governed casefile of one recording: its transcript revisions, the   *)
(* current / pending / approved pointers, the decision ledger, the review  *)
(* assignments, the admin action-mode sessions and the account roles the   *)
(* commands read.  Every command of src/server/casefile and every handler  *)
(* elsewhere that writes these rows is one action; each runs in one        *)
(* SQLite transaction of a single-threaded server, so each is one step.    *)
(*                                                                         *)
(* A client may act on a page it loaded long ago: the revision it names    *)
(* (`seen`) is any revision that ever existed, and its principal carries   *)
(* the role the account had when the request was authenticated.            *)
(*                                                                         *)
(* An operator with an underscore in its name is a seeded fault: the       *)
(* definition after it with one slip a change to that code could make.     *)
(* Nothing uses it; putting it in that definition's place shows that a     *)
(* property below can fail.                                                *)
(***************************************************************************)
EXTENDS Naturals, FiniteSets

CONSTANTS
  Users,        \* accounts
  NoUser,       \* "no account": the null of submittedByUserId, uploadedByUserId
  Uploader,     \* uploadedByUserId of the recording, possibly NoUser
  InitialRole,  \* role of each account when the casefile opens
  RoleMoves,    \* bound: the <<account, role>> changes administrators make
  MaxRevision   \* bound: revisions one casefile may reach

Role == {"uploader", "reviewer", "approver", "admin"}
AssignmentRole == {"reviewer", "approver"}

ASSUME CasefileAssumption ==
  /\ NoUser \notin Users
  /\ Uploader \in Users \cup {NoUser}
  /\ InitialRole \in [Users -> Role]
  /\ RoleMoves \subseteq Users \X Role
  /\ MaxRevision \in Nat \ {0}

RevisionIds == 1 .. MaxRevision
Pointers == 0 .. MaxRevision      \* 0 is the null pointer

VARIABLES
  role,       \* users.role
  principal,  \* role carried by the request each account has in flight
  health,     \* integrity and transcript-job state of the recording
  revisions,  \* revisions rows by version; "absent" when not written yet
  count,      \* highest version written
  current, pending, approved,  \* the three pointers of the recordings row
  decisions,  \* approvals rows
  active,     \* active assignments, <<user, role>>
  completed,  \* completed assignments, <<user, role, completedRevisionId>>
  mode        \* open admin action-mode session of each account

people == <<role, principal>>
pointers == <<current, pending, approved>>
assignments == <<active, completed>>
vars == <<people, health, revisions, count, pointers, decisions, assignments, mode>>

RevisionStates == {"absent", "draft", "superseded", "pending_approval",
                   "withdrawn", "changes_requested", "approved"}
DecisionStates == {"pending", "withdrawn", "changes_requested", "approved", "reopened"}

Revision == [state : RevisionStates, base : Pointers, seen : Pointers,
             by : Users \cup {NoUser}, role : Role \cup {"system"},
             submitter : Users \cup {NoUser}]

Decision == [revision : RevisionIds, state : DecisionStates, actor : Users,
             actorRole : Role, effective : AssignmentRole, seen : RevisionIds]

Absent == [state |-> "absent", base |-> 0, seen |-> 0, by |-> NoUser,
           role |-> "system", submitter |-> NoUser]

TypeOK ==
  /\ role \in [Users -> Role]
  /\ principal \in [Users -> Role]
  /\ health \in {"processing", "ready", "failed", "purged"}
  /\ revisions \in [RevisionIds -> Revision]
  /\ count \in Pointers
  /\ current \in Pointers /\ pending \in Pointers /\ approved \in Pointers
  /\ decisions \subseteq Decision
  /\ active \subseteq Users \X AssignmentRole
  /\ completed \subseteq Users \X AssignmentRole \X Pointers
  /\ mode \in [Users -> {"none", "reviewer", "approver", "lapsed"}]

Init ==
  /\ role = InitialRole
  /\ principal = InitialRole
  /\ health = "processing"
  /\ revisions = [i \in RevisionIds |-> Absent]
  /\ count = 0
  /\ current = 0 /\ pending = 0 /\ approved = 0
  /\ decisions = {}
  /\ active = {} /\ completed = {}
  /\ mode = [u \in Users |-> "none"]

-----------------------------------------------------------------------------
(* Authority of a command *)

\* Fault: an ended assignment still counts as an active one.
Grants_Ended(u) ==
  IF principal[u] = "admin" THEN {<<"oversight", "admin">>}
  ELSE {<<"active", a[2]>> : a \in {b \in active : b[1] = u}}
       \cup {<<"active", c[2]>> : c \in {d \in completed : d[1] = u}}

ActiveRoles(u) == {q \in AssignmentRole : <<u, q>> \in active}
CompletedRoles(u, wanted) ==
  {q \in AssignmentRole : wanted # 0 /\ <<u, q, wanted>> \in completed}

\* resolveCasefileAccess, for a page or a command that is about the revision
\* wanted.  A set, because a user with two matching rows gets whichever SQLite
\* returns first.  The pair <<"status", "uploader">> is the uploader_status
\* grant, <<"active", q>> an active assignment's, and so on.
GrantsAt(u, wanted) ==
  CASE principal[u] = "admin" -> {<<"oversight", "admin">>}
    [] principal[u] # "admin" /\ u = Uploader -> {<<"status", "uploader">>}
    [] OTHER -> IF ActiveRoles(u) # {} THEN {<<"active", q>> : q \in ActiveRoles(u)}
                ELSE {<<"completed", q>> : q \in CompletedRoles(u, wanted)}

\* A command asks for the current revision.
Grants(u) == GrantsAt(u, current)

\* loadCommandState and resolveActorContext: an administrator needs an open,
\* unexpired action-mode session of the role, anyone else that very role.
ActsAs(u, q) ==
  /\ health # "purged"
  /\ IF principal[u] = "admin" THEN mode[u] = q ELSE principal[u] = q

\* The require*Authority gates reject only the denials they name.  The denial
\* "uploader_status_only" is none of them, so an uploader_status grant passes.
Unrefused(q) == {<<"oversight", "admin">>, <<"status", "uploader">>, <<"active", q>>}

AsReviewer(u) ==
  /\ ActsAs(u, "reviewer")
  /\ Grants(u) \cap Unrefused("reviewer") # {}

AsApprover(u) ==
  /\ ActsAs(u, "approver")
  /\ Grants(u) \cap (Unrefused("approver") \cup {<<"completed", "approver">>}) # {}

\* assertDraftState, assertPendingDecisionState, assertApprovedDecisionState:
\* the revision the client loaded is still the one the recording points at.
DraftIsCurrent_AnyDraft(seen) == revisions[current].state = "draft"  \* fault
DraftIsCurrent_AnyState(seen) == current = seen                      \* fault

DraftIsCurrent(seen) ==
  /\ current = seen
  /\ revisions[seen].state = "draft"

PendingIsCurrent_OnceSubmitted(seen) ==  \* fault
  revisions[seen].submitter # NoUser

PendingIsCurrent(seen) ==
  /\ pending = seen /\ current = seen
  /\ revisions[seen].state = "pending_approval"

ApprovedIsCurrent(seen) ==
  /\ approved = seen /\ current = seen
  /\ revisions[seen].state = "approved"

\* The separation-of-duties veto binds every principal but an administrator.
MayDecide_ByRole(u, seen) == principal[u] # "reviewer"  \* fault

MayDecide(u, seen) ==
  \/ revisions[seen].submitter # u
  \/ principal[u] = "admin"

-----------------------------------------------------------------------------
(* Rows a command writes *)

NewDraft(base, seen, u, r) ==
  [state |-> "draft", base |-> base, seen |-> seen, by |-> u, role |-> r,
   submitter |-> NoUser]

Row_OwnRole(i, s, u, q, seen) ==  \* fault: an administrator's own role as effective
  [revision |-> i, state |-> s, actor |-> u, actorRole |-> principal[u],
   effective |-> principal[u], seen |-> seen]

Row(i, s, u, q, seen) ==
  [revision |-> i, state |-> s, actor |-> u, actorRole |-> principal[u],
   effective |-> q, seen |-> seen]

HasRoom == count < MaxRevision   \* bound

\* saveDraftInTransaction: the loaded draft is superseded by the next version.
SavedDraft(u, seen) ==
  [revisions EXCEPT ![current].state = "superseded",
                    ![count + 1] = NewDraft(current, seen, u, "reviewer")]

\* cloneTransitionDraft with the pointer update of a transition command.
CloneDraft(closed, s, u, q, seen) ==
  /\ HasRoom
  /\ revisions' = [revisions EXCEPT ![closed].state = s,
                                    ![count + 1] = NewDraft(closed, seen, u, q)]
  /\ count' = count + 1
  /\ current' = count + 1
  /\ pending' = 0

-----------------------------------------------------------------------------
(* Casefile commands *)

SaveDraft(u, seen) ==
  /\ AsReviewer(u) /\ DraftIsCurrent(seen) /\ HasRoom
  /\ revisions' = SavedDraft(u, seen)
  /\ count' = count + 1
  /\ current' = count + 1 /\ pending' = 0
  /\ UNCHANGED <<people, health, approved, decisions, assignments, mode>>

\* A batch rename is a save whose segments the server derives itself.
RenameSpeaker(u, seen) == SaveDraft(u, seen)

\* The loaded draft goes to review as it stands.
SubmitClean(u, seen) ==
  /\ AsReviewer(u) /\ DraftIsCurrent(seen)
  /\ revisions' = [revisions EXCEPT ![seen].state = "pending_approval",
                                    ![seen].submitter = u]
  /\ current' = seen /\ pending' = seen
  /\ decisions' = decisions \cup {Row(seen, "pending", u, "reviewer", seen)}
  /\ UNCHANGED <<people, health, count, approved, assignments, mode>>

\* Unsaved edits are saved first and the new version goes to review.
SubmitDirty(u, seen) ==
  /\ AsReviewer(u) /\ DraftIsCurrent(seen) /\ HasRoom
  /\ revisions' = [SavedDraft(u, seen) EXCEPT ![count + 1].state = "pending_approval",
                                              ![count + 1].submitter = u]
  /\ count' = count + 1
  /\ current' = count + 1 /\ pending' = count + 1
  /\ decisions' = decisions \cup {Row(count + 1, "pending", u, "reviewer", seen)}
  /\ UNCHANGED <<people, health, approved, assignments, mode>>

Withdraw(u, seen) ==
  /\ AsReviewer(u) /\ PendingIsCurrent(seen)
  /\ revisions[seen].submitter # NoUser
  /\ revisions[seen].submitter = u \/ principal[u] = "admin"
  /\ CloneDraft(seen, "withdrawn", u, "reviewer", seen)
  /\ decisions' = decisions \cup {Row(seen, "withdrawn", u, "reviewer", seen)}
  /\ UNCHANGED <<people, health, approved, assignments, mode>>

RequestChanges(u, seen) ==
  /\ AsApprover(u) /\ PendingIsCurrent(seen) /\ MayDecide(u, seen)
  /\ CloneDraft(seen, "changes_requested", u, "approver", seen)
  /\ decisions' = decisions \cup {Row(seen, "changes_requested", u, "approver", seen)}
  /\ UNCHANGED <<people, health, approved, assignments, mode>>

Completing_Approvers == {a \in active : a[2] = "approver"}  \* fault

\* completeActiveAssignmentsForApproval
Completing == active

\* Approval also completes every active assignment of the recording.
Approve(u, seen) ==
  /\ AsApprover(u) /\ PendingIsCurrent(seen) /\ MayDecide(u, seen)
  /\ revisions' = [revisions EXCEPT ![seen].state = "approved"]
  /\ current' = seen /\ pending' = 0 /\ approved' = seen
  /\ decisions' = decisions \cup {Row(seen, "approved", u, "approver", seen)}
  /\ completed' = completed \cup {<<a[1], a[2], seen>> : a \in Completing}
  /\ active' = active \ Completing
  /\ UNCHANGED <<people, health, count, mode>>

\* The approved revision keeps its state; only the pointer lets go of it.
Reopen(u, seen) ==
  /\ AsApprover(u) /\ ApprovedIsCurrent(seen)
  /\ CloneDraft(seen, "approved", u, "approver", seen)
  /\ approved' = 0
  /\ decisions' = decisions \cup {Row(seen, "reopened", u, "approver", seen)}
  /\ UNCHANGED <<people, health, assignments, mode>>

-----------------------------------------------------------------------------
(* Administration *)

IsAdmin(a) == principal[a] = "admin"

MayRecover_WhilePending(source) == source # current  \* fault

MayRecover(source) == pending = 0 /\ source # current

LetGo_Released(s) == "superseded"  \* fault

LetGo(s) == IF s = "draft" THEN "superseded" ELSE s

\* recoverRevisionVersion: an archived revision becomes the next draft.  No
\* decision row is written; a released revision is simply let go of.
Recover(a, source) ==
  /\ IsAdmin(a) /\ health # "purged"
  /\ MayRecover(source) /\ HasRoom
  /\ revisions' =
       [revisions EXCEPT ![current].state = LetGo(@),
                         ![count + 1] = NewDraft(source, source, a, "admin")]
  /\ count' = count + 1
  /\ current' = count + 1 /\ approved' = 0
  /\ UNCHANGED <<people, health, pending, decisions, assignments, mode>>

TakesAssignments == health \notin {"failed", "purged"}

Assign(a, u) ==
  /\ IsAdmin(a) /\ TakesAssignments
  /\ role[u] \in AssignmentRole
  /\ <<u, role[u]>> \notin active
  /\ ~(approved # 0 /\ role[u] = "reviewer")
  /\ active' = active \cup {<<u, role[u]>>}
  /\ UNCHANGED <<people, health, revisions, count, pointers, decisions, completed, mode>>

Unassign(a, u, q) ==
  /\ IsAdmin(a)
  /\ <<u, q>> \in active
  /\ active' = active \ {<<u, q>>}
  /\ UNCHANGED <<people, health, revisions, count, pointers, decisions, completed, mode>>

\* resetWorkspaceLedger: decision rows, action-mode sessions and ended
\* assignments are deleted; the revisions and the active assignments stay.
ResetLedger(a) ==
  /\ IsAdmin(a)
  /\ decisions' = {} /\ completed' = {}
  /\ mode' = [u \in Users |-> "none"]
  /\ UNCHANGED <<people, health, revisions, count, pointers, active>>

\* deleteRecordingPermanently
Purge(a) ==
  /\ IsAdmin(a) /\ health # "purged"
  /\ health' = "purged"
  /\ revisions' = [i \in RevisionIds |-> Absent]
  /\ count' = 0
  /\ current' = 0 /\ pending' = 0 /\ approved' = 0
  /\ decisions' = {} /\ active' = {} /\ completed' = {}
  /\ mode' = [u \in Users |-> "none"]
  /\ UNCHANGED people

NoBlockers_Approver(u, r) == <<u, "approver">> \in active => r = "approver"  \* fault

\* assignmentBlockers
NoBlockers(u, r) == \A q \in AssignmentRole : <<u, q>> \in active => q = r

\* changeAccountRole re-reads the acting administrator inside its transaction,
\* protects the last administrator and refuses while an active assignment
\* needs the old role.
ChangeRole(a, u, r) ==
  /\ role[a] = "admin" /\ <<u, r>> \in RoleMoves /\ r # role[u]
  /\ role[u] = "admin" => \E b \in Users \ {u} : role[b] = "admin"
  /\ NoBlockers(u, r)
  /\ role' = [role EXCEPT ![u] = r]
  /\ UNCHANGED <<principal, health, revisions, count, pointers, decisions, assignments, mode>>

-----------------------------------------------------------------------------
(* Admin action mode *)

\* An already open session of the administrator ends as "switched".
EnterMode(a, q) ==
  /\ IsAdmin(a) /\ health # "purged"
  /\ mode' = [mode EXCEPT ![a] = q]
  /\ UNCHANGED <<people, health, revisions, count, pointers, decisions, assignments>>

\* Leaving an expired session throws inside its own transaction: no change.
ExitMode(a) ==
  /\ IsAdmin(a) /\ mode[a] \in AssignmentRole
  /\ mode' = [mode EXCEPT ![a] = "none"]
  /\ UNCHANGED <<people, health, revisions, count, pointers, decisions, assignments>>

\* Thirty minutes pass; the row stays open until a page load notices.
ModeLapses(a) ==
  /\ mode[a] \in AssignmentRole
  /\ mode' = [mode EXCEPT ![a] = "lapsed"]
  /\ UNCHANGED <<people, health, revisions, count, pointers, decisions, assignments>>

NoticeLapse(a) ==
  /\ IsAdmin(a) /\ mode[a] = "lapsed"
  /\ mode' = [mode EXCEPT ![a] = "none"]
  /\ UNCHANGED <<people, health, revisions, count, pointers, decisions, assignments>>

-----------------------------------------------------------------------------
(* The rest of the system, as far as it writes these rows *)

\* A request is authenticated; until then the previous one is in flight.
Authenticate(u) ==
  /\ principal[u] # role[u]
  /\ principal' = [principal EXCEPT ![u] = role[u]]
  /\ UNCHANGED <<role, health, revisions, count, pointers, decisions, assignments, mode>>

\* completeTranscriptJob delivers the machine draft; a recording that failed
\* while the worker was busy stays failed.
DeliverTranscript ==
  /\ health \in {"processing", "failed"} /\ current = 0
  /\ health' = IF health = "processing" THEN "ready" ELSE health
  /\ revisions' = [revisions EXCEPT ![1] = [Absent EXCEPT !.state = "draft"]]
  /\ count' = 1 /\ current' = 1
  /\ UNCHANGED <<people, pending, approved, decisions, assignments, mode>>

\* A failed verification or transcription, also a late one (see Ingest).
IngestFails ==
  /\ health \in {"processing", "ready"}
  /\ health' = "failed"
  /\ UNCHANGED <<people, revisions, count, pointers, decisions, assignments, mode>>

\* An interrupted upload is taken up again.
IngestResumes ==
  /\ health = "failed" /\ count = 0
  /\ health' = "processing"
  /\ UNCHANGED <<people, revisions, count, pointers, decisions, assignments, mode>>

\* writeState deletes and re-inserts every revision row; the foreign key
\* completed_revision_id ... ON DELETE SET NULL clears each completed row.
RewriteState ==
  /\ count # 0
  /\ completed' = {<<c[1], c[2], 0>> : c \in completed}
  /\ UNCHANGED <<people, health, revisions, count, pointers, decisions, active, mode>>

Command(u) ==
  \E seen \in 1 .. count :
    \/ SaveDraft(u, seen)
    \/ RenameSpeaker(u, seen)
    \/ SubmitClean(u, seen)
    \/ SubmitDirty(u, seen)
    \/ Withdraw(u, seen)
    \/ RequestChanges(u, seen)
    \/ Approve(u, seen)
    \/ Reopen(u, seen)
    \/ Recover(u, seen)

Appoint(a) ==
  \/ \E u \in Users : Assign(a, u)
  \/ \E u \in Users, q \in AssignmentRole : Unassign(a, u, q)

ActionModes(a) ==
  \/ \E q \in AssignmentRole : EnterMode(a, q)
  \/ ExitMode(a)
  \/ NoticeLapse(a)

Administer(a) ==
  \/ Appoint(a)
  \/ \E u \in Users, r \in Role : ChangeRole(a, u, r)
  \/ ResetLedger(a)
  \/ Purge(a)
  \/ ActionModes(a)

Next ==
  \/ \E u \in Users : Command(u) \/ Administer(u) \/ ModeLapses(u) \/ Authenticate(u)
  \/ DeliverTranscript
  \/ IngestFails
  \/ IngestResumes
  \/ RewriteState

Spec == Init /\ [][Next]_vars

-----------------------------------------------------------------------------
(* Properties *)

Outcomes == {"withdrawn", "changes_requested", "approved"}

\* The three pointers, written by nine different handlers, always tell one
\* story: the current revision is the newest; what is pending or approved is
\* that revision, in that state, and never both; nothing is left pending
\* without the pointer, and every older draft has been closed.
PointersAgree ==
  /\ current = count
  /\ pending # 0 => pending = current /\ approved = 0
  /\ approved # 0 => approved = current /\ revisions[approved].state = "approved"
  /\ \A i \in RevisionIds :
       /\ revisions[i].state = "absent" <=> i > count
       /\ revisions[i].state = "pending_approval" <=> i = pending
       /\ revisions[i].state = "draft" => i = current
       /\ revisions[i].submitter # NoUser
            <=> revisions[i].state \in {"pending_approval"} \cup Outcomes

\* "The first valid transition wins": of the people who had the same pending
\* revision on their screens only one decides it, and the ledger row says
\* what the revision became.  A reopened revision stays approved in history.
DecidedOnce ==
  \A d \in decisions :
    /\ d.state \in Outcomes =>
         /\ revisions[d.revision].state = d.state
         /\ \A e \in decisions :
              e.state \in Outcomes /\ e.revision = d.revision => e = d
    /\ d.state = "pending" => revisions[d.revision].submitter = d.actor
    /\ d.state = "reopened" =>
         revisions[d.revision].state = "approved" /\ approved # d.revision

\* Nobody but an administrator decides what they submitted, also when their
\* account changed role between the submission and the decision.
SeparationOfDuties ==
  \A d \in decisions :
    d.state \in {"approved", "changes_requested"}
    /\ d.actor = revisions[d.revision].submitter => d.actorRole = "admin"

\* A reviewer's edit is a patch of the text they loaded: no draft replaces a
\* revision its author had not seen, and except for an administrator's
\* recovery no two drafts start from the same revision.
NoLostUpdate ==
  \A i \in 2 .. count :
    /\ revisions[i].seen = revisions[i].base /\ revisions[i].base \in 1 .. (i - 1)
    /\ revisions[i].role # "admin" =>
         \A j \in 2 .. (i - 1) :
           revisions[j].base = revisions[i].base => revisions[j].role = "admin"

\* An account never holds active work its role cannot do: role changes and
\* assignments, in any order, keep each other in step.
AssignmentsFollowRoles == \A a \in active : role[a[1]] = a[2]

\* Approval ends all review work, and none begins until a reopen.
ReviewEndsAtApproval == approved # 0 => \A a \in active : a[2] # "reviewer"

\* What a governed step needs at the moment it happens: an administrator's
\* open session, or an assignment that is active now, held in today's role.
Entitled(u, q) ==
  IF principal[u] = "admin" THEN mode[u] = q
  ELSE role[u] = q /\ <<u, q>> \in active

\* Every ledger row was written by somebody entitled to it at that moment,
\* although the request carries a role read before.  The uploader's own
\* account is left out: see UploaderOnlySeesStatus.
AuthorityIsCurrent ==
  [][\A d \in decisions' \ decisions :
       \/ d.actor = Uploader
       \/ Entitled(d.actor, d.effective)
       \/ d.state = "reopened" /\ <<d.actor, "approver", approved>> \in completed]_vars

\* The lineage is append-only: short of a purge, a closed revision never
\* changes again, neither its state nor what it was based on nor who sent it.
HistoryIsFinal ==
  [][\A i \in 1 .. count :
       revisions[i].state \in {"superseded"} \cup Outcomes /\ health' # "purged"
       => revisions'[i] = revisions[i]]_vars

\* DESIGN.md, "Access grants": the uploader who created the recording sees
\* status only, so takes no governed step without an assignment.
UploaderOnlySeesStatus ==
  [][\A d \in decisions' \ decisions :
       d.actor = Uploader => Entitled(d.actor, d.effective)]_vars

\* DESIGN.md, "Assignment semantics": while the revision stays approved, the
\* approver whose assignment it completed keeps the authority to reopen it
\* (a ledger reset, which deletes the rows, aside).
CompletedApproverKeepsAuthority ==
  [][\A u \in Users :
       /\ approved # 0 /\ approved' = approved
       /\ <<u, "approver", approved>> \in completed /\ completed' # {}
       => <<u, "approver", approved>> \in completed']_vars

Cycle == INSTANCE ReviewCycle WITH
  phase <- CASE health = "purged" -> "purged"
             [] health # "purged" /\ current = 0 -> "waiting"
             [] pending # 0 -> "in_review"
             [] approved # 0 -> "released"
             [] OTHER -> "drafting",
  author <- IF pending # 0 THEN revisions[pending].submitter
            ELSE IF approved # 0 THEN revisions[approved].submitter ELSE NoUser,
  edition <- count

\* The nine handlers together run the review cycle of ReviewCycle.
RunsReviewCycle == Cycle!Spec
=============================================================================

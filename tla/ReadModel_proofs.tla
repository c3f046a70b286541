--------------------------- MODULE ReadModel_proofs ---------------------------
(***************************************************************************)
(* What the pages and the inbox offer, and what an exported file says, are   *)
(* right for any accounts, roles, role changes and number of revisions.      *)
(***************************************************************************)
EXTENDS ReadModel, Casefile_proofs

\* The readers add nothing to what happens to the casefile.
THEOREM ReadersOnlyRead == ReadSpec => Spec
<1>1. ReadInit => Init
  BY DEF ReadInit
<1>2. [ReadNext]_readVars => [Next]_vars
  BY DEF ReadNext, readVars, AskExport, FinishExport, SetPolicyProfile
<1> QED
  BY <1>1, <1>2, PTL DEF ReadSpec, Spec

\* What an export in the making names, and the profiles there are.
ReadType ==
  /\ exporters \in Profiles
  /\ export.status = "building" => export.revision \in RevisionIds /\ export.named \in BOOLEAN

\* The two variables of the readers keep their types.
THEOREM ReadTyping == ReadSpec => []ReadType
<1>1. ReadInit => ReadType
  BY DEF ReadInit, ReadType, NoExport
<1>2. TypeOK /\ ReadType /\ [ReadNext]_readVars => ReadType'
  <2> SUFFICES ASSUME TypeOK, ReadType, [ReadNext]_readVars PROVE ReadType'
    OBVIOUS
  <2>1. ASSUME NEW u \in Users, NEW wanted \in Pointers, AskExport(u, wanted) PROVE ReadType'
    <3>1. \A i \in 1 .. count : i \in RevisionIds
      BY Numbers
    <3>2. export'.revision \in RevisionIds /\ export'.named \in BOOLEAN
      BY <2>1, <3>1 DEF AskExport
    <3> QED
      BY <2>1, <3>2 DEF AskExport, ReadType
  <2>2. ASSUME FinishExport PROVE ReadType'
    BY <2>2 DEF FinishExport, ReadType, NoExport
  <2>3. ASSUME NEW a \in Users, SetPolicyProfile(a) PROVE ReadType'
    BY <2>3 DEF SetPolicyProfile, ReadType
  <2>4. ASSUME UNCHANGED <<export, exporters>> PROVE ReadType'
    BY <2>4 DEF ReadType
  <2> QED
    BY <2>1, <2>2, <2>3, <2>4 DEF ReadNext, readVars
<1> QED
  BY <1>1, <1>2, ReadersOnlyRead, Typing, PTL DEF ReadSpec

-----------------------------------------------------------------------------
(* Pages and commands *)

\* The grants of somebody who is neither an administrator nor the uploader.
LEMMA GrantsOf ==
  ASSUME NEW u \in Users, principal[u] # "admin", u # Uploader, NEW wanted
  PROVE  /\ \A g \in GrantsAt(u, wanted) : \E q \in AssignmentRole :
              g = <<"active", q>> \/ g = <<"completed", q>>
         /\ \A q \in AssignmentRole :
              /\ <<"active", q>> \in GrantsAt(u, wanted) <=> q \in ActiveRoles(u)
              /\ <<"completed", q>> \in GrantsAt(u, wanted) <=>
                   ActiveRoles(u) = {} /\ q \in CompletedRoles(u, wanted)
<1>1. ActiveRoles(u) \subseteq AssignmentRole /\ CompletedRoles(u, wanted) \subseteq AssignmentRole
  BY DEF ActiveRoles, CompletedRoles
<1>2. GrantsAt(u, wanted) =
        IF ActiveRoles(u) # {} THEN {<<"active", q>> : q \in ActiveRoles(u)}
        ELSE {<<"completed", q>> : q \in CompletedRoles(u, wanted)}
  BY DEF GrantsAt
<1> QED
  BY <1>1, <1>2

LEMMA AdminGrants ==
  ASSUME NEW u, principal[u] = "admin", NEW wanted
  PROVE  GrantsAt(u, wanted) = {<<"oversight", "admin">>}
BY DEF GrantsAt

\* Every grant of theirs opens the page on the current revision.
LEMMA OpensCurrent ==
  ASSUME NEW u \in Users, u # Uploader, NEW g \in Grants(u)
  PROVE  Selected(g, 0) = current /\ g[1] # "status"
<1>1. CASE principal[u] = "admin"
  <2>1. g = <<"oversight", "admin">>
    BY <1>1, AdminGrants DEF Grants
  <2> QED
    BY <2>1 DEF Selected
<1>2. CASE principal[u] # "admin"
  <2>1. g[1] = "active" \/ g[1] = "completed"
    BY <1>2, GrantsOf DEF Grants
  <2> QED
    BY <2>1 DEF Selected
<1> QED
  BY <1>1, <1>2

\* A page of a revision enables only what is about the current one.
CanDo(u, key) == \E g \in Grants(u) : Capable(u, ActionMode(u), g, Selected(g, 0), key)

LEMMA CanDoOf ==
  ASSUME NEW u \in Users, u # Uploader, NEW key
  PROVE  CanDo(u, key) <=> \E g \in Grants(u) : Capable(u, ActionMode(u), g, current, key)
BY OpensCurrent DEF CanDo

LEMMA MembersMatch ==
  ASSUME TypeOK, PointersAgree, AssignmentsFollowRoles, ReadType, health # "purged",
         NEW u \in Users, u # Uploader, principal[u] # "admin", principal[u] = role[u]
  PROVE  /\ CanDo(u, "edit") <=> current # 0 /\ AsReviewer(u) /\ DraftIsCurrent(current)
         /\ CanDo(u, "submit") <=> CanDo(u, "edit")
         /\ CanDo(u, "withdraw") <=>
              /\ current # 0 /\ AsReviewer(u) /\ PendingIsCurrent(current)
              /\ revisions[current].submitter = u
         /\ CanDo(u, "decide") <=>
              current # 0 /\ AsApprover(u) /\ PendingIsCurrent(current) /\ MayDecide(u, current)
         /\ CanDo(u, "reopen") <=> current # 0 /\ AsApprover(u) /\ ApprovedIsCurrent(current)
         /\ CanDo(u, "export") <=> current # 0 /\ approved = current /\ MayExport(u)
<1>m. ActionMode(u) = "none"
  BY DEF ActionMode
<1>n. NoUser \notin Users /\ current \in Nat /\ (current # 0 => current \in RevisionIds)
  BY Numbers DEF TypeOK, Pointers, RevisionIds
<1>g. /\ \A g \in Grants(u) : \E q \in AssignmentRole : g = <<"active", q>> \/ g = <<"completed", q>>
      /\ <<"oversight", "admin">> \notin Grants(u) /\ <<"status", "uploader">> \notin Grants(u)
  BY GrantsOf DEF Grants
<1>r. AsReviewer(u) <=> principal[u] = "reviewer" /\ <<"active", "reviewer">> \in Grants(u)
  BY <1>g DEF AsReviewer, ActsAs, Unrefused
<1>a. AsApprover(u) <=> /\ principal[u] = "approver"
                        /\ \/ <<"active", "approver">> \in Grants(u)
                           \/ <<"completed", "approver">> \in Grants(u)
  BY <1>g DEF AsApprover, ActsAs, Unrefused
<1>p. current # 0 => (pending = current <=> revisions[current].state = "pending_approval")
  BY <1>n DEF PointersAgree
<1>w. <<"active", "reviewer">> \in Grants(u) => principal[u] = "reviewer"
  BY GrantsOf DEF Grants, ActiveRoles, AssignmentsFollowRoles, AssignmentRole
<1>c. \A key : CanDo(u, key) <=> \E g \in Grants(u) : Capable(u, "none", g, current, key)
  BY <1>m, CanDoOf
<1>1. CanDo(u, "edit") <=> current # 0 /\ AsReviewer(u) /\ DraftIsCurrent(current)
  BY <1>r, <1>c DEF Capable, PolicyAllows, HasReviewerAuthority, DraftIsCurrent
<1>2. CanDo(u, "submit") <=> CanDo(u, "edit")
  BY CanDoOf DEF Capable, PolicyAllows
<1>3. CanDo(u, "withdraw") <=>
        /\ current # 0 /\ AsReviewer(u) /\ PendingIsCurrent(current)
        /\ revisions[current].submitter = u
  <2>1. \A g : Capable(u, "none", g, current, "withdraw") <=>
               /\ current # 0 /\ g = <<"active", "reviewer">> /\ pending = current
               /\ revisions[current].submitter = u
    BY <1>n DEF Capable, PolicyAllows, HasReviewerAuthority
  <2>2. CanDo(u, "withdraw") <=>
          /\ current # 0 /\ <<"active", "reviewer">> \in Grants(u) /\ pending = current
          /\ revisions[current].submitter = u
    BY <1>c, <2>1
  <2> QED
    BY <1>r, <1>w, <1>p, <2>2 DEF PendingIsCurrent
<1>h. \A g : HasApproverAuthority("none", g) <=>
               g = <<"active", "approver">> \/ g = <<"completed", "approver">>
  BY DEF HasApproverAuthority
<1>4. CanDo(u, "decide") <=>
        current # 0 /\ AsApprover(u) /\ PendingIsCurrent(current) /\ MayDecide(u, current)
  <2>1. \A g : Capable(u, "none", g, current, "decide") <=>
               /\ current # 0 /\ principal[u] = "approver" /\ HasApproverAuthority("none", g)
               /\ pending = current /\ MayDecide(u, current)
    BY DEF Capable, PolicyAllows, MayDecide
  <2>2. CanDo(u, "decide") <=>
          /\ current # 0 /\ principal[u] = "approver" /\ pending = current /\ MayDecide(u, current)
          /\ <<"active", "approver">> \in Grants(u) \/ <<"completed", "approver">> \in Grants(u)
    BY <1>c, <1>h, <2>1
  <2> QED
    BY <1>a, <1>p, <2>2 DEF PendingIsCurrent
<1>5. CanDo(u, "reopen") <=> current # 0 /\ AsApprover(u) /\ ApprovedIsCurrent(current)
  <2>1. \A g : Capable(u, "none", g, current, "reopen") <=>
               /\ current # 0 /\ principal[u] = "approver" /\ HasApproverAuthority("none", g)
               /\ approved = current
    BY DEF Capable, PolicyAllows
  <2>2. CanDo(u, "reopen") <=>
          /\ current # 0 /\ principal[u] = "approver" /\ approved = current
          /\ <<"active", "approver">> \in Grants(u) \/ <<"completed", "approver">> \in Grants(u)
    BY <1>c, <1>h, <2>1
  <2> QED
    BY <1>a, <2>2 DEF ApprovedIsCurrent, PointersAgree
<1>6. CanDo(u, "export") <=> current # 0 /\ approved = current /\ MayExport(u)
  <2>1. \A g \in Grants(u) : HasExportAuthority("none", g) /\ g[1] # "status"
    BY <1>g DEF HasExportAuthority
  <2>2. \A g \in Grants(u) : Capable(u, "none", g, current, "export") <=>
               current # 0 /\ principal[u] \in exporters /\ approved = current
    BY <2>1 DEF Capable, PolicyAllows
  <2>3. MayExport(u) <=> Grants(u) # {} /\ principal[u] \in exporters
    BY <2>1 DEF MayExport
  <2> QED
    BY <1>c, <2>2, <2>3
<1> QED
  BY <1>1, <1>2, <1>3, <1>4, <1>5, <1>6

LEMMA AdministratorsMatch ==
  ASSUME TypeOK, PointersAgree, ReadType, health # "purged",
         NEW u \in Users, u # Uploader, principal[u] = "admin"
  PROVE  /\ CanDo(u, "edit") <=> current # 0 /\ AsReviewer(u) /\ DraftIsCurrent(current)
         /\ CanDo(u, "submit") <=> CanDo(u, "edit")
         /\ CanDo(u, "withdraw") <=>
              /\ current # 0 /\ AsReviewer(u) /\ PendingIsCurrent(current)
              /\ revisions[current].submitter # NoUser
         /\ CanDo(u, "decide") <=>
              current # 0 /\ AsApprover(u) /\ PendingIsCurrent(current) /\ MayDecide(u, current)
         /\ CanDo(u, "reopen") <=> current # 0 /\ AsApprover(u) /\ ApprovedIsCurrent(current)
         /\ CanDo(u, "export") <=>
              /\ current # 0 /\ approved = current
              /\ MayExport(u) \/ (mode[u] = "reviewer" /\ "reviewer" \in exporters)
<1>n. current \in Nat /\ (current # 0 => current \in RevisionIds)
  BY Numbers DEF TypeOK, Pointers, RevisionIds
<1>g. Grants(u) = {<<"oversight", "admin">>}
  BY AdminGrants DEF Grants
<1>m. /\ ActionMode(u) = "none" <=> mode[u] \notin AssignmentRole
      /\ ActionMode(u) = "reviewer" <=> mode[u] = "reviewer"
      /\ ActionMode(u) = "approver" <=> mode[u] = "approver"
      /\ ActionMode(u) \in {"none", "reviewer", "approver"}
  BY DEF ActionMode, AssignmentRole
<1>r. AsReviewer(u) <=> mode[u] = "reviewer"
  BY <1>g DEF AsReviewer, ActsAs, Unrefused
<1>a. AsApprover(u) <=> mode[u] = "approver"
  BY <1>g DEF AsApprover, ActsAs, Unrefused
<1>p. current # 0 => (pending = current <=> revisions[current].state = "pending_approval")
  BY <1>n DEF PointersAgree
<1>c. \A key : CanDo(u, key) <=> Capable(u, ActionMode(u), <<"oversight", "admin">>, current, key)
  BY <1>g, CanDoOf
<1>1. CanDo(u, "edit") <=> current # 0 /\ AsReviewer(u) /\ DraftIsCurrent(current)
  BY <1>m, <1>r, <1>c DEF Capable, PolicyAllows, HasReviewerAuthority, DraftIsCurrent, AssignmentRole
<1>2. CanDo(u, "submit") <=> CanDo(u, "edit")
  BY <1>c DEF Capable, PolicyAllows
<1>3. CanDo(u, "withdraw") <=>
        /\ current # 0 /\ AsReviewer(u) /\ PendingIsCurrent(current)
        /\ revisions[current].submitter # NoUser
  BY <1>m, <1>r, <1>p, <1>c
     DEF Capable, PolicyAllows, HasReviewerAuthority, PendingIsCurrent, AssignmentRole
<1>4. CanDo(u, "decide") <=>
        current # 0 /\ AsApprover(u) /\ PendingIsCurrent(current) /\ MayDecide(u, current)
  BY <1>m, <1>a, <1>p, <1>c
     DEF Capable, PolicyAllows, HasApproverAuthority, PendingIsCurrent, MayDecide, AssignmentRole
<1>5. CanDo(u, "reopen") <=> current # 0 /\ AsApprover(u) /\ ApprovedIsCurrent(current)
  BY <1>m, <1>a, <1>c
     DEF Capable, PolicyAllows, HasApproverAuthority, ApprovedIsCurrent, PointersAgree, AssignmentRole
<1>6. CanDo(u, "export") <=>
        /\ current # 0 /\ approved = current
        /\ MayExport(u) \/ (mode[u] = "reviewer" /\ "reviewer" \in exporters)
  <2>1. "approver" \in exporters /\ "admin" \notin exporters
    BY DEF ReadType, Profiles
  <2>2. MayExport(u) <=> mode[u] = "approver"
    BY <1>g, <2>1 DEF MayExport
  <2> QED
    BY <1>m, <2>1, <2>2, <1>c DEF Capable, PolicyAllows, HasExportAuthority, AssignmentRole
<1> QED
  BY <1>1, <1>2, <1>3, <1>4, <1>5, <1>6

LEMMA ModesOffered ==
  ASSUME TypeOK, PointersAgree, ReadType, health # "purged",
         NEW u \in Users, principal[u] = "admin", mode[u] \in AssignmentRole
  PROVE  mode[u] \in ModeOptions(u, current) <=>
            \/ current # 0 /\ AsReviewer(u) /\ DraftIsCurrent(current)
            \/ /\ current # 0 /\ AsReviewer(u) /\ PendingIsCurrent(current)
               /\ revisions[current].submitter # NoUser
            \/ current # 0 /\ AsApprover(u) /\ (PendingIsCurrent(current) \/ ApprovedIsCurrent(current))
<1>n. current \in Nat /\ (current # 0 => current \in RevisionIds)
  BY Numbers DEF TypeOK, Pointers, RevisionIds
<1>p. current # 0 => (pending = current <=> revisions[current].state = "pending_approval")
  BY <1>n DEF PointersAgree
<1>q. current # 0 => (approved = current => revisions[current].state = "approved")
  BY DEF PointersAgree
<1>g. Grants(u) = {<<"oversight", "admin">>}
  BY AdminGrants DEF Grants
<1>r. AsReviewer(u) <=> mode[u] = "reviewer"
  BY <1>g DEF AsReviewer, ActsAs, Unrefused
<1>a. AsApprover(u) <=> mode[u] = "approver"
  BY <1>g DEF AsApprover, ActsAs, Unrefused
<1>o. mode[u] \in ModeOptions(u, current) <=>
        \E key \in IF mode[u] = "reviewer" THEN {"edit", "submit", "withdraw"}
                   ELSE {"decide", "reopen", "export"} :
          Capable(u, mode[u], <<"oversight", "admin">>, current, key)
  BY DEF ModeOptions
<1>1. CASE mode[u] = "reviewer"
  BY <1>1, <1>o, <1>r, <1>a, <1>p
     DEF Capable, PolicyAllows, HasReviewerAuthority, DraftIsCurrent, PendingIsCurrent
<1>2. CASE mode[u] = "approver"
  <2>1. "approver" \in exporters
    BY DEF ReadType, Profiles
  <2> QED
    BY <1>2, <2>1, <1>o, <1>r, <1>a, <1>p, <1>q
       DEF Capable, PolicyAllows, HasApproverAuthority, HasExportAuthority, PendingIsCurrent,
           ApprovedIsCurrent
<1> QED
  BY <1>1, <1>2 DEF AssignmentRole

LEMMA PagesMatch ==
  ASSUME TypeOK, PointersAgree, AssignmentsFollowRoles, ReadType
  PROVE  PagesMatchCommands
<1> SUFFICES ASSUME health # "purged", NEW u \in Current \ {Uploader}
             PROVE
    /\ CanDo(u, "edit") <=> current # 0 /\ AsReviewer(u) /\ DraftIsCurrent(current)
    /\ CanDo(u, "submit") <=> CanDo(u, "edit")
    /\ CanDo(u, "withdraw") <=>
         /\ current # 0 /\ AsReviewer(u) /\ PendingIsCurrent(current)
         /\ revisions[current].submitter = u
            \/ (principal[u] = "admin" /\ revisions[current].submitter # NoUser)
    /\ CanDo(u, "decide") <=>
         current # 0 /\ AsApprover(u) /\ PendingIsCurrent(current) /\ MayDecide(u, current)
    /\ CanDo(u, "reopen") <=> current # 0 /\ AsApprover(u) /\ ApprovedIsCurrent(current)
    /\ CanDo(u, "export") <=>
         /\ current # 0 /\ approved = current
         /\ MayExport(u) \/ (principal[u] = "admin" /\ mode[u] = "reviewer" /\ "reviewer" \in exporters)
    /\ principal[u] = "admin" /\ mode[u] \in AssignmentRole =>
         (mode[u] \in ModeOptions(u, current) <=>
            \/ current # 0 /\ AsReviewer(u) /\ DraftIsCurrent(current)
            \/ /\ current # 0 /\ AsReviewer(u) /\ PendingIsCurrent(current)
               /\ revisions[current].submitter # NoUser
            \/ current # 0 /\ AsApprover(u) /\ (PendingIsCurrent(current) \/ ApprovedIsCurrent(current)))
  BY Zenon DEF PagesMatchCommands, CanDo
<1>u. u \in Users /\ u # Uploader /\ NoUser \notin Users /\ principal[u] = role[u]
  BY CasefileAssumption DEF Current
<1>1. CASE principal[u] = "admin"
  <2>1. revisions[current].submitter = u => revisions[current].submitter # NoUser
    BY <1>u
  <2> QED
    BY <1>1, <1>u, <2>1, AdministratorsMatch, ModesOffered
<1>2. CASE principal[u] # "admin"
  BY <1>2, <1>u, MembersMatch
<1> QED
  BY <1>1, <1>2

\* casefile/capabilities and casefile/commands: whatever a page enables its
\* command takes and nothing else, and an administrator is offered the modes in
\* which there is something to do, in every reachable state.
THEOREM PagesCorrect == ReadSpec => []PagesMatchCommands
<1>1. /\ TypeOK /\ PointersAgree
      /\ AssignmentsFollowRoles /\ ReviewEndsAtApproval
      /\ ReadType
      => PagesMatchCommands
  BY PagesMatch
<1> QED
  BY <1>1, ReadersOnlyRead, ReadTyping, Typing, PointersCorrect, AssignmentsCorrect, PTL

-----------------------------------------------------------------------------
(* The inbox *)

\* What the inbox takes for granted: a casefile is ready once its transcript is
\* there, and a current revision that is not approved is a draft or pending.
ShowsWork ==
  /\ health = "ready" => current # 0
  /\ health = "processing" => current = 0
  /\ current # 0 /\ approved # current =>
       revisions[current].state \in {"draft", "pending_approval"}

LEMMA ShowsWorkStep ==
  ASSUME TypeOK, PointersAgree, ShowsWork, [Next]_vars
  PROVE  ShowsWork'
<1>n. count \in Nat /\ current = count /\ approved \in Nat /\ RevisionIds \subseteq Nat \ {0}
      /\ \A i \in 1 .. count : i \in RevisionIds
  BY Numbers DEF PointersAgree
<1>1. ASSUME NEW u \in Users, NEW seen \in 1 .. count, SaveDraft(u, seen) PROVE ShowsWork'
  BY <1>1, <1>n, SaveDraftEffect DEF ShowsWork, SaveDraft
<1>2. ASSUME NEW u \in Users, NEW seen \in 1 .. count, SubmitClean(u, seen) PROVE ShowsWork'
  BY <1>2, <1>n, SubmitCleanEffect DEF ShowsWork, SubmitClean
<1>3. ASSUME NEW u \in Users, NEW seen \in 1 .. count, SubmitDirty(u, seen) PROVE ShowsWork'
  BY <1>3, <1>n, SubmitDirtyEffect DEF ShowsWork, SubmitDirty
<1>4. ASSUME NEW u \in Users, NEW seen \in 1 .. count, Withdraw(u, seen) PROVE ShowsWork'
  BY <1>4, <1>n, WithdrawEffect DEF ShowsWork, Withdraw
<1>5. ASSUME NEW u \in Users, NEW seen \in 1 .. count, RequestChanges(u, seen) PROVE ShowsWork'
  BY <1>5, <1>n, RequestChangesEffect DEF ShowsWork, RequestChanges
<1>6. ASSUME NEW u \in Users, NEW seen \in 1 .. count, Approve(u, seen) PROVE ShowsWork'
  BY <1>6, <1>n, ApproveEffect DEF ShowsWork, Approve
<1>7. ASSUME NEW u \in Users, NEW seen \in 1 .. count, Reopen(u, seen) PROVE ShowsWork'
  BY <1>7, <1>n, ReopenEffect DEF ShowsWork, Reopen
<1>8. ASSUME NEW u \in Users, NEW seen \in 1 .. count, Recover(u, seen) PROVE ShowsWork'
  BY <1>8, <1>n, RecoverEffect DEF ShowsWork, Recover
<1>9. ASSUME NEW a \in Users, Purge(a) PROVE ShowsWork'
  BY <1>9 DEF ShowsWork, Purge
<1>10. ASSUME DeliverTranscript PROVE ShowsWork'
  BY <1>10, <1>n, DeliverEffect, Numbers DEF ShowsWork, DeliverTranscript
<1>11. ASSUME IngestFails \/ IngestResumes PROVE ShowsWork'
  BY <1>11, <1>n DEF ShowsWork, IngestFails, IngestResumes, pointers
<1>12. ASSUME UNCHANGED <<health, revisions, current, approved>> PROVE ShowsWork'
  BY <1>12 DEF ShowsWork
<1>13. ASSUME NEW a \in Users, NEW u \in Users, NEW q, Assign(a, u) \/ Unassign(a, u, q)
                \/ ChangeRole(a, u, q) \/ EnterMode(a, q)
       PROVE  UNCHANGED <<health, revisions, current, approved>>
  BY <1>13 DEF Assign, Unassign, ChangeRole, EnterMode, pointers
<1>14. ASSUME NEW a \in Users, ResetLedger(a) \/ ExitMode(a) \/ NoticeLapse(a) \/ ModeLapses(a)
                \/ Authenticate(a)
       PROVE  UNCHANGED <<health, revisions, current, approved>>
  BY <1>14 DEF ResetLedger, ExitMode, NoticeLapse, ModeLapses, Authenticate, pointers
<1>15. RewriteState \/ UNCHANGED vars => UNCHANGED <<health, revisions, current, approved>>
  BY DEF RewriteState, vars, pointers
<1> QED
  BY <1>1, <1>2, <1>3, <1>4, <1>5, <1>6, <1>7, <1>8, <1>9, <1>10, <1>11, <1>12, <1>13, <1>14,
     <1>15 DEF Next, Command, Administer, Appoint, ActionModes, RenameSpeaker

\* What the page would let somebody with an assignment do now.
HasWork(u) ==
  \E g \in Opens(u, 0) : g[1] = "active" /\
    \E key \in {"edit", "decide"} : Capable(u, "none", g, Selected(g, 0), key)

\* For the holder of an assignment that is a draft to edit, or a pending
\* revision of somebody else's to decide.
LEMMA WorkIs ==
  ASSUME TypeOK, PointersAgree, AssignmentsFollowRoles,
         NEW u \in Users, u # Uploader, principal[u] \in AssignmentRole, principal[u] = role[u]
  PROVE  HasWork(u) <=>
           /\ current # 0 /\ <<u, principal[u]>> \in active
           /\ \/ principal[u] = "reviewer" /\ revisions[current].state = "draft"
              \/ /\ principal[u] = "approver" /\ pending = current
                 /\ revisions[pending].submitter # u
<1>a. principal[u] # "admin"
  BY DEF AssignmentRole
<1>1. \A q \in AssignmentRole : <<"active", q>> \in Opens(u, 0) <=>
                                  q = principal[u] /\ <<u, q>> \in active
  BY <1>a, GrantsOf DEF Opens, ActiveRoles, AssignmentsFollowRoles
<1>2. \A g \in Opens(u, 0) : g[1] = "active" =>
         g = <<"active", principal[u]>> /\ Selected(g, 0) = current
  <2> SUFFICES ASSUME NEW g \in Opens(u, 0), g[1] = "active"
               PROVE  g = <<"active", principal[u]>> /\ Selected(g, 0) = current
    OBVIOUS
  <2>1. PICK q \in AssignmentRole : g = <<"active", q>> \/ g = <<"completed", q>>
    BY <1>a, GrantsOf DEF Opens
  <2>2. g = <<"active", q>>
    BY <2>1
  <2> QED
    BY <1>1, <2>2, OpensCurrent DEF Opens, Grants
<1>3. HasWork(u) <=>
        /\ <<u, principal[u]>> \in active
        /\ \E key \in {"edit", "decide"} :
             Capable(u, "none", <<"active", principal[u]>>, current, key)
  BY <1>1, <1>2 DEF HasWork
<1>4. CASE principal[u] = "reviewer"
  BY <1>3, <1>4 DEF Capable, PolicyAllows, HasReviewerAuthority, HasApproverAuthority
<1>5. CASE principal[u] = "approver"
  BY <1>3, <1>5 DEF Capable, PolicyAllows, HasReviewerAuthority, HasApproverAuthority
<1> QED
  BY <1>4, <1>5 DEF AssignmentRole

\* A row of the current revision is work exactly when there is some, or when
\* the pending revision is one's own.
LEMMA RowIs ==
  ASSUME TypeOK, PointersAgree, ShowsWork, health \notin {"failed", "purged"},
         NEW u \in Users, principal[u] \in AssignmentRole
  PROVE  InboxRow(u, current, 0, FALSE).actionable <=>
           /\ current # 0
           /\ \/ principal[u] = "reviewer" /\ revisions[current].state = "draft"
              \/ principal[u] = "approver" /\ pending = current
<1>n. current \in Nat /\ (current # 0 => current \in RevisionIds)
  BY Numbers DEF TypeOK, Pointers, RevisionIds
<1>p. current # 0 => (pending = current <=> revisions[current].state = "pending_approval")
  BY <1>n DEF PointersAgree
<1>o. \A i : Origin(i) \in {"draft_review", "changes_requested", "reopened"}
  BY DEF Origin
<1>1. InboxRow(u, current, 0, FALSE).actionable <=> IsActionable(principal[u], Stage(current), FALSE)
  BY DEF InboxRow
<1>2. CASE health = "processing"
  <2>1. Stage(current) = "transcribing" /\ current = 0
    BY <1>2 DEF Stage, ShowsWork
  <2> QED
    BY <1>1, <2>1 DEF IsActionable
<1>3. CASE health = "ready"
  <2>1. current # 0
    BY <1>3 DEF ShowsWork
  <2>2. CASE revisions[current].state = "pending_approval"
    <3>1. Stage(current) = "pending_approval"
      BY <1>3, <2>1, <2>2 DEF Stage
    <3> QED
      BY <1>1, <1>p, <2>1, <2>2, <3>1 DEF IsActionable
  <2>3. CASE revisions[current].state # "pending_approval" /\ approved = current
    <3>1. Stage(current) = "approved"
      BY <1>3, <2>1, <2>3 DEF Stage
    <3>2. revisions[current].state = "approved"
      BY <2>1, <2>3 DEF PointersAgree
    <3> QED
      BY <1>1, <1>p, <2>1, <2>3, <3>1, <3>2 DEF IsActionable
  <2>4. CASE revisions[current].state # "pending_approval" /\ approved # current
    <3>1. Stage(current) = Origin(current)
      BY <1>3, <2>1, <2>4 DEF Stage
    <3>2. revisions[current].state = "draft"
      BY <2>1, <2>4 DEF ShowsWork
    <3> QED
      BY <1>1, <1>o, <1>p, <2>1, <2>4, <3>1, <3>2 DEF IsActionable
  <2> QED
    BY <2>2, <2>3, <2>4
<1> QED
  BY <1>2, <1>3 DEF TypeOK

LEMMA EveryRow ==
  ASSUME TypeOK, PointersAgree, AssignmentsFollowRoles, ShowsWork, health # "failed",
         NEW u \in Users, u # Uploader, principal[u] = role[u], NEW row \in Inbox(u)
  PROVE  /\ row.actionable => HasWork(u) \/ (pending # 0 /\ revisions[pending].submitter = u)
         /\ Opens(u, row.link) # {}
         /\ \A g \in Opens(u, row.link) : g[1] # "active" => Selected(g, row.link) = row.revision
<1>h. health # "purged"
  BY DEF Inbox
<1>1. CASE principal[u] \notin AssignmentRole
  <2>1. principal[u] = "admin" /\ row = InboxRow(u, current, 0, FALSE)
    BY <1>1, <1>h DEF Inbox
  <2>2. ~row.actionable /\ row.link = 0 /\ row.revision = current
    BY <2>1 DEF InboxRow, IsActionable
  <2>3. Opens(u, 0) = {<<"oversight", "admin">>}
    BY <2>1, AdminGrants DEF Opens
  <2>4. \A g \in Opens(u, 0) : Selected(g, 0) = current
    BY OpensCurrent DEF Opens, Grants
  <2> QED
    BY <2>2, <2>3, <2>4
<1>2. CASE principal[u] \in AssignmentRole
  <2>a. principal[u] # "admin"
    BY <1>2 DEF AssignmentRole
  <2>1. row \in AssignedRows(u)
    BY <1>2, <1>h DEF Inbox
  <2>2. CASE row \in {InboxRow(u, current, 0, FALSE) :
                        q \in {r \in ActiveRoles(u) : GrantsAt(u, current) # {}}}
    <3>1. PICK q \in ActiveRoles(u) : GrantsAt(u, current) # {} /\ row = InboxRow(u, current, 0, FALSE)
      BY <2>2
    <3>2. <<u, principal[u]>> \in active
      BY <3>1 DEF ActiveRoles, AssignmentsFollowRoles
    <3>3. row.link = 0 /\ row.revision = current
      BY <3>1 DEF InboxRow
    <3>4. row.actionable => HasWork(u) \/ (pending # 0 /\ revisions[pending].submitter = u)
      BY <1>2, <1>h, <3>1, <3>2, RowIs, WorkIs DEF AssignmentRole
    <3>5. \A g \in Opens(u, 0) : Selected(g, 0) = current
      BY OpensCurrent DEF Opens, Grants
    <3> QED
      BY <3>1, <3>3, <3>4, <3>5 DEF Opens
  <2>3. CASE row \in {InboxRow(u, c[3], c[3], TRUE) :
                        c \in {d \in completed : d[1] = u /\ GrantsAt(u, d[3]) # {}}}
    <3>1. PICK c \in completed : GrantsAt(u, c[3]) # {} /\ row = InboxRow(u, c[3], c[3], TRUE)
      BY <2>3
    <3>2. row.link = c[3] /\ row.revision = c[3] /\ ~row.actionable
      BY <3>1 DEF InboxRow, IsActionable
    <3>3. CASE c[3] # 0
      <4>1. Opens(u, row.link) = GrantsAt(u, c[3])
        BY <3>2, <3>3 DEF Opens
      <4>2. \A g \in GrantsAt(u, c[3]) : g[1] # "active" => g[1] = "completed"
        BY <2>a, GrantsOf
      <4> QED
        BY <3>1, <3>2, <3>3, <4>1, <4>2 DEF Selected
    <3>4. CASE c[3] = 0
      <4>1. ActiveRoles(u) # {}
        <5>1. CompletedRoles(u, 0) = {}
          BY DEF CompletedRoles
        <5>2. ActiveRoles(u) = {} => GrantsAt(u, 0) = {}
          BY <2>a, <5>1 DEF GrantsAt
        <5> QED
          BY <3>1, <3>4, <5>2
      <4>2. Opens(u, row.link) = GrantsAt(u, current)
        BY <3>2, <3>4 DEF Opens
      <4>3. \A g \in GrantsAt(u, current) : g[1] = "active"
        BY <2>a, <4>1 DEF GrantsAt
      <4>4. GrantsAt(u, current) # {}
        BY <2>a, <4>1, GrantsOf DEF ActiveRoles
      <4> QED
        BY <3>2, <4>2, <4>3, <4>4
    <3> QED
      BY <3>3, <3>4
  <2> QED
    BY <2>1, <2>2, <2>3 DEF AssignedRows
<1> QED
  BY <1>1, <1>2

LEMMA Listed ==
  ASSUME TypeOK, PointersAgree, AssignmentsFollowRoles, ShowsWork
  PROVE  WorkIsListed
<1> SUFFICES ASSUME health # "failed", NEW u \in Current \ {Uploader}
             PROVE
    /\ principal[u] \in AssignmentRole /\ HasWork(u) /\ health # "purged" =>
         \E row \in Inbox(u) : row.actionable
    /\ \A row \in Inbox(u) :
         /\ row.actionable => HasWork(u) \/ (pending # 0 /\ revisions[pending].submitter = u)
         /\ Opens(u, row.link) # {}
         /\ \A g \in Opens(u, row.link) : g[1] # "active" => Selected(g, row.link) = row.revision
  BY Zenon DEF WorkIsListed, HasWork
<1>u. u \in Users /\ u # Uploader /\ principal[u] = role[u]
  BY DEF Current
<1>1. ASSUME principal[u] \in AssignmentRole, HasWork(u), health # "purged"
      PROVE  \E row \in Inbox(u) : row.actionable
  <2>a. principal[u] # "admin"
    BY <1>1 DEF AssignmentRole
  <2>1. /\ current # 0 /\ <<u, principal[u]>> \in active
        /\ \/ principal[u] = "reviewer" /\ revisions[current].state = "draft"
           \/ principal[u] = "approver" /\ pending = current
    BY <1>1, <1>u, WorkIs
  <2>2. InboxRow(u, current, 0, FALSE).actionable
    BY <1>1, <1>u, <2>1, RowIs
  <2>3. principal[u] \in ActiveRoles(u)
    BY <1>1, <2>1 DEF ActiveRoles
  <2>4. GrantsAt(u, current) # {}
    BY <1>1, <1>u, <2>a, <2>3, GrantsOf
  <2>5. InboxRow(u, current, 0, FALSE) \in AssignedRows(u)
    BY <2>3, <2>4 DEF AssignedRows
  <2>6. Inbox(u) = AssignedRows(u)
    BY <1>1 DEF Inbox
  <2> QED
    BY <2>2, <2>5, <2>6
<1> QED
  BY <1>1, <1>u, EveryRow

\* work-inbox/service: no work lies in nobody's inbox and no row promises work
\* there is not, in every reachable state.
THEOREM InboxCorrect == ReadSpec => []WorkIsListed
<1>1. Init => ShowsWork
  BY DEF Init, ShowsWork
<1>2. TypeOK /\ PointersAgree /\ ShowsWork /\ [Next]_vars => ShowsWork'
  BY ShowsWorkStep
<1>3. Spec => []ShowsWork
  BY <1>1, <1>2, Typing, PointersCorrect, PTL DEF Spec
<1>4. /\ TypeOK /\ PointersAgree /\ ShowsWork
      /\ AssignmentsFollowRoles /\ ReviewEndsAtApproval
      => WorkIsListed
  BY Listed
<1> QED
  BY <1>3, <1>4, ReadersOnlyRead, Typing, PointersCorrect, AssignmentsCorrect, PTL

-----------------------------------------------------------------------------
(* Exports *)

\* The export route: a file that calls itself approved is of the approved,
\* current revision when it is handed out, whatever happened while it was built.
THEOREM ExportsCorrect == ReadSpec => ExportsAreApproved
<1>1. ASSUME TypeOK, PointersAgree, ReviewEndsAtApproval, ReadType, [ReadNext]_readVars,
             export.status = "building", export'.status = "none"
      PROVE  /\ export.revision \in 1 .. count
             /\ export.named => approved = export.revision /\ pending = 0
                                /\ \A a \in active : a[2] # "reviewer"
  <2>1. StillExportable(export)
    BY <1>1 DEF ReadNext, readVars, AskExport, FinishExport, SetPolicyProfile, NoExport
  <2>n. RevisionIds \subseteq Nat \ {0} /\ count \in Nat
    BY <1>1, Numbers
  <2>2. export.revision \in RevisionIds /\ export.revision \in Nat /\ export.revision # 0
    BY <1>1, <2>n DEF ReadType
  <2>3. export.revision \in 1 .. count
    <3>1. ~(export.revision > count)
      BY <1>1, <2>1, <2>2 DEF StillExportable, PointersAgree
    <3>2. \A i, n \in Nat : i # 0 /\ ~(i > n) => i \in 1 .. n
      OBVIOUS
    <3> QED
      BY <2>n, <2>2, <3>1, <3>2
  <2>4. ASSUME export.named PROVE approved = export.revision /\ pending = 0
                                  /\ \A a \in active : a[2] # "reviewer"
    BY <1>1, <2>1, <2>2, <2>4 DEF StillExportable, PointersAgree, ReviewEndsAtApproval
  <2> QED
    BY <2>3, <2>4
<1>2. TypeOK /\ PointersAgree /\ AssignmentsFollowRoles /\ ReviewEndsAtApproval /\ ReadType
      /\ [ReadNext]_readVars
      => [export.status = "building" /\ export'.status = "none" =>
            /\ export.revision \in 1 .. count
            /\ export.named => approved = export.revision /\ pending = 0
                               /\ \A a \in active : a[2] # "reviewer"]_readVars
  BY <1>1
<1> QED
  BY <1>2, ReadersOnlyRead, ReadTyping, Typing, PointersCorrect, AssignmentsCorrect, PTL
     DEF ReadSpec, ExportsAreApproved
=============================================================================

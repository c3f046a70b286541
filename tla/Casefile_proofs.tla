--------------------------- MODULE Casefile_proofs ---------------------------
(***************************************************************************)
(* Proofs about Casefile for any accounts, roles, role changes and number  *)
(* of revisions.                                                           *)
(***************************************************************************)
EXTENDS Casefile, TLAPS

-----------------------------------------------------------------------------
(* Rows *)

LEMMA Closing ==
  ASSUME NEW f \in [RevisionIds -> Revision], NEW i, NEW s \in RevisionStates
  PROVE  [f EXCEPT ![i].state = s] \in [RevisionIds -> Revision]
BY DEF Revision

LEMMA Adding ==
  ASSUME NEW f \in [RevisionIds -> Revision], NEW i, NEW r \in Revision
  PROVE  [f EXCEPT ![i] = r] \in [RevisionIds -> Revision]
OBVIOUS

LEMMA Submitting ==
  ASSUME NEW f \in [RevisionIds -> Revision], NEW i, NEW s \in RevisionStates,
         NEW u \in Users
  PROVE  [f EXCEPT ![i].state = s, ![i].submitter = u] \in [RevisionIds -> Revision]
BY DEF Revision

LEMMA DraftIsRevision ==
  ASSUME NEW b \in Pointers, NEW s \in Pointers, NEW u \in Users, NEW r \in Role
  PROVE  NewDraft(b, s, u, r) \in Revision
BY DEF NewDraft, Revision, RevisionStates

LEMMA AbsentIsRevision == Absent \in Revision
BY CasefileAssumption DEF Absent, Revision, RevisionStates, Pointers

LEMMA RowIsDecision ==
  ASSUME NEW i \in RevisionIds, NEW s \in DecisionStates, NEW u \in Users,
         NEW q \in AssignmentRole, NEW seen \in RevisionIds, principal \in [Users -> Role]
  PROVE  Row(i, s, u, q, seen) \in Decision
BY DEF Row, Decision

\* A transition command closes one revision and opens the next.
LEMMA CloneType ==
  ASSUME TypeOK, NEW i \in RevisionIds, NEW s \in RevisionStates, NEW u \in Users,
         NEW q \in AssignmentRole, CloneDraft(i, s, u, q, i)
  PROVE  /\ revisions' \in [RevisionIds -> Revision]
         /\ count' \in Pointers /\ current' \in Pointers /\ pending' \in Pointers
<1>1. i \in Pointers /\ q \in Role
  BY CasefileAssumption DEF RevisionIds, Pointers, AssignmentRole, Role
<1>2. NewDraft(i, i, u, q) \in Revision
  BY <1>1, DraftIsRevision
<1>3. revisions' = [[revisions EXCEPT ![i].state = s]
                       EXCEPT ![count + 1] = NewDraft(i, i, u, q)]
  BY DEF CloneDraft
<1>4. revisions' \in [RevisionIds -> Revision]
  BY <1>2, <1>3, Closing, Adding DEF TypeOK
<1>5. QED
  BY <1>4, CasefileAssumption DEF CloneDraft, HasRoom, TypeOK, Pointers

LEMMA SavedType ==
  ASSUME TypeOK, NEW u \in Users, NEW seen \in RevisionIds
  PROVE  SavedDraft(u, seen) \in [RevisionIds -> Revision]
<1>1. NewDraft(current, seen, u, "reviewer") \in Revision
  BY CasefileAssumption, DraftIsRevision DEF TypeOK, Role, RevisionIds, Pointers
<1>2. SavedDraft(u, seen) = [[revisions EXCEPT ![current].state = "superseded"]
                               EXCEPT ![count + 1] = NewDraft(current, seen, u, "reviewer")]
  BY DEF SavedDraft
<1>3. [revisions EXCEPT ![current].state = "superseded"] \in [RevisionIds -> Revision]
  BY Closing DEF TypeOK, RevisionStates
<1>4. QED
  BY <1>1, <1>2, <1>3, Adding

-----------------------------------------------------------------------------

\* Every variable keeps its type: a step of any handler writes only states,
\* pointers and rows of the kinds the schema knows.
THEOREM Typing == Spec => []TypeOK
<1>1. Init => TypeOK
  BY CasefileAssumption, AbsentIsRevision DEF Init, TypeOK, Pointers
<1>2. TypeOK /\ [Next]_vars => TypeOK'
  <2> SUFFICES ASSUME TypeOK, [Next]_vars PROVE TypeOK'
    OBVIOUS
  <2>a. \A i \in 1 .. count : i \in RevisionIds /\ i \in Pointers
    BY CasefileAssumption DEF TypeOK, RevisionIds, Pointers
  <2>b. /\ {"superseded", "pending_approval", "withdrawn", "changes_requested", "approved"}
             \subseteq RevisionStates
        /\ {"reviewer", "approver"} = AssignmentRole
        /\ {"pending", "withdrawn", "changes_requested", "approved", "reopened"} = DecisionStates
    BY DEF RevisionStates, AssignmentRole, DecisionStates
  <2>d. 0 \in Pointers
    BY CasefileAssumption DEF Pointers
  <2>c. HasRoom => count + 1 \in RevisionIds /\ count + 1 \in Pointers
    BY CasefileAssumption DEF HasRoom, TypeOK, RevisionIds, Pointers
  <2>1. ASSUME NEW u \in Users, NEW seen \in 1 .. count, SaveDraft(u, seen) PROVE TypeOK'
    <3>1. revisions' \in [RevisionIds -> Revision]
      BY <2>1, <2>a, SavedType DEF SaveDraft
    <3>2. QED
      BY <2>1, <2>c, <2>d, <3>1 DEF SaveDraft, TypeOK, people, assignments
  <2>2. ASSUME NEW u \in Users, NEW seen \in 1 .. count, SubmitClean(u, seen) PROVE TypeOK'
    <3>1. revisions' \in [RevisionIds -> Revision]
      BY <2>2, <2>b, Submitting DEF SubmitClean, TypeOK
    <3>2. Row(seen, "pending", u, "reviewer", seen) \in Decision
      BY <2>a, <2>b, RowIsDecision DEF TypeOK
    <3>3. QED
      BY <2>2, <2>a, <3>1, <3>2 DEF SubmitClean, TypeOK, people, assignments
  <2>3. ASSUME NEW u \in Users, NEW seen \in 1 .. count, SubmitDirty(u, seen) PROVE TypeOK'
    <3>1. revisions' \in [RevisionIds -> Revision]
      BY <2>3, <2>a, <2>b, SavedType, Submitting DEF SubmitDirty
    <3>2. Row(count + 1, "pending", u, "reviewer", seen) \in Decision
      BY <2>3, <2>a, <2>b, <2>c, RowIsDecision DEF SubmitDirty, TypeOK
    <3>3. QED
      BY <2>3, <2>c, <3>1, <3>2 DEF SubmitDirty, TypeOK, people, assignments
  <2>4. ASSUME NEW u \in Users, NEW seen \in 1 .. count, Withdraw(u, seen) PROVE TypeOK'
    <3>1. Row(seen, "withdrawn", u, "reviewer", seen) \in Decision
      BY <2>a, <2>b, RowIsDecision DEF TypeOK
    <3>2. QED
      BY <2>4, <2>a, <2>b, <3>1, CloneType DEF Withdraw, TypeOK, people, assignments
  <2>5. ASSUME NEW u \in Users, NEW seen \in 1 .. count, RequestChanges(u, seen) PROVE TypeOK'
    <3>1. Row(seen, "changes_requested", u, "approver", seen) \in Decision
      BY <2>a, <2>b, RowIsDecision DEF TypeOK
    <3>2. QED
      BY <2>5, <2>a, <2>b, <3>1, CloneType DEF RequestChanges, TypeOK, people, assignments
  <2>6. ASSUME NEW u \in Users, NEW seen \in 1 .. count, Approve(u, seen) PROVE TypeOK'
    <3>1. revisions' \in [RevisionIds -> Revision]
      BY <2>6, <2>b, Closing DEF Approve, TypeOK
    <3>2. Row(seen, "approved", u, "approver", seen) \in Decision
      BY <2>a, <2>b, RowIsDecision DEF TypeOK
    <3>3. completed' \subseteq Users \X AssignmentRole \X Pointers
      BY <2>6, <2>a DEF Approve, Completing, TypeOK
    <3>4. QED
      BY <2>6, <2>a, <2>d, <3>1, <3>2, <3>3 DEF Approve, TypeOK, people, Completing
  <2>7. ASSUME NEW u \in Users, NEW seen \in 1 .. count, Reopen(u, seen) PROVE TypeOK'
    <3>1. Row(seen, "reopened", u, "approver", seen) \in Decision
      BY <2>a, <2>b, RowIsDecision DEF TypeOK
    <3>2. QED
      BY <2>7, <2>a, <2>b, <2>d, <3>1, CloneType DEF Reopen, TypeOK, people, assignments
  <2>8. ASSUME NEW a \in Users, NEW source \in 1 .. count, Recover(a, source) PROVE TypeOK'
    <3>1. NewDraft(source, source, a, "admin") \in Revision
      BY <2>a, DraftIsRevision DEF Role
    <3>2. \A i \in RevisionIds : LetGo(revisions[i].state) \in RevisionStates
      BY <2>b DEF LetGo, TypeOK, Revision
    <3>3. [revisions EXCEPT ![current].state = LetGo(@)] \in [RevisionIds -> Revision]
      BY <3>2 DEF TypeOK, Revision
    <3>4. revisions' = [[revisions EXCEPT ![current].state = LetGo(@)]
                          EXCEPT ![count + 1] = NewDraft(source, source, a, "admin")]
      BY <2>8 DEF Recover
    <3>5. revisions' \in [RevisionIds -> Revision]
      BY <3>1, <3>3, <3>4, Adding
    <3>6. QED
      BY <2>8, <2>c, <2>d, <3>5 DEF Recover, TypeOK, people, assignments
  <2>9. ASSUME NEW a \in Users, NEW u \in Users, Assign(a, u) PROVE TypeOK'
    BY <2>9 DEF Assign, TypeOK, people, pointers
  <2>10. ASSUME NEW a \in Users, NEW u \in Users, NEW q \in AssignmentRole, Unassign(a, u, q)
         PROVE TypeOK'
    BY <2>10 DEF Unassign, TypeOK, people, pointers
  <2>11. ASSUME NEW a \in Users, NEW u \in Users, NEW r \in Role, ChangeRole(a, u, r)
         PROVE TypeOK'
    BY <2>11 DEF ChangeRole, TypeOK, pointers, assignments
  <2>12. ASSUME NEW a \in Users, ResetLedger(a) PROVE TypeOK'
    BY <2>12 DEF ResetLedger, TypeOK, people, pointers
  <2>13. ASSUME NEW a \in Users, Purge(a) PROVE TypeOK'
    BY <2>13, AbsentIsRevision, CasefileAssumption DEF Purge, TypeOK, people, Pointers
  <2>14. ASSUME NEW a \in Users, NEW q \in AssignmentRole, EnterMode(a, q) PROVE TypeOK'
    BY <2>14, <2>b DEF EnterMode, TypeOK, people, pointers, assignments
  <2>15. ASSUME NEW a \in Users, ExitMode(a) \/ NoticeLapse(a) \/ ModeLapses(a) PROVE TypeOK'
    BY <2>15 DEF ExitMode, NoticeLapse, ModeLapses, TypeOK, people, pointers, assignments
  <2>16. ASSUME NEW u \in Users, Authenticate(u) PROVE TypeOK'
    BY <2>16 DEF Authenticate, TypeOK, pointers, assignments
  <2>17. ASSUME DeliverTranscript PROVE TypeOK'
    <3>1. revisions' \in [RevisionIds -> Revision]
      BY <2>17, AbsentIsRevision DEF DeliverTranscript, TypeOK, Revision, RevisionStates
    <3>2. QED
      BY <2>17, <3>1, CasefileAssumption
         DEF DeliverTranscript, TypeOK, people, assignments, Pointers
  <2>18. ASSUME IngestFails \/ IngestResumes PROVE TypeOK'
    BY <2>18 DEF IngestFails, IngestResumes, TypeOK, people, pointers, assignments
  <2>19. ASSUME RewriteState PROVE TypeOK'
    BY <2>19, CasefileAssumption DEF RewriteState, TypeOK, people, pointers, Pointers
  <2>20. CASE UNCHANGED vars
    BY <2>20 DEF vars, TypeOK, people, pointers, assignments
  <2>21. QED
    BY <2>1, <2>2, <2>3, <2>4, <2>5, <2>6, <2>7, <2>8, <2>9, <2>10, <2>11, <2>12, <2>13,
       <2>14, <2>15, <2>16, <2>17, <2>18, <2>19, <2>20
       DEF Next, Command, Administer, Appoint, ActionModes, RenameSpeaker
<1>3. QED
  BY <1>1, <1>2, PTL DEF Spec

-----------------------------------------------------------------------------
(* What the writing steps make of the pointers and of the two columns they *)
(* depend on                                                               *)

LEMMA Numbers ==
  ASSUME TypeOK
  PROVE  /\ count \in Nat /\ current \in Nat /\ pending \in Nat /\ approved \in Nat
         /\ RevisionIds \subseteq Nat \ {0} /\ 1 \in RevisionIds
         /\ \A i \in 1 .. count : i \in RevisionIds
         /\ HasRoom => count + 1 \in RevisionIds
         /\ NoUser \notin Users
BY CasefileAssumption DEF TypeOK, Pointers, RevisionIds, HasRoom

LEMMA CloneRows ==
  ASSUME TypeOK, NEW i \in 1 .. count, NEW s \in RevisionStates, NEW u \in Users,
         NEW q \in AssignmentRole, CloneDraft(i, s, u, q, i)
  PROVE  \A j \in RevisionIds :
           /\ revisions'[j].state = IF j = count + 1 THEN "draft"
                                    ELSE IF j = i THEN s ELSE revisions[j].state
           /\ revisions'[j].submitter = IF j = count + 1 THEN NoUser
                                        ELSE revisions[j].submitter
BY CasefileAssumption
   DEF CloneDraft, NewDraft, HasRoom, TypeOK, Revision, RevisionIds, Pointers

LEMMA SavedRows ==
  ASSUME TypeOK, NEW u \in Users, NEW seen \in RevisionIds, HasRoom
  PROVE  \A j \in RevisionIds :
           /\ SavedDraft(u, seen)[j].state =
                IF j = count + 1 THEN "draft"
                ELSE IF j = current THEN "superseded" ELSE revisions[j].state
           /\ SavedDraft(u, seen)[j].submitter = IF j = count + 1 THEN NoUser
                                                 ELSE revisions[j].submitter
BY CasefileAssumption
   DEF SavedDraft, NewDraft, HasRoom, TypeOK, Revision, RevisionIds, Pointers

LEMMA SaveDraftEffect ==
  ASSUME TypeOK, PointersAgree, NEW u \in Users, NEW seen \in 1 .. count, SaveDraft(u, seen)
  PROVE  /\ current = count /\ count \in RevisionIds /\ revisions[count].state = "draft"
         /\ pending = 0 /\ approved = 0 /\ count + 1 \in RevisionIds
         /\ count' = count + 1 /\ current' = count + 1 /\ pending' = 0 /\ approved' = 0
         /\ \A j \in RevisionIds :
              /\ revisions'[j].state = IF j = count + 1 THEN "draft"
                                       ELSE IF j = current THEN "superseded"
                                       ELSE revisions[j].state
              /\ revisions'[j].submitter = IF j = count + 1 THEN NoUser ELSE revisions[j].submitter
<1>1. \A j \in RevisionIds :
        /\ revisions'[j].state = IF j = count + 1 THEN "draft"
                                 ELSE IF j = current THEN "superseded" ELSE revisions[j].state
        /\ revisions'[j].submitter = IF j = count + 1 THEN NoUser ELSE revisions[j].submitter
  BY Numbers, SavedRows DEF SaveDraft
<1>2. QED
  BY <1>1, Numbers DEF SaveDraft, DraftIsCurrent, PointersAgree

LEMMA SubmitCleanEffect ==
  ASSUME TypeOK, PointersAgree, NEW u \in Users, NEW seen \in 1 .. count, SubmitClean(u, seen)
  PROVE  /\ current = seen /\ count = seen /\ seen \in RevisionIds
         /\ revisions[seen].state = "draft" /\ pending = 0 /\ approved = 0
         /\ count' = seen /\ current' = seen /\ pending' = seen /\ approved' = 0
         /\ \A j \in RevisionIds :
              /\ revisions'[j].state = IF j = seen THEN "pending_approval" ELSE revisions[j].state
              /\ revisions'[j].submitter = IF j = seen THEN u ELSE revisions[j].submitter
<1>1. \A j \in RevisionIds :
        /\ revisions'[j].state = IF j = seen THEN "pending_approval" ELSE revisions[j].state
        /\ revisions'[j].submitter = IF j = seen THEN u ELSE revisions[j].submitter
  BY Numbers DEF SubmitClean, TypeOK, Revision
<1>2. QED
  BY <1>1, Numbers DEF SubmitClean, DraftIsCurrent, PointersAgree

LEMMA SubmitDirtyEffect ==
  ASSUME TypeOK, PointersAgree, NEW u \in Users, NEW seen \in 1 .. count, SubmitDirty(u, seen)
  PROVE  /\ current = count /\ count \in RevisionIds /\ revisions[count].state = "draft"
         /\ pending = 0 /\ approved = 0 /\ count + 1 \in RevisionIds
         /\ count' = count + 1 /\ current' = count + 1 /\ pending' = count + 1 /\ approved' = 0
         /\ \A j \in RevisionIds :
              /\ revisions'[j].state = IF j = count + 1 THEN "pending_approval"
                                       ELSE IF j = current THEN "superseded"
                                       ELSE revisions[j].state
              /\ revisions'[j].submitter = IF j = count + 1 THEN u ELSE revisions[j].submitter
<1>1. \A j \in RevisionIds :
        /\ revisions'[j].state = IF j = count + 1 THEN "pending_approval"
                                 ELSE SavedDraft(u, seen)[j].state
        /\ revisions'[j].submitter = IF j = count + 1 THEN u
                                     ELSE SavedDraft(u, seen)[j].submitter
  BY Numbers, SavedType DEF SubmitDirty, Revision
<1>2. \A j \in RevisionIds :
        /\ SavedDraft(u, seen)[j].state =
             IF j = count + 1 THEN "draft"
             ELSE IF j = current THEN "superseded" ELSE revisions[j].state
        /\ SavedDraft(u, seen)[j].submitter = IF j = count + 1 THEN NoUser
                                              ELSE revisions[j].submitter
  BY Numbers, SavedRows DEF SubmitDirty
<1>3. \A j \in RevisionIds :
        /\ revisions'[j].state = IF j = count + 1 THEN "pending_approval"
                                 ELSE IF j = current THEN "superseded" ELSE revisions[j].state
        /\ revisions'[j].submitter = IF j = count + 1 THEN u ELSE revisions[j].submitter
  BY <1>1, <1>2
<1>4. QED
  BY <1>3, Numbers DEF SubmitDirty, DraftIsCurrent, PointersAgree

LEMMA WithdrawEffect ==
  ASSUME TypeOK, PointersAgree, NEW u \in Users, NEW seen \in 1 .. count, Withdraw(u, seen)
  PROVE  /\ current = seen /\ count = seen /\ seen \in RevisionIds /\ count + 1 \in RevisionIds
         /\ revisions[seen].state = "pending_approval"
         /\ count' = count + 1 /\ current' = count + 1 /\ pending' = 0 /\ approved' = 0
         /\ \A j \in RevisionIds :
              /\ revisions'[j].state = IF j = count + 1 THEN "draft"
                                       ELSE IF j = seen THEN "withdrawn"
                                       ELSE revisions[j].state
              /\ revisions'[j].submitter = IF j = count + 1 THEN NoUser ELSE revisions[j].submitter
<1>1. \A j \in RevisionIds :
        /\ revisions'[j].state = IF j = count + 1 THEN "draft"
                                 ELSE IF j = seen THEN "withdrawn" ELSE revisions[j].state
        /\ revisions'[j].submitter = IF j = count + 1 THEN NoUser ELSE revisions[j].submitter
  BY Numbers, CloneRows DEF Withdraw, RevisionStates, AssignmentRole
<1>2. QED
  BY <1>1, Numbers DEF Withdraw, PendingIsCurrent, CloneDraft, PointersAgree

LEMMA RequestChangesEffect ==
  ASSUME TypeOK, PointersAgree, NEW u \in Users, NEW seen \in 1 .. count, RequestChanges(u, seen)
  PROVE  /\ current = seen /\ count = seen /\ seen \in RevisionIds /\ count + 1 \in RevisionIds
         /\ revisions[seen].state = "pending_approval"
         /\ count' = count + 1 /\ current' = count + 1 /\ pending' = 0 /\ approved' = 0
         /\ \A j \in RevisionIds :
              /\ revisions'[j].state = IF j = count + 1 THEN "draft"
                                       ELSE IF j = seen THEN "changes_requested"
                                       ELSE revisions[j].state
              /\ revisions'[j].submitter = IF j = count + 1 THEN NoUser ELSE revisions[j].submitter
<1>1. \A j \in RevisionIds :
        /\ revisions'[j].state = IF j = count + 1 THEN "draft"
                                 ELSE IF j = seen THEN "changes_requested" ELSE revisions[j].state
        /\ revisions'[j].submitter = IF j = count + 1 THEN NoUser ELSE revisions[j].submitter
  BY Numbers, CloneRows DEF RequestChanges, RevisionStates, AssignmentRole
<1>2. QED
  BY <1>1, Numbers DEF RequestChanges, PendingIsCurrent, CloneDraft, PointersAgree

LEMMA ReopenEffect ==
  ASSUME TypeOK, PointersAgree, NEW u \in Users, NEW seen \in 1 .. count, Reopen(u, seen)
  PROVE  /\ current = seen /\ count = seen /\ seen \in RevisionIds /\ count + 1 \in RevisionIds
         /\ revisions[seen].state = "approved"
         /\ count' = count + 1 /\ current' = count + 1 /\ pending' = 0 /\ approved' = 0
         /\ \A j \in RevisionIds :
              /\ revisions'[j].state = IF j = count + 1 THEN "draft"
                                       ELSE IF j = seen THEN "approved"
                                       ELSE revisions[j].state
              /\ revisions'[j].submitter = IF j = count + 1 THEN NoUser ELSE revisions[j].submitter
<1>1. \A j \in RevisionIds :
        /\ revisions'[j].state = IF j = count + 1 THEN "draft"
                                 ELSE IF j = seen THEN "approved" ELSE revisions[j].state
        /\ revisions'[j].submitter = IF j = count + 1 THEN NoUser ELSE revisions[j].submitter
  BY Numbers, CloneRows DEF Reopen, RevisionStates, AssignmentRole
<1>2. QED
  BY <1>1, Numbers DEF Reopen, ApprovedIsCurrent, CloneDraft, PointersAgree

LEMMA ApproveEffect ==
  ASSUME TypeOK, PointersAgree, NEW u \in Users, NEW seen \in 1 .. count, Approve(u, seen)
  PROVE  /\ pending = seen /\ current = seen /\ count = seen /\ seen \in RevisionIds
         /\ revisions[seen].state = "pending_approval"
         /\ count' = seen /\ current' = seen /\ pending' = 0 /\ approved' = seen
         /\ \A j \in RevisionIds :
              /\ revisions'[j].state = IF j = seen THEN "approved" ELSE revisions[j].state
              /\ revisions'[j].submitter = revisions[j].submitter
<1>1. \A j \in RevisionIds :
        /\ revisions'[j].state = IF j = seen THEN "approved" ELSE revisions[j].state
        /\ revisions'[j].submitter = revisions[j].submitter
  BY Numbers DEF Approve, TypeOK, Revision
<1>2. QED
  BY <1>1, Numbers DEF Approve, PendingIsCurrent, PointersAgree

LEMMA RecoverEffect ==
  ASSUME TypeOK, PointersAgree, NEW u \in Users, NEW seen \in 1 .. count, Recover(u, seen)
  PROVE  /\ current = count /\ count \in RevisionIds /\ count + 1 \in RevisionIds /\ pending = 0
         /\ count' = count + 1 /\ current' = count + 1 /\ pending' = 0 /\ approved' = 0
         /\ \A j \in RevisionIds :
              /\ revisions'[j].state = IF j = count + 1 THEN "draft"
                                       ELSE IF j = current THEN LetGo(revisions[j].state)
                                       ELSE revisions[j].state
              /\ revisions'[j].submitter = IF j = count + 1 THEN NoUser ELSE revisions[j].submitter
<1>1. count + 1 \in RevisionIds
  BY Numbers DEF Recover
<1>2. \A j \in RevisionIds :
        /\ revisions'[j].state = IF j = count + 1 THEN "draft"
                                 ELSE IF j = current THEN LetGo(revisions[j].state)
                                 ELSE revisions[j].state
        /\ revisions'[j].submitter = IF j = count + 1 THEN NoUser ELSE revisions[j].submitter
  BY <1>1 DEF Recover, NewDraft, TypeOK, Revision
<1>3. /\ current = count /\ count \in RevisionIds /\ pending = 0
      /\ count' = count + 1 /\ current' = count + 1 /\ pending' = 0 /\ approved' = 0
  BY Numbers DEF Recover, MayRecover, PointersAgree
<1>4. QED
  BY <1>1, <1>2, <1>3

LEMMA DeliverEffect ==
  ASSUME TypeOK, PointersAgree, DeliverTranscript
  PROVE  /\ count = 0 /\ current = 0 /\ pending = 0 /\ approved = 0
         /\ count' = 1 /\ current' = 1 /\ pending' = 0 /\ approved' = 0
         /\ \A j \in RevisionIds :
              /\ revisions'[j].state = IF j = 1 THEN "draft" ELSE revisions[j].state
              /\ revisions'[j].submitter = IF j = 1 THEN NoUser ELSE revisions[j].submitter
<1>1. \A j \in RevisionIds :
        /\ revisions'[j].state = IF j = 1 THEN "draft" ELSE revisions[j].state
        /\ revisions'[j].submitter = IF j = 1 THEN NoUser ELSE revisions[j].submitter
  BY DEF DeliverTranscript, Absent, TypeOK
<1>2. QED
  BY <1>1, Numbers DEF DeliverTranscript, PointersAgree

\* The remaining handlers leave the revisions and the pointers alone.
LEMMA OtherSteps ==
  ASSUME [Next]_vars
  PROVE  \/ \E u \in Users, seen \in 1 .. count :
              \/ SaveDraft(u, seen) \/ SubmitClean(u, seen) \/ SubmitDirty(u, seen)
              \/ Withdraw(u, seen) \/ RequestChanges(u, seen) \/ Approve(u, seen)
              \/ Reopen(u, seen) \/ Recover(u, seen)
         \/ \E a \in Users : Purge(a)
         \/ DeliverTranscript
         \/ UNCHANGED <<revisions, count, pointers>> /\ decisions' \subseteq decisions
<1> DEFINE Quiet == UNCHANGED <<revisions, count, pointers>> /\ decisions' \subseteq decisions
<1>1. ASSUME NEW a \in Users, NEW u \in Users, NEW q, Assign(a, u) \/ Unassign(a, u, q)
               \/ ChangeRole(a, u, q) \/ EnterMode(a, q)
      PROVE  Quiet
  BY <1>1 DEF Assign, Unassign, ChangeRole, EnterMode
<1>2. ASSUME NEW a \in Users, ResetLedger(a) \/ ExitMode(a) \/ NoticeLapse(a) \/ ModeLapses(a)
               \/ Authenticate(a)
      PROVE  Quiet
  BY <1>2 DEF ResetLedger, ExitMode, NoticeLapse, ModeLapses, Authenticate
<1>3. IngestFails \/ IngestResumes \/ RewriteState \/ UNCHANGED vars => Quiet
  BY DEF IngestFails, IngestResumes, RewriteState, vars
<1>4. QED
  BY <1>1, <1>2, <1>3 DEF Next, Command, Administer, Appoint, ActionModes, RenameSpeaker

-----------------------------------------------------------------------------

\* The current, pending and approved pointers agree with the states of the
\* revisions in every reachable state.
THEOREM PointersCorrect == Spec => []PointersAgree
<1>1. Init => PointersAgree
  BY CasefileAssumption DEF Init, PointersAgree, Absent, RevisionIds, Outcomes
<1>2. TypeOK /\ PointersAgree /\ [Next]_vars => PointersAgree'
  <2> SUFFICES ASSUME TypeOK, PointersAgree, [Next]_vars PROVE PointersAgree'
    OBVIOUS
  <2>n. /\ count \in Nat /\ pending \in Nat /\ approved \in Nat
        /\ RevisionIds \subseteq Nat \ {0} /\ NoUser \notin Users
    BY Numbers
  <2>1. ASSUME NEW u \in Users, NEW seen \in 1 .. count, SaveDraft(u, seen)
        PROVE  PointersAgree'
    BY <2>1, <2>n, SaveDraftEffect DEF PointersAgree, Outcomes
  <2>2. ASSUME NEW u \in Users, NEW seen \in 1 .. count, SubmitClean(u, seen)
        PROVE  PointersAgree'
    <3>1. /\ count = seen /\ revisions[seen].state = "draft" /\ seen \in RevisionIds
          /\ count' = seen /\ current' = seen /\ pending' = seen /\ approved' = 0
          /\ \A j \in RevisionIds :
               /\ revisions'[j].state = IF j = seen THEN "pending_approval"
                                        ELSE revisions[j].state
               /\ revisions'[j].submitter = IF j = seen THEN u ELSE revisions[j].submitter
      BY <2>2, SubmitCleanEffect
    <3>2. pending = 0
      BY <2>2, SubmitCleanEffect
    <3>3. QED
      BY <2>n, <3>1, <3>2 DEF PointersAgree, Outcomes
  <2>3. ASSUME NEW u \in Users, NEW seen \in 1 .. count, SubmitDirty(u, seen)
        PROVE  PointersAgree'
    <3>1. /\ current = count /\ revisions[count].state = "draft" /\ count + 1 \in RevisionIds
          /\ count' = count + 1 /\ current' = count + 1 /\ pending' = count + 1 /\ approved' = 0
          /\ \A j \in RevisionIds :
               /\ revisions'[j].state = IF j = count + 1 THEN "pending_approval"
                                        ELSE IF j = current THEN "superseded"
                                        ELSE revisions[j].state
               /\ revisions'[j].submitter = IF j = count + 1 THEN u
                                            ELSE revisions[j].submitter
      BY <2>3, SubmitDirtyEffect
    <3>2. pending = 0 /\ approved = 0
      BY <2>3, SubmitDirtyEffect
    <3>3. ASSUME NEW j \in RevisionIds
          PROVE  /\ revisions'[j].state = "absent" <=> j > count'
                 /\ revisions'[j].state = "pending_approval" <=> j = pending'
                 /\ revisions'[j].state = "draft" => j = current'
                 /\ revisions'[j].submitter # NoUser
                      <=> revisions'[j].state \in {"pending_approval"} \cup Outcomes
      <4>1. CASE j = count + 1
        BY <2>n, <3>1, <4>1 DEF Outcomes
      <4>2. CASE j = count
        BY <2>n, <3>1, <4>2 DEF PointersAgree, Outcomes
      <4>3. CASE j # count + 1 /\ j # count
        BY <2>n, <3>1, <3>2, <4>3 DEF PointersAgree, Outcomes
      <4>4. QED
        BY <4>1, <4>2, <4>3
    <3>4. QED
      BY <2>n, <3>1, <3>3 DEF PointersAgree
  <2>4. ASSUME NEW u \in Users, NEW seen \in 1 .. count, Withdraw(u, seen)
        PROVE  PointersAgree'
    BY <2>4, <2>n, WithdrawEffect DEF PointersAgree, Outcomes
  <2>5. ASSUME NEW u \in Users, NEW seen \in 1 .. count, RequestChanges(u, seen)
        PROVE  PointersAgree'
    BY <2>5, <2>n, RequestChangesEffect DEF PointersAgree, Outcomes
  <2>6. ASSUME NEW u \in Users, NEW seen \in 1 .. count, Approve(u, seen)
        PROVE  PointersAgree'
    <3>1. /\ count = seen /\ pending = seen /\ seen \in RevisionIds
          /\ count' = seen /\ current' = seen /\ pending' = 0 /\ approved' = seen
          /\ \A j \in RevisionIds :
               /\ revisions'[j].state = IF j = seen THEN "approved" ELSE revisions[j].state
               /\ revisions'[j].submitter = revisions[j].submitter
      BY <2>6, ApproveEffect
    <3>2. revisions[seen].state = "pending_approval"
      BY <2>6, ApproveEffect
    <3>3. QED
      BY <2>n, <3>1, <3>2 DEF PointersAgree, Outcomes
  <2>7. ASSUME NEW u \in Users, NEW seen \in 1 .. count, Reopen(u, seen)
        PROVE  PointersAgree'
    BY <2>7, <2>n, ReopenEffect DEF PointersAgree, Outcomes
  <2>8. ASSUME NEW a \in Users, NEW source \in 1 .. count, Recover(a, source)
        PROVE  PointersAgree'
    BY <2>8, <2>n, RecoverEffect DEF PointersAgree, Outcomes, LetGo
  <2>9. ASSUME NEW a \in Users, Purge(a) PROVE PointersAgree'
    BY <2>9, <2>n DEF Purge, Absent, PointersAgree, Outcomes
  <2>10. ASSUME DeliverTranscript PROVE PointersAgree'
    BY <2>10, <2>n, DeliverEffect DEF PointersAgree, Outcomes
  <2>11. ASSUME UNCHANGED <<revisions, count, pointers>> PROVE PointersAgree'
    BY <2>11 DEF PointersAgree, pointers
  <2>12. QED
    BY <2>1, <2>2, <2>3, <2>4, <2>5, <2>6, <2>7, <2>8, <2>9, <2>10, <2>11, OtherSteps
<1>3. QED
  BY <1>1, <1>2, Typing, PTL DEF Spec

-----------------------------------------------------------------------------
(* The ledger *)

\* DecidedOnce is not inductive alone: a row about a revision still to come
\* would be contradicted by that revision's first draft.
LedgerInv ==
  /\ DecidedOnce
  /\ SeparationOfDuties
  /\ \A d \in decisions : d.revision \in 1 .. count

\* No step but a purge changes what a closed revision is or who submitted it.
Frozen ==
  \A j \in 1 .. count :
    /\ revisions[j].state \in Outcomes => revisions'[j].state = revisions[j].state
    /\ revisions[j].submitter # NoUser => revisions'[j].submitter = revisions[j].submitter

LEMMA NothingRecorded ==
  ASSUME TypeOK, PointersAgree, LedgerInv, Frozen, count' \in Nat, count' >= count,
         decisions' \subseteq decisions, approved' \in {0, approved}
  PROVE  LedgerInv'
<1>1. \A d \in decisions : d \in Decision /\ d.revision \in 1 .. count /\ d.revision # 0
  BY CasefileAssumption DEF LedgerInv, TypeOK, Decision, RevisionIds, Pointers
<1>2. \A d \in decisions : d.state \in Outcomes \cup {"reopened"} =>
        /\ revisions[d.revision].state \in Outcomes
        /\ revisions'[d.revision].state = revisions[d.revision].state
        /\ revisions[d.revision].submitter # NoUser
        /\ revisions'[d.revision].submitter = revisions[d.revision].submitter
  BY <1>1, CasefileAssumption
     DEF LedgerInv, DecidedOnce, Frozen, Outcomes, PointersAgree, TypeOK, RevisionIds, Pointers
<1>3. \A d \in decisions : d.state = "pending" =>
        revisions'[d.revision].submitter = revisions[d.revision].submitter
  BY <1>1, CasefileAssumption DEF LedgerInv, DecidedOnce, Frozen, Decision
<1>4. \A d \in decisions : d.revision \in 1 .. count'
  BY <1>1, CasefileAssumption DEF TypeOK, Pointers
<1>5. DecidedOnce'
  BY <1>1, <1>2, <1>3 DEF LedgerInv, DecidedOnce, Outcomes
<1>6. SeparationOfDuties'
  BY <1>2 DEF LedgerInv, SeparationOfDuties, Outcomes
<1>7. QED
  BY <1>4, <1>5, <1>6 DEF LedgerInv

\* What a row may say: it decides a pending revision, opens a review or
\* reopens the approved revision.
Fits(e) ==
  /\ e.revision \in 1 .. count'
  /\ e.state \in Outcomes =>
       /\ e.revision \in 1 .. count
       /\ revisions[e.revision].state = "pending_approval"
       /\ revisions'[e.revision].state = e.state
  /\ e.state \in {"approved", "changes_requested"} =>
       revisions'[e.revision].submitter # e.actor \/ e.actorRole = "admin"
  /\ e.state = "pending" => revisions'[e.revision].submitter = e.actor
  /\ e.state = "reopened" => revisions'[e.revision].state = "approved" /\ approved' = 0

Releases ==
  \/ approved' = 0
  \/ approved' = approved
  \/ approved' \in 1 .. count /\ revisions[approved'].state = "pending_approval"

LEMMA RowRecorded ==
  ASSUME TypeOK, PointersAgree, LedgerInv, Frozen, count' \in Nat, count' >= count,
         NEW e \in Decision, decisions' = decisions \cup {e}, Fits(e), Releases
  PROVE  LedgerInv'
<1> USE DEF Fits, Releases
<1>1. \A d \in decisions : d \in Decision /\ d.revision \in 1 .. count /\ d.revision # 0
  BY CasefileAssumption DEF LedgerInv, TypeOK, Decision, RevisionIds, Pointers
<1>2. \A d \in decisions : d.state \in Outcomes \cup {"reopened"} =>
        /\ revisions[d.revision].state \in Outcomes
        /\ revisions'[d.revision].state = revisions[d.revision].state
        /\ revisions[d.revision].submitter # NoUser
        /\ revisions'[d.revision].submitter = revisions[d.revision].submitter
  BY <1>1, CasefileAssumption
     DEF LedgerInv, DecidedOnce, Frozen, Outcomes, PointersAgree, TypeOK, RevisionIds, Pointers
<1>3. \A d \in decisions : d.state = "pending" =>
        revisions'[d.revision].submitter = revisions[d.revision].submitter
  BY <1>1, CasefileAssumption DEF LedgerInv, DecidedOnce, Frozen, Decision
<1>4. \A d \in decisions' : d.revision \in 1 .. count'
  BY <1>1, CasefileAssumption DEF TypeOK, Pointers
<1>5. e.revision # 0
  BY CasefileAssumption DEF Decision, RevisionIds
<1>6. \A d \in decisions : d.state = "reopened" => approved' # d.revision
  BY <1>1, <1>2 DEF LedgerInv, DecidedOnce, Outcomes
<1>7. ASSUME NEW d \in decisions, d.state \in Outcomes, e.state \in Outcomes
      PROVE  d.revision # e.revision
  BY <1>2, <1>7 DEF Outcomes
<1>8. DecidedOnce'
  BY <1>1, <1>2, <1>3, <1>5, <1>6, <1>7 DEF LedgerInv, DecidedOnce, Outcomes
<1>9. SeparationOfDuties'
  BY <1>2 DEF LedgerInv, SeparationOfDuties, Outcomes
<1>10. QED
  BY <1>4, <1>8, <1>9 DEF LedgerInv

\* Every submission is decided at most once, by the row the ledger shows, and
\* nobody but an administrator decides what they submitted.
THEOREM LedgerCorrect == Spec => [](DecidedOnce /\ SeparationOfDuties)
<1>1. Init => LedgerInv
  BY DEF Init, LedgerInv, DecidedOnce, SeparationOfDuties
<1>2. TypeOK /\ TypeOK' /\ PointersAgree /\ LedgerInv /\ [Next]_vars => LedgerInv'
  <2> SUFFICES ASSUME TypeOK, TypeOK', PointersAgree, LedgerInv, [Next]_vars
               PROVE  LedgerInv'
    OBVIOUS
  <2>n. /\ count \in Nat /\ count' \in Nat /\ NoUser \notin Users
        /\ \A i \in 1 .. count : i \in RevisionIds /\ i # count + 1
    BY Numbers, CasefileAssumption DEF TypeOK, Pointers
  <2>p. \A j \in RevisionIds :
          revisions[j].submitter # NoUser
            <=> revisions[j].state \in {"pending_approval"} \cup Outcomes
    BY DEF PointersAgree
  <2>1. ASSUME NEW u \in Users, NEW seen \in 1 .. count, SaveDraft(u, seen)
        PROVE  LedgerInv'
    <3>1. Frozen
      BY <2>1, <2>n, <2>p, SaveDraftEffect DEF Frozen, Outcomes
    <3>2. decisions' = decisions /\ approved' = approved /\ count' >= count
      BY <2>1, <2>n DEF SaveDraft
    <3>3. QED
      BY <2>n, <3>1, <3>2, NothingRecorded
  <2>2. ASSUME NEW u \in Users, NEW seen \in 1 .. count, SubmitClean(u, seen)
        PROVE  LedgerInv'
    <3> DEFINE e == Row(seen, "pending", u, "reviewer", seen)
    <3>1. Frozen
      BY <2>2, <2>n, <2>p, SubmitCleanEffect DEF Frozen, Outcomes
    <3>2. e \in Decision
      BY <2>n, RowIsDecision DEF TypeOK, DecisionStates, AssignmentRole
    <3>3. e.revision = seen /\ e.state = "pending" /\ e.actor = u
      BY DEF Row
    <3>4. decisions' = decisions \cup {e} /\ approved' = approved
      BY <2>2 DEF SubmitClean
    <3>5. count' >= count /\ seen \in 1 .. count' /\ revisions'[seen].submitter = u
      BY <2>2, <2>n, SubmitCleanEffect
    <3> HIDE DEF e
    <3>6. Fits(e) /\ Releases
      BY <2>n, <3>3, <3>4, <3>5 DEF Fits, Releases, Outcomes
    <3>7. QED
      BY <2>n, <3>1, <3>2, <3>4, <3>5, <3>6, RowRecorded
  <2>3. ASSUME NEW u \in Users, NEW seen \in 1 .. count, SubmitDirty(u, seen)
        PROVE  LedgerInv'
    <3> DEFINE e == Row(count + 1, "pending", u, "reviewer", seen)
    <3>1. Frozen
      BY <2>3, <2>n, <2>p, SubmitDirtyEffect DEF Frozen, Outcomes
    <3>2. e \in Decision
      BY <2>3, <2>n, SubmitDirtyEffect, RowIsDecision DEF TypeOK, DecisionStates, AssignmentRole
    <3>3. e.revision = count + 1 /\ e.state = "pending" /\ e.actor = u
      BY DEF Row
    <3>4. decisions' = decisions \cup {e} /\ approved' = approved
      BY <2>3 DEF SubmitDirty
    <3>5. /\ count' >= count /\ count + 1 \in 1 .. count'
          /\ revisions'[count + 1].submitter = u
      BY <2>3, <2>n, SubmitDirtyEffect
    <3> HIDE DEF e
    <3>6. Fits(e) /\ Releases
      BY <2>n, <3>3, <3>4, <3>5 DEF Fits, Releases, Outcomes
    <3>7. QED
      BY <2>n, <3>1, <3>2, <3>4, <3>5, <3>6, RowRecorded
  <2>4. ASSUME NEW u \in Users, NEW seen \in 1 .. count, Withdraw(u, seen)
        PROVE  LedgerInv'
    <3> DEFINE e == Row(seen, "withdrawn", u, "reviewer", seen)
    <3>1. Frozen
      BY <2>4, <2>n, <2>p, WithdrawEffect DEF Frozen, Outcomes
    <3>2. e \in Decision
      BY <2>n, RowIsDecision DEF TypeOK, DecisionStates, AssignmentRole
    <3>3. e.revision = seen /\ e.state = "withdrawn"
      BY DEF Row
    <3>4. decisions' = decisions \cup {e} /\ approved' = approved
      BY <2>4 DEF Withdraw
    <3>5. /\ count' >= count /\ seen \in 1 .. count'
          /\ revisions[seen].state = "pending_approval" /\ revisions'[seen].state = "withdrawn"
      BY <2>4, <2>n, WithdrawEffect
    <3> HIDE DEF e
    <3>6. Fits(e) /\ Releases
      BY <2>n, <3>3, <3>4, <3>5 DEF Fits, Releases, Outcomes
    <3>7. QED
      BY <2>n, <3>1, <3>2, <3>4, <3>5, <3>6, RowRecorded
  <2>5. ASSUME NEW u \in Users, NEW seen \in 1 .. count, RequestChanges(u, seen)
        PROVE  LedgerInv'
    <3> DEFINE e == Row(seen, "changes_requested", u, "approver", seen)
    <3>1. Frozen
      BY <2>5, <2>n, <2>p, RequestChangesEffect DEF Frozen, Outcomes
    <3>2. e \in Decision
      BY <2>n, RowIsDecision DEF TypeOK, DecisionStates, AssignmentRole
    <3>3. /\ e.revision = seen /\ e.state = "changes_requested"
          /\ e.actor = u /\ e.actorRole = principal[u]
      BY DEF Row
    <3>4. decisions' = decisions \cup {e} /\ approved' = approved
      BY <2>5 DEF RequestChanges
    <3>5. /\ count' >= count /\ seen \in 1 .. count'
          /\ revisions[seen].state = "pending_approval"
          /\ revisions'[seen].state = "changes_requested"
          /\ revisions'[seen].submitter # u \/ principal[u] = "admin"
      BY <2>5, <2>n, RequestChangesEffect DEF RequestChanges, MayDecide
    <3> HIDE DEF e
    <3>6. Fits(e) /\ Releases
      BY <2>n, <3>3, <3>4, <3>5 DEF Fits, Releases, Outcomes
    <3>7. QED
      BY <2>n, <3>1, <3>2, <3>4, <3>5, <3>6, RowRecorded
  <2>6. ASSUME NEW u \in Users, NEW seen \in 1 .. count, Approve(u, seen)
        PROVE  LedgerInv'
    <3> DEFINE e == Row(seen, "approved", u, "approver", seen)
    <3>1. Frozen
      BY <2>6, <2>n, <2>p, ApproveEffect DEF Frozen, Outcomes
    <3>2. e \in Decision
      BY <2>n, RowIsDecision DEF TypeOK, DecisionStates, AssignmentRole
    <3>3. /\ e.revision = seen /\ e.state = "approved"
          /\ e.actor = u /\ e.actorRole = principal[u]
      BY DEF Row
    <3>4. decisions' = decisions \cup {e} /\ approved' = seen
      BY <2>6 DEF Approve
    <3>5. /\ count' >= count /\ seen \in 1 .. count'
          /\ revisions[seen].state = "pending_approval" /\ revisions'[seen].state = "approved"
          /\ revisions'[seen].submitter = revisions[seen].submitter
      BY <2>6, <2>n, ApproveEffect
    <3>5a. revisions[seen].submitter # u \/ principal[u] = "admin"
      BY <2>6 DEF Approve, MayDecide
    <3> HIDE DEF e
    <3>6. Fits(e) /\ Releases
      BY <2>n, <3>3, <3>4, <3>5, <3>5a DEF Fits, Releases, Outcomes
    <3>7. QED
      BY <2>n, <3>1, <3>2, <3>4, <3>5, <3>6, RowRecorded
  <2>7. ASSUME NEW u \in Users, NEW seen \in 1 .. count, Reopen(u, seen)
        PROVE  LedgerInv'
    <3> DEFINE e == Row(seen, "reopened", u, "approver", seen)
    <3>1. Frozen
      BY <2>7, <2>n, <2>p, ReopenEffect DEF Frozen, Outcomes
    <3>2. e \in Decision
      BY <2>n, RowIsDecision DEF TypeOK, DecisionStates, AssignmentRole
    <3>3. e.revision = seen /\ e.state = "reopened"
      BY DEF Row
    <3>4. decisions' = decisions \cup {e} /\ approved' = 0
      BY <2>7 DEF Reopen
    <3>5. /\ count' >= count /\ seen \in 1 .. count'
          /\ revisions'[seen].state = "approved"
      BY <2>7, <2>n, ReopenEffect
    <3> HIDE DEF e
    <3>6. Fits(e) /\ Releases
      BY <2>n, <3>3, <3>4, <3>5 DEF Fits, Releases, Outcomes
    <3>7. QED
      BY <2>n, <3>1, <3>2, <3>4, <3>5, <3>6, RowRecorded
  <2>8. ASSUME NEW a \in Users, NEW source \in 1 .. count, Recover(a, source)
        PROVE  LedgerInv'
    <3>1. Frozen
      BY <2>8, <2>n, <2>p, RecoverEffect DEF Frozen, Outcomes, LetGo
    <3>2. decisions' = decisions /\ approved' = 0 /\ count' >= count
      BY <2>8, <2>n DEF Recover
    <3>3. QED
      BY <2>n, <3>1, <3>2, NothingRecorded
  <2>9. ASSUME NEW a \in Users, Purge(a) PROVE LedgerInv'
    BY <2>9 DEF Purge, LedgerInv, DecidedOnce, SeparationOfDuties
  <2>10. ASSUME DeliverTranscript PROVE LedgerInv'
    <3>1. Frozen /\ approved' = approved /\ count' >= count
      BY <2>10, <2>n, DeliverEffect DEF Frozen
    <3>2. decisions' = decisions
      BY <2>10 DEF DeliverTranscript
    <3>3. QED
      BY <2>n, <3>1, <3>2, NothingRecorded
  <2>11. ASSUME UNCHANGED <<revisions, count, pointers>>, decisions' \subseteq decisions
         PROVE  LedgerInv'
    <3>1. Frozen /\ approved' = approved /\ count' >= count
      BY <2>11, <2>n DEF Frozen, pointers
    <3>2. QED
      BY <2>11, <2>n, <3>1, NothingRecorded
  <2>12. QED
    BY <2>1, <2>2, <2>3, <2>4, <2>5, <2>6, <2>7, <2>8, <2>9, <2>10, <2>11, OtherSteps
<1>3. LedgerInv => DecidedOnce /\ SeparationOfDuties
  BY DEF LedgerInv
<1>4. QED
  BY <1>1, <1>2, <1>3, Typing, PointersCorrect, PTL DEF Spec

-----------------------------------------------------------------------------

\* Review work is held by accounts that can do it, and ends with approval:
\* assertAssignmentCompatible, assignmentBlockers and
\* completeActiveAssignmentsForApproval keep each other's promises in any order.
THEOREM AssignmentsCorrect == Spec => [](AssignmentsFollowRoles /\ ReviewEndsAtApproval)
<1> DEFINE I == AssignmentsFollowRoles /\ ReviewEndsAtApproval
<1>1. Init => I
  BY DEF Init, AssignmentsFollowRoles, ReviewEndsAtApproval
<1>2. TypeOK /\ TypeOK' /\ I /\ [Next]_vars => I'
  <2> SUFFICES ASSUME TypeOK, TypeOK', I, [Next]_vars PROVE I'
    OBVIOUS
  <2> USE DEF AssignmentsFollowRoles, ReviewEndsAtApproval
  <2>1. ASSUME role' = role, active' \subseteq active, approved' \in {0, approved}
        PROVE  I'
    BY <2>1
  <2>2. ASSUME NEW u \in Users, NEW seen \in 1 .. count,
               SaveDraft(u, seen) \/ SubmitClean(u, seen) \/ SubmitDirty(u, seen)
               \/ Withdraw(u, seen) \/ RequestChanges(u, seen) \/ Reopen(u, seen)
        PROVE  I'
    BY <2>1, <2>2 DEF SaveDraft, SubmitClean, SubmitDirty, Withdraw, RequestChanges,
                      Reopen, people, assignments
  <2>3. ASSUME NEW u \in Users, NEW seen \in 1 .. count, Approve(u, seen) PROVE I'
    BY <2>3 DEF Approve, Completing, people
  <2>4. ASSUME NEW a \in Users, NEW source \in 1 .. count, Recover(a, source) PROVE I'
    BY <2>1, <2>4 DEF Recover, people, assignments
  <2>5. ASSUME NEW a \in Users, NEW u \in Users, Assign(a, u) PROVE I'
    BY <2>5 DEF Assign, people, pointers
  <2>6. ASSUME NEW a \in Users, NEW u \in Users, NEW r \in Role, ChangeRole(a, u, r)
        PROVE  I'
    <3>1. \A c \in active : c = <<c[1], c[2]>> /\ c[1] \in Users /\ c[2] \in AssignmentRole
      BY DEF TypeOK
    <3>2. \A c \in active : c[1] = u => c[2] = r
      BY <2>6, <3>1 DEF ChangeRole, NoBlockers
    <3>3. QED
      BY <2>6, <3>1, <3>2 DEF ChangeRole, TypeOK, assignments, pointers
  <2>7. ASSUME NEW a \in Users, NEW u \in Users, NEW q \in AssignmentRole, Unassign(a, u, q)
        PROVE  I'
    BY <2>1, <2>7 DEF Unassign, people, pointers
  <2>8. ASSUME NEW a \in Users, NEW q \in AssignmentRole,
               EnterMode(a, q) \/ ExitMode(a) \/ NoticeLapse(a) \/ ModeLapses(a)
               \/ Authenticate(a) \/ ResetLedger(a) \/ Purge(a)
        PROVE  I'
    BY <2>1, <2>8 DEF EnterMode, ExitMode, NoticeLapse, ModeLapses, Authenticate,
                      ResetLedger, Purge, people, pointers, assignments
  <2>9. CASE DeliverTranscript \/ IngestFails \/ IngestResumes \/ RewriteState
             \/ UNCHANGED vars
    BY <2>1, <2>9 DEF DeliverTranscript, IngestFails, IngestResumes, RewriteState, vars,
                      people, pointers, assignments
  <2>10. "reviewer" \in AssignmentRole
    BY DEF AssignmentRole
  <2>11. QED
    BY <2>2, <2>3, <2>4, <2>5, <2>6, <2>7, <2>8, <2>9, <2>10
       DEF Next, Command, Administer, Appoint, ActionModes, RenameSpeaker
<1>3. QED
  BY <1>1, <1>2, Typing, PTL DEF Spec

\* The halves of LedgerCorrect and AssignmentsCorrect under names of their own:
\* a revision is decided once, and approval leaves no reviewer at work.
THEOREM DecisionsCorrect == Spec => []DecidedOnce
BY LedgerCorrect, PTL

\* After an approval no reviewer's assignment is active until a reopen.
THEOREM ReviewEndsCorrect == Spec => []ReviewEndsAtApproval
BY AssignmentsCorrect, PTL

-----------------------------------------------------------------------------
(* History *)

Closed == {"superseded"} \cup Outcomes

\* What a step other than a purge leaves of the revisions there are
KeepsPast ==
  \A j \in 1 .. count :
    /\ revisions'[j].base = revisions[j].base
    /\ revisions'[j].seen = revisions[j].seen
    /\ revisions'[j].role = revisions[j].role
    /\ revisions[j].state \in Closed => revisions'[j] = revisions[j]

\* The step adds one revision, which starts from the newest one or, if an
\* administrator recovers it, from any.
Adds ==
  /\ count' = count + 1
  /\ revisions'[count'].base \in 1 .. count
  /\ revisions'[count'].seen = revisions'[count'].base
  /\ revisions'[count'].base = count \/ revisions'[count'].role = "admin"

LEMMA Restated ==
  ASSUME NEW r \in Revision, NEW s \in RevisionStates, r.state \in Closed => s = r.state
  PROVE  /\ [r EXCEPT !.state = s].base = r.base
         /\ [r EXCEPT !.state = s].seen = r.seen
         /\ [r EXCEPT !.state = s].role = r.role
         /\ r.state \in Closed => [r EXCEPT !.state = s] = r
BY DEF Revision

\* One revision gets state s and the next one is added.
LEMMA Successor ==
  ASSUME TypeOK, HasRoom, NEW i \in 1 .. count, NEW s \in RevisionStates,
         revisions[i].state \in Closed => s = revisions[i].state,
         NEW b \in 1 .. count, NEW u, NEW q, b = count \/ q = "admin",
         revisions' = [revisions EXCEPT ![i].state = s, ![count + 1] = NewDraft(b, b, u, q)],
         count' = count + 1
  PROVE  KeepsPast /\ Adds
<1>1. /\ i \in RevisionIds /\ count + 1 \in RevisionIds /\ i # count + 1
      /\ \A j \in 1 .. count : j \in RevisionIds /\ j # count + 1
      /\ revisions[i] \in Revision /\ count \in Nat
  BY Numbers DEF TypeOK
<1>2. /\ revisions'[i] = [revisions[i] EXCEPT !.state = s]
      /\ revisions'[count + 1] = NewDraft(b, b, u, q)
      /\ \A j \in 1 .. count : j # i => revisions'[j] = revisions[j]
  <2>. DEFINE f == [revisions EXCEPT ![i].state = s]
  <2>1. /\ f[i] = [revisions[i] EXCEPT !.state = s]
        /\ \A j \in RevisionIds : j # i => f[j] = revisions[j]
        /\ f \in [RevisionIds -> Revision]
    BY <1>1, Closing DEF TypeOK
  <2>2. revisions' = [f EXCEPT ![count + 1] = NewDraft(b, b, u, q)]
    OBVIOUS
  <2>. HIDE DEF f
  <2>. QED
    BY <1>1, <2>1, <2>2
<1>3. /\ revisions'[i].base = revisions[i].base /\ revisions'[i].seen = revisions[i].seen
      /\ revisions'[i].role = revisions[i].role
      /\ revisions[i].state \in Closed => revisions'[i] = revisions[i]
  <2>. DEFINE r == revisions[i]
  <2>1. r \in Revision /\ (r.state \in Closed => s = r.state)
    BY <1>1
  <2>. HIDE DEF r
  <2>2. /\ [r EXCEPT !.state = s].base = r.base /\ [r EXCEPT !.state = s].seen = r.seen
        /\ [r EXCEPT !.state = s].role = r.role
        /\ r.state \in Closed => [r EXCEPT !.state = s] = r
    BY <2>1, Restated
  <2>. QED
    BY <1>2, <2>2 DEF r
<1>4. KeepsPast
  BY <1>2, <1>3 DEF KeepsPast
<1>. QED
  BY <1>2, <1>4 DEF Adds, NewDraft

LEMMA EveryWrite ==
  ASSUME TypeOK, PointersAgree, [Next]_vars, \A a \in Users : ~Purge(a)
  PROVE  /\ KeepsPast
         /\ \/ count' = count
            \/ count = 0 /\ count' = 1
            \/ Adds
<1>. DEFINE Goal == /\ KeepsPast
                    /\ \/ count' = count
                       \/ count = 0 /\ count' = 1
                       \/ Adds
<1>n. /\ count \in Nat /\ \A j \in 1 .. count : j \in RevisionIds /\ revisions[j] \in Revision
      /\ \A j \in RevisionIds : revisions[j] \in Revision
  BY Numbers DEF TypeOK
<1>1. ASSUME NEW u \in Users, NEW seen \in 1 .. count, SaveDraft(u, seen)
      PROVE  Goal
  <2>1. /\ current = count /\ seen = count /\ revisions[count].state = "draft" /\ HasRoom
    BY <1>1, SaveDraftEffect DEF SaveDraft, DraftIsCurrent
  <2>2. /\ revisions' = [revisions EXCEPT ![count].state = "superseded",
                                         ![count + 1] = NewDraft(count, count, u, "reviewer")]
        /\ count' = count + 1
    BY <1>1, <2>1 DEF SaveDraft, SavedDraft
  <2>. QED
    BY <2>1, <2>2, Successor DEF RevisionStates, Closed, Outcomes
<1>2. ASSUME NEW u \in Users, NEW seen \in 1 .. count, SubmitClean(u, seen)
      PROVE  Goal
  <2>1. revisions[seen].state = "draft" /\ count' = count
    BY <1>2, SubmitCleanEffect
  <2>2. revisions' = [revisions EXCEPT ![seen].state = "pending_approval", ![seen].submitter = u]
    BY <1>2 DEF SubmitClean
  <2>3. KeepsPast
    BY <1>n, <2>1, <2>2 DEF KeepsPast, Closed, Outcomes, Revision, TypeOK
  <2>. QED
    BY <2>1, <2>3
<1>3. ASSUME NEW u \in Users, NEW seen \in 1 .. count, SubmitDirty(u, seen)
      PROVE  Goal
  <2>1. /\ current = count /\ seen = count /\ revisions[count].state = "draft"
        /\ HasRoom /\ count' = count + 1 /\ count \in RevisionIds /\ count + 1 \in RevisionIds
    BY <1>3, SubmitDirtyEffect DEF SubmitDirty, DraftIsCurrent
  <2>2. revisions' = [SavedDraft(u, count) EXCEPT ![count + 1].state = "pending_approval",
                                                  ![count + 1].submitter = u]
    BY <1>3, <2>1 DEF SubmitDirty
  <2>3. /\ SavedDraft(u, count)[count] = [revisions[count] EXCEPT !.state = "superseded"]
        /\ SavedDraft(u, count)[count + 1] = NewDraft(count, count, u, "reviewer")
        /\ \A j \in 1 .. count : j # count => SavedDraft(u, count)[j] = revisions[j]
    BY <1>n, <2>1 DEF SavedDraft, TypeOK
  <2>4. SavedDraft(u, count) \in [RevisionIds -> Revision]
    BY <2>1, SavedType
  <2>5. \A j \in 1 .. count : revisions'[j] = SavedDraft(u, count)[j]
    <3>. DEFINE f == SavedDraft(u, count)
    <3>1. revisions' = [f EXCEPT ![count + 1].state = "pending_approval",
                                 ![count + 1].submitter = u]
      BY <2>2
    <3>2. f \in [RevisionIds -> Revision] /\ \A j \in 1 .. count : j # count + 1
      BY <1>n, <2>4
    <3>. HIDE DEF f
    <3>3. \A j \in 1 .. count : revisions'[j] = f[j]
      BY <1>n, <3>1, <3>2
    <3>. QED
      BY <3>3 DEF f
  <2>6. KeepsPast
    <3>. DEFINE r == revisions[count]
    <3>1. r \in Revision /\ r.state \notin Closed /\ count \in 1 .. count
      BY <1>n, <2>1 DEF Closed, Outcomes
    <3>2. revisions'[count] = [r EXCEPT !.state = "superseded"]
      BY <2>3, <2>5, <3>1
    <3>. HIDE DEF r
    <3>3. /\ revisions'[count].base = r.base /\ revisions'[count].seen = r.seen
          /\ revisions'[count].role = r.role
      BY <3>1, <3>2 DEF Revision
    <3>. QED
      BY <2>3, <2>5, <3>1, <3>3 DEF KeepsPast, r
  <2>7. Adds
    BY <1>n, <2>1, <2>2, <2>3, <2>4 DEF Adds, NewDraft, Revision
  <2>. QED
    BY <2>6, <2>7
<1>4. ASSUME NEW u \in Users, NEW seen \in 1 .. count,
             Withdraw(u, seen) \/ RequestChanges(u, seen) \/ Reopen(u, seen)
      PROVE  Goal
  <2>1. PICK s \in {"withdrawn", "changes_requested", "approved"}, q \in AssignmentRole :
          /\ CloneDraft(seen, s, u, q, seen)
          /\ revisions[seen].state \in Closed => s = revisions[seen].state
          /\ seen = count
    <3>1. CASE Withdraw(u, seen)
      BY <1>4, <3>1, WithdrawEffect DEF Withdraw, AssignmentRole, Closed, Outcomes
    <3>2. CASE RequestChanges(u, seen)
      BY <1>4, <3>2, RequestChangesEffect DEF RequestChanges, AssignmentRole, Closed, Outcomes
    <3>3. CASE Reopen(u, seen)
      BY <1>4, <3>3, ReopenEffect DEF Reopen, AssignmentRole, Closed, Outcomes
    <3>. QED
      BY <1>4, <3>1, <3>2, <3>3
  <2>. QED
    BY <2>1, Successor DEF CloneDraft, RevisionStates, AssignmentRole
<1>5. ASSUME NEW u \in Users, NEW seen \in 1 .. count, Approve(u, seen)
      PROVE  Goal
  <2>1. revisions[seen].state = "pending_approval" /\ count' = count
    BY <1>5, ApproveEffect DEF Approve
  <2>2. revisions' = [revisions EXCEPT ![seen].state = "approved"]
    BY <1>5 DEF Approve
  <2>3. KeepsPast
    BY <1>n, <2>1, <2>2 DEF KeepsPast, Closed, Outcomes, Revision, TypeOK
  <2>. QED
    BY <2>1, <2>3
<1>6. ASSUME NEW a \in Users, NEW source \in 1 .. count, Recover(a, source)
      PROVE  Goal
  <2>1. current = count /\ HasRoom /\ count' = count + 1
    BY <1>6, RecoverEffect DEF Recover
  <2>2. LetGo(revisions[count].state) \in RevisionStates
        /\ (revisions[count].state \in Closed
              => LetGo(revisions[count].state) = revisions[count].state)
    BY <1>n DEF LetGo, Closed, Outcomes, RevisionStates, Revision
  <2>3. revisions' = [revisions EXCEPT ![count].state = LetGo(revisions[count].state),
                                      ![count + 1] = NewDraft(source, source, a, "admin")]
    BY <1>6, <2>1 DEF Recover
  <2>4. KeepsPast /\ Adds
    <3>. DEFINE s == LetGo(revisions[count].state)
    <3>1. s \in RevisionStates /\ (revisions[count].state \in Closed => s = revisions[count].state)
      BY <2>2
    <3>2. count \in 1 .. count
      BY <1>n
    <3>3. revisions' = [revisions EXCEPT ![count].state = s,
                                        ![count + 1] = NewDraft(source, source, a, "admin")]
      BY <2>3
    <3>. HIDE DEF s
    <3>. QED
      BY <2>1, <3>1, <3>2, <3>3, Successor
  <2>. QED
    BY <2>4
<1>7. ASSUME DeliverTranscript
      PROVE  Goal
  BY <1>7, DeliverEffect DEF KeepsPast
<1>8. ASSUME UNCHANGED <<revisions, count, pointers>>
      PROVE  Goal
  BY <1>8 DEF KeepsPast
<1>. QED
  BY <1>1, <1>2, <1>3, <1>4, <1>5, <1>6, <1>7, <1>8, OtherSteps

\* A closed revision is never rewritten.
THEOREM HistoryCorrect == Spec => HistoryIsFinal
<1>1. TypeOK /\ PointersAgree /\ [Next]_vars =>
        [\A i \in 1 .. count :
           revisions[i].state \in {"superseded"} \cup Outcomes /\ health' # "purged"
           => revisions'[i] = revisions[i]]_vars
  BY EveryWrite DEF KeepsPast, Closed, Purge
<1>. QED
  BY <1>1, Typing, PointersCorrect, PTL DEF Spec, HistoryIsFinal

\* No draft replaces a revision its author had not loaded.
THEOREM EditsCorrect == Spec => []NoLostUpdate
<1>1. Init => NoLostUpdate
  BY DEF Init, NoLostUpdate
<1>2. TypeOK /\ PointersAgree /\ NoLostUpdate /\ [Next]_vars => NoLostUpdate'
  <2>. SUFFICES ASSUME TypeOK, PointersAgree, NoLostUpdate, [Next]_vars
                PROVE  NoLostUpdate'
    OBVIOUS
  <2>1. CASE \E a \in Users : Purge(a)
    BY <2>1 DEF Purge, NoLostUpdate
  <2>2. CASE \A a \in Users : ~Purge(a)
    <3>1. KeepsPast /\ count \in Nat
      BY <2>2, EveryWrite, Numbers
    <3>2. ASSUME NEW i \in 2 .. count
          PROVE  /\ revisions'[i].seen = revisions'[i].base /\ revisions'[i].base \in 1 .. (i - 1)
                 /\ revisions'[i].role # "admin" =>
                      \A j \in 2 .. (i - 1) :
                        revisions'[j].base = revisions'[i].base => revisions'[j].role = "admin"
      BY <3>1 DEF KeepsPast, NoLostUpdate
    <3>3. CASE count' = count \/ (count = 0 /\ count' = 1)
      BY <3>1, <3>2, <3>3 DEF NoLostUpdate
    <3>4. CASE Adds
      <4>2. \A j \in 2 .. count : revisions'[j].base < count
        BY <3>1, <3>2
      <4>3. \A i \in 2 .. count' : i \in 2 .. count \/ i = count'
        BY <3>1, <3>4 DEF Adds
      <4>4. /\ revisions'[count'].seen = revisions'[count'].base
            /\ revisions'[count'].base \in 1 .. (count' - 1)
            /\ revisions'[count'].role # "admin" => revisions'[count'].base = count
        BY <3>1, <3>4 DEF Adds
      <4>5. count' - 1 = count
        BY <3>1, <3>4 DEF Adds
      <4>6. count \in 2 .. count => revisions'[count].base < count
        BY <3>1, <4>2
      <4>7. ASSUME NEW i \in 2 .. count'
            PROVE  /\ revisions'[i].seen = revisions'[i].base
                   /\ revisions'[i].base \in 1 .. (i - 1)
                   /\ revisions'[i].role # "admin" =>
                        \A j \in 2 .. (i - 1) :
                          revisions'[j].base = revisions'[i].base => revisions'[j].role = "admin"
        <5>1. CASE i \in 2 .. count
          BY <3>2, <5>1
        <5>2. CASE i = count'
          <6>1. \A j \in 2 .. (i - 1) : revisions'[j].base # count
            BY <3>1, <4>2, <4>5, <5>2
          <6>. QED
            BY <4>4, <5>2, <6>1
        <5>. QED
          BY <4>3, <4>7, <5>1, <5>2
      <4>. QED
        BY <4>7 DEF NoLostUpdate
    <3>. QED
      BY <2>2, <3>3, <3>4, EveryWrite
  <2>. QED
    BY <2>1, <2>2
<1>. QED
  BY <1>1, <1>2, Typing, PointersCorrect, PTL DEF Spec

-----------------------------------------------------------------------------
(* Authority *)

\* A completed assignment names a revision that was approved and stays so.
CompletionsNameReleases ==
  \A c \in completed : c[3] # 0 => c[3] \in 1 .. count /\ revisions[c[3]].state = "approved"

LEMMA CompletionsStep ==
  ASSUME TypeOK, PointersAgree, CompletionsNameReleases, [Next]_vars
  PROVE  CompletionsNameReleases'
<1>n. count \in Nat /\ RevisionIds \subseteq Nat /\ \A i \in 1 .. count : i \in RevisionIds
  BY Numbers
<1>1. CASE \E a \in Users : Purge(a)
  BY <1>1 DEF Purge, CompletionsNameReleases
<1>2. CASE \A a \in Users : ~Purge(a)
  <2>1. /\ count' \in Nat /\ count <= count'
        /\ \A i \in 1 .. count : revisions[i].state = "approved" => revisions'[i] = revisions[i]
    BY <1>2, <1>n, EveryWrite DEF KeepsPast, Adds, Closed, Outcomes
  <2>2. ASSUME completed' \subseteq completed
        PROVE  CompletionsNameReleases'
    BY <1>n, <2>1, <2>2 DEF CompletionsNameReleases
  <2>3. ASSUME NEW u \in Users, NEW seen \in 1 .. count, Approve(u, seen)
        PROVE  CompletionsNameReleases'
    <3>1. \A c \in completed' : c \in completed \/ c[3] = seen
      BY <2>3 DEF Approve
    <3>2. revisions'[seen].state = "approved" /\ seen \in 1 .. count'
      BY <1>n, <2>3, ApproveEffect
    <3>. QED
      BY <1>n, <2>1, <3>1, <3>2 DEF CompletionsNameReleases
  <2>4. ASSUME NEW u \in Users, NEW seen \in 1 .. count,
               \/ SaveDraft(u, seen) \/ SubmitClean(u, seen) \/ SubmitDirty(u, seen)
               \/ Withdraw(u, seen) \/ RequestChanges(u, seen) \/ Reopen(u, seen)
               \/ Recover(u, seen)
        PROVE  completed' = completed
    BY <2>4 DEF SaveDraft, SubmitClean, SubmitDirty, Withdraw, RequestChanges, Reopen,
                Recover, assignments
  <2>5. ASSUME NEW a \in Users, NEW u \in Users, NEW q,
               Assign(a, u) \/ Unassign(a, u, q) \/ ChangeRole(a, u, q) \/ EnterMode(a, q)
        PROVE  completed' = completed
    BY <2>5 DEF Assign, Unassign, ChangeRole, EnterMode, assignments
  <2>6. ASSUME NEW a \in Users,
               ExitMode(a) \/ NoticeLapse(a) \/ ModeLapses(a) \/ Authenticate(a)
        PROVE  completed' = completed
    BY <2>6 DEF ExitMode, NoticeLapse, ModeLapses, Authenticate, assignments
  <2>7. ASSUME NEW a \in Users, ResetLedger(a)
        PROVE  CompletionsNameReleases'
    BY <2>7 DEF ResetLedger, CompletionsNameReleases
  <2>8. CASE DeliverTranscript \/ IngestFails \/ IngestResumes \/ UNCHANGED vars
    BY <2>2, <2>8 DEF DeliverTranscript, IngestFails, IngestResumes, vars, assignments
  <2>9. CASE RewriteState
    BY <2>9 DEF RewriteState, CompletionsNameReleases
  <2>. QED
    BY <1>2, <2>2, <2>3, <2>4, <2>5, <2>6, <2>7, <2>8, <2>9
       DEF Next, Command, Administer, Appoint, ActionModes, RenameSpeaker
<1>. QED
  BY <1>1, <1>2

\* Who writes a ledger row, and on what
LEMMA NewRow ==
  ASSUME [Next]_vars, NEW d \in decisions' \ decisions
  PROVE  /\ d.actor \in Users
         /\ \/ d.effective = "reviewer" /\ AsReviewer(d.actor)
            \/ /\ d.effective = "approver" /\ AsApprover(d.actor)
               /\ \/ revisions[current].state = "pending_approval"
                  \/ d.state = "reopened" /\ approved = current
<1>. DEFINE Goal == /\ d.actor \in Users
                    /\ \/ d.effective = "reviewer" /\ AsReviewer(d.actor)
                       \/ /\ d.effective = "approver" /\ AsApprover(d.actor)
                          /\ \/ revisions[current].state = "pending_approval"
                             \/ d.state = "reopened" /\ approved = current
<1>1. ASSUME NEW u \in Users, NEW seen \in 1 .. count,
             SubmitClean(u, seen) \/ SubmitDirty(u, seen) \/ Withdraw(u, seen)
      PROVE  Goal
  BY <1>1 DEF SubmitClean, SubmitDirty, Withdraw, Row
<1>2. ASSUME NEW u \in Users, NEW seen \in 1 .. count, RequestChanges(u, seen) \/ Approve(u, seen)
      PROVE  Goal
  BY <1>2 DEF RequestChanges, Approve, Row, PendingIsCurrent
<1>3. ASSUME NEW u \in Users, NEW seen \in 1 .. count, Reopen(u, seen)
      PROVE  Goal
  BY <1>3 DEF Reopen, Row, ApprovedIsCurrent
<1>4. ASSUME NEW u \in Users, NEW seen \in 1 .. count, SaveDraft(u, seen) \/ Recover(u, seen)
      PROVE  FALSE
  BY <1>4 DEF SaveDraft, Recover
<1>5. ASSUME DeliverTranscript \/ (\E a \in Users : Purge(a))
             \/ (UNCHANGED <<revisions, count, pointers>> /\ decisions' \subseteq decisions)
      PROVE  FALSE
  BY <1>5 DEF DeliverTranscript, Purge
<1>. QED
  BY <1>1, <1>2, <1>3, <1>4, <1>5, OtherSteps

\* A ledger row is written by somebody entitled to it at that moment.
THEOREM AuthorityCorrect == Spec => AuthorityIsCurrent
<1>1. Init => CompletionsNameReleases
  BY DEF Init, CompletionsNameReleases
<1>2. ASSUME TypeOK, PointersAgree, AssignmentsFollowRoles, CompletionsNameReleases,
             [Next]_vars, NEW d \in decisions' \ decisions, d.actor # Uploader
      PROVE  \/ Entitled(d.actor, d.effective)
             \/ d.state = "reopened" /\ <<d.actor, "approver", approved>> \in completed
  <2>. DEFINE u == d.actor
  <2>1. \A q \in AssignmentRole : <<u, q>> \in active => role[u] = q
    BY <1>2 DEF AssignmentsFollowRoles
  <2>2. CASE principal[u] = "admin"
    BY <1>2, <2>2, NewRow DEF Entitled, AsReviewer, AsApprover, ActsAs
  <2>3. CASE principal[u] # "admin"
    <3>1. Grants(u) = IF ActiveRoles(u) # {} THEN {<<"active", q>> : q \in ActiveRoles(u)}
                      ELSE {<<"completed", q>> : q \in CompletedRoles(u, current)}
      BY <1>2, <2>3 DEF Grants, GrantsAt
    <3>2. ASSUME NEW q \in AssignmentRole, <<"active", q>> \in Grants(u)
          PROVE  Entitled(u, q)
      <4>1. q \in ActiveRoles(u)
        BY <3>1, <3>2
      <4>. QED
        BY <2>1, <2>3, <4>1 DEF ActiveRoles, Entitled
    <3>3. AsReviewer(u) => <<"active", "reviewer">> \in Grants(u)
      BY <3>1 DEF AsReviewer, Unrefused
    <3>4. AsApprover(u) => \/ <<"active", "approver">> \in Grants(u)
                           \/ <<"completed", "approver">> \in Grants(u)
      BY <3>1 DEF AsApprover, Unrefused
    <3>5. ASSUME <<"completed", "approver">> \in Grants(u)
          PROVE  /\ <<u, "approver", current>> \in completed
                 /\ revisions[current].state = "approved"
      <4>1. "approver" \in CompletedRoles(u, current)
        BY <3>1, <3>5
      <4>. QED
        BY <1>2, <4>1 DEF CompletedRoles, CompletionsNameReleases
    <3>6. "approver" \in AssignmentRole /\ "reviewer" \in AssignmentRole
      BY DEF AssignmentRole
    <3>. QED
      BY <1>2, <3>2, <3>3, <3>4, <3>5, <3>6, NewRow
  <2>. QED
    BY <2>2, <2>3
<1>3. TypeOK /\ PointersAgree /\ CompletionsNameReleases /\ [Next]_vars
        => CompletionsNameReleases'
  BY CompletionsStep
<1>4. TypeOK /\ PointersAgree /\ AssignmentsFollowRoles /\ CompletionsNameReleases /\ [Next]_vars
        => [\A d \in decisions' \ decisions :
              \/ d.actor = Uploader
              \/ Entitled(d.actor, d.effective)
              \/ d.state = "reopened" /\ <<d.actor, "approver", approved>> \in completed]_vars
  BY <1>2
<1>. QED
  BY <1>1, <1>3, <1>4, Typing, PointersCorrect, AssignmentsCorrect, PTL DEF Spec, AuthorityIsCurrent

-----------------------------------------------------------------------------
(* The casefile implements the review cycle: every step of Casefile is a step *)
(* of ReviewCycle or leaves its variables alone.                              *)

\* The refinement mapping of Cycle, by name
Phase ==
  CASE health = "purged" -> "purged"
    [] health # "purged" /\ current = 0 -> "waiting"
    [] pending # 0 -> "in_review"
    [] approved # 0 -> "released"
    [] OTHER -> "drafting"

Author ==
  IF pending # 0 THEN revisions[pending].submitter
  ELSE IF approved # 0 THEN revisions[approved].submitter ELSE NoUser

\* Which case of the mapping a state belongs to
PhaseFacts ==
  /\ health = "purged" /\ current = 0 => Phase = "purged"
  /\ health # "purged" /\ current = 0 => Phase = "waiting"
  /\ health # "purged" /\ current # 0 /\ pending # 0 => Phase = "in_review"
  /\ health # "purged" /\ current # 0 /\ pending = 0 /\ approved # 0 => Phase = "released"
  /\ health # "purged" /\ current # 0 /\ pending = 0 /\ approved = 0 => Phase = "drafting"

LEMMA PhaseIs == TypeOK /\ PointersAgree => PhaseFacts
<1> SUFFICES ASSUME TypeOK, PointersAgree PROVE PhaseFacts
  OBVIOUS
<1>1. current = 0 => pending = 0 /\ approved = 0
  BY Numbers DEF PointersAgree
<1>2. approved # 0 => pending = 0
  BY Numbers DEF PointersAgree
<1>3. health = "purged" /\ current = 0 => Phase = "purged"
  BY <1>1 DEF Phase
<1>4. health # "purged" /\ current = 0 => Phase = "waiting"
  BY <1>1 DEF Phase
<1>5. health # "purged" /\ current # 0 /\ pending # 0 => Phase = "in_review"
  BY <1>2 DEF Phase
<1>6. health # "purged" /\ current # 0 /\ pending = 0 /\ approved # 0 => Phase = "released"
  BY DEF Phase
<1>7. health # "purged" /\ current # 0 /\ pending = 0 /\ approved = 0 => Phase = "drafting"
  BY DEF Phase
<1>8. QED
  BY <1>3, <1>4, <1>5, <1>6, <1>7 DEF PhaseFacts

\* Only a purge empties a casefile for good.
LEMMA HealthSteps ==
  ASSUME [Next]_vars, \A a \in Users : ~Purge(a)
  PROVE  health' = "purged" <=> health = "purged"
<1>1. ASSUME NEW u \in Users, Command(u) PROVE health' = health
  BY <1>1 DEF Command, SaveDraft, RenameSpeaker, SubmitClean, SubmitDirty, Withdraw,
              RequestChanges, Approve, Reopen, Recover
<1>2. ASSUME NEW a \in Users, Administer(a) PROVE health' = health
  BY <1>2 DEF Administer, Appoint, ActionModes, Assign, Unassign, ChangeRole, ResetLedger, EnterMode,
              ExitMode, NoticeLapse
<1>3. ASSUME NEW u \in Users, ModeLapses(u) \/ Authenticate(u) PROVE health' = health
  BY <1>3 DEF ModeLapses, Authenticate
<1>4. DeliverTranscript \/ IngestFails \/ IngestResumes \/ RewriteState \/ UNCHANGED vars
        => (health' = "purged" <=> health = "purged")
  BY DEF DeliverTranscript, IngestFails, IngestResumes, RewriteState, vars
<1>5. QED
  BY <1>1, <1>2, <1>3, <1>4 DEF Next

\* No command and no recovery acts on a purged casefile.
LEMMA NotPurged ==
  ASSUME NEW u, NEW seen,
         SaveDraft(u, seen) \/ SubmitClean(u, seen) \/ SubmitDirty(u, seen)
         \/ Withdraw(u, seen) \/ RequestChanges(u, seen) \/ Approve(u, seen)
         \/ Reopen(u, seen) \/ Recover(u, seen)
  PROVE  /\ health # "purged" /\ health' = health
BY DEF SaveDraft, SubmitClean, SubmitDirty, Withdraw, RequestChanges, Approve, Reopen,
       Recover, AsReviewer, AsApprover, ActsAs

LEMMA CycleStep ==
  ASSUME TypeOK, TypeOK', PointersAgree, PointersAgree', [Next]_vars
  PROVE  [Cycle!Next]_(Cycle!vars)
<1> DEFINE Stay == Phase' = Phase /\ Author' = Author /\ count' = count
<1>d. Cycle!Deliver <=>
        Phase = "waiting" /\ Phase' = "drafting" /\ count' = 1 /\ Author' = Author
  BY DEF Cycle!Deliver, Phase, Author
<1>r. Cycle!Revise <=>
        Phase = "drafting" /\ Phase' = Phase /\ count' = count + 1 /\ Author' = Author
  BY DEF Cycle!Revise, Phase, Author
<1>s. ASSUME NEW u PROVE
        Cycle!Submit(u) <=> /\ Phase = "drafting" /\ Phase' = "in_review"
                            /\ Author' = u /\ count' \in {count, count + 1}
  BY DEF Cycle!Submit, Phase, Author
<1>b. Cycle!SendBack <=> /\ Phase = "in_review" /\ Phase' = "drafting"
                         /\ Author' = NoUser /\ count' = count + 1
  BY DEF Cycle!SendBack, Phase, Author
<1>l. Cycle!Release <=> /\ Phase = "in_review" /\ Phase' = "released"
                        /\ Author' = Author /\ count' = count
  BY DEF Cycle!Release, Phase, Author
<1>o. Cycle!Reopen <=> /\ Phase = "released" /\ Phase' = "drafting"
                       /\ Author' = NoUser /\ count' = count + 1
  BY DEF Cycle!Reopen, Phase, Author
<1>p. Cycle!Purge <=> /\ Phase # "purged" /\ Phase' = "purged"
                      /\ Author' = NoUser /\ count' = 0
  BY DEF Cycle!Purge, Phase, Author
<1>v. Stay => UNCHANGED Cycle!vars
  BY DEF Cycle!vars, Phase, Author
<1>n. /\ count \in Nat /\ RevisionIds \subseteq Nat \ {0}
  BY Numbers
<1>f. PhaseFacts /\ PhaseFacts'
  BY PhaseIs, PTL
<1> HIDE DEF Stay
<1>1. ASSUME NEW u \in Users, NEW seen \in 1 .. count, SaveDraft(u, seen)
      PROVE  Cycle!Revise
  <2>1. Phase = "drafting" /\ Phase' = "drafting"
    BY <1>1, <1>n, <1>f, SaveDraftEffect, NotPurged DEF PhaseFacts
  <2>2. Author' = Author /\ count' = count + 1
    BY <1>1, SaveDraftEffect DEF Author
  <2>3. QED
    BY <2>1, <2>2, <1>r
<1>2. ASSUME NEW u \in Users, NEW seen \in 1 .. count, SubmitClean(u, seen)
      PROVE  Cycle!Submit(u)
  <2>1. Phase = "drafting" /\ Phase' = "in_review"
    BY <1>2, <1>n, <1>f, SubmitCleanEffect, NotPurged DEF PhaseFacts
  <2>2. Author' = u /\ count' = count
    BY <1>2, <1>n, SubmitCleanEffect DEF Author
  <2>3. QED
    BY <2>1, <2>2, <1>s
<1>3. ASSUME NEW u \in Users, NEW seen \in 1 .. count, SubmitDirty(u, seen)
      PROVE  Cycle!Submit(u)
  <2>1. Phase = "drafting" /\ Phase' = "in_review"
    BY <1>3, <1>n, <1>f, SubmitDirtyEffect, NotPurged DEF PhaseFacts
  <2>2. Author' = u /\ count' = count + 1
    BY <1>3, <1>n, SubmitDirtyEffect DEF Author
  <2>3. QED
    BY <2>1, <2>2, <1>s
<1>4. ASSUME NEW u \in Users, NEW seen \in 1 .. count,
             Withdraw(u, seen) \/ RequestChanges(u, seen)
      PROVE  Cycle!SendBack
  <2>1. /\ pending = seen /\ current = seen /\ health # "purged" /\ health' = health
        /\ count' = count + 1 /\ current' = count + 1 /\ pending' = 0 /\ approved' = 0
    BY <1>4, WithdrawEffect, RequestChangesEffect, NotPurged
       DEF Withdraw, RequestChanges, PendingIsCurrent
  <2>2. Phase = "in_review" /\ Phase' = "drafting"
    BY <2>1, <1>n, <1>f DEF PhaseFacts
  <2>3. Author' = NoUser
    BY <2>1 DEF Author
  <2>4. QED
    BY <2>1, <2>2, <2>3, <1>b
<1>5. ASSUME NEW u \in Users, NEW seen \in 1 .. count, Approve(u, seen)
      PROVE  Cycle!Release
  <2>1. Phase = "in_review" /\ Phase' = "released"
    BY <1>5, <1>n, <1>f, ApproveEffect, NotPurged DEF PhaseFacts
  <2>2. Author' = Author /\ count' = count
    BY <1>5, <1>n, ApproveEffect DEF Author
  <2>3. QED
    BY <2>1, <2>2, <1>l
<1>6. ASSUME NEW u \in Users, NEW seen \in 1 .. count, Reopen(u, seen)
      PROVE  Cycle!Reopen
  <2>1. /\ approved = seen /\ pending = 0
        /\ current = seen /\ health # "purged" /\ health' = health
        /\ count' = count + 1 /\ current' = count + 1 /\ pending' = 0 /\ approved' = 0
    BY <1>6, <1>n, ReopenEffect, NotPurged DEF Reopen, ApprovedIsCurrent, PointersAgree
  <2>2. Phase = "released" /\ Phase' = "drafting"
    BY <2>1, <1>n, <1>f DEF PhaseFacts
  <2>3. Author' = NoUser
    BY <2>1 DEF Author
  <2>4. QED
    BY <2>1, <2>2, <2>3, <1>o
<1>7. ASSUME NEW u \in Users, NEW seen \in 1 .. count, Recover(u, seen)
      PROVE  Cycle!Revise \/ Cycle!Reopen
  <2>1. /\ pending = 0 /\ current = count /\ health # "purged" /\ health' = health
        /\ count' = count + 1 /\ current' = count + 1 /\ pending' = 0 /\ approved' = 0
    BY <1>7, <1>n, RecoverEffect, NotPurged
  <2>2. Phase' = "drafting" /\ Author' = NoUser
    BY <2>1, <1>n, <1>f DEF PhaseFacts, Author
  <2>3. CASE approved = 0
    <3>1. Phase = "drafting" /\ Author = NoUser
      BY <2>1, <2>3, <1>n, <1>f DEF PhaseFacts, Author
    <3>2. QED
      BY <2>1, <2>2, <3>1, <1>r
  <2>4. CASE approved # 0
    <3>1. Phase = "released"
      BY <2>1, <2>4, <1>n, <1>f DEF PhaseFacts
    <3>2. QED
      BY <2>1, <2>2, <3>1, <1>o
  <2>5. QED
    BY <2>3, <2>4
<1>8. ASSUME NEW a \in Users, Purge(a)
      PROVE  Cycle!Purge
  <2>1. /\ health # "purged" /\ health' = "purged"
        /\ count' = 0 /\ current' = 0 /\ pending' = 0 /\ approved' = 0
    BY <1>8 DEF Purge
  <2>2. Phase # "purged"
    BY <2>1, <1>f DEF PhaseFacts
  <2>3. Phase' = "purged" /\ Author' = NoUser
    BY <2>1, <1>f DEF PhaseFacts, Author
  <2>4. QED
    BY <2>1, <2>2, <2>3, <1>p
<1>9. ASSUME DeliverTranscript
      PROVE  Cycle!Deliver
  <2>1. health # "purged" /\ health' # "purged"
    BY <1>9 DEF DeliverTranscript
  <2>2. Phase = "waiting" /\ Phase' = "drafting"
    BY <1>9, <2>1, <1>f, DeliverEffect DEF PhaseFacts
  <2>3. Author' = Author /\ count' = 1
    BY <1>9, DeliverEffect DEF Author
  <2>4. QED
    BY <2>2, <2>3, <1>d
<1>10. ASSUME UNCHANGED <<revisions, count, pointers>>, \A a \in Users : ~Purge(a)
       PROVE  UNCHANGED Cycle!vars
  <2>1. health' = "purged" <=> health = "purged"
    BY <1>10, HealthSteps
  <2>2. /\ current' = current /\ pending' = pending /\ approved' = approved
        /\ revisions' = revisions /\ count' = count
    BY <1>10 DEF pointers
  <2>3. Phase' = Phase
    BY <2>1, <2>2 DEF Phase
  <2>4. Author' = Author
    BY <2>2 DEF Author
  <2>5. QED
    BY <2>2, <2>3, <2>4, <1>v DEF Stay
<1>11. QED
  BY <1>1, <1>2, <1>3, <1>4, <1>5, <1>6, <1>7, <1>8, <1>9, <1>10, OtherSteps DEF Cycle!Next

\* The nine handlers that move the pointers together run the review cycle:
\* text is revised only between reviews, and what is released is the edition
\* that was submitted, by the one author who submitted it.
THEOREM CycleImplemented == Spec => RunsReviewCycle
<1>1. Init => Cycle!Init
  BY DEF Init, Cycle!Init
<1>2. TypeOK /\ TypeOK' /\ PointersAgree /\ PointersAgree' /\ [Next]_vars
        => [Cycle!Next]_(Cycle!vars)
  BY CycleStep
<1>3. QED
  BY <1>1, <1>2, Typing, PointersCorrect, PTL DEF Spec, RunsReviewCycle, Cycle!Spec
=============================================================================

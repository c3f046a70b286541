------------------------------ MODULE ReadModel ------------------------------
(***************************************************************************)
(* What people are shown of the casefile of Casefile, and what they can take *)
(* away: the work inbox (work-inbox/service), the casefile page with its     *)
(* capabilities (casefile/read-model, casefile/capabilities) and the export  *)
(* route.  The inbox and the page change nothing; they are functions of the  *)
(* state.  An export builds its file between a check and a transaction, and  *)
(* the casefile moves on meanwhile.                                          *)
(*                                                                         *)
(* The page of an administrator carries the session of their action mode.    *)
(* An operator with an underscore in its name is a seeded fault.             *)
(***************************************************************************)
EXTENDS Casefile

VARIABLES
  export,     \* an export request; "none" again when the file is handed out
  exporters   \* the roles the workspace's policy profile lets export

readVars == <<vars, export, exporters>>

\* The profiles "strict" and "reviewable-approved-export".
Profiles == {{"approver"}, {"reviewer", "approver"}}

NoExport == [status |-> "none", revision |-> 0, named |-> FALSE]

ReadInit == Init /\ export = NoExport /\ exporters \in Profiles

-----------------------------------------------------------------------------
(* Capabilities of a page that shows revision i (0: none) on the grant g *)

PolicyAllows(key, r) ==
  CASE key \in {"edit", "submit"} -> r = "reviewer"
    [] key \in {"decide", "reopen"} -> r = "approver"
    [] key = "export" -> r \in exporters
    [] OTHER -> TRUE

\* safeResolveActionMode: the role of the open session, or none.
ActionMode(u) == IF principal[u] = "admin" /\ mode[u] \in AssignmentRole THEN mode[u] ELSE "none"

\* Authority on the grant g, for somebody in the action mode m.
HasReviewerAuthority(m, g) ==
  IF m # "none" THEN m = "reviewer" ELSE g = <<"active", "reviewer">>

HasApproverAuthority_Active(m, g) ==  \* fault: a completed approver is forgotten
  IF m # "none" THEN m = "approver" ELSE g = <<"active", "approver">>

HasApproverAuthority(m, g) ==
  IF m # "none" THEN m = "approver"
  ELSE g \in {<<"active", "approver">>, <<"completed", "approver">>}

HasExportAuthority(m, g) == m # "none" \/ g[1] \in {"active", "completed"}

\* deriveCasefileCapabilities.  Saving and renaming go with editing, requesting
\* changes with approving.
Capable(u, m, g, i, key) ==
  /\ i # 0 /\ i = current
  /\ PolicyAllows(key, IF m # "none" THEN m ELSE principal[u])
  /\ CASE key \in {"edit", "submit"} ->
            HasReviewerAuthority(m, g) /\ revisions[i].state = "draft"
       [] key = "withdraw" ->
            /\ HasReviewerAuthority(m, g) /\ pending = i
            /\ revisions[i].submitter # NoUser
            /\ revisions[i].submitter = u \/ m # "none"
       [] key = "decide" ->
            /\ HasApproverAuthority(m, g) /\ pending = i
            /\ revisions[i].submitter # u \/ principal[u] = "admin"
       [] key = "reopen" -> HasApproverAuthority(m, g) /\ approved = i
       [] key = "export" -> HasExportAuthority(m, g) /\ approved = i

\* adminActionModeOptions: the modes an administrator is offered on the page of
\* revision i, those that would enable something.
ModeOptions(u, i) ==
  {m \in AssignmentRole :
     /\ principal[u] = "admin"
     /\ \E key \in IF m = "reviewer" THEN {"edit", "submit", "withdraw"}
                     ELSE {"decide", "reopen", "export"} :
          Capable(u, m, <<"oversight", "admin">>, i, key)}

-----------------------------------------------------------------------------
(* The page and the inbox *)

\* getCasefile: the revision the page /recordings/id?revision=link shows (0 for
\* none), given the grant it was opened on.
Selected(g, link) ==
  CASE g[1] = "status" -> 0
    [] g[1] = "completed" -> IF link = 0 THEN current ELSE link
    [] g[1] = "oversight" /\ link # 0 -> link
    [] OTHER -> current

Opens(u, link) == GrantsAt(u, IF link = 0 THEN current ELSE link)

\* originDecisionForRevision, with the decisions on the revision and its base.
Origin(i) ==
  LET said == {d.state : d \in {e \in decisions : e.revision \in {i, revisions[i].base}}}
  IN IF "changes_requested" \in said THEN "changes_requested"
     ELSE IF "reopened" \in said THEN "reopened" ELSE "draft_review"

\* deriveStageForSelection and deriveWorkflowStage for a selected revision.
Stage(i) ==
  CASE health = "failed" -> "needs_ingest_attention"
    [] health = "processing" -> "transcribing"
    [] OTHER ->
         IF i = 0 THEN "draft_review"
         ELSE IF revisions[i].state = "pending_approval" THEN "pending_approval"
         ELSE IF (IF i = current THEN approved = i ELSE revisions[i].state = "approved")
              THEN "approved"
         ELSE Origin(i)

IsActionable_Pending(r, stage, done) ==  \* fault: a pending revision is left to wait
  ~done /\ r = "reviewer" /\ stage \in {"draft_review", "changes_requested", "reopened"}

IsActionable(r, stage, done) ==
  /\ ~done
  /\ \/ r = "reviewer" /\ stage \in {"draft_review", "changes_requested", "reopened"}
     \/ r = "approver" /\ stage = "pending_approval"

\* createRow: link is 0 when it names no revision.
InboxRow(u, i, link, done) ==
  [revision |-> i, link |-> link, done |-> done, stage |-> Stage(i),
   actionable |-> IsActionable(principal[u], Stage(i), done)]

AssignedRows(u) ==
  {InboxRow(u, current, 0, FALSE) : q \in {r \in ActiveRoles(u) : GrantsAt(u, current) # {}}}
  \cup {InboxRow(u, c[3], c[3], TRUE) : c \in {d \in completed : d[1] = u /\ GrantsAt(u, d[3]) # {}}}

\* listWorkInbox
Inbox(u) ==
  CASE health = "purged" -> {}
    [] health # "purged" /\ principal[u] \in AssignmentRole -> AssignedRows(u)
    [] OTHER -> IF principal[u] = "admin" \/ u = Uploader
                THEN {InboxRow(u, current, 0, FALSE)} ELSE {}

-----------------------------------------------------------------------------
(* Exports *)

MayExport(u) ==
  /\ \E g \in Grants(u) : g[1] # "status"
  /\ principal[u] = "admin" => mode[u] = "approver"
  /\ (IF principal[u] = "admin" THEN "approver" ELSE principal[u]) \in exporters

\* The revision asked for, or the approved one; named: the file will say so.
AskExport(u, wanted) ==
  LET i == IF wanted = 0 THEN approved ELSE wanted IN
  /\ export.status # "building" /\ health # "purged"
  /\ MayExport(u)
  /\ i \in 1 .. count
  /\ i = approved => revisions[i].state = "approved" /\ current = i
  /\ export' = [status |-> "building", revision |-> i, named |-> i = approved]
  /\ UNCHANGED <<vars, exporters>>

StillExportable_Exists(e) == revisions[e.revision].state # "absent"  \* fault: as for any revision
StillExportable(e) ==
  /\ revisions[e.revision].state # "absent"
  /\ e.named => /\ revisions[e.revision].state = "approved"
                /\ approved = e.revision /\ current = e.revision

\* The file is ready; what it says is checked again and the export recorded.
FinishExport ==
  /\ export.status = "building"
  /\ export' = IF StillExportable(export) THEN NoExport ELSE [NoExport EXCEPT !.status = "refused"]
  /\ UNCHANGED <<vars, exporters>>

SetPolicyProfile(a) ==
  /\ IsAdmin(a)
  /\ exporters' \in Profiles \ {exporters}
  /\ UNCHANGED <<vars, export>>

ReadNext ==
  \/ Next /\ UNCHANGED <<export, exporters>>
  \/ \E a \in Users : SetPolicyProfile(a)
  \/ \E u \in Users, wanted \in Pointers : AskExport(u, wanted)
  \/ FinishExport

ReadSpec == ReadInit /\ [][ReadNext]_readVars

-----------------------------------------------------------------------------
(* Properties *)

\* Requests of accounts whose role has not changed since they were made.
Current == {u \in Users : principal[u] = role[u]}

\* The page and the server decide twice what somebody may do, from different
\* code: whatever the page enables the command takes, and nothing it takes is
\* hidden; an administrator is offered the modes in which there is something to
\* do, and no other.  The uploader's own account is left out (UploaderOnlySeesStatus), and
\* so is the export an administrator is offered in reviewer mode.
PagesMatchCommands ==
  health # "purged" => \A u \in Current \ {Uploader} :
    LET Enabled(key) == \E g \in Grants(u) : Capable(u, ActionMode(u), g, Selected(g, 0), key) IN
    /\ Enabled("edit") <=> current # 0 /\ AsReviewer(u) /\ DraftIsCurrent(current)
    /\ Enabled("submit") <=> Enabled("edit")
    /\ Enabled("withdraw") <=>
         /\ current # 0 /\ AsReviewer(u) /\ PendingIsCurrent(current)
         /\ revisions[current].submitter = u
            \/ (principal[u] = "admin" /\ revisions[current].submitter # NoUser)
    /\ Enabled("decide") <=>
         current # 0 /\ AsApprover(u) /\ PendingIsCurrent(current) /\ MayDecide(u, current)
    /\ Enabled("reopen") <=> current # 0 /\ AsApprover(u) /\ ApprovedIsCurrent(current)
    /\ Enabled("export") <=>
         /\ current # 0 /\ approved = current
         /\ MayExport(u) \/ (principal[u] = "admin" /\ mode[u] = "reviewer" /\ "reviewer" \in exporters)
    /\ principal[u] = "admin" /\ mode[u] \in AssignmentRole =>
         (mode[u] \in ModeOptions(u, current) <=>
            \/ current # 0 /\ AsReviewer(u) /\ DraftIsCurrent(current)
            \/ /\ current # 0 /\ AsReviewer(u) /\ PendingIsCurrent(current)
               /\ revisions[current].submitter # NoUser
            \/ current # 0 /\ AsApprover(u) /\ (PendingIsCurrent(current) \/ ApprovedIsCurrent(current)))

\* No work lies in nobody's inbox: an assigned draft or decision is listed as
\* work to whom the page would let do it, and a row listed as work leads to
\* some, a decision on their own submission aside.  Every row opens, on the
\* revision it speaks of unless newer work of theirs goes first.  A recording
\* that failed after its draft was delivered is not listed as work.
WorkIsListed ==
  health # "failed" => \A u \in Current \ {Uploader} :
    LET Work == \E g \in Opens(u, 0) : g[1] = "active" /\
                  \E key \in {"edit", "decide"} : Capable(u, "none", g, Selected(g, 0), key)
    IN /\ principal[u] \in AssignmentRole /\ Work /\ health # "purged" =>
            \E row \in Inbox(u) : row.actionable
       /\ \A row \in Inbox(u) :
            /\ row.actionable => Work \/ (pending # 0 /\ revisions[pending].submitter = u)
            /\ Opens(u, row.link) # {}
            /\ \A g \in Opens(u, row.link) : g[1] # "active" => Selected(g, row.link) = row.revision

\* A file that calls itself approved is of the approved, current revision at the
\* moment it is handed out, whatever was reopened, recovered or purged while it
\* was built; no file is handed out of a revision that is gone.
ExportsAreApproved ==
  [][export.status = "building" /\ export'.status = "none" =>
       /\ export.revision \in 1 .. count
       /\ export.named => approved = export.revision /\ pending = 0
                          /\ \A a \in active : a[2] # "reviewer"]_readVars
=============================================================================

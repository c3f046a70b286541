------------------------------- MODULE Workspace -------------------------------
(***************************************************************************)
(* The casefile page in a browser (components/casefile/casefile-workspace):  *)
(* a reviewer types into a revision while the server's state moves on, the   *)
(* session or the admin action mode ends, and answers are lost.              *)
(*                                                                         *)
(* Of the server only what the page can tell is kept (Casefile has the       *)
(* rules): the current revision, its stage and the action mode.  The page is *)
(* an administrator's; a reviewer's is one whose mode never ends.  Each thing *)
(* typed is a number, and touches a field of its own.  The router of Next.js *)
(* works off the server actions and refreshes of a page one after the other; *)
(* a router.replace goes before those that wait.                            *)
(*                                                                         *)
(* An operator with an underscore in its name is a seeded fault: the       *)
(* definition after it with one slip.  Nothing uses it.                    *)
(***************************************************************************)
EXTENDS Integers, Sequences

CONSTANTS MaxTyped, MaxRecordRevision, MaxQueue, MaxUpsets   \* bounds

VARIABLES record,     \* on the server: current revision, stage, action mode
          signedIn,   \* the session would still be accepted
          granted,    \* the casefile is there and open to this user
          kept,       \* what the server has taken into a revision
          view,       \* the record as the page believes it to be (casefile)
          shown,      \* the revision the text on the page was copied from
          edits,      \* typed and not known to be saved (segmentEdits, summary)
          dirty, conflict, saving, recovery,
          dialog,     \* the modal that is open
          typed,      \* how much was typed so far
          queue,      \* the calls of the page, the first of them on its way
          answer,     \* its answer
          given_up,   \* history: typed text the user or the server threw away
          upsets      \* bound: ended sessions, modes and access, others' acts, lost answers

server == <<record, signedIn, granted, kept>>
text == <<shown, edits, dirty, typed, given_up>>
page == <<view, conflict, saving, recovery, dialog>>
calls == <<queue, answer>>
workspaceVars == <<server, text, page, calls, upsets>>

Nothing == [code |-> "none"]
Snapshot == [rev |-> record.rev, stage |-> record.stage, mode |-> record.mode]

WorkspaceInit ==
  /\ record \in [rev : {1}, stage : {"draft", "pending"}, mode : {"none", "reviewer"}]
  /\ signedIn = TRUE /\ granted = TRUE /\ kept = {}
  /\ view = Snapshot /\ shown = 1
  /\ edits = {} /\ dirty = FALSE /\ conflict = FALSE /\ saving = FALSE /\ recovery = FALSE
  /\ dialog = "none"
  /\ typed = 0
  /\ queue = <<>> /\ answer = Nothing
  /\ given_up = {} /\ upsets = 0

\* What the capabilities of the read model leave enabled, by stage and role.
Offered(kind) ==
  CASE kind \in {"edit", "save", "submit", "rename"} -> view.stage = "draft" /\ view.mode = "reviewer"
    [] kind = "withdraw" -> view.stage = "pending" /\ view.mode = "reviewer"
    [] kind \in {"approve", "requestChanges"} -> view.stage = "pending" /\ view.mode = "approver"
    [] kind = "reopen" -> view.stage = "approved" /\ view.mode = "approver"
Decisions == {"submit", "withdraw", "requestChanges", "approve", "reopen"}
ModeCalls == {"enter_reviewer", "enter_approver", "exit"}
ModeAfter(kind) ==
  CASE kind = "enter_reviewer" -> "reviewer" [] kind = "enter_approver" -> "approver" [] OTHER -> "none"

-----------------------------------------------------------------------------
(* What the user does *)

\* A modal makes the page inert.  An answer being waited for does not.
Reachable == dialog = "none" /\ ~recovery

CommandUnderWay == \E i \in DOMAIN queue : queue[i].kind \notin ModeCalls \cup {"refresh"}

\* updateText, updateSpeaker, updateSummary
Type ==
  /\ Reachable /\ Offered("edit") /\ ~conflict /\ typed < MaxTyped
  /\ typed' = typed + 1
  /\ edits' = edits \cup {typed'}
  /\ dirty' = TRUE
  /\ given_up' = IF CommandUnderWay THEN given_up \cup {typed'} ELSE given_up
  /\ UNCHANGED <<server, shown, page, calls, upsets>>

\* The arguments are taken from the page as it is at the moment of the call.
\* asked: the modal that made the call is still waiting for the answer.
Request(kind) == [kind |-> kind, asked |-> kind = dialog, edits |-> edits, dirty |-> dirty,
                  view |-> view, shown |-> shown]
Call(kind) == Len(queue) < MaxQueue /\ queue' = Append(queue, Request(kind))

HandleSave ==
  /\ Reachable /\ Offered("save") /\ ~conflict /\ dirty /\ ~saving
  /\ saving' = TRUE
  /\ Call("save")
  /\ UNCHANGED <<server, text, view, conflict, recovery, dialog, answer, upsets>>

OpenDialog(kind) ==
  /\ Reachable
  /\ IF kind \in ModeCalls
     THEN view.mode # ModeAfter(kind)
     ELSE Offered(kind) /\ ~conflict /\ (kind = "rename" => ~dirty)
  /\ dialog' = kind
  /\ UNCHANGED <<server, text, view, conflict, saving, recovery, calls, upsets>>

\* runDecision, handleRenameSpeaker, handleEnterActionMode, handleExitActionMode
\* (which calls nothing when the page knows of no mode any more)
Confirm ==
  /\ dialog # "none" /\ ~recovery /\ (dialog = "exit" => view.mode # "none")
  /\ \A i \in DOMAIN queue : queue[i].asked => queue[i].kind # dialog
  /\ dialog = "rename" => ~dirty
  /\ Call(dialog)
  /\ UNCHANGED <<server, text, page, answer, upsets>>

\* Also while the answer is awaited: the modal, opened again, knows nothing of
\* the call.  (The one for the action mode is never unmounted.)
CloseDialog ==
  /\ dialog # "none" /\ ~recovery
  /\ dialog' = "none"
  /\ queue' = [i \in DOMAIN queue |-> [queue[i] EXCEPT !.asked = @ /\ queue[i].kind \in ModeCalls]]
  /\ UNCHANGED <<server, text, view, conflict, saving, recovery, answer, upsets>>

RecoverSession(success) ==
  /\ recovery /\ recovery' = FALSE
  /\ signedIn' = (signedIn \/ success)
  /\ UNCHANGED <<record, granted, kept, text, view, conflict, saving, dialog, calls, upsets>>

NewPage ==
  /\ given_up' = given_up \cup edits
  /\ view' = Snapshot /\ shown' = record.rev
  /\ edits' = {} /\ dirty' = FALSE /\ conflict' = FALSE /\ saving' = FALSE

\* Discarding after a conflict, a confirmed link, a reload.  A casefile that is
\* closed to the user is come back to when it is open again.
LeaveAndReturn ==
  /\ Reachable /\ signedIn /\ queue = <<>> /\ NewPage /\ granted' = TRUE
  /\ UNCHANGED <<record, signedIn, kept, recovery, dialog, typed, calls, upsets>>

-----------------------------------------------------------------------------
(* The server *)

RoleFor(kind) ==
  IF kind \in {"save", "submit", "rename", "withdraw"} THEN "reviewer" ELSE "approver"

\* The code of a refused command; "ok" for one that is carried out.
Verdict(r) ==
  IF ~signedIn THEN "auth"
  ELSE IF ~granted THEN "other"
  ELSE IF r.kind \in ModeCalls   \* exitActionMode names the mode the page knew
       THEN IF r.kind = "exit" /\ record.mode # r.view.mode THEN "mode" ELSE "ok"
  ELSE IF record.mode # RoleFor(r.kind) THEN "mode"
  ELSE IF r.kind \in {"save", "submit", "rename"}
       THEN IF r.view.rev # record.rev THEN "stale"
            ELSE IF record.stage # "draft" THEN "other" ELSE "ok"
  ELSE IF record.stage = (IF r.kind = "reopen" THEN "approved" ELSE "pending")
          /\ r.view.rev = record.rev THEN "ok" ELSE "changed"

\* The record a command leaves.
Outcome(r) ==
  CASE r.kind \in {"save", "rename", "withdraw", "requestChanges", "reopen"} ->
         [record EXCEPT !.rev = @ + 1, !.stage = "draft"]
    [] r.kind = "submit" ->
         [record EXCEPT !.rev = IF r.dirty THEN @ + 1 ELSE @, !.stage = "pending"]
    [] r.kind = "approve" -> [record EXCEPT !.stage = "approved"]
    [] r.kind \in ModeCalls -> [record EXCEPT !.mode = ModeAfter(r.kind)]

\* runCasefileAction: the command and the casefile it answers with, in one go.
\* A reopened recording may be out of its approver's reach.
ServeAction ==
  LET r == Head(queue) IN
  /\ queue # <<>> /\ answer = Nothing /\ r.kind # "refresh"
  /\ IF Verdict(r) = "ok"
     THEN /\ record' = Outcome(r) /\ record'.rev <= MaxRecordRevision
          /\ kept' = IF r.kind \in {"save", "submit"} THEN kept \cup r.edits ELSE kept
          /\ answer' \in {[code |-> "ok", casefile |-> Snapshot']} \cup
                         (IF r.kind = "reopen" THEN {[code |-> "gone"]} ELSE {})
          /\ granted' = (answer'.code = "ok")
     ELSE /\ answer' = [code |-> Verdict(r)]
          /\ UNCHANGED <<record, granted, kept>>
  /\ UNCHANGED <<signedIn, text, page, queue, upsets>>

\* The page component.  It redirects to the sign-in page without a session, to
\* the workspace when access is denied, and finds no page for a purged recording.
ServePage ==
  /\ queue # <<>> /\ answer = Nothing /\ Head(queue).kind = "refresh"
  /\ answer' = IF signedIn /\ granted THEN [code |-> "page", casefile |-> Snapshot]
                                      ELSE [code |-> "away"]
  /\ UNCHANGED <<server, text, page, queue, upsets>>

Upset == upsets < MaxUpsets /\ upsets' = upsets + 1

SessionEnds ==
  /\ Upset /\ signedIn /\ signedIn' = FALSE
  /\ UNCHANGED <<record, granted, kept, text, page, calls>>

\* The assignment is given to somebody else, or the recording is purged.
AccessEnds ==
  /\ Upset /\ granted /\ granted' = FALSE
  /\ UNCHANGED <<record, signedIn, kept, text, page, calls>>

ModeEnds ==
  /\ Upset /\ record.mode # "none" /\ record' = [record EXCEPT !.mode = "none"]
  /\ UNCHANGED <<signedIn, granted, kept, text, page, calls>>

\* Somebody else saves, recovers, returns or reopens; submits; approves.
OthersAct ==
  /\ Upset
  /\ \/ record.rev < MaxRecordRevision /\ record' = [record EXCEPT !.rev = @ + 1, !.stage = "draft"]
     \/ record.stage = "draft" /\ record' = [record EXCEPT !.stage = "pending"]
     \/ record.stage = "pending" /\ record' = [record EXCEPT !.stage = "approved"]
  /\ UNCHANGED <<signedIn, granted, kept, text, page, calls>>

-----------------------------------------------------------------------------
(* What arrives at the page *)

\* isSameRevisionSnapshot
SameSnapshot_Any(v, w) == v.stage = w.stage   \* fault: the revision is not compared
SameSnapshot(v, w) == v.rev = w.rev /\ v.stage = w.stage

TakesRender_Always(snapshot) == TRUE  \* fault: unsaved text does not matter
TakesRender(snapshot) == ~dirty \/ SameSnapshot(view, snapshot)

\* The effect on initialCasefile: with unsaved text on the page only the action
\* mode of the same revision is taken over.
ReceivePage ==
  /\ answer.code = "page"
  /\ IF TakesRender(answer.casefile)
     THEN /\ view' = answer.casefile
          /\ shown' = IF dirty THEN shown ELSE answer.casefile.rev
     ELSE UNCHANGED <<view, shown>>
  /\ queue' = Tail(queue) /\ answer' = Nothing
  /\ UNCHANGED <<server, edits, dirty, typed, given_up, conflict, saving, recovery, dialog, upsets>>

\* The page is left.  The user comes back, signed in and with access.
ReceiveAway ==
  /\ answer.code = "away" /\ NewPage
  /\ queue' = <<>> /\ answer' = Nothing
  /\ dialog' = "none" /\ recovery' = FALSE /\ signedIn' = TRUE /\ granted' = TRUE
  /\ UNCHANGED <<record, kept, typed, upsets>>

Settled(r) == saving' = (saving /\ r.kind # "save")
\* Closes the modal, and another decision's, whose own call goes on unasked.
Closes(r) == dialog = r.kind \/ {dialog, r.kind} \subseteq Decisions
Ends(r) == dialog' = IF Closes(r) THEN "none" ELSE dialog
Rest(r) == [i \in 1 .. Len(queue) - 1 |->
              [queue[i + 1] EXCEPT !.asked = @ /\ ~(Closes(r) /\ queue[i + 1].kind = dialog)]]
Refresh == [Request("refresh") EXCEPT !.asked = FALSE]
Goes == queue' = Tail(queue)
GoesAndEnds(r) == Ends(r) /\ queue' = Rest(r)
GoesAndRefreshes(r) == Ends(r) /\ queue' = Append(Rest(r), Refresh)
GoesAndReplaces(r) == Ends(r) /\ queue' = <<Refresh>> \o Rest(r)

\* applyMutationResult and the part of runDecision and of the other handlers
\* that looks at the code of the answer.
ReceiveAnswer ==
  LET r == Head(queue) IN
  /\ answer.code \notin {"none", "page", "away"}
  /\ answer' = Nothing /\ Settled(r)
  /\ \/ /\ answer.code = "ok" /\ r.kind \notin ModeCalls
        /\ view' = answer.casefile /\ shown' = answer.casefile.rev
        /\ edits' = {} /\ dirty' = FALSE /\ conflict' = FALSE
        /\ GoesAndEnds(r) /\ UNCHANGED <<recovery, typed, given_up>>
     \/ /\ answer.code = "ok" /\ r.kind \in ModeCalls
        /\ GoesAndReplaces(r) /\ UNCHANGED <<view, text, conflict, recovery>>
     \/ /\ answer.code = "auth" /\ recovery' = TRUE
        /\ Goes /\ UNCHANGED <<view, text, conflict, dialog>>
     \/ /\ answer.code = "stale" /\ conflict' = TRUE
        /\ GoesAndEnds(r) /\ UNCHANGED <<view, text, recovery>>
     \/ /\ answer.code = "mode"   \* handleActionModeLoss, with the casefile of the call
        /\ view' = [r.view EXCEPT !.mode = "none"]
        /\ GoesAndReplaces(r) /\ UNCHANGED <<text, conflict, recovery>>
     \/ /\ answer.code = "changed"
        /\ GoesAndRefreshes(r) /\ UNCHANGED <<view, text, conflict, recovery>>
     \/ answer.code = "other" /\ Goes /\ UNCHANGED <<view, text, conflict, recovery, dialog>>
     \/ /\ answer.code = "gone"   \* no casefile: setDirty(false), router.push
        /\ given_up' = given_up \cup edits
        /\ edits' = {} /\ dirty' = FALSE /\ conflict' = FALSE
        /\ GoesAndEnds(r) /\ UNCHANGED <<view, shown, typed, recovery>>
  /\ UNCHANGED <<server, upsets>>

\* The call is rejected, before or after the server handled it.  A save stays
\* marked as under way: nothing resets it until the page is loaded again.
AnswerLost ==
  /\ Upset /\ queue # <<>> /\ Goes /\ answer' = Nothing
  /\ UNCHANGED <<server, text, page>>

WorkspaceNext ==
  \/ Type \/ HandleSave \/ Confirm \/ CloseDialog \/ LeaveAndReturn
  \/ \E kind \in Decisions \cup ModeCalls \cup {"rename"} : OpenDialog(kind)
  \/ \E success \in BOOLEAN : RecoverSession(success)
  \/ ServeAction \/ ServePage \/ SessionEnds \/ AccessEnds \/ ModeEnds \/ OthersAct
  \/ ReceivePage \/ ReceiveAway \/ ReceiveAnswer \/ AnswerLost

WorkspaceSpec == WorkspaceInit /\ [][WorkspaceNext]_workspaceVars

-----------------------------------------------------------------------------
(* Properties *)

\* What was typed is on the page or in a revision until the user throws it away:
\* no conflict, refusal, lost answer, ended mode or session and no refresh takes
\* it.  Excepted is what was typed while a command of the page was under way
\* (its answer replaces the text) and what the page still held when a refresh
\* sent it to the sign-in page or found the casefile closed to the user.
TypedTextSurvives == 1 .. typed \subseteq edits \cup kept \cup given_up

\* A command that writes typed text is only carried out on the revision whose
\* text the page was showing when it was called, not on one it has merely heard
\* of in a refresh, a conflict or the answer to another command.
WritesOverWhatWasShown ==
  [][queue # <<>> /\ answer = Nothing /\ answer'.code = "ok" /\ Head(queue).edits # {}
       /\ Head(queue).kind \in {"save", "submit"}
     => Head(queue).shown = record.rev]_workspaceVars
=============================================================================

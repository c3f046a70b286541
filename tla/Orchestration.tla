----------------------------- MODULE Orchestration -----------------------------
(***************************************************************************)
(* What happens to one recording after its upload is finalized when the     *)
(* engine is not the internal worker: the mock engine, stepped by every read *)
(* of the synchronized state, or an external engine, which is dispatched to  *)
(* once and answers with callbacks; and the page that polls the status.      *)
(*                                                                         *)
(* The network may lose, repeat, delay and reorder callbacks and the page's  *)
(* polls, and the request that finalized the upload may be repeated.  Each   *)
(* read-modify-write of the state is one action (StateStore).               *)
(*                                                                         *)
(* An operator with an underscore in its name is a seeded fault: the       *)
(* definition after it with one slip.  Nothing uses it.                    *)
(***************************************************************************)
EXTENDS Integers, FiniteSets

CONSTANT MaxPolls      \* polls of the page in flight at once

VARIABLES config,      \* SUPERSCRIBER_ENGINE_MODE of the running process
          kind,        \* what the mock engine reads of the recording: fixed
          session,     \* its ingestion session: adapter, state, lastError
          transcript,  \* its transcript job: adapter, state, output
          recording,   \* its own copies of both states, and its drafts
          age,         \* elapsed time since the session and the job started
          dispatch,    \* the dispatch call made after finalization
          engine,      \* how far the external engine has come
          wire,        \* callbacks the engine has sent, any of which may arrive
          page         \* the status page: shown, polls in flight, refresh due

orchestrationVars ==
  <<config, kind, session, transcript, recording, age, dispatch, engine, wire, page>>

Absent == [state |-> "absent"]
Status == [integrity |-> recording.integrity, job |-> recording.job, draft |-> recording.draft]

\* SessionOf and JobOf: bootstrapIngestionSession and bootstrapTranscriptJob
\* give a recording of an older state file the rows it lacks.
SessionOf(r) == IF session # Absent THEN session
                ELSE [adapter |-> "mock", state |-> r.integrity, error |-> "none"]
JobOf(r) == IF transcript # Absent THEN transcript
            ELSE [adapter |-> "mock", state |-> r.job, output |-> r.draft = 1]

OrchestrationInit ==
  /\ config \in {"mock", "webhook"}
  /\ kind \in {"plain", "partial", "corrupt"}
  /\ age = [session |-> 0, job |-> 0]
  /\ engine = "idle" /\ wire = {}
  /\ \/ \* finalizeUploadSession has just committed
        /\ session = [adapter |-> config, error |-> "none",
                      state |-> IF config = "webhook" THEN "verifying" ELSE "verified"]
        /\ transcript = [adapter |-> config, state |-> "queued", output |-> FALSE]
        /\ recording = [integrity |-> session.state, job |-> "queued", draft |-> 0]
        /\ dispatch = "due"
     \/ \* a recording of an older state file
        /\ session = Absent /\ transcript = Absent /\ dispatch = "none"
        /\ recording \in {[integrity |-> "verifying", job |-> "queued", draft |-> 0],
                          [integrity |-> "verified", job |-> "running", draft |-> 0],
                          [integrity |-> "verified", job |-> "completed", draft |-> 1]}
  /\ page = [shown |-> Status, polls |-> {}, refresh |-> FALSE]

-----------------------------------------------------------------------------
(* The mock engine *)

\* stepVerification: the session's next state, and its own state for no change.
VerificationStep(s) ==
  IF s.state # "verifying" THEN s.state
  ELSE IF kind = "corrupt" THEN "verification_failed"
  ELSE IF age.session >= 1 THEN "verified" ELSE "verifying"

\* stepTranscriptJob, on the session as the verification step left it.
TranscriptStep(sessionState, j) ==
  IF sessionState # "verified" THEN j.state
  ELSE IF j.state = "queued" THEN "running"
  ELSE IF j.state = "running" /\ kind = "partial" /\ age.job >= 1 THEN "partial_result"
  ELSE IF \/ j.state = "running" /\ age.job >= 2
          \/ j.state = "partial_result" /\ age.job >= 3 THEN "completed"
  ELSE j.state

DraftDue_Again(completing) == completing  \* fault: the current revision is not looked at
\* completeDraftIfNeeded: a draft is only written where there is no revision.
DraftDue(completing) == completing /\ recording.draft = 0

Drafts(due) == IF due THEN 1 ELSE 0

\* synchronizeOrchestration, as the state it leaves: session, job, recording.
Synchronized ==
  LET s == SessionOf(recording)
      j == JobOf(recording)
      sNext == IF j.adapter = "mock" THEN VerificationStep(s) ELSE s.state
      jNext == IF j.adapter = "mock" THEN TranscriptStep(sNext, j) ELSE j.state
      draft == DraftDue(jNext = "completed" /\ j.state # "completed")
      stepped == j.adapter = "mock" /\ s.state = "verifying"
      s2 == [s EXCEPT !.state = sNext,
                      !.error = IF ~stepped THEN @
                                ELSE IF sNext = "verification_failed" THEN "engine"
                                ELSE "none"]
      j2 == [j EXCEPT !.state = jNext, !.output = @ \/ draft]
  IN [session |-> s2, job |-> j2,
      recording |-> [integrity |-> IF stepped THEN sNext ELSE recording.integrity,
                     job |-> IF jNext # j.state THEN jNext ELSE recording.job,
                     draft |-> recording.draft + Drafts(draft)]]

\* readSynchronizedState: only an instance configured for the mock engine steps it.
Settle ==
  IF config = "mock"
  THEN /\ session' = Synchronized.session
       /\ transcript' = Synchronized.job
       /\ recording' = Synchronized.recording
  ELSE UNCHANGED <<session, transcript, recording>>

\* Time passes; the job's clock runs from the moment it started.
Tick ==
  /\ \/ age.session < 1 /\ age' = [age EXCEPT !.session = @ + 1]
     \/ /\ transcript # Absent /\ transcript.state \in {"running", "partial_result"} /\ age.job < 3
        /\ age' = [age EXCEPT !.job = @ + 1]
  /\ UNCHANGED <<config, kind, session, transcript, recording, dispatch, engine, wire, page>>

\* finalizeResumableUploadSession, repeated after the first one moved the
\* temporary file: failUploadSession, at any time, also while the first one
\* awaits its dispatch.  The request is refused, so nothing is dispatched again.
FinalizedAgain ==
  /\ session # Absent
  /\ session' = [session EXCEPT !.state = "verification_failed", !.error = "upload"]
  /\ transcript' = [transcript EXCEPT !.state = "failed"]
  /\ recording' = [recording EXCEPT !.integrity = "verification_failed", !.job = "failed"]
  /\ UNCHANGED <<config, kind, age, dispatch, engine, wire, page>>

-----------------------------------------------------------------------------
(* Dispatch to the external engine *)

NotedFailure_Job(detail) ==  \* fault: only the audit event says so
  /\ session' = SessionOf(recording)
  /\ transcript' = JobOf(recording)
\* noteOrchestrationDispatchFailure
NotedFailure(detail) ==
  /\ session' = [SessionOf(recording) EXCEPT !.error = detail]
  /\ transcript' = JobOf(recording)

\* Modes other than webhook, and an incomplete configuration, never call out.
DispatchSkipped(misconfigured) ==
  /\ dispatch = "due"
  /\ config = "webhook" => misconfigured
  /\ dispatch' = IF config = "webhook" THEN "failed" ELSE "none"
  /\ IF config = "webhook" THEN NotedFailure("dispatch") ELSE UNCHANGED <<session, transcript>>
  /\ UNCHANGED <<config, kind, recording, age, engine, wire, page>>

DispatchSent ==
  /\ dispatch = "due" /\ config = "webhook"
  /\ dispatch' = "sent"
  /\ UNCHANGED <<config, kind, session, transcript, recording, age, engine, wire, page>>

EngineAccepts ==
  /\ dispatch = "sent" /\ engine = "idle"
  /\ engine' = "accepted"
  /\ UNCHANGED <<config, kind, session, transcript, recording, age, dispatch, wire, page>>

DispatchAnswered ==
  /\ dispatch = "sent" /\ engine # "idle"
  /\ dispatch' = "accepted"
  /\ UNCHANGED <<config, kind, session, transcript, recording, age, engine, wire, page>>

\* Refused, unreachable, or no answer in time, whatever the engine made of it.
DispatchFails ==
  /\ dispatch = "sent"
  /\ dispatch' = "failed"
  /\ NotedFailure("dispatch")
  /\ UNCHANGED <<config, kind, recording, age, engine, wire, page>>

-----------------------------------------------------------------------------
(* The external engine and its callbacks *)

Payload(s, j, segments) == [session |-> s, job |-> j, segments |-> segments]
Stages == [accepted |-> Payload("verified", "none", FALSE),
         verified |-> Payload("none", "running", FALSE),
         running |-> Payload("none", "partial_result", FALSE),
         partial |-> Payload("none", "completed", TRUE)]
After == [accepted |-> "verified", verified |-> "running", running |-> "partial", partial |-> "done"]

EngineReports ==
  /\ engine \in DOMAIN Stages
  /\ \/ wire' = wire \cup {Stages[engine]} /\ engine' = After[engine]
     \/ /\ wire' = wire \cup {Payload("verification_failed", "failed", FALSE)}
        /\ engine' = "done"
  /\ UNCHANGED <<config, kind, session, transcript, recording, age, dispatch, page>>

\* applyOrchestrationWebhookUpdate: whatever state the callback names replaces
\* the one there was.  The route turns an absent lastError into null, so any
\* news of the session clears the dispatch warning.
Callback(p) ==
  LET s == SessionOf(recording)
      j == JobOf(recording)
      s2 == IF p.session = "none" THEN s ELSE [s EXCEPT !.state = p.session, !.error = "none"]
      j2 == IF p.job = "none" THEN j ELSE [j EXCEPT !.state = p.job]
      draft == p.segments /\ DraftDue(j2.state = "completed")
  IN /\ p \in wire
     /\ session' = s2
     /\ transcript' = [j2 EXCEPT !.output = @ \/ draft]
     /\ recording' = [integrity |-> IF p.session = "none" THEN recording.integrity ELSE p.session,
                      job |-> IF p.job = "none" THEN recording.job ELSE p.job,
                      draft |-> recording.draft + Drafts(draft)]
     /\ UNCHANGED <<config, kind, age, dispatch, engine, wire, page>>

-----------------------------------------------------------------------------
(* The status page *)

Polling_Job(shown) == shown.job \in {"queued", "running"}  \* fault: partial results end it
\* isActiveStatus
Polling(shown) ==
  \/ shown.integrity = "verifying"
  \/ shown.job \in {"queued", "running", "partial_result"}

\* The interval does not wait for the poll before it.
SendPoll ==
  /\ Polling(page.shown) /\ Cardinality(page.polls) < MaxPolls
  /\ Settle
  /\ page' = [page EXCEPT !.polls = @ \cup {Status'}]
  /\ UNCHANGED <<config, kind, age, dispatch, engine, wire>>

\* Answers arrive in any order, or not at all.
PollAnswered(answer, lost) ==
  /\ answer \in page.polls
  /\ page' = IF lost THEN [page EXCEPT !.polls = @ \ {answer}]
             ELSE [shown |-> answer, polls |-> page.polls \ {answer},
                   refresh |-> page.refresh \/ answer # page.shown]
  /\ UNCHANGED <<config, kind, session, transcript, recording, age, dispatch, engine, wire>>

\* The refreshed page hands the poller the state of the moment.
PageRefreshes ==
  /\ page.refresh
  /\ Settle
  /\ page' = [page EXCEPT !.shown = Status', !.refresh = FALSE]
  /\ UNCHANGED <<config, kind, age, dispatch, engine, wire>>

-----------------------------------------------------------------------------
\* The process stops and starts, perhaps configured for the other engine.  A
\* dispatch that was due or under way is not made again.
OrchestrationRestart ==
  /\ config' \in {"mock", "webhook"}
  /\ dispatch' = IF dispatch \in {"due", "sent"} THEN "lost" ELSE dispatch
  /\ <<config, dispatch>>' # <<config, dispatch>>
  /\ UNCHANGED <<kind, session, transcript, recording, age, engine, wire, page>>

OrchestrationNext ==
  \/ Tick \/ FinalizedAgain
  \/ \E misconfigured \in BOOLEAN : DispatchSkipped(misconfigured)
  \/ DispatchSent \/ DispatchAnswered \/ DispatchFails
  \/ EngineAccepts \/ EngineReports
  \/ \E p \in wire : Callback(p)
  \/ SendPoll
  \/ \E answer \in page.polls, lost \in BOOLEAN : PollAnswered(answer, lost)
  \/ PageRefreshes
  \/ OrchestrationRestart

OrchestrationSpec == OrchestrationInit /\ [][OrchestrationNext]_orchestrationVars

-----------------------------------------------------------------------------
(* Properties *)

\* However callbacks are repeated and reordered, and whichever engine runs, the
\* recording is given one first draft, by a job that is completed at that
\* moment, and the draft is the output the job records; the recording's own
\* copies of the two states never drift from the rows.
OneDraftPerJob ==
  [][/\ recording.draft = 1 =>
          recording'.draft = 1 /\ (transcript # Absent => transcript'.output = transcript.output)
     /\ recording.draft = 0 /\ recording'.draft = 1 => transcript'.state = "completed" /\ transcript'.output
     /\ session' # Absent => recording'.integrity = session'.state /\ recording'.job = transcript'.state
    ]_orchestrationVars

\* Unless the process stopped in between, a recording that no engine has taken
\* never waits in silence: it shows that its dispatch failed, or, where a
\* repeated finalize has overwritten that, that its upload did.
UndispatchedIsShown ==
  dispatch = "failed" /\ engine = "idle" =>
    \/ session.error = "dispatch"
    \/ /\ session.error = "upload"
       /\ recording.integrity = "verification_failed" /\ recording.job = "failed"

\* A page that has come to rest on a recording of the mock engine shows its
\* draft, however the polls overtook each other and whatever engine the
\* instance was configured for in between; without a draft it rests only on
\* the failure a repeated finalize left, which is then what the recording says.
RestingPageHasResult ==
  /\ session # Absent /\ session.adapter = "mock"
  /\ ~Polling(page.shown) /\ page.polls = {} /\ ~page.refresh
  => \/ page.shown.draft = 1
     \/ /\ page.shown = Status
        /\ recording.integrity = "verification_failed" /\ recording.job = "failed"
=============================================================================

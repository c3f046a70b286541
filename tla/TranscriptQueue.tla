-------------------------- MODULE TranscriptQueue --------------------------
(***************************************************************************)
(* The internal transcription queue (server/orchestration/internal-queue)  *)
(* and the worker processes that serve it (worker/main.py).  A worker      *)
(* claims a job, transcribes while a thread of its own sends heartbeats,   *)
(* and reports the end.  Its requests cross a network: one may be handled  *)
(* long after the worker stopped waiting for the answer.  The server       *)
(* handles one request at a time, each in one transaction.                 *)
(*                                                                         *)
(* Claims are told apart by the worker's id alone, and a worker keeps its  *)
(* id when it restarts; which attempt a request belongs to is recorded     *)
(* here to state properties, the server does not see it.                   *)
(*                                                                         *)
(* An operator with an underscore in its name is a seeded fault: the       *)
(* definition after it with one slip.  Nothing uses it.                    *)
(***************************************************************************)
EXTENDS Naturals, FiniteSets

CONSTANTS
  Jobs,         \* transcript_jobs rows, one per recording
  Workers,      \* worker processes, by their configured id
  NoWorker,     \* the null of claimed_by_worker_id
  MaxAttempts,  \* MAX_JOB_ATTEMPTS
  MaxMishaps    \* bound: crashes, lost or late answers, missed heartbeats

ASSUME QueueAssumption ==
  /\ NoWorker \notin Workers
  /\ MaxAttempts \in Nat \ {0}
  /\ MaxMishaps \in Nat

VARIABLES
  job,        \* what the queue keeps of each job
  integrity,  \* integrity of each job's recording, as Ingest leaves it
  task,       \* what each worker process is doing
  posts,      \* requests sent and not handled yet
  mishaps     \* how often something went wrong so far

vars == <<job, integrity, task, posts, mishaps>>

JobRow == [state : {"queued", "running", "completed", "failed", "gone"},
           owner : Workers \cup {NoWorker},
           attempts : Nat,
           stale : BOOLEAN,   \* last_heartbeat_at is older than staleAfterMs
           sample : Nat,      \* attempt the shown progress was measured in, 0 none
           draft : Nat]       \* attempt whose text is the output revision, 0 none

Idle == [phase |-> "idle"]
Task == {Idle} \cup
  [phase : {"working", "completing", "failing"}, job : Jobs, attempt : Nat]

Post == [kind : {"pulse", "sample", "complete", "fail", "give_up"},
         from : Workers, job : Jobs, attempt : Nat]

TypeOK ==
  /\ job \in [Jobs -> JobRow]
  /\ integrity \in [Jobs -> {"uploading", "verified", "failed"}]
  /\ task \in [Workers -> Task]
  /\ posts \subseteq Post
  /\ mishaps \in 0 .. MaxMishaps

Init ==
  /\ job = [j \in Jobs |-> [state |-> "queued", owner |-> NoWorker, attempts |-> 0,
                            stale |-> FALSE, sample |-> 0, draft |-> 0]]
  /\ integrity = [j \in Jobs |-> "uploading"]
  /\ task = [w \in Workers |-> Idle]
  /\ posts = {}
  /\ mishaps = 0

Mishap == mishaps < MaxMishaps /\ mishaps' = mishaps + 1

-----------------------------------------------------------------------------
(* Claiming *)

Queued == {j \in Jobs : job[j].state = "queued" /\ integrity[j] = "verified"}
Lapsed == {j \in Jobs : job[j].state = "running" /\ job[j].stale /\ integrity[j] = "verified"}

Claimable_QueuedOnly == Queued                                            \* fault
Claimable_Running ==                                                      \* fault
  Queued \cup {j \in Jobs : job[j].state = "running" /\ integrity[j] = "verified"}

\* The claim query: a verified recording whose job is queued or, when none is,
\* one whose worker has not been heard of.
Claimable == IF Queued # {} THEN Queued ELSE Lapsed

ClaimedBy(j, w) ==
  [job[j] EXCEPT !.state = "running", !.owner = w, !.attempts = @ + 1,
                 !.stale = FALSE, !.sample = 0]

\* claim_job and claimAvailableTranscriptJob
Claim(w, j) ==
  /\ task[w] = Idle /\ j \in Claimable
  /\ job' = [job EXCEPT ![j] = ClaimedBy(j, w)]
  /\ task' = [task EXCEPT ![w] =
                [phase |-> "working", job |-> j, attempt |-> job[j].attempts + 1]]
  /\ UNCHANGED <<integrity, posts, mishaps>>

\* The job is claimed but the worker never learns it.
ClaimLost(w, j) ==
  /\ task[w] = Idle /\ j \in Claimable /\ Mishap
  /\ job' = [job EXCEPT ![j] = ClaimedBy(j, w)]
  /\ UNCHANGED <<integrity, task, posts>>

-----------------------------------------------------------------------------
(* The worker: process_job and its HeartbeatLoop *)

Message(k, w) == [kind |-> k, from |-> w, job |-> task[w].job, attempt |-> task[w].attempt]

\* The heartbeat thread runs until the job's end has been reported; its send
\* lock lets one heartbeat out at a time.
Beat(w) ==
  /\ task[w] # Idle
  /\ posts \cap {Message("pulse", w), Message("sample", w)} = {}
  /\ \E k \in {"pulse", "sample"} : posts' = posts \cup {Message(k, w)}
  /\ UNCHANGED <<job, integrity, task, mishaps>>

Transcribe(w) ==
  /\ task[w].phase = "working"
  /\ task' = [task EXCEPT ![w].phase = "completing"]
  /\ posts' = posts \cup {Message("complete", w)}
  /\ UNCHANGED <<job, integrity, mishaps>>

\* An engine error is worth a retry, a missing media file is not.
Break(w) ==
  /\ task[w].phase = "working"
  /\ task' = [task EXCEPT ![w].phase = "failing"]
  /\ \E k \in {"fail", "give_up"} : posts' = posts \cup {Message(k, w)}
  /\ UNCHANGED <<job, integrity, mishaps>>

\* The report whose answer w is waiting for
Reports(w) ==
  LET kinds == CASE task[w].phase = "completing" -> {"complete"}
                 [] task[w].phase = "failing" -> {"fail", "give_up"}
                 [] OTHER -> {}
  IN {p \in posts : p.kind \in kinds /\ p = Message(p.kind, w)}

\* After a refused or unanswered completion the worker reports a failure;
\* after that it lets go, whatever became of the report.
NextPhase(w) == IF task[w].phase = "completing" THEN [task[w] EXCEPT !.phase = "failing"] ELSE Idle
NextPosts(w) == IF task[w].phase = "completing" THEN {Message("fail", w)} ELSE {}

\* post_json gives up after 30 seconds.  The request is lost or merely late.
TimeOut(w) ==
  /\ task[w].phase \in {"completing", "failing"} /\ Mishap
  /\ task' = [task EXCEPT ![w] = NextPhase(w)]
  /\ \E lost \in SUBSET Reports(w) : posts' = (posts \ lost) \cup NextPosts(w)
  /\ UNCHANGED <<job, integrity>>

\* The process dies and is started again under the same id.
Crash(w) ==
  /\ task[w] # Idle /\ Mishap
  /\ task' = [task EXCEPT ![w] = Idle]
  /\ UNCHANGED <<job, integrity, posts>>

-----------------------------------------------------------------------------
(* The server's handlers of a request p *)

\* assertClaimOwner
Owns(p) == job[p.job].owner = p.from

\* heartbeatTranscriptJob: whatever the state was, the job is running now.
Revived(p) ==
  [job[p.job] EXCEPT !.state = "running", !.stale = FALSE,
                     !.sample = IF p.kind = "sample" THEN p.attempt ELSE @]

Completed_Owned(p) ==  \* fault: the claim survives
  [job[p.job] EXCEPT !.state = "completed", !.stale = FALSE,
                     !.draft = IF @ = 0 THEN p.attempt ELSE @]

\* completeTranscriptJob: an output revision, once there, is kept.
Completed(p) ==
  [job[p.job] EXCEPT !.state = "completed", !.owner = NoWorker, !.stale = FALSE,
                     !.draft = IF @ = 0 THEN p.attempt ELSE @]

Exhausted(p) == p.kind = "give_up" \/ job[p.job].attempts >= MaxAttempts

FailedRow_Kept(p) ==  \* fault: the claim survives
  [job[p.job] EXCEPT !.state = IF Exhausted(p) THEN "failed" ELSE "queued", !.stale = FALSE]

\* failTranscriptJob: back to the queue, or failed for good.
FailedRow(p) ==
  [job[p.job] EXCEPT !.state = IF Exhausted(p) THEN "failed" ELSE "queued",
                     !.owner = NoWorker, !.stale = FALSE,
                     !.sample = IF Exhausted(p) THEN @ ELSE 0]

Handled(p) ==
  CASE ~Owns(p) -> job[p.job]
    [] Owns(p) /\ p.kind \in {"pulse", "sample"} -> Revived(p)
    [] Owns(p) /\ p.kind = "complete" -> Completed(p)
    [] Owns(p) /\ p.kind \in {"fail", "give_up"} -> FailedRow(p)

Serve(p) ==
  /\ p \in posts
  /\ job' = [job EXCEPT ![p.job] = Handled(p)]

\* Nobody waits for this answer any more, or nobody ever did.
ServeUnawaited(p) ==
  /\ Serve(p) /\ p \notin Reports(p.from)
  /\ posts' = posts \ {p}
  /\ UNCHANGED <<integrity, task, mishaps>>

\* The worker learns that its report was accepted or refused.
ServeReport(p) ==
  /\ Serve(p) /\ p \in Reports(p.from)
  /\ IF Owns(p)
     THEN task' = [task EXCEPT ![p.from] = Idle] /\ posts' = posts \ {p}
     ELSE /\ task' = [task EXCEPT ![p.from] = NextPhase(p.from)]
          /\ posts' = (posts \ {p}) \cup NextPosts(p.from)
  /\ UNCHANGED <<integrity, mishaps>>

\* The report is handled but its answer is lost.
AnswerLost(p) ==
  /\ Serve(p) /\ p \in Reports(p.from) /\ Mishap
  /\ task' = [task EXCEPT ![p.from] = NextPhase(p.from)]
  /\ posts' = (posts \ {p}) \cup NextPosts(p.from)
  /\ UNCHANGED integrity

-----------------------------------------------------------------------------
(* Time, and what the rest of the system does to a job *)

Attended(j) ==
  /\ job[j].owner # NoWorker
  /\ task[job[j].owner] # Idle
  /\ task[job[j].owner].job = j /\ task[job[j].owner].attempt = job[j].attempts

\* The window of missed heartbeats passes: surely when the worker is gone,
\* by bad luck when its heartbeats do not get through.
Lapse(j) ==
  /\ job[j].state = "running" /\ ~job[j].stale
  /\ job' = [job EXCEPT ![j].stale = TRUE]
  /\ IF Attended(j) THEN Mishap ELSE UNCHANGED mishaps
  /\ UNCHANGED <<integrity, task, posts>>

\* finalizeUploadSession
UploadVerified(j) ==
  /\ integrity[j] = "uploading" /\ job[j].state = "queued"
  /\ integrity' = [integrity EXCEPT ![j] = "verified"]
  /\ UNCHANGED <<job, task, posts, mishaps>>

\* failUploadSession, which a repeated finalize also reaches after the upload
\* was verified: the job fails but whoever claimed it still owns it.
UploadFails(j) ==
  /\ integrity[j] # "failed" /\ job[j].state # "gone"
  /\ integrity' = [integrity EXCEPT ![j] = "failed"]
  /\ job' = [job EXCEPT ![j].state = "failed"]
  /\ UNCHANGED <<task, posts, mishaps>>

\* deleteRecordingPermanently
Purge(j) ==
  /\ job[j].state # "gone"
  /\ job' = [job EXCEPT ![j] = [@ EXCEPT !.state = "gone", !.owner = NoWorker]]
  /\ UNCHANGED <<integrity, task, posts, mishaps>>

\* Everything but the upload's side of a job
Work ==
  \/ \E w \in Workers :
       \/ \E j \in Jobs : Claim(w, j) \/ ClaimLost(w, j)
       \/ Beat(w)
       \/ Transcribe(w)
       \/ Break(w)
       \/ TimeOut(w)
       \/ Crash(w)
  \/ \E p \in posts : ServeUnawaited(p) \/ ServeReport(p) \/ AnswerLost(p)
  \/ \E j \in Jobs : Lapse(j) \/ Purge(j)

Next == Work \/ \E j \in Jobs : UploadVerified(j) \/ UploadFails(j)

Safe == Init /\ [][Next]_vars

\* Workers poll, the engine comes to an end, requests that are not lost are
\* handled, and time passes for a claim nobody attends to.
Fairness ==
  /\ \A w \in Workers :
       /\ WF_vars(\E j \in Jobs : Claim(w, j))
       /\ WF_vars(Transcribe(w) \/ Break(w))
       /\ WF_vars(\E p \in posts : p.from = w /\ ServeReport(p))
       /\ WF_vars(\E p \in posts : p.from = w /\ ServeUnawaited(p))
  /\ \A j \in Jobs : WF_vars(Lapse(j) /\ ~Attended(j))

Spec == Safe /\ Fairness

-----------------------------------------------------------------------------
(* Properties *)

\* Five handlers write state and owner of a job; they agree on who may report.
\* A job in somebody's hands is running, and one that waits or is done is in
\* nobody's: so a late report finds no claim to act on.  Only a failed upload
\* takes the state away and leaves the owner.
ClaimsAgree ==
  \A j \in Jobs :
    /\ job[j].state = "running" => job[j].owner # NoWorker /\ job[j].attempts > 0
    /\ job[j].owner # NoWorker =>
         job[j].state = "running" \/ (job[j].state = "failed" /\ integrity[j] = "failed")
    /\ job[j].state = "completed" => job[j].draft # 0

\* As long as nothing goes wrong, no two workers are at the same job.
OneWorkerAtATime ==
  mishaps = 0 =>
    \A j \in Jobs : Cardinality({w \in Workers : task[w] # Idle /\ task[w].job = j}) <= 1

\* No report, however late and whatever attempt it comes from, undoes a
\* completion or replaces its transcript; only a failed upload or a purge does.
CompletedIsFinal ==
  [][\A j \in Jobs :
       job[j].state = "completed" =>
         /\ job'[j].draft = job[j].draft
         /\ \/ job'[j].state \in {"completed", "gone"}
            \/ integrity'[j] = "failed" /\ integrity[j] # "failed"]_vars

\* Every verified recording ends up transcribed or visibly failed, although
\* claims, answers and whole workers get lost on the way.
EveryJobSettles ==
  \A j \in Jobs :
    integrity[j] = "verified" ~>
      job[j].state \in {"completed", "failed", "gone"} \/ integrity[j] = "failed"

\* DESIGN.md, "transcription progress": "the percent stays absent until the
\* first segment arrives", so what a running job shows was measured in its
\* present attempt.
SamplesAreOfThisAttempt ==
  \A j \in Jobs : job[j].state = "running" => job[j].sample \in {0, job[j].attempts}
=============================================================================

-------------------------- MODULE Transcription_proofs --------------------------
(***************************************************************************)
(* Proofs about everything between a verified upload and its first draft:  *)
(* the internal queue for any jobs, workers, number of attempts and number *)
(* of mishaps, the mock and external engines, and the installation of the  *)
(* models by any number of processes that may die.                         *)
(***************************************************************************)
EXTENDS TranscriptQueue, Orchestration, Provisioning, FiniteSetTheorems, TLAPS

-----------------------------------------------------------------------------
(* The internal queue: typing *)

LEMMA Working ==
  ASSUME TypeOK, NEW w \in Workers, task[w].phase # "idle"
  PROVE  /\ task[w] \in [phase : {"working", "completing", "failing"}, job : Jobs, attempt : Nat]
         /\ task[w] # Idle
BY DEF TypeOK, Task, Idle

LEMMA Busy ==
  ASSUME TypeOK, NEW w \in Workers, task[w] # Idle
  PROVE  task[w] \in [phase : {"working", "completing", "failing"}, job : Jobs, attempt : Nat]
BY DEF TypeOK, Task

LEMMA MessageIsPost ==
  ASSUME TypeOK, NEW w \in Workers, task[w] # Idle,
         NEW k \in {"pulse", "sample", "complete", "fail", "give_up"}
  PROVE  Message(k, w) \in Post
BY Busy DEF Message, Post

\* A report is awaited by the worker that sent it.
LEMMA Awaited ==
  ASSUME TypeOK, NEW p \in posts, p \in Reports(p.from)
  PROVE  /\ p.from \in Workers
         /\ task[p.from].phase \in {"completing", "failing"}
         /\ task[p.from] # Idle
         /\ p.job = task[p.from].job
<1>1. p.from \in Workers
  BY DEF TypeOK, Post
<1>2. task[p.from].phase \in {"completing", "failing"}
  BY DEF Reports
<1>. QED
  BY <1>1, <1>2, Working DEF Reports, Message

LEMMA NextPhaseType ==
  ASSUME TypeOK, NEW w \in Workers, task[w] # Idle
  PROVE  NextPhase(w) \in Task /\ NextPosts(w) \subseteq Post
<1>1. NextPhase(w) \in Task
  BY Busy DEF NextPhase, Task
<1>2. NextPosts(w) \subseteq Post
  BY MessageIsPost DEF NextPosts
<1>. QED
  BY <1>1, <1>2

LEMMA ClaimedType ==
  ASSUME TypeOK, NEW j \in Jobs, NEW w \in Workers
  PROVE  /\ ClaimedBy(j, w) \in JobRow
         /\ ClaimedBy(j, w).state = "running"
         /\ ClaimedBy(j, w).owner = w
         /\ ClaimedBy(j, w).attempts = job[j].attempts + 1
         /\ ClaimedBy(j, w).draft = job[j].draft
<1>. DEFINE r == job[j]
<1>1. r \in JobRow
  BY DEF TypeOK
<1>2. r.attempts \in Nat /\ r.attempts + 1 \in Nat
  BY <1>1 DEF JobRow
<1>3. ClaimedBy(j, w) = [r EXCEPT !.state = "running", !.owner = w,
                                 !.attempts = r.attempts + 1,
                                 !.stale = FALSE, !.sample = 0]
  BY DEF ClaimedBy
<1>4. /\ ClaimedBy(j, w).state = "running"
      /\ ClaimedBy(j, w).owner = w
      /\ ClaimedBy(j, w).attempts = r.attempts + 1
      /\ ClaimedBy(j, w).stale = FALSE
      /\ ClaimedBy(j, w).sample = 0
      /\ ClaimedBy(j, w).draft = r.draft
  BY <1>1, <1>3 DEF JobRow
<1>5. ClaimedBy(j, w) \in JobRow
  <2>. DEFINE n == r.attempts + 1
  <2>1. n \in Nat
    BY <1>2
  <2>. HIDE DEF n
  <2>2. [r EXCEPT !.state = "running", !.owner = w, !.attempts = n,
                  !.stale = FALSE, !.sample = 0] \in JobRow
    <3>. HIDE DEF r
    <3>. QED  BY <1>1, <2>1 DEF JobRow
  <2>. QED
    BY <1>3, <2>2 DEF n
<1>. QED
  BY <1>4, <1>5

LEMMA HandledType ==
  ASSUME TypeOK, NEW p \in posts
  PROVE  p.job \in Jobs /\ Handled(p) \in JobRow
<1>1. p \in Post /\ job[p.job] \in JobRow
  BY DEF TypeOK, Post
<1>2. Revived(p) \in JobRow
  BY <1>1 DEF Revived, JobRow, Post
<1>3. Completed(p) \in JobRow
  BY <1>1 DEF Completed, JobRow, Post
<1>4. FailedRow(p) \in JobRow
  BY <1>1 DEF FailedRow, JobRow, Post
<1>. QED
  BY <1>1, <1>2, <1>3, <1>4 DEF Handled, Post

LEMMA TypeStep ==
  ASSUME TypeOK, [Next]_vars
  PROVE  TypeOK'
<1>. USE QueueAssumption
<1>1. ASSUME NEW w \in Workers, NEW j \in Jobs, Claim(w, j) \/ ClaimLost(w, j)
      PROVE  TypeOK'
  <2>1. [phase |-> "working", job |-> j, attempt |-> job[j].attempts + 1] \in Task
    BY DEF TypeOK, Task, JobRow
  <2>. QED
    BY <1>1, <2>1, ClaimedType DEF Claim, ClaimLost, Mishap, TypeOK
<1>2. ASSUME NEW w \in Workers, Beat(w) \/ Transcribe(w) \/ Break(w)
      PROVE  TypeOK'
  <2>1. task[w] # Idle
    BY <1>2, Working DEF Beat, Transcribe, Break
  <2>2. [task[w] EXCEPT !.phase = "completing"] \in Task
        /\ [task[w] EXCEPT !.phase = "failing"] \in Task
    BY <2>1, Busy DEF Task
  <2>. QED
    BY <1>2, <2>1, <2>2, MessageIsPost DEF Beat, Transcribe, Break, TypeOK
<1>3. ASSUME NEW w \in Workers, TimeOut(w) \/ Crash(w)
      PROVE  TypeOK'
  <2>1. task[w] # Idle
    BY <1>3, Working DEF TimeOut, Crash
  <2>2. Idle \in Task
    BY DEF Task
  <2>. QED
    BY <1>3, <2>1, <2>2, NextPhaseType DEF TimeOut, Crash, Mishap, TypeOK
<1>4. ASSUME NEW p \in posts, ServeUnawaited(p)
      PROVE  TypeOK'
  BY <1>4, HandledType DEF ServeUnawaited, Serve, TypeOK
<1>5. ASSUME NEW p \in posts, ServeReport(p) \/ AnswerLost(p)
      PROVE  TypeOK'
  <2>1. p.from \in Workers /\ task[p.from] # Idle
    BY <1>5, Awaited DEF ServeReport, AnswerLost
  <2>2. Idle \in Task
    BY DEF Task
  <2>. QED
    BY <1>5, <2>1, <2>2, NextPhaseType, HandledType DEF ServeReport, AnswerLost, Serve, Mishap, TypeOK
<1>6. ASSUME NEW j \in Jobs, Lapse(j) \/ Purge(j) \/ UploadVerified(j) \/ UploadFails(j)
      PROVE  TypeOK'
  <2>1. job[j] \in JobRow
    BY DEF TypeOK
  <2>2. /\ [job[j] EXCEPT !.stale = TRUE] \in JobRow
        /\ [job[j] EXCEPT !.state = "gone", !.owner = NoWorker] \in JobRow
        /\ [job[j] EXCEPT !.state = "failed"] \in JobRow
    BY <2>1 DEF JobRow
  <2>3. job' \in [Jobs -> JobRow]
    BY <1>6, <2>2 DEF Lapse, Purge, UploadVerified, UploadFails, TypeOK
  <2>. QED
    BY <1>6, <2>3 DEF Lapse, Purge, UploadVerified, UploadFails, Mishap, TypeOK
<1>7. CASE UNCHANGED vars
  BY <1>7 DEF vars, TypeOK
<1>. QED
  BY <1>1, <1>2, <1>3, <1>4, <1>5, <1>6, <1>7 DEF Next, Work

\* Every reachable state of the queue, its workers and the requests under way
\* is well formed.
THEOREM Typing == Safe => []TypeOK
<1>1. Init => TypeOK
  BY QueueAssumption DEF Init, TypeOK, JobRow, Task
<1>. QED
  BY <1>1, TypeStep, PTL DEF Safe

-----------------------------------------------------------------------------
(* Claims *)

\* Everything a step can do to a job's row
RowStep(j) ==
  \/ job'[j] = job[j]
  \/ /\ j \in Claimable
     /\ \E w \in Workers : job'[j] = ClaimedBy(j, w)
     /\ integrity' = integrity
  \/ /\ job[j].state = "running"
     /\ job'[j] = [job[j] EXCEPT !.stale = TRUE]
     /\ integrity' = integrity
  \/ /\ \E p \in posts : p.job = j /\ Owns(p) /\ job'[j] = Handled(p)
     /\ integrity' = integrity
  \/ /\ integrity[j] # "failed" /\ integrity'[j] = "failed" /\ job[j].state # "gone"
     /\ job'[j] = [job[j] EXCEPT !.state = "failed"]
  \/ /\ job'[j] = [job[j] EXCEPT !.state = "gone", !.owner = NoWorker]
     /\ integrity' = integrity

\* A lost upload stays lost.
KeepsLoss(j) == integrity[j] = "failed" => integrity'[j] = "failed"

LEMMA EveryRowStep ==
  ASSUME TypeOK, [Next]_vars, NEW j \in Jobs
  PROVE  RowStep(j) /\ KeepsLoss(j)
<1>1. ASSUME NEW w \in Workers, NEW k \in Jobs, Claim(w, k) \/ ClaimLost(w, k)
      PROVE  RowStep(j) /\ KeepsLoss(j)
  <2>1. k \in Claimable /\ job' = [job EXCEPT ![k] = ClaimedBy(k, w)] /\ integrity' = integrity
    BY <1>1 DEF Claim, ClaimLost
  <2>2. CASE j = k
    BY <2>1, <2>2 DEF TypeOK, RowStep, KeepsLoss
  <2>3. CASE j # k
    BY <2>1, <2>3 DEF TypeOK, RowStep, KeepsLoss
  <2>. QED
    BY <2>2, <2>3
<1>2. ASSUME NEW w \in Workers, Beat(w) \/ Transcribe(w) \/ Break(w) \/ TimeOut(w) \/ Crash(w)
      PROVE  RowStep(j) /\ KeepsLoss(j)
  BY <1>2 DEF Beat, Transcribe, Break, TimeOut, Crash, RowStep, KeepsLoss
<1>3. ASSUME NEW p \in posts, ServeUnawaited(p) \/ ServeReport(p) \/ AnswerLost(p)
      PROVE  RowStep(j) /\ KeepsLoss(j)
  <2>1. job' = [job EXCEPT ![p.job] = Handled(p)] /\ integrity' = integrity
    BY <1>3 DEF ServeUnawaited, ServeReport, AnswerLost, Serve
  <2>2. CASE p.job = j /\ Owns(p)
    BY <2>1, <2>2 DEF TypeOK, RowStep, KeepsLoss
  <2>3. CASE p.job = j /\ ~Owns(p)
    BY <2>1, <2>3 DEF TypeOK, RowStep, KeepsLoss, Handled
  <2>4. CASE p.job # j
    BY <2>1, <2>4 DEF TypeOK, RowStep, KeepsLoss
  <2>. QED
    BY <2>2, <2>3, <2>4
<1>4. ASSUME NEW k \in Jobs, Lapse(k)
      PROVE  RowStep(j) /\ KeepsLoss(j)
  BY <1>4 DEF Lapse, TypeOK, RowStep, KeepsLoss
<1>5. ASSUME NEW k \in Jobs, Purge(k)
      PROVE  RowStep(j) /\ KeepsLoss(j)
  BY <1>5 DEF Purge, TypeOK, RowStep, KeepsLoss
<1>6. ASSUME NEW k \in Jobs, UploadVerified(k) \/ UploadFails(k)
      PROVE  RowStep(j) /\ KeepsLoss(j)
  BY <1>6 DEF UploadVerified, UploadFails, TypeOK, RowStep, KeepsLoss
<1>7. CASE UNCHANGED vars
  BY <1>7 DEF vars, RowStep, KeepsLoss
<1>. QED
  BY <1>1, <1>2, <1>3, <1>4, <1>5, <1>6, <1>7 DEF Next, Work

\* What a heartbeat or report of the job's owner makes of the row
LEMMA HandledRow ==
  ASSUME TypeOK, NEW p \in posts, Owns(p)
  PROVE  /\ p.kind \in {"pulse", "sample"} =>
              /\ Handled(p).state = "running"
              /\ Handled(p).owner = p.from
              /\ Handled(p).attempts = job[p.job].attempts
              /\ Handled(p).draft = job[p.job].draft
         /\ p.kind = "complete" =>
              /\ Handled(p).state = "completed"
              /\ Handled(p).owner = NoWorker
              /\ Handled(p).attempts = job[p.job].attempts
              /\ Handled(p).draft =
                   IF job[p.job].draft = 0 THEN p.attempt ELSE job[p.job].draft
         /\ p.kind \in {"fail", "give_up"} =>
              /\ Handled(p).state \in {"queued", "failed"}
              /\ Handled(p).owner = NoWorker
              /\ Handled(p).attempts = job[p.job].attempts
              /\ Handled(p).draft = job[p.job].draft
         /\ p.kind \in {"pulse", "sample", "complete", "fail", "give_up"}
         /\ p.from \in Workers /\ p.from # NoWorker /\ p.job \in Jobs
<1>1. p \in Post /\ job[p.job] \in JobRow
  BY DEF TypeOK, Post
<1>2. job[p.job].owner = p.from /\ p.from \in Workers /\ p.from # NoWorker
  BY <1>1, QueueAssumption DEF Owns, Post
<1>3. ASSUME p.kind \in {"pulse", "sample"}
      PROVE  /\ Handled(p).state = "running"
             /\ Handled(p).owner = p.from
             /\ Handled(p).attempts = job[p.job].attempts
             /\ Handled(p).draft = job[p.job].draft
  <2>1. Handled(p) = Revived(p)
    BY <1>3 DEF Handled
  <2>. QED
    BY <1>1, <1>2, <2>1 DEF Revived, JobRow
<1>4. ASSUME p.kind = "complete"
      PROVE  /\ Handled(p).state = "completed"
             /\ Handled(p).owner = NoWorker
             /\ Handled(p).attempts = job[p.job].attempts
             /\ Handled(p).draft =
                  IF job[p.job].draft = 0 THEN p.attempt ELSE job[p.job].draft
  <2>1. Handled(p) = Completed(p)
    BY <1>4 DEF Handled
  <2>. QED
    BY <1>1, <2>1 DEF Completed, JobRow
<1>5. ASSUME p.kind \in {"fail", "give_up"}
      PROVE  /\ Handled(p).state \in {"queued", "failed"}
             /\ Handled(p).owner = NoWorker
             /\ Handled(p).attempts = job[p.job].attempts
             /\ Handled(p).draft = job[p.job].draft
  <2>1. Handled(p) = FailedRow(p)
    BY <1>5 DEF Handled
  <2>. QED
    BY <1>1, <2>1 DEF FailedRow, JobRow
<1>. QED
  BY <1>1, <1>2, <1>3, <1>4, <1>5 DEF Post

\* Whoever speaks of a job has claimed it at least once.
Attempted ==
  /\ \A j \in Jobs : job[j].owner # NoWorker => job[j].attempts > 0
  /\ \A w \in Workers : task[w] # Idle => task[w].attempt > 0
  /\ \A p \in posts : p.attempt > 0

LEMMA AttemptedStep ==
  ASSUME TypeOK, Attempted, [Next]_vars
  PROVE  Attempted'
<1>1. ASSUME NEW j \in Jobs, job'[j].owner # NoWorker
      PROVE  job'[j].attempts > 0
  <2>1. RowStep(j)
    BY EveryRowStep
  <2>2. job[j] \in JobRow
    BY DEF TypeOK
  <2>3. CASE \E w \in Workers : job'[j] = ClaimedBy(j, w)
    BY <2>2, <2>3, ClaimedType DEF JobRow
  <2>4. CASE \E p \in posts : p.job = j /\ Owns(p) /\ job'[j] = Handled(p)
    <3>1. PICK p \in posts : p.job = j /\ Owns(p) /\ job'[j] = Handled(p)
      BY <2>4
    <3>2. job[j].owner # NoWorker
      BY <3>1, HandledRow DEF Owns
    <3>3. job'[j].attempts = job[j].attempts
      BY <3>1, HandledRow
    <3>. QED
      BY <3>2, <3>3 DEF Attempted
  <2>5. CASE job'[j] = job[j] \/ job'[j] = [job[j] EXCEPT !.stale = TRUE]
             \/ job'[j] = [job[j] EXCEPT !.state = "failed"]
    BY <1>1, <2>2, <2>5 DEF Attempted, JobRow
  <2>6. CASE job'[j] = [job[j] EXCEPT !.state = "gone", !.owner = NoWorker]
    BY <1>1, <2>2, <2>6 DEF JobRow
  <2>. QED
    BY <2>1, <2>3, <2>4, <2>5, <2>6 DEF RowStep
<1>2. ASSUME NEW w \in Workers, NEW k \in {"pulse", "sample", "complete", "fail", "give_up"},
             task[w] # Idle
      PROVE  Message(k, w).attempt > 0
  BY <1>2 DEF Message, Attempted
<1>3. (\A w \in Workers : task'[w] # Idle => task'[w].attempt > 0)
      /\ (\A p \in posts' : p.attempt > 0)
  <2>1. ASSUME NEW w \in Workers, NEW j \in Jobs, Claim(w, j) \/ ClaimLost(w, j)
        PROVE  <1>3!1 /\ <1>3!2
    <3>1. job[j].attempts \in Nat
      BY DEF TypeOK, JobRow
    <3>. QED
      BY <2>1, <3>1 DEF Claim, ClaimLost, Attempted, TypeOK
  <2>2. ASSUME NEW w \in Workers, Beat(w) \/ Transcribe(w) \/ Break(w)
        PROVE  <1>3!1 /\ <1>3!2
    <3>1. task[w] # Idle
      BY <2>2, Working DEF Beat, Transcribe, Break
    <3>. QED
      BY <2>2, <3>1, <1>2, Busy DEF Beat, Transcribe, Break, Attempted, TypeOK
  <2>3. ASSUME NEW w \in Workers, task[w] # Idle
        PROVE  /\ NextPhase(w) # Idle => NextPhase(w).attempt > 0
               /\ \A p \in NextPosts(w) : p.attempt > 0
    BY <2>3, <1>2, Busy DEF NextPhase, NextPosts, Attempted
  <2>4. ASSUME NEW w \in Workers, TimeOut(w) \/ Crash(w)
        PROVE  <1>3!1 /\ <1>3!2
    <3>1. task[w] # Idle
      BY <2>4, Working DEF TimeOut, Crash
    <3>. QED
      BY <2>4, <3>1, <2>3 DEF TimeOut, Crash, Attempted, TypeOK
  <2>5. ASSUME NEW p \in posts, ServeUnawaited(p)
        PROVE  <1>3!1 /\ <1>3!2
    BY <2>5 DEF ServeUnawaited, Attempted
  <2>6. ASSUME NEW p \in posts, ServeReport(p) \/ AnswerLost(p)
        PROVE  <1>3!1 /\ <1>3!2
    <3>1. p.from \in Workers /\ task[p.from] # Idle
      BY <2>6, Awaited DEF ServeReport, AnswerLost
    <3>. QED
      BY <2>6, <3>1, <2>3 DEF ServeReport, AnswerLost, Attempted, TypeOK
  <2>7. ASSUME NEW j \in Jobs, Lapse(j) \/ Purge(j) \/ UploadVerified(j) \/ UploadFails(j)
        PROVE  <1>3!1 /\ <1>3!2
    BY <2>7 DEF Lapse, Purge, UploadVerified, UploadFails, Attempted
  <2>8. CASE UNCHANGED vars
    BY <2>8 DEF vars, Attempted
  <2>. QED
    BY <2>1, <2>2, <2>4, <2>5, <2>6, <2>7, <2>8 DEF Next, Work
<1>. QED
  BY <1>1, <1>3 DEF Attempted

LEMMA ClaimsStep ==
  ASSUME TypeOK, Attempted, ClaimsAgree, [Next]_vars
  PROVE  ClaimsAgree'
<1>. SUFFICES ASSUME NEW j \in Jobs
              PROVE  /\ job'[j].state = "running" =>
                          job'[j].owner # NoWorker /\ job'[j].attempts > 0
                     /\ job'[j].owner # NoWorker =>
                          \/ job'[j].state = "running"
                          \/ job'[j].state = "failed" /\ integrity'[j] = "failed"
                     /\ job'[j].state = "completed" => job'[j].draft # 0
  BY DEF ClaimsAgree
<1>1. RowStep(j) /\ KeepsLoss(j) /\ job[j] \in JobRow
  BY EveryRowStep DEF TypeOK
<1>2. CASE j \in Claimable /\ \E w \in Workers : job'[j] = ClaimedBy(j, w)
  BY <1>1, <1>2, ClaimedType, QueueAssumption DEF JobRow
<1>3. CASE \E p \in posts : p.job = j /\ Owns(p) /\ job'[j] = Handled(p)
  <2>1. PICK p \in posts : p.job = j /\ Owns(p) /\ job'[j] = Handled(p)
    BY <1>3
  <2>2. job[j].owner # NoWorker
    BY <2>1, HandledRow DEF Owns
  <2>3. p.attempt > 0 /\ job[j].attempts > 0
    BY <2>2 DEF Attempted
  <2>. QED
    BY <2>1, <2>3, HandledRow
<1>4. CASE job[j].state = "running" /\ job'[j] = [job[j] EXCEPT !.stale = TRUE]
  BY <1>1, <1>4 DEF ClaimsAgree, JobRow
<1>5. CASE integrity'[j] = "failed" /\ job'[j] = [job[j] EXCEPT !.state = "failed"]
  BY <1>1, <1>5 DEF ClaimsAgree, JobRow
<1>6. CASE job'[j] = [job[j] EXCEPT !.state = "gone", !.owner = NoWorker]
  BY <1>1, <1>6 DEF JobRow
<1>7. CASE job'[j] = job[j]
  BY <1>1, <1>7 DEF ClaimsAgree, KeepsLoss
<1>. QED
  BY <1>1, <1>2, <1>3, <1>4, <1>5, <1>6, <1>7 DEF RowStep

\* State and owner of a job agree, whatever requests arrive late.
THEOREM ClaimsCorrect == Safe => []ClaimsAgree
<1>1. Init => Attempted /\ ClaimsAgree
  BY DEF Init, Attempted, ClaimsAgree
<1>2. TypeOK /\ (Attempted /\ ClaimsAgree) /\ [Next]_vars => (Attempted /\ ClaimsAgree)'
  BY AttemptedStep, ClaimsStep
<1>. QED
  BY <1>1, <1>2, Typing, PTL DEF Safe

\* Neither a late report nor a new claim touches a completed job.
THEOREM CompletionHolds == Safe => CompletedIsFinal
<1>1. ASSUME TypeOK, ClaimsAgree, [Next]_vars, NEW j \in Jobs, job[j].state = "completed"
      PROVE  /\ job'[j].draft = job[j].draft
             /\ \/ job'[j].state \in {"completed", "gone"}
                \/ integrity'[j] = "failed" /\ integrity[j] # "failed"
  <2>1. RowStep(j) /\ job[j] \in JobRow
    BY <1>1, EveryRowStep DEF TypeOK
  <2>2. job[j].owner = NoWorker /\ j \notin Claimable
    BY <1>1 DEF ClaimsAgree, Claimable, Queued, Lapsed
  <2>3. \A p \in posts : p.job = j => ~Owns(p)
    BY <1>1, <2>2, HandledRow DEF Owns
  <2>. QED
    BY <1>1, <2>1, <2>2, <2>3 DEF RowStep, JobRow
<1>2. TypeOK /\ ClaimsAgree /\ [Next]_vars =>
        [\A j \in Jobs :
           job[j].state = "completed" =>
             /\ job'[j].draft = job[j].draft
             /\ \/ job'[j].state \in {"completed", "gone"}
                \/ integrity'[j] = "failed" /\ integrity[j] # "failed"]_vars
  BY <1>1
<1>. QED
  BY <1>2, Typing, ClaimsCorrect, PTL DEF Safe, CompletedIsFinal

-----------------------------------------------------------------------------
(* One worker at a time *)

IsReport(p) == p.kind \in {"complete", "fail", "give_up"}

\* A worker at work owns its job, unless the recording was deleted or its
\* upload failed meanwhile.
OwnsItsJob(w) ==
  task[w] # Idle =>
    \/ job[task[w].job].owner = w
    \/ job[task[w].job].state = "gone"
    \/ integrity[task[w].job] = "failed"

SameJob(v, w) == task[v] # Idle /\ task[w] # Idle /\ task[v].job = task[w].job

\* What holds as long as nothing has gone wrong: nobody is forgotten, nobody
\* is late, and every report has somebody waiting for its answer.
Calm ==
  /\ \A w \in Workers : OwnsItsJob(w)
  /\ \A j \in Jobs : job[j].owner # NoWorker => Attended(j)
  /\ \A j \in Jobs : ~job[j].stale
  /\ \A v, w \in Workers : SameJob(v, w) => v = w
  /\ \A p \in posts : IsReport(p) => p \in Reports(p.from)
  /\ \A p, q \in posts : IsReport(p) /\ IsReport(q) /\ p.from = q.from => p = q

LEMMA CalmClaim ==
  ASSUME TypeOK, ClaimsAgree, Calm, NEW w \in Workers, NEW j \in Jobs, Claim(w, j)
  PROVE  Calm'
<1>1. /\ task[w] = Idle /\ integrity[j] = "verified" /\ job[j].state = "queued"
      /\ posts' = posts /\ integrity' = integrity
  BY DEF Claim, Claimable, Queued, Lapsed, Calm
<1>2. job[j].owner = NoWorker
  BY <1>1 DEF ClaimsAgree
<1>3. \A v \in Workers : task[v] # Idle => task[v].job # j
  BY <1>1, <1>2, QueueAssumption DEF Calm, OwnsItsJob
<1>4. /\ job'[j] = ClaimedBy(j, w)
      /\ \A k \in Jobs : k # j => job'[k] = job[k]
      /\ task'[w] = [phase |-> "working", job |-> j, attempt |-> job[j].attempts + 1]
      /\ \A v \in Workers : v # w => task'[v] = task[v]
  BY DEF Claim, TypeOK
<1>5. /\ job'[j].owner = w /\ job'[j].attempts = job[j].attempts + 1 /\ job'[j].stale = FALSE
      /\ task'[w] # Idle /\ task'[w].job = j
      /\ task'[w].attempt = job[j].attempts + 1 /\ task'[w].phase = "working"
  <2>1. job[j] \in JobRow
    BY DEF TypeOK
  <2>. QED
    BY <1>4, <2>1 DEF ClaimedBy, JobRow, Idle
<1>6. \A v \in Workers : task[v] # Idle => task[v].job \in Jobs
  BY Busy
<1>7. \A v \in Workers : OwnsItsJob(v)'
  BY <1>1, <1>3, <1>4, <1>5, <1>6 DEF Calm, OwnsItsJob
<1>8. ASSUME NEW k \in Jobs, job'[k].owner # NoWorker
      PROVE  Attended(k)'
  <2>1. CASE k = j
    BY <1>5, <2>1, QueueAssumption DEF Attended
  <2>2. CASE k # j
    <3>1. Attended(k) /\ job'[k] = job[k]
      BY <1>4, <1>8, <2>2 DEF Calm
    <3>2. job[k].owner \in Workers /\ job[k].owner # w
      BY <1>1, <3>1 DEF TypeOK, JobRow, Attended
    <3>. QED
      BY <1>4, <3>1, <3>2 DEF Attended
  <2>. QED
    BY <2>1, <2>2
<1>9. \A k \in Jobs : ~job'[k].stale
  BY <1>4, <1>5 DEF Calm
<1>10. \A u, v \in Workers : SameJob(u, v)' => u = v
  BY <1>3, <1>4, <1>5 DEF Calm, SameJob
<1>11. ASSUME NEW p \in posts, IsReport(p)
       PROVE  p \in Reports(p.from)'
  <2>1. p \in Reports(p.from)
    BY <1>11 DEF Calm
  <2>2. p.from \in Workers /\ task[p.from] # Idle
    BY <2>1, Awaited
  <2>. QED
    BY <1>1, <1>4, <2>1, <2>2 DEF Reports, Message
<1>. QED
  BY <1>1, <1>7, <1>8, <1>9, <1>10, <1>11 DEF Calm

LEMMA CalmWork ==
  ASSUME TypeOK, Calm, NEW w \in Workers, Beat(w) \/ Transcribe(w) \/ Break(w)
  PROVE  Calm'
<1>1. /\ task[w] # Idle /\ job' = job /\ integrity' = integrity
      /\ \A v \in Workers : v # w => task'[v] = task[v]
      /\ task'[w] # Idle /\ task'[w].job = task[w].job /\ task'[w].attempt = task[w].attempt
  <2>1. task[w] # Idle
    BY Working DEF Beat, Transcribe, Break
  <2>2. task[w] \in [phase : {"working", "completing", "failing"}, job : Jobs, attempt : Nat]
    BY <2>1, Busy
  <2>. QED
    BY <2>1, <2>2 DEF Beat, Transcribe, Break, TypeOK, Idle
<1>2. \A v \in Workers : OwnsItsJob(v)'
  BY <1>1 DEF Calm, OwnsItsJob
<1>3. ASSUME NEW k \in Jobs, job'[k].owner # NoWorker
      PROVE  Attended(k)'
  <2>1. Attended(k) /\ job[k].owner \in Workers
    BY <1>1, <1>3 DEF Calm, TypeOK, JobRow
  <2>. QED
    BY <1>1, <2>1 DEF Attended
<1>4. \A u, v \in Workers : SameJob(u, v)' => u = v
  BY <1>1 DEF Calm, SameJob
<1>5. CASE Beat(w)
  <2>1. task' = task /\ \A p \in posts' : p \in posts \/ ~IsReport(p)
    BY <1>5 DEF Beat, Message, IsReport
  <2>2. \A p \in posts : IsReport(p) => p \in Reports(p.from)'
    BY <1>5, <2>1 DEF Calm, Reports, Message, Beat
  <2>. QED
    BY <1>1, <1>2, <1>3, <1>4, <2>1, <2>2 DEF Calm
<1>6. CASE Transcribe(w) \/ Break(w)
  <2>1. PICK k \in {"complete", "fail", "give_up"} :
          /\ posts' = posts \cup {Message(k, w)}
          /\ task[w].phase = "working"
          /\ task' = [task EXCEPT ![w].phase = IF k = "complete" THEN "completing" ELSE "failing"]
    BY <1>6 DEF Transcribe, Break
  <2>2. \A p \in posts : IsReport(p) => p.from # w
    BY <2>1 DEF Calm, Reports
  <2>3. Message(k, w).from = w /\ IsReport(Message(k, w)) /\ Message(k, w).kind = k
    BY DEF Message, IsReport
  <2>4. task'[w].phase = IF k = "complete" THEN "completing" ELSE "failing"
    BY <1>1, <2>1, Busy DEF TypeOK
  <2>5. Message(k, w)' = Message(k, w)
    BY <1>1 DEF Message
  <2>6. Message(k, w) \in Reports(w)'
    BY <2>1, <2>3, <2>4, <2>5 DEF Reports
  <2>7. ASSUME NEW p \in posts, IsReport(p)
        PROVE  p \in Reports(p.from)'
    <3>1. p \in Reports(p.from) /\ p.from # w
      BY <2>2, <2>7 DEF Calm
    <3>2. p.from \in Workers
      BY <3>1, Awaited
    <3>. QED
      BY <1>1, <2>1, <3>1, <3>2 DEF Reports, Message
  <2>8. \A p \in posts' : IsReport(p) => p \in Reports(p.from)'
    BY <2>1, <2>3, <2>6, <2>7
  <2>9. \A p, q \in posts' : IsReport(p) /\ IsReport(q) /\ p.from = q.from => p = q
    BY <2>1, <2>2, <2>3 DEF Calm
  <2>. QED
    BY <1>1, <1>2, <1>3, <1>4, <2>8, <2>9 DEF Calm, IsReport
<1>. QED
  BY <1>5, <1>6

LEMMA CalmUnawaited ==
  ASSUME TypeOK, ClaimsAgree, Calm, NEW p \in posts, ServeUnawaited(p)
  PROVE  Calm'
<1>1. ~IsReport(p) /\ task' = task /\ integrity' = integrity /\ posts' = posts \ {p}
  BY DEF ServeUnawaited, Calm
<1>2. p.job \in Jobs /\ \A k \in Jobs : k # p.job => job'[k] = job[k]
  BY HandledType DEF ServeUnawaited, Serve, TypeOK
<1>3. job'[p.job] = Handled(p)
  BY <1>2 DEF ServeUnawaited, Serve, TypeOK
<1>4. \A k \in Jobs : /\ job'[k].owner = job[k].owner /\ job'[k].attempts = job[k].attempts
                      /\ ~job'[k].stale
                      /\ job[k].state = "gone" => job'[k].state = "gone"
  <2>1. CASE ~Owns(p)
    BY <1>2, <1>3, <2>1 DEF Handled, Calm
  <2>2. CASE Owns(p)
    <3>1. /\ p.kind \in {"pulse", "sample"} /\ Handled(p).owner = p.from
          /\ Handled(p).attempts = job[p.job].attempts
          /\ p.from # NoWorker
      BY <1>1, <2>2, HandledRow DEF IsReport
    <3>2. ~Handled(p).stale
      <4>1. Handled(p) = Revived(p) /\ job[p.job] \in JobRow
        BY <1>2, <2>2, <3>1 DEF Handled, TypeOK
      <4>. QED
        BY <4>1 DEF Revived, JobRow
    <3>3. job[p.job].owner = p.from /\ job[p.job].state # "gone"
      BY <1>2, <2>2, <3>1 DEF Owns, ClaimsAgree
    <3>. QED
      BY <1>2, <1>3, <3>1, <3>2, <3>3 DEF Calm
  <2>. QED
    BY <2>1, <2>2
<1>5. \A w \in Workers : OwnsItsJob(w)'
  BY <1>1, <1>4, Busy DEF Calm, OwnsItsJob
<1>6. \A k \in Jobs : job'[k].owner # NoWorker => Attended(k)'
  BY <1>1, <1>4 DEF Calm, Attended
<1>7. \A q \in posts' : IsReport(q) => q \in Reports(q.from)'
  BY <1>1 DEF Calm, Reports, Message
<1>. QED
  BY <1>1, <1>4, <1>5, <1>6, <1>7 DEF Calm, SameJob

LEMMA CalmReport ==
  ASSUME TypeOK, ClaimsAgree, Calm, NEW p \in posts, ServeReport(p)
  PROVE  Calm'
<1>. DEFINE w == p.from
<1>1. /\ w \in Workers /\ task[w] # Idle /\ p.job = task[w].job /\ IsReport(p)
      /\ task[w].phase \in {"completing", "failing"} /\ p \in Reports(w)
      /\ integrity' = integrity
  BY Awaited DEF ServeReport, Reports, IsReport
<1>2. /\ p.job \in Jobs /\ job[p.job] \in JobRow
      /\ job'[p.job] = Handled(p)
      /\ \A k \in Jobs : k # p.job => job'[k] = job[k]
      /\ \A v \in Workers : v # w => task'[v] = task[v]
  BY <1>1, HandledType DEF ServeReport, Serve, TypeOK
<1>3. \A q \in posts : IsReport(q) /\ q.from = w => q = p
  BY <1>1 DEF Calm
<1>4. CASE Owns(p)
  <2>1. task'[w] = Idle /\ posts' = posts \ {p}
    BY <1>1, <1>4 DEF ServeReport, TypeOK
  <2>2. job'[p.job].owner = NoWorker /\ ~job'[p.job].stale
    <3>1. p.kind \in {"complete", "fail", "give_up"}
      BY <1>1 DEF IsReport
    <3>2. Handled(p) = Completed(p) \/ Handled(p) = FailedRow(p)
      BY <1>4, <3>1 DEF Handled
    <3>3. Completed(p).owner = NoWorker /\ Completed(p).stale = FALSE
      BY <1>2 DEF Completed, JobRow
    <3>4. FailedRow(p).owner = NoWorker /\ FailedRow(p).stale = FALSE
      BY <1>2 DEF FailedRow, JobRow
    <3>. QED
      BY <1>2, <3>2, <3>3, <3>4
  <2>3. \A v \in Workers : task[v] # Idle /\ task[v].job = p.job => v = w
    BY <1>1 DEF Calm, SameJob
  <2>4. \A v \in Workers : OwnsItsJob(v)'
    <3>1. ASSUME NEW v \in Workers, task'[v] # Idle
          PROVE  v # w /\ task'[v] = task[v] /\ job'[task[v].job] = job[task[v].job]
      BY <1>1, <1>2, <2>1, <2>3, <3>1, Busy
    <3>. QED
      BY <1>1, <3>1 DEF Calm, OwnsItsJob
  <2>5. ASSUME NEW k \in Jobs, job'[k].owner # NoWorker
        PROVE  Attended(k)'
    <3>1. k # p.job /\ job'[k] = job[k]
      BY <1>2, <2>2, <2>5
    <3>2. Attended(k) /\ job[k].owner \in Workers
      BY <2>5, <3>1 DEF Calm, TypeOK, JobRow
    <3>3. job[k].owner # w
      BY <1>1, <3>1, <3>2 DEF Attended
    <3>. QED
      BY <1>2, <3>1, <3>2, <3>3 DEF Attended
  <2>6. ASSUME NEW q \in posts', IsReport(q)
        PROVE  q \in Reports(q.from)'
    <3>1. q \in posts /\ q \in Reports(q.from) /\ q.from # w
      BY <1>3, <2>1, <2>6 DEF Calm
    <3>2. q.from \in Workers
      BY <3>1, Awaited
    <3>. QED
      BY <1>2, <2>1, <2>6, <3>1, <3>2 DEF Reports, Message
  <2>7. \A k \in Jobs : ~job'[k].stale
    BY <1>2, <2>2 DEF Calm
  <2>8. \A u, v \in Workers : SameJob(u, v)' => u = v
    BY <1>2, <2>1 DEF Calm, SameJob
  <2>. QED
    BY <2>1, <2>4, <2>5, <2>6, <2>7, <2>8 DEF Calm
<1>5. CASE ~Owns(p)
  <2>1. /\ job' = job
        /\ task'[w] = NextPhase(w) /\ posts' = (posts \ {p}) \cup NextPosts(w)
    BY <1>1, <1>5 DEF ServeReport, Serve, Handled, TypeOK
  <2>2. task'[w] # Idle =>
          /\ task'[w].job = task[w].job /\ task'[w].phase = "failing"
          /\ task'[w].attempt = task[w].attempt
          /\ posts' = (posts \ {p}) \cup {Message("fail", w)}
    BY <1>1, <2>1, Busy DEF NextPhase, NextPosts
  <2>3. task'[w] = Idle => posts' = posts \ {p}
    <3>1. task[w].phase = "completing" => NextPhase(w) # Idle
      BY <1>1, Busy DEF NextPhase, Idle
    <3>. QED
      BY <2>1, <3>1 DEF NextPosts
  <2>4. \A v \in Workers : OwnsItsJob(v)'
    BY <1>1, <1>2, <2>1, <2>2 DEF Calm, OwnsItsJob
  <2>5. ASSUME NEW k \in Jobs, job'[k].owner # NoWorker
        PROVE  Attended(k)'
    <3>1. Attended(k) /\ job[k].owner \in Workers
      BY <2>1, <2>5 DEF Calm, TypeOK, JobRow
    <3>2. job[k].owner # w
      BY <1>1, <1>5, <3>1 DEF Attended, Owns
    <3>. QED
      BY <1>2, <2>1, <3>1, <3>2 DEF Attended
  <2>6. \A u, v \in Workers : SameJob(u, v)' => u = v
    BY <1>1, <1>2, <2>2 DEF Calm, SameJob
  <2>7. ASSUME NEW q \in posts \ {p}, IsReport(q)
        PROVE  q \in Reports(q.from)' \/ q \notin posts'
    <3>1. q \in Reports(q.from) /\ q.from # w
      BY <1>3, <2>7 DEF Calm
    <3>2. q.from \in Workers
      BY <3>1, Awaited
    <3>. QED
      BY <1>2, <3>1, <3>2 DEF Reports, Message
  <2>8. task'[w] # Idle => Message("fail", w) \in Reports(w)'
    <3>1. SUFFICES ASSUME task'[w] # Idle
                   PROVE  Message("fail", w) \in Reports(w)'
      OBVIOUS
    <3>2. Message("fail", w)' = Message("fail", w) /\ Message("fail", w).kind = "fail"
      BY <2>2, <3>1 DEF Message
    <3>. QED
      BY <2>2, <3>1, <3>2 DEF Reports
  <2>9. Message("fail", w).from = w
    BY DEF Message
  <2>10. \A q \in posts' : IsReport(q) => q \in Reports(q.from)'
    BY <2>2, <2>3, <2>7, <2>8, <2>9
  <2>11. \A q, r \in posts' : IsReport(q) /\ IsReport(r) /\ q.from = r.from => q = r
    BY <1>3, <2>2, <2>3, <2>9 DEF Calm
  <2>. QED
    BY <2>1, <2>4, <2>5, <2>6, <2>10, <2>11 DEF Calm, IsReport
<1>. QED
  BY <1>4, <1>5

LEMMA CalmElsewhere ==
  ASSUME TypeOK, ClaimsAgree, Calm, NEW j \in Jobs,
         UploadVerified(j) \/ UploadFails(j) \/ Purge(j)
  PROVE  Calm'
<1>1. /\ task' = task /\ posts' = posts
      /\ \A k \in Jobs : k # j => job'[k] = job[k] /\ integrity'[k] = integrity[k]
  BY DEF UploadVerified, UploadFails, Purge, TypeOK
<1>2. /\ job'[j].owner # NoWorker => job'[j].owner = job[j].owner
      /\ job'[j].attempts = job[j].attempts /\ job'[j].stale = job[j].stale
      /\ \/ job'[j].owner = job[j].owner /\ job'[j].state = job[j].state
            /\ integrity[j] # "failed"
         \/ job'[j].state = "gone"
         \/ integrity'[j] = "failed"
  <2>1. job[j] \in JobRow
    BY DEF TypeOK
  <2>2. CASE UploadVerified(j)
    BY <2>2 DEF UploadVerified
  <2>3. CASE UploadFails(j)
    <3>1. job'[j] = [job[j] EXCEPT !.state = "failed"] /\ integrity'[j] = "failed"
      BY <2>3 DEF UploadFails, TypeOK
    <3>. QED
      BY <2>1, <3>1 DEF JobRow
  <2>4. CASE Purge(j)
    <3>1. job'[j] = [job[j] EXCEPT !.state = "gone", !.owner = NoWorker]
      BY <2>4 DEF Purge, TypeOK
    <3>. QED
      BY <2>1, <3>1 DEF JobRow
  <2>. QED
    BY <2>2, <2>3, <2>4
<1>3. \A w \in Workers : OwnsItsJob(w)'
  <2>1. SUFFICES ASSUME NEW w \in Workers, task[w] # Idle
                 PROVE  \/ job'[task[w].job].owner = w
                        \/ job'[task[w].job].state = "gone"
                        \/ integrity'[task[w].job] = "failed"
    BY <1>1 DEF OwnsItsJob
  <2>2. task[w].job \in Jobs
    BY <2>1, Busy
  <2>. QED
    BY <1>1, <1>2, <2>1, <2>2 DEF Calm, OwnsItsJob
<1>4. ASSUME NEW k \in Jobs, job'[k].owner # NoWorker
      PROVE  Attended(k)'
  <2>1. job'[k].owner = job[k].owner /\ job'[k].attempts = job[k].attempts
    BY <1>1, <1>2, <1>4
  <2>2. Attended(k)
    BY <1>4, <2>1 DEF Calm
  <2>. QED
    BY <1>1, <2>1, <2>2 DEF Attended
<1>5. \A k \in Jobs : ~job'[k].stale
  BY <1>1, <1>2 DEF Calm
<1>. QED
  BY <1>1, <1>3, <1>4, <1>5 DEF Calm, SameJob, Reports, Message

LEMMA CalmStep ==
  ASSUME TypeOK, ClaimsAgree, mishaps = 0 => Calm, [Next]_vars
  PROVE  (mishaps = 0 => Calm)'
<1>. SUFFICES ASSUME mishaps' = 0
              PROVE  Calm'
  OBVIOUS
<1>1. ~Mishap /\ mishaps \in Nat
  BY DEF Mishap, TypeOK
<1>2. CASE UNCHANGED vars
  BY <1>2 DEF vars, Calm, OwnsItsJob, SameJob, Attended, Reports, Message
<1>3. ASSUME Next, mishaps = mishaps'
      PROVE  Calm'
  <2>1. Calm
    BY <1>3
  <2>2. \A j \in Jobs : ~Lapse(j)
    BY <1>1, <2>1 DEF Lapse, Calm, ClaimsAgree
  <2>. QED
    BY <1>1, <1>3, <2>1, <2>2, CalmClaim, CalmWork, CalmUnawaited, CalmReport, CalmElsewhere
       DEF Next, Work, ClaimLost, TimeOut, Crash, AnswerLost
<1>4. Next => mishaps' = mishaps
  BY <1>1 DEF Next, Work, Claim, ClaimLost, Beat, Transcribe, Break, TimeOut, Crash,
              ServeUnawaited, ServeReport, AnswerLost, Lapse, Purge, UploadVerified, UploadFails
<1>. QED
  BY <1>2, <1>3, <1>4

LEMMA CalmMeansOne == TypeOK /\ (mishaps = 0 => Calm) => OneWorkerAtATime
<1>. SUFFICES ASSUME TypeOK, Calm, NEW j \in Jobs
              PROVE  Cardinality({w \in Workers : task[w] # Idle /\ task[w].job = j}) <= 1
  BY DEF OneWorkerAtATime
<1>. DEFINE S == {w \in Workers : task[w] # Idle /\ task[w].job = j}
<1>1. \A v, w \in S : v = w
  BY DEF Calm, SameJob
<1>2. Cardinality(S) <= 1
  <2>. HIDE DEF S
  <2>1. S = {} \/ \E w : S = {w}
    BY <1>1
  <2>2. Cardinality({}) = 0 /\ \A w : Cardinality({w}) = 1
    BY FS_EmptySet, FS_Singleton
  <2>3. S = {} => Cardinality(S) = 0
    BY <2>2
  <2>4. (\E w : S = {w}) => Cardinality(S) = 1
    BY <2>2
  <2>. QED
    BY <2>1, <2>3, <2>4
<1>. QED
  BY <1>2

\* No two workers are at the same job as long as no worker dies and no answer
\* or heartbeat is lost or late.
THEOREM OneWorkerCorrect == Safe => []OneWorkerAtATime
<1>1. Init => Calm
  BY QueueAssumption DEF Init, Calm, OwnsItsJob, SameJob
<1>2. TypeOK /\ ClaimsAgree /\ (mishaps = 0 => Calm) /\ [Next]_vars => (mishaps = 0 => Calm)'
  BY CalmStep
<1>. QED
  BY <1>1, <1>2, Typing, ClaimsCorrect, CalmMeansOne, PTL DEF Safe

-----------------------------------------------------------------------------
(* The mock engine, the external engine and the page that polls *)

Engines == {"mock", "webhook"}
IntegrityStates == {"verifying", "verified", "verification_failed"}
JobStates == {"queued", "running", "partial_result", "completed", "failed"}

SessionRows == [adapter : Engines, error : {"none", "engine", "dispatch", "upload"},
                state : IntegrityStates]
TranscriptRows == [adapter : Engines, state : JobStates, output : BOOLEAN]
Recordings == [integrity : IntegrityStates, job : JobStates, draft : {0, 1}]
Payloads == [session : IntegrityStates \cup {"none"}, job : JobStates \cup {"none"},
             segments : BOOLEAN]

OrchestrationTypes ==
  /\ config \in Engines
  /\ session \in SessionRows \cup {Absent} /\ transcript \in TranscriptRows \cup {Absent}
  /\ recording \in Recordings /\ wire \subseteq Payloads
  /\ page \in [shown : Recordings, polls : SUBSET Recordings, refresh : BOOLEAN]

\* The rows and the recording's copies of their states.
RowsAgree ==
  /\ session = Absent <=> transcript = Absent
  /\ session # Absent => /\ session.adapter = transcript.adapter
                         /\ recording.integrity = session.state
                         /\ recording.job = transcript.state

External == session # Absent /\ session.adapter = "webhook"

\* Only a job of the external engine is dispatched, and by an instance that is
\* configured for it.
DispatchSafe ==
  /\ dispatch = "due" => session # Absent /\ session.adapter = config
  /\ dispatch \in {"sent", "failed"} \/ engine # "idle" => External
  /\ dispatch = "sent" => config = "webhook"
  /\ engine = "idle" => wire = {}
  /\ UndispatchedIsShown

\* What a page may show of a job of the mock engine.
Fine(st) == \/ st.job \in {"queued", "running", "partial_result"}
            \/ st.job = "completed" /\ st.draft = 1

\* What failUploadSession leaves, for good where no callback comes.
FailedUpload(r) == r.integrity = "verification_failed" /\ r.job = "failed"
\* A status on its way, or shown, while the recording is r.
Shows(st, r) == Fine(st) \/ (st = r /\ FailedUpload(r))

MockShown ==
  ~External => /\ Shows(recording, recording) /\ Shows(page.shown, recording)
               /\ \A st \in page.polls : Shows(st, recording)

OrchestrationInv == OrchestrationTypes /\ RowsAgree /\ DispatchSafe /\ MockShown

\* The property OneDraftPerJob, as a predicate of one step.
OneDraft ==
  /\ recording.draft = 1 =>
       recording'.draft = 1 /\ (transcript # Absent => transcript'.output = transcript.output)
  /\ recording.draft = 0 /\ recording'.draft = 1 => transcript'.state = "completed" /\ transcript'.output
  /\ session' # Absent => recording'.integrity = session'.state /\ recording'.job = transcript'.state

LEMMA RowsAre ==
  ASSUME OrchestrationTypes, RowsAgree
  PROVE  /\ SessionOf(recording) \in SessionRows /\ JobOf(recording) \in TranscriptRows
         /\ SessionOf(recording).adapter = JobOf(recording).adapter
         /\ SessionOf(recording).state = recording.integrity
         /\ JobOf(recording).state = recording.job
         /\ session # Absent => SessionOf(recording) = session
         /\ transcript # Absent => JobOf(recording) = transcript
         /\ SessionOf(recording).adapter = "webhook" <=> External
<1>1. recording \in Recordings
  BY DEF OrchestrationTypes
<1>2. CASE session = Absent
  <2>1. transcript = Absent
    BY <1>2 DEF RowsAgree
  <2>2. SessionOf(recording) = [adapter |-> "mock", state |-> recording.integrity, error |-> "none"]
    BY <1>2 DEF SessionOf
  <2>3. JobOf(recording) = [adapter |-> "mock", state |-> recording.job,
                            output |-> recording.draft = 1]
    BY <2>1 DEF JobOf
  <2>4. (recording.draft = 1) \in BOOLEAN
    OBVIOUS
  <2>. QED
    BY <1>1, <1>2, <2>1, <2>2, <2>3, <2>4
       DEF Recordings, SessionRows, TranscriptRows, Engines, External
<1>3. CASE session # Absent
  <2>1. transcript # Absent /\ session \in SessionRows /\ transcript \in TranscriptRows
    BY <1>3 DEF RowsAgree, OrchestrationTypes
  <2>. QED
    BY <1>3, <2>1 DEF RowsAgree, SessionOf, JobOf, External
<1>. QED
  BY <1>2, <1>3

LEMMA RowsHaveStates ==
  /\ \A r \in SessionRows : r # Absent
  /\ \A r \in TranscriptRows : r # Absent
BY DEF SessionRows, TranscriptRows, Absent, IntegrityStates, JobStates

\* What every step does with the rows and the recording.
RowsMove ==
  /\ session' \in SessionRows \cup {Absent} /\ transcript' \in TranscriptRows \cup {Absent}
  /\ recording' \in Recordings /\ RowsAgree'
  /\ session # Absent => session' # Absent /\ session'.adapter = session.adapter
  /\ External' <=> External
  /\ OneDraft

LEMMA StepsAre ==
  ASSUME NEW s \in SessionRows, NEW j \in TranscriptRows, NEW st \in IntegrityStates
  PROVE  /\ VerificationStep(s) \in IntegrityStates
         /\ s.state # "verifying" => VerificationStep(s) = s.state
         /\ TranscriptStep(st, j) \in JobStates
         /\ TranscriptStep(st, j) \in {j.state, "running", "partial_result", "completed"}
BY DEF VerificationStep, TranscriptStep, SessionRows, TranscriptRows, IntegrityStates, JobStates

LEMMA SettleMoves ==
  ASSUME OrchestrationInv, Settle
  PROVE  /\ RowsMove
         /\ External => /\ session'.error = session.error
                        /\ recording'.integrity = recording.integrity
                        /\ recording'.job = recording.job
         /\ ~External => /\ Shows(recording', recording')
                         /\ FailedUpload(recording) => recording' = recording
<1>. DEFINE s == SessionOf(recording)
            j == JobOf(recording)
            mock == j.adapter = "mock"
            sNext == IF mock THEN VerificationStep(s) ELSE s.state
            jNext == IF mock THEN TranscriptStep(sNext, j) ELSE j.state
            due == DraftDue(jNext = "completed" /\ j.state # "completed")
            stepped == mock /\ s.state = "verifying"
            error == IF ~stepped THEN s.error
                     ELSE IF sNext = "verification_failed" THEN "engine" ELSE "none"
            drafts == recording.draft + Drafts(due)
            itsState == IF stepped THEN sNext ELSE recording.integrity
            itsJob == IF jNext # j.state THEN jNext ELSE recording.job
<1>1. OrchestrationTypes /\ RowsAgree /\ recording \in Recordings
  BY DEF OrchestrationInv, OrchestrationTypes
<1>2. /\ s \in SessionRows /\ j \in TranscriptRows /\ s.adapter = j.adapter
      /\ s.state = recording.integrity /\ j.state = recording.job
      /\ session # Absent => s = session
      /\ transcript # Absent => j = transcript
      /\ s.adapter = "webhook" <=> External
  BY <1>1, RowsAre
<1>3. CASE config # "mock"
  <2>1. UNCHANGED <<session, transcript, recording>>
    BY <1>3 DEF Settle
  <2>2. ~External => Shows(recording, recording)
    BY DEF OrchestrationInv, MockShown
  <2>3. recording.draft = 0 => recording'.draft # 1
    BY <2>1
  <2>. QED
    BY <1>1, <2>1, <2>2, <2>3 DEF RowsMove, OrchestrationTypes, RowsAgree, External, OneDraft
<1>4. CASE config = "mock"
  <2>1. /\ session' = [s EXCEPT !.state = sNext, !.error = error]
        /\ transcript' = [j EXCEPT !.state = jNext, !.output = (j.output \/ due)]
        /\ recording' = [integrity |-> itsState, job |-> itsJob, draft |-> drafts]
    BY <1>4, Zenon DEF Settle, Synchronized
  <2>2. sNext \in IntegrityStates /\ (s.state # "verifying" => sNext = s.state)
    BY <1>2, StepsAre DEF SessionRows
  <2>3. jNext \in JobStates /\ (mock => jNext \in {j.state, "running", "partial_result", "completed"})
    BY <1>2, <2>2, StepsAre DEF TranscriptRows
  <2>4. /\ error \in {"none", "engine", "dispatch", "upload"} /\ (~stepped => error = s.error)
        /\ itsState = sNext /\ itsJob = jNext
    BY <1>2, <2>2 DEF SessionRows
  <2>5. due \in BOOLEAN /\ (due <=> jNext = "completed" /\ j.state # "completed" /\ recording.draft = 0)
    BY DEF DraftDue
  <2>6. drafts = (IF due THEN 1 ELSE recording.draft) /\ drafts \in {0, 1}
    BY <1>1, <2>5 DEF Drafts, Recordings
  <2>7. mock <=> ~External
    BY <1>2 DEF SessionRows, Engines
  <2>. HIDE DEF s, j, sNext, jNext, due, stepped, error, drafts, itsState, itsJob, mock
  <2>8. /\ session' \in SessionRows /\ session'.state = sNext /\ session'.error = error
        /\ session'.adapter = s.adapter
    BY <1>2, <2>1, <2>2, <2>4 DEF SessionRows
  <2>9. /\ transcript' \in TranscriptRows /\ transcript'.state = jNext
        /\ transcript'.adapter = j.adapter /\ transcript'.output = (j.output \/ due)
    BY <1>2, <2>1, <2>3, <2>5 DEF TranscriptRows
  <2>10. /\ recording' \in Recordings /\ recording'.integrity = sNext /\ recording'.job = jNext
         /\ recording'.draft = drafts
    BY <2>1, <2>2, <2>3, <2>4, <2>6 DEF Recordings
  <2>11. session' # Absent /\ transcript' # Absent
    BY <2>8, <2>9, RowsHaveStates
  <2>12. RowsAgree' /\ (External' <=> External)
    BY <1>2, <2>8, <2>9, <2>10, <2>11 DEF RowsAgree, External
  <2>13. OneDraft
    <3>1. ASSUME recording.draft = 1
          PROVE  recording'.draft = 1 /\ (transcript # Absent => transcript'.output = transcript.output)
      <4>1. ~due /\ drafts = 1
        BY <2>5, <2>6, <3>1
      <4>2. transcript # Absent => transcript.output \in BOOLEAN
        BY <1>2 DEF TranscriptRows
      <4>3. transcript # Absent => transcript'.output = (transcript.output \/ due)
        BY <1>2, <2>9
      <4>4. transcript # Absent => transcript'.output = transcript.output
        BY <4>1, <4>2, <4>3
      <4>. QED
        BY <2>10, <4>1, <4>4
    <3>2. ASSUME recording.draft = 0, recording'.draft = 1
          PROVE  transcript'.state = "completed" /\ transcript'.output
      <4>1. due
        BY <2>6, <2>10, <3>2
      <4>. QED
        BY <2>5, <2>9, <4>1
    <3>. QED
      BY <2>8, <2>9, <2>10, <3>1, <3>2 DEF OneDraft
  <2>14. External => /\ session'.error = session.error
                     /\ recording'.integrity = recording.integrity /\ recording'.job = recording.job
    <3>1. External => ~stepped /\ s = session /\ sNext = s.state /\ jNext = j.state
      BY <1>2, <2>7 DEF stepped, External, sNext, jNext
    <3>. QED
      BY <1>2, <2>4, <2>8, <2>10, <3>1
  <2>15. ASSUME ~External
         PROVE  /\ Shows(recording', recording')
                /\ FailedUpload(recording) => recording' = recording
    <3>1. Shows(recording, recording) /\ mock
      BY <2>7, <2>15 DEF OrchestrationInv, MockShown
    <3>2. CASE FailedUpload(recording)
      <4>1. s.state = "verification_failed" /\ j.state = "failed"
        BY <1>2, <3>2 DEF FailedUpload
      <4>2. sNext = "verification_failed"
        BY <2>2, <4>1
      <4>3. jNext = "failed"
        BY <4>1, <4>2, <3>1 DEF jNext, TranscriptStep
      <4>4. ~due
        BY <2>5, <4>3
      <4>5. drafts = recording.draft
        BY <2>6, <4>4
      <4>6. recording' = recording
        <5>1. /\ recording'.integrity = recording.integrity /\ recording'.job = recording.job
              /\ recording'.draft = recording.draft
          BY <1>2, <2>10, <4>1, <4>2, <4>3, <4>5
        <5>2. recording' \in Recordings /\ recording \in Recordings
          BY <1>1, <2>10
        <5>. QED
          BY <5>1, <5>2 DEF Recordings
      <4>. QED
        BY <3>2, <4>6 DEF Shows, FailedUpload
    <3>3. CASE ~FailedUpload(recording)
      <4>1. Fine(recording)
        BY <3>1, <3>3 DEF Shows
      <4>2. jNext = "completed" => drafts = 1
        BY <1>2, <2>5, <2>6, <4>1, <1>1 DEF Fine, Recordings
      <4>3. jNext \in {"queued", "running", "partial_result", "completed"}
        BY <1>2, <2>3, <3>1, <4>1 DEF Fine
      <4>4. Fine(recording')
        BY <2>10, <4>2, <4>3 DEF Fine
      <4>. QED
        BY <3>3, <4>4 DEF Shows, FailedUpload, Fine
    <3>. QED
      BY <3>2, <3>3
  <2>16. session # Absent => session'.adapter = session.adapter
    BY <1>2, <2>8
  <2>. QED
    BY <2>8, <2>9, <2>10, <2>11, <2>12, <2>13, <2>14, <2>15, <2>16 DEF RowsMove
<1>. QED
  BY <1>3, <1>4

LEMMA CallbackMoves ==
  ASSUME OrchestrationInv, NEW p \in wire, Callback(p)
  PROVE  RowsMove /\ External /\ UNCHANGED <<config, dispatch, engine, wire, page>>
<1>. DEFINE s == SessionOf(recording)
            j == JobOf(recording)
            s2 == IF p.session = "none" THEN s ELSE [s EXCEPT !.state = p.session, !.error = "none"]
            j2 == IF p.job = "none" THEN j ELSE [j EXCEPT !.state = p.job]
            due == p.segments /\ DraftDue(j2.state = "completed")
            drafts == recording.draft + Drafts(due)
            itsState == IF p.session = "none" THEN recording.integrity ELSE p.session
            itsJob == IF p.job = "none" THEN recording.job ELSE p.job
<1>1. OrchestrationTypes /\ RowsAgree /\ recording \in Recordings /\ p \in Payloads
  BY DEF OrchestrationInv, OrchestrationTypes
<1>2. /\ s \in SessionRows /\ j \in TranscriptRows /\ s.adapter = j.adapter
      /\ s.state = recording.integrity /\ j.state = recording.job
      /\ session # Absent => s = session
      /\ transcript # Absent => j = transcript
      /\ s.adapter = "webhook" <=> External
  BY <1>1, RowsAre
<1>3. External
  BY DEF OrchestrationInv, DispatchSafe
<1>4. session # Absent /\ transcript # Absent
  BY <1>1, <1>3 DEF External, RowsAgree
<1>5. /\ session' = s2
      /\ transcript' = [j2 EXCEPT !.output = (j2.output \/ due)]
      /\ recording' = [integrity |-> itsState, job |-> itsJob, draft |-> drafts]
      /\ UNCHANGED <<config, dispatch, engine, wire, page>>
  BY Zenon DEF Callback
<1>6. /\ s2 \in SessionRows /\ s2.state = itsState /\ s2.adapter = s.adapter
      /\ itsState \in IntegrityStates
  BY <1>1, <1>2 DEF SessionRows, Payloads
<1>7. /\ j2 \in TranscriptRows /\ j2.state = itsJob /\ j2.adapter = j.adapter /\ j2.output = j.output
      /\ itsJob \in JobStates
  BY <1>1, <1>2 DEF TranscriptRows, Payloads
<1>8. due \in BOOLEAN /\ (due => j2.state = "completed" /\ recording.draft = 0)
  BY <1>1 DEF DraftDue, Payloads
<1>9. drafts = (IF due THEN 1 ELSE recording.draft) /\ drafts \in {0, 1}
  BY <1>1, <1>8 DEF Drafts, Recordings
<1>. HIDE DEF s, j, s2, j2, due, drafts, itsState, itsJob
<1>10. /\ transcript' \in TranscriptRows /\ transcript'.state = itsJob
       /\ transcript'.adapter = j.adapter /\ transcript'.output = (j.output \/ due)
  BY <1>5, <1>7, <1>8 DEF TranscriptRows
<1>11. /\ recording' \in Recordings /\ recording'.integrity = itsState /\ recording'.job = itsJob
       /\ recording'.draft = drafts
  BY <1>5, <1>6, <1>7, <1>9 DEF Recordings
<1>12. session' # Absent /\ transcript' # Absent
  BY <1>5, <1>6, <1>10, RowsHaveStates
<1>13. RowsAgree' /\ (External' <=> External)
  BY <1>2, <1>5, <1>6, <1>10, <1>11, <1>12 DEF RowsAgree, External
<1>14. OneDraft
  <2>1. ASSUME recording.draft = 1
        PROVE  recording'.draft = 1 /\ transcript'.output = transcript.output
    <3>1. ~due /\ drafts = 1
      BY <1>8, <1>9, <2>1
    <3>2. transcript.output \in BOOLEAN /\ transcript'.output = (transcript.output \/ due)
      BY <1>2, <1>4, <1>10 DEF TranscriptRows
    <3>3. transcript'.output = transcript.output
      BY <3>1, <3>2
    <3>. QED
      BY <1>11, <3>1, <3>3
  <2>2. ASSUME recording.draft = 0, recording'.draft = 1
        PROVE  transcript'.state = "completed" /\ transcript'.output
    <3>1. due
      BY <1>9, <1>11, <2>2
    <3>. QED
      BY <1>7, <1>8, <1>10, <3>1
  <2>. QED
    BY <1>5, <1>6, <1>10, <1>11, <2>1, <2>2 DEF OneDraft
<1>15. session'.adapter = session.adapter
  BY <1>2, <1>4, <1>5, <1>6
<1>. QED
  BY <1>3, <1>5, <1>6, <1>10, <1>11, <1>12, <1>13, <1>14, <1>15 DEF RowsMove

LEMMA NotedMoves ==
  ASSUME OrchestrationInv, NotedFailure("dispatch"), UNCHANGED recording, External
  PROVE  RowsMove /\ session'.error = "dispatch"
<1>. DEFINE s == SessionOf(recording)
            j == JobOf(recording)
<1>1. OrchestrationTypes /\ RowsAgree /\ recording \in Recordings
  BY DEF OrchestrationInv, OrchestrationTypes
<1>2. /\ s \in SessionRows /\ s = session /\ j \in TranscriptRows /\ j = transcript
      /\ s.state = recording.integrity /\ j.state = recording.job
      /\ session # Absent /\ transcript # Absent
  BY <1>1, RowsAre DEF External, RowsAgree
<1>3. session' = [s EXCEPT !.error = "dispatch"] /\ transcript' = j
  BY DEF NotedFailure
<1>. HIDE DEF s, j
<1>4. /\ session' \in SessionRows /\ session'.error = "dispatch" /\ session'.state = s.state
      /\ session'.adapter = s.adapter
  BY <1>2, <1>3 DEF SessionRows
<1>5. session' # Absent
  BY <1>4, RowsHaveStates
<1>6. RowsAgree' /\ (External' <=> External)
  BY <1>1, <1>2, <1>3, <1>4, <1>5 DEF RowsAgree, External
<1>7. OneDraft
  BY <1>1, <1>2, <1>3, <1>4 DEF OneDraft, Recordings
<1>. QED
  BY <1>1, <1>2, <1>3, <1>4, <1>5, <1>6, <1>7 DEF RowsMove

LEMMA NothingMoves ==
  ASSUME OrchestrationInv, UNCHANGED <<session, transcript, recording>>
  PROVE  RowsMove
BY DEF OrchestrationInv, OrchestrationTypes, RowsAgree, RowsMove, OneDraft, External, Recordings

\* With what the rows do settled, the rest of a step: who was dispatched to,
\* and what the page shows.
LEMMA RestKeeps ==
  ASSUME OrchestrationInv, RowsMove, config' \in Engines, wire' \subseteq Payloads,
         page' \in [shown : Recordings, polls : SUBSET Recordings, refresh : BOOLEAN],
         DispatchSafe',
         ~External => /\ Shows(recording', recording') /\ Shows(page'.shown, recording')
                      /\ \A st \in page'.polls : Shows(st, recording')
  PROVE  OrchestrationInv' /\ OneDraft
BY DEF OrchestrationInv, RowsMove, OrchestrationTypes, MockShown

LEMMA MockFine ==
  ASSUME OrchestrationInv, ~External
  PROVE  /\ Shows(recording, recording) /\ Shows(page.shown, recording)
         /\ \A st \in page.polls : Shows(st, recording)
BY DEF OrchestrationInv, MockShown

LEMMA PageIs ==
  ASSUME OrchestrationInv
  PROVE  /\ page \in [shown : Recordings, polls : SUBSET Recordings, refresh : BOOLEAN]
         /\ page.shown \in Recordings /\ page.polls \subseteq Recordings /\ page.refresh \in BOOLEAN
         /\ recording \in Recordings /\ wire \subseteq Payloads /\ config \in Engines
BY DEF OrchestrationInv, OrchestrationTypes

\* Steps of the dispatch and of the engine: the mock engine's jobs see none.
LEMMA DispatchKeeps ==
  ASSUME OrchestrationInv,
         \/ \E b \in BOOLEAN : DispatchSkipped(b)
         \/ DispatchSent \/ DispatchAnswered \/ DispatchFails \/ EngineAccepts
  PROVE  OrchestrationInv' /\ OneDraft
<1>1. /\ UNCHANGED <<config, wire, page, recording>>
      /\ config' \in Engines /\ wire' \subseteq Payloads
      /\ page' \in [shown : Recordings, polls : SUBSET Recordings, refresh : BOOLEAN]
  BY PageIs DEF DispatchSkipped, DispatchSent, DispatchAnswered, DispatchFails, EngineAccepts
<1>2. ~External => /\ Shows(recording', recording') /\ Shows(page'.shown, recording')
                   /\ \A st \in page'.polls : Shows(st, recording')
  BY <1>1, MockFine
<1>3. DispatchSafe /\ RowsAgree /\ OrchestrationTypes
  BY DEF OrchestrationInv
<1>4. CASE \E b \in BOOLEAN : DispatchSkipped(b)
  <2>1. dispatch = "due" /\ session # Absent /\ session.adapter = config /\ UNCHANGED engine
    BY <1>3, <1>4 DEF DispatchSkipped, DispatchSafe
  <2>2. CASE config = "webhook"
    <3>1. External /\ dispatch' = "failed" /\ NotedFailure("dispatch")
      BY <1>4, <2>1, <2>2 DEF DispatchSkipped, External
    <3>2. RowsMove /\ session'.error = "dispatch"
      BY <1>1, <3>1, NotedMoves
    <3>3. DispatchSafe'
      BY <1>1, <1>3, <2>1, <3>1, <3>2 DEF DispatchSafe, UndispatchedIsShown, RowsMove
    <3>. QED
      BY <1>1, <1>2, <3>2, <3>3, RestKeeps
  <2>3. CASE config # "webhook"
    <3>1. dispatch' = "none" /\ UNCHANGED <<session, transcript>>
      BY <1>4, <2>3 DEF DispatchSkipped
    <3>2. DispatchSafe'
      BY <1>1, <1>3, <2>1, <3>1 DEF DispatchSafe, UndispatchedIsShown, External
    <3>. QED
      BY <1>1, <1>2, <3>1, <3>2, NothingMoves, RestKeeps
  <2>. QED
    BY <2>2, <2>3
<1>5. CASE DispatchSent
  <2>1. /\ dispatch = "due" /\ config = "webhook" /\ dispatch' = "sent"
        /\ UNCHANGED <<engine, session, transcript>>
    BY <1>5 DEF DispatchSent
  <2>2. DispatchSafe'
    BY <1>1, <1>3, <2>1 DEF DispatchSafe, UndispatchedIsShown, External
  <2>. QED
    BY <1>1, <1>2, <2>1, <2>2, NothingMoves, RestKeeps
<1>6. CASE DispatchAnswered
  <2>1. dispatch = "sent" /\ dispatch' = "accepted" /\ UNCHANGED <<engine, session, transcript>>
    BY <1>6 DEF DispatchAnswered
  <2>2. DispatchSafe'
    BY <1>1, <1>3, <2>1 DEF DispatchSafe, UndispatchedIsShown, External
  <2>. QED
    BY <1>1, <1>2, <2>1, <2>2, NothingMoves, RestKeeps
<1>7. CASE DispatchFails
  <2>1. dispatch = "sent" /\ dispatch' = "failed" /\ UNCHANGED engine /\ NotedFailure("dispatch")
    BY <1>7 DEF DispatchFails
  <2>2. External
    BY <1>3, <2>1 DEF DispatchSafe
  <2>3. RowsMove /\ session'.error = "dispatch"
    BY <1>1, <2>1, <2>2, NotedMoves
  <2>4. DispatchSafe'
    BY <1>1, <1>3, <2>1, <2>2, <2>3 DEF DispatchSafe, UndispatchedIsShown, RowsMove
  <2>. QED
    BY <1>1, <1>2, <2>3, <2>4, RestKeeps
<1>8. CASE EngineAccepts
  <2>1. /\ dispatch = "sent" /\ engine' = "accepted"
        /\ UNCHANGED <<dispatch, session, transcript>>
    BY <1>8 DEF EngineAccepts
  <2>2. DispatchSafe'
    BY <1>1, <1>3, <2>1 DEF DispatchSafe, UndispatchedIsShown, External
  <2>. QED
    BY <1>1, <1>2, <2>1, <2>2, NothingMoves, RestKeeps
<1>. QED
  BY <1>4, <1>5, <1>6, <1>7, <1>8

LEMMA ReportKeeps ==
  ASSUME OrchestrationInv, EngineReports
  PROVE  OrchestrationInv' /\ OneDraft
<1>1. /\ engine \in {"accepted", "verified", "running", "partial"}
      /\ UNCHANGED <<config, session, transcript, recording, dispatch, page>>
  BY DEF EngineReports, Stages
<1>2. wire' \subseteq Payloads /\ engine' # "idle"
  <2>1. Stages[engine] \in Payloads /\ After[engine] # "idle"
    <3>1. /\ Stages["accepted"] = Payload("verified", "none", FALSE)
          /\ Stages["verified"] = Payload("none", "running", FALSE)
          /\ Stages["running"] = Payload("none", "partial_result", FALSE)
          /\ Stages["partial"] = Payload("none", "completed", TRUE)
      BY DEF Stages
    <3>2. /\ After["accepted"] = "verified" /\ After["verified"] = "running"
          /\ After["running"] = "partial" /\ After["partial"] = "done"
      BY DEF After
    <3>3. \A ss \in IntegrityStates \cup {"none"}, jj \in JobStates \cup {"none"}, b \in BOOLEAN :
            Payload(ss, jj, b) \in Payloads
      BY DEF Payload, Payloads
    <3>4. Stages[engine] \in Payloads
      BY <1>1, <3>1, <3>3 DEF IntegrityStates, JobStates
    <3>. QED
      BY <1>1, <3>2, <3>4
  <2>2. Payload("verification_failed", "failed", FALSE) \in Payloads
    BY DEF Payload, Payloads, IntegrityStates, JobStates
  <2>. QED
    BY <2>1, <2>2, PageIs DEF EngineReports
<1>3. DispatchSafe'
  BY <1>1, <1>2 DEF OrchestrationInv, DispatchSafe, UndispatchedIsShown, External
<1>. QED
  BY <1>1, <1>2, <1>3, PageIs, MockFine, NothingMoves, RestKeeps

LEMMA CallbackKeeps ==
  ASSUME OrchestrationInv, NEW p \in wire, Callback(p)
  PROVE  OrchestrationInv' /\ OneDraft
<1>1. RowsMove /\ External /\ UNCHANGED <<config, dispatch, engine, wire, page>>
  BY CallbackMoves
<1>2. DispatchSafe'
  BY <1>1 DEF OrchestrationInv, DispatchSafe, UndispatchedIsShown, RowsMove
<1>. QED
  BY <1>1, <1>2, PageIs, RestKeeps

\* A read by the page settles the mock engine and shows what came of it.
LEMMA PollKeeps ==
  ASSUME OrchestrationInv, SendPoll \/ PageRefreshes
  PROVE  OrchestrationInv' /\ OneDraft
<1>1. /\ Settle /\ UNCHANGED <<config, dispatch, engine, wire>>
      /\ \/ page' = [page EXCEPT !.polls = page.polls \cup {Status'}]
         \/ page' = [page EXCEPT !.shown = Status', !.refresh = FALSE]
  BY DEF SendPoll, PageRefreshes
<1>2. /\ RowsMove
      /\ External => /\ session'.error = session.error
                     /\ recording'.integrity = recording.integrity
                     /\ recording'.job = recording.job
      /\ ~External => /\ Shows(recording', recording')
                      /\ FailedUpload(recording) => recording' = recording
  BY <1>1, SettleMoves
<1>3. Status' = recording'
  BY <1>2 DEF Status, RowsMove, Recordings
<1>4. recording' \in Recordings
  BY <1>2 DEF RowsMove
<1>5. /\ page' \in [shown : Recordings, polls : SUBSET Recordings, refresh : BOOLEAN]
      /\ page'.shown \in {page.shown, recording'}
      /\ page'.polls \subseteq page.polls \cup {recording'}
  BY <1>1, <1>3, <1>4, PageIs
<1>6. DispatchSafe'
  BY <1>1, <1>2 DEF OrchestrationInv, DispatchSafe, UndispatchedIsShown, RowsMove
<1>7. ~External => /\ Shows(page'.shown, recording')
                   /\ \A st \in page'.polls : Shows(st, recording')
  BY <1>2, <1>5, MockFine DEF Shows
<1>. QED
  BY <1>1, <1>2, <1>5, <1>6, <1>7, PageIs, RestKeeps

\* The failure a repeated finalize leaves is what every later status says.
LEMMA AgainKeeps ==
  ASSUME OrchestrationInv, FinalizedAgain
  PROVE  OrchestrationInv' /\ OneDraft
<1>1. /\ session # Absent /\ UNCHANGED <<config, dispatch, engine, wire, page>>
      /\ session' = [session EXCEPT !.state = "verification_failed", !.error = "upload"]
      /\ transcript' = [transcript EXCEPT !.state = "failed"]
      /\ recording' = [recording EXCEPT !.integrity = "verification_failed", !.job = "failed"]
  BY DEF FinalizedAgain
<1>2. /\ session \in SessionRows /\ transcript \in TranscriptRows /\ recording \in Recordings
      /\ session.adapter = transcript.adapter
  BY <1>1 DEF OrchestrationInv, OrchestrationTypes, RowsAgree
<1>3. /\ session' \in SessionRows /\ session'.state = "verification_failed"
      /\ session'.error = "upload" /\ session'.adapter = session.adapter
  BY <1>1, <1>2 DEF SessionRows, IntegrityStates
<1>4. /\ transcript' \in TranscriptRows /\ transcript'.state = "failed"
      /\ transcript'.adapter = transcript.adapter /\ transcript'.output = transcript.output
  BY <1>1, <1>2 DEF TranscriptRows, JobStates
<1>5. /\ recording' \in Recordings /\ recording'.integrity = "verification_failed"
      /\ recording'.job = "failed" /\ recording'.draft = recording.draft
  BY <1>1, <1>2 DEF Recordings, IntegrityStates, JobStates
<1>6. session' # Absent /\ transcript' # Absent
  BY <1>3, <1>4, RowsHaveStates
<1>7. RowsMove
  BY <1>1, <1>2, <1>3, <1>4, <1>5, <1>6 DEF RowsMove, RowsAgree, External, OneDraft
<1>8. DispatchSafe'
  BY <1>1, <1>3, <1>5, <1>6 DEF OrchestrationInv, DispatchSafe, UndispatchedIsShown, External
<1>9. FailedUpload(recording') /\ (FailedUpload(recording) => recording' = recording)
  BY <1>1, <1>2, <1>5 DEF FailedUpload, Recordings
<1>10. ~External => /\ Shows(recording', recording') /\ Shows(page'.shown, recording')
                    /\ \A st \in page'.polls : Shows(st, recording')
  BY <1>1, <1>9, MockFine DEF Shows
<1>. QED
  BY <1>1, <1>7, <1>8, <1>10, PageIs, RestKeeps

LEMMA AnsweredKeeps ==
  ASSUME OrchestrationInv, NEW st \in page.polls, NEW lost \in BOOLEAN, PollAnswered(st, lost)
  PROVE  OrchestrationInv' /\ OneDraft
<1>1. /\ UNCHANGED <<config, session, transcript, recording, dispatch, engine, wire>>
      /\ page' = IF lost THEN [page EXCEPT !.polls = page.polls \ {st}]
                 ELSE [shown |-> st, polls |-> page.polls \ {st},
                       refresh |-> (page.refresh \/ st # page.shown)]
  BY DEF PollAnswered
<1>2. (page.refresh \/ st # page.shown) \in BOOLEAN /\ st \in Recordings
  BY PageIs
<1>3. /\ page' \in [shown : Recordings, polls : SUBSET Recordings, refresh : BOOLEAN]
      /\ page'.shown \in {page.shown, st} /\ page'.polls \subseteq page.polls
  BY <1>1, <1>2, PageIs
<1>4. DispatchSafe'
  BY <1>1 DEF OrchestrationInv, DispatchSafe, UndispatchedIsShown, External
<1>. QED
  BY <1>1, <1>3, <1>4, PageIs, MockFine, NothingMoves, RestKeeps

LEMMA RestartKeeps ==
  ASSUME OrchestrationInv,
         Tick \/ OrchestrationRestart \/ UNCHANGED orchestrationVars
  PROVE  OrchestrationInv' /\ OneDraft
<1>1. /\ UNCHANGED <<session, transcript, recording, engine, wire, page>>
      /\ config' \in Engines
      /\ \/ config' = config /\ dispatch' = dispatch
         \/ dispatch' \notin {"due", "sent"} /\ (dispatch' = "failed" => dispatch = "failed")
  BY PageIs DEF Tick, OrchestrationRestart, orchestrationVars, Engines
<1>2. DispatchSafe'
  BY <1>1 DEF OrchestrationInv, DispatchSafe, UndispatchedIsShown, External
<1>. QED
  BY <1>1, <1>2, PageIs, MockFine, NothingMoves, RestKeeps

LEMMA OrchestrationStep ==
  ASSUME OrchestrationInv, [OrchestrationNext]_orchestrationVars
  PROVE  OrchestrationInv' /\ OneDraft
BY DispatchKeeps, ReportKeeps, CallbackKeeps, PollKeeps, AgainKeeps, AnsweredKeeps, RestartKeeps
   DEF OrchestrationNext

LEMMA OrchestrationStart ==
  ASSUME OrchestrationInit
  PROVE  OrchestrationInv
<1>1. /\ config \in Engines /\ engine = "idle" /\ wire = {}
      /\ page = [shown |-> Status, polls |-> {}, refresh |-> FALSE]
  BY DEF OrchestrationInit, Engines
<1>2. CASE dispatch = "due"
  <2>1. /\ session = [adapter |-> config, error |-> "none",
                      state |-> IF config = "webhook" THEN "verifying" ELSE "verified"]
        /\ transcript = [adapter |-> config, state |-> "queued", output |-> FALSE]
        /\ recording = [integrity |-> session.state, job |-> "queued", draft |-> 0]
    BY <1>2 DEF OrchestrationInit
  <2>2. session \in SessionRows /\ transcript \in TranscriptRows /\ recording \in Recordings
    BY <1>1, <2>1 DEF SessionRows, TranscriptRows, Recordings, IntegrityStates, JobStates
  <2>3. session # Absent /\ transcript # Absent
    BY <2>2, RowsHaveStates
  <2>4. Status = recording
    BY <2>1 DEF Status
  <2>5. Shows(recording, recording)
    BY <2>1 DEF Shows, Fine
  <2>. QED
    BY <1>1, <1>2, <2>1, <2>2, <2>3, <2>4, <2>5
       DEF OrchestrationInv, OrchestrationTypes, RowsAgree, DispatchSafe, UndispatchedIsShown,
           MockShown, Shows, FailedUpload, Fine
<1>3. CASE dispatch = "none"
  <2>1. /\ session = Absent /\ transcript = Absent
        /\ recording \in Recordings /\ Shows(recording, recording)
    BY <1>3 DEF OrchestrationInit, Recordings, IntegrityStates, JobStates, Shows, Fine
  <2>2. Status = recording
    BY <2>1 DEF Status, Recordings
  <2>. QED
    BY <1>1, <1>3, <2>1, <2>2
       DEF OrchestrationInv, OrchestrationTypes, RowsAgree, DispatchSafe, UndispatchedIsShown,
           MockShown, External, Shows, FailedUpload, Fine
<1>. QED
  BY <1>2, <1>3 DEF OrchestrationInit

\* However callbacks repeat and overtake each other, and whichever engine an
\* instance is configured for, a recording is given one first draft, and the
\* rows and its own copies of their states agree (synchronizeOrchestration,
\* applyOrchestrationWebhookUpdate, completeDraftIfNeeded).
THEOREM OneDraftForEachJob == OrchestrationSpec => OneDraftPerJob
<1>1. OrchestrationInit => OrchestrationInv
  BY OrchestrationStart
<1>2. OrchestrationInv /\ [OrchestrationNext]_orchestrationVars =>
        /\ OrchestrationInv'
        /\ [/\ recording.draft = 1 =>
                 recording'.draft = 1 /\ (transcript # Absent => transcript'.output = transcript.output)
            /\ recording.draft = 0 /\ recording'.draft = 1 =>
                 transcript'.state = "completed" /\ transcript'.output
            /\ session' # Absent =>
                 recording'.integrity = session'.state /\ recording'.job = transcript'.state
           ]_orchestrationVars
  BY OrchestrationStep DEF OneDraft
<1>. QED
  BY <1>1, <1>2, PTL DEF OrchestrationSpec, OneDraftPerJob

\* A recording no engine has taken shows that its dispatch failed, or that its
\* upload did, where a repeated finalize came after the failure was noted
\* (dispatchRecordingToConfiguredEngine, noteOrchestrationDispatchFailure,
\* failUploadSession).
THEOREM FailedDispatchIsShown == OrchestrationSpec => []UndispatchedIsShown
<1>1. OrchestrationInit => OrchestrationInv
  BY OrchestrationStart
<1>2. OrchestrationInv /\ [OrchestrationNext]_orchestrationVars => OrchestrationInv'
  BY OrchestrationStep
<1>3. OrchestrationInv => UndispatchedIsShown
  BY DEF OrchestrationInv, DispatchSafe
<1>. QED
  BY <1>1, <1>2, <1>3, PTL DEF OrchestrationSpec

\* A page that has stopped polling a job of the mock engine shows its draft, or
\* the failure that a repeated finalize left on the recording, in whatever order
\* the answers to its polls arrived (isActiveStatus, failUploadSession).
THEOREM MockPageRestsOnResult == OrchestrationSpec => []RestingPageHasResult
<1>1. OrchestrationInit => OrchestrationInv
  BY OrchestrationStart
<1>2. OrchestrationInv /\ [OrchestrationNext]_orchestrationVars => OrchestrationInv'
  BY OrchestrationStep
<1>3. OrchestrationInv => RestingPageHasResult
  <2>. SUFFICES ASSUME OrchestrationInv, session # Absent, session.adapter = "mock",
                       ~Polling(page.shown)
                PROVE  \/ page.shown.draft = 1
                       \/ page.shown = Status /\ FailedUpload(recording)
    BY DEF RestingPageHasResult, FailedUpload
  <2>1. Shows(page.shown, recording)
    BY MockFine DEF External
  <2>2. Status = recording
    BY PageIs DEF Status, Recordings
  <2>. QED
    BY <2>1, <2>2 DEF Shows, Fine, Polling
<1>. QED
  BY <1>1, <1>2, <1>3, PTL DEF OrchestrationSpec

-----------------------------------------------------------------------------
(* The lock between processes that install models *)

Labels == {"idle", "acquire", "move_then_look", "look", "contended", "publish", "slot",
           "move_then_take", "restore_then_look", "restore_then_give_up", "verify", "reclaim",
           "release_slot", "locked", "stage", "transfer", "install", "finish"}

LockTypes ==
  /\ life \in [Process -> Nat] /\ pc \in [Process -> Labels]
  /\ observed \in [Process -> Owners \cup {NoOwner}]
  /\ lock \in Owners \cup {NoOwner}

Reclaiming(p) == pc[p] \in {"verify", "reclaim", "release_slot"}
Moving(p) == pc[p] \in {"move_then_look", "move_then_take", "restore_then_look",
                        "restore_then_give_up"}

\* The lock is its owner's, and a process at work on a download holds it.
LockHeld ==
  /\ lock # NoOwner => lock.life <= life[lock.proc]
  /\ \A p \in Process : lock = Me(p) => Downloading(p)
  /\ ~robbed => \A p \in Process : Downloading(p) => lock = Me(p)

LockInv == LockTypes /\ LockHeld

\* While nobody has died with the reclaim slot it keeps reclaimers apart, and a
\* lock being reclaimed stays the dead owner's.
SlotMutex ==
  /\ \A p \in Process : ~Moving(p) /\ (Reclaiming(p) => slot = Me(p))
  /\ slot # NoOwner => \E p \in Process : slot = Me(p) /\ Reclaiming(p)
  /\ \A p \in Process : pc[p] = "reclaim" /\ observed[p] # NoOwner =>
       lock = observed[p] /\ lock.life < life[lock.proc]

\* While nobody has died with the lock there is no owner to reclaim it from.
LockAlive ==
  /\ lock # NoOwner => Live(lock)
  /\ \A p \in Process : observed[p] = NoOwner

Safer == LockInv' /\ (SlotMutex => SlotMutex') /\ (LockAlive => LockAlive')

LEMMA MeIs ==
  ASSUME LockTypes, NEW p \in Process
  PROVE  /\ Me(p) \in Owners /\ Me(p) # NoOwner /\ Me(p).proc = p /\ Me(p).life = life[p]
         /\ life[p] \in Nat
         /\ \A q \in Process : Me(p) = Me(q) => p = q
BY OwnerAssumption DEF LockTypes, Me, Owners

LEMMA GoneTo ==
  ASSUME LockTypes, NEW p \in Process, NEW l \in Labels, Goto(p, l)
  PROVE  /\ pc' \in [Process -> Labels] /\ pc'[p] = l
         /\ \A q \in Process : q # p => pc'[q] = pc[q]
BY DEF LockTypes, Goto

\* Somebody who still observes what was observed.
LEMMA SameView ==
  ASSUME LockTypes, NEW p \in Process, UNCHANGED observed
  PROVE  /\ observed[p] \in Owners \cup {NoOwner} /\ Observe(p, observed[p])
         /\ LockAlive => observed[p] = NoOwner
BY DEF LockTypes, Observe, LockAlive

\* A step of p that leaves the lock, and p on its side of it.
LEMMA LockStays ==
  ASSUME LockInv, NEW p \in Process, NEW l \in Labels, Goto(p, l),
         UNCHANGED <<life, robbed, lock>>,
         NEW o \in Owners \cup {NoOwner}, Observe(p, o), LockAlive => o = NoOwner,
         l \in {"locked", "stage", "transfer", "install", "finish"} <=> Downloading(p)
  PROVE  /\ LockInv' /\ (LockAlive => LockAlive')
         /\ pc'[p] = l /\ observed'[p] = o /\ Me(p)' = Me(p)
         /\ \A q \in Process : q # p => /\ pc'[q] = pc[q] /\ observed'[q] = observed[q]
                                        /\ Me(q)' = Me(q)
<1>1. /\ pc' \in [Process -> Labels] /\ pc'[p] = l
      /\ \A q \in Process : q # p => pc'[q] = pc[q]
  BY GoneTo DEF LockInv
<1>2. /\ observed' \in [Process -> Owners \cup {NoOwner}] /\ observed'[p] = o
      /\ \A q \in Process : q # p => observed'[q] = observed[q]
  BY DEF LockInv, LockTypes, Observe
<1>3. \A q \in Process : Me(q)' = Me(q)
  BY DEF Me
<1>4. \A q \in Process : Downloading(q)' <=> Downloading(q)
  BY <1>1 DEF Downloading
<1>5. LockInv'
  BY <1>1, <1>2, <1>3, <1>4 DEF LockInv, LockTypes, LockHeld
<1>6. LockAlive => LockAlive'
  BY <1>2 DEF LockAlive, Live
<1>. QED
  BY <1>1, <1>2, <1>3, <1>5, <1>6

\* A step of p that leaves the slot as well.
LEMMA WalkKeeps ==
  ASSUME LockInv, NEW p \in Process, NEW l \in Labels, Goto(p, l),
         UNCHANGED <<life, robbed, lock, slot>>,
         NEW o \in Owners \cup {NoOwner}, Observe(p, o), LockAlive => o = NoOwner,
         l \in {"locked", "stage", "transfer", "install", "finish"} <=> Downloading(p),
         l \in {"verify", "release_slot"} <=> Reclaiming(p), l # "reclaim",
         l \in {"move_then_look", "move_then_take", "restore_then_look",
                "restore_then_give_up"} => ~SlotMutex
  PROVE  Safer
<1>1. /\ LockInv' /\ (LockAlive => LockAlive')
      /\ pc'[p] = l /\ observed'[p] = o /\ Me(p)' = Me(p)
      /\ \A q \in Process : q # p => /\ pc'[q] = pc[q] /\ observed'[q] = observed[q]
                                     /\ Me(q)' = Me(q)
  BY LockStays
<1>2. \A q \in Process : Reclaiming(q)' <=> Reclaiming(q)
  BY <1>1 DEF Reclaiming
<1>3. ASSUME SlotMutex
      PROVE  SlotMutex'
  <2>1. \A q \in Process : ~Moving(q)' /\ (Reclaiming(q)' => slot' = Me(q)')
    BY <1>1, <1>2, <1>3 DEF SlotMutex, Moving
  <2>2. slot' # NoOwner => \E q \in Process : slot' = Me(q)' /\ Reclaiming(q)'
    BY <1>1, <1>2, <1>3 DEF SlotMutex
  <2>3. \A q \in Process : pc'[q] = "reclaim" /\ observed'[q] # NoOwner =>
          lock' = observed'[q] /\ lock'.life < life'[lock'.proc]
    BY <1>1, <1>3 DEF SlotMutex
  <2>. QED
    BY <2>1, <2>2, <2>3 DEF SlotMutex
<1>. QED
  BY <1>1, <1>3 DEF Safer

\* The steps that look, report and download.
LEMMA WalkingKeeps ==
  ASSUME LockInv, NEW p \in Process,
         \/ \E t \in Tier : StartTierDownload(p, t)
         \/ LookForLock(p) \/ LookAgain(p) \/ Contended(p)
         \/ Stage(p) \/ TransferFails(p) \/ TransferEnds(p)
         \/ \E b \in BOOLEAN : Install(p, b)
  PROVE  Safer
<1>. USE DEF Goto, Go, locals
<1>1. LockTypes
  BY DEF LockInv
<1>2. CASE \E t \in Tier : StartTierDownload(p, t)
  <2>1. /\ Goto(p, "acquire") /\ pc[p] = "idle" /\ UNCHANGED <<life, robbed, lock, slot, observed>>
    BY <1>2 DEF StartTierDownload
  <2>. QED
    BY <1>1, <2>1, SameView, WalkKeeps DEF Labels, Downloading, Reclaiming
<1>3. CASE LookForLock(p)
  <2>1. pc[p] = "acquire" /\ UNCHANGED <<life, robbed, lock, slot, observed>>
    BY <1>3 DEF LookForLock
  <2>2. \/ Goto(p, "idle") \/ Goto(p, "contended") \/ Goto(p, "publish")
        \/ slot # NoOwner /\ ~Live(slot) /\ Goto(p, "move_then_look")
    BY <1>3 DEF LookForLock
  <2>3. slot # NoOwner /\ ~Live(slot) => ~SlotMutex
    BY <1>1, MeIs DEF SlotMutex, Live
  <2>. QED
    BY <1>1, <2>1, <2>2, <2>3, SameView, WalkKeeps DEF Labels, Downloading, Reclaiming
<1>4. CASE LookAgain(p)
  <2>1. /\ pc[p] = "look" /\ UNCHANGED <<life, robbed, lock, slot, observed>>
        /\ Goto(p, "contended") \/ Goto(p, "publish")
    BY <1>4 DEF LookAgain
  <2>. QED
    BY <1>1, <2>1, SameView, WalkKeeps DEF Labels, Downloading, Reclaiming
<1>5. CASE Contended(p)
  <2>1. pc[p] = "contended" /\ UNCHANGED <<life, robbed, lock, slot>>
    BY <1>5 DEF Contended
  <2>2. CASE Live(lock)
    <3>1. Goto(p, "idle") /\ UNCHANGED observed
      BY <1>5, <2>2 DEF Contended
    <3>. QED
      BY <1>1, <2>1, <3>1, SameView, WalkKeeps DEF Labels, Downloading, Reclaiming
  <2>3. CASE ~Live(lock)
    <3>1. Goto(p, "slot") /\ Observe(p, lock)
      BY <1>5, <2>3 DEF Contended
    <3>2. lock \in Owners \cup {NoOwner} /\ (LockAlive => lock = NoOwner)
      BY <1>1, <2>3 DEF LockTypes, LockAlive
    <3>. QED
      BY <1>1, <2>1, <3>1, <3>2, WalkKeeps DEF Labels, Downloading, Reclaiming
  <2>. QED
    BY <2>2, <2>3
<1>6. CASE Stage(p) \/ TransferFails(p) \/ TransferEnds(p) \/ \E b \in BOOLEAN : Install(p, b)
  <2>1. /\ pc[p] \in {"stage", "transfer", "install"}
        /\ UNCHANGED <<life, robbed, lock, slot, observed>>
        /\ Goto(p, "transfer") \/ Goto(p, "finish") \/ Goto(p, "install")
    BY <1>6 DEF Stage, TransferFails, TransferEnds, Install
  <2>. QED
    BY <1>1, <2>1, SameView, WalkKeeps DEF Labels, Downloading, Reclaiming
<1>. QED
  BY <1>2, <1>3, <1>4, <1>5, <1>6

\* Whoever takes the slot finds nobody at it.
LEMMA TakeSlotKeeps ==
  ASSUME LockInv, NEW p \in Process, TakeSlot(p)
  PROVE  Safer
<1>. USE DEF Goto
<1>1. LockTypes /\ pc[p] = "slot" /\ UNCHANGED <<life, robbed, lock>>
  BY DEF LockInv, TakeSlot, locals
<1>2. CASE slot = NoOwner
  <2>1. Goto(p, "verify") /\ slot' = Me(p) /\ UNCHANGED observed
    BY <1>2 DEF TakeSlot
  <2>2. /\ LockInv' /\ (LockAlive => LockAlive')
        /\ pc'[p] = "verify" /\ observed'[p] = observed[p] /\ Me(p)' = Me(p)
        /\ \A q \in Process : q # p => /\ pc'[q] = pc[q] /\ observed'[q] = observed[q]
                                       /\ Me(q)' = Me(q)
    BY <1>1, <2>1, SameView, LockStays DEF Labels, Downloading
  <2>3. ASSUME SlotMutex
        PROVE  SlotMutex'
    <3>1. \A q \in Process : ~Reclaiming(q)
      BY <1>1, <1>2, <2>3, MeIs DEF SlotMutex
    <3>2. \A q \in Process : ~Moving(q)' /\ (Reclaiming(q)' => q = p)
      BY <2>2, <2>3, <3>1 DEF SlotMutex, Moving, Reclaiming
    <3>3. Reclaiming(p)' /\ pc'[p] # "reclaim"
      BY <2>2 DEF Reclaiming
    <3>4. \A q \in Process : pc'[q] # "reclaim"
      BY <3>2, <3>3 DEF Reclaiming
    <3>. QED
      BY <2>1, <2>2, <3>2, <3>3, <3>4 DEF SlotMutex
  <2>. QED
    BY <2>2, <2>3 DEF Safer
<1>3. CASE slot # NoOwner /\ Live(slot)
  <2>1. Goto(p, "acquire") /\ Observe(p, NoOwner) /\ UNCHANGED slot
    BY <1>3 DEF TakeSlot
  <2>. QED
    BY <1>1, <2>1, WalkKeeps DEF Labels, Downloading, Reclaiming
<1>4. CASE slot # NoOwner /\ ~Live(slot)
  <2>1. Goto(p, "move_then_take") /\ UNCHANGED <<slot, observed>>
    BY <1>4 DEF TakeSlot
  <2>2. ~SlotMutex
    BY <1>1, <1>4, MeIs DEF SlotMutex, Live
  <2>. QED
    BY <1>1, <2>1, <2>2, SameView, WalkKeeps DEF Labels, Downloading, Reclaiming
<1>. QED
  BY <1>2, <1>3, <1>4

\* A slot is only moved when it was found with a dead owner.
LEMMA MovingKeeps ==
  ASSUME LockInv, NEW p \in Process, MoveSlot(p) \/ RestoreSlot(p)
  PROVE  Safer
<1>. USE DEF Goto
<1>1. LockTypes /\ Moving(p) /\ UNCHANGED <<life, robbed, lock>>
  BY DEF LockInv, MoveSlot, RestoreSlot, Moving, locals
<1>2. ~SlotMutex
  BY <1>1 DEF SlotMutex
<1>3. \E l \in {"slot", "look", "restore_then_give_up", "restore_then_look", "acquire"} :
        Goto(p, l) /\ (UNCHANGED observed \/ Observe(p, NoOwner))
  BY DEF MoveSlot, RestoreSlot
<1>4. LockInv' /\ (LockAlive => LockAlive')
  BY <1>1, <1>3, SameView, LockStays DEF Labels, Downloading, Moving
<1>. QED
  BY <1>2, <1>4 DEF Safer

\* Whoever gives the slot back was the only one at it.
LEMMA GiveBackKeeps ==
  ASSUME LockInv, NEW p \in Process, Goto(p, "acquire"), slot' = ReleasedSlot(p),
         UNCHANGED <<life, robbed, lock>>, UNCHANGED observed \/ Observe(p, NoOwner),
         Reclaiming(p)
  PROVE  Safer
<1>. USE DEF Goto
<1>1. LockTypes /\ ~Downloading(p)
  BY DEF LockInv, Reclaiming, Downloading
<1>2. PICK o \in Owners \cup {NoOwner} :
        /\ Observe(p, o) /\ (LockAlive => o = NoOwner)
        /\ o = NoOwner \/ o = observed[p]
  BY <1>1, SameView
<1>3. /\ LockInv' /\ (LockAlive => LockAlive')
      /\ pc'[p] = "acquire" /\ observed'[p] = o /\ Me(p)' = Me(p)
      /\ \A q \in Process : q # p => /\ pc'[q] = pc[q] /\ observed'[q] = observed[q]
                                     /\ Me(q)' = Me(q)
  BY <1>1, <1>2, LockStays DEF Labels
<1>4. ASSUME SlotMutex
      PROVE  SlotMutex'
  <2>1. slot = Me(p) /\ slot' = NoOwner
    BY <1>4 DEF SlotMutex, ReleasedSlot
  <2>2. \A q \in Process : Reclaiming(q) => q = p
    BY <1>1, <1>4, <2>1, MeIs DEF SlotMutex
  <2>3. \A q \in Process : ~Moving(q)' /\ ~Reclaiming(q)'
    BY <1>3, <1>4, <2>2 DEF SlotMutex, Moving, Reclaiming
  <2>4. \A q \in Process : pc'[q] # "reclaim"
    BY <2>3 DEF Reclaiming
  <2>. QED
    BY <2>1, <2>3, <2>4 DEF SlotMutex
<1>. QED
  BY <1>3, <1>4 DEF Safer

LEMMA VerifyKeeps ==
  ASSUME LockInv, NEW p \in Process, VerifyReclaim(p)
  PROVE  Safer
<1>. USE DEF Goto
<1>1. LockTypes /\ pc[p] = "verify" /\ Reclaiming(p) /\ UNCHANGED <<life, robbed, lock>>
  BY DEF LockInv, VerifyReclaim, locals, Reclaiming
<1>2. CASE StillStale(p)
  <2>1. Goto(p, "reclaim") /\ UNCHANGED <<slot, observed>>
    BY <1>2 DEF VerifyReclaim
  <2>2. /\ LockInv' /\ (LockAlive => LockAlive')
        /\ pc'[p] = "reclaim" /\ observed'[p] = observed[p] /\ Me(p)' = Me(p)
        /\ \A q \in Process : q # p => /\ pc'[q] = pc[q] /\ observed'[q] = observed[q]
                                       /\ Me(q)' = Me(q)
    BY <1>1, <2>1, SameView, LockStays DEF Labels, Downloading
  <2>3. \A q \in Process : Reclaiming(q)' <=> Reclaiming(q)
    BY <1>1, <2>2 DEF Reclaiming
  <2>4. observed[p] # NoOwner => lock = observed[p] /\ lock.life < life[lock.proc]
    <3>1. lock = observed[p] /\ (lock # NoOwner => lock.life # life[lock.proc])
      BY <1>2 DEF StillStale, Live
    <3>2. lock # NoOwner => /\ lock.life <= life[lock.proc] /\ lock.life \in Nat
                            /\ life[lock.proc] \in Nat
      BY <1>1 DEF LockInv, LockHeld, LockTypes, Owners
    <3>. QED
      BY <3>1, <3>2
  <2>5. ASSUME SlotMutex
        PROVE  SlotMutex'
    <3>1. \A q \in Process : ~Moving(q)' /\ (Reclaiming(q)' => slot' = Me(q)')
      BY <2>1, <2>2, <2>3, <2>5 DEF SlotMutex, Moving
    <3>2. slot' # NoOwner => \E q \in Process : slot' = Me(q)' /\ Reclaiming(q)'
      BY <2>1, <2>2, <2>3, <2>5 DEF SlotMutex
    <3>3. \A q \in Process : pc'[q] = "reclaim" /\ observed'[q] # NoOwner =>
            lock' = observed'[q] /\ lock'.life < life'[lock'.proc]
      BY <1>1, <2>1, <2>2, <2>4, <2>5 DEF SlotMutex
    <3>. QED
      BY <3>1, <3>2, <3>3 DEF SlotMutex
  <2>. QED
    BY <2>2, <2>5 DEF Safer
<1>3. CASE ~StillStale(p)
  BY <1>1, <1>3, GiveBackKeeps DEF VerifyReclaim
<1>. QED
  BY <1>2, <1>3

LEMMA ReleaseSlotKeeps ==
  ASSUME LockInv, NEW p \in Process, ReleaseSlot(p)
  PROVE  Safer
BY GiveBackKeeps DEF ReleaseSlot, Go, locals, Reclaiming

LEMMA PublishKeeps ==
  ASSUME LockInv, NEW p \in Process, PublishLock(p)
  PROVE  Safer
<1>. USE DEF Goto
<1>1. LockTypes /\ pc[p] = "publish" /\ UNCHANGED <<life, robbed, slot, observed>>
  BY DEF LockInv, PublishLock, locals
<1>2. CASE LockTaken
  <2>1. Goto(p, "contended") /\ UNCHANGED lock
    BY <1>2 DEF PublishLock
  <2>. QED
    BY <1>1, <2>1, SameView, WalkKeeps DEF Labels, Downloading, Reclaiming
<1>3. CASE ~LockTaken
  <2>1. Goto(p, "locked") /\ lock = NoOwner /\ lock' = Me(p)
    BY <1>3 DEF PublishLock, LockTaken
  <2>2. /\ pc' \in [Process -> Labels] /\ pc'[p] = "locked"
        /\ \A q \in Process : q # p => pc'[q] = pc[q]
    BY <1>1, <2>1, GoneTo DEF Labels
  <2>3. \A q \in Process : Me(q)' = Me(q)
    BY <1>1 DEF Me
  <2>4. \A q \in Process : q # p => (Downloading(q)' <=> Downloading(q))
    BY <2>2 DEF Downloading
  <2>5. LockTypes'
    BY <1>1, <2>1, <2>2, MeIs DEF LockTypes
  <2>6. LockHeld'
    <3>1. lock'.life <= life'[lock'.proc]
      BY <1>1, <2>1, MeIs
    <3>2. \A q \in Process : lock' = Me(q)' => Downloading(q)'
      <4>1. Downloading(p)'
        BY <2>2 DEF Downloading
      <4>2. \A q \in Process : lock' = Me(q)' => q = p
        <5>1. \A q \in Process : Me(p) = Me(q) => p = q
          BY <1>1, MeIs
        <5>. QED
          BY <2>1, <2>3, <5>1
      <4>. QED
        BY <4>1, <4>2
    <3>3. ~robbed => \A q \in Process : Downloading(q) => FALSE
      BY <1>1, <2>1, MeIs DEF LockInv, LockHeld
    <3>4. ~robbed' => \A q \in Process : Downloading(q)' => lock' = Me(q)'
      BY <1>1, <2>1, <2>3, <2>4, <3>3
    <3>. QED
      BY <3>1, <3>2, <3>4 DEF LockHeld
  <2>7. ASSUME SlotMutex
        PROVE  SlotMutex'
    <3>1. \A q \in Process : Reclaiming(q)' <=> Reclaiming(q)
      BY <1>1, <2>2 DEF Reclaiming
    <3>2. \A q \in Process : ~Moving(q)' /\ (Reclaiming(q)' => slot' = Me(q)')
      BY <1>1, <2>2, <2>3, <2>7, <3>1 DEF SlotMutex, Moving
    <3>3. slot' # NoOwner => \E q \in Process : slot' = Me(q)' /\ Reclaiming(q)'
      BY <1>1, <2>3, <2>7, <3>1 DEF SlotMutex
    <3>4. \A q \in Process : pc'[q] = "reclaim" => observed'[q] = NoOwner
      BY <1>1, <2>1, <2>2, <2>7 DEF SlotMutex
    <3>. QED
      BY <3>2, <3>3, <3>4 DEF SlotMutex
  <2>8. LockAlive => LockAlive'
    BY <1>1, <2>1, MeIs DEF LockAlive, Live
  <2>. QED
    BY <2>5, <2>6, <2>7, <2>8 DEF Safer, LockInv
<1>. QED
  BY <1>2, <1>3

\* The lock goes away: its owner lets go of it, or a reclaimer takes it.
LEMMA LockGoesKeeps ==
  ASSUME LockInv, NEW p \in Process, NEW l \in {"idle", "release_slot"}, Goto(p, l),
         UNCHANGED <<life, slot>>, UNCHANGED observed \/ Observe(p, NoOwner),
         robbed => robbed',
         l = "idle" => Downloading(p) /\ lock' = ReleasedLock(p),
         l = "release_slot" => Reclaiming(p) /\ lock' = NoOwner,
         l = "release_slot" /\ ~robbed' => \A q \in Process : lock # Me(q)
  PROVE  Safer
<1>. USE DEF Goto
<1>1. LockTypes
  BY DEF LockInv
<1>2. /\ pc' \in [Process -> Labels] /\ pc'[p] = l
      /\ \A q \in Process : q # p => pc'[q] = pc[q]
  BY <1>1, GoneTo DEF Labels
<1>3. /\ observed' \in [Process -> Owners \cup {NoOwner}]
      /\ \A q \in Process : observed'[q] \in {observed[q], NoOwner}
  BY <1>1 DEF LockTypes, Observe
<1>4. \A q \in Process : Me(q)' = Me(q)
  BY DEF Me
<1>5. \A q \in Process : q # p => (Downloading(q)' <=> Downloading(q))
  BY <1>2 DEF Downloading
<1>6. ~Downloading(p)'
  BY <1>2 DEF Downloading
<1>7. lock' \in {lock, NoOwner} /\ lock' # Me(p)
  BY <1>1, MeIs DEF ReleasedLock
<1>8. LockTypes'
  BY <1>1, <1>2, <1>3, <1>7 DEF LockTypes
<1>9. LockHeld'
  <2>1. lock' # NoOwner => lock'.life <= life'[lock'.proc]
    BY <1>7 DEF LockInv, LockHeld
  <2>2. \A q \in Process : lock' = Me(q)' => Downloading(q)'
    <3>1. \A q \in Process : Me(q) # NoOwner
      BY <1>1, MeIs
    <3>. QED
      BY <1>4, <1>5, <1>7, <3>1 DEF LockInv, LockHeld
  <2>3. ASSUME ~robbed', NEW q \in Process, Downloading(q)'
        PROVE  lock' = Me(q)'
    <3>1. q # p /\ Downloading(q) /\ lock = Me(q)
      BY <1>5, <1>6, <2>3 DEF LockInv, LockHeld
    <3>2. l = "idle" /\ lock' = ReleasedLock(p)
      BY <2>3, <3>1
    <3>3. lock # Me(p)
      BY <1>1, <3>1, MeIs
    <3>. QED
      BY <1>4, <3>1, <3>2, <3>3 DEF ReleasedLock
  <2>. QED
    BY <2>1, <2>2, <2>3 DEF LockHeld
<1>10. ASSUME SlotMutex
       PROVE  SlotMutex'
  <2>1. \A q \in Process : Reclaiming(q)' <=> Reclaiming(q)
    BY <1>2 DEF Reclaiming, Downloading
  <2>2. \A q \in Process : ~Moving(q)' /\ (Reclaiming(q)' => slot' = Me(q)')
    BY <1>2, <1>4, <1>10, <2>1 DEF SlotMutex, Moving
  <2>3. slot' # NoOwner => \E q \in Process : slot' = Me(q)' /\ Reclaiming(q)'
    BY <1>4, <1>10, <2>1 DEF SlotMutex
  <2>4. ASSUME NEW q \in Process, pc'[q] = "reclaim", observed'[q] # NoOwner
        PROVE  lock' = observed'[q] /\ lock'.life < life'[lock'.proc]
    <3>1. q # p /\ pc[q] = "reclaim" /\ observed'[q] = observed[q] /\ Reclaiming(q)
      BY <1>2, <1>3, <2>4 DEF Reclaiming
    <3>2. lock = observed[q] /\ lock.life < life[lock.proc]
      BY <1>10, <2>4, <3>1 DEF SlotMutex
    <3>3. l = "idle"
      BY <1>1, <1>10, <3>1, MeIs DEF SlotMutex
    <3>4. lock # Me(p)
      BY <1>1, <3>2, MeIs
    <3>5. lock' = lock
      BY <3>3, <3>4 DEF ReleasedLock
    <3>. QED
      BY <3>1, <3>2, <3>5
  <2>. QED
    BY <2>2, <2>3, <2>4 DEF SlotMutex
<1>11. LockAlive => LockAlive'
  BY <1>3, <1>7 DEF LockAlive, Live
<1>. QED
  BY <1>8, <1>9, <1>10, <1>11 DEF Safer, LockInv

\* Only the process that is at work on a download gives the lock back.
LEMMA LetGoKeeps ==
  ASSUME LockInv, NEW p \in Process,
         ReleaseLock(p) \/ \E b \in BOOLEAN : BeginDownload(p, b)
  PROVE  Safer
<1>1. /\ LockTypes /\ Downloading(p) /\ pc[p] \in {"locked", "finish"}
      /\ UNCHANGED <<life, robbed, slot, observed>>
  BY DEF LockInv, ReleaseLock, BeginDownload, Downloading, Go, locals
<1>2. \/ Goto(p, "stage") /\ UNCHANGED lock
      \/ Goto(p, "idle") /\ lock' = ReleasedLock(p)
  BY DEF ReleaseLock, BeginDownload, Go
<1>3. CASE Goto(p, "stage") /\ UNCHANGED lock
  BY <1>1, <1>3, SameView, WalkKeeps DEF Labels, Downloading, Reclaiming
<1>4. CASE Goto(p, "idle") /\ lock' = ReleasedLock(p)
  BY <1>1, <1>4, LockGoesKeeps
<1>. QED
  BY <1>2, <1>3, <1>4

\* A reclaimer takes a dead owner's lock, or one it never saw: that is a robbery.
LEMMA ReclaimKeeps ==
  ASSUME LockInv, SlotMutex \/ LockAlive, NEW p \in Process, Reclaim(p)
  PROVE  Safer
<1>1. /\ LockTypes /\ pc[p] = "reclaim" /\ Reclaiming(p) /\ Goto(p, "release_slot")
      /\ lock' = NoOwner /\ Observe(p, NoOwner) /\ UNCHANGED <<life, slot>>
      /\ robbed' = (robbed \/ (observed[p] = NoOwner /\ lock # NoOwner))
  BY DEF LockInv, Reclaim, Reclaiming, Go
<1>2. ASSUME ~robbed', NEW q \in Process, lock = Me(q)
      PROVE  FALSE
  <2>1. lock # NoOwner /\ observed[p] # NoOwner
    BY <1>1, <1>2, MeIs
  <2>2. SlotMutex
    BY <2>1 DEF LockAlive
  <2>3. lock.life < life[lock.proc]
    BY <1>1, <2>1, <2>2 DEF SlotMutex
  <2>. QED
    BY <1>1, <1>2, <2>3, MeIs
<1>. QED
  BY <1>1, <1>2, LockGoesKeeps

LEMMA StillKeeps ==
  ASSUME LockInv, (\E t \in Tier : InstallByHand(t)) \/ UNCHANGED provisioningVars
  PROVE  Safer /\ UNCHANGED life
<1>1. UNCHANGED <<life, pc, observed, lock, slot, robbed>>
  BY DEF InstallByHand, locals, provisioningVars
<1>. QED
  BY <1>1 DEF Safer, LockInv, LockTypes, LockHeld, SlotMutex, LockAlive, Live, Downloading,
              Reclaiming, Moving, Me

\* A process that dies leaves a dead lock if it had the lock, a dead slot if it
\* had the slot.
LEMMA DeathKeeps ==
  ASSUME LockInv, NEW p \in Process, ProcessDies(p)
  PROVE  /\ LockInv'
         /\ life'[p] = life[p] + 1 /\ \A q \in Process : q # p => life'[q] = life[q]
         /\ SlotMutex /\ ~Reclaiming(p) => SlotMutex'
         /\ LockAlive /\ lock # Me(p) => LockAlive'
<1>. DEFINE n == life[p] + 1
<1>1. /\ LockTypes /\ life' = [life EXCEPT ![p] = n] /\ Goto(p, "idle") /\ Observe(p, NoOwner)
      /\ UNCHANGED <<lock, slot, robbed>>
  BY DEF LockInv, ProcessDies
<1>2. n \in Nat /\ life[p] \in Nat /\ life[p] < n /\ life[p] <= n
  BY <1>1 DEF LockTypes
<1>3. /\ pc' \in [Process -> Labels] /\ pc'[p] = "idle"
      /\ \A q \in Process : q # p => pc'[q] = pc[q]
  BY <1>1, GoneTo DEF Labels
<1>4. /\ observed' \in [Process -> Owners \cup {NoOwner}] /\ observed'[p] = NoOwner
      /\ \A q \in Process : q # p => observed'[q] = observed[q]
  BY <1>1 DEF LockTypes, Observe
<1>5. life' \in [Process -> Nat] /\ life'[p] = n /\ \A q \in Process : q # p => life'[q] = life[q]
  <2>. HIDE DEF n
  <2>. QED
    BY <1>1, <1>2 DEF LockTypes
<1>6. \A q \in Process : q # p => Me(q)' = Me(q)
  BY <1>5 DEF Me
<1>7. \A q \in Process : q # p =>
        (Downloading(q)' <=> Downloading(q)) /\ (Reclaiming(q)' <=> Reclaiming(q))
  BY <1>3 DEF Downloading, Reclaiming
<1>8. ~Downloading(p)' /\ ~Reclaiming(p)' /\ ~Moving(p)'
  BY <1>3 DEF Downloading, Reclaiming, Moving
<1>9. lock # NoOwner => /\ lock.proc \in Process /\ lock.life \in Nat
                        /\ life[lock.proc] \in Nat /\ life'[lock.proc] \in Nat
                        /\ lock.life <= life[lock.proc] /\ life[lock.proc] <= life'[lock.proc]
  BY <1>1, <1>2, <1>5 DEF LockTypes, Owners, LockInv, LockHeld
<1>10. LockTypes'
  BY <1>1, <1>3, <1>4, <1>5 DEF LockTypes
<1>11. lock' # Me(p)'
  <2>1. Me(p)' # NoOwner /\ Me(p)'.proc = p /\ Me(p)'.life = n
    BY <1>2, <1>5, OwnerAssumption DEF Me, Owners
  <2>2. lock # NoOwner /\ lock.proc = p => lock.life # n
    BY <1>2, <1>9
  <2>. QED
    BY <1>1, <2>1, <2>2
<1>12. LockHeld'
  <2>1. lock' # NoOwner => lock'.life <= life'[lock'.proc]
    BY <1>1, <1>9
  <2>2. \A q \in Process : lock' = Me(q)' => Downloading(q)'
    BY <1>1, <1>6, <1>7, <1>11 DEF LockInv, LockHeld
  <2>3. ~robbed' => \A q \in Process : Downloading(q)' => lock' = Me(q)'
    BY <1>1, <1>6, <1>7, <1>8 DEF LockInv, LockHeld
  <2>. QED
    BY <2>1, <2>2, <2>3 DEF LockHeld
<1>13. ASSUME SlotMutex, ~Reclaiming(p)
       PROVE  SlotMutex'
  <2>1. \A q \in Process : ~Moving(q)' /\ (Reclaiming(q)' => slot' = Me(q)')
    BY <1>1, <1>3, <1>6, <1>7, <1>8, <1>13 DEF SlotMutex, Moving
  <2>2. slot' # NoOwner => \E q \in Process : slot' = Me(q)' /\ Reclaiming(q)'
    BY <1>1, <1>6, <1>7, <1>13 DEF SlotMutex
  <2>3. ASSUME NEW q \in Process, pc'[q] = "reclaim", observed'[q] # NoOwner
        PROVE  lock' = observed'[q] /\ lock'.life < life'[lock'.proc]
    <3>1. q # p /\ lock = observed[q] /\ observed'[q] = observed[q] /\ lock # NoOwner
          /\ lock.life < life[lock.proc]
      BY <1>3, <1>4, <1>13, <2>3 DEF SlotMutex
    <3>. QED
      BY <1>1, <1>9, <3>1
  <2>. QED
    BY <2>1, <2>2, <2>3 DEF SlotMutex
<1>14. ASSUME LockAlive, lock # Me(p)
       PROVE  LockAlive'
  <2>1. ASSUME lock # NoOwner
        PROVE  lock.life = life'[lock.proc]
    <3>1. lock.life = life[lock.proc] /\ lock.proc \in Process
      BY <1>9, <1>14, <2>1 DEF LockAlive, Live
    <3>2. lock.proc # p
      <4>1. lock.proc = p => lock = Me(p)
        BY <1>1, <2>1, <3>1 DEF LockTypes, Owners, Me
      <4>. QED
        BY <4>1, <1>14
    <3>. QED
      BY <1>5, <3>1, <3>2
  <2>. QED
    BY <1>1, <1>4, <1>14, <2>1 DEF LockAlive, Live
<1>. QED
  BY <1>5, <1>10, <1>12, <1>13, <1>14 DEF LockInv

\* Steps other than a death.
LEMMA LockStep ==
  ASSUME LockInv, SlotMutex \/ LockAlive, [ProvisioningNext]_provisioningVars,
         \A p \in Process : ~ProcessDies(p)
  PROVE  Safer /\ UNCHANGED life
<1>1. ASSUME NEW p \in Process,
             \/ \E t \in Tier : StartTierDownload(p, t)
             \/ LookForLock(p) \/ LookAgain(p) \/ Contended(p)
             \/ Stage(p) \/ TransferFails(p) \/ TransferEnds(p)
             \/ \E b \in BOOLEAN : Install(p, b)
      PROVE  Safer /\ UNCHANGED life
  BY <1>1, WalkingKeeps DEF StartTierDownload, LookForLock, LookAgain, Contended, Stage,
     TransferFails, TransferEnds, Install, locals
<1>2. ASSUME NEW p \in Process, ReleaseLock(p) \/ \E b \in BOOLEAN : BeginDownload(p, b)
      PROVE  Safer /\ UNCHANGED life
  BY <1>2, LetGoKeeps DEF ReleaseLock, BeginDownload, locals
<1>3. ASSUME NEW p \in Process, PublishLock(p)
      PROVE  Safer /\ UNCHANGED life
  BY <1>3, PublishKeeps DEF PublishLock, locals
<1>4. ASSUME NEW p \in Process, TakeSlot(p)
      PROVE  Safer /\ UNCHANGED life
  BY <1>4, TakeSlotKeeps DEF TakeSlot, locals
<1>5. ASSUME NEW p \in Process, MoveSlot(p) \/ RestoreSlot(p)
      PROVE  Safer /\ UNCHANGED life
  BY <1>5, MovingKeeps DEF MoveSlot, RestoreSlot, locals
<1>6. ASSUME NEW p \in Process, VerifyReclaim(p)
      PROVE  Safer /\ UNCHANGED life
  BY <1>6, VerifyKeeps DEF VerifyReclaim, locals
<1>7. ASSUME NEW p \in Process, ReleaseSlot(p)
      PROVE  Safer /\ UNCHANGED life
  BY <1>7, ReleaseSlotKeeps DEF ReleaseSlot, locals
<1>8. ASSUME NEW p \in Process, Reclaim(p)
      PROVE  Safer /\ UNCHANGED life
  BY <1>8, ReclaimKeeps DEF Reclaim
<1>. QED
  BY <1>1, <1>2, <1>3, <1>4, <1>5, <1>6, <1>7, <1>8, StillKeeps DEF ProvisioningNext

LEMMA LockStart ==
  ASSUME ProvisioningInit
  PROVE  LockInv /\ SlotMutex /\ LockAlive /\ \A p \in Process : life[p] = 0
<1>1. /\ life = [p \in Process |-> 0] /\ pc = [p \in Process |-> "idle"]
      /\ observed = [p \in Process |-> NoOwner] /\ lock = NoOwner /\ slot = NoOwner
  BY DEF ProvisioningInit
<1>2. LockTypes
  BY <1>1 DEF LockTypes, Labels
<1>3. LockHeld
  BY <1>1, <1>2, MeIs DEF LockHeld, Downloading
<1>. QED
  BY <1>1, <1>2, <1>3 DEF LockInv, SlotMutex, LockAlive, Moving, Reclaiming

LEMMA HeldByOne ==
  ASSUME LockInv
  PROVE  OneDownloader
<1>1. ASSUME ~robbed, NEW p \in Process, NEW q \in Process, Downloading(p), Downloading(q)
      PROVE  p = q
  BY <1>1, MeIs DEF LockInv, LockHeld
<1>. QED
  BY <1>1 DEF OneDownloader

Dies(p) == life'[p] # life[p]

\* Any number of processes may die, as long as none dies in the moment it holds
\* the reclaim slot: one process downloads at a time
\* (acquireProvisioningLock, reclaimStaleProvisioningLock, acquireReclaimSlot).
THEOREM OneDownloaderUnlessReclaimerDies ==
  ProvisioningSpec /\ [][\A p \in Process : Dies(p) => ~Reclaiming(p)]_provisioningVars
    => []OneDownloader
<1>1. ProvisioningInit => LockInv /\ SlotMutex
  BY LockStart
<1>2. ASSUME LockInv /\ SlotMutex, [ProvisioningNext]_provisioningVars,
             [\A p \in Process : Dies(p) => ~Reclaiming(p)]_provisioningVars
      PROVE  (LockInv /\ SlotMutex)'
  <2>1. CASE \A p \in Process : ~ProcessDies(p)
    BY <1>2, <2>1, LockStep DEF Safer
  <2>2. ASSUME NEW p \in Process, ProcessDies(p)
        PROVE  (LockInv /\ SlotMutex)'
    <3>1. /\ LockInv' /\ life'[p] = life[p] + 1
          /\ SlotMutex /\ ~Reclaiming(p) => SlotMutex'
      BY <1>2, <2>2, DeathKeeps
    <3>2. Dies(p) /\ life' # life
      BY <1>2, <3>1 DEF Dies, LockInv, LockTypes
    <3>3. ~Reclaiming(p)
      BY <1>2, <3>2 DEF provisioningVars
    <3>. QED
      BY <1>2, <3>1, <3>3
  <2>. QED
    BY <2>1, <2>2
<1>3. LockInv /\ SlotMutex => OneDownloader
  BY HeldByOne
<1>. QED
  BY <1>1, <1>2, <1>3, PTL DEF ProvisioningSpec

\* Likewise as long as none dies while it holds the lock itself.
THEOREM OneDownloaderUnlessOwnerDies ==
  ProvisioningSpec /\ [][\A p \in Process : Dies(p) => lock # Me(p)]_provisioningVars
    => []OneDownloader
<1>1. ProvisioningInit => LockInv /\ LockAlive
  BY LockStart
<1>2. ASSUME LockInv /\ LockAlive, [ProvisioningNext]_provisioningVars,
             [\A p \in Process : Dies(p) => lock # Me(p)]_provisioningVars
      PROVE  (LockInv /\ LockAlive)'
  <2>1. CASE \A p \in Process : ~ProcessDies(p)
    BY <1>2, <2>1, LockStep DEF Safer
  <2>2. ASSUME NEW p \in Process, ProcessDies(p)
        PROVE  (LockInv /\ LockAlive)'
    <3>1. /\ LockInv' /\ life'[p] = life[p] + 1
          /\ LockAlive /\ lock # Me(p) => LockAlive'
      BY <1>2, <2>2, DeathKeeps
    <3>2. Dies(p) /\ life' # life
      BY <1>2, <3>1 DEF Dies, LockInv, LockTypes
    <3>3. lock # Me(p)
      BY <1>2, <3>2 DEF provisioningVars
    <3>. QED
      BY <1>2, <3>1, <3>3
  <2>. QED
    BY <2>1, <2>2
<1>3. LockInv /\ LockAlive => OneDownloader
  BY HeldByOne
<1>. QED
  BY <1>1, <1>2, <1>3, PTL DEF ProvisioningSpec

NobodyDied == \A p \in Process : life[p] = 0
AtMostOneDeath == \A p, q \in Process : life[p] > 0 /\ life[q] > 0 => p = q /\ life[p] = 1

\* A single death may leave a dead lock or a dead slot, never both.
DeathInv ==
  /\ life \in [Process -> Nat]
  /\ AtMostOneDeath => LockInv /\ (SlotMutex \/ LockAlive)
  /\ NobodyDied => SlotMutex /\ LockAlive

LEMMA LivesOnlyEnd ==
  ASSUME life \in [Process -> Nat], [ProvisioningNext]_provisioningVars
  PROVE  life' \in [Process -> Nat] /\ \A p \in Process : life[p] <= life'[p]
<1>1. UNCHANGED life \/ \E p \in Process : ProcessDies(p)
  BY DEF ProvisioningNext, provisioningVars, StartTierDownload, LookForLock, LookAgain,
     Contended, PublishLock, TakeSlot, MoveSlot, RestoreSlot, VerifyReclaim, Reclaim,
     ReleaseSlot, BeginDownload, Stage, TransferFails, TransferEnds, Install, ReleaseLock,
     InstallByHand, locals
<1>2. CASE UNCHANGED life
  BY <1>2
<1>3. ASSUME NEW p \in Process, ProcessDies(p)
      PROVE  life' \in [Process -> Nat] /\ \A q \in Process : life[q] <= life'[q]
  <2>. DEFINE n == life[p] + 1
  <2>1. n \in Nat /\ life[p] <= n /\ life' = [life EXCEPT ![p] = n]
    BY <1>3 DEF ProcessDies
  <2>. HIDE DEF n
  <2>. QED
    BY <2>1
<1>. QED
  BY <1>1, <1>2, <1>3

LEMMA DeathStep ==
  ASSUME DeathInv, [ProvisioningNext]_provisioningVars
  PROVE  DeathInv'
<1>1. life' \in [Process -> Nat] /\ \A p \in Process : life[p] <= life'[p]
  BY LivesOnlyEnd DEF DeathInv
<1>2. AtMostOneDeath' => AtMostOneDeath
  BY <1>1 DEF AtMostOneDeath, DeathInv
<1>3. NobodyDied' => NobodyDied /\ AtMostOneDeath
  BY <1>1 DEF NobodyDied, AtMostOneDeath, DeathInv
<1>4. ASSUME AtMostOneDeath'
      PROVE  LockInv' /\ (SlotMutex \/ LockAlive)' /\ (NobodyDied' => SlotMutex' /\ LockAlive')
  <2>1. LockInv /\ (SlotMutex \/ LockAlive) /\ (NobodyDied => SlotMutex /\ LockAlive)
    BY <1>2, <1>4 DEF DeathInv
  <2>2. CASE \A p \in Process : ~ProcessDies(p)
    BY <1>3, <2>1, <2>2, LockStep DEF Safer
  <2>3. ASSUME NEW p \in Process, ProcessDies(p)
        PROVE  /\ LockInv' /\ (SlotMutex \/ LockAlive)' /\ ~NobodyDied'
    <3>1. /\ LockInv'
          /\ life'[p] = life[p] + 1 /\ \A q \in Process : q # p => life'[q] = life[q]
          /\ SlotMutex /\ ~Reclaiming(p) => SlotMutex'
          /\ LockAlive /\ lock # Me(p) => LockAlive'
      BY <2>1, <2>3, DeathKeeps
    <3>2. life'[p] > 0 /\ life'[p] = 1 /\ NobodyDied
      <4>1. life[p] \in Nat /\ life'[p] > 0
        BY <3>1 DEF DeathInv
      <4>2. life'[p] = 1
        BY <1>4, <4>1 DEF AtMostOneDeath
      <4>3. \A q \in Process : q # p => life[q] = 0
        BY <1>1, <1>4, <3>1, <4>1 DEF AtMostOneDeath, DeathInv
      <4>. QED
        BY <3>1, <4>1, <4>2, <4>3 DEF NobodyDied
    <3>3. SlotMutex /\ LockAlive
      BY <2>1, <3>2
    <3>4. lock = Me(p) => ~Reclaiming(p)
      BY <2>1 DEF LockInv, LockHeld, Downloading, Reclaiming
    <3>. QED
      BY <3>1, <3>2, <3>3, <3>4 DEF NobodyDied
  <2>. QED
    BY <2>2, <2>3
<1>. QED
  BY <1>1, <1>3, <1>4 DEF DeathInv, AtMostOneDeath, NobodyDied

\* With one death in all, at any moment, one process downloads at a time.  Two
\* deaths can end otherwise: a dead lock and a dead slot together let the slot
\* of a live reclaimer be moved away while it is about to take the dead lock,
\* and the next reclaimer takes the lock somebody has published meanwhile
\* (moveStaleReclaimSlot, reclaimStaleProvisioningLock).
THEOREM OneDownloaderAfterOneDeath == ProvisioningSpec => [](AtMostOneDeath => OneDownloader)
<1>1. ProvisioningInit => DeathInv
  BY LockStart DEF DeathInv, LockInv, LockTypes
<1>2. DeathInv /\ [ProvisioningNext]_provisioningVars => DeathInv'
  BY DeathStep
<1>3. DeathInv => (AtMostOneDeath => OneDownloader)
  BY HeldByOne DEF DeathInv
<1>. QED
  BY <1>1, <1>2, <1>3, PTL DEF ProvisioningSpec
================================================================================

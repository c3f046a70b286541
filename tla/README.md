# Verification of SuperScriber

SuperScriber records, transcribes and reviews audio under governance: a
recording is uploaded in resumable chunks, a worker process or an external
engine transcribes it, and reviewers and approvers take the transcript through a
review cycle recorded in a decision ledger. This directory holds TLA+ models of
the server and of the browser pages that drive it, the TLC runs that check them
on small instances, and proofs checked by TLAPS.

Contents: [system](#the-system) · [modules](#modules-and-the-code) ·
[runs](#runs) · [fairness](#fairness-and-deadlock) · [proofs](#proofs) ·
[disagreements](#where-code-and-documents-disagree) ·
[not modelled](#what-is-not-modelled) · [plan](#plan)

## The system

One Next.js server process with one SQLite file; a directory of temporary
uploads, one of media files and one of models; one or more Python workers;
browsers and an ingest-watch client. Node runs the server's handlers one at a
time and `better-sqlite3` is synchronous, so inside one process a handler that
does not `await` is one step. Operator scripts and the model downloader open
connections and files of their own.

| Component | Modules | State | What is hard | Correct when |
| --- | --- | --- | --- | --- |
| Casefile commands (`server/casefile`) | `Casefile`, `ReviewCycle` | `revisions`, `approvals`, three pointers in `recordings`, `admin_action_sessions` | pages and principals of any age; people deciding the same submission | the pointers agree, each submission is decided once by somebody entitled, no edit is lost, history stays |
| Assignments (`server/access`), account roles, record administration | `Casefile` | `recording_assignments`, `users.role`, the same rows | the role an assignment was made for changes; administration moves the pointers outside the commands | active work matches the role, approval ends it |
| Read models, inbox, exports (`casefile/read-model`, `work-inbox`, the export route) | `ReadModel` | none; the policy profile | what may be done is decided twice, by page and command; a file is built between check and hand-out | pages offer what commands take, no work is hidden, an approved file is approved |
| Casefile page (`components/casefile`) | `Workspace` | React state of the page | refreshes, lost answers, ended modes and sessions while somebody types | typed text survives; nothing is written over what was not shown |
| Transcription queue (`orchestration/internal-queue`, `worker/main.py`) | `TranscriptQueue` | `transcript_jobs`; worker process and heartbeat thread | lost answers, late requests, restarts under the same id, missed heartbeats | one claim at a time, a completion is final, every job settles |
| Mock and external engines, the polling page (`orchestration/service`, `dispatch`, the status poller) | `Orchestration` | job and session of a recording; the page's polls | callbacks and polls out of order; dispatch that fails after the upload | one draft, a failed dispatch is shown, the page rests only on a result |
| Model provisioning (`server/models`) | `Provisioning` | lock, reclaim slot, staging and model directories | several processes, no shared memory, crashes at every system call | one downloader at a time |
| Ingest (`server/ingest`, `domain/workflow`, `scripts/ingest-watch-entry`) | `Ingest` | `ingestion_sessions`, temporary and media files | files are outside the transaction; crashes; stray and repeated requests | no byte is missing, a verified recording has its media, losses are reconciled |
| Upload page and recorder (`components/ingest`) | `IngestPage`, `Capture` | React state, one note in local storage, `MediaRecorder` generations | uploads go on in the background; prompts answered after the user left | what is reported received is stored; one recording per file; no hidden microphone |
| Store (`server/store`, `server/db/transaction`) | `StateStore` | every table, `app_state_meta.state_version` | several connections | no update is overwritten, no torn read |
| Accounts, sessions, password reset (`server/auth`) | `Accounts` | `users`, `auth_sessions`, `password_reset_tokens` | passwords are hashed outside the transaction | accepted sessions have lived through no change of role or password; a deactivation holds; an administrator remains |
| Federated identity | `Federation` | `external_identities` | linking, retiring and importing again | a subject never changes hands |
| Emergency access | `Emergency` | challenges and counts in memory; keys, codes, ceremonies, activations | two browsers, crashes between statements | a proof opens at most one session |
| Supervision and deployment scripts | — | — | — | — |

Components meet in shared rows. Ingest creates a recording with a queued job and
marks it verified; the queue hands it to a worker, or the engines take it, and
the completion writes revision 1 and the current pointer; from there the
casefile commands own the pointers. Ingest and the queue's heartbeat, completion
and failure go through the store's whole-state write; commands, role changes and
the claim are governed transactions on their rows; record administration uses
plain ones. Account changes reach the casefile as requests whose principal is
out of date.

`PROJECT.json` lists the hazards at their lines with the properties that cover
them, and maps every definition to the lines it models.

## Modules and the code

An operator whose name contains an underscore is a seeded fault: the definition
below it with one slip a change to the code could make. No specification uses
it. Put in that definition's place it makes one property fail, which shows that
the property depends on the code it is about.

### Casefile (one recording, all accounts)

- `revisions`, `count`, `current`, `pending`, `approved`: rows of `revisions` by
  version and the recording's three pointers; 0 is null. A revision keeps its
  state, the revision it is based on, the one its author had loaded (`seen`),
  who made it and who submitted it. Its text is abstracted: all that matters to
  the properties is whose text it continues.
- `decisions`: rows of `approvals`. `active`, `completed`: assignments. `mode`:
  the open action-mode session of an administrator; "lapsed" is an open row
  whose thirty minutes are over.
- `role` is the account's role now, `principal` the role carried by its request
  in flight: `Authenticate` brings it up to date at any later moment.
- `health` joins the integrity and job states as far as commands read them.
- Each command in `commands.ts` is an action with the same name, its gate
  (`AsReviewer`, `AsApprover`), its optimistic assertion (`DraftIsCurrent`,
  `PendingIsCurrent`, `ApprovedIsCurrent`) and every row it writes. The revision
  the client names, `seen`, is any that ever existed.
- Written elsewhere: `Recover`, `Purge`, `ResetLedger` (administration),
  `Assign`, `Unassign`, `Completing` (access), `ChangeRole` (account roles),
  `DeliverTranscript`, `IngestFails`, `IngestResumes` (queue, ingest), and
  `RewriteState`: the foreign-key effect of any whole-state write.

`ReviewCycle` is what the casefile promises its readers: text is revised only
between reviews, a submission has one author, and what is released is the
edition submitted. `Casefile` refines it, mapping the pointers to a phase.

### ReadModel (extends Casefile)

The inbox and the page are functions of the casefile's state, written from their
own code and not from the commands': `Capable` is `deriveCasefileCapabilities`,
`Selected` the revision a page shows, `Stage`, `InboxRow` and `Inbox` the work
list, `ModeOptions` the modes an administrator is offered. The properties compare
them with what the commands of `Casefile` accept. An export is two actions:
`AskExport` checks and starts building, `FinishExport` checks what the code
checks again. `exporters` is the policy profile.

### Workspace (one page and the server it talks to)

The server's side is reduced to what a page can tell: the current revision, its
stage, the action mode. `queue` is the router's line of server actions and
refreshes of one page; `answer` the first one's answer. Typed text is a set of
numbers, each in a field of its own, so that a piece of text cannot be replaced
by another; the page's booleans are those of the component. `OthersAct`,
`ModeEnds`, `SessionEnds`,
`AccessEnds` and `AnswerLost` are what may go wrong. The text that a
save's answer replaces while it was being typed is put down in `given_up`, and so
is the text of a page that a refresh takes away: to the sign-in page without a
session, to the work list or an error page once the casefile is closed to the user
(`granted`, `AccessEnds`, `ServePage`, `ReceiveAway`). Both are losses of the code
that `TypedTextSurvives` names as exceptions. An exit from an action mode that the
server has ended already is refused, and the page takes it for the loss of the mode
(`Verdict` "mode", `handleActionModeLoss`).

### TranscriptQueue (jobs and workers)

- `job`: state, owner, attempts, whether the last heartbeat is older than the
  window, the attempt the progress shown was measured in, and the attempt whose
  text is the output. The server compares worker ids only; attempts in requests
  are kept to state properties.
- `task`: a worker works, then waits for its completion to be answered
  ("completing") or its failure ("failing"). A refused or unanswered completion
  is followed by a failure report, as in `process_job`; after the failure report
  it lets go whatever came of it. The heartbeat thread runs all the while.
- `posts`: requests sent and not handled. A worker may stop waiting for one and
  it is handled later. `Serve` is the handler: heartbeat (`Revived`),
  completion (`Completed`), failure (`FailedRow`), or a refusal.
- `UploadVerified`, `UploadFails` and `Purge` are what ingest and administration
  do to a job.

### Orchestration (one recording on the mock or an external engine)

`Settle` is a read of the synchronized state: the mock engine's steps
(`VerificationStep`, `TranscriptStep`) for as much time as has passed (`Tick`),
and the first draft when it is due. The external engine is sent the recording
once after finalization (`DispatchSent`, `DispatchAnswered`, `DispatchFails`,
`DispatchSkipped`) and its callbacks stay on `wire`, from which any may arrive any
number of times. The page sends polls without waiting for earlier ones.
`FinalizedAgain` is a finalize that arrives after another one moved the temporary
file, at any time: it runs `failUploadSession` on the same rows, so it overwrites the
note of a failed dispatch and fails a job of the mock engine for good. The two
properties say what is left to show then. (`UploadFails` is the same event in
`TranscriptQueue`, `HandleFinalize` in `Ingest`.)
Recordings of older state files, which lack rows, are initial states.

### Provisioning (processes and one model directory)

An action is a stretch of system calls between which no other process can change
what they read. `lock` and `slot` are the lock directories with the owner file in
them; an owner is a process and one of its lives, and is dead once the process
has died. `PublishLock` to `ReleaseSlot` follow `acquireProvisioningLock`,
`reclaimStaleProvisioningLock` and the recovery of a stale reclaim slot. `robbed`
records that a reclaim which had read no lock renamed one away.

### Ingest (upload sessions, their files and their clients)

- `session`, `job`, `stored` are rows; `temp` and `media` are files, sequences of
  chunks where 0 is a hole. `client` follows the status it is told.
- Every handler first sweeps expired uploads (`Swept`, `SweptTemp`). A handler
  that throws, or a crash, takes the rows back but not the files: `HandleHalf` is
  a handler that died after its file operations, and a refused `HandleChunk`
  keeps the swept files with the old rows.
- `Stray` is another page of the same user sending a chunk or a finalize that is
  no longer due; `GiveUp` and `ArriveLate` a request that outlives its client's
  patience; `Day` the passing of the expiry time.

### IngestPage and Capture (the browser)

`IngestPage` runs the upload page against the handlers of `Ingest`. A run is one
submission: of one file, or of a batch that goes through its files. Leaving the
page does not stop a run (`here` becomes false), so two runs can be at one
session. `note` is the entry of local storage, which a visit asks the status of
(`checks`). It is assumed that no request takes a day (`PageDay`). `repeats`
holds the files for which the code does not promise one recording: those sent in
a batch, sent again after they were received or while an earlier submission waited
for its session or for a status, and those whose note another upload took away.

`Capture` is the recorder. A press of Start makes a generation, with a microphone
prompt, a recorder and tracks of its own; the browser answers the prompt, ends a
track or reports a stopped recorder at any time, also after the component has
released the generation.

### StateStore (writers on connections of their own)

A `Whole` writer is `withState`: two reads of the version around the reads of two
tables (they stand for all), a write conditional on the version, and both bounded
retries. A `Governed` writer is a governed transaction, a `Plain` one a
transaction that leaves the version alone. A table is the set of updates it
shows; a whole-state write replaces it by what the writer had read.

### Accounts, Federation, Emergency (one directory of accounts)

- A transaction is an action. An operation that hashes a password yields, so it
  is two actions with a row of `tasks` between them holding what it had read, like
  `CompleteResetBegin` and `CompleteResetFinish`. A sign-in is three: `SignInBegin`
  reads the account, `SignInFinish` is the transaction of `verifyLocalCredentials`
  after the hash, and `OpenSession` the row that the jwt callback writes some awaits
  later, where only the account's version is read. An institutional sign-in is
  `OidcSignIn` and `OpenSession`. `Restart` drops the tasks.
- A password is a generation and a change writes one that nobody has; `Disabled`
  and `NoPassword` match nothing. `ver` is `auth_version`. `due` stands for all
  time limits of a session or a link.
- `role`, `pw`, `proof` and `shown` of a session row and `pw` of a link are history.
  The first two are the account's when the row was written; `shown` is the password
  or role its caller was let in on, or `NONE` if the account changed between that
  check and the row. The registry does not read them; the properties do.
- `Federation` adds `identities`: import, retirement, relinking, admission and
  back-channel logout. `Emergency` adds custody of keys and codes, the proofs, the
  ceremony and the session it opens; its challenges and failure counts are lost
  by `EmergencyRestart`. Trading the ceremony takes four commits: `AuthorizeEmergency`
  only peeks, so two requests can hold one ceremony, `ConsumeCeremony` lets one of
  them go on, and `OpenEmergency` writes the session and then its activation, unless
  the reason is refused (`OpenEmergencyRefused`) or the process stops in between.
- `SystemNext` is the composition: an account step retires the identities of an
  account it removes in the same transaction (`RetiredWithAccount`).

## Runs

Parts that share no variable are checked in one run: a variable `part` or `end`,
chosen at the start, says which of them a behaviour moves. Inside a part
everything interleaves.

| Run | Parts and bounds | Shows |
| --- | --- | --- |
| `casefile_roles` (`MCReading`) | commands, or exports; an administrator, a reviewer, an approver; the reviewer may become an approver; 2 revisions | decided once, by somebody entitled then, never by the submitter; assignments follow roles and end with approval; pages offer what commands take, the inbox hides nothing, approved files are approved |
| `casefile_history` (`MCReview`) | the server: administrator (who can act in both roles) and reviewer, 3 revisions; or one page: 1 piece of text, 3 revisions, 2 calls waiting, 2 upsets | the pointers agree, no lost edit, closed revisions never change, refinement of `ReviewCycle`; text survives, writes go over what was shown |
| `casefile_uploader` | administrator and uploading approver, 1 revision | expected violation |
| `casefile_rewrite` | administrator and approver, 1 revision | expected violation |
| `queue_safety` (`MCTranscription`) | the queue: 1 job, 2 workers, 2 attempts, 2 mishaps; or the engines: 2 polls; or the models: 3 processes, 1 tier, 1 death | claims agree, one worker unless something went wrong, completion final; one draft, failed dispatch shown, page rests on its result; one downloader |
| `queue_liveness` | 1 job, 2 workers, 1 mishap | every verified recording settles |
| `queue_samples` | 1 worker, no mishap | expected violation |
| `ingest` (`MCIngest`) | 2 uploads of 2 chunks, 2 losses; the watch client with 2 harms, or the page with 2 files, 2 runs, 2 visits, 1 harm, or the recorder with 3 takes | no hole, media present, losses reconciled, received is stored, one recording per file, every upload of the watch client ends, no hidden microphone |
| `ingest_resume` | 1 upload | expected violation |
| `store` (`MCDatabase`) | the store: 2 whole, 3 governed, 1 plain writer, 3 tries; or the accounts: 2 accounts, 3 sessions, 2 links, 2 tasks, 2 subjects, 2 challenges, 1 code, 2 ceremonies, in one of the three authentication modes | no lost update, no torn read, errors only under real contention; sessions current and refused for good, deactivation holds, an administrator remains, links current, subjects reserved, proofs spent once |
| `store_plain` | 1 of each | expected violation |
| `provisioning_lock` | 3 processes, no crash | expected violation |

Why the bounds are enough to be interesting:

- `MaxRevision`. Two revisions allow submit, send back and decide again or
  approve, reopen and submit again, with a stale page of the first revision.
  A third is needed for two clients to branch from the same base and for a
  recovery of an old version; the history run has it, with fewer accounts.
- `RoleMoves` is the one change that can turn a submitter into a decider. The
  administrator is needed for action mode and recovery. While exports are
  explored roles and modes stay as they are: an export looks at the revision and
  at assignments only when it finishes.
- `MaxTyped`, `MaxRecordRevision`, `MaxQueue`, `MaxUpsets` let a page be two
  revisions behind, with a refresh waiting behind a save and two things gone
  wrong.
- `MaxAttempts` 2 (3 in the code) lets a job fail, be retried and run out.
  `MaxMishaps` 2 allows a crash of one worker while an answer of the other is
  late. A second job only adds an independent copy except for the order of
  claims, and makes the run too large.
- `MaxPolls` 2 lets a poll overtake another. `OnePage` keeps the page closed with
  an external engine, where the code lets it rest without a result (see below).
- `OneDeath`: three processes are needed for the lock to be taken while a second
  and a third one both judge it stale; one of them dies at any step. Nothing is
  explored after `robbed`, which `provisioning_lock` is about.
- `Size` 2 has a first chunk, which opens the file anew, and a later one, which
  writes into it. Two sessions are there for the sweep, which a request of one
  does to all. `MaxHarm` 2 allows a crash followed by a stray or late request;
  with the page `OneHarm` allows one day, crash or reload beside its losses.
- `MaxVisits` 2 is a page left and opened again over a run in the background.
  `MaxTakes` 3 has a generation released, one current and one asked for.
- `MaxTries` 3 in the store with four other writers lets a writer run out of
  tries.
- Two accounts let administrators act on each other; versions and passwords up to
  3 let a session, a link or a sign-in be one change old and then two.
  `LocalBound`, `FederatedBound` and `EmergencyBound` say in which mode which rows
  are used and trade requests in flight for versions, sessions and links: links and
  two requests in flight in local mode, subjects in the institutional one, proofs in
  dual mode. In the last of them the other operations are those of `CustodyStep`, and two
  requests in flight both hold a ceremony: they race to consume it.

What bounds a run is named in the module. `InOrder` and `WritersInOrder` take rows
that differ in nothing in order, `Seen` tells rows that are over apart only as far
as a property asks, and symmetry is used in runs of safety properties only.

## Fairness and deadlock

`TranscriptQueue!Spec` assumes that an idle worker polls and takes a job it may
claim (`main` loops for ever), that the engine comes to an end with a text or an
exception, that the server handles a request which was not lost, and that time
passes for a claim whose worker is gone. It does not assume that heartbeats get
through, that a worker stays up or that an upload is ever finalized.

`Ingest!Spec` assumes that a client with nothing on its way asks or creates (the
watcher retries on its next scan), and that a request neither lost nor late is
answered. Losses and harms are bounded by `MaxLost` and `MaxHarm`: an upload whose
every request is lost for ever does not end. In the composed run the fairness is
about the watch client; a user of the page need not come back.

The other modules assume none: people need not act, callbacks need not come and
a transaction may never be asked for.

`CHECK_DEADLOCK FALSE` stands where the system may really stop: all jobs settled
and nothing left to claim, all uploads at their end, all writers finished, the
downloads done, the rows of an instance used up. In the casefile runs somebody
can always act, and deadlock is checked.

## Proofs

The proofs hold for every value of the constants that satisfies the named
assumption of the module.

`Casefile_proofs`, under `CasefileAssumption` (roles are roles, the null account
is nobody, at least one revision fits):

- `Typing`: the type invariant. `Closing`, `Adding` and `Submitting` say what
  the three ways of changing the revision table preserve.
- `PointersCorrect`: `PointersAgree` is inductive together with the type
  invariant. Its strength is what makes it so: that the current revision is the
  newest and that exactly the pending revision is in `pending_approval` are
  what let `Recover` and `CloneDraft` close a revision without looking for
  others. A lemma per handler (`SaveDraftEffect`, `ApproveEffect`, ...) says what
  it does to the pointers; the theorem uses these.
- `LedgerCorrect`, `DecisionsCorrect`: `DecidedOnce` and `SeparationOfDuties`. The
  invariant is both with `PointersAgree`: a row about the pending revision can be
  no outcome, because outcomes record the state of their revision and the pending
  one is in `pending_approval`. So a new outcome is the first. `NothingRecorded`
  treats the steps that add no row and `RowRecorded`, which holds this argument,
  those that add one.
- `AssignmentsCorrect`, `ReviewEndsCorrect`: inductive as they stand. `Assign`
  looks at the role of now, `ChangeRole` at the active assignments, and approval
  ends them all.
- `HistoryCorrect`, `EditsCorrect`: `EveryWrite` says once what any step does to
  the table: it keeps the closed revisions and the lineage and adds at most one
  revision, based on the one its author had seen.
- `AuthorityCorrect`: `CompletionsNameReleases` (a revision that a completed
  assignment names was approved and stays so) is what makes the authority to
  reopen one that was earned on this revision.

- `CycleImplemented`: the casefile implements `ReviewCycle`. `PointersAgree` makes
  the cases of the refinement mapping exclude each other (`PhaseIs`); with that,
  `CycleStep` maps each handler to one abstract action (a recovery of a released
  casefile to its reopening) and every other step to a stutter.

`ReadModel_proofs`, under the same assumption:

- `ReadersOnlyRead`: the casefile with its readers implements the casefile, so
  everything above holds beside any pages and exports.
- `PagesCorrect`: `PagesMatchCommands` follows from the types and `PointersAgree`.
  `GrantsOf` lists what an account's access can be, `MembersMatch` and
  `AdministratorsMatch` compare the page with the commands for each.
- `InboxCorrect`: the inbox derives a stage from the recording's health and its
  pointers, the page from the revision. `ShowsWork` is what both take for granted:
  a casefile is ready exactly when it has a revision, and a current one that is
  not approved is a draft or pending.
- `ExportsCorrect`: from the second check, whatever happened since the first.

`Transcription_proofs` holds the proofs of the three ways a transcript comes about.
Of `TranscriptQueue`, under `QueueAssumption`:

- `Typing`: the type invariant.
- `ClaimsCorrect`: `ClaimsAgree` with `Attempted` (whoever speaks of a job, owner,
  worker or request, has claimed it at least once), by cases on what a step does
  to one row (`EveryRowStep`, `HandledRow`).
- `CompletionHolds`: a completed job is in nobody's hands by `ClaimsAgree`, so no
  report acts on it.
- `OneWorkerCorrect`: while `mishaps = 0` the invariant `Calm` holds: a worker at a
  job owns it (or the job is gone), no claim is stale, no two workers are at one
  job, and every report on its way is the only one its sender waits for.

Of `Orchestration`:

- `OneDraftForEachJob`, `FailedDispatchIsShown`, `MockPageRestsOnResult`: the
  invariant `OrchestrationInv` says that the two rows tell the recording's own copies
  of their states (`RowsAgree`), that only a job of the external engine is dispatched
  and only by an instance configured for it (`DispatchSafe`), and that whatever a
  page of the mock engine shows, or is still to be told, is a job under way, a
  completed one with its draft, or the failure of a repeated finalize that is on the
  recording now and stays there (`MockShown`). The last is what makes the order of
  the polls indifferent. Recordings of older state files, which lack the rows, satisfy
  it: `RowsAre` shows that the rows made up for them agree as well.

Of `Provisioning`, under `OwnerAssumption` (`NoOwner` is no owner), for any number of
processes, tiers and deaths:

- `OneDownloaderUnlessReclaimerDies`, `OneDownloaderUnlessOwnerDies`,
  `OneDownloaderAfterOneDeath`. `LockHeld` says that the lock is its owner's and that a
  process at a download holds it, unless the lock was `robbed`. It is kept as long as
  one of two arguments carries. `SlotMutex`: the reclaim slot is in the hands of the
  one live reclaimer, and the lock it is about to rename is still the dead owner's.
  `LockAlive`: every owner lives, so there is nothing to reclaim. A process that
  dies with the slot ends the first, one that dies with the lock the second
  (`Safer`), and a single death at any moment ends only one (`DeathInv`).
- `OneDownloader` alone is no theorem. With four processes TLC finds that one that
  died with the lock and one that died with the slot let two reclaimers in: the
  recovery of a stale slot moves aside whatever slot is there, also one that a live
  reclaimer has just taken. The second reclaimer then renames the lock that somebody
  has published since. The theorems' hypotheses are the boundary of that: two
  deaths, one of each kind.

`Ingest_proofs`, under `IngestAssumption`, for uploads of any size:

- `Typing`, `BytesCorrect` and `MediaCorrect`, from `IngestInv`: `ServerSound` says
  for each session what rows and files can be together, after any prefix of a
  handler's file operations; `ClientType` and `Bounds` are about the rest. A lemma
  per handler (`CreateKeeps`, `ChunkKeeps`, `FinalizeKeeps`, `CrashKeeps`) keeps it.
  `WrittenIs` is the one about files: a chunk written at the end of what is there
  leaves no hole.
- `LossesReconciled`: while `harm = 0` the invariant `Calm` holds. A session's one
  request asks for what its row has next (`Timely`), so it is granted
  (`TimelyHandled`); no row is old, so nothing is swept (`NothingSwept`); and a row
  that is uploading has as many bytes in its file as it counts, so a status never
  tells a client to start again.

`IngestPage_proofs`, under `PageAssumption` (`NoFile` is no session and no file) and
`IngestAssumption`, for any files, sessions, visits and runs in the background:

- `ReceivedCorrect`, `OneRecording`, from `PageInv`: what holds of the server
  (`ServerSound`), the types, `NamesSafe` (note, checks, runs and requests name the
  file their session was created for), `RowsSafe` and `OneLiving`.
- `RowsSafe` says why an upload that ended never comes back. A row that was
  interrupted or refused lacks what a finalize needs, and no request is under way
  or late for a session that is swept: under `PageDay` a request takes no day.
- `OneLiving` is the argument for one recording. Of a file's sessions that the page
  has heard of at most one has not ended; the note names it, or the file was
  reported received; at most one run is opening an upload of the file, and it opens
  that one.
- A step is described once from two sides, `ServerKept` (what becomes of rows and
  files) and `PageShape` (each run stays, advances, makes a session or goes on with
  the noted one). `PageKeeps` shows that these keep `PageInv`, and a lemma for each
  answer and each action shows that it has the shape.
- `MicrophoneCorrect`, about `Capture` under `CaptureAssumption`: the invariant
  `CaptureInv` adds that there is a current generation only while the form is set to
  record.

`Workspace_proofs`, for any amount of text, any queue of calls and any mishaps:

- `TextSurvives`, `NothingUnseenIsOverwritten`, from `WorkspaceInv`. `CallOk` is its
  heart: a call that waits has with it all the text that its answer will take from
  the page, unless that is in a revision or given up by then, and it names no newer
  revision than the one shown when it was made. `TextSafe` says that dialogs and
  casefiles that are no draft find no text, `ViewSafe` that the page believes in no
  newer revision than it shows, `AnswerSafe` that an answer is about the first call
  and brings a casefile at least as new as what is shown. `OrderSafe` orders casefiles
  by revision and stage (`Pos`): none that is on its way is ahead of the record. It is
  there for an exit that is refused late, which puts the page back to the casefile of
  its call: the page is then in no action mode and nothing can be typed or sent until
  a newer casefile arrives, and that is the exception in `CallOk` and `TextSafe`.
- `NothingUnseenIsOverwritten`: the server compares the revision a call names with
  the current one; by `CallOk` the one named is at most the one shown and by
  `ViewSafe` that is at most the current, so when they are equal it was shown.

`Accounts_proofs`, under `AccountsAssumption` and `EmergencyAssumption` (the null
value is no account and no code, a code is no challenge, one password generation
fits), about `SystemSpec`:
accounts, identities and emergency access over one database, every operation
against every other, where the run lets the operations of one part meet.

- `Effect` lists the few things a step can do to accounts, sessions and links: make
  a row, open a session, retire a version with its sessions (`Retired`), change the
  password alone (`Rehashed`), weaken sessions, issue a link or let one lapse,
  designate. One lemma per operation shows it has one of these (`SystemRight`); what
  follows argues about the effects and never about the operations again.
- `SystemRows`: types and references. Nothing refers to an account that does not
  exist, which is why making one takes no session or link along.
- `CurrentTheorem`, `RefusalTheorem`: the invariant `StandFor` says of an active
  session that its version is at most its account's and, when it is the account's,
  so are role and password, and what the caller was let in on unless `shown` is
  `NONE`. Whatever could make an account active again advances
  its version (`VersionsTell`), so a session that was refused stays behind.
- `AdminTheorem`: inductive as it stands, with the references.
- `DeactivationTheorem`: from `RemovedIsBarred`, that a removed account is no one its
  owner deactivated.
- `LinksTheorem`: `LinksStand`, one live link per account and its password the
  account's, or the account's password disabled.
- `SubjectsTheorem`: `OneLink`. `IdentitiesStep` says what any step keeps.
- `ProofsTheorem`: `Answering` (a challenge that is being answered is spent, and
  answered by one request), `IssuedOnce` (what a ceremony was issued for is used up),
  `Activating` (a request past the consumption is alone with its ceremony, which has
  opened nothing yet) and `OpenedOnce` (every emergency session has a consumed ceremony
  of its own). That a consumed ceremony has a session is not claimed: it need not.

`StateStore_proofs`, under `StoreAssumption` (finite, disjoint kinds of writer):

- `StoreCorrect`, `ReadsCorrect`: `NoLostUpdate` and `NoTornRead` for any number of
  writers. Tables read for one mutation agree only up to what plain writers did:
  those leave the version alone, so a read between them is accepted. The invariant
  adds `CopyIsTrue`: a copy is never from the future, and while its version is the
  stored one everything read into it so far is, up to plain writers, what the tables
  hold. `ReadingStep` treats all steps that only read, `AdvancingStep` all that
  advance the version and so make every copy stale.
- `ErrorsCorrect`: the invariant `Earned` counts: the version is the number of
  versioned writers that have finished, and every failed try of a writer was
  overtaken by one of them.

Every invariant and action property of the passing runs is stated by a theorem.
Only model-checked are `EveryJobSettles` and `EveryUploadEnds`: liveness under
fairness needs ENABLED, which is out of the prover's reach. `OneDownloader` is proved
under the restrictions on deaths named above, which the counterexample shows to be
necessary; the run has one death, the last theorem's case.

## Where code and documents disagree

The first six have a run that TLC ends with a counterexample.

1. `casefile_rewrite`: `writeState` deletes and re-inserts every revision with
   foreign keys on, and `completed_revision_id` is `ON DELETE SET NULL`. Any
   upload or heartbeat clears it in every completed assignment, after which the
   approver may not reopen what they approved (DESIGN.md:73).
2. `casefile_uploader`: the authority gates refuse the denials they name and
   `uploader_status_only` is none of them (DESIGN.md:91). It takes an account that
   has uploaded and has the role of a reviewer or approver.
3. `queue_samples`: claims are told apart by worker id alone and the worker
   reports a failure before stopping its heartbeats, so a sample of the old
   attempt can show in the new one (DESIGN.md:48).
4. `ingest_resume`: a crash between the move of the file and the commit leaves a
   session told to resume with nothing to resume (DESIGN.md:216). `EveryUploadEnds`
   shows that the client gets out of it, by failing the upload.
5. `store_plain`: recovery, deletion and ledger reset do not advance the state
   version, so a stale writer on another connection undoes them
   (CHANGELOG.md:128). Inside one server process handlers do not interleave; it
   needs a second process on the database.
6. `provisioning_lock`: a process that found the lock there and then gone goes on
   to reclaim what it takes for the same, absent, lock; between its comparison and
   its rename another process publishes a lock, and the rename takes that one away
   (docs/USER-GUIDE.md:283, "only one tier downloads at a time").

Met while modelling, without a run:

- The uploader's status page says "Draft review" from the first draft on, also
  when it is pending or approved (`read-model.ts`, against DESIGN.md:36).
- Under the profile `reviewable-approved-export` an administrator in reviewer mode
  is offered an export the route refuses (DESIGN.md:83).
- What is typed while a save is in flight is replaced by its answer; a save whose
  call is rejected leaves the page in "saving"; a page with unsaved text that
  refreshes after its session or its access ended loses the text. An exit from an
  action mode that is refused late puts the page back to an older casefile until the
  refresh behind it arrives.
- A finalize repeated after the upload was verified fails the recording
  (`failUploadSession`): a mock recording then rests without a draft, and the note
  of a failed dispatch is overwritten.
- Between the check of a password, or of a provider's claim, and the session's row an
  operator's script can transfer the designation, disable the password or retire the
  sessions; the row is then written with the new version, and the session is accepted
  (`verifyLocalCredentials` and `createAuthSession` commit apart). The model lets
  every operation come in between.
- An emergency ceremony is consumed before the session is opened: a crash, or on the
  key path a reason of the wrong length, spends it on nothing. So does a crash between
  the claim of a recovery code and its ceremony.
- The upload page's one note is cleared by a check or a batch that has nothing to
  do with it, after which the same file is uploaded as a second recording. So is a
  file that is submitted again from a reopened page while an earlier submission in
  the background waits for its session or for a status. Two sessions hide the
  latter; it takes a third, and came out of the proof.
- Two processes that died, one with the provisioning lock and one with the reclaim
  slot, let two others download (see the proofs).
- A crash between the commit of a finalize and the dispatch leaves a recording
  that was never sent to its external engine and says so nowhere.
- `createLocalUser` inserts an account with the authority its caller had before
  the hash; `MAX_ENROLLED_KEYS` is only looked at when an enrolment begins.

The models keep these behaviours: the exceptions in the properties' comments are
them.

## What is not modelled

- The content of transcripts, segment validation, speaker names and the rendering
  of exports: pure functions of the text. History tabs, audit views and filters.
- Token verification and role mapping of the identity provider, throttling and
  mail delivery: inputs of the operations that use them.
- `rotateBreakGlassPassword`, which only tests call.
- In the queue, `partial_result`, which no worker sends.
- In ingest, permanent deletion (it is in `Casefile` and `TranscriptQueue`) and
  leftovers of failed uploads on disk. Directory scanning and the done-set of the
  ingest watcher.
- The files of the diarization bundle, which no lock protects.
- The forms of the administration, account and setup pages: each sends one
  request, and the server's modules take requests in any order and of any age.
- Installation and supervision scripts.
- Wording, audit events and timestamps, except as "too old".

## Plan

Written, in this order, the most important behaviour first: `ReviewCycle`,
`Casefile`, `TranscriptQueue`, `Ingest`, `StateStore`, their proofs and the
refinement; then `Accounts`, `Federation`, `Emergency`, `Orchestration`,
`Provisioning`, `ReadModel`, `Workspace`, `IngestPage`, `Capture`, and the proofs of
the queue, ingest, the recorder, the readers and the accounts; last those of the
engines, the lock, the upload page, the workspace and the losses of ingest. None of
the modules has a RECURSIVE operator.

What would add most next: an abstract specification of a transcript job that the
queue and the engines both implement; the composition of `Ingest` and
`TranscriptQueue` on shared rows, where a finalize repeated while a worker is busy
meets a purge; and `OneRecordingPerFile` without its exceptions, once the page keeps a
note per file.

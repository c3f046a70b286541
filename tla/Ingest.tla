------------------------------- MODULE Ingest -------------------------------
(***************************************************************************)
(* Resumable uploads (server/ingest/service): the ingestion_sessions rows, *)
(* the temporary and the media files they stand for, and a client that     *)
(* follows the status it is given (scripts/ingest-watch-entry; the browser *)
(* page is IngestPage).  A handler runs in one transaction, but its file   *)
(* operations are not part of it: a crash, or a handler that throws, takes *)
(* back the rows and leaves the files.                                     *)
(*                                                                         *)
(* A file is the sequence of the chunks it holds; chunk 0 is a hole.  An   *)
(* operator with an underscore in its name is a seeded fault: the          *)
(* definition after it with one slip.  Nothing uses it.                    *)
(***************************************************************************)
EXTENDS Naturals, Sequences

CONSTANTS
  Sessions,  \* uploads, by their idempotency key
  NoFile,    \* the file does not exist
  Size,      \* bytesExpected, in chunks
  MaxLost,   \* bound: requests or answers lost
  MaxHarm    \* bound: crashes, late and stray requests, days of silence

ASSUME IngestAssumption ==
  /\ Size \in Nat \ {0}
  /\ MaxLost \in Nat /\ MaxHarm \in Nat
  /\ NoFile \notin Seq(0 .. Size)

VARIABLES
  session,  \* ingestion_sessions rows; the recordings row repeats their state
  job,      \* state of the recording's transcript job
  temp,     \* temporary upload files
  media,    \* files moved to the media directory
  stored,   \* media_path of the recording points at that file
  client,   \* what the watch client is doing about each of its uploads
  posts,    \* requests on their way
  lost, harm

rows == <<session, job, stored>>
vars == <<rows, temp, media, client, posts, lost, harm>>

SessionState == {"none", "uploading", "interrupted", "verified", "verification_failed"}
SessionRow == [state : SessionState, received : 0 .. Size,
               old : BOOLEAN]   \* updated_at is more than a day ago

Phase == {"asking", "creating", "sending", "finalizing", "done", "gone"}

Post == [to : Sessions, kind : {"create", "chunk", "finalize"}, at : 0 .. Size,
         late : BOOLEAN]        \* the client stopped waiting for the answer

File == UNION {[1 .. n -> 0 .. Size] : n \in 0 .. Size}

TypeOK ==
  /\ session \in [Sessions -> SessionRow]
  /\ job \in [Sessions -> {"none", "queued", "failed"}]
  /\ temp \in [Sessions -> File \cup {NoFile}]
  /\ media \in [Sessions -> File \cup {NoFile}]
  /\ stored \in [Sessions -> BOOLEAN]
  /\ client \in UNION {[W -> Phase] : W \in SUBSET Sessions}
  /\ posts \subseteq Post
  /\ lost \in 0 .. MaxLost /\ harm \in 0 .. MaxHarm

Init ==
  /\ session = [s \in Sessions |-> [state |-> "none", received |-> 0, old |-> FALSE]]
  /\ job = [s \in Sessions |-> "none"]
  /\ temp = [s \in Sessions |-> NoFile]
  /\ media = [s \in Sessions |-> NoFile]
  /\ stored = [s \in Sessions |-> FALSE]
  /\ \E W \in SUBSET Sessions : client = [s \in W |-> "asking"]
  /\ posts = {}
  /\ lost = 0 /\ harm = 0

Loss == lost < MaxLost /\ lost' = lost + 1 /\ UNCHANGED harm
Harm == harm < MaxHarm /\ harm' = harm + 1 /\ UNCHANGED lost
NoTrouble == UNCHANGED <<lost, harm>>

Upload == [i \in 1 .. Size |-> i]   \* the file as the client has it

-----------------------------------------------------------------------------
(* cleanupExpiredUploadsInState runs first in every handler *)

Expired(t) ==
  /\ session[t].old /\ session[t].state \in {"uploading", "interrupted"}
  /\ session[t].received < Size

Swept ==
  [t \in Sessions |-> IF Expired(t) THEN [session[t] EXCEPT !.state = "interrupted", !.old = FALSE]
                      ELSE session[t]]

SweptTemp == [t \in Sessions |-> IF Expired(t) THEN NoFile ELSE temp[t]]

\* buildSessionStatus, for a session row and its temporary file
NextAction_Unfinished(row, file) ==  \* fault: a verified session is an upload to go on with
  IF row.state = "verification_failed" \/ (row.state = "interrupted" /\ file = NoFile) THEN "restart"
  ELSE IF row.received = Size /\ file # NoFile THEN "finalize" ELSE "resume"

NextAction(row, file) ==
  IF row.state = "verification_failed" \/ (row.state = "interrupted" /\ file = NoFile) THEN "restart"
  ELSE IF row.received = Size /\ file # NoFile THEN "finalize"
  ELSE IF row.state = "verified" THEN "none" ELSE "resume"

-----------------------------------------------------------------------------
(* Handlers: what a request p asks for, and when it is refused *)

Takes_WithFile(p) ==  \* fault: the first chunk needs the file too
  /\ Swept[p.to].state \notin {"none", "verification_failed"}
  /\ p.at = Swept[p.to].received
  /\ SweptTemp[p.to] # NoFile

\* The guards of appendUploadChunk
Takes(p) ==
  /\ Swept[p.to].state \notin {"none", "verification_failed"}
  /\ p.at = Swept[p.to].received
  /\ SweptTemp[p.to] = NoFile => p.at = 0

MaxLen(f, n) == IF Len(f) > n THEN Len(f) ELSE n

\* writeSync at the offset; the first chunk opens the file anew.
Written(f, p) ==
  IF p.at = 0 THEN <<1>>
  ELSE [i \in 1 .. MaxLen(f, p.at + 1) |->
          IF i = p.at + 1 THEN i ELSE IF i <= Len(f) THEN f[i] ELSE 0]

Whole_Committed(s) == SweptTemp[s] # NoFile  \* fault

\* The checks of finalizeResumableUploadSession
Whole(s) ==
  /\ SweptTemp[s] # NoFile
  /\ Swept[s].received = Size /\ Len(SweptTemp[s]) = Size

Accepted(p) ==
  CASE p.kind = "create" -> TRUE
    [] p.kind = "chunk" -> Takes(p)
    [] p.kind = "finalize" -> Swept[p.to].state # "none" /\ Whole(p.to)

\* createResumableUploadSession; an existing session of the key is returned.
HandleCreate(p) ==
  LET fresh == Swept[p.to].state = "none"
  IN /\ session' = IF fresh THEN [Swept EXCEPT ![p.to].state = "uploading"] ELSE Swept
     /\ job' = IF fresh THEN [job EXCEPT ![p.to] = "queued"] ELSE job
     /\ temp' = IF fresh THEN [SweptTemp EXCEPT ![p.to] = <<>>] ELSE SweptTemp
     /\ UNCHANGED <<media, stored>>

HandleChunk(p) ==
  /\ IF Takes(p)
     THEN /\ session' = [Swept EXCEPT ![p.to] =
                           [state |-> "uploading", received |-> p.at + 1, old |-> FALSE]]
          /\ temp' = [SweptTemp EXCEPT ![p.to] = Written(@, p)]
     ELSE session' = session /\ temp' = SweptTemp
  /\ UNCHANGED <<job, media, stored>>

\* failUploadSession
Fail(s) ==
  /\ session' = [Swept EXCEPT ![s].state = "verification_failed", ![s].old = FALSE]
  /\ job' = [job EXCEPT ![s] = "failed"]
  /\ temp' = SweptTemp
  /\ UNCHANGED <<media, stored>>

\* finalizeResumableUploadSession.  It does not ask whether the session is
\* verified already.
HandleFinalize(p) ==
  LET s == p.to
  IN CASE Swept[s].state = "none" -> temp' = SweptTemp /\ UNCHANGED <<rows, media>>
       [] Swept[s].state # "none" /\ ~Whole(s) -> Fail(s)
       [] Swept[s].state # "none" /\ Whole(s) ->
            /\ session' = [Swept EXCEPT ![s].state = "verified", ![s].old = FALSE]
            /\ job' = [job EXCEPT ![s] = "queued"]
            /\ temp' = [SweptTemp EXCEPT ![s] = NoFile]
            /\ media' = [media EXCEPT ![s] = SweptTemp[s]]
            /\ stored' = [stored EXCEPT ![s] = TRUE]

Handle(p) ==
  CASE p.kind = "create" -> HandleCreate(p)
    [] p.kind = "chunk" -> HandleChunk(p)
    [] p.kind = "finalize" -> HandleFinalize(p)

\* The process dies in a handler, after its file operations, before its commit
\* (a creation commits first and makes its empty file afterwards).
HandleHalf_CommitFirst(p) ==  \* fault: rows before files
  CASE p.kind = "chunk" /\ Takes(p) ->
         /\ session' = [Swept EXCEPT ![p.to] =
                          [state |-> "uploading", received |-> p.at + 1, old |-> FALSE]]
         /\ temp' = SweptTemp /\ UNCHANGED <<job, media, stored>>
    [] OTHER -> temp' = SweptTemp /\ UNCHANGED <<rows, media>>

HandleHalf(p) ==
  CASE p.kind = "create" /\ Swept[p.to].state = "none" ->
         /\ session' = [Swept EXCEPT ![p.to].state = "uploading"]
         /\ job' = [job EXCEPT ![p.to] = "queued"]
         /\ temp' = SweptTemp /\ UNCHANGED <<media, stored>>
    [] p.kind = "chunk" /\ Takes(p) ->
         /\ temp' = [SweptTemp EXCEPT ![p.to] = Written(@, p)]
         /\ UNCHANGED <<rows, media>>
    [] p.kind = "finalize" /\ Swept[p.to].state # "none" /\ Whole(p.to) ->
         /\ media' = [media EXCEPT ![p.to] = SweptTemp[p.to]]
         /\ temp' = [SweptTemp EXCEPT ![p.to] = NoFile]
         /\ UNCHANGED rows
    [] OTHER -> temp' = SweptTemp /\ UNCHANGED <<rows, media>>

-----------------------------------------------------------------------------
(* The client *)

Request(s, kind, at) == [to |-> s, kind |-> kind, at |-> at, late |-> FALSE]

Sends(s, phase, kind, at, rest) ==
  /\ client' = [client EXCEPT ![s] = phase]
  /\ posts' = rest \cup {Request(s, kind, at)}

Settles(s, phase, rest) ==
  /\ client' = [client EXCEPT ![s] = phase]
  /\ posts' = rest

\* The client does what the status of its session says; with every byte sent
\* it finalizes.
Follow(s, row, file, rest) ==
  LET next == NextAction(row, file)
  IN \/ next = "none" /\ Settles(s, "done", rest)
     \/ next = "restart" /\ Settles(s, "gone", rest)
     \/ next = "resume" /\ row.received < Size
        /\ Sends(s, "sending", "chunk", row.received, rest)
     \/ next = "finalize" /\ Sends(s, "finalizing", "finalize", Size, rest)
     \/ next = "resume" /\ row.received = Size
        /\ Sends(s, "finalizing", "finalize", Size, rest)

Create(s) ==
  /\ s \in DOMAIN client /\ client[s] = "asking" /\ session[s].state = "none"
  /\ Sends(s, "creating", "create", 0, posts)
  /\ UNCHANGED <<rows, temp, media>> /\ NoTrouble

\* getResumableUploadSession, answered at once.
Ask(s) ==
  /\ s \in DOMAIN client /\ client[s] = "asking" /\ session[s].state # "none"
  /\ session' = Swept /\ temp' = SweptTemp
  /\ Follow(s, Swept[s], SweptTemp[s], posts)
  /\ UNCHANGED <<job, media, stored>> /\ NoTrouble

\* The request is handled and the client hears of it.  After a refusal it
\* asks for the status.
Answer(p) ==
  /\ p \in posts /\ ~p.late
  /\ Handle(p)
  /\ IF Accepted(p) THEN Follow(p.to, session'[p.to], temp'[p.to], posts \ {p})
     ELSE Settles(p.to, "asking", posts \ {p})
  /\ NoTrouble

LoseAnswer(p) ==
  /\ p \in posts /\ ~p.late
  /\ Handle(p) /\ Settles(p.to, "asking", posts \ {p})
  /\ Loss

LoseRequest(p) ==
  /\ p \in posts /\ ~p.late
  /\ Settles(p.to, "asking", posts \ {p})
  /\ UNCHANGED <<rows, temp, media>> /\ Loss

\* The client gives up after 30 seconds while the request is on its way ...
GiveUp(p) ==
  /\ p \in posts /\ ~p.late
  /\ Settles(p.to, "asking", (posts \ {p}) \cup {[p EXCEPT !.late = TRUE]})
  /\ UNCHANGED <<rows, temp, media>> /\ Harm

\* ... and it arrives after all.
ArriveLate(p) ==
  /\ p \in posts /\ p.late
  /\ Handle(p) /\ posts' = posts \ {p}
  /\ UNCHANGED client /\ NoTrouble

Crash(p) ==
  /\ p \in posts /\ ~p.late
  /\ HandleHalf(p) /\ Settles(p.to, "asking", posts \ {p})
  /\ Harm

\* Another page of the same user acts on a status that is no longer true.
Stray(s) ==
  /\ session[s].state # "none"
  /\ \E p \in {Request(s, "chunk", i) : i \in 0 .. (Size - 1)} \cup {Request(s, "finalize", Size)} :
       posts' = posts \cup {[p EXCEPT !.late = TRUE]}
  /\ UNCHANGED <<rows, temp, media, client>> /\ Harm

\* A day passes without a change to the session.
Day(s) ==
  /\ session[s].state # "none" /\ ~session[s].old
  /\ session' = [session EXCEPT ![s].old = TRUE]
  /\ UNCHANGED <<job, stored, temp, media, client, posts>> /\ Harm

Next ==
  \/ \E s \in Sessions : Create(s) \/ Ask(s) \/ Stray(s) \/ Day(s)
  \/ \E p \in posts :
       Answer(p) \/ LoseAnswer(p) \/ LoseRequest(p) \/ GiveUp(p) \/ ArriveLate(p) \/ Crash(p)

\* The client goes on until it has an end, and a request that is neither
\* lost nor late is answered.
Fairness ==
  \A s \in Sessions :
    /\ WF_vars(Create(s) \/ Ask(s))
    /\ WF_vars(\E p \in posts : p.to = s /\ Answer(p))

Spec == Init /\ [][Next]_vars /\ Fairness

-----------------------------------------------------------------------------
(* Properties *)

\* Crashes and resumptions leave no hole: every byte the server counted is in
\* the temporary file, in its place, so resuming from the last committed byte
\* is safe.  And whatever reached the media directory is the whole upload.
NoByteIsMissing ==
  \A s \in Sessions :
    /\ temp[s] # NoFile /\ session[s].state = "uploading" =>
         /\ Len(temp[s]) >= session[s].received
         /\ \A i \in 1 .. session[s].received : temp[s][i] = i
    /\ media[s] # NoFile => media[s] = Upload

\* A verified recording has its media, and its file never leaves it again: the
\* worker that claims the job finds what was uploaded.
VerifiedHasMedia ==
  \A s \in Sessions : session[s].state = "verified" =>
    stored[s] /\ media[s] = Upload /\ temp[s] = NoFile /\ job[s] = "queued"

\* docs/operators/ingest-watch.md: "Lost session-creation, chunk, and finalize
\* responses are reconciled": losing requests or answers costs nothing.  What
\* can cost the upload is a crash, a day's silence or a request that overtakes
\* its own retry.
LossesAreReconciled ==
  harm = 0 => \A s \in DOMAIN client :
    /\ client[s] # "gone"
    /\ client[s] = "done" => session[s].state = "verified"

\* Every upload of the watch client comes to an end it knows of.
EveryUploadEnds ==
  \A s \in Sessions : <>(s \in DOMAIN client => client[s] \in {"done", "gone"})

\* DESIGN.md, "Ingest": "On return the user gets exactly one of resume,
\* finalize, or start-again": who is told to resume has bytes left to send, and
\* the server takes them.
ResumeIsHonoured ==
  \A s \in Sessions :
    Swept[s].state # "none" /\ NextAction(Swept[s], SweptTemp[s]) = "resume" =>
      Swept[s].received < Size /\ Takes(Request(s, "chunk", Swept[s].received))
=============================================================================

----------------------------- MODULE IngestPage -----------------------------
(***************************************************************************)
(* The browser page that uploads files (components/ingest/ingest-flow and  *)
(* resumable-upload), against the server of Ingest.  The page submits one  *)
(* file or a batch; what it started goes on after the user has left for    *)
(* another page, and the one note in the browser's local storage is what a *)
(* later visit knows of it.  A run is one submission under way: it has one *)
(* request out, and what the answer says it does next.                     *)
(*                                                                         *)
(* The title and the other fields of the form, the announcements and the   *)
(* model tiers are left out; a recorded take is a file like any other.  An *)
(* operator with an underscore in its name is a seeded fault.              *)
(***************************************************************************)
EXTENDS Ingest, FiniteSets

CONSTANTS
  Files,     \* what the user has to upload
  Runs,      \* bound: submissions under way at a time
  MaxVisits  \* bound: how often the page is opened

ASSUME PageAssumption == NoFile \notin Sessions \cup Files

VARIABLES
  open,      \* the page is on the screen
  chosen,    \* files selected in the form
  busy,      \* transferBusy: the form takes nothing
  note,      \* superscriber.pendingIngest in local storage
  checks,    \* status requests of refreshPendingNotice, one per visit
  runs,      \* submissions under way
  visits,    \* how often the page was opened
  fileOf,    \* file each session was created for
  received,  \* files the user was told are received
  repeats    \* files the user may well have sent twice

form == <<open, chosen, busy>>
pageVars == <<form, note, checks, runs, visits, fileOf, received, repeats>>

NoNote == [to |-> NoFile, of |-> NoFile]
Idle == [step |-> "idle", to |-> NoFile, of |-> NoFile, at |-> 0, rest |-> <<>>,
         batch |-> FALSE, here |-> FALSE]

PageInit ==
  /\ open = FALSE /\ chosen = <<>> /\ busy = FALSE
  /\ note = NoNote /\ checks = {} /\ visits = 0
  /\ runs = [r \in Runs |-> Idle]
  /\ fileOf = [s \in Sessions |-> NoFile]
  /\ received = {} /\ repeats = {}

Serverside == <<rows, temp, media>>
NoServer == UNCHANGED Serverside

\* The note is taken away or written over by somebody who is not done with the
\* session it names: the user will have to start that file again.
Forgotten(s) == IF note # NoNote /\ note.to # s THEN {note.of} ELSE {}

-----------------------------------------------------------------------------
(* The page *)

\* A visit looks at the note and asks for the status of its session.
Visit ==
  /\ ~open /\ visits < MaxVisits
  /\ open' = TRUE /\ visits' = visits + 1
  /\ checks' = IF note = NoNote THEN checks ELSE checks \cup {note}
  /\ UNCHANGED <<chosen, busy, note, runs, fileOf, received, repeats>> /\ NoServer

InBackground(rs) == [r \in Runs |-> [rs[r] EXCEPT !.here = FALSE]]

Unmounted == open' = FALSE /\ chosen' = <<>> /\ busy' = FALSE

\* Another page of the application: the runs go on.
Leave ==
  /\ open /\ Unmounted
  /\ runs' = InBackground(runs)
  /\ UNCHANGED <<note, checks, visits, fileOf, received, repeats>> /\ NoServer

Kind(q) ==
  CASE q.step = "creating" -> "create"
    [] q.step = "sending" -> "chunk"
    [] q.step = "finalizing" -> "finalize"
    [] OTHER -> "status"

Asked(q) == Request(q.to, Kind(q), q.at)
Underway == {r \in Runs : runs[r].step # "idle"}
Changing == {r \in Underway : Kind(runs[r]) # "status"}

\* The tab is reloaded or closed: nobody waits for an answer any more, and a
\* request that is on its way arrives or does not.
Reload ==
  /\ Underway # {} \/ checks # {}
  /\ Unmounted
  /\ runs' = [r \in Runs |-> Idle] /\ checks' = {}
  /\ posts' = posts \cup {[Asked(runs[r]) EXCEPT !.late = TRUE] : r \in Changing}
  /\ UNCHANGED <<note, visits, fileOf, received, repeats>> /\ NoServer

Choice == {<<f>> : f \in Files} \cup {<<f, g>> : f \in Files, g \in Files}

ChooseFiles ==
  /\ open /\ ~busy
  /\ \E fs \in Choice :
       /\ Len(fs) = 2 => fs[1] # fs[2]
       /\ chosen' = fs
  /\ UNCHANGED <<open, busy, note, checks, runs, visits, fileOf, received, repeats>> /\ NoServer

-----------------------------------------------------------------------------
(* What a run does next: r is the run, its request has been answered *)

Goes(r, step, at) == [runs EXCEPT ![r].step = step, ![r].at = at]
Shows(r, on) == busy' = (IF runs[r].here THEN on ELSE busy)
Stays == UNCHANGED <<open, chosen>>

\* createSession: the request is sent; the session gets an id of its own.
Creates(r, f, rest, batch, here) ==
  LET unused == {s \in Sessions : fileOf[s] = NoFile}
      s == CHOOSE x \in unused : TRUE
  IN /\ unused # {}
     /\ fileOf' = [fileOf EXCEPT ![s] = f]
     /\ runs' = [runs EXCEPT ![r] = [step |-> "creating", to |-> s, of |-> f, at |-> 0,
                                     rest |-> rest, batch |-> batch, here |-> here]]

\* finishDurableUpload, for a run or for a check: the page goes elsewhere.
Finishes(s, f, rs) ==
  /\ note' = NoNote
  /\ repeats' = repeats \cup Forgotten(s)
  /\ received' = received \cup {f}
  /\ runs' = InBackground(rs) /\ Unmounted
  /\ UNCHANGED fileOf

Interrupted(r) ==
  /\ runs' = [runs EXCEPT ![r] = Idle]
  /\ Shows(r, FALSE) /\ Stays
  /\ UNCHANGED <<fileOf, received>>

\* The next file of a batch, or its end, which takes the note with it.
NextOfBatch(r, told) ==
  LET q == runs[r]
  IN /\ received' = received \cup told
     /\ \/ /\ q.rest # <<>>
           /\ Creates(r, Head(q.rest), Tail(q.rest), TRUE, q.here)
           /\ UNCHANGED <<form, note, repeats>>
        \/ /\ q.rest = <<>>
           /\ runs' = [runs EXCEPT ![r] = Idle]
           /\ note' = NoNote /\ repeats' = repeats \cup Forgotten(NoFile)
           /\ chosen' = (IF q.here THEN <<>> ELSE chosen)
           /\ Shows(r, FALSE)
           /\ UNCHANGED <<open, fileOf>>

\* uploadChunks and finalizeUpload, from a status with that many bytes.
Transfers(r, got) ==
  /\ runs' = IF got < Size THEN Goes(r, "sending", got) ELSE Goes(r, "finalizing", Size)
  /\ Stays
  /\ UNCHANGED <<fileOf, received>>

Loaded(r, next, got) ==
  LET q == runs[r]
  IN \/ /\ next = "restart"
        /\ note' = NoNote /\ repeats' = repeats \cup Forgotten(q.to)
        /\ Creates(r, q.of, <<>>, FALSE, q.here)
        /\ UNCHANGED <<form, received>>
     \/ next = "none" /\ Finishes(q.to, q.of, [runs EXCEPT ![r] = Idle])
     \/ next \in {"resume", "finalize"} /\ Transfers(r, got)
        /\ Shows(r, TRUE) /\ UNCHANGED <<note, repeats>>

NoteAfterCreate_Unwritten(q) == note  \* fault: the page trusts its memory

\* writePendingIngest; a batch writes nothing
NoteAfterCreate(q) == IF q.batch THEN note ELSE [to |-> q.to, of |-> q.of]

Created(r) ==
  LET q == runs[r]
  IN /\ note' = NoteAfterCreate(q)
     /\ repeats' = repeats \cup (IF q.batch THEN {} ELSE Forgotten(q.to))
     /\ Transfers(r, 0)
     /\ Shows(r, TRUE)

Sent(r, got) ==
  /\ Transfers(r, got)
  /\ IF got < Size \/ runs[r].batch THEN UNCHANGED busy ELSE Shows(r, TRUE)
  /\ UNCHANGED <<note, repeats>>

Finalized(r) ==
  LET q == runs[r]
  IN IF q.batch THEN NextOfBatch(r, {q.of})
     ELSE Finishes(q.to, q.of, [runs EXCEPT ![r] = Idle])

\* isDurablyFinalized
Durable(next) == next = "none"

\* reconcileFinalizeResponseLoss
Rechecked(r, next) ==
  LET q == runs[r]
  IN \/ /\ next = "restart"
        /\ note' = NoNote /\ repeats' = repeats \cup Forgotten(q.to)
        /\ Interrupted(r)
     \/ Durable(next) /\ Finishes(q.to, q.of, [runs EXCEPT ![r] = Idle])
     \/ next # "restart" /\ ~Durable(next)
        /\ Interrupted(r) /\ UNCHANGED <<note, repeats>>

\* The request failed, or nobody knows.
Fails(r) ==
  LET q == runs[r]
  IN \/ q.batch /\ NextOfBatch(r, {})
     \/ ~q.batch /\ q.step = "finalizing"
        /\ runs' = Goes(r, "rechecking", 0) /\ Stays
        /\ UNCHANGED <<busy, note, fileOf, received, repeats>>
     \/ ~q.batch /\ q.step # "finalizing"
        /\ Interrupted(r) /\ UNCHANGED <<note, repeats>>

-----------------------------------------------------------------------------
(* Submitting, and requests under way *)

Matches_Name(f) == note # NoNote  \* fault: any file goes on with the noted upload

\* fileMatchesPending
Matches(f) == note # NoNote /\ note.of = f

\* handleSubmit.  The user repeats a file when told it was received, in a batch,
\* or while a submission of it still waits for its session or its status, of
\* which the form says nothing.
Submit(r) ==
  LET f == chosen[1]
      again == {runs[q].of : q \in {q \in Runs : runs[q].step \in {"creating", "loading"}}}
  IN /\ open /\ ~busy /\ chosen # <<>> /\ runs[r] = Idle
     /\ busy' = TRUE
     /\ \/ /\ Len(chosen) > 1
           /\ Creates(r, f, Tail(chosen), TRUE, TRUE)
           /\ repeats' = repeats \cup {chosen[i] : i \in DOMAIN chosen}
        \/ /\ Len(chosen) = 1
           /\ repeats' = repeats \cup ({f} \cap (received \cup again))
           /\ \/ ~Matches(f) /\ Creates(r, f, <<>>, FALSE, TRUE)
              \/ /\ Matches(f)
                 /\ runs' = [runs EXCEPT ![r] =
                               [Idle EXCEPT !.step = "loading", !.to = note.to, !.of = f, !.here = TRUE]]
                 /\ UNCHANGED fileOf
     /\ UNCHANGED <<open, chosen, note, checks, visits, received>> /\ NoServer

\* The routes of /api/ingest/sessions
PostSession(q) == q.step = "creating" /\ Handle(Asked(q))
PutChunk(q) == q.step = "sending" /\ Handle(Asked(q))
PostFinalize(q) == q.step = "finalizing" /\ Handle(Asked(q))
GetSession == session' = Swept /\ temp' = SweptTemp /\ UNCHANGED <<job, media, stored>>

Serves(q) ==
  \/ PostSession(q) \/ PutChunk(q) \/ PostFinalize(q)
  \/ q.step \in {"loading", "rechecking"} /\ GetSession

AnswerRun(r) ==
  LET q == runs[r]
      next == NextAction(session'[q.to], temp'[q.to])
      got == session'[q.to].received
  IN /\ q.step # "idle"
     /\ Serves(q)
     /\ \/ Kind(q) # "status" /\ ~Accepted(Asked(q)) /\ Fails(r)
        \/ Kind(q) # "status" /\ Accepted(Asked(q))
           /\ \/ q.step = "creating" /\ Created(r)
              \/ q.step = "sending" /\ Sent(r, got)
              \/ q.step = "finalizing" /\ Finalized(r)
        \/ q.step = "loading" /\ Loaded(r, next, got)
        \/ q.step = "rechecking" /\ Rechecked(r, next)
     /\ UNCHANGED <<checks, visits>>

\* The answer is lost, the request is lost or refused for want of a session,
\* or the server dies over it: to the page it is all the same.
LoseRun(r) ==
  /\ runs[r].step # "idle"
  /\ Serves(runs[r]) \/ NoServer
  /\ Fails(r)
  /\ UNCHANGED <<checks, visits>>

KillRun(r) ==
  /\ r \in Changing
  /\ HandleHalf(Asked(runs[r]))
  /\ Fails(r)
  /\ UNCHANGED <<checks, visits>>

\* refreshPendingNotice is answered, whatever the page is doing by then.
CheckAnswered(c) ==
  LET next == NextAction(Swept[c.to], SweptTemp[c.to])
  IN /\ c \in checks /\ checks' = checks \ {c}
     /\ GetSession
     /\ \/ next \in {"resume", "finalize"}
           /\ UNCHANGED <<form, note, runs, fileOf, received, repeats>>
        \/ next = "restart"
           /\ note' = NoNote /\ repeats' = repeats \cup Forgotten(c.to)
           /\ UNCHANGED <<form, runs, fileOf, received>>
        \/ Durable(next) /\ Finishes(c.to, c.of, runs)
     /\ UNCHANGED visits

\* showStoredUploadChecking opens the form again, also over a run.
CheckLost(c) ==
  /\ c \in checks /\ checks' = checks \ {c}
  /\ busy' = FALSE
  /\ UNCHANGED <<open, chosen, note, runs, visits, fileOf, received, repeats>> /\ NoServer

PageStep ==
  /\ UNCHANGED client
  /\ \/ /\ Visit \/ Leave \/ ChooseFiles \/ \E r \in Runs : Submit(r) \/ AnswerRun(r)
        /\ UNCHANGED posts /\ NoTrouble
     \/ /\ \E c \in checks : CheckAnswered(c)
        /\ UNCHANGED posts /\ NoTrouble
     \/ /\ (\E r \in Runs : LoseRun(r)) \/ \E c \in checks : CheckLost(c)
        /\ UNCHANGED posts /\ Loss
     \/ Reload /\ Harm
     \/ (\E r \in Runs : KillRun(r)) /\ UNCHANGED posts /\ Harm

\* No request takes a day.
PageDay(s) ==
  /\ \A r \in Underway : runs[r].to # s
  /\ \A p \in posts : p.to # s
  /\ Day(s)

PageNext ==
  \/ PageStep
  \/ UNCHANGED pageVars /\ ((\E p \in posts : ArriveLate(p)) \/ \E s \in Sessions : PageDay(s))

\* The server's clients but for the page are elsewhere.
PageSpec == Init /\ PageInit /\ DOMAIN client = {} /\ [][PageNext]_<<vars, pageVars>>

-----------------------------------------------------------------------------
(* Properties *)

\* What the page reports as received is in the media directory: the user may
\* delete the file.  The session itself may have been failed since by a second
\* finalization.
ReceivedIsStored ==
  \A f \in received : \E s \in Sessions : fileOf[s] = f /\ media[s] = Upload

\* However often a file is submitted over lost answers, reloads and runs in the
\* background, it becomes one recording.  Excepted are a file in a batch, one
\* submitted again after it was received or while an earlier submission waits
\* for its session or its status, and one whose note another upload took away.
OneRecordingPerFile ==
  \A f \in Files \ repeats :
    Cardinality({s \in Sessions : fileOf[s] = f /\ session[s].state = "verified"}) <= 1
=============================================================================

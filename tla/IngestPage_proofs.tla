--------------------------- MODULE IngestPage_proofs ---------------------------
(***************************************************************************)
(* Proofs about the upload page and the recorder in it, for any sessions,  *)
(* files, runs, visits, recordings and size of the upload, and any number  *)
(* of lost answers, late requests, reloads, crashes and days of silence.   *)
(***************************************************************************)
EXTENDS IngestPage, Capture, Ingest_proofs, FiniteSetTheorems

-----------------------------------------------------------------------------
(* What always holds of the page *)

Steps == {"idle", "creating", "loading", "sending", "finalizing", "rechecking"}
RunRow == [step : Steps, to : Sessions \cup {NoFile}, of : Files \cup {NoFile}, at : 0 .. Size,
           rest : Seq(Files), batch : BOOLEAN, here : BOOLEAN]

PageTypes ==
  /\ runs \in [Runs -> RunRow] /\ chosen \in Seq(Files)
  /\ fileOf \in [Sessions -> Files \cup {NoFile}]
  /\ received \subseteq Files
  /\ posts \subseteq Post /\ \A p \in posts : InRange(p)

\* What names a session names the file it was created for.
Names(n) == n.to \in Sessions /\ n.of \in Files /\ fileOf[n.to] = n.of

RunSafe(q) ==
  /\ q.step # "idle" => Names(q)
  /\ q.step = "sending" => q.at < Size
  /\ q.batch => q.of \in repeats /\ \A i \in DOMAIN q.rest : q.rest[i] \in repeats

NamesSafe ==
  /\ \A r \in Runs : RunSafe(runs[r])
  /\ note # NoNote => Names(note)
  /\ \A c \in checks : Names(c)
  /\ \A p \in posts : fileOf[p.to] # NoFile
  /\ \A s \in Sessions : fileOf[s] = NoFile => session[s].state = "none"

\* A request that may change session s is under way or on its way.
Busy(s) ==
  \/ \E r \in Runs : runs[r].to = s /\ runs[r].step \in {"creating", "sending", "finalizing"}
  \/ \E p \in posts : p.to = s

\* Nobody goes on with s: it is interrupted for good, or refused.
Ended(s) == session[s].state \in {"interrupted", "verification_failed"}

\* A row that was interrupted or refused cannot come back, and the rows that
\* requests are after are not swept.
RowSafe(s) ==
  /\ session[s].state = "none" => ~session[s].old
  /\ session[s].state = "interrupted" => temp[s] = NoFile
  /\ session[s].state = "verification_failed" =>
       temp[s] = NoFile \/ session[s].received # Size \/ Len(temp[s]) # Size

Unswept(s) ==
  /\ session[s].state # "interrupted"
  /\ session[s].old => session[s].received = Size

RowsSafe == \A s \in Sessions : RowSafe(s) /\ (Busy(s) => Unswept(s))

\* The page got beyond the creation of session s.
Heard(s) ==
  \/ note.to = s
  \/ \E r \in Runs : runs[r].to = s /\ runs[r].step \notin {"idle", "creating"}
  \/ \E p \in posts : p.to = s /\ p.kind # "create"
  \/ session[s].state = "verified"

Living(s, f) == fileOf[s] = f /\ Heard(s) /\ ~Ended(s)

Opening(r, f) == runs[r].of = f /\ runs[r].step \in {"creating", "loading"}

\* One session of the file can become its recording, and the note or the
\* message that the file was received keeps the page from making another.
OneLiving(f) ==
  /\ \A s, t \in Sessions : Living(s, f) /\ Living(t, f) => s = t
  /\ \A s \in Sessions : Living(s, f) => note.to = s \/ f \in received
  /\ \A q, r \in Runs : Opening(q, f) /\ Opening(r, f) => q = r
  /\ \A s \in Sessions, r \in Runs :
       Living(s, f) /\ Opening(r, f) => runs[r].step = "loading" /\ runs[r].to = s

PageInv ==
  /\ ServerSound /\ PageTypes /\ NamesSafe /\ RowsSafe /\ ReceivedIsStored
  /\ \A f \in Files \ repeats : OneLiving(f)

-----------------------------------------------------------------------------
(* What a step does to the server *)

\* What becomes of the row and the files of s
RowKept(s) ==
  /\ media[s] = Upload => media'[s] = Upload
  /\ Ended(s) => Ended(s)'
  /\ RowSafe(s)'
  /\ Busy(s) => Unswept(s)'
  /\ session[s].state = "none" /\ ~Busy(s) => session'[s].state = "none"

ServerKept ==
  /\ ServerSound'
  /\ \A s \in Sessions : RowKept(s) /\ (session'[s].state = "verified" => Heard(s))

\* At most the sweep.
OnlySweeps(s) ==
  /\ media'[s] = media[s]
  /\ \/ session'[s] = session[s] /\ temp'[s] \in {temp[s], SweptTemp[s]}
     \/ session'[s] = Swept[s] /\ temp'[s] = SweptTemp[s]

LEMMA BusyUnswept ==
  ASSUME PageInv, NEW s \in Sessions, Busy(s)
  PROVE  Swept[s] = session[s] /\ SweptTemp[s] = temp[s] /\ session[s].state # "interrupted"
<1>1. Unswept(s) /\ session[s].received \in Nat /\ Size \in Nat
  BY IngestAssumption DEF PageInv, RowsSafe, ServerSound, ServerType, SessionRow
<1>2. ~Expired(s)
  BY <1>1 DEF Unswept, Expired
<1>. QED
  BY <1>1, <1>2 DEF Swept, SweptTemp, Unswept

LEMMA SweepKeeps ==
  ASSUME PageInv, NEW s \in Sessions, OnlySweeps(s)
  PROVE  RowKept(s) /\ (session'[s].state = "verified" => session[s].state = "verified")
<1>1. /\ session[s] \in SessionRow /\ RowSafe(s)
      /\ Busy(s) => Unswept(s)
  BY DEF PageInv, RowsSafe, ServerSound, ServerType
<1>2. CASE Expired(s)
  <2>1. /\ Swept[s].state = "interrupted" /\ SweptTemp[s] = NoFile /\ ~Busy(s)
        /\ session[s].state \in {"uploading", "interrupted"}
    <3>1. /\ Swept[s] = [session[s] EXCEPT !.state = "interrupted", !.old = FALSE]
          /\ SweptTemp[s] = NoFile
      BY <1>2 DEF Swept, SweptTemp
    <3>2. ~Busy(s)
      BY <1>1, <1>2, IngestAssumption DEF Unswept, Expired, SessionRow
    <3>. QED
      BY <1>1, <1>2, <3>1, <3>2 DEF Expired, SessionRow
  <2>2. /\ session'[s].state \in {"uploading", "interrupted"}
        /\ session'[s].state = "uploading" \/ temp'[s] = NoFile
        /\ session[s].state = "interrupted" => session'[s].state = "interrupted"
    BY <1>1, <2>1 DEF OnlySweeps, RowSafe
  <2>. QED
    BY <2>1, <2>2 DEF OnlySweeps, RowKept, RowSafe, Ended
<1>3. CASE ~Expired(s)
  <2>1. session'[s] = session[s] /\ temp'[s] = temp[s] /\ media'[s] = media[s]
    BY <1>3 DEF OnlySweeps, Swept, SweptTemp
  <2>. QED
    BY <1>1, <2>1 DEF RowKept, RowSafe, Ended, Unswept
<1>. QED
  BY <1>2, <1>3

LEMMA OthersSwept ==
  ASSUME PageInv, NEW p \in Post, Handle(p) \/ HandleHalf(p), NEW s \in Sessions, s # p.to
  PROVE  OnlySweeps(s)
<1>1. /\ session \in [Sessions -> SessionRow] /\ media \in [Sessions -> File \cup {NoFile}]
      /\ Swept \in [Sessions -> SessionRow] /\ SweptTemp \in [Sessions -> File \cup {NoFile}]
  BY SweptIs DEF PageInv, ServerSound, ServerType
<1>2. /\ session' \in {session, Swept} \/ \E row : session' = [Swept EXCEPT ![p.to] = row]
      /\ temp' = SweptTemp \/ \E f : temp' = [SweptTemp EXCEPT ![p.to] = f]
      /\ media' = media \/ \E f : media' = [media EXCEPT ![p.to] = f]
  <2>1. CASE p.kind = "create"
    BY <2>1 DEF Handle, HandleHalf, HandleCreate, rows
  <2>2. CASE p.kind = "chunk"
    BY <2>2 DEF Handle, HandleHalf, HandleChunk, rows
  <2>3. CASE p.kind = "finalize"
    BY <2>3 DEF Handle, HandleHalf, HandleFinalize, Fail, rows
  <2>. QED
    BY <2>1, <2>2, <2>3 DEF Post
<1>3. session'[s] \in {session[s], Swept[s]}
  BY <1>1, <1>2
<1>4. temp'[s] = SweptTemp[s] /\ media'[s] = media[s]
  BY <1>1, <1>2
<1>. QED
  BY <1>3, <1>4 DEF OnlySweeps

\* What a request does to the session it is for
LEMMA AskedKeeps ==
  ASSUME PageInv, NEW p \in Post, InRange(p), Busy(p.to), Handle(p) \/ HandleHalf(p)
  PROVE  /\ RowKept(p.to)
         /\ session'[p.to].state = "verified" =>
              session[p.to].state = "verified" \/ p.kind = "finalize"
<1>. DEFINE s == p.to
<1>1. /\ s \in Sessions /\ Size \in Nat \ {0} /\ ServerSound
      /\ Swept[s] = session[s] /\ SweptTemp[s] = temp[s] /\ session[s].state # "interrupted"
  BY BusyUnswept, IngestAssumption DEF Post, PageInv
<1>2. /\ session[s] \in SessionRow /\ RowSafe(s) /\ Unswept(s)
      /\ Swept \in [Sessions -> SessionRow] /\ SweptTemp \in [Sessions -> File \cup {NoFile}]
      /\ media \in [Sessions -> File \cup {NoFile}]
  BY <1>1, SweptIs DEF PageInv, RowsSafe, ServerSound, ServerType
<1>3. ASSUME session'[s] = session[s], temp'[s] \in {temp[s], NoFile}, media'[s] \in {media[s], Upload}
      PROVE  RowKept(s) /\ (session'[s].state = "verified" => session[s].state = "verified")
  BY <1>1, <1>2, <1>3 DEF RowKept, RowSafe, Ended, Unswept
<1>4. ASSUME session'[s] \in SessionRow, session'[s].state = "uploading",
             session'[s].old => session'[s].received = Size,
             media'[s] = media[s], session[s].state # "verification_failed"
      PROVE  RowKept(s) /\ session'[s].state # "verified"
  BY <1>1, <1>2, <1>4 DEF RowKept, RowSafe, Ended, Unswept
<1>. HIDE DEF s
<1>5. CASE p.kind = "create"
  <2>1. CASE session[s].state # "none"
    <3>1. session' \in {session, Swept} /\ temp' = SweptTemp /\ media' = media
      BY <1>1, <1>5, <2>1 DEF Handle, HandleHalf, HandleCreate, rows, s
    <3>2. session'[s] = session[s] /\ temp'[s] = temp[s] /\ media'[s] = media[s]
      BY <1>1, <3>1
    <3>. QED
      BY <1>3, <3>2 DEF s
  <2>2. CASE session[s].state = "none"
    <3>1. CASE session' = [Swept EXCEPT ![s].state = "uploading"] /\ media' = media
      <4>1. session'[s] = [session[s] EXCEPT !.state = "uploading"]
        BY <1>1, <1>2, <3>1
      <4>2. /\ session'[s] \in SessionRow /\ session'[s].state = "uploading"
            /\ session'[s].old = session[s].old /\ session'[s].received = session[s].received
        BY <1>2, <4>1 DEF SessionRow, SessionState
      <4>. QED
        BY <1>2, <1>4, <2>2, <3>1, <4>2 DEF s, Unswept
    <3>2. session' = [Swept EXCEPT ![s].state = "uploading"] /\ media' = media
      BY <1>1, <1>5, <2>2 DEF Handle, HandleHalf, HandleCreate, rows, s
    <3>. QED
      BY <3>1, <3>2
  <2>. QED
    BY <2>1, <2>2
<1>6. CASE p.kind = "chunk"
  <2>1. CASE Takes(p)
    <3>1. /\ session[s].state \notin {"none", "verification_failed", "verified"}
          /\ p.at + 1 \in 0 .. Size
      BY <1>1, <1>6, <2>1, TakesIs DEF Takes, InRange, s
    <3>2. \/ /\ session' = [Swept EXCEPT ![s] =
                              [state |-> "uploading", received |-> p.at + 1, old |-> FALSE]]
             /\ media' = media
          \/ session' = session /\ media' = media
      BY <1>6, <2>1 DEF Handle, HandleHalf, HandleChunk, rows, s
    <3>3. session[s].state = "uploading"
      BY <1>1, <1>2, <3>1 DEF SessionRow, SessionState
    <3>4. CASE session' = session /\ media' = media
      BY <1>2, <1>4, <3>3, <3>4 DEF Unswept, s
    <3>5. CASE /\ session' = [Swept EXCEPT ![s] =
                              [state |-> "uploading", received |-> p.at + 1, old |-> FALSE]]
               /\ media' = media
      <4>. DEFINE n == p.at + 1
      <4>1. n \in 0 .. Size
        BY <3>1
      <4>. HIDE DEF n
      <4>2. session'[s] = [state |-> "uploading", received |-> n, old |-> FALSE]
        BY <1>1, <1>2, <3>5 DEF n
      <4>3. session'[s] \in SessionRow /\ session'[s].state = "uploading" /\ ~session'[s].old
        BY <4>1, <4>2 DEF SessionRow, SessionState
      <4>. QED
        BY <1>4, <3>3, <3>5, <4>3 DEF s
    <3>. QED
      BY <3>2, <3>4, <3>5
  <2>2. CASE ~Takes(p)
    <3>1. session' = session /\ temp' = SweptTemp /\ media' = media
      BY <1>6, <2>2 DEF Handle, HandleHalf, HandleChunk, rows
    <3>. QED
      BY <1>1, <1>3, <3>1 DEF s
  <2>. QED
    BY <2>1, <2>2
<1>7. CASE p.kind = "finalize"
  <2>1. CASE session[s].state = "none"
    <3>1. session' = session /\ temp' = SweptTemp /\ media' = media
      BY <1>1, <1>7, <2>1 DEF Handle, HandleHalf, HandleFinalize, rows, s
    <3>. QED
      BY <1>1, <1>3, <3>1 DEF s
  <2>2. CASE session[s].state # "none" /\ ~Whole(s)
    <3>1. \/ Fail(s)
          \/ session' = session /\ temp' = SweptTemp /\ media' = media
      BY <1>1, <1>7, <2>2 DEF Handle, HandleHalf, HandleFinalize, rows, s
    <3>2. CASE Fail(s)
      <4>1. /\ session'[s] = [session[s] EXCEPT !.state = "verification_failed", !.old = FALSE]
            /\ temp'[s] = temp[s] /\ media'[s] = media[s]
        BY <1>1, <1>2, <3>2 DEF Fail
      <4>2. /\ session'[s].state = "verification_failed" /\ session'[s].old = FALSE
            /\ session'[s].received = session[s].received
        BY <1>2, <4>1 DEF SessionRow
      <4>3. temp[s] = NoFile \/ session[s].received # Size \/ Len(temp[s]) # Size
        BY <1>1, <2>2 DEF Whole
      <4>. QED
        BY <1>2, <2>2, <4>1, <4>2, <4>3 DEF RowKept, RowSafe, Ended, Unswept, s
    <3>3. CASE session' = session /\ temp' = SweptTemp /\ media' = media
      BY <1>1, <1>3, <3>3 DEF s
    <3>. QED
      BY <3>1, <3>2, <3>3
  <2>3. CASE session[s].state # "none" /\ Whole(s)
    <3>1. /\ temp[s] = Upload /\ temp[s] # NoFile
          /\ session[s].received = Size /\ Len(temp[s]) = Size
      BY <1>1, <2>3, WholeIs, UploadIs DEF Whole
    <3>2. ~Ended(s)
      BY <1>1, <1>2, <3>1 DEF Ended, RowSafe
    <3>3. /\ media' = [media EXCEPT ![s] = SweptTemp[s]] /\ temp' = [SweptTemp EXCEPT ![s] = NoFile]
          /\ \/ session' = [Swept EXCEPT ![s].state = "verified", ![s].old = FALSE]
             \/ session' = session
      BY <1>1, <1>7, <2>3 DEF Handle, HandleHalf, HandleFinalize, rows, s
    <3>4. media'[s] = Upload /\ temp'[s] = NoFile
      BY <1>1, <1>2, <3>1, <3>3
    <3>5. CASE session' = session
      BY <1>3, <3>4, <3>5 DEF s
    <3>6. CASE session' = [Swept EXCEPT ![s].state = "verified", ![s].old = FALSE]
      <4>1. session'[s] = [session[s] EXCEPT !.state = "verified", !.old = FALSE]
        BY <1>1, <1>2, <3>6
      <4>2. session'[s].state = "verified" /\ session'[s].old = FALSE
        BY <1>2, <4>1 DEF SessionRow
      <4>. QED
        BY <1>7, <2>3, <3>2, <3>4, <4>2 DEF RowKept, RowSafe, Unswept, s
    <3>. QED
      BY <3>3, <3>5, <3>6
  <2>. QED
    BY <2>1, <2>2, <2>3
<1>. QED
  BY <1>5, <1>6, <1>7 DEF Post

\* A request of the page, on its way or under way
Outstanding(p) ==
  /\ p \in Post /\ InRange(p) /\ Busy(p.to)
  /\ p.kind = "finalize" => Heard(p.to)

LEMMA RequestKeeps ==
  ASSUME PageInv, NEW p, Outstanding(p), Handle(p) \/ HandleHalf(p)
  PROVE  ServerKept
<1>1. p \in Post /\ InRange(p) /\ Busy(p.to) /\ ServerSound
  BY DEF Outstanding, PageInv
<1>2. ServerSound'
  BY <1>1, HandleKeeps, CrashKeeps
<1>3. ASSUME NEW s \in Sessions
      PROVE  RowKept(s) /\ (session'[s].state = "verified" => Heard(s))
  <2>1. CASE s = p.to
    BY <1>1, <2>1, AskedKeeps DEF Outstanding, Heard
  <2>2. CASE s # p.to
    BY <1>1, <2>2, OthersSwept, SweepKeeps DEF Heard
  <2>. QED
    BY <2>1, <2>2
<1>. QED
  BY <1>2, <1>3 DEF ServerKept

LEMMA StatusKeeps ==
  ASSUME PageInv, GetSession \/ NoServer
  PROVE  ServerKept
<1>1. ServerSound'
  <2>1. CASE GetSession
    BY <2>1, OnlySwept DEF GetSession, PageInv
  <2>2. CASE NoServer
    BY <2>2 DEF NoServer, Serverside, rows, PageInv, ServerSound, ServerType, Sound, Prefix, Upload, File
  <2>. QED
    BY <2>1, <2>2
<1>2. ASSUME NEW s \in Sessions PROVE OnlySweeps(s)
  BY DEF GetSession, NoServer, Serverside, rows, OnlySweeps
<1>. QED
  BY <1>1, <1>2, SweepKeeps DEF ServerKept, Heard

\* A day passes only over a session that no request is after.
LEMMA DayKeeps ==
  ASSUME PageInv, NEW s \in Sessions, PageDay(s)
  PROVE  ServerKept
<1>1. /\ session' = [session EXCEPT ![s].old = TRUE] /\ session[s].state # "none"
      /\ UNCHANGED <<job, stored, temp, media>> /\ ~Busy(s)
  BY DEF PageDay, Day, Busy, Underway
<1>2. session[s] \in SessionRow /\ RowSafe(s) /\ session \in [Sessions -> SessionRow]
  BY DEF PageInv, RowsSafe, ServerSound, ServerType
<1>3. /\ session'[s] = [session[s] EXCEPT !.old = TRUE]
      /\ \A t \in Sessions : t # s => session'[t] = session[t]
  BY <1>1, <1>2
<1>4. /\ session'[s] \in SessionRow /\ session'[s].state = session[s].state
      /\ session'[s].received = session[s].received
  BY <1>2, <1>3 DEF SessionRow
<1>5. ServerSound'
  <2>1. ServerType'
    BY <1>1, <1>2, <1>3, <1>4 DEF PageInv, ServerSound, ServerType, File
  <2>2. ASSUME NEW t \in Sessions
        PROVE  Sound(session'[t], temp'[t], media'[t], stored'[t], job'[t])
    <3>1. Sound(session[t], temp[t], media[t], stored[t], job[t])
      BY DEF PageInv, ServerSound
    <3>. QED
      BY <1>1, <1>3, <1>4, <3>1 DEF Sound
  <2>. QED
    BY <2>1, <2>2 DEF ServerSound, Sound, Prefix, Upload
<1>6. RowKept(s) /\ (session'[s].state = "verified" => Heard(s))
  BY <1>1, <1>2, <1>4 DEF RowKept, RowSafe, Ended, Heard
<1>7. ASSUME NEW t \in Sessions, t # s
      PROVE  RowKept(t) /\ (session'[t].state = "verified" => Heard(t))
  BY <1>1, <1>3, <1>7, SweepKeeps DEF OnlySweeps, Heard
<1>. QED
  BY <1>5, <1>6, <1>7 DEF ServerKept

-----------------------------------------------------------------------------
(* What a step does to the page *)

Same(r) ==
  /\ runs'[r].step = runs[r].step /\ runs'[r].to = runs[r].to /\ runs'[r].of = runs[r].of
  /\ runs'[r].at = runs[r].at /\ runs'[r].rest = runs[r].rest /\ runs'[r].batch = runs[r].batch

Still(r) == Same(r) \/ (runs'[r].step = "idle" /\ ~runs'[r].batch)

\* A run goes on with its file, and a creation that was answered writes the
\* note.
Advances(r) ==
  /\ runs[r].step \notin {"idle", "rechecking"}
  /\ runs'[r].step \in {"sending", "finalizing", "rechecking"}
  /\ runs'[r].to = runs[r].to /\ runs'[r].of = runs[r].of
  /\ runs'[r].rest = runs[r].rest /\ runs'[r].batch = runs[r].batch
  /\ runs'[r].step = "sending" => runs'[r].at < Size
  /\ runs[r].step = "loading" => runs'[r].step # "rechecking" /\ Unswept(runs[r].to)'
  /\ runs[r].step = "creating" => runs[r].batch \/ note' = [to |-> runs[r].to, of |-> runs[r].of]

\* Nobody else is opening an upload of f.
OnlyOpening(r, f) == \A q \in Runs \ {r} : ~Opening(q, f)

\* A session is made where every other of the file has ended.
Makes(r) ==
  LET q == runs'[r]
  IN /\ q.step = "creating" /\ q.of \in Files
     /\ q.to \in Sessions /\ fileOf[q.to] = NoFile /\ fileOf' = [fileOf EXCEPT ![q.to] = q.of]
     /\ q.batch => q.of \in repeats' /\ \A i \in DOMAIN q.rest : q.rest[i] \in repeats'
     /\ q.of \notin repeats' =>
          /\ \A t \in Sessions : fileOf[t] = q.of /\ Heard(t) => Ended(t)'
          /\ OnlyOpening(r, q.of)

\* The noted upload is gone on with.
Reopens(r) ==
  LET q == runs'[r]
  IN /\ q.step = "loading" /\ note # NoNote /\ q.to = note.to /\ q.of = note.of /\ ~q.batch
     /\ q.of \notin repeats' => q.of \notin received /\ OnlyOpening(r, q.of)

RunsShape ==
  /\ runs' \in [Runs -> RunRow]
  /\ \A r \in Runs : Still(r) \/ Advances(r) \/ Makes(r) \/ Reopens(r)
  /\ \A q, r \in Runs : q = r \/ Still(q) \/ Still(r)
  /\ fileOf' # fileOf => \E r \in Runs : Makes(r)

NoteShape ==
  \/ note' = note
  \/ /\ note' = NoNote
     /\ note # NoNote => \/ note.of \in repeats' \cup received'
                         \/ \E t \in Sessions : t = note.to /\ Ended(t)'
  \/ /\ \E r \in Runs :
          /\ runs[r].step = "creating" /\ ~runs[r].batch /\ Advances(r)
          /\ note' = [to |-> runs[r].to, of |-> runs[r].of]
     /\ note # NoNote => note.to = note'.to \/ note.of \in repeats'

Late(r) == [Asked(runs[r]) EXCEPT !.late = TRUE]

PageShape ==
  /\ RunsShape /\ NoteShape
  /\ chosen' \in Seq(Files)
  /\ \A c \in checks' : c \in checks \/ (c = note /\ note # NoNote)
  /\ \A p \in posts' : p \in posts \/ \E r \in Changing : p = Late(r)
  /\ received \subseteq received' /\ repeats \subseteq repeats'
  /\ \A f \in received' \ received :
       f \in Files /\ \E s \in Sessions : fileOf[s] = f /\ media'[s] = Upload

\* The session a run makes is a new one, so nobody has heard of it.
LEMMA FilesStay ==
  ASSUME PageInv, RunsShape
  PROVE  /\ \A s \in Sessions : fileOf[s] # NoFile => fileOf'[s] = fileOf[s]
         /\ fileOf' \in [Sessions -> Files \cup {NoFile}]
<1>1. CASE fileOf' = fileOf
  BY <1>1 DEF PageInv, PageTypes
<1>2. CASE fileOf' # fileOf
  BY <1>2 DEF PageInv, PageTypes, RunsShape, Makes
<1>. QED
  BY <1>1, <1>2

LEMMA NamesKept ==
  ASSUME PageInv, PageShape, ServerKept
  PROVE  NamesSafe' /\ PageTypes'
<1>. USE PageAssumption
<1>1. /\ \A s \in Sessions : fileOf[s] # NoFile => fileOf'[s] = fileOf[s]
      /\ fileOf' \in [Sessions -> Files \cup {NoFile}] /\ fileOf \in [Sessions -> Files \cup {NoFile}]
      /\ repeats \subseteq repeats'
  BY FilesStay DEF PageShape, PageInv, PageTypes
<1>3. /\ \A r \in Runs : RunSafe(runs[r]) /\ runs[r] \in RunRow
      /\ note # NoNote => Names(note)
      /\ \A c \in checks : Names(c)
      /\ \A p \in posts : fileOf[p.to] # NoFile /\ p \in Post /\ InRange(p)
      /\ \A s \in Sessions : fileOf[s] = NoFile => session[s].state = "none"
  BY DEF PageInv, NamesSafe, PageTypes
<1>4. ASSUME NEW r \in Runs
      PROVE  RunSafe(runs[r])'
  <2>1. CASE Still(r)
    <3>1. CASE runs'[r].step = "idle" /\ ~runs'[r].batch
      BY <3>1 DEF RunSafe
    <3>2. CASE Same(r)
      <4>2. RunSafe(runs[r])
        BY <1>3
      <4>3. /\ runs'[r].step = runs[r].step /\ runs'[r].at = runs[r].at
            /\ runs'[r].batch = runs[r].batch /\ runs'[r].of = runs[r].of
            /\ runs'[r].rest = runs[r].rest /\ runs'[r].to = runs[r].to
        BY <3>2 DEF Same
      <4>4. Names(runs[r]) => Names(runs[r])'
        BY <1>1, <4>3 DEF Names
      <4>. QED
        BY <1>1, <4>2, <4>3, <4>4 DEF RunSafe, Names
    <3>. QED
      BY <2>1, <3>1, <3>2 DEF Still
  <2>2. CASE Advances(r)
    BY <1>1, <1>3, <2>2 DEF RunSafe, Advances, Names
  <2>3. CASE Makes(r)
    BY <1>1, <2>3 DEF RunSafe, Makes, Names
  <2>4. CASE Reopens(r)
    BY <1>1, <1>3, <2>4 DEF RunSafe, Reopens, Names
  <2>. QED
    BY <2>1, <2>2, <2>3, <2>4 DEF PageShape, RunsShape
<1>5. ASSUME note' # NoNote
      PROVE  Names(note)'
  <2>1. CASE note' = note
    BY <1>1, <1>3, <1>5, <2>1 DEF Names
  <2>2. CASE \E r \in Runs : runs[r].step = "creating" /\ note' = [to |-> runs[r].to, of |-> runs[r].of]
    BY <1>1, <1>3, <2>2 DEF Names, RunSafe
  <2>. QED
    BY <1>5, <2>1, <2>2 DEF PageShape, NoteShape
<1>6. \A c \in checks' : c.to \in Sessions /\ c.of \in Files /\ fileOf'[c.to] = c.of
  BY <1>1, <1>3 DEF PageShape, Names
<1>7. ASSUME NEW p \in posts'
      PROVE  fileOf'[p.to] # NoFile /\ p \in Post /\ InRange(p)
  <2>1. CASE p \in posts
    BY <1>1, <1>3, <2>1 DEF Post
  <2>2. ASSUME NEW r \in Changing, p = Late(r)
        PROVE  fileOf'[p.to] # NoFile /\ p \in Post /\ InRange(p)
    <3>1. /\ r \in Runs /\ runs[r].step \in {"creating", "sending", "finalizing"}
          /\ RunSafe(runs[r]) /\ runs[r].at \in 0 .. Size
      BY <1>3, <2>2 DEF Changing, Underway, Kind, RunRow, Steps
    <3>2. /\ runs[r].to \in Sessions /\ fileOf[runs[r].to] # NoFile
          /\ Kind(runs[r]) \in {"create", "chunk", "finalize"}
          /\ Kind(runs[r]) = "chunk" => runs[r].at < Size
      BY <3>1 DEF RunSafe, Names, Kind
    <3>3. p \in Post /\ InRange(p) /\ p.to = runs[r].to
      BY <2>2, <3>1, <3>2, RequestIs DEF Late, Asked, Request
    <3>. QED
      BY <1>1, <3>2, <3>3
  <2>. QED
    BY <2>1, <2>2 DEF PageShape
<1>8. ASSUME NEW s \in Sessions, fileOf'[s] = NoFile
      PROVE  session'[s].state = "none"
  <2>1. fileOf[s] = NoFile
    BY <1>1, <1>8
  <2>2. ~Busy(s)
    BY <1>3, <2>1 DEF Busy, RunSafe, Names
  <2>. QED
    BY <1>3, <2>1, <2>2 DEF ServerKept, RowKept
<1>9. NamesSafe'
  BY <1>4, <1>5, <1>6, <1>7, <1>8 DEF NamesSafe, Names
<1>10. PageTypes'
  BY <1>1, <1>7 DEF PageTypes, PageShape, RunsShape, InRange, PageInv
<1>. QED
  BY <1>9, <1>10

LEMMA RowsKept ==
  ASSUME PageInv, PageShape, ServerKept
  PROVE  RowsSafe'
<1>1. ASSUME NEW s \in Sessions, Busy(s)', ~Busy(s)
      PROVE  Unswept(s)'
  <2>1. CASE \E p \in posts' : p.to = s
    <3>1. PICK p \in posts' : p.to = s
      BY <2>1
    <3>2. PICK r \in Changing : p = Late(r)
      BY <1>1, <3>1 DEF PageShape, Busy
    <3>3. r \in Runs /\ runs[r].step \in {"creating", "sending", "finalizing"} /\ runs[r].to = s
      BY <3>1, <3>2 DEF Changing, Underway, Kind, PageInv, PageTypes, RunRow, Steps, Late, Asked, Request
    <3>. QED
      BY <1>1, <3>3 DEF Busy
  <2>2. CASE \E r \in Runs : runs'[r].to = s /\ runs'[r].step \in {"creating", "sending", "finalizing"}
    <3>1. PICK r \in Runs : runs'[r].to = s /\ runs'[r].step \in {"creating", "sending", "finalizing"}
      BY <2>2
    <3>2. ~Still(r) /\ ~Reopens(r)
      BY <1>1, <3>1 DEF Still, Same, Reopens, Busy
    <3>3. CASE Advances(r)
      <4>1. runs[r].step = "loading" /\ runs[r].to = s
        BY <1>1, <3>1, <3>3 DEF Advances, Busy, PageInv, PageTypes, RunRow, Steps
      <4>. QED
        BY <3>3, <4>1 DEF Advances
    <3>4. CASE Makes(r)
      <4>1. session'[s].state = "none" /\ RowSafe(s)'
        BY <1>1, <3>1, <3>4 DEF Makes, PageInv, NamesSafe, ServerKept, RowKept
      <4>. QED
        BY <4>1 DEF RowSafe, Unswept
    <3>. QED
      BY <3>2, <3>3, <3>4 DEF PageShape, RunsShape
  <2>. QED
    BY <1>1, <2>1, <2>2 DEF Busy
<1>. QED
  BY <1>1 DEF RowsSafe, ServerKept, RowKept

LEMMA StoredKept ==
  ASSUME PageInv, PageShape, ServerKept
  PROVE  ReceivedIsStored'
<1>1. \A s \in Sessions : fileOf[s] # NoFile => fileOf'[s] = fileOf[s]
  BY FilesStay DEF PageShape
<1>2. ASSUME NEW f \in received'
      PROVE  f \in Files /\ \E s \in Sessions : fileOf[s] = f /\ media'[s] = Upload
  <2>1. CASE f \in received
    BY <2>1 DEF PageInv, PageTypes, ReceivedIsStored, ServerKept, RowKept
  <2>2. CASE f \notin received
    BY <2>2 DEF PageShape
  <2>. QED
    BY <2>1, <2>2
<1>. QED
  BY <1>1, <1>2, PageAssumption DEF ReceivedIsStored, Upload

\* Who is heard of now was heard of before, or its creation was answered.
LEMMA HeardFrom ==
  ASSUME PageInv, PageShape, ServerKept, NEW s \in Sessions, NEW f \in Files \ repeats',
         Living(s, f)'
  PROVE  \/ Living(s, f)
         \/ /\ note'.to = s
            /\ \E r \in Runs : /\ runs[r].to = s /\ Opening(r, f) /\ runs[r].step = "creating"
                               /\ Advances(r) /\ ~Still(r)
<1>. USE PageAssumption
<1>1. /\ fileOf'[s] = f /\ Heard(s)' /\ ~Ended(s)
      /\ f \notin repeats /\ f # NoFile
  BY DEF PageShape, Living, ServerKept, RowKept
<1>2. /\ \A r \in Runs : RunSafe(runs[r]) /\ runs[r] \in RunRow
      /\ note # NoNote => Names(note)
      /\ \A p \in posts : fileOf[p.to] # NoFile
      /\ NoNote.to = NoFile
  BY DEF PageInv, NamesSafe, PageTypes, NoNote
<1>3. ASSUME NEW r \in Runs, Advances(r), runs[r].to = s, runs[r].step = "creating"
      PROVE  note'.to = s /\ Opening(r, f) /\ ~Still(r)
  <2>1. Names(runs[r]) /\ RunSafe(runs[r]) /\ runs[r].of \in Files
    BY <1>2, <1>3 DEF RunSafe, Names
  <2>2. fileOf'[s] = fileOf[s]
    BY <1>3, <2>1, FilesStay DEF Names, PageShape
  <2>3. runs[r].of = f
    BY <1>1, <1>3, <2>1, <2>2 DEF Names
  <2>4. ~runs[r].batch
    BY <1>1, <2>1, <2>3 DEF RunSafe
  <2>. QED
    BY <1>3, <2>3, <2>4 DEF Advances, Opening, Still, Same
<1>4. \/ Heard(s)
      \/ \E r \in Runs : Advances(r) /\ runs[r].to = s /\ runs[r].step = "creating"
  <2>1. CASE note'.to = s
    <3>1. CASE note' = note
      BY <2>1, <3>1 DEF Heard
    <3>2. CASE \E r \in Runs : /\ runs[r].step = "creating" /\ Advances(r)
                               /\ note' = [to |-> runs[r].to, of |-> runs[r].of]
      <4>1. PICK r \in Runs : /\ runs[r].step = "creating" /\ Advances(r)
                              /\ note' = [to |-> runs[r].to, of |-> runs[r].of]
        BY <3>2
      <4>2. runs[r].to = s
        BY <2>1, <4>1
      <4>. QED
        BY <4>1, <4>2
    <3>. QED
      BY <1>2, <2>1, <3>1, <3>2 DEF PageShape, NoteShape
  <2>2. CASE \E r \in Runs : runs'[r].to = s /\ runs'[r].step \notin {"idle", "creating"}
    <3>1. PICK r \in Runs : runs'[r].to = s /\ runs'[r].step \notin {"idle", "creating"}
      BY <2>2
    <3>2. CASE Still(r)
      BY <3>1, <3>2 DEF Still, Same, Heard
    <3>3. CASE Advances(r)
      BY <3>1, <3>3 DEF Advances, Heard
    <3>4. CASE Reopens(r)
      BY <3>1, <3>4 DEF Reopens, Heard
    <3>. QED
      BY <3>1, <3>2, <3>3, <3>4 DEF PageShape, RunsShape, Makes
  <2>3. CASE \E p \in posts' : p.to = s /\ p.kind # "create"
    <3>1. PICK p \in posts' : p.to = s /\ p.kind # "create"
      BY <2>3
    <3>2. CASE p \in posts
      BY <3>1, <3>2 DEF Heard
    <3>3. ASSUME NEW r \in Changing, p = Late(r)
          PROVE  Heard(s)
      <4>1. r \in Runs /\ runs[r].to = s /\ runs[r].step \in {"sending", "finalizing"}
        BY <1>2, <3>1, <3>3 DEF Changing, Underway, Kind, RunRow, Steps, Late, Asked, Request
      <4>. QED
        BY <4>1 DEF Heard
    <3>. QED
      BY <3>1, <3>2, <3>3 DEF PageShape
  <2>4. CASE session'[s].state = "verified"
    BY <2>4 DEF ServerKept
  <2>. QED
    BY <1>1, <2>1, <2>2, <2>3, <2>4 DEF Heard
<1>5. CASE Heard(s)
  <2>1. fileOf[s] # NoFile
    BY <1>2, <1>5 DEF Heard, Names, RunSafe, PageInv, NamesSafe
  <2>2. fileOf[s] = f
    BY <1>1, <2>1, FilesStay DEF PageShape
  <2>. QED
    BY <1>1, <1>5, <2>2 DEF Living
<1>. QED
  BY <1>3, <1>4, <1>5

LEMMA OneKept ==
  ASSUME PageInv, PageShape, ServerKept, NEW f \in Files \ repeats'
  PROVE  OneLiving(f)'
<1>. DEFINE Answered(r, s) == /\ runs[r].to = s /\ Opening(r, f) /\ runs[r].step = "creating"
                              /\ Advances(r) /\ ~Still(r)
<1>1. f \in Files /\ f \notin repeats /\ repeats \subseteq repeats' /\ received \subseteq received'
  BY DEF PageShape
<1>2. /\ \A s, t \in Sessions : Living(s, f) /\ Living(t, f) => s = t
      /\ \A s \in Sessions : Living(s, f) => note.to = s \/ f \in received
      /\ \A q, r \in Runs : Opening(q, f) /\ Opening(r, f) => q = r
      /\ \A s \in Sessions, r \in Runs :
           Living(s, f) /\ Opening(r, f) => runs[r].step = "loading" /\ runs[r].to = s
  BY <1>1 DEF PageInv, OneLiving
<1>3. ASSUME NEW s \in Sessions, Living(s, f)'
      PROVE  Living(s, f) \/ (note'.to = s /\ \E r \in Runs : Answered(r, s))
  BY <1>3, HeardFrom
<1>4. ASSUME NEW s \in Sessions, Living(s, f), NEW t \in Sessions, NEW r \in Runs
      PROVE  ~Answered(r, t)
  BY <1>2, <1>4
<1>5. ASSUME NEW s \in Sessions, NEW t \in Sessions, NEW q \in Runs, NEW r \in Runs,
             Answered(q, s), Answered(r, t)
      PROVE  s = t
  BY <1>2, <1>5
<1>6. ASSUME NEW s \in Sessions, NEW t \in Sessions, Living(s, f)', Living(t, f)'
      PROVE  s = t
  BY <1>2, <1>3, <1>4, <1>5, <1>6
<1>7. ASSUME NEW s \in Sessions, Living(s, f)'
      PROVE  note'.to = s \/ f \in received'
  <2>1. CASE Living(s, f) /\ note.to = s
    <3>1. note # NoNote /\ note.of = f /\ ~Ended(s)'
      BY <1>7, <2>1, PageAssumption DEF NoNote, PageInv, NamesSafe, Names, Living
    <3>. QED
      BY <1>1, <2>1, <3>1 DEF PageShape, NoteShape
  <2>. QED
    BY <1>1, <1>2, <1>3, <1>7, <2>1
<1>8. ASSUME NEW r \in Runs, Opening(r, f)'
      PROVE  \/ Still(r) /\ Opening(r, f) /\ runs'[r].step = runs[r].step /\ runs'[r].to = runs[r].to
             \/ ~Still(r) /\ OnlyOpening(r, f) /\ (Makes(r) \/ Reopens(r)) /\ runs'[r].of = f
  <2>1. CASE Still(r)
    BY <1>8, <2>1 DEF Still, Same, Opening
  <2>2. CASE ~Still(r)
    <3>1. Makes(r) \/ Reopens(r)
      BY <1>8, <2>2 DEF PageShape, RunsShape, Opening, Advances
    <3>. QED
      BY <1>8, <2>2, <3>1 DEF Makes, Reopens, Opening
  <2>. QED
    BY <2>1, <2>2
<1>9. ASSUME NEW q \in Runs, NEW r \in Runs, Opening(q, f)', Opening(r, f)'
      PROVE  q = r
  <2>1. q = r \/ Still(q) \/ Still(r)
    BY DEF PageShape, RunsShape
  <2>. QED
    BY <1>2, <1>8, <1>9, <2>1 DEF OnlyOpening
<1>10. ASSUME NEW s \in Sessions, NEW r \in Runs, Living(s, f)', Opening(r, f)'
       PROVE  runs'[r].step = "loading" /\ runs'[r].to = s
  <2>1. CASE Still(r)
    <3>1. Opening(r, f) /\ runs'[r].step = runs[r].step /\ runs'[r].to = runs[r].to
      BY <1>8, <1>10, <2>1
    <3>2. CASE Living(s, f)
      BY <1>2, <3>1, <3>2
    <3>3. ASSUME NEW q \in Runs, Answered(q, s)
          PROVE  FALSE
      <4>1. q = r
        BY <1>2, <3>1, <3>3
      <4>. QED
        BY <2>1, <3>3, <4>1
    <3>. QED
      BY <1>3, <1>10, <3>2, <3>3
  <2>2. CASE ~Still(r)
    <3>1. OnlyOpening(r, f) /\ (Makes(r) \/ Reopens(r)) /\ runs'[r].of = f
      BY <1>8, <1>10, <2>2
    <3>2. ASSUME NEW q \in Runs, Answered(q, s)
          PROVE  FALSE
      <4>1. q = r
        BY <3>1, <3>2 DEF OnlyOpening
      <4>. QED
        BY <3>1, <3>2, <4>1 DEF Makes, Reopens, Advances
    <3>3. Living(s, f)
      BY <1>3, <1>10, <3>2
    <3>4. CASE Makes(r)
      BY <1>10, <3>1, <3>3, <3>4 DEF Makes, Living
    <3>5. CASE Reopens(r)
      BY <1>2, <3>1, <3>3, <3>5 DEF Reopens
    <3>. QED
      BY <3>1, <3>4, <3>5
  <2>. QED
    BY <2>1, <2>2
<1>. QED
  BY <1>6, <1>7, <1>9, <1>10 DEF OneLiving

LEMMA PageKeeps ==
  ASSUME PageInv, PageShape, ServerKept
  PROVE  PageInv'
BY NamesKept, RowsKept, StoredKept, OneKept DEF PageInv, ServerKept

-----------------------------------------------------------------------------
(* What the page does with an answer *)

LEMMA OneRun ==
  ASSUME PageInv, NEW r \in Runs, runs' \in [Runs -> RunRow], \A q \in Runs \ {r} : Still(q),
         \/ Makes(r)
         \/ fileOf' = fileOf /\ (Still(r) \/ Advances(r) \/ Reopens(r))
  PROVE  RunsShape
BY DEF RunsShape

LEMMA RunIs ==
  ASSUME PageInv, NEW r \in Runs
  PROVE  /\ runs[r] \in RunRow /\ runs \in [Runs -> RunRow] /\ RunSafe(runs[r])
         /\ runs[r].step # "idle" => runs[r].to \in Sessions /\ runs[r].of \in Files
                                     /\ fileOf[runs[r].to] = runs[r].of
BY DEF PageInv, PageTypes, NamesSafe, RunSafe, Names

LEMMA IdleIs == Idle \in RunRow /\ Idle.step = "idle" /\ Idle.batch = FALSE
BY IngestAssumption DEF Idle, RunRow, Steps

\* The note is gone, and its file is one the user was told of or may repeat.
LEMMA NoteGone ==
  ASSUME PageInv, NEW s, note' = NoNote, repeats' = repeats \cup Forgotten(s),
         \/ s \in Sessions /\ fileOf[s] \in received'
         \/ \E t \in Sessions : t = s /\ Ended(t)'
         \/ s = NoFile
  PROVE  NoteShape
<1>1. CASE note = NoNote
  BY <1>1 DEF NoteShape
<1>2. CASE note # NoNote /\ note.to # s
  BY <1>2 DEF Forgotten, NoteShape
<1>3. CASE note # NoNote /\ note.to = s
  BY <1>3, PageAssumption DEF NoteShape, PageInv, NamesSafe, Names
<1>. QED
  BY <1>1, <1>2, <1>3

LEMMA CreatesIs ==
  ASSUME PageInv, NEW r \in Runs, NEW f \in Files, NEW rest \in Seq(Files),
         NEW batch, NEW here, batch \in BOOLEAN, here \in BOOLEAN,
         Creates(r, f, rest, batch, here)
  PROVE  /\ runs' \in [Runs -> RunRow] /\ \A q \in Runs \ {r} : Still(q)
         /\ runs'[r].step = "creating" /\ runs'[r].of = f
         /\ runs'[r].rest = rest /\ (runs'[r].batch => batch)
         /\ runs'[r].to \in Sessions /\ fileOf[runs'[r].to] = NoFile
         /\ fileOf' = [fileOf EXCEPT ![runs'[r].to] = f]
<1>. DEFINE unused == {s \in Sessions : fileOf[s] = NoFile}
            new == CHOOSE x \in unused : TRUE
            q2 == [step |-> "creating", to |-> new, of |-> f, at |-> 0,
                   rest |-> rest, batch |-> batch, here |-> here]
<1>1. unused # {} /\ fileOf' = [fileOf EXCEPT ![new] = f] /\ runs' = [runs EXCEPT ![r] = q2]
  BY DEF Creates
<1>2. new \in Sessions /\ fileOf[new] = NoFile
  BY <1>1
<1>. HIDE DEF new
<1>3. q2 \in RunRow /\ runs \in [Runs -> RunRow]
  BY <1>2, RunIs, IngestAssumption DEF RunRow, Steps
<1>4. /\ q2.step = "creating" /\ q2.to = new /\ q2.of = f /\ q2.rest = rest
      /\ q2.batch = batch
  OBVIOUS
<1>. HIDE DEF q2
<1>5. runs'[r] = q2 /\ \A q \in Runs \ {r} : runs'[q] = runs[q]
  BY <1>1, <1>3
<1>. QED
  BY <1>1, <1>2, <1>3, <1>4, <1>5 DEF Still, Same

LEMMA TransfersIs ==
  ASSUME PageInv, NEW r \in Runs, NEW got \in 0 .. Size, Transfers(r, got)
  PROVE  /\ runs' \in [Runs -> RunRow] /\ \A q \in Runs \ {r} : Still(q)
         /\ runs'[r].step \in {"sending", "finalizing"}
         /\ runs'[r].step = "sending" => runs'[r].at < Size
         /\ runs'[r].to = runs[r].to /\ runs'[r].of = runs[r].of
         /\ runs'[r].rest = runs[r].rest /\ runs'[r].batch = runs[r].batch
         /\ fileOf' = fileOf /\ received' = received /\ chosen' = chosen
<1>1. runs[r] \in RunRow /\ runs \in [Runs -> RunRow] /\ Size \in Nat
  BY RunIs, IngestAssumption
<1>2. PICK step \in {"sending", "finalizing"}, at \in 0 .. Size :
        /\ step = "sending" => at < Size
        /\ runs' = [runs EXCEPT ![r].step = step, ![r].at = at]
  <2>1. CASE got < Size
    BY <2>1 DEF Transfers, Goes
  <2>2. CASE ~(got < Size)
    <3>1. Size \in 0 .. Size /\ "finalizing" # "sending"
      BY <1>1
    <3>2. runs' = [runs EXCEPT ![r].step = "finalizing", ![r].at = Size]
      BY <2>2 DEF Transfers, Goes
    <3>. QED
      BY <3>1, <3>2
  <2>. QED
    BY <2>1, <2>2
<1>3. /\ runs'[r] = [runs[r] EXCEPT !.step = step, !.at = at]
      /\ \A q \in Runs \ {r} : runs'[q] = runs[q]
      /\ runs' = [runs EXCEPT ![r] = [runs[r] EXCEPT !.step = step, !.at = at]]
  BY <1>1, <1>2
<1>4. [runs[r] EXCEPT !.step = step, !.at = at] \in RunRow
  BY <1>1 DEF RunRow, Steps
<1>. QED
  BY <1>1, <1>2, <1>3, <1>4 DEF Still, Same, RunRow, Transfers, Stays

\* A run that ends, with the others in the background or as they were
LEMMA EndsIs ==
  ASSUME PageInv, NEW rs, rs = runs \/ \E r \in Runs : rs = [runs EXCEPT ![r] = Idle],
         runs' = rs \/ runs' = InBackground(rs)
  PROVE  runs' \in [Runs -> RunRow] /\ \A q \in Runs : Still(q)
<1>1. runs \in [Runs -> RunRow] /\ rs \in [Runs -> RunRow]
  BY IdleIs DEF PageInv, PageTypes
<1>2. ASSUME NEW q \in Runs
      PROVE  rs[q] = runs[q] \/ rs[q] = Idle
  BY <1>1
<1>3. CASE runs' = rs
  BY <1>1, <1>2, <1>3, IdleIs DEF Still, Same
<1>4. CASE runs' = InBackground(rs)
  <2>1. ASSUME NEW q \in Runs
        PROVE  /\ runs'[q] \in RunRow /\ Still(q)
    <3>1. runs'[q] = [rs[q] EXCEPT !.here = FALSE] /\ rs[q] \in RunRow
      BY <1>1, <1>4 DEF InBackground
    <3>2. /\ runs'[q] \in RunRow
          /\ runs'[q].step = rs[q].step /\ runs'[q].to = rs[q].to /\ runs'[q].of = rs[q].of
          /\ runs'[q].at = rs[q].at /\ runs'[q].rest = rs[q].rest /\ runs'[q].batch = rs[q].batch
      BY <3>1 DEF RunRow
    <3>. QED
      BY <1>2, <3>2, IdleIs DEF Still, Same
  <2>. QED
    BY <1>4, <2>1 DEF InBackground
<1>. QED
  BY <1>3, <1>4

LEMMA FinishShape ==
  ASSUME PageInv, NEW rs, rs = runs \/ \E r \in Runs : rs = [runs EXCEPT ![r] = Idle],
         NEW s \in Sessions, fileOf[s] \in Files, media'[s] = Upload,
         Finishes(s, fileOf[s], rs), posts' = posts, checks' \subseteq checks
  PROVE  PageShape
<1>1. runs' \in [Runs -> RunRow] /\ \A q \in Runs : Still(q)
  BY EndsIs DEF Finishes
<1>2. RunsShape
  BY <1>1 DEF RunsShape, Finishes
<1>3. NoteShape
  BY NoteGone DEF Finishes
<1>4. chosen' \in Seq(Files)
  BY DEF Finishes, Unmounted
<1>. QED
  BY <1>2, <1>3, <1>4 DEF PageShape, Finishes

LEMMA NextShape ==
  ASSUME PageInv, NEW r \in Runs, runs[r].batch, NEW told, NextOfBatch(r, told),
         \A f \in told : f \in Files /\ \E s \in Sessions : fileOf[s] = f /\ media'[s] = Upload,
         posts' = posts, checks' \subseteq checks
  PROVE  PageShape
<1>1. /\ runs[r].rest \in Seq(Files) /\ runs[r].here \in BOOLEAN
      /\ \A i \in DOMAIN runs[r].rest : runs[r].rest[i] \in repeats
      /\ chosen \in Seq(Files)
  BY RunIs DEF RunRow, RunSafe, PageInv, PageTypes
<1>2. received' = received \cup told
  BY DEF NextOfBatch
<1>3. CASE /\ runs[r].rest # <<>>
           /\ Creates(r, Head(runs[r].rest), Tail(runs[r].rest), TRUE, runs[r].here)
           /\ UNCHANGED <<form, note, repeats>>
  <2>. DEFINE f == Head(runs[r].rest)
              rest == Tail(runs[r].rest)
              here == runs[r].here
              batch == TRUE
  <2>1. f \in Files /\ rest \in Seq(Files) /\ f \in repeats /\ \A i \in DOMAIN rest : rest[i] \in repeats
    BY <1>1, <1>3
  <2>2. here \in BOOLEAN /\ batch \in BOOLEAN /\ Creates(r, f, rest, batch, here)
    BY <1>1, <1>3
  <2>. HIDE DEF f, rest, here, batch
  <2>3. /\ runs' \in [Runs -> RunRow] /\ \A q \in Runs \ {r} : Still(q)
        /\ runs'[r].step = "creating" /\ runs'[r].of = f
        /\ runs'[r].rest = rest
        /\ runs'[r].to \in Sessions /\ fileOf[runs'[r].to] = NoFile
        /\ fileOf' = [fileOf EXCEPT ![runs'[r].to] = f]
    BY <2>1, <2>2, CreatesIs
  <2>4. Makes(r)
    <3>1. repeats' = repeats
      BY <1>3
    <3>2. f \in repeats' /\ \A i \in DOMAIN runs'[r].rest : runs'[r].rest[i] \in repeats'
      BY <2>1, <2>3, <3>1
    <3>. QED
      BY <2>1, <2>3, <3>2 DEF Makes
  <2>5. RunsShape
    BY <2>3, <2>4, OneRun
  <2>6. NoteShape
    BY <1>3 DEF NoteShape
  <2>. QED
    BY <1>1, <1>2, <1>3, <2>5, <2>6 DEF PageShape, form
<1>4. CASE /\ runs[r].rest = <<>> /\ runs' = [runs EXCEPT ![r] = Idle]
           /\ note' = NoNote /\ repeats' = repeats \cup Forgotten(NoFile)
           /\ chosen' = (IF runs[r].here THEN <<>> ELSE chosen)
           /\ fileOf' = fileOf
  <2>1. runs' \in [Runs -> RunRow] /\ \A q \in Runs : Still(q)
    BY <1>4, EndsIs
  <2>2. RunsShape /\ NoteShape
    BY <1>4, <2>1, OneRun, NoteGone
  <2>3. chosen' \in Seq(Files)
    BY <1>1, <1>4
  <2>. QED
    BY <1>2, <1>4, <2>2, <2>3 DEF PageShape
<1>. QED
  BY <1>3, <1>4 DEF NextOfBatch

LEMMA InterruptedShape ==
  ASSUME PageInv, NEW r \in Runs, Interrupted(r), NoteShape, repeats \subseteq repeats',
         posts' = posts, checks' \subseteq checks
  PROVE  PageShape
<1>1. runs' \in [Runs -> RunRow] /\ \A q \in Runs : Still(q)
  BY EndsIs DEF Interrupted
<1>2. RunsShape
  BY <1>1, OneRun DEF Interrupted
<1>3. chosen' \in Seq(Files)
  BY DEF PageInv, PageTypes, Interrupted, Stays
<1>. QED
  BY <1>2, <1>3 DEF PageShape, Interrupted

LEMMA FailsShape ==
  ASSUME PageInv, NEW r \in Runs, runs[r].step # "idle", Fails(r),
         posts' = posts, checks' \subseteq checks
  PROVE  PageShape
<1>1. CASE runs[r].batch /\ NextOfBatch(r, {})
  BY <1>1, NextShape
<1>2. CASE /\ runs[r].step = "finalizing" /\ runs' = Goes(r, "rechecking", 0)
           /\ UNCHANGED <<open, chosen, busy, note, fileOf, received, repeats>>
  <2>1. runs[r] \in RunRow /\ runs \in [Runs -> RunRow] /\ 0 \in 0 .. Size
    BY RunIs, IngestAssumption
  <2>2. /\ runs'[r] = [runs[r] EXCEPT !.step = "rechecking", !.at = 0]
        /\ \A q \in Runs \ {r} : runs'[q] = runs[q]
        /\ runs' = [runs EXCEPT ![r] = [runs[r] EXCEPT !.step = "rechecking", !.at = 0]]
    BY <1>2, <2>1 DEF Goes
  <2>3. [runs[r] EXCEPT !.step = "rechecking", !.at = 0] \in RunRow
    BY <2>1 DEF RunRow, Steps
  <2>4. Advances(r)
    BY <1>2, <2>1, <2>2 DEF Advances, RunRow
  <2>5. runs' \in [Runs -> RunRow] /\ \A q \in Runs \ {r} : Still(q)
    BY <2>1, <2>2, <2>3 DEF Still, Same
  <2>6. RunsShape /\ NoteShape /\ chosen' \in Seq(Files)
    BY <1>2, <2>4, <2>5, OneRun DEF NoteShape, PageInv, PageTypes
  <2>. QED
    BY <1>2, <2>6 DEF PageShape
<1>3. CASE Interrupted(r) /\ UNCHANGED <<note, repeats>>
  BY <1>3, InterruptedShape DEF NoteShape
<1>. QED
  BY <1>1, <1>2, <1>3 DEF Fails, Stays

\* What the server's answers say of the session
LEMMA DurableIs ==
  ASSUME ServerSound', NEW s \in Sessions, NextAction(session'[s], temp'[s]) = "none"
  PROVE  media'[s] = Upload
<1>1. session'[s].state = "verified"
  BY DEF NextAction
<1>2. Sound(session'[s], temp'[s], media'[s], stored'[s], job'[s])
  BY DEF ServerSound, Sound, Prefix, Upload
<1>. QED
  BY <1>1, <1>2 DEF Sound

LEMMA RestartIs ==
  ASSUME NEW s, NextAction(session'[s], temp'[s]) = "restart"
  PROVE  Ended(s)'
BY DEF NextAction, Ended

LEMMA ResumeIs ==
  ASSUME PageInv, ServerKept, NEW s \in Sessions, session' = Swept,
         NextAction(session'[s], temp'[s]) \in {"resume", "finalize"}
  PROVE  Unswept(s)'
<1>1. session'[s] \in SessionRow /\ RowSafe(s)' /\ session[s] \in SessionRow /\ Size \in Nat
  BY IngestAssumption DEF ServerKept, RowKept, ServerSound, ServerType, PageInv
<1>2. /\ session'[s].state # "verification_failed"
      /\ session'[s].state # "interrupted"
  BY <1>1 DEF NextAction, RowSafe
<1>3. Sound(session'[s], temp'[s], media'[s], stored'[s], job'[s])
  BY DEF ServerKept, ServerSound, Sound, Prefix, Upload
<1>4. session'[s].old => session'[s].state \in {"uploading", "verified"}
  BY <1>1, <1>2 DEF RowSafe, SessionRow, SessionState
<1>5. CASE session'[s].old /\ session'[s].state = "uploading"
  <2>1. ~Expired(s)
    <3>1. Expired(s) => Swept[s] = [session[s] EXCEPT !.state = "interrupted", !.old = FALSE]
      BY DEF Swept
    <3>. QED
      BY <1>1, <1>5, <3>1 DEF SessionRow
  <2>2. session'[s] = session[s]
    BY <2>1 DEF Swept
  <2>3. session'[s].received = Size
    BY <1>1, <1>5, <2>1, <2>2 DEF Expired, SessionRow
  <2>. QED
    BY <1>2, <2>3 DEF Unswept
<1>. QED
  BY <1>2, <1>3, <1>4, <1>5 DEF Unswept, Sound

LEMMA AskedIs ==
  ASSUME PageInv, NEW r \in Changing
  PROVE  r \in Runs /\ runs[r].step # "idle" /\ Outstanding(Asked(runs[r]))
<1>1. r \in Runs /\ runs[r].step \in {"creating", "sending", "finalizing"}
  BY RunIs DEF Changing, Underway, Kind, RunRow, Steps
<1>2. /\ runs[r].to \in Sessions /\ runs[r].at \in 0 .. Size
      /\ Kind(runs[r]) \in {"create", "chunk", "finalize"}
      /\ Kind(runs[r]) = "chunk" => runs[r].at < Size
      /\ Kind(runs[r]) = "finalize" => runs[r].step = "finalizing"
  BY <1>1, RunIs DEF RunSafe, Kind, RunRow
<1>3. /\ Asked(runs[r]) \in Post /\ InRange(Asked(runs[r]))
      /\ Asked(runs[r]).to = runs[r].to /\ Asked(runs[r]).kind = Kind(runs[r])
  BY <1>2, RequestIs DEF Asked, Request
<1>. QED
  BY <1>1, <1>2, <1>3 DEF Outstanding, Busy, Heard

LEMMA ServesKeeps ==
  ASSUME PageInv, NEW r \in Runs, Serves(runs[r])
  PROVE  ServerKept
<1>1. CASE PostSession(runs[r]) \/ PutChunk(runs[r]) \/ PostFinalize(runs[r])
  <2>1. Handle(Asked(runs[r])) /\ r \in Changing
    BY <1>1 DEF PostSession, PutChunk, PostFinalize, Changing, Underway, Kind
  <2>. QED
    BY <2>1, AskedIs, RequestKeeps
<1>2. CASE GetSession
  BY <1>2, StatusKeeps
<1>. QED
  BY <1>1, <1>2 DEF Serves

\* Nobody is heard of for f but who has ended or is noted: a new session of f
\* is the only one.
LEMMA NewSession ==
  ASSUME PageInv, ServerKept, NEW r \in Runs, NEW f \in Files,
         runs'[r].step = "creating", runs'[r].of = f,
         runs'[r].to \in Sessions, fileOf[runs'[r].to] = NoFile,
         fileOf' = [fileOf EXCEPT ![runs'[r].to] = f], ~runs'[r].batch,
         repeats \subseteq repeats',
         f \notin repeats' =>
           /\ \A t \in Sessions : Living(t, f) => \E u \in Sessions : u = t /\ Ended(u)'
           /\ OnlyOpening(r, f)
  PROVE  Makes(r)
<1>1. ASSUME f \notin repeats', NEW t \in Sessions, fileOf[t] = f, Heard(t)
      PROVE  Ended(t)'
  <2>1. CASE Ended(t)
    BY <2>1 DEF ServerKept, RowKept
  <2>2. CASE ~Ended(t)
    BY <1>1, <2>2 DEF Living
  <2>. QED
    BY <2>1, <2>2
<1>. QED
  BY <1>1 DEF Makes

LEMMA LoadedShape ==
  ASSUME PageInv, ServerKept, NEW r \in Runs, runs[r].step = "loading", session' = Swept,
         Loaded(r, NextAction(session'[runs[r].to], temp'[runs[r].to]),
                session'[runs[r].to].received),
         posts' = posts, checks' \subseteq checks
  PROVE  PageShape
<1>1. PICK s \in Sessions : s = runs[r].to
  BY RunIs
<1>. DEFINE next == NextAction(session'[s], temp'[s])
            got == session'[s].received
<1>2. /\ runs[r].of \in Files /\ fileOf[s] = runs[r].of /\ runs[r].here \in BOOLEAN
      /\ session'[s] \in SessionRow /\ ServerSound'
  BY <1>1, RunIs DEF RunRow, ServerKept, ServerSound, ServerType
<1>3. got \in 0 .. Size
  BY <1>2 DEF SessionRow
<1>4. \/ /\ next = "restart" /\ note' = NoNote /\ repeats' = repeats \cup Forgotten(s)
         /\ Creates(r, runs[r].of, <<>>, FALSE, runs[r].here) /\ UNCHANGED <<form, received>>
      \/ next = "none" /\ Finishes(s, runs[r].of, [runs EXCEPT ![r] = Idle])
      \/ next \in {"resume", "finalize"} /\ Transfers(r, got) /\ UNCHANGED <<note, repeats>>
  <2>. QED
    BY <1>1 DEF Loaded
<1>5. CASE /\ next = "restart" /\ note' = NoNote /\ repeats' = repeats \cup Forgotten(s)
           /\ Creates(r, runs[r].of, <<>>, FALSE, runs[r].here) /\ UNCHANGED <<form, received>>
  <2>. DEFINE f == runs[r].of
              rest == <<>>
              here == runs[r].here
              batch == FALSE
  <2>1. /\ f \in Files /\ rest \in Seq(Files) /\ here \in BOOLEAN /\ batch \in BOOLEAN /\ ~batch
        /\ Creates(r, f, rest, batch, here) /\ repeats \subseteq repeats'
    <3>1. f \in Files /\ rest \in Seq(Files) /\ here \in BOOLEAN /\ batch \in BOOLEAN /\ ~batch
      BY <1>2
    <3>2. Creates(r, f, rest, batch, here)
      BY <1>5
    <3>3. repeats \subseteq repeats'
      BY <1>5
    <3>. QED
      BY <3>1, <3>2, <3>3
  <2>2. Ended(s)'
    BY <1>5, RestartIs
  <2>3. f \notin repeats' => /\ \A t \in Sessions : Living(t, f) => t = s
                             /\ OnlyOpening(r, f)
    BY <1>1, <1>2, <2>1 DEF PageInv, OneLiving, Opening, OnlyOpening
  <2>. HIDE DEF f, rest, here, batch
  <2>4. /\ runs' \in [Runs -> RunRow] /\ \A q \in Runs \ {r} : Still(q)
        /\ runs'[r].step = "creating" /\ runs'[r].of = f /\ ~runs'[r].batch
        /\ runs'[r].to \in Sessions /\ fileOf[runs'[r].to] = NoFile
        /\ fileOf' = [fileOf EXCEPT ![runs'[r].to] = f]
    BY <2>1, CreatesIs
  <2>5. Makes(r)
    BY <2>1, <2>2, <2>3, <2>4, NewSession
  <2>6. RunsShape
    BY <2>4, <2>5, OneRun
  <2>7. NoteShape
    BY <1>5, <2>2, NoteGone
  <2>. QED
    BY <1>5, <2>1, <2>6, <2>7 DEF PageShape, form, PageInv, PageTypes
<1>6. CASE next = "none" /\ Finishes(s, runs[r].of, [runs EXCEPT ![r] = Idle])
  BY <1>2, <1>6, DurableIs, FinishShape
<1>7. CASE next \in {"resume", "finalize"} /\ Transfers(r, got) /\ UNCHANGED <<note, repeats>>
  <2>1. Unswept(s)'
    BY <1>7, ResumeIs
  <2>2. /\ runs' \in [Runs -> RunRow] /\ \A q \in Runs \ {r} : Still(q)
        /\ runs'[r].step \in {"sending", "finalizing"}
        /\ runs'[r].step = "sending" => runs'[r].at < Size
        /\ runs'[r].to = runs[r].to /\ runs'[r].of = runs[r].of
        /\ runs'[r].rest = runs[r].rest /\ runs'[r].batch = runs[r].batch
        /\ fileOf' = fileOf /\ received' = received /\ chosen' = chosen
    BY <1>3, <1>7, TransfersIs
  <2>3. Advances(r)
    BY <1>1, <2>1, <2>2 DEF Advances, Unswept
  <2>4. RunsShape
    BY <2>2, <2>3, OneRun
  <2>. QED
    BY <1>7, <2>2, <2>4 DEF PageShape, NoteShape, PageInv, PageTypes
<1>. QED
  BY <1>4, <1>5, <1>6, <1>7

LEMMA CreatedShape ==
  ASSUME PageInv, NEW r \in Runs, runs[r].step = "creating", Created(r),
         posts' = posts, checks' \subseteq checks
  PROVE  PageShape
<1>1. /\ note' = IF runs[r].batch THEN note ELSE [to |-> runs[r].to, of |-> runs[r].of]
      /\ repeats' = repeats \cup (IF runs[r].batch THEN {} ELSE Forgotten(runs[r].to))
      /\ Transfers(r, 0) /\ 0 \in 0 .. Size
  BY IngestAssumption DEF Created, NoteAfterCreate
<1>2. /\ runs' \in [Runs -> RunRow] /\ \A q \in Runs \ {r} : Still(q)
      /\ runs'[r].step \in {"sending", "finalizing"}
      /\ runs'[r].step = "sending" => runs'[r].at < Size
      /\ runs'[r].to = runs[r].to /\ runs'[r].of = runs[r].of
      /\ runs'[r].rest = runs[r].rest /\ runs'[r].batch = runs[r].batch
      /\ fileOf' = fileOf /\ received' = received /\ chosen' = chosen
  BY <1>1, TransfersIs
<1>3. Advances(r)
  BY <1>1, <1>2 DEF Advances
<1>4. RunsShape
  BY <1>2, <1>3, OneRun
<1>5. NoteShape
  <2>1. CASE runs[r].batch
    BY <1>1, <2>1 DEF NoteShape
  <2>2. CASE ~runs[r].batch
    <3>1. note # NoNote => note.to = runs[r].to \/ note.of \in repeats'
      BY <1>1, <2>2 DEF Forgotten
    <3>2. note' = [to |-> runs[r].to, of |-> runs[r].of] /\ note'.to = runs[r].to
      BY <1>1, <2>2
    <3>. QED
      BY <1>3, <2>2, <3>1, <3>2 DEF NoteShape
  <2>. QED
    BY <2>1, <2>2
<1>. QED
  BY <1>1, <1>2, <1>4, <1>5 DEF PageShape, PageInv, PageTypes

LEMMA SentShape ==
  ASSUME PageInv, NEW r \in Runs, runs[r].step = "sending", NEW got \in 0 .. Size, Sent(r, got),
         posts' = posts, checks' \subseteq checks
  PROVE  PageShape
<1>1. Transfers(r, got) /\ UNCHANGED <<note, repeats>>
  BY DEF Sent
<1>2. /\ runs' \in [Runs -> RunRow] /\ \A q \in Runs \ {r} : Still(q)
      /\ runs'[r].step \in {"sending", "finalizing"}
      /\ runs'[r].step = "sending" => runs'[r].at < Size
      /\ runs'[r].to = runs[r].to /\ runs'[r].of = runs[r].of
      /\ runs'[r].rest = runs[r].rest /\ runs'[r].batch = runs[r].batch
      /\ fileOf' = fileOf /\ received' = received /\ chosen' = chosen
  BY <1>1, TransfersIs
<1>3. Advances(r)
  BY <1>2 DEF Advances
<1>4. RunsShape
  BY <1>2, <1>3, OneRun
<1>. QED
  BY <1>1, <1>2, <1>4 DEF PageShape, NoteShape, PageInv, PageTypes

LEMMA FinalizedShape ==
  ASSUME PageInv, NEW r \in Runs, runs[r].step = "finalizing",
         PostFinalize(runs[r]), Accepted(Asked(runs[r])), Finalized(r),
         posts' = posts, checks' \subseteq checks
  PROVE  PageShape
<1>1. PICK s \in Sessions : s = runs[r].to
  BY RunIs
<1>2. runs[r].of \in Files /\ fileOf[s] = runs[r].of
  BY <1>1, RunIs
<1>3. Asked(runs[r]).kind = "finalize" /\ Asked(runs[r]).to = s
  BY <1>1 DEF Asked, Request, Kind
<1>4. Swept[s].state # "none" /\ Whole(s)
  BY <1>3 DEF Accepted
<1>5. HandleFinalize(Asked(runs[r]))
  BY <1>3 DEF PostFinalize, Handle
<1>6. media' = [media EXCEPT ![s] = SweptTemp[s]]
  BY <1>3, <1>4, <1>5 DEF HandleFinalize
<1>7. media'[s] = Upload
  BY <1>4, <1>6, WholeIs DEF PageInv, ServerSound, ServerType
<1>8. CASE runs[r].batch
  <2>1. NextOfBatch(r, {runs[r].of})
    BY <1>8 DEF Finalized
  <2>. QED
    BY <1>2, <1>7, <1>8, <2>1, NextShape
<1>9. CASE ~runs[r].batch
  <2>1. Finishes(s, fileOf[s], [runs EXCEPT ![r] = Idle])
    BY <1>1, <1>2, <1>9 DEF Finalized
  <2>. QED
    BY <1>2, <1>7, <2>1, FinishShape
<1>. QED
  BY <1>8, <1>9

LEMMA RecheckedShape ==
  ASSUME PageInv, ServerKept, NEW r \in Runs, runs[r].step = "rechecking",
         Rechecked(r, NextAction(session'[runs[r].to], temp'[runs[r].to])),
         posts' = posts, checks' \subseteq checks
  PROVE  PageShape
<1>1. PICK s \in Sessions : s = runs[r].to
  BY RunIs
<1>. DEFINE next == NextAction(session'[s], temp'[s])
<1>2. runs[r].of \in Files /\ fileOf[s] = runs[r].of /\ ServerSound'
  BY <1>1, RunIs DEF ServerKept
<1>3. \/ next = "restart" /\ note' = NoNote /\ repeats' = repeats \cup Forgotten(s) /\ Interrupted(r)
      \/ next = "none" /\ Finishes(s, runs[r].of, [runs EXCEPT ![r] = Idle])
      \/ Interrupted(r) /\ UNCHANGED <<note, repeats>>
  BY <1>1 DEF Rechecked, Durable
<1>4. CASE next = "restart" /\ note' = NoNote /\ repeats' = repeats \cup Forgotten(s) /\ Interrupted(r)
  <2>1. Ended(s)'
    BY <1>4, RestartIs
  <2>2. NoteShape
    BY <1>4, <2>1, NoteGone
  <2>. QED
    BY <1>4, <2>2, InterruptedShape
<1>5. CASE next = "none" /\ Finishes(s, runs[r].of, [runs EXCEPT ![r] = Idle])
  BY <1>2, <1>5, DurableIs, FinishShape
<1>6. CASE Interrupted(r) /\ UNCHANGED <<note, repeats>>
  BY <1>6, InterruptedShape DEF NoteShape
<1>. QED
  BY <1>3, <1>4, <1>5, <1>6

LEMMA AnswerShape ==
  ASSUME PageInv, NEW r \in Runs, AnswerRun(r), posts' = posts
  PROVE  ServerKept /\ PageShape
<1>1. ServerKept /\ runs[r].step # "idle" /\ Serves(runs[r]) /\ checks' = checks
  BY ServesKeeps DEF AnswerRun
<1>. DEFINE got == session'[runs[r].to].received
<1>2. got \in 0 .. Size
  BY <1>1, RunIs DEF ServerKept, ServerSound, ServerType, SessionRow
<1>. HIDE DEF got
<1>3. CASE Fails(r)
  BY <1>1, <1>3, FailsShape
<1>4. CASE runs[r].step = "creating" /\ Created(r)
  BY <1>1, <1>4, CreatedShape
<1>5. CASE runs[r].step = "sending" /\ Sent(r, got)
  BY <1>1, <1>2, <1>5, SentShape
<1>6. CASE runs[r].step = "finalizing" /\ Accepted(Asked(runs[r])) /\ Finalized(r)
  <2>1. PostFinalize(runs[r])
    BY <1>1, <1>6 DEF Serves, PostSession, PutChunk
  <2>. QED
    BY <1>1, <1>6, <2>1, FinalizedShape
<1>7. CASE /\ runs[r].step = "loading"
           /\ Loaded(r, NextAction(session'[runs[r].to], temp'[runs[r].to]), got)
  <2>1. session' = Swept
    BY <1>1, <1>7 DEF Serves, PostSession, PutChunk, PostFinalize, GetSession
  <2>. QED
    BY <1>1, <1>7, <2>1, LoadedShape DEF got
<1>8. CASE /\ runs[r].step = "rechecking"
           /\ Rechecked(r, NextAction(session'[runs[r].to], temp'[runs[r].to]))
  BY <1>1, <1>8, RecheckedShape
<1>. QED
  BY <1>1, <1>3, <1>4, <1>5, <1>6, <1>7, <1>8 DEF AnswerRun, got

-----------------------------------------------------------------------------
(* What the user and the browser do *)

LEMMA SubmitShape ==
  ASSUME PageInv, ServerKept, NEW r \in Runs, Submit(r), posts' = posts
  PROVE  PageShape
<1>. DEFINE again == {runs[q].of : q \in {q \in Runs : runs[q].step \in {"creating", "loading"}}}
            f == chosen[1]
<1>1. /\ chosen \in Seq(Files) /\ chosen # <<>> /\ runs[r] = Idle
      /\ UNCHANGED <<chosen, note, checks, received>>
  BY DEF Submit, PageInv, PageTypes
<1>2. f \in Files
  BY <1>1
<1>3. repeats \subseteq repeats' /\ NoteShape /\ chosen' \in Seq(Files)
  BY <1>1 DEF Submit, NoteShape
<1>4. CASE /\ Creates(r, f, Tail(chosen), TRUE, TRUE)
           /\ repeats' = repeats \cup {chosen[i] : i \in DOMAIN chosen}
  <2>. DEFINE rest == Tail(chosen)
              batch == TRUE
  <2>1. rest \in Seq(Files) /\ batch \in BOOLEAN /\ \A i \in DOMAIN rest : rest[i] \in repeats'
    <3>1. rest \in Seq(Files) /\ \A i \in DOMAIN rest : i + 1 \in DOMAIN chosen /\ rest[i] = chosen[i + 1]
      BY <1>1
    <3>. QED
      BY <1>4, <3>1
  <2>2. Creates(r, f, rest, batch, batch) /\ f \in repeats'
    <3>1. 1 \in DOMAIN chosen
      BY <1>1
    <3>. QED
      BY <1>4, <3>1
  <2>. HIDE DEF f, rest, batch
  <2>3. /\ runs' \in [Runs -> RunRow] /\ \A q \in Runs \ {r} : Still(q)
        /\ runs'[r].step = "creating" /\ runs'[r].of = f /\ runs'[r].rest = rest
        /\ runs'[r].to \in Sessions /\ fileOf[runs'[r].to] = NoFile
        /\ fileOf' = [fileOf EXCEPT ![runs'[r].to] = f]
    BY <1>2, <2>1, <2>2, CreatesIs
  <2>4. Makes(r)
    BY <1>2, <2>1, <2>2, <2>3 DEF Makes
  <2>5. RunsShape
    BY <2>3, <2>4, OneRun
  <2>. QED
    BY <1>1, <1>3, <2>5 DEF PageShape
<1>5. ASSUME f \notin repeats', repeats' = repeats \cup ({f} \cap (received \cup again))
      PROVE  f \notin repeats /\ f \notin received /\ \A q \in Runs : ~Opening(q, f)
  BY <1>5 DEF Opening
<1>6. CASE /\ repeats' = repeats \cup ({f} \cap (received \cup again))
           /\ ~Matches(f) /\ Creates(r, f, <<>>, FALSE, TRUE)
  <2>. DEFINE rest == <<>>
              here == TRUE
              batch == FALSE
  <2>1. /\ rest \in Seq(Files) /\ batch \in BOOLEAN /\ here \in BOOLEAN /\ ~batch
    OBVIOUS
  <2>2. Creates(r, f, rest, batch, here)
    BY <1>6
  <2>3. f \notin repeats' => /\ \A t \in Sessions : ~Living(t, f)
                             /\ OnlyOpening(r, f)
    <3>1. SUFFICES ASSUME f \notin repeats', NEW t \in Sessions, Living(t, f)
                   PROVE  FALSE
      BY <1>5, <1>6 DEF OnlyOpening
    <3>2. f \notin repeats /\ f \notin received
      BY <1>5, <1>6, <3>1
    <3>3. note.to = t
      BY <1>2, <3>1, <3>2 DEF PageInv, OneLiving
    <3>4. note # NoNote /\ note.of = f
      BY <3>1, <3>3, PageAssumption DEF NoNote, PageInv, NamesSafe, Names, Living
    <3>. QED
      BY <1>6, <3>4 DEF Matches
  <2>. HIDE DEF f, rest, here, batch
  <2>4. /\ runs' \in [Runs -> RunRow] /\ \A q \in Runs \ {r} : Still(q)
        /\ runs'[r].step = "creating" /\ runs'[r].of = f /\ ~runs'[r].batch
        /\ runs'[r].to \in Sessions /\ fileOf[runs'[r].to] = NoFile
        /\ fileOf' = [fileOf EXCEPT ![runs'[r].to] = f]
    BY <1>2, <2>1, <2>2, CreatesIs
  <2>5. Makes(r)
    BY <1>2, <1>3, <2>3, <2>4, NewSession
  <2>6. RunsShape
    BY <2>4, <2>5, OneRun
  <2>. QED
    BY <1>1, <1>3, <2>6 DEF PageShape
<1>7. CASE /\ repeats' = repeats \cup ({f} \cap (received \cup again))
           /\ Matches(f) /\ fileOf' = fileOf
           /\ runs' = [runs EXCEPT ![r] =
                         [Idle EXCEPT !.step = "loading", !.to = note.to, !.of = f, !.here = TRUE]]
  <2>1. note # NoNote /\ note.of = f /\ note.to \in Sessions
    BY <1>7 DEF Matches, PageInv, NamesSafe, Names
  <2>2. f \notin repeats' => f \notin received /\ OnlyOpening(r, f)
    BY <1>5, <1>7 DEF OnlyOpening
  <2>. DEFINE q2 == [Idle EXCEPT !.step = "loading", !.to = note.to, !.of = f, !.here = TRUE]
  <2>. HIDE DEF f
  <2>3. q2 \in RunRow /\ q2.step = "loading" /\ q2.to = note.to /\ q2.of = f /\ q2.batch = FALSE
    BY <1>2, <2>1, IdleIs DEF RunRow, Steps
  <2>. HIDE DEF q2
  <2>4. runs' = [runs EXCEPT ![r] = q2] /\ runs \in [Runs -> RunRow]
    BY <1>7, RunIs DEF q2
  <2>5. runs'[r] = q2 /\ runs' \in [Runs -> RunRow] /\ \A q \in Runs \ {r} : runs'[q] = runs[q]
    BY <2>3, <2>4
  <2>6. Reopens(r) /\ \A q \in Runs \ {r} : Still(q)
    BY <2>1, <2>2, <2>3, <2>5 DEF Reopens, Still, Same
  <2>7. RunsShape
    BY <1>7, <2>5, <2>6, OneRun
  <2>. QED
    BY <1>1, <1>3, <2>7 DEF PageShape
<1>. QED
  BY <1>4, <1>6, <1>7 DEF Submit

\* The form, a visit, or leaving: the runs go on, perhaps in the background.
LEMMA QuietShape ==
  ASSUME PageInv, \/ runs' = runs \/ runs' = InBackground(runs) \/ runs' = [r \in Runs |-> Idle],
         UNCHANGED <<fileOf, received, repeats>>, NoteShape, chosen' \in Seq(Files),
         \A c \in checks' : c \in checks \/ (c = note /\ note # NoNote),
         \A p \in posts' : p \in posts \/ \E r \in Changing : p = Late(r)
  PROVE  PageShape
<1>1. ASSUME NEW r \in Runs
      PROVE  runs'[r] \in RunRow /\ Still(r)
  <2>1. CASE runs' = [q \in Runs |-> Idle]
    BY <2>1, IdleIs DEF Still
  <2>2. CASE runs' = runs \/ runs' = InBackground(runs)
    BY <2>2, EndsIs
  <2>. QED
    BY <2>1, <2>2
<1>2. runs' \in [Runs -> RunRow]
  BY <1>1, RunIs DEF InBackground, PageInv, PageTypes
<1>3. RunsShape
  BY <1>1, <1>2 DEF RunsShape
<1>. QED
  BY <1>3 DEF PageShape

LEMMA CheckShape ==
  ASSUME PageInv, NEW c \in checks, CheckAnswered(c), posts' = posts
  PROVE  ServerKept /\ PageShape
<1>1. GetSession /\ checks' \subseteq checks /\ session' = Swept /\ temp' = SweptTemp
  BY DEF CheckAnswered, GetSession
<1>2. ServerKept
  BY <1>1, StatusKeeps
<1>3. PICK s \in Sessions : s = c.to
  BY DEF PageInv, NamesSafe, Names
<1>4. c.of \in Files /\ fileOf[s] = c.of /\ ServerSound' /\ chosen \in Seq(Files)
  BY <1>2, <1>3 DEF PageInv, PageTypes, NamesSafe, Names, ServerKept
<1>. DEFINE next == NextAction(session'[s], temp'[s])
<1>5. \/ UNCHANGED <<form, note, runs, fileOf, received, repeats>>
      \/ next = "restart" /\ note' = NoNote /\ repeats' = repeats \cup Forgotten(s)
         /\ UNCHANGED <<form, runs, fileOf, received>>
      \/ next = "none" /\ Finishes(s, fileOf[s], runs)
  BY <1>1, <1>3, <1>4 DEF CheckAnswered, Durable
<1>6. CASE UNCHANGED <<form, note, runs, fileOf, received, repeats>>
  BY <1>1, <1>2, <1>4, <1>6, QuietShape DEF NoteShape, form
<1>7. CASE next = "restart" /\ note' = NoNote /\ repeats' = repeats \cup Forgotten(s)
           /\ UNCHANGED <<form, runs, fileOf, received>>
  <2>1. Ended(s)'
    BY <1>7, RestartIs
  <2>2. NoteShape
    BY <1>7, <2>1, NoteGone
  <2>3. RunsShape
    BY <1>7, RunIs DEF RunsShape, Still, Same, PageInv, PageTypes
  <2>. QED
    BY <1>1, <1>2, <1>4, <1>7, <2>2, <2>3 DEF PageShape, form
<1>8. CASE next = "none" /\ Finishes(s, fileOf[s], runs)
  <2>1. media'[s] = Upload
    BY <1>4, <1>8, DurableIs
  <2>. QED
    BY <1>1, <1>2, <1>4, <1>8, <2>1, FinishShape
<1>. QED
  BY <1>2, <1>5, <1>6, <1>7, <1>8

LEMMA PageStepKeeps ==
  ASSUME PageInv, [PageNext]_<<vars, pageVars>>
  PROVE  PageInv'
<1>1. chosen \in Seq(Files) /\ (\A p \in posts : Outstanding(p))
  BY DEF PageInv, PageTypes, Outstanding, Busy, Heard, Post
<1>2. CASE Visit /\ posts' = posts
  BY <1>1, <1>2, StatusKeeps, QuietShape, PageKeeps DEF Visit, NoteShape
<1>3. CASE Leave /\ posts' = posts
  BY <1>1, <1>3, StatusKeeps, QuietShape, PageKeeps DEF Leave, Unmounted, NoteShape
<1>4. CASE ChooseFiles /\ posts' = posts
  <2>1. chosen' \in Seq(Files)
    <3>1. PICK fs \in Choice : chosen' = fs
      BY <1>4 DEF ChooseFiles
    <3>2. (\E f \in Files : fs = <<f>>) \/ \E f, g \in Files : fs = <<f, g>>
      BY DEF Choice
    <3>3. \A f, g \in Files : <<f>> \in Seq(Files) /\ <<f, g>> \in Seq(Files)
      OBVIOUS
    <3>. QED
      BY <3>1, <3>2, <3>3
  <2>. QED
    BY <1>4, <2>1, StatusKeeps, QuietShape, PageKeeps DEF ChooseFiles, NoteShape
<1>5. ASSUME NEW r \in Runs, Submit(r), posts' = posts
      PROVE  PageInv'
  BY <1>5, StatusKeeps, SubmitShape, PageKeeps DEF Submit
<1>6. ASSUME NEW r \in Runs, AnswerRun(r), posts' = posts
      PROVE  PageInv'
  BY <1>6, AnswerShape, PageKeeps
<1>7. ASSUME NEW c \in checks, CheckAnswered(c), posts' = posts
      PROVE  PageInv'
  BY <1>7, CheckShape, PageKeeps
<1>8. ASSUME NEW r \in Runs, LoseRun(r), posts' = posts
      PROVE  PageInv'
  <2>1. ServerKept
    BY <1>8, ServesKeeps, StatusKeeps DEF LoseRun
  <2>. QED
    BY <1>8, <2>1, FailsShape, PageKeeps DEF LoseRun
<1>9. ASSUME NEW c \in checks, CheckLost(c), posts' = posts
      PROVE  PageInv'
  BY <1>1, <1>9, StatusKeeps, QuietShape, PageKeeps DEF CheckLost, NoteShape
<1>10. CASE Reload
  <2>1. \A p \in posts' : p \in posts \/ \E r \in Changing : p = Late(r)
    BY <1>10 DEF Reload, Late
  <2>. QED
    BY <1>1, <1>10, <2>1, StatusKeeps, QuietShape, PageKeeps DEF Reload, Unmounted, NoteShape
<1>11. ASSUME NEW r \in Runs, KillRun(r), posts' = posts
       PROVE  PageInv'
  <2>1. r \in Changing /\ HandleHalf(Asked(runs[r])) /\ Fails(r) /\ checks' = checks
    BY <1>11 DEF KillRun
  <2>2. ServerKept /\ runs[r].step # "idle"
    BY <2>1, AskedIs, RequestKeeps
  <2>. QED
    BY <1>11, <2>1, <2>2, FailsShape, PageKeeps
<1>12. CASE UNCHANGED pageVars /\ \E p \in posts : ArriveLate(p)
  <2>1. PICK p \in posts : ArriveLate(p)
    BY <1>12
  <2>2. ServerKept
    BY <1>1, <2>1, RequestKeeps DEF ArriveLate
  <2>. QED
    BY <1>1, <1>12, <2>1, <2>2, QuietShape, PageKeeps DEF ArriveLate, pageVars, form, NoteShape
<1>13. CASE UNCHANGED pageVars /\ \E s \in Sessions : PageDay(s)
  <2>1. PICK s \in Sessions : PageDay(s)
    BY <1>13
  <2>2. ServerKept /\ posts' = posts
    BY <2>1, DayKeeps DEF PageDay, Day
  <2>. QED
    BY <1>1, <1>13, <2>2, QuietShape, PageKeeps DEF pageVars, form, NoteShape
<1>14. CASE UNCHANGED <<vars, pageVars>>
  BY <1>1, <1>14, StatusKeeps, QuietShape, PageKeeps
     DEF vars, NoServer, Serverside, pageVars, form, NoteShape
<1>. QED
  BY <1>2, <1>3, <1>4, <1>5, <1>6, <1>7, <1>8, <1>9, <1>10, <1>11, <1>12, <1>13, <1>14
     DEF PageNext, PageStep

LEMMA PageStart == Init /\ PageInit => PageInv
<1>. SUFFICES ASSUME Init, PageInit PROVE PageInv
  OBVIOUS
<1>1. ServerSound /\ posts = {} /\ \A s \in Sessions : session[s].state = "none" /\ ~session[s].old
  BY IngestStart DEF IngestInv, Init
<1>2. /\ runs = [r \in Runs |-> Idle] /\ chosen = <<>> /\ note = NoNote /\ checks = {}
      /\ fileOf = [s \in Sessions |-> NoFile] /\ received = {} /\ repeats = {}
  BY DEF PageInit
<1>3. PageTypes
  BY <1>1, <1>2, IdleIs DEF PageTypes
<1>4. NamesSafe
  BY <1>1, <1>2, IdleIs DEF NamesSafe, RunSafe
<1>5. RowsSafe
  BY <1>1 DEF RowsSafe, RowSafe, Unswept
<1>6. \A f \in Files : OneLiving(f)
  BY <1>2, IdleIs, PageAssumption DEF OneLiving, Living, Opening
<1>. QED
  BY <1>1, <1>2, <1>3, <1>4, <1>5, <1>6 DEF PageInv, ReceivedIsStored

LEMMA PageAlways == PageSpec => []PageInv
BY PageStart, PageStepKeeps, PTL DEF PageSpec

\* What the user is told is received is in the media directory, whatever was
\* lost, late, repeated, reloaded, left in the background or swept meanwhile.
THEOREM ReceivedCorrect == PageSpec => []ReceivedIsStored
<1>1. PageInv => ReceivedIsStored
  BY DEF PageInv
<1>. QED
  BY <1>1, PageAlways, PTL

\* A file that the user does not submit twice becomes one recording: a session
\* is only made for it when every session the page heard of has ended, and one
\* that has ended never comes back.
THEOREM OneRecording == PageSpec => []OneRecordingPerFile
<1>1. PageInv => OneRecordingPerFile
  <2>. SUFFICES ASSUME PageInv, NEW f \in Files \ repeats
                PROVE  Cardinality({s \in Sessions : fileOf[s] = f /\ session[s].state = "verified"}) <= 1
    BY DEF OneRecordingPerFile
  <2>. DEFINE V == {s \in Sessions : fileOf[s] = f /\ session[s].state = "verified"}
  <2>1. \A s, t \in V : s = t
    BY DEF PageInv, OneLiving, Living, Heard, Ended
  <2>. HIDE DEF V
  <2>2. V = {} \/ \E s \in V : V = {s}
    BY <2>1
  <2>3. Cardinality(V) \in {0, 1}
    BY <2>2, FS_EmptySet, FS_Singleton
  <2>. QED
    BY <2>3 DEF V
<1>. QED
  BY <1>1, PageAlways, PTL

-----------------------------------------------------------------------------
(* The recorder *)

\* Each form gives its current generation up before it goes away; the rest of
\* the argument is that an answer to an old prompt starts nothing.
CaptureInv ==
  /\ started \in Nat
  /\ capture \in Take \cup {NoTake}
  /\ gen \in [Take -> Generation]
  /\ capture # NoTake => source = "record"
  /\ MicrophoneIsShown

LEMMA ReleasedIs ==
  ASSUME CaptureInv, NEW g \in Take
  PROVE  Released(g) \in Generation /\ Released(g).live = FALSE
BY DEF CaptureInv, Released, Generation

LEMMA ReleaseIs ==
  ASSUME CaptureInv
  PROVE  /\ AfterRelease \in [Take -> Generation]
         /\ \A g \in Take : AfterRelease[g].live = FALSE
<1>1. CASE capture = NoTake
  <2>1. \A g \in Take : g # NoTake /\ gen[g] \in Generation
    BY DEF CaptureInv, Take, NoTake
  <2>2. \A g \in Take : gen[g].live \in BOOLEAN /\ ~gen[g].live
    BY <1>1, <2>1 DEF CaptureInv, MicrophoneIsShown, Generation
  <2>. QED
    BY <1>1, <2>2 DEF AfterRelease, CaptureInv
<1>2. CASE capture # NoTake
  <2>1. capture \in Take /\ AfterRelease = [gen EXCEPT ![capture] = Released(capture)]
    BY <1>2 DEF CaptureInv, AfterRelease
  <2>2. ASSUME NEW g \in Take, g # capture
        PROVE  gen[g].live = FALSE
    BY <2>2 DEF CaptureInv, MicrophoneIsShown, Generation
  <2>. QED
    BY <2>1, <2>2, ReleasedIs DEF CaptureInv
<1>. QED
  BY <1>1, <1>2

LEMMA CaptureStep ==
  ASSUME CaptureInv, [CaptureNext]_captureVars
  PROVE  CaptureInv'
<1>. USE CaptureAssumption
<1>1. CASE StartRecording
  <2>1. started + 1 \in Take /\ started + 1 # NoTake
    BY <1>1 DEF StartRecording, CaptureInv, Take, NoTake
  <2>2. \A g \in Take : ~gen[g].live
    BY <1>1 DEF StartRecording, CaptureInv, MicrophoneIsShown, Take, NoTake
  <2>3. LET fresh == [NoGeneration EXCEPT !.prompt = "asked", !.active = TRUE]
        IN  fresh \in Generation /\ ~fresh.live
    BY DEF NoGeneration, Generation
  <2>. QED
    BY <1>1, <2>1, <2>2, <2>3 DEF StartRecording, MayRecord, CaptureInv, MicrophoneIsShown
<1>2. CASE PauseRecording \/ ResumeRecording \/ StopRecording
  <2>1. capture \in Take
    BY <1>2 DEF PauseRecording, ResumeRecording, StopRecording, CaptureInv
  <2>2. /\ gen' \in [Take -> Generation]
        /\ \A g \in Take : gen'[g].live = gen[g].live
    BY <1>2, <2>1 DEF PauseRecording, ResumeRecording, StopRecording, CaptureInv, Generation
  <2>. QED
    BY <1>2, <2>2 DEF PauseRecording, ResumeRecording, StopRecording, CaptureInv,
                      MicrophoneIsShown
<1>3. CASE DiscardRecording \/ SwitchSource \/ LeavePage
  BY <1>3, ReleaseIs DEF DiscardRecording, SwitchSource, LeavePage, CaptureInv, MicrophoneIsShown
<1>4. CASE BeginTransfer \/ TransferInterrupted
  BY <1>4 DEF BeginTransfer, TransferInterrupted, CaptureInv, MicrophoneIsShown
<1>5. ASSUME NEW g \in Take, Granted(g)
      PROVE  CaptureInv'
  <2>1. gen' \in [Take -> Generation] /\ \A h \in Take : h # g => gen'[h] = gen[h]
    BY <1>5 DEF Granted, CaptureInv, Generation
  <2>2. CASE Current(g)
    BY <1>5, <2>1, <2>2 DEF Granted, Current, CaptureInv, MicrophoneIsShown, Take, NoTake
  <2>3. CASE ~Current(g)
    <3>1. gen'[g].live = gen[g].live
      BY <1>5, <2>3 DEF Granted, CaptureInv, Generation
    <3>. QED
      BY <1>5, <2>1, <2>3, <3>1 DEF Granted, CaptureInv, MicrophoneIsShown
  <2>. QED
    BY <2>2, <2>3
<1>6. ASSUME NEW g \in Take, Denied(g)
      PROVE  CaptureInv'
  <2>1. CASE Current(g)
    <3>1. /\ gen' = [gen EXCEPT ![g] = [Released(g) EXCEPT !.prompt = "answered"]]
          /\ capture' = NoTake /\ capture = g
      BY <1>6, <2>1 DEF Denied, Current
    <3>2. /\ [Released(g) EXCEPT !.prompt = "answered"] \in Generation
          /\ [Released(g) EXCEPT !.prompt = "answered"].live = FALSE
      BY ReleasedIs DEF Generation
    <3>3. \A h \in Take : ~gen'[h].live
      BY <3>1, <3>2 DEF CaptureInv, MicrophoneIsShown
    <3>. QED
      BY <1>6, <3>1, <3>2, <3>3 DEF Denied, CaptureInv, MicrophoneIsShown
  <2>2. CASE ~Current(g)
    <3>1. gen' = [gen EXCEPT ![g] = [gen[g] EXCEPT !.prompt = "answered"]]
      BY <1>6, <2>2 DEF Denied
    <3>2. gen' \in [Take -> Generation] /\ \A h \in Take : gen'[h].live = gen[h].live
      BY <3>1 DEF CaptureInv, Generation
    <3>. QED
      BY <1>6, <2>2, <3>2 DEF Denied, CaptureInv, MicrophoneIsShown
  <2>. QED
    BY <2>1, <2>2
<1>7. ASSUME NEW g \in Take, capture = g, gen' = [gen EXCEPT ![g] = Released(g)],
             capture' = NoTake, started' = started
      PROVE  CaptureInv'
  <2>1. \A h \in Take : ~gen'[h].live
    BY <1>7, ReleasedIs DEF CaptureInv, MicrophoneIsShown
  <2>. QED
    BY <1>7, <2>1, ReleasedIs DEF CaptureInv, MicrophoneIsShown
<1>8. ASSUME NEW g \in Take, TrackEnds(g)
      PROVE  CaptureInv'
  <2>1. CASE Current(g) /\ ~gen[g].stopRequested
    BY <1>7, <1>8, <2>1 DEF TrackEnds, Abandoned, Current
  <2>2. CASE ~(Current(g) /\ ~gen[g].stopRequested)
    <3>1. gen' = [gen EXCEPT ![g].live = FALSE]
      BY <1>8, <2>2 DEF TrackEnds
    <3>2. gen' \in [Take -> Generation] /\ \A h \in Take : gen'[h].live => gen[h].live
      BY <3>1 DEF CaptureInv, Generation
    <3>. QED
      BY <1>8, <2>2, <3>2 DEF TrackEnds, CaptureInv, MicrophoneIsShown
  <2>. QED
    BY <2>1, <2>2
<1>9. ASSUME NEW g \in Take, RecorderFails(g)
      PROVE  CaptureInv'
  <2>1. gen' \in [Take -> Generation] /\ \A h \in Take : gen'[h].live = gen[h].live
    BY <1>9 DEF RecorderFails, CaptureInv, Generation
  <2>. QED
    BY <1>9, <2>1 DEF RecorderFails, CaptureInv, MicrophoneIsShown
<1>10. ASSUME NEW g \in Take, Stopped(g)
       PROVE  CaptureInv'
  BY <1>7, <1>10 DEF Stopped, Abandoned, Current
<1>11. CASE UNCHANGED captureVars
  BY <1>11 DEF captureVars, CaptureInv, MicrophoneIsShown
<1>. QED
  BY <1>1, <1>2, <1>3, <1>4, <1>5, <1>6, <1>8, <1>9, <1>10, <1>11 DEF CaptureNext

\* The microphone is only on while the page on the screen says so, whenever the
\* browser answers.
THEOREM MicrophoneCorrect ==
  CaptureInit /\ [][CaptureNext]_captureVars => []MicrophoneIsShown
<1>1. CaptureInit => CaptureInv
  BY DEF CaptureInit, CaptureInv, NoGeneration, Generation, MicrophoneIsShown, NoTake
<1>2. CaptureInv => MicrophoneIsShown
  BY DEF CaptureInv
<1>. QED
  BY <1>1, <1>2, CaptureStep, PTL
=============================================================================

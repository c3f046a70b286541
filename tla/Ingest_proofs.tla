---------------------------- MODULE Ingest_proofs ----------------------------
(***************************************************************************)
(* Proofs about Ingest for any sessions, any size of the upload and any     *)
(* number of lost messages, crashes, late requests and days of silence.    *)
(***************************************************************************)
EXTENDS Ingest, TLAPS

-----------------------------------------------------------------------------
(* Files *)

\* The first n chunks are where they belong.
Prefix(f, n) == Len(f) >= n /\ \A i \in 1 .. n : f[i] = i

LEMMA FileIs ==
  ASSUME NEW f \in File
  PROVE  /\ Len(f) \in 0 .. Size /\ f \in [1 .. Len(f) -> 0 .. Size]
         /\ f \in Seq(0 .. Size) /\ f # NoFile
<1>1. PICK n \in 0 .. Size : f \in [1 .. n -> 0 .. Size]
  BY DEF File
<1>2. n \in Nat /\ f \in Seq(0 .. Size)
  BY <1>1, IngestAssumption
<1>3. Len(f) = n
  BY <1>1, <1>2
<1>. QED
  BY <1>1, <1>2, <1>3, IngestAssumption

LEMMA IsAFile ==
  ASSUME NEW n \in 0 .. Size, NEW f \in [1 .. n -> 0 .. Size]
  PROVE  f \in File /\ Len(f) = n
<1>1. n \in Nat /\ f \in Seq(0 .. Size)
  BY IngestAssumption
<1>. QED
  BY <1>1 DEF File

LEMMA UploadIs ==
  /\ Upload \in File /\ Upload # NoFile
  /\ \A f \in File : Len(f) = Size /\ Prefix(f, Size) => f = Upload
<1>1. Upload \in [1 .. Size -> 0 .. Size] /\ Size \in 0 .. Size
  BY IngestAssumption DEF Upload
<1>2. ASSUME NEW f \in File, Len(f) = Size, Prefix(f, Size)
      PROVE  f = Upload
  BY <1>2, FileIs DEF Prefix, Upload
<1>. QED
  BY <1>1, <1>2, IsAFile, FileIs

LEMMA EmptyIs == <<>> \in File /\ Prefix(<<>>, 0)
<1>1. 0 \in 0 .. Size /\ <<>> \in [1 .. 0 -> 0 .. Size]
  BY IngestAssumption
<1>2. <<>> \in File /\ Len(<<>>) = 0
  BY <1>1, IsAFile
<1>. QED
  BY <1>2 DEF Prefix

\* Writing the chunk that was asked for leaves a prefix longer by one.
LEMMA WrittenIs ==
  ASSUME NEW f \in File \cup {NoFile}, NEW p \in Post, p.at < Size,
         f = NoFile => p.at = 0,
         f # NoFile => Prefix(f, p.at)
  PROVE  Written(f, p) \in File /\ Prefix(Written(f, p), p.at + 1)
<1>1. p.at \in 0 .. (Size - 1) /\ Size \in Nat \ {0}
  BY IngestAssumption DEF Post
<1>2. CASE p.at = 0
  <2>1. <<1>> \in [1 .. 1 -> 0 .. Size] /\ 1 \in 0 .. Size
    BY <1>1
  <2>2. <<1>> \in File /\ Len(<<1>>) = 1 /\ <<1>>[1] = 1
    BY <2>1, IsAFile
  <2>3. Prefix(<<1>>, 1)
    BY <2>2 DEF Prefix
  <2>4. Written(f, p) = <<1>> /\ p.at + 1 = 1
    BY <1>2 DEF Written
  <2>. QED
    BY <2>2, <2>3, <2>4
<1>3. CASE p.at # 0
  <2>. DEFINE n == MaxLen(f, p.at + 1)
              g == [i \in 1 .. n |->
                      IF i = p.at + 1 THEN i ELSE IF i <= Len(f) THEN f[i] ELSE 0]
  <2>1. f \in File /\ Prefix(f, p.at)
    BY <1>3
  <2>2. Len(f) \in 0 .. Size /\ f \in [1 .. Len(f) -> 0 .. Size]
    BY <2>1, FileIs
  <2>3. n \in 0 .. Size /\ n >= p.at + 1
    BY <1>1, <2>2 DEF MaxLen
  <2>. HIDE DEF n
  <2>4. g \in [1 .. n -> 0 .. Size]
    BY <1>1, <2>2, <2>3
  <2>5. \A i \in 1 .. (p.at + 1) : g[i] = i
    BY <1>1, <2>1, <2>2, <2>3 DEF Prefix
  <2>6. g \in File /\ Len(g) = n
    BY <2>3, <2>4, IsAFile
  <2>7. Written(f, p) = g
    BY <1>3 DEF Written, n
  <2>. HIDE DEF g
  <2>. QED
    BY <2>3, <2>5, <2>6, <2>7 DEF Prefix
<1>. QED
  BY <1>2, <1>3

-----------------------------------------------------------------------------
(* Rows and files of one session *)

\* What a session row promises of its files
Sound(row, file, kept, has, q) ==
  /\ file # NoFile => Prefix(file, row.received)
  /\ kept \in {NoFile, Upload}
  /\ row.state = "none" => row.received = 0
  /\ row.state = "verified" =>
       has /\ kept = Upload /\ file = NoFile /\ q = "queued" /\ row.received = Size

ServerType ==
  /\ session \in [Sessions -> SessionRow]
  /\ job \in [Sessions -> {"none", "queued", "failed"}]
  /\ temp \in [Sessions -> File \cup {NoFile}]
  /\ media \in [Sessions -> File \cup {NoFile}]
  /\ stored \in [Sessions -> BOOLEAN]

ServerSound ==
  ServerType /\ \A s \in Sessions : Sound(session[s], temp[s], media[s], stored[s], job[s])

\* The sweep that precedes every handler
LEMMA SweptIs ==
  ASSUME ServerSound
  PROVE  /\ Swept \in [Sessions -> SessionRow]
         /\ SweptTemp \in [Sessions -> File \cup {NoFile}]
         /\ \A s \in Sessions :
              /\ Sound(Swept[s], SweptTemp[s], media[s], stored[s], job[s])
              /\ Sound(session[s], SweptTemp[s], media[s], stored[s], job[s])
              /\ Swept[s].received = session[s].received
              /\ Swept[s].state = "none" <=> session[s].state = "none"
              /\ Swept[s].state = "verified" <=> session[s].state = "verified"
<1>1. ASSUME NEW s \in Sessions
      PROVE  /\ Swept[s] \in SessionRow /\ SweptTemp[s] \in File \cup {NoFile}
             /\ SweptTemp[s] \in {NoFile, temp[s]}
             /\ Swept[s].received = session[s].received
             /\ Swept[s].state = "none" <=> session[s].state = "none"
             /\ Swept[s].state = "verified" <=> session[s].state = "verified"
  <2>1. session[s] \in SessionRow /\ temp[s] \in File \cup {NoFile}
    BY DEF ServerSound, ServerType
  <2>2. CASE Expired(s)
    <3>1. /\ Swept[s] = [session[s] EXCEPT !.state = "interrupted", !.old = FALSE]
          /\ SweptTemp[s] = NoFile
          /\ session[s].state \in {"uploading", "interrupted"}
      BY <2>2 DEF Swept, SweptTemp, Expired
    <3>. QED
      BY <2>1, <3>1 DEF SessionRow, SessionState
  <2>3. CASE ~Expired(s)
    BY <2>1, <2>3 DEF Swept, SweptTemp
  <2>. QED
    BY <2>2, <2>3
<1>2. ASSUME NEW s \in Sessions
      PROVE  Sound(session[s], temp[s], media[s], stored[s], job[s])
  BY DEF ServerSound
<1>3. ASSUME NEW s \in Sessions
      PROVE  /\ Sound(Swept[s], SweptTemp[s], media[s], stored[s], job[s])
             /\ Sound(session[s], SweptTemp[s], media[s], stored[s], job[s])
  BY <1>1, <1>2 DEF Sound
<1>4. Swept \in [Sessions -> SessionRow] /\ SweptTemp \in [Sessions -> File \cup {NoFile}]
  BY <1>1 DEF Swept, SweptTemp
<1>. QED
  BY <1>1, <1>3, <1>4

\* A chunk is only taken where the row stands, and never by a session whose
\* file has gone to the media directory.
LEMMA TakesIs ==
  ASSUME ServerSound, NEW p \in Post, p.at < Size, Takes(p)
  PROVE  /\ Written(SweptTemp[p.to], p) \in File
         /\ Prefix(Written(SweptTemp[p.to], p), p.at + 1)
         /\ p.at + 1 \in 0 .. Size
         /\ session[p.to].received = p.at
         /\ session[p.to].state # "verified"
<1>1. p.to \in Sessions /\ p.at \in 0 .. Size /\ Size \in Nat \ {0}
  BY IngestAssumption DEF Post
<1>2. /\ Swept[p.to].received = p.at
      /\ SweptTemp[p.to] = NoFile => p.at = 0
      /\ SweptTemp[p.to] \in File \cup {NoFile}
      /\ SweptTemp[p.to] # NoFile => Prefix(SweptTemp[p.to], p.at)
      /\ session[p.to].received = p.at
  BY <1>1, SweptIs DEF Takes, Sound
<1>3. session[p.to].state # "verified"
  <2>1. Sound(session[p.to], SweptTemp[p.to], media[p.to], stored[p.to], job[p.to])
    BY <1>1, SweptIs
  <2>2. session[p.to].state = "verified" =>
          SweptTemp[p.to] = NoFile /\ session[p.to].received = Size
    BY <2>1 DEF Sound
  <2>. QED
    BY <1>1, <1>2, <2>2
<1>4. Written(SweptTemp[p.to], p) \in File /\ Prefix(Written(SweptTemp[p.to], p), p.at + 1)
  BY <1>1, <1>2, WrittenIs
<1>. QED
  BY <1>1, <1>2, <1>3, <1>4

LEMMA WholeIs ==
  ASSUME ServerSound, NEW s \in Sessions, Whole(s)
  PROVE  SweptTemp[s] = Upload /\ Swept[s].received = Size /\ session[s].state # "verified"
<1>1. SweptTemp[s] \in File /\ Swept[s].received = Size /\ Len(SweptTemp[s]) = Size
  BY SweptIs DEF Whole
<1>2. Prefix(SweptTemp[s], Size) /\ SweptTemp[s] # NoFile
  BY <1>1, SweptIs, FileIs DEF Sound
<1>3. session[s].state # "verified"
  BY <1>2, SweptIs DEF Sound
<1>. QED
  BY <1>1, <1>2, <1>3, UploadIs

-----------------------------------------------------------------------------
(* Handlers *)

\* Only the session asked for gets more than the sweep.
LEMMA OneSession ==
  ASSUME ServerSound, ServerType', NEW s \in Sessions,
         \A t \in Sessions : t # s =>
           /\ session'[t] \in {session[t], Swept[t]} /\ temp'[t] = SweptTemp[t]
           /\ media'[t] = media[t] /\ stored'[t] = stored[t] /\ job'[t] = job[t],
         Sound(session'[s], temp'[s], media'[s], stored'[s], job'[s])
  PROVE  ServerSound'
<1>1. ASSUME NEW t \in Sessions
      PROVE  Sound(session'[t], temp'[t], media'[t], stored'[t], job'[t])
  <2>1. CASE t = s
    BY <2>1
  <2>2. CASE t # s
    BY <2>2, SweptIs
  <2>. QED
    BY <2>1, <2>2
<1>. QED
  BY <1>1 DEF ServerSound, Sound, Prefix, Upload

\* Nothing but the sweep of the files, and perhaps of the rows
LEMMA OnlySwept ==
  ASSUME ServerSound, session' \in {session, Swept}, temp' = SweptTemp,
         UNCHANGED <<media, stored, job>>
  PROVE  ServerSound'
<1>1. ServerType'
  BY SweptIs DEF ServerSound, ServerType, File
<1>2. ASSUME NEW t \in Sessions
      PROVE  Sound(session'[t], temp'[t], media'[t], stored'[t], job'[t])
  BY SweptIs
<1>. QED
  BY <1>1, <1>2 DEF ServerSound, Sound, Prefix, Upload

LEMMA CreateKeeps ==
  ASSUME ServerSound, NEW p \in Post, HandleCreate(p)
  PROVE  ServerSound'
<1>1. CASE Swept[p.to].state # "none"
  BY <1>1, OnlySwept DEF HandleCreate
<1>2. CASE Swept[p.to].state = "none"
  <2>. DEFINE s == p.to
  <2>1. s \in Sessions
    BY DEF Post
  <2>. HIDE DEF s
  <2>2. /\ session' = [Swept EXCEPT ![s].state = "uploading"]
        /\ job' = [job EXCEPT ![s] = "queued"]
        /\ temp' = [SweptTemp EXCEPT ![s] = <<>>]
        /\ media' = media /\ stored' = stored
    BY <1>2 DEF HandleCreate, s
  <2>3. /\ Swept[s] \in SessionRow /\ Swept[s].received = 0
        /\ media[s] \in {NoFile, Upload}
    BY <1>2, <2>1, SweptIs DEF Sound, s
  <2>4. /\ session'[s] = [Swept[s] EXCEPT !.state = "uploading"]
        /\ temp'[s] = <<>> /\ media'[s] = media[s]
        /\ \A t \in Sessions : t # s =>
             /\ session'[t] = Swept[t] /\ temp'[t] = SweptTemp[t]
             /\ media'[t] = media[t] /\ stored'[t] = stored[t] /\ job'[t] = job[t]
    BY <2>1, <2>2, SweptIs DEF ServerSound, ServerType
  <2>5. session'[s] \in SessionRow /\ session'[s].received = 0 /\ session'[s].state = "uploading"
    BY <2>3, <2>4 DEF SessionRow, SessionState
  <2>6. ServerType'
    BY <2>1, <2>2, <2>4, <2>5, SweptIs, EmptyIs DEF ServerSound, ServerType, File
  <2>7. Sound(session'[s], temp'[s], media'[s], stored'[s], job'[s])
    BY <2>3, <2>4, <2>5, EmptyIs DEF Sound
  <2>. QED
    BY <2>1, <2>4, <2>6, <2>7, OneSession
<1>. QED
  BY <1>1, <1>2

LEMMA ChunkKeeps ==
  ASSUME ServerSound, NEW p \in Post, p.at < Size, HandleChunk(p)
  PROVE  ServerSound'
<1>1. CASE ~Takes(p)
  BY <1>1, OnlySwept DEF HandleChunk
<1>2. CASE Takes(p)
  <2>. DEFINE s == p.to
              f == Written(SweptTemp[s], p)
              row == [state |-> "uploading", received |-> p.at + 1, old |-> FALSE]
  <2>1. s \in Sessions /\ f \in File /\ Prefix(f, p.at + 1) /\ row \in SessionRow
    BY <1>2, TakesIs DEF Post, SessionRow, SessionState
  <2>2. row.received = p.at + 1 /\ row.state = "uploading"
    OBVIOUS
  <2>3. /\ session' = [Swept EXCEPT ![s] = row]
        /\ temp' = [SweptTemp EXCEPT ![s] = f]
        /\ media' = media /\ stored' = stored /\ job' = job
    BY <1>2 DEF HandleChunk
  <2>4. media[s] \in {NoFile, Upload}
    BY <2>1 DEF ServerSound, Sound
  <2>. HIDE DEF s, f, row
  <2>5. /\ session'[s] = row /\ temp'[s] = f /\ media'[s] = media[s]
        /\ \A t \in Sessions : t # s =>
             /\ session'[t] = Swept[t] /\ temp'[t] = SweptTemp[t]
             /\ media'[t] = media[t] /\ stored'[t] = stored[t] /\ job'[t] = job[t]
    BY <2>1, <2>3, SweptIs
  <2>6. ServerType'
    BY <2>1, <2>3, SweptIs DEF ServerSound, ServerType, File
  <2>7. Sound(session'[s], temp'[s], media'[s], stored'[s], job'[s])
    BY <2>1, <2>2, <2>4, <2>5 DEF Sound
  <2>. QED
    BY <2>1, <2>5, <2>6, <2>7, OneSession
<1>. QED
  BY <1>1, <1>2

LEMMA FailKeeps ==
  ASSUME ServerSound, NEW s \in Sessions, Swept[s].state # "none", Fail(s)
  PROVE  ServerSound'
<1>1. /\ session' = [Swept EXCEPT ![s].state = "verification_failed", ![s].old = FALSE]
      /\ job' = [job EXCEPT ![s] = "failed"]
      /\ temp' = SweptTemp /\ media' = media /\ stored' = stored
  BY DEF Fail
<1>2. Swept[s] \in SessionRow /\ Sound(Swept[s], SweptTemp[s], media[s], stored[s], job[s])
  BY SweptIs
<1>3. /\ session'[s] = [Swept[s] EXCEPT !.state = "verification_failed", !.old = FALSE]
      /\ temp'[s] = SweptTemp[s] /\ media'[s] = media[s]
      /\ \A t \in Sessions : t # s =>
           /\ session'[t] = Swept[t] /\ temp'[t] = SweptTemp[t]
           /\ media'[t] = media[t] /\ stored'[t] = stored[t] /\ job'[t] = job[t]
  BY <1>1, SweptIs DEF ServerSound, ServerType
<1>4. /\ session'[s] \in SessionRow /\ session'[s].received = Swept[s].received
      /\ session'[s].state = "verification_failed"
  BY <1>2, <1>3 DEF SessionRow, SessionState
<1>5. ServerType'
  BY <1>1, <1>3, <1>4, SweptIs DEF ServerSound, ServerType, File
<1>6. Sound(session'[s], temp'[s], media'[s], stored'[s], job'[s])
  BY <1>2, <1>3, <1>4 DEF Sound
<1>. QED
  BY <1>3, <1>5, <1>6, OneSession

LEMMA FinalizeKeeps ==
  ASSUME ServerSound, NEW p \in Post, HandleFinalize(p)
  PROVE  ServerSound'
<1>. DEFINE s == p.to
<1>1. s \in Sessions
  BY DEF Post
<1>2. CASE Swept[s].state = "none"
  BY <1>2, OnlySwept DEF HandleFinalize, rows
<1>3. CASE Swept[s].state # "none" /\ ~Whole(s)
  BY <1>1, <1>3, FailKeeps DEF HandleFinalize
<1>4. CASE Swept[s].state # "none" /\ Whole(s)
  <2>. HIDE DEF s
  <2>1. /\ session' = [Swept EXCEPT ![s].state = "verified", ![s].old = FALSE]
        /\ job' = [job EXCEPT ![s] = "queued"]
        /\ temp' = [SweptTemp EXCEPT ![s] = NoFile]
        /\ media' = [media EXCEPT ![s] = SweptTemp[s]]
        /\ stored' = [stored EXCEPT ![s] = TRUE]
    BY <1>4 DEF HandleFinalize, s
  <2>2. SweptTemp[s] = Upload /\ Swept[s].received = Size /\ Swept[s] \in SessionRow
    BY <1>1, <1>4, WholeIs, SweptIs
  <2>3. /\ session'[s] = [Swept[s] EXCEPT !.state = "verified", !.old = FALSE]
        /\ temp'[s] = NoFile /\ media'[s] = Upload /\ stored'[s] = TRUE /\ job'[s] = "queued"
        /\ \A t \in Sessions : t # s =>
             /\ session'[t] = Swept[t] /\ temp'[t] = SweptTemp[t]
             /\ media'[t] = media[t] /\ stored'[t] = stored[t] /\ job'[t] = job[t]
    BY <1>1, <2>1, <2>2, SweptIs DEF ServerSound, ServerType
  <2>4. /\ session'[s] \in SessionRow /\ session'[s].received = Size
        /\ session'[s].state = "verified"
    BY <2>2, <2>3 DEF SessionRow, SessionState
  <2>5. ServerType'
    BY <1>1, <2>1, <2>2, <2>3, <2>4, SweptIs, UploadIs DEF ServerSound, ServerType, File
  <2>6. Sound(session'[s], temp'[s], media'[s], stored'[s], job'[s])
    BY <2>3, <2>4 DEF Sound
  <2>. QED
    BY <1>1, <2>3, <2>5, <2>6, OneSession
<1>. QED
  BY <1>2, <1>3, <1>4

\* A chunk request names a byte of the upload.
InRange(p) == p.kind = "chunk" => p.at < Size

LEMMA HandleKeeps ==
  ASSUME ServerSound, NEW p \in Post, InRange(p), Handle(p)
  PROVE  ServerSound'
BY CreateKeeps, ChunkKeeps, FinalizeKeeps DEF Handle, InRange, Post

\* A crash takes back the rows and leaves the files, which is no worse.
LEMMA CrashKeeps ==
  ASSUME ServerSound, NEW p \in Post, InRange(p), HandleHalf(p)
  PROVE  ServerSound'
<1>. DEFINE s == p.to
<1>1. s \in Sessions
  BY DEF Post
<1>2. CASE p.kind = "create" /\ Swept[s].state = "none"
  <2>. HIDE DEF s
  <2>1. /\ session' = [Swept EXCEPT ![s].state = "uploading"]
        /\ job' = [job EXCEPT ![s] = "queued"]
        /\ temp' = SweptTemp /\ media' = media /\ stored' = stored
    BY <1>2 DEF HandleHalf, s
  <2>2. Swept[s] \in SessionRow /\ Sound(Swept[s], SweptTemp[s], media[s], stored[s], job[s])
    BY <1>1, SweptIs
  <2>3. /\ session'[s] = [Swept[s] EXCEPT !.state = "uploading"]
        /\ temp'[s] = SweptTemp[s] /\ media'[s] = media[s]
        /\ \A t \in Sessions : t # s =>
             /\ session'[t] = Swept[t] /\ temp'[t] = SweptTemp[t]
             /\ media'[t] = media[t] /\ stored'[t] = stored[t] /\ job'[t] = job[t]
    BY <1>1, <2>1, SweptIs DEF ServerSound, ServerType
  <2>4. /\ session'[s] \in SessionRow /\ session'[s].received = Swept[s].received
        /\ session'[s].state = "uploading"
    BY <2>2, <2>3 DEF SessionRow, SessionState
  <2>5. ServerType'
    BY <1>1, <2>1, <2>3, <2>4, SweptIs DEF ServerSound, ServerType, File
  <2>6. Sound(session'[s], temp'[s], media'[s], stored'[s], job'[s])
    BY <2>2, <2>3, <2>4 DEF Sound
  <2>. QED
    BY <1>1, <2>3, <2>5, <2>6, OneSession
<1>3. CASE p.kind = "chunk" /\ Takes(p)
  <2>. DEFINE f == Written(SweptTemp[s], p)
  <2>1. /\ f \in File /\ Prefix(f, p.at + 1)
        /\ session[s].received = p.at /\ session[s].state # "verified"
        /\ p.at \in Nat
    BY <1>3, TakesIs, IngestAssumption DEF InRange, Post
  <2>2. /\ temp' = [SweptTemp EXCEPT ![s] = f]
        /\ session' = session /\ media' = media /\ stored' = stored /\ job' = job
    BY <1>3 DEF HandleHalf, rows
  <2>3. Sound(session[s], SweptTemp[s], media[s], stored[s], job[s])
    BY <1>1, SweptIs
  <2>. HIDE DEF f, s
  <2>4. /\ temp'[s] = f
        /\ \A t \in Sessions : t # s => temp'[t] = SweptTemp[t]
    BY <1>1, <2>2, SweptIs
  <2>5. ServerType'
    BY <1>1, <2>1, <2>2, SweptIs DEF ServerSound, ServerType, File
  <2>6. Prefix(f, p.at)
    BY <2>1 DEF Prefix
  <2>7. Sound(session'[s], temp'[s], media'[s], stored'[s], job'[s])
    BY <2>1, <2>2, <2>3, <2>4, <2>6 DEF Sound
  <2>. QED
    BY <1>1, <2>2, <2>4, <2>5, <2>7, OneSession
<1>4. CASE p.kind = "finalize" /\ Swept[s].state # "none" /\ Whole(s)
  <2>. HIDE DEF s
  <2>1. /\ media' = [media EXCEPT ![s] = SweptTemp[s]]
        /\ temp' = [SweptTemp EXCEPT ![s] = NoFile]
        /\ session' = session /\ stored' = stored /\ job' = job
    BY <1>4 DEF HandleHalf, rows, s
  <2>2. SweptTemp[s] = Upload /\ session[s].state # "verified"
    BY <1>1, <1>4, WholeIs
  <2>3. Sound(session[s], SweptTemp[s], media[s], stored[s], job[s])
    BY <1>1, SweptIs
  <2>4. /\ temp'[s] = NoFile /\ media'[s] = Upload
        /\ \A t \in Sessions : t # s => temp'[t] = SweptTemp[t] /\ media'[t] = media[t]
    BY <1>1, <2>1, <2>2, SweptIs DEF ServerSound, ServerType
  <2>5. ServerType'
    BY <1>1, <2>1, <2>2, SweptIs, UploadIs DEF ServerSound, ServerType, File
  <2>6. Sound(session'[s], temp'[s], media'[s], stored'[s], job'[s])
    BY <2>1, <2>2, <2>3, <2>4 DEF Sound
  <2>. QED
    BY <1>1, <2>1, <2>4, <2>5, <2>6, OneSession
<1>5. CASE temp' = SweptTemp /\ UNCHANGED <<rows, media>>
  BY <1>5, OnlySwept DEF rows
<1>. QED
  BY <1>2, <1>3, <1>4, <1>5 DEF HandleHalf, Post

-----------------------------------------------------------------------------
(* Clients *)

Clients == UNION {[W -> Phase] : W \in SUBSET Sessions}

ClientType ==
  /\ client \in Clients
  /\ posts \subseteq Post
  /\ \A p \in posts : InRange(p)

LEMMA ClientMoves ==
  ASSUME NEW c \in Clients, NEW s, NEW ph \in Phase
  PROVE  [c EXCEPT ![s] = ph] \in Clients
<1>1. PICK W \in SUBSET Sessions : c \in [W -> Phase]
  BY DEF Clients
<1>2. [c EXCEPT ![s] = ph] \in [W -> Phase]
  BY <1>1
<1>. QED
  BY <1>2 DEF Clients

LEMMA RequestIs ==
  ASSUME NEW s \in Sessions, NEW k \in {"create", "chunk", "finalize"}, NEW i \in 0 .. Size,
         k = "chunk" => i < Size
  PROVE  /\ Request(s, k, i) \in Post /\ InRange(Request(s, k, i))
         /\ [Request(s, k, i) EXCEPT !.late = TRUE] \in Post
         /\ InRange([Request(s, k, i) EXCEPT !.late = TRUE])
BY DEF Request, Post, InRange

LEMMA SettlesKeeps ==
  ASSUME ClientType, NEW s, NEW ph \in Phase, NEW rest \in SUBSET Post,
         \A p \in rest : InRange(p), Settles(s, ph, rest)
  PROVE  ClientType'
BY ClientMoves DEF Settles, ClientType, InRange, Clients

LEMMA SendsKeeps ==
  ASSUME ClientType, NEW s \in Sessions, NEW ph \in Phase, NEW rest \in SUBSET posts,
         NEW k \in {"create", "chunk", "finalize"}, NEW i \in 0 .. Size,
         k = "chunk" => i < Size, Sends(s, ph, k, i, rest)
  PROVE  ClientType'
BY ClientMoves, RequestIs DEF Sends, ClientType, InRange, Clients

\* What the client asks for next is a proper request.
LEMMA FollowKeeps ==
  ASSUME ClientType, NEW s \in Sessions, NEW row \in SessionRow, NEW file,
         NEW rest \in SUBSET posts, Follow(s, row, file, rest)
  PROVE  ClientType'
<1>1. /\ rest \in SUBSET Post /\ \A p \in rest : InRange(p)
      /\ row.received \in 0 .. Size /\ Size \in 0 .. Size
  BY IngestAssumption DEF ClientType, SessionRow
<1>2. \/ Settles(s, "done", rest) \/ Settles(s, "gone", rest)
      \/ row.received < Size /\ Sends(s, "sending", "chunk", row.received, rest)
      \/ Sends(s, "finalizing", "finalize", Size, rest)
  BY DEF Follow
<1>3. {"done", "gone", "sending", "finalizing"} \subseteq Phase
  BY DEF Phase
<1>. QED
  BY <1>1, <1>2, <1>3, SettlesKeeps, SendsKeeps

Bounds == lost \in 0 .. MaxLost /\ harm \in 0 .. MaxHarm

IngestInv == ServerSound /\ ClientType /\ Bounds

LEMMA IngestStep ==
  ASSUME IngestInv, [Next]_vars
  PROVE  IngestInv'
<1>. USE DEF IngestInv
<1>1. ASSUME UNCHANGED <<rows, temp, media>>
      PROVE  ServerSound'
  BY <1>1 DEF rows, ServerSound, ServerType, Sound, Prefix, Upload, File
<1>2. ASSUME NoTrouble \/ Loss \/ Harm
      PROVE  Bounds'
  BY <1>2, IngestAssumption DEF NoTrouble, Loss, Harm, Bounds
<1>3. ASSUME NEW p \in posts
      PROVE  /\ p \in Post /\ InRange(p) /\ p.to \in Sessions
             /\ posts \ {p} \in SUBSET Post /\ \A q \in posts \ {p} : InRange(q)
             /\ [p EXCEPT !.late = TRUE] \in Post /\ InRange([p EXCEPT !.late = TRUE])
  BY DEF ClientType, Post, InRange
<1>4. "asking" \in Phase /\ "creating" \in Phase
  BY DEF Phase
<1>5. ASSUME NEW s \in Sessions, Create(s)
      PROVE  IngestInv'
  <2>1. ClientType'
    <3>1. Sends(s, "creating", "create", 0, posts) /\ 0 \in 0 .. Size
      BY <1>5, IngestAssumption DEF Create
    <3>. QED
      BY <1>4, <3>1, SendsKeeps
  <2>. QED
    BY <1>1, <1>2, <1>5, <2>1 DEF Create
<1>6. ASSUME NEW s \in Sessions, Ask(s)
      PROVE  IngestInv'
  <2>1. ClientType'
    BY <1>6, FollowKeeps, SweptIs DEF Ask
  <2>. QED
    BY <1>2, <1>6, <2>1, OnlySwept DEF Ask
<1>7. ASSUME NEW s \in Sessions, Stray(s)
      PROVE  IngestInv'
  <2>1. PICK q \in {Request(s, "chunk", i) : i \in 0 .. (Size - 1)}
                     \cup {Request(s, "finalize", Size)} :
          posts' = posts \cup {[q EXCEPT !.late = TRUE]}
    BY <1>7 DEF Stray
  <2>2. [q EXCEPT !.late = TRUE] \in Post /\ InRange([q EXCEPT !.late = TRUE])
    <3>1. CASE \E i \in 0 .. (Size - 1) : q = Request(s, "chunk", i)
      <4>1. PICK i \in 0 .. (Size - 1) : q = Request(s, "chunk", i)
        BY <3>1
      <4>2. i \in 0 .. Size /\ i < Size
        BY IngestAssumption
      <4>. QED
        BY <4>1, <4>2, RequestIs
    <3>2. CASE q = Request(s, "finalize", Size)
      <4>1. Size \in 0 .. Size
        BY IngestAssumption
      <4>. QED
        BY <3>2, <4>1, RequestIs
    <3>. QED
      BY <2>1, <3>1, <3>2
  <2>3. ClientType'
    BY <1>7, <2>1, <2>2 DEF Stray, ClientType, InRange, Clients
  <2>. QED
    BY <1>1, <1>2, <1>7, <2>3 DEF Stray
<1>8. ASSUME NEW s \in Sessions, Day(s)
      PROVE  IngestInv'
  <2>1. /\ session' = [session EXCEPT ![s].old = TRUE]
        /\ UNCHANGED <<job, stored, temp, media, client, posts>>
    BY <1>8 DEF Day
  <2>2. session[s] \in SessionRow
    BY DEF ServerSound, ServerType
  <2>3. /\ session'[s] \in SessionRow /\ session'[s].state = session[s].state
        /\ session'[s].received = session[s].received
        /\ \A t \in Sessions : t # s => session'[t] = session[t]
    BY <2>1, <2>2 DEF ServerSound, ServerType, SessionRow
  <2>4. ServerType'
    BY <2>1, <2>3 DEF ServerSound, ServerType, File
  <2>5. ASSUME NEW t \in Sessions
        PROVE  Sound(session'[t], temp'[t], media'[t], stored'[t], job'[t])
    <3>1. Sound(session[t], temp[t], media[t], stored[t], job[t])
      BY DEF ServerSound
    <3>. QED
      BY <2>1, <2>3, <3>1 DEF Sound
  <2>6. ServerSound'
    BY <2>4, <2>5 DEF ServerSound, Sound, Prefix, Upload
  <2>. QED
    BY <1>2, <1>8, <2>1, <2>6 DEF Day, ClientType, InRange, Clients
<1>9. ASSUME NEW p \in posts, Answer(p)
      PROVE  IngestInv'
  <2>1. ServerSound'
    BY <1>3, <1>9, HandleKeeps DEF Answer
  <2>2. session'[p.to] \in SessionRow
    BY <1>3, <2>1 DEF ServerSound, ServerType
  <2>3. ClientType'
    BY <1>3, <1>4, <1>9, <2>2, FollowKeeps, SettlesKeeps DEF Answer
  <2>. QED
    BY <1>2, <1>9, <2>1, <2>3 DEF Answer
<1>10. ASSUME NEW p \in posts, LoseAnswer(p) \/ Crash(p)
       PROVE  IngestInv'
  <2>1. ServerSound'
    BY <1>3, <1>10, HandleKeeps, CrashKeeps DEF LoseAnswer, Crash
  <2>2. ClientType'
    BY <1>3, <1>4, <1>10, SettlesKeeps DEF LoseAnswer, Crash
  <2>. QED
    BY <1>2, <1>10, <2>1, <2>2 DEF LoseAnswer, Crash
<1>11. ASSUME NEW p \in posts, LoseRequest(p) \/ GiveUp(p)
       PROVE  IngestInv'
  <2>1. CASE LoseRequest(p)
    BY <1>1, <1>2, <1>3, <1>4, <2>1, SettlesKeeps DEF LoseRequest
  <2>2. CASE GiveUp(p)
    <3>1. /\ (posts \ {p}) \cup {[p EXCEPT !.late = TRUE]} \in SUBSET Post
          /\ \A q \in (posts \ {p}) \cup {[p EXCEPT !.late = TRUE]} : InRange(q)
      BY <1>3
    <3>. QED
      BY <1>1, <1>2, <1>4, <2>2, <3>1, SettlesKeeps DEF GiveUp
  <2>. QED
    BY <1>11, <2>1, <2>2
<1>12. ASSUME NEW p \in posts, ArriveLate(p)
       PROVE  IngestInv'
  <2>1. ServerSound'
    BY <1>3, <1>12, HandleKeeps DEF ArriveLate
  <2>2. ClientType'
    BY <1>12 DEF ArriveLate, ClientType, InRange, Clients
  <2>. QED
    BY <1>2, <1>12, <2>1, <2>2 DEF ArriveLate
<1>13. CASE UNCHANGED vars
  BY <1>1, <1>13 DEF vars, rows, ClientType, InRange, Clients, Bounds
<1>. QED
  BY <1>5, <1>6, <1>7, <1>8, <1>9, <1>10, <1>11, <1>12, <1>13 DEF Next

-----------------------------------------------------------------------------

LEMMA IngestStart == Init => IngestInv
<1>. SUFFICES ASSUME Init PROVE IngestInv
  OBVIOUS
<1>. USE IngestAssumption
<1>1. ServerType
  BY DEF Init, ServerType, SessionRow, SessionState
<1>2. \A s \in Sessions : Sound(session[s], temp[s], media[s], stored[s], job[s])
  BY DEF Init, Sound
<1>3. client \in Clients
  <2>1. PICK W \in SUBSET Sessions : client = [s \in W |-> "asking"]
    BY DEF Init
  <2>2. client \in [W -> Phase]
    BY <2>1 DEF Phase
  <2>. QED
    BY <2>2 DEF Clients
<1>4. posts = {} /\ lost = 0 /\ harm = 0
  BY DEF Init
<1>5. Bounds
  BY <1>4 DEF Bounds
<1>6. ClientType
  BY <1>3, <1>4 DEF ClientType
<1>. QED
  BY <1>1, <1>2, <1>5, <1>6 DEF IngestInv, ServerSound

\* Every reachable state of the server, its files and its clients is well
\* formed.
THEOREM Typing == Spec => []TypeOK
<1>1. IngestInv => TypeOK
  BY DEF IngestInv, ServerSound, ServerType, ClientType, Clients, Bounds, TypeOK
<1>. QED
  BY <1>1, IngestStart, IngestStep, PTL DEF Spec

\* The bytes the server counted are in the file, and what left for the media
\* directory is whole, whatever is lost, late, repeated or interrupted.
THEOREM BytesCorrect == Spec => []NoByteIsMissing
<1>1. IngestInv => NoByteIsMissing
  BY UploadIs DEF IngestInv, ServerSound, Sound, Prefix, NoByteIsMissing
<1>. QED
  BY <1>1, IngestStart, IngestStep, PTL DEF Spec

\* A verified recording has its media for good.
THEOREM MediaCorrect == Spec => []VerifiedHasMedia
<1>1. IngestInv => VerifiedHasMedia
  BY DEF IngestInv, ServerSound, Sound, VerifiedHasMedia
<1>. QED
  BY <1>1, IngestStart, IngestStep, PTL DEF Spec

-----------------------------------------------------------------------------
(* Nothing but losses: no crash, no late or stray request, no day of silence *)

CalmRow(row, file) ==
  /\ ~row.old
  /\ row.state \in {"none", "uploading", "verified"}
  /\ row.state = "uploading" => file # NoFile /\ Len(file) = row.received

\* The one request of a client asks for what the row has next.
Timely(p, row) ==
  /\ ~p.late /\ p.to \in DOMAIN client
  /\ p.kind = "create" => client[p.to] = "creating"
  /\ p.kind = "chunk" =>
       client[p.to] = "sending" /\ row.state = "uploading" /\ row.received = p.at
  /\ p.kind = "finalize" =>
       client[p.to] = "finalizing" /\ row.state = "uploading" /\ row.received = Size

Calm ==
  /\ \A s \in Sessions : CalmRow(session[s], temp[s])
  /\ \A p \in posts : Timely(p, session[p.to])
  /\ \A p, q \in posts : p.to = q.to => p = q
  /\ \A s \in DOMAIN client :
       client[s] # "gone" /\ (client[s] = "done" => session[s].state = "verified")

\* Nothing is old, so nothing is swept.
LEMMA NothingSwept ==
  ASSUME IngestInv, Calm
  PROVE  Swept = session /\ SweptTemp = temp
<1>1. \A s \in Sessions : ~Expired(s)
  BY DEF Calm, CalmRow, Expired
<1>2. session \in [Sessions -> SessionRow] /\ temp \in [Sessions -> File \cup {NoFile}]
  BY DEF IngestInv, ServerSound, ServerType
<1>. QED
  BY <1>1, <1>2 DEF Swept, SweptTemp

\* A timely request is granted, and its session is as calm as before.
LEMMA TimelyHandled ==
  ASSUME IngestInv, Calm, NEW p \in posts, Handle(p)
  PROVE  /\ Accepted(p)
         /\ \A t \in Sessions : t # p.to => session'[t] = session[t] /\ temp'[t] = temp[t]
         /\ CalmRow(session'[p.to], temp'[p.to])
         /\ session'[p.to].state # "none"
<1>. DEFINE s == p.to
<1>1. /\ p \in Post /\ InRange(p) /\ s \in Sessions /\ Size \in Nat \ {0}
      /\ p.at \in 0 .. Size /\ Timely(p, session[s])
  BY IngestAssumption DEF IngestInv, ClientType, Post, Calm
<1>2. Swept = session /\ SweptTemp = temp
  BY NothingSwept
<1>3. /\ session[s] \in SessionRow /\ temp[s] \in File \cup {NoFile}
      /\ session \in [Sessions -> SessionRow] /\ temp \in [Sessions -> File \cup {NoFile}]
      /\ CalmRow(session[s], temp[s])
  BY <1>1 DEF IngestInv, ServerSound, ServerType, Calm
<1>. HIDE DEF s
<1>4. CASE p.kind = "create"
  <2>1. HandleCreate(p) /\ Accepted(p)
    BY <1>4 DEF Handle, Accepted
  <2>2. CASE session[s].state # "none"
    <3>1. session' = session /\ temp' = temp
      BY <1>2, <2>1, <2>2 DEF HandleCreate, s
    <3>. QED
      BY <1>3, <2>1, <2>2, <3>1 DEF s
  <2>3. CASE session[s].state = "none"
    <3>1. /\ session' = [session EXCEPT ![s].state = "uploading"]
          /\ temp' = [temp EXCEPT ![s] = <<>>]
      BY <1>2, <2>1, <2>3 DEF HandleCreate, s
    <3>2. session[s].received = 0
      BY <1>1, <2>3 DEF IngestInv, ServerSound, Sound
    <3>3. /\ session'[s] = [session[s] EXCEPT !.state = "uploading"]
          /\ temp'[s] = <<>>
          /\ \A t \in Sessions : t # s => session'[t] = session[t] /\ temp'[t] = temp[t]
      BY <1>1, <1>3, <3>1
    <3>4. /\ session'[s].state = "uploading" /\ session'[s].received = 0
          /\ session'[s].old = session[s].old
      BY <1>3, <3>2, <3>3 DEF SessionRow
    <3>5. <<>> # NoFile /\ Len(<<>>) = 0
      BY EmptyIs, FileIs
    <3>6. CalmRow(session'[s], temp'[s])
      BY <1>3, <3>3, <3>4, <3>5 DEF CalmRow
    <3>. QED
      BY <2>1, <3>3, <3>4, <3>6 DEF s
  <2>. QED
    BY <2>2, <2>3
<1>5. CASE p.kind = "chunk"
  <2>1. /\ HandleChunk(p) /\ p.at < Size
        /\ session[s].state = "uploading" /\ session[s].received = p.at
    BY <1>1, <1>5 DEF Handle, InRange, Timely, s
  <2>2. temp[s] \in File /\ Len(temp[s]) = p.at /\ temp[s] # NoFile
    BY <1>3, <2>1 DEF CalmRow
  <2>3. Takes(p) /\ Accepted(p)
    BY <1>2, <1>5, <2>1, <2>2 DEF Takes, Accepted, s
  <2>. DEFINE f == Written(temp[s], p)
              row == [state |-> "uploading", received |-> p.at + 1, old |-> FALSE]
  <2>4. session' = [session EXCEPT ![s] = row] /\ temp' = [temp EXCEPT ![s] = f]
    BY <1>2, <2>1, <2>3 DEF HandleChunk, s
  <2>5. f \in File
    BY <1>1, <1>2, <2>1, <2>3, TakesIs DEF IngestInv, s
  <2>6. Len(f) = p.at + 1
    <3>1. CASE p.at = 0
      BY <3>1 DEF Written
    <3>2. CASE p.at # 0
      <4>1. p.at \in Nat /\ Len(temp[s]) \in Nat
        BY <1>1, <2>2
      <4>2. MaxLen(temp[s], p.at + 1) = p.at + 1
        BY <2>2, <4>1 DEF MaxLen
      <4>3. f = [i \in 1 .. (p.at + 1) |->
                   IF i = p.at + 1 THEN i ELSE IF i <= Len(temp[s]) THEN temp[s][i] ELSE 0]
        BY <3>2, <4>2 DEF Written
      <4>4. DOMAIN f = 1 .. (p.at + 1)
        BY <4>3
      <4>. HIDE DEF f
      <4>5. Len(f) \in Nat /\ DOMAIN f = 1 .. Len(f)
        BY <2>5, FileIs, IngestAssumption
      <4>. QED
        BY <4>1, <4>4, <4>5
    <3>. QED
      BY <3>1, <3>2
  <2>7. row.state = "uploading" /\ row.received = p.at + 1 /\ ~row.old
    OBVIOUS
  <2>. HIDE DEF f, row
  <2>8. /\ session'[s] = row /\ temp'[s] = f
        /\ \A t \in Sessions : t # s => session'[t] = session[t] /\ temp'[t] = temp[t]
    BY <1>1, <1>3, <2>4
  <2>9. CalmRow(row, f)
    BY <2>5, <2>6, <2>7, FileIs DEF CalmRow
  <2>. QED
    BY <2>3, <2>7, <2>8, <2>9 DEF s
<1>6. CASE p.kind = "finalize"
  <2>1. /\ HandleFinalize(p)
        /\ session[s].state = "uploading" /\ session[s].received = Size
    BY <1>1, <1>6 DEF Handle, Timely, s
  <2>2. temp[s] # NoFile /\ Len(temp[s]) = Size
    BY <1>3, <2>1 DEF CalmRow
  <2>3. Whole(s) /\ Accepted(p)
    BY <1>2, <1>6, <2>1, <2>2 DEF Whole, Accepted, s
  <2>4. /\ session' = [session EXCEPT ![s].state = "verified", ![s].old = FALSE]
        /\ temp' = [temp EXCEPT ![s] = NoFile]
    BY <1>2, <2>1, <2>3 DEF HandleFinalize, s
  <2>5. /\ session'[s] = [session[s] EXCEPT !.state = "verified", !.old = FALSE]
        /\ \A t \in Sessions : t # s => session'[t] = session[t] /\ temp'[t] = temp[t]
    BY <1>1, <1>3, <2>4
  <2>6. session'[s].state = "verified" /\ ~session'[s].old
    BY <1>3, <2>5 DEF SessionRow
  <2>. QED
    BY <2>3, <2>5, <2>6 DEF CalmRow, s
<1>. QED
  BY <1>1, <1>4, <1>5, <1>6 DEF Post

\* What the client makes of a calm session
LEMMA CalmFollow ==
  ASSUME NEW s, NEW row \in SessionRow, NEW file, NEW rest, Follow(s, row, file, rest),
         CalmRow(row, file), row.state # "none",
         row.state = "verified" => file = NoFile /\ row.received = Size
  PROVE  \/ row.state = "verified" /\ Settles(s, "done", rest)
         \/ row.state = "uploading" /\ Sends(s, "sending", "chunk", row.received, rest)
         \/ /\ row.state = "uploading" /\ row.received = Size
            /\ Sends(s, "finalizing", "finalize", Size, rest)
<1>1. CASE row.state = "verified"
  <2>1. NextAction(row, file) = "none"
    BY <1>1 DEF NextAction
  <2>. QED
    BY <1>1, <2>1 DEF Follow
<1>2. CASE row.state = "uploading" /\ row.received = Size
  <2>1. NextAction(row, file) = "finalize"
    BY <1>2 DEF NextAction, CalmRow
  <2>. QED
    BY <1>2, <2>1 DEF Follow
<1>3. CASE row.state = "uploading" /\ row.received # Size
  <2>1. NextAction(row, file) = "resume"
    BY <1>3 DEF NextAction, CalmRow
  <2>. QED
    BY <1>3, <2>1 DEF Follow
<1>. QED
  BY <1>1, <1>2, <1>3 DEF CalmRow

\* One client moves; every other session and request is as it was.
LEMMA CalmMoves ==
  ASSUME IngestInv, ServerSound', Calm, NEW s \in DOMAIN client, NEW rest \in SUBSET posts,
         \A p \in rest : p.to # s,
         \A t \in Sessions : t # s => session'[t] = session[t] /\ temp'[t] = temp[t],
         CalmRow(session'[s], temp'[s]),
         \/ Settles(s, "asking", rest)
         \/ s \in Sessions /\ Sends(s, "creating", "create", 0, rest)
         \/ session'[s].state # "none" /\ Follow(s, session'[s], temp'[s], rest)
  PROVE  Calm'
<1>1. /\ s \in Sessions /\ DOMAIN client \subseteq Sessions
      /\ \A p \in posts : p.to \in Sessions
  BY DEF IngestInv, ClientType, Clients, Post
<1>2. session'[s] \in SessionRow
  BY <1>1 DEF ServerSound, ServerType
<1>3. session'[s].state = "verified" => temp'[s] = NoFile /\ session'[s].received = Size
  <2>1. Sound(session'[s], temp'[s], media'[s], stored'[s], job'[s])
    BY <1>1 DEF ServerSound, Sound, Prefix, Upload
  <2>. QED
    BY <2>1 DEF Sound
<1>4. \/ Settles(s, "asking", rest) \/ Sends(s, "creating", "create", 0, rest)
      \/ session'[s].state = "verified" /\ Settles(s, "done", rest)
      \/ /\ session'[s].state = "uploading"
         /\ Sends(s, "sending", "chunk", session'[s].received, rest)
      \/ /\ session'[s].state = "uploading" /\ session'[s].received = Size
         /\ Sends(s, "finalizing", "finalize", Size, rest)
  BY <1>2, <1>3, CalmFollow
<1>5. \A t \in Sessions : CalmRow(session'[t], temp'[t])
  BY DEF Calm
<1>6. /\ DOMAIN client' = DOMAIN client
      /\ \A t \in DOMAIN client : t # s => client'[t] = client[t]
      /\ client'[s] # "gone" /\ (client'[s] = "done" => session'[s].state = "verified")
  BY <1>4 DEF Settles, Sends
<1>7. ASSUME NEW t \in DOMAIN client'
      PROVE  client'[t] # "gone" /\ (client'[t] = "done" => session'[t].state = "verified")
  BY <1>1, <1>6 DEF Calm
<1>8. ASSUME NEW p \in rest
      PROVE  /\ ~p.late /\ p.to \in DOMAIN client'
             /\ p.kind = "create" => client'[p.to] = "creating"
             /\ p.kind = "chunk" =>
                  /\ client'[p.to] = "sending" /\ session'[p.to].state = "uploading"
                  /\ session'[p.to].received = p.at
             /\ p.kind = "finalize" =>
                  /\ client'[p.to] = "finalizing" /\ session'[p.to].state = "uploading"
                  /\ session'[p.to].received = Size
  BY <1>1, <1>6 DEF Calm, Timely
<1>9. ASSUME NEW p \in posts' \ rest
      PROVE  /\ p.to = s /\ ~p.late /\ p.to \in DOMAIN client'
             /\ p.kind = "create" => client'[p.to] = "creating"
             /\ p.kind = "chunk" =>
                  /\ client'[p.to] = "sending" /\ session'[p.to].state = "uploading"
                  /\ session'[p.to].received = p.at
             /\ p.kind = "finalize" =>
                  /\ client'[p.to] = "finalizing" /\ session'[p.to].state = "uploading"
                  /\ session'[p.to].received = Size
  BY <1>4, <1>6, <1>9 DEF Settles, Sends, Request
<1>10. ASSUME NEW p \in posts', NEW q \in posts', p.to = q.to
       PROVE  p = q
  <2>1. \A a, b \in posts' \ rest : a = b
    BY <1>4 DEF Settles, Sends
  <2>. QED
    BY <1>9, <1>10, <2>1 DEF Calm
<1>. QED
  BY <1>5, <1>7, <1>8, <1>9, <1>10 DEF Calm, CalmRow, Timely

CalmInv == harm = 0 => Calm

LEMMA CalmStep ==
  ASSUME IngestInv, IngestInv', CalmInv, [Next]_vars
  PROVE  CalmInv'
<1>. SUFFICES ASSUME harm' = 0 PROVE Calm'
  BY DEF CalmInv
<1>1. harm \in Nat /\ ServerSound'
  BY IngestAssumption DEF IngestInv, Bounds
<1>2. ~Harm
  BY <1>1 DEF Harm
<1>3. ASSUME NoTrouble \/ Loss
      PROVE  Calm
  BY <1>3 DEF NoTrouble, Loss, CalmInv
<1>4. ASSUME Calm, NEW p \in posts
      PROVE  /\ p.to \in DOMAIN client /\ p.to \in Sessions /\ posts \ {p} \in SUBSET posts
             /\ \A q \in posts \ {p} : q.to # p.to
  BY <1>4 DEF Calm, Timely, IngestInv, ClientType, Post
<1>5. ASSUME Calm, NEW s \in DOMAIN client, client[s] = "asking"
      PROVE  \A p \in posts : p.to # s
  BY <1>5 DEF Calm, Timely, IngestInv, ClientType, Post
<1>6. ASSUME NEW s \in Sessions, Create(s)
      PROVE  Calm'
  <2>1. /\ Calm /\ s \in DOMAIN client /\ client[s] = "asking"
        /\ Sends(s, "creating", "create", 0, posts) /\ session' = session /\ temp' = temp
    BY <1>3, <1>6 DEF Create, rows
  <2>2. \A p \in posts : p.to # s
    BY <1>5, <2>1
  <2>3. CalmRow(session'[s], temp'[s])
    BY <2>1 DEF Calm
  <2>. QED
    BY <1>1, <2>1, <2>2, <2>3, CalmMoves
<1>7. ASSUME NEW s \in Sessions, Ask(s)
      PROVE  Calm'
  <2>1. /\ Calm /\ s \in DOMAIN client /\ client[s] = "asking"
        /\ session' = Swept /\ temp' = SweptTemp /\ session[s].state # "none"
        /\ Follow(s, Swept[s], SweptTemp[s], posts)
    BY <1>3, <1>7 DEF Ask
  <2>2. session' = session /\ temp' = temp
    BY <2>1, NothingSwept
  <2>3. \A p \in posts : p.to # s
    BY <1>5, <2>1
  <2>4. CalmRow(session'[s], temp'[s])
    BY <2>1, <2>2 DEF Calm
  <2>5. session'[s].state # "none" /\ Follow(s, session'[s], temp'[s], posts)
    BY <2>1, <2>2
  <2>. QED
    BY <1>1, <2>1, <2>2, <2>3, <2>4, <2>5, CalmMoves
<1>8. ASSUME NEW p \in posts, Answer(p)
      PROVE  Calm'
  <2>1. Calm /\ Handle(p)
    BY <1>3, <1>8 DEF Answer
  <2>2. Follow(p.to, session'[p.to], temp'[p.to], posts \ {p})
    BY <1>8, <2>1, TimelyHandled DEF Answer
  <2>. QED
    BY <1>1, <1>4, <2>1, <2>2, TimelyHandled, CalmMoves
<1>9. ASSUME NEW p \in posts, LoseAnswer(p)
      PROVE  Calm'
  <2>1. Calm /\ Handle(p) /\ Settles(p.to, "asking", posts \ {p})
    BY <1>3, <1>9 DEF LoseAnswer
  <2>. QED
    BY <1>1, <1>4, <2>1, TimelyHandled, CalmMoves
<1>10. ASSUME NEW p \in posts, LoseRequest(p)
       PROVE  Calm'
  <2>1. /\ Calm /\ Settles(p.to, "asking", posts \ {p})
        /\ session' = session /\ temp' = temp
    BY <1>3, <1>10 DEF LoseRequest, rows
  <2>2. CalmRow(session'[p.to], temp'[p.to])
    BY <1>4, <2>1 DEF Calm
  <2>. QED
    BY <1>1, <1>4, <2>1, <2>2, CalmMoves
<1>11. ASSUME NEW p \in posts, ArriveLate(p)
       PROVE  FALSE
  BY <1>3, <1>11 DEF ArriveLate, Calm, Timely
<1>12. ASSUME NEW p \in posts, GiveUp(p) \/ Crash(p)
       PROVE  FALSE
  BY <1>2, <1>12 DEF GiveUp, Crash
<1>13. ASSUME NEW s \in Sessions, Stray(s) \/ Day(s)
       PROVE  FALSE
  BY <1>2, <1>13 DEF Stray, Day
<1>14. CASE UNCHANGED vars
  BY <1>14 DEF vars, rows, CalmInv, Calm, CalmRow, Timely
<1>. QED
  BY <1>6, <1>7, <1>8, <1>9, <1>10, <1>11, <1>12, <1>13, <1>14 DEF Next

\* Losing requests or answers costs nothing: while there is no crash, no late
\* or stray request and no day of silence, no upload is given up, and a client
\* that calls itself done has its recording verified.
THEOREM LossesReconciled == Spec => []LossesAreReconciled
<1>1. Init => CalmInv
  <2>. SUFFICES ASSUME Init PROVE Calm
    BY DEF CalmInv
  <2>1. \E W \in SUBSET Sessions : client = [s \in W |-> "asking"]
    BY DEF Init
  <2>. QED
    BY <2>1 DEF Init, Calm, CalmRow
<1>2. CalmInv => LossesAreReconciled
  BY DEF CalmInv, Calm, LossesAreReconciled
<1>. QED
  BY <1>1, <1>2, IngestStart, IngestStep, CalmStep, PTL DEF Spec
=============================================================================

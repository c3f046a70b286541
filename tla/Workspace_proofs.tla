---------------------------- MODULE Workspace_proofs ----------------------------
(***************************************************************************)
(* Proofs about the casefile page for any amount of text, any number of      *)
(* revisions and of calls waiting, and any interleaving of the user, the      *)
(* server, other people and lost answers.                                     *)
(***************************************************************************)
EXTENDS Workspace, TLAPS

-----------------------------------------------------------------------------
(* Types *)

Casefiles == [rev : Nat, stage : {"draft", "pending", "approved"},
              mode : {"none", "reviewer", "approver"}]

Commands == Decisions \cup {"save", "rename"}
Kinds == Commands \cup ModeCalls \cup {"refresh"}
Modals == {"none", "rename"} \cup Decisions \cup ModeCalls

CallRecord == [kind : Kinds, asked : BOOLEAN, edits : SUBSET Nat, dirty : BOOLEAN,
               view : Casefiles, shown : Nat]

Refusals == {"auth", "mode", "stale", "other", "changed"}
Answers == {Nothing} \cup [code : {"ok", "page"}, casefile : Casefiles]
                     \cup [code : Refusals \cup {"gone", "away"}]

WorkspaceType ==
  /\ record \in Casefiles /\ view \in Casefiles /\ shown \in Nat
  /\ edits \in SUBSET Nat /\ kept \in SUBSET Nat /\ given_up \in SUBSET Nat /\ typed \in Nat
  /\ dirty \in BOOLEAN /\ dialog \in Modals
  /\ queue \in Seq(CallRecord) /\ answer \in Answers

-----------------------------------------------------------------------------
(* The invariant *)

Gone == kept \cup given_up

\* A modal that is open, or a casefile that is not a draft, finds no text that
\* could still be lost.  The end of the action mode may throw the page back to an
\* older casefile than the one its text is from (handleActionModeLoss).
TextSafe ==
  /\ 1 .. typed \subseteq edits \cup Gone
  /\ edits # {} => dirty
  /\ view.stage # "draft" => edits \subseteq Gone \/ (view.mode = "none" /\ view.rev < shown)
  /\ dialog \in Decisions \ {"submit"} => edits \subseteq Gone

\* The page may believe in an older revision than the one its text is from
\* (the casefile of a call made earlier), never in a newer one.
ViewSafe == view.rev <= shown /\ shown <= record.rev

\* A call under way has with it what its answer takes from the page: e is the
\* text on the page, gone what is saved or thrown away, sh the revision shown.
CallOk(r, e, gone, sh) ==
  /\ r.kind \in Commands => e \subseteq r.edits \cup gone
  /\ r.kind \in Commands \ {"save", "submit"} => r.edits \subseteq gone
  /\ r.view.stage # "draft" => e \subseteq gone \/ r.view.rev < sh
  /\ r.view.rev <= r.shown /\ r.shown <= sh

CallsSafe == \A i \in 1 .. Len(queue) : CallOk(queue[i], edits, Gone, shown)

AnswerSafe ==
  /\ answer # Nothing => queue # <<>>
  /\ answer.code \in Refusals \cup {"ok", "gone"} => queue[1].kind # "refresh"
  /\ answer.code \in {"ok", "page"} =>
       shown <= answer.casefile.rev /\ answer.casefile.rev <= record.rev
  /\ answer.code = "ok" /\ queue[1].kind \in {"save", "submit"} => queue[1].edits \subseteq kept

\* How far a recording has come: revisions go up, and a revision from draft to
\* pending to approved.
Rank(stage) == IF stage = "draft" THEN 0 ELSE IF stage = "pending" THEN 1 ELSE 2
Pos(c) == 3 * c.rev + Rank(c.stage)

\* No casefile the page, a call or an answer has is ahead of the record; a page
\* that is in an action mode is not behind any call it made.
OrderSafe ==
  /\ Pos(view) <= Pos(record)
  /\ \A i \in 1 .. Len(queue) : Pos(queue[i].view) <= Pos(record)
  /\ answer.code \in {"ok", "page"} =>
       /\ Pos(answer.casefile) <= Pos(record) /\ Pos(view) <= Pos(answer.casefile)
       /\ \A i \in 1 .. Len(queue) : Pos(queue[i].view) <= Pos(answer.casefile)
  /\ view.mode # "none" => \A i \in 1 .. Len(queue) : Pos(queue[i].view) <= Pos(view)

WorkspaceInv == WorkspaceType /\ TextSafe /\ ViewSafe /\ CallsSafe /\ AnswerSafe /\ OrderSafe

-----------------------------------------------------------------------------
(* Calls and the queue they wait in *)

Alike(a, b) == a.kind = b.kind /\ a.edits = b.edits /\ a.view = b.view /\ a.shown = b.shown

\* Every call in q is one of S, but for what its modal is waiting for.
From(q, S) == q \in Seq(CallRecord) /\ \A i \in 1 .. Len(q) : \E r \in S : Alike(q[i], r)

Waiting == {queue[i] : i \in 1 .. Len(queue)}

LEMMA IsASequence ==
  ASSUME NEW S, NEW n \in Nat, NEW f \in [1 .. n -> S]
  PROVE  f \in Seq(S) /\ Len(f) = n
OBVIOUS

LEMMA AskedIs ==
  ASSUME NEW r \in CallRecord, NEW b \in BOOLEAN
  PROVE  [r EXCEPT !.asked = b] \in CallRecord /\ Alike([r EXCEPT !.asked = b], r)
BY DEF CallRecord, Alike

LEMMA RequestIs ==
  ASSUME WorkspaceInv, NEW k \in Kinds,
         k \in Commands \ {"save", "submit"} => edits \subseteq Gone
  PROVE  /\ Request(k) \in CallRecord /\ CallOk(Request(k), edits, Gone, shown)
         /\ Request(k).view = view
<1>1. Request(k) \in CallRecord
  BY DEF Request, CallRecord, WorkspaceInv, WorkspaceType
<1>2. /\ Request(k).kind = k /\ Request(k).edits = edits
      /\ Request(k).view = view /\ Request(k).shown = shown
  BY DEF Request
<1>3. shown \in Nat
  BY DEF WorkspaceInv, WorkspaceType
<1>. QED
  BY <1>1, <1>2, <1>3 DEF CallOk, WorkspaceInv, TextSafe, ViewSafe

LEMMA RefreshIs ==
  ASSUME WorkspaceInv
  PROVE  Refresh \in CallRecord /\ CallOk(Refresh, edits, Gone, shown) /\ Refresh.view = view
<1>1. /\ "refresh" \in Kinds /\ "refresh" \notin Commands
  BY DEF Kinds, Commands, Decisions
<1>2. /\ Request("refresh") \in CallRecord /\ CallOk(Request("refresh"), edits, Gone, shown)
      /\ Request("refresh").view = view
  BY <1>1, RequestIs
<1>3. Refresh \in CallRecord /\ Alike(Refresh, Request("refresh"))
  BY <1>2, AskedIs DEF Refresh
<1>. QED
  BY <1>2, <1>3 DEF CallOk, Alike

LEMMA WaitingIs ==
  ASSUME WorkspaceInv
  PROVE  Waiting \subseteq CallRecord /\ From(queue, Waiting) /\ Len(queue) \in Nat
<1>1. queue \in Seq(CallRecord) /\ Len(queue) \in Nat
  BY DEF WorkspaceInv, WorkspaceType
<1>2. \A i \in 1 .. Len(queue) : queue[i] \in CallRecord /\ queue[i] \in Waiting
  BY <1>1 DEF Waiting
<1>. QED
  BY <1>1, <1>2 DEF Waiting, From, Alike

LEMMA Appended ==
  ASSUME NEW S, NEW q, From(q, S), NEW r \in CallRecord
  PROVE  From(Append(q, r), S \cup {r})
<1>1. q \in Seq(CallRecord) /\ Len(q) \in Nat
  BY DEF From
<1>2. Append(q, r) \in Seq(CallRecord) /\ Len(Append(q, r)) = Len(q) + 1
  BY <1>1
<1>3. ASSUME NEW i \in 1 .. Len(Append(q, r))
      PROVE  \E x \in S \cup {r} : Alike(Append(q, r)[i], x)
  <2>1. CASE i = Len(q) + 1
    BY <1>1, <2>1 DEF Alike
  <2>2. CASE i # Len(q) + 1
    <3>1. i \in 1 .. Len(q) /\ Append(q, r)[i] = q[i]
      BY <1>1, <1>2, <2>2
    <3>. QED
      BY <3>1 DEF From
  <2>. QED
    BY <2>1, <2>2
<1>. QED
  BY <1>2, <1>3 DEF From

LEMMA Prepended ==
  ASSUME NEW S, NEW q, From(q, S), NEW r \in CallRecord
  PROVE  From(<<r>> \o q, S \cup {r})
<1>1. q \in Seq(CallRecord) /\ Len(q) \in Nat /\ <<r>> \in Seq(CallRecord) /\ Len(<<r>>) = 1
  BY DEF From
<1>. DEFINE w == <<r>> \o q
<1>2. w \in Seq(CallRecord) /\ Len(w) = Len(q) + 1 /\ w[1] = r
      /\ \A i \in 2 .. (Len(q) + 1) : w[i] = q[i - 1]
  BY <1>1
<1>3. ASSUME NEW i \in 1 .. Len(w)
      PROVE  \E x \in S \cup {r} : Alike(w[i], x)
  <2>. HIDE DEF w
  <2>1. CASE i = 1
    BY <1>2, <2>1 DEF Alike
  <2>2. CASE i # 1
    <3>1. i - 1 \in 1 .. Len(q) /\ w[i] = q[i - 1]
      BY <1>1, <1>2, <2>2
    <3>. QED
      BY <3>1 DEF From
  <2>. QED
    BY <2>1, <2>2
<1>. HIDE DEF w
<1>4. From(w, S \cup {r})
  BY <1>2, <1>3 DEF From
<1>. QED
  BY <1>4 DEF w

\* What is left of the queue when its first call has been answered
LEMMA TailIs ==
  ASSUME WorkspaceInv, queue # <<>>
  PROVE  From(Tail(queue), Waiting)
<1>1. queue \in Seq(CallRecord) /\ Len(queue) \in Nat /\ Len(queue) >= 1
  BY DEF WorkspaceInv, WorkspaceType
<1>2. Tail(queue) \in Seq(CallRecord) /\ Len(Tail(queue)) = Len(queue) - 1
  BY <1>1
<1>3. ASSUME NEW i \in 1 .. Len(Tail(queue))
      PROVE  \E x \in Waiting : Alike(Tail(queue)[i], x)
  <2>1. i + 1 \in 1 .. Len(queue) /\ Tail(queue)[i] = queue[i + 1]
    BY <1>1, <1>2
  <2>. QED
    BY <2>1 DEF Waiting, Alike
<1>. QED
  BY <1>2, <1>3 DEF From

LEMMA RestIs ==
  ASSUME WorkspaceInv, queue # <<>>, NEW r
  PROVE  From(Rest(r), Waiting)
<1>1. queue \in Seq(CallRecord) /\ Len(queue) \in Nat /\ Len(queue) >= 1
  BY DEF WorkspaceInv, WorkspaceType
<1>. DEFINE n == Len(queue) - 1
            b(i) == queue[i + 1].asked /\ ~(Closes(r) /\ queue[i + 1].kind = dialog)
<1>2. n \in Nat /\ \A i \in 1 .. n : i + 1 \in 1 .. Len(queue)
  BY <1>1
<1>3. Rest(r) = [i \in 1 .. n |-> [queue[i + 1] EXCEPT !.asked = b(i)]]
  BY DEF Rest
<1>4. ASSUME NEW i \in 1 .. n
      PROVE  /\ queue[i + 1] \in CallRecord /\ queue[i + 1] \in Waiting /\ b(i) \in BOOLEAN
  <2>1. queue[i + 1] \in CallRecord /\ queue[i + 1] \in Waiting
    BY <1>1, <1>2 DEF Waiting
  <2>2. b(i) = TRUE \/ b(i) = FALSE
    BY Zenon
  <2>. QED
    BY <2>1, <2>2
<1>. HIDE DEF n, b
<1>5. ASSUME NEW i \in 1 .. n
      PROVE  /\ Rest(r)[i] \in CallRecord /\ \E x \in Waiting : Alike(Rest(r)[i], x)
  <2>1. Rest(r)[i] = [queue[i + 1] EXCEPT !.asked = b(i)]
    BY <1>3
  <2>2. Rest(r)[i] \in CallRecord /\ Alike(Rest(r)[i], queue[i + 1])
    BY <1>4, <2>1, AskedIs
  <2>. QED
    BY <1>4, <2>2
<1>6. Rest(r) \in [1 .. n -> CallRecord]
  BY <1>3, <1>5
<1>7. Rest(r) \in Seq(CallRecord) /\ Len(Rest(r)) = n
  BY <1>2, <1>6, IsASequence
<1>. QED
  BY <1>5, <1>7 DEF From

\* Calls stay in order while text is only saved or thrown away.
LEMMA CallsKept ==
  ASSUME WorkspaceInv, NEW N \in SUBSET CallRecord, From(queue', Waiting \cup N),
         \A r \in N : CallOk(r, edits, Gone, shown),
         Gone \subseteq Gone', shown <= shown', shown' \in Nat, edits' \subseteq edits \cup Gone'
  PROVE  CallsSafe' /\ queue' \in Seq(CallRecord)
<1>1. ASSUME NEW r \in Waiting
      PROVE  r \in CallRecord /\ CallOk(r, edits, Gone, shown)
  BY WaitingIs DEF Waiting, WorkspaceInv, CallsSafe
<1>2. shown \in Nat
  BY DEF WorkspaceInv, WorkspaceType
<1>3. ASSUME NEW i \in 1 .. Len(queue')
      PROVE  CallOk(queue'[i], edits', Gone', shown')
  <2>1. PICK r \in Waiting \cup N : Alike(queue'[i], r)
    BY DEF From
  <2>2. r \in CallRecord /\ CallOk(r, edits, Gone, shown)
    BY <1>1
  <2>3. r.view.rev \in Nat /\ r.shown \in Nat
    BY <2>2 DEF CallRecord, Casefiles
  <2>4. CallOk(r, edits', Gone', shown')
    BY <1>2, <2>2, <2>3 DEF CallOk
  <2>. QED
    BY <2>1, <2>4 DEF Alike, CallOk
<1>. QED
  BY <1>3 DEF CallsSafe, CallOk, From

LEMMA PosIs ==
  ASSUME NEW c \in Casefiles
  PROVE  /\ Pos(c) \in Nat /\ Rank(c.stage) \in 0 .. 2 /\ c.rev \in Nat
         /\ c.stage = "draft" <=> Rank(c.stage) = 0
BY DEF Casefiles, Pos, Rank

\* What bounds the page and its calls bounds the calls it makes.
LEMMA CallsBounded ==
  ASSUME NEW N, From(queue', Waiting \cup N), \A r \in N : r.view = view,
         NEW b, Pos(view) <= b, \A i \in 1 .. Len(queue) : Pos(queue[i].view) <= b
  PROVE  \A i \in 1 .. Len(queue') : Pos(queue'[i].view) <= b
<1>1. ASSUME NEW i \in 1 .. Len(queue')
      PROVE  Pos(queue'[i].view) <= b
  <2>1. PICK r \in Waiting \cup N : Alike(queue'[i], r)
    BY DEF From
  <2>2. queue'[i].view = r.view
    BY <2>1 DEF Alike
  <2>3. Pos(r.view) <= b
    BY <2>1 DEF Waiting
  <2>. QED
    BY <2>2, <2>3
<1>. QED
  BY <1>1

\* The order of casefiles is kept by a record that moves on while the page
\* stays as it is ...
LEMMA OrderKept ==
  ASSUME WorkspaceInv, view' = view, NEW N \in SUBSET CallRecord, From(queue', Waiting \cup N),
         \A r \in N : r.view = view, record' \in Casefiles, Pos(record) <= Pos(record'),
         answer'.code \in {"ok", "page"} =>
           answer' = answer \/ Pos(answer'.casefile) = Pos(record')
  PROVE  OrderSafe'
<1>1. record \in Casefiles /\ view \in Casefiles /\ OrderSafe
  BY DEF WorkspaceInv, WorkspaceType
<1>2. Pos(record) \in Nat /\ Pos(record') \in Nat /\ Pos(view) \in Nat
  BY <1>1, PosIs
<1>3. /\ Pos(view) <= Pos(record)
      /\ \A i \in 1 .. Len(queue) : Pos(queue[i].view) <= Pos(record)
  BY <1>1 DEF OrderSafe
<1>4. /\ Pos(view) <= Pos(record')
      /\ \A i \in 1 .. Len(queue') : Pos(queue'[i].view) <= Pos(record')
  <2>1. \A i \in 1 .. Len(queue') : Pos(queue'[i].view) <= Pos(record)
    BY <1>3, CallsBounded
  <2>2. ASSUME NEW i \in 1 .. Len(queue')
        PROVE  Pos(queue'[i].view) \in Nat
    <3>1. queue'[i] \in CallRecord
      BY DEF From
    <3>2. queue'[i].view \in Casefiles
      BY <3>1 DEF CallRecord
    <3>. QED
      BY <3>2, PosIs
  <2>. QED
    BY <1>2, <1>3, <2>1, <2>2
<1>5. ASSUME view.mode # "none"
      PROVE  \A i \in 1 .. Len(queue') : Pos(queue'[i].view) <= Pos(view)
  <2>. DEFINE b == Pos(view)
  <2>1. b <= b /\ \A i \in 1 .. Len(queue) : Pos(queue[i].view) <= b
    BY <1>1, <1>2, <1>5 DEF OrderSafe
  <2>2. Pos(view) <= b
    BY <2>1
  <2>. HIDE DEF b
  <2>3. \A i \in 1 .. Len(queue') : Pos(queue'[i].view) <= b
    BY <2>1, <2>2, CallsBounded
  <2>. QED
    BY <2>3 DEF b
<1>6. ASSUME answer'.code \in {"ok", "page"}
      PROVE  /\ Pos(answer'.casefile) <= Pos(record') /\ Pos(view) <= Pos(answer'.casefile)
             /\ \A i \in 1 .. Len(queue') : Pos(queue'[i].view) <= Pos(answer'.casefile)
  <2>1. CASE answer' = answer
    <3>1. /\ Pos(answer.casefile) <= Pos(record) /\ Pos(view) <= Pos(answer.casefile)
          /\ \A i \in 1 .. Len(queue) : Pos(queue[i].view) <= Pos(answer.casefile)
      BY <1>1, <1>6, <2>1 DEF OrderSafe
    <3>2. answer.casefile \in Casefiles
      BY <1>6, <2>1 DEF WorkspaceInv, WorkspaceType, Answers, Nothing, Refusals
    <3>3. Pos(answer.casefile) \in Nat
      BY <3>2, PosIs
    <3>. DEFINE b == Pos(answer.casefile)
    <3>4. Pos(view) <= b /\ \A i \in 1 .. Len(queue) : Pos(queue[i].view) <= b
      BY <3>1
    <3>. HIDE DEF b
    <3>5. \A i \in 1 .. Len(queue') : Pos(queue'[i].view) <= b
      BY <3>4, CallsBounded
    <3>6. Pos(answer.casefile) <= Pos(record')
      BY <1>2, <3>1, <3>3
    <3>. QED
      BY <2>1, <3>1, <3>5, <3>6 DEF b
  <2>2. CASE Pos(answer'.casefile) = Pos(record')
    BY <1>2, <1>4, <2>2
  <2>. QED
    BY <1>6, <2>1, <2>2
<1>. QED
  BY <1>4, <1>5, <1>6 DEF OrderSafe

\* ... and by a page that takes in an answer.
LEMMA OrderReceived ==
  ASSUME WorkspaceInv, record' = record, answer' = Nothing,
         NEW N \in SUBSET CallRecord, From(queue', Waiting \cup N), \A r \in N : r.view = view,
         Pos(view') <= Pos(record),
         view'.mode # "none" =>
           /\ Pos(view) <= Pos(view')
           /\ \A i \in 1 .. Len(queue) : Pos(queue[i].view) <= Pos(view')
  PROVE  OrderSafe'
<1>1. /\ Pos(view) <= Pos(record)
      /\ \A i \in 1 .. Len(queue) : Pos(queue[i].view) <= Pos(record)
  BY DEF WorkspaceInv, OrderSafe
<1>2. \A i \in 1 .. Len(queue') : Pos(queue'[i].view) <= Pos(record)
  BY <1>1, CallsBounded
<1>3. ASSUME view'.mode # "none"
      PROVE  \A i \in 1 .. Len(queue') : Pos(queue'[i].view) <= Pos(view')
  BY <1>3, CallsBounded
<1>4. answer'.code \notin {"ok", "page"}
  BY DEF Nothing
<1>. QED
  BY <1>2, <1>3, <1>4 DEF OrderSafe, Pos

\* Nothing of the call whose answer is on its way changes.
LEMMA AnswerKept ==
  ASSUME WorkspaceInv, answer' = answer, shown' = shown, kept \subseteq kept',
         record' \in Casefiles, record.rev <= record'.rev,
         answer # Nothing =>
           /\ queue' # <<>> /\ queue'[1].kind = queue[1].kind
           /\ queue'[1].edits = queue[1].edits
  PROVE  AnswerSafe'
<1>1. CASE answer = Nothing
  BY <1>1 DEF AnswerSafe, Nothing, Refusals
<1>2. CASE answer # Nothing
  <2>1. answer.code \in {"ok", "page"} => answer.casefile \in Casefiles
    BY DEF WorkspaceInv, WorkspaceType, Answers, Nothing, Refusals
  <2>2. record \in Casefiles
    BY DEF WorkspaceInv, WorkspaceType
  <2>. QED
    BY <1>2, <2>1, <2>2 DEF WorkspaceInv, AnswerSafe, Casefiles
<1>. QED
  BY <1>1, <1>2

LEMMA NoAnswer ==
  ASSUME answer' = Nothing
  PROVE  AnswerSafe'
BY DEF AnswerSafe, Nothing, Refusals

-----------------------------------------------------------------------------
(* What the user does *)

LEMMA SamePos ==
  ASSUME WorkspaceInv, record' = record
  PROVE  /\ record' \in Casefiles /\ record.rev <= record'.rev
         /\ Pos(record') = Pos(record) /\ Pos(record) <= Pos(record')
<1>1. record \in Casefiles
  BY DEF WorkspaceInv, WorkspaceType
<1>2. Pos(record) \in Nat /\ record.rev \in Nat
  BY <1>1, PosIs
<1>3. Pos(record') = Pos(record)
  BY DEF Pos
<1>. QED
  BY <1>1, <1>2, <1>3

LEMMA SameQueue ==
  ASSUME WorkspaceInv, queue' = queue
  PROVE  From(queue', Waiting \cup {})
BY WaitingIs DEF From

LEMMA TypeKeeps ==
  ASSUME WorkspaceInv, Type
  PROVE  WorkspaceInv'
<1>1. /\ dialog = "none" /\ view.stage = "draft" /\ view.mode # "none" /\ typed' = typed + 1
      /\ edits' = edits \cup {typed'} /\ dirty' = TRUE
      /\ given_up' = IF CommandUnderWay THEN given_up \cup {typed'} ELSE given_up
      /\ record' = record /\ kept' = kept /\ shown' = shown /\ view' = view
      /\ dialog' = dialog /\ queue' = queue /\ answer' = answer
  BY DEF Type, Reachable, Offered, server, page, calls
<1>2. WorkspaceType'
  BY <1>1 DEF WorkspaceInv, WorkspaceType
<1>3. Gone \subseteq Gone' /\ shown \in Nat /\ typed \in Nat
  BY <1>1 DEF Gone, WorkspaceInv, WorkspaceType
<1>4. TextSafe'
  <2>1. 1 .. typed' = (1 .. typed) \cup {typed'}
    BY <1>1, <1>3
  <2>. QED
    BY <1>1, <1>3, <2>1 DEF WorkspaceInv, TextSafe, Decisions
<1>5. CallsSafe'
  <2>1. CASE CommandUnderWay
    <3>1. edits' \subseteq edits \cup Gone'
      BY <1>1, <2>1 DEF Gone
    <3>2. /\ {} \in SUBSET CallRecord /\ From(queue', Waiting \cup {})
          /\ \A r \in {} : CallOk(r, edits, Gone, shown) /\ r.view = view
      BY <1>1, SameQueue
    <3>3. shown <= shown' /\ shown' \in Nat
      BY <1>1, <1>3
    <3>. QED
      BY <1>3, <3>1, <3>2, <3>3, CallsKept
  <2>2. CASE ~CommandUnderWay
    <3>1. ASSUME NEW i \in 1 .. Len(queue)
          PROVE  CallOk(queue[i], edits', Gone', shown')
      <4>1. queue[i] \in CallRecord /\ i \in DOMAIN queue
        BY DEF WorkspaceInv, WorkspaceType
      <4>2. queue[i].kind \notin Commands
        BY <2>2, <4>1 DEF CommandUnderWay, Commands, Decisions, ModeCalls
      <4>3. CallOk(queue[i], edits, Gone, shown)
        BY DEF WorkspaceInv, CallsSafe
      <4>4. queue[i].view.stage # "draft" => queue[i].view.rev < shown
        <5>1. queue[i].view \in Casefiles /\ view \in Casefiles
          BY <4>1 DEF CallRecord, WorkspaceInv, WorkspaceType
        <5>2. Pos(queue[i].view) <= Pos(view)
          BY <1>1 DEF WorkspaceInv, OrderSafe
        <5>3. queue[i].view.stage # "draft" => queue[i].view.rev < view.rev
          <6>1. /\ Rank(queue[i].view.stage) \in 0 .. 2 /\ queue[i].view.rev \in Nat
                /\ view.rev \in Nat /\ Rank(view.stage) = 0
                /\ queue[i].view.stage # "draft" => Rank(queue[i].view.stage) # 0
            BY <1>1, <5>1, PosIs
          <6>. QED
            BY <5>2, <6>1 DEF Pos
        <5>. QED
          BY <1>3, <5>1, <5>3 DEF Casefiles, WorkspaceInv, ViewSafe
      <4>. QED
        BY <1>1, <1>3, <4>2, <4>3, <4>4 DEF CallOk
    <3>. QED
      BY <1>1, <3>1 DEF CallsSafe, CallOk
  <2>. QED
    BY <2>1, <2>2
<1>6. AnswerSafe'
  BY <1>1, AnswerKept DEF WorkspaceInv, WorkspaceType, AnswerSafe, Casefiles
<1>7. ViewSafe'
  BY <1>1 DEF WorkspaceInv, ViewSafe
<1>8. OrderSafe'
  BY <1>1 DEF WorkspaceInv, OrderSafe, Pos
<1>. QED
  BY <1>2, <1>4, <1>5, <1>6, <1>7, <1>8 DEF WorkspaceInv

\* Text and view as they were: calls may be added, modals opened and closed,
\* and the server's revision may move on.
LEMMA OthersKeep ==
  ASSUME WorkspaceInv, UNCHANGED <<text, view, kept>>,
         record' \in Casefiles, record.rev <= record'.rev, Pos(record) <= Pos(record'),
         dialog' \in Modals, dialog' \in Decisions \ {"submit"} => edits \subseteq Gone,
         NEW N \in SUBSET CallRecord, From(queue', Waiting \cup N),
         \A r \in N : CallOk(r, edits, Gone, shown) /\ r.view = view, answer' \in Answers, AnswerSafe',
         answer'.code \in {"ok", "page"} =>
           answer' = answer \/ Pos(answer'.casefile) = Pos(record')
  PROVE  WorkspaceInv'
<1>1. /\ shown' = shown /\ edits' = edits /\ dirty' = dirty /\ typed' = typed
      /\ given_up' = given_up /\ view' = view /\ kept' = kept /\ Gone' = Gone
  BY DEF text, Gone
<1>2. CallsSafe' /\ queue' \in Seq(CallRecord)
  <2>1. /\ shown <= shown' /\ shown' \in Nat
        /\ Gone \subseteq Gone' /\ edits' \subseteq edits \cup Gone'
    BY <1>1 DEF WorkspaceInv, WorkspaceType
  <2>. QED
    BY <2>1, CallsKept
<1>3. WorkspaceType'
  BY <1>1, <1>2 DEF WorkspaceInv, WorkspaceType
<1>4. TextSafe'
  BY <1>1 DEF WorkspaceInv, TextSafe
<1>5. ViewSafe'
  BY <1>1, <1>3 DEF WorkspaceInv, ViewSafe, WorkspaceType, Casefiles
<1>6. OrderSafe'
  BY <1>1, OrderKept
<1>. QED
  BY <1>2, <1>3, <1>4, <1>5, <1>6 DEF WorkspaceInv

\* A call is added at the end.
LEMMA CallKeeps ==
  ASSUME WorkspaceInv, NEW k \in Kinds, Call(k),
         k \in Commands \ {"save", "submit"} => edits \subseteq Gone,
         UNCHANGED <<record, kept, text, view, dialog, answer>>
  PROVE  WorkspaceInv'
<1>1. /\ Request(k) \in CallRecord /\ CallOk(Request(k), edits, Gone, shown)
      /\ Request(k).view = view
  BY RequestIs
<1>2. queue' = Append(queue, Request(k))
  BY DEF Call
<1>3. From(queue', Waiting \cup {Request(k)})
  BY <1>1, <1>2, WaitingIs, Appended
<1>4. answer # Nothing => queue' # <<>> /\ queue'[1] = queue[1]
  BY <1>1, <1>2 DEF WorkspaceInv, AnswerSafe, WorkspaceType
<1>5. /\ record' = record /\ record \in Casefiles /\ dialog' = dialog /\ dialog \in Modals
      /\ answer' = answer /\ answer \in Answers /\ shown' = shown /\ kept' = kept
  BY DEF text, WorkspaceInv, WorkspaceType
<1>6. record.rev <= record'.rev
  BY <1>5 DEF Casefiles
<1>7. AnswerSafe'
  BY <1>4, <1>5, <1>6, AnswerKept
<1>8. dialog' \in Decisions \ {"submit"} => edits \subseteq Gone
  BY <1>5 DEF WorkspaceInv, TextSafe
<1>9. {Request(k)} \in SUBSET CallRecord /\ \A r \in {Request(k)} : CallOk(r, edits, Gone, shown) /\ r.view = view
  BY <1>1
<1>. QED
  BY <1>3, <1>5, <1>6, <1>7, <1>8, <1>9, SamePos, OthersKeep

LEMMA SaveKeeps ==
  ASSUME WorkspaceInv, HandleSave
  PROVE  WorkspaceInv'
<1>1. Call("save") /\ UNCHANGED <<record, kept, text, view, dialog, answer>>
  BY DEF HandleSave, server
<1>2. "save" \in Kinds
  BY DEF Kinds, Commands
<1>. QED
  BY <1>1, <1>2, CallKeeps

LEMMA ConfirmKeeps ==
  ASSUME WorkspaceInv, Confirm
  PROVE  WorkspaceInv'
<1>1. /\ Call(dialog) /\ UNCHANGED <<record, kept, text, view, dialog, answer>>
      /\ dialog # "none" /\ (dialog = "rename" => ~dirty)
  BY DEF Confirm, server, page
<1>2. dialog \in Kinds
  BY <1>1 DEF WorkspaceInv, WorkspaceType, Modals, Kinds, Commands
<1>3. dialog \in Commands \ {"save", "submit"} => edits \subseteq Gone
  BY <1>1 DEF WorkspaceInv, TextSafe, Commands
<1>. QED
  BY <1>1, <1>2, <1>3, CallKeeps

LEMMA OpenKeeps ==
  ASSUME WorkspaceInv, NEW k \in Decisions \cup ModeCalls \cup {"rename"}, OpenDialog(k)
  PROVE  WorkspaceInv'
<1>1. /\ dialog' = k /\ UNCHANGED <<record, kept, text, view, queue, answer>>
      /\ k \notin ModeCalls => Offered(k)
  BY DEF OpenDialog, server, calls
<1>2. k \in Modals
  BY DEF Modals
<1>3. k \in Decisions \ {"submit"} => edits \subseteq Gone
  <2>1. ASSUME k \in Decisions \ {"submit"}
        PROVE  view.stage # "draft" /\ view.mode # "none"
    <3>1. k \in {"withdraw", "requestChanges", "approve", "reopen"} /\ Offered(k)
      BY <1>1, <2>1 DEF Decisions, ModeCalls
    <3>. QED
      BY <3>1 DEF Offered
  <2>. QED
    BY <2>1 DEF WorkspaceInv, TextSafe
<1>4. record \in Casefiles /\ record.rev <= record'.rev /\ shown' = shown /\ answer' \in Answers
  BY <1>1 DEF WorkspaceInv, WorkspaceType, Casefiles, text
<1>5. AnswerSafe'
  BY <1>1, <1>4, AnswerKept DEF WorkspaceInv, AnswerSafe
<1>6. /\ {} \in SUBSET CallRecord /\ From(queue', Waiting \cup {})
      /\ \A r \in {} : CallOk(r, edits, Gone, shown) /\ r.view = view
  BY <1>1, SameQueue
<1>. QED
  BY <1>1, <1>2, <1>3, <1>4, <1>5, <1>6, SamePos, OthersKeep

LEMMA CloseKeeps ==
  ASSUME WorkspaceInv, CloseDialog
  PROVE  WorkspaceInv'
<1>1. /\ dialog' = "none" /\ UNCHANGED <<record, kept, text, view, answer>>
      /\ queue' = [i \in DOMAIN queue |->
                     [queue[i] EXCEPT !.asked = queue[i].asked /\ queue[i].kind \in ModeCalls]]
  BY DEF CloseDialog, server
<1>. DEFINE b(i) == queue[i].asked /\ queue[i].kind \in ModeCalls
<1>2. /\ queue \in Seq(CallRecord) /\ Len(queue) \in Nat
      /\ queue' = [i \in 1 .. Len(queue) |-> [queue[i] EXCEPT !.asked = b(i)]]
  BY <1>1 DEF WorkspaceInv, WorkspaceType
<1>3. ASSUME NEW i \in 1 .. Len(queue)
      PROVE  queue[i] \in CallRecord /\ queue[i] \in Waiting /\ b(i) \in BOOLEAN
  <2>1. queue[i] \in CallRecord /\ queue[i] \in Waiting
    BY <1>2 DEF Waiting
  <2>2. b(i) = TRUE \/ b(i) = FALSE
    BY Zenon
  <2>. QED
    BY <2>1, <2>2
<1>. HIDE DEF b
<1>4. ASSUME NEW i \in 1 .. Len(queue)
      PROVE  queue'[i] \in CallRecord /\ Alike(queue'[i], queue[i])
  <2>1. queue'[i] = [queue[i] EXCEPT !.asked = b(i)]
    BY <1>2
  <2>. QED
    BY <1>3, <2>1, AskedIs
<1>5. queue' \in [1 .. Len(queue) -> CallRecord]
  BY <1>2, <1>4
<1>6. queue' \in Seq(CallRecord) /\ Len(queue') = Len(queue)
  BY <1>2, <1>5, IsASequence
<1>7. From(queue', Waiting \cup {})
  BY <1>3, <1>4, <1>6 DEF From
<1>8. record \in Casefiles /\ record.rev <= record'.rev /\ shown' = shown /\ answer' \in Answers
  BY <1>1 DEF WorkspaceInv, WorkspaceType, Casefiles, text
<1>9. answer # Nothing => queue' # <<>> /\ Alike(queue'[1], queue[1])
  <2>1. queue # <<>> => 1 \in 1 .. Len(queue)
    BY <1>2
  <2>2. queue # <<>> => queue' # <<>>
    BY <1>2, <1>6
  <2>. QED
    BY <1>4, <2>1, <2>2 DEF WorkspaceInv, AnswerSafe
<1>10. AnswerSafe'
  BY <1>1, <1>8, <1>9, AnswerKept DEF Alike
<1>11. "none" \in Modals /\ "none" \notin Decisions
  BY DEF Modals, Decisions
<1>12. {} \in SUBSET CallRecord /\ \A r \in {} : CallOk(r, edits, Gone, shown) /\ r.view = view
  OBVIOUS
<1>. QED
  BY <1>1, <1>7, <1>8, <1>10, <1>11, <1>12, SamePos, OthersKeep

\* Nothing the user or the server does to the page: only the server's record,
\* the session or the signs on the page.
LEMMA ServerMoves ==
  ASSUME WorkspaceInv, UNCHANGED <<kept, text, view, dialog, queue, answer>>,
         record' \in Casefiles, record.rev <= record'.rev, Pos(record) <= Pos(record')
  PROVE  WorkspaceInv'
<1>1. shown' = shown /\ kept \subseteq kept' /\ answer' \in Answers /\ dialog' \in Modals
  BY DEF text, WorkspaceInv, WorkspaceType
<1>2. AnswerSafe'
  BY <1>1, AnswerKept DEF WorkspaceInv, AnswerSafe
<1>3. /\ {} \in SUBSET CallRecord /\ From(queue', Waiting \cup {})
      /\ \A r \in {} : CallOk(r, edits, Gone, shown) /\ r.view = view
  BY SameQueue
<1>4. dialog' \in Decisions \ {"submit"} => edits \subseteq Gone
  BY DEF WorkspaceInv, TextSafe
<1>. QED
  BY <1>1, <1>2, <1>3, <1>4, OthersKeep

LEMMA RecoverKeeps ==
  ASSUME WorkspaceInv, NEW b, RecoverSession(b)
  PROVE  WorkspaceInv'
<1>1. record \in Casefiles /\ record.rev <= record.rev
  BY DEF WorkspaceInv, WorkspaceType, Casefiles
<1>. QED
  BY <1>1, SamePos, ServerMoves DEF RecoverSession, calls

\* A fresh page: nothing typed, nothing under way.
LEMMA NewPageKeeps ==
  ASSUME WorkspaceInv, NewPage, UNCHANGED <<record, kept, typed>>,
         queue' = <<>>, answer' = Nothing, dialog' \in {"none", dialog}
  PROVE  WorkspaceInv'
<1>1. /\ given_up' = given_up \cup edits /\ view' = Snapshot /\ shown' = record.rev
      /\ edits' = {} /\ dirty' = FALSE
  BY DEF NewPage
<1>2. Snapshot \in Casefiles /\ Snapshot.rev = record.rev /\ record.rev \in Nat
  BY DEF Snapshot, WorkspaceInv, WorkspaceType, Casefiles
<1>3. WorkspaceType'
  <2>1. queue' \in Seq(CallRecord) /\ answer' \in Answers
    BY DEF Answers
  <2>2. dialog' \in Modals
    BY DEF WorkspaceInv, WorkspaceType, Modals
  <2>3. given_up' \in SUBSET Nat /\ edits' \in SUBSET Nat /\ shown' \in Nat /\ dirty' \in BOOLEAN
    BY <1>1, <1>2 DEF WorkspaceInv, WorkspaceType
  <2>. QED
    BY <1>1, <1>2, <2>1, <2>2, <2>3 DEF WorkspaceInv, WorkspaceType
<1>4. TextSafe'
  BY <1>1 DEF WorkspaceInv, TextSafe, Gone
<1>5. CallsSafe'
  BY DEF CallsSafe
<1>6. ViewSafe'
  BY <1>1, <1>2 DEF ViewSafe
<1>7. OrderSafe'
  <2>1. Snapshot.rev = record.rev /\ Snapshot.stage = record.stage
    BY DEF Snapshot
  <2>2. view' = Snapshot /\ record' = record /\ Pos(view') = Pos(record')
    BY <1>1, <2>1 DEF Pos
  <2>3. Pos(record') \in Nat /\ Len(queue') = 0
    BY <2>2, PosIs DEF WorkspaceInv, WorkspaceType
  <2>4. answer'.code \notin {"ok", "page"}
    BY DEF Nothing
  <2>. QED
    BY <2>2, <2>3, <2>4 DEF OrderSafe
<1>. QED
  BY <1>3, <1>4, <1>5, <1>6, <1>7, NoAnswer DEF WorkspaceInv

LEMMA LeaveKeeps ==
  ASSUME WorkspaceInv, LeaveAndReturn
  PROVE  WorkspaceInv'
<1>1. /\ NewPage /\ UNCHANGED <<record, kept, typed>> /\ dialog' = dialog
      /\ queue = <<>> /\ queue' = queue /\ answer' = answer
  BY DEF LeaveAndReturn, server, calls
<1>2. answer = Nothing
  BY <1>1 DEF WorkspaceInv, AnswerSafe
<1>. QED
  BY <1>1, <1>2, NewPageKeeps

-----------------------------------------------------------------------------
(* The server *)

LEMMA HeadIs ==
  ASSUME WorkspaceInv, queue # <<>>
  PROVE  /\ Head(queue) = queue[1] /\ queue[1] \in CallRecord
         /\ CallOk(queue[1], edits, Gone, shown)
<1>1. queue \in Seq(CallRecord) /\ 1 \in 1 .. Len(queue)
  BY DEF WorkspaceInv, WorkspaceType
<1>. QED
  BY <1>1 DEF WorkspaceInv, CallsSafe

CasefileStages == {"draft", "pending", "approved"}

LEMMA Revised ==
  ASSUME NEW c \in Casefiles, NEW n \in Nat, c.rev <= n, NEW st \in CasefileStages, NEW o,
         o = [c EXCEPT !.rev = n, !.stage = st],
         c.rev < n \/ Rank(c.stage) <= Rank(st)
  PROVE  o \in Casefiles /\ c.rev <= o.rev /\ Pos(c) <= Pos(o)
<1>1. o \in Casefiles /\ o.rev = n /\ o.stage = st
  BY DEF Casefiles, CasefileStages
<1>2. /\ Rank(c.stage) \in 0 .. 2 /\ Rank(o.stage) \in 0 .. 2
      /\ c.rev \in Nat /\ o.rev \in Nat
  BY <1>1, PosIs
<1>. QED
  BY <1>1, <1>2 DEF Pos

LEMMA Staged ==
  ASSUME NEW c \in Casefiles, NEW st \in CasefileStages
  PROVE  /\ [c EXCEPT !.stage = st] \in Casefiles /\ [c EXCEPT !.stage = st].rev = c.rev
         /\ [c EXCEPT !.stage = st].stage = st
BY DEF Casefiles, CasefileStages

LEMMA Moded ==
  ASSUME NEW c \in Casefiles, NEW m \in {"none", "reviewer", "approver"}
  PROVE  /\ [c EXCEPT !.mode = m] \in Casefiles /\ [c EXCEPT !.mode = m].rev = c.rev
         /\ [c EXCEPT !.mode = m].stage = c.stage
BY DEF Casefiles

LEMMA OutcomeIs ==
  ASSUME WorkspaceInv, NEW r \in CallRecord, r.kind # "refresh", Verdict(r) = "ok"
  PROVE  /\ Outcome(r) \in Casefiles /\ record.rev <= Outcome(r).rev
         /\ Pos(record) <= Pos(Outcome(r))
<1>1. record \in Casefiles /\ record.rev \in Nat /\ record.rev + 1 \in Nat
  BY DEF WorkspaceInv, WorkspaceType, Casefiles
<1>2. r.kind \in Kinds
  BY DEF CallRecord
<1>. DEFINE up == record.rev + 1
<1>3. up \in Nat /\ record.rev <= up /\ record.rev < up /\ record.rev <= record.rev
  BY <1>1
<1>4. CASE r.kind \in {"save", "rename", "withdraw", "requestChanges", "reopen"}
  <2>1. Outcome(r) = [record EXCEPT !.rev = up, !.stage = "draft"]
    BY <1>4 DEF Outcome, ModeCalls
  <2>. HIDE DEF up
  <2>. QED
    BY <1>1, <1>3, <2>1, Revised, Zenon DEF CasefileStages
<1>5. CASE r.kind = "submit"
  <2>1. Outcome(r) = [record EXCEPT !.rev = IF r.dirty THEN up ELSE record.rev, !.stage = "pending"]
    BY <1>5 DEF Outcome, ModeCalls
  <2>. HIDE DEF up
  <2>2. CASE r.dirty
    BY <1>1, <1>3, <2>1, <2>2, Revised DEF CasefileStages
  <2>3. CASE ~r.dirty
    <3>1. record.stage = "draft"
      BY <1>5 DEF Verdict, ModeCalls
    <3>2. Rank(record.stage) <= Rank("pending")
      BY <3>1 DEF Rank
    <3>3. Outcome(r) = [record EXCEPT !.rev = record.rev, !.stage = "pending"]
      BY <2>1, <2>3
    <3>4. "pending" \in CasefileStages
      BY DEF CasefileStages
    <3>. QED
      BY <1>1, <1>3, <3>2, <3>3, <3>4, Revised
  <2>. QED
    BY <2>2, <2>3
<1>6. CASE r.kind = "approve"
  <2>1. Outcome(r) = [record EXCEPT !.stage = "approved"]
    BY <1>6 DEF Outcome, ModeCalls
  <2>2. /\ Outcome(r) \in Casefiles /\ Outcome(r).rev = record.rev
        /\ Outcome(r).stage = "approved"
    BY <1>1, <2>1, Staged DEF CasefileStages
  <2>3. Rank(record.stage) \in 0 .. 2 /\ Rank(Outcome(r).stage) = 2
    BY <1>1, <2>2, PosIs DEF Rank
  <2>. QED
    BY <1>1, <1>3, <2>2, <2>3 DEF Pos
<1>7. CASE r.kind \in ModeCalls
  <2>1. Outcome(r) = [record EXCEPT !.mode = ModeAfter(r.kind)]
    BY <1>7 DEF Outcome, ModeCalls
  <2>2. ModeAfter(r.kind) \in {"none", "reviewer", "approver"}
    BY <1>7 DEF ModeAfter, ModeCalls
  <2>3. /\ Outcome(r) \in Casefiles /\ Outcome(r).rev = record.rev
        /\ Outcome(r).stage = record.stage
    BY <1>1, <2>1, <2>2, Moded
  <2>. QED
    BY <1>1, <1>3, <2>3, PosIs DEF Pos
<1>. QED
  BY <1>2, <1>4, <1>5, <1>6, <1>7 DEF Kinds, Commands, Decisions

LEMMA VerdictIs ==
  ASSUME NEW r
  PROVE  /\ Verdict(r) \in Refusals \cup {"ok"}
         /\ Verdict(r) = "ok" /\ r.kind \in {"save", "submit"} => r.view.rev = record.rev
<1>1. CASE ~signedIn
  BY <1>1 DEF Verdict, Refusals
<1>2. CASE signedIn /\ r.kind \in ModeCalls
  BY <1>2 DEF Verdict, Refusals, ModeCalls
<1>3. CASE signedIn /\ r.kind \notin ModeCalls
  BY <1>3 DEF Verdict, Refusals
<1>. QED
  BY <1>1, <1>2, <1>3

LEMMA ServeKeeps ==
  ASSUME WorkspaceInv, ServeAction
  PROVE  WorkspaceInv'
<1>. DEFINE r == queue[1]
<1>1. /\ queue # <<>> /\ answer = Nothing /\ Head(queue) = r /\ r \in CallRecord
      /\ r.kind # "refresh" /\ UNCHANGED <<text, view, dialog, queue>>
  BY HeadIs DEF ServeAction, page
<1>. HIDE DEF r
<1>2. CASE Verdict(r) = "ok"
  <2>1. /\ record' = Outcome(r)
        /\ kept' = IF r.kind \in {"save", "submit"} THEN kept \cup r.edits ELSE kept
        /\ answer' \in {[code |-> "ok", casefile |-> Snapshot']} \cup
                         (IF r.kind = "reopen" THEN {[code |-> "gone"]} ELSE {})
    BY <1>1, <1>2 DEF ServeAction
  <2>2. record' \in Casefiles /\ record.rev <= record'.rev /\ Pos(record) <= Pos(record')
    BY <1>1, <1>2, <2>1, OutcomeIs
  <2>3. Snapshot' \in Casefiles /\ Snapshot'.rev = record'.rev /\ Pos(Snapshot') = Pos(record')
    BY <2>2 DEF Snapshot, Casefiles, Pos
  <2>4. r.edits \in SUBSET Nat
    BY <1>1 DEF CallRecord
  <2>5. /\ shown' = shown /\ edits' = edits /\ dirty' = dirty /\ typed' = typed
        /\ given_up' = given_up /\ view' = view /\ dialog' = dialog /\ queue' = queue
    BY <1>1 DEF text
  <2>6. Gone \subseteq Gone' /\ kept \subseteq kept'
    BY <2>1, <2>5 DEF Gone
  <2>7. answer' \in Answers
    BY <2>1, <2>3 DEF Answers
  <2>8. WorkspaceType'
    BY <2>1, <2>2, <2>4, <2>5, <2>7 DEF WorkspaceInv, WorkspaceType
  <2>9. TextSafe'
    BY <2>5, <2>6 DEF WorkspaceInv, TextSafe
  <2>10. CallsSafe'
    <3>1. /\ {} \in SUBSET CallRecord /\ From(queue', Waiting \cup {})
          /\ \A x \in {} : CallOk(x, edits, Gone, shown) /\ x.view = view
      BY <2>5, SameQueue
    <3>2. /\ shown <= shown' /\ shown' \in Nat /\ edits' \subseteq edits \cup Gone'
      BY <2>5 DEF WorkspaceInv, WorkspaceType
    <3>. QED
      BY <2>6, <3>1, <3>2, CallsKept
  <2>11. ViewSafe'
    BY <2>2, <2>5 DEF WorkspaceInv, ViewSafe, WorkspaceType, Casefiles
  <2>12. AnswerSafe'
    <3>1. queue' # <<>> /\ queue'[1] = r
      BY <1>1, <2>5 DEF r
    <3>2. shown' <= record'.rev
      BY <2>11 DEF ViewSafe
    <3>3. record'.rev <= record'.rev
      BY <2>2 DEF Casefiles
    <3>4. CASE answer' = [code |-> "ok", casefile |-> Snapshot']
      <4>1. answer'.code = "ok" /\ answer'.casefile.rev = record'.rev
        BY <2>3, <3>4
      <4>2. r.kind \in {"save", "submit"} => r.edits \subseteq kept'
        BY <2>1
      <4>. QED
        BY <1>1, <3>1, <3>2, <3>3, <4>1, <4>2 DEF AnswerSafe
    <3>5. CASE answer' = [code |-> "gone"]
      <4>1. answer'.code = "gone"
        BY <3>5
      <4>. QED
        BY <1>1, <3>1, <4>1 DEF AnswerSafe
    <3>. QED
      BY <2>1, <3>4, <3>5
  <2>13. OrderSafe'
    <3>1. /\ {} \in SUBSET CallRecord /\ From(queue', Waiting \cup {})
          /\ \A x \in {} : x.view = view
      BY <2>5, SameQueue
    <3>2. answer'.code \in {"ok", "page"} => Pos(answer'.casefile) = Pos(record')
      BY <2>1, <2>3
    <3>. QED
      BY <2>2, <2>5, <3>1, <3>2, OrderKept
  <2>. QED
    BY <2>8, <2>9, <2>10, <2>11, <2>12, <2>13 DEF WorkspaceInv
<1>3. CASE Verdict(r) # "ok"
  <2>1. answer' = [code |-> Verdict(r)] /\ UNCHANGED <<record, kept>>
    BY <1>1, <1>3 DEF ServeAction
  <2>2. Verdict(r) \in Refusals
    BY <1>3, VerdictIs
  <2>3. answer'.code \in Refusals /\ answer' \in Answers
    BY <2>1, <2>2 DEF Answers
  <2>4. AnswerSafe'
    <3>1. queue' # <<>> /\ queue'[1].kind # "refresh"
      BY <1>1 DEF r
    <3>. QED
      BY <2>3, <3>1 DEF AnswerSafe, Refusals
  <2>5. /\ {} \in SUBSET CallRecord /\ From(queue', Waiting \cup {})
        /\ \A x \in {} : CallOk(x, edits, Gone, shown) /\ x.view = view
    BY <1>1, SameQueue
  <2>6. /\ record' \in Casefiles /\ record.rev <= record'.rev /\ dialog' \in Modals
        /\ dialog' \in Decisions \ {"submit"} => edits \subseteq Gone
    BY <1>1, <2>1 DEF WorkspaceInv, WorkspaceType, TextSafe, Casefiles
  <2>7. answer'.code \notin {"ok", "page"} /\ Pos(record) <= Pos(record')
    BY <2>1, <2>3, SamePos DEF Refusals
  <2>. QED
    BY <1>1, <2>1, <2>3, <2>4, <2>5, <2>6, <2>7, OthersKeep
<1>. QED
  BY <1>2, <1>3

LEMMA ServePageKeeps ==
  ASSUME WorkspaceInv, ServePage
  PROVE  WorkspaceInv'
<1>1. /\ queue # <<>> /\ queue[1].kind = "refresh" /\ queue' = queue
      /\ answer' = IF signedIn /\ granted THEN [code |-> "page", casefile |-> Snapshot]
                   ELSE [code |-> "away"]
      /\ UNCHANGED <<record, kept, text, view, dialog>>
  BY HeadIs DEF ServePage, server, page
<1>2. Snapshot \in Casefiles /\ Snapshot.rev = record.rev /\ record.rev \in Nat
  BY DEF Snapshot, WorkspaceInv, WorkspaceType, Casefiles
<1>3. /\ answer' \in Answers /\ answer'.code \in {"page", "away"}
      /\ answer'.code = "page" => answer'.casefile.rev = record.rev
  BY <1>1, <1>2 DEF Answers
<1>4. AnswerSafe'
  <2>1. shown' = shown /\ shown <= record.rev /\ record' = record /\ record.rev <= record.rev
    BY <1>1, <1>2 DEF text, WorkspaceInv, ViewSafe
  <2>. QED
    BY <1>1, <1>3, <2>1 DEF AnswerSafe, Refusals
<1>5. /\ {} \in SUBSET CallRecord /\ From(queue', Waiting \cup {})
      /\ \A x \in {} : CallOk(x, edits, Gone, shown) /\ x.view = view
  BY <1>1, SameQueue
<1>6. /\ record' \in Casefiles /\ record.rev <= record'.rev /\ dialog' \in Modals
      /\ dialog' \in Decisions \ {"submit"} => edits \subseteq Gone
  BY <1>1 DEF WorkspaceInv, WorkspaceType, TextSafe, Casefiles
<1>7. answer'.code \in {"ok", "page"} => Pos(answer'.casefile) = Pos(record')
  BY <1>1, <1>3 DEF Snapshot, Pos
<1>. QED
  BY <1>1, <1>3, <1>4, <1>5, <1>6, <1>7, SamePos, OthersKeep

LEMMA EndsKeep ==
  ASSUME WorkspaceInv, SessionEnds \/ AccessEnds \/ ModeEnds \/ OthersAct
  PROVE  WorkspaceInv'
<1>1. record \in Casefiles /\ record.rev \in Nat
  BY DEF WorkspaceInv, WorkspaceType, Casefiles
<1>2. record' \in Casefiles /\ record.rev <= record'.rev /\ Pos(record) <= Pos(record')
  <2>1. CASE SessionEnds \/ AccessEnds
    BY <1>1, <2>1, SamePos DEF SessionEnds, AccessEnds
  <2>2. CASE ModeEnds
    <3>1. /\ record' \in Casefiles /\ record'.rev = record.rev /\ record'.stage = record.stage
      BY <1>1, <2>2, Moded DEF ModeEnds
    <3>. QED
      BY <1>1, <3>1, PosIs DEF Pos
  <2>3. CASE OthersAct
    <3>. DEFINE up == record.rev + 1
    <3>1. \/ record' = [record EXCEPT !.rev = up, !.stage = "draft"]
          \/ record.stage = "draft" /\ record' = [record EXCEPT !.stage = "pending"]
          \/ record' = [record EXCEPT !.stage = "approved"]
      BY <2>3 DEF OthersAct
    <3>2. up \in Nat /\ record.rev <= up /\ record.rev < up /\ record.rev <= record.rev
      BY <1>1
    <3>. HIDE DEF up
    <3>3. CASE record' = [record EXCEPT !.rev = up, !.stage = "draft"]
      BY <1>1, <3>2, <3>3, Revised DEF CasefileStages
    <3>4. ASSUME NEW st \in CasefileStages, record' = [record EXCEPT !.stage = st],
                 Rank(record.stage) <= Rank(st)
          PROVE  record' \in Casefiles /\ record.rev <= record'.rev /\ Pos(record) <= Pos(record')
      <4>1. record' \in Casefiles /\ record'.rev = record.rev /\ record'.stage = st
        BY <1>1, <3>4, Staged
      <4>2. /\ Rank(record.stage) \in 0 .. 2 /\ Rank(record'.stage) \in 0 .. 2
        BY <1>1, <4>1, PosIs
      <4>. QED
        BY <1>1, <3>4, <4>1, <4>2 DEF Pos
    <3>5. CASE record.stage = "draft" /\ record' = [record EXCEPT !.stage = "pending"]
      BY <3>4, <3>5 DEF CasefileStages, Rank
    <3>6. CASE record' = [record EXCEPT !.stage = "approved"]
      BY <3>4, <3>6 DEF CasefileStages, Rank
    <3>. QED
      BY <3>1, <3>3, <3>5, <3>6
  <2>. QED
    BY <2>1, <2>2, <2>3
<1>3. UNCHANGED <<kept, text, view, dialog, queue, answer>>
  BY DEF SessionEnds, AccessEnds, ModeEnds, OthersAct, page, calls
<1>. QED
  BY <1>2, <1>3, ServerMoves

-----------------------------------------------------------------------------
(* What arrives at the page *)

\* The casefile the page takes over is not ahead of the record, and when it is
\* in an action mode it is not behind the page or its calls.
Ahead ==
  /\ Pos(view') <= Pos(record)
  /\ view'.mode # "none" =>
       /\ Pos(view) <= Pos(view')
       /\ \A i \in 1 .. Len(queue) : Pos(queue[i].view) <= Pos(view')

\* An answer has been taken in: it moves the text shown forward or leaves it,
\* and text only goes from the page when it is saved or thrown away.
LEMMA Received ==
  ASSUME WorkspaceInv, answer' = Nothing, UNCHANGED <<record, kept, typed>>,
         NEW N \in SUBSET CallRecord, From(queue', Waiting \cup N),
         \A r \in N : CallOk(r, edits, Gone, shown) /\ r.view = view,
         view' \in Casefiles, shown' \in Nat,
         shown <= shown', view'.rev <= shown', shown' <= record.rev,
         dirty' \in BOOLEAN, dialog' \in {"none", dialog},
         \/ edits' = edits /\ dirty' = dirty /\ given_up' = given_up
         \/ /\ edits' = {} /\ given_up' \in SUBSET Nat
            /\ edits \subseteq kept \cup given_up' /\ given_up \subseteq given_up',
         edits' # {} /\ view'.stage # "draft" =>
           edits \subseteq Gone \/ (view'.mode = "none" /\ view'.rev < shown'),
         Ahead
  PROVE  WorkspaceInv'
<1>1. Gone \subseteq Gone' /\ edits \subseteq edits' \cup Gone' /\ edits' \subseteq edits
  BY DEF Gone
<1>2. CallsSafe' /\ queue' \in Seq(CallRecord)
  BY <1>1, CallsKept
<1>3. edits' \in SUBSET Nat /\ given_up' \in SUBSET Nat /\ dialog' \in Modals /\ answer' \in Answers
  BY DEF WorkspaceInv, WorkspaceType, Modals, Answers
<1>4. WorkspaceType'
  BY <1>2, <1>3 DEF WorkspaceInv, WorkspaceType
<1>5. TextSafe'
  <2>1. 1 .. typed' \subseteq edits' \cup Gone'
    BY <1>1 DEF WorkspaceInv, TextSafe
  <2>2. edits' # {} => dirty'
    BY DEF WorkspaceInv, TextSafe
  <2>3. view'.stage # "draft" =>
          edits' \subseteq Gone' \/ (view'.mode = "none" /\ view'.rev < shown')
    BY <1>1
  <2>4. dialog' \in Decisions \ {"submit"} => edits' \subseteq Gone'
    BY <1>1 DEF WorkspaceInv, TextSafe, Decisions
  <2>. QED
    BY <2>1, <2>2, <2>3, <2>4 DEF TextSafe
<1>6. ViewSafe'
  BY DEF ViewSafe
<1>7. OrderSafe'
  BY OrderReceived DEF Ahead
<1>. QED
  BY <1>2, <1>4, <1>5, <1>6, <1>7, NoAnswer DEF WorkspaceInv

LEMMA Nobody ==
  ASSUME WorkspaceInv, queue # <<>>
  PROVE  /\ {} \in SUBSET CallRecord /\ From(Tail(queue), Waiting \cup {})
         /\ \A r \in {} : CallOk(r, edits, Gone, shown) /\ r.view = view
BY TailIs DEF From

LEMMA AnswerIs ==
  ASSUME WorkspaceInv, answer.code # "none"
  PROVE  /\ queue # <<>> /\ Head(queue) = queue[1] /\ queue[1] \in CallRecord
         /\ CallOk(queue[1], edits, Gone, shown)
         /\ answer.code \in {"ok", "page", "gone", "away"} \cup Refusals
         /\ answer.code \in {"ok", "page"} =>
              /\ answer.casefile \in Casefiles /\ answer.casefile.rev \in Nat
              /\ shown <= answer.casefile.rev /\ answer.casefile.rev <= record.rev
<1>1. answer \in Answers /\ answer # Nothing
  BY DEF WorkspaceInv, WorkspaceType, Nothing
<1>2. /\ answer.code \in {"ok", "page", "gone", "away"} \cup Refusals
      /\ answer.code \in {"ok", "page"} => answer.casefile \in Casefiles
  BY <1>1 DEF Answers, Refusals
<1>3. queue # <<>>
  BY <1>1 DEF WorkspaceInv, AnswerSafe
<1>. QED
  BY <1>2, <1>3, HeadIs DEF WorkspaceInv, AnswerSafe, Casefiles

LEMMA PageIs ==
  ASSUME WorkspaceInv
  PROVE  /\ view \in Casefiles /\ shown \in Nat /\ shown <= shown /\ view.rev <= shown
         /\ shown <= record.rev /\ dirty \in BOOLEAN
         /\ edits \in SUBSET Nat /\ kept \in SUBSET Nat /\ given_up \in SUBSET Nat
BY DEF WorkspaceInv, WorkspaceType, ViewSafe

LEMMA ViewStays ==
  ASSUME WorkspaceInv, view' = view
  PROVE  Ahead
<1>1. view \in Casefiles /\ Pos(view) \in Nat /\ Pos(view') = Pos(view)
  BY PosIs DEF WorkspaceInv, WorkspaceType, Pos
<1>. QED
  BY <1>1 DEF Ahead, WorkspaceInv, OrderSafe

LEMMA ViewMoves ==
  ASSUME WorkspaceInv, answer.code \in {"ok", "page"}, view' = answer.casefile
  PROVE  Ahead
BY DEF Ahead, WorkspaceInv, OrderSafe, Pos

LEMMA ReceivePageKeeps ==
  ASSUME WorkspaceInv, ReceivePage
  PROVE  WorkspaceInv'
<1>1. /\ answer.code = "page" /\ queue' = Tail(queue) /\ answer' = Nothing
      /\ UNCHANGED <<record, kept, edits, dirty, typed, given_up, dialog>>
      /\ IF TakesRender(answer.casefile)
         THEN /\ view' = answer.casefile
              /\ shown' = IF dirty THEN shown ELSE answer.casefile.rev
         ELSE UNCHANGED <<view, shown>>
  BY DEF ReceivePage, server
<1>2. /\ queue # <<>> /\ answer.casefile \in Casefiles /\ answer.casefile.rev \in Nat
      /\ shown <= answer.casefile.rev /\ answer.casefile.rev <= record.rev
  BY <1>1, AnswerIs
<1>3. /\ view' \in Casefiles /\ shown' \in Nat /\ shown <= shown' /\ view'.rev <= shown'
      /\ shown' <= record.rev
      /\ edits' # {} /\ view'.stage # "draft" =>
           edits \subseteq Gone \/ (view'.mode = "none" /\ view'.rev < shown')
  <2>1. CASE ~TakesRender(answer.casefile)
    BY <1>1, <2>1, PageIs DEF WorkspaceInv, TextSafe
  <2>2. CASE TakesRender(answer.casefile) /\ ~dirty
    BY <1>1, <1>2, <2>2 DEF WorkspaceInv, TextSafe, Casefiles
  <2>3. CASE TakesRender(answer.casefile) /\ dirty
    <3>1. view.rev = answer.casefile.rev /\ view.stage = answer.casefile.stage
      BY <2>3 DEF TakesRender, SameSnapshot
    <3>2. view' = answer.casefile /\ shown' = shown /\ edits' = edits
      BY <1>1, <2>3
    <3>3. ~(view.rev < shown)
      BY <1>2, <3>1, PageIs
    <3>4. view.stage # "draft" => edits \subseteq Gone
      BY <3>3 DEF WorkspaceInv, TextSafe
    <3>. QED
      BY <1>2, <3>1, <3>2, <3>4, PageIs
  <2>. QED
    BY <2>1, <2>2, <2>3
<1>4. dirty' \in BOOLEAN /\ dialog' \in {"none", dialog}
  BY <1>1, PageIs
<1>5. Ahead
  BY <1>1, ViewStays, ViewMoves
<1>. QED
  BY <1>1, <1>2, <1>3, <1>4, <1>5, Nobody, Received

LEMMA ReceiveAwayKeeps ==
  ASSUME WorkspaceInv, ReceiveAway
  PROVE  WorkspaceInv'
BY NewPageKeeps DEF ReceiveAway

LEMMA AnswerLostKeeps ==
  ASSUME WorkspaceInv, AnswerLost
  PROVE  WorkspaceInv'
<1>1. /\ queue # <<>> /\ queue' = Tail(queue) /\ answer' = Nothing
      /\ UNCHANGED <<record, kept, typed, view, shown, edits, dirty, given_up, dialog>>
  BY DEF AnswerLost, Goes, server, text, page
<1>2. edits # {} /\ view.stage # "draft" =>
        edits \subseteq Gone \/ (view.mode = "none" /\ view.rev < shown)
  BY DEF WorkspaceInv, TextSafe
<1>3. /\ view' \in Casefiles /\ shown' \in Nat /\ shown <= shown' /\ view'.rev <= shown'
      /\ shown' <= record.rev /\ dirty' \in BOOLEAN /\ dialog' \in {"none", dialog}
      /\ edits' # {} /\ view'.stage # "draft" =>
           edits \subseteq Gone \/ (view'.mode = "none" /\ view'.rev < shown')
  BY <1>1, <1>2, PageIs
<1>4. Ahead
  BY <1>1, ViewStays
<1>. QED
  BY <1>1, <1>3, <1>4, Nobody, Received

\* The queue after an answer: the calls behind it, with a refresh before or
\* after them, or without.
LEMMA QueueAfter ==
  ASSUME WorkspaceInv, queue # <<>>, NEW r,
         Goes \/ GoesAndEnds(r) \/ GoesAndRefreshes(r) \/ GoesAndReplaces(r)
  PROVE  /\ {Refresh} \in SUBSET CallRecord
         /\ \A x \in {Refresh} : CallOk(x, edits, Gone, shown) /\ x.view = view
         /\ From(queue', Waiting \cup {Refresh})
<1>1. Refresh \in CallRecord /\ CallOk(Refresh, edits, Gone, shown) /\ Refresh.view = view
  BY RefreshIs
<1>2. From(Rest(r), Waiting) /\ From(Tail(queue), Waiting)
  BY RestIs, TailIs
<1>3. \/ queue' = Tail(queue) \/ queue' = Rest(r)
      \/ queue' = Append(Rest(r), Refresh) \/ queue' = <<Refresh>> \o Rest(r)
  BY DEF Goes, GoesAndEnds, GoesAndRefreshes, GoesAndReplaces
<1>4. From(queue', Waiting \cup {Refresh})
  <2>1. CASE queue' = Tail(queue) \/ queue' = Rest(r)
    BY <1>2, <2>1 DEF From
  <2>2. CASE queue' = Append(Rest(r), Refresh)
    BY <1>1, <1>2, <2>2, Appended
  <2>3. CASE queue' = <<Refresh>> \o Rest(r)
    BY <1>1, <1>2, <2>3, Prepended
  <2>. QED
    BY <1>3, <2>1, <2>2, <2>3
<1>. QED
  BY <1>1, <1>4

LEMMA EndsIs ==
  ASSUME NEW r, GoesAndEnds(r) \/ GoesAndRefreshes(r) \/ GoesAndReplaces(r)
  PROVE  dialog' \in {"none", dialog}
BY DEF GoesAndEnds, GoesAndRefreshes, GoesAndReplaces, Ends

\* The answer of a command that was carried out brings text in which all that
\* was on the page is saved, or had been thrown away.
LEMMA ReceiveAnswerKeeps ==
  ASSUME WorkspaceInv, ReceiveAnswer
  PROVE  WorkspaceInv'
<1>. DEFINE r == queue[1]
            taken == \/ edits' = edits /\ dirty' = dirty /\ given_up' = given_up
                     \/ /\ edits' = {} /\ given_up' \in SUBSET Nat
                        /\ edits \subseteq kept \cup given_up' /\ given_up \subseteq given_up'
            moved == /\ view' \in Casefiles /\ shown' \in Nat /\ shown <= shown'
                     /\ view'.rev <= shown' /\ shown' <= record.rev
            unlost == edits' # {} /\ view'.stage # "draft" =>
                        edits \subseteq Gone \/ (view'.mode = "none" /\ view'.rev < shown')
            left == Goes \/ GoesAndEnds(r) \/ GoesAndRefreshes(r) \/ GoesAndReplaces(r)
            Goal == /\ taken /\ moved /\ unlost /\ Ahead /\ left /\ typed' = typed
                    /\ dirty' \in BOOLEAN /\ dialog' \in {"none", dialog}
<1>1. /\ answer.code \notin {"none", "page", "away"} /\ answer' = Nothing
      /\ queue # <<>> /\ Head(queue) = r /\ r \in CallRecord /\ CallOk(r, edits, Gone, shown)
      /\ record' = record /\ kept' = kept
  BY AnswerIs DEF ReceiveAnswer, server
<1>2. edits # {} /\ view.stage # "draft" =>
        edits \subseteq Gone \/ (view.mode = "none" /\ view.rev < shown)
  BY DEF WorkspaceInv, TextSafe
<1>3. ASSUME answer.code = "ok" /\ r.kind \notin ModeCalls
      PROVE  Goal
  <2>1. /\ view' = answer.casefile /\ shown' = answer.casefile.rev
        /\ edits' = {} /\ dirty' = FALSE /\ GoesAndEnds(r) /\ UNCHANGED <<typed, given_up>>
    BY <1>1, <1>3 DEF ReceiveAnswer
  <2>2. r.kind \in Commands
    <3>1. r.kind # "refresh"
      BY <1>3 DEF WorkspaceInv, AnswerSafe
    <3>. QED
      BY <1>1, <1>3, <3>1 DEF CallRecord, Kinds
  <2>3. edits \subseteq kept \cup given_up
    <3>1. r.kind \in {"save", "submit"} => r.edits \subseteq kept
      BY <1>3 DEF WorkspaceInv, AnswerSafe
    <3>2. r.kind \notin {"save", "submit"} => r.edits \subseteq Gone
      BY <1>1, <2>2 DEF CallOk
    <3>. QED
      BY <1>1, <2>2, <3>1, <3>2 DEF CallOk, Gone
  <2>4. moved
    <3>1. /\ answer.casefile \in Casefiles /\ answer.casefile.rev \in Nat
          /\ shown <= answer.casefile.rev /\ answer.casefile.rev <= record.rev
      BY <1>3, AnswerIs
    <3>. QED
      BY <2>1, <3>1
  <2>5. taken /\ unlost /\ left
    BY <2>1, <2>3, PageIs
  <2>6. Ahead
    BY <1>3, <2>1, ViewMoves
  <2>7. Goal
    BY <2>1, <2>4, <2>5, <2>6, EndsIs
  <2>. QED
    BY <2>7
<1>4. ASSUME answer.code = "ok" /\ r.kind \in ModeCalls
      PROVE  Goal
  <2>1. GoesAndReplaces(r) /\ UNCHANGED <<view, shown, edits, dirty, typed, given_up>>
    BY <1>1, <1>4 DEF ReceiveAnswer, text
  <2>2. moved /\ taken /\ unlost /\ left /\ dirty' \in BOOLEAN
    BY <1>2, <2>1, PageIs
  <2>. QED
    BY <2>1, <2>2, ViewStays, EndsIs
<1>5. ASSUME answer.code = "auth" \/ answer.code = "other"
      PROVE  Goal
  <2>1. Goes /\ UNCHANGED <<view, shown, edits, dirty, typed, given_up, dialog>>
    BY <1>1, <1>5 DEF ReceiveAnswer, text
  <2>2. moved /\ taken /\ unlost /\ left /\ dirty' \in BOOLEAN
    BY <1>2, <2>1, PageIs
  <2>. QED
    BY <2>1, <2>2, ViewStays
<1>6. ASSUME answer.code = "stale"
      PROVE  Goal
  <2>1. GoesAndEnds(r) /\ UNCHANGED <<view, shown, edits, dirty, typed, given_up>>
    BY <1>1, <1>6 DEF ReceiveAnswer, text
  <2>2. moved /\ taken /\ unlost /\ left /\ dirty' \in BOOLEAN
    BY <1>2, <2>1, PageIs
  <2>. QED
    BY <2>1, <2>2, ViewStays, EndsIs
<1>7. ASSUME answer.code = "changed"
      PROVE  Goal
  <2>1. GoesAndRefreshes(r) /\ UNCHANGED <<view, shown, edits, dirty, typed, given_up>>
    BY <1>1, <1>7 DEF ReceiveAnswer, text
  <2>2. moved /\ taken /\ unlost /\ left /\ dirty' \in BOOLEAN
    BY <1>2, <2>1, PageIs
  <2>. QED
    BY <2>1, <2>2, ViewStays, EndsIs
<1>8. ASSUME answer.code = "mode"
      PROVE  Goal
  <2>1. /\ view' = [r.view EXCEPT !.mode = "none"]
        /\ GoesAndReplaces(r) /\ UNCHANGED <<shown, edits, dirty, typed, given_up>>
    BY <1>1, <1>8 DEF ReceiveAnswer, text
  <2>2. r.view \in Casefiles /\ r.view.rev \in Nat /\ r.shown \in Nat
    BY <1>1 DEF CallRecord, Casefiles
  <2>3. view' \in Casefiles /\ view'.rev = r.view.rev /\ view'.stage = r.view.stage
    BY <2>1, <2>2, Moded
  <2>4. moved
    BY <1>1, <2>1, <2>2, <2>3, PageIs DEF CallOk
  <2>5. unlost
    BY <1>1, <2>1, <2>2, <2>3 DEF CallOk
  <2>6. Ahead
    <3>1. Pos(view') = Pos(r.view) /\ view'.mode = "none"
      BY <2>1, <2>2, <2>3 DEF Pos, Casefiles
    <3>2. Pos(r.view) <= Pos(record)
      BY <1>1 DEF WorkspaceInv, WorkspaceType, OrderSafe
    <3>. QED
      BY <3>1, <3>2 DEF Ahead
  <2>7. taken /\ left /\ dirty' \in BOOLEAN
    BY <2>1, PageIs
  <2>. QED
    BY <2>1, <2>4, <2>5, <2>6, <2>7, EndsIs
<1>9. ASSUME answer.code = "gone"
      PROVE  Goal
  <2>1. /\ given_up' = given_up \cup edits /\ edits' = {} /\ dirty' = FALSE
        /\ GoesAndEnds(r) /\ UNCHANGED <<view, shown, typed>>
    BY <1>1, <1>9 DEF ReceiveAnswer
  <2>2. moved /\ taken /\ unlost /\ left /\ dirty' \in BOOLEAN
    BY <1>2, <2>1, PageIs
  <2>. QED
    BY <2>1, <2>2, ViewStays, EndsIs
<1>10. Goal
  <2>1. answer.code \in {"ok", "gone"} \cup Refusals
    BY <1>1, AnswerIs
  <2>. QED
    BY <1>3, <1>4, <1>5, <1>6, <1>7, <1>8, <1>9, <2>1 DEF Refusals
<1>11. /\ {Refresh} \in SUBSET CallRecord
       /\ \A x \in {Refresh} : CallOk(x, edits, Gone, shown) /\ x.view = view
       /\ From(queue', Waiting \cup {Refresh})
  BY <1>1, <1>10, QueueAfter
<1>. QED
  BY <1>1, <1>10, <1>11, Received

LEMMA WorkspaceStart ==
  ASSUME WorkspaceInit
  PROVE  WorkspaceInv
<1>1. /\ record \in Casefiles /\ record.rev = 1 /\ record.stage \in {"draft", "pending"}
      /\ view = Snapshot /\ shown = 1 /\ kept = {} /\ edits = {} /\ given_up = {}
      /\ dirty = FALSE /\ dialog = "none" /\ typed = 0 /\ queue = <<>> /\ answer = Nothing
  BY DEF WorkspaceInit, Casefiles
<1>2. view \in Casefiles /\ view.rev = 1
  BY <1>1 DEF Snapshot, Casefiles
<1>3. queue \in Seq(CallRecord) /\ Len(queue) = 0 /\ 1 .. 0 = {}
  BY <1>1
<1>4. WorkspaceType
  BY <1>1, <1>2, <1>3 DEF WorkspaceType, Answers, Modals
<1>5. TextSafe /\ ViewSafe
  BY <1>1, <1>2, <1>3 DEF TextSafe, ViewSafe, Gone
<1>6. CallsSafe
  BY <1>3 DEF CallsSafe
<1>7. AnswerSafe
  BY <1>1 DEF AnswerSafe, Nothing, Refusals
<1>8. OrderSafe
  <2>1. Pos(view) = Pos(record) /\ Pos(record) \in Nat
    BY <1>1, PosIs DEF Snapshot, Pos
  <2>2. answer.code \notin {"ok", "page"}
    BY <1>1 DEF Nothing
  <2>. QED
    BY <1>3, <2>1, <2>2 DEF OrderSafe
<1>. QED
  BY <1>4, <1>5, <1>6, <1>7, <1>8 DEF WorkspaceInv

LEMMA WorkspaceStep ==
  ASSUME WorkspaceInv, [WorkspaceNext]_workspaceVars
  PROVE  WorkspaceInv'
<1>1. CASE Type
  BY <1>1, TypeKeeps
<1>2. CASE HandleSave
  BY <1>2, SaveKeeps
<1>3. CASE Confirm
  BY <1>3, ConfirmKeeps
<1>4. CASE CloseDialog
  BY <1>4, CloseKeeps
<1>5. CASE LeaveAndReturn
  BY <1>5, LeaveKeeps
<1>6. CASE \E kind \in Decisions \cup ModeCalls \cup {"rename"} : OpenDialog(kind)
  BY <1>6, OpenKeeps
<1>7. CASE \E success \in BOOLEAN : RecoverSession(success)
  BY <1>7, RecoverKeeps
<1>8. CASE ServeAction
  BY <1>8, ServeKeeps
<1>9. CASE ServePage
  BY <1>9, ServePageKeeps
<1>10. CASE SessionEnds \/ AccessEnds \/ ModeEnds \/ OthersAct
  BY <1>10, EndsKeep
<1>11. CASE ReceivePage
  BY <1>11, ReceivePageKeeps
<1>12. CASE ReceiveAway
  BY <1>12, ReceiveAwayKeeps
<1>13. CASE ReceiveAnswer
  BY <1>13, ReceiveAnswerKeeps
<1>14. CASE AnswerLost
  BY <1>14, AnswerLostKeeps
<1>15. CASE UNCHANGED workspaceVars
  <2>1. record \in Casefiles /\ record.rev <= record.rev
    BY DEF WorkspaceInv, WorkspaceType, Casefiles
  <2>2. /\ record' = record /\ UNCHANGED <<kept, text, view, dialog, queue, answer>>
    BY <1>15 DEF workspaceVars, server, page, calls
  <2>. QED
    BY <2>1, <2>2, SamePos, ServerMoves
<1>. QED
  BY <1>1, <1>2, <1>3, <1>4, <1>5, <1>6, <1>7, <1>8, <1>9, <1>10, <1>11, <1>12, <1>13,
     <1>14, <1>15 DEF WorkspaceNext

\* Text typed into the page of a revision is on the page, in a revision or lost
\* in one of the ways given_up marks, however its calls, the answers to them,
\* refreshes, others' work, ended sessions, access or action modes and lost
\* answers interleave
\* (applyMutationResult, the effect on initialCasefile, runDecision).
THEOREM TextSurvives == WorkspaceSpec => []TypedTextSurvives
<1>1. WorkspaceInit => WorkspaceInv
  BY WorkspaceStart
<1>2. WorkspaceInv /\ [WorkspaceNext]_workspaceVars => WorkspaceInv'
  BY WorkspaceStep
<1>3. WorkspaceInv => TypedTextSurvives
  BY DEF WorkspaceInv, TextSafe, TypedTextSurvives, Gone
<1>. QED
  BY <1>1, <1>2, <1>3, PTL DEF WorkspaceSpec

\* Only the server answers a command with "ok", and to one that waited.
LEMMA OkIsServed ==
  ASSUME WorkspaceNext, answer = Nothing, answer'.code = "ok"
  PROVE  ServeAction
<1>1. answer.code = "none" /\ answer' # answer
  BY DEF Nothing
<1>2. ~ReceivePage /\ ~ReceiveAway /\ ~ReceiveAnswer
  BY <1>1 DEF ReceivePage, ReceiveAway, ReceiveAnswer
<1>3. ~Type /\ ~HandleSave /\ ~Confirm /\ ~CloseDialog /\ ~LeaveAndReturn
  BY <1>1 DEF Type, HandleSave, Confirm, CloseDialog, LeaveAndReturn, calls
<1>4. /\ \A kind : ~OpenDialog(kind) 
      /\ \A b : ~RecoverSession(b)
  BY <1>1 DEF OpenDialog, RecoverSession, calls
<1>5. ~SessionEnds /\ ~AccessEnds /\ ~ModeEnds /\ ~OthersAct /\ ~ServePage
  BY <1>1 DEF SessionEnds, AccessEnds, ModeEnds, OthersAct, ServePage, calls
<1>6. ~AnswerLost
  BY <1>1 DEF AnswerLost, Nothing
<1>. QED
  BY <1>2, <1>3, <1>4, <1>5, <1>6 DEF WorkspaceNext

\* The revision a call names (view.rev) can be older than the one whose text it
\* carries, never newer; the server takes it only when it is the current one.
LEMMA OnlyOverWhatWasShown ==
  ASSUME WorkspaceInv, ServeAction, answer'.code = "ok",
         Head(queue).kind \in {"save", "submit"}
  PROVE  Head(queue).shown = record.rev
<1>. DEFINE r == queue[1]
<1>1. queue # <<>> /\ Head(queue) = r /\ r \in CallRecord /\ CallOk(r, edits, Gone, shown)
  BY HeadIs DEF ServeAction
<1>. HIDE DEF r
<1>2. Verdict(r) = "ok"
  <2>1. Verdict(r) # "ok" => answer' = [code |-> Verdict(r)]
    BY <1>1 DEF ServeAction
  <2>. QED
    BY <2>1
<1>3. r.view.rev = record.rev
  BY <1>1, <1>2, VerdictIs
<1>4. r.shown \in Nat /\ shown \in Nat /\ record.rev \in Nat
  BY <1>1 DEF CallRecord, WorkspaceInv, WorkspaceType, Casefiles
<1>5. r.view.rev <= r.shown /\ r.shown <= shown /\ shown <= record.rev
  BY <1>1 DEF CallOk, WorkspaceInv, ViewSafe
<1>6. r.shown = record.rev
  BY <1>3, <1>4, <1>5
<1>. QED
  BY <1>1, <1>6

\* A save or a submission with text is only carried out on the revision that
\* text was written over (assertDraftState, in saveDraftCommand and
\* submitRevisionCommand, compares the revision the call names with the current
\* one; applyMutationResult and the refresh effect decide which one the page
\* names).
THEOREM NothingUnseenIsOverwritten == WorkspaceSpec => WritesOverWhatWasShown
<1>1. WorkspaceInit => WorkspaceInv
  BY WorkspaceStart
<1>2. WorkspaceInv /\ [WorkspaceNext]_workspaceVars => WorkspaceInv'
  BY WorkspaceStep
<1>3. WorkspaceInv /\ [WorkspaceNext]_workspaceVars =>
        [queue # <<>> /\ answer = Nothing /\ answer'.code = "ok" /\ Head(queue).edits # {}
           /\ Head(queue).kind \in {"save", "submit"}
         => Head(queue).shown = record.rev]_workspaceVars
  BY OkIsServed, OnlyOverWhatWasShown
<1>. QED
  BY <1>1, <1>2, <1>3, PTL DEF WorkspaceSpec, WritesOverWhatWasShown
=============================================================================

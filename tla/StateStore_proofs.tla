-------------------------- MODULE StateStore_proofs --------------------------
(***************************************************************************)
(* The version number does its work for any number of writers: no update   *)
(* of a versioned writer is lost, no mutation starts from a torn read, and  *)
(* nobody gives up unless others got through.                              *)
(***************************************************************************)
EXTENDS StateStore, FiniteSetTheorems, TLAPS

\* The update a writer shows, plain writers left out: these may change rows
\* behind the version's back.
Seen(S) == S \ Plain

\* A copy is never from the future; as long as its version is the stored one,
\* what has been read into it is what the tables hold.
CopyIsTrue(w) ==
  /\ copy[w].version <= version
  /\ copy[w].version = version =>
       /\ pc[w] \in {"revisions", "check", "loaded"} =>
            Seen(copy[w].recordings) = Seen(recordings)
       /\ pc[w] \in {"check", "loaded"} =>
            Seen(copy[w].revisions) = Seen(revisions)

IInv ==
  /\ TypeOK
  /\ NoLostUpdate
  /\ \A w \in Whole : CopyIsTrue(w)
  /\ NoTornRead

\* The tables hold no strangers, so that agreement about the versioned writers
\* is equality up to the plain ones.
LEMMA SeenAgree ==
  ASSUME TypeOK, NoLostUpdate
  PROVE  Seen(recordings) = Seen(revisions)
BY DEF TypeOK, NoLostUpdate, Seen, Versioned, Writers

\* Every state the store reaches is well formed.
LEMMA TypeStep ==
  ASSUME TypeOK, [Next]_vars
  PROVE  TypeOK'
<1> USE StoreAssumption DEF TypeOK, Copy, Place, Writers, tables, Goes
<1>1. ASSUME NEW w \in Whole, BeginLoad(w) PROVE TypeOK'
  BY <1>1 DEF BeginLoad
<1>2. ASSUME NEW w \in Whole, ReadRecordings(w) PROVE TypeOK'
  BY <1>2 DEF ReadRecordings
<1>3. ASSUME NEW w \in Whole, ReadRevisions(w) PROVE TypeOK'
  BY <1>3 DEF ReadRevisions
<1>4. ASSUME NEW w \in Whole, EndLoad(w) PROVE TypeOK'
  BY <1>4 DEF EndLoad
<1>5. ASSUME NEW w \in Whole, Write(w) PROVE TypeOK'
  BY <1>5 DEF Write
<1>6. ASSUME NEW w \in Whole, Conflict(w) PROVE TypeOK'
  BY <1>6 DEF Conflict
<1>7. ASSUME NEW g \in Governed, Govern(g) PROVE TypeOK'
  BY <1>7 DEF Govern, Advanced
<1>8. ASSUME NEW q \in Plain, WritePlainly(q) PROVE TypeOK'
  BY <1>8 DEF WritePlainly
<1>9. CASE UNCHANGED vars
  BY <1>9 DEF vars
<1> QED
  BY <1>1, <1>2, <1>3, <1>4, <1>5, <1>6, <1>7, <1>8, <1>9 DEF Next, Step

\* A writer that only reads leaves the tables alone, and everybody else's copy.
LEMMA ReadingStep ==
  ASSUME IInv, TypeOK', NEW w \in Whole, UNCHANGED tables,
         pc[w] \notin {"done", "failed"},
         NEW p \in Place \ {"done"}, Goes(w, p),
         NEW c \in Copy, copy' = [copy EXCEPT ![w] = c]
  PROVE  /\ NoLostUpdate'
         /\ \A v \in Whole \ {w} : CopyIsTrue(v)'
         /\ \A v \in Whole \ {w} : pc'[v] = pc[v] /\ copy'[v] = copy[v]
         /\ pc'[w] = p /\ copy'[w] = c
<1> USE StoreAssumption DEF IInv, TypeOK, tables, Goes, Writers
<1>1. pc'[w] = p /\ copy'[w] = c
  OBVIOUS
<1>2. \A v \in Writers \ {w} : pc'[v] = pc[v]
  OBVIOUS
<1>3. \A v \in Whole \ {w} : copy'[v] = copy[v]
  OBVIOUS
<1>4. NoLostUpdate'
  BY <1>1, <1>2 DEF NoLostUpdate, Versioned
<1>5. \A v \in Whole \ {w} : CopyIsTrue(v)'
  BY <1>2, <1>3 DEF CopyIsTrue, Seen
<1> QED
  BY <1>1, <1>2, <1>3, <1>4, <1>5

\* A step that advances the version makes every copy stale: what the copies
\* hold no longer matters, and no copy becomes a torn one.
LEMMA AdvancingStep ==
  ASSUME IInv, TypeOK', NEW w \in Versioned, Goes(w, "done"),
         version' = version + 1, copy' = copy,
         NEW r \in SUBSET Writers, NEW s \in SUBSET Writers,
         recordings' = r, revisions' = s,
         \A v \in Versioned : (v \in r <=> v = w \/ pc[v] = "done")
                             /\ (v \in s <=> v = w \/ pc[v] = "done")
  PROVE  IInv'
<1> USE StoreAssumption DEF IInv, TypeOK, Goes, Writers, Versioned
<1>1. \A v \in Writers : pc'[v] = IF v = w THEN "done" ELSE pc[v]
  OBVIOUS
<1>2. NoLostUpdate'
  BY <1>1 DEF NoLostUpdate
<1>3. ASSUME NEW v \in Whole PROVE CopyIsTrue(v)'
  <2>1. copy[v].version \in Nat /\ copy[v].version <= version
    BY DEF Copy, CopyIsTrue
  <2> QED
    BY <2>1 DEF CopyIsTrue
<1>4. NoTornRead'
  BY <1>1 DEF NoTornRead
<1> QED
  BY <1>2, <1>3, <1>4

\* The invariant is inductive.
LEMMA Invariance ==
  ASSUME IInv, [Next]_vars
  PROVE  IInv'
<1> USE StoreAssumption
<1>t. TypeOK'
  BY TypeStep DEF IInv
<1>0. TypeOK
  BY DEF IInv
<1>1. ASSUME NEW w \in Whole, BeginLoad(w) PROVE IInv'
  <2> DEFINE c == [copy[w] EXCEPT !.version = version]
  <2>1. c \in Copy /\ copy' = [copy EXCEPT ![w] = c]
    BY <1>0, <1>1 DEF TypeOK, Copy, BeginLoad
  <2>2. /\ UNCHANGED tables /\ Goes(w, "recordings") /\ pc[w] = "idle"
    BY <1>1 DEF BeginLoad
  <2>3. "recordings" \in Place \ {"done"}
    BY DEF Place
  <2> HIDE DEF c
  <2>4. /\ NoLostUpdate'
        /\ \A v \in Whole \ {w} : CopyIsTrue(v)'
        /\ \A v \in Whole \ {w} : pc'[v] = pc[v] /\ copy'[v] = copy[v]
        /\ pc'[w] = "recordings" /\ copy'[w] = c
    BY <1>t, <2>1, <2>2, <2>3, ReadingStep
  <2>5. c.version = version /\ version' = version /\ version \in Nat
    BY <1>0, <2>2 DEF c, TypeOK, Copy, tables
  <2>6. CopyIsTrue(w)'
    BY <2>4, <2>5 DEF CopyIsTrue
  <2>7. NoTornRead'
    BY <2>4 DEF NoTornRead, IInv
  <2> QED
    BY <1>t, <2>4, <2>6, <2>7 DEF IInv
<1>2. ASSUME NEW w \in Whole, ReadRecordings(w) PROVE IInv'
  <2> DEFINE c == [copy[w] EXCEPT !.recordings = recordings]
  <2>1. c \in Copy /\ copy' = [copy EXCEPT ![w] = c]
    BY <1>0, <1>2 DEF TypeOK, Copy, ReadRecordings
  <2>2. UNCHANGED tables /\ Goes(w, "revisions") /\ pc[w] = "recordings"
    BY <1>2 DEF ReadRecordings
  <2>3. "revisions" \in Place \ {"done"}
    BY DEF Place
  <2>4. c.version = copy[w].version /\ c.recordings = recordings
    BY <1>0 DEF TypeOK, Copy
  <2> HIDE DEF c
  <2>5. /\ NoLostUpdate'
        /\ \A v \in Whole \ {w} : CopyIsTrue(v)'
        /\ \A v \in Whole \ {w} : pc'[v] = pc[v] /\ copy'[v] = copy[v]
        /\ pc'[w] = "revisions" /\ copy'[w] = c
    BY <1>t, <2>1, <2>2, <2>3, ReadingStep
  <2>6. CopyIsTrue(w)'
    BY <2>2, <2>4, <2>5 DEF CopyIsTrue, IInv, tables
  <2>7. NoTornRead'
    BY <2>5 DEF NoTornRead, IInv
  <2> QED
    BY <1>t, <2>5, <2>6, <2>7 DEF IInv
<1>3. ASSUME NEW w \in Whole, ReadRevisions(w) PROVE IInv'
  <2> DEFINE c == [copy[w] EXCEPT !.revisions = revisions]
  <2>1. c \in Copy /\ copy' = [copy EXCEPT ![w] = c]
    BY <1>0, <1>3 DEF TypeOK, Copy, ReadRevisions
  <2>2. UNCHANGED tables /\ Goes(w, "check") /\ pc[w] = "revisions"
    BY <1>3 DEF ReadRevisions
  <2>3. "check" \in Place \ {"done"}
    BY DEF Place
  <2>4. /\ c.version = copy[w].version /\ c.revisions = revisions
        /\ c.recordings = copy[w].recordings
    BY <1>0 DEF TypeOK, Copy
  <2> HIDE DEF c
  <2>5. /\ NoLostUpdate'
        /\ \A v \in Whole \ {w} : CopyIsTrue(v)'
        /\ \A v \in Whole \ {w} : pc'[v] = pc[v] /\ copy'[v] = copy[v]
        /\ pc'[w] = "check" /\ copy'[w] = c
    BY <1>t, <2>1, <2>2, <2>3, ReadingStep
  <2>6. CopyIsTrue(w)'
    BY <2>2, <2>4, <2>5 DEF CopyIsTrue, IInv, tables
  <2>7. NoTornRead'
    BY <2>5 DEF NoTornRead, IInv
  <2> QED
    BY <1>t, <2>5, <2>6, <2>7 DEF IInv
<1>4. ASSUME NEW w \in Whole, EndLoad(w) PROVE IInv'
  <2>1. copy[w] \in Copy /\ copy' = [copy EXCEPT ![w] = copy[w]]
    BY <1>0, <1>4 DEF TypeOK, EndLoad
  <2>2. UNCHANGED tables /\ pc[w] = "check"
    BY <1>4 DEF EndLoad
  <2>3. PICK p \in {"loaded", "failed", "idle"} :
          Goes(w, p) /\ (p = "loaded" => Fresh(w))
    BY <1>4 DEF EndLoad
  <2>4. p \in Place \ {"done"}
    BY DEF Place
  <2>5. /\ NoLostUpdate'
        /\ \A v \in Whole \ {w} : CopyIsTrue(v)'
        /\ \A v \in Whole \ {w} : pc'[v] = pc[v] /\ copy'[v] = copy[v]
        /\ pc'[w] = p /\ copy'[w] = copy[w]
    BY <1>t, <2>1, <2>2, <2>3, <2>4, ReadingStep
  <2>6. CopyIsTrue(w)'
    BY <2>2, <2>5 DEF CopyIsTrue, IInv, tables
  <2>7. p = "loaded" => Seen(copy[w].recordings) = Seen(copy[w].revisions)
    BY <1>0, <2>2, <2>3, SeenAgree DEF Fresh, IInv, CopyIsTrue
  <2>8. NoTornRead'
    BY <2>5, <2>7 DEF NoTornRead, IInv, Seen
  <2> QED
    BY <1>t, <2>5, <2>6, <2>8 DEF IInv
<1>5. ASSUME NEW w \in Whole, Write(w) PROVE IInv'
  <2>1. Seen(copy[w].recordings) = Seen(recordings)
        /\ Seen(copy[w].revisions) = Seen(revisions)
    BY <1>5 DEF Write, MayWrite, IInv, CopyIsTrue
  <2> DEFINE r == copy[w].recordings \cup {w}
             s == copy[w].revisions \cup {w}
  <2>2. r \in SUBSET Writers /\ s \in SUBSET Writers
    BY <1>0 DEF TypeOK, Copy, Writers
  <2>3. \A v \in Versioned : (v \in r <=> v = w \/ pc[v] = "done")
                            /\ (v \in s <=> v = w \/ pc[v] = "done")
    BY <2>1 DEF IInv, NoLostUpdate, Seen, Versioned
  <2>4. /\ w \in Versioned /\ Goes(w, "done") /\ version' = version + 1
        /\ copy' = copy /\ recordings' = r /\ revisions' = s
    BY <1>5 DEF Write, Versioned
  <2> HIDE DEF r, s
  <2> QED
    BY <1>t, <2>2, <2>3, <2>4, AdvancingStep
<1>6. ASSUME NEW w \in Whole, Conflict(w) PROVE IInv'
  <2>1. copy[w] \in Copy /\ copy' = [copy EXCEPT ![w] = copy[w]]
    BY <1>0, <1>6 DEF TypeOK, Conflict
  <2>2. UNCHANGED tables /\ pc[w] = "loaded"
    BY <1>6 DEF Conflict
  <2>3. PICK p \in {"failed", "idle"} : Goes(w, p)
    BY <1>6 DEF Conflict
  <2>4. p \in Place \ {"done"}
    BY DEF Place
  <2>5. /\ NoLostUpdate'
        /\ \A v \in Whole \ {w} : CopyIsTrue(v)'
        /\ \A v \in Whole \ {w} : pc'[v] = pc[v] /\ copy'[v] = copy[v]
        /\ pc'[w] = p /\ copy'[w] = copy[w]
    BY <1>t, <2>1, <2>2, <2>3, <2>4, ReadingStep
  <2>6. CopyIsTrue(w)'
    BY <2>2, <2>5 DEF CopyIsTrue, IInv, tables
  <2>7. NoTornRead'
    BY <2>5 DEF NoTornRead, IInv
  <2> QED
    BY <1>t, <2>5, <2>6, <2>7 DEF IInv
<1>7. ASSUME NEW g \in Governed, Govern(g) PROVE IInv'
  <2> DEFINE r == recordings \cup {g}
             s == revisions \cup {g}
  <2>1. r \in SUBSET Writers /\ s \in SUBSET Writers
    BY <1>0 DEF TypeOK, Writers
  <2>2. \A v \in Versioned : (v \in r <=> v = g \/ pc[v] = "done")
                            /\ (v \in s <=> v = g \/ pc[v] = "done")
    BY DEF IInv, NoLostUpdate
  <2>3. /\ g \in Versioned /\ Goes(g, "done") /\ version' = version + 1
        /\ copy' = copy /\ recordings' = r /\ revisions' = s
    BY <1>7 DEF Govern, Advanced, Versioned
  <2> HIDE DEF r, s
  <2> QED
    BY <1>t, <2>1, <2>2, <2>3, AdvancingStep
<1>8. ASSUME NEW q \in Plain, WritePlainly(q) PROVE IInv'
  <2>1. \A v \in Versioned : v # q /\ pc'[v] = pc[v]
    BY <1>0, <1>8 DEF TypeOK, WritePlainly, Goes, Versioned, Writers
  <2>2. /\ version' = version /\ copy' = copy
        /\ recordings' = recordings \cup {q} /\ revisions' = revisions \cup {q}
    BY <1>8 DEF WritePlainly
  <2>3. Seen(recordings') = Seen(recordings) /\ Seen(revisions') = Seen(revisions)
    BY <2>2 DEF Seen
  <2>4. NoLostUpdate'
    BY <2>1, <2>2 DEF NoLostUpdate, IInv
  <2>5. \A v \in Whole : pc'[v] = pc[v]
    BY <2>1 DEF Versioned
  <2>6. \A v \in Whole : CopyIsTrue(v)'
    BY <2>2, <2>3, <2>5 DEF CopyIsTrue, IInv, Seen
  <2>7. NoTornRead'
    BY <2>2, <2>5 DEF NoTornRead, IInv
  <2> QED
    BY <1>t, <2>4, <2>6, <2>7 DEF IInv
<1>9. CASE UNCHANGED vars
  BY <1>9, <1>t DEF vars, tables, IInv, NoLostUpdate, CopyIsTrue, NoTornRead, Seen
<1> QED
  BY <1>1, <1>2, <1>3, <1>4, <1>5, <1>6, <1>7, <1>8, <1>9 DEF Next, Step

LEMMA Start == Init => IInv
BY StoreAssumption
   DEF Init, IInv, TypeOK, Copy, Place, NoLostUpdate, CopyIsTrue, NoTornRead,
       Versioned, Writers

\* server/store withState and server/db/transaction: an update that was
\* acknowledged is never overwritten by another versioned writer, and every
\* mutation starts from tables that belong together (up to plain writers, as
\* NoTornRead says), for any number of writers and retries.
THEOREM StoreCorrect == Spec => [](NoLostUpdate /\ NoTornRead)
<1>1. IInv /\ [Next]_vars => IInv'
  BY Invariance
<1>2. IInv => NoLostUpdate /\ NoTornRead
  BY DEF IInv
<1> QED
  BY Start, <1>1, <1>2, PTL DEF Spec

\* loadState: the tables a mutation starts from are of one version, for any
\* number of writers and retries; only what plain writers did, who leave the
\* version alone, may be in one of them and not in the other.
THEOREM ReadsCorrect == Spec => []NoTornRead
<1>1. NoLostUpdate /\ NoTornRead => NoTornRead
  OBVIOUS
<1> QED
  BY StoreCorrect, <1>1, PTL

-----------------------------------------------------------------------------
(* Every attempt that fails was overtaken by a writer that got through *)

Finished == {v \in Versioned : pc[v] = "done"}

\* The version counts the writers that got through, and no writer has made
\* more attempts than the version it reads had by then.
Attempts(w) == loads[w] + tries[w]
Overtaken(w) ==
  /\ pc[w] = "idle" => version >= Attempts(w)
  /\ pc[w] \in {"recordings", "revisions", "check", "loaded"} =>
       version >= copy[w].version /\ copy[w].version >= Attempts(w)
  /\ pc[w] = "failed" => version >= MaxTries

Earned ==
  /\ version = Cardinality(Finished)
  /\ \A w \in Whole : Overtaken(w)

LEMMA FinishedFinite == IsFiniteSet(Finished)
<1>1. IsFiniteSet(Versioned)
  BY StoreAssumption, FS_Union DEF Versioned
<1> QED
  BY <1>1, FS_Subset DEF Finished

\* A step that finishes no versioned writer and leaves the version alone.
LEMMA NobodyFinishes ==
  ASSUME TypeOK, Earned, version' = version,
         \A v \in Versioned : pc'[v] = "done" <=> pc[v] = "done"
  PROVE  version' = Cardinality(Finished)'
<1>1. Finished' = Finished
  BY DEF Finished
<1> QED
  BY <1>1 DEF Earned

\* A step in which one more versioned writer gets through.
LEMMA OneFinishes ==
  ASSUME TypeOK, Earned, NEW w \in Versioned, pc[w] # "done", Goes(w, "done"),
         version' = version + 1
  PROVE  version' = Cardinality(Finished)'
<1>1. Finished' = Finished \cup {w} /\ w \notin Finished
  BY DEF Finished, Goes, TypeOK, Versioned, Writers
<1>2. Cardinality(Finished \cup {w}) = Cardinality(Finished) + 1
  BY <1>1, FinishedFinite, FS_AddElement
<1> QED
  BY <1>1, <1>2 DEF Earned

LEMMA EarnedStep ==
  ASSUME TypeOK, Earned, [Next]_vars
  PROVE  Earned'
<1> USE StoreAssumption DEF TypeOK, Copy, Writers, Versioned, tables, Goes
<1>1. ASSUME NEW w \in Whole, BeginLoad(w) \/ ReadRecordings(w) \/ ReadRevisions(w)
      PROVE  Earned'
  <2>1. version' = Cardinality(Finished)'
    BY <1>1, NobodyFinishes DEF BeginLoad, ReadRecordings, ReadRevisions
  <2>2. ASSUME NEW v \in Whole PROVE Overtaken(v)'
    BY <1>1, <2>2 DEF BeginLoad, ReadRecordings, ReadRevisions, Earned, Overtaken, Attempts
  <2> QED BY <2>1, <2>2 DEF Earned
<1>2. ASSUME NEW w \in Whole, EndLoad(w) PROVE Earned'
  <2>1. version' = Cardinality(Finished)'
    BY <1>2, NobodyFinishes DEF EndLoad
  <2>2. ASSUME NEW v \in Whole PROVE Overtaken(v)'
    BY <1>2, <2>2 DEF EndLoad, Fresh, Spent, Earned, Overtaken, Attempts
  <2> QED BY <2>1, <2>2 DEF Earned
<1>3. ASSUME NEW w \in Whole, Conflict(w) PROVE Earned'
  <2>1. version' = Cardinality(Finished)'
    BY <1>3, NobodyFinishes DEF Conflict
  <2>2. version >= copy[w].version /\ copy[w].version >= loads[w] + tries[w]
    BY <1>3 DEF Conflict, Earned, Overtaken, Attempts
  <2>3. version >= tries[w] + 1 /\ loads'[w] = 0 /\ tries'[w] = tries[w] + 1
    <3>1. /\ loads[w] \in Nat /\ tries[w] \in Nat
          /\ copy[w].version \in Nat /\ version # copy[w].version
      BY <1>3 DEF Conflict, MayWrite
    <3>2. version >= tries[w] + 1
      BY <2>2, <3>1
    <3>3. loads'[w] = 0 /\ tries'[w] = tries[w] + 1
      BY <1>3 DEF Conflict
    <3> QED BY <3>2, <3>3
  <2>4. Overtaken(w)'
    BY <1>3, <2>3 DEF Conflict, Spent, Overtaken, Attempts
  <2>5. ASSUME NEW v \in Whole \ {w} PROVE Overtaken(v)'
    BY <1>3, <2>5 DEF Conflict, Earned, Overtaken, Attempts
  <2> QED BY <2>1, <2>4, <2>5 DEF Earned
<1>4. ASSUME NEW w \in Whole, Write(w) PROVE Earned'
  <2>1. version' = Cardinality(Finished)'
    BY <1>4, OneFinishes DEF Write
  <2>2. ASSUME NEW v \in Whole PROVE Overtaken(v)'
    BY <1>4, <2>2 DEF Write, Earned, Overtaken, Attempts
  <2> QED BY <2>1, <2>2 DEF Earned
<1>5. ASSUME NEW g \in Governed, Govern(g) PROVE Earned'
  <2>1. version' = Cardinality(Finished)'
    BY <1>5, OneFinishes DEF Govern, Advanced
  <2>2. ASSUME NEW v \in Whole PROVE Overtaken(v)'
    BY <1>5, <2>2 DEF Govern, Advanced, Earned, Overtaken, Attempts
  <2> QED BY <2>1, <2>2 DEF Earned
<1>6. ASSUME NEW q \in Plain, WritePlainly(q) PROVE Earned'
  <2>1. version' = Cardinality(Finished)'
    BY <1>6, NobodyFinishes DEF WritePlainly
  <2>2. ASSUME NEW v \in Whole PROVE Overtaken(v)'
    BY <1>6, <2>2 DEF WritePlainly, Earned, Overtaken, Attempts
  <2> QED BY <2>1, <2>2 DEF Earned
<1>7. CASE UNCHANGED vars
  BY <1>7 DEF vars, Earned, Finished, Overtaken, Attempts
<1> QED
  BY <1>1, <1>2, <1>3, <1>4, <1>5, <1>6, <1>7 DEF Next, Step

\* server/store withState: a writer is told of a conflict only after as many
\* others got through as it may make attempts, for any number of writers.
THEOREM ErrorsCorrect == Spec => []ErrorsAreEarned
<1>1. Init => TypeOK /\ Earned
  <2>1. Init => Finished = {}
    BY DEF Init, Finished, Versioned, Writers
  <2>2. Init => TypeOK
    BY StoreAssumption DEF Init, TypeOK, Copy, Place, Writers
  <2>3. Init => version = Cardinality(Finished)
    BY <2>1, FS_EmptySet DEF Init
  <2>4. Init => \A w \in Whole : Overtaken(w)
    BY DEF Init, Overtaken, Attempts, Writers
  <2> QED
    BY <2>2, <2>3, <2>4 DEF Earned
<1>2. TypeOK /\ Earned /\ [Next]_vars => (TypeOK /\ Earned)'
  BY TypeStep, EarnedStep
<1>3. TypeOK /\ Earned => ErrorsAreEarned
  <2> SUFFICES ASSUME TypeOK, Earned, NEW w \in Whole, pc[w] = "failed"
               PROVE  Cardinality({v \in Writers \ {w} : pc[v] = "done"}) >= MaxTries
    BY DEF ErrorsAreEarned
  <2> DEFINE Others == {v \in Writers \ {w} : pc[v] = "done"}
  <2>1. IsFiniteSet(Writers)
    BY StoreAssumption, FS_Union DEF Writers
  <2>2. IsFiniteSet(Others)
    BY <2>1, FS_Subset
  <2>3. Finished \subseteq Others
    BY DEF Finished, Versioned, Writers
  <2>4. Cardinality(Finished) <= Cardinality(Others)
    BY <2>2, <2>3, FS_Subset
  <2>5. Cardinality(Others) \in Nat
    BY <2>2, FS_CardinalityType
  <2> HIDE DEF Others
  <2> QED
    BY <2>4, <2>5, StoreAssumption DEF Earned, Overtaken, TypeOK, Others
<1> QED
  BY <1>1, <1>2, <1>3, PTL DEF Spec
=============================================================================

----------------------------- MODULE StateStore -----------------------------
(***************************************************************************)
(* How the database is shared (server/store, server/db/transaction).       *)
(* Ingest and the worker queue read the whole state, change it in memory   *)
(* and write all of it back; commands change their own rows in a           *)
(* transaction.  A version number, advanced by both, is what keeps a       *)
(* writer from putting back rows that have changed since it read them.     *)
(* Some administration handlers write rows and leave the version alone.    *)
(*                                                                         *)
(* Each writer has its own connection and makes one update; the state is   *)
(* two tables (recordings, revisions), each the set of updates it shows.   *)
(*                                                                         *)
(* An operator with an underscore in its name is a seeded fault: the       *)
(* definition after it with one slip.  Nothing uses it.                    *)
(***************************************************************************)
EXTENDS Naturals, FiniteSets

CONSTANTS
  Whole,     \* writers of the whole state: withState
  Governed,  \* runGovernedTransaction, the claim of a job
  Plain,     \* db.transaction: recover, purge, ledger reset
  MaxTries   \* MAX_WRITE_RETRIES

Writers == Whole \cup Governed \cup Plain

ASSUME StoreAssumption ==
  /\ IsFiniteSet(Whole) /\ IsFiniteSet(Governed) /\ IsFiniteSet(Plain)
  /\ Whole \cap (Governed \cup Plain) = {} /\ Governed \cap Plain = {}
  /\ MaxTries \in Nat \ {0}

VARIABLES
  version,               \* app_state_meta.state_version
  recordings, revisions, \* the updates each table shows
  pc,                    \* where each writer stands
  copy,                  \* the state a whole-state writer has read
  loads, tries           \* its failed reads since it began anew, its failed writes

tables == <<version, recordings, revisions>>
vars == <<tables, pc, copy, loads, tries>>

Place == {"idle", "recordings", "revisions", "check", "loaded", "done", "failed"}
Copy == [version : Nat, recordings : SUBSET Writers, revisions : SUBSET Writers]

TypeOK ==
  /\ version \in Nat
  /\ recordings \subseteq Writers /\ revisions \subseteq Writers
  /\ pc \in [Writers -> Place]
  /\ copy \in [Whole -> Copy]
  /\ loads \in [Whole -> Nat] /\ tries \in [Whole -> Nat]

Init ==
  /\ version = 0
  /\ recordings = {} /\ revisions = {}
  /\ pc = [w \in Writers |-> "idle"]
  /\ copy = [w \in Whole |-> [version |-> 0, recordings |-> {}, revisions |-> {}]]
  /\ loads = [w \in Whole |-> 0] /\ tries = [w \in Whole |-> 0]

Goes(w, place) == pc' = [pc EXCEPT ![w] = place]

-----------------------------------------------------------------------------
(* loadState: two reads of the version around the reads of the tables *)

BeginLoad(w) ==
  /\ pc[w] = "idle" /\ Goes(w, "recordings")
  /\ copy' = [copy EXCEPT ![w].version = version]
  /\ UNCHANGED <<tables, loads, tries>>

ReadRecordings(w) ==
  /\ pc[w] = "recordings" /\ Goes(w, "revisions")
  /\ copy' = [copy EXCEPT ![w].recordings = recordings]
  /\ UNCHANGED <<tables, loads, tries>>

ReadRevisions(w) ==
  /\ pc[w] = "revisions" /\ Goes(w, "check")
  /\ copy' = [copy EXCEPT ![w].revisions = revisions]
  /\ UNCHANGED <<tables, loads, tries>>

Fresh_Assumed(w) == TRUE  \* fault
Fresh(w) == copy[w].version = version

Spent_Early(n) == n + 2 >= MaxTries  \* fault
Spent(n) == n + 1 >= MaxTries

\* A read during which the version moved is done again, a few times.
EndLoad(w) ==
  /\ pc[w] = "check"
  /\ IF Fresh(w) THEN Goes(w, "loaded") /\ UNCHANGED loads
     ELSE /\ Goes(w, IF Spent(loads[w]) THEN "failed" ELSE "idle")
          /\ loads' = [loads EXCEPT ![w] = @ + 1]
  /\ UNCHANGED <<tables, copy, tries>>

-----------------------------------------------------------------------------
(* writeState and withState *)

MayWrite_Reader(w) == copy[w].version <= version  \* fault
MayWrite(w) == copy[w].version = version

\* The rows of the copy, with the writer's own update, replace all rows.
Write(w) ==
  /\ pc[w] = "loaded" /\ MayWrite(w) /\ Goes(w, "done")
  /\ recordings' = copy[w].recordings \cup {w}
  /\ revisions' = copy[w].revisions \cup {w}
  /\ version' = version + 1
  /\ UNCHANGED <<copy, loads, tries>>

\* Somebody was faster: read again, a few times.
Conflict(w) ==
  /\ pc[w] = "loaded" /\ ~MayWrite(w)
  /\ Goes(w, IF Spent(tries[w]) THEN "failed" ELSE "idle")
  /\ tries' = [tries EXCEPT ![w] = @ + 1]
  /\ loads' = [loads EXCEPT ![w] = 0]
  /\ UNCHANGED <<tables, copy>>

-----------------------------------------------------------------------------
(* Transactions *)

Advanced(w) == version + 1

\* governedBody, and the claim of a job
Govern(g) ==
  /\ pc[g] = "idle" /\ Goes(g, "done")
  /\ recordings' = recordings \cup {g} /\ revisions' = revisions \cup {g}
  /\ version' = Advanced(g)
  /\ UNCHANGED <<copy, loads, tries>>

\* recoverRevisionVersion, deleteRecordingPermanently, resetWorkspaceLedger
WritePlainly(q) ==
  /\ pc[q] = "idle" /\ Goes(q, "done")
  /\ recordings' = recordings \cup {q} /\ revisions' = revisions \cup {q}
  /\ UNCHANGED <<version, copy, loads, tries>>

Step(w) ==
  \/ BeginLoad(w) \/ ReadRecordings(w) \/ ReadRevisions(w) \/ EndLoad(w)
  \/ Write(w) \/ Conflict(w)

Next ==
  \/ \E w \in Whole : Step(w)
  \/ \E g \in Governed : Govern(g)
  \/ \E q \in Plain : WritePlainly(q)

Spec == Init /\ [][Next]_vars

-----------------------------------------------------------------------------
(* Properties *)

Versioned == Whole \cup Governed

\* CHANGELOG.md: "Prevented stale SQLite state snapshots from overwriting newer
\* reviewer or worker updates".  What a writer that advances the version was
\* told is done stays done in every table, and what failed or is still under
\* way shows nowhere, also with writers about that leave the version alone.
NoLostUpdate ==
  \A w \in Versioned :
    /\ w \in recordings <=> pc[w] = "done"
    /\ w \in revisions <=> pc[w] = "done"

\* The state a mutation starts from is never half of one version and half of
\* another: the tables it was read from belong together up to what plain writers
\* did in between, who leave the version alone and so go unnoticed.
NoTornRead ==
  \A w \in Whole :
    pc[w] = "loaded" => copy[w].recordings \ Plain = copy[w].revisions \ Plain

\* A writer gives up with a conflict only if as many others got through as it
\* made attempts: the store as a whole moves on.
ErrorsAreEarned ==
  \A w \in Whole : pc[w] = "failed" =>
    Cardinality({v \in Writers \ {w} : pc[v] = "done"}) >= MaxTries

\* The same promise for every writer: a recovery or a purge an administrator
\* was told is done is not undone by the next whole-state write.
NoUpdateIsOverwritten ==
  \A w \in Writers : pc[w] = "done" => w \in recordings \cap revisions
=============================================================================

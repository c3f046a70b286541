------------------------------ MODULE Provisioning ------------------------------
(***************************************************************************)
(* Installing transcription models.  Several processes (the app server, the *)
(* command line tool, a bootstrap) share one model directory and no memory: *)
(* a lock directory lets one of them download at a time, and a reclaim slot *)
(* lets one of them take away a lock whose owner has died.  Any two system  *)
(* calls of different processes may interleave; the calls of a step here are *)
(* ones between which another process can change nothing they read.         *)
(*                                                                         *)
(* An operator with an underscore in its name is a seeded fault: the       *)
(* definition after it with one slip.  Nothing uses it.                    *)
(***************************************************************************)
EXTENDS Integers, FiniteSets

CONSTANTS Process, Tier, NoOwner,
          MaxCrashes     \* bound on the crashes of one process

Owners == [proc : Process, life : Nat]
ASSUME OwnerAssumption == NoOwner \notin Owners

VARIABLES life,       \* how often each process has crashed: its pid and start time
          pc,         \* where each process is in startTierDownload or runDownload
          want,       \* the tier it was asked for
          observed,   \* the lock owner it read before reclaiming
          moved,      \* the slot owner it read, and then the slot it renamed aside
          lock,       \* owner in .provisioning.lock, or NoOwner
          slot,       \* owner in .provisioning.lock.reclaim, or NoOwner
          staging,    \* the staging directories that exist
          installed,  \* per tier: no directory, a partial one, a complete one
          registry,   \* per process and tier: the download status it reports
          robbed      \* history: a reclaim that had read no lock renamed one away

provisioningVars == <<life, pc, want, observed, moved, lock, slot, staging, installed,
                      registry, robbed>>
locals == <<life, want, registry, robbed>>

Me(p) == [proc |-> p, life |-> life[p]]
\* processOwnsLock: the pid is in use by the process that wrote the owner file.
Live(owner) == owner # NoOwner /\ owner.life = life[owner.proc]
Provisioned(t) == installed[t] = "complete"

ProvisioningInit ==
  /\ life = [p \in Process |-> 0]
  /\ pc = [p \in Process |-> "idle"]
  /\ want \in [Process -> Tier]
  /\ observed = [p \in Process |-> NoOwner]
  /\ moved = [p \in Process |-> NoOwner]
  /\ lock = NoOwner /\ slot = NoOwner
  /\ staging = {}
  /\ installed \in [Tier -> {"none", "partial"}]
  /\ registry = [p \in Process |-> [t \in Tier |-> "idle"]]
  /\ robbed = FALSE

Goto(p, label) == pc' = [pc EXCEPT ![p] = label]
Go(p, from, to) == pc[p] = from /\ Goto(p, to)
Observe(p, owner) == observed' = [observed EXCEPT ![p] = owner]
Move(p, owner) == moved' = [moved EXCEPT ![p] = owner]
Report(p, status) == registry' = [registry EXCEPT ![p][want[p]] = status]

-----------------------------------------------------------------------------
(* startTierDownload *)

\* A request is refused at once for a tier that is there or a live download.
StartTierDownload(p, t) ==
  /\ Go(p, "idle", "acquire")
  /\ ~Provisioned(t) /\ ~Live(lock)
  /\ \A u \in Tier : registry[p][u] # "downloading"
  /\ want' = [want EXCEPT ![p] = t]
  /\ UNCHANGED <<life, observed, moved, lock, slot, staging, installed, registry, robbed>>

\* acquireProvisioningLock, the look before the rename.  After five rounds it
\* gives up, which is a choice here.
LookForLock(p) ==
  /\ pc[p] = "acquire"
  /\ UNCHANGED <<locals, observed, lock, slot, staging, installed>>
  /\ \/ Goto(p, "idle") /\ UNCHANGED moved
     \/ IF slot # NoOwner /\ ~Live(slot)
        THEN Goto(p, "move_then_look") /\ Move(p, slot)
        ELSE /\ Goto(p, IF slot # NoOwner \/ lock # NoOwner THEN "contended" ELSE "publish")
             /\ UNCHANGED moved

LockTaken_Blind == FALSE      \* fault: the lock is written over
LockTaken == lock # NoOwner

\* The prepared directory is renamed into place, which fails on a lock there.
PublishLock(p) ==
  /\ pc[p] = "publish"
  /\ IF LockTaken THEN Goto(p, "contended") /\ UNCHANGED lock
     ELSE Goto(p, "locked") /\ lock' = Me(p)
  /\ UNCHANGED <<locals, observed, moved, slot, staging, installed>>

\* A live owner refuses the request; anything else may be reclaimed.
Contended(p) ==
  /\ pc[p] = "contended"
  /\ IF Live(lock) THEN Goto(p, "idle") /\ UNCHANGED observed
     ELSE Goto(p, "slot") /\ Observe(p, lock)
  /\ UNCHANGED <<locals, moved, lock, slot, staging, installed>>

-----------------------------------------------------------------------------
(* Reclaiming a dead owner's lock *)

\* acquireReclaimSlot: a hard link, which fails if the slot is taken.
TakeSlot(p) ==
  /\ pc[p] = "slot"
  /\ IF slot = NoOwner
     THEN Goto(p, "verify") /\ slot' = Me(p) /\ UNCHANGED <<moved, observed>>
     ELSE IF Live(slot)
     THEN Goto(p, "acquire") /\ Observe(p, NoOwner) /\ UNCHANGED <<slot, moved>>
     ELSE Goto(p, "move_then_take") /\ Move(p, slot) /\ UNCHANGED <<slot, observed>>
  /\ UNCHANGED <<locals, lock, staging, installed>>

\* moveStaleReclaimSlot renames whatever is there by now and looks at it again:
\* the stale slot it meant goes for good, another's has to be put back.
\* (The five seconds of grace only delay it.)
MoveSlot(p) ==
  /\ pc[p] \in {"move_then_look", "move_then_take"}
  /\ slot' = NoOwner
  /\ IF slot \in {NoOwner, moved[p]}
     THEN Goto(p, IF pc[p] = "move_then_take" THEN "slot" ELSE "look") /\ Move(p, NoOwner)
     ELSE /\ Goto(p, IF pc[p] = "move_then_take" THEN "restore_then_give_up"
                     ELSE "restore_then_look")
          /\ Move(p, slot)
  /\ UNCHANGED <<locals, observed, lock, staging, installed>>

\* Put back, unless a third process has taken the slot since.
RestoreSlot(p) ==
  /\ pc[p] \in {"restore_then_give_up", "restore_then_look"}
  /\ slot' = IF slot = NoOwner THEN moved[p] ELSE slot
  /\ Move(p, NoOwner)
  /\ IF pc[p] = "restore_then_give_up" THEN Goto(p, "acquire") /\ Observe(p, NoOwner)
     ELSE Goto(p, "look") /\ UNCHANGED observed
  /\ UNCHANGED <<locals, lock, staging, installed>>

LookAgain(p) ==
  /\ pc[p] = "look"
  /\ Goto(p, IF slot # NoOwner \/ lock # NoOwner THEN "contended" ELSE "publish")
  /\ UNCHANGED <<locals, observed, moved, lock, slot, staging, installed>>

ReleasedSlot(p) == IF slot = Me(p) THEN NoOwner ELSE slot

StillStale_Unread(p) == slot = Me(p)   \* fault: the lock is not read again
StillStale(p) == lock = observed[p] /\ ~Live(lock) /\ slot = Me(p)

\* reclaimStaleProvisioningLock reads the lock again before it renames it away.
VerifyReclaim(p) ==
  /\ pc[p] = "verify"
  /\ IF StillStale(p) THEN Goto(p, "reclaim") /\ UNCHANGED <<slot, observed>>
     ELSE Goto(p, "acquire") /\ slot' = ReleasedSlot(p) /\ Observe(p, NoOwner)
  /\ UNCHANGED <<locals, moved, lock, staging, installed>>

\* A lock released before it was read is "reclaimed" too: whatever is there by
\* now goes.
Reclaim(p) ==
  /\ Go(p, "reclaim", "release_slot")
  /\ lock' = NoOwner
  /\ robbed' = (robbed \/ (observed[p] = NoOwner /\ lock # NoOwner))
  /\ Observe(p, NoOwner)
  /\ UNCHANGED <<life, want, registry, moved, slot, staging, installed>>

ReleaseSlot(p) ==
  /\ Go(p, "release_slot", "acquire")
  /\ slot' = ReleasedSlot(p)
  /\ UNCHANGED <<locals, observed, moved, lock, staging, installed>>

-----------------------------------------------------------------------------
(* With the lock: the download *)

ReleasedLock(p) == IF lock = Me(p) THEN NoOwner ELSE lock

\* The tier is looked for again, and the disk must have room for it.
BeginDownload(p, room) ==
  /\ pc[p] = "locked"
  /\ IF ~Provisioned(want[p]) /\ room
     THEN Goto(p, "stage") /\ Report(p, "downloading") /\ UNCHANGED lock
     ELSE Goto(p, "idle") /\ lock' = ReleasedLock(p) /\ UNCHANGED registry
  /\ UNCHANGED <<life, want, robbed, observed, moved, slot, staging, installed>>

\* runDownload: everybody's leftovers go, then the process has its own directory.
Stage(p) ==
  /\ Go(p, "stage", "transfer")
  /\ staging' = {Me(p)}
  /\ UNCHANGED <<locals, observed, moved, lock, slot, installed>>

\* A transfer that fails, stalls, or finds its directory gone.
TransferFails(p) ==
  /\ Go(p, "transfer", "finish")
  /\ staging' = staging \ {Me(p)}
  /\ Report(p, "failed")
  /\ UNCHANGED <<life, want, robbed, observed, moved, lock, slot, installed>>

\* Every pinned file is staged; somebody may have installed the tier by hand.
TransferEnds(p) ==
  /\ pc[p] = "transfer" /\ Me(p) \in staging
  /\ IF Provisioned(want[p])
     THEN Goto(p, "finish") /\ Report(p, "completed") /\ staging' = staging \ {Me(p)}
     ELSE Goto(p, "install") /\ UNCHANGED <<registry, staging>>
  /\ UNCHANGED <<life, want, robbed, observed, moved, lock, slot, installed>>

\* What was there is removed and the staged directory renamed into its place;
\* a set that turns out not to be runnable is removed again.
Install(p, runnable) ==
  /\ Go(p, "install", "finish")
  /\ staging' = staging \ {Me(p)}
  /\ installed' = [installed EXCEPT ![want[p]] =
                     IF Me(p) \in staging /\ runnable THEN "complete" ELSE "none"]
  /\ Report(p, IF Me(p) \in staging /\ runnable THEN "completed" ELSE "failed")
  /\ UNCHANGED <<life, want, robbed, observed, moved, lock, slot>>

ReleaseLock(p) ==
  /\ Go(p, "finish", "idle")
  /\ lock' = ReleasedLock(p)
  /\ UNCHANGED <<locals, observed, moved, slot, staging, installed>>

\* An operator copies a tier into the model directory, though never while a
\* download is about to rename its own into place.
InstallByHand(t) ==
  /\ ~Provisioned(t)
  /\ \A p \in Process : pc[p] \notin {"install", "finish"}
  /\ installed' = [installed EXCEPT ![t] = "complete"]
  /\ UNCHANGED <<locals, pc, observed, moved, lock, slot, staging>>

\* A process is killed and started again under another identity; what it
\* remembers is lost, what it left in the directory stays.
ProcessDies(p) ==
  /\ pc[p] # "idle" /\ life[p] < MaxCrashes
  /\ life' = [life EXCEPT ![p] = @ + 1]
  /\ Goto(p, "idle")
  /\ registry' = [registry EXCEPT ![p] = [t \in Tier |-> "idle"]]
  /\ Observe(p, NoOwner) /\ Move(p, NoOwner)
  /\ UNCHANGED <<want, lock, slot, staging, installed, robbed>>

ProvisioningNext ==
  \/ \E p \in Process, t \in Tier : StartTierDownload(p, t)
  \/ \E p \in Process, room \in BOOLEAN : BeginDownload(p, room)
  \/ \E p \in Process, runnable \in BOOLEAN : Install(p, runnable)
  \/ \E p \in Process :
       \/ LookForLock(p) \/ PublishLock(p) \/ Contended(p)
       \/ TakeSlot(p) \/ MoveSlot(p) \/ RestoreSlot(p) \/ LookAgain(p)
       \/ VerifyReclaim(p) \/ Reclaim(p) \/ ReleaseSlot(p)
       \/ Stage(p) \/ TransferFails(p) \/ TransferEnds(p) \/ ReleaseLock(p)
       \/ ProcessDies(p)
  \/ \E t \in Tier : InstallByHand(t)

ProvisioningSpec == ProvisioningInit /\ [][ProvisioningNext]_provisioningVars

-----------------------------------------------------------------------------
(* Properties *)

Downloading(p) == pc[p] \in {"locked", "stage", "transfer", "install", "finish"}

\* One process downloads at a time, even while others take away the lock, or
\* the reclaim slot, of a process that died; as long as no process "reclaims" a
\* lock that had just been released (see OneDownloaderAlways).  It is about
\* instances where at most one process dies, or none with the slot, or none with
\* the lock: one death of each kind lets two processes download.
OneDownloader ==
  ~robbed => \A p, q \in Process : Downloading(p) /\ Downloading(q) => p = q

\* provisioning.test.ts: "serializes downloads with a 409 while another tier is
\* in flight": the same without the exception.
OneDownloaderAlways ==
  \A p, q \in Process : Downloading(p) /\ Downloading(q) => p = q
=============================================================================

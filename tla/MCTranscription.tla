---------------------------- MODULE MCTranscription ----------------------------
(***************************************************************************)
(* Everything between a verified upload and its first draft: the internal   *)
(* queue and its workers (TranscriptQueue), the mock and external engines   *)
(* (Orchestration) and the installation of the models the workers load      *)
(* (Provisioning).  An instance runs one engine, and the parts share no     *)
(* variable: a behaviour moves one of them.                                 *)
(***************************************************************************)
EXTENDS TranscriptQueue, Orchestration, Provisioning, TLC

VARIABLE part

transcriptionVars == <<part, vars, orchestrationVars, provisioningVars>>

TranscriptionInit ==
  /\ part \in {"queue", "engines", "models"}
  /\ Init
  /\ OrchestrationInit
  /\ part # "engines" => config = "mock" /\ kind = "plain" /\ dispatch = "due"
  /\ ProvisioningInit
  /\ part # "models" => \A t \in Tier : installed[t] = "none"

\* Bounds: with an external engine the page is left closed (what it shows is a
\* property of the mock engine), one process dies, and nothing is explored
\* after a lock has been taken from its owner.
OnePage == transcript # Absent /\ transcript.adapter = "webhook" => page.polls = {}
OneDeath == Cardinality({p \in Process : life[p] > 0}) <= 1

TranscriptionNext ==
  /\ UNCHANGED part
  /\ \/ part = "queue" /\ Next /\ UNCHANGED <<orchestrationVars, provisioningVars>>
     \/ part = "engines" /\ OrchestrationNext /\ OnePage'
        /\ UNCHANGED <<vars, provisioningVars>>
     \/ part = "models" /\ ProvisioningNext /\ OneDeath' /\ ~robbed
        /\ UNCHANGED <<vars, orchestrationVars>>

TranscriptionSpec == TranscriptionInit /\ [][TranscriptionNext]_transcriptionVars

TranscriptionSymmetry == Permutations(Workers)
=============================================================================

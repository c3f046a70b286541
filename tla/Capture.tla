------------------------------- MODULE Capture -------------------------------
(***************************************************************************)
(* Recording in the browser (components/ingest/capture-audio) inside the   *)
(* upload form (ingest-flow).  Every press of Start makes a generation with *)
(* a microphone prompt, a recorder and tracks of its own, and the browser   *)
(* answers the prompt, ends a track or reports a stopped recorder whenever  *)
(* it likes: also after the user switched to a file or left the page.       *)
(*                                                                         *)
(* Notices, the preview's address and the pause of a faulty recorder are    *)
(* left out.  An operator with an underscore in its name is a seeded fault. *)
(***************************************************************************)
EXTENDS Naturals

CONSTANT MaxTakes  \* bound: presses of Start

ASSUME CaptureAssumption == MaxTakes \in Nat

VARIABLES
  source,    \* "upload" or "record" in the form; "away" when the page is left
  transfer,  \* transferBusy
  take,      \* recordedFile: the take the form will upload
  capture,   \* captureRef: the current generation
  shown,     \* captureState of the mounted component
  started,   \* generations so far
  gen        \* generations, the browser's side of them included

captureVars == <<source, transfer, take, capture, shown, started, gen>>

NoTake == 0
Take == 1 .. MaxTakes

Generation ==
  [prompt : {"none", "asked", "answered"},          \* getUserMedia
   active : BOOLEAN,                                 \* listeners attached, not released
   stopRequested : BOOLEAN,
   recorder : {"none", "recording", "paused", "stopping", "inactive"},
   live : BOOLEAN]                                   \* its microphone tracks are on

NoGeneration == [prompt |-> "none", active |-> FALSE, stopRequested |-> FALSE,
                 recorder |-> "none", live |-> FALSE]

CaptureInit ==
  /\ source = "upload" /\ transfer = FALSE /\ take = NoTake
  /\ capture = NoTake /\ shown = "idle" /\ started = 0
  /\ gen = [g \in Take |-> NoGeneration]

\* releaseCapture: a recorder that still runs is stopped, without a listener.
Released(g) ==
  [gen[g] EXCEPT !.active = FALSE, !.live = FALSE,
                 !.recorder = IF @ = "none" THEN @ ELSE "inactive"]

AfterRelease == IF capture = NoTake THEN gen ELSE [gen EXCEPT ![capture] = Released(capture)]

Current_Unasked(g) == capture \in {g, NoTake}  \* fault: nobody asks whether it was released

\* capture.active and captureRef.current === capture
Current(g) == gen[g].active /\ capture = g

-----------------------------------------------------------------------------
(* The user *)

MayRecord == source = "record" /\ ~transfer

StartRecording ==
  /\ MayRecord /\ shown = "idle" /\ capture = NoTake /\ started < MaxTakes
  /\ started' = started + 1 /\ capture' = started + 1
  /\ gen' = [gen EXCEPT ![started + 1] = [NoGeneration EXCEPT !.prompt = "asked", !.active = TRUE]]
  /\ UNCHANGED <<source, transfer, take, shown>>

PauseRecording ==
  /\ MayRecord /\ shown = "recording" /\ capture # NoTake
  /\ gen[capture].recorder = "recording"
  /\ gen' = [gen EXCEPT ![capture].recorder = "paused"] /\ shown' = "paused"
  /\ UNCHANGED <<source, transfer, take, capture, started>>

ResumeRecording ==
  /\ MayRecord /\ shown = "paused" /\ capture # NoTake
  /\ gen[capture].recorder = "paused"
  /\ gen' = [gen EXCEPT ![capture].recorder = "recording"] /\ shown' = "recording"
  /\ UNCHANGED <<source, transfer, take, capture, started>>

StopRecording ==
  /\ MayRecord /\ shown \in {"recording", "paused"} /\ capture # NoTake
  /\ gen[capture].recorder \in {"recording", "paused"}
  /\ gen' = [gen EXCEPT ![capture].stopRequested = TRUE, ![capture].recorder = "stopping"]
  /\ UNCHANGED <<source, transfer, take, capture, shown, started>>

DiscardRecording ==
  /\ MayRecord /\ shown = "ready"
  /\ gen' = AfterRelease /\ capture' = NoTake
  /\ shown' = "idle" /\ take' = NoTake
  /\ UNCHANGED <<source, transfer, started>>

\* The recorder is unmounted and lets its capture go; coming back, it is new.
SwitchSource ==
  /\ source # "away" /\ ~transfer
  /\ source' = (IF source = "record" THEN "upload" ELSE "record")
  /\ take' = (IF source = "record" THEN NoTake ELSE take)
  /\ gen' = AfterRelease /\ capture' = NoTake /\ shown' = "idle"
  /\ UNCHANGED <<transfer, started>>

LeavePage ==
  /\ source # "away"
  /\ source' = "away" /\ transfer' = FALSE /\ take' = NoTake
  /\ gen' = AfterRelease /\ capture' = NoTake /\ shown' = "idle"
  /\ UNCHANGED started

\* The form uploads a file or the take; it comes back when that is interrupted,
\* and a finished upload leaves the page.
BeginTransfer ==
  /\ source # "away" /\ ~transfer
  /\ source = "record" => take # NoTake
  /\ transfer' = TRUE
  /\ UNCHANGED <<source, take, capture, shown, started, gen>>

TransferInterrupted ==
  /\ transfer /\ transfer' = FALSE
  /\ UNCHANGED <<source, take, capture, shown, started, gen>>

-----------------------------------------------------------------------------
(* The browser *)

\* The prompt is answered: granted, refused, or granted to a recorder that
\* cannot be made.  A capture that was let go meanwhile is not started.
Granted(g) ==
  /\ gen[g].prompt = "asked"
  /\ IF Current(g)
     THEN /\ gen' = [gen EXCEPT ![g].prompt = "answered", ![g].recorder = "recording", ![g].live = TRUE]
          /\ shown' = "recording"
     ELSE /\ gen' = [gen EXCEPT ![g].prompt = "answered"]
          /\ UNCHANGED shown
  /\ UNCHANGED <<source, transfer, take, capture, started>>

Denied(g) ==
  /\ gen[g].prompt = "asked"
  /\ gen' = [gen EXCEPT ![g] = [IF Current(g) THEN Released(g) ELSE @ EXCEPT !.prompt = "answered"]]
  /\ IF Current(g) THEN capture' = NoTake /\ shown' = "denied" ELSE UNCHANGED <<capture, shown>>
  /\ UNCHANGED <<source, transfer, take, started>>

\* abandonInterruptedCapture
Abandoned(g) ==
  /\ gen' = [gen EXCEPT ![g] = Released(g)]
  /\ capture' = NoTake /\ shown' = "idle"
  /\ UNCHANGED <<source, transfer, take, started>>

\* The microphone goes away.  Its recorder stops of itself.
TrackEnds(g) ==
  /\ gen[g].live
  /\ IF Current(g) /\ ~gen[g].stopRequested THEN Abandoned(g)
     ELSE /\ gen' = [gen EXCEPT ![g].live = FALSE]
          /\ UNCHANGED <<source, transfer, take, capture, shown, started>>

RecorderFails(g) ==
  /\ gen[g].recorder \in {"recording", "paused"}
  /\ gen' = [gen EXCEPT ![g].recorder = "stopping"]
  /\ UNCHANGED <<source, transfer, take, capture, shown, started>>

\* The stop event: the take is ready if it was asked for.
Stopped(g) ==
  /\ gen[g].recorder = "stopping"
  /\ \/ Current(g) /\ ~gen[g].stopRequested /\ Abandoned(g)
     \/ /\ Current(g) /\ gen[g].stopRequested
        /\ gen' = [gen EXCEPT ![g] = Released(g)]
        /\ capture' = NoTake /\ shown' = "ready" /\ take' = g
        /\ UNCHANGED <<source, transfer, started>>

CaptureNext ==
  \/ StartRecording \/ PauseRecording \/ ResumeRecording \/ StopRecording \/ DiscardRecording
  \/ SwitchSource \/ LeavePage \/ BeginTransfer \/ TransferInterrupted
  \/ \E g \in Take : Granted(g) \/ Denied(g) \/ TrackEnds(g) \/ RecorderFails(g) \/ Stopped(g)

-----------------------------------------------------------------------------
(* Property *)

\* Nobody is recorded behind their back: a microphone is on only while the page
\* on the screen says so and can stop it.  The browser's answers come at any
\* time, after a switch to a file or another page included.
MicrophoneIsShown ==
  \A g \in Take : gen[g].live =>
    source = "record" /\ capture = g /\ shown \in {"recording", "paused"}
=============================================================================

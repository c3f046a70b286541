------------------------------ MODULE MCIngest ------------------------------
(***************************************************************************)
(* Uploads from all their ends: the watch client and stray requests         *)
(* (Ingest), the browser page (IngestPage) and the recorder in it           *)
(* (Capture).  The clients have sessions of their own, so a behaviour has   *)
(* one of them; all of them have the same server.                           *)
(***************************************************************************)
EXTENDS IngestPage, Capture

VARIABLE end

uploadVars == <<end, vars, pageVars, captureVars>>

UploadInit ==
  /\ end \in {"watch", "page", "recorder"}
  /\ Init /\ PageInit /\ CaptureInit
  /\ end # "watch" <=> DOMAIN client = {}

\* Bounds: beside one day, crash or reload the page is undisturbed.
OneHarm == harm <= 1

UploadNext ==
  /\ UNCHANGED end
  /\ \/ end = "watch" /\ Next /\ UNCHANGED <<pageVars, captureVars>>
     \/ end = "page" /\ PageNext /\ OneHarm' /\ UNCHANGED captureVars
     \/ end = "recorder" /\ CaptureNext /\ UNCHANGED <<vars, pageVars>>

UploadSpec == UploadInit /\ [][UploadNext]_uploadVars /\ Fairness
=============================================================================

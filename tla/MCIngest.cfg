SPECIFICATION UploadSpec
CONSTANTS
  NoFile = NoFile
  Sessions = {s1, s2}
  Size = 2
  MaxLost = 2
  MaxHarm = 2
  Files = {f1, f2}
  Runs = {r1, r2}
  MaxVisits = 2
  MaxTakes = 3
INVARIANT NoByteIsMissing
INVARIANT VerifiedHasMedia
INVARIANT LossesAreReconciled
INVARIANT ReceivedIsStored
INVARIANT OneRecordingPerFile
INVARIANT MicrophoneIsShown
PROPERTY EveryUploadEnds
CHECK_DEADLOCK FALSE

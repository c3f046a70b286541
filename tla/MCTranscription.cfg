SPECIFICATION TranscriptionSpec
CONSTANTS
  NoWorker = NoWorker
  Jobs = {j1}
  Workers = {w1, w2}
  MaxAttempts = 2
  MaxMishaps = 2
  MaxPolls = 2
  NoOwner = NoOwner
  Process = {p1, p2, p3}
  Tier = {t1}
  MaxCrashes = 1
SYMMETRY TranscriptionSymmetry
INVARIANT ClaimsAgree
INVARIANT OneWorkerAtATime
PROPERTY CompletedIsFinal
PROPERTY OneDraftPerJob
INVARIANT UndispatchedIsShown
INVARIANT RestingPageHasResult
INVARIANT OneDownloader
CHECK_DEADLOCK FALSE

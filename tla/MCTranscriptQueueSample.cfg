SPECIFICATION Safe
CONSTANTS
  NoWorker = NoWorker
  Jobs = {j1}
  Workers = {w1}
  MaxAttempts = 2
  MaxMishaps = 0
INVARIANT SamplesAreOfThisAttempt
CHECK_DEADLOCK FALSE

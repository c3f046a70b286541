SPECIFICATION Spec
CONSTANTS
  NoWorker = NoWorker
  Jobs = {j1}
  Workers = {w1, w2}
  MaxAttempts = 2
  MaxMishaps = 1
PROPERTY EveryJobSettles
CHECK_DEADLOCK FALSE

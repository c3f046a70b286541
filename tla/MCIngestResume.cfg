SPECIFICATION UploadSpec
CONSTANTS
  NoFile = NoFile
  Sessions = {s1}
  Size = 2
  MaxLost = 2
  MaxHarm = 2
  Files = {f1}
  Runs = {r1}
  MaxVisits = 1
  MaxTakes = 1
CHECK_DEADLOCK FALSE
INVARIANT ResumeIsHonoured

SPECIFICATION DatabaseSpec
CONSTANTS
  Whole = {w1, w2}
  Governed = {g1, g2, g3}
  Plain = {p1}
  MaxTries = 3
  NONE = NONE
  w1 = w1
  w2 = w2
  g1 = g1
  g2 = g2
  g3 = g3
  u1 = u1
  u2 = u2
  s1 = s1
  s2 = s2
  s3 = s3
  k1 = k1
  k2 = k2
  x1 = x1
  x2 = x2
  c1 = c1
  c2 = c2
  m1 = m1
  m2 = m2
  User = {u1, u2}
  Session = {s1, s2, s3}
  Token = {k1, k2}
  Task = {t1, t2}
  Subject = {x1, x2}
  Challenge = {c1, c2}
  Code = {r1}
  Ceremony = {m1, m2}
  MaxVersion = 3
  MaxPassword = 3
  MaxKeys = 1
  MaxFailures = 1
VIEW Seen
SYMMETRY DatabaseSymmetry
INVARIANT NoLostUpdate
INVARIANT NoTornRead
INVARIANT ErrorsAreEarned
INVARIANT UsableSessionsAreCurrent
PROPERTY ResetLinksAreCurrent
INVARIANT AnAdminRemains
INVARIANT ProofsAreSpentOnce
PROPERTY RefusedForGood
PROPERTY DeactivationSticks
PROPERTY SubjectsAreReserved
CHECK_DEADLOCK FALSE

SPECIFICATION ReviewSpec
CONSTANTS
  ada = ada
  rex = rex
  pam = pam
  NoUser = NoUser
  Users = {ada, rex}
  Uploader = NoUser
  InitialRole <- MCTwoRoles
  RoleMoves = {}
  MaxRevision = 3
  MaxTyped = 1
  MaxRecordRevision = 3
  MaxQueue = 2
  MaxUpsets = 2
INVARIANT PointersAgree
INVARIANT NoLostUpdate
PROPERTY HistoryIsFinal
PROPERTY RunsReviewCycle
INVARIANT TypedTextSurvives
PROPERTY WritesOverWhatWasShown

SPECIFICATION ReadingSpec
CONSTANTS
  ada = ada
  rex = rex
  pam = pam
  NoUser = NoUser
  Users = {ada, rex, pam}
  Uploader = NoUser
  InitialRole <- MCRoles
  RoleMoves <- MCMoves
  MaxRevision = 2
INVARIANT TypeOK
INVARIANT DecidedOnce
INVARIANT SeparationOfDuties
INVARIANT AssignmentsFollowRoles
INVARIANT ReviewEndsAtApproval
INVARIANT PagesMatchCommands
INVARIANT WorkIsListed
PROPERTY AuthorityIsCurrent
PROPERTY ExportsAreApproved

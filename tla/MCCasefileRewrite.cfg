SPECIFICATION Spec
CONSTANTS
  ada = ada
  rex = rex
  pam = pam
  NoUser = NoUser
  Users = {ada, pam}
  Uploader = NoUser
  InitialRole <- MCUploaderRoles
  RoleMoves = {}
  MaxRevision = 1
PROPERTY CompletedApproverKeepsAuthority

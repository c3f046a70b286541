SPECIFICATION ProvisioningSpec
CONSTANTS
  NoOwner = NoOwner
  Process = {p1, p2, p3}
  Tier = {t1}
  MaxCrashes = 0
SYMMETRY ProcessSymmetry
INVARIANT OneDownloaderAlways
CHECK_DEADLOCK FALSE

SPECIFICATION Spec
CONSTANTS
  Keys = {k1, k2}
  Bad = Bad
  MaxLogSize = 2
  TailLen = 2
  SyncWrites = TRUE
  PowerLoss = TRUE
  OpenFails = TRUE
  MaxLogId = 4
  MaxCrashes = 1
  MaxErrors = 0
SYMMETRY KeySymmetry
INVARIANT NoSilentLoss
CHECK_DEADLOCK FALSE

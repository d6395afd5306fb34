SPECIFICATION Spec
CONSTANTS
  Keys = {k1, k2}
  Bad = Bad
  MaxLogSize = 2
  TailLen = 2
  SyncWrites = FALSE
  PowerLoss = FALSE
  OpenFails = TRUE
  MaxLogId = 4
  MaxCrashes = 1
  MaxErrors = 1
SYMMETRY KeySymmetry
INVARIANT AckedReadable
INVARIANT NoOrphans
INVARIANT NoDangling

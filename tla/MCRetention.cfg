SPECIFICATION MCSpec
CONSTANTS
  Runs = {r1, r2, r3}
  Killed = r3
  Selected = {d1, d2}
  FixedNames = FALSE
  Keep = 1
  Skew <- Behind
  RequestLife = 1
  None = None
  MaxClock = 3
INVARIANTS
  NeverWithoutBackup
  OneBackupAtATime
  SuccessIsComplete
  FixedOverwritesAreRecoverable
PROPERTIES
  OnlyExpiredVanish
SYMMETRY Symmetry

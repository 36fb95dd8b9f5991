SPECIFICATION Spec
CONSTANTS
  Runs = {r1, r2}
  Selected = {d1}
  FixedNames = FALSE
  Keep = 1
  Skew = 0
  RequestLife = 0
  None = None
  MaxClock = 2
INVARIANTS
  NewKeyEachTime

CONSTANTS
  plainA = plainA
  plainB = plainB
  unsafe = unsafe
  ConfigNames <- MCConfigNames
  Unsafe <- MCUnsafe
  ManifestLimit = 4
  None = None
  MaxClock = 1
  MaxChanges = 1
  MaxDamage = 2
SPECIFICATION Spec
SYMMETRY Symmetry
INVARIANTS PublishedIsRestorable

SPECIFICATION Spec
CONSTANTS
  Names = {1, 2}
  Blocks = 2
  Values = {v1, v2}
  Inodes = {i1, i2, i3}
  None = None
  MaxTick = 1
  MaxEdits = 2
INVARIANTS
  TypeOK
  CaptureIsSnapshot
  QuietCaptureSucceeds
SYMMETRY Symmetry

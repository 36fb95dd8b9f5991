SPECIFICATION AllSpec
CONSTANTS
  Keys <- MCKeys
  Backups <- MCBackups
  PageSize = 1
  MaxEdits = 2
  Timeout = 2
  None = None
INVARIANTS
  Complete
  OnlySilenceIsCut
  SilenceIsCut
PROPERTIES
  EndsUnlessFed

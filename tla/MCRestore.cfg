CONSTANTS
  r1 = r1
  r2 = r2
  Runs <- MCRuns
  Mode <- MCMode
  Collections <- Database
  Scope <- MCScope
  Dumped <- MCDumped
  Drop = TRUE
  Keys = {1, 2, 3}
  Prefix <- MCPrefix
  Matching = {1, 2}
  Broken = {2}
  MaxGen = 3
  None = None
SPECIFICATION Spec
INVARIANTS OnlyVerifiedReachesServer OneToolAtATime UsersBeforeRest NoSpuriousFailure
PROPERTIES RestoredWhole CancelLeadsToReturn

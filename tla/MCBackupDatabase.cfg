SPECIFICATION MCSpec
CONSTANTS
  Encrypted = TRUE
  Chunks = 3
  PipeCapacity = 1
  Concurrency = 2
INVARIANTS
  NoPartialPublish
  SuccessIsPublished
  NoSpuriousFailure
  ReturnLeavesNothingRunning
PROPERTIES
  FaultLeadsToReturn
  PublishesAtomically

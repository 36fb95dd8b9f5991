CONSTANTS
  Jobs <- MCJobs
  SignalCode = 143
SPECIFICATION Spec
INVARIANTS CancelIsNotFailure NoJobAfterExit
PROPERTIES SignalLeadsToExit

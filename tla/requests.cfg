CONSTANTS
  Large = {"edit", "revert"}
  MaxId = 3
  MaxOps = 5
  MaxFaults = 3
SPECIFICATION Spec
INVARIANTS AnswerIsItsOwn CallerKnowsWorker GivenUpIsStopped
PROPERTY RequestsEnd
CHECK_DEADLOCK FALSE

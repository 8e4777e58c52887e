\* Two tabs race for an index and execute the first intent, a mint or a move; a
\* request or stream is cut, or a leg fails.
CONSTANTS
  Tabs = {"a", "b"}
  Slots = {1}
  Drafts <- MintAndMove
  IntentBound = 2
  ApprovalBound = 1
  StreamBound = 1
  FaultBound = 1
SPECIFICATION Spec
INVARIANTS AnsweredWithOwnIntent ShownIsReal
PROPERTIES ExecutionEnds
CHECK_DEADLOCK FALSE

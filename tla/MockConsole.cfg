\* Two executions at once of any two intents, and a reset under them.
SPECIFICATION Spec
CONSTANTS
  Chains = {1, 2}
  Seed <- OneEach
  Cap <- TwoEach
  GlobalCap = 3
  Approvers = {"alice", "bob"}
  Threshold = 1
  Drafts <- MintAndMove
  IntentBound = 2
  Runs = {"r1", "r2"}
  ResetBound = 1
INVARIANTS SupplyIsExplained ViewIsCurrent
PROPERTIES HalfMoveFinishes
CHECK_DEADLOCK FALSE

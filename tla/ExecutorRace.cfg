SPECIFICATION ExecutorSpec
CONSTANTS
  Keys = {"a", "b"}
  Admin = "a"
  Executor = "a"
  AssetConfigs <- Configs
  ChainIds = {1, 2}
  ChainConfigs <- Chains
  GenesisSupply <- Seed
  Accounts = {"t", "h"}
  Bytes32 = {"t", "h"}
  Treasury = "t"
  Amounts = {1}
  IntentBound = 2
  TimeBound = 0
  I64Max = 7
  Workers = {w1, w2}
  ForeignChain = 2
  Requests <- BurnAndMoves
  FaultBound = 1
INVARIANTS ForeignParity ConfirmedWasDelivered MoveNeverInflates
SYMMETRY WorkerSymmetry
CHECK_DEADLOCK FALSE

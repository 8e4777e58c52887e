SPECIFICATION ExecutorFairSpec
CONSTANTS
  Keys = {"exec", "a", "b"}
  Admin = "a"
  Executor = "exec"
  AssetConfigs <- Configs
  ChainIds = {1, 2}
  ChainConfigs <- Chains
  GenesisSupply <- Seed
  Accounts = {"t", "h"}
  Bytes32 = {"t", "h"}
  Treasury = "t"
  Amounts = {1}
  IntentBound = 1
  TimeBound = 0
  I64Max = 7
  Workers = {"w1", "w2"}
  ForeignChain = 2
  Requests <- MintBurnMove
  FaultBound = 1
PROPERTIES ApprovedIsDelivered
CHECK_DEADLOCK FALSE

SPECIFICATION FairSpec
CONSTANTS
  Keys = {"a", "b", "c"}
  Admin = "a"
  Executor = "a"
  AssetConfigs <- SupplyConfigs
  ChainIds = {1, 2, 3}
  ChainConfigs <- SupplyChains
  GenesisSupply <- SupplyGenesis
  Accounts = {"t", "x"}
  Bytes32 = {"t", "x"}
  Treasury = "t"
  Amounts = {0, 1, 2}
  IntentBound = 2
  TimeBound = 1
  I64Max = 7
INVARIANTS TypeOK SupplyAccounting CapsHold OneAuthorizationPerLeg NativeParity
           SdkMirrorsLedger HistoryIsComplete
PROPERTIES ApprovedIsSettled
CHECK_DEADLOCK FALSE

SPECIFICATION BytesSpec
CONSTANTS
  Keys = {"admin", "exec", "a", "b", "c"}
  Admin = "admin"
  Executor = "exec"
  AssetConfigs <- PolicyConfigs
  ChainIds = {1, 2, 4}
  ChainConfigs <- PolicyChains
  GenesisSupply <- PolicyGenesis
  Accounts = {"t", "x"}
  Bytes32 = {"t", "x"}
  Treasury = "t"
  Amounts = {1}
  IntentBound = 1
  TimeBound = 2
  I64Max = 7
  Garbage = Garbage
  Zero = Zero
INVARIANTS PolicyGate TimelockGate StatusMatchesLegs SdkReadsLedger AskedIsRecorded SdkDigestIsStored
           ConsoleShowsLedger RejectionNamesAFailedRule
PROPERTIES IntentsOnlyAdvance
CHECK_DEADLOCK FALSE

SPECIFICATION Spec
CONSTANTS
  Addresses = {"t", "h", "r"}
  Accounts = {"t", "h", "r"}
  Amounts = {1, 2}
  Nonces = {0, 2, 4, 6}
  Genesis = 1
  U64Max = 4
  Treasury = "t"
  Deployments <- TwoLedgers
  Legs <- RebindLegs
  Workers = {"cli", "hosted"}
  Relayer <- KeyOfEach
  Page = 4
  Window = 4
  FaultBound = 0
INVARIANTS ConfirmedByItsTransaction
CHECK_DEADLOCK FALSE

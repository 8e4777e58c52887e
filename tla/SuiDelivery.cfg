\* Two ledgers in turn and two executors, one of them without the treasury's
\* coins; one of them dies or times out once.
SPECIFICATION FairSpec
CONSTANTS
  Addresses = {"t", "h", "r"}
  Accounts = {"t", "h", "r"}
  Amounts = {1, 2}
  Nonces = {0, 2, 4, 6}
  Genesis = 1
  U64Max = 4
  Treasury = "t"
  Deployments <- TwoLedgers
  Legs <- RaceLegs
  Workers = {"cli", "hosted"}
  Relayer <- KeyOfEach
  Page = 4
  Window = 4
  FaultBound = 1
INVARIANTS ConfirmedByItsTransaction
PROPERTIES AuthorizedIsConfirmed
CHECK_DEADLOCK FALSE

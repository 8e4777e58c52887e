SPECIFICATION Spec
CONSTANTS
  Addresses = {"t", "h"}
  Accounts = {"t", "h", "evm"}
  DWallets = {"k1", "k2"}
  Bindings <- TwoLedgers
  Amounts = {1, 2}
  Nonces = {0, 1}
  GenesisAmounts = {0, 2}
  GenesisTo = "t"
  SignBound = 2
  U64Max = 4
INVARIANTS LostExactlyToOtherLedger
PROPERTIES ImplementsController OnlyNamedAccounts
CHECK_DEADLOCK FALSE

SPECIFICATION Spec
CONSTANTS
  Addresses = {"t", "h"}
  Words = {"wt", "wh"}
  AddressOf <- AddressWords
  Domains = {"e1", "e2"}
  DOMAIN_SEPARATOR = "e1"
  Ledgers = {"L1", "L2"}
  ledger = "L1"
  Amounts = {1, 2}
  Nonces = {0, 1}
  Signable <- SignableHere
  SignBound = 2
  GenesisTo = "t"
  GenesisAmount = 2
  Uint256Max = 4
INVARIANTS BalancesAddUp OnlyThisContract
PROPERTIES ImplementsController
CHECK_DEADLOCK FALSE

\* dWallets are created anew or reused, as the operator likes; runs die anywhere.
CONSTANTS
  ChainList <- ListTwoEvm
  EvmTargets <- EvmTwo
  FlagSets = {{}, {"skip-dkg"}}
  RunBound = 4
  CrashBound = 2
  WarnBound = 1
  WipeBound = 1
SPECIFICATION Spec
INVARIANTS RegisteredIsBound MintObeysTheAsset
PROPERTIES SetupCompletes RunLeavesLedgerUsable
CHECK_DEADLOCK FALSE

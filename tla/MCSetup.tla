------------------------------- MODULE MCSetup -------------------------------
(* The native chain, two EVM chains and Sui, in the order of                 *)
(* CHAIN_LIST (sdk/src/chains.ts).                                            *)
EXTENDS Setup

ListTwoEvm  == <<"solana", "ethereum", "base", "sui">>
EvmTwo      == <<"ethereum", "base">>
=============================================================================

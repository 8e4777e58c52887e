------------------------------- MODULE MCTbill -------------------------------
(* Instances of Tbill for TLC: "t" is the treasury and relayer, "h" a holder,  *)
(* "evm" an account that is not a Sui address.                                *)
EXTENDS Tbill

\* A ledger and the fresh one that replaces it, which registers the same chain.
TwoLedgers == {[ledger |-> "L1", domain |-> "sui"], [ledger |-> "L2", domain |-> "sui"]}
=============================================================================

-------------------------- MODULE MCMintController --------------------------
(* An instance of MintController for TLC: "e1" and "e2" are two EVM domains,  *)
(* "L1" and "L2" two deployments of the asset, all under one dWallet; "t" is  *)
(* the treasury, "h" a holder.                                               *)
EXTENDS MintController

AddressWords == [w \in {"wt", "wh"} |-> IF w = "wh" THEN "h" ELSE "t"]

\* Everything for this contract, and a mint for another chain, for another
\* deployment of the asset and for both.
SignableHere ==
  {m \in Message : m.domain = "e1" /\ m.ledger = "L1"}
    \cup {m \in Message : m.action = "mint" /\ m.amount = 1 /\ m.account = "wt" /\ m.nonce = 0}
=============================================================================

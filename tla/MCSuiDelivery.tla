---------------------------- MODULE MCSuiDelivery ----------------------------
(* Instances of SuiDelivery for TLC: "t" is the treasury, "r" a relayer of     *)
(* its own for the hosted console, "h" a holder.                              *)
EXTENDS SuiDelivery

First  == [key |-> "k1", ledger |-> "L1", domain |-> "sui"]
Second == [key |-> "k2", ledger |-> "L2", domain |-> "sui"]
TwoLedgers == <<First, Second>>

Msg(d, action, amount, account, nonce) ==
  [key |-> d.key, domain |-> d.domain, ledger |-> d.ledger, action |-> action,
   amount |-> amount, account |-> account, nonce |-> nonce]

\* Two burns alike but for the ledger and the nonce; the second one waits for
\* the mint when the first one has taken the coin there was.
RaceLegs ==
  {Msg(First, "burn", 1, "t", 0), Msg(Second, "mint", 1, "t", 2), Msg(Second, "burn", 1, "t", 4)}
\* The first intent of either ledger.
RebindLegs == {Msg(First, "mint", 1, "h", 0), Msg(Second, "mint", 2, "h", 0)}

KeyOfEach == [w \in Workers |-> IF w = "cli" THEN "t" ELSE "r"]
=============================================================================

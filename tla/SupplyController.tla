-------------------------- MODULE SupplyController --------------------------
(***************************************************************************)
(* What a token contract on a foreign chain promises the ledger: after its *)
(* seed, its supply changes only by honouring authorizations the dWallet   *)
(* signed, and no nonce is honoured twice.  MintController (EVM) and Tbill *)
(* (Sui) implement it.                                                     *)
(***************************************************************************)
EXTENDS Integers

CONSTANTS
  Messages,  \* what a dWallet may sign: records with an action, an amount and a nonce
  Genesis    \* the amounts a chain may be seeded with

VARIABLES
  supply,    \* the token's total supply
  seeded,    \* the starting supply has been minted
  signed,    \* the messages a dWallet has signed
  honoured   \* the messages whose effect took place

vars == <<supply, seeded, signed, honoured>>

Init ==
  /\ signed = {} /\ honoured = {}
  /\ \/ ~seeded /\ supply = 0
     \/ seeded /\ supply \in Genesis

Seed ==
  /\ ~seeded /\ seeded'
  /\ \E g \in Genesis : supply' = supply + g
  /\ UNCHANGED <<signed, honoured>>

Sign(m) == signed' = signed \cup {m} /\ UNCHANGED <<supply, seeded, honoured>>

Honour(m) ==
  /\ m \in signed
  /\ \A h \in honoured : h.nonce # m.nonce
  /\ \/ m.action = "mint" /\ supply' = supply + m.amount
     \/ m.action = "burn" /\ m.amount <= supply /\ supply' = supply - m.amount
  /\ honoured' = honoured \cup {m}
  /\ UNCHANGED <<seeded, signed>>

Next == Seed \/ \E m \in Messages : Sign(m) \/ Honour(m)

Spec == Init /\ [][Next]_vars
=============================================================================

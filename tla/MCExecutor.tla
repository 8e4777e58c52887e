----------------------------- MODULE MCExecutor -----------------------------
(* Instances of Executor for TLC: Solana (1) and one EVM chain (2), a treasury *)
(* account "t" and a holder "h" on each, one approver besides the proposer.    *)
EXTENDS Executor, TLC

Configs == {[approvers |-> <<"a", "b">>, threshold |-> 1, timelock_secs |-> 0, global_cap |-> 3]}
Chains ==
  [c \in {1, 2} |->
     {[leg_kind |-> IF c = 1 THEN "SolanaNative" ELSE "IkaForeign",
       cap |-> 2, authorized |-> 1, allowlist |-> {"t"}]}]
Seed == [c \in {1, 2} |-> 1]

Request(k, from, to) ==
  [kind |-> k, amount |-> 1, proposer |-> "a", src_chain |-> from, dst_chain |-> to,
   recipient |-> IF to = NoChain THEN NoAccount ELSE "t",
   source |-> IF from = NoChain THEN NoAccount ELSE "t"]

\* A mint, a burn and the two moves.
MintBurnMove ==
  {Request("Mint", NoChain, 2), Request("Burn", 2, NoChain),
   Request("Move", 1, 2), Request("Move", 2, 1)}

\* The ones that hold a foreign burn, and a foreign mint that waits for a burn.
BurnAndMoves == {t \in MintBurnMove : t.kind # "Mint"}

\* The executor processes are interchangeable (safety runs only).
WorkerSymmetry == Permutations(Workers)
=============================================================================

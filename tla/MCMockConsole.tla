---------------------------- MODULE MCMockConsole ----------------------------
(* Instances of MockConsole for TLC: two chains, two executions at once.       *)
EXTENDS MockConsole

OneEach == [c \in {1, 2} |-> 1]
TwoEach == [c \in {1, 2} |-> 2]

Draft(k, from, to) == [kind |-> k, amount |-> 1, src |-> from, dst |-> to, proposer |-> "alice"]
MintAndMove == {Draft("mint", 0, 2), Draft("move", 1, 2)}
=============================================================================

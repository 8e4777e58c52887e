----------------------------- MODULE MCAccounts -----------------------------
(* Instances of Accounts for TLC.  Chain 1 is Solana; chain 2 signs EIP-712   *)
(* digests, chain 4 (Sui) the raw message; "t" is the treasury account on     *)
(* every chain, "x" a holder whom only the Solana chain has allowlisted.      *)
EXTENDS ConsoleView

Deploy(kind, cap, seed, list) ==
  [leg_kind |-> kind, cap |-> cap, authorized |-> seed, allowlist |-> list]
Config(list, m, lock) ==
  [approvers |-> list, threshold |-> m, timelock_secs |-> lock, global_cap |-> 3]

\* A list of three approvers, of whom one or two must approve, under a timelock,
\* and a list that names a key twice without one.
PolicyConfigs ==
  {Config(<<"a", "b", "c">>, 2, 1), Config(<<"a", "b", "c">>, 1, 1), Config(<<"a", "b", "b">>, 2, 0)}
PolicyChains ==
  [c \in {1, 2, 4} |-> IF c = 1 THEN {Deploy("SolanaNative", 2, 1, {"t", "x"})}
                 ELSE {Deploy("IkaForeign", 2, 1, {"t"})}]
PolicyGenesis == [c \in {1, 2, 4} |-> 1]
=============================================================================

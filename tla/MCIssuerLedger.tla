--------------------------- MODULE MCIssuerLedger ---------------------------
(* Instances of IssuerLedger for TLC.  Chain 1 is Solana, 2 and 3 are foreign *)
(* chains; "t" is the treasury account on every chain, "x" an account nobody  *)
(* allowlisted.                                                              *)
EXTENDS PolicyMirror, Activity

Native(cap, seed) ==
  [leg_kind |-> "SolanaNative", cap |-> cap, authorized |-> seed, allowlist |-> {"t"}]
Foreign(cap, seed) ==
  [leg_kind |-> "IkaForeign", cap |-> cap, authorized |-> seed, allowlist |-> {"t"}]

Config(list, m, lock, cap) ==
  [approvers |-> list, threshold |-> m, timelock_secs |-> lock, global_cap |-> cap]

\* Supply: three chains that have room for more than the global cap, two of them
\* foreign, and a timelock.
SupplyConfigs == {Config(<<"a", "b">>, 1, 1, 3)}
SupplyChains ==
  [c \in 1 .. 3 |-> CASE c = 1 -> {Native(3, 1)} [] c = 2 -> {Foreign(2, 1)} [] c = 3 -> {Foreign(2, 0)}]
SupplyGenesis == <<1, 1, 0>>
=============================================================================

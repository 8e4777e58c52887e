---------------------------- MODULE PolicyMirror ----------------------------
(***************************************************************************)
(* The SDK's copy of the ledger's rules, sdk/src/policy.ts, evaluated on the *)
(* state of IssuerLedger.  It returns the rules that apply to a draft, with *)
(* a verdict; only the verdicts are kept.  The console's copy is in         *)
(* ConsoleView, on what the console shows.                                  *)
(***************************************************************************)
EXTENDS IssuerLedger

\* The chain a draft names, when the ledger view has it.
Selected(c) == c # NoChain /\ Registered(c)

-----------------------------------------------------------------------------
(* sdk/src/policy.ts                                                         *)

\* The rules of evaluate that fail for draft t.  _m1 applies the global cap to
\* a move as well.
SdkGlobalCapApplies_m1(t) == t.kind # "Burn"
SdkGlobalCapApplies(t) == t.kind = "Mint"

SdkFailures(t) ==
  LET from == t.src_chain
      to   == t.dst_chain
  IN {r \in {"amount", "proposer", "supply", "globalCap", "chainCap", "allowlist"} :
       CASE r = "amount"    -> t.amount = 0
         [] r = "proposer"  -> ~IsApprover(t.proposer)
         [] r = "supply"    -> t.kind # "Mint" /\ ~(Selected(from) /\ authorized[from] >= t.amount)
         [] r = "globalCap" -> /\ SdkGlobalCapApplies(t)
                               /\ authorized_total + t.amount > config.global_cap
         [] r = "chainCap"  -> /\ t.kind # "Burn"
                               /\ \/ ~(Selected(to) /\ authorized[to] + t.amount <= deployment[to].cap)
                                  \/ from = to
         [] r = "allowlist" -> /\ t.kind # "Burn"
                               /\ ~(Selected(to) /\ t.recipient \in deployment[to].allowlist)}

PolicyPasses(t) == SdkFailures(t) = {}

\* executionReadiness, in unbounded integers.
UnlockAt(i) == approved_at[i] + config.timelock_secs
ExecutionReady(i) == approval_count[i] >= config.threshold /\ now >= UnlockAt(i)

-----------------------------------------------------------------------------

Open == Initialized /\ intent_count < IntentBound

\* The mirror has no rule on addresses: the account a Solana burn names is one.
SourceIsAnAddress(t) ==
  t.kind # "Mint" /\ deployment[t.src_chain].leg_kind = "SolanaNative" => t.source \in Bytes32

\* sdk/src/policy.ts:1-5, "Pure mirror of the on-chain policy": in every state
\* of the ledger, in the middle of any other intent, a draft passes every rule
\* exactly when create_intent accepts it, and an approved intent is shown as ready
\* exactly when execute_leg lets its next leg past threshold and timelock.
SdkMirrorsLedger ==
  /\ Open => \A t \in Proposals : SourceIsAnAddress(t) => (PolicyPasses(t) <=> MayCreate(t))
  /\ \A i \in IntentIds : status[i] \in {"Approved", "Executing"} =>
       (ExecutionReady(i) <=> approval_count[i] >= config.threshold /\ TimelockOver(i))
=============================================================================

-------------------------------- MODULE Setup --------------------------------
(***************************************************************************)
(* The set-up and deploy scripts: scripts/setup-devnet.ts, and              *)
(* scripts/deploy-evm.ts and scripts/deploy-sui.ts, which it starts.  What  *)
(* they know from one run to the next is in deployments/devnet.json,        *)
(* evm.json and sui.json; what they do lands on the chains.  A run dies     *)
(* anywhere, an EVM deployment fails with a warning, and the operator runs  *)
(* the scripts again.                                                       *)
(*                                                                          *)
(* A random key, a dWallet and a contract are numbers, drawn in turn.  The  *)
(* Solana program checks what it is given: see IssuerLedger.  The seed      *)
(* supply that every contract mints and every chain registers is left out.  *)
(***************************************************************************)
EXTENDS Integers, Sequences, FiniteSets

CONSTANTS
  ChainList,   \* the chains, in the order they are registered in
  EvmTargets,  \* those with an EVM contract, in the order they are deployed in
  FlagSets,    \* the combinations of flags the operator uses
  RunBound, CrashBound, WarnBound, WipeBound

Chains   == {ChainList[k] : k \in 1 .. Len(ChainList)}
Evm      == {EvmTargets[k] : k \in 1 .. Len(EvmTargets)}
Foreign  == Evm \cup {"sui"}

\* CHAIN_LIST (sdk/src/chains.ts) has Sui and every target of deploy-evm.ts, of
\* which there is at least one, and Sui is not one of them.
ASSUME SetupAssumption ==
  /\ {RunBound, CrashBound, WarnBound, WipeBound} \subseteq Nat
  /\ FlagSets \subseteq SUBSET {"skip-dkg", "skip-contracts"}
  /\ ChainList \in Seq(STRING) /\ EvmTargets \in Seq(STRING) \ {<<>>}
  /\ Foreign \subseteq Chains /\ "sui" \notin Evm

Curves   == {"secp256k1", "curve25519"}
CurveOf(c) == IF c = "sui" THEN "curve25519" ELSE "secp256k1"
None == 0   \* no key, no contract
NoDwallets == [v \in Curves |-> None]
SuiDomain == "ika-rwa:sui-testnet"

VARIABLES
  devnet,    \* deployments/devnet.json: createKey, dwallets, asset, chains
  evm, sui,  \* evm.json: chain -> contract; sui.json: contract
  fresh,     \* the last number drawn
  dwallets,  \* dWallet -> "executor", "ledger", who may have it sign; or "wiped"
  mint,      \* the asset whose PDA is the mint authority
  assets,    \* the asset accounts
  contracts, \* contract -> chain, signer, ledger, domain
  ledger,    \* chain -> its account on the ledger: dwallet, contract, domain
  run,       \* the run under way
  runs, crashes, warnings, wipes  \* counters for the bounds

files    == <<devnet, evm, sui>>
onChain  == <<dwallets, mint, assets, contracts, ledger>>
counters == <<runs, crashes, warnings, wipes>>
vars     == <<files, fresh, onChain, run, counters>>

NoRun == [at |-> "idle", flags |-> {}, createKey |-> None, dwallets |-> NoDwallets, next |-> 1]
NotRegistered == [dwallet |-> None, contract |-> None, domain |-> None]
\* The chain has an account on the ledger: every account names a contract.
OnLedger(c) == ledger[c].contract # None

Init ==
  /\ devnet = [createKey |-> None, dwallets |-> NoDwallets, asset |-> None, complete |-> FALSE]
  /\ evm = [c \in Evm |-> None] /\ sui = None
  /\ fresh = 0
  /\ dwallets = <<>> /\ mint = None /\ assets = {} /\ contracts = <<>>
  /\ ledger = [c \in Chains |-> NotRegistered]
  /\ run = NoRun
  /\ runs = 0 /\ crashes = 0 /\ warnings = 0 /\ wipes = 0

At(step) == run.at = step
Goto(step) == run' = [run EXCEPT !.at = step, !.next = 1]
HasDwallets(d) == \A v \in Curves : d.dwallets[v] # None
With(f, k, v) == [x \in DOMAIN f \cup {k} |-> IF x = k THEN v ELSE f[x]]

-----------------------------------------------------------------------------
(* setup-devnet.ts.                                                          *)

\* It reads the previous file; without a createKey there it draws one.
Start(flags) ==
  /\ At("idle") /\ runs < RunBound
  /\ "skip-dkg" \in flags => HasDwallets(devnet)
  /\ runs' = runs + 1
  /\ fresh' = IF devnet.createKey = None THEN fresh + 1 ELSE fresh
  /\ run' = [at |-> IF "skip-dkg" \in flags THEN "persist" ELSE "dkg", flags |-> flags, next |-> 1,
             createKey |-> IF devnet.createKey = None THEN fresh + 1 ELSE devnet.createKey,
             dwallets |-> IF "skip-dkg" \in flags THEN devnet.dwallets ELSE NoDwallets]
  /\ UNCHANGED <<files, onChain, crashes, warnings, wipes>>

CurveList == <<"secp256k1", "curve25519">>

\* requestDkg: the dWallet is created under the executor ...
Dkg ==
  /\ At("dkg")
  /\ fresh' = fresh + 1
  /\ dwallets' = With(dwallets, fresh + 1, "executor")
  /\ run' = [run EXCEPT !.at = "transfer", !.dwallets[CurveList[run.next]] = fresh + 1]
  /\ UNCHANGED <<files, mint, assets, contracts, ledger, counters>>

\* ... and handed to the ledger's CPI authority.
AfterTransfer ==
  IF run.next < Len(CurveList) THEN run' = [run EXCEPT !.at = "dkg", !.next = @ + 1]
  ELSE Goto("persist")
Handed(w) == IF w = "executor" THEN "ledger" ELSE w
Transfer ==
  LET w == run.dwallets[CurveList[run.next]] IN
  /\ At("transfer")
  /\ dwallets[w] = "executor"
  /\ dwallets' = [dwallets EXCEPT ![w] = Handed(@)]
  /\ AfterTransfer
  /\ UNCHANGED <<files, fresh, mint, assets, contracts, ledger, counters>>

\* "A later failure must not lose the dWallets or the asset createKey."  _m1
\* writes the dWallets only.
Persisted_m1 == [devnet EXCEPT !.dwallets = run.dwallets]
Persisted == [devnet EXCEPT !.createKey = run.createKey, !.dwallets = run.dwallets]
Persist ==
  /\ At("persist")
  /\ devnet' = Persisted
  /\ Goto("mint")
  /\ UNCHANGED <<evm, sui, fresh, onChain, counters>>

\* The mint's key is a file, so the mint is created once, its supply in the
\* treasury and its authority with the PDA of the asset, in one transaction.
CreateMint ==
  /\ At("mint")
  /\ mint' = IF mint = None THEN run.createKey ELSE mint
  /\ Goto("asset")
  /\ UNCHANGED <<files, fresh, dwallets, assets, contracts, ledger, counters>>

\* init_asset, unless the account is there.  _m1 does not look, and the
\* program refuses.
InitAsset_m1 ==
  /\ At("asset")
  /\ assets' = assets \cup {run.createKey}
  /\ run' = IF run.createKey \in assets THEN NoRun ELSE [run EXCEPT !.at = "persistAsset"]
  /\ UNCHANGED <<files, fresh, dwallets, mint, contracts, ledger, counters>>
InitAsset ==
  /\ At("asset")
  /\ assets' = assets \cup {run.createKey}
  /\ Goto("persistAsset")
  /\ UNCHANGED <<files, fresh, dwallets, mint, contracts, ledger, counters>>

PersistAsset ==
  /\ At("persistAsset")
  /\ devnet' = [devnet EXCEPT !.createKey = run.createKey, !.dwallets = run.dwallets, !.asset = run.createKey]
  /\ Goto(IF "skip-contracts" \in run.flags THEN "chains" ELSE "evm")
  /\ UNCHANGED <<evm, sui, fresh, onChain, counters>>

-----------------------------------------------------------------------------
(* deploy-evm.ts.                                                            *)

NextTarget == IF run.next < Len(EvmTargets) THEN run' = [run EXCEPT !.next = @ + 1] ELSE Goto("sui")

\* A recorded contract for this signer and this ledger is kept.  _m1 asks only
\* for the ledger.
Deployed_m1(c) ==
  /\ evm[c] # None
  /\ contracts[evm[c]].ledger = devnet.asset
Deployed(c) ==
  /\ evm[c] # None
  /\ contracts[evm[c]].signer = devnet.dwallets["secp256k1"]
  /\ contracts[evm[c]].ledger = devnet.asset

SkipEvm ==
  /\ At("evm")
  /\ Deployed(EvmTargets[run.next])
  /\ NextTarget
  /\ UNCHANGED <<files, fresh, onChain, counters>>

\* The process dies; or an EVM target fails with a warning and the next one is
\* taken: no gas, no RPC, a receipt that does not come.
Dies == crashes < CrashBound /\ crashes' = crashes + 1 /\ run' = NoRun /\ UNCHANGED warnings
Warns == warnings < WarnBound /\ warnings' = warnings + 1 /\ NextTarget /\ UNCHANGED crashes

\* The contract is deployed, and then recorded in evm.json, or not.  The domain
\* separator is made from the contract's address.
Contract(c, signer, domain) ==
  [chain |-> c, signer |-> signer, ledger |-> devnet.asset, domain |-> domain]
DeployEvm ==
  LET c == EvmTargets[run.next] IN
  /\ At("evm")
  /\ ~Deployed(c)
  /\ fresh' = fresh + 1
  /\ contracts' = With(contracts, fresh + 1, Contract(c, devnet.dwallets["secp256k1"], fresh + 1))
  /\ \/ evm' = [evm EXCEPT ![c] = fresh + 1] /\ NextTarget /\ UNCHANGED <<crashes, warnings>>
     \/ (Dies \/ Warns) /\ UNCHANGED evm
  /\ UNCHANGED <<devnet, sui, dwallets, mint, assets, ledger, runs, wipes>>

\* Nothing is deployed.  What evm.json recorded for this target stays.
FailEvm ==
  /\ At("evm")
  /\ ~Deployed(EvmTargets[run.next])
  /\ Warns
  /\ UNCHANGED <<files, fresh, onChain, runs, wipes>>

-----------------------------------------------------------------------------
(* deploy-sui.ts, without --rebind: publish, bind and mint, write.           *)

\* The domain the ledger has for Sui, or else the fixed one.  _m1 makes one from
\* the new package.
SuiDomainNow_m1 == fresh + 1
SuiDomainNow == IF OnLedger("sui") THEN ledger["sui"].domain ELSE SuiDomain
DeploySui ==
  /\ At("sui")
  /\ fresh' = fresh + 1
  /\ contracts' = With(contracts, fresh + 1, Contract("sui", devnet.dwallets["curve25519"], SuiDomainNow))
  /\ \/ sui' = fresh + 1 /\ Goto("chains") /\ UNCHANGED <<crashes, warnings>>
     \/ Dies /\ UNCHANGED sui
  /\ UNCHANGED <<devnet, evm, dwallets, mint, assets, ledger, runs, wipes>>

-----------------------------------------------------------------------------
(* add_chain, and the end of a run.                                          *)

ContractOf(c) == IF c = "sui" THEN sui ELSE evm[c]

\* chainParams.  The native chain has no dWallet.
Params(c) ==
  IF c \notin Foreign
  THEN [dwallet |-> None, contract |-> mint, domain |-> c]
  ELSE [dwallet |-> run.dwallets[CurveOf(c)], contract |-> ContractOf(c),
        domain |-> contracts[ContractOf(c)].domain]

\* A chain that has an account is skipped; one without a contract ends the run.
AddChain ==
  LET c == ChainList[run.next]
      missing == c \in Foreign /\ ContractOf(c) = None
      next == IF run.next < Len(ChainList) THEN [run EXCEPT !.next = @ + 1]
              ELSE [run EXCEPT !.at = "write"]
  IN
  /\ At("chains")
  /\ run' = IF missing THEN NoRun ELSE next
  /\ ledger' = IF missing \/ OnLedger(c) THEN ledger
               ELSE [ledger EXCEPT ![c] = Params(c)]
  /\ UNCHANGED <<files, fresh, dwallets, mint, assets, contracts, counters>>

Write ==
  /\ At("write")
  /\ devnet' = [createKey |-> run.createKey, dwallets |-> run.dwallets, asset |-> run.createKey,
                complete |-> TRUE]
  /\ run' = NoRun
  /\ UNCHANGED <<evm, sui, fresh, onChain, counters>>

Crash ==
  /\ ~At("idle")
  /\ Dies
  /\ UNCHANGED <<files, fresh, onChain, runs, wipes>>

-----------------------------------------------------------------------------
(* Between the runs.                                                         *)

\* docs/IKA_NOTES.md:30: the signer's key store is wiped from time to time.
Wipe ==
  /\ At("idle") /\ wipes < WipeBound
  /\ wipes' = wipes + 1
  /\ dwallets' = [w \in DOMAIN dwallets |-> "wiped"]
  /\ UNCHANGED <<files, fresh, mint, assets, contracts, ledger, run, runs, crashes, warnings>>

Step ==
  \/ Dkg \/ Transfer \/ Persist \/ CreateMint \/ InitAsset \/ PersistAsset
  \/ SkipEvm \/ DeployEvm \/ DeploySui \/ AddChain \/ Write

Next ==
  \/ \E flags \in FlagSets : Start(flags)
  \/ Step \/ FailEvm \/ Crash
  \/ Wipe

\* A run goes on until it ends, and the operator runs the script until it has
\* said "setup complete".
Spec ==
  /\ Init /\ [][Next]_vars
  /\ WF_vars(Step)
  /\ WF_vars(~devnet.complete /\ \E flags \in FlagSets : Start(flags))

-----------------------------------------------------------------------------

\* The executor can deliver a leg: the dWallet the ledger knows can sign for the
\* contract on file (executor/src/index.ts).
CanDeliver(c) ==
  /\ OnLedger(c) /\ ContractOf(c) # None
  /\ dwallets[ledger[c].dwallet] = "ledger"
  /\ contracts[ContractOf(c)].signer = ledger[c].dwallet
  /\ contracts[ContractOf(c)].domain = ledger[c].domain

\* The dWallets that matter are under the program: what the ledger registers or
\* a contract obeys was handed to the CPI authority first, wherever a run died
\* (setup-devnet.ts:265-274).
KeysInUse == {ledger[c].dwallet : c \in Foreign} \cup {contracts[k].signer : k \in DOMAIN contracts}
KeysHandedOver == \A w \in KeysInUse \ {None} : dwallets[w] # "executor"

\* The mint is created once and for one asset only: whatever run died in
\* between, the asset that is registered is the one that may mint
\* (setup-devnet.ts:286-288, 306-320).
MintObeysTheAsset == assets # {} => assets = {mint}

\* deploy-evm.ts:9-11, "so the controller is bound to exactly this ledger and
\* signer": a chain on the ledger names a contract that obeys the registered
\* dWallet, this asset and the registered domain, however the runs before
\* were cut short.  It takes that no target failed with a mere warning: such a
\* target keeps the record of an older dWallet's contract (deploy-evm.ts:96, 159).
RegisteredIsBound ==
  /\ KeysHandedOver
  /\ warnings = 0 =>
       \A c \in Foreign :
         OnLedger(c) =>
           LET k == contracts[ledger[c].contract] IN
           /\ k.signer = ledger[c].dwallet /\ k.domain = ledger[c].domain
           /\ k.ledger \in assets /\ k.chain = c

\* Re-run after every failure, the script completes (setup-devnet.ts:17).
SetupCompletes == <>devnet.complete

\* setup-devnet.ts:17, "existing keys, asset and chain accounts are reused":
\* where a run ends with the dWallet the ledger has registered for a chain, the
\* chain's legs can be signed and delivered, whatever the runs before deployed
\* and recorded.  A run that makes new dWallets cannot change the registered
\* ones, and a wiped dWallet signs nothing.
RunLeavesLedgerUsable ==
  [][Write /\ wipes = 0 /\ warnings = 0 =>
       \A c \in Foreign : ledger[c].dwallet = run.dwallets[CurveOf(c)] => CanDeliver(c)]_vars
=============================================================================

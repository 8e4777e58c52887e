----------------------------- MODULE Setup_proofs -----------------------------
(***************************************************************************)
(* What the set-up scripts leave on the chains, wherever their runs die:     *)
(* for any list of chains and any number of runs, crashes, warnings and      *)
(* wipes.                                                                    *)
(***************************************************************************)
EXTENDS Setup, TLAPS

Early == {"dkg", "transfer", "persist"}
Late  == {"mint", "asset", "persistAsset", "evm", "sui", "chains", "write"}

\* No run leaves the contracts out: every registration follows a deployment for
\* the dWallets of its own run.
NoSkip == \A flags \in FlagSets : "skip-contracts" \notin flags

-----------------------------------------------------------------------------
(* The inductive invariant.                                                  *)

Steps == {"idle"} \cup Early \cup Late
Runs ==
  [at : Steps, flags : FlagSets \cup {{}}, createKey : Nat,
   dwallets : [Curves -> Nat], next : Nat \ {0}]
RunInv ==
  /\ run \in Runs
  /\ ~At("idle") => run.flags \in FlagSets
  /\ run.at \in {"dkg", "transfer"} => run.next <= Len(CurveList)
  /\ At("evm") => run.next <= Len(EvmTargets)
  /\ At("chains") => run.next <= Len(ChainList)

Files == [createKey : Nat, dwallets : [Curves -> Nat], asset : Nat, complete : BOOLEAN]
TypeInv ==
  /\ fresh \in Nat /\ warnings \in Nat /\ wipes \in Nat
  /\ devnet \in Files /\ evm \in [Evm -> Nat] /\ sui \in Nat /\ mint \in Nat
  /\ DOMAIN dwallets \subseteq 1 .. fresh /\ DOMAIN contracts \subseteq 1 .. fresh
  /\ DOMAIN ledger = Chains
  /\ \A w \in DOMAIN dwallets : /\ dwallets[w] \in {"executor", "ledger", "wiped"}
                                /\ dwallets[w] = "wiped" => wipes > 0
  /\ RunInv

\* The createKey is in the file before the mint is made, and no run draws
\* another one from then on.
MintInv ==
  /\ ~At("idle") => run.createKey # None /\ devnet.createKey \in {None, run.createKey}
  /\ run.at \in Late => devnet.createKey = run.createKey
  /\ mint # None => mint = devnet.createKey
  /\ run.at \in Late \ {"mint"} => mint = run.createKey
  /\ assets # {} => mint # None /\ assets = {mint}
  /\ run.at \in {"persistAsset", "evm", "sui", "chains", "write"} => assets # {}

\* A dWallet is handed over before its number leaves the run.
IsHanded(w) == w \in DOMAIN dwallets /\ dwallets[w] # "executor"
RunKeysInv ==
  /\ run.at \in {"dkg", "transfer"} =>
       \A k \in 1 .. run.next - 1 : IsHanded(run.dwallets[CurveList[k]])
  /\ At("transfer") => run.dwallets[CurveList[run.next]] \in DOMAIN dwallets
  /\ run.at \in {"persist"} \cup Late => \A v \in Curves : IsHanded(run.dwallets[v])
  /\ run.at \in Late => devnet.dwallets = run.dwallets
KeysInv ==
  /\ RunKeysInv
  /\ \A v \in Curves : devnet.dwallets[v] # None => IsHanded(devnet.dwallets[v])
  /\ \A k \in DOMAIN contracts : IsHanded(contracts[k].signer)
  /\ \A c \in Foreign : ledger[c].dwallet # None => IsHanded(ledger[c].dwallet)
  /\ \A c \in Foreign : OnLedger(c) <=> ledger[c].dwallet # None

\* What evm.json records was deployed for that target.
RecordsInv ==
  /\ \A c \in Evm : evm[c] # None =>
       evm[c] \in DOMAIN contracts /\ contracts[evm[c]].chain = c /\ contracts[evm[c]].domain = evm[c]
  /\ run.at \in {"evm", "sui", "chains", "write"} => devnet.asset = run.createKey

BaseInv == TypeInv /\ MintInv /\ KeysInv /\ RecordsInv

\* Contract k serves chain c under the dWallets and the asset on file.
Serves(k, c) ==
  /\ k \in DOMAIN contracts
  /\ contracts[k].signer = devnet.dwallets[CurveOf(c)]
  /\ contracts[k].ledger = devnet.asset /\ contracts[k].chain = c

\* As long as no target failed with a warning: the targets a run has passed are
\* served, ...
ServedInv ==
  /\ At("evm") => \A k \in 1 .. run.next - 1 : Serves(evm[EvmTargets[k]], EvmTargets[k])
  /\ run.at \in {"sui", "chains", "write"} => \A c \in Evm : Serves(evm[c], c)
  /\ run.at \in {"chains", "write"} =>
       /\ Serves(sui, "sui")
       /\ OnLedger("sui") => contracts[sui].domain = ledger["sui"].domain

\* ... what the ledger has registered is bound to it, ...
BoundInv ==
  \A c \in Foreign : OnLedger(c) =>
    LET k == contracts[ledger[c].contract] IN
    /\ ledger[c].contract \in DOMAIN contracts
    /\ k.signer = ledger[c].dwallet /\ k.domain = ledger[c].domain
    /\ k.ledger \in assets /\ k.chain = c

\* ... and a registered contract stays on file as long as its dWallet does,
\* because a run finds it deployed; the dWallets a run makes are new to the ledger.
KeptInv ==
  /\ \A c \in Evm : OnLedger(c) /\ ledger[c].dwallet = devnet.dwallets["secp256k1"] =>
       evm[c] = ledger[c].contract
  /\ run.at \in {"dkg", "transfer"} => "skip-dkg" \notin run.flags
  /\ run.at \in Early =>
       IF "skip-dkg" \in run.flags THEN run.dwallets = devnet.dwallets
       ELSE \A v \in Curves, c \in Foreign : run.dwallets[v] # None => run.dwallets[v] # ledger[c].dwallet

Quiet == NoSkip /\ warnings = 0
SetupInv == BaseInv /\ (Quiet => ServedInv /\ BoundInv /\ KeptInv)

-----------------------------------------------------------------------------
(* The lists and the steps.                                                  *)

LEMMA ListFacts ==
  /\ Len(EvmTargets) \in Nat \ {0} /\ Len(ChainList) \in Nat
  /\ \A k \in 1 .. Len(EvmTargets) : EvmTargets[k] \in Evm
  /\ \A k \in 1 .. Len(ChainList) : ChainList[k] \in Chains
  /\ \A c \in Evm : \E k \in 1 .. Len(EvmTargets) : c = EvmTargets[k]
  /\ "sui" \in Foreign /\ "sui" \notin Evm /\ Evm \subseteq Foreign /\ Foreign \subseteq Chains
  /\ \E k \in 1 .. Len(ChainList) : ChainList[k] = "sui"
<1>1. Len(EvmTargets) \in Nat \ {0} /\ Len(ChainList) \in Nat
  BY SetupAssumption
<1>2. "sui" \in Foreign /\ "sui" \notin Evm /\ Evm \subseteq Foreign /\ Foreign \subseteq Chains
  BY SetupAssumption DEF Foreign
<1>3. \E k \in 1 .. Len(ChainList) : ChainList[k] = "sui"
  BY <1>2 DEF Chains
<1> QED BY <1>1, <1>2, <1>3 DEF Evm, Chains

LEMMA CurveFacts ==
  /\ Len(CurveList) = 2 /\ CurveList[1] = "secp256k1" /\ CurveList[2] = "curve25519"
  /\ \A k \in {1, 2} : CurveList[k] \in Curves
  /\ \A c : CurveOf(c) \in Curves
  /\ \A c \in Evm : CurveOf(c) = "secp256k1"
  /\ CurveOf("sui") = "curve25519"
BY ListFacts DEF CurveList, Curves, CurveOf

\* What a step of the scripts makes of the run's record.
SameRun == run'.flags = run.flags /\ run'.createKey = run.createKey /\ run'.dwallets = run.dwallets

LEMMA RunsExcept ==
  ASSUME run \in Runs, NEW step \in Steps, NEW n \in Nat \ {0}
  PROVE  [run EXCEPT !.at = step, !.next = n] \in Runs
<1> DEFINE moved == [run EXCEPT !.at = step]
<1>1. moved \in Runs
  BY DEF Runs
<1>2. [moved EXCEPT !.next = n] \in Runs
  BY <1>1 DEF Runs
<1>3. [run EXCEPT !.at = step, !.next = n] = [moved EXCEPT !.next = n]
  BY DEF Runs
<1> QED BY <1>2, <1>3

LEMMA GotoEffect ==
  ASSUME NEW step \in Steps, run \in Runs, Goto(step)
  PROVE  run' \in Runs /\ SameRun /\ run'.at = step /\ run'.next = 1
<1>1. SameRun /\ run'.at = step /\ run'.next = 1
  BY DEF Goto, Runs, SameRun
<1>2. 1 \in Nat \ {0}
  OBVIOUS
<1>3. [run EXCEPT !.at = step, !.next = 1] \in Runs
  BY <1>2, RunsExcept, Zenon
<1> QED BY <1>1, <1>3 DEF Goto

LEMMA NextEffect ==
  ASSUME run \in Runs, run' = [run EXCEPT !.next = @ + 1]
  PROVE  run' \in Runs /\ SameRun /\ run'.at = run.at /\ run'.next = run.next + 1
BY DEF Runs, SameRun

LEMMA NextTargetEffect ==
  ASSUME RunInv, At("evm"), NextTarget
  PROVE  /\ run' \in Runs /\ SameRun
         /\ \/ run.next < Len(EvmTargets) /\ run'.at = "evm" /\ run'.next = run.next + 1
            \/ run.next = Len(EvmTargets) /\ run'.at = "sui" /\ run'.next = 1
<1>1. CASE run.next < Len(EvmTargets)
  BY <1>1, NextEffect DEF NextTarget, RunInv, At
<1>2. CASE ~(run.next < Len(EvmTargets))
  <2>1. Goto("sui") /\ run.next = Len(EvmTargets)
    BY <1>2, ListFacts DEF NextTarget, RunInv, At, Runs
  <2> QED BY <2>1, GotoEffect DEF RunInv, Steps, Late
<1> QED BY <1>1, <1>2

LEMMA NoRunEffect == run' = NoRun => run' \in Runs /\ run'.at = "idle"
BY DEF NoRun, NoDwallets, None, Runs, Steps

LEMMA DkgEffect ==
  ASSUME RunInv, fresh \in Nat, Dkg
  PROVE  /\ run' \in Runs /\ run'.at = "transfer" /\ run'.next = run.next
         /\ run'.flags = run.flags /\ run'.createKey = run.createKey
         /\ run'.dwallets = [run.dwallets EXCEPT ![CurveList[run.next]] = fresh + 1]
         /\ run.next \in {1, 2}
<1>1. run.next \in {1, 2}
  BY CurveFacts DEF Dkg, At, RunInv, Runs
<1>2. CurveList[run.next] \in Curves
  BY <1>1, CurveFacts
<1>3. [run.dwallets EXCEPT ![CurveList[run.next]] = fresh + 1] \in [Curves -> Nat]
  BY <1>2 DEF RunInv, Runs
<1>4. run' = [run EXCEPT !.at = "transfer", !.dwallets = [run.dwallets EXCEPT ![CurveList[run.next]] = fresh + 1]]
  BY DEF Dkg, RunInv, Runs
<1> QED BY <1>1, <1>3, <1>4 DEF RunInv, Runs, Steps, Early

LEMMA TransferEffect ==
  ASSUME RunInv, Transfer
  PROVE  /\ run' \in Runs /\ SameRun
         /\ \/ run.next = 1 /\ run'.at = "dkg" /\ run'.next = 2
            \/ run.next = 2 /\ run'.at = "persist" /\ run'.next = 1
<1>1. run.next \in {1, 2} /\ AfterTransfer
  BY CurveFacts DEF Transfer, At, RunInv, Runs
<1>2. CASE run.next = 1
  <2>1. run' = [run EXCEPT !.at = "dkg", !.next = 2]
    BY <1>1, <1>2, CurveFacts DEF AfterTransfer, RunInv, Runs
  <2>2. SameRun /\ run'.at = "dkg" /\ run'.next = 2
    BY <2>1 DEF RunInv, Runs, SameRun
  <2>3. "dkg" \in Steps /\ 2 \in Nat \ {0}
    BY DEF Steps, Early
  <2>4. run' \in Runs
    BY <2>1, <2>3, RunsExcept, Zenon DEF RunInv
  <2> QED BY <1>2, <2>2, <2>4
<1>3. CASE run.next = 2
  BY <1>1, <1>3, CurveFacts, GotoEffect DEF AfterTransfer, RunInv, Steps, Early
<1> QED BY <1>1, <1>2, <1>3

\* The steps of a run that set no more of its record than the step it is at.
LEMMA LateEffect ==
  ASSUME RunInv
  PROVE  /\ Persist => At("persist") /\ run'.at = "mint"
         /\ CreateMint => At("mint") /\ run'.at = "asset"
         /\ InitAsset => At("asset") /\ run'.at = "persistAsset"
         /\ PersistAsset => /\ At("persistAsset")
                            /\ run'.at = IF "skip-contracts" \in run.flags THEN "chains" ELSE "evm"
         /\ Persist \/ CreateMint \/ InitAsset \/ PersistAsset => run' \in Runs /\ SameRun /\ run'.next = 1
BY GotoEffect DEF Persist, CreateMint, InitAsset, PersistAsset, RunInv, Steps, Late

\* AddChain goes on to the next chain, ends the list, or ends the run.
LEMMA AddChainEffect ==
  ASSUME RunInv, AddChain
  PROVE  /\ run' \in Runs /\ At("chains")
         /\ \/ run'.at = "idle" /\ ledger' = ledger
            \/ SameRun /\ run'.at = "chains" /\ run'.next = run.next + 1 /\ run.next < Len(ChainList)
            \/ SameRun /\ run'.at = "write"
<1>1. CASE run' = NoRun /\ ledger' = ledger
  BY <1>1, NoRunEffect DEF AddChain
<1>2. CASE run.next < Len(ChainList) /\ run' = [run EXCEPT !.next = @ + 1]
  BY <1>2, NextEffect DEF AddChain, At, RunInv
<1>3. CASE run' = [run EXCEPT !.at = "write"]
  BY <1>3 DEF AddChain, At, RunInv, Runs, SameRun, Steps, Late
<1> QED BY <1>1, <1>2, <1>3 DEF AddChain

\* A deployment that is recorded, or not.
LEMMA DeployEvmEffect ==
  ASSUME RunInv, fresh \in Nat, warnings \in Nat, evm \in [Evm -> Nat], DeployEvm
  PROVE  /\ run' \in Runs /\ At("evm") /\ EvmTargets[run.next] \in Evm
         /\ \/ run'.at = "idle" /\ evm' = evm /\ warnings' = warnings
            \/ NextTarget /\ evm' = evm /\ warnings' = warnings + 1
            \/ NextTarget /\ evm' = [evm EXCEPT ![EvmTargets[run.next]] = fresh + 1] /\ warnings' = warnings
<1>1. At("evm") /\ EvmTargets[run.next] \in Evm
  BY ListFacts DEF DeployEvm, At, RunInv, Runs
<1>2. NextTarget => run' \in Runs
  BY <1>1, NextTargetEffect
<1> QED BY <1>1, <1>2, NoRunEffect DEF DeployEvm, Dies, Warns

LEMMA DeploySuiEffect ==
  ASSUME RunInv, fresh \in Nat, DeploySui
  PROVE  /\ run' \in Runs /\ At("sui") /\ warnings' = warnings
         /\ \/ run'.at = "idle" /\ sui' = sui
            \/ SameRun /\ run'.at = "chains" /\ run'.next = 1 /\ sui' = fresh + 1
BY NoRunEffect, GotoEffect DEF DeploySui, Dies, RunInv, Steps, Late

LEMMA StartEffect ==
  ASSUME TypeInv, NEW flags \in FlagSets, Start(flags)
  PROVE  /\ run' \in Runs /\ run'.flags = flags /\ run'.next = 1
         /\ run'.createKey = IF devnet.createKey = None THEN fresh + 1 ELSE devnet.createKey
         /\ IF "skip-dkg" \in flags
            THEN HasDwallets(devnet) /\ run'.at = "persist" /\ run'.dwallets = devnet.dwallets
            ELSE run'.at = "dkg" /\ run'.dwallets = NoDwallets
BY DEF Start, TypeInv, Files, Runs, NoDwallets, None, Steps, Early

\* A new number is outside what was drawn before.
LEMMA WithFacts ==
  ASSUME fresh \in Nat, NEW f, DOMAIN f \subseteq 1 .. fresh, NEW v
  PROVE  /\ DOMAIN With(f, fresh + 1, v) = DOMAIN f \cup {fresh + 1}
         /\ DOMAIN With(f, fresh + 1, v) \subseteq 1 .. fresh + 1
         /\ fresh + 1 \notin DOMAIN f
         /\ With(f, fresh + 1, v)[fresh + 1] = v
         /\ \A x \in DOMAIN f : With(f, fresh + 1, v)[x] = f[x]
BY DEF With

-----------------------------------------------------------------------------
(* Each part of the invariant is preserved.                                  *)

LEMMA RunStep == ASSUME TypeInv, [Next]_vars PROVE RunInv'
<1> USE DEF RunInv, At
<1> DEFINE Far == {"dkg", "transfer", "evm", "chains"}
<1>a. run' \in Runs /\ run'.at \notin Far /\ (run'.at # "idle" => run'.flags \in FlagSets) => RunInv'
  BY DEF Steps, Early, Late
<1>1. ASSUME NEW flags \in FlagSets, Start(flags) PROVE RunInv'
  BY <1>1, StartEffect, CurveFacts
<1>2. CASE Dkg
  BY <1>2, DkgEffect, CurveFacts DEF TypeInv, Dkg
<1>3. CASE Transfer
  BY <1>3, TransferEffect, CurveFacts DEF TypeInv, Transfer, SameRun
<1>4. CASE Persist \/ CreateMint \/ InitAsset \/ PersistAsset
  BY <1>4, LateEffect, ListFacts, SetupAssumption DEF TypeInv, SameRun, Chains, Foreign
<1>5. CASE SkipEvm
  BY <1>5, NextTargetEffect DEF TypeInv, SkipEvm, SameRun, Runs
<1>6. CASE DeployEvm \/ FailEvm
  <2>1. (run' \in Runs /\ run'.at = "idle") \/ NextTarget
    BY <1>6, DeployEvmEffect DEF TypeInv, FailEvm, Warns
  <2>2. At("evm")
    BY <1>6 DEF DeployEvm, FailEvm
  <2>3. run' \in Runs
    BY <1>6, NoRunEffect, <2>1, <2>2, DeployEvmEffect, NextTargetEffect DEF TypeInv, FailEvm
  <2>4. CASE NextTarget
    BY <2>2, <2>3, <2>4, NextTargetEffect DEF TypeInv, SameRun, Runs
  <2> QED BY <2>1, <2>3, <2>4 
<1>7. CASE DeploySui
  BY <1>7, DeploySuiEffect, ListFacts DEF TypeInv, SameRun
<1>8. CASE AddChain
  BY <1>8, AddChainEffect, ListFacts DEF TypeInv, SameRun, Runs
<1>9. CASE Write \/ Crash
  BY <1>9, NoRunEffect DEF Write, Crash, Dies
<1>10. CASE Wipe \/ UNCHANGED vars
  BY <1>10 DEF TypeInv, Wipe, vars
<1> QED
  BY <1>1, <1>2, <1>3, <1>4, <1>5, <1>6, <1>7, <1>8, <1>9, <1>10 DEF Next, Step

LEMMA TypeStep == ASSUME BaseInv, [Next]_vars PROVE TypeInv'
<1> USE DEF BaseInv, TypeInv, Files
<1>r. RunInv'
  BY RunStep
<1>1. ASSUME NEW flags \in FlagSets, Start(flags) PROVE TypeInv'
  BY <1>r, <1>1 DEF Start, files, onChain
<1>2. CASE Dkg
  <2>1. dwallets' = With(dwallets, fresh + 1, "executor") /\ fresh' = fresh + 1
    BY <1>2 DEF Dkg
  <2> HIDE DEF Files
  <2>2. /\ DOMAIN dwallets' = DOMAIN dwallets \cup {fresh + 1} /\ DOMAIN dwallets' \subseteq 1 .. fresh'
        /\ dwallets'[fresh + 1] = "executor" /\ \A x \in DOMAIN dwallets : dwallets'[x] = dwallets[x]
    BY <2>1 DEF With
  <2>3. DOMAIN contracts' \subseteq 1 .. fresh'
    BY <1>2, <2>1 DEF Dkg
  <2> QED BY <1>r, <1>2, <2>1, <2>2, <2>3 DEF Dkg, files, counters
<1>3. CASE Transfer
  BY <1>r, <1>3 DEF Transfer, Handed, files, counters
<1>4. CASE Persist
  BY <1>r, <1>4 DEF Persist, Persisted, onChain, counters, RunInv, Runs
<1>5. CASE CreateMint
  BY <1>r, <1>5 DEF CreateMint, files, counters, RunInv, Runs
<1>6. CASE InitAsset
  BY <1>r, <1>6 DEF InitAsset, files, counters
<1>7. CASE PersistAsset
  BY <1>r, <1>7 DEF PersistAsset, onChain, counters, RunInv, Runs
<1>8. CASE SkipEvm
  BY <1>r, <1>8 DEF SkipEvm, files, onChain, counters
<1>9. CASE DeployEvm
  <2>1. DOMAIN contracts' \subseteq 1 .. fresh' /\ fresh' = fresh + 1
    BY <1>9, WithFacts DEF DeployEvm
  <2> QED BY <1>r, <1>9, <2>1, DeployEvmEffect DEF DeployEvm
<1>10. CASE FailEvm
  BY <1>r, <1>10 DEF FailEvm, Warns, files, onChain
<1>11. CASE DeploySui
  <2>1. DOMAIN contracts' \subseteq 1 .. fresh' /\ fresh' = fresh + 1
    BY <1>11, WithFacts DEF DeploySui
  <2> QED BY <1>r, <1>11, <2>1, DeploySuiEffect DEF DeploySui
<1>12. CASE AddChain
  BY <1>r, <1>12 DEF AddChain, files, counters
<1>13. CASE Write
  BY <1>r, <1>13 DEF Write, onChain, counters, RunInv, Runs
<1>14. CASE Crash
  BY <1>r, <1>14 DEF Crash, Dies, files, onChain
<1>15. CASE Wipe
  BY <1>r, <1>15 DEF Wipe, files
<1>16. CASE UNCHANGED vars
  BY <1>r, <1>16 DEF vars, files, onChain, counters
<1> QED
  BY <1>1, <1>2, <1>3, <1>4, <1>5, <1>6, <1>7, <1>8, <1>9, <1>10, <1>11, <1>12, <1>13, <1>14,
     <1>15, <1>16 DEF Next, Step
LEMMA MintStep == ASSUME BaseInv, [Next]_vars PROVE MintInv'
<1> USE DEF BaseInv, TypeInv, MintInv, At, None, Early, Late
<1>1. ASSUME NEW flags \in FlagSets, Start(flags) PROVE MintInv'
  <2>1. run'.at \in {"dkg", "persist"} /\ run'.createKey # None
        /\ devnet.createKey \in {None, run'.createKey}
    BY <1>1, StartEffect DEF Files
  <2> QED BY <1>1, <2>1 DEF Start, files, onChain
<1>2. CASE Dkg
  BY <1>2, DkgEffect DEF Dkg, files
<1>3. CASE Transfer
  BY <1>3, TransferEffect DEF Transfer, files, SameRun
<1>4. CASE Persist
  <2>1. devnet'.createKey = run.createKey
    BY <1>4 DEF Persist, Persisted, Files
  <2> QED BY <1>4, <2>1, LateEffect DEF Persist, onChain, SameRun
<1>5. CASE CreateMint
  BY <1>5, LateEffect DEF CreateMint, files, SameRun
<1>6. CASE InitAsset
  BY <1>6, LateEffect DEF InitAsset, files, SameRun
<1>7. CASE PersistAsset
  <2>1. devnet'.createKey = run.createKey
    BY <1>7 DEF PersistAsset, Files
  <2> QED BY <1>7, <2>1, LateEffect DEF PersistAsset, onChain, SameRun
<1>8. CASE SkipEvm
  BY <1>8, NextTargetEffect DEF SkipEvm, files, onChain, SameRun
<1>9. CASE DeployEvm
  BY <1>9, DeployEvmEffect, NextTargetEffect DEF DeployEvm, SameRun
<1>10. CASE FailEvm
  BY <1>10, NextTargetEffect DEF FailEvm, Warns, files, onChain, SameRun
<1>11. CASE DeploySui
  BY <1>11, DeploySuiEffect DEF DeploySui, SameRun
<1>12. CASE AddChain
  BY <1>12, AddChainEffect DEF AddChain, files, SameRun
<1>13. CASE Write
  BY <1>13, NoRunEffect DEF Write, onChain
<1>14. CASE Crash
  BY <1>14, NoRunEffect DEF Crash, Dies, files, onChain
<1>15. CASE Wipe
  BY <1>15 DEF Wipe, files
<1>16. CASE UNCHANGED vars
  BY <1>16 DEF vars, files, onChain
<1> QED
  BY <1>1, <1>2, <1>3, <1>4, <1>5, <1>6, <1>7, <1>8, <1>9, <1>10, <1>11, <1>12, <1>13, <1>14,
     <1>15, <1>16 DEF Next, Step

LEMMA RecordsStep == ASSUME BaseInv, [Next]_vars PROVE RecordsInv'
<1> USE DEF BaseInv, TypeInv, RecordsInv, At, None, Early, Late
<1>1. ASSUME NEW flags \in FlagSets, Start(flags) PROVE RecordsInv'
  BY <1>1, StartEffect DEF Start, files, onChain
<1>2. CASE Dkg
  BY <1>2, DkgEffect DEF Dkg, files
<1>3. CASE Transfer
  BY <1>3, TransferEffect DEF Transfer, files
<1>4. CASE Persist \/ CreateMint \/ InitAsset
  BY <1>4, LateEffect DEF Persist, CreateMint, InitAsset, onChain, files
<1>7. CASE PersistAsset
  BY <1>7, LateEffect DEF PersistAsset, onChain, SameRun, Files
<1>8. CASE SkipEvm
  BY <1>8, NextTargetEffect DEF SkipEvm, files, onChain, SameRun
<1>9. CASE DeployEvm
  <2> DEFINE c == EvmTargets[run.next]
             k == Contract(c, devnet.dwallets["secp256k1"], fresh + 1)
  <2>1. contracts' = With(contracts, fresh + 1, k) /\ devnet' = devnet
    BY <1>9 DEF DeployEvm
  <2>2. k.chain = c /\ k.domain = fresh + 1
    BY DEF Contract
  <2>3. /\ fresh + 1 \in DOMAIN contracts' /\ contracts'[fresh + 1] = k
        /\ \A x \in DOMAIN contracts : x \in DOMAIN contracts' /\ contracts'[x] = contracts[x]
    BY <2>1 DEF With
  <2>4. \A d \in Evm : evm'[d] = evm[d] \/ (d = c /\ evm'[d] = fresh + 1)
    BY <1>9, DeployEvmEffect
  <2>5. run'.at \in {"evm", "sui", "chains", "write"} => devnet'.asset = run'.createKey
    BY <1>9, <2>1, DeployEvmEffect, NextTargetEffect DEF SameRun
  <2>6. ASSUME NEW d \in Evm, evm'[d] # None
        PROVE  /\ evm'[d] \in DOMAIN contracts'
               /\ contracts'[evm'[d]].chain = d /\ contracts'[evm'[d]].domain = evm'[d]
    BY <2>2, <2>3, <2>4, <2>6
  <2> QED BY <2>5, <2>6
<1>10. CASE FailEvm
  BY <1>10, NextTargetEffect DEF FailEvm, Warns, files, onChain, SameRun
<1>11. CASE DeploySui
  <2>1. \A x \in DOMAIN contracts : x \in DOMAIN contracts' /\ contracts'[x] = contracts[x]
    BY <1>11 DEF DeploySui, With
  <2>2. devnet' = devnet /\ evm' = evm
    BY <1>11 DEF DeploySui
  <2>3. run'.at \in {"evm", "sui", "chains", "write"} => devnet'.asset = run'.createKey
    BY <1>11, <2>2, DeploySuiEffect DEF SameRun
  <2> QED BY <2>1, <2>2, <2>3
<1>12. CASE AddChain
  BY <1>12, AddChainEffect DEF AddChain, files, SameRun
<1>13. CASE Write
  BY <1>13, NoRunEffect DEF Write, onChain
<1>14. CASE Crash
  BY <1>14, NoRunEffect DEF Crash, Dies, files, onChain
<1>15. CASE Wipe
  BY <1>15 DEF Wipe, files
<1>16. CASE UNCHANGED vars
  BY <1>16 DEF vars, files, onChain
<1> QED
  BY <1>1, <1>2, <1>3, <1>4, <1>7, <1>8, <1>9, <1>10, <1>11, <1>12, <1>13, <1>14,
     <1>15, <1>16 DEF Next, Step
\* Only DKG, the hand-over and a wipe touch the dWallets, and what was handed over
\* stays so.
LEMMA DwalletsStep ==
  ASSUME BaseInv, [Next]_vars
  PROVE  /\ Dkg \/ Transfer \/ Wipe \/ UNCHANGED dwallets
         /\ DOMAIN dwallets \subseteq DOMAIN dwallets'
         /\ \A w : IsHanded(w) => IsHanded(w)'
<1>1. Dkg \/ Transfer \/ Wipe \/ UNCHANGED dwallets
  BY DEF Next, Step, Start, Persist, CreateMint, InitAsset, PersistAsset, SkipEvm, DeployEvm, FailEvm,
         DeploySui, AddChain, Write, Crash, vars, onChain
<1>2. CASE Dkg
  <2>1. DOMAIN dwallets' = DOMAIN dwallets \cup {fresh + 1} /\ fresh + 1 \notin DOMAIN dwallets
        /\ \A x \in DOMAIN dwallets : dwallets'[x] = dwallets[x]
    BY <1>2 DEF Dkg, With, BaseInv, TypeInv
  <2> QED BY <1>1, <2>1 DEF IsHanded
<1>3. CASE Transfer
  <2>1. DOMAIN dwallets' = DOMAIN dwallets
        /\ (\A x \in DOMAIN dwallets : dwallets'[x] = dwallets[x] \/ dwallets'[x] = "ledger")
    BY <1>3 DEF Transfer, Handed
  <2> QED BY <1>1, <2>1 DEF IsHanded
<1>4. CASE Wipe
  BY <1>1, <1>4 DEF Wipe, IsHanded
<1>5. CASE UNCHANGED dwallets
  BY <1>1, <1>5 DEF IsHanded
<1> QED BY <1>1, <1>2, <1>3, <1>4, <1>5

LEMMA RunKeysStep == ASSUME BaseInv, [Next]_vars PROVE RunKeysInv'
<1> USE DEF BaseInv, TypeInv, KeysInv, RunKeysInv, At, None, Early, Late
<1>h. DOMAIN dwallets \subseteq DOMAIN dwallets' /\ \A w : IsHanded(w) => IsHanded(w)'
  BY DwalletsStep
<1>1. ASSUME NEW flags \in FlagSets, Start(flags) PROVE RunKeysInv'
  <2>1. run'.at = "dkg" \/ (run'.at = "persist" /\ run'.dwallets = devnet.dwallets /\ HasDwallets(devnet))
    BY <1>1, StartEffect
  <2>2. run'.next = 1
    BY <1>1, StartEffect
  <2> QED BY <1>1, <1>h, <2>1, <2>2 DEF HasDwallets
<1>2. CASE Dkg
  <2>1. /\ run'.at = "transfer" /\ run'.next = run.next /\ run.next \in {1, 2}
        /\ run'.dwallets = [run.dwallets EXCEPT ![CurveList[run.next]] = fresh + 1]
    BY <1>2, DkgEffect
  <2>2. fresh + 1 \in DOMAIN dwallets' /\ At("dkg")
    BY <1>2 DEF Dkg, With
  <2>3. run'.dwallets[CurveList[run.next]] = fresh + 1
    BY <2>1, CurveFacts DEF RunInv, Runs
  <2>4. \A k \in 1 .. run.next - 1 : run'.dwallets[CurveList[k]] = run.dwallets[CurveList[k]]
    BY <2>1, CurveFacts DEF RunInv, Runs
  <2> QED BY <1>h, <2>1, <2>2, <2>3, <2>4
<1>3. CASE Transfer
  <2>1. run'.dwallets = run.dwallets /\ At("transfer")
    BY <1>3, TransferEffect DEF SameRun, Transfer
  <2> DEFINE w == run.dwallets[CurveList[run.next]]
             Now(x) == x \in DOMAIN dwallets' /\ dwallets'[x] # "executor"
  <2>2. Now(w)
    BY <1>3 DEF Transfer, Handed
  <2>h. \A x : IsHanded(x) => Now(x)
    BY <1>h DEF IsHanded
  <2>3. CASE run.next = 1
    <3>1. run'.at = "dkg" /\ run'.next = 2
      BY <1>3, <2>3, TransferEffect
    <3>2. Now(run.dwallets[CurveList[1]])
      BY <2>2, <2>3
    <3> QED BY <2>1, <3>1, <3>2 DEF IsHanded
  <2>4. CASE run.next = 2
    <3>1. Now(run.dwallets[CurveList[1]]) /\ Now(run.dwallets[CurveList[2]])
      BY <2>h, <2>1, <2>2, <2>4
    <3>2. \A v \in Curves : Now(run.dwallets[v])
      BY <3>1, CurveFacts DEF Curves
    <3>3. run'.at = "persist"
      BY <1>3, <2>4, TransferEffect
    <3> QED BY <2>1, <3>2, <3>3 DEF IsHanded
  <2> QED BY <1>3, <2>3, <2>4, TransferEffect
<1>4. CASE Persist
  <2>1. devnet'.dwallets = run.dwallets
    BY <1>4 DEF Persist, Persisted, Files
  <2> QED BY <1>4, <1>h, <2>1, LateEffect DEF SameRun
<1>5. CASE CreateMint \/ InitAsset
  BY <1>5, <1>h, LateEffect DEF CreateMint, InitAsset, files, SameRun
<1>7. CASE PersistAsset
  <2>1. devnet'.dwallets = run.dwallets
    BY <1>7 DEF PersistAsset, Files
  <2> QED BY <1>7, <1>h, <2>1, LateEffect DEF SameRun
<1>8. CASE SkipEvm
  BY <1>8, <1>h, NextTargetEffect DEF SkipEvm, files, SameRun
<1>9. CASE DeployEvm
  BY <1>9, <1>h, DeployEvmEffect, NextTargetEffect DEF DeployEvm, SameRun
<1>10. CASE FailEvm
  BY <1>10, <1>h, NextTargetEffect DEF FailEvm, Warns, files, SameRun
<1>11. CASE DeploySui
  BY <1>11, <1>h, DeploySuiEffect DEF DeploySui, SameRun
<1>12. CASE AddChain
  BY <1>12, <1>h, AddChainEffect DEF AddChain, files, SameRun
<1>13. CASE Write
  BY <1>13, NoRunEffect DEF Write
<1>14. CASE Crash
  BY <1>14, NoRunEffect DEF Crash, Dies
<1>15. CASE Wipe
  BY <1>15, <1>h DEF Wipe, files
<1>16. CASE UNCHANGED vars
  BY <1>16, <1>h DEF vars, files
<1> QED
  BY <1>1, <1>2, <1>3, <1>4, <1>5, <1>7, <1>8, <1>9, <1>10, <1>11, <1>12, <1>13, <1>14,
     <1>15, <1>16 DEF Next, Step
LEMMA KeysStep == ASSUME BaseInv, [Next]_vars PROVE KeysInv'
<1> DEFINE Now(x) == x \in DOMAIN dwallets' /\ dwallets'[x] # "executor"
<1>h. \A x : IsHanded(x) => Now(x)
  BY DwalletsStep DEF IsHanded
<1>r. RunKeysInv'
  BY RunKeysStep
<1>d. \A v \in Curves : devnet'.dwallets[v] # None => Now(devnet'.dwallets[v])
  <2>1. CASE devnet'.dwallets = run.dwallets /\ run.at \in {"persist"} \cup Late
    BY <2>1, <1>h DEF BaseInv, KeysInv, RunKeysInv
  <2>2. CASE devnet'.dwallets = devnet.dwallets
    BY <2>2, <1>h DEF BaseInv, KeysInv
  <2>3. Persist => devnet'.dwallets = run.dwallets /\ At("persist")
    BY DEF Persist, Persisted, BaseInv, TypeInv, Files
  <2>4. PersistAsset => devnet'.dwallets = run.dwallets /\ At("persistAsset")
    BY DEF PersistAsset, BaseInv, TypeInv, Files
  <2>5. Write => devnet'.dwallets = run.dwallets /\ At("write")
    BY DEF Write
  <2>6. Persist \/ PersistAsset \/ Write \/ devnet' = devnet
    BY DEF Next, Step, Start, Dkg, Transfer, CreateMint, InitAsset, SkipEvm, DeployEvm, FailEvm,
           DeploySui, AddChain, Crash, Wipe, vars, files
  <2> QED BY <2>1, <2>2, <2>3, <2>4, <2>5, <2>6 DEF At, Late
<1>k. \A k \in DOMAIN contracts' : Now(contracts'[k].signer)
  <2>1. CASE UNCHANGED contracts
    BY <2>1, <1>h DEF BaseInv, KeysInv
  <2>2. ASSUME NEW c, NEW v \in Curves, NEW d, run.at \in {"evm", "sui"},
               contracts' = With(contracts, fresh + 1, Contract(c, devnet.dwallets[v], d))
        PROVE  \A k \in DOMAIN contracts' : Now(contracts'[k].signer)
    <3>1. IsHanded(devnet.dwallets[v])
      BY <2>2 DEF BaseInv, KeysInv, RunKeysInv, Late
    <3>2. \A k \in DOMAIN contracts' :
             \/ contracts'[k] = Contract(c, devnet.dwallets[v], d)
             \/ k \in DOMAIN contracts /\ contracts'[k] = contracts[k]
      BY <2>2 DEF With
    <3> QED BY <1>h, <3>1, <3>2 DEF Contract, BaseInv, KeysInv
  <2>3. CASE DeployEvm
    BY <2>3, <2>2 DEF DeployEvm, At, Curves
  <2>4. CASE DeploySui
    BY <2>4, <2>2 DEF DeploySui, At, Curves
  <2>5. DeployEvm \/ DeploySui \/ UNCHANGED contracts
    BY DEF Next, Step, Start, Dkg, Transfer, Persist, CreateMint, InitAsset, PersistAsset, SkipEvm,
           FailEvm, AddChain, Write, Crash, Wipe, vars, onChain
  <2> QED BY <2>1, <2>3, <2>4, <2>5
<1>l. \A c \in Foreign : /\ ledger'[c].dwallet # None => Now(ledger'[c].dwallet)
                         /\ OnLedger(c)' <=> ledger'[c].dwallet # None
  <2>1. CASE UNCHANGED ledger
    BY <2>1, <1>h DEF BaseInv, KeysInv, OnLedger
  <2>2. ASSUME NEW c \in Foreign, AddChain, ledger' = [ledger EXCEPT ![c] = Params(c)], ContractOf(c) # None
        PROVE  \A d \in Foreign : /\ ledger'[d].dwallet # None => Now(ledger'[d].dwallet)
                                 /\ OnLedger(d)' <=> ledger'[d].dwallet # None
    <3>1. IsHanded(run.dwallets[CurveOf(c)])
      BY <2>2, CurveFacts DEF AddChain, At, Late, BaseInv, KeysInv, RunKeysInv
    <3>2. run.dwallets[CurveOf(c)] # None
      BY <3>1 DEF IsHanded, None, BaseInv, TypeInv
    <3>3. Params(c).dwallet = run.dwallets[CurveOf(c)] /\ Params(c).contract = ContractOf(c)
      BY DEF Params
    <3>4. \A d \in Foreign : ledger'[d] = IF d = c THEN Params(c) ELSE ledger[d]
      BY <2>2, ListFacts DEF BaseInv, TypeInv
    <3> QED BY <1>h, <2>2, <3>1, <3>2, <3>3, <3>4 DEF BaseInv, KeysInv, OnLedger
  <2>3. ASSUME NEW c, c \notin Foreign, ledger' = [ledger EXCEPT ![c] = Params(c)]
        PROVE  \A d \in Foreign : ledger'[d] = ledger[d]
    BY <2>3, ListFacts DEF BaseInv, TypeInv
  <2>4. CASE AddChain
    <3> DEFINE c == ChainList[run.next]
    <3>1. CASE c \in Foreign /\ ContractOf(c) # None /\ ledger' = [ledger EXCEPT ![c] = Params(c)]
      BY <3>1, <2>2, <2>4
    <3>2. CASE c \notin Foreign /\ ledger' = [ledger EXCEPT ![c] = Params(c)]
      BY <3>2, <2>3, <1>h DEF BaseInv, KeysInv, OnLedger
    <3> QED BY <2>1, <2>4, <3>1, <3>2 DEF AddChain
  <2>5. AddChain \/ UNCHANGED ledger
    BY DEF Next, Step, Start, Dkg, Transfer, Persist, CreateMint, InitAsset, PersistAsset, SkipEvm,
           DeployEvm, FailEvm, DeploySui, Write, Crash, Wipe, vars, onChain
  <2> QED BY <2>1, <2>4, <2>5
<1> QED BY <1>r, <1>d, <1>k, <1>l DEF KeysInv, IsHanded
-----------------------------------------------------------------------------
(* What holds as long as no target has failed with a warning.                *)

QuietInv == ServedInv /\ BoundInv /\ KeptInv

\* Contracts stay as they were deployed, and assets are never removed.
LEMMA ContractsStep ==
  ASSUME BaseInv, [Next]_vars
  PROVE  /\ DOMAIN contracts \subseteq DOMAIN contracts'
         /\ \A k \in DOMAIN contracts : contracts'[k] = contracts[k]
         /\ assets \subseteq assets' /\ (DeployEvm \/ DeploySui \/ UNCHANGED contracts)
<1>1. CASE DeployEvm
  BY <1>1 DEF DeployEvm, With, BaseInv, TypeInv
<1>2. CASE DeploySui
  BY <1>2 DEF DeploySui, With, BaseInv, TypeInv
<1>3. CASE ~(DeployEvm \/ DeploySui)
  BY <1>3 DEF Next, Step, Start, Dkg, Transfer, Persist, CreateMint, InitAsset, PersistAsset, SkipEvm,
              FailEvm, AddChain, Write, Crash, Wipe, vars, onChain
<1> QED BY <1>1, <1>2, <1>3

\* Serves, after the step, for a contract and a chain named before it.
ServesNext(k, c) ==
  /\ k \in DOMAIN contracts'
  /\ contracts'[k].signer = devnet'.dwallets[CurveOf(c)]
  /\ contracts'[k].ledger = devnet'.asset /\ contracts'[k].chain = c

\* A deployment of this run serves its chain.
LEMMA NewServes ==
  ASSUME NEW c, NEW d, UNCHANGED devnet,
         contracts' = With(contracts, fresh + 1, Contract(c, devnet.dwallets[CurveOf(c)], d))
  PROVE  /\ ServesNext(fresh + 1, c) /\ contracts'[fresh + 1].domain = d
BY DEF ServesNext, With, Contract

LEMMA ServedStep ==
  ASSUME BaseInv, Quiet, QuietInv, [Next]_vars, warnings' = 0
  PROVE  ServedInv'
<1> USE DEF BaseInv, TypeInv, At, Early, Late, QuietInv
<1>w. \A k, c : UNCHANGED devnet /\ Serves(k, c) => ServesNext(k, c)
  BY ContractsStep DEF Serves, ServesNext
<1>i. run'.at \notin {"evm", "sui", "chains", "write"} => ServedInv'
  BY DEF ServedInv
\* A target that is passed is served.
<1>p. ASSUME At("evm"), NextTarget, UNCHANGED <<devnet, ledger>>, evm' \in [Evm -> Nat],
             \A k \in 1 .. run.next : ServesNext(evm'[EvmTargets[k]], EvmTargets[k])
      PROVE  ServedInv'
  <2>1. CASE run'.at = "evm" /\ run'.next = run.next + 1
    BY <1>p, <2>1 DEF ServedInv, Serves, ServesNext, RunInv, Runs
  <2>2. CASE run'.at = "sui" /\ run.next = Len(EvmTargets)
    BY <1>p, <2>2, ListFacts DEF ServedInv, Serves, ServesNext
  <2> QED BY <1>p, <2>1, <2>2, NextTargetEffect
<1>1. CASE \E flags \in FlagSets : Start(flags)
  BY <1>1, <1>i, StartEffect
<1>2. CASE Dkg
  BY <1>2, <1>i, DkgEffect
<1>3. CASE Transfer
  BY <1>3, <1>i, TransferEffect
<1>4. CASE Persist \/ CreateMint \/ InitAsset
  BY <1>4, <1>i, LateEffect
<1>7. CASE PersistAsset
  <2>1. run'.at = "evm" /\ run'.next = 1
    BY <1>7, LateEffect DEF Quiet, NoSkip, RunInv
  <2> QED BY <2>1 DEF ServedInv
<1>8. CASE SkipEvm
  <2> DEFINE c == EvmTargets[run.next]
  <2>1. At("evm") /\ Deployed(c) /\ NextTarget /\ UNCHANGED <<devnet, evm, contracts, ledger>> /\ c \in Evm
    BY <1>8, ListFacts DEF SkipEvm, files, onChain, RunInv, Runs
  <2>2. Serves(evm[c], c)
    BY <2>1, CurveFacts DEF Deployed, Serves, RecordsInv
  <2>3. \A k \in 1 .. run.next : Serves(evm[EvmTargets[k]], EvmTargets[k])
    BY <2>1, <2>2 DEF ServedInv, RunInv, Runs
  <2>4. \A k \in 1 .. run.next : ServesNext(evm'[EvmTargets[k]], EvmTargets[k])
    BY <2>1, <2>3 DEF Serves, ServesNext
  <2> QED BY <2>1, <2>4, <1>p
<1>9. CASE DeployEvm
  <2> DEFINE c == EvmTargets[run.next]
  <2>1. At("evm") /\ c \in Evm /\ UNCHANGED <<devnet, ledger>>
    BY <1>9, ListFacts DEF DeployEvm, RunInv, Runs
  <2>2. CASE run'.at = "idle"
    BY <2>2, <1>i
  <2>3. CASE NextTarget /\ evm' = [evm EXCEPT ![c] = fresh + 1]
    <3>1. ServesNext(fresh + 1, c)
      BY <1>9, <2>1, NewServes, CurveFacts DEF DeployEvm
    <3>2. ASSUME NEW k \in 1 .. run.next
          PROVE  ServesNext(evm'[EvmTargets[k]], EvmTargets[k])
      <4>1. CASE EvmTargets[k] = c
        BY <3>1, <4>1, <2>1, <2>3
      <4>2. CASE EvmTargets[k] # c
        <5>1. k \in 1 .. run.next - 1 /\ EvmTargets[k] \in Evm
          BY <4>2, <2>1, ListFacts DEF RunInv, Runs
        <5>2. evm'[EvmTargets[k]] = evm[EvmTargets[k]]
          BY <2>3, <4>2, <5>1
        <5>3. Serves(evm[EvmTargets[k]], EvmTargets[k])
          BY <2>1, <5>1 DEF ServedInv
        <5> QED BY <1>w, <2>1, <5>2, <5>3
      <4> QED BY <4>1, <4>2
    <3>3. evm' \in [Evm -> Nat]
      BY <2>1, <2>3
    <3> QED BY <1>p, <2>1, <2>3, <3>2, <3>3
  <2> QED BY <1>9, <2>2, <2>3, DeployEvmEffect DEF Quiet
<1>10. CASE FailEvm
  BY <1>10 DEF FailEvm, Warns, Quiet
<1>11. CASE DeploySui
  <2>1. CASE run'.at = "idle"
    BY <2>1, <1>i
  <2>2. CASE run'.at = "chains" /\ sui' = fresh + 1
    <3>1. UNCHANGED <<devnet, evm, ledger>> /\ At("sui")
          /\ contracts' = With(contracts, fresh + 1, Contract("sui", devnet.dwallets[CurveOf("sui")], SuiDomainNow))
      BY <1>11, CurveFacts DEF DeploySui
    <3>2. ServesNext(fresh + 1, "sui") /\ contracts'[fresh + 1].domain = SuiDomainNow
      BY <3>1, NewServes
    <3>3. \A c \in Evm : ServesNext(evm[c], c)
      BY <1>w, <3>1 DEF ServedInv
    <3> QED BY <2>2, <3>1, <3>2, <3>3 DEF ServedInv, Serves, ServesNext, SuiDomainNow, OnLedger
  <2> QED BY <1>11, <2>1, <2>2, DeploySuiEffect
<1>12. CASE AddChain
  <2>1. CASE run'.at = "idle"
    BY <2>1, <1>i
  <2>2. CASE run'.at \in {"chains", "write"}
    <3> DEFINE c == ChainList[run.next]
    <3>1. UNCHANGED <<devnet, evm, sui, contracts>> /\ At("chains")
      BY <1>12 DEF AddChain, files
    <3>2. ledger'["sui"] = ledger["sui"] \/ ledger'["sui"].domain = contracts[sui].domain
      <4>1. CASE ledger' = [ledger EXCEPT ![c] = Params(c)]
        BY <4>1, ListFacts DEF Params, ContractOf
      <4> QED BY <1>12, <4>1 DEF AddChain
    <3>3. /\ \A d \in Evm : Serves(evm[d], d) 
          /\ Serves(sui, "sui") /\ (OnLedger("sui") => contracts[sui].domain = ledger["sui"].domain)
      BY <3>1 DEF ServedInv
    <3>4. (\A d \in Evm : ServesNext(evm'[d], d)) /\ ServesNext(sui', "sui")
      BY <3>1, <3>3 DEF Serves, ServesNext
    <3>5. OnLedger("sui")' => contracts'[sui'].domain = ledger'["sui"].domain
      BY <3>1, <3>2, <3>3 DEF OnLedger
    <3> QED BY <2>2, <3>4, <3>5 DEF ServedInv, Serves, ServesNext
  <2> QED BY <1>12, <2>1, <2>2, AddChainEffect
<1>13. CASE Write \/ Crash
  BY <1>13, <1>i, NoRunEffect DEF Write, Crash, Dies
<1>15. CASE Wipe \/ UNCHANGED vars
  <2>1. UNCHANGED <<devnet, evm, sui, run, contracts, ledger>>
    BY <1>15 DEF Wipe, files, vars, onChain
  <2> QED BY <2>1 DEF ServedInv, Serves, OnLedger
<1> QED
  BY <1>1, <1>2, <1>3, <1>4, <1>7, <1>8, <1>9, <1>10, <1>11, <1>12, <1>13, <1>15 DEF Next, Step
\* What a registration puts on the ledger; only a registration changes it.
LEMMA LedgerStep ==
  ASSUME BaseInv, [Next]_vars
  PROVE  \/ UNCHANGED ledger
         \/ \E c \in Foreign :
              /\ AddChain /\ At("chains") /\ ContractOf(c) # None
              /\ \A d \in Foreign : ledger'[d] = IF d = c THEN Params(c) ELSE ledger[d]
         \/ AddChain /\ \A d \in Foreign : ledger'[d] = ledger[d]
<1>1. CASE AddChain
  <2> DEFINE c == ChainList[run.next]
  <2>1. CASE c \in Foreign /\ ContractOf(c) # None /\ ledger' = [ledger EXCEPT ![c] = Params(c)]
    <3>1. \A d \in Foreign : ledger'[d] = IF d = c THEN Params(c) ELSE ledger[d]
      BY <2>1, ListFacts DEF BaseInv, TypeInv
    <3> QED BY <1>1, <2>1, <3>1 DEF AddChain
  <2>2. CASE c \notin Foreign /\ ledger' = [ledger EXCEPT ![c] = Params(c)]
    BY <1>1, <2>2, ListFacts DEF BaseInv, TypeInv
  <2> QED BY <1>1, <2>1, <2>2 DEF AddChain
<1>2. CASE ~AddChain
  BY <1>2 DEF Next, Step, Start, Dkg, Transfer, Persist, CreateMint, InitAsset, PersistAsset, SkipEvm,
              DeployEvm, FailEvm, DeploySui, Write, Crash, Wipe, vars, onChain
<1> QED BY <1>1, <1>2

LEMMA BoundStep ==
  ASSUME BaseInv, Quiet, QuietInv, [Next]_vars
  PROVE  BoundInv'
<1> DEFINE Bound(c, entry) ==
      /\ entry.contract \in DOMAIN contracts'
      /\ contracts'[entry.contract].signer = entry.dwallet
      /\ contracts'[entry.contract].domain = entry.domain
      /\ contracts'[entry.contract].ledger \in assets' /\ contracts'[entry.contract].chain = c
<1>1. ASSUME NEW c \in Foreign, OnLedger(c)
      PROVE  Bound(c, ledger[c])
  <2>1. ledger[c].contract \in DOMAIN contracts
    BY <1>1 DEF QuietInv, BoundInv
  <2>2. contracts'[ledger[c].contract] = contracts[ledger[c].contract]
        /\ ledger[c].contract \in DOMAIN contracts'
    BY <2>1, ContractsStep
  <2>3. assets \subseteq assets'
    BY ContractsStep
  <2> QED BY <1>1, <2>2, <2>3 DEF QuietInv, BoundInv
<1>2. ASSUME NEW c \in Foreign, AddChain, At("chains")
      PROVE  Bound(c, Params(c))
  <2>1. Serves(ContractOf(c), c)
    BY <1>2 DEF QuietInv, ServedInv, ContractOf, Foreign, At
  <2>2. devnet.dwallets = run.dwallets /\ devnet.asset \in assets
    BY <1>2 DEF At, BaseInv, KeysInv, RunKeysInv, MintInv, RecordsInv, Late
  <2>3. UNCHANGED <<contracts, assets>>
    BY <1>2 DEF AddChain
  <2>4. /\ Params(c).contract = ContractOf(c) /\ Params(c).dwallet = run.dwallets[CurveOf(c)]
        /\ Params(c).domain = contracts[ContractOf(c)].domain
    BY DEF Params
  <2> QED BY <2>1, <2>2, <2>3, <2>4 DEF Serves
<1>3. \A c \in Foreign : OnLedger(c)' => Bound(c, ledger'[c])
  <2>1. CASE UNCHANGED ledger
    BY <2>1, <1>1 DEF OnLedger
  <2>2. ASSUME NEW c \in Foreign, AddChain, At("chains"),
               \A d \in Foreign : ledger'[d] = IF d = c THEN Params(c) ELSE ledger[d]
        PROVE  \A d \in Foreign : OnLedger(d)' => Bound(d, ledger'[d])
    BY <2>2, <1>1, <1>2 DEF OnLedger
  <2>3. CASE \A d \in Foreign : ledger'[d] = ledger[d]
    BY <2>3, <1>1 DEF OnLedger
  <2> QED BY <2>1, <2>2, <2>3, LedgerStep
<1> QED BY <1>3 DEF BoundInv

\* evm.json's record is replaced only for a contract that does not serve, so
\* never while the ledger's contract obeys the dWallet on file.
LEMMA RecordKept ==
  ASSUME BaseInv, QuietInv, [Next]_vars, NEW c \in Evm,
         OnLedger(c), ledger[c].dwallet = devnet.dwallets["secp256k1"]
  PROVE  evm'[c] = evm[c]
<1>1. CASE DeployEvm
  <2>1. evm[c] = ledger[c].contract /\ evm[c] # None
    BY DEF QuietInv, KeptInv, OnLedger
  <2>2. contracts[evm[c]].signer = devnet.dwallets["secp256k1"] /\ contracts[evm[c]].ledger \in assets
    BY <2>1, ListFacts DEF QuietInv, BoundInv
  <2>3. devnet.asset \in assets /\ assets = {mint}
    BY <1>1 DEF DeployEvm, At, BaseInv, MintInv, RecordsInv, Late
  <2>4. Deployed(c)
    BY <2>1, <2>2, <2>3 DEF Deployed
  <2>5. c # EvmTargets[run.next]
    BY <1>1, <2>4 DEF DeployEvm
  <2> QED BY <1>1, <2>5, DeployEvmEffect DEF BaseInv, TypeInv
<1>2. CASE ~DeployEvm
  BY <1>2 DEF Next, Step, Start, Dkg, Transfer, Persist, CreateMint, InitAsset, PersistAsset, SkipEvm,
              FailEvm, DeploySui, AddChain, Write, Crash, Wipe, vars, files
<1> QED BY <1>1, <1>2

\* The dWallets on file are replaced by those of a run, which are on the ledger
\* only if they were on file.
LEMMA FileKeysStep ==
  ASSUME BaseInv, QuietInv, [Next]_vars
  PROVE  \/ devnet'.dwallets = devnet.dwallets
         \/ Persist /\ \A v \in Curves, c \in Foreign : devnet'.dwallets[v] # ledger[c].dwallet
<1>1. CASE Persist
  <2>1. devnet'.dwallets = run.dwallets /\ At("persist")
    BY <1>1 DEF Persist, Persisted, BaseInv, TypeInv, Files
  <2>2. \A v \in Curves : run.dwallets[v] # None
    BY <2>1 DEF At, BaseInv, TypeInv, KeysInv, RunKeysInv, IsHanded, None
  <2> QED BY <1>1, <2>1, <2>2 DEF QuietInv, KeptInv, At, Early
<1>2. CASE PersistAsset \/ Write
  <2>1. devnet'.dwallets = run.dwallets
    <3>1. PersistAsset => devnet'.dwallets = run.dwallets
      BY DEF PersistAsset, BaseInv, TypeInv, Files
    <3>2. Write => devnet'.dwallets = run.dwallets
      BY DEF Write
    <3> QED BY <1>2, <3>1, <3>2
  <2>2. devnet.dwallets = run.dwallets
    BY <1>2 DEF PersistAsset, Write, At, Late, BaseInv, KeysInv, RunKeysInv
  <2> QED BY <2>1, <2>2
<1>3. CASE ~(Persist \/ PersistAsset \/ Write)
  BY <1>3 DEF Next, Step, Start, Dkg, Transfer, CreateMint, InitAsset, SkipEvm, DeployEvm, FailEvm,
              DeploySui, AddChain, Crash, Wipe, vars, files
<1> QED BY <1>1, <1>2, <1>3

LEMMA KeptStep ==
  ASSUME BaseInv, Quiet, QuietInv, [Next]_vars
  PROVE  KeptInv'
<1>1. \A c \in Evm : OnLedger(c)' /\ ledger'[c].dwallet = devnet'.dwallets["secp256k1"] =>
                     evm'[c] = ledger'[c].contract
  <2>1. ASSUME NEW c \in Evm, ledger'[c] = ledger[c], OnLedger(c)',
               ledger'[c].dwallet = devnet'.dwallets["secp256k1"]
        PROVE  evm'[c] = ledger'[c].contract
    <3>1. c \in Foreign /\ OnLedger(c)
      BY <2>1, ListFacts DEF OnLedger
    <3>2. devnet'.dwallets = devnet.dwallets
      BY <2>1, <3>1, FileKeysStep DEF Curves
    <3> QED BY <2>1, <3>1, <3>2, RecordKept DEF QuietInv, KeptInv
  <2>2. ASSUME NEW c \in Evm, AddChain, ledger'[c] = Params(c)
        PROVE  evm'[c] = ledger'[c].contract
    BY <2>2, ListFacts DEF AddChain, Params, ContractOf, files
  <2> QED BY <2>1, <2>2, LedgerStep, ListFacts
<1>2. ASSUME run'.at \in Early
      PROVE  /\ run'.at \in {"dkg", "transfer"} => "skip-dkg" \notin run'.flags
             /\ IF "skip-dkg" \in run'.flags THEN run'.dwallets = devnet'.dwallets
                ELSE \A v \in Curves, c \in Foreign :
                       run'.dwallets[v] # None => run'.dwallets[v] # ledger'[c].dwallet
  <2>1. ASSUME NEW flags \in FlagSets, Start(flags) PROVE <1>2!2
    <3>1. UNCHANGED <<devnet, ledger>>
      BY <2>1 DEF Start, files, onChain
    <3> QED BY <2>1, <3>1, StartEffect DEF BaseInv, NoDwallets
  <2>2. CASE Dkg
    <3>1. UNCHANGED <<devnet, ledger>> /\ At("dkg") /\ run'.flags = run.flags
      BY <2>2, DkgEffect DEF Dkg, files, BaseInv, TypeInv
    <3>2. "skip-dkg" \notin run.flags
      BY <3>1 DEF At, QuietInv, KeptInv
    <3>3. \A c \in Foreign : ledger[c].dwallet # fresh + 1
      BY DEF BaseInv, TypeInv, KeysInv, IsHanded, None
    <3>4. \A v \in Curves : run'.dwallets[v] \in {run.dwallets[v], fresh + 1}
      BY <2>2, DkgEffect DEF BaseInv, TypeInv, RunInv, Runs
    <3> QED BY <3>1, <3>2, <3>3, <3>4 DEF At, Early, QuietInv, KeptInv
  <2>3. CASE Transfer
    <3>1. UNCHANGED <<devnet, ledger>> /\ At("transfer") /\ SameRun
      BY <2>3, TransferEffect DEF Transfer, files, BaseInv, TypeInv
    <3> QED BY <3>1 DEF At, Early, QuietInv, KeptInv, SameRun
  <2>4. CASE UNCHANGED <<run, devnet, ledger>>
    BY <1>2, <2>4 DEF QuietInv, KeptInv
  <2>5. Wipe \/ UNCHANGED vars => UNCHANGED <<run, devnet, ledger>>
    BY DEF Wipe, vars, files, onChain
  <2>6. CASE Persist \/ CreateMint \/ InitAsset \/ PersistAsset
    BY <1>2, <2>6, LateEffect DEF BaseInv, TypeInv, Early
  <2>7. CASE SkipEvm
    BY <1>2, <2>7, NextTargetEffect DEF SkipEvm, BaseInv, TypeInv, Early
  <2>8. CASE DeployEvm
    BY <1>2, <2>8, DeployEvmEffect, NextTargetEffect DEF BaseInv, TypeInv, Early
  <2>9. CASE FailEvm
    BY <1>2, <2>9, NextTargetEffect DEF FailEvm, Warns, BaseInv, TypeInv, Early
  <2>10. CASE DeploySui
    BY <1>2, <2>10, DeploySuiEffect DEF BaseInv, TypeInv, Early
  <2>11. CASE AddChain
    BY <1>2, <2>11, AddChainEffect DEF BaseInv, TypeInv, Early
  <2>12. CASE Write \/ Crash
    BY <1>2, <2>12, NoRunEffect DEF Write, Crash, Dies, Early
  <2> QED
    BY <2>1, <2>2, <2>3, <2>4, <2>5, <2>6, <2>7, <2>8, <2>9, <2>10, <2>11, <2>12 DEF Next, Step
<1> QED BY <1>1, <1>2 DEF KeptInv, Early

-----------------------------------------------------------------------------
(* The invariant holds, and what follows from it.                            *)

LEMMA InitInv == Init => SetupInv
<1> SUFFICES ASSUME Init PROVE SetupInv
  OBVIOUS
<1> USE ListFacts, SetupAssumption DEF Init, NoRun, NoDwallets, None, At, Early, Late
<1>1. run \in Runs
  BY DEF Runs, Steps
<1>2. TypeInv
  BY <1>1 DEF TypeInv, RunInv, Files
<1>3. MintInv /\ RecordsInv
  BY DEF MintInv, RecordsInv
<1>4. \A c \in Foreign : ledger[c].dwallet = None /\ ledger[c].contract = None
  BY DEF NotRegistered
<1>5. KeysInv
  BY <1>4 DEF KeysInv, RunKeysInv, OnLedger
<1>6. ServedInv /\ BoundInv /\ KeptInv
  BY <1>4 DEF ServedInv, BoundInv, KeptInv, OnLedger
<1> QED BY <1>2, <1>3, <1>5, <1>6 DEF SetupInv, BaseInv

\* A warning is counted for good.
LEMMA WarningsStep == ASSUME BaseInv, [Next]_vars, warnings' = 0 PROVE warnings = 0
<1>1. warnings' = warnings \/ warnings' = warnings + 1
  BY DEF Next, Step, Start, Dkg, Transfer, Persist, CreateMint, InitAsset, PersistAsset, SkipEvm, DeployEvm,
         FailEvm, DeploySui, AddChain, Write, Crash, Wipe, Dies, Warns, vars, counters
<1> QED BY <1>1 DEF BaseInv, TypeInv

LEMMA StepInv == SetupInv /\ [Next]_vars => SetupInv'
<1> SUFFICES ASSUME SetupInv, [Next]_vars PROVE SetupInv'
  OBVIOUS
<1>1. BaseInv
  BY DEF SetupInv
<1>2. BaseInv'
  BY <1>1, TypeStep, MintStep, KeysStep, RecordsStep DEF BaseInv
<1>3. ASSUME NoSkip, warnings' = 0 PROVE ServedInv' /\ BoundInv' /\ KeptInv'
  <2>1. Quiet /\ QuietInv
    BY <1>1, <1>3, WarningsStep DEF Quiet, QuietInv, SetupInv
  <2> QED BY <1>1, <1>3, <2>1, ServedStep, BoundStep, KeptStep
<1> QED BY <1>2, <1>3 DEF SetupInv, Quiet

\* Wherever the runs are cut short, the invariant above holds.
THEOREM SetupInvHolds == Spec => []SetupInv
BY InitInv, StepInv, PTL DEF Spec

\* The one asset that is registered is the one whose PDA may mint, for any
\* flags, crashes, warnings and wipes.
THEOREM MintObeysTheAssetHolds == Spec => []MintObeysTheAsset
<1>1. SetupInv => MintObeysTheAsset
  BY DEF SetupInv, BaseInv, MintInv, MintObeysTheAsset
<1> QED BY <1>1, SetupInvHolds, PTL

LEMMA KeysHandedOverFromInv == SetupInv => KeysHandedOver
<1> SUFFICES ASSUME SetupInv, NEW w \in KeysInUse \ {None} PROVE dwallets[w] # "executor"
  BY DEF KeysHandedOver
<1>1. CASE \E c \in Foreign : w = ledger[c].dwallet
  BY <1>1 DEF SetupInv, BaseInv, KeysInv, IsHanded
<1>2. CASE \E k \in DOMAIN contracts : w = contracts[k].signer
  BY <1>2 DEF SetupInv, BaseInv, KeysInv, IsHanded
<1> QED BY <1>1, <1>2 DEF KeysInUse

\* No dWallet that the ledger registers or a contract obeys is still the
\* executor's, for any flags, crashes, warnings and wipes.
THEOREM KeysHandedOverHolds == Spec => []KeysHandedOver
BY KeysHandedOverFromInv, SetupInvHolds, PTL

\* A registered chain names a contract that obeys its dWallet, the asset and the
\* registered domain, for any runs that do not leave the contracts out.
THEOREM RegisteredIsBoundHolds == ASSUME NoSkip PROVE Spec => []RegisteredIsBound
<1>1. SetupInv => RegisteredIsBound
  BY KeysHandedOverFromInv DEF RegisteredIsBound, SetupInv, Quiet, BoundInv
<1> QED BY <1>1, SetupInvHolds, PTL

LEMMA WriteUsable ==
  ASSUME NoSkip, SetupInv, Write, wipes = 0, warnings = 0, NEW c \in Foreign,
         ledger[c].dwallet = run.dwallets[CurveOf(c)]
  PROVE  CanDeliver(c)
<1>1. BaseInv /\ ServedInv /\ BoundInv /\ KeptInv /\ run.at = "write"
  BY DEF SetupInv, Quiet, Write, At
<1>2. IsHanded(run.dwallets[CurveOf(c)]) /\ devnet.dwallets = run.dwallets
  BY <1>1, CurveFacts DEF BaseInv, KeysInv, RunKeysInv, Late
<1>3. dwallets[ledger[c].dwallet] = "ledger" /\ ledger[c].dwallet # None
  BY <1>1, <1>2 DEF IsHanded, BaseInv, TypeInv, None
<1>4. OnLedger(c)
  BY <1>1, <1>3 DEF BaseInv, KeysInv
<1>5. CASE c \in Evm
  <2>1. ContractOf(c) = ledger[c].contract
    BY <1>1, <1>2, <1>4, <1>5, ListFacts, CurveFacts DEF KeptInv, ContractOf
  <2> QED BY <1>1, <1>3, <1>4, <2>1 DEF CanDeliver, BoundInv, OnLedger
<1>6. CASE c = "sui"
  <2>1. ContractOf(c) = sui /\ Serves(sui, "sui") /\ contracts[sui].domain = ledger[c].domain
    BY <1>1, <1>4, <1>6 DEF ServedInv, ContractOf
  <2>2. sui # None
    BY <1>1, <2>1 DEF Serves, BaseInv, TypeInv, None
  <2> QED BY <1>2, <1>3, <1>4, <1>6, <2>1, <2>2 DEF CanDeliver, Serves
<1> QED BY <1>5, <1>6 DEF Foreign

\* A run that completes with the dWallet registered for a chain leaves that
\* chain's legs deliverable, whatever the runs before deployed and recorded.
THEOREM RunLeavesLedgerUsableHolds == ASSUME NoSkip PROVE Spec => RunLeavesLedgerUsable
<1>1. SetupInv => [Write /\ wipes = 0 /\ warnings = 0 =>
         \A c \in Foreign : ledger[c].dwallet = run.dwallets[CurveOf(c)] => CanDeliver(c)]_vars
  BY WriteUsable
<1> QED BY <1>1, SetupInvHolds, PTL DEF RunLeavesLedgerUsable
=============================================================================

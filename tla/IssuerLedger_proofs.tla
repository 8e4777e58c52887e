------------------------ MODULE IssuerLedger_proofs ------------------------
(***************************************************************************)
(* Proofs about the issuer ledger, for every set of keys, chains, accounts, *)
(* configurations and amounts, and every bound: its types and the gate of  *)
(* the policy; the life of an intent; what the ledger asks Ika to sign; the *)
(* book of supplies; the SDK's copy of the rules; the history of an intent; *)
(* the executor; and the accounts as bytes, with what the SDK reads there. *)
(***************************************************************************)
EXTENDS Executor, PolicyMirror, Activity, Accounts, FiniteSetTheorems, FunctionTheorems, SequenceTheorems, Shared_proofs, TLAPS

\* What the proofs use of the assumptions on the constants.
LEMMA ConstantFacts ==
  /\ IntentBound \in Nat /\ TimeBound \in Nat /\ I64Max \in Nat
  /\ U64Max \in Nat /\ U64 = 0 .. U64Max /\ 2 * IntentBound <= U64Max + 1
  /\ Amounts \subseteq U64
  /\ ChainIds \subseteq Nat \ {0} /\ NoChain \notin ChainIds
  /\ NoAccount \notin Accounts /\ NoKey \notin Keys
BY ConstantsAssumption DEF ConstantsAssumption, U64, U64Max, NoChain

LEMMA IndexFacts ==
  /\ \A i \in IntentIds : i \in Nat /\ i < IntentBound
  /\ \A i \in IntentIds, l \in LegIds : <<i, l>> \in Legs
BY ConstantFacts DEF IntentIds, Legs

-----------------------------------------------------------------------------
(* The inductive invariant.                                                  *)

Created(i) == status[i] # "None"

\* Intent accounts are created in index order, by an initialised asset, with
\* well-formed terms and the legs those terms have.
IntentInv ==
  \A i \in IntentIds :
    /\ Created(i) <=> i < intent_count
    /\ Created(i) => /\ Initialized
                     /\ terms[i] \in Terms /\ WellFormed(terms[i]) /\ terms[i].amount > 0
                     /\ \A l \in LegIds : leg_status[<<i, l>>] # "None" <=> HasLeg(terms[i].kind, l)
    /\ ~Created(i) => /\ approvals[i] = {} /\ approval_count[i] = 0
                      /\ \A l \in LegIds : leg_status[<<i, l>>] = "None"

\* A chain's supply is within its cap and, on Solana, is the supply of the mint.
ChainInv ==
  \A c \in ChainIds :
    /\ authorized[c] <= deployment[c].cap
    /\ treasury_balance[c] <= token_supply[c]
    /\ token_supply[c] = IF Registered(c) /\ deployment[c].leg_kind = "SolanaNative"
                         THEN authorized[c] ELSE GenesisSupply[c]

\* InitAsset lets through a non-empty approver list of bounded length.
ConfigInv == Initialized => Len(config.approvers) \in 1 .. MAX_APPROVERS

IInv == TypeOK /\ IntentInv /\ ChainInv /\ ConfigInv

-----------------------------------------------------------------------------
(* Types.                                                                    *)

LEMMA InitIInv == Init => IInv
<1> SUFFICES ASSUME Init PROVE IInv
  OBVIOUS
<1>1. U64 \subseteq Nat /\ 0 \in U64
  BY ConstantFacts
<1>2. TypeOK
  <2>1. deployment \in [ChainIds -> Deployment]
    BY <1>1 DEF Init, NoDeployment, Deployment, LegKinds
  <2>2. /\ config \in AssetConfigs \cup {NoConfig}
        /\ authorized_total \in U64 /\ chain_count \in 0 .. MAX_CHAINS /\ intent_count \in 0 .. IntentBound
        /\ authorized \in [ChainIds -> U64]
        /\ terms \in [IntentIds -> Terms \cup {NoTerms}]
        /\ status \in [IntentIds -> Statuses]
    BY <1>1, ConstantFacts DEF Init, Statuses, MAX_CHAINS
  <2>3. /\ approvals \in [IntentIds -> SUBSET (1 .. MAX_APPROVERS)]
        /\ approval_count \in [IntentIds -> Nat]
        /\ approved_at \in [IntentIds -> 0 .. TimeBound]
        /\ leg_status \in [Legs -> LegStatuses]
        /\ executed_at \in [Legs -> 0 .. TimeBound]
    BY ConstantFacts DEF Init, LegStatuses
  <2>4. /\ message_approvals \subseteq AuthorizationMessage
        /\ token_supply \in [ChainIds -> U64] /\ treasury_balance \in [ChainIds -> U64]
        /\ now \in 0 .. TimeBound
    BY ConstantFacts, ConfigAssumption DEF Init, ConfigAssumption
  <2> QED
    BY <2>1, <2>2, <2>3, <2>4 DEF TypeOK
<1>3. IntentInv
  <2> SUFFICES ASSUME NEW i \in IntentIds
               PROVE  /\ ~Created(i) /\ ~(i < intent_count)
                      /\ approvals[i] = {} /\ approval_count[i] = 0
                      /\ \A l \in LegIds : leg_status[<<i, l>>] = "None"
    BY DEF IntentInv
  <2>1. i \in Nat /\ \A l \in LegIds : <<i, l>> \in Legs
    BY IndexFacts
  <2> QED
    BY <2>1 DEF Init, Created
<1>4. ChainInv
  <2> SUFFICES ASSUME NEW c \in ChainIds
               PROVE  /\ authorized[c] = 0 /\ deployment[c] = NoDeployment /\ NoDeployment.cap = 0
                      /\ treasury_balance[c] \in Nat /\ token_supply[c] = treasury_balance[c]
                      /\ token_supply[c] = GenesisSupply[c]
    BY DEF ChainInv, Registered
  <2>1. GenesisSupply[c] \in Nat
    BY <1>1, ConfigAssumption DEF ConfigAssumption
  <2>2. NoDeployment.cap = 0
    BY DEF NoDeployment
  <2> QED
    BY <2>1, <2>2 DEF Init
<1>5. ConfigInv
  BY DEF Init, ConfigInv, Initialized
<1> QED
  BY <1>2, <1>3, <1>4, <1>5 DEF IInv

LEMMA InitAssetIInv ==
  ASSUME NEW cfg \in AssetConfigs, IInv, InitAsset(cfg)
  PROVE  IInv'
<1> USE DEF InitAsset, chainVars, intentVars, legVars, tokenVars
<1>1. TypeOK'
  BY DEF IInv, TypeOK
<1>2. IntentInv'
  <2> SUFFICES ASSUME NEW i \in IntentIds
               PROVE  ~Created(i)
    BY DEF IInv, IntentInv, Created, WellFormed
  <2> QED
    BY DEF IInv, IntentInv
<1>3. ChainInv'
  BY DEF IInv, ChainInv, Registered
<1>4. ConfigInv'
  BY DEF ConfigInv
<1> QED
  BY <1>1, <1>2, <1>3, <1>4 DEF IInv

LEMMA AddChainIInv ==
  ASSUME NEW s \in Keys, NEW c \in ChainIds, NEW k \in ChainConfigs[c], IInv, AddChain(s, c, k)
  PROVE  IInv'
<1> USE DEF AddChain, intentVars, legVars, tokenVars
<1>1. k \in Deployment /\ k # NoDeployment /\ k.authorized = GenesisSupply[c]
  BY ConfigAssumption DEF ConfigAssumption
<1>2. k.authorized \in U64 /\ k.cap \in U64
  BY <1>1 DEF Deployment
<1>3. TypeOK'
  <2>1. config.global_cap \in U64
    BY ConfigAssumption, ConstantFacts DEF ConfigAssumption, IInv, TypeOK, AssetConfig, Initialized
  <2>2. authorized_total' \in U64
    BY <1>2, <2>1, ConstantFacts DEF IInv, TypeOK, SeedFits
  <2>3. chain_count' \in 0 .. MAX_CHAINS
    BY DEF IInv, TypeOK, MAX_CHAINS
  <2>4. deployment' \in [ChainIds -> Deployment] /\ authorized' \in [ChainIds -> U64]
    BY <1>1, <1>2 DEF IInv, TypeOK
  <2> QED
    BY <2>2, <2>3, <2>4 DEF IInv, TypeOK
<1>4. IntentInv'
  BY DEF IInv, IntentInv, Created, WellFormed, Initialized
<1>5. ChainInv'
  <2> SUFFICES ASSUME NEW d \in ChainIds
               PROVE  /\ authorized'[d] <= deployment'[d].cap
                      /\ treasury_balance[d] <= token_supply[d]
                      /\ token_supply[d] =
                           IF deployment'[d] # NoDeployment /\ deployment'[d].leg_kind = "SolanaNative"
                           THEN authorized'[d] ELSE GenesisSupply[d]
    BY DEF ChainInv, Registered
  <2>1. CASE d = c
    BY <1>1, <1>2, <2>1 DEF IInv, TypeOK, ChainInv, Registered
  <2>2. CASE d # c
    BY <2>2 DEF IInv, TypeOK, ChainInv, Registered
  <2> QED
    BY <2>1, <2>2
<1> QED
  BY <1>3, <1>4, <1>5 DEF IInv, ConfigInv, Initialized

LEMMA CreateIntentIInv ==
  ASSUME NEW t \in Proposals, IInv, CreateIntent(t)
  PROVE  IInv'
<1> USE DEF CreateIntent, MayCreate, chainVars, tokenVars
<1> DEFINE i == intent_count
<1>1. t \in Terms /\ WellFormed(t)
  BY ConstantFacts DEF Proposals, Terms
<1>2. i \in IntentIds /\ i \in Nat /\ i < IntentBound
  BY ConstantFacts DEF IInv, TypeOK, IntentIds
<1>3. TypeOK'
  <2>1. intent_count' \in 0 .. IntentBound
    BY <1>2, ConstantFacts
  <2>2. /\ terms' \in [IntentIds -> Terms \cup {NoTerms}]
        /\ status' \in [IntentIds -> Statuses]
    BY <1>1, <1>2 DEF IInv, TypeOK, Statuses
  <2>3. leg_status' \in [Legs -> LegStatuses]
    BY DEF IInv, TypeOK, LegStatuses
  <2> QED
    BY <2>1, <2>2, <2>3 DEF IInv, TypeOK
<1>4. IntentInv'
  <2> SUFFICES ASSUME NEW j \in IntentIds
               PROVE  /\ status'[j] # "None" <=> j < intent_count'
                      /\ status'[j] # "None" =>
                           /\ Initialized /\ terms'[j] \in Terms /\ WellFormed(terms'[j])
                           /\ terms'[j].amount > 0
                           /\ \A l \in LegIds :
                                leg_status'[<<j, l>>] # "None" <=> HasLeg(terms'[j].kind, l)
                      /\ status'[j] = "None" => /\ approvals[j] = {} /\ approval_count[j] = 0
                                               /\ \A l \in LegIds : leg_status'[<<j, l>>] = "None"
    BY DEF IntentInv, Created, Initialized, WellFormed
  <2>1. j \in Nat /\ \A l \in LegIds : <<j, l>> \in Legs
    BY IndexFacts
  <2>2. CASE j = i
    BY <1>1, <1>2, <2>1, <2>2 DEF IInv, TypeOK
  <2>3. CASE j # i
    BY <1>2, <2>1, <2>3 DEF IInv, TypeOK, IntentInv, Created
  <2> QED
    BY <2>2, <2>3
<1>5. ChainInv'
  BY DEF IInv, ChainInv, Registered
<1> QED
  BY <1>3, <1>4, <1>5 DEF IInv, ConfigInv, Initialized

\* Of the positions of a key, ApproverIndex picks the first.
LEMMA ApproverIndexFacts ==
  ASSUME NEW key, IInv, Initialized, IsApprover(key)
  PROVE  /\ ApproverIndex(key) \in 1 .. Len(config.approvers)
         /\ ApproverIndex(key) \in 1 .. MAX_APPROVERS
         /\ config.approvers[ApproverIndex(key)] = key
<1>1. Len(config.approvers) \in 1 .. 5
  BY DEF IInv, ConfigInv, MAX_APPROVERS
<1>2. Positions(key) \subseteq 1 .. 5 /\ Positions(key) # {}
  BY <1>1 DEF IsApprover, Positions
<1>3. \E n \in Positions(key) : \A m \in Positions(key) : n <= m
  <2> HIDE DEF Positions
  <2>1. \/ 1 \in Positions(key) \/ 2 \in Positions(key) \/ 3 \in Positions(key)
        \/ 4 \in Positions(key) \/ 5 \in Positions(key)
    BY <1>2
  <2> QED
    BY <1>2, <2>1
<1>4. ApproverIndex(key) \in Positions(key)
  BY <1>3 DEF ApproverIndex
<1> QED
  BY <1>1, <1>4 DEF Positions, MAX_APPROVERS

\* An approval touches only the intent's own approvals and status.
LEMMA ApproveIntentIInv ==
  ASSUME NEW key \in Keys, NEW i \in IntentIds, IInv, ApproveIntent(key, i)
  PROVE  IInv'
<1> USE DEF ApproveIntent, assetVars, chainVars, legVars, tokenVars
<1>1. ApproverIndex(key) \in 1 .. MAX_APPROVERS
  <2>1. Initialized
    BY DEF IInv, IntentInv, Created
  <2> QED
    BY <2>1, ApproverIndexFacts DEF MayApprove
<1>2. TypeOK'
  <2>1. approvals' \in [IntentIds -> SUBSET (1 .. MAX_APPROVERS)]
    BY <1>1 DEF IInv, TypeOK
  <2>2. approval_count' \in [IntentIds -> Nat] /\ approved_at' \in [IntentIds -> 0 .. TimeBound]
    BY DEF IInv, TypeOK
  <2>3. status' \in [IntentIds -> Statuses]
    BY DEF IInv, TypeOK, Statuses
  <2> QED
    BY <2>1, <2>2, <2>3 DEF IInv, TypeOK
<1>3. IntentInv'
  <2> SUFFICES ASSUME NEW j \in IntentIds
               PROVE  /\ status'[j] # "None" <=> status[j] # "None"
                      /\ status[j] = "None" => approvals'[j] = {} /\ approval_count'[j] = 0
    BY DEF IInv, IntentInv, Created, Initialized, WellFormed
  <2> QED
    BY DEF IInv, TypeOK, IntentInv, Created
<1>4. ChainInv'
  BY DEF IInv, ChainInv, Registered
<1> QED
  BY <1>2, <1>3, <1>4 DEF IInv, ConfigInv, Initialized

\* What is known of a leg that may be executed.
LEMMA LegFacts ==
  ASSUME NEW i \in IntentIds, NEW l \in LegIds, IInv, LegReady(i, l)
  PROVE  /\ Created(i) /\ terms[i] \in Terms /\ HasLeg(terms[i].kind, l)
         /\ terms[i].amount \in U64 /\ terms[i].amount \in Nat /\ terms[i].amount > 0
         /\ LegChain(terms[i], l) \in ChainIds
         /\ LegAccount(terms[i], l) \in Accounts
         /\ leg_status[<<i, l>>] = "Pending"
<1> DEFINE t == terms[i]
<1>1. Created(i) /\ HasLeg(t.kind, l) /\ leg_status[<<i, l>>] = "Pending"
  BY DEF LegReady, Created
<1>2. t \in Terms /\ WellFormed(t) /\ t.amount > 0
  BY <1>1 DEF IInv, IntentInv
<1>3. /\ t.kind \in {"Mint", "Burn", "Move"} /\ t.amount \in U64
      /\ t.src_chain \in ChainIds \cup {NoChain} /\ t.dst_chain \in ChainIds \cup {NoChain}
      /\ t.recipient \in Accounts \cup {NoAccount} /\ t.source \in Accounts \cup {NoAccount}
  BY <1>2 DEF Terms, Kinds
<1>4. CASE LegAction(t, l) = "mint"
  BY <1>1, <1>2, <1>3, <1>4, ConstantFacts
  DEF LegAction, LegChain, LegAccount, WellFormed
<1>5. CASE LegAction(t, l) # "mint"
  BY <1>1, <1>2, <1>3, <1>5, ConstantFacts
  DEF LegAction, LegChain, LegAccount, WellFormed, HasLeg, LegIds
<1> QED
  BY <1>4, <1>5

\* The supply rules keep the book in range and under the chain's cap.
LEMMA SupplyFacts ==
  ASSUME NEW i \in IntentIds, NEW l \in LegIds, IInv, LegReady(i, l), SupplyRules(terms[i], l)
  PROVE  /\ NewAuthorized(terms[i], l) \in U64
         /\ NewAuthorized(terms[i], l) <= deployment[LegChain(terms[i], l)].cap
         /\ NewTotal(terms[i], l) \in U64
<1> DEFINE t == terms[i]
           c == LegChain(terms[i], l)
<1>1. c \in ChainIds /\ t.amount \in Nat /\ t.kind \in {"Mint", "Burn", "Move"}
  BY LegFacts DEF Terms, Kinds
<1>2. /\ authorized[c] \in 0 .. U64Max /\ authorized[c] <= deployment[c].cap
      /\ deployment[c].cap \in 0 .. U64Max /\ authorized_total \in 0 .. U64Max
  BY <1>1, ConstantFacts DEF IInv, TypeOK, ChainInv, Deployment
<1>3. config.global_cap \in 0 .. U64Max
  <2>1. config \in AssetConfigs
    BY LegFacts DEF IInv, IntentInv, TypeOK, Initialized
  <2> QED
    BY <2>1, ConfigAssumption, ConstantFacts DEF ConfigAssumption, AssetConfig
<1>4. NewAuthorized(t, l) \in U64 /\ NewAuthorized(t, l) <= deployment[c].cap
  <2>1. CASE LegAction(t, l) = "mint"
    <3>1. authorized[c] + t.amount <= deployment[c].cap /\ NewAuthorized(t, l) = authorized[c] + t.amount
      BY <2>1 DEF SupplyRules, NewAuthorized
    <3> QED
      BY <1>1, <1>2, <3>1, ConstantFacts
  <2>2. CASE LegAction(t, l) # "mint"
    <3>1. t.amount <= authorized[c] /\ NewAuthorized(t, l) = authorized[c] - t.amount
      BY <2>2 DEF SupplyRules, NewAuthorized
    <3> QED
      BY <1>1, <1>2, <3>1, ConstantFacts
  <2> QED
    BY <2>1, <2>2
<1>5. NewTotal(t, l) \in U64
  <2>1. CASE t.kind = "Mint"
    <3>1. authorized_total + t.amount <= config.global_cap /\ NewTotal(t, l) = authorized_total + t.amount
      BY <2>1 DEF SupplyRules, NewTotal, LegAction
    <3> QED
      BY <1>1, <1>2, <1>3, <3>1, ConstantFacts
  <2>2. CASE t.kind = "Burn"
    <3>1. t.amount <= authorized_total /\ NewTotal(t, l) = authorized_total - t.amount
      BY <2>2 DEF SupplyRules, NewTotal, LegAction
    <3> QED
      BY <1>1, <1>2, <3>1, ConstantFacts
  <2>3. CASE t.kind = "Move"
    BY <1>2, <2>3, ConstantFacts DEF NewTotal
  <2> QED
    BY <1>1, <2>1, <2>2, <2>3
<1> QED
  BY <1>4, <1>5
\* What the write-back of an executed leg keeps, whatever the tokens do.
LEMMA WriteBackFacts ==
  ASSUME NEW i \in IntentIds, NEW l \in LegIds, NEW s \in {"Authorized", "Confirmed"},
         IInv, LegReady(i, l), SupplyRules(terms[i], l), WriteBack(i, l, s)
  PROVE  /\ leg_status' \in [Legs -> LegStatuses] /\ executed_at' \in [Legs -> 0 .. TimeBound]
         /\ status' \in [IntentIds -> Statuses]
         /\ authorized' \in [ChainIds -> U64] /\ authorized_total' \in U64
         /\ IntentInv'
<1> USE DEF WriteBack
<1>1. leg_status' \in [Legs -> LegStatuses] /\ executed_at' \in [Legs -> 0 .. TimeBound]
  BY DEF IInv, TypeOK, LegStatuses
<1>2. status' \in [IntentIds -> Statuses]
  BY DEF IInv, TypeOK, Statuses
<1>3. authorized' \in [ChainIds -> U64] /\ authorized_total' \in U64
  BY SupplyFacts DEF IInv, TypeOK
<1>4. IntentInv'
  <2> SUFFICES ASSUME NEW j \in IntentIds
               PROVE  /\ status'[j] # "None" <=> status[j] # "None"
                      /\ \A m \in LegIds : leg_status'[<<j, m>>] # "None" <=> leg_status[<<j, m>>] # "None"
    BY DEF IInv, IntentInv, Created, Initialized, WellFormed
  <2>1. status'[j] # "None" <=> status[j] # "None"
    BY LegFacts DEF IInv, TypeOK, Created
  <2>2. ASSUME NEW m \in LegIds
        PROVE  leg_status'[<<j, m>>] # "None" <=> leg_status[<<j, m>>] # "None"
    BY LegFacts, IndexFacts DEF IInv, TypeOK
  <2> QED
    BY <2>1, <2>2
<1> QED
  BY <1>1, <1>2, <1>3, <1>4

\* The CPI and the book entry of a native leg move by the same amount.
LEMMA ExecuteNativeLegIInv ==
  ASSUME NEW signer \in Keys, NEW i \in IntentIds, NEW l \in LegIds,
         IInv, ExecuteNativeLeg(signer, i, l)
  PROVE  IInv'
<1> DEFINE t == terms[i]
           c == LegChain(terms[i], l)
<1>1. LegReady(i, l) /\ SupplyRules(t, l) /\ WriteBack(i, l, "Confirmed")
  BY DEF ExecuteNativeLeg
<1>2. /\ c \in ChainIds /\ t.amount \in Nat /\ t.amount > 0
      /\ NewAuthorized(t, l) \in U64 /\ NewAuthorized(t, l) <= deployment[c].cap
  BY <1>1, LegFacts, SupplyFacts
<1>3. /\ authorized[c] \in Nat /\ authorized[c] <= deployment[c].cap
      /\ treasury_balance[c] \in Nat /\ treasury_balance[c] <= token_supply[c]
  <2>1. authorized[c] \in U64 /\ treasury_balance[c] \in U64
    BY <1>2 DEF IInv, TypeOK
  <2>2. authorized[c] <= deployment[c].cap /\ treasury_balance[c] <= token_supply[c]
    BY <1>2 DEF IInv, ChainInv
  <2> QED
    BY <2>1, <2>2, ConstantFacts
<1>4. Registered(c) /\ deployment[c].leg_kind = "SolanaNative" /\ token_supply[c] = authorized[c]
  <2>1. NoDeployment.cap = 0
    BY DEF NoDeployment
  <2>2. Registered(c)
    BY <1>1, <1>2, <1>3, <2>1 DEF SupplyRules, Registered
  <2> QED
    BY <1>2, <2>2 DEF ExecuteNativeLeg, IInv, ChainInv
<1>5. /\ authorized' = [authorized EXCEPT ![c] = NewAuthorized(t, l)]
      /\ UNCHANGED <<config, chain_count, intent_count, deployment, terms, approvals,
                     approval_count, approved_at, now, message_approvals>>
  BY <1>1 DEF WriteBack, ExecuteNativeLeg
<1>6. \E b \in Nat : /\ token_supply' = [token_supply EXCEPT ![c] = NewAuthorized(t, l)]
                     /\ treasury_balance' = [treasury_balance EXCEPT ![c] = b]
                     /\ b <= NewAuthorized(t, l)
  <2>1. CASE LegAction(t, l) = "mint"
    <3>1. token_supply' = [token_supply EXCEPT ![c] = authorized[c] + t.amount]
      BY <2>1, <1>4 DEF ExecuteNativeLeg
    <3>2. treasury_balance' = [treasury_balance EXCEPT ![c] =
            IF t.recipient = Treasury THEN treasury_balance[c] + t.amount ELSE treasury_balance[c]]
      BY <2>1 DEF ExecuteNativeLeg
    <3>3. NewAuthorized(t, l) = authorized[c] + t.amount
      BY <2>1 DEF NewAuthorized
    <3>4. CASE t.recipient = Treasury
      <4>1. treasury_balance[c] + t.amount \in Nat /\ treasury_balance[c] + t.amount <= NewAuthorized(t, l)
        BY <1>2, <1>3, <1>4, <3>3
      <4> QED
        BY <3>1, <3>2, <3>3, <3>4, <4>1
    <3>5. CASE t.recipient # Treasury
      <4>1. treasury_balance[c] <= NewAuthorized(t, l)
        BY <1>2, <1>3, <1>4, <3>3
      <4> QED
        BY <1>3, <3>1, <3>2, <3>3, <3>5, <4>1
    <3> QED
      BY <3>4, <3>5
  <2>2. CASE LegAction(t, l) # "mint"
    <3>1. /\ token_supply' = [token_supply EXCEPT ![c] = authorized[c] - t.amount]
          /\ treasury_balance' = [treasury_balance EXCEPT ![c] = treasury_balance[c] - t.amount]
          /\ t.amount <= treasury_balance[c]
      BY <2>2, <1>4 DEF ExecuteNativeLeg
    <3>2. NewAuthorized(t, l) = authorized[c] - t.amount
      BY <2>2 DEF NewAuthorized
    <3>3. /\ treasury_balance[c] - t.amount \in Nat
          /\ treasury_balance[c] - t.amount <= NewAuthorized(t, l)
      BY <1>2, <1>3, <1>4, <3>1, <3>2
    <3> QED
      BY <3>1, <3>2, <3>3
  <2> QED
    BY <2>1, <2>2
<1>7. TypeOK'
  <2>1. token_supply' \in [ChainIds -> U64] /\ treasury_balance' \in [ChainIds -> U64]
    BY <1>2, <1>6, ConstantFacts DEF IInv, TypeOK
  <2> QED
    BY <1>1, <1>5, <2>1, WriteBackFacts DEF IInv, TypeOK
<1>8. IntentInv'
  BY <1>1, WriteBackFacts
<1>9. ChainInv'
  <2> SUFFICES ASSUME NEW d \in ChainIds
               PROVE  /\ authorized'[d] <= deployment[d].cap
                      /\ treasury_balance'[d] <= token_supply'[d]
                      /\ token_supply'[d] =
                           IF Registered(d) /\ deployment[d].leg_kind = "SolanaNative"
                           THEN authorized'[d] ELSE GenesisSupply[d]
    BY <1>5 DEF ChainInv, Registered
  <2>1. CASE d = c
    BY <1>2, <1>4, <1>5, <1>6, <2>1 DEF IInv, TypeOK
  <2>2. CASE d # c
    BY <1>5, <1>6, <2>2 DEF IInv, TypeOK, ChainInv
  <2> QED
    BY <2>1, <2>2
<1> QED
  BY <1>5, <1>7, <1>8, <1>9 DEF IInv, ConfigInv, Initialized

LEMMA ExecuteForeignLegIInv ==
  ASSUME NEW signer \in Keys, NEW i \in IntentIds, NEW l \in LegIds,
         IInv, ExecuteForeignLeg(signer, i, l)
  PROVE  IInv'
<1> DEFINE t == terms[i]
           c == LegChain(terms[i], l)
<1>1. LegReady(i, l) /\ SupplyRules(t, l) /\ WriteBack(i, l, "Authorized")
  BY DEF ExecuteForeignLeg
<1>2. /\ c \in ChainIds /\ NewAuthorized(t, l) \in U64
      /\ NewAuthorized(t, l) <= deployment[c].cap
      /\ deployment[c].leg_kind = "IkaForeign"
  BY <1>1, LegFacts, SupplyFacts DEF ExecuteForeignLeg
<1>3. /\ authorized' = [authorized EXCEPT ![c] = NewAuthorized(t, l)]
      /\ UNCHANGED <<config, chain_count, intent_count, deployment, terms, approvals,
                     approval_count, approved_at, now, token_supply, treasury_balance>>
      /\ message_approvals' = message_approvals \cup {Authorization(i, l)}
  BY <1>1 DEF WriteBack, ExecuteForeignLeg, tokenVars
<1>4. Authorization(i, l) \in AuthorizationMessage
  <2>1. t.amount \in U64 /\ LegAccount(t, l) \in Accounts
    BY <1>1, LegFacts
  <2>2. LegAction(t, l) \in {"mint", "burn"}
    BY DEF LegAction
  <2>3. LegNonce(i, l) \in U64
    BY ConstantFacts, IndexFacts DEF LegNonce, LegIds
  <2> QED
    BY <1>2, <2>1, <2>2, <2>3 DEF Authorization, AuthorizationMessage
<1>5. TypeOK'
  BY <1>1, <1>3, <1>4, WriteBackFacts DEF IInv, TypeOK
<1>6. IntentInv'
  BY <1>1, WriteBackFacts
<1>7. ChainInv'
  BY <1>2, <1>3 DEF IInv, TypeOK, ChainInv, Registered
<1> QED
  BY <1>3, <1>5, <1>6, <1>7 DEF IInv, ConfigInv, Initialized

LEMMA ConfirmLegIInv ==
  ASSUME NEW signer \in Keys, NEW i \in IntentIds, NEW l \in LegIds,
         IInv, ConfirmLeg(signer, i, l)
  PROVE  IInv'
<1> USE DEF ConfirmLeg, assetVars, chainVars, tokenVars
<1>1. Created(i)
  BY DEF IInv, IntentInv
<1>2. TypeOK'
  BY DEF IInv, TypeOK, LegStatuses, Statuses
<1>3. IntentInv'
  <2> SUFFICES ASSUME NEW j \in IntentIds
               PROVE  /\ status'[j] # "None" <=> status[j] # "None"
                      /\ \A m \in LegIds : leg_status'[<<j, m>>] # "None" <=> leg_status[<<j, m>>] # "None"
    BY DEF IInv, IntentInv, Created, Initialized, WellFormed
  <2>1. status'[j] # "None" <=> status[j] # "None"
    BY <1>1 DEF IInv, TypeOK, Created
  <2>2. ASSUME NEW m \in LegIds
        PROVE  leg_status'[<<j, m>>] # "None" <=> leg_status[<<j, m>>] # "None"
    BY IndexFacts DEF IInv, TypeOK
  <2> QED
    BY <2>1, <2>2
<1>4. ChainInv'
  BY DEF IInv, ChainInv, Registered
<1> QED
  BY <1>2, <1>3, <1>4 DEF IInv, ConfigInv, Initialized

LEMMA TickIInv == IInv /\ Tick => IInv'
<1> SUFFICES ASSUME IInv, Tick PROVE IInv'
  OBVIOUS
<1> USE DEF Tick, ledgerVars, assetVars, chainVars, intentVars, legVars, tokenVars
<1>1. TypeOK'
  BY ConstantFacts DEF IInv, TypeOK
<1> QED
  BY <1>1 DEF IInv, IntentInv, ChainInv, ConfigInv, Created, Initialized, Registered, WellFormed

LEMMA HolderReturnsIInv ==
  ASSUME NEW c \in ChainIds, NEW x \in Amounts, IInv, HolderReturns(c, x)
  PROVE  IInv'
<1> USE DEF HolderReturns, ledgerVars, assetVars, chainVars, intentVars, legVars
<1>1. treasury_balance' \in [ChainIds -> U64]
  BY ConstantFacts DEF IInv, TypeOK
<1>2. ChainInv'
  BY DEF IInv, TypeOK, ChainInv, Registered
<1> QED
  BY <1>1, <1>2 DEF IInv, TypeOK, IntentInv, ConfigInv, Created, Initialized, WellFormed

LEMMA StutterIInv == IInv /\ UNCHANGED vars => IInv'
BY DEF IInv, TypeOK, IntentInv, ChainInv, ConfigInv, Created, Initialized, Registered, WellFormed,
       vars, ledgerVars, assetVars, chainVars, intentVars, legVars, tokenVars

LEMMA NextIInv == IInv /\ [Next]_vars => IInv'
BY InitAssetIInv, AddChainIInv, CreateIntentIInv, ApproveIntentIInv, ExecuteNativeLegIInv,
   ExecuteForeignLegIInv, ConfirmLegIInv, TickIInv, HolderReturnsIInv, StutterIInv DEF Next

LEMMA SpecIInv == Spec => []IInv
BY InitIInv, NextIInv, PTL DEF Spec

\* Every account and counter keeps to its layout: the checks of the program
\* leave no u64 to overflow, with any supply, any caps and any amounts.
THEOREM TypeCorrect == Spec => []TypeOK
BY SpecIInv, PTL DEF IInv

\* The Solana mint and its book never part, whatever the intents and whoever
\* executes them.
THEOREM NativeParityHolds == Spec => []NativeParity
<1>1. IInv => NativeParity
  BY DEF IInv, ChainInv, NativeParity
<1> QED
  BY <1>1, SpecIInv, PTL
-----------------------------------------------------------------------------
(* The policy gate.                                                          *)

\* The positions in the bitmap are positions of approvers other than the
\* proposer, each the first position of its key, so that counting positions
\* counts people; approval_count is that count; and only an intent that met
\* the threshold leaves PendingApproval or has an executed leg.
BitmapInv(i) ==
  \A n \in approvals[i] :
    /\ n \in 1 .. Len(config.approvers)
    /\ ApproverIndex(config.approvers[n]) = n
    /\ config.approvers[n] # terms[i].proposer
CountInv(i) ==
  /\ approval_count[i] = Cardinality(approvals[i])
  /\ status[i] \notin {"None", "PendingApproval"} => approval_count[i] >= config.threshold
LegsInv(i) ==
  \A l \in LegIds : Executed(i, l) => status[i] \notin {"None", "PendingApproval"}
PolicyInv == \A i \in IntentIds : BitmapInv(i) /\ CountInv(i) /\ LegsInv(i)

\* Steps that leave approvals, terms and the approver list alone cannot disturb
\* the bitmap.
LEMMA BitmapStable ==
  ASSUME NEW i \in IntentIds, BitmapInv(i),
         config' = config, approvals'[i] = approvals[i], terms'[i] = terms[i]
  PROVE  BitmapInv(i)'
BY DEF BitmapInv, ApproverIndex, Positions

LEMMA BitmapFinite ==
  ASSUME NEW i \in IntentIds, IInv
  PROVE  IsFiniteSet(approvals[i])
<1>1. approvals[i] \in SUBSET (1 .. MAX_APPROVERS)
  BY DEF IInv, TypeOK
<1>2. 1 \in Int /\ MAX_APPROVERS \in Int
  BY DEF MAX_APPROVERS
<1>3. IsFiniteSet(1 .. MAX_APPROVERS)
  BY <1>2, FS_Interval
<1> QED
  BY <1>1, <1>3, FS_Subset

LEMMA InitPolicyInv == Init => PolicyInv
<1> SUFFICES ASSUME Init, NEW i \in IntentIds
             PROVE  BitmapInv(i) /\ CountInv(i) /\ LegsInv(i)
  BY DEF PolicyInv
<1>1. approvals[i] = {} /\ approval_count[i] = 0 /\ status[i] = "None"
  BY DEF Init
<1>2. \A l \in LegIds : leg_status[<<i, l>>] = "None"
  BY IndexFacts DEF Init
<1>3. BitmapInv(i)
  BY <1>1 DEF BitmapInv
<1>4. CountInv(i)
  BY <1>1, FS_EmptySet DEF CountInv
<1>5. LegsInv(i)
  BY <1>2 DEF LegsInv, Executed
<1> QED
  BY <1>3, <1>4, <1>5

LEMMA InitAssetPolicyInv ==
  ASSUME NEW cfg \in AssetConfigs, IInv, PolicyInv, InitAsset(cfg)
  PROVE  PolicyInv'
<1> SUFFICES ASSUME NEW i \in IntentIds
             PROVE  BitmapInv(i)' /\ CountInv(i)' /\ LegsInv(i)'
  BY DEF PolicyInv
<1> USE DEF InitAsset, intentVars, legVars
<1>1. ~Created(i) /\ approvals[i] = {}
  BY DEF IInv, IntentInv
<1>2. BitmapInv(i)'
  BY <1>1 DEF BitmapInv
<1>3. CountInv(i)'
  BY <1>1 DEF PolicyInv, CountInv, Created
<1>4. LegsInv(i)'
  BY DEF PolicyInv, LegsInv, Executed
<1> QED
  BY <1>2, <1>3, <1>4

LEMMA CreateIntentPolicyInv ==
  ASSUME NEW t \in Proposals, IInv, PolicyInv, CreateIntent(t)
  PROVE  PolicyInv'
<1> SUFFICES ASSUME NEW i \in IntentIds
             PROVE  BitmapInv(i)' /\ CountInv(i)' /\ LegsInv(i)'
  BY DEF PolicyInv
<1> USE DEF CreateIntent, MayCreate
<1>1. \A l \in LegIds : <<i, l>> \in Legs
  BY IndexFacts
<1>2. CASE i = intent_count
  <2>1. ~Created(i) /\ approvals[i] = {} /\ approval_count[i] = 0
    BY <1>2, IndexFacts DEF IInv, IntentInv
  <2>2. status'[i] = "PendingApproval" /\ \A l \in LegIds : leg_status'[<<i, l>>] \in {"None", "Pending"}
    BY <1>1, <1>2 DEF IInv, TypeOK
  <2> QED
    BY <2>1, <2>2, FS_EmptySet DEF BitmapInv, CountInv, LegsInv, Executed
<1>3. CASE i # intent_count
  <2>1. terms'[i] = terms[i] /\ status'[i] = status[i]
    BY <1>3 DEF IInv, TypeOK
  <2>2. \A l \in LegIds : leg_status'[<<i, l>>] = leg_status[<<i, l>>]
    BY <1>1, <1>3
  <2> QED
    BY <2>1, <2>2, BitmapStable DEF PolicyInv, CountInv, LegsInv, Executed
<1> QED
  BY <1>2, <1>3

\* One more approver, counted once.
LEMMA ApproveIntentPolicyInv ==
  ASSUME NEW key \in Keys, NEW j \in IntentIds, IInv, PolicyInv, ApproveIntent(key, j)
  PROVE  PolicyInv'
<1> SUFFICES ASSUME NEW i \in IntentIds
             PROVE  BitmapInv(i)' /\ CountInv(i)' /\ LegsInv(i)'
  BY DEF PolicyInv
<1> USE DEF ApproveIntent, assetVars, legVars
<1>1. CASE i = j
  <2> DEFINE n == ApproverIndex(key)
  <2>1. Initialized /\ IsApprover(key) /\ key # terms[i].proposer /\ n \notin approvals[i]
    BY <1>1 DEF IInv, IntentInv, Created, MayApprove
  <2>2. n \in 1 .. Len(config.approvers) /\ config.approvers[n] = key
    BY <2>1, ApproverIndexFacts
  <2>3. approvals'[i] = approvals[i] \cup {n} /\ approval_count'[i] = approval_count[i] + 1
    BY <1>1 DEF IInv, TypeOK
  <2>4. BitmapInv(i)'
    <3> HIDE DEF n
    <3> SUFFICES ASSUME NEW m \in approvals'[i]
                 PROVE  /\ m \in 1 .. Len(config.approvers)
                        /\ ApproverIndex(config.approvers[m]) = m
                        /\ config.approvers[m] # terms[i].proposer
      BY DEF BitmapInv, ApproverIndex, Positions
    <3>1. CASE m = n
      BY <2>1, <2>2, <3>1 DEF n
    <3>2. CASE m # n
      BY <2>3, <3>2 DEF PolicyInv, BitmapInv
    <3> QED
      BY <3>1, <3>2
  <2>5. approval_count'[i] = Cardinality(approvals'[i])
    <3>1. IsFiniteSet(approvals[i])
      BY BitmapFinite
    <3> QED
      BY <2>1, <2>3, <3>1, FS_AddElement DEF PolicyInv, CountInv
  <2>6. status'[i] # "PendingApproval" => approval_count'[i] >= config.threshold
    BY <1>1, <2>3 DEF IInv, TypeOK
  <2>7. LegsInv(i)'
    BY <1>1 DEF IInv, TypeOK, PolicyInv, LegsInv, Executed
  <2> QED
    BY <2>4, <2>5, <2>6, <2>7 DEF CountInv
<1>2. CASE i # j
  <2>1. /\ status'[i] = status[i] /\ approvals'[i] = approvals[i]
        /\ approval_count'[i] = approval_count[i]
    BY <1>2 DEF IInv, TypeOK
  <2> QED
    BY <2>1, BitmapStable DEF PolicyInv, CountInv, LegsInv, Executed
<1> QED
  BY <1>1, <1>2

\* Executing a leg needs the threshold; the write-back leaves the status past
\* approval.
LEMMA ExecuteLegPolicyInv ==
  ASSUME NEW j \in IntentIds, NEW l \in LegIds, NEW s \in {"Authorized", "Confirmed"},
         IInv, PolicyInv, LegReady(j, l), WriteBack(j, l, s)
  PROVE  PolicyInv'
<1> SUFFICES ASSUME NEW i \in IntentIds
             PROVE  BitmapInv(i)' /\ CountInv(i)' /\ LegsInv(i)'
  BY DEF PolicyInv
<1> USE DEF WriteBack
<1>1. BitmapInv(i)'
  BY BitmapStable DEF PolicyInv
<1>2. CASE i = j
  <2>1. status'[i] \in {"Executing", "Executed"} /\ approval_count[i] >= config.threshold
    BY <1>2 DEF IInv, TypeOK, LegReady
  <2> QED
    BY <1>1, <2>1 DEF PolicyInv, CountInv, LegsInv
<1>3. CASE i # j
  <2>1. status'[i] = status[i]
    BY <1>3 DEF IInv, TypeOK
  <2>2. \A m \in LegIds : leg_status'[<<i, m>>] = leg_status[<<i, m>>]
    BY <1>3, IndexFacts DEF IInv, TypeOK
  <2> QED
    BY <1>1, <2>1, <2>2 DEF PolicyInv, CountInv, LegsInv, Executed
<1> QED
  BY <1>2, <1>3

LEMMA ConfirmLegPolicyInv ==
  ASSUME NEW signer \in Keys, NEW j \in IntentIds, NEW l \in LegIds,
         IInv, PolicyInv, ConfirmLeg(signer, j, l)
  PROVE  PolicyInv'
<1> SUFFICES ASSUME NEW i \in IntentIds
             PROVE  BitmapInv(i)' /\ CountInv(i)' /\ LegsInv(i)'
  BY DEF PolicyInv
<1> USE DEF ConfirmLeg, assetVars
<1>1. BitmapInv(i)'
  BY BitmapStable DEF PolicyInv
<1>2. status[j] \notin {"None", "PendingApproval"}
  BY DEF PolicyInv, LegsInv, Executed
<1>3. CASE i = j
  <2>1. status'[i] \notin {"None", "PendingApproval"}
    BY <1>2, <1>3 DEF IInv, TypeOK
  <2> QED
    BY <1>1, <1>2, <1>3, <2>1 DEF PolicyInv, CountInv, LegsInv
<1>4. CASE i # j
  <2>1. status'[i] = status[i]
    BY <1>4 DEF IInv, TypeOK
  <2>2. \A m \in LegIds : leg_status'[<<i, m>>] = leg_status[<<i, m>>]
    BY <1>4, IndexFacts DEF IInv, TypeOK
  <2> QED
    BY <1>1, <2>1, <2>2 DEF PolicyInv, CountInv, LegsInv, Executed
<1> QED
  BY <1>3, <1>4

\* Every other step leaves the intents and the configuration alone.
LEMMA OtherPolicyInv ==
  ASSUME PolicyInv, UNCHANGED <<config, intentVars, legVars>>
  PROVE  PolicyInv'
<1> SUFFICES ASSUME NEW i \in IntentIds
             PROVE  BitmapInv(i)' /\ CountInv(i)' /\ LegsInv(i)'
  BY DEF PolicyInv
<1> USE DEF intentVars, legVars
<1>1. BitmapInv(i)'
  BY BitmapStable DEF PolicyInv
<1> QED
  BY <1>1 DEF PolicyInv, CountInv, LegsInv, Executed

LEMMA NextPolicyInv == IInv /\ PolicyInv /\ [Next]_vars => PolicyInv'
<1> SUFFICES ASSUME IInv, PolicyInv, [Next]_vars
             PROVE  PolicyInv'
  OBVIOUS
<1>1. ASSUME NEW s \in Keys, NEW c \in ChainIds, NEW k \in ChainConfigs[c], AddChain(s, c, k)
      PROVE  PolicyInv'
  BY <1>1, OtherPolicyInv DEF AddChain
<1>2. ASSUME NEW s \in Keys, NEW i \in IntentIds, NEW l \in LegIds,
             ExecuteNativeLeg(s, i, l) \/ ExecuteForeignLeg(s, i, l)
      PROVE  PolicyInv'
  BY <1>2, ExecuteLegPolicyInv DEF ExecuteNativeLeg, ExecuteForeignLeg
<1>3. ASSUME Tick \/ UNCHANGED vars \/ \E c \in ChainIds, x \in Amounts : HolderReturns(c, x)
      PROVE  PolicyInv'
  BY <1>3, OtherPolicyInv DEF Tick, HolderReturns, vars, ledgerVars, assetVars
<1> QED
  BY <1>1, <1>2, <1>3, InitAssetPolicyInv, CreateIntentPolicyInv, ApproveIntentPolicyInv,
     ConfirmLegPolicyInv DEF Next

\* The positions in a bitmap name different keys.
LEMMA ApproversCounted ==
  ASSUME NEW i \in IntentIds, IInv, BitmapInv(i)
  PROVE  Cardinality(ApprovedBy(i)) = Cardinality(approvals[i])
<1> DEFINE S == approvals[i]
           f == [n \in S |-> config.approvers[n]]
<1>1. IsFiniteSet(S)
  BY BitmapFinite
<1>2. f \in Injection(S, ApprovedBy(i)) /\ f \in Surjection(S, ApprovedBy(i))
  BY DEF BitmapInv, ApprovedBy, Injection, Surjection, IsInjective
<1> HIDE DEF f, S
<1> QED
  BY <1>1, <1>2, FS_Surjection DEF S

\* lib.rs:5-8 for every approver list and threshold: an executed leg was
\* approved by at least `threshold` different keys, none of them the proposer.
\* A list that names a key twice does not let that key count twice.
THEOREM PolicyGateHolds == Spec => []PolicyGate
<1>1. Spec => []PolicyInv
  BY InitPolicyInv, NextPolicyInv, SpecIInv, PTL DEF Spec
<1>2. IInv /\ PolicyInv => PolicyGate
  <2> SUFFICES ASSUME IInv, PolicyInv, NEW i \in IntentIds, NEW l \in LegIds, Executed(i, l)
               PROVE  /\ Cardinality(ApprovedBy(i)) >= config.threshold
                      /\ terms[i].proposer \notin ApprovedBy(i)
    BY DEF PolicyGate
  <2>1. BitmapInv(i) /\ CountInv(i) /\ approval_count[i] >= config.threshold
    BY DEF PolicyInv, LegsInv, CountInv
  <2>2. Cardinality(ApprovedBy(i)) = approval_count[i]
    BY <2>1, ApproversCounted DEF CountInv
  <2>3. terms[i].proposer \notin ApprovedBy(i)
    BY <2>1 DEF BitmapInv, ApprovedBy
  <2> QED
    BY <2>1, <2>2, <2>3
<1> QED
  BY <1>1, <1>2, SpecIInv, PTL

(***************************************************************************)
(* The life of an intent: its status against its legs, and what no           *)
(* instruction ever takes back.                                              *)
(***************************************************************************)

\* StatusMatchesLegs, intent by intent.
StatusInv(i) ==
  /\ (\E l \in LegIds : Executed(i, l)) <=> status[i] \in {"Executing", "Executed"}
  /\ status[i] = "Executed" <=> status[i] # "None" /\ AllConfirmed(leg_status, i)
  /\ Executed(i, 1) => leg_status[<<i, 0>>] = "Confirmed"

LEMMA StatusMatchesLegsByIntent == StatusMatchesLegs <=> \A i \in IntentIds : StatusInv(i)
BY DEF StatusMatchesLegs, StatusInv

\* Legs exist by the kind of the intent: leg 0 always does.
LEMMA LegExists ==
  ASSUME NEW i \in IntentIds, IInv, Created(i)
  PROVE  leg_status[<<i, 0>>] # "None"
BY DEF IInv, IntentInv, HasLeg, LegIds

\* A step that leaves an intent's status and legs alone.
LEMMA StatusStable ==
  ASSUME NEW i \in IntentIds, StatusInv(i), status'[i] = status[i],
         \A l \in LegIds : leg_status'[<<i, l>>] = leg_status[<<i, l>>]
  PROVE  StatusInv(i)'
BY DEF StatusInv, Executed, AllConfirmed, LegIds

LEMMA InitStatusInv ==
  ASSUME NEW i \in IntentIds, Init
  PROVE  StatusInv(i)
<1>1. status[i] = "None" /\ \A l \in LegIds : leg_status[<<i, l>>] = "None"
  BY IndexFacts DEF Init
<1> QED
  BY <1>1 DEF StatusInv, Executed, LegIds

LEMMA CreateIntentStatusInv ==
  ASSUME NEW i \in IntentIds, NEW t \in Proposals, IInv, StatusInv(i), CreateIntent(t)
  PROVE  StatusInv(i)'
<1> USE DEF CreateIntent, MayCreate
<1>1. \A l \in LegIds : <<i, l>> \in Legs
  BY IndexFacts
<1>2. CASE i = intent_count
  <2>1. status'[i] = "PendingApproval"
    BY <1>2 DEF IInv, TypeOK
  <2>2. leg_status'[<<i, 0>>] = "Pending" /\ leg_status'[<<i, 1>>] \in {"None", "Pending"}
    BY <1>1, <1>2 DEF HasLeg, LegIds
  <2> QED
    BY <2>1, <2>2 DEF StatusInv, Executed, AllConfirmed, LegIds
<1>3. CASE i # intent_count
  <2>1. status'[i] = status[i] /\ \A l \in LegIds : leg_status'[<<i, l>>] = leg_status[<<i, l>>]
    BY <1>1, <1>3 DEF IInv, TypeOK
  <2> QED
    BY <2>1, StatusStable
<1> QED
  BY <1>2, <1>3

\* Before approval no leg has run, so leg 0 is pending and stays so.
LEMMA ApproveIntentStatusInv ==
  ASSUME NEW i \in IntentIds, NEW key \in Keys, NEW j \in IntentIds,
         IInv, StatusInv(i), ApproveIntent(key, j)
  PROVE  StatusInv(i)'
<1> USE DEF ApproveIntent, legVars
<1>1. CASE i = j
  <2>1. status[i] = "PendingApproval" /\ status'[i] \in {"PendingApproval", "Approved"}
    BY <1>1 DEF IInv, TypeOK
  <2>2. \A l \in LegIds : ~Executed(i, l)
    BY <2>1 DEF StatusInv
  <2>3. leg_status[<<i, 0>>] \notin {"None", "Confirmed"}
    BY <2>1, <2>2, LegExists DEF Created, Executed, LegIds
  <2> QED
    BY <2>1, <2>2, <2>3 DEF StatusInv, Executed, AllConfirmed, LegIds
<1>2. CASE i # j
  <2>1. status'[i] = status[i]
    BY <1>2 DEF IInv, TypeOK
  <2> QED
    BY <2>1, StatusStable
<1> QED
  BY <1>1, <1>2

\* A leg that runs was pending, after the leg before it.
LEMMA WriteBackStatusInv ==
  ASSUME NEW i \in IntentIds, NEW j \in IntentIds, NEW l \in LegIds,
         NEW s \in {"Authorized", "Confirmed"},
         IInv, StatusInv(i), LegReady(j, l), WriteBack(j, l, s)
  PROVE  StatusInv(i)'
<1> USE DEF WriteBack
<1>1. \A m \in LegIds : <<i, m>> \in Legs
  BY IndexFacts
<1>2. CASE i = j
  <2>1. status'[i] = IF AllConfirmed(leg_status', i) THEN "Executed" ELSE "Executing"
    BY <1>2 DEF IInv, TypeOK
  <2>2. leg_status'[<<i, l>>] = s
    BY <1>1, <1>2 DEF IInv, TypeOK
  <2>3. ASSUME NEW m \in LegIds, m # l
        PROVE  leg_status'[<<i, m>>] = leg_status[<<i, m>>]
    BY <1>1, <1>2, <2>3 DEF IInv, TypeOK
  <2>4. l = 0 => leg_status'[<<i, 1>>] \in {"None", "Pending"}
    <3>1. l = 0 => leg_status[<<i, 1>>] \in {"None", "Pending"}
      <4>1. leg_status[<<i, 1>>] \in LegStatuses
        BY <1>1 DEF IInv, TypeOK, LegIds
      <4>2. l = 0 => leg_status[<<i, 0>>] = "Pending"
        BY <1>2 DEF LegReady
      <4> QED
        BY <4>1, <4>2 DEF StatusInv, Executed, LegStatuses
    <3> QED
      BY <2>3, <3>1 DEF LegIds
  <2>5. l = 1 => leg_status'[<<i, 0>>] = "Confirmed"
    <3>1. l = 1 => leg_status[<<i, 0>>] = "Confirmed"
      BY <1>2 DEF LegReady, PreviousConfirmed
    <3> QED
      BY <2>3, <3>1 DEF LegIds
  <2> QED
    BY <2>1, <2>2, <2>4, <2>5 DEF StatusInv, Executed, LegIds
<1>3. CASE i # j
  <2>1. status'[i] = status[i]
    BY <1>3 DEF IInv, TypeOK
  <2>2. \A m \in LegIds : leg_status'[<<i, m>>] = leg_status[<<i, m>>]
    BY <1>1, <1>3 DEF IInv, TypeOK
  <2> QED
    BY <2>1, <2>2, StatusStable
<1> QED
  BY <1>2, <1>3

\* An authorized leg keeps its intent from being Executed until it is confirmed.
LEMMA ConfirmLegStatusInv ==
  ASSUME NEW i \in IntentIds, NEW signer \in Keys, NEW j \in IntentIds, NEW l \in LegIds,
         IInv, StatusInv(i), ConfirmLeg(signer, j, l)
  PROVE  StatusInv(i)'
<1> USE DEF ConfirmLeg
<1>1. \A m \in LegIds : <<i, m>> \in Legs
  BY IndexFacts
<1>2. CASE i = j
  <2>1. leg_status[<<i, l>>] = "Authorized" /\ leg_status'[<<i, l>>] = "Confirmed"
    BY <1>1, <1>2 DEF IInv, TypeOK
  <2>2. ASSUME NEW m \in LegIds, m # l
        PROVE  leg_status'[<<i, m>>] = leg_status[<<i, m>>]
    BY <1>1, <1>2, <2>2 DEF IInv, TypeOK
  <2>3. status[i] = "Executing"
    BY <2>1 DEF StatusInv, Executed, AllConfirmed
  <2>4. status'[i] = IF AllConfirmed(leg_status', i) THEN "Executed" ELSE "Executing"
    BY <1>2, <2>3 DEF IInv, TypeOK
  <2>5. leg_status'[<<i, 1>>] \in {"Authorized", "Confirmed"} => leg_status'[<<i, 0>>] = "Confirmed"
    <3>1. CASE l = 0
      BY <2>1, <3>1
    <3>2. CASE l = 1
      BY <2>1, <2>2, <3>2 DEF StatusInv, Executed, LegIds
    <3> QED
      BY <3>1, <3>2 DEF LegIds
  <2> QED
    BY <2>1, <2>4, <2>5 DEF StatusInv, Executed
<1>3. CASE i # j
  <2>1. status'[i] = status[i]
    BY <1>3 DEF IInv, TypeOK
  <2>2. \A m \in LegIds : leg_status'[<<i, m>>] = leg_status[<<i, m>>]
    BY <1>1, <1>3 DEF IInv, TypeOK
  <2> QED
    BY <2>1, <2>2, StatusStable
<1> QED
  BY <1>2, <1>3

LEMMA NextStatusInv ==
  ASSUME NEW i \in IntentIds, IInv, StatusInv(i), [Next]_vars
  PROVE  StatusInv(i)'
<1>1. ASSUME UNCHANGED <<intentVars, legVars>>
      PROVE  StatusInv(i)'
  BY <1>1, StatusStable DEF intentVars, legVars
<1>2. ASSUME NEW s \in Keys, NEW j \in IntentIds, NEW l \in LegIds,
             ExecuteNativeLeg(s, j, l) \/ ExecuteForeignLeg(s, j, l)
      PROVE  StatusInv(i)'
  BY <1>2, WriteBackStatusInv DEF ExecuteNativeLeg, ExecuteForeignLeg
<1>3. ASSUME \/ \E cfg \in AssetConfigs : InitAsset(cfg)
             \/ \E s \in Keys, c \in ChainIds : \E k \in ChainConfigs[c] : AddChain(s, c, k)
             \/ Tick \/ UNCHANGED vars
             \/ \E c \in ChainIds, x \in Amounts : HolderReturns(c, x)
      PROVE  StatusInv(i)'
  BY <1>1, <1>3 DEF InitAsset, AddChain, Tick, HolderReturns, vars, ledgerVars
<1> QED
  BY <1>2, <1>3, CreateIntentStatusInv, ApproveIntentStatusInv, ConfirmLegStatusInv DEF Next

\* instructions.rs:590-599, 754-762, 815-819 for any number of intents and legs
\* in any order: nothing runs before approval, the mint leg of a move only after
\* its burn leg is confirmed, and an intent is Executed exactly when its last leg
\* is confirmed.
THEOREM StatusMatchesLegsHolds == Spec => []StatusMatchesLegs
<1>1. Init => StatusMatchesLegs
  BY InitStatusInv, StatusMatchesLegsByIntent
<1>2. IInv /\ StatusMatchesLegs /\ [Next]_vars => StatusMatchesLegs'
  <2> SUFFICES ASSUME IInv, StatusMatchesLegs, [Next]_vars
               PROVE  StatusMatchesLegs'
    OBVIOUS
  <2>1. \A i \in IntentIds : StatusInv(i)'
    BY NextStatusInv, StatusMatchesLegsByIntent
  <2> QED
    BY <2>1 DEF StatusMatchesLegs, StatusInv
<1> QED
  BY <1>1, <1>2, SpecIInv, PTL DEF Spec
-----------------------------------------------------------------------------
(* What is never taken back.                                                 *)

Approving(i) == status[i] = "PendingApproval"

\* What a step may do to an intent that exists.
Advances(i) ==
  Created(i) =>
    /\ terms'[i] = terms[i]
    /\ approvals[i] \subseteq approvals'[i]
    /\ ~Approving(i) => /\ approvals'[i] = approvals[i]
                       /\ approved_at'[i] = approved_at[i]
                       /\ ~Approving(i)'
    /\ \A l \in LegIds :
         /\ LegRank(leg_status[<<i, l>>]) <= LegRank(leg_status'[<<i, l>>])
         /\ Executed(i, l) => executed_at'[<<i, l>>] = executed_at[<<i, l>>]

LEMMA LegRankFacts ==
  /\ \A s \in LegStatuses : LegRank(s) \in Nat
  /\ LegRank("Pending") <= LegRank("Authorized") /\ LegRank("Authorized") <= LegRank("Confirmed")
  /\ LegRank("Pending") <= LegRank("Confirmed")
BY DEF LegRank, LegStatuses

\* A step that leaves an intent and its legs alone.
LEMMA AdvancesStable ==
  ASSUME NEW i \in IntentIds, IInv,
         terms'[i] = terms[i], status'[i] = status[i], approvals'[i] = approvals[i],
         approved_at'[i] = approved_at[i],
         \A l \in LegIds : /\ leg_status'[<<i, l>>] = leg_status[<<i, l>>]
                           /\ executed_at'[<<i, l>>] = executed_at[<<i, l>>]
  PROVE  Advances(i)
<1>1. \A l \in LegIds : LegRank(leg_status[<<i, l>>]) \in Nat
  BY IndexFacts, LegRankFacts DEF IInv, TypeOK
<1> QED
  BY <1>1 DEF Advances, Approving

LEMMA CreateIntentAdvances ==
  ASSUME NEW i \in IntentIds, NEW t \in Proposals, IInv, CreateIntent(t)
  PROVE  Advances(i)
<1> USE DEF CreateIntent, MayCreate
<1>1. CASE i = intent_count
  <2>1. ~Created(i)
    BY <1>1, IndexFacts DEF IInv, IntentInv
  <2> QED
    BY <2>1 DEF Advances
<1>2. CASE i # intent_count
  <2>1. terms'[i] = terms[i] /\ status'[i] = status[i]
    BY <1>2 DEF IInv, TypeOK
  <2>2. \A l \in LegIds : leg_status'[<<i, l>>] = leg_status[<<i, l>>]
    BY <1>2, IndexFacts
  <2> QED
    BY <2>1, <2>2, AdvancesStable
<1> QED
  BY <1>1, <1>2

LEMMA ApproveIntentAdvances ==
  ASSUME NEW i \in IntentIds, NEW key \in Keys, NEW j \in IntentIds, IInv, ApproveIntent(key, j)
  PROVE  Advances(i)
<1> USE DEF ApproveIntent, legVars
<1>1. \A l \in LegIds : LegRank(leg_status[<<i, l>>]) \in Nat
  BY IndexFacts, LegRankFacts DEF IInv, TypeOK
<1>2. CASE i = j
  <2>1. Approving(i) /\ approvals'[i] = approvals[i] \cup {ApproverIndex(key)}
    BY <1>2 DEF IInv, TypeOK, Approving
  <2> QED
    BY <1>1, <2>1 DEF Advances
<1>3. CASE i # j
  <2>1. /\ status'[i] = status[i] /\ approvals'[i] = approvals[i]
        /\ approved_at'[i] = approved_at[i]
    BY <1>3 DEF IInv, TypeOK
  <2> QED
    BY <2>1, AdvancesStable
<1> QED
  BY <1>2, <1>3

\* The one leg that runs was pending, so its clock is set for the first time.
LEMMA WriteBackAdvances ==
  ASSUME NEW i \in IntentIds, NEW j \in IntentIds, NEW l \in LegIds,
         NEW s \in {"Authorized", "Confirmed"},
         IInv, LegReady(j, l), WriteBack(j, l, s)
  PROVE  Advances(i)
<1> USE DEF WriteBack
<1>1. \A m \in LegIds : <<i, m>> \in Legs /\ LegRank(leg_status[<<i, m>>]) \in Nat
  BY IndexFacts, LegRankFacts DEF IInv, TypeOK
<1>2. CASE i = j
  <2>1. ~Approving(i)'
    BY <1>2 DEF IInv, TypeOK, Approving
  <2>2. ASSUME NEW m \in LegIds
        PROVE  /\ LegRank(leg_status[<<i, m>>]) <= LegRank(leg_status'[<<i, m>>])
               /\ Executed(i, m) => executed_at'[<<i, m>>] = executed_at[<<i, m>>]
    <3>1. CASE m = l
      <4>1. leg_status[<<i, m>>] = "Pending" /\ leg_status'[<<i, m>>] = s
        BY <1>1, <1>2, <3>1 DEF IInv, TypeOK, LegReady
      <4> QED
        BY <1>1, <4>1, LegRankFacts DEF Executed
    <3>2. CASE m # l
      <4>1. /\ leg_status'[<<i, m>>] = leg_status[<<i, m>>]
            /\ executed_at'[<<i, m>>] = executed_at[<<i, m>>]
        BY <1>1, <1>2, <3>2 DEF IInv, TypeOK
      <4> QED
        BY <1>1, <4>1
    <3> QED
      BY <3>1, <3>2
  <2> QED
    BY <2>1, <2>2 DEF Advances
<1>3. CASE i # j
  <2>1. status'[i] = status[i]
    BY <1>3 DEF IInv, TypeOK
  <2>2. ASSUME NEW m \in LegIds
        PROVE  /\ leg_status'[<<i, m>>] = leg_status[<<i, m>>]
               /\ executed_at'[<<i, m>>] = executed_at[<<i, m>>]
    BY <1>1, <1>3 DEF IInv, TypeOK
  <2> QED
    BY <2>1, <2>2, AdvancesStable
<1> QED
  BY <1>2, <1>3

LEMMA ConfirmLegAdvances ==
  ASSUME NEW i \in IntentIds, NEW signer \in Keys, NEW j \in IntentIds, NEW l \in LegIds,
         IInv, ConfirmLeg(signer, j, l)
  PROVE  Advances(i)
<1> USE DEF ConfirmLeg
<1>1. \A m \in LegIds : <<i, m>> \in Legs /\ LegRank(leg_status[<<i, m>>]) \in Nat
  BY IndexFacts, LegRankFacts DEF IInv, TypeOK
<1>2. ASSUME NEW m \in LegIds
      PROVE  LegRank(leg_status[<<i, m>>]) <= LegRank(leg_status'[<<i, m>>])
  <2>1. CASE i = j /\ m = l
    <3>1. leg_status[<<i, m>>] = "Authorized" /\ leg_status'[<<i, m>>] = "Confirmed"
      BY <1>1, <2>1 DEF IInv, TypeOK
    <3> QED
      BY <1>1, <3>1, LegRankFacts
  <2>2. CASE ~(i = j /\ m = l)
    <3>1. leg_status'[<<i, m>>] = leg_status[<<i, m>>]
      BY <1>1, <2>2 DEF IInv, TypeOK
    <3> QED
      BY <1>1, <3>1
  <2> QED
    BY <2>1, <2>2
<1>3. ~Approving(i) => ~Approving(i)'
  BY DEF IInv, TypeOK, Approving
<1> QED
  BY <1>2, <1>3 DEF Advances

LEMMA NextAdvances ==
  ASSUME NEW i \in IntentIds, IInv, [Next]_vars
  PROVE  Advances(i)
<1>1. ASSUME UNCHANGED <<intentVars, legVars>>
      PROVE  Advances(i)
  BY <1>1, AdvancesStable DEF intentVars, legVars
<1>2. ASSUME NEW s \in Keys, NEW j \in IntentIds, NEW l \in LegIds,
             ExecuteNativeLeg(s, j, l) \/ ExecuteForeignLeg(s, j, l)
      PROVE  Advances(i)
  BY <1>2, WriteBackAdvances DEF ExecuteNativeLeg, ExecuteForeignLeg
<1>3. ASSUME \/ \E cfg \in AssetConfigs : InitAsset(cfg)
             \/ \E s \in Keys, c \in ChainIds : \E k \in ChainConfigs[c] : AddChain(s, c, k)
             \/ Tick \/ UNCHANGED vars
             \/ \E c \in ChainIds, x \in Amounts : HolderReturns(c, x)
      PROVE  Advances(i)
  BY <1>1, <1>3 DEF InitAsset, AddChain, Tick, HolderReturns, vars, ledgerVars
<1> QED
  BY <1>2, <1>3, CreateIntentAdvances, ApproveIntentAdvances, ConfirmLegAdvances DEF Next

\* No instruction changes the terms of an intent, takes an approval back, moves
\* the approval time or runs a leg twice, whatever came before
\* (instructions.rs:466-500, 754-772, 811-821).
THEOREM IntentsOnlyAdvanceHolds == Spec => IntentsOnlyAdvance
<1>1. IInv /\ [Next]_vars => [\A i \in IntentIds : Advances(i)]_vars
  BY NextAdvances
<1>2. [\A i \in IntentIds : Advances(i)]_vars =>
        [\A i \in IntentIds : status[i] # "None" =>
           /\ terms'[i] = terms[i]
           /\ approvals[i] \subseteq approvals'[i]
           /\ status[i] # "PendingApproval" =>
                /\ approvals'[i] = approvals[i]
                /\ approved_at'[i] = approved_at[i]
                /\ status'[i] # "PendingApproval"
           /\ \A l \in LegIds :
                /\ LegRank(leg_status[<<i, l>>]) <= LegRank(leg_status'[<<i, l>>])
                /\ Executed(i, l) => executed_at'[<<i, l>>] = executed_at[<<i, l>>]]_vars
  BY DEF Advances, Approving, Created
<1> QED
  BY <1>1, <1>2, SpecIInv, PTL DEF Spec, IntentsOnlyAdvance
-----------------------------------------------------------------------------
(* The timelock, when it fits i64.                                           *)

TimelockFits == \A cfg \in AssetConfigs : cfg.timelock_secs <= I64Max

TimelockInv(i) ==
  \A l \in LegIds : Executed(i, l) => executed_at[<<i, l>>] >= approved_at[i] + config.timelock_secs

\* The cast to i64 then changes nothing.
LEMMA UnlockFacts ==
  ASSUME TimelockFits, NEW i \in IntentIds, IInv, Initialized
  PROVE  Unlock(i) = approved_at[i] + config.timelock_secs
<1>1. config \in AssetConfigs
  BY DEF IInv, TypeOK, Initialized
<1>2. config.timelock_secs \in Nat /\ config.timelock_secs <= I64Max
  BY <1>1, ConfigAssumption, ConstantFacts DEF TimelockFits, ConfigAssumption, AssetConfig
<1> QED
  BY <1>2, ConstantFacts DEF Unlock, AsI64

\* A step that changes neither an intent's executed legs nor what they are
\* measured against.
LEMMA TimelockStable ==
  ASSUME NEW i \in IntentIds, TimelockInv(i), config' = config,
         \A l \in LegIds : Executed(i, l)' =>
           /\ Executed(i, l) /\ executed_at'[<<i, l>>] = executed_at[<<i, l>>]
           /\ approved_at'[i] = approved_at[i]
  PROVE  TimelockInv(i)'
BY DEF TimelockInv

LEMMA WriteBackTimelockInv ==
  ASSUME TimelockFits, NEW i \in IntentIds, NEW j \in IntentIds, NEW l \in LegIds,
         NEW s \in {"Authorized", "Confirmed"},
         IInv, TimelockInv(i), LegReady(j, l), WriteBack(j, l, s)
  PROVE  TimelockInv(i)'
<1> USE DEF WriteBack
<1> SUFFICES ASSUME NEW m \in LegIds, Executed(i, m)'
             PROVE  executed_at'[<<i, m>>] >= approved_at[i] + config.timelock_secs
  BY DEF TimelockInv
<1>1. <<i, m>> \in Legs
  BY IndexFacts
<1>2. CASE i = j /\ m = l
  <2>1. executed_at'[<<i, m>>] = now
    BY <1>1, <1>2 DEF IInv, TypeOK
  <2>2. Created(i) /\ TimelockOver(i)
    BY <1>2 DEF LegReady, Created
  <2>3. now >= approved_at[i] + config.timelock_secs
    BY <2>2, UnlockFacts DEF IInv, IntentInv, TimelockOver
  <2> QED
    BY <2>1, <2>3
<1>3. CASE ~(i = j /\ m = l)
  <2>1. executed_at'[<<i, m>>] = executed_at[<<i, m>>] /\ leg_status'[<<i, m>>] = leg_status[<<i, m>>]
    BY <1>1, <1>3 DEF IInv, TypeOK
  <2> QED
    BY <2>1 DEF TimelockInv, Executed
<1> QED
  BY <1>2, <1>3

LEMMA NextTimelockInv ==
  ASSUME TimelockFits, NEW i \in IntentIds, IInv, PolicyInv, TimelockInv(i), [Next]_vars
  PROVE  TimelockInv(i)'
<1>1. ASSUME NEW cfg \in AssetConfigs, InitAsset(cfg)
      PROVE  TimelockInv(i)'
  <2>1. \A l \in LegIds : leg_status'[<<i, l>>] = "None"
    BY <1>1 DEF InitAsset, legVars, IInv, IntentInv
  <2> QED
    BY <2>1 DEF TimelockInv, Executed
<1>2. ASSUME NEW t \in Proposals, CreateIntent(t)
      PROVE  TimelockInv(i)'
  <2>1. ASSUME NEW l \in LegIds, Executed(i, l)'
        PROVE  Executed(i, l)
    <3>1. leg_status'[<<i, l>>] \in {"None", "Pending"} \/ leg_status'[<<i, l>>] = leg_status[<<i, l>>]
      BY <1>2, IndexFacts DEF CreateIntent, MayCreate
    <3> QED
      BY <2>1, <3>1 DEF Executed
  <2> QED
    BY <1>2, <2>1, TimelockStable DEF CreateIntent, MayCreate
<1>3. ASSUME NEW key \in Keys, NEW j \in IntentIds, ApproveIntent(key, j)
      PROVE  TimelockInv(i)'
  <2>1. CASE i = j
    <3>1. \A l \in LegIds : ~Executed(i, l)'
      BY <1>3, <2>1 DEF ApproveIntent, legVars, PolicyInv, LegsInv, Executed
    <3> QED
      BY <3>1 DEF TimelockInv
  <2>2. CASE i # j
    <3>1. approved_at'[i] = approved_at[i]
      BY <1>3, <2>2 DEF ApproveIntent, IInv, TypeOK
    <3> QED
      BY <1>3, <3>1, TimelockStable DEF ApproveIntent, assetVars, legVars, Executed
  <2> QED
    BY <2>1, <2>2
<1>4. ASSUME NEW s \in Keys, NEW j \in IntentIds, NEW l \in LegIds,
             ExecuteNativeLeg(s, j, l) \/ ExecuteForeignLeg(s, j, l)
      PROVE  TimelockInv(i)'
  BY <1>4, WriteBackTimelockInv DEF ExecuteNativeLeg, ExecuteForeignLeg
<1>5. ASSUME NEW s \in Keys, NEW j \in IntentIds, NEW l \in LegIds, ConfirmLeg(s, j, l)
      PROVE  TimelockInv(i)'
  <2>1. ASSUME NEW m \in LegIds, Executed(i, m)'
        PROVE  Executed(i, m)
    <3>1. <<i, m>> \in Legs
      BY IndexFacts
    <3>2. leg_status[<<i, m>>] = "Authorized" \/ leg_status'[<<i, m>>] = leg_status[<<i, m>>]
      BY <1>5, <3>1 DEF ConfirmLeg, IInv, TypeOK
    <3> QED
      BY <2>1, <3>2 DEF Executed
  <2> QED
    BY <1>5, <2>1, TimelockStable DEF ConfirmLeg, assetVars
<1>6. ASSUME \/ \E s \in Keys, c \in ChainIds : \E k \in ChainConfigs[c] : AddChain(s, c, k)
             \/ Tick \/ UNCHANGED vars
             \/ \E c \in ChainIds, x \in Amounts : HolderReturns(c, x)
      PROVE  TimelockInv(i)'
  <2>1. UNCHANGED <<config, intentVars, legVars>>
    BY <1>6 DEF AddChain, Tick, HolderReturns, vars, ledgerVars, assetVars
  <2> QED
    BY <2>1, TimelockStable DEF intentVars, legVars, Executed
<1> QED
  BY <1>1, <1>2, <1>3, <1>4, <1>5, <1>6 DEF Next

\* lib.rs:5-8 for every timelock of at most 2^63 - 1 seconds: no leg is executed
\* before the timelock, counted from the last approval, is over
\* (instructions.rs:575-587).
THEOREM TimelockGateHolds ==
  ASSUME TimelockFits
  PROVE  Spec => []TimelockGate
<1> DEFINE TInv == \A i \in IntentIds : TimelockInv(i)
<1>1. Init => TInv
  BY IndexFacts DEF Init, TimelockInv, Executed
<1>2. IInv /\ PolicyInv /\ TInv /\ [Next]_vars => TInv'
  BY TimelockFits, NextTimelockInv
<1>3. TInv => TimelockGate
  BY DEF TimelockGate, TimelockInv
<1> HIDE DEF TInv
<1>4. Spec => []PolicyInv
  BY InitPolicyInv, NextPolicyInv, SpecIInv, PTL DEF Spec
<1> QED
  BY <1>1, <1>2, <1>3, <1>4, SpecIInv, PTL DEF Spec

-----------------------------------------------------------------------------
(***************************************************************************)
(* What the ledger asks Ika to sign: one authorization for each executed     *)
(* foreign leg, and no nonce twice, for every number of intents that the     *)
(* nonce has room for.                                                       *)
(***************************************************************************)

\* A nonce within 64 bits is not reduced.
LEMMA ModFacts ==
  ASSUME NEW m \in Nat, NEW x \in 0 .. m
  PROVE  x % (m + 1) = x
OBVIOUS

\* Two legs never share a nonce: 2 * IntentBound nonces fit u64.
LEMMA NonceFacts ==
  ASSUME NEW i \in IntentIds, NEW l \in LegIds
  PROVE  LegNonce(i, l) = 2 * i + l
<1>1. 2 * i + l \in 0 .. U64Max
  BY ConstantFacts, IndexFacts DEF LegIds
<1> QED
  BY <1>1, ModFacts, ConstantFacts DEF LegNonce

LEMMA NoncesDiffer ==
  ASSUME NEW i \in IntentIds, NEW l \in LegIds, NEW j \in IntentIds, NEW m \in LegIds,
         LegNonce(i, l) = LegNonce(j, m)
  PROVE  i = j /\ l = m
<1>1. i \in Nat /\ j \in Nat /\ 2 * i + l = 2 * j + m
  BY NonceFacts, IndexFacts
<1> QED
  BY <1>1 DEF LegIds
-----------------------------------------------------------------------------
(* The inductive invariant.                                                  *)

ChainOf(g) == LegChain(terms[g[1]], g[2])
\* An executed leg of a foreign chain.
Asked(g) == Executed(g[1], g[2]) /\ deployment[ChainOf(g)].leg_kind = "IkaForeign"

\* Only a leg of a registered chain is executed, so the kind of its chain is
\* settled; and the messages approved are those of the foreign ones.
RegisteredInv == \A g \in Legs : Executed(g[1], g[2]) => Registered(ChainOf(g))
MessagesInv == message_approvals = {Authorization(g[1], g[2]) : g \in {h \in Legs : Asked(h)}}
AuthorizationInv == RegisteredInv /\ MessagesInv

LEMMA LegOf ==
  ASSUME NEW g \in Legs
  PROVE  g[1] \in IntentIds /\ g[2] \in LegIds /\ g = <<g[1], g[2]>>
BY DEF Legs

LEMMA InitAuthorizationInv == Init => AuthorizationInv
<1> SUFFICES ASSUME Init PROVE AuthorizationInv
  OBVIOUS
<1>1. \A g \in Legs : ~Executed(g[1], g[2])
  BY LegOf DEF Init, Executed
<1> QED
  BY <1>1 DEF AuthorizationInv, RegisteredInv, MessagesInv, Asked, Init

\* A step after which the executed legs are those of before, with their terms
\* and their chains' kinds.
LEMMA AuthorizationStable ==
  ASSUME AuthorizationInv, message_approvals' = message_approvals,
         \A g \in Legs : Executed(g[1], g[2])' <=> Executed(g[1], g[2]),
         \A g \in Legs : Executed(g[1], g[2]) =>
           /\ terms'[g[1]] = terms[g[1]]
           /\ deployment'[ChainOf(g)] = deployment[ChainOf(g)]
  PROVE  AuthorizationInv'
<1>1. ASSUME NEW g \in Legs, Executed(g[1], g[2])
      PROVE  /\ ChainOf(g)' = ChainOf(g) /\ Authorization(g[1], g[2])' = Authorization(g[1], g[2])
             /\ deployment'[ChainOf(g)'] = deployment[ChainOf(g)]
  <2>1. terms'[g[1]] = terms[g[1]] /\ deployment'[ChainOf(g)] = deployment[ChainOf(g)]
    BY <1>1
  <2>2. ChainOf(g)' = ChainOf(g)
    BY <2>1 DEF ChainOf, LegChain, LegAction
  <2>3. Authorization(g[1], g[2])' = Authorization(g[1], g[2])
    BY <2>1 DEF Authorization, LegChain, LegAction, LegAccount, LegNonce
  <2> QED
    BY <2>1, <2>2, <2>3
<1>2. RegisteredInv'
  BY <1>1 DEF AuthorizationInv, RegisteredInv, Registered
<1>3. \A g \in Legs : Asked(g)' <=> Asked(g)
  BY <1>1 DEF Asked
<1>4. {h \in Legs : Asked(h)}' = {h \in Legs : Asked(h)}
  BY <1>3
<1>5. \A g \in {h \in Legs : Asked(h)} : Authorization(g[1], g[2])' = Authorization(g[1], g[2])
  BY <1>1 DEF Asked
<1>6. MessagesInv'
  BY <1>4, <1>5 DEF AuthorizationInv, MessagesInv
<1> QED
  BY <1>2, <1>6 DEF AuthorizationInv

LEMMA AddChainAuthorizationInv ==
  ASSUME NEW s \in Keys, NEW c \in ChainIds, NEW k \in ChainConfigs[c],
         IInv, AuthorizationInv, AddChain(s, c, k)
  PROVE  AuthorizationInv'
<1> USE DEF AddChain, intentVars, legVars
<1>1. \A g \in Legs : Executed(g[1], g[2]) => ChainOf(g) # c
  BY DEF AuthorizationInv, RegisteredInv
<1>2. \A g \in Legs : Executed(g[1], g[2]) => deployment'[ChainOf(g)] = deployment[ChainOf(g)]
  BY <1>1 DEF IInv, TypeOK
<1>3. \A g \in Legs : Executed(g[1], g[2])' <=> Executed(g[1], g[2])
  BY DEF Executed
<1> QED
  BY <1>2, <1>3, AuthorizationStable

\* The new intent has no executed leg, before or after.
LEMMA CreateIntentAuthorizationInv ==
  ASSUME NEW t \in Proposals, IInv, AuthorizationInv, CreateIntent(t)
  PROVE  AuthorizationInv'
<1> USE DEF CreateIntent, MayCreate, chainVars
<1>1. ASSUME NEW g \in Legs
      PROVE  /\ Executed(g[1], g[2])' <=> Executed(g[1], g[2])
             /\ Executed(g[1], g[2]) => terms'[g[1]] = terms[g[1]]
  <2>1. g[1] \in IntentIds /\ g[2] \in LegIds /\ <<g[1], g[2]>> \in Legs
    BY LegOf
  <2>2. CASE g[1] = intent_count
    <3>1. leg_status[<<g[1], g[2]>>] = "None"
      BY <2>1, <2>2, IndexFacts DEF IInv, IntentInv
    <3>2. leg_status'[<<g[1], g[2]>>] \in {"None", "Pending"}
      BY <2>1, <2>2
    <3> QED
      BY <3>1, <3>2 DEF Executed
  <2>3. CASE g[1] # intent_count
    <3>1. leg_status'[<<g[1], g[2]>>] = leg_status[<<g[1], g[2]>>] /\ terms'[g[1]] = terms[g[1]]
      BY <2>1, <2>3 DEF IInv, TypeOK
    <3> QED
      BY <3>1 DEF Executed
  <2> QED
    BY <2>2, <2>3
<1> QED
  BY <1>1, AuthorizationStable

LEMMA ChainFacts ==
  ASSUME NEW c \in ChainIds, IInv
  PROVE  authorized[c] \in Nat /\ (deployment[c].cap = 0 => authorized[c] = 0)
<1>1. authorized[c] \in 0 .. U64Max /\ authorized[c] <= deployment[c].cap
  BY ConstantFacts DEF IInv, TypeOK, ChainInv
<1> QED
  BY <1>1, ConstantFacts

\* A leg that runs has a chain: an unregistered one has no cap and no supply.
LEMMA ExecutedIsRegistered ==
  ASSUME NEW i \in IntentIds, NEW l \in LegIds, IInv, LegReady(i, l), SupplyRules(terms[i], l)
  PROVE  Registered(LegChain(terms[i], l))
<1> DEFINE c == LegChain(terms[i], l)
<1> SUFFICES ASSUME deployment[c] = NoDeployment PROVE FALSE
  BY DEF Registered
<1>1. c \in ChainIds /\ terms[i].amount \in Nat /\ terms[i].amount > 0
  BY LegFacts
<1>2. deployment[c].cap = 0
  BY DEF NoDeployment
<1>3. authorized[c] = 0
  BY <1>1, <1>2, ChainFacts
<1>4. CASE LegAction(terms[i], l) = "mint"
  BY <1>1, <1>2, <1>3, <1>4 DEF SupplyRules
<1>5. CASE LegAction(terms[i], l) # "mint"
  BY <1>1, <1>3, <1>5 DEF SupplyRules
<1> QED
  BY <1>4, <1>5

\* What executing a leg does to the executed legs: it adds this one.
LEMMA WriteBackExecutes ==
  ASSUME NEW i \in IntentIds, NEW l \in LegIds, NEW s \in {"Authorized", "Confirmed"},
         IInv, AuthorizationInv, LegReady(i, l), SupplyRules(terms[i], l), WriteBack(i, l, s)
  PROVE  /\ \A g \in Legs : Executed(g[1], g[2])' <=> Executed(g[1], g[2]) \/ g = <<i, l>>
         /\ RegisteredInv'
         /\ \A g \in Legs : Asked(g)' <=>
              Asked(g) \/ (g = <<i, l>> /\ deployment[LegChain(terms[i], l)].leg_kind = "IkaForeign")
         /\ \A g \in Legs : Authorization(g[1], g[2])' = Authorization(g[1], g[2])
<1> USE DEF WriteBack
<1>1. \A g \in Legs : Executed(g[1], g[2])' <=> Executed(g[1], g[2]) \/ g = <<i, l>>
  <2> SUFFICES ASSUME NEW g \in Legs
               PROVE  Executed(g[1], g[2])' <=> Executed(g[1], g[2]) \/ g = <<i, l>>
    OBVIOUS
  <2>1. g = <<g[1], g[2]>> /\ leg_status \in [Legs -> LegStatuses]
    BY LegOf DEF IInv, TypeOK
  <2>2. leg_status'[g] = IF g = <<i, l>> THEN s ELSE leg_status[g]
    BY <2>1
  <2> QED
    BY <2>1, <2>2 DEF Executed
<1>2. \A g \in Legs : ChainOf(g)' = ChainOf(g)
  BY DEF ChainOf, LegChain, LegAction
<1>3. Registered(ChainOf(<<i, l>>))
  BY ExecutedIsRegistered DEF ChainOf
<1>4. RegisteredInv'
  BY <1>1, <1>2, <1>3 DEF AuthorizationInv, RegisteredInv, Registered
<1>5. \A g \in Legs : Asked(g)' <=>
        Asked(g) \/ (g = <<i, l>> /\ deployment[LegChain(terms[i], l)].leg_kind = "IkaForeign")
  <2>1. ChainOf(<<i, l>>) = LegChain(terms[i], l)
    BY DEF ChainOf
  <2> QED
    BY <1>1, <1>2, <2>1 DEF Asked
<1>6. \A g \in Legs : Authorization(g[1], g[2])' = Authorization(g[1], g[2])
  BY DEF Authorization, LegChain, LegAction, LegAccount, LegNonce
<1> QED
  BY <1>1, <1>4, <1>5, <1>6

LEMMA ExecuteNativeLegAuthorizationInv ==
  ASSUME NEW signer \in Keys, NEW i \in IntentIds, NEW l \in LegIds,
         IInv, AuthorizationInv, ExecuteNativeLeg(signer, i, l)
  PROVE  AuthorizationInv'
<1>1. /\ LegReady(i, l) /\ SupplyRules(terms[i], l) /\ WriteBack(i, l, "Confirmed")
      /\ deployment[LegChain(terms[i], l)].leg_kind = "SolanaNative"
      /\ message_approvals' = message_approvals
  BY DEF ExecuteNativeLeg
<1>2. /\ RegisteredInv'
      /\ \A g \in Legs : Asked(g)' <=> Asked(g)
      /\ \A g \in Legs : Authorization(g[1], g[2])' = Authorization(g[1], g[2])
  <2>1. deployment[LegChain(terms[i], l)].leg_kind # "IkaForeign"
    BY <1>1
  <2> QED
    BY <1>1, <2>1, WriteBackExecutes
<1>3. {h \in Legs : Asked(h)}' = {h \in Legs : Asked(h)}
  BY <1>2
<1>4. MessagesInv'
  BY <1>1, <1>2, <1>3 DEF AuthorizationInv, MessagesInv
<1> QED
  BY <1>2, <1>4 DEF AuthorizationInv

LEMMA ExecuteForeignLegAuthorizationInv ==
  ASSUME NEW signer \in Keys, NEW i \in IntentIds, NEW l \in LegIds,
         IInv, AuthorizationInv, ExecuteForeignLeg(signer, i, l)
  PROVE  AuthorizationInv'
<1>1. /\ LegReady(i, l) /\ SupplyRules(terms[i], l) /\ WriteBack(i, l, "Authorized")
      /\ deployment[LegChain(terms[i], l)].leg_kind = "IkaForeign"
      /\ message_approvals' = message_approvals \cup {Authorization(i, l)}
  BY DEF ExecuteForeignLeg
<1>2. /\ RegisteredInv'
      /\ \A g \in Legs : Asked(g)' <=> Asked(g) \/ g = <<i, l>>
      /\ \A g \in Legs : Authorization(g[1], g[2])' = Authorization(g[1], g[2])
  BY <1>1, WriteBackExecutes
<1>3. {h \in Legs : Asked(h)}' = {h \in Legs : Asked(h)} \cup {<<i, l>>}
  BY <1>2, IndexFacts
<1>4. MessagesInv'
  <2> DEFINE S == {h \in Legs : Asked(h)}
  <2>1. {Authorization(g[1], g[2]) : g \in S \cup {<<i, l>>}} =
          {Authorization(g[1], g[2]) : g \in S} \cup {Authorization(i, l)}
    <3> HIDE DEF S
    <3> DEFINE A(g) == Authorization(g[1], g[2])
    <3>1. A(<<i, l>>) = Authorization(i, l)
      OBVIOUS
    <3> HIDE DEF A
    <3>2. {A(g) : g \in S \cup {<<i, l>>}} = {A(g) : g \in S} \cup {A(<<i, l>>)}
      BY Zenon
    <3> QED
      BY <3>1, <3>2 DEF A
  <2>2. {Authorization(g[1], g[2]) : g \in S}' =
          {Authorization(g[1], g[2]) : g \in S \cup {<<i, l>>}}
    <3>1. \A g \in S \cup {<<i, l>>} : Authorization(g[1], g[2])' = Authorization(g[1], g[2])
      BY <1>2, IndexFacts
    <3> QED
      BY <1>3, <3>1
  <2> QED
    BY <1>1, <2>1, <2>2 DEF AuthorizationInv, MessagesInv
<1> QED
  BY <1>2, <1>4 DEF AuthorizationInv

\* Confirming a leg leaves it executed.
LEMMA ConfirmLegAuthorizationInv ==
  ASSUME NEW signer \in Keys, NEW i \in IntentIds, NEW l \in LegIds,
         IInv, AuthorizationInv, ConfirmLeg(signer, i, l)
  PROVE  AuthorizationInv'
<1> USE DEF ConfirmLeg, chainVars
<1>1. ASSUME NEW g \in Legs
      PROVE  Executed(g[1], g[2])' <=> Executed(g[1], g[2])
  <2>1. g = <<g[1], g[2]>> /\ leg_status \in [Legs -> LegStatuses]
    BY LegOf DEF IInv, TypeOK
  <2>2. leg_status'[g] = IF g = <<i, l>> THEN "Confirmed" ELSE leg_status[g]
    BY <2>1
  <2> QED
    BY <2>1, <2>2 DEF Executed
<1> QED
  BY <1>1, AuthorizationStable

LEMMA NextAuthorizationInv == IInv /\ AuthorizationInv /\ [Next]_vars => AuthorizationInv'
<1> SUFFICES ASSUME IInv, AuthorizationInv, [Next]_vars
             PROVE  AuthorizationInv'
  OBVIOUS
<1>1. ASSUME UNCHANGED <<message_approvals, terms, legVars, deployment>>
      PROVE  AuthorizationInv'
  BY <1>1, AuthorizationStable DEF legVars, Executed
<1>2. ASSUME \/ \E cfg \in AssetConfigs : InitAsset(cfg)
             \/ \E k \in Keys, i \in IntentIds : ApproveIntent(k, i)
             \/ Tick \/ UNCHANGED vars
             \/ \E c \in ChainIds, x \in Amounts : HolderReturns(c, x)
      PROVE  AuthorizationInv'
  BY <1>1, <1>2 DEF InitAsset, ApproveIntent, Tick, HolderReturns, vars, ledgerVars, chainVars,
                    intentVars
<1> QED
  BY <1>2, AddChainAuthorizationInv, CreateIntentAuthorizationInv, ExecuteNativeLegAuthorizationInv,
     ExecuteForeignLegAuthorizationInv, ConfirmLegAuthorizationInv DEF Next

\* instructions.rs:689-745, digest.rs:48-52 for as many intents as there are
\* nonces: Ika is asked to sign exactly the executed foreign legs, each once,
\* and a controller that honours a nonce once honours each leg once.
THEOREM OneAuthorizationPerLegHolds == Spec => []OneAuthorizationPerLeg
<1>1. IInv /\ AuthorizationInv => OneAuthorizationPerLeg
  <2> SUFFICES ASSUME AuthorizationInv PROVE OneAuthorizationPerLeg
    OBVIOUS
  <2>1. message_approvals = {Authorization(g[1], g[2]) : g \in {h \in Legs : Asked(h)}}
    BY DEF AuthorizationInv, MessagesInv
  <2>2. ASSUME NEW a \in message_approvals, NEW b \in message_approvals, a.nonce = b.nonce
        PROVE  a = b
    <3>1. PICK g \in Legs : a = Authorization(g[1], g[2])
      BY <2>1
    <3>2. PICK h \in Legs : b = Authorization(h[1], h[2])
      BY <2>1
    <3>3. LegNonce(g[1], g[2]) = LegNonce(h[1], h[2])
      BY <2>2, <3>1, <3>2 DEF Authorization
    <3> QED
      BY <3>1, <3>2, <3>3, LegOf, NoncesDiffer
  <2> QED
    BY <2>1, <2>2 DEF OneAuthorizationPerLeg, Asked, ChainOf
<1> QED
  BY <1>1, InitAuthorizationInv, NextAuthorizationInv, SpecIInv, PTL DEF Spec

-----------------------------------------------------------------------------
(***************************************************************************)
(* The book: the global total against the chains and the moves in flight.    *)
(***************************************************************************)

\* The total is what the chains carry plus what is in flight, and within the
\* global cap.
SupplyInv == SupplyAccounting /\ authorized_total <= config.global_cap

LEMMA FiniteIds == IsFiniteSet(ChainIds) /\ IsFiniteSet(IntentIds)
<1>1. 0 \in Int /\ IntentBound - 1 \in Int
  BY ConstantFacts
<1> QED
  BY <1>1, FS_Interval, ConstantsAssumption DEF ConstantsAssumption, IntentIds

\* The summands are numbers.
NumbersOK ==
  /\ \A c \in ChainIds : authorized[c] \in Int
  /\ \A i \in IntentIds : terms[i].amount \in Int /\ InFlightAmount[i] \in Int
  /\ IssuedSum \in Int /\ InFlightSum \in Int

LEMMA SummandTypes == IInv => NumbersOK
<1> SUFFICES ASSUME IInv PROVE NumbersOK
  OBVIOUS
<1>1. \A c \in ChainIds : authorized[c] \in Int
  BY ConstantFacts DEF IInv, TypeOK
<1>2. \A i \in IntentIds : terms[i].amount \in Int
  BY ConstantFacts DEF IInv, TypeOK, Terms, NoTerms
<1>3. \A i \in IntentIds : InFlightAmount[i] \in Int
  BY <1>2 DEF InFlightAmount
<1> QED
  BY <1>1, <1>2, <1>3, FiniteIds, SumIsInt DEF NumbersOK, IssuedSum, InFlightSum

LEMMA NextSummandTypes == IInv' => NumbersOK'
BY SummandTypes, PTL

\* A step that keeps what is in flight keeps its sum.
LEMMA InFlightSame ==
  ASSUME \A i \in IntentIds : InFlightAmount'[i] = InFlightAmount[i]
  PROVE  InFlightSum' = InFlightSum
BY FiniteIds, SumSame DEF InFlightSum

LEMMA InFlightStable ==
  ASSUME NEW i \in IntentIds, terms'[i] = terms[i],
         \A l \in LegIds : leg_status'[<<i, l>>] = leg_status[<<i, l>>]
  PROVE  InFlightAmount'[i] = InFlightAmount[i]
BY DEF InFlightAmount, InFlight, Executed, LegIds

\* A step that changes what one intent has in flight.
LEMMA InFlightChanges ==
  ASSUME IInv, IInv', NEW i \in IntentIds,
         \A j \in IntentIds \ {i} : InFlightAmount'[j] = InFlightAmount[j]
  PROVE  InFlightSum' = InFlightSum - InFlightAmount[i] + InFlightAmount'[i]
<1>1. \A j \in IntentIds : InFlightAmount[j] \in Int /\ InFlightAmount'[j] \in Int
  BY SummandTypes, NextSummandTypes DEF NumbersOK
<1> QED
  BY <1>1, FiniteIds, SumUpdate DEF InFlightSum

\* A step that changes what one chain carries.
LEMMA IssuedChanges ==
  ASSUME IInv, IInv', NEW c \in ChainIds,
         \A d \in ChainIds \ {c} : authorized'[d] = authorized[d]
  PROVE  IssuedSum' = IssuedSum - authorized[c] + authorized'[c]
<1>1. \A d \in ChainIds : authorized[d] \in Int /\ authorized'[d] \in Int
  BY SummandTypes, NextSummandTypes DEF NumbersOK
<1> QED
  BY <1>1, FiniteIds, SumUpdate DEF IssuedSum

LEMMA InitSupplyInv == Init => SupplyInv
<1> SUFFICES ASSUME Init PROVE SupplyInv
  OBVIOUS
<1>1. \A c \in ChainIds : authorized[c] = 0
  BY DEF Init
<1>2. \A i \in IntentIds : InFlightAmount[i] = 0
  BY IndexFacts DEF Init, InFlightAmount, InFlight, Executed, LegIds
<1>3. IssuedSum = 0 /\ InFlightSum = 0
  BY <1>1, <1>2, FiniteIds, SumOfZeros DEF IssuedSum, InFlightSum
<1> QED
  BY <1>1, <1>3 DEF Init, SupplyInv, SupplyAccounting, NoConfig

\* Steps that change neither the supply, nor what is in flight, nor the caps.
LEMMA SupplyStable ==
  ASSUME IInv, SupplyInv, UNCHANGED <<config, authorized_total, chainVars>>,
         \A i \in IntentIds : InFlightAmount'[i] = InFlightAmount[i]
  PROVE  SupplyInv'
<1>1. InFlightSum' = InFlightSum
  BY InFlightSame
<1>2. IssuedSum' = IssuedSum
  BY DEF chainVars, IssuedSum
<1> QED
  BY <1>1, <1>2 DEF SupplyInv, SupplyAccounting

LEMMA InitAssetSupplyInv ==
  ASSUME NEW cfg \in AssetConfigs, IInv, SupplyInv, InitAsset(cfg)
  PROVE  SupplyInv'
<1> USE DEF InitAsset, chainVars, intentVars, legVars
<1>1. InFlightSum' = InFlightSum
  BY InFlightStable, InFlightSame
<1>2. IssuedSum' = IssuedSum
  BY DEF IssuedSum
<1>3. cfg.global_cap \in Nat
  BY ConfigAssumption, ConstantFacts DEF ConfigAssumption, AssetConfig
<1>4. authorized_total <= 0 /\ authorized_total \in Nat
  BY ConstantFacts DEF SupplyInv, Initialized, NoConfig, IInv, TypeOK
<1> QED
  BY <1>1, <1>2, <1>3, <1>4 DEF SupplyInv, SupplyAccounting

\* A new chain brings its seed supply to both sides.
LEMMA AddChainSupplyInv ==
  ASSUME NEW s \in Keys, NEW c \in ChainIds, NEW k \in ChainConfigs[c],
         IInv, SupplyInv, AddChain(s, c, k)
  PROVE  SupplyInv'
<1> USE DEF AddChain, intentVars, legVars
<1>1. IInv'
  BY AddChainIInv
<1>2. InFlightSum' = InFlightSum
  BY InFlightStable, InFlightSame
<1>3. authorized[c] = 0 /\ authorized'[c] = k.authorized
  <2>1. deployment[c].cap = 0
    BY DEF Registered, NoDeployment
  <2> QED
    BY <2>1, ChainFacts DEF IInv, TypeOK
<1>4. k.authorized \in Int
  BY ConfigAssumption, ConstantFacts DEF ConfigAssumption, Deployment
<1>5. IssuedSum' = IssuedSum + k.authorized
  <2>1. \A d \in ChainIds \ {c} : authorized'[d] = authorized[d]
    BY DEF IInv, TypeOK
  <2>2. IssuedSum \in Int
    BY SummandTypes DEF NumbersOK
  <2> QED
    BY <1>1, <1>3, <1>4, <2>1, <2>2, IssuedChanges
<1>6. SupplyAccounting'
  <2>1. IssuedSum \in Int /\ InFlightSum \in Int
    BY SummandTypes DEF NumbersOK
  <2> QED
    BY <1>2, <1>4, <1>5, <2>1 DEF SupplyInv, SupplyAccounting
<1>7. authorized_total' <= config'.global_cap
  BY DEF SeedFits
<1> QED
  BY <1>6, <1>7 DEF SupplyInv

LEMMA CreateIntentSupplyInv ==
  ASSUME NEW t \in Proposals, IInv, SupplyInv, CreateIntent(t)
  PROVE  SupplyInv'
<1> USE DEF CreateIntent, MayCreate
<1>1. ASSUME NEW i \in IntentIds, i = intent_count
      PROVE  InFlightAmount'[i] = InFlightAmount[i]
  <2>1. leg_status[<<i, 0>>] = "None"
    <3>1. ~Created(i)
      BY <1>1, IndexFacts DEF IInv, IntentInv
    <3> QED
      BY <3>1 DEF IInv, IntentInv, LegIds
  <2>2. leg_status'[<<i, 0>>] = "Pending"
    BY <1>1, IndexFacts DEF HasLeg, LegIds
  <2> QED
    BY <2>1, <2>2 DEF InFlightAmount, InFlight, Executed
<1>2. ASSUME NEW i \in IntentIds, i # intent_count
      PROVE  InFlightAmount'[i] = InFlightAmount[i]
  <2>1. terms'[i] = terms[i] /\ \A l \in LegIds : leg_status'[<<i, l>>] = leg_status[<<i, l>>]
    BY <1>2, IndexFacts DEF IInv, TypeOK
  <2> QED
    BY <2>1, InFlightStable
<1> QED
  BY <1>1, <1>2, SupplyStable

\* A confirmation moves nothing: an authorized leg counts as executed already.
LEMMA ConfirmLegSupplyInv ==
  ASSUME NEW s \in Keys, NEW i \in IntentIds, NEW l \in LegIds,
         IInv, SupplyInv, ConfirmLeg(s, i, l)
  PROVE  SupplyInv'
<1> USE DEF ConfirmLeg, assetVars
<1>1. ASSUME NEW j \in IntentIds
      PROVE  InFlightAmount'[j] = InFlightAmount[j]
  <2>1. CASE j = i
    <3>1. \A m \in LegIds : <<i, m>> \in Legs
      BY IndexFacts
    <3>2. \A m \in LegIds : Executed(i, m)' <=> Executed(i, m)
      BY <3>1 DEF Executed, IInv, TypeOK
    <3>3. leg_status'[<<i, 1>>] = "Pending" <=> leg_status[<<i, 1>>] = "Pending"
      BY <3>1 DEF LegIds, IInv, TypeOK
    <3> QED
      BY <2>1, <3>2, <3>3 DEF InFlightAmount, InFlight, LegIds
  <2>2. CASE j # i
    <3>1. \A m \in LegIds : leg_status'[<<j, m>>] = leg_status[<<j, m>>]
      BY <2>2, IndexFacts DEF IInv, TypeOK
    <3> QED
      BY <3>1, InFlightStable
  <2> QED
    BY <2>1, <2>2
<1> QED
  BY <1>1, SupplyStable

\* What a leg adds to its chain, to the total and to what is in flight.
Gained(t, l) == IF LegAction(t, l) = "mint" THEN t.amount ELSE 0 - t.amount
Total(t, l)  == IF t.kind = "Move" THEN 0 ELSE Gained(t, l)
Flown(t, l)  == IF t.kind = "Move" THEN 0 - Gained(t, l) ELSE 0

LEMMA LegInFlight ==
  ASSUME NEW i \in IntentIds, NEW l \in LegIds, NEW s \in {"Authorized", "Confirmed"},
         IInv, StatusInv(i), LegReady(i, l), WriteBack(i, l, s)
  PROVE  InFlightAmount'[i] = InFlightAmount[i] + Flown(terms[i], l)
<1> USE DEF WriteBack
<1>1. /\ leg_status[<<i, l>>] = "Pending" /\ leg_status'[<<i, l>>] = s
      /\ \A m \in LegIds \ {l} : leg_status'[<<i, m>>] = leg_status[<<i, m>>]
  BY IndexFacts DEF LegReady, IInv, TypeOK
<1>2. terms' = terms /\ terms[i].amount \in Int /\ HasLeg(terms[i].kind, l) /\ Created(i)
  BY LegFacts
<1>3. CASE terms[i].kind # "Move"
  BY <1>2, <1>3 DEF InFlightAmount, InFlight, Flown
<1>4. CASE terms[i].kind = "Move" /\ l = 0
  <2>1. leg_status[<<i, 1>>] = "Pending"
    <3>1. leg_status[<<i, 1>>] # "None"
      BY <1>2, <1>4 DEF IInv, IntentInv, HasLeg, LegIds
    <3>2. ~Executed(i, 1)
      BY <1>1, <1>4 DEF StatusInv
    <3>3. leg_status[<<i, 1>>] \in LegStatuses
      BY IndexFacts DEF IInv, TypeOK, LegIds
    <3> QED
      BY <3>1, <3>2, <3>3 DEF LegStatuses, Executed
  <2>2. InFlight(i)' /\ ~InFlight(i)
    BY <1>1, <1>2, <1>4, <2>1 DEF InFlight, Executed, LegIds
  <2> QED
    BY <1>2, <1>4, <2>2 DEF InFlightAmount, Flown, Gained, LegAction
<1>5. CASE terms[i].kind = "Move" /\ l = 1
  <2>1. leg_status[<<i, 0>>] = "Confirmed"
    BY <1>5 DEF LegReady, PreviousConfirmed
  <2>2. InFlight(i) /\ ~InFlight(i)'
    BY <1>1, <1>5, <2>1 DEF InFlight, Executed, LegIds
  <2> QED
    BY <1>2, <1>5, <2>2 DEF InFlightAmount, Flown, Gained, LegAction
<1> QED
  BY <1>3, <1>4, <1>5 DEF LegIds

LEMMA ExecuteLegSupplyInv ==
  ASSUME NEW i \in IntentIds, NEW l \in LegIds, NEW s \in {"Authorized", "Confirmed"},
         IInv, IInv', StatusInv(i), SupplyInv,
         LegReady(i, l), SupplyRules(terms[i], l), WriteBack(i, l, s)
  PROVE  SupplyInv'
<1> DEFINE t == terms[i]
           c == LegChain(terms[i], l)
<1>1. /\ t.amount \in Nat /\ t.amount > 0 /\ c \in ChainIds
      /\ t.kind \in {"Mint", "Burn", "Move"} /\ HasLeg(t.kind, l)
  BY LegFacts DEF Terms, Kinds
<1>2. authorized[c] \in Int /\ authorized_total \in Int /\ IssuedSum \in Int /\ InFlightSum \in Int
  <2>1. authorized_total \in Int
    BY ConstantFacts DEF IInv, TypeOK
  <2> QED
    BY <1>1, <2>1, SummandTypes DEF NumbersOK
<1>3. authorized'[c] = authorized[c] + Gained(t, l)
  BY <1>1, <1>2 DEF WriteBack, NewAuthorized, Gained, IInv, TypeOK
<1>4. IssuedSum' = IssuedSum + Gained(t, l)
  <2>1. \A d \in ChainIds \ {c} : authorized'[d] = authorized[d]
    BY DEF WriteBack, IInv, TypeOK
  <2>2. IssuedSum' = IssuedSum - authorized[c] + authorized'[c]
    BY <1>1, <2>1, IssuedChanges
  <2>3. Gained(t, l) \in Int
    BY <1>1 DEF Gained
  <2> QED
    BY <1>2, <1>3, <2>2, <2>3
<1>5. InFlightSum' = InFlightSum + Flown(t, l)
  <2>1. ASSUME NEW j \in IntentIds \ {i}
        PROVE  InFlightAmount'[j] = InFlightAmount[j]
    <3>1. terms' = terms /\ \A m \in LegIds : leg_status'[<<j, m>>] = leg_status[<<j, m>>]
      BY IndexFacts DEF WriteBack, IInv, TypeOK
    <3> QED
      BY <3>1, InFlightStable
  <2>2. InFlightSum' = InFlightSum - InFlightAmount[i] + InFlightAmount'[i]
    BY <2>1, InFlightChanges
  <2>3. InFlightAmount[i] \in Int /\ Flown(t, l) \in Int
    BY <1>1, SummandTypes DEF NumbersOK, Flown, Gained
  <2> QED
    BY <1>2, <2>2, <2>3, LegInFlight
<1>6. authorized_total' = authorized_total + Total(t, l)
  <2>1. authorized_total' = NewTotal(t, l)
    BY DEF WriteBack
  <2> QED
    BY <1>1, <1>2, <2>1 DEF NewTotal, Total, Gained, LegAction, HasLeg
<1>7. SupplyAccounting'
  <2>1. /\ Total(t, l) = Gained(t, l) + Flown(t, l)
        /\ Total(t, l) \in Int /\ Gained(t, l) \in Int /\ Flown(t, l) \in Int
    BY <1>1 DEF Total, Gained, Flown
  <2> QED
    BY <1>2, <1>4, <1>5, <1>6, <2>1 DEF SupplyInv, SupplyAccounting
<1>8. authorized_total' <= config'.global_cap
  <2>1. config' = config /\ config.global_cap \in Int
    <3>1. config \in AssetConfigs
      BY LegFacts DEF IInv, TypeOK, IntentInv, Initialized
    <3> QED
      BY <3>1, ConfigAssumption, ConstantFacts DEF ConfigAssumption, AssetConfig, WriteBack
  <2>2. t.kind = "Mint" => authorized_total + t.amount <= config.global_cap
    BY DEF SupplyRules, LegAction
  <2>3. authorized_total' = NewTotal(t, l)
    BY DEF WriteBack
  <2> QED
    BY <1>1, <1>2, <2>1, <2>2, <2>3 DEF NewTotal, SupplyInv
<1> QED
  BY <1>7, <1>8 DEF SupplyInv

LEMMA NextSupplyInv == IInv /\ StatusMatchesLegs /\ SupplyInv /\ [Next]_vars => SupplyInv'
<1> SUFFICES ASSUME IInv, StatusMatchesLegs, SupplyInv, [Next]_vars
             PROVE  SupplyInv'
  OBVIOUS
<1>1. IInv'
  BY NextIInv
<1>2. ASSUME NEW s \in Keys, NEW i \in IntentIds, NEW l \in LegIds,
             ExecuteNativeLeg(s, i, l) \/ ExecuteForeignLeg(s, i, l)
      PROVE  SupplyInv'
  BY <1>1, <1>2, ExecuteLegSupplyInv, StatusMatchesLegsByIntent DEF ExecuteNativeLeg, ExecuteForeignLeg
<1>3. ASSUME UNCHANGED <<assetVars, chainVars, terms, legVars>>
      PROVE  SupplyInv'
  <2>1. \A i \in IntentIds : InFlightAmount'[i] = InFlightAmount[i]
    BY <1>3, InFlightStable DEF legVars
  <2> QED
    BY <1>3, <2>1, SupplyStable DEF assetVars
<1>4. ASSUME \/ \E k \in Keys, i \in IntentIds : ApproveIntent(k, i)
             \/ Tick \/ UNCHANGED vars
             \/ \E c \in ChainIds, x \in Amounts : HolderReturns(c, x)
      PROVE  SupplyInv'
  BY <1>3, <1>4 DEF ApproveIntent, Tick, HolderReturns, vars, ledgerVars, intentVars
<1> QED
  BY <1>2, <1>4, InitAssetSupplyInv, AddChainSupplyInv, CreateIntentSupplyInv,
     ConfirmLegSupplyInv DEF Next

LEMMA SpecSupplyInv == Spec => []SupplyInv
BY InitSupplyInv, NextSupplyInv, SpecIInv, StatusMatchesLegsHolds, PTL DEF Spec

\* The global total is what the chains carry plus what is in flight, for every
\* history of intents over any number of chains: executing, failing and
\* confirming legs in any order never loses or invents supply
\* (instructions.rs:609-646, 764-772).
THEOREM SupplyAccountingHolds == Spec => []SupplyAccounting
BY SpecSupplyInv, PTL DEF SupplyInv

\* Every chain stays within its cap, and all chains and moves in flight together
\* within the global cap, though nothing is reserved when an intent is created
\* (instructions.rs:609-646).
THEOREM CapsAreKept == Spec => []CapsHold
<1>1. IInv /\ SupplyInv => CapsHold
  BY DEF IInv, ChainInv, SupplyInv, SupplyAccounting, CapsHold
<1> QED
  BY <1>1, SpecIInv, SpecSupplyInv, PTL
-----------------------------------------------------------------------------
(***************************************************************************)
(* The SDK's copy of the rules.                                              *)
(***************************************************************************)

LEMMA SdkFailuresEmpty ==
  ASSUME NEW t
  PROVE  PolicyPasses(t) <=>
           /\ t.amount # 0
           /\ IsApprover(t.proposer)
           /\ t.kind # "Mint" => Selected(t.src_chain) /\ authorized[t.src_chain] >= t.amount
           /\ ~(t.kind = "Mint" /\ authorized_total + t.amount > config.global_cap)
           /\ t.kind # "Burn" =>
                /\ Selected(t.dst_chain) /\ authorized[t.dst_chain] + t.amount <= deployment[t.dst_chain].cap
                /\ t.src_chain # t.dst_chain
                /\ t.recipient \in deployment[t.dst_chain].allowlist
BY DEF PolicyPasses, SdkFailures, SdkGlobalCapApplies

\* Rule for rule, the mirror is create_intent.
LEMMA MirrorAgrees ==
  ASSUME IInv, Open, NEW t \in Proposals, SourceIsAnAddress(t)
  PROVE  PolicyPasses(t) <=> MayCreate(t)
<1>1. /\ t.kind \in {"Mint", "Burn", "Move"} /\ t.amount \in Nat /\ WellFormed(t)
      /\ t.src_chain \in ChainIds \cup {NoChain} /\ t.dst_chain \in ChainIds \cup {NoChain}
  <2>1. /\ t.kind \in Kinds /\ t.amount \in Amounts /\ WellFormed(t)
        /\ t.src_chain \in ChainIds \cup {NoChain} /\ t.dst_chain \in ChainIds \cup {NoChain}
    BY DEF Proposals
  <2>2. Amounts \subseteq Nat
    BY ConstantFacts
  <2> QED BY <2>1, <2>2 DEF Kinds
<1>2. NoChain \notin ChainIds
  BY ConstantFacts
<1>3. /\ authorized_total \in Nat /\ config.global_cap \in Nat
      /\ \A c \in ChainIds : authorized[c] \in Nat /\ deployment[c].cap \in Nat
  BY ConstantFacts, ConfigAssumption DEF IInv, TypeOK, Deployment, AssetConfig, NoConfig
<1>4. CASE t.kind = "Mint"
  <2>1. t.src_chain = NoChain /\ t.dst_chain \in ChainIds
    BY <1>1, <1>2, <1>4 DEF WellFormed
  <2>2. MayCreate(t) <=>
          /\ IsApprover(t.proposer) /\ t.amount > 0
          /\ Registered(t.dst_chain) /\ authorized_total + t.amount <= config.global_cap
          /\ authorized[t.dst_chain] + t.amount <= deployment[t.dst_chain].cap
          /\ t.recipient \in deployment[t.dst_chain].allowlist
    BY <1>1, <1>4 DEF MayCreate, Open, SourceRules, DestinationRules
  <2> QED BY <1>1, <1>2, <1>3, <1>4, <2>1, <2>2, SdkFailuresEmpty DEF Selected
<1>5. CASE t.kind = "Burn"
  <2>1. t.src_chain \in ChainIds
    BY <1>1, <1>2, <1>5 DEF WellFormed
  <2>2. MayCreate(t) <=>
          /\ IsApprover(t.proposer) /\ t.amount > 0
          /\ Registered(t.src_chain) /\ t.amount <= authorized[t.src_chain]
    BY <1>1, <1>5 DEF MayCreate, Open, SourceRules, DestinationRules, SourceIsAnAddress
  <2> QED BY <1>1, <1>2, <1>3, <1>5, <2>1, <2>2, SdkFailuresEmpty DEF Selected
<1>6. CASE t.kind = "Move"
  <2>1. t.src_chain \in ChainIds /\ t.dst_chain \in ChainIds
    BY <1>1, <1>2, <1>6 DEF WellFormed
  <2>2. MayCreate(t) <=>
          /\ IsApprover(t.proposer) /\ t.amount > 0 /\ t.src_chain # t.dst_chain
          /\ Registered(t.src_chain) /\ t.amount <= authorized[t.src_chain]
          /\ Registered(t.dst_chain)
          /\ authorized[t.dst_chain] + t.amount <= deployment[t.dst_chain].cap
          /\ t.recipient \in deployment[t.dst_chain].allowlist
    BY <1>1, <1>6 DEF MayCreate, Open, SourceRules, DestinationRules, SourceIsAnAddress
  <2> QED BY <1>1, <1>2, <1>3, <1>6, <2>1, <2>2, SdkFailuresEmpty DEF Selected
<1> QED BY <1>1, <1>4, <1>5, <1>6

\* The SDK adds without bound where the program adds in i64: no clock tells.
LEMMA ReadinessAgrees ==
  ASSUME IInv, TimelockFits, Initialized, NEW i \in IntentIds
  PROVE  now >= UnlockAt(i) <=> TimelockOver(i)
<1>1. config.timelock_secs \in Nat /\ config.timelock_secs <= I64Max
  BY ConstantFacts, ConfigAssumption DEF IInv, TypeOK, Initialized, TimelockFits, AssetConfig
<1>2. AsI64(config.timelock_secs) = config.timelock_secs
  BY <1>1, ConstantFacts DEF AsI64
<1>3. now \in Nat /\ now <= I64Max /\ approved_at[i] \in Nat
  BY ConstantsAssumption DEF IInv, TypeOK
<1> QED BY <1>1, <1>2, <1>3, ConstantFacts DEF TimelockOver, Unlock, UnlockAt

\* In every state, for every configuration and every draft, the SDK accepts what
\* create_intent accepts and shows as ready what execute_leg lets past threshold
\* and timelock, as long as the timelock fits the program's signed integer.
THEOREM SdkMirrorsLedgerHolds == ASSUME TimelockFits PROVE Spec => []SdkMirrorsLedger
<1>1. IInv => SdkMirrorsLedger
  <2> SUFFICES ASSUME IInv PROVE SdkMirrorsLedger
    OBVIOUS
  <2>1. ASSUME NEW i \in IntentIds, status[i] \in {"Approved", "Executing"}
        PROVE  ExecutionReady(i) <=> approval_count[i] >= config.threshold /\ TimelockOver(i)
    <3>1. Initialized
      BY <2>1 DEF IInv, IntentInv, Created
    <3> QED BY <3>1, ReadinessAgrees DEF ExecutionReady
  <2> QED BY <2>1, MirrorAgrees DEF SdkMirrorsLedger
<1> QED BY <1>1, SpecIInv, PTL

-----------------------------------------------------------------------------
(***************************************************************************)
(* The history of an intent.                                                 *)
(***************************************************************************)

\* An approval is told by its nonce, and none of a leg is the missing one.
LEMMA ApprovalsDiffer ==
  ASSUME NEW i \in IntentIds, NEW l \in LegIds
  PROVE  /\ Authorization(i, l) # NoApproval
         /\ \A j \in IntentIds, m \in LegIds : Authorization(i, l) = Authorization(j, m) => i = j /\ l = m
         /\ HasApproval(i, l) => ApprovalNamed(i, l) = Authorization(i, l)
<1>1. \A j \in IntentIds, m \in LegIds : Authorization(j, m).nonce = LegNonce(j, m)
  BY DEF Authorization
<1>2. NoApproval.nonce = -1 /\ LegNonce(i, l) # -1
  BY NonceFacts, IndexFacts DEF NoApproval, LegIds
<1> QED BY <1>1, <1>2, NoncesDiffer DEF HasApproval, ApprovalNamed

\* The transactions of intent i that took effect, and the network's for its legs.
OwnTxs(i) ==
  {CreateTx(i)} \cup {ApproveTx(i, k) : k \in ApprovedBy(i)}
  \cup {ExecuteTx(<<i, 0>>, FALSE), ExecuteTx(<<i, 1>>, FALSE), ConfirmTx(<<i, 0>>), ConfirmTx(<<i, 1>>)}
CommitTxs(i) == {CommitTx(Authorization(i, 0)), CommitTx(Authorization(i, 1))}

\* What took effect: the four instructions of an intent, or the network's commit.
LEMMA TxCases ==
  ASSUME NEW committed, NEW r \in Txs(DueLegs, committed), ~r.err
  PROVE  \/ \E j \in IntentIds : r = CreateTx(j)
         \/ \E j \in IntentIds : \E k \in ApprovedBy(j) : r = ApproveTx(j, k)
         \/ \E j \in IntentIds, m \in LegIds : r = ExecuteTx(<<j, m>>, FALSE)
         \/ \E j \in IntentIds, m \in LegIds : r = ConfirmTx(<<j, m>>)
         \/ \E m \in committed : r = CommitTx(m)
<1>1. CASE \E j \in CreatedIntents : r = CreateTx(j)
  BY <1>1 DEF CreatedIntents
<1>2. CASE \E j \in CreatedIntents : \E k \in ApprovedBy(j) : r = ApproveTx(j, k)
  BY <1>2 DEF CreatedIntents
<1>3. CASE \E g \in ExecutedLegs : r = ExecuteTx(g, FALSE)
  BY <1>3, LegOf DEF ExecutedLegs
<1>4. CASE \E g \in DueLegs : r = ExecuteTx(g, TRUE)
  BY <1>4 DEF ExecuteTx, Transaction
<1>5. CASE \E g \in Reported : r = ConfirmTx(g)
  BY <1>5, LegOf DEF Reported, ExecutedLegs
<1>6. CASE \E m \in committed : r = CommitTx(m)
  BY <1>6
<1> DEFINE C == {CreateTx(j) : j \in CreatedIntents}
           A == UNION {{ApproveTx(j, k) : k \in ApprovedBy(j)} : j \in CreatedIntents}
           E == {ExecuteTx(g, FALSE) : g \in ExecutedLegs}
           F == {ExecuteTx(g, TRUE) : g \in DueLegs}
           R == {ConfirmTx(g) : g \in Reported}
           M == {CommitTx(m) : m \in committed}
<1>7. r \in A => \E j \in CreatedIntents : \E k \in ApprovedBy(j) : r = ApproveTx(j, k)
  OBVIOUS
<1>8. Txs(DueLegs, committed) = C \cup A \cup E \cup F \cup R \cup M
  BY DEF Txs
<1>9. r \in C \/ r \in A \/ r \in E \/ r \in F \/ r \in R \/ r \in M
  <2> HIDE DEF C, A, E, F, R, M
  <2> QED BY <1>8
<1> QED
  BY <1>1, <1>2, <1>3, <1>4, <1>5, <1>6, <1>7, <1>9

\* A transaction that took effect is the network's commit, or belongs to one
\* intent and names the MessageApproval of a leg of that intent at most.
LEMMA TxFacts ==
  ASSUME NEW committed, NEW r \in Txs(DueLegs, committed), ~r.err, NEW i \in IntentIds
  PROVE  /\ r.intent = i => r.ix # "CommitSignature" /\ r \in OwnTxs(i)
         /\ r.ix = "CommitSignature" => r.intent # i /\ r = CommitTx(r.approval)
         /\ \A l \in LegIds : r.approval = Authorization(i, l) => r.ix = "CommitSignature" \/ r.intent = i
<1>n. NoIntent # i
  BY IndexFacts DEF NoIntent
<1>1. CASE \E j \in IntentIds : r = CreateTx(j)
  <2>1. PICK j \in IntentIds : r = CreateTx(j)
    BY <1>1
  <2>2. r.intent = j /\ r.ix = "create" /\ r.approval = NoApproval
    BY <2>1 DEF CreateTx, Transaction
  <2>3. j = i => r \in OwnTxs(i)
    BY <2>1 DEF OwnTxs
  <2> QED BY <2>2, <2>3, ApprovalsDiffer
<1>2. CASE \E j \in IntentIds : \E k \in ApprovedBy(j) : r = ApproveTx(j, k)
  <2>1. PICK j \in IntentIds : \E k \in ApprovedBy(j) : r = ApproveTx(j, k)
    BY <1>2
  <2>2. r.intent = j /\ r.ix = "approve" /\ r.approval = NoApproval
    BY <2>1 DEF ApproveTx, Transaction
  <2>3. j = i => r \in OwnTxs(i)
    BY <2>1 DEF OwnTxs
  <2> QED BY <2>2, <2>3, ApprovalsDiffer
<1>3. CASE \E j \in IntentIds, m \in LegIds : r = ExecuteTx(<<j, m>>, FALSE)
  <2>1. PICK j \in IntentIds, m \in LegIds : r = ExecuteTx(<<j, m>>, FALSE)
    BY <1>3
  <2>2. r.intent = j /\ r.ix = "execute" /\ r.approval = ApprovalNamed(j, m)
    BY <2>1 DEF ExecuteTx, Transaction
  <2>3. r.approval \in {Authorization(j, m), NoApproval}
    BY <2>2 DEF ApprovalNamed
  <2>4. \A l \in LegIds : r.approval = Authorization(i, l) => j = i
    BY <2>3, ApprovalsDiffer
  <2>5. j = i => r \in OwnTxs(i)
    BY <2>1 DEF OwnTxs, LegIds
  <2> QED BY <2>2, <2>4, <2>5
<1>4. CASE \E j \in IntentIds, m \in LegIds : r = ConfirmTx(<<j, m>>)
  <2>1. PICK j \in IntentIds, m \in LegIds : r = ConfirmTx(<<j, m>>)
    BY <1>4
  <2>2. r.intent = j /\ r.ix = "confirm" /\ r.approval = NoApproval
    BY <2>1 DEF ConfirmTx, Transaction
  <2>3. j = i => r \in OwnTxs(i)
    BY <2>1 DEF OwnTxs, LegIds
  <2> QED BY <2>2, <2>3, ApprovalsDiffer
<1>5. CASE \E m \in committed : r = CommitTx(m)
  BY <1>5, <1>n DEF CommitTx, Transaction
<1> QED BY <1>1, <1>2, <1>3, <1>4, <1>5, TxCases

LEMMA PairConcat ==
  ASSUME NEW a, NEW b
  PROVE  <<a>> \o <<b>> = <<a, b>>
<1> DEFINE s == <<a>> \o <<b>>
<1>1. <<a>> \in Seq({a, b}) /\ <<b>> \in Seq({a, b}) /\ Len(<<a>>) = 1 /\ Len(<<b>>) = 1
  OBVIOUS
<1>2. s \in Seq({a, b}) /\ Len(s) = 2
  BY <1>1, ConcatProperties
<1>3. s[1] = a /\ s[2] = b
  BY <1>1, ConcatProperties
<1> HIDE DEF s
<1>4. s = <<a, b>>
  BY <1>2, <1>3
<1> QED BY <1>4 DEF s

\* The list of MessageApprovals has each leg's once.
LEMMA ApprovalsList ==
  ASSUME NEW i \in IntentIds
  PROVE  /\ \A n \in DOMAIN Approvals(i) : \E l \in LegIds : HasApproval(i, l) /\ Approvals(i)[n] = Authorization(i, l)
         /\ \A l \in LegIds : HasApproval(i, l) => \E n \in DOMAIN Approvals(i) : Approvals(i)[n] = Authorization(i, l)
         /\ \A m, n \in DOMAIN Approvals(i) : Approvals(i)[m] = Approvals(i)[n] => m = n
<1>1. Authorization(i, 0) # Authorization(i, 1)
  BY ApprovalsDiffer DEF LegIds
<1>2. CASE HasApproval(i, 0) /\ HasApproval(i, 1)
  <2>1. Approvals(i) = <<Authorization(i, 0), Authorization(i, 1)>>
    BY <1>2, PairConcat DEF Approvals, ApprovalOf
  <2> QED BY <1>1, <1>2, <2>1 DEF LegIds
<1>3. CASE HasApproval(i, 0) /\ ~HasApproval(i, 1)
  <2>1. Approvals(i) = <<Authorization(i, 0)>>
    BY <1>3 DEF Approvals, ApprovalOf
  <2> QED BY <1>3, <2>1 DEF LegIds
<1>4. CASE ~HasApproval(i, 0) /\ HasApproval(i, 1)
  <2>1. Approvals(i) = <<Authorization(i, 1)>>
    BY <1>4 DEF Approvals, ApprovalOf
  <2> QED BY <1>4, <2>1 DEF LegIds
<1>5. CASE ~HasApproval(i, 0) /\ ~HasApproval(i, 1)
  <2>1. Approvals(i) = <<>>
    BY <1>5 DEF Approvals, ApprovalOf
  <2> QED BY <1>5, <2>1 DEF LegIds
<1> QED BY <1>2, <1>3, <1>4, <1>5

\* What an entry of either kind shows: each transaction in at most one entry.
LEMMA OwnEntryFacts ==
  ASSUME NEW committed, NEW i \in IntentIds
  PROVE  LET txs == Txs(DueLegs, committed) IN
         /\ \A e \in OwnEntries(txs, i) :
              /\ e.tx \in txs /\ ~e.tx.err /\ e.tx.intent = i
              /\ e = HistoryEntry(e.tx, e.tx.ix, LegShown(e.tx))
              /\ e.kind = KindShown(e.tx)
         /\ \A r \in txs : ~r.err /\ r.intent = i => HistoryEntry(r, r.ix, LegShown(r)) \in OwnEntries(txs, i)
<1> DEFINE txs == Txs(DueLegs, committed)
<1>1. OwnEntries(txs, i)
        = {HistoryEntry(r, r.ix, LegShown(r)) : r \in {q \in txs : q.intent = i /\ ~q.err}}
  BY DEF OwnEntries, Succeeded
<1>2. ASSUME NEW r \in txs, ~r.err, r.intent = i
      PROVE  r.ix # "CommitSignature"
  BY <1>2, TxFacts
<1>3. \A r, kind, l : HistoryEntry(r, kind, l).tx = r /\ HistoryEntry(r, kind, l).kind = kind
  BY DEF HistoryEntry
<1> HIDE DEF txs
<1>4. ASSUME NEW e \in OwnEntries(txs, i)
      PROVE  /\ e.tx \in txs /\ ~e.tx.err /\ e.tx.intent = i
             /\ e = HistoryEntry(e.tx, e.tx.ix, LegShown(e.tx))
             /\ e.kind = KindShown(e.tx)
  <2>1. PICK r \in txs : /\ ~r.err /\ r.intent = i
                         /\ e = HistoryEntry(r, r.ix, LegShown(r))
    BY <1>1
  <2>2. e.tx = r /\ e.kind = r.ix
    BY <2>1, <1>3
  <2> QED BY <1>2, <2>1, <2>2 DEF KindShown
<1>5. ASSUME NEW r \in txs, ~r.err, r.intent = i
      PROVE  HistoryEntry(r, r.ix, LegShown(r)) \in OwnEntries(txs, i)
  BY <1>1, <1>5
<1> QED BY <1>4, <1>5 DEF txs

LEMMA IkaEntryFacts ==
  ASSUME NEW committed, NEW i \in IntentIds
  PROVE  LET txs == Txs(DueLegs, committed) IN
         /\ \A e \in IkaEntries(txs, i) :
              /\ e.tx \in txs /\ ~e.tx.err /\ e.tx.intent # i
              /\ e.tx.ix = "CommitSignature" /\ e.kind = KindShown(e.tx)
              /\ \E l \in LegIds : HasApproval(i, l) /\ e.tx.approval = Authorization(i, l)
              /\ \A f \in IkaEntries(txs, i) : e.tx = f.tx => e = f
         /\ \A r \in txs, l \in LegIds :
              ~r.err /\ r.ix = "CommitSignature" /\ HasApproval(i, l) /\ r.approval = Authorization(i, l)
                => \E e \in IkaEntries(txs, i) : e.tx = r
<1> DEFINE txs    == Txs(DueLegs, committed)
           listed == Approvals(i)
           own    == {e.tx : e \in OwnEntries(txs, i)}
           new(n) == {r \in txs : r.approval = listed[n] /\ ~r.err /\ r \notin own}
<1>1. \A e : e \in IkaEntries(txs, i)
              <=> \E n \in DOMAIN listed : \E r \in new(n) : e = HistoryEntry(r, "ika-sign", n - 1)
  <2> DEFINE named(n) == Succeeded({s \in txs : s.approval = listed[n]}) \ own
  <2>1. IkaEntries(txs, i) = UNION {{HistoryEntry(r, "ika-sign", n - 1) : r \in named(n)} : n \in DOMAIN listed}
    BY DEF IkaEntries
  <2>2. \A n \in DOMAIN listed : named(n) = new(n)
    BY DEF Succeeded
  <2> HIDE DEF named, new, listed
  <2> QED BY <2>1, <2>2
<1>2. /\ \A r \in own : r \in txs /\ r.intent = i
      /\ \A r \in txs : ~r.err /\ r.intent = i => r \in own
  <2>1. \A r \in txs : HistoryEntry(r, r.ix, LegShown(r)).tx = r
    BY DEF HistoryEntry
  <2> QED BY <2>1, OwnEntryFacts
<1>3. ASSUME NEW r \in txs, ~r.err
      PROVE  /\ r.ix = "CommitSignature" => r.intent # i
             /\ \A l \in LegIds : r.approval = Authorization(i, l) => r.ix = "CommitSignature" \/ r.intent = i
  BY <1>3, TxFacts
<1>4. \A r, kind, l : HistoryEntry(r, kind, l).tx = r /\ HistoryEntry(r, kind, l).kind = kind
  BY DEF HistoryEntry
<1>5. /\ \A n \in DOMAIN listed : \E l \in LegIds : HasApproval(i, l) /\ listed[n] = Authorization(i, l)
      /\ \A l \in LegIds : HasApproval(i, l) => \E n \in DOMAIN listed : listed[n] = Authorization(i, l)
      /\ \A m, n \in DOMAIN listed : listed[m] = listed[n] => m = n
  BY ApprovalsList
<1> HIDE DEF txs, listed, own
<1>6. ASSUME NEW e \in IkaEntries(txs, i)
      PROVE  \E n \in DOMAIN listed :
               /\ e = HistoryEntry(e.tx, "ika-sign", n - 1) /\ e.tx.approval = listed[n]
               /\ e.tx \in txs /\ ~e.tx.err /\ e.tx \notin own
  <2>1. PICK n \in DOMAIN listed : \E r \in new(n) : e = HistoryEntry(r, "ika-sign", n - 1)
    BY <1>1
  <2>2. PICK r \in new(n) : e = HistoryEntry(r, "ika-sign", n - 1)
    BY <2>1
  <2>3. e.tx = r
    BY <2>2, <1>4
  <2> QED BY <2>2, <2>3
<1>7. ASSUME NEW e \in IkaEntries(txs, i)
      PROVE  /\ e.tx \in txs /\ ~e.tx.err /\ e.tx.intent # i
             /\ e.tx.ix = "CommitSignature" /\ e.kind = KindShown(e.tx)
             /\ \E l \in LegIds : HasApproval(i, l) /\ e.tx.approval = Authorization(i, l)
  <2>1. PICK n \in DOMAIN listed :
               /\ e = HistoryEntry(e.tx, "ika-sign", n - 1) /\ e.tx.approval = listed[n]
               /\ e.tx \in txs /\ ~e.tx.err /\ e.tx \notin own
    BY <1>6
  <2>2. \E l \in LegIds : HasApproval(i, l) /\ e.tx.approval = Authorization(i, l)
    BY <2>1, <1>5
  <2>3. e.tx.intent # i /\ e.tx.ix = "CommitSignature"
    BY <2>1, <2>2, <1>2, <1>3
  <2>4. e.kind = "ika-sign"
    BY <2>1, <1>4
  <2> QED BY <2>1, <2>2, <2>3, <2>4 DEF KindShown
<1>8. ASSUME NEW e \in IkaEntries(txs, i), NEW f \in IkaEntries(txs, i), e.tx = f.tx
      PROVE  e = f
  <2>1. PICK m \in DOMAIN listed : e = HistoryEntry(e.tx, "ika-sign", m - 1) /\ e.tx.approval = listed[m]
    BY <1>6
  <2>2. PICK n \in DOMAIN listed : f = HistoryEntry(f.tx, "ika-sign", n - 1) /\ f.tx.approval = listed[n]
    BY <1>6
  <2>3. m = n
    BY <1>5, <1>8, <2>1, <2>2
  <2> QED BY <1>8, <2>1, <2>2, <2>3
<1>9. ASSUME NEW r \in txs, NEW l \in LegIds, ~r.err, r.ix = "CommitSignature",
             HasApproval(i, l), r.approval = Authorization(i, l)
      PROVE  \E e \in IkaEntries(txs, i) : e.tx = r
  <2>1. PICK n \in DOMAIN listed : listed[n] = r.approval
    BY <1>5, <1>9
  <2>2. r \in new(n)
    BY <1>2, <1>3, <1>9, <2>1
  <2>3. HistoryEntry(r, "ika-sign", n - 1) \in IkaEntries(txs, i)
    BY <1>1, <2>2
  <2> QED BY <1>4, <2>3
<1> QED BY <1>7, <1>8, <1>9 DEF txs

\* One intent has a finite number of transactions, however many legs fail.
LEMMA OwnTxsFinite ==
  ASSUME IInv, NEW i \in IntentIds
  PROVE  IsFiniteSet(OwnTxs(i) \cup CommitTxs(i))
<1>1. approvals[i] \subseteq 1 .. MAX_APPROVERS
  BY DEF IInv, TypeOK
<1>2. IsFiniteSet(approvals[i])
  <2>1. IsFiniteSet(1 .. MAX_APPROVERS)
    <3>1. 1 \in Int /\ MAX_APPROVERS \in Int
      BY DEF MAX_APPROVERS
    <3> QED BY <3>1, FS_Interval
  <2>2. approvals[i] \in SUBSET (1 .. MAX_APPROVERS)
    BY <1>1
  <2> QED BY <2>1, <2>2, FS_Subset
<1>3. IsFiniteSet(ApprovedBy(i))
  <2> DEFINE f == [n \in approvals[i] |-> config.approvers[n]]
  <2>1. f \in Surjection(approvals[i], ApprovedBy(i))
    BY DEF ApprovedBy, Surjection
  <2> QED BY <1>2, <2>1, FS_Surjection
<1> DEFINE votes == {ApproveTx(i, k) : k \in ApprovedBy(i)}
<1>4. IsFiniteSet(votes)
  <2> DEFINE f == [k \in ApprovedBy(i) |-> ApproveTx(i, k)]
  <2>1. f \in Surjection(ApprovedBy(i), votes)
    BY DEF Surjection
  <2> QED BY <1>3, <2>1, FS_Surjection
<1>5. \A S, x : IsFiniteSet(S) => IsFiniteSet(S \cup {x})
  BY FS_Singleton, FS_Union
<1> HIDE DEF votes
<1>6. OwnTxs(i) \cup CommitTxs(i)
        = votes \cup {CreateTx(i)} \cup {ExecuteTx(<<i, 0>>, FALSE)} \cup {ExecuteTx(<<i, 1>>, FALSE)}
          \cup {ConfirmTx(<<i, 0>>)} \cup {ConfirmTx(<<i, 1>>)}
          \cup {CommitTx(Authorization(i, 0))} \cup {CommitTx(Authorization(i, 1))}
  BY DEF OwnTxs, CommitTxs, votes
<1> QED BY <1>4, <1>5, <1>6

LEMMA HistoryOf ==
  ASSUME IInv, NEW committed, NEW i \in IntentIds
  PROVE  LET txs      == Txs(DueLegs, committed)
             shown    == ActivityOf(txs, i)
             happened == Happened(txs, i)
         IN  /\ {e.tx : e \in shown} = happened
             /\ \A e \in shown : e.kind = KindShown(e.tx)
             /\ Cardinality(shown) = Cardinality(happened)
<1> DEFINE txs      == Txs(DueLegs, committed)
           own      == OwnEntries(txs, i)
           ika      == IkaEntries(txs, i)
           shown    == ActivityOf(txs, i)
           happened == Happened(txs, i)
<1>1. shown = own \cup ika
  BY DEF ActivityOf
<1>2. happened = {r \in txs : ~r.err /\ (r.intent = i \/ \E l \in LegIds :
                    HasApproval(i, l) /\ r.ix = "CommitSignature" /\ r.approval = Authorization(i, l))}
  BY DEF Happened
<1>3. /\ \A e \in own : /\ e.tx \in txs /\ ~e.tx.err /\ e.tx.intent = i
                        /\ e = HistoryEntry(e.tx, e.tx.ix, LegShown(e.tx)) /\ e.kind = KindShown(e.tx)
      /\ \A r \in txs : ~r.err /\ r.intent = i => \E e \in own : e.tx = r
  <2>1. \A r \in txs : HistoryEntry(r, r.ix, LegShown(r)).tx = r
    BY DEF HistoryEntry
  <2> QED BY <2>1, OwnEntryFacts
<1>4. /\ \A e \in ika : /\ e.tx \in txs /\ ~e.tx.err /\ e.tx.intent # i
                        /\ e.tx.ix = "CommitSignature" /\ e.kind = KindShown(e.tx)
                        /\ \E l \in LegIds : HasApproval(i, l) /\ e.tx.approval = Authorization(i, l)
                        /\ \A f \in ika : e.tx = f.tx => e = f
      /\ \A r \in txs, l \in LegIds :
           ~r.err /\ r.ix = "CommitSignature" /\ HasApproval(i, l) /\ r.approval = Authorization(i, l)
             => \E e \in ika : e.tx = r
  BY IkaEntryFacts
<1>5. happened \subseteq OwnTxs(i) \cup CommitTxs(i)
  <2>1. ASSUME NEW r \in happened PROVE r \in OwnTxs(i) \cup CommitTxs(i)
    <3>1. r \in txs /\ ~r.err
      BY <1>2, <2>1
    <3>2. CASE r.intent = i
      BY <3>1, <3>2, TxFacts
    <3>3. CASE \E l \in LegIds : r.ix = "CommitSignature" /\ r.approval = Authorization(i, l)
      <4>1. PICK l \in LegIds : r.ix = "CommitSignature" /\ r.approval = Authorization(i, l)
        BY <3>3
      <4>2. r = CommitTx(Authorization(i, l))
        BY <3>1, <4>1, TxFacts
      <4> QED BY <4>2 DEF CommitTxs, LegIds
    <3> QED BY <1>2, <2>1, <3>2, <3>3
  <2> QED BY <2>1
<1> HIDE DEF txs, own, ika, shown, happened
<1>6. {e.tx : e \in shown} = happened
  <2>1. \A e \in shown : e.tx \in happened
    BY <1>1, <1>2, <1>3, <1>4
  <2>2. \A r \in happened : \E e \in shown : e.tx = r
    BY <1>1, <1>2, <1>3, <1>4
  <2> QED BY <2>1, <2>2
<1>7. \A e \in shown : e.kind = KindShown(e.tx)
  BY <1>1, <1>3, <1>4
<1>8. Cardinality(shown) = Cardinality(happened)
  <2> DEFINE f == [e \in shown |-> e.tx]
  <2>1. \A d, e \in shown : d.tx = e.tx => d = e
    BY <1>1, <1>3, <1>4
  <2>2. f \in [shown -> happened] /\ \A r \in happened : \E e \in shown : f[e] = r
    BY <1>6
  <2>3. f \in Bijection(shown, happened)
    BY <2>1, <2>2 DEF Bijection, Injection, Surjection, IsInjective
  <2>4. ExistsBijection(happened, shown)
    BY <2>3, Fun_ExistsBijSymmetric DEF ExistsBijection
  <2>5. IsFiniteSet(happened)
    BY <1>5, OwnTxsFinite, FS_Subset
  <2> QED BY <2>4, <2>5, FS_Bijection
<1> QED BY <1>6, <1>7, <1>8 DEF txs, shown, happened

\* What the console shows of an intent is every transaction that took effect,
\* once, under its own kind, and nothing of another intent: `activity` in
\* app/src/server/devnet.ts, whichever legs failed on the way and whichever
\* messages the network has signed.
THEOREM HistoryIsCompleteHolds == Spec => []HistoryIsComplete
<1>1. ASSUME IInv PROVE HistoryIsComplete
  BY <1>1, HistoryOf DEF HistoryIsComplete, CreatedIntents
<1> QED BY <1>1, SpecIInv, PTL

-----------------------------------------------------------------------------
(***************************************************************************)
(* The executor.  What it reports to the ledger has happened on the EVM      *)
(* chain, whatever processes race, die or time out and whatever transactions *)
(* land late: for any number of processes, intents and faults.               *)
(***************************************************************************)

\* The message Ika signs for an authorization.
SignedFor(a) == EVM!Digest(AuthorizationFor(a))

\* The nonce of a message names its leg.
LEMMA MessageNonce ==
  /\ \A a : SignedFor(a).nonce = a.nonce
  /\ \A i, l : Message(i, l) = SignedFor(Authorization(i, l)) /\ Authorization(i, l).nonce = LegNonce(i, l)
BY DEF Message, SignedFor, EVM!Digest, AuthorizationFor, Authorization

LEMMA MessageStable ==
  ASSUME NEW i \in IntentIds, NEW l \in LegIds, terms'[i] = terms[i]
  PROVE  Message(i, l)' = Message(i, l)
BY DEF Message, EVM!Digest, AuthorizationFor, Authorization, LegChain, LegAction, LegAccount, LegNonce

-----------------------------------------------------------------------------
(* The inductive invariant.                                                  *)

\* The dWallet has signed approved messages only, the contract has honoured
\* signed messages only, and the used nonces are those of the messages it
\* honoured.
DeliveryInv ==
  /\ \A s \in signatures : \E a \in message_approvals : s = SignedFor(a)
  /\ delivered \subseteq signatures
  /\ usedNonces = {m.nonce : m \in delivered}

Steps == {"idle", "load", "check", "executing", "sign", "find", "delivering", "confirming"}
Jobs  == [step : Steps, intent : IntentIds, legs : Seq(LegIds)]

\* A process that is about to confirm a leg, or did so before it died, has
\* seen that leg delivered.
JobInv(w) ==
  job[w].step # "idle" =>
    /\ job[w].legs # <<>>
    /\ job[w].step = "confirming" => Message(Intent(w), Leg(w)) \in delivered
OrphanInv(tx) ==
  /\ tx.intent \in IntentIds /\ tx.leg \in LegIds
  /\ tx.step = "confirming" => Message(tx.intent, tx.leg) \in delivered

WorkersInv ==
  /\ job \in [Workers -> Jobs] /\ \A w \in Workers : JobInv(w)
  /\ \A tx \in orphans : OrphanInv(tx)

SystemInv == IInv /\ AuthorizationInv /\ DeliveryInv /\ ConfirmedWasDelivered /\ WorkersInv

\* What Ika may sign is the message of an executed foreign leg, named by its nonce.
LEMMA ApprovedLeg ==
  ASSUME AuthorizationInv, NEW a \in message_approvals
  PROVE  \E i \in IntentIds, l \in LegIds :
           a = Authorization(i, l) /\ Executed(i, l) /\ IsForeign(i, l)
<1>1. PICK g \in Legs : Asked(g) /\ a = Authorization(g[1], g[2])
  BY DEF AuthorizationInv, MessagesInv
<1> QED
  BY <1>1, LegOf DEF Asked, ChainOf, IsForeign

LEMMA ApprovedByNonce ==
  ASSUME AuthorizationInv, NEW a \in message_approvals,
         NEW i \in IntentIds, NEW l \in LegIds, a.nonce = LegNonce(i, l)
  PROVE  a = Authorization(i, l) /\ Executed(i, l) /\ IsForeign(i, l)
<1>1. PICK j \in IntentIds, m \in LegIds :
        a = Authorization(j, m) /\ Executed(j, m) /\ IsForeign(j, m)
  BY ApprovedLeg
<1>2. LegNonce(i, l) = LegNonce(j, m)
  BY <1>1, MessageNonce
<1> QED
  BY <1>1, <1>2, NoncesDiffer

LEMMA SignedIsApproved ==
  ASSUME AuthorizationInv, DeliveryInv,
         NEW i \in IntentIds, NEW l \in LegIds, Message(i, l) \in signatures
  PROVE  Authorization(i, l) \in message_approvals /\ Executed(i, l) /\ IsForeign(i, l)
<1>1. PICK a \in message_approvals : Message(i, l) = SignedFor(a)
  BY DEF DeliveryInv
<1>2. a.nonce = LegNonce(i, l)
  BY <1>1, MessageNonce
<1> QED
  BY <1>2, ApprovedByNonce

\* A message that was honoured, or whose nonce is used, is that of an executed leg.
LEMMA DeliveredIsExecuted ==
  ASSUME AuthorizationInv, DeliveryInv,
         NEW i \in IntentIds, NEW l \in LegIds, Message(i, l) \in delivered
  PROVE  Executed(i, l)
BY SignedIsApproved DEF DeliveryInv

LEMMA UsedIsDelivered ==
  ASSUME AuthorizationInv, DeliveryInv,
         NEW i \in IntentIds, NEW l \in LegIds, LegNonce(i, l) \in usedNonces
  PROVE  Message(i, l) \in delivered
<1>1. PICK s \in delivered : s.nonce = LegNonce(i, l)
  BY DEF DeliveryInv
<1>2. PICK a \in message_approvals : s = SignedFor(a)
  BY DEF DeliveryInv
<1>3. a = Authorization(i, l)
  BY <1>1, <1>2, MessageNonce, ApprovedByNonce
<1> QED
  BY <1>2, <1>3, MessageNonce

-----------------------------------------------------------------------------
(* What a step of the ledger does to the rest.                               *)

LEMMA CreatedWhenExecuted ==
  ASSUME NEW i \in IntentIds, NEW l \in LegIds, IInv, Executed(i, l)
  PROVE  Created(i)
BY DEF IInv, IntentInv, Executed

LEMMA ExecutedStays ==
  ASSUME IInv, [Next]_vars, NEW i \in IntentIds, NEW l \in LegIds, Executed(i, l)
  PROVE  Executed(i, l)' /\ terms'[i] = terms[i]
<1>1. Created(i) /\ Advances(i)
  BY CreatedWhenExecuted, NextAdvances
<1>2. IInv'
  BY NextIInv
<1>3. <<i, l>> \in Legs
  BY IndexFacts
<1>4. leg_status[<<i, l>>] \in LegStatuses /\ leg_status'[<<i, l>>] \in LegStatuses
  BY <1>2, <1>3 DEF IInv, TypeOK
<1>5. LegRank(leg_status[<<i, l>>]) <= LegRank(leg_status'[<<i, l>>])
  BY <1>1 DEF Advances
<1> QED
  BY <1>1, <1>4, <1>5 DEF Advances, Executed, LegRank, LegStatuses

\* A leg that was delivered stays the leg it was.
LEMMA DeliveredStays ==
  ASSUME IInv, AuthorizationInv, DeliveryInv, [Next]_vars, delivered \subseteq delivered',
         NEW i \in IntentIds, NEW l \in LegIds, Message(i, l) \in delivered
  PROVE  Message(i, l)' \in delivered'
BY DeliveredIsExecuted, ExecutedStays, MessageStable

\* Ika is never asked to take an approval back.
LEMMA ApprovalsStay == [Next]_vars => message_approvals \subseteq message_approvals'
BY DEF Next, vars, ledgerVars, InitAsset, AddChain, CreateIntent, MayCreate, ApproveIntent, ExecuteNativeLeg,
       ExecuteForeignLeg, ConfirmLeg, Tick, HolderReturns

LEMMA LedgerStepDelivery ==
  ASSUME DeliveryInv, [Next]_vars, UNCHANGED evmVars
  PROVE  DeliveryInv'
BY ApprovalsStay DEF DeliveryInv, SignedFor, EVM!Digest, AuthorizationFor, evmVars

\* The legs that are confirmed on the foreign chain.
ConfirmedForeign(i, l) == leg_status[<<i, l>>] = "Confirmed" /\ IsForeign(i, l)

\* Only confirm_leg adds to them.
Configures ==
  \/ \E cfg \in AssetConfigs : InitAsset(cfg)
  \/ \E k \in Keys, i \in IntentIds : ApproveIntent(k, i)
  \/ Tick
  \/ UNCHANGED vars

LEMMA ConfiguresConfirms ==
  ASSUME NEW i \in IntentIds, NEW l \in LegIds, Configures, ConfirmedForeign(i, l)'
  PROVE  ConfirmedForeign(i, l)
<1>1. UNCHANGED <<leg_status, terms, deployment>>
  BY DEF Configures, InitAsset, ApproveIntent, Tick, vars, ledgerVars, chainVars, intentVars, legVars
<1> QED
  BY <1>1 DEF ConfirmedForeign, IsForeign, LegChain, LegAction

LEMMA AddChainConfirms ==
  ASSUME NEW i \in IntentIds, NEW l \in LegIds, IInv, AuthorizationInv,
         NEW c \in ChainIds, NEW k \in ChainConfigs[c], AddChain(Admin, c, k),
         ConfirmedForeign(i, l)'
  PROVE  ConfirmedForeign(i, l)
<1>1. leg_status' = leg_status /\ terms' = terms /\ deployment' = [deployment EXCEPT ![c] = k]
  BY DEF AddChain, intentVars, legVars
<1>2. Executed(i, l)
  BY <1>1 DEF ConfirmedForeign, Executed
<1>3. LegChain(terms[i], l) # c
  <2>1. <<i, l>> \in Legs /\ ChainOf(<<i, l>>) = LegChain(terms[i], l)
    BY IndexFacts DEF ChainOf
  <2> QED
    BY <1>2, <2>1 DEF AddChain, AuthorizationInv, RegisteredInv
<1>4. deployment'[LegChain(terms[i], l)] = deployment[LegChain(terms[i], l)]
  BY <1>1, <1>3 DEF IInv, TypeOK
<1> QED
  BY <1>1, <1>4 DEF ConfirmedForeign, IsForeign, LegChain, LegAction

LEMMA CreateIntentConfirms ==
  ASSUME NEW i \in IntentIds, NEW l \in LegIds, IInv, NEW t \in Proposals, CreateIntent(t),
         ConfirmedForeign(i, l)'
  PROVE  ConfirmedForeign(i, l)
<1>1. <<i, l>> \in Legs
  BY IndexFacts
<1>2. leg_status' = [g \in Legs |->
          IF g[1] # intent_count THEN leg_status[g]
          ELSE IF HasLeg(t.kind, g[2]) THEN "Pending" ELSE "None"]
  BY DEF CreateIntent, MayCreate
<1>3. i # intent_count /\ leg_status'[<<i, l>>] = leg_status[<<i, l>>]
  BY <1>1, <1>2 DEF ConfirmedForeign
<1>4. terms'[i] = terms[i] /\ deployment' = deployment
  BY <1>3 DEF CreateIntent, MayCreate, chainVars, IInv, TypeOK
<1> QED
  BY <1>3, <1>4 DEF ConfirmedForeign, IsForeign, LegChain, LegAction

LEMMA ExecuteLegConfirms ==
  ASSUME NEW i \in IntentIds, NEW l \in LegIds, IInv,
         NEW j \in IntentIds, NEW m \in LegIds, ExecuteLeg(j, m), ConfirmedForeign(i, l)'
  PROVE  ConfirmedForeign(i, l)
<1>1. PICK s \in {"Confirmed", "Authorized"} :
        /\ WriteBack(j, m, s)
        /\ s = "Confirmed" => deployment[LegChain(terms[j], m)].leg_kind = "SolanaNative"
  BY DEF ExecuteLeg, ExecuteNativeLeg, ExecuteForeignLeg
<1>2. /\ leg_status' = [leg_status EXCEPT ![<<j, m>>] = s]
      /\ terms' = terms /\ deployment' = deployment
  BY <1>1 DEF WriteBack
<1>3. IsForeign(i, l)
  BY <1>2 DEF ConfirmedForeign, IsForeign, LegChain, LegAction
<1>4. <<i, l>> \in Legs /\ leg_status \in [Legs -> LegStatuses]
  BY IndexFacts DEF IInv, TypeOK
<1>5. CASE <<i, l>> = <<j, m>>
  <2>1. leg_status'[<<i, l>>] = s
    BY <1>2, <1>4, <1>5
  <2>2. s = "Confirmed"
    BY <2>1 DEF ConfirmedForeign
  <2> QED
    BY <1>1, <1>3, <1>5, <2>2 DEF IsForeign
<1>6. CASE <<i, l>> # <<j, m>>
  <2>1. leg_status'[<<i, l>>] = leg_status[<<i, l>>]
    BY <1>2, <1>4, <1>6
  <2> QED
    BY <1>3, <2>1 DEF ConfirmedForeign
<1> QED
  BY <1>5, <1>6

LEMMA ConfirmLegConfirms ==
  ASSUME NEW i \in IntentIds, NEW l \in LegIds, IInv,
         NEW j \in IntentIds, NEW m \in LegIds, ConfirmLeg(Executor, j, m),
         ConfirmedForeign(i, l)', <<i, l>> # <<j, m>>
  PROVE  ConfirmedForeign(i, l)
<1>1. /\ leg_status' = [leg_status EXCEPT ![<<j, m>>] = "Confirmed"]
      /\ terms' = terms /\ deployment' = deployment
  BY DEF ConfirmLeg, chainVars
<1>2. <<i, l>> \in Legs /\ leg_status \in [Legs -> LegStatuses]
  BY IndexFacts DEF IInv, TypeOK
<1>3. leg_status'[<<i, l>>] = leg_status[<<i, l>>]
  BY <1>1, <1>2
<1> QED
  BY <1>1, <1>3 DEF ConfirmedForeign, IsForeign, LegChain, LegAction
-----------------------------------------------------------------------------
(* What a step does to the two chains.                                       *)

CoreInv == IInv /\ AuthorizationInv /\ DeliveryInv /\ ConfirmedWasDelivered

\* A leg is confirmed only by a process that saw it delivered.
LedgerMoves ==
  \/ Configures
  \/ \E c \in ChainIds : \E k \in ChainConfigs[c] : AddChain(Admin, c, k)
  \/ \E t \in Proposals : CreateIntent(t)
  \/ \E j \in IntentIds, m \in LegIds : ExecuteLeg(j, m)
  \/ \E j \in IntentIds, m \in LegIds : ConfirmLeg(Executor, j, m) /\ Message(j, m) \in delivered

\* Ika signs only what it was asked to.
SignsFor(i, l) ==
  Authorization(i, l) \in message_approvals /\ EVM!DWalletSigns(Message(i, l))
EvmMoves ==
  \/ \E i \in IntentIds, l \in LegIds : Deliver(i, l)
  \/ \E i \in IntentIds, l \in LegIds : SignsFor(i, l)
  \/ \E x, y \in Accounts, v \in Amounts : EVM!Transfer(x, y, v)

CoreStep ==
  \/ LedgerMoves /\ UNCHANGED evmVars
  \/ EvmMoves /\ UNCHANGED solanaVars
  \/ UNCHANGED <<solanaVars, evmVars>>

LEMMA LedgerMovesAreSteps == LedgerMoves => [Next]_vars
BY ConstantsAssumption
   DEF ConstantsAssumption, LedgerMoves, Configures, ExecuteLeg, Next

LEMMA DeliverFacts ==
  ASSUME NEW i \in IntentIds, NEW l \in LegIds, Deliver(i, l)
  PROVE  /\ Message(i, l) \in signatures /\ signatures' = signatures
         /\ delivered' = delivered \cup {Message(i, l)}
         /\ usedNonces' = usedNonces \cup {Message(i, l).nonce}
<1> DEFINE a == AuthorizationFor(Authorization(i, l))
<1>1. /\ EVM!Verify(a) /\ EVM!Consume(a) /\ signatures' = signatures
  BY DEF Deliver, EVM!MintWithAuthorization, EVM!BurnWithAuthorization
<1>2. EVM!Digest(a) = Message(i, l) /\ EVM!Digest(a).nonce = a.nonce
  BY DEF Message, EVM!Digest
<1> HIDE DEF a
<1> QED
  BY <1>1, <1>2 DEF EVM!Verify, EVM!Consume

LEMMA EvmMovesKeep ==
  ASSUME CoreInv, EvmMoves, UNCHANGED solanaVars
  PROVE  DeliveryInv' /\ delivered \subseteq delivered'
<1>1. /\ message_approvals' = message_approvals
      /\ \A a : SignedFor(a)' = SignedFor(a)
  BY DEF solanaVars, SignedFor, EVM!Digest, AuthorizationFor
<1>2. CASE \E i \in IntentIds, l \in LegIds : Deliver(i, l)
  <2>1. PICK i \in IntentIds, l \in LegIds : Deliver(i, l)
    BY <1>2
  <2>2. /\ Message(i, l) \in signatures /\ signatures' = signatures
        /\ delivered' = delivered \cup {Message(i, l)}
        /\ usedNonces' = usedNonces \cup {Message(i, l).nonce}
    BY <2>1, DeliverFacts
  <2> QED
    BY <1>1, <2>2 DEF CoreInv, DeliveryInv
<1>3. CASE \E i \in IntentIds, l \in LegIds : SignsFor(i, l)
  <2>1. PICK i \in IntentIds, l \in LegIds : SignsFor(i, l)
    BY <1>3
  <2>2. /\ signatures' = signatures \cup {SignedFor(Authorization(i, l))}
        /\ delivered' = delivered /\ usedNonces' = usedNonces
        /\ Authorization(i, l) \in message_approvals
    BY <2>1, MessageNonce DEF SignsFor, EVM!DWalletSigns
  <2> QED
    BY <1>1, <2>2 DEF CoreInv, DeliveryInv
<1>4. CASE \E x, y \in Accounts, v \in Amounts : EVM!Transfer(x, y, v)
  <2>1. UNCHANGED <<usedNonces, signatures, delivered>>
    BY <1>4 DEF EVM!Transfer
  <2> QED
    BY <1>1, <2>1 DEF CoreInv, DeliveryInv
<1> QED
  BY <1>2, <1>3, <1>4 DEF EvmMoves

LEMMA LedgerMovesConfirm ==
  ASSUME CoreInv, LedgerMoves, NEW i \in IntentIds, NEW l \in LegIds, ConfirmedForeign(i, l)'
  PROVE  Message(i, l) \in delivered
<1>1. ConfirmedForeign(i, l) => Message(i, l) \in delivered
  BY DEF CoreInv, ConfirmedWasDelivered, ConfirmedForeign
<1>2. CASE \E j \in IntentIds, m \in LegIds : ConfirmLeg(Executor, j, m) /\ Message(j, m) \in delivered
  <2>1. PICK j \in IntentIds, m \in LegIds : ConfirmLeg(Executor, j, m) /\ Message(j, m) \in delivered
    BY <1>2
  <2>2. CASE <<i, l>> # <<j, m>>
    BY <1>1, <2>1, <2>2, ConfirmLegConfirms DEF CoreInv
  <2> QED
    BY <2>1, <2>2
<1> QED
  BY <1>1, <1>2, ConfiguresConfirms, AddChainConfirms, CreateIntentConfirms, ExecuteLegConfirms
     DEF LedgerMoves, CoreInv

LEMMA CoreStepKeeps ==
  ASSUME CoreInv, CoreStep
  PROVE  CoreInv' /\ [Next]_vars /\ delivered \subseteq delivered'
<1>1. [Next]_vars
  BY LedgerMovesAreSteps DEF CoreStep, solanaVars, vars
<1>2. IInv' /\ AuthorizationInv'
  BY <1>1, NextIInv, NextAuthorizationInv DEF CoreInv
<1>3. DeliveryInv' /\ delivered \subseteq delivered'
  <2>1. CASE UNCHANGED evmVars
    BY <1>1, <2>1, LedgerStepDelivery DEF CoreInv, evmVars
  <2>2. CASE EvmMoves /\ UNCHANGED solanaVars
    BY <2>2, EvmMovesKeep
  <2> QED
    BY <2>1, <2>2 DEF CoreStep
<1>4. ConfirmedWasDelivered'
  <2> SUFFICES ASSUME NEW i \in IntentIds, NEW l \in LegIds, ConfirmedForeign(i, l)'
               PROVE  Message(i, l)' \in delivered'
    BY DEF ConfirmedWasDelivered, ConfirmedForeign
  <2>1. CASE LedgerMoves
    BY <2>1, LedgerMovesConfirm, <1>1, <1>3, DeliveredStays DEF CoreInv
  <2>2. CASE UNCHANGED solanaVars
    <3>1. Configures
      BY <2>2 DEF Configures, solanaVars, vars
    <3>2. Message(i, l) \in delivered
      BY <3>1, ConfiguresConfirms DEF CoreInv, ConfirmedWasDelivered, ConfirmedForeign
    <3> QED
      BY <3>2, <1>1, <1>3, DeliveredStays DEF CoreInv
  <2> QED
    BY <2>1, <2>2 DEF CoreStep
<1> QED
  BY <1>1, <1>2, <1>3, <1>4 DEF CoreInv

LEMMA HandoverKept ==
  ASSUME CoreInv, CoreStep, NEW i \in IntentIds, NEW l \in LegIds, Message(i, l) \in delivered
  PROVE  Message(i, l)' \in delivered'
BY CoreStepKeeps, DeliveredStays DEF CoreInv
-----------------------------------------------------------------------------
(* The processes.                                                            *)

LEMMA IdleFacts == Idle \in Jobs /\ Idle.step = "idle"
<1>1. 0 \in IntentIds
  BY ConstantsAssumption DEF ConstantsAssumption, IntentIds
<1> QED
  BY <1>1 DEF Idle, Jobs, Steps

\* What a process has before it when it is not idle.
LEMMA JobFacts ==
  ASSUME WorkersInv, NEW w \in Workers, job[w].step # "idle"
  PROVE  /\ Intent(w) \in IntentIds /\ Leg(w) \in LegIds /\ job[w] \in Jobs
         /\ job[w].legs \in Seq(LegIds) /\ job[w].legs # <<>>
         /\ OrphanInv(Tx(w))
         /\ \A s \in Steps : /\ [job[w] EXCEPT !.step = s] \in Jobs
                             /\ [job[w] EXCEPT !.step = s].legs = job[w].legs
                             /\ [job[w] EXCEPT !.step = s].intent = job[w].intent
                             /\ [job[w] EXCEPT !.step = s].step = s
<1>1. job[w] \in Jobs /\ JobInv(w)
  BY DEF WorkersInv
<1>2. job[w].legs \in Seq(LegIds) /\ job[w].legs # <<>> /\ job[w].intent \in IntentIds
  BY <1>1 DEF Jobs, JobInv
<1>3. Head(job[w].legs) \in LegIds
  BY <1>2
<1>4. \A s \in Steps : /\ [job[w] EXCEPT !.step = s] \in Jobs
                       /\ [job[w] EXCEPT !.step = s].legs = job[w].legs
                       /\ [job[w] EXCEPT !.step = s].intent = job[w].intent
                       /\ [job[w] EXCEPT !.step = s].step = s
  BY <1>1 DEF Jobs
<1>5. OrphanInv(Tx(w))
  BY <1>1, <1>2, <1>3 DEF OrphanInv, Tx, JobInv, Intent, Leg
<1> QED
  BY <1>1, <1>2, <1>3, <1>4, <1>5 DEF Intent, Leg

\* The job x a process may go on with.
GoodJob(x) ==
  /\ x \in Jobs
  /\ x.step # "idle" => x.legs # <<>> /\ x.step # "confirming"

LEMMA IdleIsGood == GoodJob(Idle)
BY IdleFacts DEF GoodJob

LEMMA GotoIsGood ==
  ASSUME WorkersInv, NEW w \in Workers, job[w].step # "idle", NEW s \in Steps \ {"confirming"}
  PROVE  GoodJob([job[w] EXCEPT !.step = s])
BY JobFacts DEF GoodJob

\* The job a process goes on with when its leg is done.
Rest(w) ==
  LET rest == Tail(job[w].legs) IN
  IF rest = <<>> THEN Idle ELSE [step |-> "load", intent |-> job[w].intent, legs |-> rest]

LEMMA RestIsGood ==
  ASSUME WorkersInv, NEW w \in Workers, job[w].step # "idle"
  PROVE  GoodJob(Rest(w))
<1> DEFINE rest == Tail(job[w].legs)
<1>1. job[w].legs \in Seq(LegIds) /\ job[w].legs # <<>> /\ job[w].intent \in IntentIds
  BY JobFacts DEF Jobs
<1>2. rest \in Seq(LegIds)
  BY <1>1, HeadTailProperties
<1>3. ASSUME rest # <<>>
      PROVE  GoodJob([step |-> "load", intent |-> job[w].intent, legs |-> rest])
  <2> HIDE DEF rest
  <2> QED
    BY <1>1, <1>2, <1>3 DEF GoodJob, Jobs, Steps
<1> QED
  BY <1>3, IdleIsGood DEF Rest

\* A transaction that lands is a step of the two chains, whoever sent it.
LEMMA LandsIsCoreStep ==
  ASSUME NEW tx, OrphanInv(tx), Lands(tx)
  PROVE  CoreStep
<1>1. tx.intent \in IntentIds /\ tx.leg \in LegIds
  BY DEF OrphanInv
<1>2. CASE tx.step = "executing" /\ ExecuteLeg(tx.intent, tx.leg) /\ UNCHANGED evmVars
  BY <1>1, <1>2 DEF CoreStep, LedgerMoves
<1>3. CASE tx.step = "delivering" /\ Deliver(tx.intent, tx.leg) /\ UNCHANGED solanaVars
  BY <1>1, <1>3 DEF CoreStep, EvmMoves
<1>4. CASE tx.step = "confirming" /\ ConfirmLeg(Executor, tx.intent, tx.leg) /\ UNCHANGED evmVars
  BY <1>1, <1>4 DEF CoreStep, LedgerMoves, OrphanInv
<1> QED
  BY <1>2, <1>3, <1>4 DEF Lands

LEMMA OrphanKept ==
  ASSUME CoreInv, CoreStep, NEW tx, OrphanInv(tx)
  PROVE  OrphanInv(tx)'
BY HandoverKept DEF OrphanInv

\* The processes that a step leaves alone.
LEMMA OthersKept ==
  ASSUME CoreInv, CoreStep, WorkersInv, NEW w \in Workers, job'[w] = job[w]
  PROVE  JobInv(w)'
<1>1. CASE job[w].step = "idle"
  BY <1>1 DEF JobInv
<1>2. CASE job[w].step # "idle"
  <2>1. Intent(w) \in IntentIds /\ Leg(w) \in LegIds /\ JobInv(w)
    BY <1>2, JobFacts DEF WorkersInv
  <2>2. Intent(w)' = Intent(w) /\ Leg(w)' = Leg(w)
    BY DEF Intent, Leg
  <2>3. job[w].step = "confirming" => Message(Intent(w), Leg(w))' \in delivered'
    <3>1. \A i \in IntentIds, l \in LegIds : Message(i, l) \in delivered => Message(i, l)' \in delivered'
      BY HandoverKept
    <3> QED
      BY <1>2, <2>1, <2>2, <3>1 DEF JobInv
  <2> QED
    BY <1>2, <2>1, <2>3 DEF JobInv
<1> QED
  BY <1>1, <1>2

\* A step of the chains, after which one process has gone on.
LEMMA WorkerStep ==
  ASSUME SystemInv, CoreStep, NEW w \in Workers, NEW x \in Jobs, job' = [job EXCEPT ![w] = x],
         x.step # "idle" => x.legs # <<>>,
         \A i \in IntentIds, l \in LegIds :
           x.step = "confirming" /\ i = x.intent /\ l = Head(x.legs) => Message(i, l)' \in delivered',
         \A tx \in orphans' : tx \in orphans \/ OrphanInv(tx)
  PROVE  SystemInv' /\ [Next]_vars /\ CoreStep
<1>1. CoreInv /\ WorkersInv
  BY DEF SystemInv, CoreInv
<1>2. CoreInv' /\ [Next]_vars
  BY <1>1, CoreStepKeeps
<1>3. job' \in [Workers -> Jobs] /\ job'[w] = x
  BY <1>1 DEF WorkersInv
<1>4. JobInv(w)'
  <2> SUFFICES ASSUME x.step # "idle"
               PROVE  x.step = "confirming" => Message(x.intent, Head(x.legs))' \in delivered'
    BY <1>3 DEF JobInv, Intent, Leg
  <2>1. x.intent \in IntentIds /\ x.legs \in Seq(LegIds) /\ x.legs # <<>>
    BY DEF Jobs
  <2>2. Head(x.legs) \in LegIds
    BY <2>1
  <2> QED
    BY <2>1, <2>2
<1>5. ASSUME NEW v \in Workers, v # w
      PROVE  JobInv(v)'
  <2>1. job'[v] = job[v]
    BY <1>1, <1>5 DEF WorkersInv
  <2> QED
    BY <1>1, <2>1, OthersKept
<1>6. ASSUME NEW tx \in orphans'
      PROVE  OrphanInv(tx)'
  <2>1. OrphanInv(tx)
    BY <1>1 DEF WorkersInv
  <2> QED
    BY <1>1, <2>1, OrphanKept
<1> QED
  BY <1>2, <1>3, <1>4, <1>5, <1>6 DEF SystemInv, CoreInv, WorkersInv

\* The usual case: the process goes on to anything but a confirmation.
LEMMA GoodStep ==
  ASSUME SystemInv, CoreStep, NEW w \in Workers, NEW x, GoodJob(x), job' = [job EXCEPT ![w] = x],
         \A tx \in orphans' : tx \in orphans \/ OrphanInv(tx)
  PROVE  SystemInv' /\ [Next]_vars /\ CoreStep
<1>1. x \in Jobs /\ x.step # "confirming" /\ (x.step # "idle" => x.legs # <<>>)
  BY IdleFacts DEF GoodJob
<1> QED
  BY <1>1, WorkerStep

\* The processes go on as they were.
LEMMA QuietStep ==
  ASSUME SystemInv, CoreStep, job' = job, orphans' \subseteq orphans
  PROVE  SystemInv' /\ [Next]_vars /\ CoreStep
<1>1. CoreInv /\ WorkersInv
  BY DEF SystemInv, CoreInv
<1>2. CoreInv' /\ [Next]_vars
  BY <1>1, CoreStepKeeps
<1>3. \A w \in Workers : JobInv(w)'
  BY <1>1, OthersKept
<1>4. \A tx \in orphans' : OrphanInv(tx)'
  BY <1>1, OrphanKept DEF WorkersInv
<1> QED
  BY <1>1, <1>2, <1>3, <1>4 DEF SystemInv, CoreInv, WorkersInv
-----------------------------------------------------------------------------
(* The steps of a process, one by one.                                       *)

LEMMA StillIsCoreStep == UNCHANGED <<solanaVars, evmVars>> => CoreStep
BY DEF CoreStep

LEMMA SystemParts == SystemInv => CoreInv /\ WorkersInv
BY DEF SystemInv, CoreInv

LEMMA BeginKeeps ==
  ASSUME SystemInv, NEW w \in Workers, NEW i \in IntentIds, Begin(w, i)
  PROVE  SystemInv' /\ [Next]_vars /\ CoreStep
<1>1. PICK legs \in {Unfinished(i)} \cup {<<l>> : l \in {k \in LegIds : HasLeg(terms[i].kind, k)}} :
        legs # <<>> /\ job' = [job EXCEPT ![w] = [step |-> "load", intent |-> i, legs |-> legs]]
  BY DEF Begin
<1>2. legs \in Seq(LegIds)
  <2>1. <<0>> \in Seq(LegIds) /\ <<1>> \in Seq(LegIds) /\ <<>> \in Seq(LegIds)
    BY DEF LegIds
  <2>2. Unfinished(i) \in Seq(LegIds)
    BY <2>1, ConcatProperties DEF Unfinished
  <2> QED
    BY <2>1, <2>2 DEF LegIds
<1>3. GoodJob([step |-> "load", intent |-> i, legs |-> legs])
  BY <1>1, <1>2 DEF GoodJob, Jobs, Steps
<1>4. UNCHANGED <<solanaVars, evmVars, orphans>>
  BY DEF Begin
<1> QED
  BY <1>1, <1>3, <1>4, GoodStep, StillIsCoreStep

LEMMA LoadKeeps ==
  ASSUME SystemInv, NEW w \in Workers, Load(w)
  PROVE  SystemInv' /\ [Next]_vars /\ CoreStep
<1> DEFINE entry == Entry(Intent(w), Leg(w))
<1>1. job[w].step # "idle"
  BY DEF Load, At
<1>2. entry \in {"sign", "check", "executing", "idle"}
  BY DEF Entry
<1>3. GoodJob(IF entry = "idle" THEN Idle ELSE [job[w] EXCEPT !.step = entry])
  BY <1>1, <1>2, SystemParts, IdleIsGood, GotoIsGood DEF Steps
<1>4. /\ job' = [job EXCEPT ![w] = IF entry = "idle" THEN Idle ELSE [job[w] EXCEPT !.step = entry]]
      /\ UNCHANGED <<solanaVars, evmVars, orphans>>
  BY SystemParts DEF Load, WorkersInv
<1> HIDE DEF entry
<1> QED
  BY <1>3, <1>4, GoodStep, StillIsCoreStep

LEMMA GotoKeeps ==
  ASSUME SystemInv, CoreStep, NEW w \in Workers, job[w].step # "idle",
         NEW s \in Steps \ {"confirming"}, Goto(w, s), orphans' = orphans
  PROVE  SystemInv' /\ [Next]_vars /\ CoreStep
<1>1. job' = [job EXCEPT ![w] = [job[w] EXCEPT !.step = s]]
  BY SystemParts DEF Goto, WorkersInv
<1>2. GoodJob([job[w] EXCEPT !.step = s])
  BY SystemParts, GotoIsGood
<1> QED
  BY <1>1, <1>2, GoodStep

LEMMA StopKeeps ==
  ASSUME SystemInv, CoreStep, NEW w \in Workers, job' = [job EXCEPT ![w] = Idle],
         \A tx \in orphans' : tx \in orphans \/ OrphanInv(tx)
  PROVE  SystemInv' /\ [Next]_vars /\ CoreStep
BY IdleIsGood, GoodStep

LEMMA NextLegKeeps ==
  ASSUME SystemInv, CoreStep, NEW w \in Workers, job[w].step # "idle", NextLeg(w), orphans' = orphans
  PROVE  SystemInv' /\ [Next]_vars /\ CoreStep
<1>1. job' = [job EXCEPT ![w] = Rest(w)]
  BY DEF NextLeg, Rest
<1>2. GoodJob(Rest(w))
  BY SystemParts, RestIsGood
<1> QED
  BY <1>1, <1>2, GoodStep

\* On the way to a confirmation: the leg is delivered when the step is done.
LEMMA ConfirmingKeeps ==
  ASSUME SystemInv, CoreStep, NEW w \in Workers, job[w].step # "idle",
         Goto(w, "confirming"), orphans' = orphans,
         \A i \in IntentIds, l \in LegIds :
           i = Intent(w) /\ l = Leg(w) => Message(i, l)' \in delivered'
  PROVE  SystemInv' /\ [Next]_vars /\ CoreStep
<1> DEFINE x == [job[w] EXCEPT !.step = "confirming"]
<1>1. job' = [job EXCEPT ![w] = x]
  BY SystemParts DEF Goto, WorkersInv
<1>2. x \in Jobs /\ x.legs = job[w].legs /\ x.intent = job[w].intent /\ x.legs # <<>>
  BY SystemParts, JobFacts DEF Steps
<1>3. \A i \in IntentIds, l \in LegIds :
        x.step = "confirming" /\ i = x.intent /\ l = Head(x.legs) => Message(i, l)' \in delivered'
  BY <1>2 DEF Intent, Leg
<1> HIDE DEF x
<1> QED
  BY <1>1, <1>2, <1>3, WorkerStep

LEMMA CheckBurnKeeps ==
  ASSUME SystemInv, NEW w \in Workers, CheckBurn(w)
  PROVE  SystemInv' /\ [Next]_vars /\ CoreStep
<1>1. job[w].step # "idle" /\ CoreStep /\ orphans' = orphans
  BY StillIsCoreStep DEF CheckBurn, At
<1>2. CASE Goto(w, "executing")
  BY <1>1, <1>2, GotoKeeps DEF Steps
<1>3. CASE job' = [job EXCEPT ![w] = Idle]
  BY <1>1, <1>3, StopKeeps
<1> QED
  BY <1>2, <1>3 DEF CheckBurn

LEMMA ExecuteLandsKeeps ==
  ASSUME SystemInv, NEW w \in Workers, ExecuteLands(w)
  PROVE  SystemInv' /\ [Next]_vars /\ CoreStep
<1>1. job[w].step # "idle" /\ orphans' = orphans /\ Lands(Tx(w))
  BY DEF ExecuteLands, At
<1>2. CoreStep
  BY <1>1, SystemParts, JobFacts, LandsIsCoreStep
<1>3. CASE Goto(w, "sign")
  BY <1>1, <1>2, <1>3, GotoKeeps DEF Steps
<1>4. CASE NextLeg(w)
  BY <1>1, <1>2, <1>4, NextLegKeeps
<1> QED
  BY <1>3, <1>4 DEF ExecuteLands

LEMMA SignKeeps ==
  ASSUME SystemInv, NEW w \in Workers, Sign(w)
  PROVE  SystemInv' /\ [Next]_vars /\ CoreStep
<1>1. job[w].step # "idle" /\ orphans' = orphans /\ Goto(w, "find")
  BY DEF Sign, At
<1>2. CoreStep
  <2>1. Intent(w) \in IntentIds /\ Leg(w) \in LegIds
    BY <1>1, SystemParts, JobFacts
  <2> QED
    BY <2>1 DEF Sign, SignsFor, CoreStep, EvmMoves
<1> QED
  BY <1>1, <1>2, GotoKeeps DEF Steps

LEMMA FindDeliveryKeeps ==
  ASSUME SystemInv, NEW w \in Workers, FindDelivery(w)
  PROVE  SystemInv' /\ [Next]_vars /\ CoreStep
<1>1. job[w].step # "idle" /\ orphans' = orphans /\ CoreStep
  BY StillIsCoreStep DEF FindDelivery, At
<1>2. CASE IsDelivered(Intent(w), Leg(w)) /\ Goto(w, "confirming")
  <2>1. Intent(w) \in IntentIds /\ Leg(w) \in LegIds
    BY <1>1, SystemParts, JobFacts
  <2>2. Message(Intent(w), Leg(w)) \in delivered
    BY <1>2, <2>1, UsedIsDelivered, SystemParts DEF IsDelivered, CoreInv
  <2>3. \A i \in IntentIds, l \in LegIds : Message(i, l) \in delivered => Message(i, l)' \in delivered'
    BY <1>1, HandoverKept, SystemParts
  <2>4. \A i \in IntentIds, l \in LegIds :
          i = Intent(w) /\ l = Leg(w) => Message(i, l)' \in delivered'
    BY <2>2, <2>3
  <2> QED
    BY <1>1, <1>2, <2>4, ConfirmingKeeps
<1>3. CASE Goto(w, "delivering")
  BY <1>1, <1>3, GotoKeeps DEF Steps
<1> QED
  BY <1>2, <1>3 DEF FindDelivery

LEMMA DeliveryLandsKeeps ==
  ASSUME SystemInv, NEW w \in Workers, DeliveryLands(w)
  PROVE  SystemInv' /\ [Next]_vars /\ CoreStep
<1>1. job[w].step = "delivering" /\ orphans' = orphans /\ Lands(Tx(w)) /\ Goto(w, "confirming")
  BY DEF DeliveryLands, At
<1>2. CoreStep
  BY <1>1, SystemParts, JobFacts, LandsIsCoreStep
<1>3. Deliver(Intent(w), Leg(w)) /\ UNCHANGED solanaVars
  BY <1>1 DEF Lands, Tx
<1>4. ASSUME NEW i \in IntentIds, NEW l \in LegIds, i = Intent(w), l = Leg(w)
      PROVE  Message(i, l)' \in delivered'
  <2>1. Message(i, l) \in delivered'
    BY <1>3, <1>4, DeliverFacts
  <2>2. terms' = terms
    BY <1>3 DEF solanaVars, ledgerVars, intentVars
  <2> QED
    BY <2>1, <2>2, MessageStable
<1> QED
  BY <1>1, <1>2, <1>4, ConfirmingKeeps

LEMMA ConfirmLandsKeeps ==
  ASSUME SystemInv, NEW w \in Workers, ConfirmLands(w)
  PROVE  SystemInv' /\ [Next]_vars /\ CoreStep
<1>1. job[w].step # "idle" /\ orphans' = orphans /\ Lands(Tx(w)) /\ NextLeg(w)
  BY DEF ConfirmLands, At
<1>2. CoreStep
  BY <1>1, SystemParts, JobFacts, LandsIsCoreStep
<1> QED
  BY <1>1, <1>2, NextLegKeeps

LEMMA RefusedKeeps ==
  ASSUME SystemInv, NEW w \in Workers, Refused(w)
  PROVE  SystemInv' /\ [Next]_vars /\ CoreStep
<1>1. job' = [job EXCEPT ![w] = Idle] /\ UNCHANGED <<solanaVars, evmVars, orphans>>
  BY DEF Refused
<1> QED
  BY <1>1, StillIsCoreStep, StopKeeps

LEMMA CrashKeeps ==
  ASSUME SystemInv, NEW w \in Workers, Crash(w)
  PROVE  SystemInv' /\ [Next]_vars /\ CoreStep
<1>1. job' = [job EXCEPT ![w] = Idle] /\ UNCHANGED <<solanaVars, evmVars>>
  BY DEF Crash
<1>2. OrphanInv(Tx(w))
  BY SystemParts, JobFacts DEF Crash, At
<1>3. \A tx \in orphans' : tx \in orphans \/ OrphanInv(tx)
  BY <1>2 DEF Crash
<1> QED
  BY <1>1, <1>3, StillIsCoreStep, StopKeeps

LEMMA OrphanLandsKeeps ==
  ASSUME SystemInv, NEW tx \in orphans, OrphanLands(tx) \/ OrphanLost(tx)
  PROVE  SystemInv' /\ [Next]_vars /\ CoreStep
<1>1. job' = job /\ orphans' \subseteq orphans
  BY DEF OrphanLands, OrphanLost
<1>2. CoreStep
  BY SystemParts, LandsIsCoreStep, StillIsCoreStep DEF OrphanLands, OrphanLost, WorkersInv
<1> QED
  BY <1>1, <1>2, QuietStep

LEMMA OthersKeep ==
  ASSUME SystemInv, Others
  PROVE  SystemInv' /\ [Next]_vars /\ CoreStep
<1>1. job' = job /\ orphans' = orphans
  BY DEF Others, workerVars
<1>2. CoreStep
  <2>1. \A t \in Requests : t \in Proposals
    BY ExecutorAssumption DEF ExecutorAssumption
  <2> QED
    BY <2>1 DEF Others, CoreStep, LedgerMoves, Configures, EvmMoves
<1> QED
  BY <1>1, <1>2, QuietStep

LEMMA NextKeeps == SystemInv /\ [ExecutorNext]_sysVars => SystemInv' /\ [Next]_vars /\ CoreStep
<1> SUFFICES ASSUME SystemInv, [ExecutorNext]_sysVars
             PROVE  SystemInv' /\ [Next]_vars /\ CoreStep
  OBVIOUS
<1>1. CASE UNCHANGED sysVars
  BY <1>1, StillIsCoreStep, QuietStep DEF sysVars, workerVars
<1>2. ASSUME NEW w \in Workers, Step(w)
      PROVE  SystemInv' /\ [Next]_vars /\ CoreStep
  BY <1>2, LoadKeeps, CheckBurnKeeps, ExecuteLandsKeeps, SignKeeps, FindDeliveryKeeps,
     DeliveryLandsKeeps, ConfirmLandsKeeps, RefusedKeeps DEF Step
<1> QED
  BY <1>1, <1>2, BeginKeeps, CrashKeeps, OrphanLandsKeeps, OthersKeep DEF ExecutorNext

LEMMA InitHolds == ExecutorInit => SystemInv
<1> SUFFICES ASSUME ExecutorInit PROVE SystemInv
  OBVIOUS
<1>1. Init
  BY DEF ExecutorInit
<1>2. IInv /\ AuthorizationInv
  BY <1>1, InitIInv, InitAuthorizationInv
<1>3. DeliveryInv
  BY DEF ExecutorInit, DeliveryInv
<1>4. ConfirmedWasDelivered
  <2>1. \A g \in Legs : leg_status[g] = "None"
    BY <1>1 DEF Init
  <2> QED
    BY <2>1, IndexFacts DEF ConfirmedWasDelivered
<1>5. WorkersInv
  BY IdleFacts DEF ExecutorInit, WorkersInv, JobInv
<1> QED
  BY <1>2, <1>3, <1>4, <1>5 DEF SystemInv

LEMMA SystemInvHolds == ExecutorSpec => []SystemInv
BY InitHolds, NextKeeps, PTL DEF ExecutorSpec

\* What the executor tells the ledger is true: for any number of processes that
\* race, die and are run again, and transactions that land late, a foreign leg
\* is confirmed only after its authorization was honoured on the EVM chain
\* (index.ts:97-276, evm.ts:120-160, instructions.rs:785-821).
THEOREM ConfirmedWasDeliveredHolds == ExecutorSpec => []ConfirmedWasDelivered
<1>1. SystemInv => ConfirmedWasDelivered
  BY DEF SystemInv
<1> QED
  BY <1>1, SystemInvHolds, PTL

\* The executor, the EVM chain and the processes' deaths add nothing to what
\* the ledger may do, so what is proved of the ledger holds here as well.
THEOREM LedgerImplemented == ExecutorSpec => Spec
<1>1. ExecutorInit => Init
  BY DEF ExecutorInit
<1>2. SystemInv /\ [ExecutorNext]_sysVars => [Next]_vars
  BY NextKeeps
<1> QED
  BY <1>1, <1>2, SystemInvHolds, PTL DEF ExecutorSpec, Spec
-----------------------------------------------------------------------------
(* The supply on the EVM chain.                                              *)

LEMMA AmountAdd ==
  ASSUME NEW ms, IsFiniteSet(ms), NEW m, m \notin ms, \A x \in ms \cup {m} : x.amount \in Int
  PROVE  AmountOf(ms \cup {m}) = AmountOf(ms) + m.amount
<1> DEFINE f == [x \in ms \cup {m} |-> x.amount]
           g == [x \in ms |-> x.amount]
<1>1. (\A x \in ms \cup {m} : f[x] \in Int) /\ (\A x \in ms : f[x] = g[x])
  OBVIOUS
<1>5. f[m] = m.amount
  OBVIOUS
<1>2. AmountOf(ms \cup {m}) = SumOver(f, ms \cup {m}) /\ AmountOf(ms) = SumOver(g, ms)
  BY DEF AmountOf
<1> HIDE DEF f, g
<1>3. SumOver(f, ms \cup {m}) = SumOver(f, ms) + f[m]
  BY <1>1, SumAdd
<1>4. SumOver(f, ms) = SumOver(g, ms)
  BY <1>1, SumSame
<1> QED
  BY <1>5, <1>2, <1>3, <1>4, Zenon

LEMMA AmountIsNat ==
  ASSUME NEW ms, IsFiniteSet(ms), \A x \in ms : x.amount \in Nat
  PROVE  AmountOf(ms) \in Nat
<1> DEFINE g == [x \in ms |-> x.amount]
<1>1. \A x \in ms : g[x] \in Nat
  OBVIOUS
<1> HIDE DEF g
<1>2. SumOver(g, ms) \in Nat
  BY <1>1, SumIsNat
<1> QED
  BY <1>2 DEF AmountOf, g

\* What the EVM chain should hold: its book, or the seed it will be registered with.
Book == IF Registered(ForeignChain) THEN authorized[ForeignChain] ELSE GenesisSupply[ForeignChain]

\* Every chain is one that could be added, the approvals are finitely many, and
\* the supply differs from the book by what is on its way.
ParityInv ==
  /\ \A c \in ChainIds : Registered(c) => deployment[c] \in ChainConfigs[c]
  /\ IsFiniteSet(message_approvals)
  /\ evm_supply \in Int
  /\ evm_supply + AmountOf(Undelivered("mint")) = Book + AmountOf(Undelivered("burn"))

LEMMA UndeliveredIs ==
  \A action : Undelivered(action) =
    {m \in message_approvals : m.action = action /\ SignedFor(m) \notin delivered}
BY DEF Undelivered, SignedFor

LEMMA NextAmount ==
  ASSUME NEW action, NEW ms, Undelivered(action)' = ms
  PROVE  AmountOf(Undelivered(action))' = AmountOf(ms)
BY DEF AmountOf

\* One more approval that was not delivered.
LEMMA UndeliveredMore ==
  ASSUME NEW S, NEW D, NEW a, SignedFor(a) \notin D, NEW action
  PROVE  {m \in S \cup {a} : m.action = action /\ SignedFor(m) \notin D} =
           {m \in S : m.action = action /\ SignedFor(m) \notin D}
             \cup (IF action = a.action THEN {a} ELSE {})
OBVIOUS

LEMMA ForeignFacts == ForeignChain \in ChainIds /\ GenesisSupply[ForeignChain] \in Int
BY ExecutorAssumption, ConfigAssumption, ConstantFacts DEF ExecutorAssumption, ConfigAssumption

\* Only the EVM chain is foreign.
LEMMA ForeignIsOne ==
  ASSUME ParityInv, NEW c \in ChainIds, Registered(c)
  PROVE  deployment[c].leg_kind = "IkaForeign" <=> c = ForeignChain
BY ExecutorAssumption DEF ExecutorAssumption, ParityInv

\* The sums are over finite sets of natural numbers.
LEMMA UndeliveredFacts ==
  ASSUME IInv, ParityInv, NEW action
  PROVE  /\ IsFiniteSet(Undelivered(action))
         /\ \A m \in Undelivered(action) : m \in message_approvals /\ m.amount \in Nat
         /\ AmountOf(Undelivered(action)) \in Nat
<1>1. Undelivered(action) \subseteq message_approvals
  BY DEF Undelivered
<1>2. IsFiniteSet(Undelivered(action))
  BY <1>1, FS_Subset DEF ParityInv
<1>3. \A m \in message_approvals : m.amount \in Nat
  BY ConstantFacts DEF IInv, TypeOK, AuthorizationMessage
<1> QED
  BY <1>1, <1>2, <1>3, AmountIsNat

LEMMA InitParityInv == ExecutorInit => ParityInv
<1> SUFFICES ASSUME ExecutorInit PROVE ParityInv
  OBVIOUS
<1>1. /\ message_approvals = {} /\ evm_supply = GenesisSupply[ForeignChain]
      /\ \A c \in ChainIds : ~Registered(c)
  BY DEF ExecutorInit, Init, Registered
<1>2. Undelivered("mint") = {} /\ Undelivered("burn") = {}
  BY <1>1 DEF Undelivered
<1>3. Book = GenesisSupply[ForeignChain]
  BY <1>1, ForeignFacts DEF Book
<1> QED
  BY <1>1, <1>2, <1>3, ForeignFacts, FS_EmptySet DEF ParityInv

\* Steps that touch neither side.
LEMMA ParityStable ==
  ASSUME ParityInv, UNCHANGED <<evm_supply, delivered, message_approvals, deployment>>,
         authorized'[ForeignChain] = authorized[ForeignChain]
  PROVE  ParityInv'
<1>1. Undelivered("mint")' = Undelivered("mint") /\ Undelivered("burn")' = Undelivered("burn")
  BY DEF Undelivered, EVM!Digest, AuthorizationFor
<1>2. Book' = Book
  BY DEF Book, Registered
<1>3. /\ AmountOf(Undelivered("mint"))' = AmountOf(Undelivered("mint"))
      /\ AmountOf(Undelivered("burn"))' = AmountOf(Undelivered("burn"))
  BY <1>1 DEF AmountOf
<1> QED
  BY <1>2, <1>3 DEF ParityInv, Registered

LEMMA AddChainParity ==
  ASSUME IInv, ParityInv, UNCHANGED evmVars,
         NEW c \in ChainIds, NEW k \in ChainConfigs[c], AddChain(Admin, c, k)
  PROVE  ParityInv'
<1>1. /\ deployment' = [deployment EXCEPT ![c] = k] /\ authorized' = [authorized EXCEPT ![c] = k.authorized]
      /\ message_approvals' = message_approvals /\ evm_supply' = evm_supply /\ delivered' = delivered
      /\ ~Registered(c)
  BY DEF AddChain, evmVars
<1>2. k # NoDeployment /\ k.authorized = GenesisSupply[c]
  BY ConfigAssumption DEF ConfigAssumption
<1>3. /\ AmountOf(Undelivered("mint"))' = AmountOf(Undelivered("mint"))
      /\ AmountOf(Undelivered("burn"))' = AmountOf(Undelivered("burn"))
  BY <1>1 DEF AmountOf, Undelivered, EVM!Digest, AuthorizationFor
<1>4. Book' = Book
  BY <1>1, <1>2, ForeignFacts DEF Book, Registered, IInv, TypeOK
<1>5. \A d \in ChainIds : Registered(d)' => deployment'[d] \in ChainConfigs[d]
  BY <1>1 DEF ParityInv, Registered, IInv, TypeOK
<1> QED
  BY <1>1, <1>3, <1>4, <1>5 DEF ParityInv

\* A native leg does not concern the EVM chain.
LEMMA ExecuteNativeParity ==
  ASSUME IInv, ParityInv, UNCHANGED evmVars,
         NEW i \in IntentIds, NEW l \in LegIds, ExecuteNativeLeg(Executor, i, l)
  PROVE  ParityInv'
<1> DEFINE c == LegChain(terms[i], l)
<1>1. /\ LegReady(i, l) /\ SupplyRules(terms[i], l) /\ deployment[c].leg_kind = "SolanaNative"
      /\ WriteBack(i, l, "Confirmed") /\ message_approvals' = message_approvals
  BY DEF ExecuteNativeLeg
<1>2. c \in ChainIds /\ Registered(c)
  BY <1>1, LegFacts, ExecutedIsRegistered
<1>3. c # ForeignChain
  BY <1>1, <1>2, ForeignIsOne
<1>4. authorized'[ForeignChain] = authorized[ForeignChain] /\ deployment' = deployment
  BY <1>1, <1>3, ForeignFacts DEF WriteBack, IInv, TypeOK
<1> QED
  BY <1>1, <1>4, ParityStable DEF evmVars

\* A foreign leg is booked and on its way.
LEMMA ExecuteForeignParity ==
  ASSUME IInv, IInv', AuthorizationInv, DeliveryInv, ParityInv, UNCHANGED evmVars,
         NEW i \in IntentIds, NEW l \in LegIds, ExecuteForeignLeg(Executor, i, l)
  PROVE  ParityInv'
<1> DEFINE t == terms[i]
           c == LegChain(t, l)
           a == Authorization(i, l)
<1>1. /\ LegReady(i, l) /\ SupplyRules(t, l) /\ deployment[c].leg_kind = "IkaForeign"
      /\ WriteBack(i, l, "Authorized") /\ a \notin message_approvals
      /\ message_approvals' = message_approvals \cup {a}
  BY DEF ExecuteForeignLeg
<1>2. c \in ChainIds /\ Registered(c) /\ t.amount \in Nat /\ leg_status[<<i, l>>] = "Pending"
  BY <1>1, LegFacts, ExecutedIsRegistered
<1>3. c = ForeignChain
  BY <1>1, <1>2, ForeignIsOne
<1>4. SignedFor(a) \notin delivered
  BY <1>2, DeliveredIsExecuted, MessageNonce DEF Executed
<1>5. a.action = LegAction(t, l) /\ a.amount = t.amount /\ a.action \in {"mint", "burn"}
  BY DEF Authorization, LegAction
<1>6. \A action : Undelivered(action)' = Undelivered(action) \cup (IF action = a.action THEN {a} ELSE {})
  <2>1. delivered' = delivered
    BY DEF evmVars
  <2>2. \A action : Undelivered(action)' =
          {m \in message_approvals' : m.action = action /\ SignedFor(m) \notin delivered}
    BY <2>1 DEF Undelivered, SignedFor, EVM!Digest, AuthorizationFor
  <2>3. message_approvals' = message_approvals \cup {a}
    BY <1>1
  <2>4. \A action : Undelivered(action) =
          {m \in message_approvals : m.action = action /\ SignedFor(m) \notin delivered}
    BY UndeliveredIs
  <2> HIDE DEF a
  <2>5. \A action : {m \in message_approvals \cup {a} : m.action = action /\ SignedFor(m) \notin delivered} =
            {m \in message_approvals : m.action = action /\ SignedFor(m) \notin delivered}
              \cup (IF action = a.action THEN {a} ELSE {})
    BY <1>4, UndeliveredMore
  <2> QED
    BY <2>2, <2>3, <2>4, <2>5
<1>7. /\ AmountOf(Undelivered(a.action) \cup {a}) = AmountOf(Undelivered(a.action)) + t.amount
      /\ AmountOf(Undelivered("mint")) \in Nat /\ AmountOf(Undelivered("burn")) \in Nat
  <2>1. /\ IsFiniteSet(Undelivered(a.action)) /\ a \notin Undelivered(a.action)
        /\ \A x \in Undelivered(a.action) \cup {a} : x.amount \in Int
    BY <1>1, <1>2, <1>5, UndeliveredFacts
  <2>2. AmountOf(Undelivered(a.action) \cup {a}) = AmountOf(Undelivered(a.action)) + a.amount
    <3> HIDE DEF a
    <3> QED
      BY <2>1, AmountAdd
  <2> QED
    BY <1>5, <2>2, UndeliveredFacts
<1>8. Book' = Book + Gained(t, l) /\ Book \in Int
  <2>1. authorized[c] \in Int
    BY <1>2, SummandTypes DEF NumbersOK
  <2>2. authorized' = [authorized EXCEPT ![c] = NewAuthorized(t, l)] /\ deployment' = deployment
    BY <1>1 DEF WriteBack
  <2>3. authorized'[c] = NewAuthorized(t, l)
    BY <1>2, <2>2 DEF IInv, TypeOK
  <2>4. NewAuthorized(t, l) = authorized[c] + Gained(t, l)
    BY <1>2, <2>1 DEF NewAuthorized, Gained
  <2> QED
    BY <1>2, <1>3, <2>1, <2>2, <2>3, <2>4 DEF Book, Registered
<1>9. \A action : AmountOf(Undelivered(action))' =
                    AmountOf(Undelivered(action) \cup (IF action = a.action THEN {a} ELSE {}))
  <2> TAKE action
  <2> HIDE DEF a
  <2> QED
    BY <1>6, NextAmount
<1>10. evm_supply' = evm_supply /\ evm_supply \in Int
  BY DEF evmVars, ParityInv
<1>11. IsFiniteSet(message_approvals')
  BY <1>1, FS_AddElement DEF ParityInv
<1>12. \A d \in ChainIds : Registered(d)' => deployment'[d] \in ChainConfigs[d]
  BY <1>1 DEF ParityInv, WriteBack, Registered
<1>13. (evm_supply + AmountOf(Undelivered("mint")) = Book + AmountOf(Undelivered("burn")))'
  <2>1. evm_supply + AmountOf(Undelivered("mint")) = Book + AmountOf(Undelivered("burn"))
    BY DEF ParityInv
  <2>2. CASE a.action = "mint"
    <3>1. Gained(t, l) = t.amount
      BY <1>5, <2>2 DEF Gained
    <3>2. /\ AmountOf(Undelivered("mint"))' = AmountOf(Undelivered("mint")) + t.amount
          /\ AmountOf(Undelivered("burn"))' = AmountOf(Undelivered("burn"))
      <4> HIDE DEF a, t
      <4>1. AmountOf(Undelivered("mint"))' = AmountOf(Undelivered("mint") \cup {a})
        BY <1>9, <2>2
      <4>2. AmountOf(Undelivered("burn"))' = AmountOf(Undelivered("burn") \cup {})
        BY <1>9, <2>2
      <4>3. Undelivered("burn") \cup {} = Undelivered("burn")
        OBVIOUS
      <4> QED
        BY <1>7, <2>2, <4>1, <4>2, <4>3
    <3> QED
      BY <1>2, <1>7, <1>8, <1>10, <2>1, <3>1, <3>2
  <2>3. CASE a.action = "burn"
    <3>1. Gained(t, l) = 0 - t.amount
      BY <1>5, <2>3 DEF Gained
    <3>2. /\ AmountOf(Undelivered("burn"))' = AmountOf(Undelivered("burn")) + t.amount
          /\ AmountOf(Undelivered("mint"))' = AmountOf(Undelivered("mint"))
      <4> HIDE DEF a, t
      <4>1. AmountOf(Undelivered("burn"))' = AmountOf(Undelivered("burn") \cup {a})
        BY <1>9, <2>3
      <4>2. AmountOf(Undelivered("mint"))' = AmountOf(Undelivered("mint") \cup {})
        BY <1>9, <2>3
      <4>3. Undelivered("mint") \cup {} = Undelivered("mint")
        OBVIOUS
      <4> QED
        BY <1>7, <2>3, <4>1, <4>2, <4>3
    <3> QED
      BY <1>2, <1>7, <1>8, <1>10, <2>1, <3>1, <3>2
  <2> QED
    BY <1>5, <2>2, <2>3
<1> QED
  BY <1>10, <1>11, <1>12, <1>13 DEF ParityInv

\* What an honoured authorization does to the supply of the EVM chain.
LEMMA DeliverSupply ==
  ASSUME DeliveryInv, NEW i \in IntentIds, NEW l \in LegIds, Deliver(i, l)
  PROVE  /\ Message(i, l) \notin delivered
         /\ \/ Authorization(i, l).action = "mint" /\ evm_supply' = evm_supply + Authorization(i, l).amount
            \/ Authorization(i, l).action = "burn" /\ evm_supply' = evm_supply - Authorization(i, l).amount
<1> DEFINE a == AuthorizationFor(Authorization(i, l))
<1>1. /\ EVM!Verify(a)
      /\ \/ a.action = "mint" /\ evm_supply' = evm_supply + a.amount
         \/ a.action = "burn" /\ evm_supply' = evm_supply - a.amount
  BY DEF Deliver, EVM!MintWithAuthorization, EVM!BurnWithAuthorization
<1>2. EVM!Digest(a) = Message(i, l) /\ EVM!Digest(a).nonce = a.nonce
  BY DEF Message, EVM!Digest
<1>3. a.action = Authorization(i, l).action /\ a.amount = Authorization(i, l).amount
  BY DEF AuthorizationFor
<1> HIDE DEF a
<1>4. Message(i, l) \notin delivered
  BY <1>1, <1>2 DEF EVM!Verify, DeliveryInv
<1> QED
  BY <1>1, <1>3, <1>4

\* A delivered leg is on its way no more.
LEMMA DeliverParity ==
  ASSUME IInv, AuthorizationInv, DeliveryInv, ParityInv, UNCHANGED solanaVars,
         NEW i \in IntentIds, NEW l \in LegIds, Deliver(i, l)
  PROVE  ParityInv'
<1> DEFINE a == Authorization(i, l)
           Left(action) == Undelivered(action) \ (IF action = a.action THEN {a} ELSE {})
<1>1. /\ Message(i, l) \in signatures /\ delivered' = delivered \cup {SignedFor(a)}
      /\ SignedFor(a) = Message(i, l) /\ a.nonce = LegNonce(i, l)
      /\ UNCHANGED <<message_approvals, deployment, authorized>>
  BY DeliverFacts, MessageNonce DEF solanaVars, ledgerVars, chainVars
<1>2. a \in message_approvals /\ SignedFor(a) \notin delivered
  BY <1>1, SignedIsApproved, DeliverSupply
<1>3. \A m \in message_approvals : SignedFor(m) = SignedFor(a) => m = a
  BY <1>1, MessageNonce, ApprovedByNonce
<1>4. \A action : Undelivered(action)' = Left(action)
  <2>1. \A action : Undelivered(action)' =
          {m \in message_approvals : m.action = action /\ SignedFor(m) \notin delivered \cup {SignedFor(a)}}
    BY <1>1 DEF Undelivered, SignedFor, EVM!Digest, AuthorizationFor
  <2> HIDE DEF a
  <2> QED
    BY <1>3, <2>1, UndeliveredIs
<1>5. a \in Undelivered(a.action) /\ a.amount \in Nat
  BY <1>2, UndeliveredIs, UndeliveredFacts
<1>6. /\ AmountOf(Undelivered(a.action) \ {a}) + a.amount = AmountOf(Undelivered(a.action))
      /\ AmountOf(Undelivered(a.action) \ {a}) \in Nat
  <2>1. /\ IsFiniteSet(Undelivered(a.action) \ {a}) /\ a \notin Undelivered(a.action) \ {a}
        /\ \A x \in (Undelivered(a.action) \ {a}) \cup {a} : x.amount \in Nat
    BY <1>5, UndeliveredFacts, FS_RemoveElement
  <2>2. (Undelivered(a.action) \ {a}) \cup {a} = Undelivered(a.action)
    BY <1>5
  <2> HIDE DEF a
  <2>3. AmountOf((Undelivered(a.action) \ {a}) \cup {a}) = AmountOf(Undelivered(a.action) \ {a}) + a.amount
    BY <2>1, AmountAdd
  <2>4. AmountOf(Undelivered(a.action) \ {a}) \in Nat
    BY <2>1, AmountIsNat
  <2> QED
    BY <2>2, <2>3, <2>4
<1>7. \A action : AmountOf(Undelivered(action))' = AmountOf(Left(action))
  <2> TAKE action
  <2> HIDE DEF Left
  <2> QED
    BY <1>4, NextAmount
<1>8. Book' = Book /\ Book \in Int
  <2>1. Registered(ForeignChain) => authorized[ForeignChain] \in Int
    BY ForeignFacts, SummandTypes DEF NumbersOK
  <2> QED
    BY <1>1, <2>1, ForeignFacts DEF Book, Registered
<1>9. /\ evm_supply \in Int /\ evm_supply + AmountOf(Undelivered("mint")) = Book + AmountOf(Undelivered("burn"))
      /\ AmountOf(Undelivered("mint")) \in Nat /\ AmountOf(Undelivered("burn")) \in Nat
  BY UndeliveredFacts DEF ParityInv
<1>10. /\ evm_supply' \in Int
       /\ (evm_supply + AmountOf(Undelivered("mint")) = Book + AmountOf(Undelivered("burn")))'
  <2>1. \/ a.action = "mint" /\ evm_supply' = evm_supply + a.amount
        \/ a.action = "burn" /\ evm_supply' = evm_supply - a.amount
    BY DeliverSupply
  <2> HIDE DEF a
  <2>2. CASE a.action = "mint"
    <3>1. Left("mint") = Undelivered("mint") \ {a} /\ Left("burn") = Undelivered("burn")
      BY <2>2
    <3>2. /\ AmountOf(Undelivered("mint"))' = AmountOf(Undelivered("mint") \ {a})
          /\ AmountOf(Undelivered("burn"))' = AmountOf(Undelivered("burn"))
      BY <1>7, <3>1, Zenon
    <3>3. evm_supply' = evm_supply + a.amount
      BY <2>1, <2>2
    <3>4. /\ AmountOf(Undelivered("mint") \ {a}) + a.amount = AmountOf(Undelivered("mint"))
          /\ AmountOf(Undelivered("mint") \ {a}) \in Nat
      BY <1>6, <2>2
    <3> HIDE DEF Left
    <3> QED
      BY <1>5, <1>8, <1>9, <3>2, <3>3, <3>4
  <2>3. CASE a.action = "burn"
    <3>1. Left("burn") = Undelivered("burn") \ {a} /\ Left("mint") = Undelivered("mint")
      BY <2>3
    <3>2. /\ AmountOf(Undelivered("burn"))' = AmountOf(Undelivered("burn") \ {a})
          /\ AmountOf(Undelivered("mint"))' = AmountOf(Undelivered("mint"))
      BY <1>7, <3>1, Zenon
    <3>3. evm_supply' = evm_supply - a.amount
      BY <2>1, <2>3
    <3>4. /\ AmountOf(Undelivered("burn") \ {a}) + a.amount = AmountOf(Undelivered("burn"))
          /\ AmountOf(Undelivered("burn") \ {a}) \in Nat
      BY <1>6, <2>3
    <3> HIDE DEF Left
    <3> QED
      BY <1>5, <1>8, <1>9, <3>2, <3>3, <3>4
  <2> QED
    BY <2>1, <2>2, <2>3
<1> QED
  BY <1>1, <1>10 DEF ParityInv, Registered

\* The other steps change neither the supply nor what is on its way.
LEMMA QuietParity ==
  ASSUME ParityInv,
         \/ Configures /\ UNCHANGED evmVars
         \/ (\E t \in Proposals : CreateIntent(t)) /\ UNCHANGED evmVars
         \/ (\E i \in IntentIds, l \in LegIds : ConfirmLeg(Executor, i, l)) /\ UNCHANGED evmVars
         \/ (\E i \in IntentIds, l \in LegIds : SignsFor(i, l)) /\ UNCHANGED solanaVars
         \/ (\E x, y \in Accounts, v \in Amounts : EVM!Transfer(x, y, v)) /\ UNCHANGED solanaVars
         \/ UNCHANGED <<solanaVars, evmVars>>
  PROVE  ParityInv'
<1>1. UNCHANGED <<evm_supply, delivered, message_approvals, deployment>> /\ authorized' = authorized
  BY DEF Configures, InitAsset, ApproveIntent, Tick, CreateIntent, ConfirmLeg, SignsFor,
         EVM!DWalletSigns, EVM!Transfer, EVM!tokenVars,
         vars, ledgerVars, chainVars, intentVars, legVars, solanaVars, evmVars
<1> QED
  BY <1>1, ParityStable

LEMMA CoreStepParity ==
  ASSUME SystemInv, SystemInv', ParityInv, CoreStep
  PROVE  ParityInv'
<1>1. IInv /\ IInv' /\ AuthorizationInv /\ DeliveryInv
  BY DEF SystemInv
<1>2. CASE LedgerMoves /\ UNCHANGED evmVars
  BY <1>1, <1>2, QuietParity, AddChainParity, ExecuteNativeParity, ExecuteForeignParity
     DEF LedgerMoves, ExecuteLeg
<1>3. CASE EvmMoves /\ UNCHANGED solanaVars
  BY <1>1, <1>3, QuietParity, DeliverParity DEF EvmMoves
<1> QED
  BY <1>2, <1>3, QuietParity DEF CoreStep

LEMMA ParityInvHolds == ExecutorSpec => []ParityInv
<1>1. SystemInv /\ [ExecutorNext]_sysVars => SystemInv' /\ CoreStep
  BY NextKeeps
<1>2. SystemInv /\ SystemInv' /\ ParityInv /\ CoreStep => ParityInv'
  BY CoreStepParity
<1> QED
  BY <1>1, <1>2, InitParityInv, SystemInvHolds, PTL DEF ExecutorSpec

\* The token on the chain the ledger cannot see never drifts from its book:
\* they differ by the authorizations on their way and by nothing else, however
\* many processes race and die (index.ts:97-276, MintController.sol:78-98,
\* instructions.rs:540-784).
THEOREM ForeignParityHolds == ExecutorSpec => []ForeignParity
<1>1. ParityInv => ForeignParity
  BY DEF ParityInv, ForeignParity, Book
<1> QED
  BY <1>1, ParityInvHolds, PTL
-----------------------------------------------------------------------------
(* No amount is in two places.                                               *)

LEMMA AmountUnion ==
  ASSUME NEW A, IsFiniteSet(A), NEW B, IsFiniteSet(B), A \cap B = {},
         \A x \in A \cup B : x.amount \in Int
  PROVE  AmountOf(A \cup B) = AmountOf(A) + AmountOf(B)
<1> DEFINE f == [x \in A \cup B |-> x.amount]
           g == [x \in A |-> x.amount]
           h == [x \in B |-> x.amount]
<1>1. /\ \A x \in A \cup B : f[x] \in Int
      /\ \A x \in A : f[x] = g[x]
      /\ \A x \in B : f[x] = h[x]
  OBVIOUS
<1>2. /\ AmountOf(A \cup B) = SumOver(f, A \cup B)
      /\ AmountOf(A) = SumOver(g, A) /\ AmountOf(B) = SumOver(h, B)
  BY DEF AmountOf
<1> HIDE DEF f, g, h
<1>3. SumOver(f, A \cup B) = SumOver(f, A) + SumOver(f, B)
  BY <1>1, SumUnion
<1>4. SumOver(f, A) = SumOver(g, A)
  BY <1>1, SumSame
<1>5. SumOver(f, B) = SumOver(h, B)
  BY <1>1, SumSame
<1> QED
  BY <1>2, <1>3, <1>4, <1>5, Zenon

\* The burns on their way that belong to burn intents.
BurnsOnTheirWay ==
  {m \in Undelivered("burn") : \E i \in IntentIds : terms[i].kind = "Burn" /\ m = Authorization(i, 0)}

\* A burn on its way is that of a burn intent, or of a move that is in flight:
\* the mint of the move waits for the burn to be confirmed.
LEMMA BurnIsOfMove ==
  ASSUME SystemInv, StatusMatchesLegs, NEW m \in Undelivered("burn") \ BurnsOnTheirWay
  PROVE  \E i \in IntentIds : m = Authorization(i, 0) /\ InFlightAmount[i] = m.amount
<1>1. m \in message_approvals /\ m.action = "burn" /\ SignedFor(m) \notin delivered
  BY UndeliveredIs
<1>2. PICK i \in IntentIds, l \in LegIds : m = Authorization(i, l) /\ Executed(i, l) /\ IsForeign(i, l)
  BY <1>1, ApprovedLeg DEF SystemInv
<1>3. LegAction(terms[i], l) = "burn" /\ m.amount = terms[i].amount
  BY <1>1, <1>2 DEF Authorization
<1>4. Created(i) /\ HasLeg(terms[i].kind, l) /\ terms[i].kind \in {"Mint", "Burn", "Move"}
  <2>1. Created(i)
    BY <1>2, CreatedWhenExecuted DEF SystemInv
  <2> QED
    BY <1>2, <2>1 DEF SystemInv, IInv, IntentInv, Executed, Terms, Kinds
<1>5. l = 0 /\ terms[i].kind = "Move"
  BY <1>1, <1>2, <1>3, <1>4 DEF LegAction, HasLeg, LegIds, BurnsOnTheirWay
<1>6. leg_status[<<i, 0>>] # "Confirmed"
  BY <1>1, <1>2, <1>5, MessageNonce DEF SystemInv, ConfirmedWasDelivered
<1>7. ~Executed(i, 1)
  BY <1>6, StatusMatchesLegsByIntent DEF StatusInv
<1>8. leg_status[<<i, 1>>] = "Pending"
  <2>1. leg_status[<<i, 1>>] \in LegStatuses /\ leg_status[<<i, 1>>] # "None"
    BY <1>4, <1>5, IndexFacts DEF SystemInv, IInv, TypeOK, IntentInv, HasLeg, LegIds
  <2> QED
    BY <1>7, <2>1 DEF LegStatuses, Executed
<1>9. InFlight(i)
  BY <1>2, <1>5, <1>8 DEF InFlight
<1> QED
  BY <1>2, <1>3, <1>5, <1>9 DEF InFlightAmount

\* So the burns of moves on their way are covered by what is in flight.
LEMMA BurnsOfMoves ==
  ASSUME SystemInv, ParityInv, StatusMatchesLegs
  PROVE  AmountOf(Undelivered("burn") \ BurnsOnTheirWay) <= InFlightSum
<1> DEFINE S == Undelivered("burn") \ BurnsOnTheirWay
           f == [m \in S |-> m.amount]
           h == [m \in S |-> CHOOSE i \in IntentIds : m = Authorization(i, 0) /\ InFlightAmount[i] = m.amount]
<1>1. IsFiniteSet(S) /\ \A m \in S : m.amount \in Nat
  BY UndeliveredFacts, FS_Difference DEF SystemInv
<1>2. \A m \in S : h[m] \in IntentIds /\ m = Authorization(h[m], 0) /\ InFlightAmount[h[m]] = m.amount
  BY BurnIsOfMove
<1>3. \A i \in IntentIds : InFlightAmount[i] \in Nat
  <2>1. \A i \in IntentIds : terms[i].amount \in Nat
    BY ConstantFacts DEF SystemInv, IInv, TypeOK, Terms, NoTerms
  <2> QED
    BY <2>1 DEF InFlightAmount
<1>4. h \in [S -> IntentIds]
  <2>1. h = [m \in S |-> h[m]]
    OBVIOUS
  <2> HIDE DEF h
  <2> QED
    BY <1>2, <2>1
<1>5. \A x, y \in S : h[x] = h[y] => x = y
  <2> SUFFICES ASSUME NEW x \in S, NEW y \in S, h[x] = h[y]
               PROVE  x = y
    OBVIOUS
  <2> HIDE DEF h, S
  <2>1. x = Authorization(h[x], 0) /\ y = Authorization(h[y], 0)
    BY <1>2
  <2> QED
    BY <2>1, Zenon
<1>6. \A m \in S : f[m] = m.amount /\ f[m] \in Nat
  BY <1>1
<1> HIDE DEF f, h, S
<1>7. \A m \in S : f[m] <= InFlightAmount[h[m]]
  BY <1>2, <1>6
<1>8. \A m \in S : f[m] \in Nat
  BY <1>6
<1>9. SumOver(f, S) <= SumOver(InFlightAmount, IntentIds)
  BY <1>1, <1>3, <1>4, <1>5, <1>7, <1>8, FiniteIds, SumInjected
<1>10. AmountOf(S) = SumOver(f, S)
  BY DEF AmountOf, f
<1> QED
  BY <1>9, <1>10 DEF InFlightSum, S

\* Each chain but one is native, and its mint is its book.
LEMMA NativeSupplies ==
  ASSUME SystemInv, ParityInv, \A c \in ChainIds : Registered(c)
  PROVE  /\ SumOver(token_supply, ChainIds \ {ForeignChain}) = SumOver(authorized, ChainIds \ {ForeignChain})
         /\ IssuedSum = authorized[ForeignChain] + SumOver(authorized, ChainIds \ {ForeignChain})
<1>1. \A c \in ChainIds \ {ForeignChain} : token_supply[c] = authorized[c]
  <2>1. \A c \in ChainIds : deployment[c].leg_kind \in {"SolanaNative", "IkaForeign"}
    BY DEF SystemInv, IInv, TypeOK, Deployment, LegKinds
  <2> QED
    BY <2>1, ForeignIsOne DEF SystemInv, IInv, ChainInv
<1>2. IsFiniteSet(ChainIds \ {ForeignChain})
  BY FiniteIds, FS_RemoveElement
<1>3. \A c \in ChainIds : authorized[c] \in Int
  BY SummandTypes DEF SystemInv, NumbersOK
<1> QED
  BY <1>1, <1>2, <1>3, FiniteIds, ForeignFacts, SumSame, SumWithout DEF IssuedSum

LEMMA NeverInflated ==
  ASSUME SystemInv, ParityInv, StatusMatchesLegs, SupplyAccounting
  PROVE  MoveNeverInflates
<1> SUFFICES ASSUME \A c \in ChainIds : Registered(c)
             PROVE  evm_supply + SumOver(token_supply, ChainIds \ {ForeignChain})
                      <= authorized_total + AmountOf(BurnsOnTheirWay)
  BY DEF MoveNeverInflates, BurnsOnTheirWay
<1> DEFINE B == Undelivered("burn")
           R == SumOver(authorized, ChainIds \ {ForeignChain})
<1>1. evm_supply + AmountOf(Undelivered("mint")) = authorized[ForeignChain] + AmountOf(B)
  BY ForeignFacts DEF ParityInv, Book
<1>2. AmountOf(B) = AmountOf(BurnsOnTheirWay) + AmountOf(B \ BurnsOnTheirWay)
  <2>1. IsFiniteSet(B) /\ BurnsOnTheirWay \subseteq B /\ \A m \in B : m.amount \in Int
    BY UndeliveredFacts DEF SystemInv, BurnsOnTheirWay
  <2>2. /\ IsFiniteSet(BurnsOnTheirWay) /\ IsFiniteSet(B \ BurnsOnTheirWay)
        /\ B = BurnsOnTheirWay \cup (B \ BurnsOnTheirWay)
        /\ BurnsOnTheirWay \cap (B \ BurnsOnTheirWay) = {}
    BY <2>1, FS_Subset
  <2> HIDE DEF B
  <2>3. \A m \in BurnsOnTheirWay \cup (B \ BurnsOnTheirWay) : m.amount \in Int
    BY <2>1
  <2>4. AmountOf(BurnsOnTheirWay \cup (B \ BurnsOnTheirWay)) =
          AmountOf(BurnsOnTheirWay) + AmountOf(B \ BurnsOnTheirWay)
    BY <2>2, <2>3, AmountUnion
  <2> QED
    BY <2>2, <2>4
<1>3. AmountOf(B \ BurnsOnTheirWay) <= InFlightSum
  BY BurnsOfMoves
<1>4. /\ SumOver(token_supply, ChainIds \ {ForeignChain}) = R
      /\ authorized_total = authorized[ForeignChain] + R + InFlightSum
  BY NativeSupplies DEF SupplyAccounting
<1>5. /\ evm_supply \in Int /\ AmountOf(Undelivered("mint")) \in Nat
      /\ AmountOf(BurnsOnTheirWay) \in Nat /\ AmountOf(B \ BurnsOnTheirWay) \in Nat
  <2>1. /\ IsFiniteSet(BurnsOnTheirWay) /\ IsFiniteSet(B \ BurnsOnTheirWay)
        /\ \A m \in BurnsOnTheirWay \cup B : m.amount \in Nat
    BY UndeliveredFacts, FS_Subset, FS_Difference DEF SystemInv, BurnsOnTheirWay
  <2> QED
    BY <2>1, UndeliveredFacts, AmountIsNat DEF SystemInv, ParityInv
<1>6. authorized[ForeignChain] \in Int /\ InFlightSum \in Int /\ R \in Int
  <2>1. \A c \in ChainIds \ {ForeignChain} : authorized[c] \in Int
    BY SummandTypes DEF SystemInv, NumbersOK
  <2>2. R \in Int
    BY <2>1, FiniteIds, FS_RemoveElement, SumIsInt
  <2> QED
    BY <2>2, ForeignFacts, SummandTypes DEF SystemInv, NumbersOK
<1> HIDE DEF B, R
<1> QED
  BY <1>1, <1>2, <1>3, <1>4, <1>5, <1>6

\* However far a burn and its mint drift apart, and whichever process carries
\* each, the tokens on all chains together are never more than the ledger's
\* total, but for the burns on their way (docs/DEMO_RUNBOOK.md:40,
\* instructions.rs:590-599, index.ts:97-276).
THEOREM MoveNeverInflatesHolds == ExecutorSpec => []MoveNeverInflates
<1>1. ExecutorSpec => [](StatusMatchesLegs /\ SupplyAccounting)
  BY LedgerImplemented, StatusMatchesLegsHolds, SupplyAccountingHolds, PTL
<1>2. SystemInv /\ ParityInv /\ StatusMatchesLegs /\ SupplyAccounting => MoveNeverInflates
  BY NeverInflated
<1> QED
  BY <1>1, <1>2, SystemInvHolds, ParityInvHolds, PTL

-----------------------------------------------------------------------------
(***************************************************************************)
(* The accounts as bytes.  The program and the SDK are written in two      *)
(* languages over two tables of offsets; what the SDK reads is the ledger  *)
(* all the same, and what it computes from it is what the program signed.  *)
(***************************************************************************)
-----------------------------------------------------------------------------
(* Instruction data: what the program takes is what the client put in.       *)

\* What the program takes from the data after the instruction's number.
LEMMA TakeLong ==
  ASSUME NEW o \in Nat, NEW b, NEW n, Long(b, n), NEW w, NEW v, FieldAt(b, o + 1, w, v)
  PROVE  take(b.fields, o, w) = v
  BY LongRead DEF take

\* The program reads from InitAsset's data what the client put in.
LEMMA InitAssetDecoded ==
  ASSUME NEW x, Len(x.approvers) \in Nat, DOMAIN x.approvers = 1 .. Len(x.approvers)
  PROVE  InitAssetArgs(buildInitAssetIx(x)) =
           [create_key |-> x.create_key, symbol |-> x.symbol, decimals |-> x.decimals,
            threshold |-> x.threshold, timelock_secs |-> x.timelock_secs, global_cap |-> x.global_cap,
            executor |-> x.executor, ika_program |-> x.ika_program, bump |-> x.bump,
            mint_authority_bump |-> x.mint_authority_bump,
            approvers |-> [n \in 1 .. Len(x.approvers) |-> x.approvers[n]]]
<1> DEFINE len == Len(x.approvers)
           m1 == Bytes(1, 0) ++ Bytes(32, x.create_key) ++ Bytes(8, x.symbol)
                    ++ Bytes(1, x.decimals) ++ Bytes(1, x.threshold)
           m2 == m1 ++ Bytes(8, x.timelock_secs) ++ Bytes(8, x.global_cap)
                    ++ Bytes(32, x.executor) ++ Bytes(32, x.ika_program)
           m3 == m2 ++ Bytes(1, x.bump) ++ Bytes(1, x.mint_authority_bump) ++ Bytes(1, len)
           rows == [n \in DOMAIN x.approvers |-> Bytes(32, x.approvers[n])]
           m4 == m3 ++ Rows(32, rows)
           d == m4.fields
<1>1. buildInitAssetIx(x) = d
  BY DEF buildInitAssetIx
<1>2. /\ Long(m1, 43) /\ FieldAt(m1, 1, 32, x.create_key) /\ FieldAt(m1, 33, 8, x.symbol)
      /\ FieldAt(m1, 41, 1, x.decimals) /\ FieldAt(m1, 42, 1, x.threshold)
  BY LongBytes, Then
<1> HIDE DEF m1
<1>3. /\ Long(m2, 123) /\ \A o, w, v : FieldAt(m1, o, w, v) => FieldAt(m2, o, w, v)
      /\ FieldAt(m2, 43, 8, x.timelock_secs) /\ FieldAt(m2, 51, 8, x.global_cap)
      /\ FieldAt(m2, 59, 32, x.executor) /\ FieldAt(m2, 91, 32, x.ika_program)
  BY <1>2, Then
<1> HIDE DEF m2
<1>4. /\ Long(m3, 126) /\ \A o, w, v : FieldAt(m2, o, w, v) => FieldAt(m3, o, w, v)
      /\ FieldAt(m3, 123, 1, x.bump) /\ FieldAt(m3, 124, 1, x.mint_authority_bump) /\ FieldAt(m3, 125, 1, len)
  BY <1>3, Then
<1> HIDE DEF m3
<1>5. DOMAIN rows = 1 .. len /\ Len(rows) = len
      /\ \A n \in 1 .. len : Long(rows[n], 32) /\ FieldAt(rows[n], 0, 32, x.approvers[n])
  <2>1. \A n \in 1 .. len : rows[n] = Bytes(32, x.approvers[n])
    OBVIOUS
  <2>2. Len(rows) = len
    OBVIOUS
  <2> QED BY <2>1, <2>2, LongBytes
<1> HIDE DEF rows, len
<1>6. /\ Long(m4, 126 + 32 * len) /\ \A o, w, v : FieldAt(m3, o, w, v) => FieldAt(m4, o, w, v)
      /\ \A n \in 1 .. len : FieldAt(m4, 126 + 32 * (n - 1), 32, x.approvers[n])
  <2>1. len \in Nat /\ len = Len(rows) /\ DOMAIN rows = 1 .. Len(rows) /\ \A n \in DOMAIN rows : Long(rows[n], 32)
    BY <1>5 DEF len
  <2>5. Long(m3, 126)
    BY <1>4
  <2>6. \A n \in DOMAIN rows : FieldAt(rows[n], 0, 32, x.approvers[n])
    BY <1>5
  <2>2. Long(m4, 126 + 32 * len) /\ \A o, w, v : FieldAt(m3, o, w, v) => FieldAt(m4, o, w, v)
    BY <2>5, <2>1, RowsJoined
  <2>3. HasRows(m4, 126, 32, rows)
    BY <2>5, <2>1, RowsJoined
  <2>4. \A n \in 1 .. len : FieldAt(m4, 126 + 32 * (n - 1), 32, x.approvers[n])
    <3>1. \A n \in DOMAIN rows : FieldAt(m4, 126 + 32 * (n - 1) + 0, 32, x.approvers[n])
      BY <2>3, <2>6 DEF HasRows
    <3>2. \A n \in 1 .. len : 126 + 32 * (n - 1) + 0 = 126 + 32 * (n - 1)
      BY <2>1
    <3> QED BY <2>1, <3>1, <3>2
  <2> QED BY <2>2, <2>4
<1> HIDE DEF m4
<1>8. /\ take(d, 0, 32) = x.create_key /\ take(d, 32, 8) = x.symbol /\ take(d, 40, 1) = x.decimals
      /\ take(d, 41, 1) = x.threshold
  BY <1>2, <1>3, <1>4, <1>6, TakeLong
<1>9. /\ take(d, 42, 8) = x.timelock_secs /\ take(d, 50, 8) = x.global_cap
      /\ take(d, 58, 32) = x.executor /\ take(d, 90, 32) = x.ika_program
  BY <1>3, <1>4, <1>6, TakeLong
<1>10. take(d, 122, 1) = x.bump /\ take(d, 123, 1) = x.mint_authority_bump /\ take(d, 124, 1) = len
  BY <1>4, <1>6, TakeLong
<1>11. \A n \in 1 .. len : take(d, 125 + 32 * (n - 1), 32) = x.approvers[n]
  <2> TAKE n \in 1 .. len
  <2>1. 125 + 32 * (n - 1) \in Nat /\ 125 + 32 * (n - 1) + 1 = 126 + 32 * (n - 1)
    BY DEF len
  <2> QED BY <1>6, <2>1, TakeLong
<1> HIDE DEF d
<1> QED BY <1>1, <1>8, <1>9, <1>10, <1>11 DEF InitAssetArgs, len

\* The length byte says whether there is an address.
LEMMA ByteLenFacts == \A x : ByteLen(x) \in {0, 20, 32} /\ (ByteLen(x) = 0 <=> x = NoAccount)
  BY DEF ByteLen

\* A string with one more address.
LEMMA ThenAddr ==
  ASSUME NEW n \in Nat, NEW a, NEW x, Long(a, n)
  PROVE  /\ Long(a ++ PadAddr(x), n + 65)
         /\ \A o, u, z : FieldAt(a, o, u, z) => FieldAt(a ++ PadAddr(x), o, u, z)
         /\ FieldAt(a ++ PadAddr(x), n, 1, ByteLen(x)) /\ FieldAt(a ++ PadAddr(x), n + 1, 64, x)
<1> DEFINE b == ByteLen(x)
<1> HIDE DEF b
<1>1. /\ Long(a ++ (Bytes(1, b) ++ Bytes(64, x)), n + 1 + 64)
      /\ \A o, u, z : FieldAt(a, o, u, z) => FieldAt(a ++ (Bytes(1, b) ++ Bytes(64, x)), o, u, z)
      /\ FieldAt(a ++ (Bytes(1, b) ++ Bytes(64, x)), n, 1, b)
      /\ FieldAt(a ++ (Bytes(1, b) ++ Bytes(64, x)), n + 1, 64, x)
  BY ThenPair
<1> QED BY <1>1 DEF b, PadAddr

\* An address takes 65 bytes.
LEMMA PadAddrLong == \A x : /\ Long(PadAddr(x), 65) /\ FieldAt(PadAddr(x), 0, 1, ByteLen(x))
                            /\ FieldAt(PadAddr(x), 1, 64, x)
<1> TAKE x
<1> DEFINE b == ByteLen(x)
           c == Bytes(1, b)
<1> HIDE DEF b
<1>1. Long(c, 1) /\ FieldAt(c, 0, 1, b)
  BY LongBytes
<1> HIDE DEF c
<1>2. Long(c ++ Bytes(64, x), 65) /\ FieldAt(c ++ Bytes(64, x), 0, 1, b) /\ FieldAt(c ++ Bytes(64, x), 1, 64, x)
  BY <1>1, Then
<1> QED BY <1>2 DEF b, c, PadAddr

\* The program reads back the address a client padded.
LEMMA TakeAddr ==
  ASSUME NEW o \in Nat, NEW b, NEW n, NEW x, Long(b, n), FieldAt(b, o + 1, 1, ByteLen(x)), FieldAt(b, o + 2, 64, x)
  PROVE  read_addr_arg(b.fields, o) = x
<1>1. take(b.fields, o, 1) = ByteLen(x)
  BY TakeLong
<1>2. o + 1 + 1 = o + 2 /\ o + 1 \in Nat
  OBVIOUS
<1>3. take(b.fields, o + 1, 64) = x
  BY <1>2, TakeLong
<1> QED BY <1>1, <1>3, ByteLenFacts DEF read_addr_arg

\* The numbers written for kinds, actions and statuses stand for one name each.
LEMMA NamesOfCodes ==
  /\ \A k \in LegKinds : NameOf(LEG_KIND, LegKind[k]) = k
  /\ \A k \in Kinds : NameOf(KIND, IntentKind[k]) = k
<1>1. \A k \in LegKinds : NameOf(LEG_KIND, LegKind[k]) = k
  <2> TAKE k \in LegKinds
  <2>1. k \in DOMAIN LEG_KIND /\ LEG_KIND[k] = LegKind[k]
        /\ \A n \in DOMAIN LEG_KIND : LEG_KIND[n] = LegKind[k] => n = k
    BY DEF LegKinds, LEG_KIND, LegKind
  <2> QED BY <2>1 DEF NameOf
<1>2. \A k \in Kinds : NameOf(KIND, IntentKind[k]) = k
  <2> TAKE k \in Kinds
  <2>1. k \in DOMAIN KIND /\ KIND[k] = IntentKind[k]
        /\ \A n \in DOMAIN KIND : KIND[n] = IntentKind[k] => n = k
    BY DEF Kinds, KIND, IntentKind
  <2> QED BY <2>1 DEF NameOf
<1> QED BY <1>1, <1>2

\* The program reads from CreateIntent's data what the client put in.
LEMMA CreateIntentDecoded ==
  ASSUME NEW x, x.kind \in Kinds
  PROVE  CreateIntentArgs(buildCreateIntentIx(x)) =
           [kind |-> x.kind, amount |-> x.amount, src_chain |-> x.src_chain, dst_chain |-> x.dst_chain,
            recipient |-> x.recipient, source |-> x.source, memo |-> x.memo, bump |-> x.bump]
<1> DEFINE kind == IntentKind[x.kind]
           m1 == Bytes(1, 2) ++ Bytes(1, kind) ++ Bytes(8, x.amount)
                 ++ Bytes(2, x.src_chain) ++ Bytes(2, x.dst_chain)
           m2 == m1 ++ PadAddr(x.recipient) ++ PadAddr(x.source)
           m3 == m2 ++ Bytes(32, x.memo) ++ Bytes(1, x.bump)
           d == m3.fields
<1>1. buildCreateIntentIx(x) = d
  BY DEF buildCreateIntentIx
<1>2. NameOf(KIND, kind) = x.kind
  BY NamesOfCodes
<1> HIDE DEF kind
<1>3. /\ Long(m1, 14) /\ FieldAt(m1, 1, 1, kind) /\ FieldAt(m1, 2, 8, x.amount)
      /\ FieldAt(m1, 10, 2, x.src_chain) /\ FieldAt(m1, 12, 2, x.dst_chain)
  BY LongBytes, Then
<1> HIDE DEF m1
<1>4. /\ Long(m2, 144) /\ \A o, w, v : FieldAt(m1, o, w, v) => FieldAt(m2, o, w, v)
      /\ FieldAt(m2, 14, 1, ByteLen(x.recipient)) /\ FieldAt(m2, 15, 64, x.recipient)
      /\ FieldAt(m2, 79, 1, ByteLen(x.source)) /\ FieldAt(m2, 80, 64, x.source)
  BY <1>3, ThenAddr
<1> HIDE DEF m2
<1>5. /\ Long(m3, 177) /\ \A o, w, v : FieldAt(m2, o, w, v) => FieldAt(m3, o, w, v)
      /\ FieldAt(m3, 144, 32, x.memo) /\ FieldAt(m3, 176, 1, x.bump)
  BY <1>4, Then
<1> HIDE DEF m3
<1>6. take(d, 0, 1) = kind /\ take(d, 1, 8) = x.amount /\ take(d, 9, 2) = x.src_chain
      /\ take(d, 11, 2) = x.dst_chain
  BY <1>3, <1>4, <1>5, TakeLong
<1>7. take(d, 143, 32) = x.memo /\ take(d, 175, 1) = x.bump
  BY <1>5, TakeLong
<1>8. read_addr_arg(d, 13) = x.recipient /\ read_addr_arg(d, 78) = x.source
  BY <1>4, <1>5, TakeAddr
<1> HIDE DEF d
<1> QED BY <1>1, <1>2, <1>6, <1>7, <1>8 DEF CreateIntentArgs

\* The same of the two instructions that name a leg.
LEMMA LegArgsDecoded ==
  /\ \A l, bump : take(buildExecuteLegIx(l, bump), 0, 1) = l
  /\ \A l, tx : /\ take(buildConfirmLegIx(l, tx), 0, 1) = l
                /\ read_addr_arg(buildConfirmLegIx(l, tx), 1) = tx
<1>1. ASSUME NEW l, NEW bump PROVE take(buildExecuteLegIx(l, bump), 0, 1) = l
  <2> DEFINE m == Bytes(1, 4) ++ Bytes(1, l) ++ Bytes(1, bump) ++ Bytes(1, 255)
  <2>1. Long(m, 4) /\ FieldAt(m, 1, 1, l)
    BY LongBytes, Then
  <2> HIDE DEF m
  <2>2. take(m.fields, 0, 1) = l
    BY <2>1, TakeLong
  <2> QED BY <2>2 DEF buildExecuteLegIx, m
<1>2. ASSUME NEW l, NEW tx
      PROVE  take(buildConfirmLegIx(l, tx), 0, 1) = l /\ read_addr_arg(buildConfirmLegIx(l, tx), 1) = tx
  <2> DEFINE m == Bytes(1, 5) ++ Bytes(1, l)
             r == m ++ PadAddr(tx)
  <2>1. Long(m, 2) /\ FieldAt(m, 1, 1, l)
    BY LongBytes, Then
  <2> HIDE DEF m
  <2>2. Long(r, 67) /\ FieldAt(r, 1, 1, l) /\ FieldAt(r, 2, 1, ByteLen(tx)) /\ FieldAt(r, 3, 64, tx)
    BY <2>1, ThenAddr
  <2> HIDE DEF r
  <2>3. take(r.fields, 0, 1) = l /\ read_addr_arg(r.fields, 1) = tx
    BY <2>2, TakeLong, TakeAddr
  <2> QED BY <2>3 DEF buildConfirmLegIx, m, r
<1> QED BY <1>1, <1>2

\* The program reads from AddChain's data what the client put in.
LEMMA AddChainDecoded ==
  ASSUME NEW x, x.leg_kind \in LegKinds, Len(x.allowlist) \in Nat, DOMAIN x.allowlist = 1 .. Len(x.allowlist)
  PROVE  AddChainArgs(buildAddChainIx(x)) =
           [chain_id |-> x.chain_id, leg_kind |-> x.leg_kind, encoding |-> x.encoding, curve |-> x.curve,
            scheme |-> x.scheme, dwallet |-> x.dwallet,
            dwallet_pubkey_len |-> PublicKeyLen(x.dwallet_pubkey, x.curve),
            dwallet_pubkey |-> x.dwallet_pubkey, bump |-> x.bump, contract |-> x.contract,
            domain |-> x.domain, cap |-> x.cap, authorized |-> x.authorized,
            allowlist |-> [n \in 1 .. Len(x.allowlist) |-> x.allowlist[n]]]
<1> DEFINE len == Len(x.allowlist)
           kind == LegKind[x.leg_kind]
           pub == PublicKeyLen(x.dwallet_pubkey, x.curve)
           m0 == Bytes(1, 1) ++ Bytes(2, x.chain_id) ++ Bytes(1, kind) ++ Bytes(1, x.encoding)
           m1 == m0 ++ Signing(x) ++ Bytes(32, x.dwallet)
           m2 == m1 ++ Bytes(1, pub) ++ Bytes(65, x.dwallet_pubkey) ++ PadAddr(x.contract)
           m3 == m2 ++ Bytes(32, x.domain) ++ Bytes(8, x.cap) ++ Bytes(8, x.authorized)
           m4 == m3 ++ Bytes(1, x.bump) ++ Bytes(1, len)
           rows == [n \in DOMAIN x.allowlist |-> PadAddr(x.allowlist[n])]
           m5 == m4 ++ Rows(65, rows)
           d == m5.fields
<1>1. buildAddChainIx(x) = d
  BY DEF buildAddChainIx, ADDR_LEN
<1>2. NameOf(LEG_KIND, kind) = x.leg_kind
  BY NamesOfCodes
<1> HIDE DEF kind, pub
<1>3. /\ Long(m0, 5) /\ FieldAt(m0, 1, 2, x.chain_id) /\ FieldAt(m0, 3, 1, kind) /\ FieldAt(m0, 4, 1, x.encoding)
  BY LongBytes, Then
<1> HIDE DEF m0
<1>4. /\ Long(m1, 41) /\ \A o, w, v : FieldAt(m0, o, w, v) => FieldAt(m1, o, w, v)
      /\ FieldAt(m1, 5, 2, x.curve) /\ FieldAt(m1, 7, 2, x.scheme) /\ FieldAt(m1, 9, 32, x.dwallet)
  <2> DEFINE s == m0 ++ Signing(x)
  <2>1. /\ Long(s, 9) /\ \A o, w, v : FieldAt(m0, o, w, v) => FieldAt(s, o, w, v)
        /\ FieldAt(s, 5, 2, x.curve) /\ FieldAt(s, 7, 2, x.scheme)
    BY <1>3, ThenPair DEF Signing
  <2> HIDE DEF s
  <2>2. /\ Long(s ++ Bytes(32, x.dwallet), 41) /\ FieldAt(s ++ Bytes(32, x.dwallet), 9, 32, x.dwallet)
        /\ \A o, w, v : FieldAt(s, o, w, v) => FieldAt(s ++ Bytes(32, x.dwallet), o, w, v)
    BY <2>1, Then
  <2> QED BY <2>1, <2>2 DEF s
<1> HIDE DEF m1
<1>5. /\ Long(m2, 172) /\ \A o, w, v : FieldAt(m1, o, w, v) => FieldAt(m2, o, w, v)
      /\ FieldAt(m2, 41, 1, pub) /\ FieldAt(m2, 42, 65, x.dwallet_pubkey)
      /\ FieldAt(m2, 107, 1, ByteLen(x.contract)) /\ FieldAt(m2, 108, 64, x.contract)
  BY <1>4, Then, ThenAddr
<1> HIDE DEF m2
<1>6. /\ Long(m3, 220) /\ \A o, w, v : FieldAt(m2, o, w, v) => FieldAt(m3, o, w, v)
      /\ FieldAt(m3, 172, 32, x.domain) /\ FieldAt(m3, 204, 8, x.cap) /\ FieldAt(m3, 212, 8, x.authorized)
  BY <1>5, Then
<1> HIDE DEF m3
<1>7. /\ Long(m4, 222) /\ \A o, w, v : FieldAt(m3, o, w, v) => FieldAt(m4, o, w, v)
      /\ FieldAt(m4, 220, 1, x.bump) /\ FieldAt(m4, 221, 1, len)
  BY <1>6, Then
<1> HIDE DEF m4
<1>8. /\ len = Len(rows) /\ len \in Nat /\ DOMAIN rows = 1 .. Len(rows)
      /\ \A n \in DOMAIN rows : /\ Long(rows[n], 65) /\ FieldAt(rows[n], 0, 1, ByteLen(x.allowlist[n]))
                                /\ FieldAt(rows[n], 1, 64, x.allowlist[n])
  <2>1. \A n \in 1 .. len : rows[n] = PadAddr(x.allowlist[n])
    OBVIOUS
  <2>2. Len(rows) = len
    OBVIOUS
  <2> QED BY <2>1, <2>2, PadAddrLong
<1> HIDE DEF rows, len
<1>9. Long(m4, 222)
  BY <1>7
<1>10. /\ Long(m5, 222 + 65 * len) /\ \A o, w, v : FieldAt(m4, o, w, v) => FieldAt(m5, o, w, v)
       /\ \A n \in 1 .. len : /\ FieldAt(m5, 222 + 65 * (n - 1) + 0, 1, ByteLen(x.allowlist[n]))
                              /\ FieldAt(m5, 222 + 65 * (n - 1) + 1, 64, x.allowlist[n])
  <2>1. len = Len(rows) /\ len \in Nat /\ DOMAIN rows = 1 .. Len(rows) /\ \A n \in DOMAIN rows : Long(rows[n], 65)
    BY <1>8
  <2>2. \A n \in DOMAIN rows : FieldAt(rows[n], 0, 1, ByteLen(x.allowlist[n]))
    BY <1>8
  <2>3. \A n \in DOMAIN rows : FieldAt(rows[n], 1, 64, x.allowlist[n])
    BY <1>8
  <2>4. Long(m5, 222 + 65 * len) /\ \A o, w, v : FieldAt(m4, o, w, v) => FieldAt(m5, o, w, v)
    BY <1>9, <2>1, RowsJoined
  <2>7. HasRows(m5, 222, 65, rows)
    BY <1>9, <2>1, RowsJoined
  <2>5. \A n \in DOMAIN rows : FieldAt(m5, 222 + 65 * (n - 1) + 0, 1, ByteLen(x.allowlist[n]))
    BY <2>2, <2>7 DEF HasRows
  <2>6. \A n \in DOMAIN rows : FieldAt(m5, 222 + 65 * (n - 1) + 1, 64, x.allowlist[n])
    BY <2>3, <2>7 DEF HasRows
  <2> QED BY <2>1, <2>4, <2>5, <2>6
<1> HIDE DEF m5
<1>12. /\ take(d, 0, 2) = x.chain_id /\ take(d, 2, 1) = kind /\ take(d, 3, 1) = x.encoding
       /\ take(d, 4, 2) = x.curve /\ take(d, 6, 2) = x.scheme /\ take(d, 8, 32) = x.dwallet
  BY SMTT(30), <1>3, <1>4, <1>5, <1>6, <1>7, <1>10, TakeLong
<1>13. /\ take(d, 40, 1) = pub /\ take(d, 41, 65) = x.dwallet_pubkey
       /\ read_addr_arg(d, 106) = x.contract
  BY <1>5, <1>6, <1>7, <1>10, TakeLong, TakeAddr
<1>14. /\ take(d, 171, 32) = x.domain /\ take(d, 203, 8) = x.cap /\ take(d, 211, 8) = x.authorized
       /\ take(d, 219, 1) = x.bump /\ take(d, 220, 1) = len
  BY <1>6, <1>7, <1>10, TakeLong
<1>15. \A n \in 1 .. len : read_addr_arg(d, 221 + 65 * (n - 1)) = x.allowlist[n]
  <2> TAKE n \in 1 .. len
  <2> DEFINE o == 221 + 65 * (n - 1)
  <2>1. o \in Nat /\ o + 1 = 222 + 65 * (n - 1) + 0 /\ o + 2 = 222 + 65 * (n - 1) + 1
    BY <1>8
  <2>2. FieldAt(m5, o + 1, 1, ByteLen(x.allowlist[n])) /\ FieldAt(m5, o + 2, 64, x.allowlist[n])
    BY <1>10, <2>1
  <2> HIDE DEF o
  <2>3. read_addr_arg(d, o) = x.allowlist[n]
    BY <1>10, <2>1, <2>2, TakeAddr
  <2> QED BY <2>3 DEF o
<1> HIDE DEF d
<1> QED BY <1>1, <1>2, <1>12, <1>13, <1>14, <1>15 DEF AddChainArgs, len, pub, ADDR_LEN

-----------------------------------------------------------------------------
(* The layouts of the three accounts (state.rs): offset and width.           *)

AssetSlots ==
  {<<0, 1>>, <<1, 1>>, <<2, 32>>, <<34, 32>>, <<66, 32>>, <<98, 8>>, <<106, 1>>, <<107, 1>>,
   <<108, 1>>, <<109, 1>>, <<110, 8>>, <<118, 8>>, <<126, 8>>, <<134, 8>>, <<142, 32>>, <<174, 32>>,
   <<206, 32>>, <<238, 32>>, <<270, 32>>, <<302, 1>>, <<303, 1>>, <<304, 32>>}
ChainSlots ==
  {<<0, 1>>, <<1, 1>>, <<2, 32>>, <<34, 2>>, <<36, 1>>, <<37, 1>>, <<38, 2>>, <<40, 2>>, <<42, 32>>,
   <<74, 1>>, <<75, 65>>, <<140, 1>>, <<141, 64>>, <<205, 32>>, <<237, 8>>, <<245, 8>>, <<253, 1>>,
   <<254, 1>>, <<255, 64>>, <<319, 1>>, <<320, 64>>, <<384, 1>>, <<385, 64>>, <<449, 1>>, <<450, 64>>,
   <<514, 1>>}
LegSlots(lo) ==
  {<<lo, 1>>, <<lo + 1, 2>>, <<lo + 3, 1>>, <<lo + 4, 32>>, <<lo + 36, 32>>, <<lo + 68, 1>>,
   <<lo + 69, 64>>, <<lo + 133, 8>>, <<lo + 141, 8>>}
IntentSlots ==
  {<<0, 1>>, <<1, 1>>, <<2, 32>>, <<34, 8>>, <<42, 1>>, <<43, 1>>, <<44, 32>>, <<76, 8>>, <<84, 2>>,
   <<86, 2>>, <<88, 1>>, <<89, 64>>, <<153, 1>>, <<154, 64>>, <<218, 32>>, <<250, 8>>, <<258, 8>>,
   <<266, 1>>, <<267, 1>>, <<268, 1>>, <<269, 1>>} \cup LegSlots(270) \cup LegSlots(419)

\* The fields of state.rs do not overlap in any of the three accounts.
LEMMA AssetLayout == Layout(AssetSlots)
<1>1. \A s \in AssetSlots : s[1] \in Nat /\ s[2] \in Nat \ {0} /\ s = <<s[1], s[2]>>
  BY DEF AssetSlots
<1>2. \A s, t \in AssetSlots : s[1] = t[1] => s = t
  BY DEF AssetSlots
<1>3. \A s, t \in AssetSlots : s[1] < t[1] => s[1] + s[2] <= t[1]
  BY DEF AssetSlots
<1> QED BY <1>1, <1>2, <1>3 DEF Layout

LEMMA ChainLayout == Layout(ChainSlots)
<1>1. \A s \in ChainSlots : s[1] \in Nat /\ s[2] \in Nat \ {0} /\ s = <<s[1], s[2]>>
  BY DEF ChainSlots
<1>2. \A s, t \in ChainSlots : s[1] = t[1] => s = t
  BY DEF ChainSlots
<1>3. \A s, t \in ChainSlots : s[1] < t[1] => s[1] + s[2] <= t[1]
  BY DEF ChainSlots
<1> QED BY <1>1, <1>2, <1>3 DEF Layout

LEMMA IntentLayout == Layout(IntentSlots)
<1>1. \A s \in IntentSlots : s[1] \in Nat /\ s[2] \in Nat \ {0} /\ s = <<s[1], s[2]>>
  BY DEF IntentSlots, LegSlots
<1>2. \A s, t \in IntentSlots : s[1] = t[1] => s = t
  BY DEF IntentSlots, LegSlots
<1>3. \A s, t \in IntentSlots : s[1] < t[1] => s[1] + s[2] <= t[1]
  BY DEF IntentSlots, LegSlots
<1> QED BY <1>1, <1>2, <1>3 DEF Layout

\* One field of the layout.
LEMMA LaidOne ==
  ASSUME NEW S, NEW o, NEW w, NEW v, <<o, w>> \in S
  PROVE  Laid({<<o, w, v>>}, S)
<1> DEFINE f == <<o, w, v>>
<1>1. f = <<f[1], f[2], f[3]>> /\ f[1] = o /\ f[2] = w
  OBVIOUS
<1> HIDE DEF f
<1> QED BY <1>1 DEF Laid, f

-----------------------------------------------------------------------------
(* The Asset account: what the SDK reads after it was created and after the  *)
(* writes of the instructions that follow.                                   *)

ApproverFields(a) == {<<142 + 32 * (n - 1), 32, a[n]>> : n \in DOMAIN a}

\* The approvers' keys lie in their slots.
LEMMA ApproversLaid ==
  ASSUME NEW a, DOMAIN a = 1 .. Len(a), Len(a) \in 1 .. 5
  PROVE  Part(ApproverFields(a), AssetSlots, 142, 270)
<1> DEFINE fs == ApproverFields(a)
           off == {142, 174, 206, 238, 270}
<1>1. \A n \in DOMAIN a : n \in {1, 2, 3, 4, 5}
  OBVIOUS
<1>2. \A n \in DOMAIN a : 142 + 32 * (n - 1) \in off
  BY <1>1
<1>3. \A f \in fs : f = <<f[1], f[2], f[3]>> /\ f[1] \in off /\ f[2] = 32
  BY <1>2 DEF ApproverFields
<1>4. \A o \in off : <<o, 32>> \in AssetSlots /\ o \in 142 .. 270
  BY DEF AssetSlots
<1>5. \A f, g \in fs : f[1] = g[1] => f = g
  BY <1>1 DEF ApproverFields
<1> HIDE DEF fs, off
<1>6. \A f \in fs : f[1] \in 142 .. 270
  BY <1>3, <1>4
<1>7. \A f \in fs : <<f[1], f[2]>> \in AssetSlots
  BY <1>3, <1>4
<1>8. \A f \in fs : f = <<f[1], f[2], f[3]>>
  BY <1>3
<1>9. Laid(fs, AssetSlots)
  BY <1>5, <1>7, <1>8 DEF Laid
<1> QED BY <1>6, <1>9 DEF Part, fs

AssetHead(create_key, admin, executor, symbol, decimals, threshold, count) ==
  {<<0, 1, 1>>, <<1, 1, 1>>, <<2, 32, create_key>>, <<34, 32, admin>>, <<66, 32, executor>>,
   <<98, 8, symbol>>, <<106, 1, decimals>>, <<107, 1, threshold>>, <<108, 1, count>>}
AssetNumbers(global_cap, timelock_secs) ==
  {<<109, 1, 0>>, <<110, 8, global_cap>>, <<118, 8, 0>>, <<126, 8, 0>>, <<134, 8, timelock_secs>>}
AssetTail(bump, mint_authority_bump, ika_program) ==
  {<<302, 1, bump>>, <<303, 1, mint_authority_bump>>, <<304, 32, ika_program>>}

\* So do the other fields of a new asset.
LEMMA AssetHeadLaid ==
  ASSUME NEW key, NEW admin, NEW executor, NEW symbol, NEW decimals, NEW threshold, NEW count,
         NEW cap, NEW secs, NEW bump, NEW mint, NEW ika
  PROVE  /\ Part(AssetHead(key, admin, executor, symbol, decimals, threshold, count), AssetSlots, 0, 108)
         /\ Part(AssetNumbers(cap, secs), AssetSlots, 109, 134)
         /\ Part(AssetTail(bump, mint, ika), AssetSlots, 302, 304)
<1> DEFINE a1 == PutField(PutField(Field(0, 1, 1), 1, 1, 1), 2, 32, key)
           a2 == PutField(PutField(PutField(a1, 34, 32, admin), 66, 32, executor), 98, 8, symbol)
           a3 == PutField(PutField(PutField(a2, 106, 1, decimals), 107, 1, threshold), 108, 1, count)
           b1 == PutField(PutField(Field(109, 1, 0), 110, 8, cap), 118, 8, 0)
           b2 == PutField(PutField(b1, 126, 8, 0), 134, 8, secs)
           c == PutField(PutField(Field(302, 1, bump), 303, 1, mint), 304, 32, ika)
<1>1. /\ Slot(AssetSlots, 0, 1) /\ Slot(AssetSlots, 1, 1) /\ Slot(AssetSlots, 2, 32)
      /\ Slot(AssetSlots, 34, 32) /\ Slot(AssetSlots, 66, 32) /\ Slot(AssetSlots, 98, 8)
  BY DEF AssetSlots, Slot
<1>2. /\ Slot(AssetSlots, 106, 1) /\ Slot(AssetSlots, 107, 1) /\ Slot(AssetSlots, 108, 1)
  BY DEF AssetSlots, Slot
<1>3. /\ Slot(AssetSlots, 109, 1) /\ Slot(AssetSlots, 110, 8) /\ Slot(AssetSlots, 118, 8)
      /\ Slot(AssetSlots, 126, 8) /\ Slot(AssetSlots, 134, 8)
  BY DEF AssetSlots, Slot
<1>4. Slot(AssetSlots, 302, 1) /\ Slot(AssetSlots, 303, 1) /\ Slot(AssetSlots, 304, 32)
  BY DEF AssetSlots, Slot
<1>5. /\ AssetHead(key, admin, executor, symbol, decimals, threshold, count) = a3
      /\ AssetNumbers(cap, secs) = b2 /\ AssetTail(bump, mint, ika) = c
  BY DEF AssetHead, AssetNumbers, AssetTail, PutField, Field
<1>6. Part(a1, AssetSlots, 0, 2) /\ Part(b1, AssetSlots, 109, 118) /\ Part(c, AssetSlots, 302, 304)
  BY <1>1, <1>3, <1>4, PartField3
<1> HIDE DEF a1, b1, c
<1>7. Part(a2, AssetSlots, 0, 98)
  BY <1>1, <1>6, PartPut3
<1> HIDE DEF a2
<1>8. Part(a3, AssetSlots, 0, 108)
  BY <1>2, <1>7, PartPut3
<1>9. Part(b2, AssetSlots, 109, 134)
  BY <1>3, <1>6, PartPut2
<1> HIDE DEF a3, b2
<1> QED BY <1>5, <1>6, <1>8, <1>9

\* What stands in the asset account: what was asked for, and the counters.
AssetHeld(mem, x, chains, total, intents) ==
  /\ Laid(mem, AssetSlots)
  /\ Read(mem, 2, 32, Zero) = x.create_key /\ Read(mem, 34, 32, Zero) = Admin
  /\ Read(mem, 66, 32, Zero) = x.executor /\ Read(mem, 98, 8, 0) = x.symbol
  /\ Read(mem, 106, 1, 0) = x.decimals /\ Read(mem, 107, 1, 0) = x.threshold
  /\ Read(mem, 108, 1, 0) = Len(x.approvers) /\ Read(mem, 109, 1, 0) = chains
  /\ Read(mem, 110, 8, 0) = x.global_cap /\ Read(mem, 118, 8, 0) = total /\ Read(mem, 126, 8, 0) = intents
  /\ Read(mem, 134, 8, 0) = x.timelock_secs /\ Read(mem, 302, 1, 0) = x.bump
  /\ Read(mem, 303, 1, 0) = x.mint_authority_bump /\ Read(mem, 304, 32, Zero) = x.ika_program
  /\ \A n \in 1 .. Len(x.approvers) : Read(mem, 142 + 32 * (n - 1), 32, Zero) = x.approvers[n]

\* InitAsset leaves in the account what was asked for.
LEMMA AssetCreated ==
  ASSUME NEW x, DOMAIN x.approvers = 1 .. Len(x.approvers), Len(x.approvers) \in 1 .. 5
  PROVE  AssetHeld(AssetFields(x, Admin), x, 0, 0, 0)
<1> DEFINE admin == Admin
           mem == AssetFields(x, admin)
           head == AssetHead(x.create_key, admin, x.executor, x.symbol, x.decimals, x.threshold, Len(x.approvers))
           numbers == AssetNumbers(x.global_cap, x.timelock_secs)
           tail == AssetTail(x.bump, x.mint_authority_bump, x.ika_program)
           rest == ApproverFields(x.approvers)
<1>1. mem = (head \cup numbers) \cup (rest \cup tail)
  BY DEF AssetFields, asset, AssetHead, AssetNumbers, AssetTail, ApproverFields
<1> HIDE DEF mem, head, numbers, tail, rest
<1>2. Part(head, AssetSlots, 0, 108) /\ Part(numbers, AssetSlots, 109, 134) /\ Part(tail, AssetSlots, 302, 304)
  BY AssetHeadLaid DEF head, numbers, tail
<1>3. Part(rest, AssetSlots, 142, 270)
  BY ApproversLaid DEF rest
<1>4. Part(mem, AssetSlots, 0, 304)
  <2>1. Part(head \cup numbers, AssetSlots, 0, 134)
    BY <1>2, PartsJoined
  <2>2. Part(rest \cup tail, AssetSlots, 142, 304)
    BY <1>2, <1>3, PartsJoined
  <2> QED BY <1>1, <2>1, <2>2, PartsJoined
<1>5. \A o, w, v, z : <<o, w, v>> \in mem => Read(mem, o, w, z) = v
  BY <1>4, PartRead
<1>6. head \subseteq mem /\ numbers \subseteq mem /\ tail \subseteq mem /\ rest \subseteq mem
  BY <1>1
<1>7. \A n \in 1 .. Len(x.approvers) : Read(mem, 142 + 32 * (n - 1), 32, Zero) = x.approvers[n]
  <2> TAKE n \in 1 .. Len(x.approvers)
  <2> DEFINE o == 142 + 32 * (n - 1)
  <2>1. <<o, 32, x.approvers[n]>> \in rest
    BY DEF ApproverFields, rest
  <2> HIDE DEF o
  <2> QED BY <1>5, <1>6, <2>1 DEF o
<1>8. /\ Read(mem, 2, 32, Zero) = x.create_key /\ Read(mem, 34, 32, Zero) = admin
      /\ Read(mem, 66, 32, Zero) = x.executor /\ Read(mem, 98, 8, 0) = x.symbol
      /\ Read(mem, 106, 1, 0) = x.decimals /\ Read(mem, 107, 1, 0) = x.threshold
      /\ Read(mem, 108, 1, 0) = Len(x.approvers)
  BY <1>5, <1>6 DEF AssetHead, head
<1>9. /\ Read(mem, 109, 1, 0) = 0 /\ Read(mem, 110, 8, 0) = x.global_cap /\ Read(mem, 118, 8, 0) = 0
      /\ Read(mem, 126, 8, 0) = 0 /\ Read(mem, 134, 8, 0) = x.timelock_secs
      /\ Read(mem, 302, 1, 0) = x.bump /\ Read(mem, 303, 1, 0) = x.mint_authority_bump
      /\ Read(mem, 304, 32, Zero) = x.ika_program
  BY <1>5, <1>6 DEF AssetNumbers, AssetTail, numbers, tail
<1>10. Laid(mem, AssetSlots)
  BY <1>4, PartIsLaid
<1> QED BY <1>7, <1>8, <1>9, <1>10 DEF AssetHeld, mem

\* The instructions after InitAsset change three counters of the asset.
LEMMA AssetWritten ==
  ASSUME NEW mem, NEW x, NEW chains, NEW total, NEW intents, AssetHeld(mem, x, chains, total, intents),
         Len(x.approvers) \in 0 .. 5,
         NEW fs, Laid(fs, AssetSlots), \A g \in fs : g[1] \in {109, 118, 126}
  PROVE  LET new == Write(mem, fs) IN
         AssetHeld(new, x, Read(new, 109, 1, 0), Read(new, 118, 8, 0), Read(new, 126, 8, 0))
<1> DEFINE new == Write(mem, fs)
<1>0. Laid(mem, AssetSlots)
  BY DEF AssetHeld
<1>1. Laid(new, AssetSlots)
  BY <1>0, AssetLayout, WriteLaid
<1>2. \A o, w, z : Slot(AssetSlots, o, w) /\ o \notin {109, 118, 126} => Read(new, o, w, z) = Read(mem, o, w, z)
  BY <1>0, AssetLayout, ReadWritten DEF Slot
<1> HIDE DEF new
<1>3. /\ Slot(AssetSlots, 2, 32) /\ Slot(AssetSlots, 34, 32) /\ Slot(AssetSlots, 66, 32)
      /\ Slot(AssetSlots, 98, 8) /\ Slot(AssetSlots, 106, 1) /\ Slot(AssetSlots, 107, 1)
      /\ Slot(AssetSlots, 108, 1) /\ Slot(AssetSlots, 110, 8)
  BY DEF AssetSlots, Slot
<1>4. /\ Slot(AssetSlots, 134, 8) /\ Slot(AssetSlots, 302, 1) /\ Slot(AssetSlots, 303, 1) /\ Slot(AssetSlots, 304, 32)
  BY DEF AssetSlots, Slot
<1>5. /\ Read(new, 2, 32, Zero) = Read(mem, 2, 32, Zero) /\ Read(new, 34, 32, Zero) = Read(mem, 34, 32, Zero)
      /\ Read(new, 66, 32, Zero) = Read(mem, 66, 32, Zero) /\ Read(new, 98, 8, 0) = Read(mem, 98, 8, 0)
      /\ Read(new, 106, 1, 0) = Read(mem, 106, 1, 0) /\ Read(new, 107, 1, 0) = Read(mem, 107, 1, 0)
      /\ Read(new, 108, 1, 0) = Read(mem, 108, 1, 0) /\ Read(new, 110, 8, 0) = Read(mem, 110, 8, 0)
  BY <1>2, <1>3
<1>6. /\ Read(new, 134, 8, 0) = Read(mem, 134, 8, 0) /\ Read(new, 302, 1, 0) = Read(mem, 302, 1, 0)
      /\ Read(new, 303, 1, 0) = Read(mem, 303, 1, 0) /\ Read(new, 304, 32, Zero) = Read(mem, 304, 32, Zero)
  BY <1>2, <1>4
<1>7. \A n \in 1 .. Len(x.approvers) : Read(new, 142 + 32 * (n - 1), 32, Zero) = x.approvers[n]
  <2>1. \A n \in 1 .. Len(x.approvers) : n \in {1, 2, 3, 4, 5}
    <3> DEFINE len == Len(x.approvers)
    <3>1. len \in 0 .. 5
      OBVIOUS
    <3> HIDE DEF len
    <3>2. \A n \in 1 .. len : n \in {1, 2, 3, 4, 5}
      BY <3>1
    <3> QED BY <3>2 DEF len
  <2>2. \A n \in {1, 2, 3, 4, 5} : 142 + 32 * (n - 1) \in {142, 174, 206, 238, 270}
    OBVIOUS
  <2>3. \A o \in {142, 174, 206, 238, 270} : Slot(AssetSlots, o, 32) /\ o \notin {109, 118, 126}
    BY DEF AssetSlots, Slot
  <2>4. \A o \in {142, 174, 206, 238, 270} : Read(new, o, 32, Zero) = Read(mem, o, 32, Zero)
    BY <1>2, <2>3
  <2>5. \A n \in 1 .. Len(x.approvers) : Read(mem, 142 + 32 * (n - 1), 32, Zero) = x.approvers[n]
    BY DEF AssetHeld
  <2> QED BY <2>1, <2>2, <2>4, <2>5
<1> QED BY SMTT(30), <1>1, <1>5, <1>6, <1>7 DEF new, AssetHeld

\* The three writes the later instructions make.
LEMMA AssetCounts ==
  ASSUME NEW mem, NEW x, NEW chains, NEW total, NEW intents, AssetHeld(mem, x, chains, total, intents),
         Len(x.approvers) \in 0 .. 5, NEW v, NEW w
  PROVE  /\ AssetHeld(Write(mem, {<<118, 8, v>>}), x, chains, v, intents)
         /\ AssetHeld(Write(mem, {<<118, 8, v>>, <<109, 1, w>>}), x, w, v, intents)
         /\ AssetHeld(Write(mem, {<<126, 8, v>>}), x, chains, total, v)
<1>1. Laid(mem, AssetSlots) /\ Read(mem, 109, 1, 0) = chains /\ Read(mem, 118, 8, 0) = total /\ Read(mem, 126, 8, 0) = intents
  BY DEF AssetHeld
<1>2. Slot(AssetSlots, 109, 1) /\ Slot(AssetSlots, 118, 8) /\ Slot(AssetSlots, 126, 8)
  BY DEF AssetSlots, Slot
<1>3. AssetHeld(Write(mem, {<<118, 8, v>>}), x, chains, v, intents)
  <2> DEFINE fs == {<<118, 8, v>>}
             new == Write(mem, fs)
  <2>1. Laid(fs, AssetSlots)
    BY <1>2, LaidOne DEF Slot
  <2>2. <<118, 8, v>> \in fs /\ \A g \in fs : g[1] = 118
    OBVIOUS
  <2> HIDE DEF fs
  <2>3. Read(new, 118, 8, 0) = v
    BY <1>1, <2>1, <2>2, AssetLayout, ReadWritten
  <2>4. Read(new, 109, 1, 0) = chains /\ Read(new, 126, 8, 0) = intents
    BY <1>1, <1>2, <2>1, <2>2, AssetLayout, ReadWritten DEF Slot
  <2>5. \A g \in fs : g[1] \in {109, 118, 126}
    BY <2>2
  <2>6. AssetHeld(new, x, Read(new, 109, 1, 0), Read(new, 118, 8, 0), Read(new, 126, 8, 0))
    BY <2>1, <2>5, AssetWritten
  <2> QED BY <2>3, <2>4, <2>6 DEF fs
<1>4. AssetHeld(Write(mem, {<<118, 8, v>>, <<109, 1, w>>}), x, w, v, intents)
  <2> DEFINE h == Field(109, 1, w)
             fs == PutField(h, 118, 8, v)
             new == Write(mem, fs)
  <2>1. Part(h, AssetSlots, 109, 109)
    BY <1>2, PartField
  <2>2. fs = {<<118, 8, v>>, <<109, 1, w>>} /\ <<118, 8, v>> \in fs /\ <<109, 1, w>> \in fs
        /\ \A g \in fs : g[1] \in {118, 109}
    BY DEF Field, PutField
  <2> HIDE DEF h
  <2>3. Part(fs, AssetSlots, 109, 118)
    BY <1>2, <2>1, PartPut
  <2>4. Laid(fs, AssetSlots)
    BY <2>3, PartIsLaid
  <2> HIDE DEF fs
  <2>5. Read(new, 118, 8, 0) = v /\ Read(new, 109, 1, 0) = w
    <3>1. \A o, u, y, z : <<o, u, y>> \in fs => Read(new, o, u, z) = y
      BY <1>1, <2>4, AssetLayout, ReadWritten
    <3>2. <<118, 8, v>> \in fs /\ <<109, 1, w>> \in fs
      BY <2>2
    <3> QED BY <3>1, <3>2
  <2>6. Read(new, 126, 8, 0) = intents
    BY <1>1, <1>2, <2>2, <2>4, AssetLayout, ReadWritten DEF Slot
  <2>7. \A g \in fs : g[1] \in {109, 118, 126}
    BY <2>2
  <2>8. AssetHeld(new, x, Read(new, 109, 1, 0), Read(new, 118, 8, 0), Read(new, 126, 8, 0))
    BY <2>4, <2>7, AssetWritten
  <2> QED BY <2>2, <2>5, <2>6, <2>8
<1>5. AssetHeld(Write(mem, {<<126, 8, v>>}), x, chains, total, v)
  <2> DEFINE fs == {<<126, 8, v>>}
             new == Write(mem, fs)
  <2>1. Laid(fs, AssetSlots)
    BY <1>2, LaidOne DEF Slot
  <2>2. <<126, 8, v>> \in fs /\ \A g \in fs : g[1] = 126
    OBVIOUS
  <2> HIDE DEF fs
  <2>3. Read(new, 126, 8, 0) = v
    BY <1>1, <2>1, <2>2, AssetLayout, ReadWritten
  <2>4. Read(new, 109, 1, 0) = chains /\ Read(new, 118, 8, 0) = total
    BY <1>1, <1>2, <2>1, <2>2, AssetLayout, ReadWritten DEF Slot
  <2>5. \A g \in fs : g[1] \in {109, 118, 126}
    BY <2>2
  <2>6. AssetHeld(new, x, Read(new, 109, 1, 0), Read(new, 118, 8, 0), Read(new, 126, 8, 0))
    BY <2>1, <2>5, AssetWritten
  <2> QED BY <2>3, <2>4, <2>6 DEF fs
<1> QED BY <1>3, <1>4, <1>5

-----------------------------------------------------------------------------
(* The ChainDeployment accounts.                                             *)

\* The SDK reads back an address from its length and its bytes.
LEMMA AddrRead ==
  ASSUME NEW mem, NEW o \in Int, NEW x, Read(mem, o, 1, 0) = ByteLen(x), Read(mem, o + 1, 64, NoAccount) = x
  PROVE  ReadAddr(mem, o) = x
  BY ByteLenFacts DEF ReadAddr, ReadInt

AllowlistFields(a) == UNION {AddrFields(254 + 65 * (n - 1), a[n]) : n \in DOMAIN a}

\* The allowlist lies in its slots.
LEMMA AllowlistLaid ==
  ASSUME NEW a, NEW len \in 0 .. 4, DOMAIN a = 1 .. len
  PROVE  Part(AllowlistFields(a), ChainSlots, 254, 450)
<1> DEFINE fs == AllowlistFields(a)
           off == {254, 319, 384, 449}
           at(n) == 254 + 65 * (n - 1)
<1>1. \A n \in 1 .. len : n \in {1, 2, 3, 4}
  OBVIOUS
<1>2. \A n \in {1, 2, 3, 4} : at(n) \in off
  OBVIOUS
<1>3. \A m, n \in {1, 2, 3, 4} : (at(m) = at(n) => m = n) /\ at(m) # at(n) + 1
  OBVIOUS
<1>4. \A f \in fs : \E n \in 1 .. len : f \in {<<at(n), 1, ByteLen(a[n])>>, <<at(n) + 1, 64, a[n]>>}
  BY DEF AllowlistFields, AddrFields
<1> HIDE DEF at, fs
<1>5. \A f \in fs : /\ f = <<f[1], f[2], f[3]>>
                    /\ \/ f[1] \in off /\ f[2] = 1
                       \/ (\E o \in off : f[1] = o + 1) /\ f[2] = 64
  <2> TAKE f \in fs
  <2>1. PICK n \in 1 .. len : f \in {<<at(n), 1, ByteLen(a[n])>>, <<at(n) + 1, 64, a[n]>>}
    BY <1>4
  <2>2. at(n) \in off
    BY <1>1, <1>2
  <2> QED BY <2>1, <2>2
<1>6. \A o \in off : /\ <<o, 1>> \in ChainSlots /\ <<o + 1, 64>> \in ChainSlots
                     /\ o \in 254 .. 450 /\ o + 1 \in 254 .. 450
  BY DEF ChainSlots
<1>7. \A f, g \in fs : f[1] = g[1] => f = g
  <2> TAKE f, g \in fs
  <2>1. PICK n \in 1 .. len : f \in {<<at(n), 1, ByteLen(a[n])>>, <<at(n) + 1, 64, a[n]>>}
    BY <1>4
  <2>2. PICK m \in 1 .. len : g \in {<<at(m), 1, ByteLen(a[m])>>, <<at(m) + 1, 64, a[m]>>}
    BY <1>4
  <2>3. n \in {1, 2, 3, 4} /\ m \in {1, 2, 3, 4} /\ at(n) \in Int /\ at(m) \in Int
    BY <1>1, <1>2
  <2>4. at(m) # at(n) + 1 /\ at(n) # at(m) + 1 /\ (at(m) = at(n) => m = n)
    BY <1>3, <2>3
  <2> QED BY <2>1, <2>2, <2>3, <2>4
<1> HIDE DEF off
<1>8. \A f \in fs : f[1] \in 254 .. 450 /\ <<f[1], f[2]>> \in ChainSlots
  <2> TAKE f \in fs
  <2>1. CASE f[1] \in off /\ f[2] = 1
    <3>1. <<f[1], 1>> \in ChainSlots /\ f[1] \in 254 .. 450
      BY <1>6, <2>1
    <3> QED BY <2>1, <3>1
  <2>2. CASE (\E o \in off : f[1] = o + 1) /\ f[2] = 64
    <3>1. PICK o \in off : f[1] = o + 1
      BY <2>2
    <3>2. <<o + 1, 64>> \in ChainSlots /\ o + 1 \in 254 .. 450
      BY <1>6
    <3> QED BY <2>2, <3>1, <3>2
  <2> QED BY <1>5, <2>1, <2>2
<1>9. \A f \in fs : f = <<f[1], f[2], f[3]>>
  BY <1>5
<1>10. Laid(fs, ChainSlots)
  BY <1>7, <1>8, <1>9 DEF Laid
<1> QED BY <1>8, <1>10 DEF Part, fs

\* What stands in a chain's account: what was asked for, and the supply authorised on it.
ChainHeld(mem, x, total) ==
  /\ Laid(mem, ChainSlots)
  /\ Read(mem, 2, 32, Zero) = AssetPda /\ Read(mem, 34, 2, 0) = x.chain_id
  /\ Read(mem, 36, 1, 0) = LEG_KIND[x.leg_kind] /\ Read(mem, 37, 1, 0) = x.encoding
  /\ Read(mem, 38, 2, 0) = x.curve /\ Read(mem, 40, 2, 0) = x.scheme /\ Read(mem, 42, 32, Zero) = x.dwallet
  /\ Read(mem, 74, 1, 0) = PublicKeyLen(x.dwallet_pubkey, x.curve) /\ Read(mem, 75, 65, Zero) = x.dwallet_pubkey
  /\ Read(mem, 140, 1, 0) = ByteLen(x.contract) /\ Read(mem, 141, 64, NoAccount) = x.contract
  /\ Read(mem, 205, 32, Zero) = x.domain /\ Read(mem, 237, 8, 0) = total /\ Read(mem, 245, 8, 0) = x.cap
  /\ Read(mem, 253, 1, 0) = Len(x.allowlist) /\ Read(mem, 514, 1, 0) = x.bump
  /\ \A n \in 1 .. Len(x.allowlist) :
       /\ Read(mem, 254 + 65 * (n - 1), 1, 0) = ByteLen(x.allowlist[n])
       /\ Read(mem, 254 + 65 * (n - 1) + 1, 64, NoAccount) = x.allowlist[n]

ChainHead(kind, encoding, id, curve, scheme, dwallet) ==
  {<<0, 1, 2>>, <<1, 1, 1>>, <<2, 32, AssetPda>>, <<34, 2, id>>, <<36, 1, kind>>, <<37, 1, encoding>>,
   <<38, 2, curve>>, <<40, 2, scheme>>, <<42, 32, dwallet>>}
ChainTail(len, key, contract_len, contract, domain, authorised, cap, count) ==
  {<<74, 1, len>>, <<75, 65, key>>, <<140, 1, contract_len>>, <<141, 64, contract>>, <<205, 32, domain>>,
   <<237, 8, authorised>>, <<245, 8, cap>>, <<253, 1, count>>}

\* So do the other fields of a new chain.
LEMMA ChainHeadLaid ==
  ASSUME NEW kind, NEW encoding, NEW id, NEW curve, NEW scheme, NEW dwallet, NEW len, NEW key,
         NEW contract_len, NEW contract, NEW domain, NEW authorised, NEW cap, NEW count, NEW bump
  PROVE  /\ Part(ChainHead(kind, encoding, id, curve, scheme, dwallet), ChainSlots, 0, 42)
         /\ Part(ChainTail(len, key, contract_len, contract, domain, authorised, cap, count), ChainSlots, 74, 253)
         /\ Part(Field(514, 1, bump), ChainSlots, 514, 514)
<1> DEFINE a1 == PutField(PutField(Field(0, 1, 2), 1, 1, 1), 2, 32, AssetPda)
           a2 == PutField(PutField(PutField(a1, 34, 2, id), 36, 1, kind), 37, 1, encoding)
           a3 == PutField(PutField(PutField(a2, 38, 2, curve), 40, 2, scheme), 42, 32, dwallet)
           b1 == PutField(PutField(Field(74, 1, len), 75, 65, key), 140, 1, contract_len)
           b2 == PutField(PutField(PutField(b1, 141, 64, contract), 205, 32, domain), 237, 8, authorised)
           b3 == PutField(PutField(b2, 245, 8, cap), 253, 1, count)
           c == Field(514, 1, bump)
<1>1. /\ Slot(ChainSlots, 0, 1) /\ Slot(ChainSlots, 1, 1) /\ Slot(ChainSlots, 2, 32)
      /\ Slot(ChainSlots, 34, 2) /\ Slot(ChainSlots, 36, 1) /\ Slot(ChainSlots, 37, 1)
  BY DEF ChainSlots, Slot
<1>2. Slot(ChainSlots, 38, 2) /\ Slot(ChainSlots, 40, 2) /\ Slot(ChainSlots, 42, 32)
  BY DEF ChainSlots, Slot
<1>3. /\ Slot(ChainSlots, 74, 1) /\ Slot(ChainSlots, 75, 65) /\ Slot(ChainSlots, 140, 1)
      /\ Slot(ChainSlots, 141, 64) /\ Slot(ChainSlots, 205, 32) /\ Slot(ChainSlots, 237, 8)
  BY DEF ChainSlots, Slot
<1>4. Slot(ChainSlots, 245, 8) /\ Slot(ChainSlots, 253, 1) /\ Slot(ChainSlots, 514, 1)
  BY DEF ChainSlots, Slot
<1>5. /\ ChainHead(kind, encoding, id, curve, scheme, dwallet) = a3
      /\ ChainTail(len, key, contract_len, contract, domain, authorised, cap, count) = b3
  BY DEF ChainHead, ChainTail, PutField, Field
<1>6. Part(a1, ChainSlots, 0, 2) /\ Part(b1, ChainSlots, 74, 140)
  BY <1>1, <1>3, PartField3
<1>7. Part(c, ChainSlots, 514, 514)
  BY <1>4, PartField
<1> HIDE DEF a1, b1
<1>8. Part(a2, ChainSlots, 0, 37)
  BY <1>1, <1>6, PartPut3
<1> HIDE DEF a2
<1>9. Part(a3, ChainSlots, 0, 42)
  BY <1>2, <1>8, PartPut3
<1>10. Part(b2, ChainSlots, 74, 237)
  BY <1>3, <1>6, PartPut3
<1> HIDE DEF b2
<1>11. Part(b3, ChainSlots, 74, 253)
  BY <1>4, <1>10, PartPut2
<1> HIDE DEF a3, b3
<1> QED BY <1>5, <1>7, <1>9, <1>11

\* AddChain leaves in the account what was asked for.
LEMMA ChainCreated ==
  ASSUME NEW x, Len(x.allowlist) \in 0 .. 4, DOMAIN x.allowlist = 1 .. Len(x.allowlist),
         x.dwallet_pubkey_len = PublicKeyLen(x.dwallet_pubkey, x.curve)
  PROVE  ChainHeld(ChainFields(x), x, x.authorized)
<1> DEFINE len == Len(x.allowlist)
           mem == ChainFields(x)
           head == ChainHead(LEG_KIND[x.leg_kind], x.encoding, x.chain_id, x.curve, x.scheme, x.dwallet)
           tail == ChainTail(x.dwallet_pubkey_len, x.dwallet_pubkey, ByteLen(x.contract), x.contract, x.domain,
                             x.authorized, x.cap, len)
           rest == AllowlistFields(x.allowlist)
           last == Field(514, 1, x.bump)
<1>1. mem = (head \cup tail) \cup (rest \cup last)
  BY DEF ChainFields, chain, ChainHead, ChainTail, AllowlistFields, AddrFields, ADDR_LEN, Field
<1>2. Part(rest, ChainSlots, 254, 450)
  BY AllowlistLaid
<1> HIDE DEF mem, head, tail, rest, last
<1>3. Part(head, ChainSlots, 0, 42) /\ Part(tail, ChainSlots, 74, 253) /\ Part(last, ChainSlots, 514, 514)
  <2>1. Part(head, ChainSlots, 0, 42)
    BY ChainHeadLaid DEF head
  <2>2. Part(tail, ChainSlots, 74, 253)
    BY ChainHeadLaid DEF tail
  <2>3. Part(last, ChainSlots, 514, 514)
    BY ChainHeadLaid DEF last
  <2> QED BY <2>1, <2>2, <2>3
<1>4. Part(mem, ChainSlots, 0, 514)
  <2>1. Part(head \cup tail, ChainSlots, 0, 253)
    BY <1>3, PartsJoined
  <2>2. Part(rest \cup last, ChainSlots, 254, 514)
    BY <1>2, <1>3, PartsJoined
  <2> DEFINE a == head \cup tail
             b == rest \cup last
  <2>3. mem = a \cup b
    BY <1>1
  <2> HIDE DEF a, b
  <2> QED BY <2>1, <2>2, <2>3, PartsJoined DEF a, b
<1>5. \A o, w, v, z : <<o, w, v>> \in mem => Read(mem, o, w, z) = v
  BY <1>4, PartRead
<1>6. head \subseteq mem /\ tail \subseteq mem /\ rest \subseteq mem /\ last \subseteq mem
  BY <1>1
<1>7. \A n \in 1 .. len :
        /\ Read(mem, 254 + 65 * (n - 1), 1, 0) = ByteLen(x.allowlist[n])
        /\ Read(mem, 254 + 65 * (n - 1) + 1, 64, NoAccount) = x.allowlist[n]
  <2> TAKE n \in 1 .. len
  <2> DEFINE o == 254 + 65 * (n - 1)
             b == ByteLen(x.allowlist[n])
             e == o + 1
  <2>1. AddrFields(o, x.allowlist[n]) \subseteq rest
    BY DEF AllowlistFields, rest
  <2>2. <<o, 1, b>> \in rest /\ <<e, 64, x.allowlist[n]>> \in rest
    BY <2>1 DEF AddrFields
  <2> HIDE DEF o, b, e
  <2>3. Read(mem, o, 1, 0) = b /\ Read(mem, e, 64, NoAccount) = x.allowlist[n]
    BY <1>5, <1>6, <2>2
  <2> QED BY <2>3 DEF o, b, e
<1>8. /\ Read(mem, 2, 32, Zero) = AssetPda /\ Read(mem, 34, 2, 0) = x.chain_id
      /\ Read(mem, 36, 1, 0) = LEG_KIND[x.leg_kind] /\ Read(mem, 37, 1, 0) = x.encoding
      /\ Read(mem, 38, 2, 0) = x.curve /\ Read(mem, 40, 2, 0) = x.scheme /\ Read(mem, 42, 32, Zero) = x.dwallet
  BY <1>5, <1>6 DEF ChainHead, head
<1>9. /\ Read(mem, 74, 1, 0) = x.dwallet_pubkey_len /\ Read(mem, 75, 65, Zero) = x.dwallet_pubkey
      /\ Read(mem, 140, 1, 0) = ByteLen(x.contract) /\ Read(mem, 141, 64, NoAccount) = x.contract
      /\ Read(mem, 205, 32, Zero) = x.domain /\ Read(mem, 237, 8, 0) = x.authorized
      /\ Read(mem, 245, 8, 0) = x.cap /\ Read(mem, 253, 1, 0) = len
  BY SMTT(30), <1>5, <1>6 DEF ChainTail, tail
<1>10. Read(mem, 514, 1, 0) = x.bump
  BY <1>5, <1>6 DEF last, Field
<1>11. Laid(mem, ChainSlots)
  BY <1>4, PartIsLaid
<1> QED BY <1>7, <1>8, <1>9, <1>10, <1>11 DEF ChainHeld, mem, len

\* A leg's execution changes the supply authorised on its chain.
LEMMA ChainWritten ==
  ASSUME NEW mem, NEW x, NEW total, ChainHeld(mem, x, total), Len(x.allowlist) \in 0 .. 4, NEW v
  PROVE  ChainHeld(Write(mem, {<<237, 8, v>>}), x, v)
<1> DEFINE fs == {<<237, 8, v>>}
           new == Write(mem, fs)
<1>1. Laid(mem, ChainSlots)
  BY DEF ChainHeld
<1>2. Laid(fs, ChainSlots)
  <2>1. <<237, 8>> \in ChainSlots
    BY DEF ChainSlots
  <2> QED BY <2>1, LaidOne
<1>3. <<237, 8, v>> \in fs /\ \A g \in fs : g[1] = 237
  OBVIOUS
<1> HIDE DEF fs
<1>4. Laid(new, ChainSlots)
  BY <1>1, <1>2, ChainLayout, WriteLaid
<1>5. Read(new, 237, 8, 0) = v
  BY <1>1, <1>2, <1>3, ChainLayout, ReadWritten
<1>6. \A o, w, z : Slot(ChainSlots, o, w) /\ o # 237 => Read(new, o, w, z) = Read(mem, o, w, z)
  BY <1>1, <1>2, <1>3, ChainLayout, ReadWritten DEF Slot
<1> HIDE DEF new
<1>7. /\ Slot(ChainSlots, 2, 32) /\ Slot(ChainSlots, 34, 2) /\ Slot(ChainSlots, 36, 1)
      /\ Slot(ChainSlots, 37, 1) /\ Slot(ChainSlots, 38, 2) /\ Slot(ChainSlots, 40, 2)
      /\ Slot(ChainSlots, 42, 32) /\ Slot(ChainSlots, 74, 1)
  BY DEF ChainSlots, Slot
<1>8. /\ Slot(ChainSlots, 75, 65) /\ Slot(ChainSlots, 140, 1) /\ Slot(ChainSlots, 141, 64)
      /\ Slot(ChainSlots, 205, 32) /\ Slot(ChainSlots, 245, 8) /\ Slot(ChainSlots, 253, 1) /\ Slot(ChainSlots, 514, 1)
  BY DEF ChainSlots, Slot
<1>9. /\ Read(new, 2, 32, Zero) = Read(mem, 2, 32, Zero) /\ Read(new, 34, 2, 0) = Read(mem, 34, 2, 0)
      /\ Read(new, 36, 1, 0) = Read(mem, 36, 1, 0) /\ Read(new, 37, 1, 0) = Read(mem, 37, 1, 0)
      /\ Read(new, 38, 2, 0) = Read(mem, 38, 2, 0) /\ Read(new, 40, 2, 0) = Read(mem, 40, 2, 0)
      /\ Read(new, 42, 32, Zero) = Read(mem, 42, 32, Zero) /\ Read(new, 74, 1, 0) = Read(mem, 74, 1, 0)
  BY <1>6, <1>7
<1>10. /\ Read(new, 75, 65, Zero) = Read(mem, 75, 65, Zero) /\ Read(new, 140, 1, 0) = Read(mem, 140, 1, 0)
       /\ Read(new, 141, 64, NoAccount) = Read(mem, 141, 64, NoAccount)
       /\ Read(new, 205, 32, Zero) = Read(mem, 205, 32, Zero) /\ Read(new, 245, 8, 0) = Read(mem, 245, 8, 0)
       /\ Read(new, 253, 1, 0) = Read(mem, 253, 1, 0) /\ Read(new, 514, 1, 0) = Read(mem, 514, 1, 0)
  BY <1>6, <1>8
<1>11. \A n \in 1 .. Len(x.allowlist) :
         /\ Read(new, 254 + 65 * (n - 1), 1, 0) = ByteLen(x.allowlist[n])
         /\ Read(new, 254 + 65 * (n - 1) + 1, 64, NoAccount) = x.allowlist[n]
  <2> DEFINE len == Len(x.allowlist)
             off == {254, 319, 384, 449}
             at(n) == 254 + 65 * (n - 1)
  <2>1. \A n \in {1, 2, 3, 4} : at(n) \in off
    OBVIOUS
  <2>2. \A o \in off : Slot(ChainSlots, o, 1) /\ Slot(ChainSlots, o + 1, 64) /\ o # 237 /\ o + 1 # 237
    BY DEF ChainSlots, Slot
  <2>3. \A o \in off : Read(new, o, 1, 0) = Read(mem, o, 1, 0)
                       /\ Read(new, o + 1, 64, NoAccount) = Read(mem, o + 1, 64, NoAccount)
    BY <1>6, <2>2
  <2>4. \A n \in 1 .. len : /\ Read(mem, at(n), 1, 0) = ByteLen(x.allowlist[n])
                             /\ Read(mem, at(n) + 1, 64, NoAccount) = x.allowlist[n]
    BY DEF ChainHeld
  <2>5. len \in 0 .. 4
    OBVIOUS
  <2> HIDE DEF len, at
  <2>6. \A n \in 1 .. len : n \in {1, 2, 3, 4}
    BY <2>5
  <2>7. \A n \in 1 .. len : at(n) \in off
    BY <2>1, <2>6
  <2>8. \A n \in 1 .. len : /\ Read(new, at(n), 1, 0) = ByteLen(x.allowlist[n])
                             /\ Read(new, at(n) + 1, 64, NoAccount) = x.allowlist[n]
    BY <2>3, <2>4, <2>7
  <2> QED BY <2>8 DEF at, len
<1>12. ChainHeld(new, x, v)
  BY SMTT(30), <1>4, <1>5, <1>9, <1>10, <1>11 DEF ChainHeld
<1> QED BY <1>12 DEF new, fs

-----------------------------------------------------------------------------
(* The Intent accounts.                                                      *)

\* What CreateIntent writes and no later instruction touches.
IntentFixed(mem, x, t, i, created) ==
  /\ Laid(mem, IntentSlots)
  /\ Read(mem, 2, 32, Zero) = AssetPda /\ Read(mem, 34, 8, 0) = i /\ Read(mem, 42, 1, 0) = KIND[x.kind]
  /\ Read(mem, 44, 32, Zero) = t.proposer /\ Read(mem, 76, 8, 0) = x.amount
  /\ Read(mem, 84, 2, 0) = x.src_chain /\ Read(mem, 86, 2, 0) = x.dst_chain
  /\ Read(mem, 88, 1, 0) = ByteLen(x.recipient) /\ Read(mem, 89, 64, NoAccount) = x.recipient
  /\ Read(mem, 153, 1, 0) = ByteLen(x.source) /\ Read(mem, 154, 64, NoAccount) = x.source
  /\ Read(mem, 218, 32, 0) = x.memo /\ Read(mem, 250, 8, 0) = created /\ Read(mem, 269, 1, 0) = x.bump
  /\ Read(mem, 268, 1, 0) = Cardinality({l \in LegIds : HasLeg(x.kind, l)})
  /\ Read(mem, 270, 1, 0) = LEG_ACTION[LegAction(t, 0)] /\ Read(mem, 271, 2, 0) = LegChain(t, 0)
  /\ HasLeg(x.kind, 1) => Read(mem, 419, 1, 0) = LEG_ACTION[LegAction(t, 1)] /\ Read(mem, 420, 2, 0) = LegChain(t, 1)

\* Its progress, and the progress of a leg.
IntentMoved(mem, code, bitmap, count, at) ==
  /\ Read(mem, 43, 1, 0) = code /\ Read(mem, 258, 8, 0) = at
  /\ Read(mem, 266, 1, 0) = bitmap /\ Read(mem, 267, 1, 0) = count
LegMoved(mem, lo, code, digest, account, tx, executed, confirmed) ==
  /\ Read(mem, lo + 3, 1, 0) = code /\ Read(mem, lo + 4, 32, Zero) = digest
  /\ Read(mem, lo + 36, 32, Zero) = account
  /\ Read(mem, lo + 68, 1, 0) = ByteLen(tx) /\ Read(mem, lo + 69, 64, NoAccount) = tx
  /\ Read(mem, lo + 133, 8, 0) = executed /\ Read(mem, lo + 141, 8, 0) = confirmed

IntentHead(i, kind, code, proposer, amount) ==
  {<<0, 1, 3>>, <<1, 1, 1>>, <<2, 32, AssetPda>>, <<34, 8, i>>, <<42, 1, kind>>, <<43, 1, code>>,
   <<44, 32, proposer>>, <<76, 8, amount>>}
IntentRoute(src, dst, rlen, recipient, slen, source, memo) ==
  {<<84, 2, src>>, <<86, 2, dst>>, <<88, 1, rlen>>, <<89, 64, recipient>>, <<153, 1, slen>>, <<154, 64, source>>,
   <<218, 32, memo>>}
IntentTail(created, count, bump) ==
  {<<250, 8, created>>, <<258, 8, 0>>, <<266, 1, 0>>, <<267, 1, 0>>, <<268, 1, count>>, <<269, 1, bump>>}

\* The fields of a new intent lie in their slots: the first ones,
LEMMA IntentHeadLaid ==
  ASSUME NEW i, NEW kind, NEW code, NEW proposer, NEW amount
  PROVE  Part(IntentHead(i, kind, code, proposer, amount), IntentSlots, 0, 76)
<1> DEFINE a1 == PutField(PutField(Field(0, 1, 3), 1, 1, 1), 2, 32, AssetPda)
           a2 == PutField(PutField(PutField(a1, 34, 8, i), 42, 1, kind), 43, 1, code)
           a3 == PutField(PutField(a2, 44, 32, proposer), 76, 8, amount)
<1>1. Slot(IntentSlots, 0, 1) /\ Slot(IntentSlots, 1, 1) /\ Slot(IntentSlots, 2, 32)
  BY DEF IntentSlots, Slot
<1>2. Slot(IntentSlots, 34, 8) /\ Slot(IntentSlots, 42, 1) /\ Slot(IntentSlots, 43, 1)
  BY DEF IntentSlots, Slot
<1>3. Slot(IntentSlots, 44, 32) /\ Slot(IntentSlots, 76, 8)
  BY DEF IntentSlots, Slot
<1>4. IntentHead(i, kind, code, proposer, amount) = a3
  BY DEF IntentHead, PutField, Field
<1>5. Part(a1, IntentSlots, 0, 2)
  BY <1>1, PartField3
<1> HIDE DEF a1
<1>6. Part(a2, IntentSlots, 0, 43)
  BY <1>2, <1>5, PartPut3
<1> HIDE DEF a2
<1>7. Part(a3, IntentSlots, 0, 76)
  BY <1>3, <1>6, PartPut2
<1> HIDE DEF a3
<1> QED BY <1>4, <1>7

\* the ones that say from where to where,
LEMMA IntentRouteLaid ==
  ASSUME NEW src, NEW dst, NEW rlen, NEW recipient, NEW slen, NEW source, NEW memo
  PROVE  Part(IntentRoute(src, dst, rlen, recipient, slen, source, memo), IntentSlots, 84, 218)
<1> DEFINE a1 == PutField(PutField(Field(84, 2, src), 86, 2, dst), 88, 1, rlen)
           a2 == PutField(PutField(PutField(a1, 89, 64, recipient), 153, 1, slen), 154, 64, source)
           a3 == PutField(a2, 218, 32, memo)
<1>1. Slot(IntentSlots, 84, 2) /\ Slot(IntentSlots, 86, 2) /\ Slot(IntentSlots, 88, 1)
  BY DEF IntentSlots, Slot
<1>2. Slot(IntentSlots, 89, 64) /\ Slot(IntentSlots, 153, 1) /\ Slot(IntentSlots, 154, 64)
  BY DEF IntentSlots, Slot
<1>3. Slot(IntentSlots, 218, 32)
  BY DEF IntentSlots, Slot
<1>4. IntentRoute(src, dst, rlen, recipient, slen, source, memo) = a3
  BY DEF IntentRoute, PutField, Field
<1>5. Part(a1, IntentSlots, 84, 88)
  BY <1>1, PartField3
<1> HIDE DEF a1
<1>6. Part(a2, IntentSlots, 84, 154)
  BY <1>2, <1>5, PartPut3
<1> HIDE DEF a2
<1>7. Part(a3, IntentSlots, 84, 218)
  BY <1>3, <1>6, PartPut
<1> HIDE DEF a3
<1> QED BY <1>4, <1>7

\* the ones that say how far it is,
LEMMA IntentTailLaid ==
  ASSUME NEW created, NEW count, NEW bump
  PROVE  Part(IntentTail(created, count, bump), IntentSlots, 250, 269)
<1> DEFINE a1 == PutField(PutField(Field(250, 8, created), 258, 8, 0), 266, 1, 0)
           a2 == PutField(PutField(PutField(a1, 267, 1, 0), 268, 1, count), 269, 1, bump)
<1>1. Slot(IntentSlots, 250, 8) /\ Slot(IntentSlots, 258, 8) /\ Slot(IntentSlots, 266, 1)
  BY DEF IntentSlots, Slot
<1>2. Slot(IntentSlots, 267, 1) /\ Slot(IntentSlots, 268, 1) /\ Slot(IntentSlots, 269, 1)
  BY DEF IntentSlots, Slot
<1>4. IntentTail(created, count, bump) = a2
  BY DEF IntentTail, PutField, Field
<1>5. Part(a1, IntentSlots, 250, 266)
  BY <1>1, PartField3
<1> HIDE DEF a1
<1>6. Part(a2, IntentSlots, 250, 269)
  BY <1>2, <1>5, PartPut3
<1> HIDE DEF a2
<1> QED BY <1>4, <1>6

LegStart(lo, action, c) == {<<lo, 1, action>>, <<lo + 1, 2, c>>, <<lo + 3, 1, 0>>}

\* and what is written of a leg at once.
LEMMA LegStartLaid ==
  ASSUME NEW action, NEW c
  PROVE  Part(LegStart(270, action, c), IntentSlots, 270, 273) /\ Part(LegStart(419, action, c), IntentSlots, 419, 422)
<1> DEFINE a == PutField(PutField(Field(270, 1, action), 271, 2, c), 273, 1, 0)
           b == PutField(PutField(Field(419, 1, action), 420, 2, c), 422, 1, 0)
<1>1. /\ Slot(IntentSlots, 270, 1) /\ Slot(IntentSlots, 271, 2) /\ Slot(IntentSlots, 273, 1)
      /\ Slot(IntentSlots, 419, 1) /\ Slot(IntentSlots, 420, 2) /\ Slot(IntentSlots, 422, 1)
  BY DEF IntentSlots, LegSlots, Slot
<1>2. a = LegStart(270, action, c) /\ b = LegStart(419, action, c)
  BY DEF PutField, Field, LegStart
<1>3. Part(a, IntentSlots, 270, 273)
  BY <1>1, PartField3
<1>4. Part(b, IntentSlots, 419, 422)
  BY <1>1, PartField3
<1> HIDE DEF a, b
<1> QED BY <1>2, <1>3, <1>4

\* CreateIntent leaves in the account what was asked for, and nothing done.
LEMMA IntentCreated ==
  ASSUME NEW x, NEW t, NEW i
  PROVE  LET mem == IntentFields(x, t, i) IN
         /\ IntentFixed(mem, x, t, i, now) /\ IntentMoved(mem, 0, 0, 0, 0)
         /\ LegMoved(mem, 270, 0, Zero, Zero, NoAccount, 0, 0)
         /\ HasLeg(x.kind, 1) => LegMoved(mem, 419, 0, Zero, Zero, NoAccount, 0, 0)
<1> DEFINE mem == IntentFields(x, t, i)
           count == Cardinality({l \in LegIds : HasLeg(x.kind, l)})
           head == IntentHead(i, KIND[x.kind], 0, t.proposer, x.amount)
           route == IntentRoute(x.src_chain, x.dst_chain, ByteLen(x.recipient), x.recipient, ByteLen(x.source), x.source, x.memo)
           tail == IntentTail(now, count, x.bump)
           leg0 == LegStart(270, LEG_ACTION[LegAction(t, 0)], LegChain(t, 0))
           leg1 == IF HasLeg(x.kind, 1) THEN LegStart(419, LEG_ACTION[LegAction(t, 1)], LegChain(t, 1)) ELSE {}
<1>1. mem = ((head \cup route) \cup tail) \cup (leg0 \cup leg1)
  <2> DEFINE legs == {l \in LegIds : HasLeg(x.kind, l)}
  <2>1. LegFields(t, 0) = leg0
    BY DEF LegFields, LegStart, leg_offset, leg, intent, LEG_STATUS
  <2>2. HasLeg(x.kind, 1) => LegFields(t, 1) = leg1
    BY DEF LegFields, LegStart, leg_offset, leg, intent, LEG_STATUS
  <2>3. UNION {LegFields(t, l) : l \in legs} = leg0 \cup leg1
    <3>1. CASE HasLeg(x.kind, 1)
      <4>1. legs = {0, 1}
        BY <3>1 DEF LegIds, HasLeg
      <4> HIDE DEF legs
      <4> QED BY <2>1, <2>2, <3>1, <4>1
    <3>2. CASE ~HasLeg(x.kind, 1)
      <4>1. legs = {0} /\ leg1 = {}
        BY <3>2 DEF LegIds, HasLeg
      <4> HIDE DEF legs, leg1
      <4> QED BY <2>1, <4>1
    <3> QED BY <3>1, <3>2
  <2> DEFINE last == UNION {LegFields(t, l) : l \in legs}
  <2>4. mem = ((head \cup route) \cup tail) \cup last
    <3> HIDE DEF last
    <3>1. AddrFields(intent.RECIPIENT, x.recipient) = {<<88, 1, ByteLen(x.recipient)>>, <<89, 64, x.recipient>>}
          /\ AddrFields(intent.SOURCE, x.source) = {<<153, 1, ByteLen(x.source)>>, <<154, 64, x.source>>}
      BY DEF AddrFields, intent
    <3>2. mem =
       {<<0, 1, 3>>, <<1, 1, 1>>, <<2, 32, AssetPda>>, <<34, 8, i>>,
        <<42, 1, KIND[x.kind]>>, <<43, 1, 0>>,
        <<44, 32, t.proposer>>, <<76, 8, x.amount>>,
        <<84, 2, x.src_chain>>, <<86, 2, x.dst_chain>>,
        <<218, 32, x.memo>>, <<269, 1, x.bump>>, <<250, 8, now>>,
        <<258, 8, 0>>, <<266, 1, 0>>, <<267, 1, 0>>, <<268, 1, count>>}
       \cup {<<88, 1, ByteLen(x.recipient)>>, <<89, 64, x.recipient>>}
       \cup {<<153, 1, ByteLen(x.source)>>, <<154, 64, x.source>>} \cup last
      BY <3>1 DEF IntentFields, intent, STATUS, last
    <3> HIDE DEF mem, count
    <3> QED BY <3>2 DEF IntentHead, IntentRoute, IntentTail
  <2> QED BY <2>3, <2>4
<1>2. Part(leg0, IntentSlots, 270, 273)
  BY LegStartLaid
<1>3. leg1 = {} \/ Part(leg1, IntentSlots, 419, 422)
  <2>1. CASE HasLeg(x.kind, 1)
    BY <2>1, LegStartLaid
  <2>2. CASE ~HasLeg(x.kind, 1)
    BY <2>2
  <2> QED BY <2>1, <2>2
<1> HIDE DEF mem, head, route, tail, leg0, leg1, count
<1>4. Part(head, IntentSlots, 0, 76) /\ Part(route, IntentSlots, 84, 218) /\ Part(tail, IntentSlots, 250, 269)
  <2>1. Part(head, IntentSlots, 0, 76)
    BY IntentHeadLaid DEF head
  <2>2. Part(route, IntentSlots, 84, 218)
    BY IntentRouteLaid DEF route
  <2>3. Part(tail, IntentSlots, 250, 269)
    BY IntentTailLaid DEF tail
  <2> QED BY <2>1, <2>2, <2>3
<1> DEFINE fixed == (head \cup route) \cup tail
<1>5. Part(fixed, IntentSlots, 0, 269)
  <2> DEFINE a == head \cup route
  <2>1. Part(a, IntentSlots, 0, 218)
    BY <1>4, PartsJoined
  <2> HIDE DEF a
  <2>2. Part(a \cup tail, IntentSlots, 0, 269)
    BY <1>4, <2>1, PartsJoined
  <2> QED BY <2>2 DEF a
<1> HIDE DEF fixed
<1>6. Laid(mem, IntentSlots) /\ \A f \in mem : f[1] \in 0 .. 273 \/ f[1] \in 419 .. 422
  <2> DEFINE a == fixed \cup leg0
  <2>1. Part(a, IntentSlots, 0, 273)
    BY <1>2, <1>5, PartsJoined
  <2>2. mem = a \cup leg1
    BY <1>1 DEF fixed
  <2> HIDE DEF a
  <2>3. CASE leg1 = {}
    BY <2>1, <2>2, <2>3 DEF Part
  <2>4. CASE Part(leg1, IntentSlots, 419, 422)
    <3>1. Part(a \cup leg1, IntentSlots, 0, 422)
      BY <2>1, <2>4, PartsJoined
    <3>2. Laid(mem, IntentSlots)
      BY <2>2, <3>1, PartIsLaid
    <3>3. \A f \in a \cup leg1 : f[1] \in 0 .. 273 \/ f[1] \in 419 .. 422
      BY <2>1, <2>4 DEF Part
    <3> QED BY <2>2, <3>2, <3>3
  <2> QED BY <1>3, <2>3, <2>4
<1>7. \A o, w, v, z : <<o, w, v>> \in mem => Read(mem, o, w, z) = v
  BY <1>6, ReadLaid
<1>8. \A o \in Int : \A w, z : Slot(IntentSlots, o, w) /\ o \notin 0 .. 273 /\ o \notin 419 .. 422 => Read(mem, o, w, z) = z
  BY <1>6, IntentLayout, ReadNothing DEF Slot
<1>9. head \subseteq mem /\ route \subseteq mem /\ tail \subseteq mem /\ leg0 \subseteq mem /\ leg1 \subseteq mem
  BY <1>1
<1>10. /\ Read(mem, 2, 32, Zero) = AssetPda /\ Read(mem, 34, 8, 0) = i /\ Read(mem, 42, 1, 0) = KIND[x.kind]
       /\ Read(mem, 43, 1, 0) = 0 /\ Read(mem, 44, 32, Zero) = t.proposer /\ Read(mem, 76, 8, 0) = x.amount
  BY <1>7, <1>9 DEF head, IntentHead
<1>11. /\ Read(mem, 84, 2, 0) = x.src_chain /\ Read(mem, 86, 2, 0) = x.dst_chain
       /\ Read(mem, 88, 1, 0) = ByteLen(x.recipient) /\ Read(mem, 89, 64, NoAccount) = x.recipient
       /\ Read(mem, 153, 1, 0) = ByteLen(x.source) /\ Read(mem, 154, 64, NoAccount) = x.source
       /\ Read(mem, 218, 32, 0) = x.memo
  BY <1>7, <1>9 DEF route, IntentRoute
<1>12. /\ Read(mem, 250, 8, 0) = now /\ Read(mem, 258, 8, 0) = 0 /\ Read(mem, 266, 1, 0) = 0
       /\ Read(mem, 267, 1, 0) = 0 /\ Read(mem, 268, 1, 0) = count /\ Read(mem, 269, 1, 0) = x.bump
  BY <1>7, <1>9 DEF tail, IntentTail
<1>13. /\ Read(mem, 270, 1, 0) = LEG_ACTION[LegAction(t, 0)] /\ Read(mem, 271, 2, 0) = LegChain(t, 0)
       /\ Read(mem, 273, 1, 0) = 0
  BY <1>7, <1>9 DEF leg0, LegStart
<1>14. HasLeg(x.kind, 1) => /\ Read(mem, 419, 1, 0) = LEG_ACTION[LegAction(t, 1)]
                            /\ Read(mem, 420, 2, 0) = LegChain(t, 1) /\ Read(mem, 422, 1, 0) = 0
  BY <1>7, <1>9 DEF leg1, LegStart
<1>15. \A lo \in {270, 419} :
         /\ Read(mem, lo + 4, 32, Zero) = Zero /\ Read(mem, lo + 36, 32, Zero) = Zero
         /\ Read(mem, lo + 68, 1, 0) = 0 /\ Read(mem, lo + 69, 64, NoAccount) = NoAccount
         /\ Read(mem, lo + 133, 8, 0) = 0 /\ Read(mem, lo + 141, 8, 0) = 0
  <2> TAKE lo \in {270, 419}
  <2>1. /\ Slot(IntentSlots, lo + 4, 32) /\ Slot(IntentSlots, lo + 36, 32) /\ Slot(IntentSlots, lo + 68, 1)
        /\ Slot(IntentSlots, lo + 69, 64) /\ Slot(IntentSlots, lo + 133, 8) /\ Slot(IntentSlots, lo + 141, 8)
    BY DEF IntentSlots, LegSlots, Slot
  <2>2. \A k \in {4, 36, 68, 69, 133, 141} : lo + k \in Int /\ lo + k \notin 0 .. 273 /\ lo + k \notin 419 .. 422
    OBVIOUS
  <2> QED BY <1>8, <2>1, <2>2
<1>16. ByteLen(NoAccount) = 0
  BY ByteLenFacts
<1>17. IntentFixed(mem, x, t, i, now)
  BY <1>6, <1>10, <1>11, <1>12, <1>13, <1>14 DEF IntentFixed, count
<1>18. IntentMoved(mem, 0, 0, 0, 0)
  BY <1>10, <1>12 DEF IntentMoved
<1>19. LegMoved(mem, 270, 0, Zero, Zero, NoAccount, 0, 0)
  BY <1>13, <1>15, <1>16 DEF LegMoved
<1>20. HasLeg(x.kind, 1) => LegMoved(mem, 419, 0, Zero, Zero, NoAccount, 0, 0)
  BY <1>14, <1>15, <1>16 DEF LegMoved
<1> QED BY <1>17, <1>18, <1>19, <1>20 DEF mem

\* What the instructions after CreateIntent write in an intent, and in its leg at lo.
LegMoving(lo) == {lo + 3, lo + 4, lo + 36, lo + 68, lo + 69, lo + 133, lo + 141}
Moving == {43, 258, 266, 267} \cup LegMoving(270) \cup LegMoving(419)

\* A part of the account that is not written stays as it was.
Keeps(mem, new, fs) ==
  \A o, w, z : Slot(IntentSlots, o, w) /\ (\A g \in fs : g[1] # o) => Read(new, o, w, z) = Read(mem, o, w, z)

\* The slots of a leg.
LEMMA LegSlotsOf ==
  ASSUME NEW lo \in {270, 419}
  PROVE  /\ Slot(IntentSlots, lo + 3, 1) /\ Slot(IntentSlots, lo + 4, 32) /\ Slot(IntentSlots, lo + 36, 32)
         /\ Slot(IntentSlots, lo + 68, 1) /\ Slot(IntentSlots, lo + 69, 64) /\ Slot(IntentSlots, lo + 133, 8)
         /\ Slot(IntentSlots, lo + 141, 8)
         /\ Slot(IntentSlots, 43, 1) /\ Slot(IntentSlots, 258, 8) /\ Slot(IntentSlots, 266, 1) /\ Slot(IntentSlots, 267, 1)
  BY DEF IntentSlots, LegSlots, Slot

\* A write that keeps to an intent's moving fields leaves the fixed ones.
LEMMA IntentWritten ==
  ASSUME NEW mem, NEW x, NEW t, NEW i, NEW created, IntentFixed(mem, x, t, i, created),
         NEW fs, Laid(fs, IntentSlots), \A g \in fs : g[1] \in Moving
  PROVE  LET new == Write(mem, fs) IN
         /\ IntentFixed(new, x, t, i, created)
         /\ \A o, w, v, z : <<o, w, v>> \in fs => Read(new, o, w, z) = v
         /\ Keeps(mem, new, fs)
<1> DEFINE new == Write(mem, fs)
<1>0. Laid(mem, IntentSlots)
  BY DEF IntentFixed
<1>1. Laid(new, IntentSlots)
  BY <1>0, IntentLayout, WriteLaid
<1>2. \A o, w, v, z : <<o, w, v>> \in fs => Read(new, o, w, z) = v
  BY <1>0, IntentLayout, ReadWritten
<1>3. \A o, w, z : Slot(IntentSlots, o, w) /\ (\A g \in fs : g[1] # o) => Read(new, o, w, z) = Read(mem, o, w, z)
  BY <1>0, IntentLayout, ReadWritten DEF Slot
<1>4. \A o, w, z : Slot(IntentSlots, o, w) /\ o \notin Moving => Read(new, o, w, z) = Read(mem, o, w, z)
  BY <1>3
<1> HIDE DEF new
<1>5. /\ Slot(IntentSlots, 2, 32) /\ Slot(IntentSlots, 34, 8) /\ Slot(IntentSlots, 42, 1) /\ Slot(IntentSlots, 44, 32)
      /\ Slot(IntentSlots, 76, 8) /\ Slot(IntentSlots, 84, 2) /\ Slot(IntentSlots, 86, 2) /\ Slot(IntentSlots, 88, 1)
  BY DEF IntentSlots, Slot
<1>6. /\ Slot(IntentSlots, 89, 64) /\ Slot(IntentSlots, 153, 1) /\ Slot(IntentSlots, 154, 64) /\ Slot(IntentSlots, 218, 32)
      /\ Slot(IntentSlots, 250, 8) /\ Slot(IntentSlots, 268, 1) /\ Slot(IntentSlots, 269, 1)
  BY DEF IntentSlots, Slot
<1>7. /\ Slot(IntentSlots, 270, 1) /\ Slot(IntentSlots, 271, 2) /\ Slot(IntentSlots, 419, 1) /\ Slot(IntentSlots, 420, 2)
  BY DEF IntentSlots, LegSlots, Slot
<1>8. \A o \in {2, 34, 42, 44, 76, 84, 86, 88, 89, 153, 154, 218, 250, 268, 269, 270, 271, 419, 420} : o \notin Moving
  BY DEF Moving, LegMoving
<1>9. /\ Read(new, 2, 32, Zero) = Read(mem, 2, 32, Zero) /\ Read(new, 34, 8, 0) = Read(mem, 34, 8, 0)
      /\ Read(new, 42, 1, 0) = Read(mem, 42, 1, 0) /\ Read(new, 44, 32, Zero) = Read(mem, 44, 32, Zero)
      /\ Read(new, 76, 8, 0) = Read(mem, 76, 8, 0) /\ Read(new, 84, 2, 0) = Read(mem, 84, 2, 0)
      /\ Read(new, 86, 2, 0) = Read(mem, 86, 2, 0) /\ Read(new, 88, 1, 0) = Read(mem, 88, 1, 0)
  BY <1>4, <1>5, <1>8
<1>10. /\ Read(new, 89, 64, NoAccount) = Read(mem, 89, 64, NoAccount) /\ Read(new, 153, 1, 0) = Read(mem, 153, 1, 0)
       /\ Read(new, 154, 64, NoAccount) = Read(mem, 154, 64, NoAccount) /\ Read(new, 218, 32, 0) = Read(mem, 218, 32, 0)
       /\ Read(new, 250, 8, 0) = Read(mem, 250, 8, 0) /\ Read(new, 268, 1, 0) = Read(mem, 268, 1, 0)
       /\ Read(new, 269, 1, 0) = Read(mem, 269, 1, 0)
  BY <1>4, <1>6, <1>8
<1>11. /\ Read(new, 270, 1, 0) = Read(mem, 270, 1, 0) /\ Read(new, 271, 2, 0) = Read(mem, 271, 2, 0)
       /\ Read(new, 419, 1, 0) = Read(mem, 419, 1, 0) /\ Read(new, 420, 2, 0) = Read(mem, 420, 2, 0)
  BY <1>4, <1>7, <1>8
<1>12. IntentFixed(new, x, t, i, created)
  BY <1>1, <1>9, <1>10, <1>11 DEF IntentFixed
<1> QED BY <1>2, <1>3, <1>12 DEF new, Keeps

\* A write outside a leg leaves it as it was.
LEMMA LegKept ==
  ASSUME NEW mem, NEW new, NEW fs, Keeps(mem, new, fs), NEW lo \in {270, 419}, \A g \in fs : g[1] \notin LegMoving(lo),
         NEW code, NEW digest, NEW account, NEW tx, NEW executed, NEW confirmed,
         LegMoved(mem, lo, code, digest, account, tx, executed, confirmed)
  PROVE  LegMoved(new, lo, code, digest, account, tx, executed, confirmed)
<1>1. \A k \in {3, 4, 36, 68, 69, 133, 141} : \A g \in fs : g[1] # lo + k
  BY DEF LegMoving
<1>2. /\ Read(new, lo + 3, 1, 0) = Read(mem, lo + 3, 1, 0) /\ Read(new, lo + 4, 32, Zero) = Read(mem, lo + 4, 32, Zero)
      /\ Read(new, lo + 36, 32, Zero) = Read(mem, lo + 36, 32, Zero)
      /\ Read(new, lo + 68, 1, 0) = Read(mem, lo + 68, 1, 0)
      /\ Read(new, lo + 69, 64, NoAccount) = Read(mem, lo + 69, 64, NoAccount)
      /\ Read(new, lo + 133, 8, 0) = Read(mem, lo + 133, 8, 0) /\ Read(new, lo + 141, 8, 0) = Read(mem, lo + 141, 8, 0)
  BY <1>1, LegSlotsOf DEF Keeps
<1> QED BY <1>2 DEF LegMoved

ApprovalFields(bitmap, count, code, at) == {<<266, 1, bitmap>>, <<267, 1, count>>, <<43, 1, code>>, <<258, 8, at>>}

\* What ApproveIntent writes.
LEMMA IntentApproved ==
  ASSUME NEW mem, NEW x, NEW t, NEW i, NEW created, IntentFixed(mem, x, t, i, created),
         NEW bitmap, NEW count, NEW code, NEW at
  PROVE  LET fs == ApprovalFields(bitmap, count, code, at)
             new == Write(mem, fs)
         IN /\ IntentFixed(new, x, t, i, created) /\ IntentMoved(new, code, bitmap, count, at)
            /\ Keeps(mem, new, fs) /\ \A g \in fs, lo \in {270, 419} : g[1] \notin LegMoving(lo)
<1> DEFINE a == PutField(PutField(Field(43, 1, code), 258, 8, at), 266, 1, bitmap)
           fs == PutField(a, 267, 1, count)
           new == Write(mem, fs)
<1>1. fs = ApprovalFields(bitmap, count, code, at)
  BY DEF ApprovalFields, Field, PutField
<1>2. /\ <<266, 1, bitmap>> \in fs /\ <<267, 1, count>> \in fs /\ <<43, 1, code>> \in fs /\ <<258, 8, at>> \in fs
      /\ \A g \in fs : g[1] \in {43, 258, 266, 267}
  BY DEF Field, PutField
<1>3. Slot(IntentSlots, 43, 1) /\ Slot(IntentSlots, 258, 8) /\ Slot(IntentSlots, 266, 1) /\ Slot(IntentSlots, 267, 1)
  BY LegSlotsOf
<1>4. Part(a, IntentSlots, 43, 266)
  BY <1>3, PartField3
<1> HIDE DEF a
<1>5. Part(fs, IntentSlots, 43, 267)
  BY <1>3, <1>4, PartPut
<1>6. Laid(fs, IntentSlots)
  BY <1>5, PartIsLaid
<1> HIDE DEF fs
<1>7. \A g \in fs : g[1] \in Moving
  BY <1>2 DEF Moving
<1>8. /\ IntentFixed(new, x, t, i, created) /\ Keeps(mem, new, fs)
      /\ \A o, w, v, z : <<o, w, v>> \in fs => Read(new, o, w, z) = v
  BY <1>6, <1>7, IntentWritten
<1> HIDE DEF new
<1>9. IntentMoved(new, code, bitmap, count, at)
  BY <1>2, <1>8 DEF IntentMoved
<1>10. \A g \in fs, lo \in {270, 419} : g[1] \notin LegMoving(lo)
  BY <1>2 DEF LegMoving
<1> QED BY <1>1, <1>8, <1>9, <1>10 DEF new

\* What ExecuteLeg writes in the leg at lo, and in the intent's status.
ExecutionFields(lo, leg_code, digest, account, at, code) ==
  {<<lo + 3, 1, leg_code>>, <<lo + 4, 32, digest>>, <<lo + 36, 32, account>>, <<lo + 133, 8, at>>, <<43, 1, code>>}

\* What ExecuteLeg writes lies in the leg's slots and the status.
LEMMA ExecutionFieldsLaid ==
  ASSUME NEW lo \in {270, 419}, NEW leg_code, NEW digest, NEW account, NEW at, NEW code
  PROVE  LET fs == ExecutionFields(lo, leg_code, digest, account, at, code)
             more == PutField(fs, lo + 141, 8, at)
         IN Laid(fs, IntentSlots) /\ Laid(more, IntentSlots) /\ \A g \in more : g[1] \in {43} \cup LegMoving(lo)
<1> DEFINE a == PutField(PutField(Field(43, 1, code), lo + 3, 1, leg_code), lo + 4, 32, digest)
           fs == PutField(PutField(a, lo + 36, 32, account), lo + 133, 8, at)
           more == PutField(fs, lo + 141, 8, at)
<1>1. fs = ExecutionFields(lo, leg_code, digest, account, at, code)
  BY DEF ExecutionFields, Field, PutField
<1>2. /\ Slot(IntentSlots, 43, 1) /\ Slot(IntentSlots, lo + 3, 1) /\ Slot(IntentSlots, lo + 4, 32)
      /\ Slot(IntentSlots, lo + 36, 32) /\ Slot(IntentSlots, lo + 133, 8) /\ Slot(IntentSlots, lo + 141, 8)
  BY LegSlotsOf
<1>3. \A g \in more : g[1] \in {43} \cup LegMoving(lo)
  BY DEF Field, PutField, LegMoving
<1>4. Part(a, IntentSlots, 43, lo + 4)
  BY <1>2, PartField3
<1> HIDE DEF a
<1>5. Part(fs, IntentSlots, 43, lo + 133)
  BY <1>2, <1>4, PartPut2
<1> HIDE DEF fs
<1>6. Part(more, IntentSlots, 43, lo + 141)
  BY <1>2, <1>5, PartPut
<1> HIDE DEF more
<1>7. Laid(fs, IntentSlots) /\ Laid(more, IntentSlots)
  BY <1>5, <1>6, PartIsLaid
<1> QED BY <1>1, <1>3, <1>7 DEF more

\* What ConfirmLeg writes there.
ConfirmationFields(lo, leg_code, at, code, len, tx) ==
  {<<lo + 3, 1, leg_code>>, <<lo + 141, 8, at>>, <<43, 1, code>>, <<lo + 68, 1, len>>, <<lo + 69, 64, tx>>}

\* So does what ConfirmLeg writes.
LEMMA ConfirmationFieldsLaid ==
  ASSUME NEW lo \in {270, 419}, NEW leg_code, NEW at, NEW code, NEW len, NEW tx
  PROVE  LET fs == ConfirmationFields(lo, leg_code, at, code, len, tx)
         IN Laid(fs, IntentSlots) /\ \A g \in fs : g[1] \in {43} \cup LegMoving(lo)
<1> DEFINE a == PutField(PutField(Field(43, 1, code), lo + 3, 1, leg_code), lo + 68, 1, len)
           fs == PutField(PutField(a, lo + 69, 64, tx), lo + 141, 8, at)
<1>1. fs = ConfirmationFields(lo, leg_code, at, code, len, tx)
  BY DEF ConfirmationFields, Field, PutField
<1>2. /\ Slot(IntentSlots, 43, 1) /\ Slot(IntentSlots, lo + 3, 1) /\ Slot(IntentSlots, lo + 68, 1)
      /\ Slot(IntentSlots, lo + 69, 64) /\ Slot(IntentSlots, lo + 141, 8)
  BY LegSlotsOf
<1>3. \A g \in fs : g[1] \in {43} \cup LegMoving(lo)
  BY DEF Field, PutField, LegMoving
<1>4. Part(a, IntentSlots, 43, lo + 68)
  BY <1>2, PartField3
<1> HIDE DEF a
<1>5. Part(fs, IntentSlots, 43, lo + 141)
  BY <1>2, <1>4, PartPut2
<1> HIDE DEF fs
<1>6. Laid(fs, IntentSlots)
  BY <1>5, PartIsLaid
<1> QED BY <1>1, <1>3, <1>6

\* A write in the leg at lo and in the status leaves the rest.
LEMMA LegWritten ==
  ASSUME NEW mem, NEW x, NEW t, NEW i, NEW created, IntentFixed(mem, x, t, i, created),
         NEW lo \in {270, 419}, NEW fs, Laid(fs, IntentSlots), \A g \in fs : g[1] \in {43} \cup LegMoving(lo),
         NEW code, <<43, 1, code>> \in fs,
         NEW old, NEW bitmap, NEW count, NEW at, IntentMoved(mem, old, bitmap, count, at)
  PROVE  LET new == Write(mem, fs) IN
         /\ IntentFixed(new, x, t, i, created) /\ IntentMoved(new, code, bitmap, count, at)
         /\ Keeps(mem, new, fs) /\ \A o, w, v, z : <<o, w, v>> \in fs => Read(new, o, w, z) = v
         /\ \A g \in fs, other \in {270, 419} \ {lo} : g[1] \notin LegMoving(other)
<1> DEFINE new == Write(mem, fs)
<1>1. \A g \in fs : g[1] \in Moving
  BY DEF Moving
<1>2. /\ IntentFixed(new, x, t, i, created) /\ Keeps(mem, new, fs)
      /\ \A o, w, v, z : <<o, w, v>> \in fs => Read(new, o, w, z) = v
  BY <1>1, IntentWritten
<1> HIDE DEF new
<1>3. \A g \in fs, other \in {270, 419} \ {lo} : g[1] \notin LegMoving(other)
  BY DEF LegMoving
<1>4. IntentMoved(new, code, bitmap, count, at)
  <2>1. \A g \in fs : g[1] \notin {258, 266, 267}
    BY DEF LegMoving
  <2>2. Slot(IntentSlots, 258, 8) /\ Slot(IntentSlots, 266, 1) /\ Slot(IntentSlots, 267, 1)
    BY LegSlotsOf
  <2>3. Read(new, 43, 1, 0) = code
    BY <1>2
  <2>4. Read(new, 258, 8, 0) = Read(mem, 258, 8, 0) /\ Read(new, 266, 1, 0) = Read(mem, 266, 1, 0)
        /\ Read(new, 267, 1, 0) = Read(mem, 267, 1, 0)
    BY <1>2, <2>1, <2>2 DEF Keeps
  <2> QED BY <2>3, <2>4 DEF IntentMoved
<1> QED BY <1>2, <1>3, <1>4 DEF new

ExecutedFields(lo, leg_code, digest, account, at, code, foreign) ==
  ExecutionFields(lo, leg_code, digest, account, at, code) \cup IF foreign THEN {} ELSE {<<lo + 141, 8, at>>}

\* The account after ExecuteLeg.
LEMMA LegExecuted ==
  ASSUME NEW mem, NEW x, NEW t, NEW i, NEW created, IntentFixed(mem, x, t, i, created),
         NEW old, NEW bitmap, NEW count, NEW approved, IntentMoved(mem, old, bitmap, count, approved),
         NEW lo \in {270, 419}, NEW code0, NEW digest0, NEW account0, NEW tx, NEW executed0, NEW confirmed,
         LegMoved(mem, lo, code0, digest0, account0, tx, executed0, confirmed),
         NEW leg_code, NEW digest, NEW account, NEW at, NEW code, NEW foreign \in BOOLEAN
  PROVE  LET fs == ExecutedFields(lo, leg_code, digest, account, at, code, foreign)
             new == Write(mem, fs)
         IN /\ IntentFixed(new, x, t, i, created) /\ IntentMoved(new, code, bitmap, count, approved)
            /\ LegMoved(new, lo, leg_code, digest, account, tx, at, IF foreign THEN confirmed ELSE at)
            /\ Keeps(mem, new, fs) /\ \A g \in fs, other \in {270, 419} \ {lo} : g[1] \notin LegMoving(other)
<1> DEFINE fs == ExecutionFields(lo, leg_code, digest, account, at, code)
                   \cup IF foreign THEN {} ELSE {<<lo + 141, 8, at>>}
           new == Write(mem, fs)
           last == IF foreign THEN confirmed ELSE at
<1>1. Laid(fs, IntentSlots) /\ \A g \in fs : g[1] \in {43} \cup LegMoving(lo)
  <2> DEFINE e == ExecutionFields(lo, leg_code, digest, account, at, code)
             more == PutField(e, lo + 141, 8, at)
  <2>1. Laid(e, IntentSlots) /\ Laid(more, IntentSlots) /\ \A g \in more : g[1] \in {43} \cup LegMoving(lo)
    BY ExecutionFieldsLaid
  <2>2. e \subseteq more /\ fs = IF foreign THEN e ELSE more
    BY DEF PutField
  <2> HIDE DEF e, more, fs
  <2> QED BY <2>1, <2>2
<1>2. /\ <<43, 1, code>> \in fs /\ <<lo + 3, 1, leg_code>> \in fs /\ <<lo + 4, 32, digest>> \in fs
      /\ <<lo + 36, 32, account>> \in fs /\ <<lo + 133, 8, at>> \in fs
      /\ ~foreign => <<lo + 141, 8, at>> \in fs
      /\ \A g \in fs : g[1] # lo + 68 /\ g[1] # lo + 69 /\ (foreign => g[1] # lo + 141)
  BY DEF ExecutionFields
<1> HIDE DEF fs
<1>3. /\ IntentFixed(new, x, t, i, created) /\ IntentMoved(new, code, bitmap, count, approved)
      /\ Keeps(mem, new, fs) /\ \A o, w, v, z : <<o, w, v>> \in fs => Read(new, o, w, z) = v
      /\ \A g \in fs, other \in {270, 419} \ {lo} : g[1] \notin LegMoving(other)
  BY <1>1, <1>2, LegWritten
<1> HIDE DEF new
<1>4. /\ Read(new, lo + 3, 1, 0) = leg_code /\ Read(new, lo + 4, 32, Zero) = digest
      /\ Read(new, lo + 36, 32, Zero) = account /\ Read(new, lo + 133, 8, 0) = at
  BY <1>2, <1>3
<1>5. /\ Slot(IntentSlots, lo + 68, 1) /\ Slot(IntentSlots, lo + 69, 64) /\ Slot(IntentSlots, lo + 141, 8)
  BY LegSlotsOf
<1>6. Read(new, lo + 68, 1, 0) = ByteLen(tx) /\ Read(new, lo + 69, 64, NoAccount) = tx
  BY <1>2, <1>3, <1>5 DEF Keeps, LegMoved
<1>7. Read(new, lo + 141, 8, 0) = last
  <2>1. CASE foreign
    BY <1>2, <1>3, <1>5, <2>1 DEF Keeps, LegMoved
  <2>2. CASE ~foreign
    BY <1>2, <1>3, <2>2
  <2> QED BY <2>1, <2>2
<1> HIDE DEF last
<1>8. LegMoved(new, lo, leg_code, digest, account, tx, at, last)
  BY <1>4, <1>6, <1>7 DEF LegMoved
<1> QED BY <1>3, <1>8 DEF new, fs, last, ExecutedFields

\* The account after ConfirmLeg.
LEMMA LegConfirmed ==
  ASSUME NEW mem, NEW x, NEW t, NEW i, NEW created, IntentFixed(mem, x, t, i, created),
         NEW old, NEW bitmap, NEW count, NEW approved, IntentMoved(mem, old, bitmap, count, approved),
         NEW lo \in {270, 419}, NEW code0, NEW digest, NEW account, NEW tx0, NEW executed, NEW confirmed0,
         LegMoved(mem, lo, code0, digest, account, tx0, executed, confirmed0),
         NEW leg_code, NEW tx, NEW at, NEW code
  PROVE  LET fs == ConfirmationFields(lo, leg_code, at, code, ByteLen(tx), tx)
             new == Write(mem, fs)
         IN /\ IntentFixed(new, x, t, i, created) /\ IntentMoved(new, code, bitmap, count, approved)
            /\ LegMoved(new, lo, leg_code, digest, account, tx, executed, at)
            /\ Keeps(mem, new, fs) /\ \A g \in fs, other \in {270, 419} \ {lo} : g[1] \notin LegMoving(other)
<1> DEFINE len == ByteLen(tx)
           fs == ConfirmationFields(lo, leg_code, at, code, len, tx)
           new == Write(mem, fs)
<1>1. Laid(fs, IntentSlots) /\ \A g \in fs : g[1] \in {43} \cup LegMoving(lo)
  <2> HIDE DEF len
  <2> QED BY ConfirmationFieldsLaid
<1>2. /\ <<43, 1, code>> \in fs /\ <<lo + 3, 1, leg_code>> \in fs /\ <<lo + 141, 8, at>> \in fs
      /\ <<lo + 68, 1, len>> \in fs /\ <<lo + 69, 64, tx>> \in fs
      /\ \A g \in fs : g[1] # lo + 4 /\ g[1] # lo + 36 /\ g[1] # lo + 133
  BY DEF ConfirmationFields
<1> HIDE DEF fs
<1>3. /\ IntentFixed(new, x, t, i, created) /\ IntentMoved(new, code, bitmap, count, approved)
      /\ Keeps(mem, new, fs) /\ \A o, w, v, z : <<o, w, v>> \in fs => Read(new, o, w, z) = v
      /\ \A g \in fs, other \in {270, 419} \ {lo} : g[1] \notin LegMoving(other)
  BY <1>1, <1>2, LegWritten
<1> HIDE DEF new
<1>4. /\ Read(new, lo + 3, 1, 0) = leg_code /\ Read(new, lo + 68, 1, 0) = len
      /\ Read(new, lo + 69, 64, NoAccount) = tx /\ Read(new, lo + 141, 8, 0) = at
  BY <1>2, <1>3
<1>5. Slot(IntentSlots, lo + 4, 32) /\ Slot(IntentSlots, lo + 36, 32) /\ Slot(IntentSlots, lo + 133, 8)
  BY LegSlotsOf
<1>6. /\ Read(new, lo + 4, 32, Zero) = digest /\ Read(new, lo + 36, 32, Zero) = account
      /\ Read(new, lo + 133, 8, 0) = executed
  BY <1>2, <1>3, <1>5 DEF Keeps, LegMoved
<1>7. LegMoved(new, lo, leg_code, digest, account, tx, executed, at)
  BY <1>4, <1>6 DEF LegMoved
<1> QED BY <1>3, <1>7 DEF new, fs

-----------------------------------------------------------------------------
(* The message: the SDK's fields at offsets are the program's bytes in order. *)

\* The raw message, field by field.
LEMMA RawAgrees ==
  ASSUME NEW a
  PROVE  raw_message(a).fields = rawMessage(a)
<1> DEFINE len == ByteLen(a.account)
           m0 == Bytes(15, "IKA_RWA_AUTH_V1")
           m1 == m0 ++ Bytes(32, a.domain) ++ Bytes(1, a.action)
           m2 == m1 ++ Bytes(8, a.amount)
           m3 == m2 ++ (Bytes(1, len) ++ Bytes(64, a.account))
           m4 == m3 ++ Bytes(8, a.nonce) ++ Bytes(32, a.ledger)
<1>1. raw_message(a) = m4
  BY DEF raw_message, PadAddr
<1>2. rawMessage(a) =
        {<<0, 15, "IKA_RWA_AUTH_V1">>, <<15, 32, a.domain>>, <<47, 1, a.action>>, <<48, 8, a.amount>>}
        \cup {<<56, 1, len>>, <<57, 64, a.account>>, <<121, 8, a.nonce>>, <<129, 32, a.ledger>>}
  BY DEF rawMessage, AfterAmount
<1> HIDE DEF len
<1>3. m0.len = 15 /\ m0.fields = {<<0, 15, "IKA_RWA_AUTH_V1">>}
  BY DEF Bytes
<1> HIDE DEF m0
<1>4. m1.len = 48 /\ m1.fields = m0.fields \cup {<<15, 32, a.domain>>, <<47, 1, a.action>>}
  BY <1>3, Appended2
<1> HIDE DEF m1
<1>5. m2.len = 56 /\ m2.fields = m1.fields \cup {<<48, 8, a.amount>>}
  BY <1>4, Appended
<1> HIDE DEF m2
<1>6. m3.len = 121 /\ m3.fields = m2.fields \cup {<<56, 1, len>>, <<57, 64, a.account>>}
  BY <1>5, AppendedPair
<1> HIDE DEF m3
<1>7. m4.fields = m3.fields \cup {<<121, 8, a.nonce>>, <<129, 32, a.ledger>>}
  BY <1>6, Appended2
<1> HIDE DEF m4
<1> QED BY <1>1, <1>2, <1>3, <1>4, <1>5, <1>6, <1>7

\* The EIP-712 message, field by field.
LEMMA Eip712Agrees ==
  ASSUME NEW a
  PROVE  eip712_message(a).fields = eip712Message(a)
<1> DEFINE h == struct_hash(a).fields
           m0 == Bytes(1, 25)
           m1 == m0 ++ Bytes(1, 1) ++ Bytes(32, a.domain)
           m2 == m1 ++ Bytes(32, h)
<1>1. eip712_message(a) = m2
  BY DEF eip712_message
<1>2. eip712Message(a) = {<<0, 1, 25>>, <<1, 1, 1>>, <<2, 32, a.domain>>, <<34, 32, h>>}
  BY DEF eip712Message, structHash, struct_hash
<1> HIDE DEF h
<1>3. m0.len = 1 /\ m0.fields = {<<0, 1, 25>>}
  BY DEF Bytes
<1> HIDE DEF m0
<1>4. m1.len = 34 /\ m1.fields = m0.fields \cup {<<1, 1, 1>>, <<2, 32, a.domain>>}
  BY <1>3, Appended2
<1> HIDE DEF m1
<1>5. m2.fields = m1.fields \cup {<<34, 32, h>>}
  BY <1>4, Appended
<1> HIDE DEF m2
<1> QED BY <1>1, <1>2, <1>3, <1>4, <1>5

\* In either encoding the SDK computes the program's digest.
LEMMA DigestsAgree == \A encoding, a : messageDigest(encoding, a) = message_digest(encoding, a)
  BY RawAgrees, Eip712Agrees DEF messageDigest, message_digest

-----------------------------------------------------------------------------
(* A client's allowlist is a list of the set's members.                      *)

\* It names each member once, and no other.
LEMMA ListOfSet ==
  ASSUME NEW S, IsFiniteSet(S)
  PROVE  LET q == SQX!SetToSeq(S)
             n == Cardinality(S)
         IN /\ n \in Nat /\ Len(q) = n /\ DOMAIN q = 1 .. n
            /\ q \in [1 .. n -> S]
            /\ {q[k] : k \in DOMAIN q} = S
<1> DEFINE n == Cardinality(S)
           D == 1 .. n
           q == SQX!SetToSeq(S)
<1>1. n \in Nat /\ ExistsBijection(D, S)
  BY FS_CardinalityType
<1>2. IsFiniteSet(D) /\ Cardinality(D) = n
  <2> HIDE DEF n
  <2>1. IsFiniteSet(1 .. n) /\ Cardinality(1 .. n) = IF 1 > n THEN 0 ELSE n - 1 + 1
    BY <1>1, FS_Interval
  <2> QED BY <1>1, <2>1
<1>3. q = CHOOSE f \in [D -> S] : SQX!IsInjective(f)
  BY DEF SQX!SetToSeq, SQX!Cardinality, Cardinality
<1> HIDE DEF n, D, q
<1>4. PICK f : f \in Bijection(D, S)
  BY <1>1 DEF ExistsBijection
<1>5. f \in [D -> S] /\ SQX!IsInjective(f)
  BY <1>4 DEF Bijection, Injection, IsInjective, SQX!IsInjective
<1>6. q \in [D -> S] /\ SQX!IsInjective(q)
  BY <1>3, <1>5
<1>7. q \in Injection(D, S)
  BY <1>6 DEF Injection, IsInjective, SQX!IsInjective
<1>8. q \in Surjection(D, S)
  BY <1>2, <1>7, FS_Injection DEF n
<1>9. {q[k] : k \in D} = S
  BY <1>8 DEF Surjection
<1>10. DOMAIN q = 1 .. n /\ q \in Seq(S) /\ Len(q) = n
  BY <1>1, <1>6 DEF D
<1> QED BY <1>1, <1>6, <1>9, <1>10 DEF n, D, q

-----------------------------------------------------------------------------
(* The accounts stand for the ledger.                                        *)

LegKey(i, l) == <<"leg", i, l>>

\* Addresses of different accounts differ.
LEMMA PdaFacts ==
  /\ \A c : AssetPda # ChainPda(c) /\ AssetPda # IntentPda(c)
  /\ \A c, d : (ChainPda(c) = ChainPda(d) <=> c = d) /\ (IntentPda(c) = IntentPda(d) <=> c = d)
               /\ ChainPda(c) # IntentPda(d)
  /\ \A i, l, j, m : LegKey(i, l) = LegKey(j, m) <=> i = j /\ l = m
  /\ \A i, l, c : LegKey(i, l) # AssetPda /\ LegKey(i, l) # ChainPda(c) /\ LegKey(i, l) # IntentPda(c)
<1>1. \A c : AssetPda # ChainPda(c) /\ AssetPda # IntentPda(c)
  BY DEF AssetPda, ChainPda, IntentPda
<1>2. \A c, d : (ChainPda(c) = ChainPda(d) <=> c = d) /\ (IntentPda(c) = IntentPda(d) <=> c = d)
                /\ ChainPda(c) # IntentPda(d)
  BY DEF ChainPda, IntentPda
<1>3. \A i, l, j, m : LegKey(i, l) = LegKey(j, m) <=> i = j /\ l = m
  BY DEF LegKey
<1>4. \A i, l, c : LegKey(i, l) # AssetPda /\ LegKey(i, l) # ChainPda(c) /\ LegKey(i, l) # IntentPda(c)
  BY DEF LegKey, AssetPda, ChainPda, IntentPda
<1> QED BY <1>1, <1>2, <1>3, <1>4

\* A function with one more value.
LEMMA WithFacts ==
  ASSUME NEW f, NEW a, NEW v
  PROVE  /\ With(f, a, v)[a] = v
         /\ \A b : b \in DOMAIN With(f, a, v) <=> b \in DOMAIN f \/ b = a
         /\ \A b \in DOMAIN f : b # a => With(f, a, v)[b] = f[b]
  BY DEF With

\* What stands at a in f stands there in g.
Kept(f, g, a) == a \in DOMAIN f => a \in DOMAIN g /\ g[a] = f[a]

\* It keeps the other values.
LEMMA WithKept ==
  ASSUME NEW f, NEW a, NEW v
  PROVE  \A b : b # a => Kept(f, With(f, a, v), b)
  BY DEF With, Kept

\* An account stands exactly for what was initialised, registered or created.
DomainInv ==
  /\ AssetPda \in DOMAIN accounts <=> Initialized
  /\ \A c \in Nat : ChainPda(c) \in DOMAIN accounts <=> c \in ChainIds /\ Registered(c)
  /\ \A i \in Nat : IntentPda(i) \in DOMAIN accounts <=> i \in IntentIds /\ Created(i)

\* What a client asked for at an address.
AskedFor(a, x) == a \in DOMAIN asked /\ asked[a] = x

AssetMirror ==
  Initialized =>
    /\ AssetHeld(accounts[AssetPda], AssetAsked(config), chain_count, authorized_total, intent_count)
    /\ AskedFor(AssetPda, AssetAsked(config)) /\ config.threshold \in 1 .. Len(config.approvers)
ChainMirror(c) ==
  Registered(c) =>
    /\ ChainHeld(accounts[ChainPda(c)], ChainAsked(c, deployment[c]), authorized[c])
    /\ AskedFor(ChainPda(c), ChainAsked(c, deployment[c]))
    /\ IsFiniteSet(deployment[c].allowlist) /\ Cardinality(deployment[c].allowlist) <= MAX_ALLOWLIST
IntentMirror(i) ==
  Created(i) =>
    /\ \E created \in 0 .. IF status[i] = "PendingApproval" THEN now ELSE approved_at[i] :
         IntentFixed(accounts[IntentPda(i)], IntentAsked(terms[i]), terms[i], i, created)
    /\ IntentMoved(accounts[IntentPda(i)], STATUS[status[i]], Bitmap(approvals[i]), approval_count[i], approved_at[i])
    /\ AskedFor(IntentPda(i), IntentAsked(terms[i]))

\* The message a leg commits to, in the ledger's terms, and the account Ika keeps for it.
LegDigest(t, i, l) ==
  LET c == LegChain(t, l) IN
  message_digest(CHAINS[c].encoding,
    [domain |-> <<"domain", c>>, action |-> LEG_ACTION[LegAction(t, l)], amount |-> t.amount,
     nonce |-> LegNonce(i, l), account |-> LegAccount(t, l), ledger |-> AssetPda])
LegApproval(t, i, l) ==
  LET meta == CHAINS[LegChain(t, l)] IN
  MessageApprovalPda(meta.curve, <<"key", meta.curve>>, meta.scheme, LegDigest(t, i, l))
ReportedTx(i, l) == IF LegKey(i, l) \in DOMAIN asked THEN asked[LegKey(i, l)] ELSE NoAccount

LegMirror(i, l) ==
  leg_status[<<i, l>>] # "None" =>
    /\ executed_at[<<i, l>>] <= now
    /\ \E confirmed \in Int :
         /\ IF leg_status[<<i, l>>] = "Confirmed" THEN confirmed \in executed_at[<<i, l>>] .. now ELSE confirmed = 0
         /\ LegMoved(accounts[IntentPda(i)], leg_offset(l), LEG_STATUS[leg_status[<<i, l>>]],
                     IF Committed(i, l) THEN LegDigest(terms[i], i, l) ELSE Zero,
                     IF Committed(i, l) THEN LegApproval(terms[i], i, l) ELSE Zero,
                     ReportedTx(i, l), executed_at[<<i, l>>], confirmed)

\* Nothing has been counted before the asset is initialised, and nothing has
\* happened to an intent before it is created.
FreshInv ==
  /\ ~Initialized => chain_count = 0 /\ authorized_total = 0 /\ intent_count = 0
  /\ \A i \in IntentIds : ~Created(i) =>
       approved_at[i] = 0 /\ \A l \in LegIds : executed_at[<<i, l>>] = 0 /\ LegKey(i, l) \notin DOMAIN asked

MirrorInv ==
  /\ DomainInv /\ AssetMirror /\ FreshInv
  /\ \A c \in ChainIds : ChainMirror(c)
  /\ \A i \in IntentIds : IntentMirror(i) /\ \A l \in LegIds : LegMirror(i, l)

\* What holds of the ledger itself.
BookInv == IInv /\ AuthorizationInv /\ StatusMatchesLegs

-----------------------------------------------------------------------------
(* What a step leaves alone.                                                 *)

\* Intents are numbered.
LEMMA IntentIdsAreNumbers == IntentIds \subseteq Nat
  BY ConstantFacts DEF IntentIds

\* A step that keeps the asset's account and what it stands for.
LEMMA AssetFrame ==
  ASSUME DomainInv, AssetMirror, Kept(accounts, accounts', AssetPda), Kept(asked, asked', AssetPda),
         config' = config, chain_count' = chain_count, authorized_total' = authorized_total, intent_count' = intent_count
  PROVE  AssetMirror'
  BY DEF AssetMirror, AskedFor, Initialized, Kept, DomainInv

\* The same of a chain.
LEMMA ChainFrame ==
  ASSUME NEW c \in ChainIds, DomainInv, ChainMirror(c), Kept(accounts, accounts', ChainPda(c)),
         Kept(asked, asked', ChainPda(c)),
         deployment'[c] = deployment[c], authorized'[c] = authorized[c]
  PROVE  ChainMirror(c)'
<1>1. c \in Nat
  BY ConstantsAssumption DEF ConstantsAssumption
<1>2. Registered(c) => ChainPda(c) \in DOMAIN accounts
  BY <1>1 DEF DomainInv
<1> QED BY <1>2 DEF ChainMirror, AskedFor, Registered, Kept

\* The same of an intent, which the clock may pass.
LEMMA IntentFrame ==
  ASSUME NEW i \in IntentIds, DomainInv, IntentMirror(i), Kept(accounts, accounts', IntentPda(i)),
         Kept(asked, asked', IntentPda(i)),
         terms'[i] = terms[i], status'[i] = status[i], approvals'[i] = approvals[i],
         approval_count'[i] = approval_count[i], approved_at'[i] = approved_at[i],
         now \in Int, now' \in Int, now <= now', approved_at[i] \in Int
  PROVE  IntentMirror(i)'
<1> SUFFICES ASSUME Created(i)'
             PROVE  IntentMirror(i)'
  BY DEF IntentMirror
<1>0. Created(i)
  BY DEF Created
<1>1. Created(i) /\ accounts'[IntentPda(i)] = accounts[IntentPda(i)]
  BY <1>0, IntentIdsAreNumbers DEF DomainInv, Kept
<1>2. PICK created \in 0 .. IF status[i] = "PendingApproval" THEN now ELSE approved_at[i] :
        IntentFixed(accounts[IntentPda(i)], IntentAsked(terms[i]), terms[i], i, created)
  BY <1>1 DEF IntentMirror
<1>3. created \in 0 .. IF status'[i] = "PendingApproval" THEN now' ELSE approved_at'[i]
  BY <1>2
<1>4. IntentFixed(accounts'[IntentPda(i)], IntentAsked(terms'[i]), terms'[i], i, created)
  BY <1>1, <1>2
<1>5. IntentMoved(accounts'[IntentPda(i)], STATUS[status'[i]], Bitmap(approvals'[i]), approval_count'[i], approved_at'[i])
  BY <1>1 DEF IntentMirror
<1>6. AskedFor(IntentPda(i), IntentAsked(terms[i]))'
  BY <1>1 DEF IntentMirror, AskedFor, Kept
<1> QED BY <1>3, <1>4, <1>5, <1>6 DEF IntentMirror

\* The same of a leg, which the clock may pass.
LEMMA LegFrame ==
  ASSUME NEW i \in IntentIds, NEW l \in LegIds, DomainInv, IInv, LegMirror(i, l), Kept(accounts, accounts', IntentPda(i)),
         terms'[i] = terms[i], leg_status'[<<i, l>>] = leg_status[<<i, l>>], executed_at'[<<i, l>>] = executed_at[<<i, l>>],
         Committed(i, l)' = Committed(i, l), ReportedTx(i, l)' = ReportedTx(i, l),
         now \in Int, now' \in Int, now <= now', executed_at[<<i, l>>] \in Int
  PROVE  LegMirror(i, l)'
<1> DEFINE digest == IF Committed(i, l) THEN LegDigest(terms[i], i, l) ELSE Zero
           account == IF Committed(i, l) THEN LegApproval(terms[i], i, l) ELSE Zero
<1> SUFFICES ASSUME leg_status'[<<i, l>>] # "None"
             PROVE  LegMirror(i, l)'
  BY DEF LegMirror
<1>0. accounts'[IntentPda(i)] = accounts[IntentPda(i)]
  <2>1. Created(i)
    BY DEF IInv, IntentInv
  <2> QED BY <2>1, IntentIdsAreNumbers DEF DomainInv, Kept
<1>1. executed_at[<<i, l>>] <= now
  BY DEF LegMirror
<1>2. PICK confirmed \in Int :
        /\ IF leg_status[<<i, l>>] = "Confirmed" THEN confirmed \in executed_at[<<i, l>>] .. now ELSE confirmed = 0
        /\ LegMoved(accounts[IntentPda(i)], leg_offset(l), LEG_STATUS[leg_status[<<i, l>>]], digest, account,
                    ReportedTx(i, l), executed_at[<<i, l>>], confirmed)
  BY DEF LegMirror
<1>3. digest' = digest /\ account' = account
  OBVIOUS
<1>4. IF leg_status'[<<i, l>>] = "Confirmed" THEN confirmed \in executed_at'[<<i, l>>] .. now' ELSE confirmed = 0
  BY <1>2
<1>5. LegMoved(accounts'[IntentPda(i)], leg_offset(l), LEG_STATUS[leg_status'[<<i, l>>]], digest', account',
               ReportedTx(i, l)', executed_at'[<<i, l>>], confirmed)
  <2> HIDE DEF digest, account
  <2> QED BY <1>0, <1>2, <1>3
<1>6. executed_at'[<<i, l>>] <= now'
  BY <1>1
<1> QED BY <1>4, <1>5, <1>6 DEF LegMirror

-----------------------------------------------------------------------------
(* Each instruction is the ledger's action, on what the client asked for.    *)

\* InitAsset decides on the configuration the client asked for.
LEMMA InitAssetIxIs ==
  ASSUME NEW cfg \in AssetConfigs, InitAssetIx(cfg)
  PROVE  /\ InitAsset(cfg)
         /\ accounts' = With(accounts, AssetPda, AssetFields(AssetAsked(cfg), Admin))
         /\ asked' = With(asked, AssetPda, AssetAsked(cfg))
<1> DEFINE x == AssetAsked(cfg)
           y == InitAssetArgs(buildInitAssetIx(x))
           a == cfg.approvers
<1>1. cfg \in AssetConfig
  BY ConfigAssumption DEF ConfigAssumption
<1>2. a \in Seq(Keys) /\ cfg = [approvers |-> a, threshold |-> cfg.threshold, timelock_secs |-> cfg.timelock_secs,
                                global_cap |-> cfg.global_cap]
  BY <1>1 DEF AssetConfig
<1>3. Len(a) \in Nat /\ DOMAIN a = 1 .. Len(a) /\ [n \in 1 .. Len(a) |-> a[n]] = a
  BY <1>2
<1>4. x.approvers = a
  BY DEF AssetAsked
<1>5. y = x
  <2> HIDE DEF x, y, a
  <2>1. y = [create_key |-> x.create_key, symbol |-> x.symbol, decimals |-> x.decimals,
            threshold |-> x.threshold, timelock_secs |-> x.timelock_secs, global_cap |-> x.global_cap,
            executor |-> x.executor, ika_program |-> x.ika_program, bump |-> x.bump,
            mint_authority_bump |-> x.mint_authority_bump, approvers |-> a]
    BY <1>3, <1>4, InitAssetDecoded DEF y
  <2> QED BY <2>1, <1>4 DEF x, AssetAsked
<1>6. InitAsset([approvers |-> y.approvers, threshold |-> y.threshold,
                 timelock_secs |-> y.timelock_secs, global_cap |-> y.global_cap])
      /\ accounts' = With(accounts, AssetPda, AssetFields(y, Admin)) /\ asked' = With(asked, AssetPda, x)
  BY DEF InitAssetIx
<1>7. x.threshold = cfg.threshold /\ x.timelock_secs = cfg.timelock_secs /\ x.global_cap = cfg.global_cap
  BY DEF AssetAsked
<1> HIDE DEF x, y, a
<1>8. InitAsset(cfg)
  BY <1>2, <1>4, <1>5, <1>6, <1>7
<1> QED BY <1>5, <1>6, <1>8 DEF x

\* The registry names every chain; what is sent for a chain can be decoded.
LEMMA ChainAskedFacts ==
  ASSUME NEW c \in ChainIds, NEW k \in ChainConfigs[c]
  PROVE  LET x == ChainAsked(c, k) IN
         /\ k \in Deployment /\ k # NoDeployment /\ IsFiniteSet(k.allowlist)
         /\ x.leg_kind = k.leg_kind /\ x.cap = k.cap /\ x.authorized = k.authorized /\ x.chain_id = c
         /\ Cardinality(k.allowlist) \in Nat /\ Len(x.allowlist) = Cardinality(k.allowlist)
         /\ DOMAIN x.allowlist = 1 .. Len(x.allowlist)
         /\ {x.allowlist[n] : n \in DOMAIN x.allowlist} = k.allowlist
<1>1. k \in Deployment /\ k # NoDeployment
  BY ConfigAssumption DEF ConfigAssumption
<1>2. IsFiniteSet(k.allowlist)
  BY AccountsAssumption DEF AccountsAssumption
<1> DEFINE x == ChainAsked(c, k)
           q == SQX!SetToSeq(k.allowlist)
<1>3. x.allowlist = q /\ x.leg_kind = k.leg_kind /\ x.cap = k.cap /\ x.authorized = k.authorized /\ x.chain_id = c
  BY DEF ChainAsked
<1>4. /\ Cardinality(k.allowlist) \in Nat /\ Len(q) = Cardinality(k.allowlist) /\ DOMAIN q = 1 .. Cardinality(k.allowlist)
      /\ {q[n] : n \in DOMAIN q} = k.allowlist
  BY <1>2, ListOfSet
<1> HIDE DEF x, q
<1> QED BY <1>1, <1>2, <1>3, <1>4 DEF x

\* AddChain decides on the chain the client asked for.
LEMMA AddChainIxIs ==
  ASSUME NEW s, NEW c \in ChainIds, NEW k \in ChainConfigs[c], AddChainIx(s, c, k)
  PROVE  LET x == ChainAsked(c, k)
             y == AddChainArgs(buildAddChainIx(x))
         IN /\ AddChain(s, c, k)
            /\ accounts' = With([accounts EXCEPT ![AssetPda] =
                                   Write(@, {<<asset.AUTHORIZED_TOTAL, 8, authorized_total'>>,
                                             <<asset.CHAIN_COUNT, 1, chain_count'>>})],
                                ChainPda(c), ChainFields(y))
            /\ asked' = With(asked, ChainPda(c), x)
            /\ y = [chain_id |-> x.chain_id, leg_kind |-> x.leg_kind, encoding |-> x.encoding, curve |-> x.curve,
                    scheme |-> x.scheme, dwallet |-> x.dwallet,
                    dwallet_pubkey_len |-> PublicKeyLen(x.dwallet_pubkey, x.curve),
                    dwallet_pubkey |-> x.dwallet_pubkey, bump |-> x.bump, contract |-> x.contract,
                    domain |-> x.domain, cap |-> x.cap, authorized |-> x.authorized, allowlist |-> x.allowlist]
<1> DEFINE x == ChainAsked(c, k)
           y == AddChainArgs(buildAddChainIx(x))
<1>1. /\ k \in Deployment /\ x.leg_kind = k.leg_kind /\ x.cap = k.cap /\ x.authorized = k.authorized /\ x.chain_id = c
      /\ Len(x.allowlist) \in Nat /\ DOMAIN x.allowlist = 1 .. Len(x.allowlist)
      /\ {x.allowlist[n] : n \in DOMAIN x.allowlist} = k.allowlist
  BY ChainAskedFacts
<1>2. x.leg_kind \in LegKinds /\ k = [leg_kind |-> k.leg_kind, cap |-> k.cap, authorized |-> k.authorized, allowlist |-> k.allowlist]
  BY <1>1 DEF Deployment
<1>3. /\ AddChain(s, y.chain_id, [leg_kind |-> y.leg_kind, cap |-> y.cap, authorized |-> y.authorized,
                                  allowlist |-> {y.allowlist[n] : n \in DOMAIN y.allowlist}])
      /\ accounts' = With([accounts EXCEPT ![AssetPda] =
                             Write(@, {<<asset.AUTHORIZED_TOTAL, 8, authorized_total'>>,
                                       <<asset.CHAIN_COUNT, 1, chain_count'>>})],
                          ChainPda(y.chain_id), ChainFields(y))
      /\ asked' = With(asked, ChainPda(c), x)
  BY DEF AddChainIx
<1>4. y = [chain_id |-> x.chain_id, leg_kind |-> x.leg_kind, encoding |-> x.encoding, curve |-> x.curve,
           scheme |-> x.scheme, dwallet |-> x.dwallet,
           dwallet_pubkey_len |-> PublicKeyLen(x.dwallet_pubkey, x.curve),
           dwallet_pubkey |-> x.dwallet_pubkey, bump |-> x.bump, contract |-> x.contract,
           domain |-> x.domain, cap |-> x.cap, authorized |-> x.authorized,
           allowlist |-> [n \in 1 .. Len(x.allowlist) |-> x.allowlist[n]]]
  <2> HIDE DEF x
  <2> QED BY <1>1, <1>2, AddChainDecoded
<1>5. [n \in 1 .. Len(x.allowlist) |-> x.allowlist[n]] = x.allowlist
  <2> DEFINE q == SQX!SetToSeq(k.allowlist)
             n == Cardinality(k.allowlist)
  <2>1. x.allowlist = q
    BY DEF ChainAsked
  <2>2. q = [j \in 1 .. n |-> q[j]] /\ n = Len(q)
    BY ChainAskedFacts, ListOfSet
  <2> HIDE DEF x, q, n
  <2> QED BY <2>1, <2>2
<1> HIDE DEF x, y
<1>6. /\ y.chain_id = c /\ y.leg_kind = k.leg_kind /\ y.cap = k.cap /\ y.authorized = k.authorized
      /\ y.allowlist = x.allowlist
  BY <1>1, <1>4, <1>5
<1>7. AddChain(s, c, k)
  BY <1>1, <1>2, <1>3, <1>6
<1> QED BY <1>3, <1>4, <1>5, <1>6, <1>7 DEF x, y

\* CreateIntent decides on the terms the client asked for.
LEMMA CreateIntentIxIs ==
  ASSUME NEW t \in Proposals, CreateIntentIx(t)
  PROVE  LET i == intent_count
             x == IntentAsked(t)
         IN /\ CreateIntent(t) /\ i < IntentBound
            /\ accounts' = With([accounts EXCEPT ![AssetPda] = Write(@, {<<asset.INTENT_COUNT, 8, intent_count'>>})],
                                IntentPda(i), IntentFields(x, t, i))
            /\ asked' = With(asked, IntentPda(i), x)
<1> DEFINE i == intent_count
           x == IntentAsked(t)
           y == CreateIntentArgs(buildCreateIntentIx(x))
           u == [kind |-> y.kind, amount |-> y.amount, proposer |-> t.proposer, src_chain |-> y.src_chain,
                 dst_chain |-> y.dst_chain, recipient |-> y.recipient, source |-> y.source]
<1>1. t.kind \in Kinds /\ t = [kind |-> t.kind, amount |-> t.amount, proposer |-> t.proposer, src_chain |-> t.src_chain,
                               dst_chain |-> t.dst_chain, recipient |-> t.recipient, source |-> t.source]
  BY DEF Proposals
<1>2. /\ CreateIntent(u) /\ i < IntentBound
      /\ accounts' = With([accounts EXCEPT ![AssetPda] = Write(@, {<<asset.INTENT_COUNT, 8, intent_count'>>})],
                          IntentPda(i), IntentFields(y, u, i))
      /\ asked' = With(asked, IntentPda(i), x)
  BY DEF CreateIntentIx
<1>3. x = [kind |-> t.kind, amount |-> t.amount, src_chain |-> t.src_chain, dst_chain |-> t.dst_chain,
           recipient |-> t.recipient, source |-> t.source, memo |-> "memo", bump |-> 252]
  BY DEF IntentAsked
<1>4. y = x
  <2>1. x.kind \in Kinds
    BY <1>1, <1>3
  <2> HIDE DEF x
  <2>2. y = [kind |-> x.kind, amount |-> x.amount, src_chain |-> x.src_chain, dst_chain |-> x.dst_chain,
             recipient |-> x.recipient, source |-> x.source, memo |-> x.memo, bump |-> x.bump]
    BY <2>1, CreateIntentDecoded
  <2> QED BY <1>3, <2>2
<1> HIDE DEF y, x
<1>5. u = t
  BY <1>1, <1>3, <1>4
<1> HIDE DEF u
<1> QED BY <1>2, <1>4, <1>5 DEF x

\* The bytes of an executed leg.
ApprovalAccount(mem, digest) ==
  MessageApprovalPda(ReadInt(mem, chain.CURVE, 2), Read(mem, chain.DWALLET_PUBKEY, 65, Zero),
                     ReadInt(mem, chain.SIGNATURE_SCHEME, 2), digest)
LegBytes(i, l, foreign, digest, account) ==
  {<<leg_offset(l) + leg.STATUS, 1, LEG_STATUS[leg_status'[<<i, l>>]]>>,
   <<leg_offset(l) + leg.MESSAGE_DIGEST, 32, digest>>, <<leg_offset(l) + leg.MESSAGE_APPROVAL, 32, account>>,
   <<leg_offset(l) + leg.EXECUTED_AT, 8, now>>, <<intent.STATUS, 1, STATUS[status'[i]]>>}
  \cup IF foreign THEN {} ELSE {<<leg_offset(l) + leg.CONFIRMED_AT, 8, now>>}
ExecutionOf(s, i, l) ==
  LET c == LegChain(terms[i], l)
      foreign == deployment[c].leg_kind = "IkaForeign"
      digest == IF foreign THEN LegMessage(i, l) ELSE Zero
      account == IF foreign THEN ApprovalAccount(accounts[ChainPda(c)], digest) ELSE Zero
  IN /\ ExecuteNativeLeg(s, i, l) \/ ExecuteForeignLeg(s, i, l)
     /\ accounts' = [accounts EXCEPT
          ![IntentPda(i)] = Write(@, LegBytes(i, l, foreign, digest, account)),
          ![ChainPda(c)] = Write(@, {<<chain.AUTHORIZED, 8, authorized'[c]>>}),
          ![AssetPda] = Write(@, {<<asset.AUTHORIZED_TOTAL, 8, authorized_total'>>})]
     /\ UNCHANGED asked

\* ExecuteLeg decides on the leg the client named.
LEMMA ExecuteLegIxIs ==
  ASSUME NEW s, NEW i, NEW l, ExecuteLegIx(s, i, l)
  PROVE  ExecutionOf(s, i, l) /\ (ExecuteNativeLeg(s, i, l) \/ ExecuteForeignLeg(s, i, l))
<1> DEFINE m == take(buildExecuteLegIx(l, 255), 0, 1)
<1>1. m = l
  BY LegArgsDecoded
<1>2. \E k \in {m} :
        LET c == LegChain(terms[i], k)
            foreign == deployment[c].leg_kind = "IkaForeign"
        IN /\ ExecuteNativeLeg(s, i, k) \/ ExecuteForeignLeg(s, i, k)
           /\ \E digest \in {IF foreign THEN LegMessage(i, k) ELSE Zero} :
                accounts' = [accounts EXCEPT
                  ![IntentPda(i)] = Write(@, LegBytes(i, k, foreign, digest,
                                      IF foreign THEN ApprovalAccount(accounts[ChainPda(c)], digest) ELSE Zero)),
                  ![ChainPda(c)] = Write(@, {<<chain.AUTHORIZED, 8, authorized'[c]>>}),
                  ![AssetPda] = Write(@, {<<asset.AUTHORIZED_TOTAL, 8, authorized_total'>>})]
           /\ UNCHANGED asked
  BY DEF ExecuteLegIx, ApprovalAccount, LegBytes
<1> HIDE DEF m
<1>3. PICK k \in {m} : ExecutionOf(s, i, k)
  BY <1>2, Zenon DEF ExecutionOf
<1> QED BY <1>1, <1>3 DEF ExecutionOf

\* ConfirmLeg decides on the leg the client named, and records the transaction it reported.
LEMMA ConfirmLegIxIs ==
  ASSUME NEW s, NEW i \in IntentIds, NEW l \in LegIds, ConfirmLegIx(s, i, l)
  PROVE  /\ ConfirmLeg(s, i, l)
         /\ accounts' = [accounts EXCEPT ![IntentPda(i)] =
              Write(@, {<<leg_offset(l) + leg.STATUS, 1, LEG_STATUS.Confirmed>>,
                        <<leg_offset(l) + leg.CONFIRMED_AT, 8, now>>, <<intent.STATUS, 1, STATUS[status'[i]]>>}
                       \cup AddrFields(leg_offset(l) + leg.DEST_TX, "dest_tx"))]
         /\ asked' = With(asked, LegKey(i, l), "dest_tx")
<1> DEFINE d == buildConfirmLegIx(l, "dest_tx")
<1>1. take(d, 0, 1) = l /\ read_addr_arg(d, 1) = "dest_tx"
  BY LegArgsDecoded
<1> HIDE DEF d
<1> QED BY <1>1 DEF ConfirmLegIx, LegKey, d

\* Every instruction on bytes is an instruction of the ledger.
LEMMA BytesStepIsLedgerStep == BytesNext => Next
<1> SUFFICES ASSUME BytesNext PROVE Next
  OBVIOUS
<1>1. CASE \E cfg \in AssetConfigs : InitAssetIx(cfg)
  BY <1>1, InitAssetIxIs DEF Next
<1>2. CASE \E s \in Keys, c \in ChainIds : \E k \in ChainConfigs[c] : AddChainIx(s, c, k)
  BY <1>2, AddChainIxIs DEF Next
<1>3. CASE \E t \in Proposals : CreateIntentIx(t)
  BY <1>3, CreateIntentIxIs DEF Next
<1>4. CASE \E k \in Keys, i \in IntentIds : ApproveIntentIx(k, i)
  BY <1>4 DEF Next, ApproveIntentIx
<1>5. CASE \E s \in Keys, i \in IntentIds, l \in LegIds : ExecuteLegIx(s, i, l)
  BY <1>5, ExecuteLegIxIs DEF Next
<1>6. CASE \E s \in Keys, i \in IntentIds, l \in LegIds : ConfirmLegIx(s, i, l)
  BY <1>6, ConfirmLegIxIs DEF Next
<1>7. CASE Tick /\ UNCHANGED byteVars
  BY <1>7 DEF Next
<1>8. CASE \E c \in ChainIds, x \in Amounts : HolderReturns(c, x) /\ UNCHANGED byteVars
  BY <1>8 DEF Next
<1> QED BY <1>1, <1>2, <1>3, <1>4, <1>5, <1>6, <1>7, <1>8 DEF BytesNext

\* So the ledger on bytes implements the ledger, and what is proved of that holds of it.
THEOREM BytesImplementLedger == BytesSpec => Spec
<1>1. BytesInit => Init
  BY DEF BytesInit
<1>2. [BytesNext]_accountVars => [Next]_vars
  BY BytesStepIsLedgerStep DEF accountVars
<1> QED BY <1>1, <1>2, PTL DEF BytesSpec, Spec

-----------------------------------------------------------------------------
(* The invariant is kept, one step at a time.                                *)

\* There are no accounts before the asset is initialised.
LEMMA InitMirror == BytesInit => MirrorInv
<1> SUFFICES ASSUME BytesInit PROVE MirrorInv
  OBVIOUS
<1>1. Init /\ DOMAIN accounts = {} /\ DOMAIN asked = {}
  BY DEF BytesInit
<1>2. ~Initialized /\ (\A c \in ChainIds : ~Registered(c)) /\ \A i \in IntentIds : ~Created(i)
  BY <1>1 DEF Init, Initialized, Registered, Created
<1>3. \A i \in IntentIds, l \in LegIds : leg_status[<<i, l>>] = "None"
  BY <1>1 DEF Init, Legs
<1>4. DomainInv
  BY <1>1, <1>2 DEF DomainInv
<1>5. FreshInv
  BY <1>1 DEF FreshInv, Init, Legs
<1> QED BY <1>2, <1>3, <1>4, <1>5 DEF MirrorInv, AssetMirror, ChainMirror, IntentMirror, LegMirror

\* What the conjuncts of the ledger's invariant say of the numbers used here.
LEMMA BookTypes ==
  ASSUME IInv, NEW i \in IntentIds
  PROVE  /\ approved_at[i] \in Int /\ now \in Int /\ now >= 0
         /\ \A l \in LegIds : executed_at[<<i, l>>] \in Int /\ (leg_status[<<i, l>>] # "None" => Created(i))
<1>1. \A l \in LegIds : <<i, l>> \in Legs
  BY DEF Legs
<1>2. TimeBound \in Nat
  BY ConstantFacts
<1>3. approved_at[i] \in 0 .. TimeBound /\ now \in 0 .. TimeBound
      /\ \A l \in LegIds : executed_at[<<i, l>>] \in 0 .. TimeBound
  BY <1>1 DEF IInv, TypeOK
<1>4. \A l \in LegIds : leg_status[<<i, l>>] # "None" => Created(i)
  BY DEF IInv, IntentInv
<1> QED BY <1>2, <1>3, <1>4

\* A leg that exists, in the terms it was created with.
LEMMA LegTerms ==
  ASSUME IInv, NEW i \in IntentIds, NEW l \in LegIds, leg_status[<<i, l>>] # "None"
  PROVE  /\ Created(i) /\ terms[i] \in Terms /\ WellFormed(terms[i]) /\ HasLeg(terms[i].kind, l)
         /\ LegChain(terms[i], l) \in ChainIds /\ LegAccount(terms[i], l) \in Accounts
<1> DEFINE t == terms[i]
<1>1. Created(i) /\ t \in Terms /\ WellFormed(t) /\ HasLeg(t.kind, l)
  BY DEF IInv, IntentInv
<1>2. LegChain(t, l) \in ChainIds
  BY <1>1, ConstantFacts DEF Terms, WellFormed, HasLeg, LegChain, LegAction, Kinds, LegIds, NoChain
<1>3. LegAccount(t, l) \in Accounts
  BY <1>1, ConstantFacts DEF Terms, WellFormed, HasLeg, LegAccount, LegAction, Kinds, LegIds, NoAccount
<1> QED BY <1>1, <1>2, <1>3

\* An intent and its legs that a step does not touch.
UntouchedIntent(i) ==
  /\ Kept(accounts, accounts', IntentPda(i)) /\ Kept(asked, asked', IntentPda(i))
  /\ terms'[i] = terms[i] /\ status'[i] = status[i] /\ approvals'[i] = approvals[i]
  /\ approval_count'[i] = approval_count[i] /\ approved_at'[i] = approved_at[i]
SameLeg(i, l) ==
  /\ terms'[i] = terms[i]
  /\ leg_status'[<<i, l>>] = leg_status[<<i, l>>] /\ executed_at'[<<i, l>>] = executed_at[<<i, l>>]
  /\ LegKey(i, l) \in DOMAIN asked' <=> LegKey(i, l) \in DOMAIN asked
  /\ Kept(asked, asked', LegKey(i, l))
UntouchedLeg(i, l) == Kept(accounts, accounts', IntentPda(i)) /\ SameLeg(i, l)

\* The chain of an executed leg is registered, for good.
LEMMA CommittedStays ==
  ASSUME BookInv, NEW i \in IntentIds, NEW l \in LegIds, SameLeg(i, l),
         \A c \in ChainIds : Registered(c) => deployment'[c] = deployment[c]
  PROVE  Committed(i, l)' = Committed(i, l) /\ ReportedTx(i, l)' = ReportedTx(i, l)
<1>1. Executed(i, l)' <=> Executed(i, l)
  BY DEF Executed, SameLeg
<1>2. Executed(i, l) => deployment'[LegChain(terms[i], l)] = deployment[LegChain(terms[i], l)]
  <2> SUFFICES ASSUME Executed(i, l)
               PROVE  deployment'[LegChain(terms[i], l)] = deployment[LegChain(terms[i], l)]
    OBVIOUS
  <2> DEFINE g == <<i, l>>
  <2>1. g \in Legs /\ g[1] = i /\ g[2] = l
    BY DEF Legs
  <2>2. Registered(ChainOf(g)) /\ ChainOf(g) = LegChain(terms[i], l)
    BY <2>1 DEF BookInv, AuthorizationInv, RegisteredInv, ChainOf
  <2>3. LegChain(terms[i], l) \in ChainIds
    BY LegTerms DEF BookInv, Executed
  <2> QED BY <2>2, <2>3
<1>3. Committed(i, l)' = Committed(i, l)
  BY <1>1, <1>2 DEF Committed, SameLeg
<1>4. ReportedTx(i, l)' = ReportedTx(i, l)
  BY DEF ReportedTx, SameLeg, Kept
<1> QED BY <1>3, <1>4

\* What stands for an untouched intent still does.
LEMMA IntentStays ==
  ASSUME MirrorInv, BookInv, BookInv', NEW i \in IntentIds, UntouchedIntent(i), now <= now'
  PROVE  IntentMirror(i)'
<1>1. now \in Int /\ approved_at[i] \in Int
  BY BookTypes DEF BookInv
<1>2. now' \in Int
  <2>1. now' \in 0 .. TimeBound /\ TimeBound \in Nat
    BY ConstantFacts DEF BookInv, IInv, TypeOK
  <2> QED BY <2>1
<1>3. DomainInv /\ IntentMirror(i)
  BY DEF MirrorInv
<1> QED BY <1>1, <1>2, <1>3, IntentFrame DEF UntouchedIntent

\* The same of an untouched leg.
LEMMA LegStays ==
  ASSUME MirrorInv, BookInv, BookInv', NEW i \in IntentIds, NEW l \in LegIds, UntouchedLeg(i, l), now <= now',
         \A c \in ChainIds : Registered(c) => deployment'[c] = deployment[c]
  PROVE  LegMirror(i, l)'
<1>1. now \in Int /\ executed_at[<<i, l>>] \in Int
  BY BookTypes DEF BookInv
<1>2. now' \in Int
  <2>1. now' \in 0 .. TimeBound /\ TimeBound \in Nat
    BY ConstantFacts DEF BookInv, IInv, TypeOK
  <2> QED BY <2>1
<1>3. DomainInv /\ IInv /\ LegMirror(i, l)
  BY DEF MirrorInv, BookInv
<1>4. Committed(i, l)' = Committed(i, l) /\ ReportedTx(i, l)' = ReportedTx(i, l)
  BY CommittedStays DEF UntouchedLeg
<1> QED BY <1>1, <1>2, <1>3, <1>4, LegFrame DEF UntouchedLeg, SameLeg

\* The clock, and the holders of the token, leave the accounts alone.
LEMMA QuietStepMirror ==
  ASSUME MirrorInv, BookInv, BookInv', UNCHANGED <<ledgerVars, byteVars>>, now <= now'
  PROVE  MirrorInv'
<1>1. \A a : Kept(accounts, accounts', a) /\ Kept(asked, asked', a)
  BY DEF Kept, byteVars
<1>2. \A i \in IntentIds : UntouchedIntent(i) /\ \A l \in LegIds : UntouchedLeg(i, l)
  BY <1>1 DEF UntouchedIntent, UntouchedLeg, SameLeg, ledgerVars, intentVars, legVars, byteVars
<1>3. \A c \in ChainIds : deployment'[c] = deployment[c] /\ authorized'[c] = authorized[c]
  BY DEF ledgerVars, chainVars
<1>4. \A i \in IntentIds : IntentMirror(i)' /\ \A l \in LegIds : LegMirror(i, l)'
  BY <1>2, <1>3, IntentStays, LegStays
<1>5. \A c \in ChainIds : ChainMirror(c)'
  BY <1>1, <1>3, ChainFrame DEF MirrorInv
<1>6. AssetMirror'
  BY <1>1, AssetFrame DEF MirrorInv, ledgerVars, assetVars
<1>7. DomainInv' /\ FreshInv'
  BY DEF MirrorInv, DomainInv, FreshInv, Initialized, Registered, Created, ledgerVars, assetVars, chainVars, intentVars,
         legVars, byteVars
<1> QED BY <1>4, <1>5, <1>6, <1>7 DEF MirrorInv

\* InitAsset keeps the invariant.
LEMMA InitAssetMirror ==
  ASSUME MirrorInv, BookInv, BookInv', NEW cfg \in AssetConfigs, InitAssetIx(cfg)
  PROVE  MirrorInv'
<1> DEFINE x == AssetAsked(cfg)
<1>1. /\ InitAsset(cfg) /\ accounts' = With(accounts, AssetPda, AssetFields(x, Admin))
      /\ asked' = With(asked, AssetPda, x)
  BY InitAssetIxIs
<1>2. /\ ~Initialized /\ Initialized' /\ config' = cfg
      /\ cfg.approvers \in Seq(Keys) /\ Len(cfg.approvers) \in 1 .. 5 /\ cfg.threshold \in 1 .. Len(cfg.approvers)
      /\ UNCHANGED <<authorized_total, chain_count, intent_count, chainVars, intentVars, legVars, now>>
  BY <1>1, ConfigAssumption DEF InitAsset, Initialized, ConfigAssumption, AssetConfig, MAX_APPROVERS
<1>3. x.approvers = cfg.approvers
  BY DEF AssetAsked
<1> HIDE DEF x
<1>4. accounts'[AssetPda] = AssetFields(x, Admin) /\ asked'[AssetPda] = x /\ AssetPda \in DOMAIN asked'
      /\ \A a : a \in DOMAIN accounts' <=> a \in DOMAIN accounts \/ a = AssetPda
  BY <1>1, WithFacts
<1>5. \A a : a # AssetPda => Kept(accounts, accounts', a) /\ Kept(asked, asked', a)
      /\ (a \in DOMAIN asked' <=> a \in DOMAIN asked)
  BY <1>1, WithKept, WithFacts
<1>6. AssetMirror'
  <2>1. DOMAIN x.approvers = 1 .. Len(x.approvers) /\ Len(x.approvers) \in 1 .. 5
    BY <1>2, <1>3
  <2>2. AssetHeld(accounts'[AssetPda], x, 0, 0, 0)
    BY <1>4, <2>1, AssetCreated
  <2>3. chain_count' = 0 /\ authorized_total' = 0 /\ intent_count' = 0
    BY <1>2 DEF MirrorInv, FreshInv
  <2>4. AssetHeld(accounts'[AssetPda], AssetAsked(config'), chain_count', authorized_total', intent_count')
    BY <1>2, <2>2, <2>3 DEF x
  <2>5. AskedFor(AssetPda, AssetAsked(config))'
    BY <1>2, <1>4 DEF AskedFor, x
  <2> QED BY <1>2, <2>4, <2>5 DEF AssetMirror
<1>7. \A c \in ChainIds : ChainMirror(c)'
  <2>1. \A c \in ChainIds : deployment'[c] = deployment[c] /\ authorized'[c] = authorized[c]
    BY <1>2 DEF chainVars
  <2>2. \A c : Kept(accounts, accounts', ChainPda(c)) /\ Kept(asked, asked', ChainPda(c))
    BY <1>5, PdaFacts
  <2> QED BY <2>1, <2>2, ChainFrame DEF MirrorInv
<1>8. \A i \in IntentIds : IntentMirror(i)' /\ \A l \in LegIds : LegMirror(i, l)'
  <2>1. \A i : Kept(accounts, accounts', IntentPda(i)) /\ Kept(asked, asked', IntentPda(i))
    BY <1>5, PdaFacts
  <2>2. \A i, l : Kept(asked, asked', LegKey(i, l)) /\ (LegKey(i, l) \in DOMAIN asked' <=> LegKey(i, l) \in DOMAIN asked)
    BY <1>5, PdaFacts
  <2>3. \A i \in IntentIds : UntouchedIntent(i) /\ \A l \in LegIds : UntouchedLeg(i, l)
    BY <1>2, <2>1, <2>2 DEF UntouchedIntent, UntouchedLeg, SameLeg, intentVars, legVars
  <2>4. now <= now'
    BY <1>2 DEF BookInv, IInv, TypeOK
  <2>5. \A c \in ChainIds : deployment'[c] = deployment[c]
    BY <1>2 DEF chainVars
  <2> QED BY <2>3, <2>4, <2>5, IntentStays, LegStays
<1>9. DomainInv'
  <2>1. AssetPda \in DOMAIN accounts'
    BY <1>4
  <2>2. \A c : (ChainPda(c) \in DOMAIN accounts' <=> ChainPda(c) \in DOMAIN accounts)
               /\ (IntentPda(c) \in DOMAIN accounts' <=> IntentPda(c) \in DOMAIN accounts)
    BY <1>4, PdaFacts
  <2> QED BY <1>2, <2>1, <2>2 DEF MirrorInv, DomainInv, Registered, Created, chainVars, intentVars
<1>10. FreshInv'
  <2>1. \A i, l : LegKey(i, l) \in DOMAIN asked' <=> LegKey(i, l) \in DOMAIN asked
    BY <1>5, PdaFacts
  <2> QED BY <1>2, <2>1 DEF MirrorInv, FreshInv, Created, intentVars, legVars
<1> QED BY <1>6, <1>7, <1>8, <1>9, <1>10 DEF MirrorInv

\* What an instruction finds in the asset account, if the asset is initialised.
LEMMA AssetFacts ==
  ASSUME MirrorInv, BookInv, Initialized
  PROVE  /\ AssetHeld(accounts[AssetPda], AssetAsked(config), chain_count, authorized_total, intent_count)
         /\ Len(AssetAsked(config).approvers) \in 0 .. 5 /\ AssetPda \in DOMAIN accounts
<1>1. Len(config.approvers) \in 1 .. 5
  BY DEF BookInv, IInv, ConfigInv, MAX_APPROVERS
<1>2. AssetAsked(config).approvers = config.approvers
  BY DEF AssetAsked
<1> QED BY <1>1, <1>2 DEF MirrorInv, AssetMirror, DomainInv

\* The bytes of a chain depend on the arguments' fields alone.
LEMMA ChainHeldOf ==
  ASSUME NEW mem, NEW x, NEW y, NEW total, ChainHeld(mem, y, total),
         y.chain_id = x.chain_id, y.leg_kind = x.leg_kind, y.encoding = x.encoding, y.curve = x.curve,
         y.scheme = x.scheme, y.dwallet = x.dwallet, y.dwallet_pubkey = x.dwallet_pubkey, y.bump = x.bump,
         y.contract = x.contract, y.domain = x.domain, y.cap = x.cap, y.allowlist = x.allowlist
  PROVE  ChainHeld(mem, x, total)
<1>1. \A n \in 1 .. Len(x.allowlist) :
        /\ Read(mem, 254 + 65 * (n - 1), 1, 0) = ByteLen(x.allowlist[n])
        /\ Read(mem, 254 + 65 * (n - 1) + 1, 64, NoAccount) = x.allowlist[n]
  <2>1. \A n \in 1 .. Len(y.allowlist) :
          /\ Read(mem, 254 + 65 * (n - 1), 1, 0) = ByteLen(y.allowlist[n])
          /\ Read(mem, 254 + 65 * (n - 1) + 1, 64, NoAccount) = y.allowlist[n]
    BY DEF ChainHeld
  <2> QED BY <2>1
<1>2. /\ Laid(mem, ChainSlots)
      /\ Read(mem, 2, 32, Zero) = AssetPda /\ Read(mem, 34, 2, 0) = x.chain_id
      /\ Read(mem, 36, 1, 0) = LEG_KIND[x.leg_kind] /\ Read(mem, 37, 1, 0) = x.encoding
  BY DEF ChainHeld
<1>3. /\ Read(mem, 38, 2, 0) = x.curve /\ Read(mem, 40, 2, 0) = x.scheme /\ Read(mem, 42, 32, Zero) = x.dwallet
      /\ Read(mem, 74, 1, 0) = PublicKeyLen(x.dwallet_pubkey, x.curve) /\ Read(mem, 75, 65, Zero) = x.dwallet_pubkey
  BY DEF ChainHeld
<1>4. /\ Read(mem, 140, 1, 0) = ByteLen(x.contract) /\ Read(mem, 141, 64, NoAccount) = x.contract
      /\ Read(mem, 205, 32, Zero) = x.domain /\ Read(mem, 237, 8, 0) = total /\ Read(mem, 245, 8, 0) = x.cap
      /\ Read(mem, 253, 1, 0) = Len(x.allowlist) /\ Read(mem, 514, 1, 0) = x.bump
  BY DEF ChainHeld
<1> QED BY <1>1, <1>2, <1>3, <1>4 DEF ChainHeld

\* The accounts after AddChain of c: the asset's counters, and the chain's account.
LEMMA AddChainMirror ==
  ASSUME MirrorInv, BookInv, BookInv', NEW s, NEW c \in ChainIds, NEW k \in ChainConfigs[c], AddChainIx(s, c, k)
  PROVE  MirrorInv'
<1> DEFINE x == ChainAsked(c, k)
           y == AddChainArgs(buildAddChainIx(x))
           total == authorized_total'
           count == chain_count'
           new == Write(accounts[AssetPda], {<<118, 8, total>>, <<109, 1, count>>})
           fields == ChainFields(y)
           pda == ChainPda(c)
<1>1. /\ AddChain(s, c, k)
      /\ accounts' = With([accounts EXCEPT ![AssetPda] = new], pda, fields)
      /\ asked' = With(asked, pda, x)
  BY AddChainIxIs DEF asset
<1>2. y = [chain_id |-> x.chain_id, leg_kind |-> x.leg_kind, encoding |-> x.encoding, curve |-> x.curve,
           scheme |-> x.scheme, dwallet |-> x.dwallet,
           dwallet_pubkey_len |-> PublicKeyLen(x.dwallet_pubkey, x.curve),
           dwallet_pubkey |-> x.dwallet_pubkey, bump |-> x.bump, contract |-> x.contract,
           domain |-> x.domain, cap |-> x.cap, authorized |-> x.authorized, allowlist |-> x.allowlist]
  BY AddChainIxIs
<1>3. /\ k \in Deployment /\ k # NoDeployment /\ IsFiniteSet(k.allowlist) /\ x.authorized = k.authorized
      /\ Cardinality(k.allowlist) \in Nat /\ Len(x.allowlist) = Cardinality(k.allowlist)
      /\ DOMAIN x.allowlist = 1 .. Len(x.allowlist)
  BY ChainAskedFacts
<1>4. /\ Initialized /\ ~Registered(c) /\ Cardinality(k.allowlist) <= 4
      /\ deployment' = [deployment EXCEPT ![c] = k] /\ authorized' = [authorized EXCEPT ![c] = k.authorized]
      /\ UNCHANGED <<config, intent_count, intentVars, legVars, now>>
  BY <1>1 DEF AddChain, MAX_ALLOWLIST
<1>5. /\ deployment \in [ChainIds -> Deployment] /\ authorized \in [ChainIds -> U64]
  BY DEF BookInv, IInv, TypeOK
<1>6. /\ deployment'[c] = k /\ authorized'[c] = k.authorized
      /\ \A d \in ChainIds : d # c => deployment'[d] = deployment[d] /\ authorized'[d] = authorized[d]
  BY <1>4, <1>5
<1>7. \A a : a # pda => Kept(asked, asked', a) /\ (a \in DOMAIN asked' <=> a \in DOMAIN asked)
  BY <1>1, WithKept, WithFacts
<1>8. asked'[pda] = x /\ pda \in DOMAIN asked'
  BY <1>1, WithFacts
<1>9. /\ accounts'[AssetPda] = new /\ accounts'[pda] = fields
      /\ \A a : a \in DOMAIN accounts' <=> a \in DOMAIN accounts \/ a = pda
      /\ \A a : a # AssetPda /\ a # pda => Kept(accounts, accounts', a)
  <2>1. AssetPda \in DOMAIN accounts /\ AssetPda # pda
    BY <1>4, AssetFacts, PdaFacts
  <2> HIDE DEF new, fields, pda
  <2>2. accounts' = With([accounts EXCEPT ![AssetPda] = new], pda, fields)
    BY <1>1
  <2> QED BY <2>1, <2>2 DEF With, Kept
<1>10. ChainHeld(fields, x, k.authorized)
  <2>1. /\ Len(y.allowlist) \in 0 .. 4 /\ DOMAIN y.allowlist = 1 .. Len(y.allowlist)
        /\ y.dwallet_pubkey_len = PublicKeyLen(y.dwallet_pubkey, y.curve) /\ y.authorized = k.authorized
    <3> HIDE DEF x, y
    <3>1. /\ y.allowlist = x.allowlist /\ y.curve = x.curve /\ y.dwallet_pubkey = x.dwallet_pubkey
          /\ y.dwallet_pubkey_len = PublicKeyLen(x.dwallet_pubkey, x.curve) /\ y.authorized = x.authorized
      BY <1>2
    <3>2. Len(x.allowlist) \in 0 .. 4
      BY <1>3, <1>4
    <3> QED BY <1>3, <3>1, <3>2
  <2> HIDE DEF y
  <2>2. ChainHeld(fields, y, k.authorized)
    BY <2>1, ChainCreated
  <2> HIDE DEF x, fields
  <2>3. /\ y.chain_id = x.chain_id /\ y.leg_kind = x.leg_kind /\ y.encoding = x.encoding /\ y.curve = x.curve
        /\ y.scheme = x.scheme /\ y.dwallet = x.dwallet /\ y.dwallet_pubkey = x.dwallet_pubkey /\ y.bump = x.bump
        /\ y.contract = x.contract /\ y.domain = x.domain /\ y.cap = x.cap /\ y.allowlist = x.allowlist
    BY <1>2
  <2> QED BY <2>2, <2>3, ChainHeldOf
<1> HIDE DEF y, x, fields, new
<1>11. AssetMirror'
  <2>1. AssetHeld(new, AssetAsked(config), count, total, intent_count)
    BY <1>4, AssetFacts, AssetCounts DEF new
  <2>2. Kept(asked, asked', AssetPda)
    BY <1>7, PdaFacts
  <2> QED BY <1>4, <1>9, <2>1, <2>2 DEF MirrorInv, AssetMirror, AskedFor, Kept, Initialized
<1>12. \A d \in ChainIds : ChainMirror(d)'
  <2>1. ChainMirror(c)'
    <3>1. ChainHeld(accounts'[pda], ChainAsked(c, deployment'[c]), authorized'[c])
      BY <1>6, <1>9, <1>10 DEF x
    <3>2. AskedFor(pda, ChainAsked(c, deployment[c]))'
      BY <1>6, <1>8 DEF AskedFor, x
    <3> QED BY <1>3, <1>4, <1>6, <3>1, <3>2 DEF ChainMirror, MAX_ALLOWLIST
  <2>2. ASSUME NEW d \in ChainIds, d # c PROVE ChainMirror(d)'
    <3>1. Kept(accounts, accounts', ChainPda(d)) /\ Kept(asked, asked', ChainPda(d))
      BY <1>7, <1>9, <2>2, PdaFacts
    <3> QED BY <1>6, <2>2, <3>1, ChainFrame DEF MirrorInv
  <2> QED BY <2>1, <2>2
<1>13. \A i \in IntentIds : IntentMirror(i)' /\ \A l \in LegIds : LegMirror(i, l)'
  <2>1. \A i : Kept(accounts, accounts', IntentPda(i)) /\ Kept(asked, asked', IntentPda(i))
    BY <1>7, <1>9, PdaFacts
  <2>2. \A i, l : Kept(asked, asked', LegKey(i, l)) /\ (LegKey(i, l) \in DOMAIN asked' <=> LegKey(i, l) \in DOMAIN asked)
    BY <1>7, PdaFacts
  <2>3. \A i \in IntentIds : UntouchedIntent(i) /\ \A l \in LegIds : UntouchedLeg(i, l)
    BY <1>4, <2>1, <2>2 DEF UntouchedIntent, UntouchedLeg, SameLeg, intentVars, legVars
  <2>4. now <= now'
    BY <1>4 DEF BookInv, IInv, TypeOK
  <2>5. \A d \in ChainIds : Registered(d) => deployment'[d] = deployment[d]
    BY <1>4, <1>6
  <2> QED BY <2>3, <2>4, <2>5, IntentStays, LegStays
<1>14. DomainInv'
  <2>1. AssetPda \in DOMAIN accounts' /\ Initialized'
    BY <1>4, <1>9, AssetFacts DEF Initialized
  <2>2. \A d : (ChainPda(d) \in DOMAIN accounts' <=> ChainPda(d) \in DOMAIN accounts \/ d = c)
               /\ (IntentPda(d) \in DOMAIN accounts' <=> IntentPda(d) \in DOMAIN accounts)
    BY <1>9, PdaFacts
  <2>3. \A d \in ChainIds : Registered(d)' <=> Registered(d) \/ d = c
    BY <1>3, <1>6 DEF Registered
  <2> QED BY <1>4, <2>1, <2>2, <2>3 DEF MirrorInv, DomainInv, Created, intentVars
<1>15. FreshInv'
  <2>1. \A i, l : LegKey(i, l) \in DOMAIN asked' <=> LegKey(i, l) \in DOMAIN asked
    BY <1>7, PdaFacts
  <2> QED BY <1>4, <2>1 DEF MirrorInv, FreshInv, Created, Initialized, intentVars, legVars
<1> QED BY <1>11, <1>12, <1>13, <1>14, <1>15 DEF MirrorInv

\* Where the two legs stand in their intent.
LEMMA LegOffsets == leg_offset(0) = 270 /\ leg_offset(1) = 419 /\ LegIds = {0, 1}
BY DEF leg_offset, intent, leg, LegIds

\* The accounts after CreateIntent: the asset's counter, and the intent's account.
LEMMA CreateIntentMirror ==
  ASSUME MirrorInv, BookInv, BookInv', NEW t \in Proposals, CreateIntentIx(t)
  PROVE  MirrorInv'
<1>0. PICK i : i = intent_count
  OBVIOUS
<1> DEFINE x == IntentAsked(t)
           new == Write(accounts[AssetPda], {<<126, 8, intent_count'>>})
           fields == IntentFields(x, t, i)
           pda == IntentPda(i)
<1>1. /\ CreateIntent(t) /\ i < IntentBound
      /\ accounts' = With([accounts EXCEPT ![AssetPda] = new], pda, fields)
      /\ asked' = With(asked, pda, x)
  BY <1>0, CreateIntentIxIs DEF asset
<1>2. /\ Initialized /\ i \in IntentIds /\ i \in Nat
      /\ terms' = [terms EXCEPT ![i] = t] /\ status' = [status EXCEPT ![i] = "PendingApproval"]
      /\ leg_status' = [g \in Legs |->
           IF g[1] # i THEN leg_status[g] ELSE IF HasLeg(t.kind, g[2]) THEN "Pending" ELSE "None"]
      /\ intent_count' = i + 1
      /\ UNCHANGED <<config, authorized_total, chain_count, chainVars, approvals, approval_count,
                     approved_at, executed_at, now>>
  <2>1. i \in 0 .. IntentBound
    BY <1>0 DEF BookInv, IInv, TypeOK
  <2> QED BY <1>0, <1>1, <2>1, ConstantFacts DEF CreateIntent, MayCreate, IntentIds
<1>3. ~Created(i) /\ approvals[i] = {} /\ approval_count[i] = 0
  BY <1>0, <1>2 DEF BookInv, IInv, IntentInv
<1>4. approved_at[i] = 0 /\ \A l \in LegIds : executed_at[<<i, l>>] = 0 /\ LegKey(i, l) \notin DOMAIN asked
  BY <1>2, <1>3 DEF MirrorInv, FreshInv
<1>5. /\ terms \in [IntentIds -> Terms \cup {NoTerms}] /\ status \in [IntentIds -> Statuses] /\ now \in Nat
  BY ConstantFacts DEF BookInv, IInv, TypeOK
<1>6. /\ terms'[i] = t /\ status'[i] = "PendingApproval"
      /\ \A j \in IntentIds : j # i => terms'[j] = terms[j] /\ status'[j] = status[j]
      /\ \A l \in LegIds : leg_status'[<<i, l>>] = IF HasLeg(t.kind, l) THEN "Pending" ELSE "None"
      /\ \A j \in IntentIds, l \in LegIds : j # i => leg_status'[<<j, l>>] = leg_status[<<j, l>>]
  BY <1>2, <1>5, IndexFacts
<1>7. \A a : a # pda => Kept(asked, asked', a) /\ (a \in DOMAIN asked' <=> a \in DOMAIN asked)
  BY <1>1, WithKept, WithFacts
<1>8. asked'[pda] = x /\ pda \in DOMAIN asked'
  BY <1>1, WithFacts
<1>9. /\ accounts'[AssetPda] = new /\ accounts'[pda] = fields
      /\ \A a : a \in DOMAIN accounts' <=> a \in DOMAIN accounts \/ a = pda
      /\ \A a : a # AssetPda /\ a # pda => Kept(accounts, accounts', a)
  <2>1. AssetPda \in DOMAIN accounts /\ AssetPda # pda
    BY <1>2, AssetFacts, PdaFacts
  <2> HIDE DEF new, fields, pda
  <2>2. accounts' = With([accounts EXCEPT ![AssetPda] = new], pda, fields)
    BY <1>1
  <2> QED BY <2>1, <2>2 DEF With, Kept
<1>10. /\ IntentFixed(fields, x, t, i, now) /\ IntentMoved(fields, 0, 0, 0, 0)
       /\ LegMoved(fields, 270, 0, Zero, Zero, NoAccount, 0, 0)
       /\ HasLeg(x.kind, 1) => LegMoved(fields, 419, 0, Zero, Zero, NoAccount, 0, 0)
  <2> HIDE DEF x
  <2> QED BY IntentCreated
<1>11. x.kind = t.kind
  BY DEF IntentAsked
<1> HIDE DEF x, fields, new, pda
<1>12. AssetMirror'
  <2>1. AssetHeld(new, AssetAsked(config), chain_count, authorized_total, intent_count')
    BY <1>2, AssetFacts, AssetCounts DEF new
  <2>2. Kept(asked, asked', AssetPda)
    BY <1>7, PdaFacts DEF pda
  <2> QED BY <1>2, <1>9, <2>1, <2>2 DEF MirrorInv, AssetMirror, AskedFor, Kept, Initialized
<1>13. \A c \in ChainIds : ChainMirror(c)'
  <2>1. \A c \in ChainIds : deployment'[c] = deployment[c] /\ authorized'[c] = authorized[c]
    BY <1>2 DEF chainVars
  <2>2. \A c : Kept(accounts, accounts', ChainPda(c)) /\ Kept(asked, asked', ChainPda(c))
    BY <1>7, <1>9, PdaFacts DEF pda
  <2> QED BY <2>1, <2>2, ChainFrame DEF MirrorInv
<1>14. IntentMirror(i)'
  <2>1. STATUS[status'[i]] = 0 /\ Bitmap(approvals'[i]) = 0 /\ approval_count'[i] = 0 /\ approved_at'[i] = 0
    BY <1>2, <1>3, <1>4, <1>6 DEF STATUS, Bitmap
  <2>2. IntentMoved(accounts'[pda], STATUS[status'[i]], Bitmap(approvals'[i]), approval_count'[i], approved_at'[i])
    BY <1>9, <1>10, <2>1
  <2>3. IntentFixed(accounts'[pda], IntentAsked(terms'[i]), terms'[i], i, now')
    BY <1>2, <1>6, <1>9, <1>10 DEF x
  <2>4. now' \in 0 .. IF status'[i] = "PendingApproval" THEN now' ELSE approved_at'[i]
    BY <1>2, <1>5, <1>6
  <2>5. AskedFor(pda, IntentAsked(terms[i]))'
    BY <1>6, <1>8 DEF AskedFor, x, pda
  <2> QED BY <2>2, <2>3, <2>4, <2>5 DEF IntentMirror, pda
<1>15. ASSUME NEW l \in LegIds PROVE LegMirror(i, l)'
  <2> SUFFICES ASSUME leg_status'[<<i, l>>] # "None" PROVE LegMirror(i, l)'
    BY DEF LegMirror
  <2>1. leg_status'[<<i, l>>] = "Pending" /\ HasLeg(x.kind, l)
    BY <1>6, <1>11
  <2>2. ~Committed(i, l)'
    BY <2>1 DEF Committed, Executed
  <2>3. LegKey(i, l) \notin DOMAIN asked'
    BY <1>4, <1>7, PdaFacts DEF pda
  <2>4. ReportedTx(i, l)' = NoAccount
    BY <2>3 DEF ReportedTx
  <2>5. executed_at'[<<i, l>>] = 0 /\ executed_at'[<<i, l>>] <= now'
    BY <1>2, <1>4, <1>5
  <2>6. LegMoved(fields, leg_offset(l), 0, Zero, Zero, NoAccount, 0, 0)
    BY <1>10, <2>1, LegOffsets
  <2>7. LegMoved(accounts'[IntentPda(i)], leg_offset(l), LEG_STATUS[leg_status'[<<i, l>>]],
                 IF Committed(i, l)' THEN LegDigest(terms[i], i, l)' ELSE Zero,
                 IF Committed(i, l)' THEN LegApproval(terms[i], i, l)' ELSE Zero,
                 ReportedTx(i, l)', executed_at'[<<i, l>>], 0)
    <3>1. LEG_STATUS[leg_status'[<<i, l>>]] = 0
      BY <2>1 DEF LEG_STATUS
    <3> QED BY <1>9, <2>2, <2>4, <2>5, <2>6, <3>1 DEF pda
  <2> QED BY <2>1, <2>5, <2>7 DEF LegMirror
<1>16. ASSUME NEW j \in IntentIds, j # i
       PROVE  IntentMirror(j)' /\ \A l \in LegIds : LegMirror(j, l)'
  <2>1. Kept(accounts, accounts', IntentPda(j)) /\ Kept(asked, asked', IntentPda(j))
    BY <1>7, <1>9, <1>16, PdaFacts DEF pda
  <2>2. \A l : Kept(asked, asked', LegKey(j, l)) /\ (LegKey(j, l) \in DOMAIN asked' <=> LegKey(j, l) \in DOMAIN asked)
    BY <1>7, PdaFacts DEF pda
  <2>3. UntouchedIntent(j) /\ \A l \in LegIds : UntouchedLeg(j, l)
    BY <1>2, <1>6, <1>16, <2>1, <2>2 DEF UntouchedIntent, UntouchedLeg, SameLeg
  <2>4. now <= now' /\ \A c \in ChainIds : deployment'[c] = deployment[c]
    BY <1>2, <1>5 DEF chainVars
  <2> QED BY <2>3, <2>4, IntentStays, LegStays
<1>17. DomainInv'
  <2>1. AssetPda \in DOMAIN accounts' /\ Initialized'
    BY <1>2, <1>9, AssetFacts DEF Initialized
  <2>2. \A d : (ChainPda(d) \in DOMAIN accounts' <=> ChainPda(d) \in DOMAIN accounts)
               /\ (IntentPda(d) \in DOMAIN accounts' <=> IntentPda(d) \in DOMAIN accounts \/ d = i)
    BY <1>9, PdaFacts DEF pda
  <2>3. \A j \in IntentIds : Created(j)' <=> Created(j) \/ j = i
    BY <1>6 DEF Created
  <2>4. \A c \in ChainIds : Registered(c)' <=> Registered(c)
    BY <1>2 DEF Registered, chainVars
  <2> QED BY <1>2, <2>1, <2>2, <2>3, <2>4 DEF MirrorInv, DomainInv
<1>18. FreshInv'
  <2>1. \A j, l : LegKey(j, l) \in DOMAIN asked' <=> LegKey(j, l) \in DOMAIN asked
    BY <1>7, PdaFacts DEF pda
  <2>2. \A j \in IntentIds : ~Created(j)' => ~Created(j)
    BY <1>3, <1>6 DEF Created
  <2> QED BY <1>2, <2>1, <2>2 DEF MirrorInv, FreshInv, Initialized
<1> QED BY <1>12, <1>13, <1>14, <1>15, <1>16, <1>17, <1>18 DEF MirrorInv

\* A leg stays what it is when the account's other fields are rewritten.
LEMMA LegBeside ==
  ASSUME BookInv, BookInv', NEW i \in IntentIds, NEW l \in LegIds, LegMirror(i, l), SameLeg(i, l),
         NEW fs, Keeps(accounts[IntentPda(i)], accounts'[IntentPda(i)], fs),
         \A g \in fs : g[1] \notin LegMoving(leg_offset(l)), now' = now,
         \A c \in ChainIds : Registered(c) => deployment'[c] = deployment[c]
  PROVE  LegMirror(i, l)'
<1> DEFINE digest == IF Committed(i, l) THEN LegDigest(terms[i], i, l) ELSE Zero
           account == IF Committed(i, l) THEN LegApproval(terms[i], i, l) ELSE Zero
<1> SUFFICES ASSUME leg_status'[<<i, l>>] # "None"
             PROVE  LegMirror(i, l)'
  BY DEF LegMirror
<1>1. Committed(i, l)' = Committed(i, l) /\ ReportedTx(i, l)' = ReportedTx(i, l)
  BY CommittedStays
<1>2. /\ terms'[i] = terms[i] /\ leg_status'[<<i, l>>] = leg_status[<<i, l>>]
      /\ executed_at'[<<i, l>>] = executed_at[<<i, l>>]
  BY DEF SameLeg
<1>3. digest' = digest /\ account' = account
  BY <1>1, <1>2
<1>4. PICK confirmed \in Int :
        /\ IF leg_status[<<i, l>>] = "Confirmed" THEN confirmed \in executed_at[<<i, l>>] .. now ELSE confirmed = 0
        /\ LegMoved(accounts[IntentPda(i)], leg_offset(l), LEG_STATUS[leg_status[<<i, l>>]], digest, account,
                    ReportedTx(i, l), executed_at[<<i, l>>], confirmed)
  BY <1>2 DEF LegMirror
<1>5. executed_at'[<<i, l>>] <= now'
  BY <1>2 DEF LegMirror
<1>6. leg_offset(l) \in {270, 419}
  BY LegOffsets
<1>7. LegMoved(accounts'[IntentPda(i)], leg_offset(l), LEG_STATUS[leg_status[<<i, l>>]], digest, account,
               ReportedTx(i, l), executed_at[<<i, l>>], confirmed)
  <2> HIDE DEF digest, account
  <2> QED BY <1>4, <1>6, LegKept
<1>8. LegMoved(accounts'[IntentPda(i)], leg_offset(l), LEG_STATUS[leg_status'[<<i, l>>]], digest', account',
               ReportedTx(i, l)', executed_at'[<<i, l>>], confirmed)
  <2> HIDE DEF digest, account
  <2> QED BY <1>1, <1>2, <1>3, <1>7
<1>9. IF leg_status'[<<i, l>>] = "Confirmed" THEN confirmed \in executed_at'[<<i, l>>] .. now' ELSE confirmed = 0
  BY <1>2, <1>4
<1> QED BY <1>5, <1>8, <1>9 DEF LegMirror

\* The account after ApproveIntent: the bitmap, the count, the status and the clock.
LEMMA ApproveIntentMirror ==
  ASSUME MirrorInv, BookInv, BookInv', NEW key \in Keys, NEW i \in IntentIds, ApproveIntentIx(key, i)
  PROVE  MirrorInv'
<1> DEFINE pda == IntentPda(i)
           fs == ApprovalFields(Bitmap(approvals'[i]), approval_count'[i], STATUS[status'[i]], approved_at'[i])
           new == Write(accounts[pda], fs)
<1>1. /\ ApproveIntent(key, i) /\ asked' = asked /\ accounts' = [accounts EXCEPT ![pda] = new]
  BY DEF ApproveIntentIx, ApprovalFields, intent
<1>2. /\ Created(i) /\ status[i] = "PendingApproval"
      /\ UNCHANGED <<assetVars, chainVars, terms, legVars, now>>
  BY <1>1 DEF ApproveIntent, Created
<1>3. /\ approved_at \in [IntentIds -> 0 .. TimeBound] /\ status \in [IntentIds -> Statuses] /\ now \in Nat
  BY ConstantFacts DEF BookInv, IInv, TypeOK
<1>4. /\ status'[i] \in {"PendingApproval", "Approved"}
      /\ status'[i] = "Approved" => approved_at'[i] = now
  BY <1>1, <1>2, <1>3 DEF ApproveIntent
<1>5. \A j \in IntentIds : j # i => /\ status'[j] = status[j] /\ approvals'[j] = approvals[j]
                                    /\ approval_count'[j] = approval_count[j] /\ approved_at'[j] = approved_at[j]
  BY <1>1 DEF ApproveIntent, BookInv, IInv, TypeOK
<1>6. pda \in DOMAIN accounts
  BY <1>2, IntentIdsAreNumbers DEF MirrorInv, DomainInv
<1> HIDE DEF new
<1>7. /\ accounts'[pda] = new /\ DOMAIN accounts' = DOMAIN accounts
      /\ \A a : a # pda => Kept(accounts, accounts', a)
  BY <1>1, <1>6 DEF Kept
<1>8. \A a : Kept(asked, asked', a)
  BY <1>1 DEF Kept
<1>9. PICK created \in 0 .. now : IntentFixed(accounts[pda], IntentAsked(terms[i]), terms[i], i, created)
  BY <1>2 DEF MirrorInv, IntentMirror
<1> HIDE DEF fs
<1>10. /\ IntentFixed(new, IntentAsked(terms[i]), terms[i], i, created)
       /\ IntentMoved(new, STATUS[status'[i]], Bitmap(approvals'[i]), approval_count'[i], approved_at'[i])
       /\ Keeps(accounts[pda], new, fs) /\ \A g \in fs, lo \in {270, 419} : g[1] \notin LegMoving(lo)
  BY <1>9, IntentApproved DEF fs, new
<1>11. IntentMirror(i)'
  <2>1. created \in 0 .. IF status'[i] = "PendingApproval" THEN now' ELSE approved_at'[i]
    BY <1>2, <1>4
  <2>2. IntentFixed(accounts'[pda], IntentAsked(terms'[i]), terms'[i], i, created)
    BY <1>2, <1>7, <1>10
  <2>3. IntentMoved(accounts'[pda], STATUS[status'[i]], Bitmap(approvals'[i]), approval_count'[i], approved_at'[i])
    BY <1>7, <1>10
  <2>4. AskedFor(pda, IntentAsked(terms[i]))'
    BY <1>1, <1>2 DEF MirrorInv, IntentMirror, AskedFor
  <2> QED BY <2>1, <2>2, <2>3, <2>4 DEF IntentMirror
<1>12. \A j \in IntentIds, l \in LegIds : SameLeg(j, l)
  BY <1>1, <1>2, <1>8 DEF SameLeg, legVars
<1>13. \A c \in ChainIds : deployment'[c] = deployment[c] /\ authorized'[c] = authorized[c]
  BY <1>2 DEF chainVars
<1>14. ASSUME NEW l \in LegIds PROVE LegMirror(i, l)'
  <2>1. \A g \in fs : g[1] \notin LegMoving(leg_offset(l))
    BY <1>10, LegOffsets
  <2>2. LegMirror(i, l) /\ Keeps(accounts[pda], accounts'[pda], fs)
    BY <1>7, <1>10 DEF MirrorInv
  <2> HIDE DEF pda
  <2> QED BY <1>2, <1>12, <1>13, <2>1, <2>2, LegBeside DEF pda
<1>15. ASSUME NEW j \in IntentIds, j # i
       PROVE  IntentMirror(j)' /\ \A l \in LegIds : LegMirror(j, l)'
  <2>1. Kept(accounts, accounts', IntentPda(j))
    BY <1>7, <1>15, PdaFacts
  <2>2. UntouchedIntent(j) /\ \A l \in LegIds : UntouchedLeg(j, l)
    BY <1>2, <1>5, <1>8, <1>12, <1>15, <2>1 DEF UntouchedIntent, UntouchedLeg
  <2>3. now <= now'
    BY <1>2, <1>3
  <2> QED BY <1>13, <2>2, <2>3, IntentStays, LegStays
<1>16. AssetMirror' /\ \A c \in ChainIds : ChainMirror(c)'
  <2>1. Kept(accounts, accounts', AssetPda) /\ \A c : Kept(accounts, accounts', ChainPda(c))
    BY <1>7, PdaFacts
  <2> QED BY <1>2, <1>8, <1>13, <2>1, AssetFrame, ChainFrame DEF MirrorInv, assetVars
<1>17. DomainInv' /\ FreshInv'
  <2>1. \A j \in IntentIds : Created(j)' <=> Created(j)
    BY <1>2, <1>4, <1>5 DEF Created
  <2>2. \A j \in IntentIds : ~Created(j) => approved_at'[j] = approved_at[j]
    BY <1>2, <1>5
  <2>3. DomainInv'
    BY <1>2, <1>7, <2>1 DEF MirrorInv, DomainInv, Initialized, Registered, assetVars, chainVars
  <2>4. FreshInv'
    BY <1>1, <1>2, <2>1, <2>2 DEF MirrorInv, FreshInv, Initialized, assetVars, legVars
  <2> QED BY <2>3, <2>4
<1> QED BY <1>11, <1>14, <1>15, <1>16, <1>17 DEF MirrorInv

\* The account after ConfirmLeg: the leg's status, time and transaction, and the intent's status.
LEMMA ConfirmLegMirror ==
  ASSUME MirrorInv, BookInv, BookInv', NEW s \in Keys, NEW i \in IntentIds, NEW l \in LegIds, ConfirmLegIx(s, i, l)
  PROVE  MirrorInv'
<1> DEFINE pda == IntentPda(i)
           lo == leg_offset(l)
           tx == "dest_tx"
           fs == ConfirmationFields(lo, 2, now, STATUS[status'[i]], ByteLen(tx), tx)
           new == Write(accounts[pda], fs)
           digest == IF Committed(i, l) THEN LegDigest(terms[i], i, l) ELSE Zero
           account == IF Committed(i, l) THEN LegApproval(terms[i], i, l) ELSE Zero
<1>1. /\ ConfirmLeg(s, i, l) /\ asked' = With(asked, LegKey(i, l), tx) /\ accounts' = [accounts EXCEPT ![pda] = new]
  <2> DEFINE gs == {<<leg_offset(l) + leg.STATUS, 1, LEG_STATUS.Confirmed>>,
                    <<leg_offset(l) + leg.CONFIRMED_AT, 8, now>>, <<intent.STATUS, 1, STATUS[status'[i]]>>}
                   \cup AddrFields(leg_offset(l) + leg.DEST_TX, "dest_tx")
  <2>1. gs = fs
    <3>1. /\ leg.STATUS = 3 /\ leg.CONFIRMED_AT = 141 /\ leg.DEST_TX = 68 /\ intent.STATUS = 43
          /\ LEG_STATUS.Confirmed = 2
      BY DEF leg, intent, LEG_STATUS
    <3>2. (lo + 68) + 1 = lo + 69
      BY LegOffsets
    <3> HIDE DEF lo
    <3> QED BY <3>1, <3>2 DEF ConfirmationFields, AddrFields, lo
  <2>2. accounts' = [accounts EXCEPT ![IntentPda(i)] = Write(@, gs)]
    BY ConfirmLegIxIs
  <2> HIDE DEF fs, gs
  <2>3. accounts' = [accounts EXCEPT ![pda] = new]
    BY <2>1, <2>2
  <2>4. ConfirmLeg(s, i, l) /\ asked' = With(asked, LegKey(i, l), tx)
    BY ConfirmLegIxIs
  <2> QED BY <2>3, <2>4
<1>2. /\ leg_status[<<i, l>>] = "Authorized" /\ leg_status' = [leg_status EXCEPT ![<<i, l>>] = "Confirmed"]
      /\ status' = [status EXCEPT ![i] = IF AllConfirmed(leg_status', i) THEN "Executed" ELSE @]
      /\ UNCHANGED <<assetVars, chainVars, terms, approvals, approval_count, approved_at, executed_at, now>>
  BY <1>1 DEF ConfirmLeg
<1>3. /\ status \in [IntentIds -> Statuses] /\ now \in Nat /\ leg_status \in [Legs -> LegStatuses]
      /\ <<i, l>> \in Legs
  BY SMTT(30), ConstantFacts, IndexFacts DEF BookInv, IInv, TypeOK
<1>4. /\ Created(i) /\ status[i] \in {"Executing", "Executed"} /\ status'[i] \in {"Executing", "Executed"}
  <2>1. status[i] \in {"Executing", "Executed"}
    BY <1>2 DEF BookInv, StatusMatchesLegs, Executed
  <2> QED BY <1>2, <1>3, <2>1 DEF Created
<1>5. /\ leg_status'[<<i, l>>] = "Confirmed"
      /\ \A j \in IntentIds, m \in LegIds : <<j, m>> # <<i, l>> => leg_status'[<<j, m>>] = leg_status[<<j, m>>]
      /\ \A j \in IntentIds : j # i => status'[j] = status[j]
  BY <1>2, <1>3, IndexFacts
<1>6. pda \in DOMAIN accounts
  BY <1>4, IntentIdsAreNumbers DEF MirrorInv, DomainInv
<1> HIDE DEF new
<1>7. /\ accounts'[pda] = new /\ DOMAIN accounts' = DOMAIN accounts
      /\ \A a : a # pda => Kept(accounts, accounts', a)
  BY <1>1, <1>6 DEF Kept
<1>8. /\ asked'[LegKey(i, l)] = tx /\ LegKey(i, l) \in DOMAIN asked'
      /\ \A a : a # LegKey(i, l) => Kept(asked, asked', a) /\ (a \in DOMAIN asked' <=> a \in DOMAIN asked)
  BY <1>1, WithKept, WithFacts
<1>9. PICK created \in 0 .. approved_at[i] : IntentFixed(accounts[pda], IntentAsked(terms[i]), terms[i], i, created)
  BY <1>4 DEF MirrorInv, IntentMirror
<1>10. /\ executed_at[<<i, l>>] <= now
       /\ LegMoved(accounts[pda], lo, LEG_STATUS[leg_status[<<i, l>>]], digest, account,
                   ReportedTx(i, l), executed_at[<<i, l>>], 0)
  BY <1>2 DEF MirrorInv, LegMirror
<1>11. IntentMoved(accounts[pda], STATUS[status[i]], Bitmap(approvals[i]), approval_count[i], approved_at[i])
  BY <1>4 DEF MirrorInv, IntentMirror
<1>12. lo \in {270, 419}
  BY LegOffsets
<1> HIDE DEF fs, digest, account, tx
<1>13. /\ IntentFixed(new, IntentAsked(terms[i]), terms[i], i, created)
       /\ IntentMoved(new, STATUS[status'[i]], Bitmap(approvals[i]), approval_count[i], approved_at[i])
       /\ LegMoved(new, lo, 2, digest, account, tx, executed_at[<<i, l>>], now)
       /\ Keeps(accounts[pda], new, fs)
       /\ \A g \in fs, other \in {270, 419} \ {lo} : g[1] \notin LegMoving(other)
  <2> HIDE DEF lo
  <2> QED BY <1>9, <1>10, <1>11, <1>12, LegConfirmed DEF fs, new
<1>14. IntentMirror(i)'
  <2>1. created \in 0 .. IF status'[i] = "PendingApproval" THEN now' ELSE approved_at'[i]
    BY <1>2, <1>4
  <2>2. IntentFixed(accounts'[pda], IntentAsked(terms'[i]), terms'[i], i, created)
    BY <1>2, <1>7, <1>13
  <2>3. IntentMoved(accounts'[pda], STATUS[status'[i]], Bitmap(approvals'[i]), approval_count'[i], approved_at'[i])
    BY <1>2, <1>7, <1>13
  <2>4. Kept(asked, asked', pda)
    BY <1>8, PdaFacts
  <2>5. AskedFor(pda, IntentAsked(terms[i]))'
    BY <1>2, <1>4, <2>4 DEF MirrorInv, IntentMirror, AskedFor, Kept
  <2> QED BY <2>1, <2>2, <2>3, <2>5 DEF IntentMirror
<1>15. LegMirror(i, l)'
  <2>1. Committed(i, l)' = Committed(i, l)
    BY <1>2, <1>5 DEF Committed, Executed, chainVars
  <2>2. digest' = digest /\ account' = account
    BY <1>2, <2>1 DEF digest, account
  <2>3. ReportedTx(i, l)' = tx
    BY <1>8 DEF ReportedTx
  <2>4. LEG_STATUS[leg_status'[<<i, l>>]] = 2
    BY <1>5 DEF LEG_STATUS
  <2>5. LegMoved(accounts'[pda], lo, LEG_STATUS[leg_status'[<<i, l>>]], digest', account',
                 ReportedTx(i, l)', executed_at'[<<i, l>>], now)
    BY <1>2, <1>7, <1>13, <2>2, <2>3, <2>4
  <2>6. now \in executed_at'[<<i, l>>] .. now' /\ now \in Int /\ executed_at'[<<i, l>>] <= now'
    <3>1. executed_at[<<i, l>>] \in Int
      BY BookTypes DEF BookInv
    <3> QED BY <1>2, <1>3, <1>10, <3>1
  <2> QED BY <1>5, <2>5, <2>6 DEF LegMirror, digest, account
<1>16. \A j \in IntentIds, m \in LegIds : <<j, m>> # <<i, l>> => SameLeg(j, m)
  <2> SUFFICES ASSUME NEW j \in IntentIds, NEW m \in LegIds, <<j, m>> # <<i, l>> PROVE SameLeg(j, m)
    OBVIOUS
  <2>1. LegKey(j, m) # LegKey(i, l)
    BY PdaFacts
  <2> QED BY <1>2, <1>5, <1>8, <2>1 DEF SameLeg
<1>17. \A c \in ChainIds : deployment'[c] = deployment[c] /\ authorized'[c] = authorized[c]
  BY <1>2 DEF chainVars
<1>18. ASSUME NEW m \in LegIds, m # l PROVE LegMirror(i, m)'
  <2>1. leg_offset(m) \in {270, 419} \ {lo}
    BY <1>18, LegOffsets
  <2>2. \A g \in fs : g[1] \notin LegMoving(leg_offset(m))
    BY <1>13, <2>1
  <2>3. LegMirror(i, m) /\ Keeps(accounts[pda], accounts'[pda], fs) /\ SameLeg(i, m)
    BY <1>7, <1>13, <1>16, <1>18 DEF MirrorInv
  <2> HIDE DEF pda
  <2> QED BY <1>2, <1>17, <2>2, <2>3, LegBeside DEF pda
<1>19. ASSUME NEW j \in IntentIds, j # i
       PROVE  IntentMirror(j)' /\ \A m \in LegIds : LegMirror(j, m)'
  <2>1. Kept(accounts, accounts', IntentPda(j)) /\ Kept(asked, asked', IntentPda(j))
    BY <1>7, <1>8, <1>19, PdaFacts
  <2>2. UntouchedIntent(j) /\ \A m \in LegIds : UntouchedLeg(j, m)
    BY <1>2, <1>5, <1>16, <1>19, <2>1 DEF UntouchedIntent, UntouchedLeg
  <2>3. now <= now'
    BY <1>2, <1>3
  <2> QED BY <1>17, <2>2, <2>3, IntentStays, LegStays
<1>20. AssetMirror' /\ \A c \in ChainIds : ChainMirror(c)'
  <2>1. /\ Kept(accounts, accounts', AssetPda) /\ \A c : Kept(accounts, accounts', ChainPda(c))
        /\ Kept(asked, asked', AssetPda) /\ \A c : Kept(asked, asked', ChainPda(c))
    BY <1>7, <1>8, PdaFacts
  <2> QED BY <1>2, <1>17, <2>1, AssetFrame, ChainFrame DEF MirrorInv, assetVars
<1>21. DomainInv' /\ FreshInv'
  <2>1. \A j \in IntentIds : Created(j)' <=> Created(j)
    BY <1>2, <1>4, <1>5 DEF Created
  <2>2. \A j, m : j # i => (LegKey(j, m) \in DOMAIN asked' <=> LegKey(j, m) \in DOMAIN asked)
    BY <1>8, PdaFacts
  <2>3. DomainInv'
    BY <1>2, <1>7, <2>1 DEF MirrorInv, DomainInv, Initialized, Registered, assetVars, chainVars
  <2>4. FreshInv'
    BY <1>2, <1>4, <2>1, <2>2 DEF MirrorInv, FreshInv, Initialized, assetVars
  <2> QED BY <2>3, <2>4
<1> QED BY <1>14, <1>15, <1>18, <1>19, <1>20, <1>21 DEF MirrorInv

\* What stands in the account of a registered chain.
LEMMA ChainReads ==
  ASSUME NEW c \in ChainIds, ChainMirror(c), Registered(c)
  PROVE  LET mem == accounts[ChainPda(c)]
             x == ChainAsked(c, deployment[c])
         IN /\ ChainHeld(mem, x, authorized[c]) /\ Len(x.allowlist) \in 0 .. 4
            /\ {x.allowlist[n] : n \in 1 .. Len(x.allowlist)} = deployment[c].allowlist
            /\ ReadInt(mem, chain.ENCODING, 1) = CHAINS[c].encoding /\ Read32(mem, chain.DOMAIN_SEPARATOR) = <<"domain", c>>
            /\ ReadInt(mem, chain.CURVE, 2) = CHAINS[c].curve /\ ReadInt(mem, chain.SIGNATURE_SCHEME, 2) = CHAINS[c].scheme
            /\ deployment[c].leg_kind = "IkaForeign" =>
                 Read(mem, chain.DWALLET_PUBKEY, 65, Zero) = <<"key", CHAINS[c].curve>>
<1> DEFINE mem == accounts[ChainPda(c)]
           x == ChainAsked(c, deployment[c])
<1>1. ChainHeld(mem, x, authorized[c])
  BY DEF ChainMirror
<1>2. /\ Len(x.allowlist) \in 0 .. 4
      /\ {x.allowlist[n] : n \in 1 .. Len(x.allowlist)} = deployment[c].allowlist
  <2> DEFINE q == SQX!SetToSeq(deployment[c].allowlist)
  <2>1. IsFiniteSet(deployment[c].allowlist) /\ Cardinality(deployment[c].allowlist) <= 4
    BY DEF ChainMirror, MAX_ALLOWLIST
  <2>2. /\ Cardinality(deployment[c].allowlist) \in Nat /\ Len(q) = Cardinality(deployment[c].allowlist)
        /\ DOMAIN q = 1 .. Len(q) /\ {q[n] : n \in DOMAIN q} = deployment[c].allowlist
    BY <2>1, ListOfSet
  <2>3. x.allowlist = q
    BY DEF ChainAsked
  <2> HIDE DEF q, x
  <2> QED BY <2>1, <2>2, <2>3
<1>3. /\ x.encoding = CHAINS[c].encoding /\ x.domain = <<"domain", c>> /\ x.curve = CHAINS[c].curve
      /\ x.scheme = CHAINS[c].scheme
      /\ deployment[c].leg_kind = "IkaForeign" => x.dwallet_pubkey = <<"key", CHAINS[c].curve>>
  BY DEF ChainAsked
<1>4. /\ chain.ENCODING = 37 /\ chain.DOMAIN_SEPARATOR = 205 /\ chain.CURVE = 38 /\ chain.SIGNATURE_SCHEME = 40
      /\ chain.DWALLET_PUBKEY = 75
  BY DEF chain
<1> HIDE DEF mem, x
<1>5. /\ Read(mem, 37, 1, 0) = x.encoding /\ Read(mem, 205, 32, Zero) = x.domain /\ Read(mem, 38, 2, 0) = x.curve
      /\ Read(mem, 40, 2, 0) = x.scheme /\ Read(mem, 75, 65, Zero) = x.dwallet_pubkey
  BY <1>1 DEF ChainHeld
<1>6. /\ ReadInt(mem, chain.ENCODING, 1) = CHAINS[c].encoding /\ Read32(mem, chain.DOMAIN_SEPARATOR) = <<"domain", c>>
      /\ ReadInt(mem, chain.CURVE, 2) = CHAINS[c].curve /\ ReadInt(mem, chain.SIGNATURE_SCHEME, 2) = CHAINS[c].scheme
      /\ deployment[c].leg_kind = "IkaForeign" =>
           Read(mem, chain.DWALLET_PUBKEY, 65, Zero) = <<"key", CHAINS[c].curve>>
  BY <1>3, <1>4, <1>5 DEF ReadInt, Read32
<1> QED BY <1>1, <1>2, <1>6 DEF mem, x

\* What stands in the account of an intent, of its terms and of one of its legs.
LEMMA IntentReads ==
  ASSUME NEW mem, NEW t, NEW i, NEW created, IntentFixed(mem, IntentAsked(t), t, i, created),
         NEW l \in LegIds, HasLeg(t.kind, l)
  PROVE  /\ ReadInt(mem, leg_offset(l) + leg.ACTION, 1) = LEG_ACTION[LegAction(t, l)]
         /\ ReadInt(mem, leg_offset(l) + leg.CHAIN_ID, 2) = LegChain(t, l)
         /\ ReadInt(mem, intent.AMOUNT, 8) = t.amount /\ ReadInt(mem, intent.INDEX, 8) = i
         /\ ReadAddr(mem, intent.RECIPIENT) = t.recipient /\ ReadAddr(mem, intent.SOURCE) = t.source
<1> DEFINE x == IntentAsked(t)
<1>1. x.kind = t.kind /\ x.amount = t.amount /\ x.recipient = t.recipient /\ x.source = t.source
  BY DEF IntentAsked
<1>2. /\ leg.ACTION = 0 /\ leg.CHAIN_ID = 1 /\ intent.AMOUNT = 76 /\ intent.INDEX = 34 /\ intent.RECIPIENT = 88
      /\ intent.SOURCE = 153
  BY DEF leg, intent
<1> HIDE DEF x
<1>3. /\ Read(mem, 34, 8, 0) = i /\ Read(mem, 76, 8, 0) = x.amount
      /\ Read(mem, 88, 1, 0) = ByteLen(x.recipient) /\ Read(mem, 89, 64, NoAccount) = x.recipient
      /\ Read(mem, 153, 1, 0) = ByteLen(x.source) /\ Read(mem, 154, 64, NoAccount) = x.source
  BY DEF IntentFixed, x
<1>4. ReadAddr(mem, 88) = x.recipient /\ ReadAddr(mem, 153) = x.source
  <2>1. 88 + 1 = 89 /\ 153 + 1 = 154 /\ 88 \in Int /\ 153 \in Int
    OBVIOUS
  <2> QED BY <1>3, <2>1, AddrRead
<1>5. /\ Read(mem, 270, 1, 0) = LEG_ACTION[LegAction(t, 0)] /\ Read(mem, 271, 2, 0) = LegChain(t, 0)
      /\ HasLeg(t.kind, 1) => Read(mem, 419, 1, 0) = LEG_ACTION[LegAction(t, 1)] /\ Read(mem, 420, 2, 0) = LegChain(t, 1)
  BY <1>1 DEF IntentFixed, x
<1>6. (l = 0 /\ leg_offset(l) = 270) \/ (l = 1 /\ leg_offset(l) = 419)
  BY LegOffsets
<1>7. /\ Read(mem, leg_offset(l) + 0, 1, 0) = LEG_ACTION[LegAction(t, l)]
      /\ Read(mem, leg_offset(l) + 1, 2, 0) = LegChain(t, l)
  <2>1. CASE l = 0 /\ leg_offset(l) = 270
    BY <1>5, <2>1
  <2>2. CASE l = 1 /\ leg_offset(l) = 419
    BY <1>5, <2>2
  <2> QED BY <1>6, <2>1, <2>2
<1> QED BY <1>1, <1>2, <1>3, <1>4, <1>7 DEF ReadInt

\* What the program computes from the bytes is what the ledger decided on.
LEMMA LegMessageIs ==
  ASSUME MirrorInv, BookInv, NEW i \in IntentIds, NEW l \in LegIds, leg_status[<<i, l>>] # "None",
         Registered(LegChain(terms[i], l)), deployment[LegChain(terms[i], l)].leg_kind = "IkaForeign"
  PROVE  /\ LegMessage(i, l) = LegDigest(terms[i], i, l)
         /\ ApprovalAccount(accounts[ChainPda(LegChain(terms[i], l))], LegMessage(i, l)) = LegApproval(terms[i], i, l)
<1> DEFINE t == terms[i]
           c == LegChain(t, l)
           it == accounts[IntentPda(i)]
           ch == accounts[ChainPda(c)]
           action == ReadInt(it, leg_offset(l) + leg.ACTION, 1)
<1>1. Created(i) /\ HasLeg(t.kind, l) /\ c \in ChainIds
  BY LegTerms DEF BookInv
<1>2. PICK created : IntentFixed(it, IntentAsked(t), t, i, created)
  BY <1>1 DEF MirrorInv, IntentMirror
<1>3. /\ action = LEG_ACTION[LegAction(t, l)] /\ ReadInt(it, intent.AMOUNT, 8) = t.amount
      /\ ReadInt(it, intent.INDEX, 8) = i
      /\ ReadAddr(it, intent.RECIPIENT) = t.recipient /\ ReadAddr(it, intent.SOURCE) = t.source
  BY <1>1, <1>2, IntentReads
<1>4. /\ ReadInt(ch, chain.ENCODING, 1) = CHAINS[c].encoding /\ Read32(ch, chain.DOMAIN_SEPARATOR) = <<"domain", c>>
      /\ ReadInt(ch, chain.CURVE, 2) = CHAINS[c].curve /\ ReadInt(ch, chain.SIGNATURE_SCHEME, 2) = CHAINS[c].scheme
      /\ Read(ch, chain.DWALLET_PUBKEY, 65, Zero) = <<"key", CHAINS[c].curve>>
  BY <1>1, ChainReads DEF MirrorInv
<1>5. LegAction(t, l) \in {"mint", "burn"} /\ (action = LEG_ACTION.mint <=> LegAction(t, l) = "mint")
  BY <1>3 DEF LegAction, LEG_ACTION
<1>6. ReadAddr(it, IF action = LEG_ACTION.mint THEN intent.RECIPIENT ELSE intent.SOURCE) = LegAccount(t, l)
  BY <1>3, <1>5 DEF LegAccount
<1>7. LegMessage(i, l) = message_digest(ReadInt(ch, chain.ENCODING, 1),
        [domain |-> Read32(ch, chain.DOMAIN_SEPARATOR), action |-> action,
         amount |-> ReadInt(it, intent.AMOUNT, 8), nonce |-> LegNonce(ReadInt(it, intent.INDEX, 8), l),
         account |-> ReadAddr(it, IF action = LEG_ACTION.mint THEN intent.RECIPIENT ELSE intent.SOURCE),
         ledger |-> AssetPda])
  BY DEF LegMessage
<1>8. LegDigest(t, i, l) = message_digest(CHAINS[c].encoding,
        [domain |-> <<"domain", c>>, action |-> LEG_ACTION[LegAction(t, l)], amount |-> t.amount,
         nonce |-> LegNonce(i, l), account |-> LegAccount(t, l), ledger |-> AssetPda])
  BY DEF LegDigest
<1> HIDE DEF t, c, it, ch, action
<1>9. LegMessage(i, l) = LegDigest(t, i, l)
  BY <1>3, <1>4, <1>6, <1>7, <1>8
<1>10. ApprovalAccount(ch, LegMessage(i, l)) = LegApproval(t, i, l)
  BY <1>4, <1>9 DEF ApprovalAccount, LegApproval, c
<1> QED BY <1>9, <1>10 DEF t, c, ch

\* Executing a leg of chain c, native or foreign, in the terms of the ledger.
ExecutionDecided(i, l, c, foreign) ==
  /\ c \in ChainIds /\ Registered(c) /\ Created(i)
  /\ leg_status[<<i, l>>] = "Pending" /\ status[i] \in {"Approved", "Executing"}
  /\ leg_status' = [leg_status EXCEPT ![<<i, l>>] = IF foreign THEN "Authorized" ELSE "Confirmed"]
  /\ executed_at' = [executed_at EXCEPT ![<<i, l>>] = now]
  /\ status' = [status EXCEPT ![i] = IF AllConfirmed(leg_status', i) THEN "Executed" ELSE "Executing"]
  /\ \A d \in ChainIds : d # c => authorized'[d] = authorized[d]
  /\ UNCHANGED <<config, chain_count, intent_count, deployment, terms, approvals,
                 approval_count, approved_at, now>>

\* Which leg of which chain, and what the ledger holds after it.
LEMMA ExecutionFacts ==
  ASSUME BookInv, NEW s, NEW i \in IntentIds, NEW l \in LegIds, ExecuteNativeLeg(s, i, l) \/ ExecuteForeignLeg(s, i, l)
  PROVE  ExecutionDecided(i, l, LegChain(terms[i], l), deployment[LegChain(terms[i], l)].leg_kind = "IkaForeign")
<1> DEFINE c == LegChain(terms[i], l)
           foreign == deployment[c].leg_kind = "IkaForeign"
<1>1. LegReady(i, l) /\ SupplyRules(terms[i], l)
  BY DEF ExecuteNativeLeg, ExecuteForeignLeg
<1>2. WriteBack(i, l, IF foreign THEN "Authorized" ELSE "Confirmed")
  <2>1. CASE ExecuteNativeLeg(s, i, l)
    <3>1. ~foreign /\ WriteBack(i, l, "Confirmed")
      BY <2>1 DEF ExecuteNativeLeg
    <3> QED BY <3>1
  <2>2. CASE ExecuteForeignLeg(s, i, l)
    <3>1. foreign /\ WriteBack(i, l, "Authorized")
      BY <2>2 DEF ExecuteForeignLeg
    <3> QED BY <3>1
  <2> QED BY <2>1, <2>2
<1> HIDE DEF foreign
<1>3. c \in ChainIds /\ Registered(c)
  BY <1>1, LegFacts, ExecutedIsRegistered DEF BookInv
<1>4. leg_status[<<i, l>>] = "Pending" /\ status[i] \in {"Approved", "Executing"} /\ Created(i)
  BY <1>1 DEF LegReady, Created
<1>5. \A d \in ChainIds : d # c => authorized'[d] = authorized[d]
  BY <1>2 DEF WriteBack, BookInv, IInv, TypeOK
<1>6. /\ leg_status' = [leg_status EXCEPT ![<<i, l>>] = IF foreign THEN "Authorized" ELSE "Confirmed"]
      /\ executed_at' = [executed_at EXCEPT ![<<i, l>>] = now]
      /\ status' = [status EXCEPT ![i] = IF AllConfirmed(leg_status', i) THEN "Executed" ELSE "Executing"]
      /\ UNCHANGED <<config, chain_count, intent_count, deployment, terms, approvals,
                     approval_count, approved_at, now>>
  BY <1>2 DEF WriteBack
<1> QED BY <1>3, <1>4, <1>5, <1>6 DEF foreign, ExecutionDecided

\* The fields written to the intent's account.
LEMMA LegBytesAre ==
  ASSUME NEW i \in IntentIds, NEW l \in LegIds, NEW foreign, NEW digest, NEW account
  PROVE  LegBytes(i, l, foreign, digest, account) =
           ExecutedFields(leg_offset(l), LEG_STATUS[leg_status'[<<i, l>>]], digest, account, now, STATUS[status'[i]], foreign)
<1>1. leg.STATUS = 3 /\ leg.MESSAGE_DIGEST = 4 /\ leg.MESSAGE_APPROVAL = 36 /\ leg.EXECUTED_AT = 133
      /\ leg.CONFIRMED_AT = 141 /\ intent.STATUS = 43
  BY SMTT(30) DEF leg, intent
<1> QED BY <1>1 DEF LegBytes, ExecutionFields, ExecutedFields

\* What ExecuteLeg does to the accounts: the intent's, the chain's and the asset's.
ExecutionWritten(i, l, c, foreign) ==
  LET lo == leg_offset(l)
      fs == ExecutedFields(lo, LEG_STATUS[leg_status'[<<i, l>>]],
              IF foreign THEN LegDigest(terms[i], i, l) ELSE Zero,
              IF foreign THEN LegApproval(terms[i], i, l) ELSE Zero, now, STATUS[status'[i]], foreign)
  IN /\ accounts'[IntentPda(i)] = Write(accounts[IntentPda(i)], fs)
     /\ accounts'[ChainPda(c)] = Write(accounts[ChainPda(c)], {<<237, 8, authorized'[c]>>})
     /\ accounts'[AssetPda] = Write(accounts[AssetPda], {<<118, 8, authorized_total'>>})
     /\ DOMAIN accounts' = DOMAIN accounts
     /\ \A a : a # IntentPda(i) /\ a # ChainPda(c) /\ a # AssetPda => Kept(accounts, accounts', a)
     /\ asked' = asked

\* What the three accounts hold after it.
LEMMA ExecutionWrites ==
  ASSUME MirrorInv, BookInv, NEW s, NEW i \in IntentIds, NEW l \in LegIds, ExecuteLegIx(s, i, l)
  PROVE  ExecutionWritten(i, l, LegChain(terms[i], l), deployment[LegChain(terms[i], l)].leg_kind = "IkaForeign")
<1> DEFINE c == LegChain(terms[i], l)
           foreign == deployment[c].leg_kind = "IkaForeign"
           message == IF foreign THEN LegMessage(i, l) ELSE Zero
           account == IF foreign THEN ApprovalAccount(accounts[ChainPda(c)], message) ELSE Zero
           digest == IF foreign THEN LegDigest(terms[i], i, l) ELSE Zero
           approval == IF foreign THEN LegApproval(terms[i], i, l) ELSE Zero
           fs == ExecutedFields(leg_offset(l), LEG_STATUS[leg_status'[<<i, l>>]], digest, approval, now,
                                STATUS[status'[i]], foreign)
<1>1. /\ accounts' = [accounts EXCEPT
           ![IntentPda(i)] = Write(@, LegBytes(i, l, foreign, message, account)),
           ![ChainPda(c)] = Write(@, {<<chain.AUTHORIZED, 8, authorized'[c]>>}),
           ![AssetPda] = Write(@, {<<asset.AUTHORIZED_TOTAL, 8, authorized_total'>>})]
      /\ asked' = asked /\ (ExecuteNativeLeg(s, i, l) \/ ExecuteForeignLeg(s, i, l))
  <2>1. ExecutionOf(s, i, l) /\ (ExecuteNativeLeg(s, i, l) \/ ExecuteForeignLeg(s, i, l))
    BY ExecuteLegIxIs
  <2> QED BY <2>1 DEF ExecutionOf
<1>2. c \in ChainIds /\ Registered(c) /\ Created(i) /\ leg_status[<<i, l>>] = "Pending"
  BY <1>1, ExecutionFacts DEF ExecutionDecided
<1>3. message = digest /\ account = approval
  BY <1>2, LegMessageIs
<1>4. LegBytes(i, l, foreign, message, account) = fs
  <2>1. LegBytes(i, l, foreign, digest, approval) = fs
    <3> HIDE DEF digest, approval, foreign
    <3> QED BY LegBytesAre
  <2> HIDE DEF message, account, digest, approval, foreign, fs
  <2> QED BY <1>3, <2>1
<1>5. chain.AUTHORIZED = 237 /\ asset.AUTHORIZED_TOTAL = 118
  BY DEF chain, asset
<1>6. /\ IntentPda(i) \in DOMAIN accounts /\ ChainPda(c) \in DOMAIN accounts /\ AssetPda \in DOMAIN accounts
      /\ IntentPda(i) # ChainPda(c) /\ IntentPda(i) # AssetPda /\ ChainPda(c) # AssetPda
  <2>1. Initialized
    BY <1>2 DEF BookInv, IInv, IntentInv
  <2>2. c \in Nat
    BY <1>2, ConstantFacts
  <2> QED BY <1>2, <2>1, <2>2, IntentIdsAreNumbers, PdaFacts DEF MirrorInv, DomainInv
<1> DEFINE it == IntentPda(i)
           ch == ChainPda(c)
           new1 == Write(accounts[it], fs)
           new2 == Write(accounts[ch], {<<237, 8, authorized'[c]>>})
           new3 == Write(accounts[AssetPda], {<<118, 8, authorized_total'>>})
<1>7. accounts' = [accounts EXCEPT ![it] = new1, ![ch] = new2, ![AssetPda] = new3]
  <2> DEFINE bytes == LegBytes(i, l, foreign, message, account)
  <2>1. accounts' = [accounts EXCEPT ![it] = Write(@, bytes),
           ![ch] = Write(@, {<<chain.AUTHORIZED, 8, authorized'[c]>>}),
           ![AssetPda] = Write(@, {<<asset.AUTHORIZED_TOTAL, 8, authorized_total'>>})]
    BY <1>1
  <2>2. bytes = fs
    BY <1>4
  <2> HIDE DEF bytes, fs, it, ch, c
  <2> QED BY <1>5, <1>6, <2>1, <2>2 DEF it, ch
<1> HIDE DEF new1, new2, new3
<1>8. /\ accounts'[it] = new1 /\ accounts'[ch] = new2 /\ accounts'[AssetPda] = new3
      /\ DOMAIN accounts' = DOMAIN accounts
      /\ \A a : a # it /\ a # ch /\ a # AssetPda => Kept(accounts, accounts', a)
  <2> HIDE DEF c, it, ch
  <2> QED BY <1>6, <1>7 DEF Kept, it, ch
<1> HIDE DEF fs
<1> QED BY <1>1, <1>8 DEF new1, new2, new3, fs, digest, approval, ExecutionWritten

\* The accounts after ExecuteLeg: the leg and the intent's status, the chain's supply, the asset's total.
LEMMA ExecuteLegMirror ==
  ASSUME MirrorInv, BookInv, BookInv', NEW s \in Keys, NEW i \in IntentIds, NEW l \in LegIds, ExecuteLegIx(s, i, l)
  PROVE  MirrorInv'
<1>0. PICK c : c = LegChain(terms[i], l)
  OBVIOUS
<1>00. PICK foreign \in BOOLEAN : foreign = (deployment[c].leg_kind = "IkaForeign")
  OBVIOUS
<1> DEFINE pda == IntentPda(i)
           lo == leg_offset(l)
           digest == IF foreign THEN LegDigest(terms[i], i, l) ELSE Zero
           account == IF foreign THEN LegApproval(terms[i], i, l) ELSE Zero
           fs == ExecutedFields(lo, LEG_STATUS[leg_status'[<<i, l>>]], digest, account, now, STATUS[status'[i]], foreign)
           new == Write(accounts[pda], fs)
<1>1. /\ accounts'[pda] = new
      /\ accounts'[ChainPda(c)] = Write(accounts[ChainPda(c)], {<<237, 8, authorized'[c]>>})
      /\ accounts'[AssetPda] = Write(accounts[AssetPda], {<<118, 8, authorized_total'>>})
      /\ DOMAIN accounts' = DOMAIN accounts
      /\ \A a : a # pda /\ a # ChainPda(c) /\ a # AssetPda => Kept(accounts, accounts', a)
      /\ asked' = asked
  <2>1. ExecutionWritten(i, l, c, foreign)
    BY <1>0, <1>00, ExecutionWrites
  <2> QED BY <2>1 DEF ExecutionWritten
<1>2. /\ c \in ChainIds /\ Registered(c) /\ Created(i)
      /\ leg_status[<<i, l>>] = "Pending" /\ status[i] \in {"Approved", "Executing"}
      /\ leg_status' = [leg_status EXCEPT ![<<i, l>>] = IF foreign THEN "Authorized" ELSE "Confirmed"]
      /\ executed_at' = [executed_at EXCEPT ![<<i, l>>] = now]
      /\ status' = [status EXCEPT ![i] = IF AllConfirmed(leg_status', i) THEN "Executed" ELSE "Executing"]
      /\ \A d \in ChainIds : d # c => authorized'[d] = authorized[d]
      /\ UNCHANGED <<config, chain_count, intent_count, deployment, terms, approvals,
                     approval_count, approved_at, now>>
  <2>1. ExecutionDecided(i, l, c, foreign)
    BY <1>0, <1>00, ExecuteLegIxIs, ExecutionFacts
  <2> QED BY <2>1 DEF ExecutionDecided
<1>3. /\ status \in [IntentIds -> Statuses] /\ now \in Nat /\ leg_status \in [Legs -> LegStatuses]
      /\ executed_at \in [Legs -> 0 .. TimeBound] /\ <<i, l>> \in Legs
  BY SMTT(30), ConstantFacts, IndexFacts DEF BookInv, IInv, TypeOK
<1>4. status'[i] \in {"Executing", "Executed"}
  BY <1>2, <1>3
<1>5. /\ leg_status'[<<i, l>>] = (IF foreign THEN "Authorized" ELSE "Confirmed") /\ executed_at'[<<i, l>>] = now
      /\ \A j \in IntentIds, m \in LegIds : <<j, m>> # <<i, l>> =>
           leg_status'[<<j, m>>] = leg_status[<<j, m>>] /\ executed_at'[<<j, m>>] = executed_at[<<j, m>>]
      /\ \A j \in IntentIds : j # i => status'[j] = status[j]
  BY <1>2, <1>3, IndexFacts
<1>6. \A a : Kept(asked, asked', a)
  BY <1>1 DEF Kept
<1>7. PICK created \in 0 .. approved_at[i] : IntentFixed(accounts[pda], IntentAsked(terms[i]), terms[i], i, created)
  BY <1>2 DEF MirrorInv, IntentMirror
<1>8. LegMoved(accounts[pda], lo, LEG_STATUS[leg_status[<<i, l>>]], IF Committed(i, l) THEN LegDigest(terms[i], i, l) ELSE Zero,
               IF Committed(i, l) THEN LegApproval(terms[i], i, l) ELSE Zero, ReportedTx(i, l), executed_at[<<i, l>>], 0)
  BY <1>2 DEF MirrorInv, LegMirror
<1>9. IntentMoved(accounts[pda], STATUS[status[i]], Bitmap(approvals[i]), approval_count[i], approved_at[i])
  BY <1>2 DEF MirrorInv, IntentMirror
<1>10. lo \in {270, 419}
  BY LegOffsets
<1> HIDE DEF digest, account
<1>11. /\ IntentFixed(new, IntentAsked(terms[i]), terms[i], i, created)
       /\ IntentMoved(new, STATUS[status'[i]], Bitmap(approvals[i]), approval_count[i], approved_at[i])
       /\ LegMoved(new, lo, LEG_STATUS[leg_status'[<<i, l>>]], digest, account, ReportedTx(i, l), now,
                   IF foreign THEN 0 ELSE now)
       /\ Keeps(accounts[pda], new, fs)
       /\ \A g \in fs, other \in {270, 419} \ {lo} : g[1] \notin LegMoving(other)
  <2> HIDE DEF lo
  <2> QED BY <1>7, <1>8, <1>9, <1>10, LegExecuted
<1> HIDE DEF fs, new
<1>12. IntentMirror(i)'
  <2>1. created \in 0 .. IF status'[i] = "PendingApproval" THEN now' ELSE approved_at'[i]
    BY <1>2, <1>4, <1>7
  <2>2. IntentFixed(accounts'[pda], IntentAsked(terms'[i]), terms'[i], i, created)
    BY <1>1, <1>2, <1>11
  <2>3. IntentMoved(accounts'[pda], STATUS[status'[i]], Bitmap(approvals'[i]), approval_count'[i], approved_at'[i])
    BY <1>1, <1>2, <1>11
  <2>4. AskedFor(pda, IntentAsked(terms[i]))'
    BY <1>1, <1>2 DEF MirrorInv, IntentMirror, AskedFor
  <2> QED BY <2>1, <2>2, <2>3, <2>4 DEF IntentMirror
<1>13. LegMirror(i, l)'
  <2>1. Committed(i, l)' = foreign
    BY <1>0, <1>00, <1>2, <1>5 DEF Committed, Executed
  <2>2. /\ (IF Committed(i, l) THEN LegDigest(terms[i], i, l) ELSE Zero)' = digest
        /\ (IF Committed(i, l) THEN LegApproval(terms[i], i, l) ELSE Zero)' = account
    BY <1>2, <2>1 DEF digest, account
  <2>3. ReportedTx(i, l)' = ReportedTx(i, l)
    BY <1>1 DEF ReportedTx
  <2>4. LegMoved(accounts'[pda], lo, LEG_STATUS[leg_status'[<<i, l>>]],
                 (IF Committed(i, l) THEN LegDigest(terms[i], i, l) ELSE Zero)',
                 (IF Committed(i, l) THEN LegApproval(terms[i], i, l) ELSE Zero)',
                 ReportedTx(i, l)', executed_at'[<<i, l>>], IF foreign THEN 0 ELSE now)
    BY <1>1, <1>5, <1>11, <2>2, <2>3
  <2>5. executed_at'[<<i, l>>] <= now'
    BY <1>2, <1>3, <1>5
  <2>6. CASE foreign
    <3>1. leg_status'[<<i, l>>] # "Confirmed"
      BY <1>5, <2>6
    <3> QED BY <2>4, <2>5, <2>6, <3>1 DEF LegMirror
  <2>7. CASE ~foreign
    <3>1. leg_status'[<<i, l>>] = "Confirmed" /\ now \in executed_at'[<<i, l>>] .. now' /\ now \in Int
      BY <1>2, <1>3, <1>5, <2>7
    <3> QED BY <2>4, <2>5, <2>7, <3>1 DEF LegMirror
  <2> QED BY <2>6, <2>7
<1>14. \A j \in IntentIds, m \in LegIds : <<j, m>> # <<i, l>> => SameLeg(j, m)
  <2> SUFFICES ASSUME NEW j \in IntentIds, NEW m \in LegIds, <<j, m>> # <<i, l>> PROVE SameLeg(j, m)
    OBVIOUS
  <2> QED BY <1>1, <1>2, <1>5, <1>6 DEF SameLeg
<1>15. ASSUME NEW m \in LegIds, m # l PROVE LegMirror(i, m)'
  <2>1. leg_offset(m) \in {270, 419} \ {lo}
    BY <1>15, LegOffsets
  <2>2. \A g \in fs : g[1] \notin LegMoving(leg_offset(m))
    BY <1>11, <2>1
  <2>3. LegMirror(i, m) /\ Keeps(accounts[pda], accounts'[pda], fs) /\ SameLeg(i, m)
    BY <1>1, <1>11, <1>14, <1>15 DEF MirrorInv
  <2> HIDE DEF pda
  <2> QED BY <1>2, <2>2, <2>3, LegBeside DEF pda
<1>16. ASSUME NEW j \in IntentIds, j # i
       PROVE  IntentMirror(j)' /\ \A m \in LegIds : LegMirror(j, m)'
  <2>1. Kept(accounts, accounts', IntentPda(j))
    BY <1>1, <1>16, PdaFacts
  <2>2. UntouchedIntent(j) /\ \A m \in LegIds : UntouchedLeg(j, m)
    BY <1>2, <1>5, <1>6, <1>14, <1>16, <2>1 DEF UntouchedIntent, UntouchedLeg
  <2>3. now <= now'
    BY <1>2, <1>3
  <2> QED BY <1>2, <2>2, <2>3, IntentStays, LegStays
<1>17. AssetMirror'
  <2>1. Initialized
    BY <1>2 DEF BookInv, IInv, IntentInv
  <2>2. AssetHeld(accounts'[AssetPda], AssetAsked(config), chain_count, authorized_total', intent_count)
    <3>1. AssetHeld(Write(accounts[AssetPda], {<<118, 8, authorized_total'>>}), AssetAsked(config), chain_count,
                    authorized_total', intent_count)
      BY <2>1, AssetFacts, AssetCounts
    <3> QED BY <1>1, <3>1
  <2> QED BY <1>1, <1>2, <2>1, <2>2 DEF MirrorInv, AssetMirror, AskedFor, Initialized
<1>18. \A d \in ChainIds : ChainMirror(d)'
  <2>1. ChainMirror(c)'
    <3>1. ChainHeld(accounts[ChainPda(c)], ChainAsked(c, deployment[c]), authorized[c])
          /\ Len(ChainAsked(c, deployment[c]).allowlist) \in 0 .. 4
      BY <1>2, ChainReads DEF MirrorInv
    <3>2. ChainHeld(accounts'[ChainPda(c)], ChainAsked(c, deployment[c]), authorized'[c])
      BY <1>1, <3>1, ChainWritten
    <3> QED BY <1>1, <1>2, <3>2 DEF MirrorInv, ChainMirror, AskedFor, Registered
  <2>2. ASSUME NEW d \in ChainIds, d # c PROVE ChainMirror(d)'
    <3>1. Kept(accounts, accounts', ChainPda(d))
      BY <1>1, <2>2, PdaFacts
    <3> QED BY <1>2, <1>6, <2>2, <3>1, ChainFrame DEF MirrorInv
  <2> QED BY <2>1, <2>2
<1>19. DomainInv' /\ FreshInv'
  <2>1. \A j \in IntentIds : Created(j)' <=> Created(j)
    BY <1>2, <1>4, <1>5 DEF Created
  <2>2. Initialized
    BY <1>2 DEF BookInv, IInv, IntentInv
  <2>3. DomainInv'
    BY <1>1, <1>2, <2>1 DEF MirrorInv, DomainInv, Initialized, Registered
  <2>4. FreshInv'
    <3>1. \A j \in IntentIds : ~Created(j) => j # i
      BY <1>2
    <3>2. \A j \in IntentIds, m \in LegIds : j # i => executed_at'[<<j, m>>] = executed_at[<<j, m>>]
      BY <1>5
    <3> QED BY <1>1, <1>2, <2>1, <2>2, <3>1, <3>2 DEF MirrorInv, FreshInv, Initialized
  <2> QED BY <2>3, <2>4
<1> QED BY <1>12, <1>13, <1>15, <1>16, <1>17, <1>18, <1>19 DEF MirrorInv

\* Every step keeps the invariant.
LEMMA BytesStepMirror ==
  ASSUME MirrorInv, BookInv, BookInv', [BytesNext]_accountVars
  PROVE  MirrorInv'
<1>0. now \in Nat
  BY ConstantFacts DEF BookInv, IInv, TypeOK
<1>1. CASE \E cfg \in AssetConfigs : InitAssetIx(cfg)
  BY <1>1, InitAssetMirror
<1>2. CASE \E s \in Keys, c \in ChainIds : \E k \in ChainConfigs[c] : AddChainIx(s, c, k)
  BY <1>2, AddChainMirror
<1>3. CASE \E t \in Proposals : CreateIntentIx(t)
  BY <1>3, CreateIntentMirror
<1>4. CASE \E k \in Keys, i \in IntentIds : ApproveIntentIx(k, i)
  BY <1>4, ApproveIntentMirror
<1>5. CASE \E s \in Keys, i \in IntentIds, l \in LegIds : ExecuteLegIx(s, i, l)
  BY <1>5, ExecuteLegMirror
<1>6. CASE \E s \in Keys, i \in IntentIds, l \in LegIds : ConfirmLegIx(s, i, l)
  BY <1>6, ConfirmLegMirror
<1>7. CASE Tick /\ UNCHANGED byteVars
  <2>1. UNCHANGED <<ledgerVars, byteVars>> /\ now <= now'
    BY <1>0, <1>7 DEF Tick
  <2> QED BY <2>1, QuietStepMirror
<1>8. CASE \E c \in ChainIds, x \in Amounts : HolderReturns(c, x) /\ UNCHANGED byteVars
  <2>1. UNCHANGED <<ledgerVars, byteVars>> /\ now <= now'
    BY <1>0, <1>8 DEF HolderReturns
  <2> QED BY <2>1, QuietStepMirror
<1>9. CASE UNCHANGED accountVars
  <2>1. UNCHANGED <<ledgerVars, byteVars>> /\ now <= now'
    BY <1>0, <1>9 DEF accountVars, vars
  <2> QED BY <2>1, QuietStepMirror
<1> QED BY <1>1, <1>2, <1>3, <1>4, <1>5, <1>6, <1>7, <1>8, <1>9 DEF BytesNext

\* In every state the accounts stand for the ledger, and the ledger is in order.
LEMMA SpecMirror == BytesSpec => [](BookInv /\ MirrorInv)
<1>1. Init => AuthorizationInv
  BY InitAuthorizationInv
<1>2. IInv /\ AuthorizationInv /\ [Next]_vars => AuthorizationInv'
  BY NextAuthorizationInv
<1>3. Spec => []BookInv
  BY <1>1, <1>2, SpecIInv, StatusMatchesLegsHolds, PTL DEF Spec, BookInv
<1>4. BytesInit => MirrorInv
  BY InitMirror
<1>5. MirrorInv /\ BookInv /\ BookInv' /\ [BytesNext]_accountVars => MirrorInv'
  BY BytesStepMirror
<1> QED BY <1>3, <1>4, <1>5, BytesImplementLedger, PTL DEF BytesSpec

-----------------------------------------------------------------------------
(* What the SDK's readers make of the bytes.                                 *)

\* The SDK's reader of the asset, on any account that holds what was asked for.
LEMMA AssetDecoded ==
  ASSUME NEW mem, NEW x, NEW chains, NEW total, NEW intents, AssetHeld(mem, x, chains, total, intents),
         Len(x.approvers) \in Nat, x.approvers = [n \in 1 .. Len(x.approvers) |-> x.approvers[n]]
  PROVE  LET a == decodeAsset(mem) IN
         /\ a.createKey = x.create_key /\ a.admin = Admin /\ a.executor = x.executor /\ a.symbol = x.symbol
         /\ a.decimals = x.decimals /\ a.threshold = x.threshold /\ a.approvers = x.approvers
         /\ a.chainCount = chains /\ a.globalCap = x.global_cap /\ a.authorizedTotal = total
         /\ a.intentCount = intents /\ a.timelockSecs = x.timelock_secs /\ a.bump = x.bump
         /\ a.mintAuthorityBump = x.mint_authority_bump /\ a.ikaProgram = x.ika_program
<1> DEFINE a == decodeAsset(mem)
<1>1. /\ ASSET.CREATE_KEY = 2 /\ ASSET.ADMIN = 34 /\ ASSET.EXECUTOR = 66 /\ ASSET.SYMBOL = 98 /\ ASSET.DECIMALS = 106
      /\ ASSET.THRESHOLD = 107 /\ ASSET.APPROVER_COUNT = 108 /\ ASSET.CHAIN_COUNT = 109 /\ ASSET.GLOBAL_CAP = 110
      /\ ASSET.AUTHORIZED_TOTAL = 118 /\ ASSET.INTENT_COUNT = 126 /\ ASSET.TIMELOCK_SECS = 134
      /\ ASSET.APPROVERS = 142 /\ ASSET.BUMP = 302 /\ ASSET.MINT_AUTHORITY_BUMP = 303 /\ ASSET.IKA_PROGRAM = 304
  BY DEF ASSET
<1>2. /\ a.createKey = Read32(mem, ASSET.CREATE_KEY) /\ a.admin = Read32(mem, ASSET.ADMIN)
      /\ a.executor = Read32(mem, ASSET.EXECUTOR) /\ a.symbol = ReadInt(mem, ASSET.SYMBOL, 8)
      /\ a.decimals = ReadInt(mem, ASSET.DECIMALS, 1) /\ a.threshold = ReadInt(mem, ASSET.THRESHOLD, 1)
      /\ a.approvers = [n \in 1 .. ReadInt(mem, ASSET.APPROVER_COUNT, 1) |-> Read32(mem, ASSET.APPROVERS + 32 * (n - 1))]
  BY DEF decodeAsset
<1>3. /\ a.chainCount = ReadInt(mem, ASSET.CHAIN_COUNT, 1) /\ a.globalCap = ReadInt(mem, ASSET.GLOBAL_CAP, 8)
      /\ a.authorizedTotal = ReadInt(mem, ASSET.AUTHORIZED_TOTAL, 8)
      /\ a.intentCount = ReadInt(mem, ASSET.INTENT_COUNT, 8) /\ a.timelockSecs = ReadInt(mem, ASSET.TIMELOCK_SECS, 8)
      /\ a.bump = ReadInt(mem, ASSET.BUMP, 1) /\ a.mintAuthorityBump = ReadInt(mem, ASSET.MINT_AUTHORITY_BUMP, 1)
      /\ a.ikaProgram = Read32(mem, ASSET.IKA_PROGRAM)
  BY DEF decodeAsset
<1> HIDE DEF a
<1>4. /\ a.createKey = x.create_key /\ a.admin = Admin /\ a.executor = x.executor /\ a.symbol = x.symbol
      /\ a.decimals = x.decimals /\ a.threshold = x.threshold
  BY <1>1, <1>2 DEF AssetHeld, Read32, ReadInt
<1>5. /\ a.chainCount = chains /\ a.globalCap = x.global_cap /\ a.authorizedTotal = total
      /\ a.intentCount = intents /\ a.timelockSecs = x.timelock_secs /\ a.bump = x.bump
      /\ a.mintAuthorityBump = x.mint_authority_bump /\ a.ikaProgram = x.ika_program
  BY <1>1, <1>3 DEF AssetHeld, Read32, ReadInt
<1>6. a.approvers = x.approvers
  <2>1. /\ Read(mem, 108, 1, 0) = Len(x.approvers)
        /\ \A n \in 1 .. Len(x.approvers) : Read(mem, 142 + 32 * (n - 1), 32, Zero) = x.approvers[n]
    BY DEF AssetHeld
  <2>2. a.approvers = [n \in 1 .. Len(x.approvers) |-> Read(mem, 142 + 32 * (n - 1), 32, Zero)]
    BY <1>1, <1>2, <2>1 DEF Read32, ReadInt
  <2> QED BY <2>1, <2>2
<1> QED BY <1>4, <1>5, <1>6 DEF a

\* What the SDK makes of the asset's account.
LEMMA AssetIsDecoded ==
  ASSUME MirrorInv, BookInv, Initialized
  PROVE  LET a == fetchAsset
             x == AssetAsked(config)
         IN /\ a.createKey = x.create_key /\ a.admin = Admin /\ a.executor = Executor /\ a.symbol = x.symbol
            /\ a.decimals = x.decimals /\ a.threshold = config.threshold /\ a.approvers = config.approvers
            /\ a.chainCount = chain_count /\ a.globalCap = config.global_cap /\ a.authorizedTotal = authorized_total
            /\ a.intentCount = intent_count /\ a.timelockSecs = config.timelock_secs /\ a.bump = x.bump
            /\ a.mintAuthorityBump = x.mint_authority_bump /\ a.ikaProgram = x.ika_program
<1> DEFINE x == AssetAsked(config)
<1>1. /\ x.executor = Executor /\ x.threshold = config.threshold /\ x.approvers = config.approvers
      /\ x.global_cap = config.global_cap /\ x.timelock_secs = config.timelock_secs
  BY DEF AssetAsked
<1>2. AssetHeld(accounts[AssetPda], x, chain_count, authorized_total, intent_count)
  BY AssetFacts
<1>3. config.approvers \in Seq(Keys)
  BY ConfigAssumption DEF BookInv, IInv, TypeOK, Initialized, ConfigAssumption, AssetConfig
<1> HIDE DEF x
<1>4. Len(x.approvers) \in Nat /\ x.approvers = [n \in 1 .. Len(x.approvers) |-> x.approvers[n]]
  BY <1>1, <1>3
<1> QED BY <1>1, <1>2, <1>4, AssetDecoded DEF fetchAsset, x

\* It is the ledger's configuration and counters.
LEMMA AssetReadBack ==
  ASSUME MirrorInv, BookInv, Initialized
  PROVE  AssetIsRead(fetchAsset)
<1> DEFINE a == fetchAsset
<1>1. /\ a.threshold = config.threshold /\ a.approvers = config.approvers /\ a.admin = Admin /\ a.executor = Executor
      /\ a.chainCount = chain_count /\ a.globalCap = config.global_cap /\ a.authorizedTotal = authorized_total
      /\ a.intentCount = intent_count /\ a.timelockSecs = config.timelock_secs
  BY AssetIsDecoded
<1> HIDE DEF a
<1>2. config.threshold \in 1 .. Len(config.approvers)
  BY DEF MirrorInv, AssetMirror
<1>3. config.global_cap \in 0 .. U64Max /\ config.timelock_secs \in 0 .. U64Max
  BY ConstantFacts, ConfigAssumption DEF BookInv, IInv, TypeOK, Initialized, ConfigAssumption, AssetConfig
<1>4. authorized_total \in 0 .. U64Max /\ intent_count \in 0 .. U64Max
  BY ConstantFacts DEF BookInv, IInv, TypeOK
<1>5. IsAsset(a)
  BY <1>1, <1>2, <1>3, <1>4 DEF IsAsset
<1> QED BY <1>1, <1>5 DEF AssetIsRead, a

\* The SDK's reader of a chain, on any account that holds what was asked for.
LEMMA ChainDecoded ==
  ASSUME NEW mem, NEW x, NEW total, ChainHeld(mem, x, total), Len(x.allowlist) \in Nat,
         x.allowlist = [n \in 1 .. Len(x.allowlist) |-> x.allowlist[n]]
  PROVE  LET d == decodeChain(mem) IN
         /\ d.asset = AssetPda /\ d.chainId = x.chain_id /\ d.legKind = LEG_KIND[x.leg_kind] /\ d.encoding = x.encoding
         /\ d.curve = x.curve /\ d.signatureScheme = x.scheme /\ d.dwallet = x.dwallet
         /\ d.dwalletPubkey = x.dwallet_pubkey /\ d.bump = x.bump /\ d.contract = x.contract
         /\ d.domainSeparator = x.domain /\ d.authorized = total /\ d.cap = x.cap /\ d.allowlist = x.allowlist
<1> DEFINE d == decodeChain(mem)
<1>1. /\ CHAIN.ASSET = 2 /\ CHAIN.CHAIN_ID = 34 /\ CHAIN.LEG_KIND = 36 /\ CHAIN.ENCODING = 37 /\ CHAIN.CURVE = 38
      /\ CHAIN.SIGNATURE_SCHEME = 40 /\ CHAIN.DWALLET = 42 /\ CHAIN.DWALLET_PUBKEY_LEN = 74 /\ CHAIN.DWALLET_PUBKEY = 75
      /\ CHAIN.CONTRACT = 140 /\ CHAIN.DOMAIN_SEPARATOR = 205 /\ CHAIN.AUTHORIZED = 237 /\ CHAIN.CAP = 245
      /\ CHAIN.ALLOWLIST_COUNT = 253 /\ CHAIN.ALLOWLIST = 254 /\ CHAIN.BUMP = 514 /\ ADDR_LEN = 65
  BY DEF CHAIN, ADDR_LEN
<1>2. /\ d.asset = Read32(mem, CHAIN.ASSET) /\ d.chainId = ReadInt(mem, CHAIN.CHAIN_ID, 2)
      /\ d.legKind = ReadInt(mem, CHAIN.LEG_KIND, 1) /\ d.encoding = ReadInt(mem, CHAIN.ENCODING, 1)
      /\ d.curve = ReadInt(mem, CHAIN.CURVE, 2) /\ d.signatureScheme = ReadInt(mem, CHAIN.SIGNATURE_SCHEME, 2)
      /\ d.dwallet = Read32(mem, CHAIN.DWALLET)
  BY DEF decodeChain
<1>3. /\ d.dwalletPubkey = (IF ReadInt(mem, CHAIN.DWALLET_PUBKEY_LEN, 1) = 0 THEN Zero
                            ELSE Read(mem, CHAIN.DWALLET_PUBKEY, 65, Zero))
      /\ d.bump = ReadInt(mem, CHAIN.BUMP, 1) /\ d.contract = ReadAddr(mem, CHAIN.CONTRACT)
      /\ d.domainSeparator = Read32(mem, CHAIN.DOMAIN_SEPARATOR) /\ d.authorized = ReadInt(mem, CHAIN.AUTHORIZED, 8)
      /\ d.cap = ReadInt(mem, CHAIN.CAP, 8)
      /\ d.allowlist = [n \in 1 .. ReadInt(mem, CHAIN.ALLOWLIST_COUNT, 1) |-> ReadAddr(mem, CHAIN.ALLOWLIST + ADDR_LEN * (n - 1))]
  BY DEF decodeChain
<1> HIDE DEF d
<1>4. /\ d.asset = AssetPda /\ d.chainId = x.chain_id /\ d.legKind = LEG_KIND[x.leg_kind] /\ d.encoding = x.encoding
      /\ d.curve = x.curve /\ d.signatureScheme = x.scheme /\ d.dwallet = x.dwallet
  BY <1>1, <1>2 DEF ChainHeld, Read32, ReadInt
<1>5. /\ d.bump = x.bump /\ d.domainSeparator = x.domain /\ d.authorized = total /\ d.cap = x.cap
  BY <1>1, <1>3 DEF ChainHeld, Read32, ReadInt
<1>6. d.dwalletPubkey = x.dwallet_pubkey
  <2>1. /\ Read(mem, 74, 1, 0) = PublicKeyLen(x.dwallet_pubkey, x.curve) /\ Read(mem, 75, 65, Zero) = x.dwallet_pubkey
    BY DEF ChainHeld
  <2>2. PublicKeyLen(x.dwallet_pubkey, x.curve) = 0 <=> x.dwallet_pubkey = Zero
    BY DEF PublicKeyLen
  <2> QED BY <1>1, <1>3, <2>1, <2>2 DEF ReadInt
<1>7. d.contract = x.contract
  <2>1. Read(mem, 140, 1, 0) = ByteLen(x.contract) /\ Read(mem, 141, 64, NoAccount) = x.contract
    BY DEF ChainHeld
  <2>2. 140 \in Int /\ 140 + 1 = 141
    OBVIOUS
  <2>3. ReadAddr(mem, 140) = x.contract
    BY <2>1, <2>2, AddrRead
  <2> QED BY <1>1, <1>3, <2>3
<1>8. d.allowlist = x.allowlist
  <2>1. Read(mem, 253, 1, 0) = Len(x.allowlist)
    BY DEF ChainHeld
  <2>2. ASSUME NEW n \in 1 .. Len(x.allowlist) PROVE ReadAddr(mem, 254 + 65 * (n - 1)) = x.allowlist[n]
    <3>1. /\ Read(mem, 254 + 65 * (n - 1), 1, 0) = ByteLen(x.allowlist[n])
          /\ Read(mem, 254 + 65 * (n - 1) + 1, 64, NoAccount) = x.allowlist[n]
      BY DEF ChainHeld
    <3>2. 254 + 65 * (n - 1) \in Int
      OBVIOUS
    <3> QED BY <3>1, <3>2, AddrRead
  <2>3. d.allowlist = [n \in 1 .. Len(x.allowlist) |-> ReadAddr(mem, 254 + 65 * (n - 1))]
    BY <1>1, <1>3, <2>1 DEF ReadInt
  <2> QED BY <2>2, <2>3
<1> QED BY <1>4, <1>5, <1>6, <1>7, <1>8 DEF d

\* What the SDK makes of a chain's account.
LEMMA ChainIsDecoded ==
  ASSUME MirrorInv, BookInv, NEW c \in ChainIds, Registered(c)
  PROVE  LET d == decodeChain(accounts[ChainPda(c)])
             x == ChainAsked(c, deployment[c])
         IN /\ d.asset = AssetPda /\ d.chainId = c /\ d.legKind = LegKind[deployment[c].leg_kind]
            /\ d.encoding = CHAINS[c].encoding /\ d.curve = CHAINS[c].curve /\ d.signatureScheme = CHAINS[c].scheme
            /\ d.dwallet = x.dwallet /\ d.dwalletPubkey = x.dwallet_pubkey /\ d.bump = x.bump /\ d.contract = x.contract
            /\ d.domainSeparator = <<"domain", c>> /\ d.authorized = authorized[c] /\ d.cap = deployment[c].cap
            /\ d.allowlist = x.allowlist
            /\ {d.allowlist[n] : n \in DOMAIN d.allowlist} = deployment[c].allowlist
            /\ deployment[c].leg_kind = "IkaForeign" => d.dwalletPubkey = <<"key", CHAINS[c].curve>>
<1> DEFINE mem == accounts[ChainPda(c)]
           d == decodeChain(mem)
           x == ChainAsked(c, deployment[c])
<1>1. /\ ChainHeld(mem, x, authorized[c]) /\ Len(x.allowlist) \in 0 .. 4
      /\ {x.allowlist[n] : n \in 1 .. Len(x.allowlist)} = deployment[c].allowlist
  BY ChainReads DEF MirrorInv
<1>2. /\ x.chain_id = c /\ x.leg_kind = deployment[c].leg_kind /\ x.encoding = CHAINS[c].encoding
      /\ x.curve = CHAINS[c].curve /\ x.scheme = CHAINS[c].scheme /\ x.domain = <<"domain", c>>
      /\ x.cap = deployment[c].cap
      /\ deployment[c].leg_kind = "IkaForeign" => x.dwallet_pubkey = <<"key", CHAINS[c].curve>>
  BY DEF ChainAsked
<1>3. DOMAIN x.allowlist = 1 .. Len(x.allowlist) /\ x.allowlist = [n \in 1 .. Len(x.allowlist) |-> x.allowlist[n]]
  <2> DEFINE q == SQX!SetToSeq(deployment[c].allowlist)
  <2>1. IsFiniteSet(deployment[c].allowlist)
    BY DEF MirrorInv, ChainMirror
  <2>2. x.allowlist = q
    BY DEF ChainAsked
  <2>3. DOMAIN q = 1 .. Len(q) /\ q = [n \in 1 .. Len(q) |-> q[n]]
    BY <2>1, ListOfSet
  <2> HIDE DEF q, x
  <2> QED BY <2>2, <2>3
<1>4. LEG_KIND[x.leg_kind] = LegKind[x.leg_kind]
  BY DEF LEG_KIND, LegKind
<1> HIDE DEF d, x, mem
<1>5. /\ d.asset = AssetPda /\ d.chainId = x.chain_id /\ d.legKind = LEG_KIND[x.leg_kind] /\ d.encoding = x.encoding
      /\ d.curve = x.curve /\ d.signatureScheme = x.scheme /\ d.dwallet = x.dwallet
      /\ d.dwalletPubkey = x.dwallet_pubkey /\ d.bump = x.bump /\ d.contract = x.contract
      /\ d.domainSeparator = x.domain /\ d.authorized = authorized[c] /\ d.cap = x.cap /\ d.allowlist = x.allowlist
  BY <1>1, <1>3, ChainDecoded DEF d
<1>6. {d.allowlist[n] : n \in DOMAIN d.allowlist} = deployment[c].allowlist
  BY <1>1, <1>3, <1>5
<1> QED BY <1>2, <1>4, <1>5, <1>6 DEF d, x, mem

\* It is the chain the ledger decides on.
LEMMA ChainReadBack ==
  ASSUME MirrorInv, BookInv, NEW c \in ChainIds, Registered(c)
  PROVE  LET d == decodeChain(accounts[ChainPda(c)]) IN d.chainId = c /\ ChainIsRead(d)
<1> DEFINE d == decodeChain(accounts[ChainPda(c)])
<1>1. /\ d.asset = AssetPda /\ d.chainId = c /\ d.legKind = LegKind[deployment[c].leg_kind]
      /\ d.encoding = CHAINS[c].encoding /\ d.authorized = authorized[c] /\ d.cap = deployment[c].cap
      /\ {d.allowlist[n] : n \in DOMAIN d.allowlist} = deployment[c].allowlist
  BY ChainIsDecoded
<1> HIDE DEF d
<1>2. /\ deployment[c].leg_kind \in LegKinds /\ deployment[c].cap \in Nat /\ deployment[c].allowlist \subseteq Accounts
      /\ authorized[c] \in 0 .. deployment[c].cap
  BY ConstantFacts DEF BookInv, IInv, TypeOK, Deployment, ChainInv
<1>3. LegKind[deployment[c].leg_kind] \in 0 .. 1
  BY <1>2 DEF LegKinds, LegKind
<1>4. CHAINS[c].encoding \in 0 .. 1
  <2>1. c \in DOMAIN CHAINS
    BY AccountsAssumption DEF AccountsAssumption
  <2>2. \A k \in DOMAIN CHAINS : CHAINS[k].encoding \in 0 .. 1
    <3>1. DOMAIN CHAINS = {1, 2, 3, 4, 5}
      BY DEF CHAINS
    <3>2. /\ CHAINS[1].encoding = 0 /\ CHAINS[2].encoding = 1 /\ CHAINS[3].encoding = 1 /\ CHAINS[4].encoding = 0
          /\ CHAINS[5].encoding = 1
      BY DEF CHAINS
    <3> QED BY <3>1, <3>2
  <2> QED BY <2>1, <2>2
<1>5. IsChainDeployment(d)
  <2>1. \A n \in DOMAIN d.allowlist : d.allowlist[n] \in Accounts
    BY <1>1, <1>2
  <2> QED BY <1>1, <1>2, <1>3, <1>4, <2>1 DEF IsChainDeployment
<1> QED BY <1>1, <1>5 DEF ChainIsRead, d

\* How many legs an intent has.
LEMMA LegCount ==
  ASSUME NEW kind
  PROVE  Cardinality({l \in LegIds : HasLeg(kind, l)}) = IF kind = "Move" THEN 2 ELSE 1
<1>1. CASE kind = "Move"
  <2>1. {l \in LegIds : HasLeg(kind, l)} = {0} \cup {1}
    BY <1>1 DEF LegIds, HasLeg
  <2>2. IsFiniteSet({0}) /\ Cardinality({0}) = 1
    BY FS_Singleton
  <2>3. Cardinality({0} \cup {1}) = 1 + 1
    BY <2>2, FS_AddElement
  <2> QED BY <1>1, <2>1, <2>3
<1>2. CASE kind # "Move"
  <2>1. {l \in LegIds : HasLeg(kind, l)} = {0}
    BY <1>2 DEF LegIds, HasLeg
  <2> QED BY <1>2, <2>1, FS_Singleton
<1> QED BY <1>1, <1>2

\* The SDK's reader of a leg.
LEMMA LegDecoded ==
  ASSUME NEW mem, NEW lo \in {270, 419}, NEW code, NEW digest, NEW account, NEW tx, NEW executed, NEW confirmed,
         LegMoved(mem, lo, code, digest, account, tx, executed, confirmed)
  PROVE  LET d == decodeLeg(mem, lo) IN
         /\ d.action = Read(mem, lo, 1, 0) /\ d.chainId = Read(mem, lo + 1, 2, 0) /\ d.status = code
         /\ d.messageDigest = digest /\ d.messageApproval = account /\ d.destTx = tx
         /\ d.executedAt = executed /\ d.confirmedAt = confirmed
<1> DEFINE d == decodeLeg(mem, lo)
<1>1. /\ LEG.ACTION = 0 /\ LEG.CHAIN_ID = 1 /\ LEG.STATUS = 3 /\ LEG.MESSAGE_DIGEST = 4 /\ LEG.MESSAGE_APPROVAL = 36
      /\ LEG.DEST_TX = 68 /\ LEG.EXECUTED_AT = 133 /\ LEG.CONFIRMED_AT = 141
  BY DEF LEG
<1>2. /\ d.action = ReadInt(mem, lo + LEG.ACTION, 1) /\ d.chainId = ReadInt(mem, lo + LEG.CHAIN_ID, 2)
      /\ d.status = ReadInt(mem, lo + LEG.STATUS, 1) /\ d.messageDigest = Read32(mem, lo + LEG.MESSAGE_DIGEST)
      /\ d.messageApproval = Read32(mem, lo + LEG.MESSAGE_APPROVAL) /\ d.destTx = ReadAddr(mem, lo + LEG.DEST_TX)
      /\ d.executedAt = ReadInt(mem, lo + LEG.EXECUTED_AT, 8) /\ d.confirmedAt = ReadInt(mem, lo + LEG.CONFIRMED_AT, 8)
  BY DEF decodeLeg
<1> HIDE DEF d
<1>3. lo + 0 = lo /\ lo + 68 \in Int /\ lo + 68 + 1 = lo + 69
  OBVIOUS
<1>4. ReadAddr(mem, lo + 68) = tx
  BY <1>3, AddrRead DEF LegMoved
<1> QED BY <1>1, <1>2, <1>3, <1>4 DEF LegMoved, ReadInt, Read32, d

\* The SDK's reader of an intent.
LEMMA IntentDecoded ==
  ASSUME NEW mem, NEW t, NEW i, NEW created, IntentFixed(mem, IntentAsked(t), t, i, created),
         NEW code, NEW bitmap, NEW count, NEW approved, IntentMoved(mem, code, bitmap, count, approved)
  PROVE  LET d == decodeIntent(mem) IN
         /\ d.asset = AssetPda /\ d.index = i /\ d.kind = KIND[t.kind] /\ d.status = code /\ d.proposer = t.proposer
         /\ d.amount = t.amount /\ d.srcChain = t.src_chain /\ d.dstChain = t.dst_chain /\ d.recipient = t.recipient
         /\ d.source = t.source /\ d.memo = "memo" /\ d.createdAt = created /\ d.approvedAt = approved
         /\ d.approvalsBitmap = bitmap /\ d.approvalCount = count /\ d.bump = 252
         /\ d.legs = [n \in 1 .. (IF t.kind = "Move" THEN 2 ELSE 1) |-> decodeLeg(mem, 270 + 149 * (n - 1))]
<1> DEFINE d == decodeIntent(mem)
           x == IntentAsked(t)
<1>0. /\ x.kind = t.kind /\ x.amount = t.amount /\ x.src_chain = t.src_chain /\ x.dst_chain = t.dst_chain
      /\ x.recipient = t.recipient /\ x.source = t.source /\ x.memo = "memo" /\ x.bump = 252
  BY DEF IntentAsked
<1>1. /\ INTENT.ASSET = 2 /\ INTENT.INDEX = 34 /\ INTENT.KIND = 42 /\ INTENT.STATUS = 43 /\ INTENT.PROPOSER = 44
      /\ INTENT.AMOUNT = 76 /\ INTENT.SRC_CHAIN = 84 /\ INTENT.DST_CHAIN = 86 /\ INTENT.RECIPIENT = 88
      /\ INTENT.SOURCE = 153 /\ INTENT.MEMO = 218 /\ INTENT.CREATED_AT = 250 /\ INTENT.APPROVED_AT = 258
      /\ INTENT.APPROVALS_BITMAP = 266 /\ INTENT.APPROVAL_COUNT = 267 /\ INTENT.LEG_COUNT = 268 /\ INTENT.BUMP = 269
      /\ INTENT.LEGS = 270 /\ LEG.LEN = 149
  BY DEF INTENT, LEG
<1>2. /\ d.asset = Read32(mem, INTENT.ASSET) /\ d.index = ReadInt(mem, INTENT.INDEX, 8)
      /\ d.kind = ReadInt(mem, INTENT.KIND, 1) /\ d.status = ReadInt(mem, INTENT.STATUS, 1)
      /\ d.proposer = Read32(mem, INTENT.PROPOSER) /\ d.amount = ReadInt(mem, INTENT.AMOUNT, 8)
      /\ d.srcChain = ReadInt(mem, INTENT.SRC_CHAIN, 2) /\ d.dstChain = ReadInt(mem, INTENT.DST_CHAIN, 2)
  BY DEF decodeIntent
<1>3. /\ d.recipient = ReadAddr(mem, INTENT.RECIPIENT) /\ d.source = ReadAddr(mem, INTENT.SOURCE)
      /\ d.memo = ReadInt(mem, INTENT.MEMO, 32) /\ d.createdAt = ReadInt(mem, INTENT.CREATED_AT, 8)
      /\ d.approvedAt = ReadInt(mem, INTENT.APPROVED_AT, 8)
      /\ d.approvalsBitmap = ReadInt(mem, INTENT.APPROVALS_BITMAP, 1)
      /\ d.approvalCount = ReadInt(mem, INTENT.APPROVAL_COUNT, 1) /\ d.bump = ReadInt(mem, INTENT.BUMP, 1)
  BY DEF decodeIntent
<1>4. d.legs = [n \in 1 .. ReadInt(mem, INTENT.LEG_COUNT, 1) |-> decodeLeg(mem, INTENT.LEGS + LEG.LEN * (n - 1))]
  BY DEF decodeIntent
<1> HIDE DEF d, x
<1>5. /\ Read(mem, 2, 32, Zero) = AssetPda /\ Read(mem, 34, 8, 0) = i /\ Read(mem, 42, 1, 0) = KIND[x.kind]
      /\ Read(mem, 44, 32, Zero) = t.proposer /\ Read(mem, 76, 8, 0) = x.amount
      /\ Read(mem, 84, 2, 0) = x.src_chain /\ Read(mem, 86, 2, 0) = x.dst_chain
      /\ Read(mem, 88, 1, 0) = ByteLen(x.recipient) /\ Read(mem, 89, 64, NoAccount) = x.recipient
      /\ Read(mem, 153, 1, 0) = ByteLen(x.source) /\ Read(mem, 154, 64, NoAccount) = x.source
      /\ Read(mem, 218, 32, 0) = x.memo /\ Read(mem, 250, 8, 0) = created /\ Read(mem, 269, 1, 0) = x.bump
      /\ Read(mem, 268, 1, 0) = Cardinality({l \in LegIds : HasLeg(x.kind, l)})
  BY DEF IntentFixed, x
<1>6. /\ d.asset = AssetPda /\ d.index = i /\ d.kind = KIND[t.kind] /\ d.status = code /\ d.proposer = t.proposer
      /\ d.amount = t.amount /\ d.srcChain = t.src_chain /\ d.dstChain = t.dst_chain
  BY <1>0, <1>1, <1>2, <1>5 DEF IntentMoved, ReadInt, Read32
<1>7. /\ d.memo = "memo" /\ d.createdAt = created /\ d.approvedAt = approved
      /\ d.approvalsBitmap = bitmap /\ d.approvalCount = count /\ d.bump = 252
  BY <1>0, <1>1, <1>3, <1>5 DEF IntentMoved, ReadInt
<1>8. d.recipient = t.recipient /\ d.source = t.source
  <2>1. 88 + 1 = 89 /\ 153 + 1 = 154 /\ 88 \in Int /\ 153 \in Int
    OBVIOUS
  <2>2. ReadAddr(mem, 88) = x.recipient /\ ReadAddr(mem, 153) = x.source
    BY <1>5, <2>1, AddrRead
  <2> QED BY <1>0, <1>1, <1>3, <2>2
<1>9. d.legs = [n \in 1 .. (IF t.kind = "Move" THEN 2 ELSE 1) |-> decodeLeg(mem, 270 + 149 * (n - 1))]
  <2>1. ReadInt(mem, INTENT.LEG_COUNT, 1) = IF t.kind = "Move" THEN 2 ELSE 1
    BY <1>0, <1>1, <1>5, LegCount DEF ReadInt
  <2> QED BY <1>1, <1>4, <2>1
<1> QED BY <1>6, <1>7, <1>8, <1>9 DEF d

\* What the SDK makes of an intent's account and of its legs.
LEMMA IntentIsDecoded ==
  ASSUME MirrorInv, BookInv, NEW i \in IntentIds, Created(i)
  PROVE  LET d == decodeIntent(accounts[IntentPda(i)])
             t == terms[i]
         IN /\ d.asset = AssetPda /\ d.index = i /\ d.kind = KIND[t.kind] /\ d.status = STATUS[status[i]]
            /\ d.proposer = t.proposer /\ d.amount = t.amount /\ d.srcChain = t.src_chain /\ d.dstChain = t.dst_chain
            /\ d.recipient = t.recipient /\ d.source = t.source /\ d.memo = "memo" /\ d.bump = 252
            /\ d.approvedAt = approved_at[i] /\ d.approvalsBitmap = Bitmap(approvals[i])
            /\ d.approvalCount = approval_count[i]
            /\ d.createdAt \in 0 .. IF status[i] = "PendingApproval" THEN now ELSE approved_at[i]
            /\ DOMAIN d.legs = 1 .. (IF t.kind = "Move" THEN 2 ELSE 1) /\ Len(d.legs) = IF t.kind = "Move" THEN 2 ELSE 1
            /\ \A n \in DOMAIN d.legs :
                 n - 1 \in LegIds /\ HasLeg(t.kind, n - 1)
                 /\ d.legs[n] = decodeLeg(accounts[IntentPda(i)], leg_offset(n - 1))
<1> DEFINE mem == accounts[IntentPda(i)]
           d == decodeIntent(mem)
           t == terms[i]
           upto == IF status[i] = "PendingApproval" THEN now ELSE approved_at[i]
           legs == IF t.kind = "Move" THEN 2 ELSE 1
<1>1. PICK created \in 0 .. upto : IntentFixed(mem, IntentAsked(t), t, i, created)
  BY DEF MirrorInv, IntentMirror
<1>2. IntentMoved(mem, STATUS[status[i]], Bitmap(approvals[i]), approval_count[i], approved_at[i])
  BY DEF MirrorInv, IntentMirror
<1> HIDE DEF mem, d, t, upto
<1>3. /\ d.asset = AssetPda /\ d.index = i /\ d.kind = KIND[t.kind] /\ d.status = STATUS[status[i]]
      /\ d.proposer = t.proposer /\ d.amount = t.amount /\ d.srcChain = t.src_chain /\ d.dstChain = t.dst_chain
      /\ d.recipient = t.recipient /\ d.source = t.source /\ d.memo = "memo" /\ d.bump = 252
      /\ d.createdAt = created /\ d.approvedAt = approved_at[i] /\ d.approvalsBitmap = Bitmap(approvals[i])
      /\ d.approvalCount = approval_count[i]
      /\ d.legs = [n \in 1 .. legs |-> decodeLeg(mem, 270 + 149 * (n - 1))]
  BY <1>1, <1>2, IntentDecoded DEF d
<1>4. DOMAIN d.legs = 1 .. legs /\ Len(d.legs) = legs
  BY <1>3
<1>5. ASSUME NEW n \in 1 .. legs
      PROVE  n - 1 \in LegIds /\ HasLeg(t.kind, n - 1) /\ d.legs[n] = decodeLeg(mem, leg_offset(n - 1))
  <2>1. (n - 1 = 0 /\ leg_offset(n - 1) = 270) \/ (n - 1 = 1 /\ leg_offset(n - 1) = 419 /\ t.kind = "Move")
    BY LegOffsets
  <2>2. n - 1 \in LegIds /\ HasLeg(t.kind, n - 1)
    BY <2>1 DEF LegIds, HasLeg
  <2>3. leg_offset(n - 1) = 270 + 149 * (n - 1)
    BY <2>1
  <2> QED BY <1>3, <2>2, <2>3
<1> QED BY <1>1, <1>3, <1>4, <1>5 DEF d, mem, t, upto

\* And of one of its legs.
LEMMA LegIsDecoded ==
  ASSUME MirrorInv, BookInv, NEW i \in IntentIds, NEW l \in LegIds, leg_status[<<i, l>>] # "None"
  PROVE  LET d == decodeLeg(accounts[IntentPda(i)], leg_offset(l))
             t == terms[i]
         IN /\ d.action = LEG_ACTION[LegAction(t, l)] /\ d.chainId = LegChain(t, l)
            /\ d.status = LEG_STATUS[leg_status[<<i, l>>]] /\ d.executedAt = executed_at[<<i, l>>]
            /\ d.destTx = ReportedTx(i, l)
            /\ d.messageDigest = (IF Committed(i, l) THEN LegDigest(t, i, l) ELSE Zero)
            /\ d.messageApproval = (IF Committed(i, l) THEN LegApproval(t, i, l) ELSE Zero)
            /\ IF leg_status[<<i, l>>] = "Confirmed" THEN d.confirmedAt \in executed_at[<<i, l>>] .. now
               ELSE d.confirmedAt = 0
<1> DEFINE mem == accounts[IntentPda(i)]
           lo == leg_offset(l)
           d == decodeLeg(mem, lo)
           t == terms[i]
           digest == IF Committed(i, l) THEN LegDigest(t, i, l) ELSE Zero
           account == IF Committed(i, l) THEN LegApproval(t, i, l) ELSE Zero
<1>1. PICK confirmed \in Int :
        /\ IF leg_status[<<i, l>>] = "Confirmed" THEN confirmed \in executed_at[<<i, l>>] .. now ELSE confirmed = 0
        /\ LegMoved(mem, lo, LEG_STATUS[leg_status[<<i, l>>]], digest, account, ReportedTx(i, l), executed_at[<<i, l>>], confirmed)
  BY DEF MirrorInv, LegMirror
<1>2. Created(i) /\ HasLeg(t.kind, l)
  BY LegTerms DEF BookInv
<1>3. PICK created : IntentFixed(mem, IntentAsked(t), t, i, created)
  BY <1>2 DEF MirrorInv, IntentMirror
<1>4. lo \in {270, 419}
  BY LegOffsets
<1>5. /\ ReadInt(mem, lo + leg.ACTION, 1) = LEG_ACTION[LegAction(t, l)] /\ ReadInt(mem, lo + leg.CHAIN_ID, 2) = LegChain(t, l)
      /\ leg.ACTION = 0 /\ leg.CHAIN_ID = 1
  <2>1. leg.ACTION = 0 /\ leg.CHAIN_ID = 1
    BY DEF leg
  <2> QED BY <1>2, <1>3, <2>1, IntentReads
<1> HIDE DEF mem, lo, d, digest, account, t
<1>6. /\ d.action = Read(mem, lo, 1, 0) /\ d.chainId = Read(mem, lo + 1, 2, 0)
      /\ d.status = LEG_STATUS[leg_status[<<i, l>>]] /\ d.messageDigest = digest /\ d.messageApproval = account
      /\ d.destTx = ReportedTx(i, l) /\ d.executedAt = executed_at[<<i, l>>] /\ d.confirmedAt = confirmed
  BY <1>1, <1>4, LegDecoded DEF d
<1>7. d.action = LEG_ACTION[LegAction(t, l)] /\ d.chainId = LegChain(t, l)
  BY <1>4, <1>5, <1>6 DEF ReadInt
<1> QED BY <1>1, <1>6, <1>7 DEF mem, lo, d, digest, account, t

\* The legs the SDK lists are the legs there are.
LEMMA LegsAreListed ==
  ASSUME MirrorInv, BookInv, NEW i \in IntentIds, Created(i)
  PROVE  LET d == decodeIntent(accounts[IntentPda(i)]) IN
         /\ Len(d.legs) \in 1 .. 2
         /\ \A l \in LegIds : l < Len(d.legs) <=> leg_status[<<i, l>>] # "None"
         /\ \A n \in DOMAIN d.legs : n - 1 \in LegIds /\ leg_status[<<i, n - 1>>] # "None"
         /\ \A l \in LegIds : leg_status[<<i, l>>] # "None" => l + 1 \in DOMAIN d.legs
<1> DEFINE d == decodeIntent(accounts[IntentPda(i)])
           t == terms[i]
<1>1. /\ DOMAIN d.legs = 1 .. (IF t.kind = "Move" THEN 2 ELSE 1) /\ Len(d.legs) = IF t.kind = "Move" THEN 2 ELSE 1
      /\ \A n \in DOMAIN d.legs : n - 1 \in LegIds /\ HasLeg(t.kind, n - 1)
  BY IntentIsDecoded
<1>2. \A l \in LegIds : leg_status[<<i, l>>] # "None" <=> HasLeg(t.kind, l)
  BY DEF BookInv, IInv, IntentInv
<1> HIDE DEF d, t
<1>3. \A l \in LegIds : l < Len(d.legs) <=> HasLeg(t.kind, l)
  BY <1>1 DEF LegIds, HasLeg
<1>4. \A l \in LegIds : HasLeg(t.kind, l) => l + 1 \in DOMAIN d.legs
  BY <1>1 DEF LegIds, HasLeg
<1>5. Len(d.legs) \in 1 .. 2
  BY <1>1
<1> QED BY <1>1, <1>2, <1>3, <1>4, <1>5 DEF d

\* A leg the SDK reads is the leg the ledger decides on.
LEMMA LegReadBack ==
  ASSUME MirrorInv, BookInv, NEW i \in IntentIds, NEW l \in LegIds, leg_status[<<i, l>>] # "None"
  PROVE  LET d == decodeLeg(accounts[IntentPda(i)], leg_offset(l)) IN IsLeg(d) /\ LegIsRead(d, i, l)
<1> DEFINE d == decodeLeg(accounts[IntentPda(i)], leg_offset(l))
<1>1. /\ d.action = LEG_ACTION[LegAction(terms[i], l)] /\ d.chainId = LegChain(terms[i], l)
      /\ d.status = LEG_STATUS[leg_status[<<i, l>>]] /\ d.executedAt = executed_at[<<i, l>>]
      /\ d.messageDigest = (IF Committed(i, l) THEN LegDigest(terms[i], i, l) ELSE Zero)
      /\ d.messageApproval = (IF Committed(i, l) THEN LegApproval(terms[i], i, l) ELSE Zero)
      /\ IF leg_status[<<i, l>>] = "Confirmed" THEN d.confirmedAt \in executed_at[<<i, l>>] .. now
         ELSE d.confirmedAt = 0
  BY LegIsDecoded
<1> HIDE DEF d
<1>2. LEG_ACTION = LegActions /\ LEG_STATUS = LegStatus
  BY DEF LEG_ACTION, LegActions, LEG_STATUS, LegStatus
<1>3. LEG_ACTION[LegAction(terms[i], l)] \in 0 .. 1
  BY DEF LEG_ACTION, LegAction
<1>4. leg_status[<<i, l>>] \in {"Pending", "Authorized", "Confirmed"}
  BY IndexFacts DEF BookInv, IInv, TypeOK, LegStatuses
<1>5. LEG_STATUS[leg_status[<<i, l>>]] \in 0 .. 2
  BY <1>4 DEF LEG_STATUS
<1>6. IsLeg(d)
  BY <1>1, <1>3, <1>5 DEF IsLeg
<1>7. ~Committed(i, l) => d.messageDigest = Zero /\ d.messageApproval = Zero
  BY <1>1
<1> QED BY <1>1, <1>2, <1>6, <1>7 DEF LegIsRead, d

\* An intent the SDK reads is the intent the ledger decides on.
LEMMA IntentReadBack ==
  ASSUME MirrorInv, BookInv, NEW i \in IntentIds, Created(i)
  PROVE  LET d == decodeIntent(accounts[IntentPda(i)]) IN d.index = i /\ IntentIsRead(d)
<1> DEFINE d == decodeIntent(accounts[IntentPda(i)])
           t == terms[i]
<1>1. /\ d.asset = AssetPda /\ d.index = i /\ d.kind = KIND[t.kind] /\ d.status = STATUS[status[i]]
      /\ d.proposer = t.proposer /\ d.amount = t.amount /\ d.srcChain = t.src_chain /\ d.dstChain = t.dst_chain
      /\ d.recipient = t.recipient /\ d.source = t.source
      /\ d.approvedAt = approved_at[i] /\ d.approvalsBitmap = Bitmap(approvals[i])
      /\ d.approvalCount = approval_count[i]
      /\ d.createdAt \in 0 .. IF status[i] = "PendingApproval" THEN now ELSE approved_at[i]
      /\ \A n \in DOMAIN d.legs : d.legs[n] = decodeLeg(accounts[IntentPda(i)], leg_offset(n - 1))
  BY IntentIsDecoded
<1>2. /\ Len(d.legs) \in 1 .. 2
      /\ \A l \in LegIds : l < Len(d.legs) <=> leg_status[<<i, l>>] # "None"
      /\ \A n \in DOMAIN d.legs : n - 1 \in LegIds /\ leg_status[<<i, n - 1>>] # "None"
  BY LegsAreListed
<1> HIDE DEF d
<1>3. \A n \in DOMAIN d.legs : IsLeg(d.legs[n]) /\ LegIsRead(d.legs[n], i, n - 1)
  <2> SUFFICES ASSUME NEW n \in DOMAIN d.legs
               PROVE  IsLeg(d.legs[n]) /\ LegIsRead(d.legs[n], i, n - 1)
    OBVIOUS
  <2> DEFINE l == n - 1
  <2>1. l \in LegIds /\ leg_status[<<i, l>>] # "None" /\ d.legs[n] = decodeLeg(accounts[IntentPda(i)], leg_offset(l))
    BY <1>1, <1>2
  <2> HIDE DEF l
  <2>2. IsLeg(d.legs[n]) /\ LegIsRead(d.legs[n], i, l)
    BY <2>1, LegReadBack
  <2> QED BY <2>2 DEF l
<1>4. t \in Terms
  BY DEF BookInv, IInv, IntentInv
<1> HIDE DEF t
<1>5. [amount |-> d.amount, proposer |-> d.proposer, src_chain |-> d.srcChain, kind |-> t.kind,
       dst_chain |-> d.dstChain, recipient |-> d.recipient, source |-> d.source] = t
  BY <1>1, <1>4 DEF Terms
<1>6. KIND = IntentKind /\ STATUS = IntentStatus
  BY DEF KIND, IntentKind, STATUS, IntentStatus
<1>7. d.kind \in 0 .. 2
  <2>1. t.kind \in {"Mint", "Burn", "Move"}
    BY <1>4 DEF Terms, Kinds
  <2> QED BY <1>1, <2>1 DEF KIND
<1>8. d.status \in 0 .. 3
  <2>1. status[i] \in {"PendingApproval", "Approved", "Executing", "Executed"}
    BY DEF BookInv, IInv, TypeOK, Statuses, Created
  <2> QED BY <1>1, <2>1 DEF STATUS
<1>9. IsIntent(d)
  BY <1>1, <1>2, <1>3, <1>4, <1>7, <1>8 DEF IsIntent, Terms
<1>10. d.createdAt \in 0 .. IF status[i] = "PendingApproval" THEN now ELSE d.approvedAt
  BY <1>1
<1>11. IntentIsRead(d)
  BY <1>1, <1>2, <1>3, <1>5, <1>6, <1>9, <1>10 DEF IntentIsRead, t
<1> QED BY <1>1, <1>11 DEF d

-----------------------------------------------------------------------------
(* What the SDK lists.                                                       *)

\* The chains the SDK lists are the registered ones it asks for;
LEMMA ChainsFetched ==
  ASSUME MirrorInv, BookInv, NEW ids, ids \subseteq Nat
  PROVE  fetchChains(ids) = {decodeChain(accounts[ChainPda(c)]) : c \in {d \in RegisteredIds : d \in ids}}
<1>1. {d \in ids : ChainPda(d) \in DOMAIN accounts} = {d \in RegisteredIds : d \in ids}
  BY DEF MirrorInv, DomainInv, RegisteredIds
<1> QED BY <1>1 DEF fetchChains

\* it asks for ids 1 to 8, and every registered chain is among them.
LEMMA ChainsListed ==
  RegisteredIds \subseteq 1 .. 8 /\ RegisteredIds \subseteq ChainIds
<1>1. DOMAIN CHAINS = 1 .. 5
  BY DEF CHAINS
<1>2. ChainIds \subseteq 1 .. 5
  BY <1>1, AccountsAssumption DEF AccountsAssumption
<1>3. ChainIds \subseteq 1 .. 8
  BY <1>2
<1>4. RegisteredIds \subseteq ChainIds
  BY DEF RegisteredIds
<1> QED BY <1>3, <1>4

\* The intents it lists are the ones created.
LEMMA IntentsFetched ==
  ASSUME MirrorInv, BookInv, Initialized
  PROVE  fetchIntents = {decodeIntent(accounts[IntentPda(i)]) : i \in CreatedIds}
<1>1. fetchAsset.intentCount = intent_count
  BY AssetIsDecoded
<1>2. intent_count \in Nat
  BY ConstantFacts DEF BookInv, IInv, TypeOK
<1>3. \A j \in 0 .. intent_count - 1 : j \in Nat
  BY <1>2
<1>4. \A i \in IntentIds : Created(i) <=> i \in 0 .. intent_count - 1
  BY <1>2, IntentIdsAreNumbers DEF BookInv, IInv, IntentInv
<1>5. {j \in 0 .. intent_count - 1 : IntentPda(j) \in DOMAIN accounts} = CreatedIds
  BY <1>3, <1>4, IntentIdsAreNumbers DEF MirrorInv, DomainInv, CreatedIds, Created
<1> QED BY <1>1, <1>5 DEF fetchIntents

-----------------------------------------------------------------------------
(* The three properties.                                                     *)

\* In every state, for every set of keys, chains and accounts, the SDK reads from
\* the accounts the ledger the program decides on (state.rs against layout.ts and
\* accounts.ts): configuration, counters, chains, intents and legs.
THEOREM SdkReadsLedgerHolds == BytesSpec => []SdkReadsLedger
<1>1. BookInv /\ MirrorInv => SdkReadsLedger
  <2> SUFFICES ASSUME BookInv, MirrorInv, Initialized
               PROVE  SdkReadsLedger
    BY DEF SdkReadsLedger
  <2>1. fetchLedger.chains = {decodeChain(accounts[ChainPda(c)]) : c \in RegisteredIds}
    <3>1. {d \in RegisteredIds : d \in 1 .. 8} = RegisteredIds
      BY ChainsListed
    <3>2. 1 .. 8 \subseteq Nat
      OBVIOUS
    <3> QED BY <3>1, <3>2, ChainsFetched DEF fetchLedger
  <2>2. \A c \in RegisteredIds : LET d == decodeChain(accounts[ChainPda(c)]) IN d.chainId = c /\ ChainIsRead(d)
    BY ChainReadBack DEF RegisteredIds
  <2>3. /\ {d.chainId : d \in fetchLedger.chains} = RegisteredIds
        /\ \A d \in fetchLedger.chains : ChainIsRead(d)
    BY <2>1, <2>2
  <2>4. \A i \in CreatedIds : LET d == decodeIntent(accounts[IntentPda(i)]) IN d.index = i /\ IntentIsRead(d)
    BY IntentReadBack DEF CreatedIds, Created
  <2>5. {d.index : d \in fetchIntents} = CreatedIds /\ \A d \in fetchIntents : IntentIsRead(d)
    BY <2>4, IntentsFetched
  <2>6. AssetIsRead(fetchLedger.asset)
    BY AssetReadBack DEF fetchLedger
  <2> QED BY <2>3, <2>5, <2>6 DEF SdkReadsLedger
<1> QED BY <1>1, SpecMirror, PTL

\* The asset reads as the client that initialised it asked for it.
LEMMA AssetAsAsked ==
  ASSUME MirrorInv, BookInv, Initialized
  PROVE  LET a == fetchAsset
             x == asked[AssetPda]
         IN /\ <<a.createKey, a.symbol, a.decimals, a.bump, a.mintAuthorityBump, a.ikaProgram>>
                = <<x.create_key, x.symbol, x.decimals, x.bump, x.mint_authority_bump, x.ika_program>>
            /\ <<a.approvers, a.threshold, a.timelockSecs, a.globalCap, a.executor>>
                = <<x.approvers, x.threshold, x.timelock_secs, x.global_cap, x.executor>>
<1> DEFINE a == fetchAsset
           x == AssetAsked(config)
<1>1. asked[AssetPda] = x
  BY DEF MirrorInv, AssetMirror, AskedFor
<1>2. /\ a.createKey = x.create_key /\ a.executor = Executor /\ a.symbol = x.symbol
      /\ a.decimals = x.decimals /\ a.threshold = config.threshold /\ a.approvers = config.approvers
      /\ a.globalCap = config.global_cap /\ a.timelockSecs = config.timelock_secs /\ a.bump = x.bump
      /\ a.mintAuthorityBump = x.mint_authority_bump /\ a.ikaProgram = x.ika_program
  BY AssetIsDecoded
<1>3. /\ x.executor = Executor /\ x.threshold = config.threshold /\ x.approvers = config.approvers
      /\ x.global_cap = config.global_cap /\ x.timelock_secs = config.timelock_secs
  BY DEF AssetAsked
<1> HIDE DEF a, x
<1> QED BY <1>1, <1>2, <1>3 DEF a

\* The same of a chain.
LEMMA ChainAsAsked ==
  ASSUME MirrorInv, BookInv, NEW c \in ChainIds, Registered(c)
  PROVE  LET d == decodeChain(accounts[ChainPda(c)])
             x == asked[ChainPda(c)]
         IN /\ d.chainId = c /\ d.legKind = LegKind[x.leg_kind]
            /\ <<d.encoding, d.curve, d.signatureScheme, d.dwallet, d.contract>>
                = <<x.encoding, x.curve, x.scheme, x.dwallet, x.contract>>
            /\ <<d.dwalletPubkey, d.domainSeparator, d.cap, d.allowlist, d.bump>>
                = <<x.dwallet_pubkey, x.domain, x.cap, x.allowlist, x.bump>>
<1> DEFINE d == decodeChain(accounts[ChainPda(c)])
           x == ChainAsked(c, deployment[c])
<1>1. asked[ChainPda(c)] = x
  BY DEF MirrorInv, ChainMirror, AskedFor
<1>2. /\ d.chainId = c /\ d.legKind = LegKind[deployment[c].leg_kind]
      /\ d.encoding = CHAINS[c].encoding /\ d.curve = CHAINS[c].curve /\ d.signatureScheme = CHAINS[c].scheme
      /\ d.dwallet = x.dwallet /\ d.dwalletPubkey = x.dwallet_pubkey /\ d.bump = x.bump /\ d.contract = x.contract
      /\ d.domainSeparator = <<"domain", c>> /\ d.cap = deployment[c].cap /\ d.allowlist = x.allowlist
  BY ChainIsDecoded
<1>3. /\ x.leg_kind = deployment[c].leg_kind /\ x.encoding = CHAINS[c].encoding /\ x.curve = CHAINS[c].curve
      /\ x.scheme = CHAINS[c].scheme /\ x.domain = <<"domain", c>> /\ x.cap = deployment[c].cap
  BY DEF ChainAsked
<1> HIDE DEF d, x
<1> QED BY <1>1, <1>2, <1>3 DEF d

\* The same of an intent, and each leg shows the transaction reported for it.
LEMMA IntentAsAsked ==
  ASSUME MirrorInv, BookInv, NEW i \in IntentIds, Created(i)
  PROVE  LET d == decodeIntent(accounts[IntentPda(i)])
             x == asked[IntentPda(i)]
         IN /\ d.kind = IntentKind[x.kind]
            /\ <<d.amount, d.srcChain, d.dstChain, d.recipient, d.source, d.memo, d.bump>>
                = <<x.amount, x.src_chain, x.dst_chain, x.recipient, x.source, x.memo, x.bump>>
            /\ \A n \in DOMAIN d.legs :
                 d.legs[n].destTx = IF <<"leg", i, n - 1>> \in DOMAIN asked
                                    THEN asked[<<"leg", i, n - 1>>] ELSE NoAccount
<1> DEFINE d == decodeIntent(accounts[IntentPda(i)])
           x == IntentAsked(terms[i])
           t == terms[i]
<1>1. asked[IntentPda(i)] = x
  BY DEF MirrorInv, IntentMirror, AskedFor
<1>2. /\ d.kind = KIND[t.kind] /\ d.amount = t.amount /\ d.srcChain = t.src_chain /\ d.dstChain = t.dst_chain
      /\ d.recipient = t.recipient /\ d.source = t.source /\ d.memo = "memo" /\ d.bump = 252
      /\ \A n \in DOMAIN d.legs : d.legs[n] = decodeLeg(accounts[IntentPda(i)], leg_offset(n - 1))
  BY IntentIsDecoded
<1>3. /\ x.kind = t.kind /\ x.amount = t.amount /\ x.src_chain = t.src_chain /\ x.dst_chain = t.dst_chain
      /\ x.recipient = t.recipient /\ x.source = t.source /\ x.memo = "memo" /\ x.bump = 252
  BY DEF IntentAsked
<1>4. KIND = IntentKind
  BY DEF KIND, IntentKind
<1>5. \A n \in DOMAIN d.legs : n - 1 \in LegIds /\ leg_status[<<i, n - 1>>] # "None"
  BY LegsAreListed
<1> HIDE DEF d, x, t
<1>6. ASSUME NEW n \in DOMAIN d.legs
      PROVE  d.legs[n].destTx = IF <<"leg", i, n - 1>> \in DOMAIN asked THEN asked[<<"leg", i, n - 1>>] ELSE NoAccount
  <2> DEFINE l == n - 1
  <2>1. l \in LegIds /\ leg_status[<<i, l>>] # "None" /\ d.legs[n] = decodeLeg(accounts[IntentPda(i)], leg_offset(l))
    BY <1>2, <1>5
  <2> HIDE DEF l
  <2>2. d.legs[n].destTx = ReportedTx(i, l)
    BY <2>1, LegIsDecoded
  <2> QED BY <2>2 DEF ReportedTx, LegKey, l
<1> QED BY <1>1, <1>2, <1>3, <1>4, <1>6 DEF d

\* What a client asked for stands in the account its instruction wrote, after every
\* later instruction too (instructions.ts, instructions.rs, accounts.ts).
THEOREM AskedIsRecordedHolds == BytesSpec => []AskedIsRecorded
<1>1. BookInv /\ MirrorInv => AskedIsRecorded
  <2> SUFFICES ASSUME BookInv, MirrorInv
               PROVE  AskedIsRecorded
    OBVIOUS
  <2>1. Initialized =>
          LET a == fetchAsset
              x == asked[AssetPda]
          IN /\ <<a.createKey, a.symbol, a.decimals, a.bump, a.mintAuthorityBump, a.ikaProgram>>
                 = <<x.create_key, x.symbol, x.decimals, x.bump, x.mint_authority_bump, x.ika_program>>
             /\ <<a.approvers, a.threshold, a.timelockSecs, a.globalCap, a.executor>>
                 = <<x.approvers, x.threshold, x.timelock_secs, x.global_cap, x.executor>>
    BY AssetAsAsked
  <2>2. \A d \in fetchChains(RegisteredIds) :
          LET x == asked[ChainPda(d.chainId)] IN
          /\ d.legKind = LegKind[x.leg_kind]
          /\ <<d.encoding, d.curve, d.signatureScheme, d.dwallet, d.contract>>
              = <<x.encoding, x.curve, x.scheme, x.dwallet, x.contract>>
          /\ <<d.dwalletPubkey, d.domainSeparator, d.cap, d.allowlist, d.bump>>
              = <<x.dwallet_pubkey, x.domain, x.cap, x.allowlist, x.bump>>
    <3> SUFFICES ASSUME NEW d \in fetchChains(RegisteredIds)
                 PROVE  LET x == asked[ChainPda(d.chainId)] IN
                        /\ d.legKind = LegKind[x.leg_kind]
                        /\ <<d.encoding, d.curve, d.signatureScheme, d.dwallet, d.contract>>
                            = <<x.encoding, x.curve, x.scheme, x.dwallet, x.contract>>
                        /\ <<d.dwalletPubkey, d.domainSeparator, d.cap, d.allowlist, d.bump>>
                            = <<x.dwallet_pubkey, x.domain, x.cap, x.allowlist, x.bump>>
      OBVIOUS
    <3>1. PICK c \in ChainIds : Registered(c) /\ d = decodeChain(accounts[ChainPda(c)])
      BY DEF fetchChains, RegisteredIds
    <3> QED BY <3>1, ChainAsAsked
  <2>3. \A i \in CreatedIds : i \in IntentIds /\ Created(i)
    BY DEF CreatedIds, Created
  <2> QED BY <2>1, <2>2, <2>3, IntentAsAsked DEF AskedIsRecorded
<1> QED BY <1>1, SpecMirror, PTL

\* The message the SDK takes from what it read of a chain, a leg and an intent.
SdkMessageOf(d, k, t, n) ==
  messageDigest(d.encoding,
    [domain |-> d.domainSeparator, action |-> k.action, amount |-> t.amount,
     account |-> IF k.action = LegActions.mint THEN t.recipient ELSE t.source,
     nonce |-> LegNonce(t.index, n - 1), ledger |-> AssetPda])

\* From the accounts alone the SDK computes the digest the program committed the
\* leg to, and the address of the MessageApproval (digest.rs against digest.ts).
THEOREM SdkDigestIsStoredHolds == BytesSpec => []SdkDigestIsStored
<1>1. BookInv /\ MirrorInv => SdkDigestIsStored
  <2> SUFFICES ASSUME BookInv, MirrorInv, NEW i \in CreatedIds, NEW l \in LegIds, Committed(i, l)
               PROVE  LET k == decodeIntent(accounts[IntentPda(i)]).legs[l + 1]
                          d == decodeChain(accounts[ChainPda(k.chainId)])
                          digest == SdkMessage(i, l + 1)
                      IN /\ k.messageDigest = digest
                         /\ k.messageApproval = MessageApprovalPda(d.curve, d.dwalletPubkey, d.signatureScheme, digest)
    BY DEF SdkDigestIsStored
  <2>0. PICK n \in Int : n = l + 1 /\ n - 1 = l
    BY DEF LegIds
  <2> DEFINE t == terms[i]
             c == LegChain(t, l)
             it == decodeIntent(accounts[IntentPda(i)])
             k == it.legs[n]
             d == decodeChain(accounts[ChainPda(c)])
             account == IF k.action = LegActions.mint THEN it.recipient ELSE it.source
  <2>1. i \in IntentIds /\ Created(i) /\ leg_status[<<i, l>>] # "None" /\ deployment[c].leg_kind = "IkaForeign"
    BY DEF CreatedIds, Created, Committed, Executed
  <2>2. c \in ChainIds /\ Registered(c)
    <3>1. c \in ChainIds
      BY <2>1, LegTerms DEF BookInv
    <3>2. <<i, l>> \in Legs /\ Executed(i, l)
      BY <2>1, IndexFacts DEF Committed
    <3>3. Registered(ChainOf(<<i, l>>))
      BY <3>2 DEF BookInv, AuthorizationInv, RegisteredInv
    <3> QED BY <3>1, <3>3 DEF ChainOf
  <2>3. /\ it.index = i /\ it.amount = t.amount /\ it.recipient = t.recipient /\ it.source = t.source
        /\ k = decodeLeg(accounts[IntentPda(i)], leg_offset(l))
    <3>1. n \in DOMAIN it.legs
      BY <2>0, <2>1, LegsAreListed
    <3>2. \A m \in DOMAIN it.legs : it.legs[m] = decodeLeg(accounts[IntentPda(i)], leg_offset(m - 1))
      BY <2>1, IntentIsDecoded
    <3>3. it.index = i /\ it.amount = t.amount /\ it.recipient = t.recipient /\ it.source = t.source
      BY <2>1, IntentIsDecoded
    <3> HIDE DEF it
    <3>4. it.legs[n] = decodeLeg(accounts[IntentPda(i)], leg_offset(n - 1))
      BY <3>1, <3>2
    <3> QED BY <2>0, <3>3, <3>4
  <2>4. /\ k.action = LEG_ACTION[LegAction(t, l)] /\ k.chainId = c
        /\ k.messageDigest = LegDigest(t, i, l) /\ k.messageApproval = LegApproval(t, i, l)
    <3> HIDE DEF k
    <3> QED BY <2>1, <2>3, LegIsDecoded DEF c, t
  <2>5. /\ d.encoding = CHAINS[c].encoding /\ d.curve = CHAINS[c].curve /\ d.signatureScheme = CHAINS[c].scheme
        /\ d.domainSeparator = <<"domain", c>> /\ d.dwalletPubkey = <<"key", CHAINS[c].curve>>
    BY <2>1, <2>2, ChainIsDecoded
  <2>6. account = LegAccount(t, l)
    <3>1. LegAction(t, l) \in {"mint", "burn"} /\ (k.action = LegActions.mint <=> LegAction(t, l) = "mint")
      BY <2>4 DEF LegAction, LEG_ACTION, LegActions
    <3> HIDE DEF k, it
    <3> QED BY <2>3, <3>1 DEF LegAccount
  <2>7. SdkMessage(i, n) = message_digest(d.encoding,
          [domain |-> d.domainSeparator, action |-> k.action, amount |-> it.amount, account |-> account,
           nonce |-> LegNonce(it.index, l), ledger |-> AssetPda])
    <3>2. SdkMessage(i, n) = SdkMessageOf(decodeChain(accounts[ChainPda(k.chainId)]), k, it, n)
      BY DEF SdkMessage, SdkMessageOf
    <3>3. k.chainId = c
      BY <2>4
    <3>4. SdkMessageOf(d, k, it, n) = messageDigest(d.encoding,
            [domain |-> d.domainSeparator, action |-> k.action, amount |-> it.amount, account |-> account,
             nonce |-> LegNonce(it.index, n - 1), ledger |-> AssetPda])
      BY DEF SdkMessageOf
    <3>5. SdkMessage(i, n) = SdkMessageOf(d, k, it, n)
      <4> HIDE DEF k, it, c
      <4> QED BY <3>2, <3>3
    <3> HIDE DEF d, k, it, account
    <3> QED BY <2>0, <3>4, <3>5, DigestsAgree
  <2>8. LegDigest(t, i, l) = message_digest(CHAINS[c].encoding,
          [domain |-> <<"domain", c>>, action |-> LEG_ACTION[LegAction(t, l)], amount |-> t.amount,
           nonce |-> LegNonce(i, l), account |-> LegAccount(t, l), ledger |-> AssetPda])
    BY DEF LegDigest
  <2>9. LegApproval(t, i, l) = MessageApprovalPda(CHAINS[c].curve, <<"key", CHAINS[c].curve>>, CHAINS[c].scheme, LegDigest(t, i, l))
    BY DEF LegApproval
  <2> HIDE DEF t, c, it, k, d, account
  <2>10. SdkMessage(i, n) = LegDigest(t, i, l)
    BY <2>3, <2>4, <2>5, <2>6, <2>7, <2>8
  <2> QED BY <2>0, <2>4, <2>5, <2>9, <2>10 DEF it, k, d
<1> QED BY <1>1, SpecMirror, PTL
=============================================================================

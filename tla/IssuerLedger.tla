---------------------------- MODULE IssuerLedger ----------------------------
(***************************************************************************)
(* The issuer-ledger Solana program (programs/issuer-ledger): one Asset     *)
(* account, its ChainDeployment accounts and its Intent accounts, together  *)
(* with the two external programs its instructions call: Token-2022 (the    *)
(* Solana mint) and the Ika dWallet program (MessageApproval accounts).     *)
(*                                                                          *)
(* One action per instruction.  A Solana transaction is atomic: an          *)
(* instruction that returns an error leaves no trace, so an error path is a *)
(* disabled action.                                                         *)
(***************************************************************************)
EXTENDS Integers, Sequences, FiniteSets, Sums

CONSTANTS
  Keys,           \* signers that may appear: admin, executor, approvers, outsiders
  Admin,          \* the key that initialises the asset
  Executor,       \* the executor key stored on the asset
  AssetConfigs,   \* the configurations InitAsset may be sent
  ChainIds,       \* chain ids that may be registered
  ChainConfigs,   \* chain id -> the set of deployments AddChain may be sent
  GenesisSupply,  \* chain id -> supply minted on that chain before registration
  Accounts,       \* account addresses, over all chains
  Bytes32,        \* the accounts whose address has 32 bytes (Solana accounts)
  Treasury,       \* the Token-2022 account owned by the mint-authority PDA
  Amounts,        \* amounts an intent may be created for
  IntentBound,    \* number of intents that can be created
  TimeBound,      \* the last clock value
  I64Max          \* largest signed clock value; u64 runs to 2 * I64Max + 1

U64Max == 2 * I64Max + 1
U64 == 0 .. U64Max

IntentIds == 0 .. IntentBound - 1
LegIds    == {0, 1}

LegKinds       == {"SolanaNative", "IkaForeign"}
Kinds          == {"Mint", "Burn", "Move"}
Statuses       == {"None", "PendingApproval", "Approved", "Executing", "Executed"}
LegStatuses    == {"None", "Pending", "Authorized", "Confirmed"}

MAX_APPROVERS  == 5
MAX_ALLOWLIST  == 4
MAX_CHAINS     == 255  \* chain_count is a u8
NoChain        == 0   \* chain_id 0 is rejected by AddChain
NoAccount      == "no_account"
NoKey          == "no_key"

\* The fields of the accounts that no instruction changes once written.
AssetConfig ==
  [approvers : Seq(Keys), threshold : U64, timelock_secs : U64, global_cap : U64]
Deployment ==
  [leg_kind : LegKinds, cap : U64, authorized : U64, allowlist : SUBSET Accounts]
Terms ==
  [kind : Kinds, amount : U64, proposer : Keys,
   src_chain : ChainIds \cup {NoChain}, dst_chain : ChainIds \cup {NoChain},
   recipient : Accounts \cup {NoAccount}, source : Accounts \cup {NoAccount}]

NoConfig == [approvers |-> <<>>, threshold |-> 0, timelock_secs |-> 0, global_cap |-> 0]
NoDeployment == [leg_kind |-> "SolanaNative", cap |-> 0, authorized |-> 0, allowlist |-> {}]
NoTerms ==
  [kind |-> "Mint", amount |-> 0, proposer |-> NoKey, src_chain |-> NoChain,
   dst_chain |-> NoChain, recipient |-> NoAccount, source |-> NoAccount]

ASSUME ConstantsAssumption ==
  /\ Admin \in Keys /\ Executor \in Keys
  /\ I64Max \in Nat /\ TimeBound \in 0 .. I64Max
  /\ IntentBound \in Nat \ {0} /\ 2 * IntentBound <= U64Max + 1
  /\ Amounts \subseteq U64
  /\ Treasury \in Accounts /\ Bytes32 \subseteq Accounts
  /\ ChainIds \subseteq Nat \ {0} /\ IsFiniteSet(ChainIds)
  /\ NoAccount \notin Accounts /\ NoKey \notin Keys

\* scripts/setup-devnet.ts mints a chain's seed supply into its treasury and
\* registers the same number with AddChain; both read scripts/seed-supply.json.
ASSUME ConfigAssumption ==
  /\ AssetConfigs \subseteq AssetConfig /\ NoConfig \notin AssetConfigs
  /\ GenesisSupply \in [ChainIds -> U64]
  /\ \A c \in ChainIds : /\ ChainConfigs[c] \subseteq Deployment \ {NoDeployment}
                         /\ \A k \in ChainConfigs[c] : k.authorized = GenesisSupply[c]

VARIABLES
  \* the Asset account
  config,             \* its configuration, fixed by InitAsset
  authorized_total,   \* supply authorised over all chains
  chain_count,        \* chains registered
  intent_count,       \* intents created
  \* the ChainDeployment accounts
  deployment,         \* chain id -> configuration, fixed by AddChain
  authorized,         \* chain id -> supply authorised on the chain
  \* the Intent accounts
  terms,              \* intent -> what was proposed, fixed by CreateIntent
  status,             \* intent -> status
  approvals,          \* intent -> approver positions that approved (the bitmap)
  approval_count,     \* intent -> number of approvals
  approved_at,        \* intent -> clock of the approval that met the threshold
  leg_status,         \* <<intent, leg>> -> status of the leg
  executed_at,        \* <<intent, leg>> -> clock at which the leg was executed
  \* other programs
  message_approvals,  \* the authorizations Ika was asked to sign (MessageApproval accounts)
  token_supply,       \* chain id -> Token-2022 supply of its mint (native chains only)
  treasury_balance,   \* chain id -> part of that supply held by the treasury account
  now                 \* the cluster clock, unix_timestamp

assetVars  == <<config, authorized_total, chain_count, intent_count>>
chainVars  == <<deployment, authorized>>
intentVars == <<terms, status, approvals, approval_count, approved_at>>
legVars    == <<leg_status, executed_at>>
tokenVars  == <<token_supply, treasury_balance>>
ledgerVars == <<assetVars, chainVars, intentVars, legVars>>
vars       == <<ledgerVars, message_approvals, tokenVars, now>>

Legs == IntentIds \X LegIds

Init ==
  /\ config = NoConfig
  /\ authorized_total = 0 /\ chain_count = 0 /\ intent_count = 0
  /\ deployment = [c \in ChainIds |-> NoDeployment]
  /\ authorized = [c \in ChainIds |-> 0]
  /\ terms = [i \in IntentIds |-> NoTerms]
  /\ status = [i \in IntentIds |-> "None"]
  /\ approvals = [i \in IntentIds |-> {}]
  /\ approval_count = [i \in IntentIds |-> 0]
  /\ approved_at = [i \in IntentIds |-> 0]
  /\ leg_status = [g \in Legs |-> "None"]
  /\ executed_at = [g \in Legs |-> 0]
  /\ message_approvals = {}
  /\ token_supply = GenesisSupply
  /\ treasury_balance = GenesisSupply
  /\ now = 0

Initialized == config # NoConfig
Registered(c) == deployment[c] # NoDeployment

-----------------------------------------------------------------------------
(* Helpers.  A name ending in _m1 or _m2 is a plausible slip in the          *)
(* definition of that name, which follows it; no action uses it.             *)

\* Position of a key in the approver list: the FIRST match, as approver_index
\* returns it.  InitAsset does not reject a list that names a key twice.
Positions(key) == {n \in 1 .. Len(config.approvers) : config.approvers[n] = key}
IsApprover(key) == Positions(key) # {}
ApproverIndex(key) == CHOOSE n \in Positions(key) : \A m \in Positions(key) : n <= m

\* require_operator: admin, executor or any approver.
IsOperator(key) == key = Admin \/ key = Executor \/ IsApprover(key)

HasLeg(kind, l) == l = 0 \/ kind = "Move"
LegAction(t, l)  == IF t.kind = "Mint" \/ (t.kind = "Move" /\ l = 1) THEN "mint" ELSE "burn"
LegChain(t, l)   == IF LegAction(t, l) = "mint" THEN t.dst_chain ELSE t.src_chain
LegAccount(t, l) == IF LegAction(t, l) = "mint" THEN t.recipient ELSE t.source

\* all_confirmed over the legs an intent has, in the leg table ls.
AllConfirmed(ls, i) == \A l \in LegIds : ls[<<i, l>>] \in {"None", "Confirmed"}

\* leg_nonce: (intent_index << 1) | leg_index in 64 bits.
LegNonce_m1(i, l) == (i + l) % (U64Max + 1)
LegNonce(i, l) == (2 * i + l) % (U64Max + 1)

\* What the digest commits to.  keccak-256 is taken as injective, so the
\* authorization stands for its digest; the chain stands for its domain
\* separator and dWallet, and the one asset for the ledger address.
Authorization(i, l) ==
  LET t == terms[i] IN
  [chain |-> LegChain(t, l), action |-> LegAction(t, l), amount |-> t.amount,
   account |-> LegAccount(t, l), nonce |-> LegNonce(i, l)]

\* `timelock_secs as i64`: reinterprets the top half of u64 as negative.
AsI64(x) == IF x > I64Max THEN x - (U64Max + 1) ELSE x

-----------------------------------------------------------------------------
(* Instruction 0 and 1: configuration.                                       *)

InitAsset(cfg) ==
  /\ ~Initialized
  /\ Len(cfg.approvers) \in 1 .. MAX_APPROVERS
  /\ cfg.threshold \in 1 .. Len(cfg.approvers)
  /\ config' = cfg
  /\ UNCHANGED <<authorized_total, chain_count, intent_count, chainVars, intentVars,
                 legVars, message_approvals, tokenVars, now>>

\* Seeded supply counts toward the global authorized total.
SeedFits(k) == authorized_total + k.authorized <= config.global_cap

AddChain(signer, c, k) ==
  /\ Initialized
  /\ signer = Admin
  /\ ~Registered(c)
  /\ Cardinality(k.allowlist) <= MAX_ALLOWLIST
  /\ k.authorized <= k.cap
  /\ SeedFits(k)
  /\ chain_count < MAX_CHAINS
  /\ deployment' = [deployment EXCEPT ![c] = k]
  /\ authorized' = [authorized EXCEPT ![c] = k.authorized]
  /\ authorized_total' = authorized_total + k.authorized
  /\ chain_count' = chain_count + 1
  /\ UNCHANGED <<config, intent_count, intentVars, legVars, message_approvals,
                 tokenVars, now>>

-----------------------------------------------------------------------------
(* Instruction 2: an approver drafts an intent.  Nothing is reserved: the    *)
(* caps and the supply are checked again when a leg is executed.             *)

\* Sufficient supply on the source chain; a Solana source has 32 bytes.
SourceRules(t) ==
  t.kind \in {"Burn", "Move"} =>
    /\ Registered(t.src_chain)
    /\ t.amount <= authorized[t.src_chain]
    /\ deployment[t.src_chain].leg_kind = "SolanaNative" => t.source \in Bytes32

\* Global cap (mint only), chain cap and recipient allowlist.
DestinationRules(t) ==
  t.kind \in {"Mint", "Move"} =>
    /\ Registered(t.dst_chain)
    /\ t.kind = "Mint" => authorized_total + t.amount <= config.global_cap
    /\ authorized[t.dst_chain] + t.amount <= deployment[t.dst_chain].cap
    /\ t.recipient \in deployment[t.dst_chain].allowlist

\* The instruction's data: a field that the kind never reads is left empty.
WellFormed(t) ==
  /\ (t.src_chain = NoChain) = (t.kind = "Mint") /\ (t.source = NoAccount) = (t.kind = "Mint")
  /\ (t.dst_chain = NoChain) = (t.kind = "Burn") /\ (t.recipient = NoAccount) = (t.kind = "Burn")

MayCreate(t) ==
  /\ Initialized
  /\ IsApprover(t.proposer)
  /\ t.amount > 0
  /\ WellFormed(t)
  /\ t.kind = "Move" => t.src_chain # t.dst_chain
  /\ SourceRules(t)
  /\ DestinationRules(t)
  /\ intent_count < IntentBound

CreateIntent(t) ==
  /\ MayCreate(t)
  /\ LET i == intent_count IN
     /\ terms' = [terms EXCEPT ![i] = t]
     /\ status' = [status EXCEPT ![i] = "PendingApproval"]
     /\ leg_status' = [g \in Legs |->
          IF g[1] # i THEN leg_status[g] ELSE IF HasLeg(t.kind, g[2]) THEN "Pending" ELSE "None"]
  /\ intent_count' = intent_count + 1
  /\ UNCHANGED <<config, authorized_total, chain_count, chainVars, approvals, approval_count,
                 approved_at, executed_at, message_approvals, tokenVars, now>>

-----------------------------------------------------------------------------
(* Instruction 3: an approver other than the proposer approves, once.        *)

MayApprove_m1(i, key) == IsApprover(key) /\ ApproverIndex(key) \notin approvals[i]
MayApprove(i, key) ==
  /\ IsApprover(key)
  /\ key # terms[i].proposer
  /\ ApproverIndex(key) \notin approvals[i]

\* _m1 forgets the status check.
ApproveIntent_m1(key, i) ==
  LET done == approval_count[i] + 1 >= config.threshold IN
  /\ status[i] # "None"
  /\ MayApprove(i, key)
  /\ approvals' = [approvals EXCEPT ![i] = @ \cup {ApproverIndex(key)}]
  /\ approval_count' = [approval_count EXCEPT ![i] = @ + 1]
  /\ status' = [status EXCEPT ![i] = IF done THEN "Approved" ELSE @]
  /\ approved_at' = [approved_at EXCEPT ![i] = IF done THEN now ELSE @]
  /\ UNCHANGED <<assetVars, chainVars, terms, legVars, message_approvals, tokenVars, now>>
ApproveIntent(key, i) ==
  LET done == approval_count[i] + 1 >= config.threshold IN
  /\ status[i] = "PendingApproval"
  /\ MayApprove(i, key)
  /\ approvals' = [approvals EXCEPT ![i] = @ \cup {ApproverIndex(key)}]
  /\ approval_count' = [approval_count EXCEPT ![i] = @ + 1]
  /\ status' = [status EXCEPT ![i] = IF done THEN "Approved" ELSE @]
  /\ approved_at' = [approved_at EXCEPT ![i] = IF done THEN now ELSE @]
  /\ UNCHANGED <<assetVars, chainVars, terms, legVars, message_approvals, tokenVars, now>>

-----------------------------------------------------------------------------
(* Instruction 4: execute one leg.                                           *)

\* approved_at + timelock_secs as i64, with the checked addition.
Unlock(i) == approved_at[i] + AsI64(config.timelock_secs)
TimelockOver_m1(i) == now >= AsI64(config.timelock_secs)
TimelockOver(i) == Unlock(i) <= I64Max /\ now >= Unlock(i)

\* For a move, the burn leg must be confirmed before the mint leg.
PreviousConfirmed_m1(i, l) == l > 0 => leg_status[<<i, l - 1>>] \in {"Authorized", "Confirmed"}
PreviousConfirmed_m2(i, l) == l > 0 => leg_status[<<i, l>>] = "Confirmed"
PreviousConfirmed(i, l) == l > 0 => leg_status[<<i, l - 1>>] = "Confirmed"

LegReady(i, l) ==
  /\ HasLeg(terms[i].kind, l)
  /\ status[i] \in {"Approved", "Executing"}
  /\ approval_count[i] >= config.threshold
  /\ TimelockOver(i)
  /\ leg_status[<<i, l>>] = "Pending"
  /\ PreviousConfirmed(i, l)

\* The supply rules, run again against the current ledger.  Only a mint or a
\* burn intent changes the global total; a move keeps it through both legs.
SupplyRules_m1(t, l) == LegAction(t, l) = "burn" => t.amount <= authorized[LegChain(t, l)]
SupplyRules_m2(t, l) ==
  LegAction(t, l) = "mint" => authorized[LegChain(t, l)] + t.amount <= deployment[LegChain(t, l)].cap
SupplyRules(t, l) ==
  LET c == LegChain(t, l) IN
  IF LegAction(t, l) = "mint"
  THEN /\ authorized[c] + t.amount <= deployment[c].cap
       /\ t.kind = "Mint" => authorized_total + t.amount <= config.global_cap
  ELSE /\ t.amount <= authorized[c]
       /\ t.kind = "Burn" => t.amount <= authorized_total

NewAuthorized_m1(t, l) ==
  LET old == authorized[LegChain(t, l)] IN
  IF t.kind = "Mint" THEN old + t.amount ELSE old - t.amount
NewAuthorized(t, l) ==
  LET old == authorized[LegChain(t, l)] IN
  IF LegAction(t, l) = "mint" THEN old + t.amount ELSE old - t.amount

NewTotal_m1(t, l) ==
  IF LegAction(t, l) = "mint" THEN authorized_total + t.amount ELSE authorized_total - t.amount
NewTotal(t, l) ==
  CASE t.kind = "Mint" -> authorized_total + t.amount
    [] t.kind = "Burn" -> authorized_total - t.amount
    [] t.kind = "Move" -> authorized_total

\* The write-back that ends execute_leg.
WriteBack(i, l, new_status) ==
  /\ leg_status' = [leg_status EXCEPT ![<<i, l>>] = new_status]
  /\ executed_at' = [executed_at EXCEPT ![<<i, l>>] = now]
  /\ status' = [status EXCEPT ![i] =
                  IF AllConfirmed(leg_status', i) THEN "Executed" ELSE "Executing"]
  /\ authorized' = [authorized EXCEPT ![LegChain(terms[i], l)] = NewAuthorized(terms[i], l)]
  /\ authorized_total' = NewTotal(terms[i], l)
  /\ UNCHANGED <<config, chain_count, intent_count, deployment, terms, approvals,
                 approval_count, approved_at, now>>

\* Solana-native leg: the Token-2022 CPI is the confirmation.  MintTo credits
\* the recipient, Burn debits the treasury, the one account the PDA owns.
ExecuteNativeLeg(signer, i, l) ==
  LET t == terms[i]
      c == LegChain(t, l)
  IN
  /\ IsOperator(signer) /\ LegReady(i, l) /\ SupplyRules(t, l)
  /\ deployment[c].leg_kind = "SolanaNative"
  /\ LegAccount(t, l) \in Bytes32
  /\ \/ /\ LegAction(t, l) = "mint"
        /\ token_supply' = [token_supply EXCEPT ![c] = @ + t.amount]
        /\ treasury_balance' = [treasury_balance EXCEPT ![c] =
              IF t.recipient = Treasury THEN @ + t.amount ELSE @]
     \/ /\ LegAction(t, l) = "burn"
        /\ t.source = Treasury /\ t.amount <= treasury_balance[c]
        /\ token_supply' = [token_supply EXCEPT ![c] = @ - t.amount]
        /\ treasury_balance' = [treasury_balance EXCEPT ![c] = @ - t.amount]
  /\ WriteBack(i, l, "Confirmed")
  /\ UNCHANGED message_approvals

\* Ika foreign leg: approve_message creates the MessageApproval account of this
\* digest, and fails when it exists.  Whether the dWallet is active is Ika's
\* choice: when it is not, the instruction fails and nothing happens.
ExecuteForeignLeg(signer, i, l) ==
  /\ IsOperator(signer) /\ LegReady(i, l) /\ SupplyRules(terms[i], l)
  /\ deployment[LegChain(terms[i], l)].leg_kind = "IkaForeign"
  /\ Authorization(i, l) \notin message_approvals
  /\ message_approvals' = message_approvals \cup {Authorization(i, l)}
  /\ WriteBack(i, l, "Authorized")
  /\ UNCHANGED tokenVars

\* Instruction 5: an operator reports a destination transaction.  The program
\* takes its word for it.
ConfirmLeg(signer, i, l) ==
  /\ IsOperator(signer)
  /\ leg_status[<<i, l>>] = "Authorized"
  /\ leg_status' = [leg_status EXCEPT ![<<i, l>>] = "Confirmed"]
  /\ status' = [status EXCEPT ![i] = IF AllConfirmed(leg_status', i) THEN "Executed" ELSE @]
  /\ UNCHANGED <<assetVars, chainVars, terms, approvals, approval_count, approved_at,
                 executed_at, message_approvals, tokenVars, now>>

-----------------------------------------------------------------------------
(* The environment: the clock, and holders of the Solana token sending some  *)
(* of it to the treasury account.                                            *)

Tick ==
  /\ now < TimeBound
  /\ now' = now + 1
  /\ UNCHANGED <<ledgerVars, message_approvals, tokenVars>>

HolderReturns(c, x) ==
  /\ treasury_balance[c] + x <= token_supply[c]
  /\ treasury_balance' = [treasury_balance EXCEPT ![c] = @ + x]
  /\ UNCHANGED <<ledgerVars, message_approvals, token_supply, now>>

\* The intents that may be proposed to this instance.
Proposals == {t \in [kind : Kinds, amount : Amounts, proposer : Keys,
                     src_chain : ChainIds \cup {NoChain}, dst_chain : ChainIds \cup {NoChain},
                     recipient : Accounts \cup {NoAccount}, source : Accounts \cup {NoAccount}] :
                WellFormed(t)}

Next ==
  \/ \E cfg \in AssetConfigs : InitAsset(cfg)
  \/ \E s \in Keys, c \in ChainIds : \E k \in ChainConfigs[c] : AddChain(s, c, k)
  \/ \E t \in Proposals : CreateIntent(t)
  \/ \E k \in Keys, i \in IntentIds : ApproveIntent(k, i)
  \/ \E s \in Keys, i \in IntentIds, l \in LegIds : ExecuteNativeLeg(s, i, l)
  \/ \E s \in Keys, i \in IntentIds, l \in LegIds : ExecuteForeignLeg(s, i, l)
  \/ \E s \in Keys, i \in IntentIds, l \in LegIds : ConfirmLeg(s, i, l)
  \/ Tick
  \/ \E c \in ChainIds, x \in Amounts : HolderReturns(c, x)

Spec == Init /\ [][Next]_vars

\* The operators' side keeps running: the executor retries a leg it may
\* execute and reports the ones it delivered, and the clock advances.  Nobody
\* is obliged to propose or approve.
Fairness ==
  /\ WF_vars(Tick)
  /\ \A i \in IntentIds, l \in LegIds :
       /\ WF_vars(ExecuteNativeLeg(Executor, i, l))
       /\ WF_vars(ExecuteForeignLeg(Executor, i, l))
       /\ WF_vars(ConfirmLeg(Executor, i, l))

FairSpec == Spec /\ Fairness

-----------------------------------------------------------------------------
(* Types.                                                                    *)

AuthorizationMessage ==
  [chain : ChainIds, action : {"mint", "burn"}, amount : U64, account : Accounts, nonce : U64]

\* Every account holds values of its layout (state.rs), the clock and the token
\* amounts stay in range.
TypeOK ==
  /\ config \in AssetConfigs \cup {NoConfig}
  /\ authorized_total \in U64 /\ chain_count \in 0 .. MAX_CHAINS /\ intent_count \in 0 .. IntentBound
  /\ deployment \in [ChainIds -> Deployment]
  /\ authorized \in [ChainIds -> U64]
  /\ terms \in [IntentIds -> Terms \cup {NoTerms}]
  /\ status \in [IntentIds -> Statuses]
  /\ approvals \in [IntentIds -> SUBSET (1 .. MAX_APPROVERS)]
  /\ approval_count \in [IntentIds -> Nat]
  /\ approved_at \in [IntentIds -> 0 .. TimeBound]
  /\ leg_status \in [Legs -> LegStatuses]
  /\ executed_at \in [Legs -> 0 .. TimeBound]
  /\ message_approvals \subseteq AuthorizationMessage
  /\ token_supply \in [ChainIds -> U64]
  /\ treasury_balance \in [ChainIds -> U64]
  /\ now \in 0 .. TimeBound

-----------------------------------------------------------------------------
(* What is true of the ledger.                                               *)

Executed(i, l) == leg_status[<<i, l>>] \in {"Authorized", "Confirmed"}

\* A move whose burn leg has left its source chain and whose mint leg has not
\* reached its destination.
InFlight(i) == terms[i].kind = "Move" /\ Executed(i, 0) /\ leg_status[<<i, 1>>] = "Pending"
InFlightAmount == [i \in IntentIds |-> IF InFlight(i) THEN terms[i].amount ELSE 0]
InFlightSum    == SumOver(InFlightAmount, IntentIds)
IssuedSum      == SumOver(authorized, ChainIds)

\* The approvers who approved an intent, as keys.
ApprovedBy(i) == {config.approvers[n] : n \in approvals[i]}

\* The global total the caps are checked against is exactly what the chains
\* carry plus what is in flight between the two legs of a move: no sequence of
\* partly executed intents makes the ledger lose or invent supply
\* (instructions.rs:609-646, 764-772).
SupplyAccounting == authorized_total = IssuedSum + InFlightSum

\* No interleaving of intents created against the same headroom takes a chain
\* over its cap or the asset over its global cap, in-flight moves included: the
\* caps are not reserved at creation and rest on the check at execution
\* (instructions.rs:609-646).
CapsHold ==
  /\ \A c \in ChainIds : authorized[c] <= deployment[c].cap
  /\ IssuedSum + InFlightSum <= config.global_cap

\* lib.rs:5-8: no leg is executed unless enough distinct approvers, none of
\* them the proposer, approved the intent, even when the approver list names a
\* key twice.
PolicyGate ==
  \A i \in IntentIds, l \in LegIds : Executed(i, l) =>
    /\ Cardinality(ApprovedBy(i)) >= config.threshold
    /\ terms[i].proposer \notin ApprovedBy(i)

\* lib.rs:5-8: no leg is executed before the timelock, counted in seconds from
\* the last approval, is over.
TimelockGate ==
  \A i \in IntentIds, l \in LegIds : Executed(i, l) =>
    executed_at[<<i, l>>] >= approved_at[i] + config.timelock_secs

\* What Ika is asked to sign is exactly the executed foreign legs, one
\* authorization per leg, and no two authorizations share a nonce, so that a
\* controller that honours a nonce once honours a leg once
\* (instructions.rs:689-745, digest.rs:48-52).
OneAuthorizationPerLeg ==
  /\ message_approvals =
       {Authorization(g[1], g[2]) : g \in
          {h \in Legs : /\ Executed(h[1], h[2])
                        /\ deployment[LegChain(terms[h[1]], h[2])].leg_kind = "IkaForeign"}}
  /\ \A a, b \in message_approvals : a.nonce = b.nonce => a = b

\* An intent's status and its legs tell the same story: nothing runs before
\* approval, the mint leg of a move runs only after its burn leg is confirmed,
\* and an intent is Executed exactly when its last leg is confirmed
\* (instructions.rs:590-599, 754-762, 815-819).
StatusMatchesLegs ==
  \A i \in IntentIds :
    /\ (\E l \in LegIds : Executed(i, l)) <=> status[i] \in {"Executing", "Executed"}
    /\ status[i] = "Executed" <=> status[i] # "None" /\ AllConfirmed(leg_status, i)
    /\ Executed(i, 1) => leg_status[<<i, 0>>] = "Confirmed"

\* README.md:75, "so they start equal", and they stay equal on Solana: the
\* Token-2022 supply of the native chain is its authorized supply after every
\* transaction, because the CPI and the book entry are one (instructions.rs:656-688).
NativeParity ==
  \A c \in ChainIds : Registered(c) /\ deployment[c].leg_kind = "SolanaNative" =>
    /\ token_supply[c] = authorized[c]
    /\ treasury_balance[c] <= token_supply[c]

\* What was proposed is what is executed: no instruction changes the terms of an
\* intent, approvals are only added and only before approval, the approval time
\* is fixed once set, and a leg never goes back (a leg executed again would
\* issue twice).
LegRank(s) == CASE s = "None" -> 0 [] s = "Pending" -> 1 [] s = "Authorized" -> 2 [] s = "Confirmed" -> 3
IntentsOnlyAdvance ==
  [][\A i \in IntentIds : status[i] # "None" =>
       /\ terms'[i] = terms[i]
       /\ approvals[i] \subseteq approvals'[i]
       /\ status[i] # "PendingApproval" =>
            /\ approvals'[i] = approvals[i]
            /\ approved_at'[i] = approved_at[i]
            /\ status'[i] # "PendingApproval"
       /\ \A l \in LegIds :
            /\ LegRank(leg_status[<<i, l>>]) <= LegRank(leg_status'[<<i, l>>])
            /\ Executed(i, l) => executed_at'[<<i, l>>] = executed_at[<<i, l>>]]_vars

\* A leg that is due is blocked: a supply rule refuses it, the treasury cannot
\* cover it, its burn source is not the treasury, its unlock time overflows (or
\* lies beyond the bound on the clock).
Blocked(i, l) ==
  LET t == terms[i]
      c == LegChain(t, l)
  IN
  /\ leg_status[<<i, l>>] = "Pending" /\ (l = 0 \/ leg_status[<<i, 0>>] = "Confirmed")
  /\ \/ ~SupplyRules(t, l)
     \/ Unlock(i) > TimeBound
     \/ /\ deployment[c].leg_kind = "SolanaNative"
        /\ \/ LegAccount(t, l) \notin Bytes32
           \/ LegAction(t, l) = "burn" /\ (t.source # Treasury \/ t.amount > treasury_balance[c])

\* An approved intent is settled: every leg is executed and confirmed in order,
\* or from some point on the ledger refuses its next leg for good.  There is no
\* other way to lose an approved intent, in particular no half-confirmed move
\* that no instruction can take further (instructions.rs:582-599, 785-821).
ApprovedIsSettled ==
  \A i \in IntentIds :
    status[i] \in {"Approved", "Executing"} ~>
      (status[i] = "Executed" \/ [](\E l \in LegIds : Blocked(i, l)))
=============================================================================

----------------------------- MODULE ConsoleView -----------------------------
(***************************************************************************)
(* The console over the ledger's accounts: what app/src/server/devnet.ts    *)
(* makes of the accounts the SDK decodes and of the deployment file, what   *)
(* the form and the rules of the console make of that, and the tables by    *)
(* which a rejection is explained.  Evaluated on the state of Accounts.     *)
(* The three calls of getLedger are taken to read at one moment.            *)
(***************************************************************************)
EXTENDS Accounts, PolicyMirror

LOCAL SQV == INSTANCE SequencesExt
LOCAL FSV == INSTANCE FiniteSetsExt

-----------------------------------------------------------------------------
(* lib/chains.ts and the file the set-up leaves.                             *)

ConsoleChains ==
  LET evm(n) == [id |-> n, curve |-> "secp256k1", encoding |-> "eip712"] IN
  [solana |-> [id |-> 1, curve |-> "n/a", encoding |-> "native"], ethereum |-> evm(2), base |-> evm(3),
   sui |-> [id |-> 4, curve |-> "ed25519", encoding |-> "raw"], tempo |-> evm(5)]
chainById(id) == CHOOSE key \in DOMAIN ConsoleChains : ConsoleChains[key].id = id

ApproverNames == <<"alice", "bob", "carol">>
DeploymentFile ==
  LET dwallet(curve) == [pda |-> <<"dwallet", curve>>, publicKeyHex |-> <<"key", curve>>,
                         address |-> <<"address", <<"key", curve>>>>]
  IN [approvers |-> [n \in DOMAIN config.approvers |->
                       [name |-> ApproverNames[n], pubkey |-> config.approvers[n]]],
      dwallets |-> [secp256k1 |-> dwallet(0), curve25519 |-> dwallet(2)],
      mintAuthority |-> <<"mint_authority", AssetPda>>, chains |-> ChainIds]

-----------------------------------------------------------------------------
(* Addresses as text: base58 on Solana, hex elsewhere.  Text may be typed in *)
(* the other case: hex digits mean the same, base58 digits do not.           *)

Base(key) == IF key = "solana" THEN 58 ELSE 16
Text(base, bytes) == [base |-> base, bytes |-> bytes, case |-> "as shown"]
NoText == Text(0, NoAccount)
bytesToChainString(key, b) == IF b = NoAccount THEN NoText ELSE Text(Base(key), b)
\* Text of the other alphabet does not decode to what it stands for.
chainStringToBytes(key, s) ==
  IF s.base = Base(key) /\ (s.base = 58 => s.case = "as shown") THEN s.bytes ELSE Garbage

-----------------------------------------------------------------------------
(* getLedger.                                                                *)

Authority(d, key) ==
  CASE key = "solana" -> d.mintAuthority
    [] key = "sui" -> d.dwallets.curve25519.address
    [] OTHER -> d.dwallets.secp256k1.address

mapChain(d, c) ==
  LET key == chainById(c.chainId) IN
  [chain |-> key, chainId |-> c.chainId, contractAddress |-> bytesToChainString(key, c.contract),
   authority |-> Authority(d, key), encoding |-> ConsoleChains[key].encoding,
   curve |-> ConsoleChains[key].curve, authorized |-> c.authorized, cap |-> c.cap]

KIND_SHOWN   == <<"mint", "burn", "move">>
STATUS_SHOWN == <<"pending_approval", "approved", "executing", "executed">>
Never == -1
iso(secs) == IF secs > 0 THEN secs ELSE Never

\* The approvers whose bit is set, by their place in the deployment file; _m1
\* counts the bits from one.
ApproversShown_m1(d, bitmap) ==
  {d.approvers[n].name : n \in {k \in DOMAIN d.approvers : (bitmap \div 2 ^ k) % 2 = 1}}
ApproversShown(d, bitmap) ==
  {d.approvers[n].name : n \in {k \in DOMAIN d.approvers : (bitmap \div 2 ^ (k - 1)) % 2 = 1}}
ProposerShown(d, key) ==
  LET at == {n \in DOMAIN d.approvers : d.approvers[n].pubkey = key} IN
  IF at = {} THEN "alice" ELSE d.approvers[CHOOSE n \in at : \A k \in at : n <= k].name

mapLeg(it, l) ==
  LET key == chainById(l.chainId) IN
  [action |-> IF l.action = 0 THEN "mint" ELSE "burn", chain |-> key, amount |-> it.amount,
   account |-> bytesToChainString(key, IF l.action = 0 THEN it.recipient ELSE it.source)]
mapExecution(l) ==
  LET pending == [status |-> "pending", messageApproval |-> Zero, messageDigest |-> Zero,
                  destTxHash |-> NoText]
      key == chainById(l.chainId)
  IN IF l.status = 0 THEN pending ELSE
     [status |-> IF l.status = 2 THEN "confirmed" ELSE "signing",
      messageApproval |-> l.messageApproval, messageDigest |-> l.messageDigest,
      \* Sui transaction digests are base58, unlike Sui addresses.
      destTxHash |-> IF l.destTx = NoAccount THEN NoText ELSE IF key = "sui" THEN Text(58, l.destTx)
                     ELSE bytesToChainString(key, l.destTx)]
mapIntent(d, it) ==
  LET kind == KIND_SHOWN[it.kind + 1] IN
  [index |-> it.index, type |-> kind, amount |-> it.amount, memo |-> it.memo,
   legs |-> [n \in DOMAIN it.legs |-> mapLeg(it, it.legs[n])],
   recipient |-> IF kind = "burn" THEN NoText ELSE bytesToChainString(chainById(it.dstChain), it.recipient),
   source |-> IF kind = "mint" THEN NoText ELSE bytesToChainString(chainById(it.srcChain), it.source),
   proposer |-> ProposerShown(d, it.proposer), status |-> STATUS_SHOWN[it.status + 1],
   approvals |-> ApproversShown(d, it.approvalsBitmap), approvedAt |-> iso(it.approvedAt),
   execution |-> IF it.status = 0 THEN <<>> ELSE [n \in DOMAIN it.legs |-> mapExecution(it.legs[n])]]

getLedger ==
  LET d         == DeploymentFile
      asset_    == fetchAsset
      sdkChains == fetchChains(d.chains)
  IN [globalCap |-> asset_.globalCap, threshold |-> asset_.threshold,
      timelockSeconds |-> asset_.timelockSecs, approvers |-> d.approvers,
      chains |-> {mapChain(d, c) : c \in sdkChains},
      allowlist |-> [key \in {chainById(c.chainId) : c \in sdkChains} |->
                       LET c == CHOOSE x \in sdkChains : x.chainId = ConsoleChains[key].id IN
                       [n \in DOMAIN c.allowlist |-> bytesToChainString(key, c.allowlist[n])]],
      intents |-> {mapIntent(d, it) : it \in fetchIntents}]

-----------------------------------------------------------------------------
(* The form (NewIntentModal.tsx): the source is the first account on the     *)
(* source chain's allowlist, the recipient an entry of the other's list or   *)
(* one that was typed.                                                       *)

NoKeyChosen == "no_chain"
Typed(key) == {[base |-> Base(key), bytes |-> a, case |-> k] : a \in Accounts, k \in {"as shown", "other"}}
FormDrafts(view) ==
  LET keys == DOMAIN view.allowlist
      recipients(key) == SQV!ToSet(view.allowlist[key]) \cup Typed(key)
      draft(type, x, src, dst, r) ==
        [type |-> type, amount |-> x, srcChain |-> src, dstChain |-> dst, recipient |-> r,
         source |-> IF type = "mint" THEN NoText ELSE view.allowlist[src][1]]
  IN UNION {UNION {{draft("mint", x, NoKeyChosen, key, r) : r \in recipients(key)},
                   {draft("burn", x, key, NoKeyChosen, NoText)},
                   {draft("move", x, src, key, r) : src \in keys, r \in recipients(key)}} :
              key \in keys, x \in {0, 1, 3}}

\* policy.ts, evaluate: the rules a draft fails on the view.  Recipients are
\* compared in lower case.
Failing(draft, view) ==
  LET chainOf(key) == CHOOSE c \in view.chains : c.chain = key
      total == FSV!MapThenSumSet(LAMBDA c : c.authorized, view.chains)
      from  == draft.srcChain
      to    == draft.dstChain
  IN {r \in {"amount", "globalCap", "supply", "chainCap", "allowlist"} :
       CASE r = "amount"    -> draft.amount = 0
         [] r = "globalCap" -> draft.type = "mint" /\ total + draft.amount > view.globalCap
         [] r = "supply"    -> draft.type # "mint" /\ chainOf(from).authorized < draft.amount
         [] r = "chainCap"  -> /\ draft.type # "burn"
                               /\ from = to \/ chainOf(to).authorized + draft.amount > chainOf(to).cap
         [] r = "allowlist" -> /\ draft.type # "burn"
                               /\ \A n \in DOMAIN view.allowlist[to] :
                                    view.allowlist[to][n].bytes # draft.recipient.bytes}

\* server/devnet.ts, createIntent: the arguments of the instruction.
KindSent(type) == NameOf(IntentKind, (CHOOSE n \in 1 .. 3 : KIND_SHOWN[n] = type) - 1)
ChainSent(key) == IF key = NoKeyChosen THEN NoChain ELSE ConsoleChains[key].id
AccountSent(key, s) == IF s = NoText THEN NoAccount ELSE chainStringToBytes(key, s)
Sent(draft, approver) ==
  [kind |-> KindSent(draft.type), amount |-> draft.amount, proposer |-> approver,
   src_chain |-> ChainSent(draft.srcChain), dst_chain |-> ChainSent(draft.dstChain),
   recipient |-> AccountSent(draft.dstChain, draft.recipient),
   source |-> AccountSent(draft.srcChain, draft.source)]

\* evaluateExecution: the rules an intent fails.
UnlockShown(it, view) == it.approvedAt + view.timelockSeconds
FailingExecution(it, view) ==
  {r \in {"threshold", "timelock"} :
     CASE r = "threshold" -> Cardinality(it.approvals) < view.threshold \/ it.proposer \in it.approvals
       [] r = "timelock"  -> it.approvedAt = Never \/ now < UnlockShown(it, view)}

-----------------------------------------------------------------------------
(* Why an instruction rejects: the first rule that fails, by its code        *)
(* (error.rs), and the two tables that explain the code.                     *)

Accepted == -1
\* _m1 has the program apply the global cap to a move as well.
CapApplies_m1(t) == t.kind # "Burn"
CapApplies(t) == t.kind = "Mint"
CreateError(t) ==
  LET from == t.src_chain
      to   == t.dst_chain
  IN CASE t.amount = 0 -> 0
       [] ~IsApprover(t.proposer) -> 5
       [] t.kind = "Move" /\ from = to -> 22
       [] t.kind # "Mint" /\ authorized[from] < t.amount -> 3
       [] CapApplies(t) /\ authorized_total + t.amount > config.global_cap -> 1
       [] t.kind # "Burn" /\ authorized[to] + t.amount > deployment[to].cap -> 2
       [] t.kind # "Burn" /\ t.recipient \notin deployment[to].allowlist -> 4
       [] OTHER -> Accepted
ApproveError(key, i) ==
  CASE ~IsApprover(key) -> 5
    [] status[i] # "PendingApproval" -> 10
    [] key = terms[i].proposer -> 6
    [] ApproverIndex(key) \in approvals[i] -> 7
    [] OTHER -> Accepted
ExecuteError(i, l) ==
  LET t == terms[i]
      c == LegChain(t, l)
      mint == LegAction(t, l) = "mint"
  IN CASE status[i] \notin {"Approved", "Executing"} -> 10
       [] approval_count[i] < config.threshold -> 8
       [] Unlock(i) > I64Max -> 21
       [] now < Unlock(i) -> 9
       [] leg_status[<<i, l>>] # "Pending" -> 10
       [] ~PreviousConfirmed(i, l) -> 11
       [] mint /\ authorized[c] + t.amount > deployment[c].cap -> 2
       [] t.kind = "Mint" /\ authorized_total + t.amount > config.global_cap -> 1
       [] ~mint /\ t.amount > authorized[c] -> 3
       [] t.kind = "Burn" /\ t.amount > authorized_total -> 3
       [] OTHER -> Accepted

\* The rule each table names for a code: sdk/src/errors.ts and policy.ts.
Messages(code) ==
  CASE code = 0 -> "amount" [] code = 1 -> "globalCap" [] code = 2 -> "chainCap" [] code = 3 -> "supply"
    [] code = 4 -> "allowlist" [] code = 5 -> "proposer" [] code \in {6, 7} -> "approval"
    [] code = 8 -> "threshold" [] code = 9 -> "timelock" [] code = 10 -> "status" [] code = 11 -> "leg"
    [] code = 21 -> "overflow" [] code = 22 -> "chain"
ProgramErrors(code) ==
  CASE code = 0 -> "amount" [] code = 1 -> "globalCap" [] code \in {2, 22} -> "chainCap" [] code = 3 -> "supply"
    [] code = 4 -> "allowlist" [] code \in 5 .. 8 -> "threshold" [] code = 9 -> "timelock"
    [] code \in {10, 11, 21} -> "status"

\* The two buttons of IntentDrawer.tsx.
CanApprove(it, approver) ==
  it.status = "pending_approval" /\ approver # it.proposer /\ approver \notin it.approvals
CanExecute(it, view) ==
  it.status \in {"approved", "executing"} /\ it.approvedAt # Never /\ now >= UnlockShown(it, view)

-----------------------------------------------------------------------------

KeyNamed(name) == config.approvers[CHOOSE n \in DOMAIN config.approvers : ApproverNames[n] = name]
CodeOf(table, shown) == CHOOSE n \in DOMAIN table : table[n] = shown

\* The identity that can issue on a chain: the mint authority of the Token-2022
\* mint, or the address of the dWallet its account names.
Issuer(c) ==
  LET mem == accounts[ChainPda(c)] IN
  IF deployment[c].leg_kind = "SolanaNative" THEN <<"mint_authority", AssetPda>>
  ELSE <<"address", Read(mem, chain.DWALLET_PUBKEY, 65, Zero)>>

\* What the console's components are promised (app/src/types.ts).
ShownChain(c) ==
  /\ c.chain \in DOMAIN ConsoleChains /\ c.encoding \in {"native", "eip712", "raw"}
  /\ c.authorized \in 0 .. c.cap
ShownLeg(k) == k.action \in {"mint", "burn"} /\ k.chain \in DOMAIN ConsoleChains /\ k.account # NoText
ShownExecution(x) == x.status \in {"pending", "signing", "confirmed"} /\ (x.destTxHash # NoText => x.status = "confirmed")
ShownIntent(it) ==
  /\ it.type \in {"mint", "burn", "move"} /\ it.status \in SQV!ToSet(STATUS_SHOWN)
  /\ (it.recipient = NoText) = (it.type = "burn") /\ (it.source = NoText) = (it.type = "mint")
  /\ it.proposer \in SQV!ToSet(ApproverNames) /\ it.approvals \subseteq SQV!ToSet(ApproverNames)
  /\ \A n \in DOMAIN it.legs : ShownLeg(it.legs[n])
  /\ Len(it.execution) \in {0, Len(it.legs)} /\ \A n \in DOMAIN it.execution : ShownExecution(it.execution[n])

ChainIsShown(c) ==
  /\ ShownChain(c)
  /\ c.authorized = authorized[c.chainId] /\ c.cap = deployment[c.chainId].cap
  /\ c.authority = Issuer(c.chainId)
  /\ c.encoding = "eip712" <=> ReadInt(accounts[ChainPda(c.chainId)], chain.ENCODING, 1) = 1
IntentIsShown(it) ==
  LET i == it.index IN
  /\ ShownIntent(it)
  /\ {KeyNamed(name) : name \in it.approvals} = ApprovedBy(i)
  /\ Cardinality(it.approvals) = approval_count[i]
  /\ KeyNamed(it.proposer) = terms[i].proposer
  /\ CodeOf(STATUS_SHOWN, it.status) - 1 = STATUS[status[i]]
  /\ \A n \in DOMAIN it.legs :
       /\ it.legs[n].action = LegAction(terms[i], n - 1)
       /\ ConsoleChains[it.legs[n].chain].id = LegChain(terms[i], n - 1)
       /\ it.legs[n].account.bytes = LegAccount(terms[i], n - 1)
  /\ \A n \in DOMAIN it.execution :
       it.execution[n].status = CASE leg_status[<<i, n - 1>>] = "Pending" -> "pending"
                                  [] leg_status[<<i, n - 1>>] = "Authorized" -> "signing"
                                  [] OTHER -> "confirmed"

\* What the console shows is the ledger, through four encodings (account bytes,
\* SDK numbers, the deployment file, the console's names): each chain with the
\* identity that can issue on it, each intent with the people who proposed and
\* approved it, where the program keeps only places in a list (devnet.ts:132-202).
ConsoleShowsLedger ==
  Initialized =>
    LET v == getLedger IN
    /\ {c.chainId : c \in v.chains} = RegisteredIds /\ \A c \in v.chains : ChainIsShown(c)
    /\ {it.index : it \in v.intents} = CreatedIds /\ \A it \in v.intents : IntentIsShown(it)

\* Base58 text typed in the other case passes for the listed account.
SameText(draft) == draft.dstChain = "solana" => draft.recipient.case = "as shown"

DraftsAreExplained(v) ==
  \A draft \in FormDrafts(v) :
    LET t == Sent(draft, config.approvers[1])
        e == CreateError(t)
        failing == Failing(draft, v)
    IN SameText(draft) =>
         /\ e = Accepted <=> failing = {}
         /\ e = Accepted => WellFormed(t) /\ SourceRules(t) /\ DestinationRules(t)
         /\ e # Accepted => ProgramErrors(e) \in failing
         \* The SDK's table names no rule of its own for a move to itself.
         /\ e \notin {Accepted, 22} => Messages(e) \in SdkFailures(t)

\* The set-up gives every approver a key of his own.
KeysDiffer == Cardinality({config.approvers[n] : n \in DOMAIN config.approvers}) = Len(config.approvers)
ApprovalsAreExplained(it) ==
  KeysDiffer =>
    \A n \in DOMAIN config.approvers :
      LET e == ApproveError(config.approvers[n], it.index) IN
      /\ e = Accepted <=> CanApprove(it, ApproverNames[n])
      \* The note beside a disabled button.
      /\ it.status = "pending_approval" /\ e # Accepted => (e = 6 <=> it.proposer = ApproverNames[n])

ExecutionsAreExplained(v, it) ==
  LET i == it.index
      failing == FailingExecution(it, v)
  IN \A n \in DOMAIN it.legs :
       LET e == ExecuteError(i, n - 1) IN
       /\ e \in {8, 9} => ProgramErrors(e) \in failing /\ Messages(e) = ProgramErrors(e)
       /\ CanExecute(it, v) => failing = {} /\ e \notin {8, 9, 21}
       /\ e \in {Accepted, 1, 2, 3, 11} => CanExecute(it, v)

\* errors.ts:1 and policy.ts:136, tables by which a rejection is explained, and the
\* copies of the rules beside them: the program accepts a draft of the form exactly
\* when no rule of the console fails it; it takes an approval exactly when the
\* button is offered to that approver; the execute button is offered exactly when
\* threshold and timelock let a leg through; and when the program rejects, the rule
\* named for its code is one that the copy beside the table reports as failed.
RejectionNamesAFailedRule ==
  Initialized /\ InFlightSum = 0 =>
    LET v == getLedger IN
    /\ DraftsAreExplained(v)
    \* 0 as the time of approval stands for unset; a clock is past it.
    /\ \A it \in v.intents : ApprovalsAreExplained(it)
    /\ \A it \in v.intents : approved_at[it.index] > 0 => ExecutionsAreExplained(v, it)
=============================================================================

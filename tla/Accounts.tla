------------------------------ MODULE Accounts ------------------------------
(***************************************************************************)
(* The ledger as bytes.  IssuerLedger says what each instruction decides;   *)
(* this module says what a client puts into the instruction's data          *)
(* (sdk/src/instructions.ts), where the program takes it from               *)
(* (instructions.rs), where it writes it in its accounts (state.rs), and    *)
(* what the SDK reads there (sdk/src/layout.ts, accounts.ts, digest.ts).    *)
(* The two sides are written in two languages and "kept in sync by hand".   *)
(***************************************************************************)
EXTENDS IssuerLedger, Memory

SQX == INSTANCE SequencesExt

CONSTANT Zero  \* bytes that are all zero, or none

VARIABLES
  accounts,  \* the program's accounts: address -> memory, for those that exist
  asked      \* address -> what the client that created the account asked for

byteVars    == <<accounts, asked>>
accountVars == <<vars, byteVars>>

-----------------------------------------------------------------------------
(* Values as bytes.                                                          *)

ReadInt(mem, off, width) == Read(mem, off, width, 0)
Read32(mem, off) == Read(mem, off, 32, Zero)

\* A byte string of at most 64 bytes: len(1) | bytes(64).
ADDR_LEN == 65
ByteLen(x) == IF x = NoAccount THEN 0 ELSE IF x \in Accounts \ Bytes32 THEN 20 ELSE 32
PadAddr(x) == Bytes(1, ByteLen(x)) ++ Bytes(64, x)
AddrFields(off, x) == {<<off, 1, ByteLen(x)>>, <<off + 1, 64, x>>}
ReadAddr(mem, off) == IF ReadInt(mem, off, 1) = 0 THEN NoAccount ELSE Read(mem, off + 1, 64, NoAccount)

-----------------------------------------------------------------------------
(* The two descriptions of the accounts.  Rust: state.rs.                    *)

asset ==
  [CREATE_KEY |-> 2, ADMIN |-> 34, EXECUTOR |-> 66, SYMBOL |-> 98, DECIMALS |-> 106,
   THRESHOLD |-> 107, APPROVER_COUNT |-> 108, CHAIN_COUNT |-> 109, GLOBAL_CAP |-> 110,
   AUTHORIZED_TOTAL |-> 118, INTENT_COUNT |-> 126, TIMELOCK_SECS |-> 134, APPROVERS |-> 142,
   BUMP |-> 302, MINT_AUTHORITY_BUMP |-> 303, IKA_PROGRAM |-> 304]
chain ==
  [ASSET |-> 2, CHAIN_ID |-> 34, LEG_KIND |-> 36, ENCODING |-> 37, CURVE |-> 38,
   SIGNATURE_SCHEME |-> 40, DWALLET |-> 42, DWALLET_PUBKEY_LEN |-> 74, DWALLET_PUBKEY |-> 75,
   CONTRACT |-> 140, DOMAIN_SEPARATOR |-> 205, AUTHORIZED |-> 237, CAP |-> 245,
   ALLOWLIST_COUNT |-> 253, ALLOWLIST |-> 254, BUMP |-> 514]
intent ==
  [ASSET |-> 2, INDEX |-> 34, KIND |-> 42, STATUS |-> 43, PROPOSER |-> 44, AMOUNT |-> 76,
   SRC_CHAIN |-> 84, DST_CHAIN |-> 86, RECIPIENT |-> 88, SOURCE |-> 153, MEMO |-> 218,
   CREATED_AT |-> 250, APPROVED_AT |-> 258, APPROVALS_BITMAP |-> 266, APPROVAL_COUNT |-> 267,
   LEG_COUNT |-> 268, BUMP |-> 269, LEGS |-> 270]
leg ==
  [ACTION |-> 0, CHAIN_ID |-> 1, STATUS |-> 3, MESSAGE_DIGEST |-> 4, MESSAGE_APPROVAL |-> 36,
   DEST_TX |-> 68, EXECUTED_AT |-> 133, CONFIRMED_AT |-> 141, LEN |-> 149]

\* TypeScript: layout.ts.  _m1 has two fields of one width the other way round.
ASSET ==
  [CREATE_KEY |-> 2, ADMIN |-> 34, EXECUTOR |-> 66, SYMBOL |-> 98, DECIMALS |-> 106,
   THRESHOLD |-> 107, APPROVER_COUNT |-> 108, CHAIN_COUNT |-> 109, GLOBAL_CAP |-> 110,
   AUTHORIZED_TOTAL |-> 118, INTENT_COUNT |-> 126, TIMELOCK_SECS |-> 134, APPROVERS |-> 142,
   BUMP |-> 302, MINT_AUTHORITY_BUMP |-> 303, IKA_PROGRAM |-> 304]
CHAIN ==
  [ASSET |-> 2, CHAIN_ID |-> 34, LEG_KIND |-> 36, ENCODING |-> 37, CURVE |-> 38,
   SIGNATURE_SCHEME |-> 40, DWALLET |-> 42, DWALLET_PUBKEY_LEN |-> 74, DWALLET_PUBKEY |-> 75,
   CONTRACT |-> 140, DOMAIN_SEPARATOR |-> 205, AUTHORIZED |-> 237, CAP |-> 245,
   ALLOWLIST_COUNT |-> 253, ALLOWLIST |-> 254, BUMP |-> 514]
INTENT_m1 == [intent EXCEPT !.RECIPIENT = intent.SOURCE, !.SOURCE = intent.RECIPIENT]
INTENT ==
  [ASSET |-> 2, INDEX |-> 34, KIND |-> 42, STATUS |-> 43, PROPOSER |-> 44, AMOUNT |-> 76,
   SRC_CHAIN |-> 84, DST_CHAIN |-> 86, RECIPIENT |-> 88, SOURCE |-> 153, MEMO |-> 218,
   CREATED_AT |-> 250, APPROVED_AT |-> 258, APPROVALS_BITMAP |-> 266, APPROVAL_COUNT |-> 267,
   LEG_COUNT |-> 268, BUMP |-> 269, LEGS |-> 270]
LEG ==
  [ACTION |-> 0, CHAIN_ID |-> 1, STATUS |-> 3, MESSAGE_DIGEST |-> 4, MESSAGE_APPROVAL |-> 36,
   DEST_TX |-> 68, EXECUTED_AT |-> 133, CONFIRMED_AT |-> 141, LEN |-> 149]

\* The numbers the program and the SDK write for a kind, an action or a status.
KIND   == [Mint |-> 0, Burn |-> 1, Move |-> 2]
STATUS == [PendingApproval |-> 0, Approved |-> 1, Executing |-> 2, Executed |-> 3]
LEG_ACTION == [mint |-> 0, burn |-> 1]
LEG_STATUS == [Pending |-> 0, Authorized |-> 1, Confirmed |-> 2]
LEG_KIND   == [SolanaNative |-> 0, IkaForeign |-> 1]

IntentKind   == [Mint |-> 0, Burn |-> 1, Move |-> 2]
IntentStatus == [PendingApproval |-> 0, Approved |-> 1, Executing |-> 2, Executed |-> 3]
LegActions   == [mint |-> 0, burn |-> 1]
LegStatus    == [Pending |-> 0, Authorized |-> 1, Confirmed |-> 2]
LegKind      == [SolanaNative |-> 0, IkaForeign |-> 1]
NameOf(codes, n) == CHOOSE name \in DOMAIN codes : codes[name] = n

\* The registry of chains (sdk/src/chains.ts): Solana, two EVM chains, Sui, an EVM chain.
CHAINS ==
  LET evm == [leg_kind |-> "IkaForeign", encoding |-> 1, curve |-> 0, scheme |-> 0] IN
  <<[leg_kind |-> "SolanaNative", encoding |-> 0, curve |-> 2, scheme |-> 5], evm, evm,
    [leg_kind |-> "IkaForeign", encoding |-> 0, curve |-> 2, scheme |-> 5], evm>>

\* Chains are added from the registry, and a client's allowlist is a list.
ASSUME AccountsAssumption ==
  /\ ChainIds \subseteq DOMAIN CHAINS
  /\ \A c \in ChainIds : \A k \in ChainConfigs[c] : IsFiniteSet(k.allowlist)

\* Addresses the program derives; the SDK derives the same ones from the same seeds.
AssetPda     == <<"asset">>
ChainPda(c)  == <<"chain", AssetPda, c>>
IntentPda(i) == <<"intent", AssetPda, i>>
\* A MessageApproval belongs to a dWallet, a scheme and a digest.
dwalletSeeds(curve, publicKey) == <<"dwallet", curve, publicKey>>
MessageApprovalPda(curve, publicKey, scheme, digest) ==
  dwalletSeeds(curve, publicKey) \o <<"message_approval", scheme, digest>>

-----------------------------------------------------------------------------
(* The message a dWallet signs.  keccak-256 is injective: a digest is what   *)
(* it was taken of.                                                          *)

\* digest.rs.
raw_message(a) ==
  Bytes(15, "IKA_RWA_AUTH_V1") ++ Bytes(32, a.domain) ++ Bytes(1, a.action)
  ++ Bytes(8, a.amount) ++ PadAddr(a.account) ++ Bytes(8, a.nonce) ++ Bytes(32, a.ledger)
struct_hash(a) ==
  Bytes(32, "EIP712_TYPE") ++ Bytes(32, a.action) ++ Bytes(32, a.amount)
  ++ Bytes(32, a.account) ++ Bytes(32, a.nonce) ++ Bytes(32, a.ledger)
eip712_message(a) ==
  Bytes(1, 25) ++ Bytes(1, 1) ++ Bytes(32, a.domain) ++ Bytes(32, struct_hash(a).fields)
message_digest(encoding, a) == (IF encoding = 1 THEN eip712_message(a) ELSE raw_message(a)).fields

\* digest.ts: the raw message field by field at a running offset, the EIP-712
\* one at fixed offsets.  _m1 has the nonce before the account.
AfterAmount_m1(a) ==
  {<<56, 8, a.nonce>>, <<64, 1, ByteLen(a.account)>>, <<65, 64, a.account>>, <<129, 32, a.ledger>>}
AfterAmount(a) ==
  {<<56, 1, ByteLen(a.account)>>, <<57, 64, a.account>>, <<121, 8, a.nonce>>, <<129, 32, a.ledger>>}
rawMessage(a) ==
  {<<0, 15, "IKA_RWA_AUTH_V1">>, <<15, 32, a.domain>>, <<47, 1, a.action>>, <<48, 8, a.amount>>}
  \cup AfterAmount(a)
structHash(a) ==
  (Bytes(32, "EIP712_TYPE") ++ Bytes(32, a.action) ++ Bytes(32, a.amount)
   ++ Bytes(32, a.account) ++ Bytes(32, a.nonce) ++ Bytes(32, a.ledger)).fields
eip712Message(a) == {<<0, 1, 25>>, <<1, 1, 1>>, <<2, 32, a.domain>>, <<34, 32, structHash(a)>>}
messageDigest(encoding, a) == IF encoding = 1 THEN eip712Message(a) ELSE rawMessage(a)

-----------------------------------------------------------------------------
(* Clients: the data of each instruction (sdk/src/instructions.ts).          *)

\* A secp256k1 key has 33 bytes, an ed25519 key 32; a Solana chain has none.
PublicKeyLen(key, curve) == IF key = Zero THEN 0 ELSE IF curve = 0 THEN 33 ELSE 32

buildInitAssetIx(x) ==
  (Bytes(1, 0) ++ Bytes(32, x.create_key) ++ Bytes(8, x.symbol)
   ++ Bytes(1, x.decimals) ++ Bytes(1, x.threshold)
   ++ Bytes(8, x.timelock_secs) ++ Bytes(8, x.global_cap)
   ++ Bytes(32, x.executor) ++ Bytes(32, x.ika_program)
   ++ Bytes(1, x.bump) ++ Bytes(1, x.mint_authority_bump) ++ Bytes(1, Len(x.approvers))
   ++ Rows(32, [n \in DOMAIN x.approvers |-> Bytes(32, x.approvers[n])])).fields

\* How the chain's dWallet signs; _m1 sends the scheme before the curve.
Signing_m1(x) == Bytes(2, x.scheme) ++ Bytes(2, x.curve)
Signing(x) == Bytes(2, x.curve) ++ Bytes(2, x.scheme)
buildAddChainIx(x) ==
  (Bytes(1, 1) ++ Bytes(2, x.chain_id) ++ Bytes(1, LegKind[x.leg_kind])
   ++ Bytes(1, x.encoding) ++ Signing(x) ++ Bytes(32, x.dwallet)
   ++ Bytes(1, PublicKeyLen(x.dwallet_pubkey, x.curve)) ++ Bytes(65, x.dwallet_pubkey)
   ++ PadAddr(x.contract) ++ Bytes(32, x.domain)
   ++ Bytes(8, x.cap) ++ Bytes(8, x.authorized)
   ++ Bytes(1, x.bump) ++ Bytes(1, Len(x.allowlist))
   ++ Rows(ADDR_LEN, [n \in DOMAIN x.allowlist |-> PadAddr(x.allowlist[n])])).fields

buildCreateIntentIx(x) ==
  (Bytes(1, 2) ++ Bytes(1, IntentKind[x.kind]) ++ Bytes(8, x.amount)
   ++ Bytes(2, x.src_chain) ++ Bytes(2, x.dst_chain)
   ++ PadAddr(x.recipient) ++ PadAddr(x.source)
   ++ Bytes(32, x.memo) ++ Bytes(1, x.bump)).fields
buildExecuteLegIx(l, bump) ==
  (Bytes(1, 4) ++ Bytes(1, l) ++ Bytes(1, bump) ++ Bytes(1, 255)).fields
buildConfirmLegIx(l, dest_tx) == (Bytes(1, 5) ++ Bytes(1, l) ++ PadAddr(dest_tx)).fields

-----------------------------------------------------------------------------
(* The program: where each instruction takes its arguments from, and what it *)
(* writes.  process_instruction has split the instruction's number off.      *)

take(data, off, width) == Read(data, off + 1, width, 0)
read_addr_arg(data, off) ==
  IF take(data, off, 1) = 0 THEN NoAccount ELSE take(data, off + 1, 64)

InitAssetArgs(d) ==
  [create_key |-> take(d, 0, 32), symbol |-> take(d, 32, 8), decimals |-> take(d, 40, 1),
   threshold |-> take(d, 41, 1), timelock_secs |-> take(d, 42, 8), global_cap |-> take(d, 50, 8),
   executor |-> take(d, 58, 32), ika_program |-> take(d, 90, 32), bump |-> take(d, 122, 1),
   mint_authority_bump |-> take(d, 123, 1),
   approvers |-> [n \in 1 .. take(d, 124, 1) |-> take(d, 125 + 32 * (n - 1), 32)]]
AddChainArgs(d) ==
  [chain_id |-> take(d, 0, 2), leg_kind |-> NameOf(LEG_KIND, take(d, 2, 1)), encoding |-> take(d, 3, 1),
   curve |-> take(d, 4, 2), scheme |-> take(d, 6, 2), dwallet |-> take(d, 8, 32),
   dwallet_pubkey_len |-> take(d, 40, 1), dwallet_pubkey |-> take(d, 41, 65), bump |-> take(d, 219, 1),
   contract |-> read_addr_arg(d, 106), domain |-> take(d, 171, 32), cap |-> take(d, 203, 8),
   authorized |-> take(d, 211, 8),
   allowlist |-> [n \in 1 .. take(d, 220, 1) |-> read_addr_arg(d, 221 + ADDR_LEN * (n - 1))]]
CreateIntentArgs(d) ==
  [kind |-> NameOf(KIND, take(d, 0, 1)), amount |-> take(d, 1, 8), src_chain |-> take(d, 9, 2),
   dst_chain |-> take(d, 11, 2), recipient |-> read_addr_arg(d, 13), source |-> read_addr_arg(d, 78),
   memo |-> take(d, 143, 32), bump |-> take(d, 175, 1)]

AssetFields(x, admin) ==
  {<<0, 1, 1>>, <<1, 1, 1>>, <<asset.CREATE_KEY, 32, x.create_key>>, <<asset.ADMIN, 32, admin>>,
   <<asset.EXECUTOR, 32, x.executor>>, <<asset.SYMBOL, 8, x.symbol>>,
   <<asset.DECIMALS, 1, x.decimals>>, <<asset.THRESHOLD, 1, x.threshold>>,
   <<asset.APPROVER_COUNT, 1, Len(x.approvers)>>, <<asset.CHAIN_COUNT, 1, 0>>,
   <<asset.GLOBAL_CAP, 8, x.global_cap>>, <<asset.AUTHORIZED_TOTAL, 8, 0>>,
   <<asset.INTENT_COUNT, 8, 0>>, <<asset.TIMELOCK_SECS, 8, x.timelock_secs>>,
   <<asset.BUMP, 1, x.bump>>, <<asset.MINT_AUTHORITY_BUMP, 1, x.mint_authority_bump>>,
   <<asset.IKA_PROGRAM, 32, x.ika_program>>}
  \cup {<<asset.APPROVERS + 32 * (n - 1), 32, x.approvers[n]>> : n \in DOMAIN x.approvers}
ChainFields(x) ==
  {<<0, 1, 2>>, <<1, 1, 1>>, <<chain.ASSET, 32, AssetPda>>, <<chain.CHAIN_ID, 2, x.chain_id>>,
   <<chain.LEG_KIND, 1, LEG_KIND[x.leg_kind]>>, <<chain.ENCODING, 1, x.encoding>>,
   <<chain.CURVE, 2, x.curve>>, <<chain.SIGNATURE_SCHEME, 2, x.scheme>>,
   <<chain.DWALLET, 32, x.dwallet>>, <<chain.DWALLET_PUBKEY_LEN, 1, x.dwallet_pubkey_len>>,
   <<chain.DWALLET_PUBKEY, 65, x.dwallet_pubkey>>, <<chain.BUMP, 1, x.bump>>,
   <<chain.DOMAIN_SEPARATOR, 32, x.domain>>,
   <<chain.AUTHORIZED, 8, x.authorized>>, <<chain.CAP, 8, x.cap>>,
   <<chain.ALLOWLIST_COUNT, 1, Len(x.allowlist)>>}
  \cup AddrFields(chain.CONTRACT, x.contract)
  \cup UNION {AddrFields(chain.ALLOWLIST + ADDR_LEN * (n - 1), x.allowlist[n]) : n \in DOMAIN x.allowlist}
leg_offset(n) == intent.LEGS + leg.LEN * n
LegFields(t, l) ==
  LET lo == leg_offset(l) IN
  {<<lo + leg.ACTION, 1, LEG_ACTION[LegAction(t, l)]>>, <<lo + leg.CHAIN_ID, 2, LegChain(t, l)>>,
   <<lo + leg.STATUS, 1, LEG_STATUS.Pending>>}
IntentFields(x, t, i) ==
  LET legs == {l \in LegIds : HasLeg(x.kind, l)} IN
  {<<0, 1, 3>>, <<1, 1, 1>>, <<intent.ASSET, 32, AssetPda>>, <<intent.INDEX, 8, i>>,
   <<intent.KIND, 1, KIND[x.kind]>>, <<intent.STATUS, 1, STATUS.PendingApproval>>,
   <<intent.PROPOSER, 32, t.proposer>>, <<intent.AMOUNT, 8, x.amount>>,
   <<intent.SRC_CHAIN, 2, x.src_chain>>, <<intent.DST_CHAIN, 2, x.dst_chain>>,
   <<intent.MEMO, 32, x.memo>>, <<intent.BUMP, 1, x.bump>>, <<intent.CREATED_AT, 8, now>>,
   <<intent.APPROVED_AT, 8, 0>>, <<intent.APPROVALS_BITMAP, 1, 0>>,
   <<intent.APPROVAL_COUNT, 1, 0>>, <<intent.LEG_COUNT, 1, Cardinality(legs)>>}
  \cup AddrFields(intent.RECIPIENT, x.recipient) \cup AddrFields(intent.SOURCE, x.source)
  \cup UNION {LegFields(t, l) : l \in legs}

-----------------------------------------------------------------------------
(* Instructions, sent by a client and executed: what IssuerLedger decides    *)
(* on the arguments the program found, and the bytes written.                *)
(* \E y \in {e} names e where it is used often: TLC then evaluates it once.  *)

With(f, a, v) == [b \in DOMAIN f \cup {a} |-> IF b = a THEN v ELSE f[b]]

BytesInit == Init /\ accounts = <<>> /\ asked = <<>>

AssetAsked(cfg) ==
  [create_key |-> "create_key", symbol |-> "TBILL", decimals |-> 6, threshold |-> cfg.threshold,
   timelock_secs |-> cfg.timelock_secs, global_cap |-> cfg.global_cap, executor |-> Executor,
   ika_program |-> "ika", bump |-> 255, mint_authority_bump |-> 254, approvers |-> cfg.approvers]
InitAssetIx(cfg) ==
  LET x == AssetAsked(cfg)
      y == InitAssetArgs(buildInitAssetIx(x))
  IN
  /\ ~Initialized
  /\ InitAsset([approvers |-> y.approvers, threshold |-> y.threshold,
                timelock_secs |-> y.timelock_secs, global_cap |-> y.global_cap])
  /\ accounts' = With(accounts, AssetPda, AssetFields(y, Admin))
  /\ asked' = With(asked, AssetPda, x)

\* scripts/setup-devnet.ts takes what is not configured from the registry.
ChainAsked(c, k) ==
  LET meta == CHAINS[c] IN
  [chain_id |-> c, leg_kind |-> k.leg_kind, encoding |-> meta.encoding, curve |-> meta.curve,
   scheme |-> meta.scheme, cap |-> k.cap, authorized |-> k.authorized, contract |-> "contract",
   dwallet |-> IF k.leg_kind = "IkaForeign" THEN <<"dwallet", meta.curve>> ELSE Zero,
   dwallet_pubkey |-> IF k.leg_kind = "IkaForeign" THEN <<"key", meta.curve>> ELSE Zero,
   domain |-> <<"domain", c>>, bump |-> 253, allowlist |-> SQX!SetToSeq(k.allowlist)]
AddChainIx(signer, c, k) ==
  LET x == ChainAsked(c, k) IN
  \E y \in {AddChainArgs(buildAddChainIx(x))} :
  /\ Initialized /\ signer = Admin /\ ~Registered(c)
  /\ AddChain(signer, y.chain_id, [leg_kind |-> y.leg_kind, cap |-> y.cap, authorized |-> y.authorized,
                                   allowlist |-> {y.allowlist[n] : n \in DOMAIN y.allowlist}])
  /\ accounts' =
       With([accounts EXCEPT ![AssetPda] =
               Write(@, {<<asset.AUTHORIZED_TOTAL, 8, authorized_total'>>,
                         <<asset.CHAIN_COUNT, 1, chain_count'>>})],
            ChainPda(y.chain_id), ChainFields(y))
  /\ asked' = With(asked, ChainPda(c), x)

IntentAsked(t) ==
  [kind |-> t.kind, amount |-> t.amount, src_chain |-> t.src_chain, dst_chain |-> t.dst_chain,
   recipient |-> t.recipient, source |-> t.source, memo |-> "memo", bump |-> 252]
CreateIntentIx(t) ==
  LET i == intent_count
      x == IntentAsked(t)
  IN
  \E y \in {CreateIntentArgs(buildCreateIntentIx(x))} :
  LET u == [kind |-> y.kind, amount |-> y.amount, proposer |-> t.proposer, src_chain |-> y.src_chain,
            dst_chain |-> y.dst_chain, recipient |-> y.recipient, source |-> y.source]
  IN
  /\ Initialized /\ i < IntentBound /\ IsApprover(t.proposer)
  /\ CreateIntent(u)
  /\ accounts' =
       With([accounts EXCEPT ![AssetPda] = Write(@, {<<asset.INTENT_COUNT, 8, intent_count'>>})],
            IntentPda(i), IntentFields(y, u, i))
  /\ asked' = With(asked, IntentPda(i), x)

\* Bit i of the bitmap is the approver at index i.
Bitmap(positions) ==
  LET bit(n) == IF n \in positions THEN 2 ^ (n - 1) ELSE 0 IN bit(1) + bit(2) + bit(3) + bit(4) + bit(5)
ApproveIntentIx(key, i) ==
  /\ ApproveIntent(key, i)
  /\ accounts' = [accounts EXCEPT ![IntentPda(i)] =
       Write(@, {<<intent.APPROVALS_BITMAP, 1, Bitmap(approvals'[i])>>,
                 <<intent.APPROVAL_COUNT, 1, approval_count'[i]>>,
                 <<intent.STATUS, 1, STATUS[status'[i]]>>, <<intent.APPROVED_AT, 8, approved_at'[i]>>})]
  /\ UNCHANGED asked

\* What the program commits a leg to, from the bytes it holds.
LegMessage(i, l) ==
  LET it     == accounts[IntentPda(i)]
      ch     == accounts[ChainPda(LegChain(terms[i], l))]
      action == ReadInt(it, leg_offset(l) + leg.ACTION, 1)
  IN message_digest(ReadInt(ch, chain.ENCODING, 1),
       [domain |-> Read32(ch, chain.DOMAIN_SEPARATOR), action |-> action,
        amount |-> ReadInt(it, intent.AMOUNT, 8), nonce |-> LegNonce(ReadInt(it, intent.INDEX, 8), l),
        account |-> ReadAddr(it, IF action = LEG_ACTION.mint THEN intent.RECIPIENT ELSE intent.SOURCE),
        ledger |-> AssetPda])

ExecuteLegIx(signer, i, n) ==
  \E l \in {take(buildExecuteLegIx(n, 255), 0, 1)} :
  LET c  == LegChain(terms[i], l)
      lo == leg_offset(l)
      mem == accounts[ChainPda(c)]
      foreign == deployment[c].leg_kind = "IkaForeign"
      \* Ika derives the account from its dWallet, the scheme and the digest.
      account(digest) == IF foreign THEN MessageApprovalPda(ReadInt(mem, chain.CURVE, 2),
                                           Read(mem, chain.DWALLET_PUBKEY, 65, Zero),
                                           ReadInt(mem, chain.SIGNATURE_SCHEME, 2), digest) ELSE Zero
  IN
  /\ ExecuteNativeLeg(signer, i, l) \/ ExecuteForeignLeg(signer, i, l)
  /\ \E digest \in {IF foreign THEN LegMessage(i, l) ELSE Zero} : accounts' =
       [accounts EXCEPT
          ![IntentPda(i)] =
            Write(@, {<<lo + leg.STATUS, 1, LEG_STATUS[leg_status'[<<i, l>>]]>>,
                      <<lo + leg.MESSAGE_DIGEST, 32, digest>>, <<lo + leg.MESSAGE_APPROVAL, 32, account(digest)>>,
                      <<lo + leg.EXECUTED_AT, 8, now>>, <<intent.STATUS, 1, STATUS[status'[i]]>>}
                     \cup IF foreign THEN {} ELSE {<<lo + leg.CONFIRMED_AT, 8, now>>}),
          ![ChainPda(c)] = Write(@, {<<chain.AUTHORIZED, 8, authorized'[c]>>}),
          ![AssetPda] = Write(@, {<<asset.AUTHORIZED_TOTAL, 8, authorized_total'>>})]
  /\ UNCHANGED asked

ConfirmLegIx(signer, i, n) ==
  LET d == buildConfirmLegIx(n, "dest_tx") IN
  \E l \in {take(d, 0, 1)} :
  LET lo == leg_offset(l) IN
  /\ ConfirmLeg(signer, i, l)
  /\ accounts' = [accounts EXCEPT ![IntentPda(i)] =
       Write(@, {<<lo + leg.STATUS, 1, LEG_STATUS.Confirmed>>, <<lo + leg.CONFIRMED_AT, 8, now>>,
                 <<intent.STATUS, 1, STATUS[status'[i]]>>}
                \cup AddrFields(lo + leg.DEST_TX, read_addr_arg(d, 1)))]
  /\ asked' = With(asked, <<"leg", i, n>>, "dest_tx")

BytesNext ==
  \/ \E cfg \in AssetConfigs : InitAssetIx(cfg)
  \/ \E s \in Keys, c \in ChainIds : \E k \in ChainConfigs[c] : AddChainIx(s, c, k)
  \/ \E t \in Proposals : CreateIntentIx(t)
  \/ \E k \in Keys, i \in IntentIds : ApproveIntentIx(k, i)
  \/ \E s \in Keys, i \in IntentIds, l \in LegIds : ExecuteLegIx(s, i, l)
  \/ \E s \in Keys, i \in IntentIds, l \in LegIds : ConfirmLegIx(s, i, l)
  \/ Tick /\ UNCHANGED byteVars
  \/ \E c \in ChainIds, x \in Amounts : HolderReturns(c, x) /\ UNCHANGED byteVars

BytesSpec == BytesInit /\ [][BytesNext]_accountVars

-----------------------------------------------------------------------------
(* The SDK's readers: accounts.ts.                                           *)

decodeAsset(mem) ==
  [createKey |-> Read32(mem, ASSET.CREATE_KEY), admin |-> Read32(mem, ASSET.ADMIN),
   executor |-> Read32(mem, ASSET.EXECUTOR), symbol |-> ReadInt(mem, ASSET.SYMBOL, 8),
   decimals |-> ReadInt(mem, ASSET.DECIMALS, 1), threshold |-> ReadInt(mem, ASSET.THRESHOLD, 1),
   approvers |-> [n \in 1 .. ReadInt(mem, ASSET.APPROVER_COUNT, 1) |->
                    Read32(mem, ASSET.APPROVERS + 32 * (n - 1))],
   chainCount |-> ReadInt(mem, ASSET.CHAIN_COUNT, 1), globalCap |-> ReadInt(mem, ASSET.GLOBAL_CAP, 8),
   authorizedTotal |-> ReadInt(mem, ASSET.AUTHORIZED_TOTAL, 8),
   intentCount |-> ReadInt(mem, ASSET.INTENT_COUNT, 8),
   timelockSecs |-> ReadInt(mem, ASSET.TIMELOCK_SECS, 8), bump |-> ReadInt(mem, ASSET.BUMP, 1),
   mintAuthorityBump |-> ReadInt(mem, ASSET.MINT_AUTHORITY_BUMP, 1),
   ikaProgram |-> Read32(mem, ASSET.IKA_PROGRAM)]

decodeChain(mem) ==
  [asset |-> Read32(mem, CHAIN.ASSET), chainId |-> ReadInt(mem, CHAIN.CHAIN_ID, 2),
   legKind |-> ReadInt(mem, CHAIN.LEG_KIND, 1),
   encoding |-> ReadInt(mem, CHAIN.ENCODING, 1), curve |-> ReadInt(mem, CHAIN.CURVE, 2),
   signatureScheme |-> ReadInt(mem, CHAIN.SIGNATURE_SCHEME, 2), dwallet |-> Read32(mem, CHAIN.DWALLET),
   dwalletPubkey |-> IF ReadInt(mem, CHAIN.DWALLET_PUBKEY_LEN, 1) = 0 THEN Zero
                     ELSE Read(mem, CHAIN.DWALLET_PUBKEY, 65, Zero), bump |-> ReadInt(mem, CHAIN.BUMP, 1),
   contract |-> ReadAddr(mem, CHAIN.CONTRACT), domainSeparator |-> Read32(mem, CHAIN.DOMAIN_SEPARATOR),
   authorized |-> ReadInt(mem, CHAIN.AUTHORIZED, 8), cap |-> ReadInt(mem, CHAIN.CAP, 8),
   allowlist |-> [n \in 1 .. ReadInt(mem, CHAIN.ALLOWLIST_COUNT, 1) |->
                    ReadAddr(mem, CHAIN.ALLOWLIST + ADDR_LEN * (n - 1))]]

decodeLeg(mem, off) ==
  [action |-> ReadInt(mem, off + LEG.ACTION, 1),
   chainId |-> ReadInt(mem, off + LEG.CHAIN_ID, 2),
   status |-> ReadInt(mem, off + LEG.STATUS, 1),
   messageDigest |-> Read32(mem, off + LEG.MESSAGE_DIGEST),
   messageApproval |-> Read32(mem, off + LEG.MESSAGE_APPROVAL),  \* Zero is shown as null
   destTx |-> ReadAddr(mem, off + LEG.DEST_TX),
   executedAt |-> ReadInt(mem, off + LEG.EXECUTED_AT, 8),
   confirmedAt |-> ReadInt(mem, off + LEG.CONFIRMED_AT, 8)]

decodeIntent(mem) ==
  [asset |-> Read32(mem, INTENT.ASSET), index |-> ReadInt(mem, INTENT.INDEX, 8), kind |-> ReadInt(mem, INTENT.KIND, 1),
   status |-> ReadInt(mem, INTENT.STATUS, 1),
   proposer |-> Read32(mem, INTENT.PROPOSER), amount |-> ReadInt(mem, INTENT.AMOUNT, 8),
   srcChain |-> ReadInt(mem, INTENT.SRC_CHAIN, 2), dstChain |-> ReadInt(mem, INTENT.DST_CHAIN, 2),
   recipient |-> ReadAddr(mem, INTENT.RECIPIENT), source |-> ReadAddr(mem, INTENT.SOURCE),
   memo |-> ReadInt(mem, INTENT.MEMO, 32), createdAt |-> ReadInt(mem, INTENT.CREATED_AT, 8),
   approvedAt |-> ReadInt(mem, INTENT.APPROVED_AT, 8),
   approvalsBitmap |-> ReadInt(mem, INTENT.APPROVALS_BITMAP, 1),
   approvalCount |-> ReadInt(mem, INTENT.APPROVAL_COUNT, 1), bump |-> ReadInt(mem, INTENT.BUMP, 1),
   legs |-> [n \in 1 .. ReadInt(mem, INTENT.LEG_COUNT, 1) |-> decodeLeg(mem, INTENT.LEGS + LEG.LEN * (n - 1))]]

\* What the readers promise (types.ts), declared a second time by the console's
\* server (app/src/server/contract.ts): lists and numbers in their ranges.
IsAsset(a) ==
  /\ a.threshold \in 1 .. Len(a.approvers)
  /\ \A f \in {"globalCap", "authorizedTotal", "intentCount", "timelockSecs"} : a[f] \in 0 .. U64Max
IsChainDeployment(c) ==
  /\ c.legKind \in 0 .. 1 /\ c.encoding \in 0 .. 1 /\ c.authorized \in 0 .. c.cap
  /\ \A n \in DOMAIN c.allowlist : c.allowlist[n] \in Accounts
IsLeg(k) == k.action \in 0 .. 1 /\ k.status \in 0 .. 2
IsIntent(t) ==
  /\ t.kind \in 0 .. 2 /\ t.status \in 0 .. 3
  /\ t.recipient \in Accounts \cup {NoAccount} /\ t.source \in Accounts \cup {NoAccount}
  /\ Len(t.legs) \in 1 .. 2 /\ \A n \in DOMAIN t.legs : IsLeg(t.legs[n])

fetchAsset == decodeAsset(accounts[AssetPda])
\* Chains and intents that have no account are left out.
fetchChains(ids) == {decodeChain(accounts[ChainPda(c)]) : c \in {d \in ids : ChainPda(d) \in DOMAIN accounts}}
fetchIntents ==
  {decodeIntent(accounts[IntentPda(i)]) :
     i \in {j \in 0 .. fetchAsset.intentCount - 1 : IntentPda(j) \in DOMAIN accounts}}
fetchLedger == [asset |-> fetchAsset, chains |-> fetchChains(1 .. 8)]

-----------------------------------------------------------------------------

RegisteredIds == {c \in ChainIds : Registered(c)}
CreatedIds    == {i \in IntentIds : status[i] # "None"}
Committed(i, l) == Executed(i, l) /\ deployment[LegChain(terms[i], l)].leg_kind = "IkaForeign"

AssetIsRead(a) ==
  /\ IsAsset(a)
  /\ a.approvers = config.approvers /\ a.threshold = config.threshold
  /\ a.timelockSecs = config.timelock_secs /\ a.globalCap = config.global_cap
  /\ a.authorizedTotal = authorized_total /\ a.chainCount = chain_count
  /\ a.intentCount = intent_count /\ a.admin = Admin /\ a.executor = Executor
ChainIsRead(d) ==
  /\ IsChainDeployment(d) /\ d.asset = AssetPda
  /\ d.legKind = LegKind[deployment[d.chainId].leg_kind] /\ d.cap = deployment[d.chainId].cap
  /\ d.authorized = authorized[d.chainId]
  /\ {d.allowlist[n] : n \in DOMAIN d.allowlist} = deployment[d.chainId].allowlist
LegIsRead(d, i, l) ==
  /\ d.action = LegActions[LegAction(terms[i], l)] /\ d.chainId = LegChain(terms[i], l)
  /\ d.status = LegStatus[leg_status[<<i, l>>]] /\ d.executedAt = executed_at[<<i, l>>]
  /\ IF leg_status[<<i, l>>] = "Confirmed" THEN d.confirmedAt \in d.executedAt .. now ELSE d.confirmedAt = 0
  /\ ~Committed(i, l) => d.messageDigest = Zero /\ d.messageApproval = Zero
IntentIsRead(d) ==
  LET i == d.index IN
  /\ IsIntent(d) /\ d.asset = AssetPda
  /\ [amount |-> d.amount, proposer |-> d.proposer, src_chain |-> d.srcChain, kind |-> terms[i].kind,
      dst_chain |-> d.dstChain, recipient |-> d.recipient, source |-> d.source] = terms[i]
  /\ d.kind = IntentKind[terms[i].kind] /\ d.status = IntentStatus[status[i]]
  /\ d.approvedAt = approved_at[i]
  /\ d.createdAt \in 0 .. IF status[i] = "PendingApproval" THEN now ELSE d.approvedAt
  /\ d.approvalCount = approval_count[i] /\ d.approvalsBitmap = Bitmap(approvals[i])
  /\ \A l \in LegIds : l < Len(d.legs) <=> leg_status[<<i, l>>] # "None"
  /\ \A n \in DOMAIN d.legs : LegIsRead(d.legs[n], i, n - 1)

\* layout.ts:3, "Keep in sync by hand": in every state, through two tables of
\* offsets written in two languages, the SDK reads from the accounts the ledger
\* the program decides on: configuration, counters, chains, intents and legs.
SdkReadsLedger ==
  Initialized =>
    LET ledger  == fetchLedger
        intents == fetchIntents
    IN /\ AssetIsRead(ledger.asset)
       /\ {d.chainId : d \in ledger.chains} = RegisteredIds /\ \A d \in ledger.chains : ChainIsRead(d)
       /\ {d.index : d \in intents} = CreatedIds /\ \A d \in intents : IntentIsRead(d)

\* What a client asked for is what stands in the account its instruction wrote,
\* and stays there under every later instruction: the fields cross three layouts
\* (instruction data, account, SDK) and several neighbours have one width
\* (instructions.ts:41-219, instructions.rs:115-174, 184-271, 282-440).
AskedIsRecorded ==
  /\ Initialized =>
       LET a == fetchAsset
           x == asked[AssetPda]
       IN /\ <<a.createKey, a.symbol, a.decimals, a.bump, a.mintAuthorityBump, a.ikaProgram>>
              = <<x.create_key, x.symbol, x.decimals, x.bump, x.mint_authority_bump, x.ika_program>>
          /\ <<a.approvers, a.threshold, a.timelockSecs, a.globalCap, a.executor>>
              = <<x.approvers, x.threshold, x.timelock_secs, x.global_cap, x.executor>>
  /\ \A d \in fetchChains(RegisteredIds) :
       LET x == asked[ChainPda(d.chainId)] IN
       /\ d.legKind = LegKind[x.leg_kind]
       /\ <<d.encoding, d.curve, d.signatureScheme, d.dwallet, d.contract>>
           = <<x.encoding, x.curve, x.scheme, x.dwallet, x.contract>>
       /\ <<d.dwalletPubkey, d.domainSeparator, d.cap, d.allowlist, d.bump>>
           = <<x.dwallet_pubkey, x.domain, x.cap, x.allowlist, x.bump>>
  /\ \A i \in CreatedIds :
       LET d == decodeIntent(accounts[IntentPda(i)])
           x == asked[IntentPda(i)]
       IN /\ d.kind = IntentKind[x.kind]
          /\ <<d.amount, d.srcChain, d.dstChain, d.recipient, d.source, d.memo, d.bump>>
              = <<x.amount, x.src_chain, x.dst_chain, x.recipient, x.source, x.memo, x.bump>>
          /\ \A n \in DOMAIN d.legs :
               d.legs[n].destTx = IF <<"leg", i, n - 1>> \in DOMAIN asked
                                  THEN asked[<<"leg", i, n - 1>>] ELSE NoAccount

\* The message the SDK computes for a leg from the chain and the intent it read.
SdkMessage(i, n) ==
  LET t == decodeIntent(accounts[IntentPda(i)])
      k == t.legs[n]
      d == decodeChain(accounts[ChainPda(k.chainId)])
  IN messageDigest(d.encoding,
       [domain |-> d.domainSeparator, action |-> k.action, amount |-> t.amount,
        account |-> IF k.action = LegActions.mint THEN t.recipient ELSE t.source,
        nonce |-> LegNonce(t.index, n - 1), ledger |-> AssetPda])

\* digest.ts:1-3, a mirror of digest.rs: from the accounts alone the SDK arrives
\* at the digest the program committed the leg to, in the chain's encoding, and
\* at the address of the MessageApproval; the executor signs and looks for these.
SdkDigestIsStored ==
  \A i \in CreatedIds, l \in LegIds : Committed(i, l) =>
    LET k == decodeIntent(accounts[IntentPda(i)]).legs[l + 1]
        d == decodeChain(accounts[ChainPda(k.chainId)])
        digest == SdkMessage(i, l + 1)
    IN /\ k.messageDigest = digest
       /\ k.messageApproval = MessageApprovalPda(d.curve, d.dwalletPubkey, d.signatureScheme, digest)
=============================================================================

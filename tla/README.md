# Verification of the RWA issuer ledger

TLA+ models of the programs in this repository, TLC configurations that check
them on small instances, and TLAPS proofs of the properties that matter most
for every instance.

An issuer runs one tokenised asset on several chains. A Solana program keeps
the book: who may propose and approve, the caps, the supply authorised per
chain. On Solana the program is itself the mint authority. On every other chain
a token contract obeys one key only, an Ika dWallet, and the Ika network signs
with that dWallet only what the Solana program approved. An off-chain executor
carries signatures from one to the other. The safety of the asset is a property
of all of these together, and no test in the repository runs them together.

## Inventory

| Part | State | Operations | What makes it correct |
|---|---|---|---|
| `programs/issuer-ledger` | Asset (configuration, `authorized_total`, counters), one ChainDeployment per chain (cap, allowlist, `authorized`), one Intent per proposal (terms, approvals bitmap, two leg slots) | `init_asset`, `add_chain`, `create_intent`, `approve_intent`, `execute_leg`, `confirm_leg` | M distinct approvals without the proposer, timelock, leg order, exact books, caps at all times, one authorization per leg |
| Ika dWallet program and network (external) | MessageApproval accounts, dWallets, signatures | `approve_message` (called by `execute_leg`), signing | a message is signed only if it was approved |
| `contracts/evm` `MintController` | balances, allowances, `totalSupply`, `usedNonces` | `mintWithAuthorization`, `burnWithAuthorization`, `transfer`, `approve`, `transferFrom` | supply moves only by a signed authorization for this contract, each once |
| `contracts/sui` `tbill` | TreasuryCap, `Controller` (key, ledger, domain, `used_nonces`, `genesis_done`), coins | `genesis_mint`, `set_params`, `set_dwallet_pubkey`, `mint_with_authorization`, `burn_with_authorization` | the same, through key rotation and rebinding |
| `executor` | none of its own; what it has read and the transaction it waits for | `runIntent`, `runLeg` (load, check, execute, sign, deliver, confirm) | what the ledger authorised takes effect exactly once, wherever a process dies |
| `sdk`: policy, codecs, digests, errors | none | `evaluate`, `executionReadiness`; instruction builders, account decoders, `messageDigest` | the same verdict, the same bytes and the same digests as the program's |
| `sdk/src/ika` | none | `requestDkg`, `requestPresign`, `requestSign`, `fetchDWalletAttestation` | the network makes the signature that was approved, with the right key |
| console view (server, policy, form, drawer) | none of its own | `getLedger`, `evaluate`, `evaluateExecution`, error tables | shows what the ledger holds, offers what it accepts, explains what it refuses |
| console (store, simulated executor, devnet client, server routes) | a cached ledger | propose, approve, execute, refresh | shows and does what the ledger does |
| scripts | `deployments/devnet.json` | set up, deploy, re-run | ledger and contracts agree on dWallet, ledger address and seed |

**How they interact.** `execute_leg` on a Solana leg calls Token-2022 in the
same transaction. On a foreign leg it calls Ika's `approve_message`; the
executor waits for the MessageApproval account, asks the Ika network for the
signature over gRPC, submits authorization and signature to the destination
contract, and reports the destination transaction with `confirm_leg`. The
ledger never sees the destination chain. A move is a burn leg and then a mint
leg, and may stop between the two.

**What is hard.** Several executor processes on one intent (the CLI and the
console's route); transactions that time out and land later; a process that
dies between any two of its transactions; checks made when an intent is created
and stale when it is executed; the amount of a move that is on neither chain;
holders who move tokens the burn of an intent counts on; a Sui controller that
is rebound; the policy written three times by hand, and the layout of every
account, instruction and signed message twice, in two languages. `PROJECT.json`
lists each hazard at its line.

## Modules

| Module | Models | Uses |
|---|---|---|
| `IssuerLedger` | the Solana program with the Token-2022 and Ika CPIs | |
| `SupplyController` | abstract: what a foreign token contract promises the ledger | |
| `MintController` | the Solidity contract | implements `SupplyController` |
| `Tbill` | the Move package | implements `SupplyController` |
| `Executor` | executor processes between ledger and EVM contract | extends `IssuerLedger`, instance of `MintController` |
| `IkaWire` | the requests, responses and attestations of the Ika network's client | |
| `Signing` | from the dWallets' creation and `execute_leg` to the signature | extends `IkaWire` |
| `SuiDelivery` | delivery on Sui | instance of `Tbill` |
| `PolicyMirror` | the SDK's copy of the policy | extends `IssuerLedger` |
| `Memory` | bytes that are written and read by offset, and strings of them put together | |
| `Accounts` | the ledger as bytes: instruction data, accounts, signed messages, in the program's layout and in the SDK's | extends `IssuerLedger`, `Memory` |
| `ConsoleView` | what the console shows, offers and explains | extends `Accounts`, `PolicyMirror` |
| `Activity` | the console's history of an intent | extends `IssuerLedger` |
| `MockConsole` | the console in simulated mode | |
| `DevnetConsole` | the console against the live ledger | |
| `Setup` | the set-up and deploy scripts | |
| `Sums` | the sum of a function over a finite set | |
| `MC*` | instances for TLC | |
| `*_proofs` | theorems | |

A definition whose name ends in `_m1` or `_m2` is a plausible slip in the
definition of the same name. No action uses it; putting it in the definition's
place must break the property it is meant for, which shows that the property
can be broken.

## Plan

The order in which the modules are written follows what a failure would cost.

1. `IssuerLedger` and its proofs: the book itself. *(done)*
2. `SupplyController`, then `MintController` and `Tbill` as its refinements, and
   their proofs: what a foreign chain may do with a signature. *(done)*
3. `Executor`, composing ledger and EVM contract, with crashes and late
   transactions: parity across chains and eventual delivery. *(done)*
4. `Signing` and `SuiDelivery`: the parts of `runLeg` that `Executor` takes in
   one step, and the Sui path, where a delivery is found again by its nonce. *(done)*
5. `PolicyMirror` and `Activity`, evaluated on the ledger's states. *(done)*
6. `MockConsole`, `DevnetConsole`, `Setup`: what surrounds the core. *(done)*
7. `Accounts` and `ConsoleView`: the same ledger as bytes, as the SDK decodes
   it and as the console shows it; `IkaWire` under `Signing`. *(done)*
8. Proofs of the ledger's action property and of its remaining invariants that
   are not sums: `StatusMatchesLegs`, `IntentsOnlyAdvance`, `TimelockGate`,
   `OneAuthorizationPerLeg`. *(done)*
9. Proofs about the composition: `ConfirmedWasDelivered`, and that the executor
   around the ledger implements the ledger's specification. *(done)*
10. Proofs of everything that adds up, with a theory of finite sums: the book
    (`SupplyAccounting`, `CapsHold`), the contract's balances (`BalancesAddUp`),
    parity across chains (`ForeignParity`, `MoveNeverInflates`), the simulated
    console (`SupplyIsExplained`, `ViewIsCurrent`); and of what is reported: the
    record of Sui deliveries (`ConfirmedByItsTransaction`), what the devnet console
    shows (`ShownIsReal`). *(done)*
11. Proofs of what surrounds the core: the SDK's copy of the rules
    (`SdkMirrorsLedger`), the history of an intent (`HistoryIsComplete`), and the
    set-up (`MintObeysTheAsset`, `RegisteredIsBound`, `RunLeavesLedgerUsable`). *(done)*
12. Proofs about bytes, with a theory of laid-out memory: what the SDK reads
    (`SdkReadsLedger`), what was asked for (`AskedIsRecorded`), what is signed
    (`SdkDigestIsStored`). *(done)*
13. Open: two foreign chains in one executor run; the seed supply in `Setup`;
    proofs of what the console shows (`ConsoleView`).

## Module by module

**`IssuerLedger`** (`programs/issuer-ledger/src`). The Asset account is
`config`, `authorized_total`, `chain_count` and `intent_count`; a
ChainDeployment is `deployment[c]` (what never changes) and `authorized[c]`; an
Intent is `terms[i]`, `status[i]`, `approvals[i]` (the bitmap, as the set of its
positions), `approval_count[i]`, `approved_at[i]`, and its leg slots are
`leg_status[<<i, l>>]` and `executed_at[<<i, l>>]`. Token-2022 is
`token_supply` and `treasury_balance`, the Ika program the set
`message_approvals`. One action per instruction; `execute_leg` has one for each
of its branches. A transaction is atomic, so an error path is a disabled action.
The clock is `now`, moved by `Tick`; holders return tokens to the treasury in
`HolderReturns`. `u64` and `i64` keep their widths relative to `I64Max`, and
`AsI64` is the cast the timelock goes through. The dWallets are active. Checks
of account owners, PDAs and discriminators are abstracted to naming the right
account.

**`SupplyController`** is the abstract promise of a foreign token: a seed once,
then only signed authorizations, each nonce once. **`MintController`** (checked
256-bit arithmetic, EIP-712 domain, allowances, self-transfers) and **`Tbill`**
(key rotation, `set_params`, genesis mint, coins held by address) implement it:
each instantiates it under a refinement mapping and has `Controller!Spec` as a
property. Signature recovery is abstracted to "this dWallet signed this
message"; the dWallet may have signed other things, too.

**`Executor`** (`executor/src`) extends the ledger and instantiates
`MintController`. A process's `job` is the point `runLeg` has reached and what
it read on the way; what it read may be stale by the time its transaction
lands. A process that dies or times out leaves its transaction in `orphans`,
where it may land or be dropped. Each step of `runLeg` is an action: load,
coverage check, `execute_leg`, signature, search for an earlier delivery,
delivery, `confirm_leg`.

**`Signing`** opens up the step between `execute_leg` and delivery: a DKG on each
curve, the attestation that the network writes to Solana in its own time
(`attested`) and the executor reads back, the history
of transactions that name the MessageApproval (failed ones too), the proof
taken from its oldest entry, presign and signature, the network's commit on
Solana and the comparison with it. **`IkaWire`** has what crosses the wire
(`sdk/src/ika`): curve and algorithm numbers become variants, every request
carries a session and a sender, a response of another type is an error. The
network (external) signs only under the session of the dWallet whose attestation
it is shown, with a presign of that curve and an algorithm that suits it, and for
a proof that holds. **`SuiDelivery`** composes the Sui part of
the executor with `Tbill`: coin objects with versions, events, the search by
nonce, redeployment of the ledger and `--rebind`. Transfers the treasury makes
itself are left out. The ledger is reduced to the status of the Sui legs.

**`PolicyMirror`** puts `sdk/src/policy.ts` on the ledger's states. The mirror has
no rule on the length of an address, so the agreement is about drafts whose source
on a Solana chain is a Solana account (`SourceIsAnAddress`). **`Accounts`** runs
the ledger on bytes: a client builds the instruction's data (`instructions.ts`),
the program parses it at its offsets and writes the account at others
(`instructions.rs`, `state.rs`), the SDK reads the account at a third set
(`layout.ts`, `accounts.ts`), and both sides compute the message a dWallet signs
(`digest.rs`, `digest.ts`). Bytes are **`Memory`**: the set of fields written,
each an offset, a width and a value. What was written is read back, memory nobody
wrote is zero, a read that cuts a field is `Garbage`, and a write takes the place
of every field it overlaps; instruction data and messages are strings of fields
joined end to end. `accounts` is memory by address and `asked` the arguments the
client sent; the decisions are the actions of `IssuerLedger`, taken on the
arguments the program found. Hashes are injective. **`ConsoleView`** is evaluated
on these states: `getLedger` with the deployment file
(`app/src/server/devnet.ts`), the drafts the form can submit, the console's
policy, the drawer's buttons and the two tables of error codes. An account's text
has an alphabet and the case it was typed in. **`Activity`** computes the
console's history of an intent from the transactions the state implies, for every
choice of signatures the network has committed, with one failed `execute_leg` for
each leg. Histories are below the page of 50 transactions.

**`MockConsole`** (`app/src/executor/mock.ts`, `app/src/store`): JavaScript runs
a callback to its end, so an action is what happens between two timers. A reset
replaces the state object, and executions under way keep the old one: states
are numbered by `generation`. **`DevnetConsole`** (`app/src/server/devnet.ts`,
`app/src/executor/devnet.ts`, `app/src/store`): requests of several tabs that
read at one moment, write at another and are answered at a third, and
executions that stream events. Approvals are by one approver, caps and timelock
are a refusal that may happen (`Errs`); late transactions are in `Executor`. The
stream of an execution may end early (`Cut`), where the last intent received is
its result, or its request may fail (`Lose`), where what was received is ignored;
a refresh that fails after an execution leaves the view as it is. The server's side
of a lost execution stops with it: one that goes on is, to the ledger and to every
tab, an execution of another tab.

**`Setup`** (`scripts/setup-devnet.ts`, `deploy-evm.ts`, `deploy-sui.ts`): the
saved files, what lands on the chains, and runs that die between any two steps.
Keys, dWallets and contracts are numbers drawn in turn. Publishing and binding
the Sui package are one step; funding and the seed supply are left out.

## Runs

| Run | Checks | Shows |
|---|---|---|
| `ledger_policy` | `PolicyGate`, `TimelockGate`, `StatusMatchesLegs`, `IntentsOnlyAdvance`; `SdkReadsLedger`, `AskedIsRecorded`, `SdkDigestIsStored`; `ConsoleShowsLedger`, `RejectionNamesAFailedRule` | no leg runs without M distinct approvals, before the timelock, out of order or twice; through all layouts the SDK and the console arrive at the ledger and the digests the program decides on; a draft or button is offered exactly when the program accepts it, and a refusal is explained by a rule that failed |
| `ledger_supply` | `TypeOK`, `SupplyAccounting`, `CapsHold`, `OneAuthorizationPerLeg`, `NativeParity`, `SdkMirrorsLedger`, `HistoryIsComplete`, `ApprovedIsSettled` | two intents, three chains, caps that exceed the global cap: exact books at all times; the SDK's copy of the rules and the history agree with every state; an approved intent is settled or refused for good |
| `evm_controller` | `BalancesAddUp`, `OnlyThisContract`, `ImplementsController` | the Solidity contract keeps the abstract promise |
| `sui_controller` | `LostExactlyToOtherLedger`, `ImplementsController`, `OnlyNamedAccounts` | the Move package does, through key rotation and through rebinding to a fresh ledger and back; and which authorizations that costs |
| `executor_race` | `ForeignParity`, `ConfirmedWasDelivered`, `MoveNeverInflates` | two racing processes, two intents, one fault: ledger and token stay in step |
| `executor_settle` | `ApprovedIsDelivered` | an approved intent gets through wherever a process dies |
| `sui_delivery` | `ConfirmedByItsTransaction`, `AuthorizedIsConfirmed` | two executors with different keys serve two ledgers in turn |
| `signing` | `AuthorizedIsConfirmed` | on either curve, a resumed leg is signed anew and gets through, whichever signature the network committed and however late the dWallet's attestation is |
| `mock_console` | `SupplyIsExplained`, `ViewIsCurrent`, `HalfMoveFinishes` | interleaved simulated executions lose and repeat nothing before a reset, and end also after one |
| `devnet_console` | `AnsweredWithOwnIntent`, `ShownIsReal`, `ExecutionEnds` | racing tabs and cut streams: nothing is shown that did not happen |
| `setup` | `RegisteredIsBound`, `MintObeysTheAsset`, `SetupCompletes`, `RunLeavesLedgerUsable` | runs that die anywhere and are repeated leave ledger and contracts in agreement, on dWallets that were handed to the program |
| `sui_delivery_rebind` | `ConfirmedByItsTransaction` | violated: see Findings |

Deadlock is not an error in any run: each instance has a finite amount of work
(intents, faults, clock values), and when it is done nothing is left to do.
`executor_race` treats the two processes as interchangeable (symmetry); no run
with a liveness property does.

### Bounds

* `ledger_policy`: chains 1, 2 and 4 are Solana, an EVM chain and Sui, that is, each
  leg kind, encoding, curve and text alphabet once, with their numbers in the
  code's own registry. Three configurations: thresholds 2 and 1 of three
  approvers under a timelock, and a list that names a key twice without one. The
  Solana chain allowlists two accounts, so that tokens leave the treasury and
  return. One intent reaches every field of every account (21846 states); two
  would only repeat the fields at another address, and the proofs are for any number.
* `IntentBound` (intents): 1 where the question is about one intent, 2 where
  intents compete. All cross-intent state of the program is a sum or a counter,
  and two competitors reach every kind of conflict over it. `2 * IntentBound`
  stays within u64, so that a nonce does not wrap.
* `I64Max = 7` (u64 is `0..15`): the sums that occur reach the caps long before
  the width; `TypeOK` and `CapsHold` are about staying inside, and the proofs
  are for every `I64Max`. `TimeBound` (clock) leaves room before, at and after
  the timelock.
* `Amounts`: with two amounts one fits where two do not; 0 is there to be refused.
* `SignBound`, `Uint256Max`, `U64Max` (controllers): two signatures are enough
  for a nonce to be used twice; the width is where a second mint overflows.
* `Bindings` (`sui_controller`): a ledger and the fresh one that replaces it. They
  register the same chain, so the domain is the same and only the ledger tells
  their messages apart; both count their nonces from 0 (247107 states).
* `FaultBound`: 1 crash or timeout at any step of any process; 2 in `signing`,
  where two crashes of the same leg make three signatures. `signing` has both
  curves, one leg and two processes (220732 states).
* `Requests` (`executor_race`): the burn and the two moves. A plain mint is the
  second leg of a move without the wait, and is in `executor_settle`.
* `Legs`, `Deployments`, `Page`, `Window` (`sui_delivery`): two burns alike but
  for the nonce, which is what a search by anything but the nonce confuses; coins
  and events stay below the page of coins and the window of events.
* `HistoryLimit = 20` is the code's own; `SwitchBound` caps how often the ledger
  changes its mind between simulation and landing.
* `IntentBound`, `Runs`, `ResetBound` (`mock_console`): two executions at once
  on each side of one reset.
* `Tabs`, `Slots`, `IntentBound`, `ApprovalBound`, `StreamBound` (`devnet_console`):
  two tabs race for two indices and execute the first intent; a stream holds one
  event that is not read. With one slot a tab has one request at a time; requests
  of one tab that overlap are in `ShownIsRealHolds`, which is for any number of slots.
* `RunBound`, `CrashBound`, `WarnBound`, `WipeBound`, `FlagSets` (`setup`): four runs,
  two deaths, one failed EVM target, one wipe, with new or kept dWallets.

### Fairness

* `ledger_supply`: the clock ticks, and an executor keeps sending the
  transactions that the ledger would accept (weak fairness on each). Nobody is
  assumed to propose or approve.
* `executor_settle`, `sui_delivery`, `signing`: a process that runs takes its
  next step (weak), and a process is started again on an unfinished leg again
  and again (strong, because another process may have the leg at times). That
  is how the tool is used: `executor/src/cli.ts` is run until the intent is
  executed. Faults are finitely many. In `sui_delivery` only the executor with
  the treasury's key is assumed to be run again. In `signing` the network
  commits its attestations and what it signed, and nothing is assumed of the
  ledger's policy.
* `mock_console`: timers fire. `devnet_console`: server and tab take their next
  step; nothing is assumed of the operator.
* `setup`: a run takes its next step, and the operator repeats it until it says
  it is complete. Deaths and warnings are finitely many.

## Proofs

`tlapm` checks the proofs of eight modules, for every value of the constants that
satisfies the assumptions of the component (`ConstantsAssumption`,
`ConfigAssumption`, `ControllerAssumption`, `TbillAssumption`,
`ExecutorAssumption`, `SuiDeliveryAssumption`, `MockAssumption`,
`DevnetAssumption`, `SetupAssumption`, `AccountsAssumption`). These say that the constants have the
types of the code, that the seed each chain is registered with is the seed that
was minted there, and that nonces fit. What is summed over is finite: chain ids
are `u16`, holders 160-bit addresses, allowlists have at most four entries.

* **`IssuerLedger_proofs`.** `TypeCorrect`: `TypeOK` is not inductive, because
  an instruction's arithmetic stays in u64 only for a registered chain and an
  intent of a known shape. `IInv` adds `IntentInv` (intents are created in index
  order by an initialised asset, with well-formed terms and the legs those terms
  have), `ChainInv` (supply within the chain's cap, parity of the native chain,
  the treasury within the supply) and `ConfigInv` (the approver list is not empty
  and of bounded length). Every instruction has a lemma that it preserves `IInv`.
  `NativeParityHolds` follows from `ChainInv`. `PolicyGateHolds` needs `PolicyInv`
  on top: the bitmap holds first positions of approvers who are not the proposer,
  the count is the cardinality of the bitmap, and an intent past approval has the
  threshold; different first positions are different keys, so the count is of keys.

  The life of an intent. `StatusMatchesLegsHolds`: taken intent
  by intent (`StatusInv`) the property is inductive; leg 0 always exists, and leg 1
  runs only on a confirmed leg 0, so the last leg confirmed is the last there is.
  `IntentsOnlyAdvanceHolds`: an intent is changed only after it was created, and
  creation needs an index at which there is none (`IntentInv`); `LegRankFacts`
  orders the statuses of a leg. `TimelockGateHolds` has a premise, `TimelockFits`:
  every `timelock_secs` is at most `I64Max`. `init_asset` does not check it, and
  without it the property is false (see Findings). With it the cast is the
  identity; `TimelockInv` keeps the time of execution at or after the unlock,
  and `PolicyInv` says why `approved_at` does not move after it: approvals stop
  at the threshold.

  Messages and supplies. `OneAuthorizationPerLegHolds`: `MessagesInv` says that
  the messages approved are those of the executed foreign legs. It is inductive
  only with `RegisteredInv`, that an executed leg's chain is registered: otherwise
  `add_chain` could make an old leg a foreign one. That no two share a nonce is
  arithmetic: `2 * i + l` for `l` in 0 and 1 is below 2^64 (`NonceFacts`) and
  determines `i` and `l` (`NoncesDiffer`). `SupplyAccountingHolds` and
  `CapsAreKept`: `SupplyInv` is the accounting together with the global cap, since
  what a chain may gain is bounded through what the total may. A leg moves one
  term of each sum (`IssuedChanges`, `InFlightChanges`): a mint of a move takes
  from the sum in flight what it adds to a chain, its burn the reverse, and the
  other legs add to or take from both sides.

  What is said about the ledger elsewhere. `SdkMirrorsLedgerHolds` has the premise
  `TimelockFits` again: the SDK adds the timelock in unbounded integers, where the
  program casts it. A draft is of one of three kinds, and for each the failures of
  the mirror are compared with the guards of `create_intent` (`MirrorAgrees`).
  `HistoryIsCompleteHolds`: a transaction that took effect belongs to one intent
  or is the network's (`TxFacts`), and the list of an intent's MessageApprovals
  has each once (`ApprovalsList`, from `NoncesDiffer`), so that an entry is told
  by its transaction; the two sets are then in bijection, and finite because an
  intent has at most five approvals.

  The executor (the proofs of `Executor` are in the same module).
  `ConfirmedWasDeliveredHolds`, for any number of processes, intents and faults.
  `SystemInv` adds three things to the ledger's `IInv` and `AuthorizationInv`.
  `DeliveryInv`: the dWallet signed for executed legs only, the contract honoured
  signed messages only, and a used nonce is that of a message it honoured. The
  nonce determines the leg, so a process that finds the nonce used has found its
  own leg delivered (`UsedIsDelivered`). `WorkersInv`: a process that is about to
  confirm a leg, or died while it did, has seen that leg delivered. And the
  property itself. That a delivered leg keeps its terms, hence its message, while
  others move is `IntentsOnlyAdvance` (`ExecutedStays`). `LedgerImplemented`: what
  processes and the EVM chain do to the ledger are steps of `IssuerLedger`, so
  what is proved of the ledger holds in the composition. `ForeignParityHolds`
  rests on `ParityInv`: the token's supply plus the mints approved and not
  delivered is the book (before registration, the seed) plus the burns approved
  and not delivered. `execute_leg` moves the book and one of the last two sums, a
  delivery the supply and one of them, and a message is in at most one.
  `MoveNeverInflatesHolds`: what all tokens exceed the total by is at most the
  undelivered burns less what is in flight. An undelivered burn that is not of a
  burn intent is the first leg of a move in flight, of that amount, and two such
  burns are of two moves (`BurnIsOfMove`), so their sum is at most that in flight
  (`BurnsOfMoves`, by `SumInjected`).

  The accounts as bytes (the last part of the same module, about `Accounts`).
  `BytesImplementLedger`: on what the program parses from an instruction's data,
  every instruction is one of `IssuerLedger`, because the arguments parsed are the
  arguments sent (`InitAssetDecoded`, `AddChainDecoded`, `CreateIntentDecoded`,
  `LegArgsDecoded`). So all that is proved of the ledger holds here (`SpecMirror`).
  `MirrorInv` is the link: an account exists exactly for what was initialised,
  registered or created, its fields lie in the slots of the program's table of
  offsets, and each slot reads as the ledger variable it stands for or as what was
  asked for. It is stated through the program's offsets alone; that the slots of a
  table do not overlap (`AssetLayout`, `ChainLayout`, `IntentLayout`) is what makes
  an instruction's writes leave the other fields as they were. `SdkReadsLedgerHolds`
  and `AskedIsRecordedHolds` then compare the SDK's offsets with the program's
  (`AssetReadBack`, `ChainReadBack`, `IntentReadBack`, `LegReadBack`), where a
  difference between the two tables would show. `SdkDigestIsStoredHolds`: `MirrorInv`
  says of an executed foreign leg that it holds the digest of the ledger's own
  terms, and the two encoders agree field by field (`DigestsAgree`). That the SDK
  lists every chain needs chains to be numbered as in its registry
  (`AccountsAssumption`), whose five ids lie within the eight it asks for.
* **`Shared_proofs`**, about `Sums` and `Memory`: a sum over a finite set exists,
  is unique, is a number, adds up over disjoint sets, moves by one term when one
  term moves (`SumAdd`, `SumUpdate`, `SumUnion`), and is no larger than another
  one whose terms bound its own one to one (`SumInjected`). The library's
  induction theorems take an operator as a parameter, which the provers cannot
  instantiate. `NatSetInduction` and `SubsetInduction` state induction for a set
  instead, from the well-foundedness of the naturals, and every fact about sums is
  proved as membership in such a set. A layout is a set of slots that share no
  byte; memory written in slots of a layout reads back slot by slot (`ReadLaid`,
  `ReadNothing`), a write changes the slots it names (`ReadWritten`), and the
  fields of joined strings stand where their lengths put them (`Joined`,
  `RowsIsString`).
* **`MintController_proofs`.** `TypeCorrect`; `ControllerImplemented`: each step
  of the contract is a step of `SupplyController` or leaves its variables alone.
  The link is `NonceInv`, that used nonces are exactly those of the messages
  honoured, without which a fresh nonce does not make a message unhonoured.
  `OnlyThisContractHolds`. `BalancesAddUpHolds`: a mint or burn moves one term of
  the sum by what it moves `totalSupply`, a transfer two terms or, to oneself, none.
* **`Tbill_proofs`.** `ControllerImplemented` with `RecordInv`, the same link
  through rotations and rebinding. `LostExactlyToOtherLedgerHolds`, for any number
  of ledgers and rebindings: a used nonce is that of an honoured message
  (`RecordInv`), and if that message is of the same ledger it is the same message
  (`SignedOnce`: a ledger gets one message signed for a nonce, which is what
  `OneAuthorizationPerLeg` says of the ledger). `OnlyNamedAccountsHolds`: the message a step honours is new and
  the only one (`HonouredByStep`), because its nonce was not used, and balances
  are natural numbers (`CoinsInv`).
* **`SuiDelivery_proofs`.** `ConfirmedByItsTransactionHolds`, for any number of
  processes, ledgers and faults, under `NoncesDiffer`: no two legs of the ledgers
  served share a nonce. That is the premise the rebinding finding violates; for
  one ledger `OneAuthorizationPerLeg` gives it. `DeliveryInv`: a process about to
  confirm a leg holds the number of a transaction whose event is of that leg,
  because a transaction found by its nonce is of the only leg with that nonce
  and a transaction sent is of the leg it was sent for; events are only appended.
* **`MockConsole_proofs`.** `SupplyIsExplainedHolds`, `ViewIsCurrentHolds`, for any
  number of chains, intents and executions. `Running` is why no leg takes effect
  twice: an execution's intent is flagged, no other execution is on it, a leg that
  took effect is confirmed or an execution is about to confirm it, and the second
  leg follows the confirmed first. `Numbered`: ids have no gap, so a proposal
  takes a free one. All of this is claimed until the first reset, since after one
  it is false (see Findings).
* **`DevnetConsole_proofs`.** `ShownIsRealHolds`, `AnsweredWithOwnIntentHolds`, for
  any number of tabs, requests, intents and faults. `Real` says that an intent, as
  somebody has it, is no further than it is on the ledger. `ConsoleInv` claims it of
  all that is on its way to a store (each answer, each event in a stream, the
  server's snapshot, the last intent a client received) as well as of the store,
  and `Grows` is why it stays true there while the ledger goes on (`RequestStays`).
  The server marks a leg confirmed in what it fetched; that this is so on the
  ledger is known of an execution at that stage (`ExecutionOK`). `Numbered`: ids
  have no gap, so a proposal that lands replaces no intent (`CountFacts`).
* **`Setup_proofs`.** `MintObeysTheAssetHolds` and `KeysHandedOverHolds` hold for any
  runs, flags, deaths, warnings and wipes; `RegisteredIsBoundHolds` and
  `RunLeavesLedgerUsableHolds` have the premise `NoSkip`, that no run is given
  `--skip-contracts`: such a run registers the contracts of an earlier dWallet (see
  Findings). `SetupInv` has a part for each question.
  `MintInv`: mint and asset are named by the create key on file, which is saved before
  either is made. `KeysInv`: a dWallet is handed over before its number leaves the
  run, and contracts and chains take theirs from the file. `RecordsInv`: a record of
  an EVM contract is of one deployed for that target. While there is no warning and no
  skipped contract (`Quiet`), a run past a target has a contract of its own dWallets
  there (`ServedInv`), so what it registers is bound (`BoundInv`); and a registered
  contract stays on file as long as its dWallet does, because a later run finds it
  deployed (`KeptInv`), which is why that run leaves its legs deliverable.

Only model-checked: everything temporal beyond `[]` and `[][]_`, since liveness under
fairness is outside the prover; `Signing`, whose property is liveness; and what
`ConsoleView` shows (`ConsoleShowsLedger`, `RejectionNamesAFailedRule`), which reads
the bits of an arbitrary bitmap and texts in several alphabets. Every other
invariant and action property that a run checks is proved.

## Findings

**A rebound Sui package confuses two ledgers' nonces** (`sui_delivery_rebind`,
`executor/src/deliver/sui.ts:100`). `findSuiDelivery` recognises an earlier
delivery by the nonce alone. After `deploy:sui --rebind` for a fresh ledger the
package still has the old ledger's events; the fresh ledger's first leg has
nonce 0 like the old one's, so the old transaction is found and the leg is
confirmed although nothing was delivered. `set_params` keeps `used_nonces`, too
(`tbill.move:127`), although `tbill.move:55-57` says it serves "to bind a fresh
ledger deployment": the authorization could not have been delivered either.
`LostExactlyToOtherLedger` of `sui_controller` says how far this goes: after a
rebinding the package refuses exactly those authorizations whose nonce another
ledger has used.

### Divergences met while modelling

These were read off the code, and the models state them as premises or leave
them out; no run is about them.

* `init_asset` takes any u64 `timelock_secs` and `execute_leg` casts it to i64
  (`instructions.rs:580`): a value of 2^63 or more is no timelock, against
  `lib.rs:5-8` ("and cleared the timelock"). No run has such a timelock, and the
  theorems about it exclude it (`TimelockFits`).
* `executor/src/index.ts:150-151`, "A burn is only authorized if the destination
  treasury can actually cover it": the balance is read before the transaction
  is sent, and the tokens may move in between.
* `executor/src/index.ts:177-180`: the oldest transaction that names the
  MessageApproval is taken for "the transaction that created" it. A failed
  `execute_leg` names it too.
* `executor/src/index.ts:223`, "verify it matches": the error of a mismatch is
  caught by the `catch` around it (227-231) and reported as not observed. A
  resumed leg relies on that, since it is signed anew.
* `executor/src/deliver/sui.ts:133`: one page of coins is added up, where the
  coverage check reads the whole balance.
* `app/src/policy/policy.ts:2`, "Mirrors the on-chain rules": the console adds up
  the chains (24), the program keeps a total that includes a move between its
  legs. `RejectionNamesAFailedRule` is therefore about states with nothing in flight.
* `app/src/policy/policy.ts:85` compares recipients in lower case. Hex in the other
  case is the same account, base58 is not: such a text passes the form and
  `create_intent` refuses it. The property excludes it (`SameText`).
* Code 22 (a move to itself) is "chain" in `sdk/src/errors.ts` and a failed
  `chainCap` in the SDK's and the console's `evaluate`. `extractLedgerErrorCode`
  takes any program's `Custom(n)` for the ledger's: an error 1 of Token-2022 is
  explained as the global cap.
* `IntentDrawer.tsx` computes its "at execution" rules when intent or configuration
  change, while the button's timer ticks: after the timelock has passed the panel
  still shows it as failed beside an enabled button.
* Where the approver list repeats a key the drawer offers approval to the second
  name, which the program refuses (`KeysDiffer`; the set-up makes distinct keys).
  A proposer who is none of the named approvers is shown as "alice"
  (`server/devnet.ts`, `mapIntent`).
* `approved_at = 0` stands for "never" in the console; a clock is past it.
* The executor reads the dWallet's attestation after `execute_leg` and does not
  wait for it: if it is not there yet the run ends with the leg authorized, and a
  later run resumes it (`Signing`, `FetchDWalletAttestation`).
* `app/src/executor/mock.ts:102` announces that the ledger "re-checks caps" and
  does not: two simulated mints approved against the same headroom both run.
* `app/src/types.ts:168`, "so the UI never has to reconcile": a reset
  (`useLedgerStore.ts:65`) while an execution is under way lets its later
  events show an intent of the old state, and clears the flag that keeps the
  next one from being run twice.
* `useLedgerStore.ts:123`, "Pull the authoritative ledger": `refresh` (59) may
  assign an answer that is older than what the store already shows.
* `app/src/server/devnet.ts:430,467`: the leg shown for a signature is the place
  of its MessageApproval in a list without the Solana legs; in a move from
  Solana it is off by one.
* `scripts/deploy-evm.ts:159`: a target that fails is a warning and keeps the
  record of an older signer, against lines 9-11 ("bound to exactly this ledger
  and signer"). `RegisteredIsBound` therefore supposes no warning; with
  `--skip-contracts` after new dWallets it does not hold either.
* `docs/DEMO_RUNBOOK.md:9-10` answers a wiped signer with `pnpm setup:devnet`: the
  run keeps the asset and skips its registered chains
  (`setup-devnet.ts:367`), so the ledger goes on with the wiped dWallets.
* `scripts/setup-devnet.ts:17`, "Idempotent-ish": a run on a complete set-up
  publishes the Sui package again, with the seed supply (347).

## Not modelled

* Mock delivery (`executor/src/deliver/mock.ts`) confirms legs nothing was
  delivered for, on purpose; the models are of live delivery.
* The console's gate (a password cookie), its landing page, its remaining
  components and their formatting have no state of the ledger beyond the
  store's. Of the form and the drawer the drafts, rules and buttons are modelled,
  not dialogs: rules from the server that stay in the form after an edit, an
  answer that closes a form opened again, history entries of the intent shown
  before.
* `getLedger` reads asset, chains and intents in three calls; the model takes one
  moment for all three. Numbers above 2^53, which the console rounds, and texts
  that are no address are left out.
* Of the Ika client, the encoding of a request as BCS bytes, request types nobody
  sends, and fields the pre-alpha leaves zero. The network wiping its key store is
  an operator's event in `Setup` only, not in the middle of a signature.
* The demo and probe scripts are straight-line drivers over what is modelled.
* The Ika network, Token-2022, the EVM and Sui are modelled from how the code
  uses them.

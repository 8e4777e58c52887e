------------------------------ MODULE Executor ------------------------------
(***************************************************************************)
(* The whole path of an intent: the ledger (IssuerLedger), the Ika dWallet, *)
(* the MintController of one EVM chain, and the executor processes that     *)
(* carry an approved leg from one to the other (executor/src/index.ts).     *)
(*                                                                          *)
(* A process reads the chains at one moment and its transactions land at    *)
(* another.  It may die, or give up waiting, after it has sent a            *)
(* transaction: the transaction is then an orphan that still may land.      *)
(* Delivery is live; the processes run `runIntent` (the console's execute   *)
(* loop does the same) or, with --leg, one leg.                             *)
(***************************************************************************)
EXTENDS IssuerLedger

CONSTANTS
  Workers,      \* executor processes: the CLI, the console's execute route
  ForeignChain, \* the EVM chain
  Requests,     \* the intents that are proposed
  FaultBound    \* number of crashes and timeouts

ASSUME ExecutorAssumption ==
  /\ ForeignChain \in ChainIds /\ FaultBound \in Nat /\ Requests \subseteq Proposals
  /\ \A c \in ChainIds : \A k \in ChainConfigs[c] :
       k.leg_kind = "IkaForeign" <=> c = ForeignChain

VARIABLES
  evm_supply, evm_balance, usedNonces, signatures, delivered,  \* the MintController
  job,      \* worker -> what it is doing
  orphans,  \* transactions sent by a worker that no longer waits for them
  faults    \* crashes and timeouts so far

evmVars    == <<evm_supply, evm_balance, usedNonces, signatures, delivered>>
workerVars == <<job, orphans, faults>>
solanaVars == <<ledgerVars, message_approvals, tokenVars, now>>
sysVars    == <<solanaVars, evmVars, workerVars>>

\* Nobody approves a spender here: transfers by the holder move the same tokens.
EVM == INSTANCE MintController WITH
  Addresses <- Accounts, Words <- Accounts, AddressOf <- [a \in Accounts |-> a],
  Domains <- ChainIds, DOMAIN_SEPARATOR <- ForeignChain,
  Ledgers <- {"asset"}, ledger <- "asset",
  Nonces <- U64, Signable <- {}, SignBound <- 2 * IntentBound,
  GenesisTo <- Treasury, GenesisAmount <- GenesisSupply[ForeignChain],
  Uint256Max <- (2 * IntentBound + 1) * U64Max,
  totalSupply <- evm_supply, balanceOf <- evm_balance,
  allowance <- [x \in Accounts |-> [y \in Accounts |-> 0]],
  authorized <- delivered

IsForeign(i, l) == deployment[LegChain(terms[i], l)].leg_kind = "IkaForeign"

\* authorizationFor: the struct the relayer submits for an authorization.
AuthorizationFor(m) ==
  [ledger |-> "asset", action |-> m.action, amount |-> m.amount, account |-> m.account,
   nonce |-> m.nonce]
Message(i, l) == EVM!Digest(AuthorizationFor(Authorization(i, l)))

Idle == [step |-> "idle", intent |-> 0, legs |-> <<>>]
At(w, step) == job[w].step = step
Goto(w, step) == job' = [job EXCEPT ![w].step = step]
\* The leg is done: the next one is read afresh, or the process ends.
NextLeg(w) ==
  LET rest == Tail(job[w].legs) IN
  job' = [job EXCEPT ![w] =
            IF rest = <<>> THEN Idle ELSE [step |-> "load", intent |-> @.intent, legs |-> rest]]
Intent(w) == job[w].intent
Leg(w)    == Head(job[w].legs)

\* A transaction in flight, one for each step that waits for one.
Sends == {"executing", "delivering", "confirming"}
Tx(w) == [step |-> job[w].step, intent |-> Intent(w), leg |-> Leg(w)]

ExecutorInit ==
  /\ Init
  /\ evm_supply = GenesisSupply[ForeignChain]
  /\ evm_balance = [x \in Accounts |-> IF x = Treasury THEN evm_supply ELSE 0]
  /\ usedNonces = {} /\ signatures = {} /\ delivered = {}
  /\ job = [w \in Workers |-> Idle]
  /\ orphans = {} /\ faults = 0

-----------------------------------------------------------------------------
(* The effects of the transactions, for a worker that waits and for an orphan. *)

ExecuteLeg(i, l) == ExecuteNativeLeg(Executor, i, l) \/ ExecuteForeignLeg(Executor, i, l)

Deliver(i, l) ==
  LET a == AuthorizationFor(Authorization(i, l)) IN
  EVM!MintWithAuthorization(a) \/ EVM!BurnWithAuthorization(a)

Lands(tx) ==
  \/ tx.step = "executing"  /\ ExecuteLeg(tx.intent, tx.leg) /\ UNCHANGED evmVars
  \/ tx.step = "delivering" /\ Deliver(tx.intent, tx.leg) /\ UNCHANGED solanaVars
  \/ tx.step = "confirming" /\ ConfirmLeg(Executor, tx.intent, tx.leg) /\ UNCHANGED evmVars

-----------------------------------------------------------------------------
(* runIntent and runLeg.                                                     *)

\* The legs runIntent finds unfinished when it starts.
Unfinished(i) ==
  LET unfinished(l) == IF leg_status[<<i, l>>] \in {"Pending", "Authorized"} THEN <<l>> ELSE <<>>
  IN  unfinished(0) \o unfinished(1)

Begin(w, i) ==
  /\ At(w, "idle")
  /\ status[i] # "None"
  /\ \E legs \in {Unfinished(i)} \cup {<<l>> : l \in {k \in LegIds : HasLeg(terms[i].kind, k)}} :
       /\ legs # <<>>
       /\ job' = [job EXCEPT ![w] = [step |-> "load", intent |-> i, legs |-> legs]]
  /\ UNCHANGED <<solanaVars, evmVars, orphans, faults>>

\* loadLeg.  An authorized foreign leg is resumed at the signature; any other
\* leg must be pending, and a foreign burn is checked before it is executed.
\* _m1 does not resume.
Entry_m1(i, l) ==
  IF leg_status[<<i, l>>] # "Pending" THEN "idle"
  ELSE IF IsForeign(i, l) /\ LegAction(terms[i], l) = "burn" THEN "check" ELSE "executing"
Entry(i, l) ==
  CASE leg_status[<<i, l>>] = "Authorized" /\ IsForeign(i, l) -> "sign"
    [] leg_status[<<i, l>>] = "Pending" ->
         IF IsForeign(i, l) /\ LegAction(terms[i], l) = "burn" THEN "check" ELSE "executing"
    [] OTHER -> "idle"

Load(w) ==
  /\ At(w, "load")
  /\ LET entry == Entry(Intent(w), Leg(w)) IN
     job' = [job EXCEPT ![w] = IF entry = "idle" THEN Idle ELSE [@ EXCEPT !.step = entry]]
  /\ UNCHANGED <<solanaVars, evmVars, orphans, faults>>

\* Can the treasury on the destination cover the burn?
Covered(i, l) == terms[i].amount <= evm_balance[LegAccount(terms[i], l)]
CheckBurn(w) ==
  /\ At(w, "check")
  /\ IF Covered(Intent(w), Leg(w)) THEN Goto(w, "executing") ELSE job' = [job EXCEPT ![w] = Idle]
  /\ UNCHANGED <<solanaVars, evmVars, orphans, faults>>

\* execute_leg is confirmed.  A Solana leg is finished by it.
ExecuteLands(w) ==
  /\ At(w, "executing")
  /\ Lands(Tx(w))
  /\ IF IsForeign(Intent(w), Leg(w)) THEN Goto(w, "sign") ELSE NextLeg(w)
  /\ UNCHANGED <<orphans, faults>>

\* The MessageApproval is there, and Ika signs its message.
Sign(w) ==
  /\ At(w, "sign")
  /\ Authorization(Intent(w), Leg(w)) \in message_approvals
  /\ EVM!DWalletSigns(Message(Intent(w), Leg(w)))
  /\ Goto(w, "find")
  /\ UNCHANGED <<solanaVars, orphans, faults>>

\* deliverEvm looks for the transaction that used the nonce, and sends one when
\* there is none.  _m1 takes the signature for the delivery.
IsDelivered_m1(i, l) == Message(i, l) \in signatures
IsDelivered(i, l) == LegNonce(i, l) \in usedNonces
FindDelivery(w) ==
  /\ At(w, "find")
  /\ Goto(w, IF IsDelivered(Intent(w), Leg(w)) THEN "confirming" ELSE "delivering")
  /\ UNCHANGED <<solanaVars, evmVars, orphans, faults>>

DeliveryLands(w) ==
  /\ At(w, "delivering")
  /\ Lands(Tx(w))
  /\ Goto(w, "confirming")
  /\ UNCHANGED <<orphans, faults>>

ConfirmLands(w) ==
  /\ At(w, "confirming")
  /\ Lands(Tx(w))
  /\ NextLeg(w)
  /\ UNCHANGED <<orphans, faults>>

\* The chain refuses the transaction and the process ends with an error.
Refused(w) ==
  /\ job[w].step \in Sends
  /\ ~ENABLED Lands(Tx(w))
  /\ job' = [job EXCEPT ![w] = Idle]
  /\ UNCHANGED <<solanaVars, evmVars, orphans, faults>>

\* The process dies, or a wait for a transaction, an account or Ika times out.
Crash(w) ==
  /\ ~At(w, "idle") /\ faults < FaultBound
  /\ faults' = faults + 1
  /\ orphans' = IF job[w].step \in Sends THEN orphans \cup {Tx(w)} ELSE orphans
  /\ job' = [job EXCEPT ![w] = Idle]
  /\ UNCHANGED <<solanaVars, evmVars>>

OrphanLands(tx) ==
  /\ Lands(tx)
  /\ orphans' = orphans \ {tx}
  /\ UNCHANGED <<job, faults>>

\* It never arrives, expires, or is refused.
OrphanLost(tx) ==
  /\ orphans' = orphans \ {tx}
  /\ UNCHANGED <<solanaVars, evmVars, job, faults>>

-----------------------------------------------------------------------------

\* Everyone else: configuration, proposals, approvals, holders of the token.
Others ==
  \/ /\ \/ \E cfg \in AssetConfigs : InitAsset(cfg)
        \/ \E c \in ChainIds : \E k \in ChainConfigs[c] : AddChain(Admin, c, k)
        \/ \E t \in Requests : CreateIntent(t)
        \/ \E k \in Keys, i \in IntentIds : ApproveIntent(k, i)
        \/ Tick
     /\ UNCHANGED <<evmVars, workerVars>>
  \/ /\ \E x, y \in Accounts, v \in Amounts : x # y /\ EVM!Transfer(x, y, v)
     /\ UNCHANGED <<solanaVars, workerVars>>

Step(w) ==
  \/ Load(w) \/ CheckBurn(w) \/ ExecuteLands(w) \/ Sign(w)
  \/ FindDelivery(w) \/ DeliveryLands(w) \/ ConfirmLands(w) \/ Refused(w)

ExecutorNext ==
  \/ Others
  \/ \E w \in Workers, i \in IntentIds : Begin(w, i)
  \/ \E w \in Workers : Step(w) \/ Crash(w)
  \/ \E tx \in orphans : OrphanLands(tx) \/ OrphanLost(tx)

ExecutorSpec == ExecutorInit /\ [][ExecutorNext]_sysVars

\* Someone runs the executor again on an intent that is not finished, a process
\* that runs goes on until it ends, and faults come to an end.
BeginAll(w, i) == Begin(w, i) /\ job'[w].legs = Unfinished(i)
ExecutorFairness ==
  /\ WF_sysVars(Tick /\ UNCHANGED <<evmVars, workerVars>>)
  /\ \A w \in Workers : WF_sysVars(Step(w))
  /\ \A w \in Workers, i \in IntentIds : SF_sysVars(BeginAll(w, i))

ExecutorFairSpec == ExecutorSpec /\ ExecutorFairness

-----------------------------------------------------------------------------

\* Authorizations the ledger has given whose effect has not taken place.
Undelivered(action) ==
  {m \in message_approvals : m.action = action /\ EVM!Digest(AuthorizationFor(m)) \notin delivered}
AmountOf(ms) == SumOver([m \in ms |-> m.amount], ms)

\* README.md:75, "so they start equal", on a chain the ledger cannot see: the
\* token's supply is what the ledger has authorised there, but for the
\* authorizations on their way.  Crashes, repeated deliveries and racing
\* processes do not make the two drift apart (index.ts:97-276,
\* MintController.sol:78-98).
ForeignParity ==
  Registered(ForeignChain) =>
    evm_supply + AmountOf(Undelivered("mint")) =
      authorized[ForeignChain] + AmountOf(Undelivered("burn"))

\* confirm_leg takes the executor's word (instructions.rs:811-814), and the
\* executor keeps it: a confirmed foreign leg has had its effect, even when it
\* was resumed or its delivery was made by a process that died
\* (index.ts:111-115, evm.ts:128-137).
ConfirmedWasDelivered ==
  \A i \in IntentIds, l \in LegIds :
    leg_status[<<i, l>>] = "Confirmed" /\ IsForeign(i, l) => Message(i, l) \in delivered

\* docs/DEMO_RUNBOOK.md:40, "Burn leg first, mint leg only after the burn is
\* confirmed": the tokens that exist on all chains together are never more than
\* the ledger's total, but for the burn intents whose burn is on its way.  A
\* move never holds the same amount on both its chains.
MoveNeverInflates ==
  (\A c \in ChainIds : Registered(c)) =>
    evm_supply + SumOver(token_supply, ChainIds \ {ForeignChain})
      <= authorized_total
           + AmountOf({m \in Undelivered("burn") :
                         \E i \in IntentIds : terms[i].kind = "Burn" /\ m = Authorization(i, 0)})

\* An approved intent is stuck while the ledger refuses its next leg or the
\* account to burn from does not hold enough.
Stuck(i) ==
  \E l \in LegIds :
    \/ Blocked(i, l)
    \/ /\ leg_status[<<i, l>>] \in {"Pending", "Authorized"}
       /\ IsForeign(i, l) /\ LegAction(terms[i], l) = "burn"
       /\ Message(i, l) \notin delivered /\ ~Covered(i, l)

\* Wherever processes die or time out, an approved intent that is not stuck for
\* good is executed, delivered and confirmed: what a dead process left half
\* done is picked up again (index.ts:111, 176-183, 279-288; evm.ts:128-137).
ApprovedIsDelivered ==
  \A i \in IntentIds :
    <>[]~Stuck(i) => (status[i] \in {"Approved", "Executing"} ~> status[i] = "Executed")
=============================================================================

----------------------------- MODULE SuiDelivery -----------------------------
(***************************************************************************)
(* executor/src/deliver/sui.ts with the Move package (Tbill): executor      *)
(* processes carry the authorized Sui legs of a ledger to the package and   *)
(* record on the ledger which transaction did it.                           *)
(*                                                                          *)
(* A delivery that was made before is recognised by the nonce in the        *)
(* package's events, and a burn is paid out of coin objects the relayer     *)
(* owns.  The ledger is reduced to the status of its Sui legs, any of which *)
(* its policy may refuse; IssuerLedger and Executor have the rest, the late *)
(* landing of the Solana transactions included.                             *)
(***************************************************************************)
EXTENDS Integers, Sequences, FiniteSets

LOCAL SX == INSTANCE SequencesExt

CONSTANTS
  Addresses, Accounts, Amounts, Nonces, Genesis, U64Max,  \* as in Tbill
  Treasury,
  Deployments, \* the ledgers deployed one after the other: [key, ledger, domain]
  Legs,        \* their Sui legs, as the messages they authorize
  Workers,     \* executor processes
  Relayer,     \* worker -> the address of its Sui key
  Page,        \* coins in the one page of getCoins
  Window,      \* events in the pages findSuiDelivery reads
  FaultBound   \* number of crashes and timeouts

ASSUME SuiDeliveryAssumption ==
  /\ Deployments # <<>> /\ Page \in Nat \ {0} /\ Window \in Nat \ {0} /\ FaultBound \in Nat
  /\ Relayer \in [Workers -> Addresses] /\ Treasury \in Addresses

VARIABLES
  total_supply, dwallet_pubkey, bound, used_nonces, genesis_done, signatures, \* of Tbill
  objects,    \* address -> its coin objects, in the order of getCoins
  events,     \* the Authorized events, as the messages honoured; number n is of transaction n
  current,    \* the ledger in use, of Deployments
  leg_status, \* leg -> "Pending", "Authorized" or "Confirmed"
  dest_tx,    \* leg -> the transaction confirm_leg recorded
  job, orphans, faults

paramVars   == <<dwallet_pubkey, bound, genesis_done>>
packageVars == <<total_supply, paramVars, used_nonces, signatures, objects, events>>
ledgerVars  == <<current, leg_status, dest_tx>>
workerVars  == <<job, orphans, faults>>
vars        == <<packageVars, ledgerVars, workerVars>>

SumOf(coins) == SX!FoldSeq(LAMBDA c, sum : c.value + sum, 0, coins)
Held(x) == SumOf(objects[x])

Package == INSTANCE Tbill WITH
  DWallets <- {d.key : d \in SX!ToSet(Deployments)},
  Bindings <- {[ledger |-> d.ledger, domain |-> d.domain] : d \in SX!ToSet(Deployments)},
  GenesisAmounts <- {Genesis}, GenesisTo <- Treasury, SignBound <- Cardinality(Legs),
  coins <- [x \in Addresses |-> SumOf(objects[x])], honoured <- SX!ToSet(events)

\* A coin object at one of its versions: the number of the transaction that
\* wrote it last.
Coin(tx, value) == [version |-> tx, value |-> value]
NextTx == Len(events) + 1

Idle == [step |-> "idle"]
At(w, step) == job[w].step = step
Goto(w, step) == job' = [job EXCEPT ![w].step = step]
Stop(w) == job' = [job EXCEPT ![w] = Idle]
LegOf(w) == job[w].leg

\* What deploy-sui leaves behind.
Init ==
  LET d == Deployments[1] IN
  /\ total_supply = Genesis /\ genesis_done = TRUE
  /\ dwallet_pubkey = d.key /\ bound = [ledger |-> d.ledger, domain |-> d.domain]
  /\ used_nonces = {} /\ signatures = {} /\ events = <<>>
  /\ objects = [x \in Addresses |-> IF x = Treasury THEN <<Coin(0, Genesis)>> ELSE <<>>]
  /\ current = 1
  /\ leg_status = [m \in Legs |-> "Pending"] /\ dest_tx = [m \in Legs |-> 0]
  /\ job = [w \in Workers |-> Idle] /\ orphans = {} /\ faults = 0

-----------------------------------------------------------------------------
(* What a transaction does to the package and to the coins.                  *)

\* Object ids are hashes: a new coin comes anywhere in the order.
Mint(m) ==
  /\ events' = Append(events, m)
  /\ \E p \in 0 .. Len(objects[m.account]) :
       objects' = [objects EXCEPT ![m.account] =
                     SubSeq(@, 1, p) \o <<Coin(NextTx, m.amount)>> \o SubSeq(@, p + 1, Len(@))]
  /\ Package!MintWithAuthorization(m)

\* The inputs are merged into the first one, and the exact amount is split off
\* it and burned.  A coin that has changed since makes the transaction void.
Spend(coins, inputs, amount) ==
  LET others == SX!ToSet(Tail(inputs))
      spent  == Coin(NextTx, SumOf(inputs) - amount) IN
  SelectSeq([k \in DOMAIN coins |-> IF coins[k] = Head(inputs) THEN spent ELSE coins[k]],
            LAMBDA c : c \notin others)

Burn(m, sender, inputs) ==
  /\ SX!ToSet(inputs) \subseteq SX!ToSet(objects[sender])
  /\ events' = Append(events, m)
  /\ objects' = [objects EXCEPT ![sender] = Spend(@, inputs, m.amount)]
  /\ Package!BurnWithAuthorization(m, sender)

Lands(tx) ==
  IF tx.leg.action = "mint" THEN Mint(tx.leg) ELSE Burn(tx.leg, tx.sender, tx.inputs)

-----------------------------------------------------------------------------
(* runLeg, for a Sui leg.                                                    *)

\* _m1 forgets that the leg may be authorized already.
Entry_m1(m) == CASE m.action = "burn" -> "check" [] OTHER -> "executing"
Entry(m) ==
  CASE leg_status[m] = "Authorized" -> "sign"
    [] leg_status[m] = "Pending" /\ m.action = "burn" -> "check"
    [] OTHER -> "executing"

Begin(w, m) ==
  /\ At(w, "idle")
  /\ m.ledger = Deployments[current].ledger /\ leg_status[m] # "Confirmed"
  /\ job' = [job EXCEPT ![w] = [step |-> Entry(m), leg |-> m, inputs |-> <<>>, tx |-> 0]]
  /\ UNCHANGED <<packageVars, ledgerVars, orphans, faults>>

\* Only the treasury can burn its coins, and it must hold enough of them.
CheckBurn(w) ==
  LET m == LegOf(w) IN
  /\ At(w, "check")
  /\ IF Relayer[w] = m.account /\ Held(m.account) >= m.amount THEN Goto(w, "executing") ELSE Stop(w)
  /\ UNCHANGED <<packageVars, ledgerVars, orphans, faults>>

\* execute_leg; or the ledger's policy refuses it, or it is no longer pending.
Execute(w) ==
  /\ At(w, "executing") /\ leg_status[LegOf(w)] = "Pending"
  /\ leg_status' = [leg_status EXCEPT ![LegOf(w)] = "Authorized"]
  /\ Goto(w, "sign")
  /\ UNCHANGED <<packageVars, current, dest_tx, orphans, faults>>
ExecuteRefused(w) ==
  /\ At(w, "executing") /\ Stop(w)
  /\ UNCHANGED <<packageVars, ledgerVars, orphans, faults>>

Sign(w) ==
  /\ At(w, "sign")
  /\ UNCHANGED <<objects, events, ledgerVars, orphans, faults>>
  /\ Package!DWalletSigns(LegOf(w))
  /\ Goto(w, "find")

\* findSuiDelivery: the latest of the package's events that carries the nonce.
\* _m1 looks for what the authorization does.
Carries_m1(e, m) == e.action = m.action /\ e.amount = m.amount /\ e.account = m.account
Carries(e, m) == e.nonce = m.nonce
Prior(m) == {n \in DOMAIN events : n + Window > Len(events) /\ Carries(events[n], m)}

FindSuiDelivery(w) ==
  LET hits == Prior(LegOf(w)) IN
  /\ At(w, "find")
  /\ \/ hits = {} /\ Goto(w, "building")
     \/ \E n \in hits :
          /\ \A k \in hits : k <= n
          /\ job' = [job EXCEPT ![w].step = "confirming", ![w].tx = n]
  /\ UNCHANGED <<packageVars, ledgerVars, orphans, faults>>

\* The coins a burn is paid with: one page of what the relayer owns.
Coins(x) == SubSeq(objects[x], 1, IF Len(objects[x]) < Page THEN Len(objects[x]) ELSE Page)
CanPay(w, m) == Coins(Relayer[w]) # <<>> /\ SumOf(Coins(Relayer[w])) >= m.amount

Build(w) ==
  LET m == LegOf(w) IN
  /\ At(w, "building")
  /\ \/ m.action = "mint" /\ Goto(w, "delivering")
     \/ /\ m.action = "burn" /\ m.account = Relayer[w] /\ CanPay(w, m)
        /\ job' = [job EXCEPT ![w].step = "delivering", ![w].inputs = Coins(Relayer[w])]
     \/ m.action = "burn" /\ (m.account # Relayer[w] \/ ~CanPay(w, m)) /\ Stop(w)
  /\ UNCHANGED <<packageVars, ledgerVars, orphans, faults>>

Tx(w) == [leg |-> LegOf(w), sender |-> Relayer[w], inputs |-> job[w].inputs]

DeliveryLands(w) ==
  /\ At(w, "delivering")
  /\ Lands(Tx(w))
  /\ job' = [job EXCEPT ![w].step = "confirming", ![w].tx = NextTx]
  /\ UNCHANGED <<ledgerVars, orphans, faults>>

DeliveryRefused(w) ==
  /\ At(w, "delivering") /\ ~ENABLED Lands(Tx(w))
  /\ Stop(w)
  /\ UNCHANGED <<packageVars, ledgerVars, orphans, faults>>

\* confirm_leg, unless another process has confirmed the leg.
Confirm(w) ==
  /\ At(w, "confirming")
  /\ IF leg_status[LegOf(w)] = "Authorized"
     THEN /\ leg_status' = [leg_status EXCEPT ![LegOf(w)] = "Confirmed"]
          /\ dest_tx' = [dest_tx EXCEPT ![LegOf(w)] = job[w].tx]
     ELSE UNCHANGED <<leg_status, dest_tx>>
  /\ Stop(w)
  /\ UNCHANGED <<packageVars, current, orphans, faults>>

\* The process dies or a wait times out; a transaction it has sent may still land.
Crash(w) ==
  /\ ~At(w, "idle") /\ faults < FaultBound
  /\ faults' = faults + 1
  /\ orphans' = IF At(w, "delivering") THEN orphans \cup {Tx(w)} ELSE orphans
  /\ Stop(w)
  /\ UNCHANGED <<packageVars, ledgerVars>>

OrphanLands(tx) ==
  /\ Lands(tx)
  /\ orphans' = orphans \ {tx}
  /\ UNCHANGED <<ledgerVars, job, faults>>
OrphanLost(tx) ==
  /\ orphans' = orphans \ {tx}
  /\ UNCHANGED <<packageVars, ledgerVars, job, faults>>

-----------------------------------------------------------------------------

\* A signature is public once it is on Solana: anyone may relay a mint.
AnyoneMints(m) ==
  /\ m.action = "mint"
  /\ Mint(m)
  /\ UNCHANGED <<ledgerVars, workerVars>>

\* After a wipe of Ika the ledger is deployed anew, and deploy:sui --rebind
\* points the same package at it.
Redeploy ==
  /\ current < Len(Deployments)
  /\ current' = current + 1
  /\ UNCHANGED <<packageVars, leg_status, dest_tx, workerVars>>

Rebind ==
  LET d == Deployments[current] IN
  /\ UNCHANGED <<objects, events, ledgerVars, workerVars>>
  /\ Package!SetParams(d.key, [ledger |-> d.ledger, domain |-> d.domain])

Step(w) ==
  \/ CheckBurn(w) \/ Execute(w) \/ ExecuteRefused(w) \/ Sign(w) \/ FindSuiDelivery(w)
  \/ Build(w) \/ DeliveryLands(w) \/ DeliveryRefused(w) \/ Confirm(w)

Next ==
  \/ \E w \in Workers : (\E m \in Legs : Begin(w, m)) \/ Step(w) \/ Crash(w)
  \/ \E tx \in orphans : OrphanLands(tx) \/ OrphanLost(tx)
  \/ \E m \in signatures : AnyoneMints(m)
  \/ Redeploy \/ Rebind

Spec == Init /\ [][Next]_vars

\* A process that runs goes on until it ends, and the executor that has the
\* treasury's key is run again on a leg that is not finished.
Fairness ==
  /\ \A w \in Workers : WF_vars(Step(w))
  /\ \A w \in Workers, m \in Legs : Relayer[w] = Treasury => SF_vars(Begin(w, m))

FairSpec == Spec /\ Fairness

-----------------------------------------------------------------------------

\* confirm_leg records "the destination tx hash" (index.ts:12): the transaction
\* on record for a confirmed leg is the one that carried out this very
\* authorization, whichever process sent it and whether it was waited for
\* (sui.ts:108-120, index.ts:264-271).
ConfirmedByItsTransaction ==
  \A m \in Legs : leg_status[m] = "Confirmed" => dest_tx[m] # 0 /\ events[dest_tx[m]] = m

\* The leg's ledger is in use and the package is bound to it; a burn waits
\* while the treasury does not hold its amount.
Serves(m) ==
  /\ m.ledger = Deployments[current].ledger
  /\ dwallet_pubkey = m.key /\ bound = [ledger |-> m.ledger, domain |-> m.domain]
Short(m) == m.action = "burn" /\ Held(m.account) < m.amount

\* What the ledger has authorized on Sui is delivered and confirmed in the end,
\* wherever processes die; a burn nobody could send is never authorized
\* (index.ts:157-165), and relayers that are not the treasury do no harm
\* (sui.ts:111-143).
AuthorizedIsConfirmed ==
  \A m \in Legs :
    <>[](Serves(m) /\ ~Short(m)) => (leg_status[m] = "Authorized" ~> leg_status[m] = "Confirmed")
=============================================================================

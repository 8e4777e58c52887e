-------------------------- MODULE SuiDelivery_proofs --------------------------
(***************************************************************************)
(* The transaction on record for a confirmed Sui leg is the one that carried *)
(* it out, for any number of processes, ledgers and faults, as long as no    *)
(* two legs share a nonce.                                                   *)
(***************************************************************************)
EXTENDS SuiDelivery, SequenceTheorems, TLAPS

\* One ledger never uses a nonce twice (IssuerLedger, OneAuthorizationPerLeg).
\* A package that is bound to two of them in turn may meet one twice.
NoncesDiffer == \A a, b \in Legs : a.nonce = b.nonce => a = b

\* The package has honoured transaction n, and it was for leg m.
CarriedOut(n, m) == n \in 1 .. Len(events) /\ events[n] = m

Steps == {"check", "executing", "sign", "find", "building", "delivering", "confirming"}

\* A process that is about to confirm a leg holds the transaction that carried
\* it out.
JobInv(w) ==
  \/ job[w] = Idle
  \/ /\ DOMAIN job[w] = {"step", "leg", "inputs", "tx"}
     /\ job[w].step \in Steps /\ job[w].leg \in Legs
     /\ job[w].step = "confirming" => CarriedOut(job[w].tx, job[w].leg)

\* Only legs are signed, and only what was signed is honoured.
EventsInv == signatures \subseteq Legs /\ events \in Seq(Legs)
JobsInv   == DOMAIN job = Workers /\ \A w \in Workers : JobInv(w)
RecordInv ==
  /\ DOMAIN leg_status = Legs /\ DOMAIN dest_tx = Legs
  /\ \A m \in Legs : leg_status[m] = "Confirmed" => CarriedOut(dest_tx[m], m)

DeliveryInv == EventsInv /\ JobsInv /\ RecordInv

-----------------------------------------------------------------------------

\* What was carried out stays so: events are only appended.
Grows == events' = events \/ \E m \in Legs : events' = Append(events, m)

LEMMA GrowsKeeps ==
  ASSUME EventsInv, Grows
  PROVE  /\ events' \in Seq(Legs)
         /\ \A n, m : CarriedOut(n, m) => CarriedOut(n, m)'
<1>1. CASE events' = events
  BY <1>1 DEF EventsInv, CarriedOut
<1>2. ASSUME NEW m \in Legs, events' = Append(events, m)
      PROVE  /\ events' \in Seq(Legs)
             /\ \A n, x : CarriedOut(n, x) => CarriedOut(n, x)'
  <2>1. events \in Seq(Legs)
    BY DEF EventsInv
  <2>2. events' \in Seq(Legs) /\ Len(events') = Len(events) + 1
    BY <1>2, <2>1, AppendProperties
  <2>3. \A n \in 1 .. Len(events) : events'[n] = events[n]
    BY <1>2, <2>1, AppendProperties
  <2>4. Len(events) \in Nat
    BY <2>1, LenProperties
  <2> QED
    BY <2>2, <2>3, <2>4 DEF CarriedOut
<1> QED
  BY <1>1, <1>2 DEF Grows

\* Nothing is signed that is not a leg, and events are only appended.
PackageStep == signatures' \subseteq Legs /\ Grows

LEMMA StillPackage ==
  ASSUME EventsInv, UNCHANGED packageVars
  PROVE  PackageStep
BY DEF EventsInv, packageVars, PackageStep, Grows

LEMMA OtherJobs ==
  ASSUME EventsInv, JobsInv, PackageStep, NEW v \in Workers, job'[v] = job[v]
  PROVE  JobInv(v)'
<1>1. \A n, m : CarriedOut(n, m) => CarriedOut(n, m)'
  BY GrowsKeeps DEF PackageStep
<1>2. JobInv(v)
  BY DEF JobsInv
<1>3. CASE job[v] = Idle
  BY <1>3 DEF JobInv, Idle
<1>4. CASE job[v] # Idle
  <2>1. job[v].step = "confirming" => CarriedOut(job[v].tx, job[v].leg)'
    BY <1>1, <1>2, <1>4 DEF JobInv
  <2> QED
    BY <1>2, <1>4, <2>1 DEF JobInv, CarriedOut
<1> QED
  BY <1>3, <1>4

\* A process went on, the record did not change.
LEMMA WorkerStep ==
  ASSUME DeliveryInv, PackageStep, UNCHANGED <<leg_status, dest_tx>>, NEW w \in Workers,
         DOMAIN job' = Workers, \A v \in Workers \ {w} : job'[v] = job[v], JobInv(w)'
  PROVE  DeliveryInv'
<1>1. EventsInv /\ JobsInv /\ RecordInv
  BY DEF DeliveryInv
<1>2. events' \in Seq(Legs) /\ \A n, m : CarriedOut(n, m) => CarriedOut(n, m)'
  BY <1>1, GrowsKeeps DEF PackageStep
<1>3. EventsInv'
  BY <1>2 DEF EventsInv, PackageStep
<1>4. JobsInv'
  BY <1>1, OtherJobs DEF JobsInv
<1>5. RecordInv'
  BY <1>1, <1>2 DEF RecordInv
<1> QED
  BY <1>3, <1>4, <1>5 DEF DeliveryInv

LEMMA NoWorkerStep ==
  ASSUME DeliveryInv, PackageStep, UNCHANGED <<leg_status, dest_tx, job>>
  PROVE  DeliveryInv'
<1>1. EventsInv /\ JobsInv /\ RecordInv
  BY DEF DeliveryInv
<1>2. events' \in Seq(Legs) /\ \A n, m : CarriedOut(n, m) => CarriedOut(n, m)'
  BY <1>1, GrowsKeeps DEF PackageStep
<1>3. JobsInv'
  BY <1>1, OtherJobs DEF JobsInv
<1> QED
  BY <1>1, <1>2, <1>3 DEF DeliveryInv, EventsInv, RecordInv, PackageStep

-----------------------------------------------------------------------------
(* The steps of a process.                                                   *)

LEMMA StopKeeps ==
  ASSUME DeliveryInv, PackageStep, UNCHANGED <<leg_status, dest_tx>>, NEW w \in Workers, Stop(w)
  PROVE  DeliveryInv'
<1>1. DOMAIN job' = Workers /\ job'[w] = Idle /\ \A v \in Workers \ {w} : job'[v] = job[v]
  BY DEF Stop, DeliveryInv, JobsInv
<1>2. JobInv(w)'
  BY <1>1 DEF JobInv, Idle
<1> QED
  BY <1>1, <1>2, WorkerStep

LEMMA GotoKeeps ==
  ASSUME DeliveryInv, PackageStep, UNCHANGED <<leg_status, dest_tx>>, NEW w \in Workers,
         job[w] # Idle, NEW s \in Steps \ {"confirming"}, Goto(w, s)
  PROVE  DeliveryInv'
<1>1. DOMAIN job = Workers /\ JobInv(w)
  BY DEF DeliveryInv, JobsInv
<1>2. /\ DOMAIN job' = Workers /\ \A v \in Workers \ {w} : job'[v] = job[v]
      /\ job'[w] = [job[w] EXCEPT !.step = s]
  BY <1>1 DEF Goto
<1>3. JobInv(w)'
  BY <1>1, <1>2 DEF JobInv
<1> QED
  BY <1>2, <1>3, WorkerStep

\* The process has found, or has made, the transaction that carries its leg out.
LEMMA ConfirmingKeeps ==
  ASSUME DeliveryInv, PackageStep, UNCHANGED <<leg_status, dest_tx>>, NEW w \in Workers,
         job[w] # Idle, NEW n, job' = [job EXCEPT ![w].step = "confirming", ![w].tx = n],
         n \in 1 .. Len(events') /\ events'[n] = LegOf(w)
  PROVE  DeliveryInv'
<1>1. DOMAIN job = Workers /\ JobInv(w)
  BY DEF DeliveryInv, JobsInv
<1>2. /\ DOMAIN job' = Workers /\ \A v \in Workers \ {w} : job'[v] = job[v]
      /\ job'[w] = [[job[w] EXCEPT !.step = "confirming"] EXCEPT !.tx = n]
  BY <1>1
<1>3. /\ DOMAIN job'[w] = {"step", "leg", "inputs", "tx"}
      /\ job'[w].step = "confirming" /\ job'[w].leg = LegOf(w) /\ job'[w].leg \in Legs
      /\ job'[w].tx = n
  BY <1>1, <1>2 DEF JobInv, LegOf
<1>4. JobInv(w)'
  BY <1>3 DEF JobInv, CarriedOut, Steps
<1> QED
  BY <1>2, <1>4, WorkerStep

LEMMA BeginKeeps ==
  ASSUME DeliveryInv, NEW w \in Workers, NEW m \in Legs, Begin(w, m)
  PROVE  DeliveryInv'
<1>1. PackageStep /\ UNCHANGED <<leg_status, dest_tx>>
  BY StillPackage DEF Begin, ledgerVars, DeliveryInv
<1>2. /\ DOMAIN job' = Workers /\ \A v \in Workers \ {w} : job'[v] = job[v]
      /\ job'[w] = [step |-> Entry(m), leg |-> m, inputs |-> <<>>, tx |-> 0]
  BY DEF Begin, DeliveryInv, JobsInv
<1>3. Entry(m) \in {"sign", "check", "executing"}
  BY DEF Entry
<1>4. JobInv(w)'
  BY <1>2, <1>3 DEF JobInv, Steps
<1> QED
  BY <1>1, <1>2, <1>4, WorkerStep

LEMMA NotIdle ==
  ASSUME NEW w \in Workers, NEW s \in Steps, At(w, s)
  PROVE  job[w] # Idle
BY DEF At, Idle, Steps

LEMMA CheckBurnKeeps ==
  ASSUME DeliveryInv, NEW w \in Workers, CheckBurn(w)
  PROVE  DeliveryInv'
<1>1. PackageStep /\ UNCHANGED <<leg_status, dest_tx>> /\ job[w] # Idle
  BY StillPackage, NotIdle DEF CheckBurn, ledgerVars, DeliveryInv, Steps
<1> QED
  BY <1>1, StopKeeps, GotoKeeps DEF CheckBurn, Steps

\* A leg that is executed is not confirmed yet.
LEMMA ExecuteKeeps ==
  ASSUME DeliveryInv, NEW w \in Workers, Execute(w)
  PROVE  DeliveryInv'
<1>1. PackageStep /\ dest_tx' = dest_tx /\ events' = events /\ job[w] # Idle
  BY StillPackage, NotIdle DEF Execute, packageVars, DeliveryInv, Steps
<1>2. EventsInv' /\ JobsInv'
  <2>1. DOMAIN job = Workers /\ JobInv(w) /\ job' = [job EXCEPT ![w].step = "sign"]
    BY DEF DeliveryInv, JobsInv, Execute, Goto
  <2>2. /\ DOMAIN job' = Workers /\ \A v \in Workers \ {w} : job'[v] = job[v]
        /\ job'[w] = [job[w] EXCEPT !.step = "sign"]
    BY <2>1
  <2>3. JobInv(w)'
    BY <1>1, <2>1, <2>2 DEF JobInv, Steps
  <2> QED
    BY <1>1, <2>2, <2>3, OtherJobs DEF DeliveryInv, JobsInv, EventsInv, PackageStep
<1>3. RecordInv'
  <2>1. leg_status' = [leg_status EXCEPT ![LegOf(w)] = "Authorized"]
    BY DEF Execute
  <2> QED
    BY <1>1, <2>1 DEF DeliveryInv, RecordInv, CarriedOut
<1> QED
  BY <1>2, <1>3 DEF DeliveryInv

LEMMA SignKeeps ==
  ASSUME DeliveryInv, NEW w \in Workers, Sign(w)
  PROVE  DeliveryInv'
<1>1. UNCHANGED <<leg_status, dest_tx>> /\ job[w] # Idle /\ Goto(w, "find")
  BY NotIdle DEF Sign, ledgerVars, Steps
<1>2. LegOf(w) \in Legs
  BY <1>1 DEF DeliveryInv, JobsInv, JobInv, LegOf
<1>3. signatures' = signatures \cup {LegOf(w)} /\ events' = events
  BY DEF Sign, Package!DWalletSigns
<1>4. PackageStep
  BY <1>2, <1>3 DEF PackageStep, Grows, DeliveryInv, EventsInv
<1> QED
  BY <1>1, <1>4, GotoKeeps DEF Steps

\* Here the premise is needed: what is found by the nonce is the leg itself.
LEMMA FindSuiDeliveryKeeps ==
  ASSUME NoncesDiffer, DeliveryInv, NEW w \in Workers, FindSuiDelivery(w)
  PROVE  DeliveryInv'
<1>1. /\ PackageStep /\ UNCHANGED <<leg_status, dest_tx>> /\ job[w] # Idle
      /\ events' = events /\ events \in Seq(Legs) /\ LegOf(w) \in Legs
  <2>1. PackageStep /\ UNCHANGED <<leg_status, dest_tx>> /\ job[w] # Idle /\ events' = events
    BY StillPackage, NotIdle DEF FindSuiDelivery, ledgerVars, packageVars, DeliveryInv, Steps
  <2> QED
    BY <2>1 DEF DeliveryInv, EventsInv, JobsInv, JobInv, LegOf
<1>2. CASE Goto(w, "building")
  BY <1>1, <1>2, GotoKeeps DEF Steps
<1>3. ASSUME NEW n \in Prior(LegOf(w)), job' = [job EXCEPT ![w].step = "confirming", ![w].tx = n]
      PROVE  DeliveryInv'
  <2>1. n \in DOMAIN events /\ events[n].nonce = LegOf(w).nonce
    BY <1>3 DEF Prior, Carries
  <2>2. n \in 1 .. Len(events) /\ events[n] \in Legs
    BY <1>1, <2>1
  <2>3. events[n] = LegOf(w)
    BY <1>1, <2>1, <2>2 DEF NoncesDiffer
  <2> QED
    BY <1>1, <1>3, <2>2, <2>3, ConfirmingKeeps
<1> QED
  BY <1>2, <1>3 DEF FindSuiDelivery

LEMMA BuildKeeps ==
  ASSUME DeliveryInv, NEW w \in Workers, Build(w)
  PROVE  DeliveryInv'
<1>1. PackageStep /\ UNCHANGED <<leg_status, dest_tx>> /\ job[w] # Idle
  BY StillPackage, NotIdle DEF Build, ledgerVars, DeliveryInv, Steps
<1>2. ASSUME NEW inputs, job' = [job EXCEPT ![w].step = "delivering", ![w].inputs = inputs]
      PROVE  DeliveryInv'
  <2>1. DOMAIN job = Workers /\ JobInv(w)
    BY DEF DeliveryInv, JobsInv
  <2>2. /\ DOMAIN job' = Workers /\ \A v \in Workers \ {w} : job'[v] = job[v]
        /\ job'[w] = [[job[w] EXCEPT !.step = "delivering"] EXCEPT !.inputs = inputs]
    BY <1>2, <2>1
  <2>3. JobInv(w)'
    BY <1>1, <2>1, <2>2 DEF JobInv, Steps
  <2> QED
    BY <1>1, <2>2, <2>3, WorkerStep
<1> QED
  BY <1>1, <1>2, StopKeeps, GotoKeeps DEF Build, Steps
-----------------------------------------------------------------------------
(* The package honours a signed message, and nothing else appends an event.  *)

LEMMA LandsAppends ==
  ASSUME EventsInv, NEW tx, Lands(tx)
  PROVE  PackageStep /\ tx.leg \in Legs /\ events' = Append(events, tx.leg)
<1>1. tx.leg \in signatures /\ signatures' = signatures /\ events' = Append(events, tx.leg)
  BY DEF Lands, Mint, Burn, Package!MintWithAuthorization, Package!BurnWithAuthorization,
         Package!VerifyAndConsume
<1> QED
  BY <1>1 DEF PackageStep, Grows, EventsInv

LEMMA DeliveryLandsKeeps ==
  ASSUME DeliveryInv, NEW w \in Workers, DeliveryLands(w)
  PROVE  DeliveryInv'
<1>1. UNCHANGED <<leg_status, dest_tx>> /\ job[w] # Idle /\ Lands(Tx(w))
  BY NotIdle DEF DeliveryLands, ledgerVars, Steps
<1>2. Tx(w).leg = LegOf(w)
  BY DEF Tx
<1>3. PackageStep /\ events' = Append(events, LegOf(w)) /\ LegOf(w) \in Legs /\ events \in Seq(Legs)
  BY <1>1, <1>2, LandsAppends DEF DeliveryInv, EventsInv
<1>4. NextTx \in 1 .. Len(events') /\ events'[NextTx] = LegOf(w)
  <2> DEFINE m == LegOf(w)
  <2> HIDE DEF m
  <2>1. events' = Append(events, m) /\ m \in Legs
    BY <1>3 DEF m
  <2>2. Len(events) \in Nat
    BY <1>3, LenProperties
  <2>3. NextTx \in 1 .. Len(events') /\ events'[NextTx] = m
    BY <1>3, <2>1, <2>2, AppendProperties DEF NextTx
  <2> QED
    BY <2>3 DEF m
<1> QED
  BY <1>1, <1>3, <1>4, ConfirmingKeeps DEF DeliveryLands

LEMMA ConfirmKeeps ==
  ASSUME DeliveryInv, NEW w \in Workers, Confirm(w)
  PROVE  DeliveryInv'
<1>1. /\ PackageStep /\ events' = events /\ job[w] # Idle /\ job[w].step = "confirming"
  BY StillPackage, NotIdle DEF Confirm, packageVars, At, DeliveryInv, Steps
<1>2. CASE UNCHANGED <<leg_status, dest_tx>>
  BY <1>1, <1>2, StopKeeps DEF Confirm
<1>3. CASE /\ leg_status' = [leg_status EXCEPT ![LegOf(w)] = "Confirmed"]
           /\ dest_tx' = [dest_tx EXCEPT ![LegOf(w)] = job[w].tx]
  <2>1. LegOf(w) \in Legs /\ CarriedOut(job[w].tx, LegOf(w))
    BY <1>1 DEF DeliveryInv, JobsInv, JobInv, LegOf
  <2>2. RecordInv'
    <3>1. DOMAIN leg_status' = Legs /\ DOMAIN dest_tx' = Legs
      BY <1>3 DEF DeliveryInv, RecordInv
    <3>2. ASSUME NEW m \in Legs, leg_status'[m] = "Confirmed"
          PROVE  CarriedOut(dest_tx'[m], m)
      <4>1. CASE m = LegOf(w)
        <5>1. dest_tx'[m] = job[w].tx
          BY <1>3, <4>1 DEF DeliveryInv, RecordInv
        <5> QED
          BY <2>1, <4>1, <5>1
      <4>2. CASE m # LegOf(w)
        <5>1. dest_tx'[m] = dest_tx[m] /\ leg_status[m] = "Confirmed"
          BY <1>3, <3>2, <4>2 DEF DeliveryInv, RecordInv
        <5> QED
          BY <5>1 DEF DeliveryInv, RecordInv
      <4> QED
        BY <4>1, <4>2
    <3> QED
      BY <1>1, <3>1, <3>2 DEF RecordInv, CarriedOut
  <2>3. JobsInv'
    <3>1. DOMAIN job' = Workers /\ job'[w] = Idle /\ \A v \in Workers \ {w} : job'[v] = job[v]
      BY DEF Confirm, Stop, DeliveryInv, JobsInv
    <3> QED
      BY <1>1, <3>1, OtherJobs DEF DeliveryInv, JobsInv, JobInv, Idle
  <2> QED
    BY <1>1, <2>2, <2>3 DEF DeliveryInv, EventsInv, PackageStep
<1> QED
  BY <1>2, <1>3 DEF Confirm

LEMMA NextKeeps == NoncesDiffer /\ DeliveryInv /\ [Next]_vars => DeliveryInv'
<1> SUFFICES ASSUME NoncesDiffer, DeliveryInv, [Next]_vars
             PROVE  DeliveryInv'
  OBVIOUS
<1>1. ASSUME UNCHANGED <<packageVars, leg_status, dest_tx>>,
             UNCHANGED job \/ \E w \in Workers : Stop(w)
      PROVE  DeliveryInv'
  BY <1>1, StillPackage, NoWorkerStep, StopKeeps DEF DeliveryInv
<1>2. ASSUME UNCHANGED <<leg_status, dest_tx, job>>, \E tx : Lands(tx)
      PROVE  DeliveryInv'
  BY <1>2, LandsAppends, NoWorkerStep DEF DeliveryInv
<1>3. ASSUME NEW w \in Workers, Step(w)
      PROVE  DeliveryInv'
  <2>1. CASE ExecuteRefused(w) \/ DeliveryRefused(w)
    BY <1>1, <2>1 DEF ExecuteRefused, DeliveryRefused, ledgerVars
  <2> QED
    BY <1>3, <2>1, CheckBurnKeeps, ExecuteKeeps, SignKeeps, FindSuiDeliveryKeeps, BuildKeeps,
       DeliveryLandsKeeps, ConfirmKeeps DEF Step
<1>4. ASSUME NEW w \in Workers, Crash(w)
      PROVE  DeliveryInv'
  BY <1>1, <1>4 DEF Crash, ledgerVars
<1>5. ASSUME NEW tx \in orphans, OrphanLands(tx) \/ OrphanLost(tx)
      PROVE  DeliveryInv'
  BY <1>1, <1>2, <1>5 DEF OrphanLands, OrphanLost, ledgerVars
<1>6. ASSUME NEW m \in signatures, AnyoneMints(m)
      PROVE  DeliveryInv'
  <2>1. Lands([leg |-> m]) /\ UNCHANGED <<leg_status, dest_tx, job>>
    BY <1>6 DEF AnyoneMints, Lands, ledgerVars, workerVars
  <2> QED
    BY <1>2, <2>1
<1>7. CASE Redeploy \/ UNCHANGED vars
  BY <1>1, <1>7 DEF Redeploy, vars, workerVars, ledgerVars
<1>8. CASE Rebind
  <2>1. UNCHANGED <<events, signatures, leg_status, dest_tx, job>>
    BY <1>8 DEF Rebind, Package!SetParams, ledgerVars, workerVars
  <2> QED
    BY <2>1, NoWorkerStep DEF DeliveryInv, EventsInv, PackageStep, Grows
<1> QED
  BY <1>3, <1>4, <1>5, <1>6, <1>7, <1>8, BeginKeeps DEF Next

LEMMA InitHolds == Init => DeliveryInv
<1> SUFFICES ASSUME Init PROVE DeliveryInv
  OBVIOUS
<1>1. EventsInv
  BY DEF Init, EventsInv
<1>2. JobsInv
  BY DEF Init, JobsInv, JobInv
<1>3. RecordInv
  BY DEF Init, RecordInv
<1> QED
  BY <1>1, <1>2, <1>3 DEF DeliveryInv

\* Whatever processes run, die and are run again, and whoever relays: when no
\* two legs share a nonce, the transaction recorded for a confirmed leg is the
\* one that carried it out (sui.ts:96-120, index.ts:264-271).  Two ledgers that
\* are bound to one package in turn break the premise, and the property.
THEOREM ConfirmedByItsTransactionHolds ==
  ASSUME NoncesDiffer
  PROVE  Spec => []ConfirmedByItsTransaction
<1>1. DeliveryInv => ConfirmedByItsTransaction
  BY DEF DeliveryInv, RecordInv, CarriedOut, ConfirmedByItsTransaction
<1>2. DeliveryInv /\ [Next]_vars => DeliveryInv'
  BY NextKeeps
<1> QED
  BY <1>1, <1>2, InitHolds, PTL DEF Spec
=============================================================================

------------------------------- MODULE Signing -------------------------------
(***************************************************************************)
(* How one authorized foreign leg gets its signature                        *)
(* (executor/src/index.ts:175-237, sdk/src/ika/client.ts, solana.ts).  The  *)
(* set-up has the Ika network make a dWallet on each curve.  The executor   *)
(* sends execute_leg, or finds the transaction that did it; reads the       *)
(* dWallet's attestation back from Solana; gets a presign and, with that    *)
(* transaction as approval proof, a signature over gRPC; and looks at the   *)
(* signature the network commits on Solana.                                 *)
(*                                                                          *)
(* Signatures over the one message differ by the presign they were made     *)
(* with.  What the ledger's policy depends on (caps, clock, other intents)  *)
(* is reduced to a switch.                                                  *)
(***************************************************************************)
EXTENDS IkaWire, FiniteSets, SequencesExt

CONSTANTS
  Workers,       \* executor processes
  HistoryLimit,  \* transactions asked of getSignaturesForAddress
  SwitchBound,   \* changes of mind of the ledger's policy
  FaultBound     \* crashes and requests or waits that time out

ASSUME SigningAssumption ==
  HistoryLimit \in Nat \ {0} /\ SwitchBound \in Nat /\ FaultBound \in Nat

VARIABLES
  leg_status,  \* of the leg: "Pending", "Authorized", "Confirmed"
  accepts,     \* would execute_leg pass the policy now?
  switches,
  history,     \* the transactions that name the MessageApproval account, oldest first
  approval,    \* that account: NoAccount, Unsigned, or Committed(signature)
  curve,       \* of the leg's chain, which is bound to the dWallet on it
  attested,    \* curves whose DWalletAttestation account is on Solana
  dwallets,    \* the network's: the attestations of its dWallets, oldest first
  presigns,    \* the network's: the presigns it handed out, by number
  signatures,  \* the network's: the signatures it made
  job, faults

solanaVars  == <<leg_status, accepts, switches, history, approval, curve, attested>>
networkVars == <<dwallets, presigns, signatures>>
vars == <<solanaVars, networkVars, job, faults>>

\* A run asks for one presign; only a fault, or a proof that does not hold, makes
\* another run necessary.
PresignBound == FaultBound + Cardinality(Workers)

NoAccount    == [status |-> "none"]
Unsigned     == [status |-> "pending"]
Committed(s) == [status |-> "signed", signature |-> s]

\* The leg's authorization, which execute_leg has approved.
Message == "authorization"

Idle == [step |-> "idle"]
At(w, step) == job[w].step = step
Goto(w, step) == job' = [job EXCEPT ![w].step = step]
Stop(w) == job' = [job EXCEPT ![w] = Idle]

Secp256k1  == 0
Curve25519 == 2
CurveList  == <<Secp256k1, Curve25519>>

Init ==
  /\ leg_status = "Pending" /\ accepts = TRUE /\ switches = 0
  /\ history = <<>> /\ approval = NoAccount
  /\ curve \in {Secp256k1, Curve25519} /\ attested = {}
  /\ dwallets = <<>> /\ presigns = <<>> /\ signatures = {}
  /\ job = [w \in Workers |-> Idle] /\ faults = 0

-----------------------------------------------------------------------------
(* The set-up.                                                               *)

\* The network makes a dWallet: its key, and the session that names it, are its own.
NewDWallet(signed) ==
  LET n == Len(dwallets) + 1 IN
  DWalletDataAttestation(<<"session", n>>, signed.intended_chain_sender,
                         signed.request.curve, <<"key", n>>)

\* The dWallet account is there with the answer.
RequestDkg ==
  /\ Len(dwallets) < Len(CurveList)
  /\ LET signed == requestDkg("executor", "random", CurveList[Len(dwallets) + 1]) IN
     dwallets' = Append(dwallets, NewDWallet(signed))
  /\ UNCHANGED <<solanaVars, presigns, signatures, job, faults>>

Registered == Len(dwallets) = Len(CurveList)
On(c) == SelectSeq(dwallets, LAMBDA d : d.curve = curveVariant(c))[1]
dwallet_pubkey == On(curve).public_key

\* The network commits an attestation, in its own time.
NetworkAttests(c) ==
  /\ Registered /\ c \notin attested
  /\ attested' = attested \cup {c}
  /\ UNCHANGED <<leg_status, accepts, switches, history, approval, curve,
                 networkVars, job, faults>>

-----------------------------------------------------------------------------
(* execute_leg, sent or found again.                                         *)

\* loadLeg, as far as this leg: proof is a place in history, response the last
\* that the network gave.
Begin(w) ==
  /\ Registered
  /\ At(w, "idle") /\ leg_status # "Confirmed"
  /\ job' = [job EXCEPT ![w] =
       [step |-> IF leg_status = "Authorized" THEN "resuming" ELSE "sending",
        proof |-> 0, response |-> Error]]
  /\ UNCHANGED <<solanaVars, networkVars, faults>>

\* The RPC node simulates a transaction before it forwards it.
WouldPass == leg_status = "Pending" /\ accepts
Send(w) ==
  /\ At(w, "sending")
  /\ IF WouldPass THEN Goto(w, "sent") ELSE Stop(w)
  /\ UNCHANGED <<solanaVars, networkVars, faults>>

\* approve_message creates the MessageApproval.
ApproveMessage ==
  /\ approval' = Unsigned
  /\ history' = Append(history, "execute_leg")

SendLands(w) ==
  /\ At(w, "sent") /\ WouldPass
  /\ leg_status' = "Authorized"
  /\ ApproveMessage
  /\ job' = [job EXCEPT ![w].step = "approval", ![w].proof = Len(history')]
  /\ UNCHANGED <<accepts, switches, curve, attested, networkVars, faults>>

\* What passed the simulation is refused where it lands.  A failed transaction
\* names its accounts too.
SendFails(w) ==
  /\ At(w, "sent") /\ ~WouldPass
  /\ history' = Append(history, "failed")
  /\ Stop(w)
  /\ UNCHANGED <<leg_status, accepts, switches, approval, curve, attested,
                 networkVars, faults>>

\* The oldest transaction of the answer is taken for the one that created it.
Oldest == IF Len(history) > HistoryLimit THEN Len(history) - HistoryLimit + 1 ELSE 1
Resume(w) ==
  /\ At(w, "resuming")
  /\ job' = [job EXCEPT ![w].step = "approval", ![w].proof = Oldest]
  /\ UNCHANGED <<solanaVars, networkVars, faults>>

PollApproval(w) ==
  /\ At(w, "approval") /\ approval # NoAccount
  /\ Goto(w, "attestation")
  /\ UNCHANGED <<solanaVars, networkVars, faults>>

-----------------------------------------------------------------------------
(* The Ika network.                                                          *)

\* Without the account on Solana there is nothing to sign with.
FetchDWalletAttestation(w) ==
  /\ At(w, "attestation")
  /\ IF curve \in attested THEN Goto(w, "presign") ELSE Stop(w)
  /\ UNCHANGED <<solanaVars, networkVars, faults>>
attestation == On(curve)

Hears(w, response, step) ==
  job' = [job EXCEPT ![w].response = response, ![w].step = step]

\* A presign of their own is for imported keys only.
PresignAnswer(signed) ==
  IF signed.request.type = "PresignForDWallet" THEN Error
  ELSE Attestation(PresignDataAttestation(Len(presigns) + 1, signed.request.curve,
                                          signed.request.signature_algorithm))

RequestPresign(w) ==
  /\ At(w, "presign") /\ Len(presigns) < PresignBound
  /\ LET answer == PresignAnswer(requestPresign(w, SessionOf(attestation), curve,
                     presignAlgorithmForCurve(curve), dwallet_pubkey, FALSE)) IN
     IF Attests(answer)
     THEN presigns' = Append(presigns, answer.attestation_data) /\ Hears(w, answer, "sign")
     ELSE UNCHANGED presigns /\ Stop(w)
  /\ UNCHANGED <<solanaVars, dwallets, signatures, faults>>

\* The network looks at the transaction it is shown.
ProofHolds(proof) == history[proof] = "execute_leg"

\* The algorithms that sign with a key on a curve.
Fits(algorithm, c) ==
  CASE c = "Secp256k1"  -> algorithm \in {"ECDSASecp256k1", "Taproot"}
    [] c = "Curve25519" -> algorithm = "EdDSA"

\* It signs with the dWallet of the session, whose attestation it is shown, and
\* with a presign of its own that suits the key.
SignAnswer(signed) ==
  LET req == signed.request
      keys == {d \in ToSet(dwallets) : d.session_identifier = signed.session_identifier_preimage}
      presign == presigns[req.presign_session_identifier]
  IN  IF /\ req.dwallet_attestation \in keys
         /\ ProofHolds(req.approval_proof)
         /\ presign.curve = req.dwallet_attestation.curve
         /\ Fits(presign.signature_algorithm, presign.curve)
      THEN Signature([key |-> req.dwallet_attestation.public_key, message |-> req.message,
                      presign |-> req.presign_session_identifier])
      ELSE Error

RequestSign(w) ==
  /\ At(w, "sign")
  /\ LET answer == SignAnswer(requestSign(w, SessionOf(attestation), Message,
                     PresignId(job[w].response), job[w].proof, attestation)) IN
     IF IsSigned(answer)
     THEN signatures' = signatures \cup {answer.signature} /\ Hears(w, answer, "observing")
     ELSE UNCHANGED signatures /\ Stop(w)
  /\ UNCHANGED <<solanaVars, dwallets, presigns, faults>>

\* It commits the first signature that gets there, in its own time.
NetworkCommits(s) ==
  /\ approval = Unsigned
  /\ approval' = Committed(s)
  /\ history' = Append(history, "commit")
  /\ UNCHANGED <<leg_status, accepts, switches, curve, attested, networkVars, job, faults>>

-----------------------------------------------------------------------------
(* With the signature in hand.                                               *)

\* What follows a signature on Solana that is not the one received.  _m1 lets
\* the error through.
AfterMismatch_m1 == "idle"
AfterMismatch == "delivering"
Observe(w) ==
  /\ At(w, "observing") /\ approval # Unsigned
  /\ LET next == IF approval.signature = job[w].response.signature
                 THEN "delivering" ELSE AfterMismatch IN
     IF next = "idle" THEN Stop(w) ELSE Goto(w, next)
  /\ UNCHANGED <<solanaVars, networkVars, faults>>

\* The commit is not seen in time, which is no error.
ObserveTimesOut(w) ==
  /\ At(w, "observing") /\ approval = Unsigned /\ faults < FaultBound
  /\ faults' = faults + 1
  /\ Goto(w, "delivering")
  /\ UNCHANGED <<solanaVars, networkVars>>

\* Delivery and confirm_leg (Executor, SuiDelivery): the destination takes any
\* signature of the dWallet over the message, and an earlier delivery is found.
Verifies(s) == s.key = dwallet_pubkey /\ s.message = Message
Finish(w) ==
  /\ At(w, "delivering")
  /\ IF Verifies(job[w].response.signature)
     THEN leg_status' = "Confirmed" ELSE UNCHANGED leg_status
  /\ Stop(w)
  /\ UNCHANGED <<accepts, switches, history, approval, curve, attested,
                 networkVars, faults>>

\* The process dies, or a wait other than the one above ends it.
Crash(w) ==
  /\ ~At(w, "idle") /\ faults < FaultBound
  /\ faults' = faults + 1
  /\ Stop(w)
  /\ UNCHANGED <<solanaVars, networkVars>>

Switch ==
  /\ switches < SwitchBound
  /\ accepts' = ~accepts /\ switches' = switches + 1
  /\ UNCHANGED <<leg_status, history, approval, curve, attested, networkVars, job, faults>>

Step(w) ==
  \/ Send(w) \/ SendLands(w) \/ SendFails(w) \/ Resume(w) \/ PollApproval(w)
  \/ FetchDWalletAttestation(w) \/ RequestPresign(w) \/ RequestSign(w) \/ Observe(w) \/ Finish(w)

Attest == \E c \in ToSet(CurveList) : NetworkAttests(c)
Commit == \E s \in signatures : NetworkCommits(s)

Next ==
  \/ \E w \in Workers : Begin(w) \/ Step(w) \/ ObserveTimesOut(w) \/ Crash(w)
  \/ RequestDkg \/ Attest \/ Commit \/ Switch

Spec == Init /\ [][Next]_vars

\* Executors that run go on and are run again; the network commits what it attests
\* and what it signed.
Fairness ==
  /\ WF_vars(Attest) /\ WF_vars(Commit)
  /\ \A w \in Workers : WF_vars(Step(w)) /\ SF_vars(Begin(w))

FairSpec == Spec /\ Fairness

-----------------------------------------------------------------------------

\* A signature, then a crash, then another signature: a resumed leg is signed
\* anew and still gets through, whichever of its signatures was committed
\* (index.ts:176-183, 221-231).  It takes the transaction that is shown to be
\* the right one.
AuthorizedIsConfirmed ==
  <>[](leg_status # "Pending" => ProofHolds(Oldest))
    => (leg_status = "Authorized" ~> leg_status = "Confirmed")
=============================================================================

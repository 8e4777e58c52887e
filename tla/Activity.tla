------------------------------ MODULE Activity ------------------------------
(***************************************************************************)
(* The history the console shows of an intent (`activity` in                *)
(* app/src/server/devnet.ts), evaluated on the state of IssuerLedger: it is *)
(* put together from the Solana transactions that name the intent account   *)
(* and those that name the MessageApproval of a leg.                        *)
(*                                                                          *)
(* The state tells which transactions took effect.  Which execute_leg       *)
(* transactions landed and failed, and which signatures the Ika network has *)
(* committed, is a parameter.  Histories are shorter than the 50            *)
(* transactions the code asks for, and the accounts are read at one moment. *)
(***************************************************************************)
EXTENDS IssuerLedger

NoIntent   == -1
NoApproval == [nonce |-> -1]

\* A transaction with the accounts it names.  The order of the entries is left
\* out: each carries its slot.
Transaction(ix, i, l, signer, approval, err) ==
  [ix |-> ix, intent |-> i, leg |-> l, signer |-> signer, approval |-> approval, err |-> err]

\* Only the instruction of a foreign leg names a MessageApproval.
ApprovalNamed(i, l) ==
  IF deployment[LegChain(terms[i], l)].leg_kind = "IkaForeign"
  THEN Authorization(i, l) ELSE NoApproval

CreatedIntents == {i \in IntentIds : status[i] # "None"}
DueLegs        == {g \in Legs : leg_status[g] # "None"}
ExecutedLegs   == {g \in Legs : Executed(g[1], g[2])}
\* A native leg is confirmed by its execute_leg.
Reported     == {g \in ExecutedLegs : leg_status[g] = "Confirmed"
                                        /\ ApprovalNamed(g[1], g[2]) # NoApproval}
CreateTx(i)       == Transaction("create", i, 0, terms[i].proposer, NoApproval, FALSE)
ApproveTx(i, k)   == Transaction("approve", i, 0, k, NoApproval, FALSE)
ExecuteTx(g, err) == Transaction("execute", g[1], g[2], Executor, ApprovalNamed(g[1], g[2]), err)
ConfirmTx(g)      == Transaction("confirm", g[1], g[2], Executor, NoApproval, FALSE)
CommitTx(m)       == Transaction("CommitSignature", NoIntent, 0, "Ika", m, FALSE)

\* Everything on Solana, when the execute_leg transactions of the legs failed
\* failed before or after another one, and committed have their signature.
Txs(failed, committed) ==
  {CreateTx(i) : i \in CreatedIntents}
  \cup (UNION {{ApproveTx(i, k) : k \in ApprovedBy(i)} : i \in CreatedIntents})
  \cup {ExecuteTx(g, FALSE) : g \in ExecutedLegs} \cup {ExecuteTx(g, TRUE) : g \in failed}
  \cup {ConfirmTx(g) : g \in Reported} \cup {CommitTx(m) : m \in committed}

-----------------------------------------------------------------------------
(* What `activity` answers.                                                  *)

\* The MessageApprovals of the intent's legs; a leg has none before it is
\* executed, and a Solana leg never has one.
HasApproval(i, l) == <<i, l>> \in ExecutedLegs /\ ApprovalNamed(i, l) # NoApproval
ApprovalOf(i, l) == IF HasApproval(i, l) THEN <<Authorization(i, l)>> ELSE <<>>
Approvals(i) == ApprovalOf(i, 0) \o ApprovalOf(i, 1)

\* load: the transactions that name an account, without the failed ones.
\* _m1 keeps them.
Succeeded_m1(rs) == rs
Succeeded(rs) == {r \in rs : ~r.err}

HistoryEntry(r, kind, l) == [kind |-> kind, tx |-> r, leg |-> l]
LegShown(tx) == IF tx.ix \in {"execute", "confirm"} THEN tx.leg ELSE 0
OwnEntries(txs, i) ==
  {HistoryEntry(r, r.ix, LegShown(r)) : r \in Succeeded({s \in txs : s.intent = i})}
\* Whatever else names a MessageApproval is the network's.
IkaEntries(txs, i) ==
  LET listed == Approvals(i)
      own    == {e.tx : e \in OwnEntries(txs, i)}
  IN UNION {{HistoryEntry(r, "ika-sign", n - 1) :
               r \in Succeeded({s \in txs : s.approval = listed[n]}) \ own} : n \in DOMAIN listed}
ActivityOf(txs, i) == OwnEntries(txs, i) \cup IkaEntries(txs, i)

-----------------------------------------------------------------------------

KindShown(tx) == IF tx.ix = "CommitSignature" THEN "ika-sign" ELSE tx.ix
\* The transactions an intent's history consists of.
Happened(txs, i) ==
  {r \in txs : ~r.err /\ (r.intent = i \/ \E l \in LegIds :
                            HasApproval(i, l) /\ r.ix = "CommitSignature" /\ r.approval = Authorization(i, l))}

\* devnet.ts:414-418, "Every Solana transaction that touched this intent": the
\* console shows each transaction that took effect once, as what it was, and
\* nothing of another intent, although execute_leg names both kinds of account,
\* one failed for each leg, and the network has signed some of the messages.
HistoryIsComplete ==
  \A committed \in SUBSET message_approvals :
    LET txs == Txs(DueLegs, committed) IN
    \A i \in CreatedIntents :
      LET shown    == ActivityOf(txs, i)
          happened == Happened(txs, i)
      IN /\ {e.tx : e \in shown} = happened
         /\ \A e \in shown : e.kind = KindShown(e.tx)
         /\ Cardinality(shown) = Cardinality(happened)
=============================================================================

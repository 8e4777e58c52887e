----------------------------- MODULE MockConsole -----------------------------
(***************************************************************************)
(* The console in simulated mode: MockExecutor (app/src/executor/mock.ts),  *)
(* which holds the ledger in memory, and the store that shows it            *)
(* (app/src/store/useLedgerStore.ts).  JavaScript runs one callback at a    *)
(* time, so an action is everything between two awaits of a timer; several  *)
(* executions are under way at once, each between two timers.               *)
(*                                                                          *)
(* A reset replaces the executor's state object.  Executions under way go   *)
(* on with the intent and the chain objects they hold: intents and supplies *)
(* carry the number of resets before them as their generation.              *)
(***************************************************************************)
EXTENDS Integers, Sequences, FiniteSets, Sums

CONSTANTS
  Chains, Seed, Cap, GlobalCap,  \* seed.ts: chains, supply and cap of each
  Approvers, Threshold,
  Drafts,       \* the drafts that may be submitted, and by whom; recipients are allowlisted
  IntentBound,  \* intents after a reset
  Runs,         \* executions that may be under way at once
  ResetBound    \* resets

ASSUME MockAssumption ==
  /\ Seed \in [Chains -> Nat] /\ Cap \in [Chains -> Nat] /\ GlobalCap \in Nat
  /\ Threshold \in Nat /\ IntentBound \in Nat /\ ResetBound \in Nat
  /\ \A t \in Drafts : t.amount \in Nat

Generations == 0 .. ResetBound
Ids == 1 .. IntentBound
NoIntent == [status |-> "none"]
Idle == [phase |-> "idle"]

VARIABLES
  generation,  \* resets so far
  authorized,  \* generation -> chain -> authorized supply
  intents,     \* generation -> id -> intent
  runs,        \* run -> the execution: its intent, leg and phase, and the chain object it holds
  view,        \* the store's ledger
  executing    \* the store's executing flags

vars == <<generation, authorized, intents, runs, view, executing>>

Init ==
  /\ generation = 0
  /\ authorized = [g \in Generations |-> Seed]
  /\ intents = [g \in Generations |-> [i \in Ids |-> NoIntent]]
  /\ runs = [r \in Runs |-> Idle]
  /\ view = [authorized |-> Seed, intents |-> intents[0]]
  /\ executing = {}

-----------------------------------------------------------------------------
(* The store.                                                                *)

\* upsert, after a call that returns one intent.
Upsert(i, intent) == view' = [view EXCEPT !.intents[i] = intent]

\* An execution event carries the intent and the asset; the store takes both.
\* _m1 keeps its own asset once it knows the intent.
Fold_m1(i, intent, supply) ==
  view' = [view EXCEPT !.intents[i] = intent,
                       !.authorized = IF view.intents[i] = NoIntent THEN supply ELSE @]
Fold(i, intent, supply) == view' = [authorized |-> supply, intents |-> [view.intents EXCEPT ![i] = intent]]

-----------------------------------------------------------------------------
(* createIntent, approve.                                                    *)

Total(supply) == SumOver(supply, Chains)

\* evaluate, on the current supplies.  What other intents have been approved
\* for is not subtracted.
Passes(t) ==
  LET supply == authorized[generation] IN
  /\ t.amount > 0
  /\ t.kind = "mint" => Total(supply) + t.amount <= GlobalCap
  /\ t.kind # "mint" => supply[t.src] >= t.amount
  /\ t.kind # "burn" => supply[t.dst] + t.amount <= Cap[t.dst]
  /\ t.kind = "move" => t.src # t.dst

Leg(action, chain) == [action |-> action, chain |-> chain, status |-> "pending", applied |-> FALSE]
LegsOf(t) ==
  (IF t.kind # "mint" THEN <<Leg("burn", t.src)>> ELSE <<>>)
    \o (IF t.kind # "burn" THEN <<Leg("mint", t.dst)>> ELSE <<>>)

Counter == Cardinality({i \in Ids : intents[generation][i] # NoIntent})

CreateIntent(t) ==
  LET i == Counter + 1
      intent == [status |-> "pending_approval", amount |-> t.amount, legs |-> LegsOf(t),
                 proposer |-> t.proposer, approvals |-> {}, unlocked |-> FALSE]
  IN
  /\ i \in Ids
  /\ Passes(t)
  /\ intents' = [intents EXCEPT ![generation][i] = intent]
  /\ Upsert(i, intent)
  /\ UNCHANGED <<generation, authorized, runs, executing>>

Approve(i, approver) ==
  LET intent == intents[generation][i]
      given  == intent.approvals \cup {approver}
      next   == [intent EXCEPT !.approvals = given,
                   !.status = IF Cardinality(given) >= Threshold THEN "approved" ELSE @]
  IN
  /\ intent.status = "pending_approval"
  /\ approver # intent.proposer
  /\ approver \notin intent.approvals
  /\ intents' = [intents EXCEPT ![generation][i] = next]
  /\ Upsert(i, next)
  /\ UNCHANGED <<generation, authorized, runs, executing>>

\* The timelock of an approved intent elapses; nothing is stored.
Elapse(i) ==
  LET next == [intents[generation][i] EXCEPT !.unlocked = TRUE] IN
  /\ intents[generation][i].status = "approved"
  /\ ~intents[generation][i].unlocked
  /\ intents' = [intents EXCEPT ![generation][i] = next]
  /\ view' = [view EXCEPT !.intents[i] = IF @ = intents[generation][i] THEN next ELSE @]
  /\ UNCHANGED <<generation, authorized, runs, executing>>

-----------------------------------------------------------------------------
(* execute.                                                                  *)

\* The first leg from `from` on that is not confirmed; 0 when there is none.
NextLeg(intent, from) ==
  LET open == {l \in from .. Len(intent.legs) : intent.legs[l].status # "confirmed"}
  IN  IF open = {} THEN 0 ELSE CHOOSE l \in open : \A k \in open : l <= k

\* The run enters its next leg, with the chain object of the current state, or
\* returns: the store takes the final intent and clears the flag.  _m1 returns
\* after one leg.
Enter(r, g, i, intent, from) ==
  LET l == NextLeg(intent, from)
      started == [intent EXCEPT !.status = "executing", !.legs[l].status = "policy"]
      done == [intent EXCEPT !.status = "executed"]
  IN
  IF l # 0
  THEN /\ runs' = [runs EXCEPT ![r] = [phase |-> "policy", generation |-> g, id |-> i, leg |-> l,
                                       chain |-> generation]]
       /\ intents' = [intents EXCEPT ![g][i] = started]
       /\ Fold(i, started, authorized'[generation])
  ELSE /\ runs' = [runs EXCEPT ![r] = Idle]
       /\ intents' = [intents EXCEPT ![g][i] = done]
       /\ Fold(i, done, authorized'[generation])

\* The button is enabled by the view; the call looks at the executor's state.
\* _m1 leaves out the store's flag.
MayClick_m1(i) == view.intents[i].status \in {"approved", "executing"}
MayClick(i) == i \notin executing /\ view.intents[i].status \in {"approved", "executing"}

Ready(intent) ==
  /\ intent.status \in {"approved", "executing"}
  /\ Cardinality(intent.approvals) >= Threshold /\ intent.proposer \notin intent.approvals
  /\ intent.unlocked

FreeRun == {r \in Runs : runs[r] = Idle}
Execute(i) ==
  LET r == CHOOSE x \in FreeRun : TRUE IN
  /\ FreeRun # {}
  /\ MayClick(i)
  /\ Ready(intents[generation][i])
  /\ UNCHANGED <<generation, authorized>>
  /\ Enter(r, generation, i, intents[generation][i], 1)
  /\ executing' = executing \cup {i}

Run(r, phase) == runs[r].phase = phase
Held(r) == intents[runs[r].generation][runs[r].id]

\* The first timer: the supply of the chain object the run holds moves.
Delta(leg, amount) == IF leg.action = "mint" THEN amount ELSE -amount
Apply(r) ==
  LET run  == runs[r]
      leg  == Held(r).legs[run.leg]
      next == [Held(r) EXCEPT !.legs[run.leg].status = "signing", !.legs[run.leg].applied = TRUE]
  IN
  /\ Run(r, "policy")
  /\ authorized' = [authorized EXCEPT ![run.chain][leg.chain] = @ + Delta(leg, Held(r).amount)]
  /\ intents' = [intents EXCEPT ![run.generation][run.id] = next]
  /\ runs' = [runs EXCEPT ![r].phase = "signing"]
  /\ Fold(run.id, next, authorized'[generation])
  /\ UNCHANGED <<generation, executing>>

\* The second timer: signed.
Broadcast(r) ==
  LET run  == runs[r]
      next == [Held(r) EXCEPT !.legs[run.leg].status = "broadcast"]
  IN
  /\ Run(r, "signing")
  /\ intents' = [intents EXCEPT ![run.generation][run.id] = next]
  /\ runs' = [runs EXCEPT ![r].phase = "broadcast"]
  /\ Fold(run.id, next, authorized[generation])
  /\ UNCHANGED <<generation, authorized, executing>>

\* The third timer: confirmed, and on to the next leg in the same callback.
\* _m1 looks for the next leg from the wrong end.
From_m1(l) == l + 2
From(l) == l + 1
Confirm(r) ==
  LET run  == runs[r]
      next == [Held(r) EXCEPT !.legs[run.leg].status = "confirmed"]
  IN
  /\ Run(r, "broadcast")
  /\ UNCHANGED <<generation, authorized>>
  /\ Enter(r, run.generation, run.id, next, From(run.leg))
  /\ executing' = IF runs'[r] = Idle THEN executing \ {run.id} ELSE executing

\* Reset: a new state object, and a store that forgets what is under way.  Of
\* the old one what an execution holds is left.
Reset ==
  LET held == {runs[r].id : r \in {x \in Runs \ FreeRun : runs[x].generation = generation}} IN
  /\ generation < ResetBound
  /\ intents' = [intents EXCEPT ![generation] = [i \in Ids |-> IF i \in held THEN @[i] ELSE NoIntent]]
  /\ generation' = generation + 1
  /\ view' = [authorized |-> authorized[generation + 1], intents |-> intents[generation + 1]]
  /\ executing' = {}
  /\ UNCHANGED <<authorized, runs>>

Timers(r) == Apply(r) \/ Broadcast(r) \/ Confirm(r)

Next ==
  \/ \E t \in Drafts : CreateIntent(t)
  \/ \E i \in Ids, a \in Approvers : Approve(i, a)
  \/ \E i \in Ids : Elapse(i)
  \/ \E i \in Ids : Execute(i)
  \/ \E r \in Runs : Timers(r)
  \/ Reset

\* Timers fire.
Spec == Init /\ [][Next]_vars /\ \A r \in Runs : WF_vars(Timers(r))

-----------------------------------------------------------------------------

\* The effect of leg l of an intent on chain c, once it is under way or done.
Effect(intent, l, c) ==
  IF intent = NoIntent \/ l > Len(intent.legs) THEN 0
  ELSE LET leg == intent.legs[l]
       IN  IF leg.applied /\ leg.chain = c THEN Delta(leg, intent.amount) ELSE 0

Applied(c) ==
  SumOver([x \in Ids \X {1, 2} |-> Effect(intents[0][x[1]], x[2], c)], Ids \X {1, 2})

\* The simulated supplies are the seed and the effect, once each, of the legs
\* that are under way or done: executions that interleave at their timers, or
\* are clicked again, lose and repeat nothing (mock.ts:85-134,
\* useLedgerStore.ts:102), until a reset.
SupplyIsExplained ==
  generation = 0 => \A c \in Chains : authorized[0][c] = Seed[c] + Applied(c)

\* types.ts:168, "Full snapshot after the step, so the UI never has to
\* reconcile": what the store shows is what the executor holds, however the
\* events of several executions interleave with proposals and approvals, as
\* long as no reset comes between.
ViewIsCurrent ==
  generation = 0 => view = [authorized |-> authorized[0], intents |-> intents[0]]

HasLeg(g, i, l) == intents[g][i] # NoIntent /\ l <= Len(intents[g][i].legs)

\* A move whose burn leg was applied gets its mint leg applied and confirmed,
\* also when the ledger is reset under it (mock.ts:89-134).
HalfMoveFinishes ==
  \A g \in Generations, i \in Ids :
    (\E l \in {1, 2} : HasLeg(g, i, l) /\ intents[g][i].legs[l].applied)
      ~> (\A l \in {1, 2} : HasLeg(g, i, l) => intents[g][i].legs[l].status = "confirmed")
=============================================================================

-------------------------- MODULE MockConsole_proofs --------------------------
(***************************************************************************)
(* The simulated ledger until it is reset: its supplies are the seed and the *)
(* effect of every leg once, and the store shows what the executor holds,    *)
(* for any number of chains, intents and executions at once.                 *)
(***************************************************************************)
EXTENDS MockConsole, SequenceTheorems, FiniteSetTheorems, Shared_proofs, TLAPS

LegStatuses == {"pending", "policy", "signing", "broadcast", "confirmed"}
LegChains   == {t.src : t \in Drafts} \cup {t.dst : t \in Drafts}
Proposers   == {t.proposer : t \in Drafts}
Legs    == [action : {"burn", "mint"}, chain : LegChains, status : LegStatuses, applied : BOOLEAN]
LegSeqs == {s \in Seq(Legs) : Len(s) <= 2}
Intents == [status : {"pending_approval", "approved", "executing", "executed"}, amount : Nat,
            legs : LegSeqs, proposer : Proposers, approvals : SUBSET Approvers, unlocked : BOOLEAN]
RunRecs == [phase : {"policy", "signing", "broadcast"}, generation : {0}, id : Ids, leg : {1, 2},
            chain : {0}]

TypeInv ==
  /\ intents \in [Generations -> [Ids -> Intents \cup {NoIntent}]]
  /\ authorized \in [Generations -> [Chains -> Int]]
  /\ runs \in [Runs -> RunRecs \cup {Idle}]

\* Intents are numbered from 1 without a gap: the next one takes a free number.
Numbered == \E n \in Nat : {i \in Ids : intents[0][i] # NoIntent} = 1 .. n

\* Leg l of an intent.
Has(intent, l) == intent # NoIntent /\ l <= Len(intent.legs)

\* A leg is applied after the one before it is confirmed.
Ordered(intent) ==
  Has(intent, 2) /\ intent.legs[2].applied => intent.legs[1].status = "confirmed"

\* A run's intent is flagged in the store; the leg before the run's is
\* confirmed, and its own is applied once the first timer has fired.
RunInv(r) ==
  runs[r] # Idle =>
    /\ runs[r].id \in executing
    /\ Has(Held(r), runs[r].leg)
    /\ Held(r).legs[runs[r].leg].status # "confirmed"
    /\ Held(r).legs[runs[r].leg].applied <=> runs[r].phase # "policy"
    /\ runs[r].leg = 2 => Held(r).legs[1].status = "confirmed"

\* A run is the only one on its intent.
Alone == \A r, s \in Runs : runs[r] # Idle /\ runs[s] # Idle /\ runs[r].id = runs[s].id => r = s

\* An applied leg is confirmed, or a run is on its way to confirm it.
UnderWay(i) ==
  \A l \in {1, 2} :
    Has(intents[0][i], l) /\ intents[0][i].legs[l].applied =>
      \/ intents[0][i].legs[l].status = "confirmed"
      \/ \E r \in Runs : runs[r] # Idle /\ runs[r].id = i /\ runs[r].leg = l

Explained == \A c \in Chains : authorized[0][c] = Seed[c] + Applied(c)
Shown == view = [authorized |-> authorized[0], intents |-> intents[0]]

Running ==
  /\ \A i \in Ids : Ordered(intents[0][i]) /\ UnderWay(i)
  /\ \A r \in Runs : RunInv(r)
  /\ Alone

ConsoleInv ==
  /\ generation \in Nat
  /\ generation = 0 => TypeInv /\ Numbered /\ Running /\ Explained /\ Shown

-----------------------------------------------------------------------------
(* Legs and sums.                                                            *)

LEMMA ZeroGeneration == 0 \in Generations
BY MockAssumption DEF MockAssumption, Generations

LEMMA FinitePairs == IsFiniteSet(Ids \X {1, 2})
<1>1. IsFiniteSet(Ids)
  BY FS_Interval, MockAssumption DEF MockAssumption, Ids
<1>2. IsFiniteSet({1, 2})
  <2>1. {1, 2} = 1 .. 2
    OBVIOUS
  <2>2. 1 \in Int /\ 2 \in Int
    OBVIOUS
  <2>3. IsFiniteSet(1 .. 2)
    BY <2>2, FS_Interval, Zenon
  <2> QED
    BY <2>1, <2>3, Zenon
<1> QED
  BY <1>1, <1>2, FS_Product

LEMMA IntentFacts ==
  ASSUME NEW x \in Intents
  PROVE  /\ x # NoIntent /\ x.amount \in Nat /\ x.legs \in Seq(Legs) /\ Len(x.legs) \in 0 .. 2
         /\ \A l \in 1 .. Len(x.legs) :
              x.legs[l] \in Legs /\ x.legs[l].applied \in BOOLEAN /\ x.legs[l].status \in LegStatuses
<1>1. x # NoIntent
  <2>1. x.status # "none"
    BY DEF Intents
  <2> QED
    BY <2>1 DEF NoIntent
<1>2. x.amount \in Nat /\ x.legs \in LegSeqs
  BY DEF Intents
<1>7. x.legs \in Seq(Legs) /\ Len(x.legs) <= 2
  BY <1>2 DEF LegSeqs
<1>3. \A l \in 1 .. Len(x.legs) : x.legs[l] \in Legs
  BY <1>7, ElementOfSeq
<1>4. \A y \in Legs : y.applied \in BOOLEAN /\ y.status \in LegStatuses
  BY DEF Legs
<1>5. Len(x.legs) \in Nat
  BY <1>7, LenProperties
<1>6. Len(x.legs) \in 0 .. 2
  <2> DEFINE n == Len(x.legs)
  <2>1. n \in Nat /\ n <= 2
    BY <1>5, <1>7
  <2> HIDE DEF n
  <2>2. n \in 0 .. 2
    BY <2>1
  <2> QED
    BY <2>2 DEF n
<1> QED
  BY <1>1, <1>2, <1>3, <1>4, <1>6, <1>7

LEMMA EffectIsInt ==
  ASSUME NEW x \in Intents \cup {NoIntent}, NEW l \in {1, 2}, NEW c
  PROVE  Effect(x, l, c) \in Int
<1>1. CASE Has(x, l)
  <2>1. x \in Intents /\ x.amount \in Nat
    BY <1>1, IntentFacts DEF Has
  <2> QED
    BY <2>1 DEF Effect, Delta
<1>2. CASE ~Has(x, l)
  BY <1>2, IntentFacts DEF Has, Effect
<1> QED
  BY <1>1, <1>2

\* Two intents with the same effects.
SameEffects(x, y) == \A l \in {1, 2}, c \in Chains : Effect(x, l, c) = Effect(y, l, c)

\* Supplies and effects stay.
LEMMA EffectsStay ==
  ASSUME Explained, authorized'[0] = authorized[0],
         \A i \in Ids : SameEffects(intents'[0][i], intents[0][i])
  PROVE  Explained'
<1> SUFFICES ASSUME NEW c \in Chains
             PROVE  authorized'[0][c] = Seed[c] + Applied(c)'
  BY DEF Explained
<1> DEFINE f == [x \in Ids \X {1, 2} |-> Effect(intents[0][x[1]], x[2], c)]
           g == [x \in Ids \X {1, 2} |-> Effect(intents'[0][x[1]], x[2], c)]
<1>1. \A x \in Ids \X {1, 2} : f[x] = g[x]
  BY DEF SameEffects
<1>2. Applied(c) = SumOver(f, Ids \X {1, 2}) /\ Applied(c)' = SumOver(g, Ids \X {1, 2})
  BY DEF Applied
<1> HIDE DEF f, g
<1>3. SumOver(f, Ids \X {1, 2}) = SumOver(g, Ids \X {1, 2})
  BY <1>1, FinitePairs, SumSame
<1> QED
  BY <1>2, <1>3 DEF Explained

\* One leg takes effect.
OneEffect(i, l, ch, d) ==
  /\ authorized'[0] = [authorized[0] EXCEPT ![ch] = @ + d]
  /\ \A c \in Chains : Effect(intents[0][i], l, c) = 0
  /\ \A c \in Chains : Effect(intents'[0][i], l, c) = IF c = ch THEN d ELSE 0
  /\ \A j \in Ids, k \in {1, 2}, c \in Chains :
       <<j, k>> # <<i, l>> => Effect(intents'[0][j], k, c) = Effect(intents[0][j], k, c)

LEMMA EffectOfOne ==
  ASSUME TypeInv, TypeInv', Explained, NEW i \in Ids, NEW l \in {1, 2}, NEW ch, NEW d \in Int,
         OneEffect(i, l, ch, d)
  PROVE  Explained'
<1> SUFFICES ASSUME NEW c \in Chains
             PROVE  authorized'[0][c] = Seed[c] + Applied(c)'
  BY DEF Explained
<1> DEFINE f == [x \in Ids \X {1, 2} |-> Effect(intents[0][x[1]], x[2], c)]
           g == [x \in Ids \X {1, 2} |-> Effect(intents'[0][x[1]], x[2], c)]
           here == IF c = ch THEN d ELSE 0
<1>1. \A x \in Ids \X {1, 2} : f[x] \in Int /\ g[x] \in Int
  <2>1. \A j \in Ids : intents[0][j] \in Intents \cup {NoIntent} /\ intents'[0][j] \in Intents \cup {NoIntent}
    BY ZeroGeneration DEF TypeInv
  <2> QED
    BY <2>1, EffectIsInt
<1>2. \A x \in (Ids \X {1, 2}) \ {<<i, l>>} : f[x] = g[x]
  BY DEF OneEffect
<1>3. <<i, l>> \in Ids \X {1, 2} /\ f[<<i, l>>] = 0 /\ g[<<i, l>>] = here
  BY DEF OneEffect
<1>4. Applied(c) = SumOver(f, Ids \X {1, 2}) /\ Applied(c)' = SumOver(g, Ids \X {1, 2})
  BY DEF Applied
<1>5. authorized'[0][c] = authorized[0][c] + here /\ authorized[0][c] \in Int
  BY ZeroGeneration DEF TypeInv, OneEffect
<1> HIDE DEF f, g
<1>6. SumOver(g, Ids \X {1, 2}) = SumOver(f, Ids \X {1, 2}) - f[<<i, l>>] + g[<<i, l>>]
  <2> DEFINE pairs == Ids \X {1, 2}
             x == <<i, l>>
  <2>1. IsFiniteSet(pairs) /\ x \in pairs
    BY <1>3, FinitePairs
  <2>2. \A y \in pairs : f[y] \in Int /\ g[y] \in Int
    BY <1>1
  <2>3. \A y \in pairs \ {x} : f[y] = g[y]
    BY <1>2
  <2> HIDE DEF pairs, x, here
  <2>4. SumOver(g, pairs) = SumOver(f, pairs) - f[x] + g[x]
    BY <2>1, <2>2, <2>3, SumUpdate
  <2> QED
    BY <2>4 DEF pairs, x
<1>7. SumOver(f, Ids \X {1, 2}) \in Int
  BY <1>1, FinitePairs, SumIsInt
<1>8. here \in Int
  OBVIOUS
<1>9. authorized[0][c] = Seed[c] + Applied(c) /\ Seed[c] \in Int
  BY MockAssumption DEF Explained, MockAssumption
<1> HIDE DEF here
<1> QED
  BY <1>3, <1>4, <1>5, <1>6, <1>7, <1>8, <1>9

-----------------------------------------------------------------------------
(* Steps on one intent.                                                      *)

ExplainedState == TypeInv /\ Numbered /\ Running /\ Explained /\ Shown

Put(i, next) == intents' = [intents EXCEPT ![0][i] = next]

LEMMA PutFacts ==
  ASSUME TypeInv, NEW i \in Ids, NEW next \in Intents, Put(i, next)
  PROVE  /\ intents' \in [Generations -> [Ids -> Intents \cup {NoIntent}]]
         /\ intents'[0] = [intents[0] EXCEPT ![i] = next]
         /\ intents'[0][i] = next
         /\ \A j \in Ids : j # i => intents'[0][j] = intents[0][j]
         /\ \A j \in Ids : intents[0][j] \in Intents \cup {NoIntent}
BY ZeroGeneration DEF TypeInv, Put

\* An intent that was there is changed.
LEMMA NumberedStays ==
  ASSUME TypeInv, Numbered, NEW i \in Ids, NEW next \in Intents, Put(i, next),
         intents[0][i] # NoIntent
  PROVE  Numbered'
<1>1. \A j \in Ids : intents'[0][j] # NoIntent <=> intents[0][j] # NoIntent
  BY PutFacts, IntentFacts
<1> QED
  BY <1>1 DEF Numbered

\* The legs of an intent and the amount stay, or a new intent has legs that
\* are not applied; no execution moves.
SameLegs(x, y) == y # NoIntent /\ x.legs = y.legs /\ x.amount = y.amount
FreshLegs(x, y) == y = NoIntent /\ \A l \in 1 .. Len(x.legs) : ~x.legs[l].applied

LEMMA QuietStep ==
  ASSUME ExplainedState, NEW i \in Ids, NEW next \in Intents, Put(i, next),
         SameLegs(next, intents[0][i]) \/ FreshLegs(next, intents[0][i]),
         generation = 0, UNCHANGED <<authorized, runs, executing>>
  PROVE  TypeInv' /\ Running' /\ Explained'
<1> USE DEF ExplainedState
<1>1. TypeInv'
  BY PutFacts DEF TypeInv
<1>2. \A l \in {1, 2} :
        /\ Has(next, l) /\ next.legs[l].applied =>
             Has(intents[0][i], l) /\ next.legs = intents[0][i].legs
        /\ Has(intents[0][i], l) => Has(next, l) /\ next.legs = intents[0][i].legs
  <2>0. next # NoIntent /\ Len(next.legs) \in 0 .. 2
    BY IntentFacts
  <2>1. CASE SameLegs(next, intents[0][i])
    BY <2>0, <2>1 DEF SameLegs, Has
  <2>2. CASE FreshLegs(next, intents[0][i])
    BY <2>0, <2>2 DEF FreshLegs, Has
  <2> QED
    BY <2>1, <2>2
<1>7. \A j \in Ids : \A l \in {1, 2} :
        /\ Has(intents'[0][j], l) /\ intents'[0][j].legs[l].applied =>
             Has(intents[0][j], l) /\ intents'[0][j].legs = intents[0][j].legs
        /\ Has(intents[0][j], l) =>
             Has(intents'[0][j], l) /\ intents'[0][j].legs = intents[0][j].legs
  <2>1. intents'[0][i] = next /\ \A j \in Ids : j # i => intents'[0][j] = intents[0][j]
    BY PutFacts
  <2> QED
    BY <1>2, <2>1, Zenon
<1>3. \A j \in Ids : Ordered(intents'[0][j])
  <2> SUFFICES ASSUME NEW j \in Ids, Has(intents'[0][j], 2), intents'[0][j].legs[2].applied
               PROVE  intents'[0][j].legs[1].status = "confirmed"
    BY DEF Ordered
  <2>1. Has(intents[0][j], 2) /\ intents'[0][j].legs = intents[0][j].legs
    BY <1>7
  <2>2. Ordered(intents[0][j])
    BY DEF Running
  <2> QED
    BY <2>1, <2>2 DEF Ordered
<1>4. \A j \in Ids : UnderWay(j)'
  <2> SUFFICES ASSUME NEW j \in Ids, NEW l \in {1, 2},
                      Has(intents'[0][j], l), intents'[0][j].legs[l].applied
               PROVE  \/ intents'[0][j].legs[l].status = "confirmed"
                      \/ \E r \in Runs : runs[r] # Idle /\ runs[r].id = j /\ runs[r].leg = l
    BY DEF UnderWay
  <2>1. Has(intents[0][j], l) /\ intents'[0][j].legs = intents[0][j].legs
    BY <1>7
  <2>2. UnderWay(j)
    BY DEF Running
  <2> QED
    BY <2>1, <2>2 DEF UnderWay
<1>5. \A r \in Runs : RunInv(r)'
  <2> SUFFICES ASSUME NEW r \in Runs, runs[r] # Idle
               PROVE  RunInv(r)'
    BY DEF RunInv
  <2>1. runs[r] \in RunRecs /\ RunInv(r)
    BY DEF TypeInv, Running
  <2>2. runs[r].generation = 0 /\ runs[r].id \in Ids /\ runs[r].leg \in {1, 2}
    BY <2>1 DEF RunRecs
  <2>3. Has(intents[0][runs[r].id], runs[r].leg)
    BY <2>1, <2>2 DEF RunInv, Held
  <2>4. /\ Has(intents'[0][runs[r].id], runs[r].leg)
        /\ intents'[0][runs[r].id].legs = intents[0][runs[r].id].legs
    BY <1>7, <2>2, <2>3
  <2> QED
    BY <2>1, <2>2, <2>4, Zenon DEF RunInv, Held
<1>6. Explained'
  <2>1. SameEffects(next, intents[0][i])
    <3>1. CASE SameLegs(next, intents[0][i])
      BY <3>1, IntentFacts DEF SameLegs, SameEffects, Effect, Delta
    <3>2. CASE FreshLegs(next, intents[0][i])
      BY <3>2, IntentFacts DEF FreshLegs, SameEffects, Effect
    <3> QED
      BY <3>1, <3>2
  <2>2. \A j \in Ids : SameEffects(intents'[0][j], intents[0][j])
    BY <2>1, PutFacts DEF SameEffects
  <2> QED
    BY <2>2, EffectsStay
<1> QED
  BY <1>1, <1>3, <1>4, <1>5, <1>6 DEF Running, Alone

\* The store takes the intent.
LEMMA UpsertShows ==
  ASSUME ExplainedState, NEW i \in Ids, NEW next \in Intents, Put(i, next), Upsert(i, next),
         UNCHANGED authorized
  PROVE  Shown'
BY PutFacts DEF ExplainedState, Shown, Upsert

\* At most one leg, not applied.
Fresh(s) == s \in Seq(Legs) /\ Len(s) \in {0, 1} /\ \A l \in 1 .. Len(s) : ~s[l].applied

LEMMA FreshFacts ==
  ASSUME NEW leg \in Legs, ~leg.applied
  PROVE  Fresh(<<leg>>) /\ Fresh(<<>>)
<1> DEFINE s == <<leg>>
<1>1. s \in Seq(Legs) /\ Len(s) = 1 /\ s[1] = leg
  OBVIOUS
<1> HIDE DEF s
<1>2. \A l \in 1 .. Len(s) : s[l] = leg
  BY <1>1
<1>3. Fresh(s)
  BY <1>1, <1>2 DEF Fresh
<1>4. Fresh(<<>>)
  BY DEF Fresh
<1> QED
  BY <1>3, <1>4 DEF s

LEMMA LegsOfDraft ==
  ASSUME NEW t \in Drafts
  PROVE  LegsOf(t) \in LegSeqs /\ \A l \in 1 .. Len(LegsOf(t)) : ~LegsOf(t)[l].applied
<1> DEFINE burn == Leg("burn", t.src)
           mint == Leg("mint", t.dst)
<1>1. burn \in Legs /\ ~burn.applied /\ mint \in Legs /\ ~mint.applied
  BY DEF Leg, Legs, LegChains, LegStatuses
<1> HIDE DEF burn, mint
<1>2. Fresh(<<burn>>) /\ Fresh(<<mint>>) /\ Fresh(<<>>)
  BY <1>1, FreshFacts
<1>3. PICK s \in {<<>>, <<burn>>}, u \in {<<>>, <<mint>>} : LegsOf(t) = s \o u
  <2> DEFINE s0 == IF t.kind # "mint" THEN <<burn>> ELSE <<>>
             u0 == IF t.kind # "burn" THEN <<mint>> ELSE <<>>
  <2>1. s0 \in {<<>>, <<burn>>} /\ u0 \in {<<>>, <<mint>>}
    OBVIOUS
  <2>2. LegsOf(t) = s0 \o u0
    BY DEF LegsOf, burn, mint
  <2> HIDE DEF s0, u0
  <2> QED
    BY <2>1, <2>2
<1>4. Fresh(s) /\ Fresh(u)
  BY <1>2, Zenon
<1>5. /\ s \o u \in Seq(Legs) /\ Len(s \o u) = Len(s) + Len(u)
      /\ \A l \in 1 .. Len(s) + Len(u) : (s \o u)[l] = IF l <= Len(s) THEN s[l] ELSE u[l - Len(s)]
  BY <1>4, ConcatProperties DEF Fresh
<1> QED
  BY <1>3, <1>4, <1>5 DEF LegSeqs, Fresh

LEMMA CreateStep ==
  ASSUME ExplainedState, generation = 0, NEW t \in Drafts, CreateIntent(t)
  PROVE  ExplainedState'
<1> DEFINE i == Counter + 1
           next == [status |-> "pending_approval", amount |-> t.amount, legs |-> LegsOf(t),
                    proposer |-> t.proposer, approvals |-> {}, unlocked |-> FALSE]
<1>1. i \in Ids /\ Put(i, next) /\ Upsert(i, next) /\ UNCHANGED <<generation, authorized, runs, executing>>
  BY DEF CreateIntent, Put
<1>2. next \in Intents
  BY LegsOfDraft, MockAssumption DEF Intents, Proposers, MockAssumption
<1>3. next.legs = LegsOf(t)
  OBVIOUS
<1>4. PICK n \in Nat : {j \in Ids : intents[0][j] # NoIntent} = 1 .. n
  BY DEF ExplainedState, Numbered
<1>5. i = n + 1
  <2>1. Cardinality(1 .. n) = n
    BY FS_Interval
  <2> QED
    BY <1>4, <2>1 DEF Counter
<1> HIDE DEF i, next
<1>6. intents[0][i] = NoIntent
  <2>1. i \notin 1 .. n
    BY <1>5
  <2> QED
    BY <1>1, <1>4, <2>1
<1>7. FreshLegs(next, intents[0][i])
  BY <1>3, <1>6, LegsOfDraft DEF FreshLegs
<1>8. TypeInv' /\ Running' /\ Explained'
  BY <1>1, <1>2, <1>7, QuietStep
<1>9. Shown'
  BY <1>1, <1>2, UpsertShows
<1>10. Numbered'
  <2>1. \A j \in Ids : intents'[0][j] # NoIntent <=> intents[0][j] # NoIntent \/ j = i
    <3>1. TypeInv
      BY DEF ExplainedState
    <3>2. intents'[0][i] = next /\ \A j \in Ids : j # i => intents'[0][j] = intents[0][j]
      BY <1>1, <1>2, <3>1, PutFacts
    <3>3. next # NoIntent
      BY <1>2, IntentFacts
    <3> QED
      BY <3>2, <3>3
  <2>2. {j \in Ids : intents'[0][j] # NoIntent} = {j \in Ids : intents[0][j] # NoIntent} \cup {i}
    BY <1>1, <2>1
  <2>3. 1 .. n \cup {i} = 1 .. (n + 1)
    BY <1>5
  <2>4. n + 1 \in Nat
    OBVIOUS
  <2> QED
    BY <1>4, <2>2, <2>3, <2>4 DEF Numbered
<1> QED
  BY <1>8, <1>9, <1>10 DEF ExplainedState

\* What a status tells of an intent.
LEMMA StatusExists ==
  ASSUME TypeInv, NEW i \in Ids, intents[0][i].status # "none"
  PROVE  intents[0][i] \in Intents
<1>1. intents[0][i] \in Intents \cup {NoIntent}
  BY ZeroGeneration DEF TypeInv
<1> QED
  BY <1>1 DEF NoIntent

LEMMA ApproveStep ==
  ASSUME ExplainedState, generation = 0, NEW i \in Ids, NEW a \in Approvers, Approve(i, a)
  PROVE  ExplainedState'
<1> DEFINE intent == intents[0][i]
           given == intent.approvals \cup {a}
           next == [intent EXCEPT !.approvals = given,
                      !.status = IF Cardinality(given) >= Threshold THEN "approved" ELSE @]
<1>1. Put(i, next) /\ Upsert(i, next) /\ UNCHANGED <<generation, authorized, runs, executing>>
  BY DEF Approve, Put
<1>2. intent \in Intents
  BY StatusExists DEF Approve, ExplainedState
<1>3. next \in Intents /\ next.legs = intent.legs /\ next.amount = intent.amount
  BY <1>2 DEF Intents
<1>4. SameLegs(next, intents[0][i])
  BY <1>2, <1>3, IntentFacts DEF SameLegs
<1> HIDE DEF next
<1>5. TypeInv' /\ Running' /\ Explained'
  BY <1>1, <1>3, <1>4, QuietStep
<1>6. Numbered'
  BY <1>1, <1>2, <1>3, NumberedStays, IntentFacts DEF ExplainedState
<1>7. Shown'
  BY <1>1, <1>3, UpsertShows
<1> QED
  BY <1>5, <1>6, <1>7 DEF ExplainedState

LEMMA ElapseStep ==
  ASSUME ExplainedState, generation = 0, NEW i \in Ids, Elapse(i)
  PROVE  ExplainedState'
<1> DEFINE intent == intents[0][i]
           next == [intent EXCEPT !.unlocked = TRUE]
<1>1. Put(i, next) /\ UNCHANGED <<generation, authorized, runs, executing>>
  BY DEF Elapse, Put
<1>2. intent \in Intents
  BY StatusExists DEF Elapse, ExplainedState
<1>3. next \in Intents /\ next.legs = intent.legs /\ next.amount = intent.amount
  BY <1>2 DEF Intents
<1>4. SameLegs(next, intents[0][i])
  BY <1>2, <1>3, IntentFacts DEF SameLegs
<1>5. Upsert(i, next)
  <2>1. view' = [view EXCEPT !.intents[i] = IF view.intents[i] = intents[0][i] THEN next ELSE @]
    BY DEF Elapse
  <2>2. view.intents[i] = intents[0][i]
    BY DEF ExplainedState, Shown
  <2> QED
    BY <2>1, <2>2 DEF Upsert
<1> HIDE DEF next
<1>6. TypeInv' /\ Running' /\ Explained'
  BY <1>1, <1>3, <1>4, QuietStep
<1>7. Numbered'
  BY <1>1, <1>2, <1>3, NumberedStays, IntentFacts DEF ExplainedState
<1>8. Shown'
  BY <1>1, <1>3, <1>5, UpsertShows
<1> QED
  BY <1>6, <1>7, <1>8 DEF ExplainedState

-----------------------------------------------------------------------------
(* Executions.                                                               *)

LEMMA NextLegFacts ==
  ASSUME NEW x \in Intents, NEW from \in 1 .. 3, NEW l, l = NextLeg(x, from)
  PROVE  /\ l # 0 => l \in {1, 2} /\ l <= Len(x.legs) /\ x.legs[l].status # "confirmed"
         /\ l = 2 /\ from = 1 => x.legs[1].status = "confirmed"
<1> DEFINE open == {k \in from .. Len(x.legs) : x.legs[k].status # "confirmed"}
<1>1. open \subseteq {1, 2} /\ \A k \in open : k <= Len(x.legs) /\ x.legs[k].status # "confirmed"
  BY IntentFacts
<1>2. l = IF open = {} THEN 0 ELSE CHOOSE m \in open : \A k \in open : m <= k
  BY DEF NextLeg
<1>3. from = 1 /\ 2 \in open /\ 1 \notin open => x.legs[1].status = "confirmed"
  BY IntentFacts
<1> HIDE DEF open
<1>4. CASE open = {}
  BY <1>2, <1>4
<1>5. CASE open # {}
  <2>1. \E m \in open : \A k \in open : m <= k
    <3>1. CASE 1 \in open
      BY <1>1, <3>1
    <3>2. CASE 1 \notin open
      <4>1. open = {2}
        BY <1>1, <1>5, <3>2
      <4> QED
        BY <4>1
    <3> QED
      BY <3>1, <3>2
  <2>2. l \in open /\ \A k \in open : l <= k
    BY <1>2, <1>5, <2>1
  <2>3. l = 2 => 1 \notin open
    BY <2>2
  <2> QED
    BY <1>1, <1>3, <2>2, <2>3
<1> QED
  BY <1>4, <1>5

\* One leg of an intent changes.
SetLeg(x, l, leg) == [x EXCEPT !.legs[l] = leg]
LEMMA SetLegFacts ==
  ASSUME NEW x \in Intents, NEW l \in 1 .. Len(x.legs), NEW leg \in Legs
  PROVE  /\ SetLeg(x, l, leg) \in Intents
         /\ SetLeg(x, l, leg).amount = x.amount
         /\ Len(SetLeg(x, l, leg).legs) = Len(x.legs)
         /\ SetLeg(x, l, leg).legs[l] = leg
         /\ \A k \in 1 .. Len(x.legs) : k # l => SetLeg(x, l, leg).legs[k] = x.legs[k]
<1> DEFINE s == [x.legs EXCEPT ![l] = leg]
<1>1. x.legs \in Seq(Legs)
  BY IntentFacts
<1>2. /\ s \in Seq(Legs) /\ Len(s) = Len(x.legs) /\ s[l] = leg
      /\ \A k \in 1 .. Len(x.legs) : k # l => s[k] = x.legs[k]
  BY <1>1, ExceptSeq
<1>3. Len(x.legs) <= 2
  BY DEF Intents, LegSeqs
<1>4. s \in LegSeqs
  BY <1>2, <1>3 DEF LegSeqs
<1> HIDE DEF s
<1>5. SetLeg(x, l, leg) = [x EXCEPT !.legs = s]
  BY DEF SetLeg, s, Intents
<1>6. [x EXCEPT !.legs = s] \in Intents /\ [x EXCEPT !.legs = s].legs = s /\ [x EXCEPT !.legs = s].amount = x.amount
  BY <1>4 DEF Intents
<1> QED
  BY <1>2, <1>5, <1>6, Zenon

\* One leg and the status of an intent change.
Restatus(x, st, l, leg) == [SetLeg(x, l, leg) EXCEPT !.status = st]
LEMMA RestatusFacts ==
  ASSUME NEW x \in Intents, NEW l \in 1 .. Len(x.legs), NEW leg \in Legs,
         NEW st \in {"executing", "executed"}
  PROVE  /\ Restatus(x, st, l, leg) \in Intents
         /\ Restatus(x, st, l, leg).amount = x.amount
         /\ Restatus(x, st, l, leg).legs = SetLeg(x, l, leg).legs
<1>1. SetLeg(x, l, leg) \in Intents /\ SetLeg(x, l, leg).amount = x.amount
  BY SetLegFacts
<1> QED
  BY <1>1 DEF Restatus, Intents

\* A leg's status alone has no effect.
LEMMA StatusHasNoEffect ==
  ASSUME NEW x \in Intents, NEW y \in Intents, y.amount = x.amount, Len(y.legs) = Len(x.legs),
         \A k \in 1 .. Len(x.legs) :
           /\ y.legs[k].applied = x.legs[k].applied /\ y.legs[k].chain = x.legs[k].chain
           /\ y.legs[k].action = x.legs[k].action
  PROVE  SameEffects(y, x)
<1> SUFFICES ASSUME NEW l \in {1, 2}, NEW c \in Chains
             PROVE  Effect(y, l, c) = Effect(x, l, c)
  BY DEF SameEffects
<1>1. x # NoIntent /\ y # NoIntent /\ Len(x.legs) \in 0 .. 2
  BY IntentFacts
<1>2. CASE l > Len(x.legs)
  BY <1>1, <1>2 DEF Effect
<1>3. CASE ~(l > Len(x.legs))
  <2>1. l \in 1 .. Len(x.legs)
    BY <1>1, <1>3
  <2> QED
    BY <1>1, <1>3, <2>1 DEF Effect, Delta
<1> QED
  BY <1>2, <1>3

WithStatus(leg, st) == [leg EXCEPT !.status = st]
LEMMA WithStatusFacts ==
  ASSUME NEW leg \in Legs, NEW st \in LegStatuses
  PROVE  /\ WithStatus(leg, st) \in Legs /\ WithStatus(leg, st).status = st
         /\ WithStatus(leg, st).applied = leg.applied /\ WithStatus(leg, st).chain = leg.chain
         /\ WithStatus(leg, st).action = leg.action
BY DEF WithStatus, Legs

Settled(x) == \A k \in 1 .. Len(x.legs) : x.legs[k].applied => x.legs[k].status = "confirmed"

\* What Enter makes of the intent: its next leg starts, or it is done.
Entered(intent, l) ==
  IF l # 0 THEN Restatus(intent, "executing", l, WithStatus(intent.legs[l], "policy"))
  ELSE [intent EXCEPT !.status = "executed"]

LEMMA EnteredFacts ==
  ASSUME NEW x \in Intents, Settled(x), Ordered(x), NEW l \in 0 .. Len(x.legs),
         l # 0 => x.legs[l].status # "confirmed"
  PROVE  /\ Entered(x, l) \in Intents /\ Len(Entered(x, l).legs) = Len(x.legs)
         /\ Ordered(Entered(x, l)) /\ Settled(Entered(x, l))
         /\ l # 0 => Entered(x, l).legs[l].status = "policy" /\ ~Entered(x, l).legs[l].applied
         /\ l = 2 => Entered(x, l).legs[1] = x.legs[1]
         /\ SameEffects(Entered(x, l), x)
<1>0. x # NoIntent /\ Len(x.legs) \in 0 .. 2 /\ \A k \in 1 .. Len(x.legs) : x.legs[k] \in Legs
  BY IntentFacts
<1>1. CASE l = 0
  <2> DEFINE y == [x EXCEPT !.status = "executed"]
  <2>1. y \in Intents /\ y.legs = x.legs /\ y.amount = x.amount
    BY DEF Intents
  <2>2. Entered(x, l) = y
    BY <1>1 DEF Entered
  <2> HIDE DEF y
  <2>3. y # NoIntent
    BY <2>1, IntentFacts
  <2>4. SameEffects(y, x)
    BY <2>1, StatusHasNoEffect
  <2>5. Ordered(y) /\ Settled(y)
    BY <1>0, <2>1, <2>3 DEF Ordered, Settled, Has
  <2> QED
    BY <1>1, <2>1, <2>2, <2>4, <2>5
<1>2. CASE l # 0
  <2> DEFINE leg == WithStatus(x.legs[l], "policy")
             y == Restatus(x, "executing", l, leg)
  <2>1. l \in 1 .. Len(x.legs) /\ x.legs[l] \in Legs /\ ~x.legs[l].applied
    BY <1>0, <1>2 DEF Settled
  <2>2. /\ leg \in Legs /\ leg.status = "policy" /\ leg.applied = x.legs[l].applied
        /\ leg.chain = x.legs[l].chain /\ leg.action = x.legs[l].action
    BY <2>1, WithStatusFacts DEF LegStatuses
  <2>3. Entered(x, l) = y
    BY <1>2 DEF Entered
  <2> HIDE DEF leg
  <2>4. y \in Intents /\ y.amount = x.amount /\ y.legs = SetLeg(x, l, leg).legs
    BY <2>1, <2>2, RestatusFacts
  <2> HIDE DEF y
  <2>5. /\ Len(y.legs) = Len(x.legs) /\ y.legs[l] = leg
        /\ \A k \in 1 .. Len(x.legs) : k # l => y.legs[k] = x.legs[k]
    BY <2>1, <2>2, <2>4, SetLegFacts
  <2>6. SameEffects(y, x)
    BY <2>2, <2>4, <2>5, StatusHasNoEffect
  <2>7. Settled(y)
    BY <2>1, <2>2, <2>5 DEF Settled
  <2>8. Ordered(y)
    <3> SUFFICES ASSUME Has(y, 2), y.legs[2].applied
                 PROVE  y.legs[1].status = "confirmed"
      BY DEF Ordered
    <3>1. Len(x.legs) = 2 /\ l # 2
      BY <1>0, <2>1, <2>2, <2>5 DEF Has
    <3>2. x.legs[2].applied
      BY <2>5, <3>1
    <3>3. x.legs[1].status = "confirmed"
      BY <1>0, <3>1, <3>2 DEF Ordered, Has
    <3>4. l = 1 => FALSE
      BY <1>2, <3>3
    <3> QED
      BY <1>0, <2>1, <2>5, <3>1, <3>3, <3>4
  <2> QED
    BY <2>1, <2>2, <2>3, <2>4, <2>5, <2>6, <2>7, <2>8
<1> QED
  BY <1>1, <1>2

\* The store takes the intent and the supplies.
LEMMA FoldShows ==
  ASSUME ExplainedState, NEW i \in Ids, NEW next \in Intents, Put(i, next),
         Fold(i, next, authorized'[0])
  PROVE  Shown'
BY PutFacts DEF ExplainedState, Shown, Fold

LEMMA EnterMakes ==
  ASSUME generation = 0, NEW r \in Runs, NEW i \in Ids, NEW x \in Intents, NEW from \in 1 .. 3,
         Enter(r, 0, i, x, from), NEW l, l = NextLeg(x, from)
  PROVE  /\ Put(i, Entered(x, l)) /\ Fold(i, Entered(x, l), authorized'[0])
         /\ runs' = [runs EXCEPT ![r] =
                IF l # 0 THEN [phase |-> "policy", generation |-> 0, id |-> i, leg |-> l, chain |-> 0]
                ELSE Idle]
<1>1. l # 0 => l \in {1, 2} /\ l <= Len(x.legs)
  BY NextLegFacts
<1>2. CASE l # 0
  <2>1. Entered(x, l) = [x EXCEPT !.status = "executing", !.legs[l].status = "policy"]
    <3>1. Entered(x, l) =
            [[x EXCEPT !.legs[l] = [x.legs[l] EXCEPT !.status = "policy"]] EXCEPT !.status = "executing"]
      BY <1>2 DEF Entered, Restatus, SetLeg, WithStatus
    <3> QED
      BY <3>1 DEF Intents
  <2> QED
    BY <1>2, <2>1 DEF Enter, Put
<1>3. CASE l = 0
  BY <1>3 DEF Enter, Put, Entered
<1> QED
  BY <1>2, <1>3

\* An execution enters its next leg or ends, on an intent no other one is on.
LEMMA EnterStep ==
  ASSUME ExplainedState, generation = 0, NEW r \in Runs, NEW i \in Ids, NEW x \in Intents,
         NEW from \in 1 .. 3, Enter(r, 0, i, x, from), UNCHANGED authorized,
         from = 1 \/ x.legs[1].status = "confirmed",
         intents[0][i] # NoIntent, SameEffects(x, intents[0][i]), Ordered(x), Settled(x),
         runs[r] = Idle \/ runs[r].id = i,
         \A s \in Runs : s # r /\ runs[s] # Idle => runs[s].id # i /\ runs[s].id \in executing',
         runs'[r] # Idle => i \in executing'
  PROVE  ExplainedState'
<1> DEFINE l == NextLeg(x, from)
           next == Entered(x, l)
           run == IF l # 0 THEN [phase |-> "policy", generation |-> 0, id |-> i, leg |-> l, chain |-> 0]
                  ELSE Idle
<1>0. x # NoIntent /\ Len(x.legs) \in 0 .. 2
  BY IntentFacts
<1>1. /\ l # 0 => l \in {1, 2} /\ l <= Len(x.legs) /\ x.legs[l].status # "confirmed"
      /\ l = 2 => x.legs[1].status = "confirmed"
  BY NextLegFacts
<1>2. Put(i, next) /\ Fold(i, next, authorized'[0]) /\ runs' = [runs EXCEPT ![r] = run]
  BY EnterMakes
<1> HIDE DEF l
<1>3. /\ next \in Intents /\ Len(next.legs) = Len(x.legs) /\ Ordered(next) /\ Settled(next)
      /\ l # 0 => next.legs[l].status = "policy" /\ ~next.legs[l].applied
      /\ l = 2 => next.legs[1] = x.legs[1]
      /\ SameEffects(next, x)
  <2>1. l \in 0 .. Len(x.legs)
    BY <1>0, <1>1
  <2> QED
    BY <1>1, <2>1, EnteredFacts
<1> HIDE DEF next
<1>4. next # NoIntent /\ Len(next.legs) \in 0 .. 2
  BY <1>3, IntentFacts
<1>5. TypeInv /\ intents'[0][i] = next /\ \A j \in Ids : j # i => intents'[0][j] = intents[0][j]
  BY <1>2, <1>3, PutFacts DEF ExplainedState
<1>6. run \in RunRecs \cup {Idle} /\ (run # Idle => l # 0)
  BY <1>1 DEF RunRecs
<1>7. runs'[r] = run /\ \A s \in Runs : s # r => runs'[s] = runs[s]
  BY <1>2, <1>5 DEF TypeInv
<1>8. TypeInv'
  <2>1. runs' \in [Runs -> RunRecs \cup {Idle}]
    BY <1>2, <1>5, <1>6 DEF TypeInv
  <2>2. intents' \in [Generations -> [Ids -> Intents \cup {NoIntent}]]
    BY <1>2, <1>3, <1>5, PutFacts
  <2> QED
    BY <1>5, <2>1, <2>2 DEF TypeInv
<1>9. Numbered'
  BY <1>2, <1>3, NumberedStays DEF ExplainedState
<1>10. Shown'
  BY <1>2, <1>3, FoldShows
<1>11. Explained'
  <2>1. SameEffects(next, intents[0][i])
    BY <1>3 DEF SameEffects
  <2>2. \A j \in Ids : SameEffects(intents'[0][j], intents[0][j])
    BY <1>5, <2>1 DEF SameEffects
  <2> QED
    BY <2>2, EffectsStay DEF ExplainedState
<1>12. \A j \in Ids : Ordered(intents'[0][j])
  <2>1. \A j \in Ids : Ordered(intents[0][j])
    BY DEF ExplainedState, Running
  <2> QED
    BY <1>3, <1>5, <2>1
<1>13. \A j \in Ids : UnderWay(j)'
  <2> SUFFICES ASSUME NEW j \in Ids, NEW k \in {1, 2},
                      Has(intents'[0][j], k), intents'[0][j].legs[k].applied
               PROVE  \/ intents'[0][j].legs[k].status = "confirmed"
                      \/ \E s \in Runs : runs'[s] # Idle /\ runs'[s].id = j /\ runs'[s].leg = k
    BY DEF UnderWay
  <2>1. CASE j = i
    <3>1. k \in 1 .. Len(next.legs)
      BY <1>4, <1>5, <2>1 DEF Has
    <3> QED
      BY <1>3, <1>5, <2>1, <3>1 DEF Settled
  <2>2. CASE j # i
    <3>1. UnderWay(j) /\ intents'[0][j] = intents[0][j]
      BY <1>5, <2>2 DEF ExplainedState, Running
    <3>2. ASSUME NEW s \in Runs, runs[s] # Idle, runs[s].id = j, runs[s].leg = k
          PROVE  runs'[s] # Idle /\ runs'[s].id = j /\ runs'[s].leg = k
      BY <1>7, <2>2, <3>2
    <3> QED
      BY <3>1, <3>2 DEF UnderWay
  <2> QED
    BY <2>1, <2>2
<1>14. \A s \in Runs : RunInv(s)'
  <2> SUFFICES ASSUME NEW s \in Runs, runs'[s] # Idle
               PROVE  RunInv(s)'
    BY DEF RunInv
  <2>1. CASE s = r
    <3>1. /\ l # 0 /\ runs'[s].phase = "policy" /\ runs'[s].generation = 0 /\ runs'[s].id = i
          /\ runs'[s].leg = l /\ i \in executing'
      BY <1>6, <1>7, <2>1
    <3>2. Held(s)' = next
      BY <1>5, <3>1 DEF Held
    <3>3. Has(next, l)
      BY <1>1, <1>3, <1>4, <3>1 DEF Has
    <3> QED
      BY <1>1, <1>3, <3>1, <3>2, <3>3 DEF RunInv
  <2>2. CASE s # r
    <3>1. runs'[s] = runs[s] /\ runs[s] # Idle /\ RunInv(s) /\ runs[s] \in RunRecs
      BY <1>5, <1>7, <2>2 DEF ExplainedState, Running, TypeInv
    <3>2. runs[s].generation = 0 /\ runs[s].id \in Ids /\ runs[s].id # i /\ runs[s].id \in executing'
      BY <2>2, <3>1 DEF RunRecs
    <3>3. Held(s)' = Held(s)
      BY <1>5, <3>1, <3>2 DEF Held
    <3> QED
      BY <3>1, <3>2, <3>3 DEF RunInv
  <2> QED
    BY <2>1, <2>2
<1>15. Alone'
  <2> SUFFICES ASSUME NEW s \in Runs, NEW u \in Runs, runs'[s] # Idle, runs'[u] # Idle,
                      runs'[s].id = runs'[u].id, s # u
               PROVE  FALSE
    BY DEF Alone
  <2>1. run # Idle => run.id = i
    OBVIOUS
  <2>2. s # r /\ u # r
    BY <1>7, <2>1
  <2> QED
    BY <1>7, <2>2 DEF ExplainedState, Running, Alone
<1> QED
  BY <1>8, <1>9, <1>10, <1>11, <1>12, <1>13, <1>14, <1>15 DEF ExplainedState, Running

LEMMA ExecuteStep ==
  ASSUME ExplainedState, generation = 0, NEW i \in Ids, Execute(i)
  PROVE  ExplainedState'
<1> DEFINE r == CHOOSE s \in FreeRun : TRUE
           x == intents[0][i]
<1>1. /\ FreeRun # {} /\ i \notin executing /\ x.status \in {"approved", "executing"}
      /\ UNCHANGED authorized /\ Enter(r, 0, i, x, 1) /\ executing' = executing \cup {i}
  BY DEF Execute, MayClick, Ready
<1>2. r \in Runs /\ runs[r] = Idle
  BY <1>1 DEF FreeRun
<1> HIDE DEF r
<1>3. x \in Intents /\ x # NoIntent
  BY <1>1, StatusExists, IntentFacts DEF ExplainedState
<1>4. \A s \in Runs : runs[s] # Idle => runs[s].id \in executing
  BY DEF ExplainedState, Running, RunInv
<1>5. \A s \in Runs : s # r /\ runs[s] # Idle => runs[s].id # i /\ runs[s].id \in executing'
  BY <1>1, <1>4
<1>6. Ordered(x) /\ UnderWay(i)
  BY DEF ExplainedState, Running
<1>7. Settled(x)
  <2> SUFFICES ASSUME NEW k \in 1 .. Len(x.legs), x.legs[k].applied
               PROVE  x.legs[k].status = "confirmed"
    BY DEF Settled
  <2>1. k \in {1, 2} /\ Has(x, k)
    BY <1>3, IntentFacts DEF Has
  <2> QED
    BY <1>1, <1>4, <1>6, <2>1 DEF UnderWay
<1>8. SameEffects(x, intents[0][i])
  BY DEF SameEffects
<1>9. i \in executing' /\ 1 \in 1 .. 3
  BY <1>1
<1> QED
  BY <1>1, <1>2, <1>3, <1>5, <1>6, <1>7, <1>8, <1>9, EnterStep

\* What is known of an execution under way.
LEMMA RunFacts ==
  ASSUME ExplainedState, NEW r \in Runs, runs[r] # Idle
  PROVE  /\ runs[r] \in RunRecs /\ runs[r].generation = 0 /\ runs[r].chain = 0
         /\ runs[r].id \in Ids /\ runs[r].leg \in {1, 2}
         /\ Held(r) = intents[0][runs[r].id] /\ Held(r) \in Intents /\ Held(r) # NoIntent
         /\ runs[r].leg \in 1 .. Len(Held(r).legs) /\ Held(r).legs[runs[r].leg] \in Legs
         /\ RunInv(r) /\ Ordered(Held(r)) /\ UnderWay(runs[r].id)
         /\ \A s \in Runs : s # r /\ runs[s] # Idle =>
              runs[s].id # runs[r].id /\ runs[s].id \in executing
<1>1. runs[r] \in RunRecs /\ RunInv(r)
  BY DEF ExplainedState, TypeInv, Running
<1>2. /\ runs[r].generation = 0 /\ runs[r].chain = 0
      /\ runs[r].id \in Ids /\ runs[r].leg \in {1, 2}
  BY <1>1 DEF RunRecs
<1>3. Held(r) = intents[0][runs[r].id]
  BY <1>2 DEF Held
<1>4. Held(r) \in Intents \cup {NoIntent} /\ Has(Held(r), runs[r].leg)
  BY <1>1, <1>2, <1>3, ZeroGeneration DEF ExplainedState, TypeInv, RunInv
<1>5. Held(r) \in Intents /\ Held(r) # NoIntent
  BY <1>4 DEF Has
<1>6. runs[r].leg \in 1 .. Len(Held(r).legs) /\ Held(r).legs[runs[r].leg] \in Legs
  BY <1>2, <1>4, <1>5, IntentFacts DEF Has
<1>7. Ordered(Held(r)) /\ UnderWay(runs[r].id)
  BY <1>2, <1>3 DEF ExplainedState, Running
<1>8. \A s \in Runs : s # r /\ runs[s] # Idle => runs[s].id # runs[r].id /\ runs[s].id \in executing
  BY DEF ExplainedState, Running, RunInv, Alone
<1> QED
  BY <1>1, <1>2, <1>3, <1>5, <1>6, <1>7, <1>8

\* An execution's leg is applied, or goes on once it is.
LEMMA StageStep ==
  ASSUME ExplainedState, generation = 0, NEW r \in Runs, runs[r] # Idle,
         NEW ph \in {"signing", "broadcast"}, NEW leg \in Legs, leg.applied,
         leg.status # "confirmed", Put(runs[r].id, SetLeg(Held(r), runs[r].leg, leg)),
         Fold(runs[r].id, SetLeg(Held(r), runs[r].leg, leg), authorized'[0]),
         runs' = [runs EXCEPT ![r].phase = ph], UNCHANGED executing,
         authorized' \in [Generations -> [Chains -> Int]]
  PROVE  TypeInv' /\ Numbered' /\ Running' /\ Shown'
<1> DEFINE i == runs[r].id
           l == runs[r].leg
           x == Held(r)
           next == SetLeg(x, l, leg)
<1>1. /\ runs[r] \in RunRecs /\ runs[r].generation = 0 /\ i \in Ids /\ l \in {1, 2}
      /\ x = intents[0][i] /\ x \in Intents /\ x # NoIntent /\ l \in 1 .. Len(x.legs)
      /\ Len(x.legs) \in 0 .. 2
      /\ RunInv(r) /\ Ordered(x)
      /\ \A s \in Runs : s # r /\ runs[s] # Idle => runs[s].id # i /\ runs[s].id \in executing
  BY RunFacts, IntentFacts
<1>2. /\ next \in Intents /\ Len(next.legs) = Len(x.legs) /\ next.legs[l] = leg
      /\ \A k \in 1 .. Len(x.legs) : k # l => next.legs[k] = x.legs[k]
  BY <1>1, SetLegFacts
<1>3. Put(i, next) /\ Fold(i, next, authorized'[0])
  OBVIOUS
<1>16. i = runs[r].id /\ l = runs[r].leg /\ x = Held(r)
  OBVIOUS
<1>11. /\ i \in executing /\ x.legs[l].status # "confirmed"
       /\ l = 2 => x.legs[1].status = "confirmed"
  BY <1>1, Zenon DEF RunInv
<1> HIDE DEF i, l, x, next
<1>4. next # NoIntent
  BY <1>2, IntentFacts
<1>5. TypeInv /\ intents'[0][i] = next /\ \A j \in Ids : j # i => intents'[0][j] = intents[0][j]
  <2>1. TypeInv
    BY DEF ExplainedState
  <2> QED
    BY <1>1, <1>2, <1>3, <2>1, PutFacts, Zenon
<1>6. /\ runs'[r] \in RunRecs /\ runs'[r].id = i /\ runs'[r].leg = l /\ runs'[r].phase = ph
      /\ runs'[r].generation = 0 /\ runs'[r] # Idle
      /\ \A s \in Runs : s # r => runs'[s] = runs[s]
  <2>1. runs'[r] = [runs[r] EXCEPT !.phase = ph] /\ \A s \in Runs : s # r => runs'[s] = runs[s]
    BY <1>5 DEF TypeInv
  <2> DEFINE run == [runs[r] EXCEPT !.phase = ph]
  <2>2. /\ run \in RunRecs /\ run.id = i /\ run.leg = l /\ run.phase = ph
        /\ run.generation = 0
    BY <1>1, <1>16 DEF RunRecs
  <2> HIDE DEF run
  <2>3. run # Idle
    BY <2>2 DEF Idle
  <2> QED
    BY <2>1, <2>2, <2>3 DEF run
<1>7. TypeInv'
  <2>1. runs' \in [Runs -> RunRecs \cup {Idle}]
    BY <1>5, <1>6 DEF TypeInv
  <2>2. intents' \in [Generations -> [Ids -> Intents \cup {NoIntent}]]
    BY <1>1, <1>2, <1>3, <1>5, PutFacts
  <2> QED
    BY <2>1, <2>2 DEF TypeInv
<1>8. Numbered'
  BY <1>1, <1>2, <1>3, NumberedStays DEF ExplainedState
<1>9. Shown'
  BY <1>1, <1>2, <1>3, FoldShows
<1>10. l = 2 => x.legs[1].status = "confirmed" /\ next.legs[1] = x.legs[1]
  <2>1. l = 2 => 1 \in 1 .. Len(x.legs) /\ 1 # l
    BY <1>1
  <2> QED
    BY <1>2, <1>11, <2>1
<1>12. \A j \in Ids : Ordered(intents'[0][j])
  <2>1. Ordered(next)
    <3>1. CASE l = 2
      BY <1>10, <3>1 DEF Ordered
    <3>2. CASE l = 1
      <4>1. ~(Has(next, 2) /\ next.legs[2].applied)
        BY <1>1, <1>2, <1>11, <3>2 DEF Ordered, Has
      <4> QED
        BY <4>1 DEF Ordered
    <3> QED
      BY <1>1, <3>1, <3>2
  <2>2. \A j \in Ids : Ordered(intents[0][j])
    BY DEF ExplainedState, Running
  <2> QED
    BY <1>5, <2>1, <2>2
<1>13. \A j \in Ids : UnderWay(j)'
  <2> SUFFICES ASSUME NEW j \in Ids, NEW k \in {1, 2},
                      Has(intents'[0][j], k), intents'[0][j].legs[k].applied
               PROVE  \/ intents'[0][j].legs[k].status = "confirmed"
                      \/ \E s \in Runs : runs'[s] # Idle /\ runs'[s].id = j /\ runs'[s].leg = k
    BY DEF UnderWay
  <2>1. CASE j = i /\ k = l
    BY <1>6, <2>1
  <2>2. CASE j = i /\ k # l
    <3>1. k = 1 => l = 2
      BY <1>1, <2>2
    <3>2. k = 2 => l = 1
      BY <1>1, <2>2
    <3>3. Has(x, k) /\ next.legs[k] = x.legs[k]
      <4>1. k <= Len(next.legs)
        BY <1>5, <2>2 DEF Has
      <4>2. k \in 1 .. Len(x.legs)
        BY <1>1, <1>2, <4>1
      <4> QED
        BY <1>1, <1>2, <2>2, <4>2 DEF Has
    <3>4. k # 2
      BY <1>1, <1>5, <1>11, <2>2, <3>2, <3>3 DEF Ordered
    <3> QED
      BY <1>5, <1>10, <2>2, <3>1, <3>4
  <2>3. CASE j # i
    <3>1. UnderWay(j) /\ intents'[0][j] = intents[0][j]
      BY <1>5, <2>3 DEF ExplainedState, Running
    <3>2. ASSUME NEW s \in Runs, runs[s] # Idle, runs[s].id = j, runs[s].leg = k
          PROVE  runs'[s] # Idle /\ runs'[s].id = j /\ runs'[s].leg = k
      BY <1>6, <2>3, <3>2
    <3> QED
      BY <3>1, <3>2 DEF UnderWay
  <2> QED
    BY <2>1, <2>2, <2>3
<1>14. \A s \in Runs : RunInv(s)'
  <2> SUFFICES ASSUME NEW s \in Runs, runs'[s] # Idle
               PROVE  RunInv(s)'
    BY DEF RunInv
  <2>1. CASE s = r
    <3>1. Held(s)' = next
      BY <1>5, <1>6, <2>1 DEF Held
    <3>2. Has(next, l)
      BY <1>1, <1>2, <1>4 DEF Has
    <3> QED
      BY <1>2, <1>6, <1>10, <1>11, <2>1, <3>1, <3>2 DEF RunInv
  <2>2. CASE s # r
    <3>1. runs'[s] = runs[s] /\ runs[s] # Idle /\ RunInv(s) /\ runs[s] \in RunRecs
      BY <1>5, <1>6, <2>2 DEF ExplainedState, Running, TypeInv
    <3>2. runs[s].generation = 0 /\ runs[s].id \in Ids /\ runs[s].id # i /\ runs[s].id \in executing'
      BY <1>1, <2>2, <3>1 DEF RunRecs
    <3>3. Held(s)' = Held(s)
      BY <1>5, <3>1, <3>2 DEF Held
    <3> QED
      BY <3>1, <3>2, <3>3 DEF RunInv
  <2> QED
    BY <2>1, <2>2
<1>15. Alone'
  <2>1. \A s \in Runs : (runs'[s] # Idle <=> runs[s] # Idle) /\ runs'[s].id = runs[s].id
    BY <1>6, <1>16
  <2>2. Alone
    BY DEF ExplainedState, Running
  <2> QED
    BY <2>1, <2>2 DEF Alone
<1> QED
  BY <1>7, <1>8, <1>9, <1>12, <1>13, <1>14, <1>15 DEF Running

LEMMA ApplyStep ==
  ASSUME ExplainedState, generation = 0, NEW r \in Runs, Apply(r)
  PROVE  ExplainedState'
<1> DEFINE i == runs[r].id
           l == runs[r].leg
           x == Held(r)
           old == x.legs[l]
           leg == [old EXCEPT !.status = "signing", !.applied = TRUE]
           next == SetLeg(x, l, leg)
           d == Delta(old, x.amount)
<1>1. runs[r] # Idle /\ runs[r].phase = "policy"
  <2>1. runs[r].phase = "policy"
    BY Zenon DEF Apply, Run
  <2> QED
    BY <2>1 DEF Idle
<1>2. /\ runs[r].generation = 0 /\ runs[r].chain = 0 /\ i \in Ids /\ l \in {1, 2}
      /\ x = intents[0][i] /\ x \in Intents /\ x # NoIntent /\ l \in 1 .. Len(x.legs)
      /\ old \in Legs /\ RunInv(r)
  BY <1>1, RunFacts
<1>3. /\ leg \in Legs /\ leg.applied /\ leg.status = "signing" /\ leg.chain = old.chain
      /\ leg.action = old.action
  BY <1>2 DEF Legs, LegStatuses
<1>4. ~old.applied
  BY <1>1, <1>2 DEF RunInv
<1>5. [x EXCEPT !.legs[l].status = "signing", !.legs[l].applied = TRUE] = next
  <2> DEFINE s == x.legs
  <2>1. s \in [1 .. Len(s) -> Legs]
    BY <1>2, IntentFacts
  <2>2. [s EXCEPT ![l].status = "signing", ![l].applied = TRUE] = [s EXCEPT ![l] = leg]
    BY <1>2, <2>1, Zenon
  <2> QED
    BY <1>2, <2>2, Zenon DEF SetLeg, Intents
<1>6. /\ authorized' = [authorized EXCEPT ![0][old.chain] = @ + d]
      /\ Put(i, next) /\ Fold(i, next, authorized'[0])
      /\ runs' = [runs EXCEPT ![r].phase = "signing"] /\ UNCHANGED <<generation, executing>>
  BY <1>2, <1>5, Zenon DEF Apply, Put
<1>7. d \in Int
  <2>1. x.amount \in Nat
    BY <1>2, IntentFacts
  <2> QED
    BY <2>1 DEF Delta
<1>8. /\ next \in Intents /\ next.amount = x.amount /\ Len(next.legs) = Len(x.legs)
      /\ next.legs[l] = leg
      /\ \A k \in 1 .. Len(x.legs) : k # l => next.legs[k] = x.legs[k]
  <2> HIDE DEF i, l, x, old, leg
  <2> QED
    BY <1>2, <1>3, SetLegFacts
<1>9. d = Delta(leg, next.amount)
  BY <1>3, <1>8 DEF Delta
<1> HIDE DEF d
<1>10. /\ authorized' \in [Generations -> [Chains -> Int]]
       /\ authorized'[0] = [authorized[0] EXCEPT ![old.chain] = @ + d]
  <2>1. authorized \in [Generations -> [Chains -> Int]]
    BY DEF ExplainedState, TypeInv
  <2>2. old.chain \in Chains => authorized[0][old.chain] + d \in Int
    BY <1>7, <2>1, ZeroGeneration
  <2> QED
    BY <1>6, <2>1, <2>2, ZeroGeneration, Zenon
<1>11. TypeInv' /\ Numbered' /\ Running' /\ Shown'
  BY <1>1, <1>3, <1>6, <1>10, StageStep, Zenon
<1> HIDE DEF next, leg, i, x, l, old
<1>12. next # NoIntent /\ Len(x.legs) \in 0 .. 2
  BY <1>2, <1>8, IntentFacts
<1>13. TypeInv /\ intents'[0][i] = next /\ \A j \in Ids : j # i => intents'[0][j] = intents[0][j]
  <2>1. TypeInv
    BY DEF ExplainedState
  <2> QED
    BY <1>2, <1>6, <1>8, <2>1, PutFacts
<1>14. Explained'
  <2>1. \A c \in Chains : Effect(intents[0][i], l, c) = 0
    BY <1>2, <1>4 DEF Effect, old
  <2>2. \A c \in Chains : Effect(intents'[0][i], l, c) = IF c = old.chain THEN d ELSE 0
    BY <1>2, <1>3, <1>8, <1>9, <1>12, <1>13 DEF Effect
  <2>3. \A j \in Ids, k \in {1, 2}, c \in Chains :
          <<j, k>> # <<i, l>> => Effect(intents'[0][j], k, c) = Effect(intents[0][j], k, c)
    <3> SUFFICES ASSUME NEW j \in Ids, NEW k \in {1, 2}, NEW c \in Chains, j = i, k # l
                 PROVE  Effect(intents'[0][j], k, c) = Effect(intents[0][j], k, c)
      BY <1>13
    <3>1. CASE k > Len(x.legs)
      BY <1>2, <1>8, <1>12, <1>13, <3>1 DEF Effect
    <3>2. CASE ~(k > Len(x.legs))
      <4>1. k \in 1 .. Len(x.legs)
        BY <1>12, <3>2
      <4>2. next.legs[k] = x.legs[k]
        BY <1>8, <4>1
      <4> QED
        BY <1>2, <1>8, <1>12, <1>13, <3>2, <4>2 DEF Effect
    <3> QED
      BY <3>1, <3>2
  <2>4. Explained
    BY DEF ExplainedState
  <2> QED
    <3>1. OneEffect(i, l, old.chain, d)
      BY <1>10, <2>1, <2>2, <2>3 DEF OneEffect
    <3> QED
      BY <1>2, <1>7, <1>11, <1>13, <2>4, <3>1, EffectOfOne
<1> QED
  BY <1>11, <1>14 DEF ExplainedState

LEMMA BroadcastStep ==
  ASSUME ExplainedState, generation = 0, NEW r \in Runs, Broadcast(r)
  PROVE  ExplainedState'
<1> DEFINE i == runs[r].id
           l == runs[r].leg
           x == Held(r)
           leg == WithStatus(x.legs[l], "broadcast")
           next == SetLeg(x, l, leg)
<1>1. runs[r] # Idle /\ runs[r].phase = "signing"
  BY DEF Broadcast, Run, Idle
<1>2. /\ runs[r].generation = 0 /\ i \in Ids /\ x = intents[0][i] /\ x \in Intents /\ x # NoIntent
      /\ l \in 1 .. Len(x.legs) /\ x.legs[l] \in Legs /\ RunInv(r)
  BY <1>1, RunFacts
<1>3. /\ leg \in Legs /\ leg.status = "broadcast" /\ leg.applied = x.legs[l].applied
      /\ leg.chain = x.legs[l].chain /\ leg.action = x.legs[l].action
  BY <1>2, WithStatusFacts DEF LegStatuses
<1>4. leg.applied
  BY <1>1, <1>2, <1>3, Zenon DEF RunInv
<1>5. [x EXCEPT !.legs[l].status = "broadcast"] = next
  BY <1>2 DEF SetLeg, WithStatus
<1>6. /\ Put(i, next) /\ Fold(i, next, authorized'[0])
      /\ runs' = [runs EXCEPT ![r].phase = "broadcast"] /\ UNCHANGED <<generation, authorized, executing>>
  BY <1>2, <1>5, Zenon DEF Broadcast, Put
<1>7. authorized' \in [Generations -> [Chains -> Int]]
  BY <1>6 DEF ExplainedState, TypeInv
<1>8. TypeInv' /\ Numbered' /\ Running' /\ Shown'
  BY <1>1, <1>3, <1>4, <1>6, <1>7, StageStep
<1>9. /\ next \in Intents /\ next.amount = x.amount /\ Len(next.legs) = Len(x.legs)
      /\ next.legs[l] = leg
      /\ \A k \in 1 .. Len(x.legs) : k # l => next.legs[k] = x.legs[k]
  <2> HIDE DEF i, l, x, leg
  <2> QED
    BY <1>2, <1>3, SetLegFacts
<1> HIDE DEF next, leg
<1>10. SameEffects(next, x)
  BY <1>2, <1>3, <1>9, StatusHasNoEffect, Zenon
<1>11. TypeInv /\ intents'[0][i] = next /\ \A j \in Ids : j # i => intents'[0][j] = intents[0][j]
  <2>1. TypeInv
    BY DEF ExplainedState
  <2> QED
    BY <1>2, <1>6, <1>9, <2>1, PutFacts
<1>12. \A j \in Ids : SameEffects(intents'[0][j], intents[0][j])
  BY <1>2, <1>10, <1>11 DEF SameEffects
<1>13. Explained'
  BY <1>6, <1>12, EffectsStay DEF ExplainedState
<1> QED
  BY <1>8, <1>13 DEF ExplainedState

LEMMA ConfirmStep ==
  ASSUME ExplainedState, generation = 0, NEW r \in Runs, Confirm(r)
  PROVE  ExplainedState'
<1> DEFINE i == runs[r].id
           l == runs[r].leg
           x == Held(r)
           leg == WithStatus(x.legs[l], "confirmed")
           next == SetLeg(x, l, leg)
<1>1. runs[r] # Idle /\ runs[r].phase = "broadcast"
  BY DEF Confirm, Run, Idle
<1>2. /\ runs[r].generation = 0 /\ i \in Ids /\ x = intents[0][i] /\ x \in Intents /\ x # NoIntent
      /\ l \in {1, 2} /\ l \in 1 .. Len(x.legs) /\ x.legs[l] \in Legs /\ RunInv(r) /\ Ordered(x)
      /\ \A s \in Runs : s # r /\ runs[s] # Idle => runs[s].id # i /\ runs[s].id \in executing
  BY <1>1, RunFacts
<1>3. /\ leg \in Legs /\ leg.status = "confirmed" /\ leg.applied = x.legs[l].applied
      /\ leg.chain = x.legs[l].chain /\ leg.action = x.legs[l].action
  BY <1>2, WithStatusFacts, Zenon DEF LegStatuses
<1>4. /\ i \in executing /\ x.legs[l].status # "confirmed"
      /\ l = 2 => x.legs[1].status = "confirmed"
  BY <1>1, <1>2 DEF RunInv
<1>5. [x EXCEPT !.legs[l].status = "confirmed"] = next
  BY <1>2 DEF SetLeg, WithStatus
<1>6. /\ Enter(r, 0, i, next, l + 1) /\ UNCHANGED <<generation, authorized>>
      /\ executing' = IF runs'[r] = Idle THEN executing \ {i} ELSE executing
  BY <1>2, <1>5, Zenon DEF Confirm, From
<1>7. /\ next \in Intents /\ next.amount = x.amount /\ Len(next.legs) = Len(x.legs)
      /\ next.legs[l] = leg
      /\ \A k \in 1 .. Len(x.legs) : k # l => next.legs[k] = x.legs[k]
  <2> HIDE DEF i, l, x, leg
  <2> QED
    BY <1>2, <1>3, SetLegFacts
<1> HIDE DEF next, leg
<1>8. SameEffects(next, intents[0][i])
  <2>1. SameEffects(next, x)
    BY <1>2, <1>3, <1>7, StatusHasNoEffect, Zenon
  <2> QED
    BY <1>2, <2>1
<1>9. next # NoIntent /\ Len(x.legs) \in 0 .. 2
  BY <1>2, <1>7, IntentFacts
<1> HIDE DEF i, l, x
<1>10. next.legs[1].status = "confirmed"
  <2>1. CASE l = 1
    BY <1>3, <1>7, <2>1
  <2>2. CASE l = 2
    <3>1. 1 \in 1 .. Len(x.legs)
      BY <1>2, <1>9
    <3> QED
      BY <1>4, <1>7, <2>2, <3>1
  <2> QED
    BY <1>2, <2>1, <2>2
<1>11. Ordered(next)
  BY <1>10 DEF Ordered
<1>12. Settled(next)
  <2> SUFFICES ASSUME NEW k \in 1 .. Len(next.legs), next.legs[k].applied
               PROVE  next.legs[k].status = "confirmed"
    BY DEF Settled
  <2>1. k \in {1, 2} /\ k \in 1 .. Len(x.legs)
    BY <1>7, <1>9
  <2>2. CASE k = l
    BY <1>3, <1>7, <2>2
  <2>3. CASE k # l
    <3>1. k # 2
      <4> SUFFICES ASSUME k = 2 PROVE FALSE
        OBVIOUS
      <4>1. l = 1 /\ x.legs[2].applied
        BY <1>2, <1>7, <2>1, <2>3
      <4>2. Has(x, 2)
        BY <1>2, <2>1 DEF Has
      <4> QED
        BY <1>2, <1>4, <4>1, <4>2 DEF Ordered
    <3> QED
      BY <1>10, <2>1, <3>1
  <2> QED
    BY <2>2, <2>3
<1>13. l + 1 \in 1 .. 3
  BY <1>2
<1>14. \A s \in Runs : s # r /\ runs[s] # Idle => runs[s].id # i /\ runs[s].id \in executing'
  BY <1>2, <1>6
<1>15. runs'[r] # Idle => i \in executing'
  BY <1>4, <1>6
<1>16. runs[r] = Idle \/ runs[r].id = i
  BY DEF i
<1>17. intents[0][i] # NoIntent
  BY <1>2
<1> QED
  BY <1>2, <1>6, <1>7, <1>8, <1>10, <1>11, <1>12, <1>13, <1>14, <1>15, <1>16, <1>17, EnterStep

-----------------------------------------------------------------------------
(* The invariant.                                                            *)

LEMMA InitConsole == Init => ConsoleInv
<1> SUFFICES ASSUME Init PROVE ConsoleInv
  OBVIOUS
<1> USE DEF Init
<1>1. generation = 0 /\ 0 \in Nat
  OBVIOUS
<1>2. \A i \in Ids : intents[0][i] = NoIntent
  BY ZeroGeneration
<1>3. TypeInv
  <2>1. Seed \in [Chains -> Int]
    BY MockAssumption DEF MockAssumption
  <2> QED
    BY <2>1 DEF TypeInv
<1>4. Numbered
  <2>1. {i \in Ids : intents[0][i] # NoIntent} = 1 .. 0
    BY <1>2
  <2> QED
    BY <2>1 DEF Numbered
<1>5. Running
  BY <1>2 DEF Running, Ordered, UnderWay, Has, RunInv, Alone
<1>6. Explained
  <2> SUFFICES ASSUME NEW c \in Chains
               PROVE  authorized[0][c] = Seed[c] + Applied(c)
    BY DEF Explained
  <2> DEFINE f == [x \in Ids \X {1, 2} |-> Effect(intents[0][x[1]], x[2], c)]
  <2>1. \A x \in Ids \X {1, 2} : f[x] = 0
    BY <1>2 DEF Effect
  <2>2. Applied(c) = SumOver(f, Ids \X {1, 2})
    BY DEF Applied
  <2> HIDE DEF f
  <2>3. SumOver(f, Ids \X {1, 2}) = 0
    BY <2>1, FinitePairs, SumOfZeros
  <2>4. authorized[0][c] = Seed[c] /\ Seed[c] \in Int
    BY ZeroGeneration, MockAssumption DEF MockAssumption
  <2> QED
    BY <2>2, <2>3, <2>4
<1>7. Shown
  BY ZeroGeneration DEF Shown
<1> QED
  BY <1>1, <1>3, <1>4, <1>5, <1>6, <1>7 DEF ConsoleInv

LEMMA GenerationGrows ==
  ASSUME generation \in Nat, Next
  PROVE  /\ generation' \in Nat
         /\ generation' = 0 => generation = 0 /\ ~Reset
<1>1. Reset => generation' = generation + 1
  BY DEF Reset
<1>2. \/ Reset
      \/ generation' = generation
  <2>1. ASSUME NEW t \in Drafts, CreateIntent(t) PROVE generation' = generation
    BY <2>1 DEF CreateIntent
  <2>2. ASSUME NEW i \in Ids, NEW a \in Approvers, Approve(i, a) PROVE generation' = generation
    BY <2>2 DEF Approve
  <2>3. ASSUME NEW i \in Ids, Elapse(i) PROVE generation' = generation
    BY <2>3 DEF Elapse
  <2>4. ASSUME NEW i \in Ids, Execute(i) PROVE generation' = generation
    BY <2>4 DEF Execute
  <2>5. ASSUME NEW r \in Runs, Timers(r) PROVE generation' = generation
    BY <2>5, Zenon DEF Timers, Apply, Broadcast, Confirm
  <2> QED
    BY <2>1, <2>2, <2>3, <2>4, <2>5 DEF Next
<1> QED
  BY <1>1, <1>2

LEMMA NextConsole == ConsoleInv /\ [Next]_vars => ConsoleInv'
<1> SUFFICES ASSUME ConsoleInv, [Next]_vars PROVE ConsoleInv'
  OBVIOUS
<1>1. generation \in Nat /\ (generation = 0 => ExplainedState)
  BY DEF ConsoleInv, ExplainedState
<1>2. CASE Next
  <2>1. generation' \in Nat /\ (generation' = 0 => generation = 0 /\ ~Reset)
    BY <1>1, <1>2, GenerationGrows
  <2>2. ASSUME generation = 0, ~Reset
        PROVE  ExplainedState'
    <3>0. ExplainedState /\ generation = 0
      BY <1>1, <2>2
    <3>1. ASSUME NEW t \in Drafts, CreateIntent(t) PROVE ExplainedState'
      BY <3>0, <3>1, CreateStep
    <3>2. ASSUME NEW i \in Ids, NEW a \in Approvers, Approve(i, a) PROVE ExplainedState'
      BY <3>0, <3>2, ApproveStep
    <3>3. ASSUME NEW i \in Ids, Elapse(i) PROVE ExplainedState'
      BY <3>0, <3>3, ElapseStep
    <3>4. ASSUME NEW i \in Ids, Execute(i) PROVE ExplainedState'
      BY <3>0, <3>4, ExecuteStep
    <3>5. ASSUME NEW r \in Runs, Timers(r) PROVE ExplainedState'
      BY <3>0, <3>5, ApplyStep, BroadcastStep, ConfirmStep DEF Timers
    <3> QED
      BY <1>2, <2>2, <3>1, <3>2, <3>3, <3>4, <3>5 DEF Next
  <2> QED
    BY <2>1, <2>2 DEF ConsoleInv, ExplainedState
<1>3. CASE UNCHANGED vars
  <2>1. /\ generation' = generation /\ authorized' = authorized /\ intents' = intents
        /\ runs' = runs /\ view' = view /\ executing' = executing
    BY <1>3 DEF vars
  <2>2. TypeInv => TypeInv'
    BY <2>1 DEF TypeInv
  <2>3. Numbered => Numbered'
    BY <2>1 DEF Numbered
  <2>4. (\A r \in Runs : RunInv(r)) => \A r \in Runs : RunInv(r)'
    BY <2>1, Zenon DEF RunInv, Held
  <2>5. (\A i \in Ids : Ordered(intents[0][i]) /\ UnderWay(i))
          => \A i \in Ids : Ordered(intents'[0][i]) /\ UnderWay(i)'
    BY <2>1 DEF UnderWay
  <2>6. Alone => Alone'
    BY <2>1 DEF Alone
  <2>7. Running => Running'
    BY <2>4, <2>5, <2>6 DEF Running
  <2>8. Explained => Explained'
    BY <2>1, EffectsStay DEF SameEffects
  <2>9. Shown => Shown'
    BY <2>1 DEF Shown
  <2> QED
    BY <1>1, <2>1, <2>2, <2>3, <2>7, <2>8, <2>9 DEF ConsoleInv, ExplainedState
<1> QED
  BY <1>2, <1>3

LEMMA ConsoleInvHolds == Spec => []ConsoleInv
<1>1. ConsoleInv /\ [Next]_vars => ConsoleInv'
  BY NextConsole
<1> QED
  BY InitConsole, <1>1, PTL DEF Spec

\* The simulated supplies are the seed and the effect, once each, of the legs
\* that are under way or done, however many executions interleave at their
\* timers, until a reset (mock.ts:85-134, useLedgerStore.ts:102).
THEOREM SupplyIsExplainedHolds == Spec => []SupplyIsExplained
<1>1. ConsoleInv => SupplyIsExplained
  BY DEF ConsoleInv, SupplyIsExplained, Explained
<1> QED
  BY ConsoleInvHolds, <1>1, PTL

\* What the store shows is what the simulated executor holds, however the
\* events of executions interleave with proposals and approvals, until a reset
\* (types.ts:168, "so the UI never has to reconcile").
THEOREM ViewIsCurrentHolds == Spec => []ViewIsCurrent
<1>1. ConsoleInv => ViewIsCurrent
  BY DEF ConsoleInv, ViewIsCurrent, Shown
<1> QED
  BY ConsoleInvHolds, <1>1, PTL
=============================================================================

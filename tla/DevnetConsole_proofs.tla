------------------------- MODULE DevnetConsole_proofs -------------------------
(***************************************************************************)
(* What a tab shows as done has happened, for any number of tabs, requests, *)
(* intents and faults: every answer and every event on its way claims only  *)
(* what the ledger holds, and the ledger takes none of it back.             *)
(***************************************************************************)
EXTENDS DevnetConsole, SequenceTheorems, FiniteSetTheorems, TLAPS

LegStatuses == {"pending", "authorized", "signing", "policy", "confirmed"}
LegRecs     == [kind : {"native", "foreign"}, status : LegStatuses]
Intents     == [status : {"none", "unloaded", "pending_approval", "approved", "executing", "executed"},
                legs : Seq(LegRecs)]
Books       == [Ids -> Intents]
Events      == [type : {"leg", "intent", "done", "error"}, leg : Nat, intent : Intents]

\* What an intent claims.
Exists(x) == x.status \notin {"none", "unloaded"}
Confirmed(x, l) == l \in Legs(x) /\ x.legs[l].status = "confirmed"

\* Intent i of the ledger book, as x has it, is no further than it is in book.
Real(book, x, i) ==
  /\ x \in Intents
  /\ Exists(x) => Exists(book[i])
  /\ x.status = "executed" => book[i].status = "executed"
  /\ \A l \in Legs(x) : Confirmed(x, l) => Confirmed(book[i], l)
RealBook(book, v) == v \in Books /\ \A i \in Ids : Real(book, v[i], i)

\* Of the events only those with an intent claim something.
RealStream(book, s, i) ==
  /\ s \in Seq(Events)
  /\ \A k \in 1 .. Len(s) : s[k].type \in {"intent", "done"} => Real(book, s[k].intent, i)

-----------------------------------------------------------------------------
(* The requests, by what they are doing.                                     *)

ServerStages == {"start", "next", "policy", "confirm", "refetch"}
Reads        == [op : {"refresh"}, stage : {"read"}]
Refreshes    == [op : {"refresh"}, stage : {"answer"}, answer : Books]
Sends        == [op : {"create"}, stage : {"send"}, draft : Drafts, index : Ids, landed : {0}]
Landings     == [op : {"create"}, stage : {"read"}, draft : Drafts, index : Ids, landed : Ids]
ApprovalReqs == [op : {"approve"}, stage : {"send", "read"}, index : Ids, landed : Ids]
Answers      == [op : {"create", "approve"}, stage : {"answer"}, landed : Ids, index : Ids,
                 answer : Intents]
Executions   == [op : {"execute"}, stage : ServerStages,
                 index : Ids, leg : Nat, snapshot : Intents, loaded : LegStatuses \cup {""},
                 stream : Seq(Events), last : Intents]
Closings     == [op : {"execute"}, stage : {"closed"}, index : Ids, stream : Seq(Events), last : Intents]
Rereads      == [op : {"execute"}, stage : {"reread"}, index : Ids]
Finals       == [op : {"execute"}, stage : {"final"}, index : Ids, answer : Books]

\* An execution's snapshot has the legs of the intent, its leg is one of them,
\* and when the intent is fetched again the leg is confirmed.
ExecutionOK(book, q) ==
  /\ Exists(book[q.index])
  /\ RealStream(book, q.stream, q.index) /\ Real(book, q.last, q.index)
  /\ q.stage # "start" => Real(book, q.snapshot, q.index) /\ Legs(q.snapshot) = Legs(book[q.index])
  /\ q.stage \in {"policy", "confirm", "refetch"} => q.leg \in Legs(book[q.index])
  /\ q.stage = "refetch" => Confirmed(book[q.index], q.leg)

ClosingOK(book, q) ==
  Exists(book[q.index]) /\ RealStream(book, q.stream, q.index) /\ Real(book, q.last, q.index)

RequestOK(book, q) ==
  \/ q = Idle
  \/ q \in Reads \cup Sends \cup ApprovalReqs \cup Rereads
  \/ q \in Refreshes /\ RealBook(book, q.answer)
  \/ q \in Landings /\ q.index = q.landed
  \/ q \in Answers /\ Real(book, q.answer, q.index) /\ (q.op = "create" => q.index = q.landed)
  \/ q \in Executions /\ ExecutionOK(book, q)
  \/ q \in Closings /\ ClosingOK(book, q)
  \/ q \in Finals /\ RealBook(book, q.answer)

\* Intents are created in the order of their index; one that is executed has
\* all its legs confirmed.
Numbered(book) == \E n \in 0 .. IntentBound : \A i \in Ids : Exists(book[i]) <=> i <= n
BookOK(book) ==
  /\ book \in Books /\ Numbered(book)
  /\ \A i \in Ids : /\ book[i].status # "unloaded"
                    /\ ~Exists(book[i]) => book[i] = NoIntent
                    /\ book[i].status = "executed" => \A l \in Legs(book[i]) : Confirmed(book[i], l)

ConsoleInv ==
  /\ BookOK(ledger)
  /\ view \in [Tabs -> Books] /\ \A t \in Tabs : RealBook(ledger, view[t])
  /\ DOMAIN req = Requests /\ \A r \in Requests : RequestOK(ledger, req[r])

\* What a book never takes back.
Grows(book, next) ==
  \A i \in Ids :
    /\ Exists(book[i]) => Exists(next[i]) /\ Legs(next[i]) = Legs(book[i])
    /\ book[i].status = "executed" => next[i].status = "executed"
    /\ \A l \in Legs(book[i]) : Confirmed(book[i], l) => Confirmed(next[i], l)

-----------------------------------------------------------------------------
(* Sequences and intents.                                                    *)

LEMMA Constants ==
  /\ IntentBound \in Nat \ {0} /\ Ids = 1 .. IntentBound
  /\ Drafts \subseteq Seq({"native", "foreign"}) /\ ApprovalBound \in Nat
BY DevnetAssumption DEF DevnetAssumption, Ids

\* A sequence with other elements.
LEMMA SameLength ==
  ASSUME NEW S, NEW T, NEW s \in Seq(S), NEW f, f = [k \in DOMAIN s |-> f[k]],
         \A k \in DOMAIN s : f[k] \in T
  PROVE  f \in Seq(T) /\ DOMAIN f = DOMAIN s /\ Len(f) = Len(s)
<1>1. Len(s) \in Nat /\ DOMAIN s = 1 .. Len(s)
  BY LenProperties
<1>2. f \in [1 .. Len(s) -> T]
  BY <1>1
<1>3. f \in Seq(T)
  BY <1>1, <1>2, IsASeq
<1>4. DOMAIN f = 1 .. Len(f) /\ Len(f) \in Nat
  BY <1>3, LenProperties
<1> QED
  BY <1>1, <1>2, <1>3, <1>4, LenProperties

LEMMA LegFacts ==
  ASSUME NEW x \in Intents
  PROVE  /\ x.legs \in Seq(LegRecs) /\ Len(x.legs) \in Nat /\ Legs(x) = 1 .. Len(x.legs)
         /\ \A l \in Legs(x) : x.legs[l] \in LegRecs
<1>1. x.legs \in Seq(LegRecs)
  BY DEF Intents
<1> QED
  BY <1>1, LenProperties, ElementOfSeq DEF Legs

LEMMA NoIntentFacts ==
  /\ NoIntent \in Intents /\ ~Exists(NoIntent) /\ NoIntent.status = "none" /\ Legs(NoIntent) = {}
  /\ Unloaded \in Books /\ \A i \in Ids : ~Exists(Unloaded[i]) /\ Unloaded[i].status = "unloaded"
  /\ \A i \in Ids : Legs(Unloaded[i]) = {}
<1>1. <<>> \in Seq(LegRecs) /\ DOMAIN (<<>>) = {}
  BY EmptySeq
<1> QED
  BY <1>1 DEF NoIntent, Unloaded, Intents, Books, Exists, Legs

\* An intent with another status, and with another status of one leg.
LEMMA WithStatus ==
  ASSUME NEW x \in Intents, NEW st \in {"pending_approval", "approved", "executing", "executed"}
  PROVE  LET y == [x EXCEPT !.status = st] IN
         /\ y \in Intents /\ y.status = st /\ Exists(y) /\ Legs(y) = Legs(x)
         /\ \A l : Confirmed(y, l) <=> Confirmed(x, l)
BY DEF Intents, Exists, Legs, Confirmed

LEMMA WithLegStatus ==
  ASSUME NEW x \in Intents, NEW l, NEW st \in LegStatuses
  PROVE  LET y == [x EXCEPT !.legs[l].status = st] IN
         /\ y \in Intents /\ y.status = x.status /\ Legs(y) = Legs(x)
         /\ \A k \in Legs(x) : k # l => (Confirmed(y, k) <=> Confirmed(x, k))
         /\ l \in Legs(x) => y.legs[l].status = st
<1> DEFINE g == [x.legs EXCEPT ![l].status = st]
           y == [x EXCEPT !.legs[l].status = st]
<1>1. y = [x EXCEPT !.legs = g]
  BY DEF Intents
<1>2. x.legs \in Seq(LegRecs) /\ \A k \in DOMAIN x.legs : x.legs[k] \in LegRecs
  BY LegFacts DEF Legs
<1>3. /\ DOMAIN g = DOMAIN x.legs
      /\ \A k \in DOMAIN x.legs : g[k] = IF k = l THEN [x.legs[k] EXCEPT !.status = st] ELSE x.legs[k]
  OBVIOUS
<1>4. \A k \in DOMAIN x.legs : g[k] \in LegRecs
  <2> SUFFICES ASSUME NEW k \in DOMAIN x.legs
               PROVE  g[k] \in LegRecs
    OBVIOUS
  <2>1. x.legs[k] \in LegRecs /\ [x.legs[k] EXCEPT !.status = st] \in LegRecs
    BY <1>2 DEF LegRecs
  <2> QED
    BY <1>3, <2>1
<1>5. g = [k \in DOMAIN x.legs |-> g[k]]
  BY <1>3
<1>6. g \in Seq(LegRecs)
  <2> HIDE DEF g
  <2> QED
    BY <1>2, <1>4, <1>5, SameLength
<1>7. y \in Intents /\ y.status = x.status /\ y.legs = g
  BY <1>1, <1>6 DEF Intents
<1>8. l \in DOMAIN x.legs => g[l].status = st
  BY <1>2, <1>3 DEF LegRecs
<1> HIDE DEF g, y
<1>9. \A k \in Legs(x) : k # l => (Confirmed(y, k) <=> Confirmed(x, k))
  BY <1>3, <1>7 DEF Confirmed, Legs
<1> QED
  BY <1>3, <1>7, <1>8, <1>9 DEF Legs, y

\* What the app makes of an intent keeps its status and its confirmed legs.
LEMMA ShownFacts ==
  ASSUME NEW x \in Intents
  PROVE  /\ Shown(x) \in Intents /\ Shown(x).status = x.status /\ Legs(Shown(x)) = Legs(x)
         /\ \A l : Confirmed(Shown(x), l) <=> Confirmed(x, l)
<1> DEFINE g == [k \in Legs(x) |-> IF x.legs[k].status = "authorized"
                                   THEN [x.legs[k] EXCEPT !.status = "signing"] ELSE x.legs[k]]
<1>1. Shown(x) = [x EXCEPT !.legs = g]
  BY DEF Shown
<1>2. \A k \in Legs(x) : x.legs[k] \in LegRecs
  BY LegFacts
<1>3. \A k \in Legs(x) : g[k] \in LegRecs /\ (g[k].status = "confirmed" <=> x.legs[k].status = "confirmed")
  BY <1>2 DEF LegRecs, LegStatuses
<1>4. g \in Seq(LegRecs) /\ DOMAIN g = Legs(x)
  <2>1. x.legs \in Seq(LegRecs) /\ Legs(x) = DOMAIN x.legs
    BY LegFacts DEF Legs
  <2>2. g = [k \in DOMAIN x.legs |-> g[k]]
    BY <2>1
  <2>3. \A k \in DOMAIN x.legs : g[k] \in LegRecs
    BY <1>3, <2>1
  <2> HIDE DEF g
  <2> QED
    BY <2>1, <2>2, <2>3, SameLength
<1>5. Shown(x).legs = g /\ Shown(x).status = x.status /\ Shown(x) \in Intents
  BY <1>1, <1>4 DEF Intents
<1> HIDE DEF g
<1> QED
  BY <1>3, <1>4, <1>5 DEF Confirmed, Legs

-----------------------------------------------------------------------------
(* What is real stays real.                                                  *)

LEMMA RealStays ==
  ASSUME NEW book, NEW next, Grows(book, next), NEW i \in Ids, NEW x, Real(book, x, i)
  PROVE  Real(next, x, i)
BY DEF Real, Grows, Confirmed

LEMMA RealBookStays ==
  ASSUME NEW book, NEW next, Grows(book, next), NEW v, RealBook(book, v)
  PROVE  RealBook(next, v)
BY RealStays DEF RealBook

LEMMA RealStreamStays ==
  ASSUME NEW book, NEW next, Grows(book, next), NEW i \in Ids, NEW s, RealStream(book, s, i)
  PROVE  RealStream(next, s, i)
BY RealStays DEF RealStream

LEMMA ExecutionStays ==
  ASSUME NEW book, NEW next, Grows(book, next), NEW q \in Executions, ExecutionOK(book, q)
  PROVE  ExecutionOK(next, q)
<1>1. q.index \in Ids
  BY DEF Executions, ServerStages
<1> DEFINE i == q.index
<1>2. RealStream(next, q.stream, i) /\ Real(next, q.last, i)
  BY <1>1, RealStays, RealStreamStays DEF ExecutionOK
<1>3. Exists(next[i]) /\ Legs(next[i]) = Legs(book[i])
  BY <1>1 DEF ExecutionOK, Grows
<1>4. q.stage # "start" => Real(next, q.snapshot, i)
  BY <1>1, RealStays DEF ExecutionOK
<1>5. \A l : Confirmed(book[i], l) => Confirmed(next[i], l)
  BY <1>1 DEF Grows, Confirmed
<1> QED
  BY <1>2, <1>3, <1>4, <1>5 DEF ExecutionOK

LEMMA RequestStays ==
  ASSUME NEW book, NEW next, Grows(book, next), NEW q, RequestOK(book, q)
  PROVE  RequestOK(next, q)
<1>1. CASE q \in Executions /\ ExecutionOK(book, q)
  BY <1>1, ExecutionStays DEF RequestOK
<1>2. CASE q \in Closings /\ ClosingOK(book, q)
  <2>1. q.index \in Ids
    BY <1>2 DEF Closings
  <2>2. Exists(next[q.index])
    BY <1>2, <2>1 DEF Grows, ClosingOK
  <2> QED
    BY <1>2, <2>1, <2>2, RealStays, RealStreamStays DEF RequestOK, ClosingOK
<1>3. CASE q \in Answers /\ Real(book, q.answer, q.index) /\ (q.op = "create" => q.index = q.landed)
  <2>1. q.index \in Ids
    BY <1>3 DEF Answers
  <2> QED
    BY <1>3, <2>1, RealStays DEF RequestOK
<1>4. CASE q \in (Refreshes \cup Finals) /\ RealBook(book, q.answer)
  BY <1>4, RealBookStays DEF RequestOK
<1>5. CASE \/ q = Idle \/ q \in Reads \cup Sends \cup ApprovalReqs \cup Rereads
           \/ q \in Landings /\ q.index = q.landed
  BY <1>5 DEF RequestOK
<1> QED
  BY <1>1, <1>2, <1>3, <1>4, <1>5 DEF RequestOK

LEMMA GrowsReflexive == \A book : Grows(book, book)
BY DEF Grows

\* What is read from the ledger is real.
LEMMA ReadIsReal ==
  ASSUME ConsoleInv
  PROVE  /\ \A i \in Ids : ledger[i] \in Intents /\ Shown(ledger[i]) \in Intents
                           /\ Real(ledger, Shown(ledger[i]), i) /\ Legs(Shown(ledger[i])) = Legs(ledger[i])
         /\ RealBook(ledger, GetLedger)
<1>1. \A i \in Ids : ledger[i] \in Intents
  BY DEF ConsoleInv, BookOK, Books
<1>2. \A i \in Ids : Shown(ledger[i]) \in Intents /\ Real(ledger, Shown(ledger[i]), i)
                       /\ Legs(Shown(ledger[i])) = Legs(ledger[i])
  BY <1>1, ShownFacts DEF Real, Exists
<1> QED
  BY <1>1, <1>2 DEF RealBook, GetLedger, Books

-----------------------------------------------------------------------------
(* Streams.                                                                  *)

Claims(book, e, i) == e \in Events /\ (e.type \in {"intent", "done"} => Real(book, e.intent, i))

LEMMA StreamGrows ==
  ASSUME NEW book, NEW i \in Ids, NEW s, RealStream(book, s, i), NEW e, Claims(book, e, i)
  PROVE  RealStream(book, Append(s, e), i) /\ RealStream(book, s \o <<e>>, i)
<1>1. s \in Seq(Events) /\ e \in Events /\ Len(s) \in Nat
  BY LenProperties DEF RealStream, Claims
<1>2. /\ Append(s, e) \in Seq(Events) /\ Len(Append(s, e)) = Len(s) + 1
      /\ \A k \in 1 .. Len(s) + 1 : Append(s, e)[k] = IF k = Len(s) + 1 THEN e ELSE s[k]
  <2>1. \A k \in 1 .. Len(s) : Append(s, e)[k] = s[k]
    BY <1>1, AppendProperties
  <2> QED
    BY <1>1, <2>1, AppendProperties
<1>3. s \o <<e>> = Append(s, e)
  BY <1>1, AppendIsConcat
<1>4. RealStream(book, Append(s, e), i)
  BY <1>1, <1>2 DEF RealStream, Claims
<1> QED
  BY <1>3, <1>4

LEMMA EmptyStream ==
  ASSUME NEW book, NEW i \in Ids
  PROVE  RealStream(book, <<>>, i)
BY EmptySeq DEF RealStream

LEMMA StreamRead ==
  ASSUME NEW book, NEW i \in Ids, NEW s, RealStream(book, s, i), s # <<>>
  PROVE  RealStream(book, Tail(s), i) /\ Claims(book, Head(s), i)
<1>1. s \in Seq(Events) /\ s # <<>> /\ Len(s) \in Nat /\ Len(s) > 0
  BY EmptySeq, LenProperties DEF RealStream
<1>2. Tail(s) \in Seq(Events) /\ Len(Tail(s)) = Len(s) - 1 /\ Head(s) = s[1] /\ Head(s) \in Events
      /\ \A k \in 1 .. Len(Tail(s)) : Tail(s)[k] = s[k + 1]
  BY <1>1, HeadTailProperties
<1> QED
  BY <1>1, <1>2 DEF RealStream, Claims

-----------------------------------------------------------------------------
(* What a request is, by its stage.                                          *)

LEMMA RequestKinds ==
  ASSUME NEW book, NEW q, RequestOK(book, q)
  PROVE  /\ q.op = "refresh" /\ q.stage = "answer" => q \in Refreshes /\ RealBook(book, q.answer)
         /\ q.op = "create" /\ q.stage = "send" => q \in Sends
         /\ q.op = "create" /\ q.stage = "read" => q \in Landings /\ q.index = q.landed
         /\ q.op = "approve" /\ q.stage \in {"send", "read"} => q \in ApprovalReqs
         /\ q.op \in {"create", "approve"} /\ q.stage = "answer" =>
              q \in Answers /\ Real(book, q.answer, q.index) /\ (q.op = "create" => q.index = q.landed)
         /\ q.op = "execute" /\ q.stage \in ServerStages =>
              q \in Executions /\ ExecutionOK(book, q)
         /\ q.op = "execute" /\ q.stage = "closed" =>
              q \in Closings /\ ClosingOK(book, q)
         /\ q.op = "execute" /\ q.stage = "reread" => q \in Rereads
         /\ q.op = "execute" /\ q.stage = "final" => q \in Finals /\ RealBook(book, q.answer)
         /\ q.op = "execute" => q.stage \in ServerStages \cup {"closed", "reread", "final"}
<1>1. /\ \A x \in Reads : x.op = "refresh" /\ x.stage = "read"
      /\ \A x \in Refreshes : x.op = "refresh" /\ x.stage = "answer"
      /\ \A x \in Sends : x.op = "create" /\ x.stage = "send"
      /\ \A x \in Landings : x.op = "create" /\ x.stage = "read"
      /\ \A x \in ApprovalReqs : x.op = "approve" /\ x.stage \in {"send", "read"}
      /\ \A x \in Answers : x.op \in {"create", "approve"} /\ x.stage = "answer"
  BY DEF Reads, Refreshes, Sends, Landings, ApprovalReqs, Answers
<1>2. /\ \A x \in Executions : x.op = "execute" /\ x.stage \in ServerStages
      /\ \A x \in Closings : x.op = "execute" /\ x.stage = "closed"
      /\ \A x \in Rereads : x.op = "execute" /\ x.stage = "reread"
      /\ \A x \in Finals : x.op = "execute" /\ x.stage = "final"
      /\ Idle.op = "idle"
  BY DEF Executions, ServerStages, Closings, Rereads, Finals, Idle
<1> QED
  BY <1>1, <1>2 DEF RequestOK, ServerStages

-----------------------------------------------------------------------------
(* One request moves at a time.                                              *)

LEMMA RequestMoves ==
  ASSUME ConsoleInv, NEW r \in Requests, NEW q, req' = [req EXCEPT ![r] = q], RequestOK(ledger', q),
         BookOK(ledger'), Grows(ledger, ledger'),
         \/ view' = view
         \/ \E v : RealBook(ledger', v) /\ view' = [view EXCEPT ![Tab(r)] = v]
  PROVE  ConsoleInv'
<1>1. DOMAIN req' = Requests /\ \A s \in Requests : RequestOK(ledger', req'[s])
  BY RequestStays DEF ConsoleInv
<1>2. \A t \in Tabs : RealBook(ledger', view[t])
  BY RealBookStays DEF ConsoleInv
<1>3. view' \in [Tabs -> Books] /\ \A t \in Tabs : RealBook(ledger', view'[t])
  <2>1. CASE view' = view
    BY <1>2, <2>1 DEF ConsoleInv
  <2>2. ASSUME NEW v, RealBook(ledger', v), view' = [view EXCEPT ![Tab(r)] = v]
        PROVE  view' \in [Tabs -> Books] /\ \A t \in Tabs : RealBook(ledger', view'[t])
    BY <1>2, <2>2 DEF ConsoleInv, RealBook
  <2> QED
    BY <2>1, <2>2
<1> QED
  BY <1>1, <1>3 DEF ConsoleInv

\* While the ledger stays as it is.
LEMMA QuietMoves ==
  ASSUME ConsoleInv, NEW r \in Requests, NEW q, req' = [req EXCEPT ![r] = q], RequestOK(ledger, q),
         ledger' = ledger,
         \/ view' = view
         \/ \E v : RealBook(ledger, v) /\ view' = [view EXCEPT ![Tab(r)] = v]
  PROVE  ConsoleInv'
<1>1. BookOK(ledger') /\ Grows(ledger, ledger') /\ RequestOK(ledger', q)
  BY GrowsReflexive DEF ConsoleInv
<1> QED
  BY <1>1, RequestMoves

LEMMA RequestEnds ==
  ASSUME ConsoleInv, NEW r \in Requests, Finish(r), ledger' = ledger,
         \/ view' = view
         \/ \E v : RealBook(ledger, v) /\ view' = [view EXCEPT ![Tab(r)] = v]
  PROVE  ConsoleInv'
<1>1. RequestOK(ledger, Idle)
  BY DEF RequestOK
<1> QED
  BY <1>1, QuietMoves DEF Finish

\* An answer about one intent is put in its place.
LEMMA UpsertIsReal ==
  ASSUME NEW book, NEW v, RealBook(book, v), NEW i \in Ids, NEW x, Real(book, x, i)
  PROVE  RealBook(book, Upsert(v, i, x))
BY DEF Upsert, RealBook, Books, Real

LEMMA FoldedIsReal ==
  ASSUME NEW book, NEW v, RealBook(book, v), NEW i \in Ids, NEW l, Exists(book[i])
  PROVE  RealBook(book, Folded(v, i, l))
<1>1. CASE v = Unloaded \/ v[i] = NoIntent
  BY <1>1 DEF Folded
<1>2. CASE ~(v = Unloaded \/ v[i] = NoIntent)
  <2> DEFINE x == v[i]
             y == [x EXCEPT !.status = "executing"]
             z == [y EXCEPT !.legs[l].status = "policy"]
  <2>1. x \in Intents /\ Real(book, x, i) /\ v \in Books
    BY DEF RealBook, Books
  <2>2. Folded(v, i, l) = [v EXCEPT ![i] = z]
    <3> DEFINE w == [v EXCEPT ![i].status = "executing"]
    <3>1. Folded(v, i, l) = [w EXCEPT ![i].legs[l].status = "policy"]
      BY <1>2 DEF Folded
    <3>2. w = [v EXCEPT ![i] = y] /\ w[i] = y /\ DOMAIN w = Ids
      BY <2>1 DEF Books
    <3> HIDE DEF w, y
    <3>3. [w EXCEPT ![i].legs[l].status = "policy"] = [w EXCEPT ![i] = z]
      BY <3>2
    <3> HIDE DEF z
    <3>4. [[v EXCEPT ![i] = y] EXCEPT ![i] = z] = [v EXCEPT ![i] = z]
      BY <2>1 DEF Books
    <3> QED
      BY <3>1, <3>2, <3>3, <3>4
  <2>3. /\ y \in Intents /\ y.status = "executing" /\ Legs(y) = Legs(x)
        /\ \A k : Confirmed(y, k) <=> Confirmed(x, k)
    BY <2>1, WithStatus
  <2> HIDE DEF x, y
  <2>4. /\ z \in Intents /\ z.status = "executing" /\ Legs(z) = Legs(x)
        /\ \A k \in Legs(x) : k # l => (Confirmed(z, k) <=> Confirmed(x, k))
        /\ l \in Legs(x) => z.legs[l].status = "policy"
    <3>1. "policy" \in LegStatuses
      BY DEF LegStatuses
    <3>2. /\ z \in Intents /\ z.status = y.status /\ Legs(z) = Legs(y)
          /\ \A k \in Legs(y) : k # l => (Confirmed(z, k) <=> Confirmed(y, k))
          /\ l \in Legs(y) => z.legs[l].status = "policy"
      BY <2>3, <3>1, WithLegStatus
    <3> HIDE DEF z
    <3> QED
      BY <2>3, <3>2
  <2> HIDE DEF z
  <2>5. Real(book, z, i)
    BY <2>1, <2>4 DEF Real, Confirmed
  <2> QED
    BY <2>1, <2>2, <2>5 DEF RealBook, Books, Real
<1> QED
  BY <1>1, <1>2

-----------------------------------------------------------------------------
(* The ledger.                                                               *)

LEMMA CountFacts ==
  ASSUME ConsoleInv
  PROVE  /\ Count \in 0 .. IntentBound
         /\ \A i \in Ids : Exists(ledger[i]) <=> i <= Count
         /\ \A i \in Ids : Known(i) <=> Exists(ledger[i])
<1>1. PICK n \in 0 .. IntentBound : \A i \in Ids : Exists(ledger[i]) <=> i <= n
  BY DEF ConsoleInv, BookOK, Numbered
<1>2. \A i \in Ids : Known(i) <=> Exists(ledger[i])
  BY NoIntentFacts DEF Known, ConsoleInv, BookOK
<1>3. {i \in Ids : Known(i)} = 1 .. n
  BY <1>1, <1>2, Constants
<1>4. Cardinality(1 .. n) = n
  <2>1. 1 \in Int /\ n \in Int
    BY Constants
  <2>2. Cardinality(1 .. n) = IF 1 > n THEN 0 ELSE n - 1 + 1
    BY <2>1, FS_Interval
  <2> QED
    BY <2>2, Constants
<1>5. Count = n
  BY <1>3, <1>4 DEF Count
<1> QED
  BY <1>1, <1>2, <1>5

\* One intent changes, or the next one is created.
LEMMA BookMoves ==
  ASSUME NEW book, BookOK(book), NEW i \in Ids, NEW x \in Intents, NEW next, next = [book EXCEPT ![i] = x],
         Exists(x), x.status = "executed" => \A l \in Legs(x) : Confirmed(x, l),
         Exists(book[i]) => Legs(x) = Legs(book[i]),
         book[i].status = "executed" => x.status = "executed",
         \A l \in Legs(book[i]) : Confirmed(book[i], l) => Confirmed(x, l),
         Exists(book[i]) \/ \A j \in Ids : Exists(book[j]) <=> j <= i - 1
  PROVE  BookOK(next) /\ Grows(book, next)
<1>1. next \in Books /\ \A j \in Ids : next[j] = IF j = i THEN x ELSE book[j]
  BY DEF BookOK, Books
<1>2. Grows(book, next)
  BY <1>1 DEF Grows
<1>3. Numbered(next)
  <2>1. CASE Exists(book[i])
    <3>1. \A j \in Ids : Exists(next[j]) <=> Exists(book[j])
      BY <1>1, <2>1
    <3> QED
      BY <3>1 DEF Numbered, BookOK
  <2>2. CASE \A j \in Ids : Exists(book[j]) <=> j <= i - 1
    <3>1. \A j \in Ids : Exists(next[j]) <=> j <= i
      BY <1>1, <2>2, Constants
    <3>2. i \in 0 .. IntentBound
      BY Constants
    <3> QED
      BY <3>1, <3>2 DEF Numbered
  <2> QED
    BY <2>1, <2>2
<1>4. \A j \in Ids : /\ next[j].status # "unloaded"
                     /\ ~Exists(next[j]) => next[j] = NoIntent
                     /\ next[j].status = "executed" => \A l \in Legs(next[j]) : Confirmed(next[j], l)
  BY <1>1 DEF BookOK, Exists
<1> QED
  BY <1>1, <1>2, <1>3, <1>4 DEF BookOK

LEMMA WithLegFacts ==
  ASSUME ConsoleInv, NEW i \in Ids, Exists(ledger[i]), NEW l \in Legs(ledger[i]),
         ~Confirmed(ledger[i], l), NEW st \in {"authorized", "confirmed"}, ledger' = WithLeg(i, l, st)
  PROVE  /\ BookOK(ledger') /\ Grows(ledger, ledger')
         /\ st = "confirmed" => Confirmed(ledger'[i], l)
<1> DEFINE x == ledger[i]
           y == [x EXCEPT !.legs[l].status = st]
           all == \A k \in Legs(y) : y.legs[k].status = "confirmed"
           final == IF all THEN "executed" ELSE "executing"
           z == [y EXCEPT !.status = final]
<1>1. x \in Intents /\ st \in LegStatuses /\ ledger \in Books
  BY DEF ConsoleInv, BookOK, Books, LegStatuses
<1>2. /\ y \in Intents /\ y.status = x.status /\ Legs(y) = Legs(x)
      /\ \A k \in Legs(x) : k # l => (Confirmed(y, k) <=> Confirmed(x, k))
      /\ y.legs[l].status = st
  BY <1>1, WithLegStatus
<1>3. ledger' = [ledger EXCEPT ![i] = z]
  BY DEF WithLeg
<1> HIDE DEF x, y
<1>4. /\ z \in Intents /\ z.status = final
      /\ Exists(z) /\ Legs(z) = Legs(y) /\ \A k : Confirmed(z, k) <=> Confirmed(y, k)
  <2>1. final \in {"pending_approval", "approved", "executing", "executed"}
    OBVIOUS
  <2> HIDE DEF final
  <2> QED
    BY <1>2, <2>1, WithStatus
<1> HIDE DEF z
<1>5. z.status = "executed" => \A k \in Legs(z) : Confirmed(z, k)
  BY <1>4 DEF Confirmed
<1>6. x.status # "executed"
  BY DEF x, ConsoleInv, BookOK
<1>7. \A k \in Legs(x) : Confirmed(x, k) => Confirmed(z, k)
  BY <1>2, <1>4 DEF x
<1>8. BookOK(ledger') /\ Grows(ledger, ledger')
  <2>1. BookOK(ledger)
    BY DEF ConsoleInv
  <2> QED
    BY <2>1, <1>2, <1>3, <1>4, <1>5, <1>6, <1>7, BookMoves DEF x
<1>9. st = "confirmed" => Confirmed(ledger'[i], l)
  <2>1. ledger'[i] = z
    BY <1>1, <1>3 DEF Books
  <2>2. st = "confirmed" => Confirmed(y, l)
    BY <1>2 DEF Confirmed, x
  <2> QED
    BY <1>4, <2>1, <2>2
<1> QED
  BY <1>8, <1>9

-----------------------------------------------------------------------------
(* Loading, proposing, approving.                                            *)

LEMMA LoadSteps ==
  ASSUME ConsoleInv, NEW r \in Requests, Load(r) \/ Read(r) \/ Refreshed(r)
  PROVE  ConsoleInv'
<1>0. RequestOK(ledger, req[r])
  BY DEF ConsoleInv
<1>1. CASE Load(r)
  <2> DEFINE q == [op |-> "refresh", stage |-> "read"]
  <2>1. RequestOK(ledger, q)
    BY DEF RequestOK, Reads
  <2> QED
    BY <1>1, <2>1, QuietMoves DEF Load
<1>2. CASE Read(r)
  <2> DEFINE q == [op |-> "refresh", stage |-> "answer", answer |-> GetLedger]
  <2>1. RealBook(ledger, GetLedger)
    BY ReadIsReal
  <2>2. RequestOK(ledger, q)
    BY <2>1 DEF RequestOK, Refreshes, RealBook
  <2> QED
    BY <1>2, <2>2, QuietMoves DEF Read
<1>3. CASE Refreshed(r)
  <2>1. RealBook(ledger, req[r].answer)
    BY <1>0, <1>3, RequestKinds DEF Refreshed, At
  <2> QED
    BY <1>3, <2>1, RequestEnds DEF Refreshed, SetView
<1> QED
  BY <1>1, <1>2, <1>3

LEMMA ProposeStep ==
  ASSUME ConsoleInv, NEW r \in Requests, NEW draft \in Drafts, Propose(r, draft)
  PROVE  ConsoleInv'
<1> DEFINE q == [op |-> "create", stage |-> "send", draft |-> draft, index |-> Count + 1, landed |-> 0]
<1>1. Count + 1 \in Ids
  BY CountFacts, Constants DEF Propose
<1>2. RequestOK(ledger, q)
  BY <1>1 DEF RequestOK, Sends
<1>3. req' = [req EXCEPT ![r] = q] /\ view' = view /\ ledger' = ledger
  BY DEF Propose
<1> HIDE DEF q
<1> QED
  BY <1>2, <1>3, QuietMoves

LEMMA NewFacts ==
  ASSUME NEW draft \in Drafts
  PROVE  New(draft) \in Intents /\ New(draft).status = "pending_approval" /\ \A l : ~Confirmed(New(draft), l)
<1> DEFINE g == [k \in 1 .. Len(draft) |-> [kind |-> draft[k], status |-> "pending"]]
<1>1. draft \in Seq({"native", "foreign"})
  BY Constants
<1>2. Len(draft) \in Nat /\ \A k \in 1 .. Len(draft) : draft[k] \in {"native", "foreign"}
  BY <1>1, LenProperties, ElementOfSeq
<1>3. \A k \in 1 .. Len(draft) : g[k] \in LegRecs /\ g[k].status # "confirmed"
  BY <1>2 DEF LegRecs, LegStatuses
<1>4. g \in Seq(LegRecs)
  BY <1>2, <1>3, IsASeq
<1>5. New(draft) = [status |-> "pending_approval", legs |-> g]
  BY DEF New
<1> HIDE DEF g
<1>6. New(draft) \in Intents /\ New(draft).legs = g /\ New(draft).status = "pending_approval"
  BY <1>4, <1>5 DEF Intents
<1>7. DOMAIN g = 1 .. Len(draft)
  BY DEF g
<1> QED
  BY <1>3, <1>6, <1>7 DEF Confirmed, Legs

LEMMA ProposalLandsStep ==
  ASSUME ConsoleInv, NEW r \in Requests, ProposalLands(r)
  PROVE  ConsoleInv'
<1>1. req[r] \in Sends
  BY RequestKinds DEF ConsoleInv, ProposalLands, At
<1>2. CASE req[r].index = Count + 1
  <2> DEFINE i == Count + 1
             x == New(req[r].draft)
             q == [req[r] EXCEPT !.stage = "read", !.landed = i]
  <2>1. i \in Ids /\ req[r].draft \in Drafts /\ req[r].index = i
    BY <1>1, <1>2 DEF Sends
  <2>2. req' = [req EXCEPT ![r] = q] /\ ledger' = [ledger EXCEPT ![i] = x] /\ view' = view
    BY <1>2, <2>1 DEF ProposalLands, ConsoleInv
  <2>3. x \in Intents /\ x.status = "pending_approval" /\ \A l : ~Confirmed(x, l)
    BY <2>1, NewFacts
  <2>4. \A j \in Ids : Exists(ledger[j]) <=> j <= i - 1
    BY CountFacts
  <2>5. ~Exists(ledger[i]) /\ ledger[i] = NoIntent
    BY <2>1, <2>4, Constants DEF ConsoleInv, BookOK
  <2>6. q \in Landings /\ q.index = q.landed
    BY <1>1, <2>1 DEF Sends, Landings
  <2>7. RequestOK(ledger', q)
    BY <2>6 DEF RequestOK
  <2> HIDE DEF i, x, q
  <2>8. BookOK(ledger') /\ Grows(ledger, ledger')
    <3>1. BookOK(ledger) /\ Exists(x) /\ Legs(ledger[i]) = {} /\ ledger[i].status = "none"
      BY <2>3, <2>5, NoIntentFacts DEF ConsoleInv, Exists
    <3> QED
      BY <2>1, <2>2, <2>3, <2>4, <2>5, <3>1, BookMoves
  <2> QED
    BY <2>2, <2>7, <2>8, RequestMoves
<1>3. CASE req[r].index # Count + 1
  BY <1>3, RequestEnds DEF ProposalLands
<1> QED
  BY <1>2, <1>3

LEMMA ApproveStep ==
  ASSUME ConsoleInv, NEW r \in Requests, NEW i \in Ids, Approve(r, i)
  PROVE  ConsoleInv'
<1> DEFINE q == [op |-> "approve", stage |-> "send", index |-> i, landed |-> i]
<1>1. RequestOK(ledger, q)
  BY DEF RequestOK, ApprovalReqs
<1>2. req' = [req EXCEPT ![r] = q] /\ view' = view /\ ledger' = ledger
  BY DEF Approve
<1> HIDE DEF q
<1> QED
  BY <1>1, <1>2, QuietMoves

LEMMA ApprovalLandsStep ==
  ASSUME ConsoleInv, NEW r \in Requests, ApprovalLands(r)
  PROVE  ConsoleInv'
<1> DEFINE i == req[r].index
<1>1. req[r] \in ApprovalReqs
  BY RequestKinds DEF ConsoleInv, ApprovalLands, At
<1>2. i \in Ids /\ ledger[i] \in Intents /\ ledger \in Books
  BY <1>1 DEF ApprovalReqs, ConsoleInv, BookOK, Books
<1>3. CASE ledger[i].status = "pending_approval"
  <2> DEFINE x == [ledger[i] EXCEPT !.status = "approved"]
             q == [req[r] EXCEPT !.stage = "read"]
  <2>1. req' = [req EXCEPT ![r] = q] /\ ledger' = [ledger EXCEPT ![i] = x] /\ view' = view
    BY <1>2, <1>3 DEF ApprovalLands, Goto, Books
  <2>2. /\ x \in Intents /\ x.status = "approved" /\ Exists(x) /\ Legs(x) = Legs(ledger[i])
        /\ \A l : Confirmed(x, l) <=> Confirmed(ledger[i], l)
    BY <1>2, WithStatus
  <2>3. q \in ApprovalReqs
    BY <1>1 DEF ApprovalReqs
  <2>4. RequestOK(ledger', q)
    BY <2>3 DEF RequestOK
  <2>5. BookOK(ledger) /\ Exists(ledger[i])
    BY <1>3 DEF ConsoleInv, Exists
  <2> HIDE DEF i, x, q
  <2>6. BookOK(ledger') /\ Grows(ledger, ledger')
    BY <1>2, <1>3, <2>1, <2>2, <2>5, BookMoves
  <2> QED
    BY <2>1, <2>4, <2>6, RequestMoves
<1>4. CASE ledger[i].status # "pending_approval"
  BY <1>4, RequestEnds DEF ApprovalLands
<1> QED
  BY <1>3, <1>4

LEMMA ReadBackStep ==
  ASSUME ConsoleInv, NEW r \in Requests, ReadBack(r)
  PROVE  ConsoleInv'
<1> DEFINE i == req[r].index
           q == [op |-> req[r].op, stage |-> "answer", landed |-> req[r].landed,
                 index |-> i, answer |-> Shown(ledger[i])]
<1>1. (req[r] \in Landings /\ req[r].index = req[r].landed) \/ req[r] \in ApprovalReqs
  BY RequestKinds DEF ConsoleInv, ReadBack, At
<1>2. i \in Ids /\ req[r].landed \in Ids /\ req[r].op \in {"create", "approve"}
      /\ (req[r].op = "create" => i = req[r].landed)
  BY <1>1 DEF Landings, ApprovalReqs
<1>3. Shown(ledger[i]) \in Intents /\ Real(ledger, Shown(ledger[i]), i)
  BY <1>2, ReadIsReal
<1>4. RequestOK(ledger, q)
  BY <1>2, <1>3 DEF RequestOK, Answers
<1>5. req' = [req EXCEPT ![r] = q] /\ view' = view /\ ledger' = ledger
  BY DEF ReadBack, Found
<1> HIDE DEF q
<1> QED
  BY <1>4, <1>5, QuietMoves

LEMMA AnsweredStep ==
  ASSUME ConsoleInv, NEW r \in Requests, Answered(r)
  PROVE  ConsoleInv'
<1> DEFINE v == Upsert(view[Tab(r)], req[r].index, req[r].answer)
<1>1. req[r] \in Answers /\ Real(ledger, req[r].answer, req[r].index)
  BY RequestKinds DEF ConsoleInv, Answered, At
<1>2. Tab(r) \in Tabs /\ req[r].index \in Ids
  BY <1>1 DEF Requests, Tab, Answers
<1>3. RealBook(ledger, v)
  BY <1>1, <1>2, UpsertIsReal DEF ConsoleInv
<1> HIDE DEF v
<1> QED
  BY <1>3, RequestEnds DEF Answered, SetView, v

-----------------------------------------------------------------------------
(* Executing: the server.                                                    *)

LEMMA ExecuteStep ==
  ASSUME ConsoleInv, NEW r \in Requests, NEW i \in Ids, Execute(r, i)
  PROVE  ConsoleInv'
<1> DEFINE q == [op |-> "execute", stage |-> "start", index |-> i, leg |-> 1, snapshot |-> NoIntent,
                 loaded |-> "", stream |-> <<>>, last |-> NoIntent]
<1>1. Tab(r) \in Tabs
  BY DEF Requests, Tab
<1>2. Exists(ledger[i])
  <2>1. Real(ledger, view[Tab(r)][i], i) /\ Exists(view[Tab(r)][i])
    BY <1>1 DEF ConsoleInv, RealBook, Execute, Exists
  <2> QED
    BY <2>1 DEF Real
<1>3. Real(ledger, NoIntent, i) /\ RealStream(ledger, <<>>, i)
  BY NoIntentFacts, EmptyStream DEF Real
<1>4. q \in Executions
  BY NoIntentFacts, EmptySeq DEF Executions, ServerStages
<1>5. ExecutionOK(ledger, q)
  BY <1>2, <1>3 DEF ExecutionOK
<1>6. req' = [req EXCEPT ![r] = q] /\ view' = view /\ ledger' = ledger
  BY DEF Execute
<1> HIDE DEF q
<1> QED
  BY <1>4, <1>5, <1>6, QuietMoves DEF RequestOK

\* What is known of an execution the server is at.
LEMMA AtExecution ==
  ASSUME ConsoleInv, NEW r \in Requests, req[r].op = "execute",
         req[r].stage \in ServerStages
  PROVE  /\ req[r] \in Executions /\ ExecutionOK(ledger, req[r]) /\ req[r].index \in Ids
         /\ Exists(ledger[req[r].index]) /\ ledger[req[r].index] \in Intents /\ req[r].leg \in Nat
         /\ Shown(ledger[req[r].index]) \in Intents
         /\ Real(ledger, Shown(ledger[req[r].index]), req[r].index)
         /\ Legs(Shown(ledger[req[r].index])) = Legs(ledger[req[r].index])
<1>1. req[r] \in Executions /\ ExecutionOK(ledger, req[r])
  BY RequestKinds DEF ConsoleInv
<1>2. req[r].index \in Ids /\ req[r].leg \in Nat
  BY <1>1 DEF Executions, ServerStages
<1> QED
  BY <1>1, <1>2, ReadIsReal DEF ExecutionOK

LEMMA SnapshotStep ==
  ASSUME ConsoleInv, NEW r \in Requests, Snapshot(r)
  PROVE  ConsoleInv'
<1> DEFINE p == req[r]
           x == Shown(ledger[p.index])
           q == [p EXCEPT !.stage = "next", !.snapshot = x]
<1>1. /\ p \in Executions /\ ExecutionOK(ledger, p)
      /\ x \in Intents /\ Real(ledger, x, p.index) /\ Legs(x) = Legs(ledger[p.index])
  BY AtExecution DEF Snapshot, At, ServerStages
<1>2. req' = [req EXCEPT ![r] = q] /\ view' = view /\ ledger' = ledger
  BY DEF Snapshot, ConsoleInv
<1> HIDE DEF x
<1>3. /\ q \in Executions /\ q.stage = "next" /\ q.index = p.index /\ q.stream = p.stream
      /\ q.last = p.last /\ q.snapshot = x
  BY <1>1 DEF Executions, ServerStages
<1> HIDE DEF p, q
<1>4. ExecutionOK(ledger, q)
  BY <1>1, <1>3 DEF ExecutionOK
<1> QED
  BY <1>2, <1>3, <1>4, QuietMoves DEF RequestOK, p

\* The server goes on to another stage and sends an event.
Emitted(p, st, seen, e) == [p EXCEPT !.stage = st, !.loaded = seen, !.stream = Append(p.stream, e)]

LEMMA EmitFacts ==
  ASSUME NEW book, NEW p \in Executions, ExecutionOK(book, p), p.stage # "start",
         NEW e, Claims(book, e, p.index),
         NEW st \in {"policy", "confirm", "refetch"}, NEW seen \in LegStatuses \cup {""},
         p.leg \in Legs(book[p.index]), st = "refetch" => Confirmed(book[p.index], p.leg)
  PROVE  RequestOK(book, Emitted(p, st, seen, e))
<1> DEFINE s == Append(p.stream, e)
           q == [p EXCEPT !.stage = st, !.loaded = seen, !.stream = s]
<1>1. p.index \in Ids
  BY DEF Executions, ServerStages
<1>2. RealStream(book, s, p.index)
  BY <1>1, StreamGrows DEF ExecutionOK
<1>3. s \in Seq(Events)
  BY <1>2 DEF RealStream
<1> HIDE DEF s
<1>4. /\ q \in Executions /\ q.stage = st /\ q.index = p.index /\ q.stream = s /\ q.last = p.last
      /\ q.snapshot = p.snapshot /\ q.leg = p.leg
  BY <1>3 DEF Executions, ServerStages
<1> HIDE DEF q
<1>5. ExecutionOK(book, q)
  BY <1>2, <1>4 DEF ExecutionOK
<1> QED
  BY <1>4, <1>5 DEF RequestOK, Emitted, q, s

\* The stream is closed after one more event, or none.
LEMMA CloseFacts ==
  ASSUME NEW book, NEW p \in Executions, ExecutionOK(book, p), NEW events,
         events = <<>> \/ \E e : Claims(book, e, p.index) /\ events = <<e>>
  PROVE  RequestOK(book, [op |-> "execute", stage |-> "closed", index |-> p.index,
                          stream |-> p.stream \o events, last |-> p.last])
<1> DEFINE s == p.stream \o events
           q == [op |-> "execute", stage |-> "closed", index |-> p.index, stream |-> s, last |-> p.last]
<1>1. p.index \in Ids /\ p.last \in Intents /\ p.stream \in Seq(Events)
  BY DEF Executions, ServerStages
<1>2. RealStream(book, s, p.index)
  <2>1. CASE events = <<>>
    BY <1>1, <2>1, ConcatEmptySeq DEF ExecutionOK
  <2>2. CASE \E e : Claims(book, e, p.index) /\ events = <<e>>
    BY <1>1, <2>2, StreamGrows DEF ExecutionOK
  <2> QED
    BY <2>1, <2>2
<1>3. s \in Seq(Events)
  BY <1>2 DEF RealStream
<1> HIDE DEF s
<1>4. q \in Closings /\ q.index = p.index /\ q.stream = s /\ q.last = p.last
  BY <1>1, <1>3 DEF Closings
<1> HIDE DEF q
<1>5. Exists(book[p.index]) /\ Real(book, p.last, p.index)
  BY DEF ExecutionOK
<1> QED
  BY <1>2, <1>4, <1>5 DEF RequestOK, q, s, ClosingOK

LEMMA LegEventFacts ==
  ASSUME NEW book, NEW i, NEW r \in Requests, req[r].leg \in Nat
  PROVE  Claims(book, LegEvent(r), i)
BY NoIntentFacts DEF Claims, LegEvent, Events

LEMMA FailsFacts ==
  ASSUME ConsoleInv, NEW r \in Requests, req[r].op = "execute",
         req[r].stage \in ServerStages, Fails(r), view' = view, ledger' = ledger
  PROVE  ConsoleInv'
<1> DEFINE e == [type |-> "error", leg |-> 0, intent |-> NoIntent]
<1>1. req[r] \in Executions /\ ExecutionOK(ledger, req[r])
  BY AtExecution
<1>2. Claims(ledger, e, req[r].index)
  BY NoIntentFacts DEF Claims, Events
<1>3. req' = [req EXCEPT ![r] = [op |-> "execute", stage |-> "closed", index |-> req[r].index,
                                 stream |-> req[r].stream \o <<e>>, last |-> req[r].last]]
  BY DEF Fails, EndWith, Close
<1> HIDE DEF e
<1> QED
  BY <1>1, <1>2, <1>3, CloseFacts, QuietMoves

LEMMA NextLegStep ==
  ASSUME ConsoleInv, NEW r \in Requests, NextLeg(r)
  PROVE  ConsoleInv'
<1> DEFINE p == req[r]
           i == p.index
           l == p.leg
           seen == p.snapshot
<1>1. /\ p \in Executions /\ ExecutionOK(ledger, p) /\ i \in Ids /\ l \in Nat /\ p.stage = "next"
      /\ Exists(ledger[i]) /\ ledger[i] \in Intents
  BY AtExecution DEF NextLeg, At, ServerStages
<1>2. Real(ledger, seen, i) /\ seen \in Intents /\ Legs(seen) = Legs(ledger[i])
  BY <1>1 DEF ExecutionOK, Executions, ServerStages
<1>3. view' = view /\ ledger' = ledger
  BY DEF NextLeg
<1>4. CASE l > Len(seen.legs) /\ EndWith(r, "done", seen)
  <2> DEFINE e == [type |-> "done", leg |-> 0, intent |-> seen]
  <2>1. Claims(ledger, e, i)
    BY <1>2 DEF Claims, Events
  <2>2. req' = [req EXCEPT ![r] = [op |-> "execute", stage |-> "closed", index |-> i,
                                   stream |-> p.stream \o <<e>>, last |-> p.last]]
    BY <1>4 DEF EndWith, Close
  <2> HIDE DEF e, p, i
  <2>3. RequestOK(ledger, [op |-> "execute", stage |-> "closed", index |-> p.index,
                           stream |-> p.stream \o <<e>>, last |-> p.last])
    BY <1>1, <2>1, CloseFacts DEF i
  <2> QED
    BY <1>3, <2>2, <2>3, QuietMoves DEF i
<1>5. CASE req' = [req EXCEPT ![r].leg = @ + 1]
  <2> DEFINE m == l + 1
             q == [p EXCEPT !.leg = m]
  <2>1. req' = [req EXCEPT ![r] = q] /\ m \in Nat
    BY <1>1, <1>5 DEF ConsoleInv
  <2> HIDE DEF m
  <2>2. /\ q \in Executions /\ q.stage = "next" /\ q.index = i /\ q.stream = p.stream /\ q.last = p.last
        /\ q.snapshot = seen
    BY <1>1, <2>1 DEF Executions, ServerStages
  <2> HIDE DEF q
  <2>3. ExecutionOK(ledger, q)
    BY <1>1, <2>2 DEF ExecutionOK
  <2> QED
    BY <1>3, <2>1, <2>2, <2>3, QuietMoves DEF RequestOK
<1>6. CASE /\ l \in Legs(seen)
           /\ req' = [req EXCEPT ![r].stage = "policy", ![r].loaded = ledger[i].legs[l].status,
                                 ![r].stream = Append(@, LegEvent(r))]
  <2> DEFINE st == ledger[i].legs[l].status
  <2>1. l \in Legs(ledger[i]) /\ st \in LegStatuses
    BY <1>1, <1>2, <1>6, LegFacts DEF LegRecs
  <2>2. Claims(ledger, LegEvent(r), i)
    BY <1>1, LegEventFacts
  <2>3. req' = [req EXCEPT ![r] = Emitted(p, "policy", st, LegEvent(r))]
    BY <1>6 DEF ConsoleInv, Emitted
  <2> HIDE DEF st
  <2>4. RequestOK(ledger, Emitted(p, "policy", st, LegEvent(r)))
    BY <1>1, <2>1, <2>2, EmitFacts
  <2> QED
    BY <1>3, <2>3, <2>4, QuietMoves
<1> QED
  BY <1>4, <1>5, <1>6 DEF NextLeg

\* A leg gets a status on the ledger, and the server goes on.
LEMMA LegMoves ==
  ASSUME ConsoleInv, NEW r \in Requests, req[r].op = "execute", req[r].stage \in {"policy", "confirm"},
         NEW st \in {"authorized", "confirmed"}, NEW stage \in {"confirm", "refetch"},
         stage = "refetch" => st = "confirmed",
         ~Confirmed(ledger[req[r].index], req[r].leg), ledger' = WithLeg(req[r].index, req[r].leg, st),
         Emit(r, stage, LegEvent(r)), view' = view
  PROVE  ConsoleInv'
<1> DEFINE p == req[r]
           i == p.index
           l == p.leg
<1>1. /\ p \in Executions /\ ExecutionOK(ledger, p) /\ i \in Ids /\ l \in Nat
      /\ Exists(ledger[i]) /\ ledger[i] \in Intents /\ p.stage \in {"policy", "confirm"}
  BY AtExecution DEF ServerStages
<1>2. l \in Legs(ledger[i])
  BY <1>1 DEF ExecutionOK
<1>3. BookOK(ledger') /\ Grows(ledger, ledger') /\ (st = "confirmed" => Confirmed(ledger'[i], l))
  BY <1>1, <1>2, WithLegFacts
<1>4. ExecutionOK(ledger', p) /\ Legs(ledger'[i]) = Legs(ledger[i])
  BY <1>1, <1>3, ExecutionStays DEF Grows
<1>5. Claims(ledger', LegEvent(r), i)
  BY <1>1, LegEventFacts
<1>6. req' = [req EXCEPT ![r] = Emitted(p, stage, "", LegEvent(r))]
  BY DEF Emit, ConsoleInv, Emitted
<1>7. RequestOK(ledger', Emitted(p, stage, "", LegEvent(r)))
  <2> HIDE DEF p, i, l
  <2>1. ExecutionOK(ledger', p) /\ p \in Executions /\ p.stage # "start" /\ Claims(ledger', LegEvent(r), p.index)
        /\ p.leg \in Legs(ledger'[p.index]) /\ (stage = "refetch" => Confirmed(ledger'[p.index], p.leg))
    BY <1>1, <1>2, <1>3, <1>4, <1>5 DEF i, l
  <2> QED
    BY <2>1, EmitFacts
<1> QED
  BY <1>3, <1>6, <1>7, RequestMoves

LEMMA PolicyStep ==
  ASSUME ConsoleInv, NEW r \in Requests, Policy(r)
  PROVE  ConsoleInv'
<1> DEFINE p == req[r]
           i == p.index
           l == p.leg
           foreign == ledger[i].legs[l].kind = "foreign"
           resuming == foreign /\ p.loaded = "authorized"
           executes == p.loaded = "pending" /\ MayExecute(i, l)
<1>1. /\ p \in Executions /\ ExecutionOK(ledger, p) /\ i \in Ids /\ l \in Nat
      /\ p.op = "execute" /\ p.stage = "policy" /\ view' = view
  BY AtExecution DEF Policy, At, ServerStages
<1>2. l \in Legs(ledger[i])
  BY <1>1 DEF ExecutionOK
<1>3. CASE Emit(r, "confirm", LegEvent(r)) /\ ledger' = ledger
  <2>1. Claims(ledger, LegEvent(r), i)
    BY <1>1, LegEventFacts
  <2>2. req' = [req EXCEPT ![r] = Emitted(p, "confirm", "", LegEvent(r))]
    BY <1>3 DEF Emit, ConsoleInv, Emitted
  <2>3. RequestOK(ledger, Emitted(p, "confirm", "", LegEvent(r)))
    BY <1>1, <1>2, <2>1, EmitFacts
  <2> QED
    BY <1>1, <1>3, <2>2, <2>3, QuietMoves
<1>4. CASE /\ executes
           /\ ledger' = WithLeg(i, l, IF foreign THEN "authorized" ELSE "confirmed")
           /\ Emit(r, IF foreign THEN "confirm" ELSE "refetch", LegEvent(r))
  <2>1. ~Confirmed(ledger[i], l)
    BY <1>4 DEF MayExecute, Confirmed
  <2>2. CASE foreign
    BY <1>1, <1>4, <2>1, <2>2, LegMoves
  <2>3. CASE ~foreign
    BY <1>1, <1>4, <2>1, <2>3, LegMoves
  <2> QED
    BY <2>2, <2>3
<1>5. CASE Fails(r) /\ ledger' = ledger
  BY <1>1, <1>5, FailsFacts DEF ServerStages
<1> QED
  BY <1>3, <1>4, <1>5 DEF Policy

LEMMA ConfirmStep ==
  ASSUME ConsoleInv, NEW r \in Requests, Confirm(r)
  PROVE  ConsoleInv'
<1>1. req[r].op = "execute" /\ req[r].stage = "confirm" /\ view' = view
  BY DEF Confirm, At
<1>2. CASE MayConfirm(req[r].index, req[r].leg)
  <2>1. ~Confirmed(ledger[req[r].index], req[r].leg)
    BY <1>2 DEF MayConfirm, Confirmed
  <2>2. ledger' = WithLeg(req[r].index, req[r].leg, "confirmed") /\ Emit(r, "refetch", LegEvent(r))
    BY <1>2 DEF Confirm
  <2> QED
    BY <1>1, <2>1, <2>2, LegMoves
<1>3. CASE ~MayConfirm(req[r].index, req[r].leg)
  BY <1>1, <1>3, FailsFacts DEF Confirm, ServerStages
<1> QED
  BY <1>2, <1>3

LEMMA RefetchStep ==
  ASSUME ConsoleInv, NEW r \in Requests, Refetch(r)
  PROVE  ConsoleInv'
<1> DEFINE p == req[r]
           i == p.index
           l == p.leg
           x == Shown(ledger[i])
           y == [x EXCEPT !.legs[l].status = "confirmed"]
           e == [type |-> "intent", leg |-> l, intent |-> y]
           s == Append(p.stream, e)
           m == l + 1
           q == [p EXCEPT !.stage = "next", !.leg = m, !.snapshot = y, !.stream = s]
<1>1. /\ p \in Executions /\ ExecutionOK(ledger, p) /\ i \in Ids /\ l \in Nat /\ p.stage = "refetch"
      /\ x \in Intents /\ Real(ledger, x, i) /\ Legs(x) = Legs(ledger[i])
  BY AtExecution DEF Refetch, At, ServerStages
<1>2. Confirmed(ledger[i], l)
  BY <1>1 DEF ExecutionOK
<1>3. req' = [req EXCEPT ![r] = q] /\ view' = view /\ ledger' = ledger
  BY DEF Refetch, ConsoleInv
<1> HIDE DEF x
<1>4. /\ y \in Intents /\ y.status = x.status /\ Legs(y) = Legs(x)
      /\ \A k \in Legs(x) : k # l => (Confirmed(y, k) <=> Confirmed(x, k))
  <2>1. "confirmed" \in LegStatuses
    BY DEF LegStatuses
  <2> QED
    BY <1>1, <2>1, WithLegStatus
<1> HIDE DEF y
<1>5. Real(ledger, y, i)
  BY <1>1, <1>2, <1>4 DEF Real, Exists
<1>6. Claims(ledger, e, i)
  BY <1>1, <1>4, <1>5 DEF Claims, Events
<1> HIDE DEF e
<1>7. RealStream(ledger, Append(p.stream, e), i)
  BY <1>1, <1>6, StreamGrows DEF ExecutionOK
<1>8. s \in Seq(Events) /\ m \in Nat
  BY <1>1, <1>7 DEF RealStream
<1> HIDE DEF s, m
<1>9. /\ q \in Executions /\ q.stage = "next" /\ q.index = i /\ q.stream = s /\ q.last = p.last
      /\ q.snapshot = y
  BY <1>1, <1>4, <1>8 DEF Executions, ServerStages
<1> HIDE DEF q, p, i
<1>10. ExecutionOK(ledger, q)
  BY <1>1, <1>4, <1>5, <1>7, <1>9 DEF ExecutionOK, s, i
<1> QED
  BY <1>3, <1>9, <1>10, QuietMoves DEF RequestOK

-----------------------------------------------------------------------------
(* Executing: the client, and what goes wrong.                               *)

\* Events are read by a request that is executing or closed.
LEMMA ReadStream ==
  ASSUME ConsoleInv, NEW r \in Requests, req[r].op = "execute", req[r].stage \notin {"reread", "final"},
         NEW s, RealStream(ledger, s, req[r].index), NEW x, Real(ledger, x, req[r].index)
  PROVE  RequestOK(ledger, [req[r] EXCEPT !.stream = s, !.last = x])
<1> DEFINE p == req[r]
           q == [p EXCEPT !.stream = s, !.last = x]
<1>1. s \in Seq(Events) /\ x \in Intents
  BY DEF RealStream, Real
<1>2. \/ p \in Executions /\ ExecutionOK(ledger, p)
      \/ p \in Closings /\ Exists(ledger[p.index])
  BY RequestKinds DEF ConsoleInv, ClosingOK
<1>3. CASE p \in Executions /\ ExecutionOK(ledger, p)
  <2>1. /\ q \in Executions /\ q.stage = p.stage /\ q.index = p.index /\ q.stream = s /\ q.last = x
        /\ q.snapshot = p.snapshot /\ q.leg = p.leg
    BY <1>1, <1>3 DEF Executions, ServerStages
  <2> HIDE DEF q
  <2>2. ExecutionOK(ledger, q)
    BY <1>3, <2>1 DEF ExecutionOK
  <2> QED
    BY <2>1, <2>2 DEF RequestOK, q
<1>4. CASE p \in Closings /\ Exists(ledger[p.index])
  <2>1. q \in Closings /\ q.index = p.index /\ q.stream = s /\ q.last = x
    BY <1>1, <1>4 DEF Closings
  <2> HIDE DEF q
  <2> QED
    BY <1>4, <2>1 DEF RequestOK, q, ClosingOK
<1> QED
  BY <1>2, <1>3, <1>4

LEMMA FinalFacts ==
  ASSUME ConsoleInv, NEW r \in Requests, req[r].index \in Ids, Final(r), ledger' = ledger,
         NEW v, RealBook(ledger, v), SetView(Tab(r), v)
  PROVE  ConsoleInv'
<1> DEFINE q == [op |-> "execute", stage |-> "reread", index |-> req[r].index]
<1>1. RequestOK(ledger, q)
  BY DEF RequestOK, Rereads
<1>2. req' = [req EXCEPT ![r] = q]
  BY DEF Final
<1> HIDE DEF q
<1> QED
  BY <1>1, <1>2, QuietMoves DEF SetView

\* What is known of an execution that still streams.
LEMMA Streaming ==
  ASSUME ConsoleInv, NEW r \in Requests, req[r].op = "execute", req[r].stage \notin {"reread", "final"}
  PROVE  /\ req[r].index \in Ids /\ Exists(ledger[req[r].index]) /\ Tab(r) \in Tabs
         /\ RealStream(ledger, req[r].stream, req[r].index) /\ Real(ledger, req[r].last, req[r].index)
         /\ RealBook(ledger, view[Tab(r)])
         /\ \A s : [req[r] EXCEPT !.stream = s] = [req[r] EXCEPT !.stream = s, !.last = req[r].last]
<1>1. \/ req[r] \in Executions /\ ExecutionOK(ledger, req[r])
      \/ req[r] \in Closings /\ ClosingOK(ledger, req[r])
  BY RequestKinds DEF ConsoleInv
<1>2. req[r].index \in Ids
  BY <1>1 DEF Executions, ServerStages, Closings
<1>3. Tab(r) \in Tabs
  BY DEF Requests, Tab
<1>4. \A s : [req[r] EXCEPT !.stream = s] = [req[r] EXCEPT !.stream = s, !.last = req[r].last]
  BY <1>1 DEF Executions, ServerStages, Closings
<1> QED
  BY <1>1, <1>2, <1>3, <1>4 DEF ExecutionOK, ClosingOK, ConsoleInv

LEMMA ReceiveStep ==
  ASSUME ConsoleInv, NEW r \in Requests, Receive(r)
  PROVE  ConsoleInv'
<1> DEFINE p == req[r]
           i == p.index
           e == Head(p.stream)
           v == view[Tab(r)]
<1>1. /\ i \in Ids /\ Exists(ledger[i]) /\ RealStream(ledger, p.stream, i) /\ Real(ledger, p.last, i)
      /\ RealBook(ledger, v) /\ p.stream # <<>> /\ p.op = "execute" /\ p.stage \notin {"reread", "final"}
      /\ \A s : [p EXCEPT !.stream = s] = [p EXCEPT !.stream = s, !.last = p.last]
      /\ ledger' = ledger
  BY Streaming DEF Receive
<1>2. RealStream(ledger, Tail(p.stream), i) /\ Claims(ledger, e, i)
  BY <1>1, StreamRead
<1>3. e.type \in {"intent", "done"} => RealBook(ledger, Upsert(v, i, e.intent)) /\ Real(ledger, e.intent, i)
  BY <1>1, <1>2, UpsertIsReal DEF Claims
<1>4. CASE /\ e.type = "leg" /\ SetView(Tab(r), Folded(v, i, e.leg))
           /\ req' = [req EXCEPT ![r].stream = Tail(@)]
  <2> DEFINE q == [p EXCEPT !.stream = Tail(p.stream), !.last = p.last]
  <2>1. RealBook(ledger, Folded(v, i, e.leg))
    BY <1>1, FoldedIsReal
  <2>2. req' = [req EXCEPT ![r] = q]
    BY <1>1, <1>4 DEF ConsoleInv
  <2>3. RequestOK(ledger, q)
    BY <1>1, <1>2, ReadStream
  <2> HIDE DEF q
  <2> QED
    BY <1>1, <1>4, <2>1, <2>2, <2>3, QuietMoves DEF SetView
<1>5. CASE /\ e.type = "intent" /\ SetView(Tab(r), Upsert(v, i, e.intent))
           /\ req' = [req EXCEPT ![r].stream = Tail(@), ![r].last = e.intent]
  <2> DEFINE q == [p EXCEPT !.stream = Tail(p.stream), !.last = e.intent]
  <2>1. req' = [req EXCEPT ![r] = q]
    BY <1>5 DEF ConsoleInv
  <2>2. RequestOK(ledger, q)
    BY <1>1, <1>2, <1>3, <1>5, ReadStream
  <2> HIDE DEF q
  <2> QED
    BY <1>1, <1>3, <1>5, <2>1, <2>2, QuietMoves DEF SetView
<1>6. CASE e.type = "done" /\ SetView(Tab(r), Upsert(v, i, e.intent)) /\ Final(r)
  BY <1>1, <1>3, <1>6, FinalFacts
<1>7. CASE Finish(r) /\ view' = view
  BY <1>1, <1>7, RequestEnds
<1> QED
  BY <1>4, <1>5, <1>6, <1>7 DEF Receive

LEMMA StreamEndsStep ==
  ASSUME ConsoleInv, NEW r \in Requests, StreamEnds(r)
  PROVE  ConsoleInv'
<1>1. /\ req[r].op = "execute" /\ req[r].stage \notin {"reread", "final"} /\ ledger' = ledger
  BY DEF StreamEnds, Ended
<1>2. /\ req[r].index \in Ids /\ Real(ledger, req[r].last, req[r].index)
      /\ RealBook(ledger, view[Tab(r)])
  BY <1>1, Streaming
<1>3. RealBook(ledger, Upsert(view[Tab(r)], req[r].index, req[r].last))
  BY <1>2, UpsertIsReal
<1>4. CASE req[r].last = NoIntent
  BY <1>1, <1>4, RequestEnds DEF StreamEnds
<1>5. CASE req[r].last # NoIntent
  BY <1>1, <1>2, <1>3, <1>5, FinalFacts DEF StreamEnds
<1> QED
  BY <1>4, <1>5

LEMMA RereadStep ==
  ASSUME ConsoleInv, NEW r \in Requests, Reread(r)
  PROVE  ConsoleInv'
<1> DEFINE q == [op |-> "execute", stage |-> "final", index |-> req[r].index, answer |-> GetLedger]
<1>1. req[r].index \in Ids
  BY RequestKinds DEF ConsoleInv, Reread, At, Rereads
<1>2. RealBook(ledger, GetLedger)
  BY ReadIsReal
<1>3. RequestOK(ledger, q)
  BY <1>1, <1>2 DEF RequestOK, Finals, RealBook
<1>4. req' = [req EXCEPT ![r] = q] /\ view' = view /\ ledger' = ledger
  BY DEF Reread
<1> HIDE DEF q
<1> QED
  BY <1>3, <1>4, QuietMoves

LEMMA SettledStep ==
  ASSUME ConsoleInv, NEW r \in Requests, Settled(r)
  PROVE  ConsoleInv'
<1>1. RealBook(ledger, req[r].answer)
  BY RequestKinds DEF ConsoleInv, Settled, At
<1> QED
  BY <1>1, RequestEnds DEF Settled, SetView

LEMMA FaultSteps ==
  ASSUME ConsoleInv, NEW r \in Requests, Cut(r) \/ Errs(r) \/ Lose(r)
  PROVE  ConsoleInv'
<1>1. CASE Cut(r)
  <2>1. req[r] \in Executions /\ ExecutionOK(ledger, req[r])
    BY <1>1, RequestKinds DEF ConsoleInv, Cut
  <2>2. req' = [req EXCEPT ![r] = [op |-> "execute", stage |-> "closed", index |-> req[r].index,
                                   stream |-> req[r].stream \o <<>>, last |-> req[r].last]]
        /\ view' = view /\ ledger' = ledger
    BY <1>1 DEF Cut, Close
  <2>3. RequestOK(ledger, [op |-> "execute", stage |-> "closed", index |-> req[r].index,
                           stream |-> req[r].stream \o <<>>, last |-> req[r].last])
    BY <2>1, CloseFacts
  <2> QED
    BY <2>2, <2>3, QuietMoves
<1>2. CASE Errs(r)
  BY <1>2, FailsFacts DEF Errs, ServerStages
<1>3. CASE Lose(r)
  BY <1>3, RequestEnds DEF Lose
<1> QED
  BY <1>1, <1>2, <1>3

-----------------------------------------------------------------------------

LEMMA InitConsoleInv == Init => ConsoleInv
<1> SUFFICES ASSUME Init
             PROVE  ConsoleInv
  OBVIOUS
<1>1. ledger \in Books /\ \A i \in Ids : ledger[i] = NoIntent /\ ~Exists(ledger[i]) /\ ledger[i].status = "none"
  BY NoIntentFacts DEF Init, Books
<1>2. Numbered(ledger)
  <2>1. 0 \in 0 .. IntentBound /\ \A i \in Ids : ~(i <= 0)
    BY Constants
  <2> QED
    BY <1>1, <2>1 DEF Numbered
<1>3. BookOK(ledger)
  BY <1>1, <1>2 DEF BookOK
<1>4. RealBook(ledger, Unloaded)
  BY NoIntentFacts DEF RealBook, Real, Books
<1>5. view \in [Tabs -> Books] /\ \A t \in Tabs : RealBook(ledger, view[t])
  BY <1>4 DEF Init, RealBook
<1>6. DOMAIN req = Requests /\ \A r \in Requests : RequestOK(ledger, req[r])
  BY DEF Init, RequestOK
<1> QED
  BY <1>3, <1>5, <1>6 DEF ConsoleInv

LEMMA NextConsoleInv == ConsoleInv /\ [Next]_vars => ConsoleInv'
<1> SUFFICES ASSUME ConsoleInv, [Next]_vars
             PROVE  ConsoleInv'
  OBVIOUS
<1>1. CASE UNCHANGED vars
  BY <1>1 DEF vars, ConsoleInv
<1>2. ASSUME NEW r \in Requests, Server(r)
      PROVE  ConsoleInv'
  BY <1>2, LoadSteps, ProposalLandsStep, ApprovalLandsStep, ReadBackStep, SnapshotStep, NextLegStep,
     PolicyStep, ConfirmStep, RefetchStep, RereadStep DEF Server
<1>3. ASSUME NEW r \in Requests, Client(r)
      PROVE  ConsoleInv'
  BY <1>3, LoadSteps, AnsweredStep, ReceiveStep, StreamEndsStep, SettledStep DEF Client
<1>4. CASE Next
  BY <1>2, <1>3, <1>4, LoadSteps, ProposeStep, ApproveStep, ExecuteStep, FaultSteps DEF Next
<1> QED
  BY <1>1, <1>4

LEMMA SpecConsoleInv == Spec => []ConsoleInv
BY InitConsoleInv, NextConsoleInv, PTL DEF Spec

\* useLedgerStore.ts:105-137, server/devnet.ts:364-394: what a tab shows as
\* confirmed or executed has happened, however many tabs and requests there are,
\* in whatever order their answers and events arrive and wherever one is cut.
THEOREM ShownIsRealHolds == Spec => []ShownIsReal
<1>1. ConsoleInv => ShownIsReal
  <2> SUFFICES ASSUME ConsoleInv, NEW t \in Tabs, NEW i \in Ids
               PROVE  /\ view[t][i].status = "executed" => ledger[i].status = "executed"
                      /\ \A l \in Legs(view[t][i]) :
                           view[t][i].legs[l].status = "confirmed" => ledger[i].legs[l].status = "confirmed"
    BY DEF ShownIsReal
  <2>1. Real(ledger, view[t][i], i)
    BY DEF ConsoleInv, RealBook
  <2> QED
    BY <2>1 DEF Real, Confirmed
<1> QED
  BY <1>1, SpecConsoleInv, PTL

\* server/devnet.ts:283-316: the answer to a proposal is the intent it created,
\* however many tabs race for the index.
THEOREM AnsweredWithOwnIntentHolds == Spec => []AnsweredWithOwnIntent
<1>1. ConsoleInv => AnsweredWithOwnIntent
  BY RequestKinds DEF ConsoleInv, AnsweredWithOwnIntent, At
<1> QED
  BY <1>1, SpecConsoleInv, PTL
=============================================================================

---------------------------- MODULE DevnetConsole ----------------------------
(***************************************************************************)
(* The console against the live ledger: browser tabs, each with its store   *)
(* (app/src/store/useLedgerStore.ts) and client (app/src/executor/          *)
(* devnet.ts), and the API routes that act for them (app/src/server/        *)
(* devnet.ts).  Nothing locks: a request reads the ledger at one moment,    *)
(* its transaction lands at another, and its answer reaches the store at a  *)
(* third.  An execution streams events to the tab; the stream may be cut.   *)
(*                                                                          *)
(* Of the ledger only what the console tells apart is left: the status of   *)
(* an intent and of its legs.  IssuerLedger has the rest, Executor what     *)
(* runLeg does between execute_leg and confirm_leg.                         *)
(***************************************************************************)
EXTENDS Integers, Sequences, FiniteSets

CONSTANTS
  Tabs, Slots,   \* a tab has at most one request in each slot
  Drafts,        \* the legs of the intents proposed, each "native" or "foreign"
  IntentBound,   \* intents
  ApprovalBound, \* the intents that are approved are the first ones
  StreamBound,   \* events sent and not yet read
  FaultBound     \* requests cut, deliveries that fail
ASSUME DevnetAssumption ==
  /\ IntentBound \in Nat \ {0} /\ StreamBound \in Nat \ {0} /\ FaultBound \in Nat
  /\ ApprovalBound \in Nat /\ Drafts \subseteq Seq({"native", "foreign"})

Ids == 1 .. IntentBound
Requests == Tabs \X Slots
Tab(r) == r[1]
NoIntent == [status |-> "none", legs |-> <<>>]
Unloaded == [i \in Ids |-> [status |-> "unloaded", legs |-> <<>>]]
Idle == [op |-> "idle"]

VARIABLES
  ledger,  \* id -> intent, on chain; a leg has a kind and a status
  view,    \* tab -> id -> intent, as the store shows it
  req,     \* request -> what it is doing
  faults

vars == <<ledger, view, req, faults>>

Init ==
  /\ ledger = [i \in Ids |-> NoIntent]
  /\ view = [t \in Tabs |-> Unloaded]
  /\ req = [r \in Requests |-> Idle]
  /\ faults = 0

At(r, op, stage) == req[r].op = op /\ req[r].stage = stage
Free(r) == req[r] = Idle
Known(i) == ledger[i] # NoIntent
Count == Cardinality({i \in Ids : Known(i)})
Legs(intent) == DOMAIN intent.legs

-----------------------------------------------------------------------------
(* What lands on the ledger (IssuerLedger: CreateIntent, ApproveIntent,      *)
(* ExecuteNativeLeg, ExecuteForeignLeg, ConfirmLeg).                         *)

New(draft) == [status |-> "pending_approval",
               legs |-> [k \in 1 .. Len(draft) |-> [kind |-> draft[k], status |-> "pending"]]]

MayExecute(i, l) ==
  /\ ledger[i].status \in {"approved", "executing"}
  /\ ledger[i].legs[l].status = "pending"
  /\ \A k \in 1 .. l - 1 : ledger[i].legs[k].status = "confirmed"
MayConfirm(i, l) == ledger[i].legs[l].status = "authorized"

\* The leg gets the status, the intent what follows from its legs.
WithLeg(i, l, leg_status) ==
  LET next == [ledger[i] EXCEPT !.legs[l].status = leg_status]
      all == \A k \in Legs(next) : next.legs[k].status = "confirmed"
  IN [ledger EXCEPT ![i] = [next EXCEPT !.status = IF all THEN "executed" ELSE "executing"]]

\* mapIntent: the app has no status for an authorized leg but "signing".
Shown(intent) ==
  [intent EXCEPT !.legs = [k \in Legs(intent) |->
     IF intent.legs[k].status = "authorized" THEN [intent.legs[k] EXCEPT !.status = "signing"]
     ELSE intent.legs[k]]]
GetLedger == [i \in Ids |-> Shown(ledger[i])]

-----------------------------------------------------------------------------
(* The store.                                                                *)

\* upsert, and what is not there yet is not changed.
Upsert(v, i, intent) == IF v = Unloaded THEN v ELSE [v EXCEPT ![i] = intent]

\* An event with the leg's state only is folded into the intent that is shown.
\* _m1 takes the last of these events for the confirmation.
Folded_m1(v, i, l) ==
  IF v = Unloaded \/ v[i] = NoIntent THEN v
  ELSE [v EXCEPT ![i].status = "executing", ![i].legs[l].status = "confirmed"]
Folded(v, i, l) ==
  IF v = Unloaded \/ v[i] = NoIntent THEN v
  ELSE [v EXCEPT ![i].status = "executing", ![i].legs[l].status = "policy"]

SetView(t, v) == view' = [view EXCEPT ![t] = v]
Goto(r, stage) == req' = [req EXCEPT ![r].stage = stage]
Finish(r) == req' = [req EXCEPT ![r] = Idle]

-----------------------------------------------------------------------------
(* init and refresh: GET /api/ledger.                                        *)

Load(r) ==
  /\ Free(r) /\ view[Tab(r)] = Unloaded
  /\ \A s \in Slots : req[<<Tab(r), s>>].op # "refresh"
  /\ req' = [req EXCEPT ![r] = [op |-> "refresh", stage |-> "read"]]
  /\ UNCHANGED <<ledger, view, faults>>

Read(r) ==
  /\ At(r, "refresh", "read")
  /\ req' = [req EXCEPT ![r] = [op |-> "refresh", stage |-> "answer", answer |-> GetLedger]]
  /\ UNCHANGED <<ledger, view, faults>>

Refreshed(r) ==
  /\ At(r, "refresh", "answer")
  /\ SetView(Tab(r), req[r].answer)
  /\ Finish(r)
  /\ UNCHANGED <<ledger, faults>>

-----------------------------------------------------------------------------
(* createIntent and approve: a transaction, a second read, the answer.       *)

\* The index is read before the transaction is sent.
Propose(r, draft) ==
  /\ Free(r) /\ view[Tab(r)] # Unloaded
  /\ Count < IntentBound
  /\ req' = [req EXCEPT ![r] = [op |-> "create", stage |-> "send", draft |-> draft,
                                index |-> Count + 1, landed |-> 0]]
  /\ UNCHANGED <<ledger, view, faults>>

\* The program takes the account of the next index only.
ProposalLands(r) ==
  /\ At(r, "create", "send")
  /\ IF req[r].index = Count + 1
     THEN /\ ledger' = [ledger EXCEPT ![Count + 1] = New(req[r].draft)]
          /\ req' = [req EXCEPT ![r].stage = "read", ![r].landed = Count + 1]
     ELSE Finish(r) /\ UNCHANGED ledger
  /\ UNCHANGED <<view, faults>>

Approve(r, i) ==
  /\ i <= ApprovalBound
  /\ Free(r) /\ view[Tab(r)] # Unloaded
  /\ view[Tab(r)][i].status = "pending_approval"
  /\ req' = [req EXCEPT ![r] = [op |-> "approve", stage |-> "send", index |-> i, landed |-> i]]
  /\ UNCHANGED <<ledger, view, faults>>

ApprovalLands(r) ==
  /\ At(r, "approve", "send")
  /\ IF ledger[req[r].index].status = "pending_approval"
     THEN ledger' = [ledger EXCEPT ![req[r].index].status = "approved"] /\ Goto(r, "read")
     ELSE Finish(r) /\ UNCHANGED ledger
  /\ UNCHANGED <<view, faults>>

\* The answer is the intent of that index.  _m1 takes the newest one.
Found_m1(r) == Count
Found(r) == req[r].index
ReadBack(r) ==
  /\ At(r, "create", "read") \/ At(r, "approve", "read")
  /\ req' = [req EXCEPT ![r] =
               [op |-> req[r].op, stage |-> "answer", landed |-> req[r].landed,
                index |-> Found(r), answer |-> Shown(ledger[Found(r)])]]
  /\ UNCHANGED <<ledger, view, faults>>

Answered(r) ==
  /\ At(r, "create", "answer") \/ At(r, "approve", "answer")
  /\ SetView(Tab(r), Upsert(view[Tab(r)], req[r].index, req[r].answer))
  /\ Finish(r)
  /\ UNCHANGED <<ledger, faults>>

-----------------------------------------------------------------------------
(* execute: the server.                                                      *)

\* The executing flags of a tab.
Executing(t) == {req[<<t, s>>].index : s \in {x \in Slots : req[<<t, x>>].op = "execute"}}

Execute(r, i) ==
  /\ Free(r) /\ view[Tab(r)] # Unloaded
  /\ view[Tab(r)][i].status \in {"approved", "executing"}
  /\ i \notin Executing(Tab(r))
  /\ req' = [req EXCEPT ![r] = [op |-> "execute", stage |-> "start", index |-> i, leg |-> 1,
                                snapshot |-> NoIntent, loaded |-> "", stream |-> <<>>, last |-> NoIntent]]
  /\ UNCHANGED <<ledger, view, faults>>

Snapshot(r) ==
  /\ At(r, "execute", "start")
  /\ req' = [req EXCEPT ![r].stage = "next", ![r].snapshot = Shown(ledger[req[r].index])]
  /\ UNCHANGED <<ledger, view, faults>>

\* The server goes on to a stage, and sends an event; or closes the stream.
Room(r) == Len(req[r].stream) < StreamBound
Emit(r, stage, event) ==
  /\ Room(r)
  /\ req' = [req EXCEPT ![r].stage = stage, ![r].loaded = "", ![r].stream = Append(@, event)]
Close(r, events) ==
  req' = [req EXCEPT ![r] = [op |-> "execute", stage |-> "closed", index |-> req[r].index,
                             stream |-> req[r].stream \o events, last |-> req[r].last]]
LegEvent(r) == [type |-> "leg", leg |-> req[r].leg, intent |-> NoIntent]
EndWith(r, type, intent) == Room(r) /\ Close(r, <<[type |-> type, leg |-> 0, intent |-> intent]>>)
Fails(r) == EndWith(r, "error", NoIntent)

\* A leg the server has seen confirmed is skipped; of another, runLeg loads the
\* status.
NextLeg(r) ==
  LET i == req[r].index
      l == req[r].leg
      seen == req[r].snapshot
  IN
  /\ At(r, "execute", "next")
  /\ \/ /\ l > Len(seen.legs)
        /\ EndWith(r, "done", seen)
     \/ /\ l \in Legs(seen) /\ seen.legs[l].status = "confirmed"
        /\ req' = [req EXCEPT ![r].leg = @ + 1]
     \/ /\ l \in Legs(seen) /\ seen.legs[l].status # "confirmed"
        /\ Room(r)
        /\ req' = [req EXCEPT ![r].stage = "policy", ![r].loaded = ledger[i].legs[l].status,
                              ![r].stream = Append(@, LegEvent(r))]
  /\ UNCHANGED <<ledger, view, faults>>

\* An authorized foreign leg is resumed, a pending one is executed, which the
\* program may refuse.  A native leg is confirmed by its own transaction.
Policy(r) ==
  LET i == req[r].index
      l == req[r].leg
      foreign == ledger[i].legs[l].kind = "foreign"
      resuming == foreign /\ req[r].loaded = "authorized"
      executes == req[r].loaded = "pending" /\ MayExecute(i, l)
  IN
  /\ At(r, "execute", "policy")
  /\ \/ resuming /\ Emit(r, "confirm", LegEvent(r)) /\ UNCHANGED ledger
     \/ /\ executes
        /\ ledger' = WithLeg(i, l, IF foreign THEN "authorized" ELSE "confirmed")
        /\ Emit(r, IF foreign THEN "confirm" ELSE "refetch", LegEvent(r))
     \/ ~resuming /\ ~executes /\ Fails(r) /\ UNCHANGED ledger
  /\ UNCHANGED <<view, faults>>

\* Signed and delivered: confirm_leg.
Confirm(r) ==
  LET i == req[r].index
      l == req[r].leg
  IN
  /\ At(r, "execute", "confirm")
  /\ IF MayConfirm(i, l)
     THEN ledger' = WithLeg(i, l, "confirmed") /\ Emit(r, "refetch", LegEvent(r))
     ELSE Fails(r) /\ UNCHANGED ledger
  /\ UNCHANGED <<view, faults>>

\* The ledger is read again, and the event carries the intent.
Refetch(r) ==
  LET intent == [Shown(ledger[req[r].index]) EXCEPT !.legs[req[r].leg].status = "confirmed"] IN
  /\ At(r, "execute", "refetch") /\ Room(r)
  /\ req' = [req EXCEPT ![r].stage = "next", ![r].leg = @ + 1, ![r].snapshot = intent,
               ![r].stream = Append(@, [type |-> "intent", leg |-> req[r].leg, intent |-> intent])]
  /\ UNCHANGED <<ledger, view, faults>>

-----------------------------------------------------------------------------
(* execute: the client and the store.                                        *)

\* The server has closed the stream and all of it is read.  _m1 waits for an
\* intent.
Ended_m1(r) == req[r].stage = "closed" /\ req[r].stream = <<>> /\ req[r].last # NoIntent
Ended(r) == req[r].stage = "closed" /\ req[r].stream = <<>>

\* After the final intent the store refreshes as Load does.
Final(r) ==
  req' = [req EXCEPT ![r] = [op |-> "execute", stage |-> "reread", index |-> req[r].index]]

Receive(r) ==
  LET event == Head(req[r].stream)
      v == view[Tab(r)]
      i == req[r].index
  IN
  /\ req[r].op = "execute" /\ req[r].stage \notin {"reread", "final"}
  /\ req[r].stream # <<>>
  /\ \/ /\ event.type = "leg"
        /\ SetView(Tab(r), Folded(v, i, event.leg))
        /\ req' = [req EXCEPT ![r].stream = Tail(@)]
     \/ /\ event.type = "intent"
        /\ SetView(Tab(r), Upsert(v, i, event.intent))
        /\ req' = [req EXCEPT ![r].stream = Tail(@), ![r].last = event.intent]
     \/ /\ event.type = "done"
        /\ SetView(Tab(r), Upsert(v, i, event.intent))
        /\ Final(r)
     \/ event.type = "error" /\ Finish(r) /\ UNCHANGED view
  /\ UNCHANGED <<ledger, faults>>

\* The stream ends without "done": the last intent received stands for it, and
\* without one it is an error.
StreamEnds(r) ==
  /\ req[r].op = "execute" /\ Ended(r)
  /\ IF req[r].last = NoIntent THEN Finish(r) /\ UNCHANGED view
     ELSE SetView(Tab(r), Upsert(view[Tab(r)], req[r].index, req[r].last)) /\ Final(r)
  /\ UNCHANGED <<ledger, faults>>

Reread(r) ==
  /\ At(r, "execute", "reread")
  /\ req' = [req EXCEPT ![r] = [op |-> "execute", stage |-> "final", index |-> req[r].index,
                                answer |-> GetLedger]]
  /\ UNCHANGED <<ledger, view, faults>>

\* The whole ledger of the answer, then the execution is over.
Settled(r) ==
  /\ At(r, "execute", "final")
  /\ SetView(Tab(r), req[r].answer)
  /\ Finish(r)
  /\ UNCHANGED <<ledger, faults>>

\* The route's 300 seconds are over and the stream ends.  A leg that was to be
\* signed, delivered or confirmed stays where the ledger has it.
Cut(r) ==
  /\ req[r].op = "execute" /\ req[r].stage \notin {"closed", "reread", "final"}
  /\ faults < FaultBound /\ faults' = faults + 1
  /\ Close(r, <<>>)
  /\ UNCHANGED <<ledger, view>>

\* The server gives up on the leg: the program refuses it (caps, timelock), Ika
\* does not sign, the delivery fails.
Errs(r) ==
  /\ req[r].op = "execute" /\ req[r].stage \in {"start", "policy", "confirm", "refetch"}
  /\ faults < FaultBound /\ faults' = faults + 1
  /\ Fails(r)
  /\ UNCHANGED <<ledger, view>>

\* A request fails before its answer arrives, whatever it has done: a transaction
\* stays on the ledger, events are dropped with the intent they carried, and where
\* the refresh after an execution fails, what the store shows stays.
Lose(r) ==
  /\ ~Free(r)
  /\ faults < FaultBound /\ faults' = faults + 1
  /\ Finish(r)
  /\ UNCHANGED <<ledger, view>>

Server(r) ==
  \/ Read(r) \/ ProposalLands(r) \/ ApprovalLands(r) \/ ReadBack(r)
  \/ Snapshot(r) \/ NextLeg(r) \/ Policy(r) \/ Confirm(r) \/ Refetch(r) \/ Reread(r)
Client(r) == Refreshed(r) \/ Answered(r) \/ Receive(r) \/ StreamEnds(r) \/ Settled(r)

Next ==
  \E r \in Requests :
    \/ Load(r)
    \/ \E draft \in Drafts : Propose(r, draft)
    \/ \E i \in Ids : Approve(r, i) \/ Execute(r, i)
    \/ Server(r) \/ Client(r)
    \/ Cut(r) \/ Errs(r) \/ Lose(r)

Spec == Init /\ [][Next]_vars /\ \A r \in Requests : WF_vars(Server(r)) /\ WF_vars(Client(r))

-----------------------------------------------------------------------------

\* The answer to a proposal is the intent that proposal created, not the one of
\* a tab that raced it for the index (server/devnet.ts:283-316).
AnsweredWithOwnIntent ==
  \A r \in Requests : At(r, "create", "answer") => req[r].index = req[r].landed

\* What a tab shows as confirmed or executed has happened, in whatever order
\* the answers and events reach the store and wherever a stream is cut
\* (useLedgerStore.ts:105-137, server/devnet.ts:364-394).
ShownIsReal ==
  \A t \in Tabs, i \in Ids :
    /\ view[t][i].status = "executed" => ledger[i].status = "executed"
    /\ \A l \in Legs(view[t][i]) :
         view[t][i].legs[l].status = "confirmed" => ledger[i].legs[l].status = "confirmed"

\* Every execution ends and frees its button, cut or not
\* (useLedgerStore.ts:102-137).
ExecutionEnds == \A r \in Requests : req[r].op = "execute" ~> Free(r)
=============================================================================

------------------------------- MODULE CallFeed -------------------------------
(***************************************************************************)
(* What leaves the broker (cmd/server/broker.go): every change of a call's      *)
(* record is broadcast to the browsers over channels that drop what they cannot  *)
(* take, and saved by a goroutine of its own, which may fail.  Neither waits for   *)
(* the other, nor for an earlier one of its kind; an owner that is set is neither   *)
(* broadcast nor saved.                                                       *)
(*                                                                         *)
(* A record is the number of its last change (CallRecords has its fields); a row    *)
(* shows the number of the last upsert, or of an owner set since: the other changes  *)
(* of a record do not reach it.  One browser is modelled, with the store of         *)
(* client/src/stores/calls.ts behind its event stream.  Nothing in the broker tells  *)
(* a call of an earlier run from one of this run, and nothing does here.            *)
(***************************************************************************)
EXTENDS Naturals, Sequences, FiniteSets

CONSTANTS
  Calls,     \* call ids
  Emitters,  \* goroutines that change a record
  Cap,       \* what a subscriber's channel holds: 32
  MaxRev     \* bound: changes of one record

ASSUME FeedAssumption == IsFiniteSet(Calls) /\ Cap \in Nat \ {0} /\ MaxRev \in Nat

Sse == "sse"   \* the goroutine that serves the browser's event stream
Threads == Emitters \cup {Sse}

VARIABLES
  rev,      \* the last change of each record; 0 before there is one
  shown,    \* what a row can show of a call in Broker.calls; 0 for one that is not there
  told,     \* its last upsert; shown may be later by the owner
  filed,    \* a call's first entry in Broker.history; 0 for one that has none
  saves,    \* saveCallRecord goroutines: the record they were given
  stored,   \* the call_history table
  todo,     \* what each goroutine has yet to broadcast
  alone,    \* history: it emits with no other beside it, and nothing of it was dropped
  open,     \* the browser is subscribed
  queue,    \* its channel
  view,     \* its rows
  doubtful, \* history: what it was sent may be out of date
  crossed,  \* history: calls of which two saves were under way at once
  unsaved   \* history: calls with an owner set, or a save failed, since a save was begun

recordVars == <<rev, shown, told, filed>>
storeVars  == <<saves, stored, crossed, unsaved>>
feedVars   == <<todo, alone, open, queue, view, doubtful>>
vars == <<recordVars, storeVars, feedVars>>

Rows == [Calls -> 0..MaxRev]
Events == [type : {"snapshot"}]
            \cup [type : {"list"}, rows : Rows]
            \cup [type : {"status"}, call : Calls, rev : 1..MaxRev]
            \cup [type : {"ended", "other"}, call : Calls]

(* Every variable has its type.                                              *)
TypeOK ==
  /\ rev \in Rows /\ shown \in Rows /\ told \in Rows /\ filed \in Rows
  /\ saves \subseteq Calls \X (1..MaxRev)
  /\ stored \in Rows
  /\ todo \in [Threads -> Seq(Events)]
  /\ alone \subseteq Threads
  /\ open \in BOOLEAN
  /\ queue \in Seq(Events) /\ Len(queue) <= Cap
  /\ view \in Rows
  /\ doubtful \in BOOLEAN
  /\ crossed \subseteq Calls /\ unsaved \subseteq Calls

Init ==
  /\ rev = [c \in Calls |-> 0] /\ shown = rev /\ told = rev /\ filed = rev
  /\ saves = {} /\ stored = rev /\ crossed = {} /\ unsaved = {}
  /\ todo = [t \in Threads |-> <<>>] /\ alone = {}
  /\ open = FALSE /\ queue = <<>> /\ view = rev /\ doubtful = TRUE

----------------------------------------------------------------------------
(* Saves.                                                                     *)

Saving(c) == \E w \in saves : w[1] = c

(* go saveCallRecord with a copy of the record, under the broker's lock.          *)
Save(c, r) ==
  /\ saves' = saves \cup {<<c, r>>}
  /\ crossed' = IF Saving(c) THEN crossed \cup {c} ELSE crossed \ {c}
  /\ unsaved' = unsaved \ {c}
  /\ UNCHANGED stored

(* The upsert of one record: the copies arrive as the goroutines get the database.   *)
(* Nobody reads the error.                                                     *)
SaveCallRecord ==
  /\ \E w \in saves :
       /\ saves' = saves \ {w}
       /\ \/ stored' = [stored EXCEPT ![w[1]] = w[2]] /\ UNCHANGED unsaved
          \/ unsaved' = unsaved \cup {w[1]} /\ UNCHANGED stored
  /\ UNCHANGED <<recordVars, crossed, feedVars>>

(* Most changes of a record save it.                                              *)
Change(c) ==
  /\ rev[c] < MaxRev
  /\ rev' = [rev EXCEPT ![c] = @ + 1]
  /\ Save(c, rev[c] + 1)

----------------------------------------------------------------------------
(* Broadcasts.  An emitter has a program of events; a call-list is made when its     *)
(* turn comes, and sent in a step of its own.                                    *)

Emitting(t) == todo[t] # <<>>

Start(t, events) ==
  /\ ~Emitting(t)
  /\ todo' = [todo EXCEPT ![t] = events]
  /\ alone' = IF \E u \in Threads : Emitting(u) THEN {} ELSE {t}

(* Mutant: the list has the calls that are over as well.                            *)
CallListMutant == [type |-> "list", rows |-> [c \in Calls |-> IF filed[c] # 0 THEN filed[c] ELSE shown[c]]]

(* broadcastCallList: the calls of the moment.                                     *)
CallList == [type |-> "list", rows |-> shown]

TakeSnapshot(t) ==
  /\ Emitting(t) /\ Head(todo[t]).type = "snapshot"
  /\ todo' = [todo EXCEPT ![t] = <<CallList>> \o Tail(@)]
  /\ UNCHANGED <<recordVars, storeVars, alone, open, queue, view, doubtful>>

Dropped == open /\ Len(queue) = Cap

(* broadcast: a subscriber whose channel is full misses the event.                   *)
Push(e) == queue' = IF open /\ ~Dropped THEN Append(queue, e) ELSE queue

(* The list of an emitter that had nobody beside it settles what the browser sees.     *)
Broadcast(t) ==
  /\ Emitting(t) /\ Head(todo[t]).type # "snapshot"
  /\ Push(Head(todo[t]))
  /\ todo' = [todo EXCEPT ![t] = Tail(@)]
  /\ alone' = IF Dropped THEN alone \ {t} ELSE alone
  /\ doubtful' = \/ t \notin alone'
                 \/ doubtful /\ (Tail(todo[t]) # <<>> \/ Head(todo[t]).type = "ended")
  /\ UNCHANGED <<recordVars, storeVars, open, view>>

----------------------------------------------------------------------------
(* Changes of a record, each under the broker's lock.  What is broadcast of an event or  *)
(* a transcript changes no row, and goes out in the same step.                        *)

(* upsertCall, of a call that is over as well: it is then in the calls and in the       *)
(* history.                                                                       *)
UpsertCall(t, c) ==
  /\ Change(c)
  /\ shown' = [shown EXCEPT ![c] = rev[c] + 1]
  /\ told'  = [told EXCEPT ![c] = rev[c] + 1]
  /\ Start(t, <<[type |-> "snapshot"], [type |-> "status", call |-> c, rev |-> rev[c] + 1]>>)
  /\ UNCHANGED <<filed, open, queue, view, doubtful>>

(* endCall files the record, behind what the history has of the call already; a call    *)
(* that is not there is only announced as ended.                                     *)
EndCall(t, c) ==
  /\ \/ /\ shown[c] # 0
        /\ Change(c)
        /\ shown' = [shown EXCEPT ![c] = 0]
        /\ told'  = [told EXCEPT ![c] = 0]
        /\ filed' = [filed EXCEPT ![c] = IF @ = 0 THEN rev[c] + 1 ELSE @]
        /\ Start(t, <<[type |-> "ended", call |-> c], [type |-> "snapshot"]>>)
     \/ /\ shown[c] = 0
        /\ Start(t, <<[type |-> "ended", call |-> c]>>)
        /\ UNCHANGED <<recordVars, storeVars>>
  /\ UNCHANGED <<open, queue, view, doubtful>>

(* setOwner: the record has an owner, and nobody is told.                              *)
SetOwner(c) ==
  /\ shown[c] # 0 /\ rev[c] < MaxRev
  /\ rev'   = [rev EXCEPT ![c] = @ + 1]
  /\ shown' = [shown EXCEPT ![c] = rev[c] + 1]
  /\ unsaved' = unsaved \cup {c}
  /\ UNCHANGED <<told, filed, saves, stored, crossed, feedVars>>

(* Mutant: an event of a call that is over is added and not saved.                      *)
RecordCallEventMutant(c) ==
  /\ \/ shown[c] # 0 /\ Change(c) /\ UNCHANGED filed
     \/ /\ shown[c] = 0 /\ filed[c] # 0 /\ rev[c] < MaxRev
        /\ rev'   = [rev EXCEPT ![c] = @ + 1]
        /\ filed' = [filed EXCEPT ![c] = rev[c] + 1]
        /\ UNCHANGED storeVars
     \/ shown[c] = 0 /\ filed[c] = 0 /\ UNCHANGED <<rev, filed, storeVars>>
  /\ Push([type |-> "other", call |-> c])
  /\ UNCHANGED <<shown, told, todo, alone, open, view, doubtful>>

(* recordCallEvent, of a call that goes on, or of its first entry in the history.        *)
RecordCallEvent(c) ==
  /\ \/ shown[c] # 0 /\ Change(c) /\ UNCHANGED filed
     \/ /\ shown[c] = 0 /\ filed[c] # 0 /\ Change(c)
        /\ filed' = [filed EXCEPT ![c] = rev[c] + 1]
     \/ shown[c] = 0 /\ filed[c] = 0 /\ UNCHANGED <<rev, filed, storeVars>>
  /\ Push([type |-> "other", call |-> c])
  /\ UNCHANGED <<shown, told, todo, alone, open, view, doubtful>>

(* emitAgentTranscript changes only a call that goes on, and is announced anyhow.        *)
EmitAgentTranscript(c) ==
  /\ \/ shown[c] # 0 /\ Change(c)
     \/ shown[c] = 0 /\ UNCHANGED <<rev, storeVars>>
  /\ Push([type |-> "other", call |-> c])
  /\ UNCHANGED <<shown, told, filed, todo, alone, open, view, doubtful>>

(* setCallOutcome does not look in the history: of a call that is over nothing is kept.    *)
SetCallOutcome(c) ==
  /\ shown[c] # 0 /\ Change(c)
  /\ UNCHANGED <<shown, told, filed, feedVars>>

----------------------------------------------------------------------------
(* The browser.                                                                   *)

(* serveSSE: subscribed first, then the list is broadcast, to everybody.                *)
Subscribe ==
  /\ ~open
  /\ open' = TRUE /\ doubtful' = TRUE
  /\ view' = [c \in Calls |-> 0]
  /\ Start(Sse, <<[type |-> "snapshot"]>>)
  /\ UNCHANGED <<recordVars, storeVars, queue>>

(* A browser's rows after an event: a list replaces them all, a status of a call it       *)
(* does not know adds a row.                                                          *)
Applied(rows, e) ==
  CASE e.type = "list"   -> e.rows
    [] e.type = "status" -> [rows EXCEPT ![e.call] = e.rev]
    [] e.type = "ended"  -> [rows EXCEPT ![e.call] = 0]
    [] OTHER             -> rows

(* serveSSE writes the next event, and the browser takes it.                              *)
Deliver ==
  /\ open /\ ~Emitting(Sse) /\ queue # <<>>
  /\ view' = Applied(view, Head(queue))
  /\ queue' = Tail(queue)
  /\ UNCHANGED <<recordVars, storeVars, todo, alone, open, doubtful>>

(* The request is over: unsubscribe takes the channel out before it closes it.               *)
Unsubscribe ==
  /\ open /\ ~Emitting(Sse)
  /\ open' = FALSE /\ queue' = <<>>
  /\ UNCHANGED <<recordVars, storeVars, todo, alone, view, doubtful>>

----------------------------------------------------------------------------
(* The process stops and starts again: setStore reads the table into the history, which       *)
(* stays empty if it cannot.                                                          *)
Restart ==
  /\ rev' = stored
  /\ shown' = [c \in Calls |-> 0] /\ told' = shown'
  /\ filed' \in {stored, shown'}
  /\ saves' = {} /\ crossed' = {} /\ unsaved' = {} /\ UNCHANGED stored
  /\ todo' = [t \in Threads |-> <<>>] /\ alone' = {}
  /\ open' = FALSE /\ queue' = <<>> /\ doubtful' = TRUE
  /\ UNCHANGED view

Next ==
  \/ SaveCallRecord
  \/ \E t \in Threads : TakeSnapshot(t) \/ Broadcast(t)
  \/ \E t \in Emitters, c \in Calls :
       UpsertCall(t, c) \/ EndCall(t, c)
  \/ \E c \in Calls : SetOwner(c) \/ RecordCallEvent(c) \/ EmitAgentTranscript(c) \/ SetCallOutcome(c)
  \/ Subscribe \/ Deliver \/ Unsubscribe
  \/ Restart

Spec == Init /\ [][Next]_vars

----------------------------------------------------------------------------
(* Properties.                                                                    *)

(* The rows that are as good as the broker can make them: an owner set after the last        *)
(* upsert of a call may be missing.                                                    *)
Current == {w \in Rows : \A c \in Calls : told[c] <= w[c] /\ w[c] <= shown[c]}

(* A browser that has taken all it was sent shows exactly the calls that go on, a call       *)
(* that was over and is upserted again included, with what the last upsert made of them,     *)
(* but perhaps without the owner set since; unless an event was dropped or two goroutines    *)
(* emitted at once since the last list that went out alone: then it may keep a call that     *)
(* is over.                                                                         *)
ViewCurrent ==
  open /\ queue = <<>> /\ (\A t \in Threads : ~Emitting(t)) /\ ~doubtful => view \in Current

(* historyRows: the table, and only when that is empty the history in memory.                *)
HistoryRows == IF \E c \in Calls : stored[c] # 0 THEN stored ELSE filed

(* Once nothing of a call is being saved, the history shows its record as it was last        *)
(* changed, also when it was changed after its end or filed twice; unless its last save      *)
(* failed, an owner was set since, or two saves were under way at once and an older copy     *)
(* may have come last.                                                               *)
StoredCurrent ==
  \A c \in Calls \ (crossed \cup unsaved) : ~Saving(c) /\ rev[c] # 0 => HistoryRows[c] = rev[c]

----------------------------------------------------------------------------
(* The inductive invariant behind them.                                             *)

(* But for the calls with saves that crossed or failed, and owners set, what is being saved  *)
(* is the last change, and otherwise the table has it.                                  *)
SavesCurrent ==
  \A c \in Calls \ (crossed \cup unsaved) :
    /\ \A w \in saves : w[1] = c => w[2] = rev[c]
    /\ Saving(c) \/ stored[c] = rev[c]

(* The events of q take a browser from its rows v to the rows w.                          *)
Leads(v, q, w) ==
  \E h \in [0..Len(q) -> Rows] :
    /\ h[0] = v /\ h[Len(q)] = w
    /\ \A i \in 1..Len(q) : h[i] = Applied(h[i - 1], q[i])

Snapshot == [type |-> "snapshot"]
List(w) == [type |-> "list", rows |-> w]
Status(c) == [type |-> "status", call |-> c, rev |-> told[c]]
Ended(c) == [type |-> "ended", call |-> c]

(* All that is on its way to the browser taken, its rows are as good as they can be.         *)
WillBeCurrent == \E w \in Current : Leads(view, queue, w)

(* What an emitter that has nobody beside it has yet to broadcast puts the browser right,    *)
(* or leaves it right.                                                               *)
Settles(t) ==
  \/ todo[t] = <<Snapshot>>
  \/ \E w \in Current : todo[t] = <<List(w)>>
  \/ \E c \in Calls :
       \/ todo[t] = <<Ended(c), Snapshot>>
       \/ told[c] # 0 /\ todo[t] = <<Snapshot, Status(c)>>
       \/ told[c] # 0 /\ \E w \in Current : todo[t] = <<List(w), Status(c)>>
       \/ told[c] # 0 /\ todo[t] = <<Status(c)>> /\ (open => WillBeCurrent)
       \/ shown[c] = 0 /\ todo[t] = <<Ended(c)>> /\ (open /\ ~doubtful => WillBeCurrent)

FeedCurrent ==
  /\ IF open THEN \E rows \in Rows : Leads(view, queue, rows) ELSE queue = <<>>
  /\ \A t \in alone : Emitting(t) => Settles(t) /\ \A u \in Threads \ {t} : ~Emitting(u)
  /\ open /\ ~doubtful /\ (\A t \in Threads : ~Emitting(t)) => WillBeCurrent

(* An owner is set of a record that was upserted, and is a change of it.                   *)
InOrder == \A c \in Calls : told[c] <= shown[c] /\ shown[c] <= rev[c]

IndInv == TypeOK /\ InOrder /\ SavesCurrent /\ FeedCurrent
=============================================================================

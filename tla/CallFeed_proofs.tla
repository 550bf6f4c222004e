--------------------------- MODULE CallFeed_proofs ---------------------------
(***************************************************************************)
(* Proofs about CallFeed, for any number of calls and emitters and any channel:   *)
(* IndInv is inductive, so the browser and the table are right where the code      *)
(* makes them so.                                                             *)
(***************************************************************************)
EXTENDS CallFeed, SequenceTheorems, TLAPS

LEMMA Sizes == Cap \in Nat /\ Cap > 0 /\ MaxRev \in Nat
BY FeedAssumption

(* The type invariant in parts. *)
LEMMA RecordTyped ==
  TypeOK => /\ rev \in Rows /\ shown \in Rows /\ told \in Rows /\ filed \in Rows
            /\ stored \in Rows /\ crossed \subseteq Calls /\ unsaved \subseteq Calls
BY DEF TypeOK

LEMMA SavesTyped ==
  TypeOK => saves \subseteq Calls \X (1..MaxRev)
BY DEF TypeOK

LEMMA FeedTyped ==
  TypeOK => /\ todo \in [Threads -> Seq(Events)] /\ alone \subseteq Threads
            /\ open \in BOOLEAN /\ doubtful \in BOOLEAN /\ view \in Rows
BY DEF TypeOK

LEMMA QueueTyped ==
  TypeOK => queue \in Seq(Events) /\ Len(queue) \in 0..Cap
BY Sizes DEF TypeOK

LEMMA NothingTyped == <<>> \in Seq(Events) /\ Len(<<>>) <= Cap
BY Sizes

LEMMA Joined ==
  ASSUME NEW a \in Events, NEW b \in Events
  PROVE  <<a>> \o <<b>> = <<a, b>>
<1>1. <<a>> \o <<b>> \in Seq(Events) /\ Len(<<a>> \o <<b>>) = 2
  OBVIOUS
<1>2. (<<a>> \o <<b>>)[1] = a /\ (<<a>> \o <<b>>)[2] = b
  OBVIOUS
<1>3. <<a, b>> \in Seq(Events) /\ Len(<<a, b>>) = 2 /\ <<a, b>>[1] = a /\ <<a, b>>[2] = b
  OBVIOUS
<1> DEFINE u == <<a>> \o <<b>>  v == <<a, b>>
<1>4. /\ u \in Seq(Events) /\ v \in Seq(Events) /\ Len(u) = 2 /\ Len(v) = 2
      /\ u[1] = v[1] /\ u[2] = v[2]
  BY <1>1, <1>2, <1>3
<1> HIDE DEF u, v
<1>5. u = v
  BY <1>4, SeqEqual
<1> QED
  BY <1>5 DEF u, v

LEMMA AppliedTyped ==
  ASSUME NEW rows \in Rows, NEW e \in Events
  PROVE  Applied(rows, e) \in Rows
<1>1. CASE e.type = "list"
  BY <1>1 DEF Applied, Events
<1>2. CASE e.type = "status"
  <2>1. e.call \in Calls /\ e.rev \in 0..MaxRev
    BY <1>2, Sizes DEF Events
  <2> QED
    BY <1>2, <2>1 DEF Applied, Rows
<1>3. CASE e.type = "ended"
  <2>1. 0 \in 0..MaxRev
    BY Sizes
  <2> QED
    BY <1>3, <2>1 DEF Applied, Rows
<1>4. CASE e.type \notin {"list", "status", "ended"}
  BY <1>4 DEF Applied
<1> QED
  BY <1>1, <1>2, <1>3, <1>4

LEMMA EventTypes ==
  /\ Snapshot \in Events
  /\ \A rows \in Rows : [type |-> "list", rows |-> rows] \in Events
  /\ \A c \in Calls : Ended(c) \in Events /\ [type |-> "other", call |-> c] \in Events
  /\ \A c \in Calls, r \in 1..MaxRev : [type |-> "status", call |-> c, rev |-> r] \in Events
BY DEF Snapshot, Ended, Events

(* Nothing to take leaves the rows. *)
LEMMA LeadsNowhere ==
  ASSUME NEW v \in Rows
  PROVE  Leads(v, <<>>, v)
<1> DEFINE g == [i \in 0..0 |-> v]
<1>1. Len(<<>>) = 0 /\ g \in [0..0 -> Rows] /\ g[0] = v
  OBVIOUS
<1> HIDE DEF g
<1> QED
  BY <1>1 DEF Leads

(* One more event in the channel is one more event applied. *)
LEMMA LeadsPush ==
  ASSUME NEW v, NEW q \in Seq(Events), NEW w \in Rows, NEW e \in Events, Leads(v, q, w)
  PROVE  Leads(v, Append(q, e), Applied(w, e)) /\ Applied(w, e) \in Rows
<1> DEFINE n == Len(q)  x == Applied(w, e)
<1>1. PICK h \in [0..n -> Rows] :
        /\ h[0] = v /\ h[n] = w
        /\ \A i \in 1..n : h[i] = Applied(h[i - 1], q[i])
  BY DEF Leads
<1>2. x \in Rows
  BY AppliedTyped
<1>3. /\ Len(Append(q, e)) = n + 1 /\ n \in Nat
      /\ \A i \in 1..n : Append(q, e)[i] = q[i]
      /\ Append(q, e)[n + 1] = e
  OBVIOUS
<1> DEFINE g == [i \in 0..(n + 1) |-> IF i = n + 1 THEN x ELSE h[i]]
<1>4. g \in [0..(n + 1) -> Rows] /\ g[0] = v /\ g[n + 1] = x
  BY <1>1, <1>2, <1>3
<1>5. \A i \in 1..(n + 1) : g[i] = Applied(g[i - 1], Append(q, e)[i])
  <2> SUFFICES ASSUME NEW i \in 1..(n + 1) PROVE g[i] = Applied(g[i - 1], Append(q, e)[i])
    OBVIOUS
  <2>1. CASE i = n + 1
    <3>1. g[i - 1] = w /\ g[i] = x
      BY <1>1, <1>3, <2>1
    <3> QED
      BY <1>3, <2>1, <3>1
  <2>2. CASE i \in 1..n
    <3>1. g[i] = h[i] /\ g[i - 1] = h[i - 1]
      BY <1>3, <2>2
    <3> QED
      BY <1>1, <1>3, <2>2, <3>1
  <2> QED
    BY <1>3, <2>1, <2>2
<1> HIDE DEF g
<1> QED
  BY <1>2, <1>3, <1>4, <1>5 DEF Leads

(* What is taken out of the channel has been applied. *)
LEMMA LeadsPop ==
  ASSUME NEW v, NEW q \in Seq(Events), NEW w, q # <<>>, Leads(v, q, w)
  PROVE  Leads(Applied(v, Head(q)), Tail(q), w)
<1> DEFINE n == Len(q)
<1>1. PICK h \in [0..n -> Rows] :
        /\ h[0] = v /\ h[n] = w
        /\ \A i \in 1..n : h[i] = Applied(h[i - 1], q[i])
  BY DEF Leads
<1>2. /\ n \in Nat \ {0} /\ Len(Tail(q)) = n - 1 /\ Head(q) = q[1]
      /\ \A i \in 1..(n - 1) : Tail(q)[i] = q[i + 1]
  OBVIOUS
<1> DEFINE g == [i \in 0..(n - 1) |-> h[i + 1]]
<1>3. g \in [0..(n - 1) -> Rows] /\ g[0] = Applied(v, Head(q)) /\ g[n - 1] = w
  BY <1>1, <1>2
<1>4. \A i \in 1..(n - 1) : g[i] = Applied(g[i - 1], Tail(q)[i])
  BY <1>1, <1>2
<1> HIDE DEF g
<1> QED
  BY <1>2, <1>3, <1>4 DEF Leads

(* A change of a record and its save. *)
LEMMA ChangeKeeps ==
  ASSUME IndInv, NEW c \in Calls, Change(c)
  PROVE  /\ SavesCurrent' /\ rev' \in Rows /\ rev'[c] = rev[c] + 1 /\ rev'[c] \in 1..MaxRev
         /\ saves' \subseteq Calls \X (1..MaxRev) /\ crossed' \subseteq Calls
         /\ stored' \in Rows /\ unsaved' \subseteq Calls
<1>1. rev[c] + 1 \in 1..MaxRev /\ rev \in Rows /\ stored \in Rows
  BY RecordTyped, Sizes DEF IndInv, Change, Rows
<1>2. rev' \in Rows /\ rev'[c] = rev[c] + 1 /\ \A d \in Calls \ {c} : rev'[d] = rev[d]
  BY <1>1, Sizes DEF Change, Rows
<1>3. /\ saves' \subseteq Calls \X (1..MaxRev) /\ crossed' \subseteq Calls /\ stored' = stored
      /\ unsaved' \subseteq Calls
  BY <1>1, SavesTyped, RecordTyped DEF IndInv, Change, Save
<1>4. /\ saves' = saves \cup {<<c, rev[c] + 1>>}
      /\ crossed' = IF Saving(c) THEN crossed \cup {c} ELSE crossed \ {c}
      /\ unsaved' = unsaved \ {c}
  BY DEF Change, Save
<1>5. SavesCurrent'
  <2> SUFFICES ASSUME NEW d \in Calls \ (crossed' \cup unsaved')
               PROVE  /\ \A w \in saves' : w[1] = d => w[2] = rev'[d]
                      /\ (\E w \in saves' : w[1] = d) \/ stored'[d] = rev'[d]
    BY DEF SavesCurrent, Saving
  <2>1. CASE d = c
    <3>1. ~Saving(c)
      BY <1>4, <2>1
    <3>2. \A w \in saves' : w[1] = c => w = <<c, rev[c] + 1>>
      BY <1>4, <3>1 DEF Saving
    <3>3. <<c, rev[c] + 1>> \in saves'
      BY <1>4
    <3>4. <<c, rev[c] + 1>>[1] = c /\ <<c, rev[c] + 1>>[2] = rev'[c]
      BY <1>2
    <3> QED
      BY <2>1, <3>2, <3>3, <3>4
  <2>2. CASE d # c
    <3>1. d \in Calls \ (crossed \cup unsaved) /\ rev'[d] = rev[d] /\ \A w \in saves' : w[1] = d => w \in saves
      BY <1>2, <1>4, <2>2
    <3> QED
      BY <1>3, <1>4, <3>1 DEF IndInv, SavesCurrent, Saving
  <2> QED
    BY <2>1, <2>2
<1> QED
  BY <1>1, <1>2, <1>3, <1>5

LEMMA SaveStep ==
  ASSUME IndInv, SaveCallRecord
  PROVE  /\ SavesCurrent' /\ saves' \subseteq Calls \X (1..MaxRev) /\ stored' \in Rows
         /\ unsaved' \subseteq Calls
<1>1. PICK w \in saves : /\ saves' = saves \ {w}
                         /\ \/ stored' = [stored EXCEPT ![w[1]] = w[2]] /\ UNCHANGED unsaved
                            \/ unsaved' = unsaved \cup {w[1]} /\ UNCHANGED stored
  BY DEF SaveCallRecord
<1>2. w[1] \in Calls /\ w[2] \in 1..MaxRev /\ w = <<w[1], w[2]>>
  BY <1>1, SavesTyped DEF IndInv
<1>3. /\ saves' \subseteq Calls \X (1..MaxRev) /\ stored' \in Rows /\ unsaved' \subseteq Calls
      /\ unsaved \subseteq unsaved' /\ (w[1] \notin unsaved' => stored'[w[1]] = w[2])
      /\ \A d \in Calls \ {w[1]} : stored'[d] = stored[d]
  BY <1>1, <1>2, SavesTyped, RecordTyped, Sizes DEF IndInv, Rows
<1>4. SavesCurrent'
  <2> SUFFICES ASSUME NEW d \in Calls \ (crossed \cup unsaved')
               PROVE  /\ \A v \in saves' : v[1] = d => v[2] = rev[d]
                      /\ (\E v \in saves' : v[1] = d) \/ stored'[d] = rev[d]
    BY DEF SavesCurrent, Saving, SaveCallRecord, recordVars
  <2>1. \A v \in saves : v[1] = d => v[2] = rev[d]
    BY <1>3 DEF IndInv, SavesCurrent
  <2>2. CASE w[1] = d
    BY <1>1, <1>3, <2>1, <2>2
  <2>3. CASE w[1] # d
    BY <1>1, <1>3, <2>1, <2>3 DEF IndInv, SavesCurrent, Saving
  <2> QED
    BY <2>2, <2>3
<1> QED
  BY <1>3, <1>4

(* How a program of events starts, and what an emitter beside another comes to. *)
LEMMA StartTyped ==
  ASSUME IndInv, NEW t \in Threads, NEW p \in Seq(Events), Start(t, p)
  PROVE  /\ todo' \in [Threads -> Seq(Events)] /\ alone' \subseteq Threads
         /\ todo'[t] = p /\ \A u \in Threads \ {t} : todo'[u] = todo[u]
         /\ \A u \in alone' : u = t /\ \A v \in Threads : todo[v] = <<>>
<1>1. todo \in [Threads -> Seq(Events)]
  BY FeedTyped DEF IndInv
<1>2. todo' = [todo EXCEPT ![t] = p] /\ alone' = IF \E u \in Threads : Emitting(u) THEN {} ELSE {t}
  BY DEF Start
<1> QED
  BY <1>1, <1>2 DEF Emitting

(* An event that changes no row changes nothing the browser will have. *)
LEMMA OtherPush ==
  ASSUME IndInv, NEW c \in Calls, Push([type |-> "other", call |-> c]),
         UNCHANGED <<shown, told, todo, alone, open, view, doubtful>>
  PROVE  queue' \in Seq(Events) /\ Len(queue') \in 0..Cap /\ FeedCurrent'
<1> DEFINE e == [type |-> "other", call |-> c]
<1>1. e \in Events /\ \A rows : Applied(rows, e) = rows
  BY EventTypes DEF Applied
<1>2. queue \in Seq(Events) /\ Len(queue) \in 0..Cap /\ shown \in Rows
  BY QueueTyped, RecordTyped DEF IndInv
<1>3. queue' = IF open /\ ~Dropped THEN Append(queue, e) ELSE queue
  BY DEF Push
<1> HIDE DEF e
<1>4. queue' \in Seq(Events) /\ Len(queue') \in 0..Cap
  BY <1>1, <1>2, <1>3, Sizes DEF Dropped
<1>5. \A rows \in Rows : Leads(view, queue, rows) => Leads(view, queue', rows)
  BY <1>1, <1>2, <1>3, LeadsPush
<1>6. ~open => queue' = queue
  BY <1>3
<1>7. /\ Current' = Current /\ (WillBeCurrent => WillBeCurrent')
      /\ \A t \in Threads : Settles(t) => Settles(t)'
  <2>1. Current' = Current
    BY DEF Current
  <2>2. WillBeCurrent => WillBeCurrent'
    BY <1>5, <2>1 DEF WillBeCurrent, Current
  <2> QED
    BY <2>1, <2>2 DEF Settles, Status
<1>8. FeedCurrent'
  <2>1. IF open' THEN \E rows \in Rows : Leads(view', queue', rows) ELSE queue' = <<>>
    BY <1>5, <1>6 DEF IndInv, FeedCurrent
  <2>2. \A t \in alone' : Emitting(t)' => Settles(t)' /\ \A u \in Threads \ {t} : ~Emitting(u)'
    <3>1. alone \subseteq Threads
      BY FeedTyped DEF IndInv
    <3> QED
      BY <1>7, <3>1 DEF IndInv, FeedCurrent, Emitting
  <2>3. open' /\ ~doubtful' /\ (\A t \in Threads : ~Emitting(t)') => WillBeCurrent'
    BY <1>7 DEF IndInv, FeedCurrent, Emitting
  <2> QED
    BY <2>1, <2>2, <2>3 DEF FeedCurrent
<1> QED
  BY <1>4, <1>8

(* Rows that come to be good enough do not stop the feed from being so. *)
LEMMA FeedWider ==
  ASSUME FeedCurrent, alone \subseteq Threads, UNCHANGED <<told, feedVars>>, Current \subseteq Current',
         \A c \in Calls : shown[c] = 0 => shown'[c] = 0
  PROVE  FeedCurrent'
<1>1. WillBeCurrent => WillBeCurrent'
  BY DEF WillBeCurrent, feedVars
<1>2. \A t \in Threads : Settles(t) => Settles(t)'
  <2> SUFFICES ASSUME NEW t \in Threads, Settles(t) PROVE Settles(t)'
    OBVIOUS
  <2>1. told' = told /\ todo' = todo /\ open' = open /\ doubtful' = doubtful
    BY DEF feedVars
  <2>2. (\A c \in Calls : Status(c)' = Status(c) /\ Ended(c)' = Ended(c)) /\ Snapshot' = Snapshot
        /\ \A w \in Current : List(w)' = List(w)
    BY <2>1 DEF Status, Ended, Snapshot, List
  <2> QED
    BY <1>1, <2>1, <2>2 DEF Settles
<1>3. alone' = alone /\ todo' = todo /\ open' = open /\ doubtful' = doubtful
      /\ view' = view /\ queue' = queue
  BY DEF feedVars
<1>4. \A t \in alone : Emitting(t) => Settles(t)'
  BY <1>2 DEF FeedCurrent
<1> QED
  BY <1>1, <1>3, <1>4 DEF FeedCurrent, Emitting

LEMMA FeedFrame ==
  ASSUME FeedCurrent, UNCHANGED <<shown, told, feedVars>>
  PROVE  FeedCurrent'
BY DEF FeedCurrent, Settles, Status, WillBeCurrent, Current, Emitting, feedVars

(* A program that settles what the browser sees may start. *)
LEMMA StartKeeps ==
  ASSUME IndInv, NEW t \in Threads, NEW p \in Seq(Events), p # <<>>, Start(t, p),
         IF open' THEN \E rows \in Rows : Leads(view', queue', rows) ELSE queue' = <<>>,
         (\A v \in Threads : ~Emitting(v)) /\ todo'[t] = p => Settles(t)'
  PROVE  FeedCurrent'
<1>1. /\ todo'[t] = p /\ \A u \in Threads \ {t} : todo'[u] = todo[u]
      /\ \A u \in alone' : u = t /\ \A v \in Threads : todo[v] = <<>>
  BY StartTyped
<1>2. \A u \in alone' : Emitting(u)' => Settles(u)' /\ \A v \in Threads \ {u} : ~Emitting(v)'
  BY <1>1 DEF Emitting
<1>3. ~\A v \in Threads : ~Emitting(v)'
  BY <1>1 DEF Emitting
<1> QED
  BY <1>2, <1>3 DEF FeedCurrent

LEMMA UpsertKeeps ==
  ASSUME IndInv, NEW t \in Emitters, NEW c \in Calls, UpsertCall(t, c)
  PROVE  IndInv'
<1> DEFINE p == <<[type |-> "snapshot"], [type |-> "status", call |-> c, rev |-> rev[c] + 1]>>
<1>1. t \in Threads
  BY DEF Threads
<1>2. /\ SavesCurrent' /\ rev' \in Rows /\ rev'[c] = rev[c] + 1 /\ rev[c] + 1 \in 1..MaxRev
      /\ saves' \subseteq Calls \X (1..MaxRev) /\ crossed' \subseteq Calls /\ stored' \in Rows
      /\ unsaved' \subseteq Calls
  BY ChangeKeeps DEF UpsertCall
<1>3. /\ shown' \in Rows /\ told' \in Rows /\ told'[c] = rev[c] + 1 /\ told'[c] # 0
      /\ InOrder'
  <2>1. rev' = [rev EXCEPT ![c] = @ + 1] /\ rev \in Rows
    BY RecordTyped DEF IndInv, UpsertCall, Change
  <2>2. /\ shown' = [shown EXCEPT ![c] = rev[c] + 1] /\ told' = [told EXCEPT ![c] = rev[c] + 1]
        /\ shown \in Rows /\ told \in Rows
    BY RecordTyped DEF IndInv, UpsertCall
  <2>3. shown' \in Rows /\ told' \in Rows /\ told'[c] = rev[c] + 1 /\ shown'[c] = rev[c] + 1
        /\ \A d \in Calls \ {c} : shown'[d] = shown[d] /\ told'[d] = told[d] /\ rev'[d] = rev[d]
    BY <1>2, <2>1, <2>2, Sizes DEF Rows
  <2> QED
    BY <1>2, <2>3, Sizes DEF IndInv, InOrder, Rows
<1>4. p \in Seq(Events) /\ p # <<>> /\ Start(t, p)
  <2>1. [type |-> "snapshot"] \in Events /\ [type |-> "status", call |-> c, rev |-> rev[c] + 1] \in Events
    BY <1>2, EventTypes DEF Snapshot
  <2> QED
    BY <2>1 DEF UpsertCall
<1>5. p = <<Snapshot, Status(c)'>>
  BY <1>3 DEF Snapshot, Status
<1> HIDE DEF p
<1>6. FeedCurrent'
  <2>1. todo'[t] = p => Settles(t)'
    BY <1>3, <1>5 DEF Settles, Snapshot
  <2>2. IF open' THEN \E rows \in Rows : Leads(view', queue', rows) ELSE queue' = <<>>
    BY DEF IndInv, FeedCurrent, UpsertCall
  <2> QED
    BY <1>1, <1>4, <2>1, <2>2, StartKeeps
<1>7. TypeOK'
  BY <1>1, <1>2, <1>3, <1>4, StartTyped DEF IndInv, TypeOK, UpsertCall
<1> QED
  BY <1>2, <1>3, <1>6, <1>7 DEF IndInv

LEMMA EndKeeps ==
  ASSUME IndInv, NEW t \in Emitters, NEW c \in Calls, EndCall(t, c)
  PROVE  IndInv'
<1>1. t \in Threads /\ Ended(c) \in Events /\ Snapshot \in Events
  BY EventTypes DEF Threads
<1>2. IF open' THEN \E rows \in Rows : Leads(view', queue', rows) ELSE queue' = <<>>
  BY DEF IndInv, FeedCurrent, EndCall
<1>3. CASE shown[c] # 0
  <2> DEFINE p == <<Ended(c), Snapshot>>
  <2>1. /\ SavesCurrent' /\ rev' \in Rows
        /\ saves' \subseteq Calls \X (1..MaxRev) /\ crossed' \subseteq Calls /\ stored' \in Rows
        /\ unsaved' \subseteq Calls
    BY <1>3, ChangeKeeps DEF EndCall
  <2>2. shown' \in Rows /\ told' \in Rows /\ filed' \in Rows /\ InOrder'
    <3>1. /\ rev[c] + 1 \in 0..MaxRev /\ rev' = [rev EXCEPT ![c] = @ + 1]
          /\ rev \in Rows /\ shown \in Rows /\ told \in Rows /\ filed \in Rows
      BY <1>3, RecordTyped, Sizes DEF IndInv, EndCall, Change, Rows
    <3>2. /\ shown' = [shown EXCEPT ![c] = 0] /\ told' = [told EXCEPT ![c] = 0]
          /\ filed' = [filed EXCEPT ![c] = IF @ = 0 THEN rev[c] + 1 ELSE @]
      BY <1>3 DEF EndCall
    <3>3. filed' \in Rows
      BY <3>1, <3>2 DEF Rows
    <3>4. /\ shown' \in Rows /\ told' \in Rows /\ shown'[c] = 0 /\ told'[c] = 0 /\ rev'[c] \in Nat
          /\ \A d \in Calls \ {c} : shown'[d] = shown[d] /\ told'[d] = told[d] /\ rev'[d] = rev[d]
      BY <3>1, <3>2, Sizes DEF Rows
    <3> QED
      BY <3>3, <3>4 DEF IndInv, InOrder
  <2>3. p \in Seq(Events) /\ p # <<>> /\ Start(t, p)
    BY <1>1, <1>3 DEF EndCall, Ended, Snapshot
  <2>4. p = <<Ended(c)', Snapshot'>>
    BY DEF Ended, Snapshot
  <2> HIDE DEF p
  <2>5. todo'[t] = p => Settles(t)'
    BY <2>4 DEF Settles
  <2>6. FeedCurrent'
    BY <1>1, <1>2, <2>3, <2>5, StartKeeps
  <2>7. TypeOK'
    BY <1>1, <1>3, <2>1, <2>2, <2>3, StartTyped DEF IndInv, TypeOK, EndCall
  <2> QED
    BY <2>1, <2>2, <2>6, <2>7 DEF IndInv
<1>4. CASE shown[c] = 0
  <2> DEFINE p == <<Ended(c)>>
  <2>1. shown[c] = 0 /\ UNCHANGED <<recordVars, storeVars, open, queue, view, doubtful>>
    BY <1>4 DEF EndCall
  <2>2. p \in Seq(Events) /\ p # <<>> /\ Start(t, p)
    BY <1>1, <1>4 DEF EndCall, Ended
  <2>3. p = <<Ended(c)'>>
    BY DEF Ended
  <2> HIDE DEF p
  <2>4. (\A v \in Threads : ~Emitting(v)) /\ todo'[t] = p => Settles(t)'
    BY <2>1, <2>3 DEF Settles, IndInv, FeedCurrent, WillBeCurrent, Current, recordVars
  <2>5. FeedCurrent'
    BY <1>1, <1>2, <2>2, <2>4, StartKeeps
  <2>6. TypeOK'
    BY <1>1, <2>1, <2>2, StartTyped DEF IndInv, TypeOK, recordVars, storeVars
  <2>7. SavesCurrent'
    BY <2>1 DEF IndInv, SavesCurrent, Saving, recordVars, storeVars
  <2>8. InOrder'
    BY <2>1 DEF IndInv, InOrder, recordVars
  <2> QED
    BY <2>5, <2>6, <2>7, <2>8 DEF IndInv
<1> QED
  BY <1>3, <1>4

LEMMA EventKeeps ==
  ASSUME IndInv, NEW c \in Calls, RecordCallEvent(c) \/ EmitAgentTranscript(c)
  PROVE  IndInv'
<1>1. /\ Push([type |-> "other", call |-> c])
      /\ UNCHANGED <<shown, told, todo, alone, open, view, doubtful>>
      /\ Change(c) \/ UNCHANGED <<rev, storeVars>>
      /\ filed' \in {filed, [filed EXCEPT ![c] = rev'[c]]}
  <2>1. Change(c) => rev'[c] = rev[c] + 1
    BY RecordTyped DEF IndInv, Change, Rows
  <2> QED
    BY <2>1 DEF RecordCallEvent, EmitAgentTranscript
<1>2. /\ SavesCurrent' /\ rev' \in Rows /\ saves' \subseteq Calls \X (1..MaxRev)
      /\ crossed' \subseteq Calls /\ stored' \in Rows /\ unsaved' \subseteq Calls
  <2>1. CASE Change(c)
    BY <2>1, ChangeKeeps
  <2>2. CASE UNCHANGED <<rev, storeVars>>
    BY <2>2, RecordTyped, SavesTyped DEF IndInv, SavesCurrent, Saving, storeVars
  <2> QED
    BY <1>1, <2>1, <2>2
<1>3. queue' \in Seq(Events) /\ Len(queue') \in 0..Cap /\ FeedCurrent'
  BY <1>1, OtherPush
<1>4. filed' \in Rows /\ InOrder'
  <2>1. filed' \in Rows
    BY <1>1, <1>2, RecordTyped DEF IndInv, Rows
  <2>2. \A d \in Calls : rev[d] <= rev'[d]
    BY <1>1, <1>2, RecordTyped DEF IndInv, Change, Rows, storeVars
  <2>3. \A d \in Calls : rev[d] \in Nat /\ rev'[d] \in Nat /\ shown[d] \in Nat
    BY <1>2, RecordTyped DEF IndInv, Rows
  <2> QED
    BY <1>1, <2>1, <2>2, <2>3 DEF IndInv, InOrder
<1>5. TypeOK'
  BY <1>1, <1>2, <1>3, <1>4, Sizes DEF IndInv, TypeOK
<1> QED
  BY <1>2, <1>3, <1>4, <1>5 DEF IndInv

(* An owner set makes more rows good enough. *)
LEMMA OwnerKeeps ==
  ASSUME IndInv, NEW c \in Calls, SetOwner(c)
  PROVE  IndInv'
<1>1. rev \in Rows /\ shown \in Rows /\ told \in Rows /\ rev[c] + 1 \in 0..MaxRev
  BY RecordTyped, Sizes DEF IndInv, SetOwner, Rows
<1>2. rev' \in Rows /\ shown' \in Rows /\ unsaved' \subseteq Calls
  BY <1>1, RecordTyped DEF IndInv, SetOwner, Rows
<1>3. TypeOK'
  BY <1>2 DEF IndInv, TypeOK, SetOwner, feedVars
<1>4. \A d \in Calls : shown[d] <= shown'[d] /\ (shown[d] = 0 => shown'[d] = 0)
  BY <1>1 DEF SetOwner, Rows, IndInv, InOrder
<1>5. InOrder' /\ Current \subseteq Current'
  BY <1>1, <1>2, <1>4 DEF IndInv, InOrder, Current, Rows, SetOwner
<1>6. SavesCurrent'
  BY <1>1 DEF IndInv, SavesCurrent, Saving, SetOwner, Rows
<1>7. FeedCurrent'
  BY <1>4, <1>5, FeedTyped, FeedWider DEF IndInv, SetOwner
<1> QED
  BY <1>3, <1>5, <1>6, <1>7 DEF IndInv

(* Saves, and an outcome, are nothing to the browser. *)
LEMMA SilentKeeps ==
  ASSUME IndInv, SaveCallRecord \/ \E c \in Calls : SetCallOutcome(c)
  PROVE  IndInv'
<1>1. CASE SaveCallRecord
  <2>1. TypeOK'
    BY <1>1, SaveStep DEF IndInv, TypeOK, SaveCallRecord, recordVars, feedVars
  <2>2. FeedCurrent' /\ InOrder'
    BY <1>1, FeedFrame DEF IndInv, InOrder, SaveCallRecord, recordVars
  <2> QED
    BY <1>1, <2>1, <2>2, SaveStep DEF IndInv
<1>2. ASSUME NEW c \in Calls, SetCallOutcome(c) PROVE IndInv'
  <2>1. /\ SavesCurrent' /\ rev' \in Rows /\ saves' \subseteq Calls \X (1..MaxRev)
        /\ crossed' \subseteq Calls /\ stored' \in Rows /\ unsaved' \subseteq Calls
        /\ rev'[c] = rev[c] + 1 /\ rev' = [rev EXCEPT ![c] = @ + 1]
    BY <1>2, ChangeKeeps DEF SetCallOutcome, Change
  <2>2. TypeOK'
    BY <1>2, <2>1 DEF IndInv, TypeOK, SetCallOutcome, feedVars
  <2>3. FeedCurrent'
    BY <1>2, FeedFrame DEF IndInv, SetCallOutcome
  <2>4. InOrder'
    BY <1>2, <2>1, RecordTyped DEF IndInv, InOrder, SetCallOutcome, Rows
  <2> QED
    BY <2>1, <2>2, <2>3, <2>4 DEF IndInv
<1> QED
  BY <1>1, <1>2

LEMMA SnapshotKeeps ==
  ASSUME IndInv, NEW t \in Threads, TakeSnapshot(t)
  PROVE  IndInv'
<1>1. /\ todo \in [Threads -> Seq(Events)] /\ alone \subseteq Threads /\ shown \in Rows
      /\ todo[t] # <<>> /\ Head(todo[t]).type = "snapshot"
      /\ todo' = [todo EXCEPT ![t] = <<CallList>> \o Tail(@)]
      /\ UNCHANGED <<recordVars, storeVars, alone, open, queue, view, doubtful>>
  BY FeedTyped, RecordTyped DEF IndInv, TakeSnapshot, Emitting
<1>2. CallList \in Events /\ CallList = List(shown) /\ shown \in Current /\ InOrder'
  BY <1>1, EventTypes, RecordTyped DEF CallList, List, Current, IndInv, InOrder, Rows, recordVars
<1>3. todo' \in [Threads -> Seq(Events)] /\ todo'[t] # <<>>
  BY <1>1, <1>2
<1>4. TypeOK'
  BY <1>1, <1>3 DEF IndInv, TypeOK, recordVars, storeVars
<1>5. SavesCurrent'
  BY <1>1 DEF IndInv, SavesCurrent, Saving, recordVars, storeVars
<1>6. t \in alone => Settles(t)'
  <2> SUFFICES ASSUME t \in alone PROVE Settles(t)'
    OBVIOUS
  <2>1. Settles(t)
    BY <1>1 DEF IndInv, FeedCurrent, Emitting
  <2>2. \/ todo[t] = <<Snapshot>>
        \/ \E c \in Calls : told[c] # 0 /\ todo[t] = <<Snapshot, Status(c)>>
    BY <1>1, <2>1 DEF Settles, List, Status, Ended
  <2>3. CASE todo[t] = <<Snapshot>>
    <3>1. todo'[t] = <<CallList>>
      BY <1>1, <2>3
    <3> QED
      BY <1>1, <1>2, <3>1 DEF Settles, List, Current, recordVars
  <2>4. ASSUME NEW c \in Calls, told[c] # 0, todo[t] = <<Snapshot, Status(c)>>
        PROVE  Settles(t)'
    <3>1. todo'[t] = <<CallList, Status(c)>>
      <4>1. Tail(todo[t]) = <<Status(c)>>
        BY <2>4
      <4>2. todo'[t] = <<CallList>> \o <<Status(c)>>
        BY <1>1, <4>1
      <4>3. Status(c) \in Events
        BY <1>1, <2>4, EventTypes, RecordTyped, Sizes DEF Status, Rows, IndInv
      <4> QED
        BY <1>2, <4>2, <4>3, Joined
    <3> QED
      BY <1>1, <1>2, <2>4, <3>1 DEF Settles, List, Current, Status, recordVars
  <2> QED
    BY <2>2, <2>3, <2>4
<1>7. FeedCurrent'
  <2>1. IF open' THEN \E rows \in Rows : Leads(view', queue', rows) ELSE queue' = <<>>
    BY <1>1 DEF IndInv, FeedCurrent
  <2>2. ~\A u \in Threads : ~Emitting(u)'
    BY <1>3 DEF Emitting
  <2>3. ASSUME NEW u \in alone, Emitting(u)'
        PROVE  Settles(u)' /\ \A v \in Threads \ {u} : ~Emitting(v)'
    <3>1. u = t
      BY <1>1, <2>3 DEF IndInv, FeedCurrent, Emitting
    <3> QED
      BY <1>1, <1>6, <3>1 DEF IndInv, FeedCurrent, Emitting
  <2> QED
    BY <1>1, <2>1, <2>2, <2>3 DEF FeedCurrent
<1> QED
  BY <1>2, <1>4, <1>5, <1>7 DEF IndInv

(* A broadcast that is not dropped and has nobody beside it keeps the emitter's word. *)
LEMMA BroadcastKeeps ==
  ASSUME IndInv, NEW t \in Threads, Broadcast(t)
  PROVE  IndInv'
<1> DEFINE e == Head(todo[t])
<1>1. /\ todo \in [Threads -> Seq(Events)] /\ alone \subseteq Threads /\ shown \in Rows
      /\ view \in Rows /\ queue \in Seq(Events) /\ Len(queue) \in 0..Cap
      /\ todo[t] # <<>> /\ e.type # "snapshot" /\ e \in Events /\ Tail(todo[t]) \in Seq(Events)
      /\ todo' = [todo EXCEPT ![t] = Tail(@)]
      /\ alone' = IF Dropped THEN alone \ {t} ELSE alone
      /\ doubtful' = \/ t \notin alone'
                     \/ doubtful /\ (Tail(todo[t]) # <<>> \/ e.type = "ended")
      /\ queue' = IF open /\ ~Dropped THEN Append(queue, e) ELSE queue
      /\ UNCHANGED <<recordVars, storeVars, open, view>>
  BY FeedTyped, RecordTyped, QueueTyped DEF IndInv, Broadcast, Emitting, Push
<1>2. /\ todo' \in [Threads -> Seq(Events)] /\ todo'[t] = Tail(todo[t])
      /\ \A u \in Threads \ {t} : todo'[u] = todo[u]
  BY <1>1
<1> HIDE DEF e
<1>3. queue' \in Seq(Events) /\ Len(queue') \in 0..Cap
  BY <1>1, Sizes DEF Dropped
<1>4. TypeOK'
  <2>1. alone' \subseteq Threads /\ doubtful' \in BOOLEAN
    BY <1>1, FeedTyped DEF IndInv
  <2> QED
    BY <1>1, <1>2, <1>3, <2>1, Sizes DEF IndInv, TypeOK, recordVars, storeVars
<1>5. SavesCurrent'
  BY <1>1 DEF IndInv, SavesCurrent, Saving, recordVars, storeVars
<1>6. IF open' THEN \E rows \in Rows : Leads(view', queue', rows) ELSE queue' = <<>>
  <2>1. CASE open
    <3>1. PICK rows \in Rows : Leads(view, queue, rows)
      BY <2>1 DEF IndInv, FeedCurrent
    <3>2. Leads(view, Append(queue, e), Applied(rows, e)) /\ Applied(rows, e) \in Rows
      BY <1>1, <3>1, LeadsPush
    <3> QED
      BY <1>1, <2>1, <3>1, <3>2
  <2>2. CASE ~open
    BY <1>1, <2>2 DEF IndInv, FeedCurrent
  <2> QED
    BY <2>1, <2>2
<1>7. ASSUME t \in alone'
      PROVE  /\ Emitting(t)' => Settles(t)'
             /\ open /\ ~doubtful' /\ ~Emitting(t)' => WillBeCurrent'
             /\ \A u \in Threads \ {t} : ~Emitting(u)'
  <2>1. /\ t \in alone /\ ~Dropped /\ Settles(t) /\ \A u \in Threads \ {t} : ~Emitting(u)
        /\ doubtful' = (doubtful /\ (Tail(todo[t]) # <<>> \/ e.type = "ended"))
        /\ Current' = Current /\ Current \subseteq Rows
    BY <1>1, <1>7 DEF IndInv, FeedCurrent, Emitting, Current, recordVars
  <2>2. \A u \in Threads \ {t} : ~Emitting(u)'
    BY <1>2, <2>1 DEF Emitting
  <2>3. \A rows \in Rows : open /\ Leads(view, queue, rows) => Leads(view, queue', Applied(rows, e))
    BY <1>1, <2>1, LeadsPush
  <2>4. ASSUME NEW w \in Current, e = List(w), open PROVE WillBeCurrent'
    <3>1. PICK rows \in Rows : Leads(view, queue, rows)
      BY <2>4 DEF IndInv, FeedCurrent
    <3>2. Applied(rows, e) = w
      BY <2>4 DEF Applied, List
    <3> QED
      BY <1>1, <2>1, <2>3, <2>4, <3>1, <3>2 DEF WillBeCurrent
  <2>5. ASSUME NEW w \in Current, todo[t] = <<List(w)>>
        PROVE  ~Emitting(t)' /\ (open => WillBeCurrent')
    <3>1. e = List(w) /\ ~Emitting(t)'
      BY <1>2, <2>5 DEF e, Emitting
    <3> QED
      BY <2>4, <3>1
  <2>6. ASSUME NEW c \in Calls, todo[t] = <<Ended(c), Snapshot>>
        PROVE  Emitting(t)' /\ Settles(t)'
    <3>1. todo'[t] = <<Snapshot>>
      BY <1>2, <2>6
    <3> QED
      BY <3>1 DEF Emitting, Settles, Snapshot
  <2>7. ASSUME NEW c \in Calls, told[c] # 0, NEW w \in Current, todo[t] = <<List(w), Status(c)>>
        PROVE  Emitting(t)' /\ Settles(t)'
    <3>1. e = List(w) /\ todo'[t] = <<Status(c)>>
      BY <1>2, <2>7 DEF e
    <3>2. told' = told /\ open' = open /\ (open => WillBeCurrent')
      BY <1>1, <2>4, <3>1 DEF recordVars
    <3> QED
      BY <2>7, <3>1, <3>2 DEF Emitting, Settles, Status
  <2>8. ASSUME NEW c \in Calls, told[c] # 0, todo[t] = <<Status(c)>>, open => WillBeCurrent
        PROVE  ~Emitting(t)' /\ (open => WillBeCurrent')
    <3>1. e = Status(c) /\ ~Emitting(t)'
      BY <1>2, <2>8 DEF e, Emitting
    <3>2. ASSUME NEW w \in Current PROVE Applied(w, e) \in Current
      <4>1. Applied(w, e) = [w EXCEPT ![c] = told[c]] /\ w \in Rows /\ told \in Rows
        BY <3>1, RecordTyped DEF Applied, Status, Current, IndInv
      <4>2. told[c] <= told[c] /\ told[c] <= shown[c]
        BY <4>1 DEF IndInv, InOrder, Rows
      <4> QED
        BY <4>1, <4>2 DEF Current, Rows
    <3> QED
      BY <1>1, <2>1, <2>3, <2>8, <3>1, <3>2 DEF WillBeCurrent
  <2>9. ASSUME NEW c \in Calls, shown[c] = 0, todo[t] = <<Ended(c)>>,
               open /\ ~doubtful => WillBeCurrent
        PROVE  ~Emitting(t)' /\ (open /\ ~doubtful' => WillBeCurrent')
    <3>1. e = Ended(c) /\ e.type = "ended" /\ ~Emitting(t)'
      BY <1>2, <2>9 DEF e, Emitting, Ended
    <3>2. ASSUME NEW w \in Current PROVE Applied(w, e) \in Current
      <4>1. Applied(w, e) = [w EXCEPT ![c] = 0] /\ w \in Rows /\ told \in Rows
        BY <3>1, RecordTyped DEF Applied, Ended, Current, IndInv
      <4>2. told[c] = 0 /\ 0 \in 0..MaxRev
        BY <2>9, <4>1, Sizes DEF IndInv, InOrder, Rows
      <4> QED
        BY <2>9, <4>1, <4>2 DEF Current, Rows
    <3> QED
      BY <1>1, <2>1, <2>3, <2>9, <3>1, <3>2 DEF WillBeCurrent
  <2>10. Head(todo[t]).type # "snapshot"
    BY <1>1 DEF e
  <2>11. todo[t] # <<Snapshot>> /\ \A c \in Calls : todo[t] # <<Snapshot, Status(c)>>
    BY <2>10 DEF Snapshot
  <2> QED
    BY <2>1, <2>2, <2>5, <2>6, <2>7, <2>8, <2>9, <2>11 DEF Settles
<1>8. FeedCurrent'
  <2>1. ASSUME NEW u \in alone', Emitting(u)'
        PROVE  Settles(u)' /\ \A v \in Threads \ {u} : ~Emitting(v)'
    <3>1. CASE u = t
      BY <1>7, <2>1, <3>1
    <3>2. CASE u # t
      <4>1. u \in alone /\ u \in Threads
        BY <1>1
      <4>2. Emitting(u) /\ Emitting(t)
        BY <1>1, <1>2, <2>1, <3>2, <4>1 DEF Emitting
      <4> QED
        BY <3>2, <4>1, <4>2 DEF IndInv, FeedCurrent
    <3> QED
      BY <3>1, <3>2
  <2>2. open' /\ ~doubtful' /\ (\A u \in Threads : ~Emitting(u)') => WillBeCurrent'
    BY <1>1, <1>7
  <2> QED
    BY <1>6, <2>1, <2>2 DEF FeedCurrent
<1>9. InOrder'
  BY <1>1 DEF IndInv, InOrder, recordVars
<1> QED
  BY <1>4, <1>5, <1>8, <1>9 DEF IndInv

LEMMA DeliverKeeps ==
  ASSUME IndInv, Deliver
  PROVE  IndInv'
<1>1. /\ open /\ queue # <<>> /\ queue \in Seq(Events) /\ Len(queue) \in 0..Cap /\ view \in Rows
      /\ view' = Applied(view, Head(queue)) /\ queue' = Tail(queue)
      /\ UNCHANGED <<recordVars, storeVars, todo, alone, open, doubtful>>
  BY QueueTyped, FeedTyped DEF IndInv, Deliver
<1>2. queue' \in Seq(Events) /\ Len(queue') \in 0..Cap /\ view' \in Rows
  BY <1>1, Sizes, AppliedTyped
<1>3. \A rows : Leads(view, queue, rows) => Leads(view', queue', rows)
  BY <1>1, LeadsPop
<1>4. TypeOK'
  BY <1>1, <1>2, Sizes DEF IndInv, TypeOK, recordVars, storeVars
<1>5. SavesCurrent'
  BY <1>1 DEF IndInv, SavesCurrent, Saving, recordVars, storeVars
<1>6. /\ Current' = Current /\ (WillBeCurrent => WillBeCurrent') /\ InOrder'
      /\ \A t \in Threads : Settles(t) => Settles(t)'
  <2>1. Current' = Current /\ InOrder'
    BY <1>1 DEF Current, IndInv, InOrder, recordVars
  <2>2. WillBeCurrent => WillBeCurrent'
    BY <1>3, <2>1 DEF WillBeCurrent
  <2> QED
    BY <1>1, <2>1, <2>2 DEF Settles, Status, recordVars
<1>7. FeedCurrent'
  <2>1. alone \subseteq Threads
    BY FeedTyped DEF IndInv
  <2>2. \A t \in alone' : Emitting(t)' => Settles(t)' /\ \A u \in Threads \ {t} : ~Emitting(u)'
    BY <1>1, <1>6, <2>1 DEF IndInv, FeedCurrent, Emitting
  <2>3. open' => \E rows \in Rows : Leads(view', queue', rows)
    BY <1>1, <1>3 DEF IndInv, FeedCurrent
  <2>4. ~doubtful' /\ (\A t \in Threads : ~Emitting(t)') => WillBeCurrent'
    BY <1>1, <1>6 DEF IndInv, FeedCurrent, Emitting
  <2> QED
    BY <1>1, <2>2, <2>3, <2>4 DEF FeedCurrent
<1> QED
  BY <1>4, <1>5, <1>6, <1>7 DEF IndInv

LEMMA BrowserKeeps ==
  ASSUME IndInv, Subscribe \/ Unsubscribe \/ Restart
  PROVE  IndInv'
<1>1. CASE Subscribe
  <2> DEFINE p == <<[type |-> "snapshot"]>>
  <2>1. /\ ~open /\ queue = <<>> /\ open' /\ doubtful' /\ view' = [c \in Calls |-> 0]
        /\ Start(Sse, p) /\ Sse \in Threads
        /\ UNCHANGED <<recordVars, storeVars, queue>>
    BY <1>1 DEF IndInv, FeedCurrent, Subscribe, Threads
  <2>2. p \in Seq(Events) /\ p # <<>>
    BY EventTypes DEF Snapshot
  <2>3. view' \in Rows
    BY <2>1, Sizes DEF Rows
  <2>4. p = <<Snapshot'>>
    BY DEF Snapshot
  <2> HIDE DEF p
  <2>5. todo'[Sse] = p => Settles(Sse)'
    BY <2>4 DEF Settles
  <2>6. \E rows \in Rows : Leads(view', queue', rows)
    BY <2>1, <2>3, LeadsNowhere
  <2>7. FeedCurrent'
    BY <2>1, <2>2, <2>5, <2>6, StartKeeps
  <2>8. TypeOK'
    BY <1>1, <2>1, <2>2, <2>3, StartTyped DEF IndInv, TypeOK, Subscribe, recordVars, storeVars
  <2>9. SavesCurrent'
    BY <2>1 DEF IndInv, SavesCurrent, Saving, recordVars, storeVars
  <2>10. InOrder'
    BY <2>1 DEF IndInv, InOrder, recordVars
  <2> QED
    BY <2>7, <2>8, <2>9, <2>10 DEF IndInv
<1>2. CASE Unsubscribe
  <2>1. TypeOK'
    BY <1>2, NothingTyped DEF IndInv, TypeOK, Unsubscribe, recordVars, storeVars
  <2>2. SavesCurrent' /\ InOrder'
    BY <1>2 DEF IndInv, SavesCurrent, Saving, InOrder, Unsubscribe, recordVars, storeVars
  <2>3. alone' = alone /\ alone \subseteq Threads /\ todo' = todo /\ ~open' /\ queue' = <<>>
        /\ UNCHANGED <<shown, told>>
    BY <1>2, FeedTyped DEF IndInv, Unsubscribe, recordVars
  <2>4. Current' = Current
    BY <2>3 DEF Current
  <2>5. \A t \in Threads : Settles(t) => Settles(t)'
    BY <2>3, <2>4 DEF Settles, Status
  <2>6. FeedCurrent'
    BY <2>3, <2>5 DEF IndInv, FeedCurrent, Emitting
  <2> QED
    BY <2>1, <2>2, <2>6 DEF IndInv
<1>3. CASE Restart
  <2>1. shown' \in Rows /\ todo' \in [Threads -> Seq(Events)]
    BY <1>3, Sizes DEF Restart, Rows
  <2>2. TypeOK'
    BY <1>3, <2>1, NothingTyped DEF IndInv, TypeOK, Restart
  <2>3. SavesCurrent' /\ FeedCurrent' /\ InOrder'
    BY <1>3, RecordTyped DEF IndInv, Restart, SavesCurrent, Saving, FeedCurrent, InOrder, Rows
  <2> QED
    BY <2>2, <2>3 DEF IndInv
<1> QED
  BY <1>1, <1>2, <1>3

LEMMA StepInv == IndInv /\ [Next]_vars => IndInv'
<1> SUFFICES ASSUME IndInv, [Next]_vars PROVE IndInv'
  OBVIOUS
<1>1. CASE UNCHANGED vars
  <2>1. TypeOK'
    BY <1>1 DEF IndInv, TypeOK, vars, recordVars, storeVars, feedVars
  <2>2. SavesCurrent'
    BY <1>1 DEF IndInv, SavesCurrent, Saving, vars, recordVars, storeVars
  <2>3. FeedCurrent' /\ InOrder'
    BY <1>1, FeedFrame DEF IndInv, InOrder, vars, recordVars
  <2> QED
    BY <2>1, <2>2, <2>3 DEF IndInv
<1>2. CASE Next
  BY <1>2, SilentKeeps, SnapshotKeeps, BroadcastKeeps, UpsertKeeps, EndKeeps, OwnerKeeps,
     EventKeeps, DeliverKeeps, BrowserKeeps DEF Next
<1> QED
  BY <1>1, <1>2

LEMMA InitInv == Init => IndInv
<1> SUFFICES ASSUME Init PROVE IndInv
  OBVIOUS
<1>1. rev \in Rows /\ todo \in [Threads -> Seq(Events)]
  BY Sizes DEF Init, Rows
<1>2. TypeOK
  BY <1>1, NothingTyped DEF Init, TypeOK
<1>3. SavesCurrent /\ FeedCurrent /\ InOrder
  BY Sizes DEF Init, SavesCurrent, Saving, FeedCurrent, InOrder
<1> QED
  BY <1>2, <1>3 DEF IndInv

(* Every variable keeps its type. *)
THEOREM TypeCorrect == Spec => []TypeOK
<1>1. IndInv => TypeOK
  BY DEF IndInv
<1> QED
  BY InitInv, StepInv, <1>1, PTL DEF Spec

(* A browser that has taken all it was sent shows exactly the calls that go on, as their  *)
(* last upsert left them or with the owner set since, wherever emitters did not meet and   *)
(* its channel was not full.                                                      *)
THEOREM RowsCurrent == Spec => []ViewCurrent
<1>1. IndInv => ViewCurrent
  <2> SUFFICES ASSUME IndInv, open, queue = <<>>, \A t \in Threads : ~Emitting(t), ~doubtful
               PROVE  view \in Current
    BY DEF ViewCurrent
  <2>1. PICK w \in Current : Leads(view, <<>>, w)
    BY DEF IndInv, FeedCurrent, WillBeCurrent
  <2>2. view = w
    BY <2>1 DEF Leads
  <2> QED
    BY <2>2
<1> QED
  BY InitInv, StepInv, <1>1, PTL DEF Spec

(* What the history shows of a call is its record as it was last changed, once nothing of  *)
(* it is being saved, wherever saves did not cross, the last one did not fail, and no      *)
(* owner was set after it.                                                        *)
THEOREM HistoryCurrent == Spec => []StoredCurrent
<1>1. IndInv => StoredCurrent
  BY RecordTyped DEF IndInv, SavesCurrent, StoredCurrent, HistoryRows, Rows
<1> QED
  BY InitInv, StepInv, <1>1, PTL DEF Spec
=============================================================================

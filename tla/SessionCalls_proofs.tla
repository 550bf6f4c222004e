-------------------------- MODULE SessionCalls_proofs --------------------------
(***************************************************************************)
(* Proofs about SessionCalls, for any number of requests, peers and goroutines     *)
(* that hang up, and any limit: IndInv is inductive.                             *)
(***************************************************************************)
EXTENDS SessionCalls, FiniteSetTheorems, TLAPS

(* The constants. *)
LEMMA Sizes ==
  /\ MaxCalls \in Nat /\ MaxCalls >= 1 /\ MaxDialled \in Nat
  /\ IsFiniteSet(Peers) /\ Cardinality(Peers) \in Nat
  /\ IsFiniteSet(Testers) /\ Cardinality(Testers) \in Nat
<1>1. IsFiniteSet({"event"}) /\ IsFiniteSet(Requests) /\ IsFiniteSet(Peers)
  BY FS_Singleton, SessionAssumption
<1>2. IsFiniteSet(Testers)
  BY <1>1, FS_Union DEF Testers
<1> QED
  BY <1>1, <1>2, FS_CardinalityType, SessionAssumption

LEMMA Apart ==
  /\ \A h \in Hangups : h \notin Dialers /\ h # "event" /\ h \in Threads /\ h \notin Peers
  /\ \A d \in Dialers : d # "event" /\ d \in Threads
  /\ "event" \in Threads /\ "event" \notin Peers /\ "event" \notin Hangups
  /\ Peers \subseteq Dialers /\ Requests \subseteq Dialers
  /\ \A t \in Threads : t \in Dialers \/ t \in Hangups \/ t = "event"
BY SessionAssumption DEF Threads, Dialers

LEMMA Numbers ==
  /\ \A m \in Managers : m \in Nat /\ m # NoManager
  /\ \A k \in Nat : k >= 1 /\ k <= MaxDialled + Cardinality(Peers) => k \in Managers
BY Sizes DEF Managers, NoManager

(* The type invariant in parts. *)
LEMMA ManagerTyped ==
  TypeOK => /\ made \in Nat /\ dials \in 0..MaxDialled
            /\ made \in Managers \cup {0} /\ 1..made \subseteq Managers
            /\ kind \in [Managers -> {"none", "api", "callback", "offer"}]
            /\ peer \in [Managers -> Peers \cup {NoManager}]
            /\ phase \in [Managers -> Phases]
<1> SUFFICES ASSUME TypeOK
             PROVE  made \in Nat /\ 1..made \subseteq Managers
  BY DEF TypeOK
<1> QED
  BY Sizes DEF TypeOK, Managers

LEMMA RegTyped ==
  TypeOK => reg \subseteq 1..made /\ dropped \subseteq 1..made /\ crashed \in BOOLEAN
BY DEF TypeOK

LEMMA ThreadTyped ==
  TypeOK => /\ pc \in [Threads -> Labels] /\ mine \in [Threads -> Managers \cup {NoManager}]
            /\ jobs \in [Hangups -> SUBSET Managers]
            /\ recent \subseteq Peers /\ due \subseteq Peers
BY DEF TypeOK

(* A thread's step moves that thread alone. *)
LEMMA Moved ==
  ASSUME TypeOK, NEW t \in Threads, NEW l \in Labels, Goto(t, l)
  PROVE  /\ pc' \in [Threads -> Labels] /\ mine' \in [Threads -> Managers \cup {NoManager}]
         /\ pc' = [pc EXCEPT ![t] = l]
         /\ pc'[t] = l /\ mine'[t] = (IF l = "idle" THEN NoManager ELSE mine[t])
         /\ \A u \in Threads \ {t} : pc'[u] = pc[u] /\ mine'[u] = mine[u]
BY ThreadTyped DEF Goto

LEMMA Taken ==
  ASSUME TypeOK, NEW t \in Threads, NEW l \in Labels, NEW m \in Managers, Take(t, l, m)
  PROVE  /\ pc' \in [Threads -> Labels] /\ mine' \in [Threads -> Managers \cup {NoManager}]
         /\ pc' = [pc EXCEPT ![t] = l]
         /\ pc'[t] = l /\ mine'[t] = m
         /\ \A u \in Threads \ {t} : pc'[u] = pc[u] /\ mine'[u] = mine[u]
BY ThreadTyped DEF Take

(* The states of a call, and those it does not have yet or any more. *)
LEMMA PhasesApart ==
  /\ Talking \subseteq Phases /\ {"none", "fresh", "ended"} \subseteq Phases
  /\ {"connecting", "active", "initiating", "ringing", "incoming_ringing"} = Talking
  /\ \A x \in Talking : x \notin {"none", "fresh", "ended"}
BY DEF Phases, Talking

(* Steps that set no call up. *)
LEMMA OwnKept ==
  ASSUME ThreadsOwn, made' = made, TypeOK,
         \A t \in Threads :
           \/ pc'[t] = pc[t] /\ mine'[t] = mine[t]
           \/ pc'[t] \in {"idle", "sleep", "create", "drained"}
           \/ pc'[t] \in {"end", "reject", "remove"} /\ mine'[t] \in 1..made,
         \A m \in Managers : /\ phase'[m] = "fresh" <=> phase[m] = "fresh"
                             /\ phase[m] \in Unanswered => phase'[m] \in Unanswered,
         \A h \in Hangups : jobs'[h] \subseteq 1..made /\ (pc'[h] = "idle" => jobs'[h] = {})
  PROVE  ThreadsOwn'
<1>1. \A t \in Threads : mine[t] \in 1..made => mine[t] \in Managers
  BY ManagerTyped
<1> QED
  BY <1>1 DEF ThreadsOwn, Setting

(* Who is past his debounce. *)
LEMMA CalledKept ==
  ASSUME CalledOnce, UNCHANGED <<recent, made, dials>>, recent \subseteq Peers,
         \A p \in Peers : pc'[p] = pc[p]
  PROVE  CalledOnce'
<1>1. Called' = Called
  BY DEF Called
<1> QED
  BY <1>1 DEF CalledOnce

LEMMA CalledCount ==
  ASSUME TypeOK
  PROVE  IsFiniteSet(Called) /\ Cardinality(Called) \in Nat /\ Cardinality(Called) <= Cardinality(Peers)
<1>1. Called \subseteq Peers
  BY ThreadTyped DEF Called
<1> QED
  BY <1>1, Sizes, FS_Subset, FS_CardinalityType

(* A callback that is scheduled is new, and its goroutine was not running. *)
LEMMA Scheduled ==
  ASSUME TypeOK, CalledOnce, NEW p \in Peers, NEW moved \in [Threads -> Labels],
         \A q \in Peers : moved[q] = pc[q], ScheduleAutoCallback(p, moved),
         UNCHANGED <<made, dials>>
  PROVE  /\ pc' \in [Threads -> Labels] /\ recent' \subseteq Peers /\ due' \subseteq Peers
         /\ \A t \in Threads : pc'[t] = moved[t] \/ (t \in Peers /\ pc[t] = "idle" /\ pc'[t] = "sleep")
         /\ CalledOnce'
<1>1. pc \in [Threads -> Labels] /\ recent \subseteq Peers /\ due \subseteq Peers /\ p \in Threads
  BY ThreadTyped, Apart
<1>2. CASE p \in recent
  <2>1. pc' = moved /\ UNCHANGED <<recent, due>>
    BY <1>2 DEF ScheduleAutoCallback, callbackVars
  <2>2. CalledOnce'
    BY <1>1, <2>1, CalledKept
  <2> QED
    BY <1>1, <2>1, <2>2
<1>3. CASE p \notin recent
  <2>1. /\ pc' = [moved EXCEPT ![p] = "sleep"] /\ recent' = recent \cup {p} /\ due' = due \cup {p}
        /\ pc[p] = "idle"
    BY <1>3 DEF ScheduleAutoCallback, CalledOnce
  <2>2. pc'[p] = "sleep" /\ \A t \in Threads \ {p} : pc'[t] = moved[t]
    BY <1>1, <2>1
  <2>3. \A q \in Peers \ {p} : pc'[q] = pc[q]
    BY <2>2, Apart
  <2>4. Called' = Called
    BY <1>1, <1>3, <2>1, <2>2, <2>3 DEF Called
  <2>5. CalledOnce'
    BY <2>1, <2>3, <2>4 DEF CalledOnce
  <2> QED
    BY <1>1, <2>1, <2>2, <2>5 DEF Labels
<1> QED
  BY <1>2, <1>3

(* The invariant without the limit. *)
Sound == TypeOK /\ ThreadsOwn /\ ManagersMade /\ HungUp /\ AllReachable /\ CalledOnce

(* A manager that is new: nobody has it but its maker. *)
LEMMA CreateStep ==
  ASSUME Sound, NEW d \in Dialers \cup {"event"}, NEW k \in {"api", "callback", "offer"}, NEW p \in Peers,
         NEW l \in Setting, pc[d] = "create", k = "callback" <=> d \in Peers,
         CreateCall(k, p), Take(d, l, made + 1), due' \subseteq Peers,
         UNCHANGED <<jobs, recent, crashed, dropped>>
  PROVE  Sound'
<1>1. /\ d \in Threads /\ d \notin Hangups /\ l \in Labels /\ pc \in [Threads -> Labels]
      /\ recent \subseteq Peers
  BY Apart, ThreadTyped DEF Sound, Setting, Labels
<1>2. /\ dials' \in 0..MaxDialled /\ made' = made + 1 /\ made \in Nat
      /\ dials' = IF k = "callback" THEN dials ELSE dials + 1
      /\ dials \in 0..MaxDialled
  BY ManagerTyped, Sizes DEF CreateCall, Sound
<1>3. /\ CalledOnce' /\ made + 1 \in Managers
  <2>1. /\ made <= dials + Cardinality(Called) /\ IsFiniteSet(Called)
        /\ Cardinality(Called) \in Nat
    BY CalledCount DEF Sound, CalledOnce
  <2>2. /\ pc' = [pc EXCEPT ![d] = l] /\ recent' = recent /\ l \notin {"sleep", "create"}
    BY DEF Take, Setting
  <2>3. CASE d \in Peers
    <3>1. d \in recent /\ d \notin Called
      BY <2>3 DEF Sound, CalledOnce, Called
    <3>2. Called' = Called \cup {d}
      BY <1>1, <2>2, <3>1 DEF Called
    <3>3. Cardinality(Called') = Cardinality(Called) + 1
      BY <2>1, <3>1, <3>2, FS_AddElement
    <3>4. Called' \subseteq Peers
      BY <1>1, <2>2 DEF Called
    <3>5. Cardinality(Called') <= Cardinality(Peers)
      BY <3>4, Sizes, FS_Subset
    <3>6. \A q \in Peers : q \notin recent' => pc'[q] = "idle"
      BY <1>1, <2>2, <3>1 DEF Sound, CalledOnce
    <3>7. dials' = dials
      BY <1>2, <2>3
    <3>8. made + 1 <= dials + Cardinality(Called) + 1
      BY <1>2, <2>1
    <3>9. CalledOnce'
      BY <1>2, <2>1, <3>3, <3>6, <3>7, <3>8 DEF CalledOnce
    <3>10. made + 1 <= MaxDialled + Cardinality(Peers)
      BY <1>2, <2>1, <3>3, <3>5, <3>8, Sizes
    <3> QED
      BY <1>2, <3>9, <3>10, Numbers
  <2>4. CASE d \notin Peers
    <3>1. \A q \in Peers : pc'[q] = pc[q]
      BY <1>1, <2>2, <2>4, Apart
    <3>2. Called' = Called
      BY <1>1, <2>2, <3>1 DEF Called
    <3>3. dials' = dials + 1
      BY <1>2, <2>4
    <3>4. CalledOnce'
      BY <1>2, <2>1, <2>2, <3>1, <3>2, <3>3 DEF Sound, CalledOnce
    <3>5. Cardinality(Called) <= Cardinality(Peers)
      BY CalledCount DEF Sound
    <3>6. made + 1 <= MaxDialled + Cardinality(Peers)
      BY <1>2, <2>1, <3>3, <3>5, Sizes
    <3> QED
      BY <1>2, <3>4, <3>6, Numbers
  <2> QED
    BY <2>3, <2>4
<1>4. /\ pc' \in [Threads -> Labels] /\ mine' \in [Threads -> Managers \cup {NoManager}]
      /\ pc'[d] = l /\ mine'[d] = made + 1
      /\ \A u \in Threads \ {d} : pc'[u] = pc[u] /\ mine'[u] = mine[u]
  BY <1>1, <1>3, Taken DEF Sound
<1>5. /\ kind' = [kind EXCEPT ![made + 1] = k] /\ peer' = [peer EXCEPT ![made + 1] = p]
      /\ phase' = [phase EXCEPT ![made + 1] = "fresh"] /\ reg' = reg \cup {made + 1}
  BY DEF CreateCall
<1>6. /\ kind' \in [Managers -> {"none", "api", "callback", "offer"}]
      /\ peer' \in [Managers -> Peers \cup {NoManager}]
      /\ phase' \in [Managers -> Phases]
      /\ phase'[made + 1] = "fresh" /\ peer'[made + 1] = p
      /\ \A m \in Managers \ {made + 1} : /\ phase'[m] = phase[m] /\ kind'[m] = kind[m]
                                        /\ peer'[m] = peer[m]
  BY <1>3, <1>5, ManagerTyped, PhasesApart DEF Sound
<1>7. 1..made \subseteq 1..made' /\ made + 1 \in 1..made' /\ made + 1 \notin 1..made
      /\ \A m \in Managers : m > made' => m > made /\ m # made + 1
  BY <1>2, Numbers
<1>8. TypeOK'
  <2>1. reg' \subseteq 1..made' /\ dropped' \subseteq 1..made'
    BY <1>5, <1>7, RegTyped DEF Sound
  <2> QED
    BY <1>2, <1>3, <1>4, <1>6, <2>1 DEF Sound, TypeOK
<1>9. ThreadsOwn'
  <2>1. \A u \in Threads : mine[u] \in 1..made => mine[u] \in Managers /\ mine[u] # made + 1
    BY <1>7, ManagerTyped DEF Sound
  <2>2. jobs' = jobs /\ \A h \in Hangups : pc'[h] = pc[h]
    BY <1>1, <1>4, Apart
  <2>3. \A t \in Threads :
          /\ pc'[t] \in Setting => mine'[t] \in 1..made' /\ phase'[mine'[t]] = "fresh"
          /\ pc'[t] = "query" => mine'[t] \in 1..made' /\ phase'[mine'[t]] \in Unanswered
          /\ pc'[t] \in {"end", "reject", "remove"} => mine'[t] \in 1..made'
    <3> SUFFICES ASSUME NEW t \in Threads
                 PROVE  /\ pc'[t] \in Setting => mine'[t] \in 1..made' /\ phase'[mine'[t]] = "fresh"
                        /\ pc'[t] = "query" => mine'[t] \in 1..made' /\ phase'[mine'[t]] \in Unanswered
                        /\ pc'[t] \in {"end", "reject", "remove"} => mine'[t] \in 1..made'
      OBVIOUS
    <3>1. CASE t = d
      BY <1>4, <1>6, <1>7, <3>1 DEF Setting
    <3>2. CASE t # d
      BY <1>4, <1>6, <1>7, <2>1, <3>2 DEF Sound, ThreadsOwn
    <3> QED
      BY <3>1, <3>2
  <2>4. \A t, u \in Threads :
          t # u /\ pc'[t] \in Setting \cup {"query"} /\ pc'[u] \in Setting \cup {"query"} => mine'[t] # mine'[u]
    BY <1>4, <2>1 DEF Sound, ThreadsOwn
  <2> QED
    BY <1>7, <2>2, <2>3, <2>4 DEF Sound, ThreadsOwn
<1>10. ManagersMade'
  BY <1>6, <1>7 DEF Sound, ManagersMade
<1>11. HungUp'
  <2>1. \A h \in Hangups : /\ h \in Threads \ {d}
                           /\ pc[h] = "remove" => mine[h] \in Managers \ {made + 1}
    BY <1>1, <1>7, Apart, ManagerTyped DEF Sound, ThreadsOwn
  <2> QED
    BY <1>4, <1>6, <2>1 DEF Sound, HungUp
<1>12. AllReachable'
  <2>1. \A m \in Managers : Holding(m) => Holding(m)'
    BY <1>1, <1>4, Apart DEF Holding
  <2> QED
    BY <1>5, <1>6, <2>1 DEF Sound, AllReachable
<1> QED
  BY <1>3, <1>8, <1>9, <1>10, <1>11, <1>12 DEF Sound

(* StartCall, the record of its offer and HandleCallOffer: the call is there, and rings. *)
LEMMA RingStep ==
  ASSUME Sound, NEW d \in Dialers \cup {"event"}, NEW l \in {"idle", "query"}, NEW x \in Talking,
         pc[d] \in Setting \/ (pc[d] = "query" /\ l = "idle" /\ Live(mine[d])),
         l = "query" => x = "initiating",
         phase' = [phase EXCEPT ![mine[d]] = x], Goto(d, l),
         UNCHANGED <<made, dials, kind, peer, reg, jobs, callbackVars, dropped>>, crashed' \in BOOLEAN
  PROVE  Sound'
<1>1. /\ d \in Threads /\ d \notin Hangups /\ l \in Labels /\ mine[d] \in 1..made
      /\ mine[d] \in Managers /\ phase[mine[d]] \in Talking \cup {"fresh"}
      /\ pc[d] \in Setting \cup {"query"}
  BY Apart, ManagerTyped DEF Sound, ThreadsOwn, Labels, Live
<1>2. /\ pc' \in [Threads -> Labels] /\ mine' \in [Threads -> Managers \cup {NoManager}]
      /\ pc'[d] = l /\ mine'[d] = (IF l = "idle" THEN NoManager ELSE mine[d])
      /\ \A u \in Threads \ {d} : pc'[u] = pc[u] /\ mine'[u] = mine[u]
  BY <1>1, Moved DEF Sound
<1>3. /\ phase' \in [Managers -> Phases]
      /\ phase'[mine[d]] = x /\ \A m \in Managers \ {mine[d]} : phase'[m] = phase[m]
  BY <1>1, ManagerTyped, PhasesApart DEF Sound
<1>4. TypeOK'
  BY <1>2, <1>3 DEF Sound, TypeOK, callbackVars
<1>5. ThreadsOwn'
  <2>1. \A u \in Threads \ {d} : /\ mine[u] \in 1..made => mine[u] \in Managers
                                 /\ pc[u] \in Setting => mine[u] # mine[d]
    BY <1>1, ManagerTyped, PhasesApart DEF Sound, ThreadsOwn, Live
  <2>2. \A t \in Threads :
          /\ pc'[t] \in Setting => mine'[t] \in 1..made /\ phase'[mine'[t]] = "fresh"
          /\ pc'[t] = "query" => mine'[t] \in 1..made /\ phase'[mine'[t]] \in Unanswered
          /\ pc'[t] \in {"end", "reject", "remove"} => mine'[t] \in 1..made
    <3> SUFFICES ASSUME NEW t \in Threads
                 PROVE  /\ pc'[t] \in Setting => mine'[t] \in 1..made /\ phase'[mine'[t]] = "fresh"
                        /\ pc'[t] = "query" => mine'[t] \in 1..made /\ phase'[mine'[t]] \in Unanswered
                        /\ pc'[t] \in {"end", "reject", "remove"} => mine'[t] \in 1..made
      OBVIOUS
    <3>1. CASE t = d
      BY <1>1, <1>2, <1>3, <3>1, PhasesApart DEF Setting, Unanswered
    <3>2. CASE t # d
      BY <1>1, <1>2, <1>3, <2>1, <3>2, PhasesApart DEF Sound, ThreadsOwn, Setting
    <3> QED
      BY <3>1, <3>2
  <2>3. \A t, u \in Threads :
          t # u /\ pc'[t] \in Setting \cup {"query"} /\ pc'[u] \in Setting \cup {"query"} => mine'[t] # mine'[u]
    BY <1>2 DEF Sound, ThreadsOwn, Setting
  <2>4. \A h \in Hangups : pc'[h] = pc[h]
    BY <1>1, <1>2, Apart
  <2> QED
    BY <2>2, <2>3, <2>4 DEF Sound, ThreadsOwn
<1>6. ManagersMade'
  <2>1. ~(mine[d] > made)
    BY <1>1, ManagerTyped DEF Sound
  <2> QED
    BY <1>3, <2>1 DEF Sound, ManagersMade
<1>7. HungUp'
  <2>1. \A h \in Hangups : h \in Threads \ {d} /\ (pc[h] = "remove" => mine[h] \in Managers)
    BY <1>1, Apart, ManagerTyped DEF Sound, ThreadsOwn
  <2> QED
    BY <1>1, <1>2, <1>3, <2>1, PhasesApart DEF Sound, HungUp
<1>8. AllReachable'
  <2>1. \A m \in Managers : Holding(m) => Holding(m)'
    BY <1>1, <1>2, Apart DEF Holding
  <2> QED
    BY <1>1, <1>3, <2>1 DEF Sound, AllReachable
<1>9. CalledOnce'
  <2>1. \A p \in Peers : pc[p] \notin {"sleep", "create"} <=> pc'[p] \notin {"sleep", "create"}
    BY <1>1, <1>2, Apart DEF Setting
  <2>2. Called' = Called
    BY <2>1, ThreadTyped DEF Sound, Called, callbackVars
  <2>3. \A p \in Peers : p \notin recent => pc'[p] = "idle"
    BY <1>2, Apart DEF Sound, CalledOnce, Setting
  <2> QED
    BY <2>2, <2>3 DEF Sound, CalledOnce, callbackVars
<1> QED
  BY <1>4, <1>5, <1>6, <1>7, <1>8, <1>9 DEF Sound

(* The answer, and the media. *)
LEMMA TalkStep ==
  ASSUME Sound, NEW n \in Managers, Accept(n) \/ MediaConnect(n)
  PROVE  Sound'
<1>1. /\ phase[n] \in Talking \ Unanswered /\ \E x \in {"connecting", "active"} : phase' = [phase EXCEPT ![n] = x]
      /\ UNCHANGED <<made, dials, kind, peer, reg, threadVars, callbackVars, crashed, dropped>>
  BY DEF Accept, MediaConnect, Talking, Unanswered
<1>2. /\ phase' \in [Managers -> Phases]
      /\ phase'[n] \in {"connecting", "active"} /\ \A m \in Managers \ {n} : phase'[m] = phase[m]
  BY <1>1, ManagerTyped, PhasesApart DEF Sound
<1>3. TypeOK'
  BY <1>1, <1>2 DEF Sound, TypeOK, threadVars, callbackVars
<1>4. ThreadsOwn'
  BY <1>1, <1>2, OwnKept DEF Sound, ThreadsOwn, Talking, Unanswered, threadVars
<1>5. ManagersMade' /\ HungUp'
  <2>1. \A h \in Hangups : pc[h] = "remove" => mine[h] \in Managers
    BY Apart, ManagerTyped DEF Sound, ThreadsOwn
  <2> QED
    BY <1>1, <1>2, <2>1 DEF Sound, ManagersMade, HungUp, Talking, threadVars
<1>6. AllReachable'
  BY <1>1, <1>2 DEF Sound, AllReachable, Holding, Talking, threadVars
<1>7. CalledOnce'
  BY <1>1, CalledKept, ThreadTyped DEF Sound, threadVars, callbackVars
<1> QED
  BY <1>3, <1>4, <1>5, <1>6, <1>7 DEF Sound

(* What the end of a call does to the managers. *)
LEMMA Ending ==
  ASSUME TypeOK, ManagersMade, NEW n \in Managers, End(n), made' = made
  PROVE  /\ phase' \in [Managers -> Phases]
         /\ kind' \in [Managers -> {"none", "api", "callback", "offer"}]
         /\ peer' \in [Managers -> Peers \cup {NoManager}]
         /\ phase'[n] = "ended" /\ \A m \in Managers \ {n} : phase'[m] = phase[m]
         /\ kind'[n] = "none" /\ \A m \in Managers \ {n} : kind'[m] = kind[m] /\ peer'[m] = peer[m]
         /\ dropped' = dropped \ {n} /\ dropped' \subseteq 1..made
BY ManagerTyped, RegTyped, PhasesApart DEF End

LEMMA RefusedStep ==
  ASSUME Sound, NEW n \in Managers, OfferAckError(n)
  PROVE  Sound'
<1>1. /\ End(n) /\ reg' = reg \ {n} /\ phase[n] = "ringing"
      /\ UNCHANGED <<made, dials, threadVars, callbackVars, crashed>>
  BY DEF OfferAckError
<1>2. /\ phase' \in [Managers -> Phases]
      /\ kind' \in [Managers -> {"none", "api", "callback", "offer"}]
      /\ peer' \in [Managers -> Peers \cup {NoManager}]
      /\ phase'[n] = "ended" /\ \A m \in Managers \ {n} : phase'[m] = phase[m]
      /\ kind'[n] = "none" /\ \A m \in Managers \ {n} : kind'[m] = kind[m] /\ peer'[m] = peer[m]
      /\ dropped' = dropped \ {n} /\ dropped' \subseteq 1..made
  BY <1>1, Ending DEF Sound
<1>3. TypeOK'
  BY <1>1, <1>2, RegTyped DEF Sound, TypeOK, threadVars, callbackVars
<1>4. ThreadsOwn'
  BY <1>1, <1>2, OwnKept DEF Sound, ThreadsOwn, Unanswered, threadVars
<1>5. n <= made
  BY <1>1, ManagerTyped, Numbers DEF Sound, ManagersMade
<1>6. ManagersMade' /\ HungUp'
  <2>1. \A h \in Hangups : pc[h] = "remove" => mine[h] \in Managers
    BY Apart, ManagerTyped DEF Sound, ThreadsOwn
  <2>2. ~(n > made)
    BY <1>5, ManagerTyped, Numbers DEF Sound
  <2> QED
    BY <1>1, <1>2, <2>1, <2>2 DEF Sound, ManagersMade, HungUp, threadVars
<1>7. AllReachable'
  BY <1>1, <1>2 DEF Sound, AllReachable, Holding, Talking, threadVars
<1>8. CalledOnce'
  BY <1>1, CalledKept, ThreadTyped DEF Sound, threadVars, callbackVars
<1> QED
  BY <1>3, <1>4, <1>6, <1>7, <1>8 DEF Sound

(* The end of a call that is told, by the goroutine of an event or of a hang-up. *)
LEMMA ToldStep ==
  ASSUME Sound, NEW n \in Managers, Live(n), NEW moved \in [Threads -> Labels], EndAndTell(n, moved),
         \/ moved = pc
         \/ \E h \in Hangups : mine[h] = n /\ moved = [pc EXCEPT ![h] = "remove"],
         UNCHANGED <<made, dials, mine, jobs, crashed>>
  PROVE  Sound'
<1>1. /\ End(n) /\ reg' = reg \ {n} /\ phase[n] \in Talking
  BY DEF EndAndTell, Live
<1>2. /\ phase' \in [Managers -> Phases]
      /\ kind' \in [Managers -> {"none", "api", "callback", "offer"}]
      /\ peer' \in [Managers -> Peers \cup {NoManager}]
      /\ phase'[n] = "ended" /\ \A m \in Managers \ {n} : phase'[m] = phase[m]
      /\ kind'[n] = "none" /\ \A m \in Managers \ {n} : kind'[m] = kind[m] /\ peer'[m] = peer[m]
      /\ dropped' = dropped \ {n} /\ dropped' \subseteq 1..made
  BY <1>1, Ending DEF Sound
<1>3. n \in 1..made
  <2>1. ~(n > made) /\ n \in Nat /\ n >= 1
    BY <1>1, Numbers DEF Sound, ManagersMade, Talking, Managers
  <2> QED
    BY <2>1, ManagerTyped DEF Sound
<1>4. /\ pc \in [Threads -> Labels] /\ \A q \in Peers : moved[q] = pc[q]
      /\ \A t \in Threads : \/ moved[t] = pc[t]
                            \/ t \in Hangups /\ moved[t] = "remove" /\ mine[t] = n
  BY ThreadTyped, Apart DEF Sound
<1>5. /\ pc' \in [Threads -> Labels] /\ recent' \subseteq Peers /\ due' \subseteq Peers
      /\ \A t \in Threads : \/ pc'[t] = moved[t]
                            \/ t \in Peers /\ pc[t] = "idle" /\ pc'[t] = "sleep"
      /\ CalledOnce'
  <2>1. CASE ScheduleAutoCallback(peer[n], moved) /\ TRUE \in Missed(n)
    <3>1. peer[n] \in Peers
      BY <2>1 DEF Sound, ManagersMade, Missed
    <3> QED
      BY <1>4, <2>1, <3>1, Scheduled DEF Sound
  <2>2. CASE pc' = moved /\ UNCHANGED callbackVars
    <3>1. CalledOnce'
      BY <1>4, <2>2, CalledKept, ThreadTyped DEF Sound, callbackVars
    <3> QED
      BY <2>2, <3>1, ThreadTyped DEF Sound, callbackVars
  <2> QED
    BY <2>1, <2>2 DEF EndAndTell
<1>6. TypeOK'
  BY <1>1, <1>2, <1>5, RegTyped DEF Sound, TypeOK
<1>7. ThreadsOwn'
  <2>1. \A t \in Threads :
          \/ pc'[t] = pc[t] /\ mine'[t] = mine[t]
          \/ pc'[t] \in {"idle", "sleep", "create", "drained"}
          \/ pc'[t] \in {"end", "reject", "remove"} /\ mine'[t] \in 1..made
    BY <1>3, <1>4, <1>5
  <2>2. \A m \in Managers : /\ phase'[m] = "fresh" <=> phase[m] = "fresh"
                            /\ phase[m] \in Unanswered => phase'[m] \in Unanswered
    BY <1>1, <1>2, PhasesApart DEF Unanswered
  <2>3. \A h \in Hangups : jobs'[h] \subseteq 1..made /\ (pc'[h] = "idle" => jobs'[h] = {})
    BY <1>4, <1>5, Apart DEF Sound, ThreadsOwn
  <2> QED
    BY <2>1, <2>2, <2>3, OwnKept DEF Sound
<1>8. ManagersMade'
  <2>1. ~(n > made)
    BY <1>3, ManagerTyped DEF Sound
  <2> QED
    BY <1>2, <2>1 DEF Sound, ManagersMade
<1>9. HungUp'
  <2> SUFFICES ASSUME NEW h \in Hangups, pc'[h] = "remove"
               PROVE  phase'[mine[h]] \in {"none", "ended"} \/ mine[h] \in dropped'
    BY DEF HungUp
  <2>1. pc[h] = "remove" \/ mine[h] = n
    BY <1>4, <1>5, Apart
  <2>2. pc[h] = "remove" => mine[h] \in Managers
    BY Apart, ManagerTyped DEF Sound, ThreadsOwn
  <2> QED
    BY <1>2, <2>1, <2>2 DEF Sound, HungUp
<1>10. AllReachable'
  <2>1. ASSUME NEW m \in Managers \ {n}, Holding(m) PROVE Holding(m)'
    BY <1>4, <1>5, <2>1, Apart DEF Holding
  <2> QED
    BY <1>1, <1>2, <2>1 DEF Sound, AllReachable, Talking
<1> QED
  BY <1>5, <1>6, <1>7, <1>8, <1>9, <1>10 DEF Sound

LEMMA TerminateStep ==
  ASSUME Sound, HandleCallTerminate
  PROVE  Sound'
<1>1. PICK n \in reg : Live(n) /\ EndAndTell(n, pc)
  BY DEF HandleCallTerminate
<1>2. n \in Managers /\ pc \in [Threads -> Labels]
  BY <1>1, RegTyped, ManagerTyped, ThreadTyped DEF Sound
<1> QED
  BY <1>1, <1>2, ToldStep DEF HandleCallTerminate

LEMMA EndCallStep ==
  ASSUME Sound, NEW h \in Hangups, EndCall(h)
  PROVE  Sound'
<1>1. /\ pc[h] = "end" /\ h \in Threads /\ mine[h] \in 1..made /\ mine[h] \in Managers
      /\ [pc EXCEPT ![h] = "remove"] \in [Threads -> Labels]
      /\ UNCHANGED <<made, dials, mine, jobs, crashed>>
  BY Apart, ManagerTyped, ThreadTyped DEF Sound, ThreadsOwn, EndCall, At, Labels
<1>2. CASE Live(mine[h])
  BY <1>1, <1>2, ToldStep DEF EndCall
<1>3. CASE ~Live(mine[h])
  <2>1. /\ pc' = [pc EXCEPT ![h] = "remove"] /\ UNCHANGED <<kind, peer, phase, reg, callbackVars>>
        /\ dropped' = IF phase[mine[h]] = "fresh" THEN dropped \cup {mine[h]} ELSE dropped
    BY <1>3 DEF EndCall
  <2>2. /\ pc'[h] = "remove" /\ \A u \in Threads \ {h} : pc'[u] = pc[u]
        /\ phase[mine[h]] \in {"none", "fresh", "ended"}
    BY <1>1, <1>3, <2>1, ManagerTyped, ThreadTyped DEF Sound, Live, Talking, Phases
  <2>3. TypeOK'
    BY <1>1, <2>1, RegTyped DEF Sound, TypeOK, callbackVars
  <2>4. ThreadsOwn'
    BY <1>1, <2>1, <2>2, OwnKept DEF Sound, ThreadsOwn
  <2>5. ManagersMade' /\ HungUp'
    BY <1>1, <2>1, <2>2, Apart DEF Sound, ManagersMade, HungUp
  <2>6. AllReachable'
    <3>1. ASSUME NEW m \in Managers, m # mine[h], Holding(m) PROVE Holding(m)'
      BY <1>1, <2>2, <3>1, Apart DEF Holding
    <3> QED
      BY <1>1, <2>1, <2>2, <3>1 DEF Sound, AllReachable, Talking
  <2>7. CalledOnce'
    BY <1>1, <2>1, <2>2, CalledKept, Apart, ThreadTyped DEF Sound, callbackVars
  <2> QED
    BY <2>3, <2>4, <2>5, <2>6, <2>7 DEF Sound
<1> QED
  BY <1>2, <1>3

LEMMA RejectStep ==
  ASSUME Sound, NEW h \in Hangups, RejectCall(h)
  PROVE  Sound'
<1>1. /\ pc[h] = "reject" /\ h \in Threads /\ mine[h] \in 1..made /\ mine[h] \in Managers
      /\ Goto(h, "remove") /\ "remove" \in Labels
      /\ UNCHANGED <<made, dials, reg, jobs, callbackVars, crashed>>
  BY Apart, ManagerTyped DEF Sound, ThreadsOwn, RejectCall, At, Labels
<1>2. /\ pc' \in [Threads -> Labels] /\ mine' \in [Threads -> Managers \cup {NoManager}]
      /\ pc'[h] = "remove" /\ mine'[h] = mine[h]
      /\ \A u \in Threads \ {h} : pc'[u] = pc[u] /\ mine'[u] = mine[u]
  BY <1>1, Moved DEF Sound
<1>3. /\ phase' \in [Managers -> Phases]
      /\ kind' \in [Managers -> {"none", "api", "callback", "offer"}]
      /\ peer' \in [Managers -> Peers \cup {NoManager}] /\ dropped' \subseteq 1..made
      /\ phase'[mine[h]] \in {"none", "ended"} \/ (phase'[mine[h]] = "fresh" /\ mine[h] \in dropped')
      /\ \A m \in Managers \ {mine[h]} : /\ phase'[m] = phase[m] /\ kind'[m] = kind[m]
                                       /\ peer'[m] = peer[m] /\ (m \in dropped => m \in dropped')
      /\ phase'[mine[h]] = "fresh" <=> phase[mine[h]] = "fresh"
      /\ kind'[mine[h]] = "none" \/ (kind'[mine[h]] = kind[mine[h]] /\ peer'[mine[h]] = peer[mine[h]])
      /\ phase'[mine[h]] = "none" <=> phase[mine[h]] = "none"
  <2>1. CASE Live(mine[h])
    <3>1. End(mine[h])
      BY <2>1 DEF RejectCall
    <3> QED
      BY <1>1, <2>1, <3>1, Ending DEF Sound, Live, Talking
  <2>2. CASE ~Live(mine[h])
    <3>1. /\ UNCHANGED <<kind, peer, phase>>
          /\ dropped' = IF phase[mine[h]] = "fresh" THEN dropped \cup {mine[h]} ELSE dropped
      BY <2>2 DEF RejectCall
    <3> QED
      BY <1>1, <2>2, <3>1, ManagerTyped, RegTyped DEF Sound, Live, Talking, Phases
  <2> QED
    BY <2>1, <2>2
<1>4. TypeOK'
  BY <1>1, <1>2, <1>3 DEF Sound, TypeOK, callbackVars
<1>5. ThreadsOwn'
  <2>1. \A t \in Threads :
          \/ pc'[t] = pc[t] /\ mine'[t] = mine[t]
          \/ pc'[t] \in {"end", "reject", "remove"} /\ mine'[t] \in 1..made
    BY <1>1, <1>2
  <2>2. \A m \in Managers : /\ phase'[m] = "fresh" <=> phase[m] = "fresh"
                            /\ phase[m] \in Unanswered => phase'[m] \in Unanswered
    BY <1>3 DEF Unanswered
  <2>3. \A g \in Hangups : jobs'[g] \subseteq 1..made /\ (pc'[g] = "idle" => jobs'[g] = {})
    BY <1>1, <1>2, Apart DEF Sound, ThreadsOwn
  <2> QED
    BY <1>1, <2>1, <2>2, <2>3, OwnKept DEF Sound
<1>6. ManagersMade'
  BY <1>1, <1>3 DEF Sound, ManagersMade
<1>7. HungUp'
  <2>1. \A g \in Hangups : pc[g] = "remove" => mine[g] \in Managers
    BY Apart, ManagerTyped DEF Sound, ThreadsOwn
  <2> QED
    BY <1>1, <1>2, <1>3, <2>1, Apart DEF Sound, HungUp
<1>8. AllReachable'
  <2>1. ASSUME NEW m \in Managers \ {mine[h]}, Holding(m) PROVE Holding(m)'
    BY <1>1, <1>2, <2>1, Apart DEF Holding
  <2> QED
    BY <1>1, <1>3, <2>1 DEF Sound, AllReachable, Talking
<1>9. CalledOnce'
  BY <1>1, <1>2, CalledKept, Apart, ThreadTyped DEF Sound, callbackVars
<1> QED
  BY <1>4, <1>5, <1>6, <1>7, <1>8, <1>9 DEF Sound

(* Steps that leave the managers as they are. *)
LEMMA ManagersKept ==
  ASSUME Sound, UNCHANGED managerVars
  PROVE  /\ ManagersMade'
         /\ made' = made /\ dials' = dials /\ phase' = phase /\ kind' = kind /\ peer' = peer
BY DEF Sound, ManagersMade, managerVars

(* The tests of the limit, and the ends of a dial: a thread that hangs nothing up. *)
LEMMA DialerMoves ==
  ASSUME Sound, NEW t \in Dialers \cup {"event"}, NEW l \in {"idle", "create"}, Goto(t, l),
         t \in Peers => (pc[t] \in {"sleep", "create"} <=> l \in {"sleep", "create"})
                        \/ (pc[t] = "sleep" /\ l = "idle"),
         t \in Peers => pc[t] # "idle",
         UNCHANGED <<managerVars, jobs, recent>>, due' \subseteq Peers, crashed' \in BOOLEAN,
         dropped' \subseteq 1..made, reg' \subseteq reg, dropped \subseteq dropped',
         \A m \in reg \ reg' : phase[m] \in Talking => m \in dropped',
         \A m \in reg \ reg' : phase[m] # "fresh"
  PROVE  Sound'
<1>1. /\ t \in Threads /\ t \notin Hangups /\ l \in Labels
      /\ made' = made /\ dials' = dials /\ phase' = phase
  BY Apart, ManagersKept DEF Labels
<1>2. /\ pc' \in [Threads -> Labels] /\ mine' \in [Threads -> Managers \cup {NoManager}]
      /\ pc'[t] = l /\ \A u \in Threads \ {t} : pc'[u] = pc[u] /\ mine'[u] = mine[u]
  BY <1>1, Moved DEF Sound
<1>3. TypeOK'
  BY <1>2, RegTyped DEF Sound, TypeOK, managerVars
<1>4. \A h \in Hangups : pc'[h] = pc[h] /\ mine'[h] = mine[h]
  BY <1>1, <1>2, Apart
<1>5. ThreadsOwn'
  <2>1. \A h \in Hangups : jobs'[h] \subseteq 1..made /\ (pc'[h] = "idle" => jobs'[h] = {})
    BY <1>4 DEF Sound, ThreadsOwn
  <2> QED
    BY <1>1, <1>2, <2>1, OwnKept DEF Sound
<1>6. ManagersMade' /\ HungUp'
  BY <1>1, <1>4, ManagersKept DEF Sound, HungUp
<1>7. AllReachable'
  <2>1. \A m \in Managers : Holding(m) => Holding(m)'
    BY <1>4 DEF Holding
  <2> QED
    BY <1>1, <2>1 DEF Sound, AllReachable
<1>8. CalledOnce'
  <2>1. recent' = recent /\ recent \subseteq Peers /\ made <= dials + Cardinality(Called)
        /\ made \in Nat /\ dials \in Nat
    BY ThreadTyped, ManagerTyped, Sizes DEF Sound, CalledOnce
  <2>2. \A p \in Peers : p \notin recent' => pc'[p] = "idle"
    BY <1>1, <1>2, <2>1, Apart DEF Sound, CalledOnce
  <2>3. Called \subseteq Called' /\ Called' \subseteq Peers
    BY <1>2, <2>1, Apart DEF Called
  <2>4. Cardinality(Called) <= Cardinality(Called') /\ Cardinality(Called) \in Nat
        /\ Cardinality(Called') \in Nat
    BY <2>3, Sizes, FS_Subset, FS_CardinalityType
  <2> QED
    BY <1>1, <2>1, <2>2, <2>4 DEF CalledOnce
<1> QED
  BY <1>3, <1>5, <1>6, <1>7, <1>8 DEF Sound

LEMMA DialSteps ==
  ASSUME Sound, NEW t \in Dialers,
         \/ t \in Requests /\ Dial(t)
         \/ t \in Peers /\ Wake(t)
         \/ OfferSent(t) /\ ~Live(mine[t])
         \/ StartFailed(t)
  PROVE  Sound'
<1>0. /\ dropped \subseteq 1..made /\ reg \subseteq 1..made /\ due \subseteq Peers
      /\ crashed \in BOOLEAN
  BY RegTyped, ThreadTyped DEF Sound
<1>1. CASE t \in Requests /\ Dial(t)
  <2>1. t \notin Peers
    BY <1>1, SessionAssumption
  <2> QED
    BY <1>0, <1>1, <2>1, DialerMoves DEF Dial, callbackVars
<1>2. CASE t \in Peers /\ Wake(t)
  <2>1. pc[t] = "sleep" /\ \E l \in {"idle", "create"} : Goto(t, l)
    BY <1>2 DEF Wake, At
  <2> QED
    BY <1>0, <1>2, <2>1, DialerMoves DEF Wake
<1>3. CASE OfferSent(t) /\ ~Live(mine[t])
  <2>1. pc[t] = "query" /\ mine[t] \in Managers
    BY <1>3, Apart, ManagerTyped DEF OfferSent, At, Sound, ThreadsOwn
  <2>2. phase' = phase
    BY <1>3, <2>1, ManagerTyped DEF OfferSent, Sound
  <2> QED
    BY <1>0, <1>3, <2>1, <2>2, DialerMoves DEF OfferSent, managerVars, callbackVars
<1>4. CASE StartFailed(t)
  <2>1. /\ pc[t] = "query" /\ reg' = reg \ {mine[t]} /\ Goto(t, "idle")
        /\ dropped' = IF Live(mine[t]) THEN dropped \cup {mine[t]} ELSE dropped
        /\ mine[t] \in 1..made /\ phase[mine[t]] # "fresh"
    BY <1>4, Apart DEF StartFailed, At, Sound, ThreadsOwn, Unanswered
  <2> QED
    BY <1>0, <1>4, <2>1, DialerMoves DEF StartFailed, Live, callbackVars
<1> QED
  BY <1>1, <1>2, <1>3, <1>4

LEMMA OfferTestStep ==
  ASSUME Sound, OfferTest
  PROVE  Sound'
<1>1. "event" \notin Peers /\ "event" \in Dialers \cup {"event"}
  BY Apart
<1> QED
  BY <1>1, RegTyped, ThreadTyped, DialerMoves DEF Sound, OfferTest, callbackVars

LEMMA AskStep ==
  ASSUME Sound, Ask
  PROVE  Sound'
<1>1. PICK p \in Peers : ScheduleAutoCallback(p, pc)
  BY DEF Ask
<1>2. UNCHANGED <<managerVars, reg, mine, jobs, crashed, dropped>> /\ made' = made /\ dials' = dials
      /\ phase' = phase
  BY ManagersKept DEF Ask
<1>3. /\ pc' \in [Threads -> Labels] /\ recent' \subseteq Peers /\ due' \subseteq Peers
      /\ \A t \in Threads : pc'[t] = pc[t] \/ (t \in Peers /\ pc[t] = "idle" /\ pc'[t] = "sleep")
      /\ CalledOnce'
  BY <1>1, <1>2, ThreadTyped, Scheduled DEF Sound
<1>4. TypeOK'
  BY <1>2, <1>3 DEF Sound, TypeOK, managerVars
<1>5. \A h \in Hangups : pc'[h] = pc[h]
  BY <1>3, Apart
<1>6. ThreadsOwn'
  BY <1>2, <1>3, <1>5, OwnKept DEF Sound, ThreadsOwn
<1>7. ManagersMade' /\ HungUp' /\ AllReachable'
  BY <1>2, <1>5, ManagersKept DEF Sound, HungUp, AllReachable, Holding
<1> QED
  BY <1>3, <1>4, <1>6, <1>7 DEF Sound

(* A goroutine that hangs up, from call to call. *)
LEMMA HangupMoves ==
  ASSUME Sound, NEW h \in Hangups, NEW l \in Labels,
         l \in {"idle", "end", "reject", "drained"},
         pc' \in [Threads -> Labels], mine' \in [Threads -> Managers \cup {NoManager}],
         pc'[h] = l, \A u \in Threads \ {h} : pc'[u] = pc[u] /\ mine'[u] = mine[u],
         l \in {"end", "reject"} => mine'[h] \in 1..made,
         l = "idle" => jobs'[h] = {},
         jobs' \in [Hangups -> SUBSET Managers],
         jobs'[h] \subseteq 1..made, \A g \in Hangups \ {h} : jobs'[g] = jobs[g],
         UNCHANGED <<managerVars, callbackVars, crashed, dropped>>, reg' \subseteq reg,
         \A m \in Managers :
           phase[m] \in Talking \cup {"fresh"} /\ m \notin reg' /\ m \notin dropped /\
             (m \in reg \/ m \in jobs[h] \/ (mine[h] = m /\ pc[h] \in {"end", "reject"}))
           => m \in jobs'[h] \/ (mine'[h] = m /\ l \in {"end", "reject"})
  PROVE  Sound'
<1>1. h \in Threads /\ h \notin Peers /\ made' = made /\ dials' = dials /\ phase' = phase
  BY Apart, ManagersKept
<1>2. TypeOK'
  BY RegTyped DEF Sound, TypeOK, managerVars, callbackVars
<1>3. ThreadsOwn'
  <2>1. \A g \in Hangups : jobs'[g] \subseteq 1..made /\ (pc'[g] = "idle" => jobs'[g] = {})
    BY Apart DEF Sound, ThreadsOwn
  <2> QED
    BY <1>1, <2>1, OwnKept DEF Sound
<1>4. ManagersMade' /\ HungUp'
  BY <1>1, Apart, ManagersKept DEF Sound, HungUp
<1>5. AllReachable'
  <2> SUFFICES ASSUME NEW m \in Managers, phase[m] \in Talking \cup {"fresh"}, m \notin reg', m \notin dropped
               PROVE  Holding(m)'
    BY <1>1 DEF AllReachable
  <2>1. CASE m \in reg \/ m \in jobs[h] \/ (mine[h] = m /\ pc[h] \in {"end", "reject"})
    BY <2>1 DEF Holding
  <2>2. CASE ~(m \in reg \/ m \in jobs[h] \/ (mine[h] = m /\ pc[h] \in {"end", "reject"}))
    <3>1. PICK g \in Hangups \ {h} : m \in jobs[g] \/ (mine[g] = m /\ pc[g] \in {"end", "reject"})
      BY <2>2 DEF Sound, AllReachable, Holding
    <3> QED
      BY <3>1, Apart DEF Holding
  <2> QED
    BY <2>1, <2>2
<1>6. CalledOnce'
  BY <1>1, CalledKept, Apart, ThreadTyped DEF Sound, callbackVars
<1> QED
  BY <1>2, <1>3, <1>4, <1>5, <1>6 DEF Sound

LEMMA HangupSteps ==
  ASSUME Sound, NEW h \in Hangups, HangUp(h) \/ Remove(h) \/ Drain(h) \/ EndDrained(h)
  PROVE  Sound'
<1>0. /\ h \in Threads /\ {"idle", "end", "reject", "drained"} \subseteq Labels
      /\ reg \subseteq 1..made /\ 1..made \subseteq Managers
      /\ jobs \in [Hangups -> SUBSET Managers] /\ jobs[h] \subseteq 1..made
      /\ pc[h] = "idle" => jobs[h] = {}
      /\ TypeOK
  BY Apart, RegTyped, ManagerTyped, ThreadTyped DEF Sound, ThreadsOwn, Labels
<1>1. CASE HangUp(h)
  <2>1. PICK n \in reg, l \in {"end", "reject"} : Take(h, l, n)
    BY <1>1 DEF HangUp
  <2>2. pc[h] = "idle" /\ UNCHANGED <<managerVars, reg, jobs, callbackVars, crashed, dropped>>
    BY <1>1 DEF HangUp, At
  <2>3. /\ pc' \in [Threads -> Labels] /\ mine' \in [Threads -> Managers \cup {NoManager}]
        /\ pc'[h] = l /\ mine'[h] = n
        /\ \A u \in Threads \ {h} : pc'[u] = pc[u] /\ mine'[u] = mine[u]
    BY <1>0, <2>1, Taken
  <2> QED
    BY <1>0, <2>1, <2>2, <2>3, HangupMoves
<1>2. CASE Remove(h)
  <2> DEFINE l == IF jobs[h] = {} THEN "idle" ELSE "drained"
  <2>1. /\ pc[h] = "remove" /\ reg' = reg \ {mine[h]} /\ Goto(h, l)
        /\ l \in {"idle", "drained"} /\ (l = "idle" => jobs[h] = {})
        /\ UNCHANGED <<managerVars, jobs, callbackVars, crashed, dropped>>
    BY <1>2 DEF Remove, At
  <2> HIDE DEF l
  <2>2. /\ pc' \in [Threads -> Labels] /\ mine' \in [Threads -> Managers \cup {NoManager}]
        /\ pc'[h] = l /\ \A u \in Threads \ {h} : pc'[u] = pc[u] /\ mine'[u] = mine[u]
    BY <1>0, <2>1, Moved
  <2>3. phase[mine[h]] \in {"none", "ended"} \/ mine[h] \in dropped
    BY <2>1 DEF Sound, HungUp
  <2>4. \A m \in Managers :
          phase[m] \in Talking \cup {"fresh"} /\ m \notin reg' /\ m \notin dropped /\
            (m \in reg \/ m \in jobs[h] \/ (mine[h] = m /\ pc[h] \in {"end", "reject"}))
          => m \in jobs'[h]
    BY <2>1, <2>3 DEF Talking
  <2> QED
    BY <1>0, <2>1, <2>2, <2>4, HangupMoves
<1>3. CASE Drain(h)
  <2>1. /\ pc[h] = "idle" /\ jobs' = [jobs EXCEPT ![h] = reg] /\ reg' = {} /\ Goto(h, "drained")
        /\ UNCHANGED <<managerVars, callbackVars, crashed, dropped>>
    BY <1>3 DEF Drain, At
  <2>2. /\ pc' \in [Threads -> Labels] /\ mine' \in [Threads -> Managers \cup {NoManager}]
        /\ pc'[h] = "drained" /\ \A u \in Threads \ {h} : pc'[u] = pc[u] /\ mine'[u] = mine[u]
    BY <1>0, <2>1, Moved
  <2>3. /\ jobs' \in [Hangups -> SUBSET Managers] /\ jobs'[h] = reg
        /\ \A g \in Hangups \ {h} : jobs'[g] = jobs[g]
    BY <1>0, <2>1
  <2> QED
    BY <1>0, <2>1, <2>2, <2>3, HangupMoves
<1>4. CASE EndDrained(h)
  <2>1. PICK n \in jobs[h] : Take(h, "end", n) /\ jobs' = [jobs EXCEPT ![h] = @ \ {n}]
    BY <1>4 DEF EndDrained
  <2>2. pc[h] = "drained" /\ UNCHANGED <<managerVars, reg, callbackVars, crashed, dropped>>
    BY <1>4 DEF EndDrained, At
  <2>3. /\ pc' \in [Threads -> Labels] /\ mine' \in [Threads -> Managers \cup {NoManager}]
        /\ pc'[h] = "end" /\ mine'[h] = n
        /\ \A u \in Threads \ {h} : pc'[u] = pc[u] /\ mine'[u] = mine[u]
    BY <1>0, <2>1, Taken
  <2>4. /\ jobs' \in [Hangups -> SUBSET Managers] /\ jobs'[h] = jobs[h] \ {n}
        /\ \A g \in Hangups \ {h} : jobs'[g] = jobs[g]
    BY <1>0, <2>1
  <2> QED
    BY <1>0, <2>1, <2>2, <2>3, <2>4, HangupMoves
<1> QED
  BY <1>1, <1>2, <1>3, <1>4

LEMMA CreateSteps ==
  ASSUME Sound, NEW d \in Dialers \cup {"event"},
         IF d = "event" THEN OfferCreate ELSE Create(d)
  PROVE  Sound'
<1>1. due \subseteq Peers /\ {"start", "offer"} = Setting
  BY ThreadTyped DEF Sound, Setting
<1>2. CASE d = "event"
  <2>1. /\ pc[d] = "create" /\ Take(d, "offer", made + 1) /\ UNCHANGED <<recent, due>>
        /\ UNCHANGED <<jobs, recent, crashed, dropped>>
        /\ \E p \in Peers : CreateCall("offer", p)
    BY <1>2 DEF OfferCreate, At, callbackVars
  <2> QED
    BY <1>1, <1>2, <2>1, Apart, CreateStep
<1>3. CASE d # "event"
  <2>1. /\ pc[d] = "create" /\ Take(d, "start", made + 1) /\ due' = due \ {d}
        /\ UNCHANGED <<jobs, recent, crashed, dropped>>
        /\ \E p \in Peers : CreateCall(IF d \in Peers THEN "callback" ELSE "api", p)
    BY <1>3 DEF Create, At, DialPeer
  <2> QED
    BY <1>1, <2>1, CreateStep
<1> QED
  BY <1>2, <1>3

LEMMA RingSteps ==
  ASSUME Sound, HandleCallOffer \/ \E d \in Dialers : StartCall(d) \/ (OfferSent(d) /\ Live(mine[d]))
  PROVE  Sound'
<1>1. CASE HandleCallOffer
  BY <1>1, RingStep, PhasesApart, RegTyped DEF HandleCallOffer, At, Setting, Sound
<1>2. CASE \E d \in Dialers : StartCall(d)
  BY <1>2, RingStep, PhasesApart, RegTyped DEF StartCall, At, Setting, Sound
<1>3. CASE \E d \in Dialers : OfferSent(d) /\ Live(mine[d])
  <2>1. PICK d \in Dialers : OfferSent(d) /\ Live(mine[d])
    BY <1>3
  <2>2. phase' = [phase EXCEPT ![mine[d]] = "ringing"] /\ pc[d] = "query"
    BY <2>1 DEF OfferSent, At
  <2> QED
    BY <2>1, <2>2, RingStep, PhasesApart DEF OfferSent
<1> QED
  BY <1>1, <1>2, <1>3

(* Every step keeps the invariant but for the limit. *)
LEMMA SoundStep == Sound /\ [Next]_vars => Sound'
<1> SUFFICES ASSUME Sound, [Next]_vars PROVE Sound'
  OBVIOUS
<1>1. CASE \E m \in Managers : OfferAckError(m) \/ Accept(m) \/ MediaConnect(m)
  BY <1>1, RefusedStep, TalkStep
<1>2. CASE \E r \in Requests : Dial(r)
  BY <1>2, DialSteps, Apart
<1>3. CASE \E d \in Dialers : DialerStep(d)
  BY <1>3, DialSteps, CreateSteps, RingSteps, Apart DEF DialerStep
<1>4. CASE \E p \in Peers : Wake(p)
  BY <1>4, DialSteps, Apart
<1>5. CASE OfferTest \/ OfferCreate \/ HandleCallOffer \/ HandleCallTerminate \/ Ask
  BY <1>5, OfferTestStep, CreateSteps, RingSteps, TerminateStep, AskStep
<1>6. CASE \E h \in Hangups : HangUp(h) \/ EndCall(h) \/ RejectCall(h) \/ Remove(h) \/ Drain(h)
                               \/ EndDrained(h)
  BY <1>6, EndCallStep, RejectStep, HangupSteps
<1>7. CASE UNCHANGED vars
  BY <1>7 DEF vars, managerVars, threadVars, callbackVars, Sound, TypeOK, ThreadsOwn, ManagersMade,
              HungUp, AllReachable, Holding, CalledOnce, Called
<1> QED
  BY <1>1, <1>2, <1>3, <1>4, <1>5, <1>6, <1>7 DEF Next

(* Those who have tested the limit and have yet to use it. *)
Creating == {t \in Testers : pc[t] = "create"}

LEMMA Counts ==
  ASSUME TypeOK
  PROVE  /\ IsFiniteSet(reg) /\ Cardinality(reg) \in Nat
         /\ IsFiniteSet(Tested) /\ Cardinality(Tested) \in Nat
         /\ Cardinality(Tested) <= Cardinality(reg)
         /\ IsFiniteSet(Creating) /\ Cardinality(Creating) \in Nat
         /\ Cardinality(Creating) <= Cardinality(Testers)
<1>1. IsFiniteSet(1..made)
  BY ManagerTyped, FS_Interval
<1>2. IsFiniteSet(reg)
  BY <1>1, RegTyped, FS_Subset
<1>3. Tested \subseteq reg /\ Creating \subseteq Testers
  BY DEF Tested, Creating
<1> QED
  BY <1>2, <1>3, Sizes, FS_Subset, FS_CardinalityType

LEMMA LimitShrinks ==
  ASSUME TypeOK, LimitUpToRacers, Tested' \subseteq Tested, Creating' \subseteq Creating
  PROVE  LimitUpToRacers'
<1>1. /\ Cardinality(Tested') <= Cardinality(Tested)
      /\ Cardinality(Creating') <= Cardinality(Creating)
      /\ IsFiniteSet(Tested') /\ IsFiniteSet(Creating')
  BY Counts, FS_Subset
<1>2. Cardinality(Tested') \in Nat /\ Cardinality(Creating') \in Nat
  BY <1>1, FS_CardinalityType
<1> QED
  BY <1>1, <1>2, Counts, Sizes DEF LimitUpToRacers, Creating

(* Nobody is let in, and nobody comes in. *)
LEMMA LimitLeft ==
  ASSUME TypeOK, LimitUpToRacers, reg' \subseteq reg,
         \A m \in reg : kind'[m] \in {kind[m], "none"},
         \A t \in Testers : pc'[t] = "create" => pc[t] = "create"
  PROVE  LimitUpToRacers'
BY LimitShrinks DEF Tested, Creating

(* A tester is let in while the registry is not full. *)
LEMMA LimitTested ==
  ASSUME TypeOK, TypeOK', ~Full, UNCHANGED <<reg, kind>>
  PROVE  LimitUpToRacers'
<1>1. Cardinality(reg) <= MaxCalls - 1
  BY Counts, Sizes DEF Full
<1>2. Tested' = Tested
  BY DEF Tested
<1>3. Cardinality(Creating') \in Nat /\ Cardinality(Creating') <= Cardinality(Testers)
  <2>1. Creating' \subseteq Testers
    BY DEF Creating
  <2> QED
    BY <2>1, Sizes, FS_Subset, FS_CardinalityType
<1> QED
  BY <1>1, <1>2, <1>3, Counts, Sizes DEF LimitUpToRacers, Creating

(* A call that was let in is made; a call back is not counted. *)
LEMMA LimitUsed ==
  ASSUME TypeOK, TypeOK', LimitUpToRacers, NEW d \in Dialers \cup {"event"}, pc[d] = "create",
         NEW k \in {"api", "callback", "offer"}, NEW l \in Setting, k = "callback" <=> d \in Peers,
         NEW p, CreateCall(k, p), Take(d, l, made + 1)
  PROVE  LimitUpToRacers'
<1>1. /\ reg' = reg \cup {made + 1} /\ kind' = [kind EXCEPT ![made + 1] = k]
      /\ made' = made + 1 /\ made \in Nat /\ reg \subseteq 1..made /\ 1..made \subseteq Managers
  BY ManagerTyped, RegTyped DEF CreateCall
<1>2. made + 1 \in Managers
  <2>1. made' \in Managers \cup {0}
    BY DEF TypeOK
  <2> QED
    BY <1>1, <2>1
<1>3. kind'[made + 1] = k /\ \A m \in reg : kind'[m] = kind[m]
  BY <1>1, <1>2, ManagerTyped
<1>4. d \in Threads /\ pc' = [pc EXCEPT ![d] = l] /\ pc'[d] # "create"
      /\ \A t \in Testers \ {d} : pc'[t] = pc[t]
  BY Apart, ThreadTyped DEF Take, Setting, Testers
<1>5. CASE d \in Peers
  <2>1. Tested' \subseteq Tested
    BY <1>1, <1>3, <1>5 DEF Tested
  <2>2. Creating' \subseteq Creating
    BY <1>4 DEF Creating
  <2> QED
    BY <2>1, <2>2, LimitShrinks
<1>6. CASE d \notin Peers
  <2>1. d \in Testers
    BY <1>6 DEF Dialers, Testers
  <2>2. Tested' \subseteq Tested \cup {made + 1} /\ Creating' = Creating \ {d} /\ d \in Creating
    BY <1>1, <1>3, <1>4, <2>1 DEF Tested, Creating
  <2>3. /\ IsFiniteSet(Tested \cup {made + 1})
        /\ Cardinality(Tested \cup {made + 1}) <= Cardinality(Tested) + 1
    <3>1. IsFiniteSet(Tested) /\ Cardinality(Tested) \in Nat
      BY Counts
    <3>2. Cardinality(Tested \cup {made + 1}) =
            IF made + 1 \in Tested THEN Cardinality(Tested) ELSE Cardinality(Tested) + 1
      BY <3>1, FS_AddElement
    <3> QED
      BY <3>1, <3>2, FS_AddElement
  <2>4. /\ Cardinality(Tested') <= Cardinality(Tested \cup {made + 1})
        /\ IsFiniteSet(Tested')
    BY <2>2, <2>3, FS_Subset
  <2>5. Cardinality(Creating') = Cardinality(Creating) - 1
    BY <2>2, Counts, FS_RemoveElement
  <2>6. Cardinality(Tested') \in Nat /\ Cardinality(Tested \cup {made + 1}) \in Nat
    BY <2>3, <2>4, FS_CardinalityType
  <2> QED
    BY <2>3, <2>4, <2>5, <2>6, Counts, Sizes DEF LimitUpToRacers, Creating
<1> QED
  BY <1>5, <1>6

LEMMA CreateLimit ==
  ASSUME Sound, Sound', LimitUpToRacers, NEW d \in Dialers \cup {"event"},
         IF d = "event" THEN OfferCreate ELSE Create(d)
  PROVE  LimitUpToRacers'
<1>1. CASE d = "event"
  <2>1. /\ pc[d] = "create" /\ Take(d, "offer", made + 1) /\ d \notin Peers /\ "offer" \in Setting
        /\ \E p \in Peers : CreateCall("offer", p)
    BY <1>1, Apart DEF OfferCreate, At, Setting
  <2> QED
    BY <2>1, LimitUsed DEF Sound
<1>2. CASE d # "event"
  <2>1. /\ pc[d] = "create" /\ Take(d, "start", made + 1) /\ "start" \in Setting
        /\ \E p \in DialPeer(d) : CreateCall(IF d \in Peers THEN "callback" ELSE "api", p)
    BY <1>2 DEF Create, At, Setting
  <2> QED
    BY <2>1, LimitUsed DEF Sound
<1> QED
  BY <1>1, <1>2

(* An end makes a call nobody's, and moves no tester but to another wait. *)
LEMMA ToldLimit ==
  ASSUME Sound, LimitUpToRacers, NEW n \in Managers, NEW moved \in [Threads -> Labels],
         EndAndTell(n, moved), \A t \in Testers : moved[t] = pc[t]
  PROVE  LimitUpToRacers'
<1>1. reg' \subseteq reg /\ \A m \in reg : kind'[m] \in {kind[m], "none"}
  BY ManagerTyped, RegTyped DEF EndAndTell, End, Sound
<1>2. \A t \in Testers : t \in Threads
  BY Apart DEF Testers
<1>3. \A t \in Testers : pc'[t] = "create" => pc[t] = "create"
  BY <1>2 DEF EndAndTell, ScheduleAutoCallback
<1> QED
  BY <1>1, <1>3, LimitLeft DEF Sound

(* The goroutines that hang up. *)
LEMMA HangupLimit ==
  ASSUME Sound, LimitUpToRacers, NEW h \in Hangups,
         HangUp(h) \/ EndCall(h) \/ RejectCall(h) \/ Remove(h) \/ Drain(h) \/ EndDrained(h)
  PROVE  LimitUpToRacers'
<1>1. /\ h \in Threads /\ h \notin Testers /\ Testers \subseteq Threads
      /\ pc \in [Threads -> Labels] /\ TypeOK
      /\ pc[h] \in {"end", "reject", "remove"} => mine[h] \in Managers
  BY SessionAssumption, Apart, ThreadTyped, ManagerTyped DEF Testers, Sound, ThreadsOwn
<1>2. CASE HangUp(h) \/ Remove(h) \/ Drain(h) \/ EndDrained(h)
  <2>1. reg' \subseteq reg /\ kind' = kind /\ \E l \in Labels : pc' = [pc EXCEPT ![h] = l]
    BY <1>2 DEF HangUp, Remove, Drain, EndDrained, Goto, Take, managerVars, Labels
  <2> QED
    BY <1>1, <2>1, LimitLeft
<1>3. CASE EndCall(h) /\ Live(mine[h])
  <2>1. EndAndTell(mine[h], [pc EXCEPT ![h] = "remove"]) /\ mine[h] \in Managers
    BY <1>1, <1>3 DEF EndCall, At
  <2> DEFINE moved == [pc EXCEPT ![h] = "remove"]
  <2>2. moved \in [Threads -> Labels] /\ \A t \in Testers : moved[t] = pc[t]
    BY <1>1 DEF Labels
  <2> HIDE DEF moved
  <2>3. EndAndTell(mine[h], moved)
    BY <2>1 DEF moved
  <2> QED
    BY <2>1, <2>2, <2>3, ToldLimit
<1>4. CASE EndCall(h) /\ ~Live(mine[h])
  <2>1. UNCHANGED <<kind, reg>> /\ pc' = [pc EXCEPT ![h] = "remove"]
    BY <1>4 DEF EndCall
  <2> QED
    BY <1>1, <2>1, LimitLeft
<1>5. CASE RejectCall(h)
  <2>1. reg' = reg /\ pc' = [pc EXCEPT ![h] = "remove"] /\ mine[h] \in Managers
    BY <1>1, <1>5 DEF RejectCall, Goto, At
  <2>2. \A m \in reg : kind'[m] \in {kind[m], "none"}
    BY <1>5, <2>1, ManagerTyped, RegTyped DEF RejectCall, End, Sound
  <2> QED
    BY <1>1, <2>1, <2>2, LimitLeft
<1> QED
  BY <1>2, <1>3, <1>4, <1>5

(* The handlers of whatsmeow, but for an offer that becomes a call. *)
LEMMA EventLimit ==
  ASSUME Sound, Sound', LimitUpToRacers,
         OfferTest \/ HandleCallOffer \/ HandleCallTerminate \/ Ask
  PROVE  LimitUpToRacers'
<1>1. Testers \subseteq Threads /\ pc \in [Threads -> Labels] /\ "event" \in Threads
  BY Apart, ThreadTyped DEF Testers, Sound
<1>2. CASE OfferTest
  BY <1>2, LimitTested DEF OfferTest, managerVars, Sound
<1>3. CASE HandleCallOffer
  <2>1. UNCHANGED <<kind, reg>> /\ pc' = [pc EXCEPT !["event"] = "idle"]
    BY <1>3 DEF HandleCallOffer, Goto
  <2> QED
    BY <1>1, <2>1, LimitLeft DEF Sound
<1>4. CASE HandleCallTerminate
  <2>1. \E n \in Managers : EndAndTell(n, pc)
    BY <1>4, RegTyped, ManagerTyped DEF HandleCallTerminate, Sound
  <2> QED
    BY <1>1, <2>1, ToldLimit
<1>5. CASE Ask
  <2>1. UNCHANGED <<kind, reg>> /\ \E p \in Peers : ScheduleAutoCallback(p, pc)
    BY <1>5 DEF Ask, managerVars
  <2>2. \A t \in Testers : pc'[t] = "create" => pc[t] = "create"
    BY <1>1, <2>1 DEF ScheduleAutoCallback
  <2> QED
    BY <2>1, <2>2, LimitLeft DEF Sound
<1> QED
  BY <1>2, <1>3, <1>4, <1>5

LEMMA LimitStep == Sound /\ Sound' /\ LimitUpToRacers /\ [Next]_vars => LimitUpToRacers'
<1> SUFFICES ASSUME Sound, Sound', LimitUpToRacers, [Next]_vars PROVE LimitUpToRacers'
  OBVIOUS
<1>0. Testers \subseteq Threads /\ Dialers \subseteq Threads /\ pc \in [Threads -> Labels]
  BY Apart, ThreadTyped DEF Testers, Sound
<1>1. CASE \E m \in Managers : OfferAckError(m) \/ Accept(m) \/ MediaConnect(m)
  <2>1. PICK m \in Managers : OfferAckError(m) \/ Accept(m) \/ MediaConnect(m)
    BY <1>1
  <2>2. reg' \subseteq reg /\ pc' = pc /\ \A n \in reg : kind'[n] \in {kind[n], "none"}
    BY <2>1, ManagerTyped, RegTyped DEF OfferAckError, End, Accept, MediaConnect, threadVars, Sound
  <2> QED
    BY <2>2, LimitLeft DEF Sound
<1>2. CASE \E r \in Requests : Dial(r)
  BY <1>2, LimitTested DEF Dial, managerVars, Sound
<1>3. CASE OfferCreate \/ \E d \in Dialers : Create(d)
  BY <1>3, CreateLimit, Apart
<1>4. CASE \E d \in Dialers : StartCall(d) \/ OfferSent(d) \/ StartFailed(d)
  <2>1. PICK d \in Dialers : StartCall(d) \/ OfferSent(d) \/ StartFailed(d)
    BY <1>4
  <2>2. reg' \subseteq reg /\ kind' = kind /\ \E l \in {"query", "idle"} : pc' = [pc EXCEPT ![d] = l]
    BY <2>1 DEF StartCall, OfferSent, StartFailed, Goto, managerVars
  <2> QED
    BY <1>0, <2>2, LimitLeft DEF Sound
<1>5. CASE \E p \in Peers : Wake(p)
  <2>1. PICK p \in Peers : Wake(p)
    BY <1>5
  <2>2. /\ UNCHANGED <<reg, kind>> /\ p \in Threads /\ p \notin Testers
        /\ \E l \in Labels : pc' = [pc EXCEPT ![p] = l]
    BY <2>1, SessionAssumption, Apart DEF Wake, Goto, managerVars, Labels, Testers
  <2> QED
    BY <1>0, <2>2, LimitLeft DEF Sound
<1>6. CASE OfferTest \/ HandleCallOffer \/ HandleCallTerminate \/ Ask
  BY <1>6, EventLimit
<1>7. CASE \E h \in Hangups : HangUp(h) \/ EndCall(h) \/ RejectCall(h) \/ Remove(h) \/ Drain(h)
                               \/ EndDrained(h)
  BY <1>7, HangupLimit
<1>8. CASE UNCHANGED vars
  BY <1>8, LimitLeft DEF vars, managerVars, threadVars, Sound
<1> QED
  BY <1>1, <1>2, <1>3, <1>4, <1>5, <1>6, <1>7, <1>8 DEF Next, DialerStep

LEMMA StepInv == IndInv /\ [Next]_vars => IndInv'
BY SoundStep, LimitStep DEF IndInv, Sound

LEMMA InitInv == Init => IndInv
<1> SUFFICES ASSUME Init PROVE IndInv
  OBVIOUS
<1>1. 1..0 = {} /\ MaxDialled \in Nat /\ 0 \in 0..MaxDialled
  BY Sizes
<1>2. TypeOK
  BY <1>1 DEF Init, TypeOK, Labels, Phases
<1>3. ThreadsOwn /\ HungUp
  BY Apart DEF Init, ThreadsOwn, HungUp, Setting
<1>4. ManagersMade /\ AllReachable
  BY DEF Init, ManagersMade, AllReachable, Talking
<1>5. CalledOnce
  <2>1. Called = {}
    BY DEF Init, Called
  <2> QED
    BY <2>1, FS_EmptySet, Apart DEF Init, CalledOnce
<1>6. LimitUpToRacers
  <2>1. Tested = {} /\ Creating = {}
    BY Apart DEF Init, Tested, Creating, Testers, Threads, Dialers
  <2>2. Cardinality(Testers) >= 1
    <3>1. Testers # {}
      BY DEF Testers
    <3> QED
      BY <3>1, Sizes, FS_EmptySet
  <2>3. Cardinality(Tested) = 0 /\ Cardinality(Creating) = 0
    BY <2>1, FS_EmptySet
  <2> QED
    BY <2>2, <2>3, Sizes DEF LimitUpToRacers, Creating
<1> QED
  BY <1>2, <1>3, <1>4, <1>5, <1>6 DEF IndInv

(* Every variable keeps its type. *)
THEOREM TypeCorrect == Spec => []TypeOK
<1>1. IndInv => TypeOK
  BY DEF IndInv
<1> QED
  BY InitInv, StepInv, <1>1, PTL DEF Spec

(* The limit of calls, tested apart from its use, is exceeded only by as many calls   *)
(* as were being set up at once beyond the first.                                *)
THEOREM LimitKept == Spec => []LimitUpToRacers
<1>1. IndInv => LimitUpToRacers
  BY DEF IndInv
<1> QED
  BY InitInv, StepInv, <1>1, PTL DEF Spec

(* A call that rings or talks is in the registry, or in the hands of the goroutine     *)
(* that will end it, unless it was hung up before it was there or its offer failed.   *)
THEOREM CallsReachable == Spec => []LiveCallsReachable
<1>1. IndInv => LiveCallsReachable
  BY DEF IndInv, AllReachable, LiveCallsReachable, Live
<1> QED
  BY InitInv, StepInv, <1>1, PTL DEF Spec

(* What one step does to the call of one manager. *)
CallStep(m) ==
  \/ phase'[m] = phase[m]
  \/ phase[m] = "none" /\ phase'[m] = "fresh"
  \/ phase[m] = "fresh" /\ phase'[m] \in {"initiating", "incoming_ringing"}
  \/ phase[m] = "initiating" /\ phase'[m] = "ringing"
  \/ phase[m] \in {"ringing", "incoming_ringing"} /\ phase'[m] = "connecting"
  \/ phase[m] = "connecting" /\ phase'[m] = "active"
  \/ phase[m] \in Talking /\ phase'[m] = "ended"

LEMMA OthersKept ==
  ASSUME TypeOK, NEW m \in Managers, NEW n \in Managers, NEW x, phase' = [phase EXCEPT ![n] = x]
  PROVE  phase'[m] = IF m = n THEN x ELSE phase[m]
BY ManagerTyped

LEMMA DialCalls ==
  ASSUME Sound, NEW m \in Managers, NEW d \in Dialers, DialerStep(d)
  PROVE  CallStep(m)
<1>1. d \in Threads
  BY Apart
<1>2. CASE Create(d)
  <2>1. phase' = [phase EXCEPT ![made + 1] = "fresh"]
    BY <1>2 DEF Create, CreateCall
  <2>2. phase'[m] = phase[m] \/ (m > made /\ phase'[m] = "fresh")
    BY <2>1, ManagerTyped DEF Sound
  <2> QED
    BY <2>2 DEF CallStep, Sound, ManagersMade
<1>3. CASE StartCall(d)
  <2>1. phase' = [phase EXCEPT ![mine[d]] = "initiating"] /\ phase[mine[d]] = "fresh" /\ mine[d] \in Managers
    BY <1>1, <1>3, ManagerTyped DEF StartCall, At, Setting, Sound, ThreadsOwn
  <2> QED
    BY <2>1, OthersKept DEF CallStep, Sound
<1>4. CASE OfferSent(d)
  <2>1. /\ phase' = [phase EXCEPT ![mine[d]] = IF Live(mine[d]) THEN "ringing" ELSE phase[mine[d]]]
        /\ phase[mine[d]] \in Unanswered /\ mine[d] \in Managers
    BY <1>1, <1>4, ManagerTyped DEF OfferSent, At, Sound, ThreadsOwn
  <2>2. Live(mine[d]) => phase[mine[d]] = "initiating"
    BY <2>1, PhasesApart DEF Live, Unanswered
  <2> QED
    BY <2>1, <2>2, OthersKept DEF CallStep, Sound
<1>5. CASE StartFailed(d)
  BY <1>5 DEF StartFailed, managerVars, CallStep
<1> QED
  BY <1>2, <1>3, <1>4, <1>5 DEF DialerStep

LEMMA EndedCalls ==
  ASSUME Sound, NEW m \in Managers, NEW n \in Managers, Live(n), End(n)
  PROVE  CallStep(m)
BY OthersKept DEF End, Live, CallStep, Sound

LEMMA EventCalls ==
  ASSUME Sound, NEW m \in Managers,
         OfferTest \/ OfferCreate \/ HandleCallOffer \/ HandleCallTerminate \/ Ask
  PROVE  CallStep(m)
<1>1. CASE OfferTest \/ Ask
  BY <1>1 DEF OfferTest, Ask, managerVars, CallStep
<1>2. CASE OfferCreate
  <2>1. phase' = [phase EXCEPT ![made + 1] = "fresh"]
    BY <1>2 DEF OfferCreate, CreateCall
  <2>2. phase'[m] = phase[m] \/ (m > made /\ phase'[m] = "fresh")
    BY <2>1, ManagerTyped DEF Sound
  <2> QED
    BY <2>2 DEF CallStep, Sound, ManagersMade
<1>3. CASE HandleCallOffer
  <2>1. /\ phase' = [phase EXCEPT ![mine["event"]] = "incoming_ringing"]
        /\ phase[mine["event"]] = "fresh" /\ mine["event"] \in Managers
    BY <1>3, Apart, ManagerTyped DEF HandleCallOffer, At, Setting, Sound, ThreadsOwn
  <2> QED
    BY <2>1, OthersKept DEF CallStep, Sound
<1>4. CASE HandleCallTerminate
  <2>1. \E n \in Managers : Live(n) /\ End(n)
    BY <1>4, RegTyped, ManagerTyped DEF HandleCallTerminate, EndAndTell, Sound
  <2> QED
    BY <2>1, EndedCalls
<1> QED
  BY <1>1, <1>2, <1>3, <1>4

LEMMA HangupCalls ==
  ASSUME Sound, NEW m \in Managers, NEW h \in Hangups,
         HangUp(h) \/ EndCall(h) \/ RejectCall(h) \/ Remove(h) \/ Drain(h) \/ EndDrained(h)
  PROVE  CallStep(m)
<1>1. CASE HangUp(h) \/ Remove(h) \/ Drain(h) \/ EndDrained(h)
  BY <1>1 DEF HangUp, Remove, Drain, EndDrained, managerVars, CallStep
<1>2. CASE EndCall(h) \/ RejectCall(h)
  <2>1. mine[h] \in Managers
    BY <1>2, Apart, ManagerTyped DEF EndCall, RejectCall, At, Sound, ThreadsOwn
  <2>2. CASE Live(mine[h])
    <3>1. End(mine[h])
      BY <1>2, <2>2 DEF EndCall, RejectCall, EndAndTell
    <3> QED
      BY <2>1, <2>2, <3>1, EndedCalls
  <2>3. CASE ~Live(mine[h])
    BY <1>2, <2>3 DEF EndCall, RejectCall, CallStep
  <2> QED
    BY <2>2, <2>3
<1> QED
  BY <1>1, <1>2

LEMMA OneStepOfACall ==
  ASSUME Sound, [Next]_vars, NEW m \in Managers
  PROVE  CallStep(m)
<1>1. CASE \E n \in Managers : OfferAckError(n) \/ Accept(n) \/ MediaConnect(n)
  <2>1. PICK n \in Managers : OfferAckError(n) \/ Accept(n) \/ MediaConnect(n)
    BY <1>1
  <2>2. CASE OfferAckError(n)
    BY <2>2, EndedCalls, PhasesApart DEF OfferAckError, Live
  <2>3. CASE Accept(n) \/ MediaConnect(n)
    BY <2>3, OthersKept DEF Accept, MediaConnect, CallStep, Sound
  <2> QED
    BY <2>1, <2>2, <2>3
<1>2. CASE (\E r \in Requests : Dial(r)) \/ \E p \in Peers : Wake(p)
  BY <1>2 DEF Dial, Wake, managerVars, CallStep
<1>3. CASE \E d \in Dialers : DialerStep(d)
  BY <1>3, DialCalls
<1>4. CASE OfferTest \/ OfferCreate \/ HandleCallOffer \/ HandleCallTerminate \/ Ask
  BY <1>4, EventCalls
<1>5. CASE \E h \in Hangups : HangUp(h) \/ EndCall(h) \/ RejectCall(h) \/ Remove(h) \/ Drain(h)
                               \/ EndDrained(h)
  BY <1>5, HangupCalls
<1>6. CASE UNCHANGED vars
  BY <1>6 DEF vars, managerVars, CallStep
<1> QED
  BY <1>1, <1>2, <1>3, <1>4, <1>5, <1>6 DEF Next

(* It is a step of the contract, or none. *)
LEMMA ContractStep ==
  ASSUME NEW m \in Managers, CallStep(m)
  PROVE  [Manager(m)!Next]_(Manager(m)!vars)
<1>1. CASE phase'[m] = phase[m]
  BY <1>1 DEF Manager!vars
<1>2. CASE phase[m] = "none" /\ phase'[m] = "fresh"
  BY <1>2 DEF Manager!vars, Talking
<1>3. CASE phase[m] = "fresh" /\ phase'[m] \in {"initiating", "incoming_ringing"}
  BY <1>3 DEF Manager!Next, Manager!Create, Talking
<1>4. CASE phase[m] = "initiating" /\ phase'[m] = "ringing"
  BY <1>4 DEF Manager!Next, Manager!Advance, Manager!Edge, Talking
<1>5. CASE phase[m] \in {"ringing", "incoming_ringing"} /\ phase'[m] = "connecting"
  BY <1>5 DEF Manager!Next, Manager!Advance, Manager!Edge, Talking
<1>6. CASE phase[m] = "connecting" /\ phase'[m] = "active"
  BY <1>6 DEF Manager!Next, Manager!Advance, Manager!Edge, Talking
<1>7. CASE phase[m] \in Talking /\ phase'[m] = "ended"
  BY <1>7 DEF Manager!Next, Manager!Drop, Talking
<1> QED
  BY <1>1, <1>2, <1>3, <1>4, <1>5, <1>6, <1>7 DEF CallStep

(* Whatever the goroutines of several calls do, each manager of the session keeps the  *)
(* contract that CallManager was shown to implement: its call begins once, moves        *)
(* forward only, and is not answered before its offer is out.                      *)
THEOREM EachManagerKeepsContract == Spec => ManagersKeepContract
<1>1. Init => \A m \in Managers : Manager(m)!Init
  BY DEF Init, Manager!Init, Talking
<1>2. IndInv /\ [Next]_vars => \A m \in Managers : [Manager(m)!Next]_(Manager(m)!vars)
  BY OneStepOfACall, ContractStep DEF IndInv, Sound
<1> QED
  BY InitInv, StepInv, <1>1, <1>2, PTL DEF Spec, ManagersKeepContract

(* The same for one manager, as a refinement: a behaviour of the session is one of the *)
(* contract for any manager of it.                                               *)
THEOREM ManagerImplementsContract ==
  ASSUME NEW m \in Managers
  PROVE  Spec => Manager(m)!Spec
<1>1. Init => Manager(m)!Init
  BY DEF Init, Manager!Init, Talking
<1>2. IndInv /\ [Next]_vars => [Manager(m)!Next]_(Manager(m)!vars)
  BY OneStepOfACall, ContractStep DEF IndInv, Sound
<1> QED
  BY InitInv, StepInv, <1>1, <1>2, PTL DEF Spec, Manager!Spec
=============================================================================

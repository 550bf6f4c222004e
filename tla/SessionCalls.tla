----------------------------- MODULE SessionCalls -----------------------------
(***************************************************************************)
(* All the calls of one session (cmd/server/session.go, httpapi.go): requests  *)
(* that dial, offers that come in, auto-callbacks, hang-ups and the shutdown   *)
(* of the session, over one registry.                                        *)
(*                                                                         *)
(* A manager is one call of createCall, and its call id is its own.  Of a      *)
(* manager only its currentCall is kept (CallManager has the rest), and        *)
(* nothing of the broker's records, which CallRecords models for one call: an   *)
(* operator who is busy is not turned away here, so more dials happen than the *)
(* server lets happen.  What is left is what the goroutines of several calls   *)
(* do to each other: a limit tested before it is used up, a hang-up of a call  *)
(* that is not there yet, a shutdown while calls are set up, a miss that        *)
(* becomes a call.                                                           *)
(***************************************************************************)
EXTENDS Naturals, FiniteSets

CONSTANTS
  Requests,      \* HTTP handlers that dial
  Hangups,       \* goroutines that reject or end a call, or tear all of them down
  Peers,         \* the phones at the other end
  MaxCalls,      \* the session's limit of calls, above 0
  MaxDialled     \* bound: calls made by requests and offers

ASSUME SessionAssumption ==
  /\ MaxCalls \in Nat \ {0}
  /\ MaxDialled \in Nat
  /\ IsFiniteSet(Requests) /\ IsFiniteSet(Peers)
  /\ Requests \cap Peers = {} /\ Hangups \cap (Requests \cup Peers) = {}
  /\ "event" \notin Requests \cup Peers \cup Hangups

(* The debounce makes at most one call back of each peer in two minutes, the time  *)
(* a behaviour covers.                                                       *)
Managers == 1..(MaxDialled + Cardinality(Peers))

NoManager == 0

(* A request's goroutine, and the one scheduleAutoCallback starts for a peer.   *)
Dialers == Requests \cup Peers

(* whatsmeow runs its handlers one at a time.                                  *)
Threads == Dialers \cup Hangups \cup {"event"}

Labels == {"idle", "sleep", "create", "start", "query", "offer", "end", "reject", "remove",
           "drained"}

Talking == {"initiating", "ringing", "incoming_ringing", "connecting", "active"}

Phases == Talking \cup {"none", "fresh", "ended"}

VARIABLES
  made,      \* managers made so far: 1..made
  dials,     \* how many of them requests and offers made
  kind,      \* how a manager came to be
  peer,      \* its PeerJid
  phase,     \* its currentCall: none yet, "fresh" while it is set up, then the state of the call
  reg,       \* callRegistry: the managers it holds
  pc, mine,  \* each goroutine's next step and the manager it works on
  jobs,      \* what a teardownAllCalls has drained and has yet to end
  recent,    \* peers called back less than two minutes ago (lastCallbacks)
  crashed,   \* a panic in a goroutine that nothing recovers
  due,       \* history: peers to whom a call back is due
  dropped    \* history: live managers that were taken out without being ended

managerVars == <<made, dials, kind, peer, phase>>
threadVars  == <<pc, mine, jobs>>
callbackVars == <<recent, due>>
vars == <<managerVars, reg, threadVars, callbackVars, crashed, dropped>>

(* Every variable has its type.                                              *)
TypeOK ==
  /\ made \in Managers \cup {0}
  /\ dials \in 0..MaxDialled
  /\ kind \in [Managers -> {"none", "api", "callback", "offer"}]
  /\ peer \in [Managers -> Peers \cup {NoManager}]
  /\ phase \in [Managers -> Phases]
  /\ reg \subseteq 1..made
  /\ pc \in [Threads -> Labels]
  /\ mine \in [Threads -> Managers \cup {NoManager}]
  /\ jobs \in [Hangups -> SUBSET Managers]
  /\ recent \subseteq Peers /\ due \subseteq Peers
  /\ crashed \in BOOLEAN
  /\ dropped \subseteq 1..made

Init ==
  /\ made = 0 /\ dials = 0
  /\ kind = [m \in Managers |-> "none"]
  /\ peer = [m \in Managers |-> NoManager]
  /\ phase = [m \in Managers |-> "none"]
  /\ reg = {}
  /\ pc = [t \in Threads |-> "idle"]
  /\ mine = [t \in Threads |-> NoManager]
  /\ jobs = [h \in Hangups |-> {}]
  /\ recent = {} /\ due = {}
  /\ crashed = FALSE
  /\ dropped = {}

----------------------------------------------------------------------------
At(t, l) == pc[t] = l /\ ~crashed

Goto(t, l) ==
  /\ pc' = [pc EXCEPT ![t] = l]
  /\ mine' = [mine EXCEPT ![t] = IF l = "idle" THEN NoManager ELSE @]

Take(t, l, m) ==
  /\ pc' = [pc EXCEPT ![t] = l]
  /\ mine' = [mine EXCEPT ![t] = m]

(* createCall: a manager with its callbacks, in the registry.                   *)
CreateCall(k, p) ==
  /\ k # "callback" => dials < MaxDialled
  /\ dials' = IF k = "callback" THEN dials ELSE dials + 1
  /\ made' = made + 1
  /\ kind' = [kind EXCEPT ![made + 1] = k]
  /\ peer' = [peer EXCEPT ![made + 1] = p]
  /\ phase' = [phase EXCEPT ![made + 1] = "fresh"]
  /\ reg' = reg \cup {made + 1}

(* The manager has a call that is not over.                                    *)
Live(m) == phase[m] \in Talking

(* An ended call: nobody asks any more what it was.                             *)
End(m) ==
  /\ phase' = [phase EXCEPT ![m] = "ended"]
  /\ kind' = [kind EXCEPT ![m] = "none"]
  /\ peer' = [peer EXCEPT ![m] = NoManager]
  /\ dropped' = dropped \ {m}

Full == Cardinality(reg) >= MaxCalls

----------------------------------------------------------------------------
(* scheduleAutoCallback with the agent enabled: a peer that is not debounced gets *)
(* a goroutine.                                                              *)

(* Mutant: the peer is noted as called back, and nobody calls him.              *)
ScheduleAutoCallbackMutant(p, moved) ==
  /\ pc' = moved
  /\ recent' = recent \cup {p}
  /\ due' = IF p \in recent THEN due ELSE due \cup {p}


ScheduleAutoCallback(p, moved) ==
  IF p \in recent
  THEN pc' = moved /\ UNCHANGED callbackVars
  ELSE /\ pc' = [moved EXCEPT ![p] = "sleep"]
       /\ recent' = recent \cup {p}
       /\ due' = due \cup {p}

TalksTo(p) == \E m \in reg : phase[m] = "active" /\ peer[m] = p

(* After 4 s: unless a call with the peer is active by now.                     *)
Wake(p) ==
  /\ At(p, "sleep")
  /\ Goto(p, IF TalksTo(p) THEN "idle" ELSE "create")
  /\ due' = IF TalksTo(p) THEN due \ {p} ELSE due
  /\ UNCHANGED <<managerVars, reg, jobs, recent, crashed, dropped>>

----------------------------------------------------------------------------
(* doStartCall and handleDirectDial test the limit, and hold nothing from there  *)
(* to createCall.                                                            *)

Dial(r) ==
  /\ At(r, "idle")
  /\ ~Full
  /\ Goto(r, "create")
  /\ UNCHANGED <<managerVars, reg, jobs, callbackVars, crashed, dropped>>

DialPeer(d) == IF d \in Peers THEN {d} ELSE Peers

(* startOutgoingWithGreeting: the id is announced before StartCall has made the   *)
(* call.                                                                     *)
Create(d) ==
  /\ At(d, "create")
  /\ \E p \in DialPeer(d) : CreateCall(IF d \in Peers THEN "callback" ELSE "api", p)
  /\ Take(d, "start", made + 1)
  /\ due' = due \ {d}
  /\ UNCHANGED <<jobs, recent, crashed, dropped>>

StartCall(d) ==
  /\ At(d, "start")
  /\ phase' = [phase EXCEPT ![mine[d]] = "initiating"]
  /\ Goto(d, "query")
  /\ UNCHANGED <<made, dials, kind, peer, reg, jobs, callbackVars, crashed, dropped>>

(* The offer is out.  A call that ended meanwhile has left no currentCall, and     *)
(* the transition panics: net/http recovers that of a request, nothing that of    *)
(* the callback's goroutine.                                                  *)
OfferSent(d) ==
  /\ At(d, "query")
  /\ Goto(d, "idle")
  /\ phase' = [phase EXCEPT ![mine[d]] = IF Live(mine[d]) THEN "ringing" ELSE @]
  /\ crashed' = (d \in Peers /\ ~Live(mine[d]))
  /\ UNCHANGED <<made, dials, kind, peer, reg, jobs, callbackVars, dropped>>

(* The offer could not be sent or its answer did not come in time: the entry      *)
(* goes, the manager keeps its call.                                           *)
StartFailed(d) ==
  /\ At(d, "query")
  /\ reg' = reg \ {mine[d]}
  /\ dropped' = IF Live(mine[d]) THEN dropped \cup {mine[d]} ELSE dropped
  /\ Goto(d, "idle")
  /\ UNCHANGED <<managerVars, jobs, callbackVars, crashed>>

(* HandleCallAck of an offer the server refused, which StartCall hands it once the   *)
(* offer is out: the report of the ended call takes it out.                         *)
OfferAckError(m) ==
  /\ ~crashed
  /\ phase[m] = "ringing"
  /\ End(m)
  /\ reg' = reg \ {m}
  /\ UNCHANGED <<made, dials, threadVars, callbackVars, crashed>>

----------------------------------------------------------------------------
(* handleEvent: offers, accepts, terminates, rejects and requests for a call.     *)

(* Mutant: the offer is not counted against the limit.                         *)
OfferTestMutant ==
  /\ At("event", "idle")
  /\ Goto("event", "create")
  /\ UNCHANGED <<managerVars, reg, jobs, callbackVars, crashed, dropped>>

(* onIncomingOffer: at its limit the session rejects, and nothing changes.        *)
OfferTest ==
  /\ At("event", "idle")
  /\ ~Full
  /\ Goto("event", "create")
  /\ UNCHANGED <<managerVars, reg, jobs, callbackVars, crashed, dropped>>

OfferCreate ==
  /\ At("event", "create")
  /\ \E p \in Peers : CreateCall("offer", p)
  /\ Take("event", "offer", made + 1)
  /\ UNCHANGED <<jobs, callbackVars, crashed, dropped>>

HandleCallOffer ==
  /\ At("event", "offer")
  /\ phase' = [phase EXCEPT ![mine["event"]] = "incoming_ringing"]
  /\ Goto("event", "idle")
  /\ UNCHANGED <<made, dials, kind, peer, reg, jobs, callbackVars, crashed, dropped>>

(* Mutant: an accept is applied to a call whose offer is not recorded as sent.       *)
AcceptMutant(m) ==
  /\ ~crashed
  /\ phase[m] \in {"initiating", "ringing", "incoming_ringing"}
  /\ phase[m] # "incoming_ringing" => m \in reg /\ pc["event"] = "idle"
  /\ phase' = [phase EXCEPT ![m] = "connecting"]
  /\ UNCHANGED <<made, dials, kind, peer, reg, threadVars, callbackVars, crashed, dropped>>

(* The peer answers a call of ours; a call out of the registry is not told, and to    *)
(* one whose offer is not recorded as sent the transition is illegal: the accept is   *)
(* lost.  An incoming call is answered by doAccept, which holds its manager since     *)
(* the registry gave it, or by the auto-answer.                                    *)
Accept(m) ==
  /\ ~crashed
  /\ phase[m] \in {"ringing", "incoming_ringing"}
  /\ phase[m] = "ringing" => m \in reg /\ pc["event"] = "idle"
  /\ phase' = [phase EXCEPT ![m] = "connecting"]
  /\ UNCHANGED <<made, dials, kind, peer, reg, threadVars, callbackVars, crashed, dropped>>

(* The relay opens (OnRelayOpened and the tails of the accepts).                  *)
MediaConnect(m) ==
  /\ ~crashed
  /\ phase[m] = "connecting"
  /\ phase' = [phase EXCEPT ![m] = "active"]
  /\ UNCHANGED <<made, dials, kind, peer, reg, threadVars, callbackVars, crashed, dropped>>

(* OnEnded: an incoming call whose entry is gone, that never was active or that    *)
(* had no audio was missed.                                                    *)
Missed(m) ==
  IF kind[m] # "offer" THEN {FALSE}
  ELSE IF m \in reg /\ phase[m] = "active" THEN BOOLEAN ELSE {TRUE}

(* EndCall or HandleCallTerminate, with the OnEnded that follows it.               *)
EndAndTell(m, moved) ==
  /\ End(m)
  /\ reg' = reg \ {m}
  /\ \E missed \in Missed(m) :
       IF missed THEN ScheduleAutoCallback(peer[m], moved) ELSE pc' = moved /\ UNCHANGED callbackVars

(* CallTerminate and CallReject; one for a call out of the registry goes to no one. *)
HandleCallTerminate ==
  /\ At("event", "idle")
  /\ \E m \in reg : Live(m) /\ EndAndTell(m, pc)
  /\ UNCHANGED <<made, dials, mine, jobs, crashed>>

(* CallOfferNotice, and a message that asks for a call.                          *)
Ask ==
  /\ At("event", "idle")
  /\ \E p \in Peers : ScheduleAutoCallback(p, pc)
  /\ UNCHANGED <<managerVars, reg, mine, jobs, crashed, dropped>>

----------------------------------------------------------------------------
(* doEndCall, doReject, TerminalICE and teardownAllCalls.                         *)

HangUp(h) ==
  /\ At(h, "idle")
  /\ \E m \in reg, l \in {"end", "reject"} : Take(h, l, m)
  /\ UNCHANGED <<managerVars, reg, jobs, callbackVars, crashed, dropped>>

(* Mutant: EndCall refuses a call that has not been answered.                     *)
EndCallMutant(h) ==
  /\ At(h, "end")
  /\ IF phase[mine[h]] \in {"connecting", "active"}
     THEN EndAndTell(mine[h], [pc EXCEPT ![h] = "remove"])
     ELSE /\ pc' = [pc EXCEPT ![h] = "remove"]
          /\ dropped' = IF phase[mine[h]] = "fresh" THEN dropped \cup {mine[h]} ELSE dropped
          /\ UNCHANGED <<kind, peer, phase, reg, callbackVars>>
  /\ UNCHANGED <<made, dials, mine, jobs, crashed>>

(* Before StartCall or HandleCallOffer there is no call to end.                    *)
EndCall(h) ==
  /\ At(h, "end")
  /\ IF Live(mine[h])
     THEN EndAndTell(mine[h], [pc EXCEPT ![h] = "remove"])
     ELSE /\ pc' = [pc EXCEPT ![h] = "remove"]
          /\ dropped' = IF phase[mine[h]] = "fresh" THEN dropped \cup {mine[h]} ELSE dropped
          /\ UNCHANGED <<kind, peer, phase, reg, callbackVars>>
  /\ UNCHANGED <<made, dials, mine, jobs, crashed>>

(* RejectCall does not call OnEnded.                                             *)
RejectCall(h) ==
  /\ At(h, "reject")
  /\ IF Live(mine[h]) THEN End(mine[h])
     ELSE /\ dropped' = IF phase[mine[h]] = "fresh" THEN dropped \cup {mine[h]} ELSE dropped
          /\ UNCHANGED <<kind, peer, phase>>
  /\ Goto(h, "remove")
  /\ UNCHANGED <<made, dials, reg, jobs, callbackVars, crashed>>

(* removeCall; in a shutdown the entry is gone already.                            *)
Remove(h) ==
  /\ At(h, "remove")
  /\ reg' = reg \ {mine[h]}
  /\ Goto(h, IF jobs[h] = {} THEN "idle" ELSE "drained")
  /\ UNCHANGED <<managerVars, jobs, callbackVars, crashed, dropped>>

(* drain empties the registry under its lock; its calls are ended one by one.      *)
Drain(h) ==
  /\ At(h, "idle")
  /\ reg # {}
  /\ jobs' = [jobs EXCEPT ![h] = reg]
  /\ reg' = {}
  /\ Goto(h, "drained")
  /\ UNCHANGED <<managerVars, callbackVars, crashed, dropped>>

EndDrained(h) ==
  /\ At(h, "drained")
  /\ \E m \in jobs[h] : Take(h, "end", m) /\ jobs' = [jobs EXCEPT ![h] = @ \ {m}]
  /\ UNCHANGED <<managerVars, reg, callbackVars, crashed, dropped>>

----------------------------------------------------------------------------
DialerStep(d) == Create(d) \/ StartCall(d) \/ OfferSent(d) \/ StartFailed(d)

Next ==
  \/ \E m \in Managers : OfferAckError(m) \/ Accept(m) \/ MediaConnect(m)
  \/ \E r \in Requests : Dial(r)
  \/ \E d \in Dialers : DialerStep(d)
  \/ \E p \in Peers : Wake(p)
  \/ OfferTest \/ OfferCreate \/ HandleCallOffer \/ HandleCallTerminate \/ Ask
  \/ \E h \in Hangups : HangUp(h) \/ EndCall(h) \/ RejectCall(h) \/ Remove(h) \/ Drain(h)
                       \/ EndDrained(h)

Spec == Init /\ [][Next]_vars

(* Goroutines run, sleeps end and a query has a deadline; nobody has to call,       *)
(* answer or hang up.                                                           *)
FairSpec ==
  /\ Spec
  /\ \A d \in Dialers : WF_vars(DialerStep(d))
  /\ \A p \in Peers : WF_vars(Wake(p))

----------------------------------------------------------------------------
(* Properties.                                                                *)

Testers == Requests \cup {"event"}

Tested == {m \in reg : kind[m] \in {"api", "offer"}}

(* The limit of calls is tested apart from its use, so it is exceeded, but only by   *)
(* as many calls as were being set up at once beyond the first.  Calls back are      *)
(* made whatever the limit says, and are not counted here.                         *)
LimitUpToRacers ==
  Cardinality(Tested) + Cardinality({t \in Testers : pc[t] = "create"})
    <= MaxCalls - 1 + Cardinality(Testers)

Holding(m) == \E h \in Hangups : m \in jobs[h] \/ (mine[h] = m /\ pc[h] \in {"end", "reject"})

(* A call that rings or talks can still be ended from here: the registry has it, or  *)
(* the goroutine that took it out has yet to end it.  What escapes is a call hung     *)
(* up before it was there, and one whose offer went unanswered.                    *)
LiveCallsReachable ==
  \A m \in Managers : Live(m) /\ m \notin reg => m \in dropped \/ Holding(m)

(* Who was missed or asked for a call is dialled, unless a call with him is active    *)
(* when the goroutine wakes up, or the process is gone.                             *)
MissedCalledBack == \A p \in Peers : p \in due ~> (p \notin due \/ crashed)

(* What CallContract promises of one manager: here, of the life of its call.  The      *)
(* reports of it are CallManager's.                                             *)
Manager(m) == INSTANCE CallContract WITH
  phase     <- IF phase[m] = "fresh" THEN "none" ELSE phase[m],
  tracked   <- phase[m] \in Talking,
  told      <- "none",
  nIncoming <- 0,
  nEnded    <- 0

(* Each of the session's managers keeps the contract, whatever the goroutines of its   *)
(* own call and of the others do to it: one call, that moves forward only, is not       *)
(* answered before its offer is out, and is dropped once.                          *)
ManagersKeepContract ==
  /\ \A m \in Managers : Manager(m)!Init
  /\ [][\A m \in Managers : [Manager(m)!Next]_(Manager(m)!vars)]_vars

----------------------------------------------------------------------------
(* The inductive invariant behind the safety properties.                          *)

Setting == {"start", "offer"}

Unanswered == {"initiating", "ended"}

(* Who sets a call up has it to himself until its offer is out, and nobody answers it   *)
(* before; who hangs up has one that was made.                                     *)
ThreadsOwn ==
  /\ \A t \in Threads :
       /\ pc[t] \in Setting => mine[t] \in 1..made /\ phase[mine[t]] = "fresh"
       /\ pc[t] = "query" => mine[t] \in 1..made /\ phase[mine[t]] \in Unanswered
       /\ pc[t] \in {"end", "reject", "remove"} => mine[t] \in 1..made
  /\ \A t, u \in Threads :
       t # u /\ pc[t] \in Setting \cup {"query"} /\ pc[u] \in Setting \cup {"query"} => mine[t] # mine[u]
  /\ \A h \in Hangups : jobs[h] \subseteq 1..made /\ (pc[h] = "idle" => jobs[h] = {})

ManagersMade ==
  \A m \in Managers : /\ m > made => phase[m] = "none"
                      /\ kind[m] # "none" => peer[m] \in Peers

(* Once EndCall or RejectCall is through, its call is over or has escaped.           *)
HungUp ==
  \A h \in Hangups : pc[h] = "remove" =>
    phase[mine[h]] \in {"none", "ended"} \/ mine[h] \in dropped

(* A call that is not set up yet is reachable as well.                              *)
AllReachable ==
  \A m \in Managers : phase[m] \in Talking \cup {"fresh"} /\ m \notin reg =>
    m \in dropped \/ Holding(m)

(* Peers whose callback is past the debounce and the making of its call.             *)
Called == {p \in recent : pc[p] \notin {"sleep", "create"}}

(* No peer is called back twice, so there are no more managers than there may be.     *)
CalledOnce ==
  /\ \A p \in Peers : p \notin recent => pc[p] = "idle"
  /\ made <= dials + Cardinality(Called)

IndInv ==
  /\ TypeOK /\ ThreadsOwn /\ ManagersMade /\ HungUp /\ AllReachable /\ CalledOnce
  /\ LimitUpToRacers
=============================================================================

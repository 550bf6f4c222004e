----------------------------- MODULE CallRecords -----------------------------
(***************************************************************************)
(* One call as the server around the CallManager keeps it: the Session's    *)
(* registry entry (cmd/server/callregistry.go), the Broker's record         *)
(* (broker.go), the browser's WebRTC bridges (bridge.go), and the callbacks  *)
(* and HTTP handlers that keep them in step (session.go, httpapi.go).       *)
(*                                                                         *)
(* The manager is CallContract, which CallManager implements: every step of  *)
(* the manager here is a step of the contract.  OnStateChange runs with the  *)
(* manager's lock held; OnIncoming, OnEnded and the handlers run without it. *)
(* The registry's and the broker's operations are atomic, each under its own *)
(* mutex, and everything between two of them may interleave.                 *)
(***************************************************************************)
EXTENDS Naturals

CONSTANTS
  Clients,   \* requests to accept, reject or end the call, one of each client
  Bridges,   \* requests for a bridge (POST webrtc), each with the bridge it makes
  Nobody     \* no owner, no bridge, no holder of the manager's lock

(* "dial" runs doStartCall or an auto-callback, "event" whatsmeow's events,    *)
(* "ack" HandleCallAck, "auto" the auto-answer, "relay" the callback of an     *)
(* opened relay or the tail of an accept, "teardown" teardownAllCalls.        *)
Others == {"dial", "event", "ack", "auto", "relay", "teardown"}

Threads == Clients \cup Bridges \cup Others

ASSUME ThreadsAssumption ==
  /\ Clients \cap Bridges = {}
  /\ (Clients \cup Bridges) \cap Others = {}
  /\ Nobody \notin Threads

Labels == {"idle", "announce", "create", "query", "sent", "failed", "failedFile", "placed",
           "offer", "incoming", "report", "accepted", "terminated", "strayEnd", "offerAck",
           "autoAnswer", "accept", "claim", "reject", "end", "setBridge", "wired",
           "onEnded", "endedRemove", "endedFile", "remove", "file", "closeHeld",
           "done"}

VARIABLES
  phase, tracked, told, nIncoming, nEnded,   \* the manager, as in CallContract
  dir,         \* the call is outgoing or incoming
  connected,   \* the call's ConnectedAt # nil
  reporter,    \* the goroutine that holds the manager's lock over steps
  report,      \* what it does next with it
  seen,        \* the owner in the snapshot OnStateChange took of the record
  pc,          \* what each goroutine does next
  registered,  \* the registry holds the call's activeCall
  bridge,      \* activeCall.bridge
  audio,       \* activeCall.peerAudioReceived
  conn,        \* the peer connection of each bridge
  live,        \* the broker's record of the call in b.calls
  filed,       \* {} or the owner in the call's first record in b.history
  verdict      \* what OnEnded made of the call

managerVars == <<phase, tracked, told, nIncoming, nEnded>>
lockVars    == <<reporter, report, seen>>
entryVars   == <<registered, bridge, audio, conn>>
recordVars  == <<live, filed>>
vars == <<managerVars, dir, connected, lockVars, pc, entryVars, recordVars, verdict>>

Manager == INSTANCE CallContract

NoRecord == [status |-> "none", owner |-> Nobody, connectedAt |-> FALSE]

(* Of a CallRecord only what is read back: times, peer, events, outcome text   *)
(* and transcripts are left out.                                             *)
Owners == Clients \cup {"dial", Nobody}

CallRecord == [status : {"starting", "ringing", "connected"}, owner : Owners,
               connectedAt : BOOLEAN]

(* Every variable has its type.                                              *)
TypeOK ==
  /\ phase \in Manager!States \cup {"none"}
  /\ tracked \in BOOLEAN
  /\ told \in Manager!States \cup {"none"}
  /\ nIncoming \in 0..1
  /\ nEnded \in 0..1
  /\ dir \in Manager!Directions
  /\ connected \in BOOLEAN
  /\ reporter \in Threads \cup {Nobody}
  /\ report \in {"none", "read", "write", "remove", "file", "panicked"}
  /\ seen \in Owners
  /\ pc \in [Threads -> Labels]
  /\ registered \in BOOLEAN
  /\ bridge \in Bridges \cup {Nobody}
  /\ audio \in BOOLEAN
  /\ conn \in [Bridges -> {"none", "open", "closed"}]
  /\ live \in CallRecord \cup {NoRecord}
  /\ filed \in {{}} \cup {{owner} : owner \in Owners}
  /\ verdict \in {"none", "completed", "missed", "ended"}

Init ==
  /\ Manager!Init
  /\ dir \in Manager!Directions
  /\ connected = FALSE
  /\ reporter = Nobody
  /\ report = "none"
  /\ seen = Nobody
  /\ pc = [t \in Threads |-> "idle"]
  /\ registered = FALSE
  /\ bridge = Nobody
  /\ audio = FALSE
  /\ conn = [b \in Bridges |-> "none"]
  /\ live = NoRecord
  /\ filed = {}
  /\ verdict = "none"

----------------------------------------------------------------------------
(* A goroutine that reports a state goes on when its report is done.         *)
At(t, l) == pc[t] = l /\ reporter # t

Goto(t, l) == pc' = [pc EXCEPT ![t] = l]

Locks == reporter = Nobody

(* Mutant: upsertCall does not merge.                                        *)
UpsertCallMutant(status, owner, connectedAt) ==
  live' = [status |-> status, owner |-> owner, connectedAt |-> connectedAt]

(* broker.upsertCall keeps ConnectedAt of a record it replaces, and puts the    *)
(* call among the live ones whether or not it has been filed.                *)
UpsertCall(status, owner, connectedAt) ==
  live' = [status |-> status, owner |-> owner,
           connectedAt |-> connectedAt \/ live.connectedAt]

(* broker.endCall                                                          *)
FileCall ==
  /\ live' = NoRecord
  /\ filed' = IF live # NoRecord /\ filed = {} THEN {live.owner} ELSE filed

(* Session.removeCall: whoever takes the entry out closes its bridge.         *)
RemoveCall ==
  /\ registered' = FALSE
  /\ conn' = IF registered /\ bridge # Nobody THEN [conn EXCEPT ![bridge] = "closed"] ELSE conn
  /\ UNCHANGED <<bridge, audio>>

(* A step of the manager to phase p, which emitState reports while the call    *)
(* is tracked: the lock is then held until OnStateChange returns.            *)
Advance(t, p) ==
  /\ Locks
  /\ phase' = p
  /\ told' = IF tracked THEN p ELSE told
  /\ Manager!Advance
  /\ connected' = (connected \/ p = "active")
  /\ IF tracked THEN reporter' = t /\ report' = "read" ELSE UNCHANGED <<reporter, report>>
  /\ UNCHANGED seen

(* EndCall and HandleCallTerminate: nothing is emitted, currentCall is nil.    *)
DropEnded ==
  /\ Locks
  /\ tracked
  /\ phase' = "ended"
  /\ Manager!Drop

----------------------------------------------------------------------------
(* OnStateChange, with the manager's lock held.                             *)

(* getCall falls back to the history; of what it returns, the owner.          *)
GetCall ==
  IF live # NoRecord \/ filed = {} THEN live.owner ELSE CHOOSE owner \in filed : TRUE

ReportRead ==
  /\ report = "read"
  /\ IF told = "ended" THEN report' = "remove" /\ UNCHANGED seen
                       ELSE report' = "write" /\ seen' = GetCall
  /\ UNCHANGED <<managerVars, dir, connected, reporter, pc, entryVars, recordVars, verdict>>

MapStatus(p) ==
  CASE p \in {"active", "connecting"} -> "connected"
    [] p = "initiating" -> "starting"
    [] OTHER -> "ringing"

ReportDone == reporter' = Nobody /\ report' = "none" /\ seen' = Nobody

ReportWrite ==
  /\ report = "write"
  /\ UpsertCall(MapStatus(told), seen, told = "active")
  /\ ReportDone
  /\ UNCHANGED <<managerVars, dir, connected, pc, entryVars, filed, verdict>>

(* Mutant: the report of an end closes the agent and returns.                 *)
ReportRemoveMutant ==
  /\ report = "remove"
  /\ ReportDone
  /\ UNCHANGED <<managerVars, dir, connected, pc, entryVars, recordVars, verdict>>

ReportRemove ==
  /\ report = "remove"
  /\ RemoveCall
  /\ report' = "file"
  /\ UNCHANGED <<managerVars, dir, connected, reporter, seen, pc, recordVars, verdict>>

ReportFile ==
  /\ report = "file"
  /\ FileCall
  /\ ReportDone
  /\ UNCHANGED <<managerVars, dir, connected, pc, entryVars, verdict>>

Report == ReportRead \/ ReportWrite \/ ReportRemove \/ ReportFile

----------------------------------------------------------------------------
(* Outgoing call: doStartCall and startOutgoingWithGreeting.                *)

(* The check of the owner's other calls and of the number of calls is left     *)
(* out: there is one call.  createCall registers it,                         *)
CreateOutgoing ==
  /\ At("dial", "idle")
  /\ dir = "outgoing"
  /\ phase = "none" /\ live = NoRecord /\ filed = {}
  /\ registered' = TRUE
  /\ Goto("dial", "announce")
  /\ UNCHANGED <<managerVars, dir, connected, lockVars, bridge, audio, conn, recordVars, verdict>>

(* the broker publishes it as starting, before StartCall knows of it.         *)
Announce ==
  /\ At("dial", "announce")
  /\ UpsertCall("starting", Nobody, FALSE)
  /\ Goto("dial", "create")
  /\ UNCHANGED <<managerVars, dir, connected, lockVars, entryVars, filed, verdict>>

StartCall ==
  /\ At("dial", "create")
  /\ Locks
  /\ phase' = "initiating"
  /\ Manager!Create
  /\ Goto("dial", "query")
  /\ UNCHANGED <<dir, connected, lockVars, entryVars, recordVars, verdict>>

(* The offer is answered, or building or sending it fails.                    *)
OfferQuery ==
  /\ At("dial", "query")
  /\ \E next \in {"sent", "failed"} : Goto("dial", next)
  /\ UNCHANGED <<managerVars, dir, connected, lockVars, entryVars, recordVars, verdict>>

(* Only a request of the API records the call once more.                      *)
OfferSent ==
  /\ At("dial", "sent")
  /\ tracked
  /\ Advance("dial", "ringing")
  /\ \E next \in {"idle", "placed"}, answer \in {"idle", "offerAck"} :
       pc' = [pc EXCEPT !["dial"] = next, !["ack"] = answer]
  /\ UNCHANGED <<dir, entryVars, recordVars, verdict>>

(* StartCall's panic, see CallManager: the lock is gone for good.             *)
OfferSentPanics ==
  /\ At("dial", "sent")
  /\ Locks
  /\ ~tracked
  /\ reporter' = "dial"
  /\ report' = "panicked"
  /\ Goto("dial", "idle")
  /\ UNCHANGED <<managerVars, dir, connected, seen, entryVars, recordVars, verdict>>

StartFailed ==
  /\ At("dial", "failed")
  /\ RemoveCall
  /\ Goto("dial", "failedFile")
  /\ UNCHANGED <<managerVars, dir, connected, lockVars, recordVars, verdict>>

StartFailedFile ==
  /\ At("dial", "failedFile")
  /\ FileCall
  /\ Goto("dial", "idle")
  /\ UNCHANGED <<managerVars, dir, connected, lockVars, entryVars, verdict>>

(* The handler's own upsert, with the operator who dialled as the owner: "dial". *)
Placed ==
  /\ At("dial", "placed")
  /\ UpsertCall("ringing", "dial", FALSE)
  /\ Goto("dial", "idle")
  /\ UNCHANGED <<managerVars, dir, connected, lockVars, entryVars, filed, verdict>>

(* HandleCallAck with an error ends the call and reports it; the call stays    *)
(* the manager's current one and OnEnded is not called.                      *)
OfferAckError ==
  /\ At("ack", "offerAck")
  /\ IF tracked
       THEN Advance("ack", "ended")
       ELSE Locks /\ UNCHANGED <<managerVars, connected, lockVars>>
  /\ Goto("ack", "idle")
  /\ UNCHANGED <<dir, entryVars, recordVars, verdict>>

OfferAck ==
  /\ At("ack", "offerAck")
  /\ Goto("ack", "idle")
  /\ UNCHANGED <<managerVars, dir, connected, lockVars, entryVars, recordVars, verdict>>

Dial == OfferQuery \/ Announce \/ StartCall \/ OfferSent \/ OfferSentPanics \/ StartFailed
          \/ StartFailedFile \/ Placed

Ack == OfferAckError \/ OfferAck

----------------------------------------------------------------------------
(* Incoming call: onIncomingOffer and the auto-answer.                      *)

CreateIncoming ==
  /\ At("event", "idle")
  /\ dir = "incoming"
  /\ phase = "none"
  /\ registered' = TRUE
  /\ Goto("event", "offer")
  /\ UNCHANGED <<managerVars, dir, connected, lockVars, bridge, audio, conn, recordVars, verdict>>

HandleCallOffer ==
  /\ At("event", "offer")
  /\ Locks
  /\ phase' = "incoming_ringing"
  /\ Manager!Create
  /\ Goto("event", "incoming")
  /\ UNCHANGED <<dir, connected, lockVars, entryVars, recordVars, verdict>>

(* OnIncoming                                                              *)
OnIncoming ==
  /\ At("event", "incoming")
  /\ Manager!NotifyIncoming
  /\ UpsertCall("ringing", Nobody, FALSE)
  /\ Goto("event", "report")
  /\ UNCHANGED <<dir, connected, lockVars, entryVars, filed, verdict>>

OfferReport ==
  /\ At("event", "report")
  /\ Advance("event", phase)
  /\ \E answer \in {"idle", "autoAnswer"} :
       pc' = [pc EXCEPT !["event"] = "idle", !["auto"] = answer]
  /\ UNCHANGED <<dir, entryVars, recordVars, verdict>>

(* After its 1.2 seconds the auto-answer looks the call up once more.          *)
AutoAnswer ==
  /\ At("auto", "autoAnswer")
  /\ Locks
  /\ Goto("auto", IF registered /\ tracked /\ phase # "ended" THEN "accept" ELSE "idle")
  /\ UNCHANGED <<managerVars, dir, connected, lockVars, entryVars, recordVars, verdict>>

(* A request is over when its handler returns.                               *)
Return(t) == Goto(t, IF t \in Clients THEN "done" ELSE "idle")

(* The first section of AcceptCall.                                         *)
AcceptCall(t) ==
  /\ At(t, "accept")
  /\ IF tracked /\ phase = "incoming_ringing"
       THEN Advance(t, "connecting")
       ELSE Locks /\ UNCHANGED <<managerVars, connected, lockVars>>
  /\ Return(t)
  /\ UNCHANGED <<dir, entryVars, recordVars, verdict>>

----------------------------------------------------------------------------
(* Peer stanzas: callForEvent looks the call up, then the manager handles it.  *)

CallAccept ==
  /\ At("event", "idle")
  /\ registered
  /\ Goto("event", "accepted")
  /\ UNCHANGED <<managerVars, dir, connected, lockVars, entryVars, recordVars, verdict>>

(* A terminate or reject for a call that is not registered only ends its       *)
(* record.                                                                  *)
CallTerminate ==
  /\ At("event", "idle")
  /\ phase # "none"
  /\ Goto("event", IF registered THEN "terminated" ELSE "strayEnd")
  /\ UNCHANGED <<managerVars, dir, connected, lockVars, entryVars, recordVars, verdict>>

HandleCallAccept ==
  /\ At("event", "accepted")
  /\ IF tracked
       THEN Advance("event", IF phase = "ringing" THEN "connecting" ELSE phase)
       ELSE Locks /\ UNCHANGED <<managerVars, connected, lockVars>>
  /\ Goto("event", "idle")
  /\ UNCHANGED <<dir, entryVars, recordVars, verdict>>

HandleCallTerminate ==
  /\ At("event", "terminated")
  /\ IF tracked
       THEN DropEnded /\ Goto("event", "onEnded")
       ELSE Locks /\ Goto("event", "idle") /\ UNCHANGED managerVars
  /\ UNCHANGED <<dir, connected, lockVars, entryVars, recordVars, verdict>>

StrayEnd ==
  /\ At("event", "strayEnd")
  /\ FileCall
  /\ Goto("event", "idle")
  /\ UNCHANGED <<managerVars, dir, connected, lockVars, entryVars, verdict>>

Event == HandleCallOffer \/ OnIncoming \/ OfferReport \/ HandleCallAccept
           \/ HandleCallTerminate \/ StrayEnd

(* onRelayConnected, or the tail of AcceptCall or HandleCallAccept; the tails   *)
(* may still run for a call that RejectCall dropped.                         *)
MediaConnect ==
  /\ At("relay", "idle")
  /\ phase = "connecting"
  /\ Advance("relay", "active")
  /\ UNCHANGED <<dir, pc, entryVars, recordVars, verdict>>

(* OnPeerAudio; a packet decoded before the end may come after it.            *)
OnPeerAudio ==
  /\ connected \/ phase = "connecting"
  /\ registered
  /\ audio' = TRUE
  /\ UNCHANGED <<managerVars, dir, connected, lockVars, pc, registered, bridge, conn, recordVars,
                 verdict>>

----------------------------------------------------------------------------
(* The API.  A client knows the id once the broker has published the call.     *)

Published == live # NoRecord \/ filed # {}

(* doAccept, doReject, doEndCall and doWebRTC begin with a lookup; without an   *)
(* entry the first and the last answer 404, the others go on to the record.   *)
Request(t) ==
  /\ At(t, "idle")
  /\ Published
  /\ \/ t \in Clients /\ registered /\ Goto(t, "claim")
     \/ t \in Clients /\ Goto(t, IF registered THEN "reject" ELSE "remove")
     \/ t \in Clients /\ Goto(t, IF registered THEN "end" ELSE "remove")
     \/ t \in Bridges /\ registered /\ Goto(t, "setBridge")
  /\ UNCHANGED <<managerVars, dir, connected, lockVars, entryVars, recordVars, verdict>>

(* broker.setOwner; a call another client has claimed is refused with 409.     *)
SetOwner(t) ==
  /\ At(t, "claim")
  /\ IF live # NoRecord /\ live.owner \in {Nobody, t}
       THEN live' = [live EXCEPT !.owner = t] /\ Goto(t, "accept")
       ELSE UNCHANGED live /\ Goto(t, "done")
  /\ UNCHANGED <<managerVars, dir, connected, lockVars, entryVars, filed, verdict>>

(* RejectCall drops the call whatever its state, ends it only while it rings    *)
(* for us, and does not call OnEnded.                                        *)
RejectCall(t) ==
  /\ At(t, "reject")
  /\ Locks
  /\ IF tracked
       THEN /\ phase' = IF phase = "incoming_ringing" THEN "ended" ELSE phase
            /\ Manager!Drop
       ELSE UNCHANGED managerVars
  /\ Goto(t, "remove")
  /\ UNCHANGED <<dir, connected, lockVars, entryVars, recordVars, verdict>>

AfterEnd(t) ==
  CASE t \in Clients    -> "remove"
    [] t \in Bridges    -> "wired"
    [] t = "event"      -> "idle"
    [] t = "teardown"   -> "closeHeld"

EndCall(t) ==
  /\ At(t, "end")
  /\ IF tracked /\ phase # "ended"
       THEN DropEnded /\ Goto(t, "onEnded")
       ELSE Locks /\ Goto(t, AfterEnd(t)) /\ UNCHANGED managerVars
  /\ UNCHANGED <<dir, connected, lockVars, entryVars, recordVars, verdict>>

Remove(t) ==
  /\ At(t, "remove")
  /\ RemoveCall
  /\ Goto(t, "file")
  /\ UNCHANGED <<managerVars, dir, connected, lockVars, recordVars, verdict>>

File(t) ==
  /\ At(t, "file")
  /\ FileCall
  /\ Return(t)
  /\ UNCHANGED <<managerVars, dir, connected, lockVars, entryVars, verdict>>

(* Mutant: the bridge is put into the entry the request looked up.            *)
SetBridgeMutant(b) ==
  /\ At(b, "setBridge")
  /\ bridge' = b
  /\ conn' = [c \in Bridges |-> IF c = b THEN "open" ELSE IF c = bridge THEN "closed" ELSE conn[c]]
  /\ Goto(b, "wired")
  /\ UNCHANGED <<managerVars, dir, connected, lockVars, registered, audio, recordVars, verdict>>

(* Session.setBridge: the bridge replaces the entry's, or without an entry is   *)
(* closed at once.                                                          *)
SetBridge(b) ==
  /\ At(b, "setBridge")
  /\ IF registered
       THEN /\ bridge' = b
            /\ conn' = [c \in Bridges |-> IF c = b THEN "open"
                                         ELSE IF c = bridge THEN "closed" ELSE conn[c]]
       ELSE UNCHANGED bridge /\ conn' = [conn EXCEPT ![b] = "closed"]
  /\ Goto(b, "wired")
  /\ UNCHANGED <<managerVars, dir, connected, lockVars, registered, audio, recordVars, verdict>>

(* OnTerminalICE: the connection failed, or was closed by anyone, us included;  *)
(* terminateCall looks the call up by its id.                                *)
TerminalICE(b) ==
  /\ At(b, "wired")
  /\ registered
  /\ Goto(b, "end")
  /\ UNCHANGED <<managerVars, dir, connected, lockVars, entryVars, recordVars, verdict>>

----------------------------------------------------------------------------
(* teardownAllCalls: the registry is emptied first, then the call is ended.    *)

Drain ==
  /\ At("teardown", "idle")
  /\ registered
  /\ registered' = FALSE
  /\ Goto("teardown", "end")
  /\ UNCHANGED <<managerVars, dir, connected, lockVars, bridge, audio, conn, recordVars, verdict>>

CloseHeld ==
  /\ At("teardown", "closeHeld")
  /\ conn' = IF bridge # Nobody THEN [conn EXCEPT ![bridge] = "closed"] ELSE conn
  /\ Goto("teardown", "idle")
  /\ UNCHANGED <<managerVars, dir, connected, lockVars, registered, bridge, audio, recordVars,
                 verdict>>

----------------------------------------------------------------------------
(* OnEnded, in the goroutine that ended the call: it reads the entry, decides,  *)
(* and an incoming call that was missed is called back.                      *)
OnEnded(t) ==
  /\ At(t, "onEnded")
  /\ Manager!NotifyEnded
  /\ verdict' = IF connected /\ registered /\ audio THEN "completed"
                ELSE IF dir = "incoming" THEN "missed" ELSE "ended"
  /\ Goto(t, "endedRemove")
  /\ UNCHANGED <<dir, connected, lockVars, entryVars, recordVars>>

EndedRemove(t) ==
  /\ At(t, "endedRemove")
  /\ RemoveCall
  /\ Goto(t, "endedFile")
  /\ UNCHANGED <<managerVars, dir, connected, lockVars, recordVars, verdict>>

(* Mutant: OnEnded leaves the record to the caller.                           *)
EndedFileMutant(t) ==
  /\ At(t, "endedFile")
  /\ Goto(t, AfterEnd(t))
  /\ UNCHANGED <<managerVars, dir, connected, lockVars, entryVars, recordVars, verdict>>

EndedFile(t) ==
  /\ At(t, "endedFile")
  /\ FileCall
  /\ Goto(t, AfterEnd(t))
  /\ UNCHANGED <<managerVars, dir, connected, lockVars, entryVars, verdict>>

----------------------------------------------------------------------------

(* What a goroutine does once it has begun.                                  *)
Continue(t) ==
  \/ AcceptCall(t)
  \/ SetOwner(t)
  \/ RejectCall(t)
  \/ EndCall(t)
  \/ Remove(t)
  \/ File(t)
  \/ OnEnded(t)
  \/ EndedRemove(t)
  \/ EndedFile(t)

Environment ==
  \/ CreateOutgoing
  \/ CreateIncoming
  \/ CallAccept
  \/ CallTerminate
  \/ MediaConnect
  \/ OnPeerAudio
  \/ \E t \in Clients \cup Bridges : Request(t)
  \/ \E b \in Bridges : TerminalICE(b)
  \/ Drain

Next ==
  \/ Environment
  \/ Report
  \/ Dial
  \/ Ack
  \/ Event
  \/ AutoAnswer
  \/ CloseHeld
  \/ \E b \in Bridges : SetBridge(b)
  \/ \E t \in Threads : Continue(t)

Spec == Init /\ [][Next]_vars

----------------------------------------------------------------------------
(* Properties.                                                             *)

Resting(t) == pc[t] \in {"idle", "wired", "done"}

Settled == report = "none" /\ \A t \in Threads : Resting(t)

(* No browser connection outlives its call: an open bridge is in the entry of    *)
(* the registered call, or a teardown still holds it, however setBridge, its     *)
(* replacement, removeCall and drain interleave.                             *)
BridgeFollowsCall ==
  \A b \in Bridges : conn[b] = "open" =>
    /\ bridge = b
    /\ registered \/ ~Resting("teardown")

(* What OnStateChange writes never outlives the call: when an ended call's       *)
(* record is still live and nobody is at work on it, it was put back by one of   *)
(* the two upserts made without the lock, the dialling handler's (the record     *)
(* then has its owner) or OnIncoming's.                                       *)
LateWritesOnly ==
  (Settled /\ phase = "ended" /\ live # NoRecord) =>
    /\ live.status = "ringing"
    /\ dir = "outgoing" => live.owner = "dial"

(* A live record that says when the call connected keeps saying so, whichever    *)
(* of its writers replaces it, until the record is filed.                     *)
ConnectedAtKept ==
  [][live.connectedAt /\ live' # NoRecord => live'.connectedAt]_vars

Leaving ==
  \/ report \in {"read", "remove"}
  \/ \E t \in Threads : pc[t] \in {"onEnded", "endedRemove", "remove"}

(* A call that has ended stops counting against the session's limit of calls:   *)
(* its entry is gone, or whoever ended it is about to take it out.  OnEnded       *)
(* does not come for a call ended by the offer's ack; its report has to do it.  *)
EndedCallLeaves == phase = "ended" /\ registered => Leaving

(* What the guidelines say: a caller who talked is not called back.  The code     *)
(* does not keep it: whoever empties the registry before OnEnded reads the entry  *)
(* turns an answered call into a missed one.                                  *)
AnsweredNotCalledBack ==
  [][verdict = "none" /\ verdict' = "missed" => ~(connected /\ audio)]_vars

----------------------------------------------------------------------------
(* The inductive invariant behind the properties of the passing run.         *)

(* Which goroutines come to which steps.                                     *)
Sections ==
  /\ \A t \in Threads :
       /\ pc[t] \in {"end", "onEnded", "endedRemove", "endedFile"}
            => t \in Clients \cup Bridges \cup {"event", "teardown"}
       /\ pc[t] \in {"claim", "reject", "remove", "file"} => t \in Clients
       /\ pc[t] = "accept" => t \in Clients \cup {"auto"}
  /\ pc["teardown"] \in {"idle", "end", "onEnded", "endedRemove", "endedFile", "closeHeld"}

(* The manager's lock is held exactly during a report or after the panic, so     *)
(* the state cannot move away from the one that is reported.                   *)
ReportedState ==
  /\ reporter = Nobody <=> report = "none"
  /\ report \in {"read", "write", "remove", "file"} => told = phase
  /\ report = "write" => told # "ended"
  /\ report \in {"remove", "file"} => told = "ended"

(* Who creates the call, that it does not exist before, and does after.         *)
Creation ==
  /\ tracked => phase # "none"
  /\ pc["dial"] # "idle" => dir = "outgoing"
  /\ pc["dial"] \in {"announce", "create"} => phase = "none"
  /\ pc["event"] \in {"offer", "incoming"} => dir = "incoming"

LateWrite ==
  live.status = "ringing" /\ (dir = "outgoing" => live.owner = "dial")

Filing ==
  \/ report \in {"read", "remove", "file"}
  \/ \E t \in Threads : pc[t] \in {"onEnded", "endedRemove", "endedFile", "remove", "file"}

(* LateWritesOnly at every moment: until an ended call's record is filed,        *)
(* somebody is on the way to file it.                                        *)
EndedRecordLeaves == phase = "ended" => live = NoRecord \/ LateWrite \/ Filing

(* What holds in every reachable state and is preserved by every step.         *)
IndInv ==
  /\ TypeOK
  /\ Sections
  /\ ReportedState
  /\ Creation
  /\ BridgeFollowsCall
  /\ EndedCallLeaves
  /\ EndedRecordLeaves

=============================================================================

----------------------------- MODULE CallManager -----------------------------
(***************************************************************************)
(* One call.CallManager (internal/voip/call/callmanager*.go) driving one    *)
(* call end to end, as Session.createCall uses it: a fresh manager for      *)
(* every call, so StartCall or HandleCallOffer runs once on it.             *)
(*                                                                         *)
(* Every handler is a goroutine.  It takes CallManager.mu, does a piece of  *)
(* work, drops the lock to talk to WhatsApp or to the relays, and takes it  *)
(* again; whatever it read before (the call pointer, call.RelayData,        *)
(* relay.HasConnection()) may be stale by then.  Each critical section is   *)
(* one action here, and pc[t] says which section goroutine t is to run      *)
(* next.                                                                   *)
(*                                                                         *)
(* The relay transport is reduced to what the manager can see of it, which  *)
(* RelayContract states and RelayManager implements.                        *)
(***************************************************************************)
EXTENDS Naturals, FiniteSets, CallState

CONSTANTS
  Callers,   \* goroutines of the API: browser requests, auto-answer, teardown
  Relays     \* relay endpoints, by connection id

ASSUME CallersAssumption == Callers \cap {"dial", "event", "ack"} = {}

(* The other goroutines: "dial" runs StartCall, "event" is whatsmeow's event  *)
(* goroutine, which runs the stanza handlers one after the other, and "ack"   *)
(* is the one spawned for the answer to our offer or to our preaccept.        *)
Threads == Callers \cup {"dial", "event", "ack"}

Labels == {"idle", "query", "offerSent",
           "offerSetup", "offerConnect", "offerIncoming", "offerReport",
           "rekey", "remoteAccept", "transport", "transportSet",
           "offerAck", "preacceptAck", "preacceptSetup",
           "acceptSend", "acceptSetup", "acceptCheck", "mediaConnect", "connect",
           "configure", "offerConfigure", "notifyEnded", "cleanMedia", "cleanRelay"}

VARIABLES
  pc,         \* the section each goroutine runs next
  captured,   \* AcceptCall's local relayData # nil
  call,       \* the CallInfo; its state is "none" before it exists
  cur,        \* m.currentCall # nil
  relayData,  \* call.RelayData holds endpoints
  acceptSent, \* AcceptCall's accept stanza has gone out
  codec,      \* m.codec # nil
  srtp,       \* m.srtpSession # nil
  keepalive,  \* m.keepaliveStop # nil
  tickers,    \* audio goroutines whose stop channel is not closed
  relay,      \* the relay connections, as in RelayContract
  opening,    \* relays whose OnOpen is about to call onRelayConnected
  absent,     \* relays a goroutine found unregistered and is about to register
  panicked,   \* StartCall panicked with m.mu held: nobody gets the lock again
  told,       \* last state passed to OnStateChange, "none" before the first
  nIncoming,  \* calls of OnIncoming
  nEnded      \* calls of OnEnded

mediaVars == <<codec, srtp, keepalive, tickers>>
relayVars == <<relay, opening, absent>>
tellVars  == <<told, nIncoming, nEnded>>
vars == <<pc, captured, call, cur, relayData, acceptSent, mediaVars, relayVars,
          panicked, tellVars>>

Relay == INSTANCE RelayContract

Created == call.state # "none"

(* The types of the fields.  There is at most one audio goroutine, and each     *)
(* of the two callbacks is called at most once.                              *)
TypeOK ==
  /\ pc \in [Threads -> Labels]
  /\ captured \in [Threads -> BOOLEAN]
  /\ call \in [dir : Directions, state : States \cup {"none"}, accepted : BOOLEAN]
  /\ cur \in BOOLEAN
  /\ relayData \in BOOLEAN
  /\ acceptSent \in BOOLEAN
  /\ codec \in BOOLEAN
  /\ srtp \in BOOLEAN
  /\ keepalive \in BOOLEAN
  /\ tickers \in 0..1
  /\ relay \in [Relays -> Relay!RelayStates]
  /\ opening \in SUBSET Relays
  /\ absent \in [Threads -> SUBSET Relays]
  /\ panicked \in BOOLEAN
  /\ told \in States \cup {"none"}
  /\ nIncoming \in 0..1
  /\ nEnded \in 0..1

Init ==
  /\ pc = [t \in Threads |-> "idle"]
  /\ captured = [t \in Threads |-> FALSE]
  /\ \E dir \in Directions : call = [dir |-> dir, state |-> "none", accepted |-> FALSE]
  /\ cur = FALSE
  /\ relayData = FALSE
  /\ acceptSent = FALSE
  /\ codec = FALSE
  /\ srtp = FALSE
  /\ keepalive = FALSE
  /\ tickers = 0
  /\ Relay!Init
  /\ absent = [t \in Threads |-> {}]
  /\ panicked = FALSE
  /\ told = "none"
  /\ nIncoming = 0
  /\ nEnded = 0

----------------------------------------------------------------------------
(* Pieces the handlers share.                                              *)

At(t, l) == pc[t] = l

Goto(t, l) == pc' = [pc EXCEPT ![t] = l]

(* The critical sections need m.mu, which a panic never gives back.         *)
Locks == ~panicked

HasConnection == \E r \in Relays : relay[r] = "open"

(* emitState tests m.currentCall, not the call the handler works on.        *)
EmitState(tracked, c) == told' = IF tracked THEN c.state ELSE told

(* Mutant: the handler that ends the call leaves it current.                 *)
ClearCurrentCallMutant == UNCHANGED cur

ClearCurrentCall == cur' = FALSE

(* Mutant: the keys come from the handler's own call pointer.                *)
InitSrtpKeysMutant == srtp' = TRUE

(* initSrtpKeysLocked and reinitSrtpLocked return early without a current   *)
(* call; a call's encryption key is always set.                            *)
InitSrtpKeys == srtp' = (srtp \/ cur)

StartSilenceKeepalive ==
  IF keepalive \/ ~codec
    THEN UNCHANGED <<keepalive, tickers>>
    ELSE keepalive' = TRUE /\ tickers' = tickers + 1

----------------------------------------------------------------------------
(* Outgoing call: StartCall.                                               *)

StartCall ==
  /\ Locks
  /\ At("dial", "idle")
  /\ ~Created
  /\ call.dir = "outgoing"
  /\ call' = NewOutgoingCall
  /\ cur' = TRUE
  /\ codec' \in BOOLEAN    \* FALSE: no codec, the call is signaling only
  /\ Goto("dial", "query")
  /\ UNCHANGED <<captured, relayData, acceptSent, srtp, keepalive, tickers, relayVars,
                 panicked, tellVars>>

(* Building the offer or sending it fails and StartCall returns the error,   *)
(* or the query ends: with the ack, or without one after 15 seconds.         *)
OfferQuery ==
  /\ At("dial", "query")
  /\ \E next \in {"idle", "offerSent"} : Goto("dial", next)
  /\ UNCHANGED <<captured, call, cur, relayData, acceptSent, mediaVars, relayVars,
                 panicked, tellVars>>

(* The lock is taken again and m.currentCall dereferenced as if the call     *)
(* could not have been dropped in between.                                  *)
OfferSent ==
  /\ Locks
  /\ At("dial", "offerSent")
  /\ cur
  /\ call' = ApplyTransition(call, "offer_sent")
  /\ EmitState(cur, call')
  /\ \E answer \in {"idle", "offerAck"} :
       pc' = [pc EXCEPT !["dial"] = "idle", !["ack"] = answer]
  /\ UNCHANGED <<captured, cur, relayData, acceptSent, mediaVars, relayVars, panicked,
                 nIncoming, nEnded>>

OfferSentPanics ==
  /\ Locks
  /\ At("dial", "offerSent")
  /\ ~cur
  /\ panicked' = TRUE
  /\ Goto("dial", "idle")
  /\ UNCHANGED <<captured, call, cur, relayData, acceptSent, mediaVars, relayVars,
                 tellVars>>

(* HandleCallAck with an error: the call ends, but stays the current call,   *)
(* OnEnded is not called and the media is not cleaned up.                    *)
OfferAckError ==
  /\ Locks
  /\ At("ack", "offerAck")
  /\ call' = IF cur THEN ApplyTransition(call, "terminated") ELSE call
  /\ EmitState(cur, call')
  /\ Goto("ack", "idle")
  /\ UNCHANGED <<captured, cur, relayData, acceptSent, mediaVars, relayVars, panicked,
                 nIncoming, nEnded>>

(* HandleCallAck with relay endpoints, and with or without participants.     *)
OfferAck ==
  /\ Locks
  /\ At("ack", "offerAck")
  /\ cur
  /\ relayData' = TRUE
  /\ InitSrtpKeys \/ UNCHANGED srtp
  /\ Goto("ack", "connect")
  /\ UNCHANGED <<captured, call, cur, acceptSent, codec, keepalive, tickers, relayVars,
                 panicked, tellVars>>

(* An ack without relays, or for a call that is gone.                       *)
OfferAckIgnored ==
  /\ At("ack", "offerAck")
  /\ Goto("ack", "idle")
  /\ UNCHANGED <<captured, call, cur, relayData, acceptSent, mediaVars, relayVars,
                 panicked, tellVars>>

----------------------------------------------------------------------------
(* Incoming call: HandleCallOffer and the ack of our preaccept.             *)

(* The offer carries relay endpoints or not; the preaccept is queried in a   *)
(* goroutine of its own, which comes back with an ack or ends.               *)
HandleCallOffer ==
  /\ Locks
  /\ At("event", "idle")
  /\ ~Created
  /\ call.dir = "incoming"
  /\ call' = NewIncomingCall
  /\ cur' = TRUE
  /\ relayData' \in BOOLEAN
  /\ codec' \in BOOLEAN
  /\ \E answer \in {"idle", "preacceptAck"} :
       pc' = [pc EXCEPT !["event"] = IF relayData' THEN "offerSetup" ELSE "offerIncoming",
                        !["ack"] = answer]
  /\ UNCHANGED <<captured, acceptSent, srtp, keepalive, tickers, relayVars, panicked,
                 tellVars>>

OfferIncoming ==
  /\ At("event", "offerIncoming")
  /\ nIncoming' = nIncoming + 1
  /\ Goto("event", "offerReport")
  /\ UNCHANGED <<captured, call, cur, relayData, acceptSent, mediaVars, relayVars,
                 panicked, told, nEnded>>

OfferReport ==
  /\ Locks
  /\ At("event", "offerReport")
  /\ EmitState(cur, call)
  /\ Goto("event", "idle")
  /\ UNCHANGED <<captured, call, cur, relayData, acceptSent, mediaVars, relayVars,
                 panicked, nIncoming, nEnded>>

(* handlePreacceptAck: the ack's relays are taken unless the offer's relays  *)
(* are connected already.                                                   *)
PreacceptAck ==
  /\ Locks
  /\ At("ack", "preacceptAck")
  /\ cur
  /\ ~(relayData /\ HasConnection)
  /\ relayData' = TRUE
  /\ Goto("ack", "preacceptSetup")
  /\ UNCHANGED <<captured, call, cur, acceptSent, mediaVars, relayVars, panicked,
                 tellVars>>

(* No relays in the ack, the call is gone, or already connected.            *)
PreacceptAckIgnored ==
  /\ At("ack", "preacceptAck")
  /\ Goto("ack", "idle")
  /\ UNCHANGED <<captured, call, cur, relayData, acceptSent, mediaVars, relayVars,
                 panicked, tellVars>>

----------------------------------------------------------------------------
(* setupIncomingMedia and connectRelays, called by several handlers.        *)

AfterSetup(l) ==
  CASE l = "offerSetup"     -> "offerConnect"
    [] l = "preacceptSetup" -> "connect"
    [] l = "acceptSetup"    -> "acceptCheck"

SetupIncomingMedia(t) ==
  /\ Locks
  /\ pc[t] \in {"offerSetup", "preacceptSetup", "acceptSetup"}
  /\ InitSrtpKeys
  /\ Goto(t, AfterSetup(pc[t]))
  /\ UNCHANGED <<captured, call, cur, relayData, acceptSent, codec, keepalive, tickers,
                 relayVars, panicked, tellVars>>

(* Some of the endpoints are usable (buildRelayConfigs), possibly none.       *)
(* ConfigureRelays looks up which of them have no connection yet, whether or   *)
(* not the call is still there,                                              *)
ConnectRelays(t) ==
  /\ Locks
  /\ pc[t] \in {"connect", "offerConnect"}
  /\ \E usable \in SUBSET Relays :
       absent' = [absent EXCEPT ![t] = {r \in usable : relay[r] \in {"none", "lost"}}]
  /\ Goto(t, IF At(t, "offerConnect") THEN "offerConfigure" ELSE "configure")
  /\ UNCHANGED <<captured, call, cur, relayData, acceptSent, mediaVars, relay, opening,
                 panicked, tellVars>>

(* and registers those, over a connection registered in the meantime.         *)
ConfigureRelays(t) ==
  /\ pc[t] \in {"configure", "offerConfigure"}
  /\ relay' = [r \in Relays |-> IF r \in absent[t] THEN "connecting" ELSE relay[r]]
  /\ absent' = [absent EXCEPT ![t] = {}]
  /\ Goto(t, IF At(t, "offerConfigure") THEN "offerIncoming" ELSE "idle")
  /\ UNCHANGED <<captured, call, cur, relayData, acceptSent, mediaVars, opening,
                 panicked, tellVars>>

(* The last section of AcceptCall and HandleCallAccept when they found the    *)
(* relay connected.                                                         *)
MediaConnect(t) ==
  /\ Locks
  /\ At(t, "mediaConnect")
  /\ IF Legal(call, "media_connected")
       THEN /\ call' = ApplyTransition(call, "media_connected")
            /\ EmitState(cur, call')
            /\ StartSilenceKeepalive
       ELSE UNCHANGED <<call, told, keepalive, tickers>>
  /\ Goto(t, "idle")
  /\ UNCHANGED <<captured, cur, relayData, acceptSent, codec, srtp, relayVars, panicked,
                 nIncoming, nEnded>>

----------------------------------------------------------------------------
(* The API: AcceptCall, RejectCall, EndCall.  The early returns change       *)
(* nothing and are left to stuttering.                                      *)

AcceptCall(t) ==
  /\ Locks
  /\ At(t, "idle")
  /\ cur
  /\ Legal(call, "local_accepted")
  /\ call' = ApplyTransition(call, "local_accepted")
  /\ EmitState(cur, call')
  /\ captured' = [captured EXCEPT ![t] = relayData]
  /\ Goto(t, "acceptSend")
  /\ UNCHANGED <<cur, relayData, acceptSent, mediaVars, relayVars, panicked, nIncoming,
                 nEnded>>

(* The accept, transport, mute and relay-latency stanzas, with no lock held.  *)
AcceptSend(t) ==
  /\ At(t, "acceptSend")
  /\ acceptSent' = TRUE
  /\ Goto(t, IF captured[t] THEN "acceptSetup" ELSE "acceptCheck")
  /\ UNCHANGED <<captured, call, cur, relayData, mediaVars, relayVars, panicked,
                 tellVars>>

(* Mutant: AcceptCall leaves an open relay to onRelayConnected.               *)
AcceptCheckMutant(t) ==
  /\ At(t, "acceptCheck")
  /\ Goto(t, IF captured[t] THEN "connect" ELSE "idle")
  /\ captured' = [captured EXCEPT ![t] = FALSE]
  /\ UNCHANGED <<call, cur, relayData, acceptSent, mediaVars, relayVars, panicked,
                 tellVars>>

AcceptCheck(t) ==
  /\ At(t, "acceptCheck")
  /\ Goto(t, IF HasConnection THEN "mediaConnect"
             ELSE IF captured[t] THEN "connect" ELSE "idle")
  /\ captured' = [captured EXCEPT ![t] = FALSE]
  /\ UNCHANGED <<call, cur, relayData, acceptSent, mediaVars, relayVars, panicked,
                 tellVars>>

(* The transition is tried and its error discarded: a call that is past       *)
(* incoming_ringing is dropped without having ended, and OnEnded is not        *)
(* called in any case.                                                       *)
RejectCall(t) ==
  /\ Locks
  /\ At(t, "idle")
  /\ cur
  /\ call' = ApplyTransition(call, "local_rejected")
  /\ ClearCurrentCall
  /\ EmitState(cur', call')
  /\ Goto(t, "cleanMedia")
  /\ UNCHANGED <<captured, relayData, acceptSent, mediaVars, relayVars, panicked,
                 nIncoming, nEnded>>

EndCall(t) ==
  /\ Locks
  /\ At(t, "idle")
  /\ cur
  /\ ~IsEnded(call)
  /\ call' = ApplyTransition(call, "terminated")
  /\ ClearCurrentCall
  /\ EmitState(cur', call')
  /\ Goto(t, "notifyEnded")
  /\ UNCHANGED <<captured, relayData, acceptSent, mediaVars, relayVars, panicked,
                 nIncoming, nEnded>>

----------------------------------------------------------------------------
(* Peer stanzas: HandleCallAccept, HandleCallTransport, HandleCallTerminate.  *)

(* The call pointer is read, then the lock dropped.  The stanza may carry a    *)
(* key of the peer's own.                                                     *)
HandleCallAccept ==
  /\ Locks
  /\ At("event", "idle")
  /\ cur
  /\ \E next \in {"rekey", "remoteAccept"} : Goto("event", next)
  /\ UNCHANGED <<captured, call, cur, relayData, acceptSent, mediaVars, relayVars,
                 panicked, tellVars>>

Rekey ==
  /\ Locks
  /\ At("event", "rekey")
  /\ InitSrtpKeys \/ UNCHANGED srtp    \* only a key that differs re-keys
  /\ Goto("event", "remoteAccept")
  /\ UNCHANGED <<captured, call, cur, relayData, acceptSent, codec, keepalive, tickers,
                 relayVars, panicked, tellVars>>

RemoteAccept ==
  /\ Locks
  /\ At("event", "remoteAccept")
  /\ call' = ApplyTransition(call, "remote_accepted")
  /\ EmitState(cur, call')
  /\ InitSrtpKeys
  /\ Goto("event", IF HasConnection THEN "mediaConnect"
                   ELSE IF relayData THEN "connect" ELSE "idle")
  /\ UNCHANGED <<captured, cur, relayData, acceptSent, codec, keepalive, tickers,
                 relayVars, panicked, nIncoming, nEnded>>

HandleCallTransport ==
  /\ Locks
  /\ At("event", "idle")
  /\ cur
  /\ Goto("event", "transport")
  /\ UNCHANGED <<captured, call, cur, relayData, acceptSent, mediaVars, relayVars,
                 panicked, tellVars>>

(* The stanza has relays and none is connected, or it is only answered.       *)
TransportCheck ==
  /\ At("event", "transport")
  /\ \/ ~HasConnection /\ Goto("event", "transportSet")
     \/ Goto("event", "idle")
  /\ UNCHANGED <<captured, call, cur, relayData, acceptSent, mediaVars, relayVars,
                 panicked, tellVars>>

TransportSet ==
  /\ Locks
  /\ At("event", "transportSet")
  /\ relayData' = TRUE
  /\ Goto("event", "connect")
  /\ UNCHANGED <<captured, call, cur, acceptSent, mediaVars, relayVars, panicked,
                 tellVars>>

(* CallTerminate and CallReject; those of our own account's other devices and  *)
(* of hosted devices are ignored.                                            *)
HandleCallTerminate ==
  /\ Locks
  /\ At("event", "idle")
  /\ cur
  /\ call' = ApplyTransition(call, "terminated")
  /\ ClearCurrentCall
  /\ EmitState(cur', call')
  /\ Goto("event", "notifyEnded")
  /\ UNCHANGED <<captured, relayData, acceptSent, mediaVars, relayVars, panicked,
                 nIncoming, nEnded>>

----------------------------------------------------------------------------
(* The tail of EndCall, RejectCall and HandleCallTerminate.                  *)

(* Mutant: the handler returns after OnEnded.                                *)
NotifyEndedMutant(t) ==
  /\ At(t, "notifyEnded")
  /\ nEnded' = nEnded + 1
  /\ Goto(t, "idle")
  /\ UNCHANGED <<captured, call, cur, relayData, acceptSent, mediaVars, relayVars,
                 panicked, told, nIncoming>>

NotifyEnded(t) ==
  /\ At(t, "notifyEnded")
  /\ nEnded' = nEnded + 1
  /\ Goto(t, "cleanMedia")
  /\ UNCHANGED <<captured, call, cur, relayData, acceptSent, mediaVars, relayVars,
                 panicked, told, nIncoming>>

(* cleanupMedia: the fields under the lock, then the relays without it.       *)
CleanMedia(t) ==
  /\ Locks
  /\ At(t, "cleanMedia")
  /\ codec' = FALSE
  /\ srtp' = FALSE
  /\ tickers' = IF keepalive THEN tickers - 1 ELSE tickers
  /\ keepalive' = FALSE
  /\ Goto(t, "cleanRelay")
  /\ UNCHANGED <<captured, call, cur, relayData, acceptSent, relayVars, panicked,
                 tellVars>>

CleanRelay(t) ==
  /\ At(t, "cleanRelay")
  /\ Relay!Cleanup
  /\ Goto(t, "idle")
  /\ UNCHANGED <<captured, call, cur, relayData, acceptSent, mediaVars, absent,
                 panicked, tellVars>>

----------------------------------------------------------------------------
(* The relay transport, and its OnOpen callback into the manager.           *)

RelayStep(r) ==
  /\ Relay!Open(r) \/ Relay!StrayOpen(r) \/ Relay!Lost(r)
  /\ UNCHANGED <<pc, captured, call, cur, relayData, acceptSent, mediaVars, absent,
                 panicked, tellVars>>

(* Mutant: without the test for an incoming call that still rings.             *)
OnRelayConnectedMutant(r) ==
  /\ Locks
  /\ Relay!Connected(r)
  /\ IF cur /\ call.state \notin {"ended", "initiating"}
       THEN /\ StartSilenceKeepalive
            /\ call' = ApplyTransition(call, "media_connected")
            /\ told' = IF Legal(call, "media_connected") THEN call'.state ELSE told
       ELSE UNCHANGED <<keepalive, tickers, call, told>>
  /\ UNCHANGED <<pc, captured, cur, relayData, acceptSent, codec, srtp, absent, panicked,
                 nIncoming, nEnded>>

OnRelayConnected(r) ==
  /\ Locks
  /\ Relay!Connected(r)
  /\ IF cur /\ call.state \notin {"ended", "incoming_ringing", "initiating"}
       THEN /\ StartSilenceKeepalive
            /\ call' = ApplyTransition(call, "media_connected")
            /\ told' = IF Legal(call, "media_connected") THEN call'.state ELSE told
       ELSE UNCHANGED <<keepalive, tickers, call, told>>
  /\ UNCHANGED <<pc, captured, cur, relayData, acceptSent, codec, srtp, absent, panicked,
                 nIncoming, nEnded>>

----------------------------------------------------------------------------

(* What goroutine t does once it has begun: nothing here waits for anyone.   *)
Continue(t) ==
  \/ SetupIncomingMedia(t)
  \/ ConnectRelays(t)
  \/ ConfigureRelays(t)
  \/ MediaConnect(t)
  \/ AcceptSend(t)
  \/ AcceptCheck(t)
  \/ NotifyEnded(t)
  \/ CleanMedia(t)
  \/ CleanRelay(t)

Dial == OfferQuery \/ OfferSent \/ OfferSentPanics

Event == OfferIncoming \/ OfferReport \/ Rekey \/ RemoteAccept \/ TransportCheck \/ TransportSet

Ack == OfferAckError \/ OfferAck \/ OfferAckIgnored \/ PreacceptAck \/ PreacceptAckIgnored

(* What the outside may do: start a call, ask something of it, send stanzas. *)
Environment ==
  \/ StartCall
  \/ HandleCallOffer
  \/ HandleCallAccept
  \/ HandleCallTransport
  \/ HandleCallTerminate
  \/ \E t \in Callers : AcceptCall(t) \/ RejectCall(t) \/ EndCall(t)
  \/ \E r \in Relays : RelayStep(r)

Next ==
  \/ Environment
  \/ Dial
  \/ Event
  \/ Ack
  \/ \E t \in Threads : Continue(t)
  \/ \E r \in Relays : OnRelayConnected(r)

Spec == Init /\ [][Next]_vars

(* The Go scheduler runs every goroutine that can go on, Query gives up after  *)
(* 15 seconds, and nothing is assumed of the environment.                     *)
Fairness ==
  /\ WF_vars(Dial)
  /\ WF_vars(Event)
  /\ WF_vars(Ack)
  /\ \A t \in Threads : WF_vars(Continue(t))
  /\ \A r \in Relays : WF_vars(OnRelayConnected(r))

FairSpec == Spec /\ Fairness

----------------------------------------------------------------------------
(* Properties.                                                             *)

Contract == INSTANCE CallContract WITH phase <- call.state, tracked <- cur

(* The manager keeps the contract its Session relies on: lifecycle edges     *)
(* only, no report of a dropped call, OnEnded at most once and only for a     *)
(* call that has ended, whatever handlers EndCall, RejectCall, a terminate     *)
(* stanza and the tails of AcceptCall and HandleCallAccept are racing.         *)
ContractSpec == Contract!Spec

BeforeCleanMedia(t) == pc[t] \in {"notifyEnded", "cleanMedia"}

(* Teardown is final: once a dropped call's media has been cleaned up, no     *)
(* handler that was under way, however stale its call pointer, brings back     *)
(* the codec, the SRTP session or the goroutine that sends audio frames.       *)
MediaTeardownFinal ==
  (Created /\ ~cur /\ \A t \in Threads : ~BeforeCleanMedia(t))
    => (~codec /\ ~srtp /\ ~keepalive /\ tickers = 0)

(* No audio frame leaves before the incoming call is answered: the relay may   *)
(* connect while the phone still rings, and onRelayConnected must leave the     *)
(* audio goroutine to AcceptCall.                                             *)
NoAudioBeforeAnswer ==
  (call.dir = "incoming" /\ tickers > 0) => call.accepted

MediaConnectPending ==
  \/ opening # {}
  \/ \E t \in Threads : pc[t] \in {"acceptSend", "acceptSetup", "acceptCheck", "mediaConnect"}

(* AcceptCall and HandleCallAccept test HasConnection, the OnOpen callback      *)
(* tests the state, and the two never miss each other: an accepted call with    *)
(* an open relay is active, or some goroutine is still on its way to see to it.  *)
NoLostMediaConnect ==
  (cur /\ call.state = "connecting" /\ HasConnection) => MediaConnectPending

(* An accepted call whose relay stays open becomes active, unless it ends or    *)
(* the lock is lost to the panic of StartCall.                                 *)
AcceptedCallConnects ==
  (cur /\ call.state = "connecting" /\ HasConnection)
    ~> (call.state # "connecting" \/ ~cur \/ ~HasConnection \/ panicked)

MediaReleased == ~codec /\ ~srtp /\ tickers = 0

(* A dropped call gives its media back, unless the lock is lost to that panic.  *)
DroppedCallReleased == (Created /\ ~cur) ~> (MediaReleased \/ panicked)

(* What the README says of teardown: after EndCall or a terminate stanza the     *)
(* call's media is given back, whenever that comes.  The code does not keep it:   *)
(* the call may be dropped between StartCall's two critical sections, and         *)
(* StartCall then panics with the lock held.                                     *)
TeardownCompletes == (nEnded > 0) ~> MediaReleased

(* Stale lookups, connects after a cleanup and connections that report late do    *)
(* to the relays only what RelayContract allows, which RelayManager implements:    *)
(* the two compose.                                                             *)
RelaySpec == Relay!Spec

----------------------------------------------------------------------------
(* The inductive invariant behind the safety properties and ContractSpec.    *)

(* The audio goroutine runs exactly while m.keepaliveStop is set.            *)
TickersCounted == tickers = IF keepalive THEN 1 ELSE 0

NothingBeforeCreation ==
  ~Created =>
    /\ ~cur
    /\ \A t \in Threads : pc[t] = "idle"
    /\ ~keepalive
    /\ nIncoming = 0
    /\ nEnded = 0

(* An ack handler never runs the tail of AcceptCall or HandleCallAccept.     *)
AckSections == pc["ack"] \in {"idle", "offerAck", "preacceptAck", "preacceptSetup", "connect",
                             "configure"}

(* One goroutine at most is about to call OnEnded, for a call that ended.    *)
EndedOnce ==
  /\ cur => nEnded = 0
  /\ \A t \in Threads : pc[t] = "notifyEnded" =>
       /\ ~cur
       /\ IsEnded(call)
       /\ nEnded = 0
       /\ \A u \in Threads \ {t} : pc[u] # "notifyEnded"

IncomingOnce ==
  pc["event"] \in {"offerSetup", "offerConnect", "offerConfigure", "offerIncoming"} => nIncoming = 0

(* A call leaves ringing through an accept only, and an incoming call never   *)
(* is in a state of the outgoing side.                                       *)
AnsweredStates ==
  /\ call.state \in {"connecting", "active"} => call.accepted
  /\ call.dir = "incoming" => call.state \notin {"initiating", "ringing"}
  /\ call.state # "on_hold"

(* What holds in every reachable state and is preserved by every step.       *)
IndInv ==
  /\ TypeOK
  /\ TickersCounted
  /\ NothingBeforeCreation
  /\ AckSections
  /\ EndedOnce
  /\ IncomingOnce
  /\ AnsweredStates
  /\ MediaTeardownFinal
  /\ NoAudioBeforeAnswer
  /\ NoLostMediaConnect

=============================================================================

-------------------------- MODULE CallManager_proofs --------------------------
(***************************************************************************)
(* Proofs about CallManager, for any number of API goroutines and relays.   *)
(* IndInv is inductive; the safety properties of the runs follow from it,   *)
(* and under it every step of the manager is a step of CallContract or      *)
(* leaves its variables alone.                                             *)
(***************************************************************************)
EXTENDS CallManager, TLAPS

CallRecord == [dir : Directions, state : States \cup {"none"}, accepted : BOOLEAN]

(* What ApplyTransition does to the record, in the terms the invariant uses. *)
LEMMA TransitionFacts ==
  ASSUME NEW c \in CallRecord, NEW t \in Transitions
  PROVE  /\ ApplyTransition(c, t) \in CallRecord
         /\ ApplyTransition(c, t).dir = c.dir
         /\ c.accepted => ApplyTransition(c, t).accepted
         /\ ~Legal(c, t) => ApplyTransition(c, t) = c
         /\ Legal(c, t) => ApplyTransition(c, t).state = LeadsTo(t)
         /\ Legal(c, t) /\ t \in {"remote_accepted", "local_accepted"}
              => ApplyTransition(c, t).accepted
<1>1. LeadsTo(t) \in States
  BY SMT DEF Transitions, LeadsTo, States
<1>2. c.accepted \in BOOLEAN /\ c.dir \in Directions
  BY DEF CallRecord
<1>3. CASE Legal(c, t)
  <2> DEFINE acc == c.accepted \/ t \in {"remote_accepted", "local_accepted"}
  <2>1. ApplyTransition(c, t) = [c EXCEPT !.state = LeadsTo(t), !.accepted = acc]
    BY <1>3 DEF ApplyTransition
  <2>2. acc \in BOOLEAN
    BY <1>2
  <2> HIDE DEF acc
  <2>3. ApplyTransition(c, t) = [dir |-> c.dir, state |-> LeadsTo(t), accepted |-> acc]
    <3>1. c = [dir |-> c.dir, state |-> c.state, accepted |-> c.accepted]
      BY DEF CallRecord
    <3> QED
      BY <2>1, <3>1
  <2>4. ApplyTransition(c, t) \in CallRecord
    BY <1>1, <1>2, <2>2, <2>3 DEF CallRecord
  <2>5. c.accepted \/ t \in {"remote_accepted", "local_accepted"} => acc
    BY DEF acc
  <2> QED
    BY <1>3, <2>3, <2>4, <2>5
<1>4. CASE ~Legal(c, t)
  BY <1>4 DEF ApplyTransition
<1> QED
  BY <1>3, <1>4

(* The table, one row per transition.                                      *)
LEMMA LegalFacts ==
  ASSUME NEW c \in CallRecord
  PROVE  /\ Legal(c, "offer_sent") <=> c.state = "initiating"
         /\ Legal(c, "remote_accepted") <=> c.state = "ringing"
         /\ Legal(c, "local_accepted") <=> c.state = "incoming_ringing"
         /\ Legal(c, "local_rejected") <=> c.state = "incoming_ringing"
         /\ Legal(c, "media_connected") <=> c.state = "connecting"
         /\ Legal(c, "terminated") <=> c.state \notin {"none", "ended"}
         /\ LeadsTo("offer_sent") = "ringing"
         /\ LeadsTo("remote_accepted") = "connecting"
         /\ LeadsTo("local_accepted") = "connecting"
         /\ LeadsTo("local_rejected") = "ended"
         /\ LeadsTo("media_connected") = "active"
         /\ LeadsTo("terminated") = "ended"
  BY SMT DEF CallRecord, States, Legal, LegalIn, LeadsTo

(* d is c moved to state s, or c itself when c is in none of the states S.    *)
Moves(c, d, S, s) ==
  /\ d \in CallRecord
  /\ d.dir = c.dir
  /\ c.accepted => d.accepted
  /\ IF c.state \in S THEN d.state = s ELSE d = c

(* A transition moves the call along an edge of the lifecycle or leaves it.    *)
COROLLARY TransitionMoves ==
  ASSUME NEW c \in CallRecord
  PROVE  /\ Moves(c, ApplyTransition(c, "offer_sent"), {"initiating"}, "ringing")
         /\ Moves(c, ApplyTransition(c, "remote_accepted"), {"ringing"}, "connecting")
         /\ Moves(c, ApplyTransition(c, "local_accepted"), {"incoming_ringing"}, "connecting")
         /\ Moves(c, ApplyTransition(c, "local_rejected"), {"incoming_ringing"}, "ended")
         /\ Moves(c, ApplyTransition(c, "media_connected"), {"connecting"}, "active")
         /\ Moves(c, ApplyTransition(c, "terminated"), States \ {"ended"}, "ended")
         /\ c.state = "ringing" => ApplyTransition(c, "remote_accepted").accepted
         /\ c.state = "incoming_ringing" => ApplyTransition(c, "local_accepted").accepted
<1> USE LegalFacts, TransitionFacts DEF Moves, Transitions
<1>1. Moves(c, ApplyTransition(c, "offer_sent"), {"initiating"}, "ringing")
  OBVIOUS
<1>2. Moves(c, ApplyTransition(c, "remote_accepted"), {"ringing"}, "connecting")
  OBVIOUS
<1>3. Moves(c, ApplyTransition(c, "local_accepted"), {"incoming_ringing"}, "connecting")
  OBVIOUS
<1>4. Moves(c, ApplyTransition(c, "local_rejected"), {"incoming_ringing"}, "ended")
  OBVIOUS
<1>5. Moves(c, ApplyTransition(c, "media_connected"), {"connecting"}, "active")
  OBVIOUS
<1>6. Moves(c, ApplyTransition(c, "terminated"), States \ {"ended"}, "ended")
  <2>1. c.state \in States \cup {"none"}
    BY DEF CallRecord
  <2>2. c.state \in States \ {"ended"} <=> Legal(c, "terminated")
    BY <2>1 DEF States
  <2> QED
    BY <2>2
<1>7. c.state = "ringing" => ApplyTransition(c, "remote_accepted").accepted
  OBVIOUS
<1>8. c.state = "incoming_ringing" => ApplyTransition(c, "local_accepted").accepted
  OBVIOUS
<1> QED
  BY <1>1, <1>2, <1>3, <1>4, <1>5, <1>6, <1>7, <1>8

(* The API's goroutines are none of the three that have names.                *)
LEMMA CallersAreThreads ==
  ASSUME NEW t \in Callers
  PROVE  t \in Threads /\ t \notin {"dial", "event", "ack"}
  BY CallersAssumption DEF Threads

(* Starting the keepalive keeps one audio goroutine at most.                 *)
LEMMA KeepaliveFacts ==
  ASSUME TypeOK, TickersCounted, StartSilenceKeepalive
  PROVE  /\ keepalive' \in BOOLEAN
         /\ tickers' = IF keepalive' THEN 1 ELSE 0
         /\ keepalive' => keepalive \/ codec
<1>1. CASE keepalive \/ ~codec
  BY <1>1 DEF TypeOK, TickersCounted, StartSilenceKeepalive
<1>2. CASE ~(keepalive \/ ~codec)
  <2>1. keepalive' = TRUE /\ tickers' = tickers + 1 /\ tickers = 0
    BY <1>2, Zenon DEF TypeOK, TickersCounted, StartSilenceKeepalive
  <2> QED
    BY <1>2, <2>1
<1> QED
  BY <1>1, <1>2

----------------------------------------------------------------------------

(* The initial states satisfy the invariant.                               *)
LEMMA InitInv == Init => IndInv
<1> SUFFICES ASSUME Init PROVE IndInv
  OBVIOUS
<1>1. call.state = "none" /\ call.accepted = FALSE /\ call \in CallRecord
  BY DEF Init, CallRecord, States
<1>2. TypeOK
  <2>1. pc \in [Threads -> Labels] /\ captured \in [Threads -> BOOLEAN]
    BY DEF Init, Labels
  <2>2. /\ relay \in [Relays -> Relay!RelayStates]
        /\ opening \in SUBSET Relays
        /\ absent \in [Threads -> SUBSET Relays]
    BY DEF Init, Relay!Init, Relay!RelayStates
  <2>3. tickers \in 0..1 /\ nIncoming \in 0..1 /\ nEnded \in 0..1
    BY DEF Init
  <2>4. /\ cur \in BOOLEAN /\ relayData \in BOOLEAN /\ acceptSent \in BOOLEAN
        /\ codec \in BOOLEAN /\ srtp \in BOOLEAN /\ keepalive \in BOOLEAN
        /\ panicked \in BOOLEAN /\ told \in States \cup {"none"}
    BY Zenon DEF Init
  <2> QED
    BY <1>1, <2>1, <2>2, <2>3, <2>4 DEF TypeOK, CallRecord
<1>3. ~Created
  BY <1>1 DEF Created
<1>4. TickersCounted /\ NothingBeforeCreation /\ AckSections /\ EndedOnce /\ IncomingOnce
  BY <1>1 DEF Init, TickersCounted, NothingBeforeCreation, AckSections, EndedOnce,
                    IncomingOnce, Threads
<1>5. AnsweredStates /\ MediaTeardownFinal /\ NoAudioBeforeAnswer /\ NoLostMediaConnect
  BY <1>1, <1>3 DEF Init, AnsweredStates, MediaTeardownFinal, NoAudioBeforeAnswer,
                    NoLostMediaConnect
<1> QED
  BY <1>2, <1>4, <1>5 DEF IndInv

----------------------------------------------------------------------------
(* Each action preserves IndInv.  The actions are grouped by what of the     *)
(* invariant they can disturb.                                             *)

(* Steps that move a goroutine and touch neither the call nor its media.     *)
LEMMA MoveInv ==
  ASSUME IndInv,
         \/ OfferQuery
         \/ OfferSentPanics
         \/ OfferAckIgnored
         \/ PreacceptAck
         \/ PreacceptAckIgnored
         \/ HandleCallAccept
         \/ HandleCallTransport
         \/ TransportCheck
         \/ TransportSet
         \/ OfferReport
         \/ \E t \in Threads : ConnectRelays(t) \/ ConfigureRelays(t) \/ AcceptSend(t)
                                \/ AcceptCheck(t) \/ CleanRelay(t)
         \/ \E r \in Relays : RelayStep(r)
  PROVE  IndInv'
<1> USE DEF IndInv, TypeOK, CallRecord, TickersCounted, NothingBeforeCreation,
            AckSections, EndedOnce, IncomingOnce, AnsweredStates, MediaTeardownFinal, NoAudioBeforeAnswer,
            NoLostMediaConnect, MediaConnectPending, BeforeCleanMedia, HasConnection,
            Created, IsEnded, Threads, Labels, At, Goto, EmitState, mediaVars,
            relayVars, tellVars, Relay!RelayStates
<1>1. CASE OfferQuery
  BY <1>1 DEF OfferQuery
<1>2. CASE OfferSentPanics
  BY <1>2 DEF OfferSentPanics
<1>3. CASE OfferAckIgnored
  BY <1>3 DEF OfferAckIgnored
<1>4. CASE PreacceptAck
  BY <1>4 DEF PreacceptAck
<1>5. CASE PreacceptAckIgnored
  BY <1>5 DEF PreacceptAckIgnored
<1>6. CASE HandleCallAccept
  BY <1>6 DEF HandleCallAccept
<1>7. CASE HandleCallTransport
  BY <1>7 DEF HandleCallTransport
<1>8. CASE TransportCheck
  BY <1>8 DEF TransportCheck
<1>9. CASE TransportSet
  BY <1>9 DEF TransportSet
<1>10. CASE OfferReport
  BY <1>10 DEF OfferReport
<1>11. ASSUME NEW t \in Threads, ConnectRelays(t) PROVE IndInv'
  BY <1>11 DEF ConnectRelays
<1>12. ASSUME NEW t \in Threads, ConfigureRelays(t) PROVE IndInv'
  BY <1>12 DEF ConfigureRelays
<1>13. ASSUME NEW t \in Threads, AcceptSend(t) PROVE IndInv'
  BY <1>13 DEF AcceptSend
<1>14. ASSUME NEW t \in Threads, AcceptCheck(t) PROVE IndInv'
  BY <1>14 DEF AcceptCheck
<1>15. ASSUME NEW t \in Threads, CleanRelay(t) PROVE IndInv'
  BY <1>15 DEF CleanRelay, Relay!Cleanup
<1>16. ASSUME NEW r \in Relays, RelayStep(r) PROVE IndInv'
  BY <1>16 DEF RelayStep, Relay!Open, Relay!StrayOpen, Relay!Lost
<1> QED
  BY <1>1, <1>2, <1>3, <1>4, <1>5, <1>6, <1>7, <1>8, <1>9, <1>10, <1>11, <1>12, <1>13, <1>14, <1>15, <1>16

(* The call is created once, with nothing left over from before. *)
LEMMA CreationInv ==
  ASSUME IndInv,
         \/ StartCall
         \/ HandleCallOffer
  PROVE  IndInv'
<1> USE DEF IndInv, TypeOK, CallRecord, TickersCounted, NothingBeforeCreation,
            AckSections, EndedOnce, IncomingOnce, AnsweredStates, MediaTeardownFinal, NoAudioBeforeAnswer,
            NoLostMediaConnect, MediaConnectPending, BeforeCleanMedia, HasConnection,
            Created, IsEnded, Threads, Labels, At, Goto, EmitState, mediaVars,
            relayVars, tellVars, Relay!RelayStates
<1>1. CASE StartCall
  BY <1>1 DEF StartCall, NewOutgoingCall, States, Directions
<1>2. CASE HandleCallOffer
  BY <1>2 DEF HandleCallOffer, NewIncomingCall, States, Directions
<1> QED
  BY <1>1, <1>2

(* Steps that set up the SRTP session. *)
LEMMA KeysInv ==
  ASSUME IndInv,
         \/ OfferAck
         \/ Rekey
         \/ \E t \in Threads : SetupIncomingMedia(t)
  PROVE  IndInv'
<1> USE DEF IndInv, TypeOK, CallRecord, TickersCounted, NothingBeforeCreation,
            AckSections, EndedOnce, IncomingOnce, AnsweredStates, MediaTeardownFinal, NoAudioBeforeAnswer,
            NoLostMediaConnect, MediaConnectPending, BeforeCleanMedia, HasConnection,
            Created, IsEnded, Threads, Labels, At, Goto, EmitState, mediaVars,
            relayVars, tellVars, Relay!RelayStates
<1>1. CASE OfferAck
  <2>4. TypeOK'
    BY <1>1 DEF OfferAck, InitSrtpKeys
  <2>5. (NothingBeforeCreation /\ AckSections /\ EndedOnce /\ IncomingOnce /\ AnsweredStates)'
    BY <1>1 DEF OfferAck, InitSrtpKeys
  <2>6. (TickersCounted /\ MediaTeardownFinal /\ NoAudioBeforeAnswer)'
    BY <1>1 DEF OfferAck, InitSrtpKeys
  <2>7. NoLostMediaConnect'
    BY <1>1 DEF OfferAck, InitSrtpKeys
  <2> QED
    BY <2>4, <2>5, <2>6, <2>7
<1>2. CASE Rekey
  BY <1>2 DEF Rekey, InitSrtpKeys
<1>3. ASSUME NEW t \in Threads, SetupIncomingMedia(t) PROVE IndInv'
  BY <1>3 DEF SetupIncomingMedia, InitSrtpKeys, AfterSetup
<1> QED
  BY <1>1, <1>2, <1>3

(* Steps that advance the call and keep it. *)
LEMMA AdvanceInv ==
  ASSUME IndInv,
         \/ OfferSent
         \/ OfferAckError
         \/ RemoteAccept
         \/ \E t \in Callers : AcceptCall(t)
  PROVE  IndInv'
<1> USE DEF IndInv, TypeOK, CallRecord, TickersCounted, NothingBeforeCreation,
            AckSections, EndedOnce, IncomingOnce, AnsweredStates, MediaTeardownFinal, NoAudioBeforeAnswer,
            NoLostMediaConnect, MediaConnectPending, BeforeCleanMedia, HasConnection,
            Created, IsEnded, Threads, Labels, At, Goto, EmitState, mediaVars,
            relayVars, tellVars, Relay!RelayStates
<1>1. CASE OfferSent
  <2>1. Moves(call, call', {"initiating"}, "ringing")
    BY <1>1, TransitionMoves DEF OfferSent
  <2>4. TypeOK'
    BY <1>1, <2>1 DEF Moves, OfferSent
  <2>5. (NothingBeforeCreation /\ AckSections /\ EndedOnce /\ IncomingOnce /\ AnsweredStates)'
    BY <1>1, <2>1 DEF Moves, OfferSent
  <2>6. (TickersCounted /\ MediaTeardownFinal)'
    BY <1>1, Zenon DEF OfferSent
  <2>8. NoAudioBeforeAnswer'
    BY <1>1, <2>1 DEF Moves, OfferSent
  <2>7. NoLostMediaConnect'
    BY <1>1, <2>1 DEF Moves, OfferSent
  <2> QED
    BY <2>4, <2>5, <2>6, <2>7, <2>8
<1>2. CASE OfferAckError
  <2>1. CASE ~cur
    BY <1>2, <2>1 DEF OfferAckError
  <2>2. CASE cur
    <3>1. call' = ApplyTransition(call, "terminated")
      BY <1>2, <2>2 DEF OfferAckError
    <3>2. /\ call' \in CallRecord /\ call'.dir = call.dir
          /\ call.accepted => call'.accepted
          /\ ~Legal(call, "terminated") => call' = call
          /\ Legal(call, "terminated") => call'.state = LeadsTo("terminated")
      BY <3>1, TransitionFacts DEF Transitions
    <3> QED
      BY <1>2, <2>2, <3>2, LegalFacts DEF OfferAckError
  <2> QED
    BY <2>1, <2>2
<1>3. CASE RemoteAccept
  <2>1. /\ Moves(call, call', {"ringing"}, "connecting")
        /\ call.state \in {"ringing"} => call'.accepted
    BY <1>3, TransitionMoves DEF RemoteAccept
  <2> QED
    BY <1>3, <2>1 DEF Moves, RemoteAccept, InitSrtpKeys
<1>4. ASSUME NEW t \in Callers, AcceptCall(t) PROVE IndInv'
  <2>1. /\ Moves(call, call', {"incoming_ringing"}, "connecting")
        /\ call.state \in {"incoming_ringing"} => call'.accepted
    BY <1>4, TransitionMoves DEF AcceptCall
  <2> QED
    BY <1>4, CallersAreThreads, <2>1 DEF Moves, AcceptCall
<1> QED
  BY <1>1, <1>2, <1>3, <1>4

(* Steps that drop the call. *)
LEMMA DropInv ==
  ASSUME IndInv,
         \/ HandleCallTerminate
         \/ \E t \in Callers : RejectCall(t) \/ EndCall(t)
  PROVE  IndInv'
<1> USE DEF IndInv, TypeOK, CallRecord, TickersCounted, NothingBeforeCreation,
            AckSections, EndedOnce, IncomingOnce, AnsweredStates, MediaTeardownFinal, NoAudioBeforeAnswer,
            NoLostMediaConnect, MediaConnectPending, BeforeCleanMedia, HasConnection,
            Created, IsEnded, Threads, Labels, At, Goto, EmitState, mediaVars,
            relayVars, tellVars, Relay!RelayStates
<1>1. CASE HandleCallTerminate
  <2>1. Moves(call, call', States \ {"ended"}, "ended")
    BY <1>1, TransitionMoves DEF HandleCallTerminate
  <2>2. call'.state = "ended"
    BY <1>1, <2>1 DEF Moves, HandleCallTerminate, ClearCurrentCall
  <2>4. TypeOK'
    BY <1>1, <2>1, <2>2 DEF Moves, HandleCallTerminate, ClearCurrentCall
  <2>5. (NothingBeforeCreation /\ AckSections /\ EndedOnce /\ IncomingOnce /\ AnsweredStates)'
    BY <1>1, <2>1, <2>2 DEF Moves, HandleCallTerminate, ClearCurrentCall
  <2>6. (TickersCounted /\ MediaTeardownFinal /\ NoAudioBeforeAnswer)'
    BY <1>1, <2>1, <2>2 DEF Moves, HandleCallTerminate, ClearCurrentCall
  <2>7. NoLostMediaConnect'
    BY <1>1, <2>1, <2>2 DEF Moves, HandleCallTerminate, ClearCurrentCall
  <2> QED
    BY <2>4, <2>5, <2>6, <2>7
<1>2. ASSUME NEW t \in Callers, RejectCall(t) PROVE IndInv'
  <2>1. Moves(call, call', {"incoming_ringing"}, "ended")
    BY <1>2, TransitionMoves DEF RejectCall
  <2>4. TypeOK'
    BY <1>2, CallersAreThreads, <2>1 DEF Moves, RejectCall, ClearCurrentCall
  <2>5. (NothingBeforeCreation /\ AckSections /\ EndedOnce /\ IncomingOnce /\ AnsweredStates)'
    BY <1>2, CallersAreThreads, <2>1 DEF Moves, RejectCall, ClearCurrentCall
  <2>6. (TickersCounted /\ MediaTeardownFinal /\ NoAudioBeforeAnswer)'
    BY <1>2, CallersAreThreads, <2>1 DEF Moves, RejectCall, ClearCurrentCall
  <2>7. NoLostMediaConnect'
    BY <1>2, CallersAreThreads, <2>1 DEF Moves, RejectCall, ClearCurrentCall
  <2> QED
    BY <2>4, <2>5, <2>6, <2>7
<1>3. ASSUME NEW t \in Callers, EndCall(t) PROVE IndInv'
  <2>1. Moves(call, call', States \ {"ended"}, "ended")
    BY <1>3, TransitionMoves DEF EndCall
  <2>2. call'.state = "ended"
    BY <1>3, CallersAreThreads, <2>1 DEF Moves, EndCall, ClearCurrentCall
  <2>4. TypeOK'
    BY <1>3, CallersAreThreads, <2>1, <2>2 DEF Moves, EndCall, ClearCurrentCall
  <2>5. (NothingBeforeCreation /\ AckSections /\ EndedOnce /\ IncomingOnce /\ AnsweredStates)'
    BY <1>3, CallersAreThreads, <2>1, <2>2 DEF Moves, EndCall, ClearCurrentCall
  <2>6. (TickersCounted /\ MediaTeardownFinal /\ NoAudioBeforeAnswer)'
    BY <1>3, CallersAreThreads, <2>1, <2>2 DEF Moves, EndCall, ClearCurrentCall
  <2>7. NoLostMediaConnect'
    BY <1>3, CallersAreThreads, <2>1, <2>2 DEF Moves, EndCall, ClearCurrentCall
  <2> QED
    BY <2>4, <2>5, <2>6, <2>7
<1> QED
  BY <1>1, <1>2, <1>3

(* Callbacks into the Session, and the cleanup of the media. *)
LEMMA TailInv ==
  ASSUME IndInv,
         \/ OfferIncoming
         \/ \E t \in Threads : NotifyEnded(t) \/ CleanMedia(t)
  PROVE  IndInv'
<1> USE DEF IndInv, TypeOK, CallRecord, TickersCounted, NothingBeforeCreation,
            AckSections, EndedOnce, IncomingOnce, AnsweredStates, MediaTeardownFinal, NoAudioBeforeAnswer,
            NoLostMediaConnect, MediaConnectPending, BeforeCleanMedia, HasConnection,
            Created, IsEnded, Threads, Labels, At, Goto, EmitState, mediaVars,
            relayVars, tellVars, Relay!RelayStates
<1>1. CASE OfferIncoming
  BY <1>1 DEF OfferIncoming
<1>2. ASSUME NEW t \in Threads, NotifyEnded(t) PROVE IndInv'
  BY <1>2 DEF NotifyEnded
<1>3. ASSUME NEW t \in Threads, CleanMedia(t) PROVE IndInv'
  <2>1. ~codec' /\ ~srtp' /\ ~keepalive'
    BY <1>3, Zenon DEF CleanMedia
  <2>2. tickers' = 0
    BY <1>3 DEF CleanMedia
  <2>3. TypeOK'
    <3>1. codec' \in BOOLEAN /\ srtp' \in BOOLEAN /\ keepalive' \in BOOLEAN
      BY <1>3, Zenon DEF CleanMedia
    <3>2. pc' \in [Threads -> Labels] /\ tickers' \in 0..1
      BY <1>3, <2>2 DEF CleanMedia
    <3> QED
      BY <1>3, <3>1, <3>2 DEF CleanMedia
  <2>4. (NothingBeforeCreation /\ AckSections /\ EndedOnce /\ IncomingOnce /\ AnsweredStates)'
    BY <1>3 DEF CleanMedia
  <2>5. (TickersCounted /\ MediaTeardownFinal /\ NoAudioBeforeAnswer)'
    BY <2>1, <2>2
  <2>6. NoLostMediaConnect'
    BY <1>3 DEF CleanMedia
  <2> QED
    BY <2>3, <2>4, <2>5, <2>6
<1> QED
  BY <1>1, <1>2, <1>3

(* Steps that start the audio goroutine. *)
LEMMA AudioInv ==
  ASSUME IndInv,
         \/ \E t \in Threads : MediaConnect(t)
         \/ \E r \in Relays : OnRelayConnected(r)
  PROVE  IndInv'
<1> USE DEF IndInv, TypeOK, CallRecord, TickersCounted, NothingBeforeCreation,
            AckSections, EndedOnce, IncomingOnce, AnsweredStates, MediaTeardownFinal, NoAudioBeforeAnswer,
            NoLostMediaConnect, MediaConnectPending, BeforeCleanMedia, HasConnection,
            Created, IsEnded, Threads, Labels, At, Goto, EmitState, mediaVars,
            relayVars, tellVars, Relay!RelayStates
<1>1. ASSUME NEW t \in Threads, MediaConnect(t) PROVE IndInv'
  <2>1. CASE call.state = "connecting"
    <3>1. call' = ApplyTransition(call, "media_connected") /\ StartSilenceKeepalive
      BY <1>1, <2>1, LegalFacts DEF MediaConnect
    <3>2. Moves(call, call', {"connecting"}, "active")
      BY <3>1, TransitionMoves
    <3>3. TypeOK'
      BY <1>1, <3>1, <3>2, KeepaliveFacts DEF Moves, MediaConnect
    <3>4. (NothingBeforeCreation /\ AckSections /\ EndedOnce /\ IncomingOnce /\ AnsweredStates)'
      BY <1>1, <2>1, <3>2 DEF Moves, MediaConnect
    <3>5. (TickersCounted /\ MediaTeardownFinal /\ NoAudioBeforeAnswer)'
      BY <1>1, <2>1, <3>1, <3>2, KeepaliveFacts DEF Moves, MediaConnect
    <3>6. NoLostMediaConnect'
      BY <2>1, <3>2 DEF Moves
    <3> QED
      BY <3>3, <3>4, <3>5, <3>6
  <2>2. CASE call.state # "connecting"
    BY <1>1, <2>2, LegalFacts DEF MediaConnect
  <2> QED
    BY <2>1, <2>2
<1> USE DEF Relay!Connected
<1>2. ASSUME NEW r \in Relays, OnRelayConnected(r) PROVE IndInv'
  <2>1. CASE cur /\ call.state \notin {"ended", "incoming_ringing", "initiating"}
    <3>1. call' = ApplyTransition(call, "media_connected") /\ StartSilenceKeepalive
      BY <1>2, <2>1 DEF OnRelayConnected
    <3>2. Moves(call, call', {"connecting"}, "active")
      BY <3>1, TransitionMoves
    <3>3. TypeOK'
      BY <1>2, <3>1, <3>2, KeepaliveFacts, LegalFacts DEF Moves, OnRelayConnected
    <3>4. (NothingBeforeCreation /\ AckSections /\ EndedOnce /\ IncomingOnce /\ AnsweredStates)'
      BY <1>2, <2>1, <3>2 DEF Moves, OnRelayConnected
    <3>5. (TickersCounted /\ MediaTeardownFinal)'
      BY <1>2, <2>1, <3>1, KeepaliveFacts DEF OnRelayConnected
    <3>6. NoAudioBeforeAnswer'
      <4>1. CASE call.dir = "incoming"
        <5>1. call.state \in {"connecting", "active"}
          BY <2>1, <4>1 DEF States
        <5> QED
          BY <3>2, <5>1 DEF Moves
      <4>2. CASE call.dir # "incoming"
        BY <3>2, <4>2 DEF Moves
      <4> QED
        BY <4>1, <4>2
    <3>7. NoLostMediaConnect'
      BY <3>2 DEF Moves
    <3> QED
      BY <3>3, <3>4, <3>5, <3>6, <3>7
  <2>2. CASE ~(cur /\ call.state \notin {"ended", "incoming_ringing", "initiating"})
    BY <1>2, <2>2 DEF OnRelayConnected
  <2> QED
    BY <2>1, <2>2
<1> QED
  BY <1>1, <1>2

----------------------------------------------------------------------------
(* The invariant and what follows from it.                                  *)

(* Every step, stuttering included, preserves the invariant.                *)
LEMMA NextInv == IndInv /\ [Next]_vars => IndInv'
<1> SUFFICES ASSUME IndInv, [Next]_vars PROVE IndInv'
  OBVIOUS
<1>1. CASE Next
  <2>1. CASE Environment
    BY <2>1, CreationInv, MoveInv, AdvanceInv, DropInv DEF Environment
  <2>2. CASE Dial
    BY <2>2, MoveInv, AdvanceInv DEF Dial
  <2>3. CASE Event
    BY <2>3, TailInv, MoveInv, KeysInv, AdvanceInv DEF Event
  <2>4. CASE Ack
    BY <2>4, AdvanceInv, KeysInv, MoveInv DEF Ack
  <2>5. ASSUME NEW t \in Threads, Continue(t) PROVE IndInv'
    BY <2>5, KeysInv, MoveInv, AudioInv, TailInv DEF Continue
  <2>6. ASSUME NEW r \in Relays, OnRelayConnected(r) PROVE IndInv'
    BY <2>6, AudioInv
  <2> QED
    BY <1>1, <2>1, <2>2, <2>3, <2>4, <2>5, <2>6 DEF Next
<1>2. CASE UNCHANGED vars
  BY <1>2 DEF vars, mediaVars, relayVars, tellVars, IndInv, TypeOK, TickersCounted,
              NothingBeforeCreation, AckSections, EndedOnce, IncomingOnce,
              AnsweredStates, MediaTeardownFinal, NoAudioBeforeAnswer,
              NoLostMediaConnect, MediaConnectPending, BeforeCleanMedia, HasConnection,
              Created, IsEnded
<1> QED
  BY <1>1, <1>2

(* IndInv holds in every state the manager can reach.                       *)
THEOREM Invariance == Spec => []IndInv
  BY InitInv, NextInv, PTL DEF Spec

(* The manager's fields keep their types; in particular there is never more  *)
(* than one audio goroutine, and each callback comes at most once.           *)
THEOREM TypeCorrect == Spec => []TypeOK
<1>1. IndInv => TypeOK
  BY DEF IndInv
<1> QED
  BY <1>1, Invariance, PTL

(* Teardown is final: cleanupMedia is never undone by a handler that still   *)
(* holds a pointer to the dropped call.                                     *)
THEOREM TeardownIsFinal == Spec => []MediaTeardownFinal
<1>1. IndInv => MediaTeardownFinal
  BY DEF IndInv
<1> QED
  BY <1>1, Invariance, PTL

(* An incoming call sends no audio frame before it has been answered.        *)
THEOREM SilentUntilAnswered == Spec => []NoAudioBeforeAnswer
<1>1. IndInv => NoAudioBeforeAnswer
  BY DEF IndInv
<1> QED
  BY <1>1, Invariance, PTL

(* The relay opening and the call being accepted never miss each other.      *)
THEOREM MediaConnectNotLost == Spec => []NoLostMediaConnect
<1>1. IndInv => NoLostMediaConnect
  BY DEF IndInv
<1> QED
  BY <1>1, Invariance, PTL

----------------------------------------------------------------------------
(* The manager implements CallContract.                                     *)

(* A handler that works on the call finds it created.                       *)
LEMMA RunningImpliesCreated ==
  ASSUME IndInv, NEW t \in Threads, pc[t] # "idle"
  PROVE  Created
  BY DEF IndInv, NothingBeforeCreation

(* The initial states map to the contract's.                                *)
LEMMA ContractInit == Init => Contract!Init
  BY DEF Init, Contract!Init

(* A step that keeps the call and reports nothing, or reports its state.      *)
LEMMA AdvanceStep ==
  ASSUME Created,
         call'.state = call.state \/ Contract!Edge(call.state, call'.state),
         EmitState(cur, call') \/ UNCHANGED told,
         UNCHANGED <<cur, nIncoming, nEnded>>
  PROVE  [Contract!Next]_Contract!vars
<1>1. told' = told \/ (cur /\ told' = call'.state)
  BY DEF EmitState
<1>2. Contract!Advance
  BY <1>1 DEF Contract!Advance, Created
<1> QED
  BY <1>2 DEF Contract!Next

(* A step that drops the call, ended or not.                                *)
LEMMA DropStep ==
  ASSUME cur, ClearCurrentCall, EmitState(cur', call'),
         call'.state \in {call.state, "ended"},
         UNCHANGED <<nIncoming, nEnded>>
  PROVE  [Contract!Next]_Contract!vars
<1>1. Contract!Drop
  BY Zenon DEF Contract!Drop, ClearCurrentCall, EmitState
<1> QED
  BY <1>1 DEF Contract!Next

(* Steps the contract does not see.                                         *)
LEMMA HiddenStep ==
  ASSUME UNCHANGED <<call, cur, told, nIncoming, nEnded>>
  PROVE  [Contract!Next]_Contract!vars
  BY DEF Contract!vars

(* Every step of the manager is one of the contract's, or changes nothing     *)
(* the contract speaks of.                                                  *)
LEMMA ContractStep == IndInv /\ [Next]_vars => [Contract!Next]_Contract!vars
<1> SUFFICES ASSUME IndInv, [Next]_vars PROVE [Contract!Next]_Contract!vars
  OBVIOUS
<1> DEFINE Goal == [Contract!Next]_Contract!vars
<1>c. call \in CallRecord
  BY DEF IndInv, TypeOK, CallRecord
<1>s. UNCHANGED <<call, cur, told, nIncoming, nEnded>> => Goal
  BY HiddenStep
<1> USE DEF mediaVars, relayVars, tellVars
<1> HIDE DEF Goal
<1>1. CASE UNCHANGED vars
  BY <1>1, <1>s DEF vars, Goal
<1>2. CASE StartCall \/ HandleCallOffer
  <2>1. Contract!Create
    BY <1>2 DEF Contract!Create, StartCall, HandleCallOffer, Created, NewOutgoingCall,
                NewIncomingCall
  <2> QED
    BY <2>1 DEF Contract!Next, Goal
<1>3. CASE Dial
  <2>1. CASE OfferQuery \/ OfferSentPanics
    BY <2>1, <1>s DEF OfferQuery, OfferSentPanics, Goal
  <2>2. CASE OfferSent
    <3>1. Moves(call, call', {"initiating"}, "ringing")
      BY <2>2, <1>c, TransitionMoves DEF OfferSent
    <3>2. call'.state = call.state \/ Contract!Edge(call.state, call'.state)
      BY <3>1 DEF Moves, Contract!Edge
    <3>3. Created
      BY <2>2, RunningImpliesCreated DEF OfferSent, At, Threads
    <3> QED
      BY <2>2, <3>2, <3>3, AdvanceStep DEF OfferSent, Goal
  <2> QED
    BY <1>3, <2>1, <2>2 DEF Dial
<1>4. CASE Ack
  <2>1. CASE OfferAck \/ OfferAckIgnored \/ PreacceptAck \/ PreacceptAckIgnored
    BY <2>1, <1>s DEF OfferAck, OfferAckIgnored, PreacceptAck, PreacceptAckIgnored, Goal
  <2>2. CASE OfferAckError
    <3>1. call' = call \/ Moves(call, call', States \ {"ended"}, "ended")
      BY <2>2, <1>c, TransitionMoves DEF OfferAckError
    <3>2. call'.state = call.state \/ Contract!Edge(call.state, call'.state)
      BY <3>1 DEF Moves, Contract!Edge
    <3>3. Created
      BY <2>2, RunningImpliesCreated DEF OfferAckError, At, Threads
    <3> QED
      BY <2>2, <3>2, <3>3, AdvanceStep DEF OfferAckError, Goal
  <2> QED
    BY <1>4, <2>1, <2>2 DEF Ack
<1>5. CASE Event
  <2>1. CASE Rekey \/ TransportCheck \/ TransportSet
    BY <2>1, <1>s DEF Rekey, TransportCheck, TransportSet, Goal
  <2>2. CASE OfferIncoming
    <3>1. Created /\ nIncoming = 0
      BY <2>2, RunningImpliesCreated
         DEF OfferIncoming, At, Threads, IndInv, IncomingOnce
    <3>2. Contract!NotifyIncoming
      BY <2>2, <3>1 DEF OfferIncoming, Contract!NotifyIncoming, Created
    <3> QED
      BY <3>2 DEF Contract!Next, Goal
  <2>3. CASE OfferReport
    <3>1. Created
      BY <2>3, RunningImpliesCreated DEF OfferReport, At, Threads
    <3>2. EmitState(cur, call') /\ call' = call
      BY <2>3 DEF OfferReport, EmitState
    <3> QED
      BY <2>3, <3>1, <3>2, AdvanceStep DEF OfferReport, Goal
  <2>4. CASE RemoteAccept
    <3>1. Moves(call, call', {"ringing"}, "connecting")
      BY <2>4, <1>c, TransitionMoves DEF RemoteAccept
    <3>2. call'.state = call.state \/ Contract!Edge(call.state, call'.state)
      BY <3>1 DEF Moves, Contract!Edge
    <3>3. Created
      BY <2>4, RunningImpliesCreated DEF RemoteAccept, At, Threads
    <3> QED
      BY <2>4, <3>2, <3>3, AdvanceStep DEF RemoteAccept, Goal
  <2> QED
    BY <1>5, <2>1, <2>2, <2>3, <2>4 DEF Event
<1>6. CASE HandleCallTerminate
  <2>1. Moves(call, call', States \ {"ended"}, "ended")
    BY <1>6, <1>c, TransitionMoves DEF HandleCallTerminate
  <2>2. call'.state \in {call.state, "ended"}
    BY <2>1 DEF Moves
  <2> QED
    BY <1>6, <2>2, DropStep DEF HandleCallTerminate, Goal
<1>7. CASE HandleCallAccept \/ HandleCallTransport
  BY <1>7, <1>s DEF HandleCallAccept, HandleCallTransport, Goal
<1>8. ASSUME NEW t \in Callers, AcceptCall(t) \/ RejectCall(t) \/ EndCall(t)
      PROVE  Goal
  <2>1. CASE AcceptCall(t)
    <3>1. Moves(call, call', {"incoming_ringing"}, "connecting")
      BY <2>1, <1>c, TransitionMoves DEF AcceptCall
    <3>2. call'.state = call.state \/ Contract!Edge(call.state, call'.state)
      BY <3>1 DEF Moves, Contract!Edge
    <3>3. Created
      BY <2>1 DEF AcceptCall, IndInv, NothingBeforeCreation
    <3> QED
      BY <2>1, <3>2, <3>3, AdvanceStep DEF AcceptCall, Goal
  <2>2. CASE RejectCall(t)
    <3>1. Moves(call, call', {"incoming_ringing"}, "ended")
      BY <2>2, <1>c, TransitionMoves DEF RejectCall
    <3>2. call'.state \in {call.state, "ended"}
      BY <3>1 DEF Moves
    <3> QED
      BY <2>2, <3>2, DropStep DEF RejectCall, Goal
  <2>3. CASE EndCall(t)
    <3>1. Moves(call, call', States \ {"ended"}, "ended")
      BY <2>3, <1>c, TransitionMoves DEF EndCall
    <3>2. call'.state \in {call.state, "ended"}
      BY <3>1 DEF Moves
    <3> QED
      BY <2>3, <3>2, DropStep DEF EndCall, Goal
  <2> QED
    BY <1>8, <2>1, <2>2, <2>3
<1>9. ASSUME NEW r \in Relays, RelayStep(r) PROVE Goal
  BY <1>9, <1>s DEF RelayStep
<1>10. ASSUME NEW r \in Relays, OnRelayConnected(r) PROVE Goal
  <2>1. CASE cur /\ call.state \notin {"ended", "incoming_ringing", "initiating"}
    <3>1. call' = ApplyTransition(call, "media_connected")
      BY <1>10, <2>1 DEF OnRelayConnected
    <3>2. Moves(call, call', {"connecting"}, "active")
      BY <3>1, <1>c, TransitionMoves
    <3>3. call'.state = call.state \/ Contract!Edge(call.state, call'.state)
      BY <3>2 DEF Moves, Contract!Edge
    <3>4. Created
      BY <2>1 DEF IndInv, NothingBeforeCreation
    <3>5. EmitState(cur, call') \/ UNCHANGED told
      BY <1>10, <2>1 DEF OnRelayConnected, EmitState
    <3> QED
      BY <1>10, <3>3, <3>4, <3>5, AdvanceStep DEF OnRelayConnected, Goal
  <2>2. CASE ~(cur /\ call.state \notin {"ended", "incoming_ringing", "initiating"})
    BY <1>10, <2>2, <1>s DEF OnRelayConnected
  <2> QED
    BY <2>1, <2>2
<1>11. ASSUME NEW t \in Threads, Continue(t) PROVE Goal
  <2>1. CASE NotifyEnded(t)
    <3>1. ~cur /\ call.state = "ended" /\ nEnded = 0
      BY <2>1 DEF NotifyEnded, At, IndInv, EndedOnce, IsEnded
    <3>2. Contract!NotifyEnded
      BY <2>1, <3>1 DEF NotifyEnded, Contract!NotifyEnded
    <3> QED
      BY <3>2 DEF Contract!Next, Goal
  <2>2. CASE MediaConnect(t)
    <3>1. CASE ~Legal(call, "media_connected")
      BY <2>2, <3>1, <1>s DEF MediaConnect
    <3>2. CASE Legal(call, "media_connected")
      <4>1. Moves(call, call', {"connecting"}, "active") /\ EmitState(cur, call')
        BY <2>2, <3>2, <1>c, TransitionMoves DEF MediaConnect
      <4>2. call'.state = call.state \/ Contract!Edge(call.state, call'.state)
        BY <4>1 DEF Moves, Contract!Edge
      <4>3. Created
        BY <2>2, RunningImpliesCreated DEF MediaConnect, At
      <4> QED
        BY <2>2, <4>1, <4>2, <4>3, AdvanceStep DEF MediaConnect, Goal
    <3> QED
      BY <3>1, <3>2
  <2>3. CASE SetupIncomingMedia(t) \/ ConnectRelays(t) \/ ConfigureRelays(t) \/ AcceptSend(t)
    BY <2>3, <1>s DEF SetupIncomingMedia, ConnectRelays, ConfigureRelays, AcceptSend
  <2>4. CASE AcceptCheck(t) \/ CleanMedia(t) \/ CleanRelay(t)
    BY <2>4, <1>s DEF AcceptCheck, CleanMedia, CleanRelay
  <2> QED
    BY <1>11, <2>1, <2>2, <2>3, <2>4 DEF Continue
<1>12. CASE Environment
  BY <1>12, <1>2, <1>6, <1>7, <1>8, <1>9 DEF Environment, Goal
<1> QED
  BY <1>1, <1>3, <1>4, <1>5, <1>10, <1>11, <1>12 DEF Next, Goal

(* The manager keeps the contract: lifecycle edges only, reports of the call   *)
(* it tracks only, each callback once, OnEnded for an ended call only.          *)
THEOREM Refinement == Spec => ContractSpec
  BY Invariance, ContractInit, ContractStep, PTL DEF Spec, ContractSpec, Contract!Spec

----------------------------------------------------------------------------
(* The manager keeps to what RelayContract lets it see and do.              *)

(* Only registering, the cleanup and the transport's own steps touch the      *)
(* relays.                                                                  *)
LEMMA RelayOnly == IndInv /\ [Next]_vars => [Relay!Next]_Relay!vars
<1> SUFFICES ASSUME IndInv, [Next]_vars PROVE [Relay!Next]_Relay!vars
  OBVIOUS
<1> DEFINE Goal == [Relay!Next]_Relay!vars
<1>i. UNCHANGED <<relay, opening>> => Goal
  BY DEF Relay!vars
<1> USE DEF relayVars
<1> HIDE DEF Goal
<1>1. CASE UNCHANGED vars
  BY <1>1, <1>i DEF vars, Goal
<1>2. CASE Environment
  <2>1. CASE StartCall \/ HandleCallOffer
    BY <2>1, <1>i DEF StartCall, HandleCallOffer, Goal
  <2>2. CASE HandleCallAccept \/ HandleCallTransport \/ HandleCallTerminate
    BY <2>2, <1>i DEF HandleCallAccept, HandleCallTransport, HandleCallTerminate, Goal
  <2>3. ASSUME NEW t \in Callers, AcceptCall(t) \/ RejectCall(t) \/ EndCall(t)
        PROVE  Goal
    BY <2>3, <1>i DEF AcceptCall, RejectCall, EndCall
  <2>4. ASSUME NEW r \in Relays, RelayStep(r) PROVE Goal
    BY <2>4 DEF RelayStep, Relay!Next, Goal
  <2> QED
    BY <1>2, <2>1, <2>2, <2>3, <2>4 DEF Environment, Goal
<1>3. CASE Dial
  BY <1>3, <1>i DEF Dial, OfferQuery, OfferSent, OfferSentPanics, Goal
<1>4. CASE Event
  BY <1>4, <1>i DEF Event, OfferIncoming, OfferReport, Rekey, RemoteAccept, TransportCheck,
                    TransportSet, Goal
<1>5. CASE Ack
  BY <1>5, <1>i DEF Ack, OfferAckError, OfferAck, OfferAckIgnored, PreacceptAck,
                    PreacceptAckIgnored, Goal
<1>6. ASSUME NEW t \in Threads, Continue(t) PROVE Goal
  <2>1. CASE ConfigureRelays(t)
    <3>1. absent[t] \in SUBSET Relays
      BY DEF IndInv, TypeOK
    <3>2. Relay!Connect
      BY <2>1, <3>1 DEF ConfigureRelays, Relay!Connect
    <3> QED
      BY <3>2 DEF Relay!Next, Goal
  <2>2. CASE CleanRelay(t)
    BY <2>2 DEF CleanRelay, Relay!Next, Goal
  <2>3. CASE SetupIncomingMedia(t) \/ ConnectRelays(t) \/ MediaConnect(t)
    BY <2>3, <1>i DEF SetupIncomingMedia, ConnectRelays, MediaConnect
  <2>4. CASE AcceptSend(t) \/ AcceptCheck(t) \/ NotifyEnded(t) \/ CleanMedia(t)
    BY <2>4, <1>i DEF AcceptSend, AcceptCheck, NotifyEnded, CleanMedia
  <2> QED
    BY <1>6, <2>1, <2>2, <2>3, <2>4 DEF Continue
<1>7. ASSUME NEW r \in Relays, OnRelayConnected(r) PROVE Goal
  BY <1>7 DEF OnRelayConnected, Relay!Next, Goal
<1> QED
  BY <1>1, <1>2, <1>3, <1>4, <1>5, <1>6, <1>7 DEF Next, Goal

(* Every behaviour of the manager is one of RelayContract's on the relays: the *)
(* manager assumes no more of the transport than RelayManager gives.           *)
THEOREM RelayUse == Spec => RelaySpec
<1>1. Init => Relay!Init
  BY DEF Init
<1> QED
  BY <1>1, Invariance, RelayOnly, PTL DEF Spec, RelaySpec, Relay!Spec

=============================================================================

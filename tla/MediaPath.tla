------------------------------- MODULE MediaPath -------------------------------
(***************************************************************************)
(* The audio of a call on the wire: RTP and SRTP both ways (media/rtp.go,         *)
(* media/srtp.go, sendOpusFrameLocked, onRelayData), and the way of a caller's      *)
(* frame from a relay to the voice agent's queue (Session.OnPeerAudio,             *)
(* GeminiLiveAgent.FeedCallerAudio, writeAudioLoop).                              *)
(*                                                                         *)
(* A packet is known by its place in its sender's stream, counted from the first   *)
(* sequence number: its true index.  What is on the wire is that number modulo Cycle  *)
(* (2^16 in the code); the rollover counter has to supply the rest, and a packet is   *)
(* decrypted with the index so computed.  The data channels are unordered, a packet  *)
(* may come over each relay, and each relay delivers on a goroutine of its own.       *)
(***************************************************************************)
EXTENDS Integers, Sequences, FiniteSets

CONSTANTS
  Relays,      \* the connections that deliver
  Cycle,       \* sequence numbers: 2^16
  Firsts,      \* bound: the sequence numbers a stream may start with
  Copies,      \* bound: how often the network brings a packet
  MaxPackets,  \* bound: packets of both streams together
  MaxSessions, \* bound: SRTP sessions of a call
  QueueCap     \* frames audioInCh holds: 100

ASSUME MediaAssumption ==
  /\ Cycle \in Nat /\ Cycle >= 4 /\ Cycle % 2 = 0
  /\ Firsts \subseteq 0..(Cycle - 1)
  /\ MaxPackets \in Nat \ {0} /\ MaxSessions \in Nat \ {0} /\ QueueCap \in Nat \ {0}
  /\ Copies \in Nat

Half == Cycle \div 2

VARIABLES
  rtp,       \* the RTP session: its next sequence number; history: its first, and packets sent
  send,      \* the sending context
  recv,      \* the receiving context of each SRTP session; the last is the current one
  live,      \* whether the call has its media (srtpSession # nil)
  ownIndex,  \* the index our last packet was protected with
  rekeyed,   \* history: the keys were set again after our stream had wrapped
  peer,      \* the peer's stream: first, and packets sent
  net,       \* how often each packet may still come
  pc,        \* each relay's goroutine
  pkt, ctx,  \* the packet it is at and the context it captured
  read,      \* what updateRoc has read of that context
  index,     \* the index its packet is decrypted with
  last,      \* history: the packet each receiving context saw last
  tame,      \* history: whether no wrap a context saw was raced for, jumped or gone back over
  known,     \* actualPeerSet
  queued,    \* frames in audioInCh
  overtaken  \* history: another frame was queued since a goroutine made room for its own

ownVars == <<rtp, send, ownIndex, rekeyed>>
peerVars == <<peer, net>>
threadVars == <<pc, pkt, ctx, read, index>>
histVars == <<last, tame>>
queueVars == <<queued, overtaken>>
vars == <<ownVars, recv, live, peerVars, threadVars, histVars, known, queueVars>>

Context == [roc : Nat, lastSeq : 0..(Cycle - 1), initialized : BOOLEAN]
Fresh == [roc |-> 0, lastSeq |-> 0, initialized |-> FALSE]
Packets == 0..(MaxPackets - 1)
Labels == {"idle", "unprotect", "update", "index", "decode", "feed", "full", "retry"}

(* Every variable has its type.                                                *)
TypeOK ==
  /\ rtp \in [seq : 0..(Cycle - 1), first : 0..(Cycle - 1), sent : Nat]
  /\ send \in Context
  /\ recv \in Seq(Context) /\ Len(recv) \in 1..MaxSessions
  /\ live \in BOOLEAN /\ ownIndex \in Nat /\ rekeyed \in BOOLEAN
  /\ peer \in [first : 0..(Cycle - 1), sent : 0..MaxPackets]
  /\ net \in [Packets -> 0..Copies]
  /\ pc \in [Relays -> Labels]
  /\ pkt \in [Relays -> Packets] /\ ctx \in [Relays -> 1..MaxSessions]
  /\ read \in [Relays -> Context] /\ index \in [Relays -> Nat]
  /\ last \in [1..MaxSessions -> -1..(MaxPackets - 1)] /\ tame \in [1..MaxSessions -> BOOLEAN]
  /\ known \in BOOLEAN
  /\ queued \in 0..QueueCap
  /\ overtaken \in [Relays -> BOOLEAN]

(* NewRtpSession: the first sequence number is drawn at random.                      *)
NewRtpSession(first) == [seq |-> first, first |-> first, sent |-> 0]

Init ==
  /\ \E f \in Firsts : rtp = NewRtpSession(f)
  /\ send = Fresh /\ recv = <<Fresh>>
  /\ live = TRUE /\ ownIndex = 0 /\ rekeyed = FALSE
  /\ \E f \in Firsts : peer = [first |-> f, sent |-> 0]
  /\ net = [p \in Packets |-> 0]
  /\ pc = [r \in Relays |-> "idle"] /\ pkt = [r \in Relays |-> 0]
  /\ ctx = [r \in Relays |-> 1] /\ read = [r \in Relays |-> Fresh]
  /\ index = [r \in Relays |-> 0]
  /\ last = [s \in 1..MaxSessions |-> -1] /\ tame = [s \in 1..MaxSessions |-> TRUE]
  /\ known = FALSE
  /\ queued = 0 /\ overtaken = [r \in Relays |-> FALSE]

----------------------------------------------------------------------------
(* SRTP.                                                                       *)

(* Mutant: a number below the last one is taken for a wrap.                           *)
UpdateRocMutant(c, seq) ==
  [roc |-> IF c.initialized /\ seq < c.lastSeq THEN c.roc + 1 ELSE c.roc,
   lastSeq |-> seq, initialized |-> TRUE]

(* A number that is more than half a cycle below the last one has wrapped.  The context     *)
(* follows every packet, late ones too, and never goes back.                           *)
UpdateRoc(c, seq) ==
  [roc |-> IF c.initialized /\ seq - c.lastSeq < -Half THEN c.roc + 1 ELSE c.roc,
   lastSeq |-> seq, initialized |-> TRUE]

PacketIndex(c, seq) == c.roc * Cycle + seq

(* DecodeRtpHeader: the 16 bits of a packet's number.                                   *)
SeqOf(first, n) == (first + n) % Cycle

----------------------------------------------------------------------------
(* Our own stream.                                                               *)

(* Mutant: the number is not followed by the session.                                *)
CreatePacketMutant(s) == [s EXCEPT !.sent = @ + 1]

(* CreatePacketWithDuration: the number is a uint16.                                 *)
CreatePacket(s) == [s EXCEPT !.seq = (@ + 1) % Cycle, !.sent = @ + 1]

(* sendOpusFrameLocked: the pump, under the manager's lock.                           *)
SendOpusFrame ==
  /\ live /\ rtp.sent + peer.sent < MaxPackets
  /\ send' = UpdateRoc(send, rtp.seq)
  /\ ownIndex' = PacketIndex(send', rtp.seq)
  /\ rtp' = CreatePacket(rtp)
  /\ UNCHANGED <<rekeyed, recv, live, peerVars, threadVars, histVars, known, queueVars>>

(* A new session: both contexts start from nothing.                                  *)
NewSrtpSession ==
  /\ live /\ Len(recv) < MaxSessions
  /\ send' = Fresh
  /\ recv' = Append(recv, Fresh)

(* HandleCallAccept sets the keys again, under the RTP session that may be sending already,   *)
(* and derives the peer's SSRC unless it was heard.                                      *)
InitSrtpKeys ==
  /\ NewSrtpSession
  /\ rekeyed' = (rekeyed \/ rtp.first + rtp.sent >= Cycle)
  /\ UNCHANGED <<rtp, ownIndex, live, peerVars, threadVars, histVars, known, queueVars>>

(* setupIncomingMedia and the ack of an offer: the RTP session is a new one when our SSRC is,  *)
(* and a peer they name counts as heard.                                                *)
SetupMedia ==
  /\ NewSrtpSession
  /\ \/ \E f \in Firsts : rtp' = NewRtpSession(f)
     \/ UNCHANGED rtp
  /\ rekeyed' = IF rtp'.sent = 0 THEN FALSE ELSE (rekeyed \/ rtp.first + rtp.sent >= Cycle)
  /\ known' \in {known, TRUE}
  /\ UNCHANGED <<ownIndex, live, peerVars, threadVars, histVars, queueVars>>

(* cleanupMedia.                                                                 *)
CleanupMedia ==
  /\ live
  /\ live' = FALSE
  /\ known' = FALSE
  /\ UNCHANGED <<ownVars, recv, peerVars, threadVars, histVars, queueVars>>

----------------------------------------------------------------------------
(* The peer and the network: a packet may never come, come late, and come over any relay.   *)

PeerSends ==
  /\ rtp.sent + peer.sent < MaxPackets
  /\ peer' = [peer EXCEPT !.sent = @ + 1]
  /\ net' = [net EXCEPT ![peer.sent] = Copies]
  /\ UNCHANGED <<ownVars, recv, live, threadVars, histVars, known, queueVars>>

----------------------------------------------------------------------------
(* onRelayData, on the goroutine of relay r.                                          *)

Goto(r, l) == pc' = [pc EXCEPT ![r] = l]

(* The session is captured under the lock, and an SSRC heard for the first time noted.        *)
OnRelayData(r, p) ==
  /\ pc[r] = "idle" /\ net[p] > 0
  /\ net' = [net EXCEPT ![p] = @ - 1]
  /\ IF live
     THEN /\ Goto(r, "unprotect")
          /\ pkt' = [pkt EXCEPT ![r] = p]
          /\ ctx' = [ctx EXCEPT ![r] = Len(recv)]
          /\ known' = TRUE
     ELSE UNCHANGED <<pc, pkt, ctx, known>>
  /\ UNCHANGED <<ownVars, recv, live, peer, read, index, histVars, queueVars>>

InUse(s) == {r \in Relays : ctx[r] = s /\ pc[r] \in {"update", "index"}}

Epoch(p) == (peer.first + p) \div Cycle

(* From packet p to q less than half a cycle is skipped, and no wrap is crossed backwards.      *)
Follows(p, q) ==
  IF p = -1 THEN Epoch(q) = 0 ELSE Epoch(p) <= Epoch(q) /\ p - q < Half /\ q - p < Half

(* Whoever is inside context s, and the packet seen last, are on q's side of every wrap.        *)
Together(s, q) ==
  InUse(s) # {} =>
    /\ \A r \in InUse(s) : Epoch(pkt[r]) = Epoch(q)
    /\ last[s] = -1 \/ Epoch(last[s]) = Epoch(q)

(* Unprotect runs without a lock: updateRoc reads the context ...                         *)
ReadContext(r) ==
  /\ pc[r] = "unprotect"
  /\ Goto(r, "update")
  /\ read' = [read EXCEPT ![r] = recv[ctx[r]]]
  /\ tame' = [tame EXCEPT ![ctx[r]] =
                @ /\ Follows(last[ctx[r]], pkt[r]) /\ Together(ctx[r], pkt[r])]
  /\ UNCHANGED <<ownVars, recv, live, peerVars, pkt, ctx, index, last, known, queueVars>>

(* ... and writes it ...                                                           *)
WriteContext(r) ==
  /\ pc[r] = "update"
  /\ Goto(r, "index")
  /\ recv' = [recv EXCEPT ![ctx[r]] = UpdateRoc(read[r], SeqOf(peer.first, pkt[r]))]
  /\ last' = [last EXCEPT ![ctx[r]] = pkt[r]]
  /\ read' = [read EXCEPT ![r] = Fresh]
  /\ UNCHANGED <<ownVars, live, peerVars, pkt, ctx, index, tame, known, queueVars>>

(* ... and packetIndex reads it again.                                                *)
ComputeIndex(r) ==
  /\ pc[r] = "index"
  /\ Goto(r, "decode")
  /\ index' = [index EXCEPT ![r] = PacketIndex(recv[ctx[r]], SeqOf(peer.first, pkt[r]))]
  /\ UNCHANGED <<ownVars, recv, live, peerVars, pkt, ctx, read, histVars, known, queueVars>>

(* Unprotect finds no payload, or the frame is decoded and handed to OnPeerAudio; the call is   *)
(* still registered and the agent takes it, or not.                                       *)
Decode(r) ==
  /\ pc[r] = "decode"
  /\ \E l \in {"idle", "feed"} : Goto(r, l)
  /\ index' = [index EXCEPT ![r] = 0]
  /\ pkt' = [pkt EXCEPT ![r] = 0]
  /\ ctx' = [ctx EXCEPT ![r] = 1]
  /\ UNCHANGED <<ownVars, recv, live, peerVars, read, histVars, known, queueVars>>

----------------------------------------------------------------------------
(* FeedCallerAudio: a full queue loses its oldest frame; the new one gets a second try.        *)

Enqueue(r) ==
  /\ queued' = queued + 1
  /\ overtaken' = [t \in Relays |-> pc[t] = "retry" /\ t # r]

Offer(r, otherwise) ==
  /\ IF queued < QueueCap
     THEN Enqueue(r) /\ Goto(r, "idle")
     ELSE UNCHANGED queueVars /\ Goto(r, otherwise)
  /\ UNCHANGED <<ownVars, recv, live, peerVars, pkt, ctx, read, index, histVars, known>>

FeedCallerAudio(r) == pc[r] = "feed" /\ Offer(r, "full")

(* Mutant: no room is made.                                                         *)
DropOldestMutant(r) ==
  /\ pc[r] = "full"
  /\ overtaken' = [overtaken EXCEPT ![r] = FALSE]
  /\ Goto(r, "retry")
  /\ UNCHANGED <<ownVars, recv, live, peerVars, pkt, ctx, read, index, histVars, known, queued>>

DropOldest(r) ==
  /\ pc[r] = "full"
  /\ queued' = IF queued = 0 THEN 0 ELSE queued - 1
  /\ overtaken' = [overtaken EXCEPT ![r] = FALSE]
  /\ Goto(r, "retry")
  /\ UNCHANGED <<ownVars, recv, live, peerVars, pkt, ctx, read, index, histVars, known>>

Retry(r) == pc[r] = "retry" /\ Offer(r, "idle")

(* writeAudioLoop takes a frame; its silences do not pass the queue.                       *)
WriteAudio ==
  /\ queued > 0
  /\ queued' = queued - 1
  /\ UNCHANGED <<ownVars, recv, live, peerVars, threadVars, histVars, known, overtaken>>

----------------------------------------------------------------------------
RelayStep(r) ==
  \/ \E p \in Packets : OnRelayData(r, p)
  \/ ReadContext(r) \/ WriteContext(r) \/ ComputeIndex(r) \/ Decode(r)
  \/ FeedCallerAudio(r) \/ DropOldest(r) \/ Retry(r)

Next ==
  \/ SendOpusFrame \/ InitSrtpKeys \/ SetupMedia \/ CleanupMedia
  \/ PeerSends \/ WriteAudio
  \/ \E r \in Relays : RelayStep(r)

Spec == Init /\ [][Next]_vars

----------------------------------------------------------------------------
(* Properties.                                                                   *)

(* Each of our packets is protected with its true index, across any number of wraps, unless the   *)
(* keys were set again after a wrap (HandleCallAccept while the pump sends): then the counter       *)
(* starts from nothing and the stream does not.                                              *)
SendIndexTrue == rtp.sent > 0 /\ ~rekeyed => ownIndex = rtp.first + rtp.sent - 1

(* A packet of the peer is decrypted with its true index, whatever is lost, doubled or reordered,    *)
(* and however many relays' goroutines are inside the context at once, as long as the context saw   *)
(* the first packets before the peer's first wrap, never half a cycle was missing, no packet came     *)
(* from behind a wrap after one from beyond it, and no two goroutines inside at once had packets      *)
(* from both sides of a wrap, or the wrap still to count: each of these the code gets wrong, and       *)
(* never gets right again.                                                                *)
RecvIndexTrue ==
  \A r \in Relays : pc[r] = "decode" /\ tame[ctx[r]] => index[r] = peer.first + pkt[r]

(* A frame of the caller is given up for want of room only when a newer one took the room that its    *)
(* own goroutine had made (FeedCallerAudio's second try).                                        *)
FreshKept ==
  [][\A r \in Relays : pc[r] = "retry" /\ pc'[r] = "idle" /\ queued' = queued => overtaken[r]]_vars
----------------------------------------------------------------------------
(* The inductive invariant behind all of them.                                       *)

(* A context is at packet p: it has its number and has counted the wraps before it.         *)
Reached(c, p) ==
  IF p = -1 THEN c = Fresh
  ELSE c = [roc |-> Epoch(p), lastSeq |-> SeqOf(peer.first, p), initialized |-> TRUE]

(* Our context is one packet behind the stream; a fresh one knows no wrap, so there was none.   *)
OwnStream ==
  /\ rtp.first + rtp.sent < Cycle => rtp.seq = rtp.first + rtp.sent
  /\ rtp.sent = 0 => send = Fresh
  /\ ~rekeyed =>
       IF send.initialized
       THEN /\ PacketIndex(send, send.lastSeq) = rtp.first + rtp.sent - 1
            /\ rtp.seq = IF send.lastSeq = Cycle - 1 THEN 0 ELSE send.lastSeq + 1
       ELSE send = Fresh /\ rtp.first + rtp.sent < Cycle

SessionsKnown ==
  /\ \A r \in Relays : ctx[r] \in 1..Len(recv)
  /\ \A s \in 1..MaxSessions : s > Len(recv) => last[s] = -1

(* A tame context is at the packet it saw last ...                                      *)
TameReached == \A s \in 1..Len(recv) : tame[s] => Reached(recv[s], last[s])

(* ... and the goroutines inside it are on one side of every wrap: what they have read brings it  *)
(* to their packet, and what they have written has counted the wraps before it.                 *)
TameTogether ==
  \A r \in Relays : pc[r] \in {"update", "index"} /\ tame[ctx[r]] =>
    /\ \A q \in InUse(ctx[r]) : Epoch(pkt[q]) = Epoch(pkt[r])
    /\ IF pc[r] = "update"
       THEN Reached(UpdateRoc(read[r], SeqOf(peer.first, pkt[r])), pkt[r])
       ELSE recv[ctx[r]].roc = Epoch(pkt[r])

RoomKept == \A r \in Relays : pc[r] = "retry" /\ ~overtaken[r] => queued < QueueCap

IndInv ==
  /\ TypeOK /\ OwnStream /\ SendIndexTrue
  /\ SessionsKnown /\ TameReached /\ TameTogether /\ RecvIndexTrue /\ RoomKept
=============================================================================

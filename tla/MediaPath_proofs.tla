--------------------------- MODULE MediaPath_proofs ---------------------------
(***************************************************************************)
(* Proofs about MediaPath, for any number of relays, any cycle of sequence      *)
(* numbers and any queue: IndInv is inductive, and the properties of the run     *)
(* follow from it. Then about PcmStream, whose readers feed the same call, and     *)
(* about a step of the range coder, for any interval and any table.                *)
(***************************************************************************)
EXTENDS MediaPath, PcmStream, RangeStep, SequenceTheorems, TLAPS

(* What a packet's index is made of: the wraps before it and its number.             *)
LEMMA Split ==
  ASSUME NEW n \in Nat
  PROVE  /\ n \div Cycle \in Nat /\ n % Cycle \in 0..(Cycle - 1)
         /\ (n \div Cycle) * Cycle + (n % Cycle) = n
  BY MediaAssumption

(* One more wrap is one more cycle.                                             *)
LEMMA OneMore ==
  ASSUME NEW n \in Nat
  PROVE  (n + 1) * Cycle = n * Cycle + Cycle
  BY MediaAssumption

(* Between two packets less than half a cycle apart there is one wrap at most, and    *)
(* the later number is more than half a cycle lower exactly if there is one.          *)
LEMMA WrapSeen ==
  ASSUME NEW a \in Nat, NEW b \in Nat,
         a \div Cycle <= b \div Cycle, a - b < Half, b - a < Half
  PROVE  b \div Cycle = IF (b % Cycle) - (a % Cycle) < -Half
                        THEN (a \div Cycle) + 1 ELSE a \div Cycle
<1> DEFINE x == a \div Cycle  y == b \div Cycle  s == a % Cycle  t == b % Cycle
<1>1. /\ x \in Nat /\ s \in 0..(Cycle - 1) /\ x * Cycle + s = a
      /\ y \in Nat /\ t \in 0..(Cycle - 1) /\ y * Cycle + t = b
  BY Split
<1>2. Half \in Nat /\ Half + Half = Cycle /\ Cycle \in Nat /\ Half > 0
  BY MediaAssumption DEF Half
<1>3. PICK k \in Nat : y = x + k
  <2>1. y - x \in Nat /\ y = x + (y - x)
    BY <1>1
  <2> QED
    BY <2>1
<1> HIDE DEF x, y, s, t
<1>4. y * Cycle = x * Cycle + k * Cycle
  BY <1>1, <1>2, <1>3
<1>5. k * Cycle + t - s = b - a
  BY <1>1, <1>2, <1>4
<1>6. k = 0 \/ k = 1 \/ k * Cycle >= Cycle + Cycle
  BY <1>2, <1>3
<1>7. k = 0 \/ k = 1
  BY <1>1, <1>2, <1>5, <1>6
<1>8. CASE k = 0
  BY <1>1, <1>2, <1>3, <1>5, <1>8 DEF x, y, s, t
<1>9. CASE k = 1
  BY <1>1, <1>2, <1>3, <1>5, <1>9 DEF x, y, s, t
<1> QED
  BY <1>7, <1>8, <1>9
(* The constants, without remainders. *)
LEMMA CycleNat == Cycle \in Nat /\ Cycle >= 4
BY MediaAssumption

LEMMA HalfCycle == Half \in Nat /\ Half + Half = Cycle /\ Half > 0
BY MediaAssumption DEF Half

LEMMA Bounds ==
  /\ MaxPackets \in Nat /\ MaxPackets # 0
  /\ MaxSessions \in Nat /\ QueueCap \in Nat /\ QueueCap # 0
BY MediaAssumption

(* The type invariant in parts. *)
LEMMA OwnTyped ==
  TypeOK => /\ rtp \in [seq : 0..(Cycle - 1), first : 0..(Cycle - 1), sent : Nat]
            /\ send \in Context /\ ownIndex \in Nat /\ rekeyed \in BOOLEAN
BY DEF TypeOK

LEMMA RecvTyped ==
  TypeOK => /\ recv \in Seq(Context) /\ Len(recv) \in 1..MaxSessions
            /\ live \in BOOLEAN /\ known \in BOOLEAN
BY DEF TypeOK

LEMMA PeerTyped ==
  TypeOK => /\ peer \in [first : 0..(Cycle - 1), sent : 0..MaxPackets]
            /\ peer.first \in 0..(Cycle - 1)
            /\ net \in [Packets -> 0..Copies]
BY DEF TypeOK

LEMMA ThreadTyped ==
  TypeOK => /\ pc \in [Relays -> Labels] /\ pkt \in [Relays -> Packets]
            /\ ctx \in [Relays -> 1..MaxSessions] /\ read \in [Relays -> Context]
            /\ index \in [Relays -> Nat]
BY DEF TypeOK

LEMMA HistTyped ==
  TypeOK => /\ last \in [1..MaxSessions -> -1..(MaxPackets - 1)]
            /\ tame \in [1..MaxSessions -> BOOLEAN]
BY DEF TypeOK

LEMMA QueueTyped ==
  TypeOK => queued \in 0..QueueCap /\ overtaken \in [Relays -> BOOLEAN]
BY DEF TypeOK

LEMMA NextSeq ==
  ASSUME NEW n \in 0..(Cycle - 1)
  PROVE  (n + 1) % Cycle = IF n = Cycle - 1 THEN 0 ELSE n + 1
BY MediaAssumption

(* A context after a packet, and an index, are what their types say. *)
LEMMA ContextType ==
  ASSUME NEW c \in Context, NEW n \in 0..(Cycle - 1)
  PROVE  UpdateRoc(c, n) \in Context /\ PacketIndex(c, n) \in Nat
<1>1. c.roc \in Nat /\ c.lastSeq \in 0..(Cycle - 1) /\ c.initialized \in BOOLEAN
  BY DEF Context
<1>2. c.roc * Cycle \in Nat
  BY <1>1, CycleNat
<1>3. PacketIndex(c, n) \in Nat
  BY <1>2, CycleNat DEF PacketIndex
<1>4. UpdateRoc(c, n) \in Context
  BY <1>1, CycleNat DEF UpdateRoc, Context
<1> QED
  BY <1>3, <1>4

LEMMA FreshType == Fresh \in Context
BY CycleNat DEF Fresh, Context

LEMMA SeqType ==
  ASSUME TypeOK, NEW p \in Packets
  PROVE  peer.first + p \in Nat /\ SeqOf(peer.first, p) \in 0..(Cycle - 1)
<1>1. peer.first + p \in Nat
  BY PeerTyped, CycleNat, Bounds DEF Packets
<1> QED
  BY <1>1, Split DEF SeqOf

(* What a part of the invariant does not speak of does not disturb it. *)
LEMMA OwnFrame ==
  ASSUME OwnStream, SendIndexTrue, UNCHANGED ownVars
  PROVE  (OwnStream /\ SendIndexTrue)'
BY DEF OwnStream, SendIndexTrue, PacketIndex, ownVars

LEMMA PeerFrame ==
  ASSUME SessionsKnown, TameReached, TameTogether, RecvIndexTrue,
         UNCHANGED <<recv, peer.first, threadVars, histVars>>
  PROVE  (SessionsKnown /\ TameReached /\ TameTogether /\ RecvIndexTrue)'
<1>1. SessionsKnown' /\ TameReached'
  BY DEF SessionsKnown, TameReached, Reached, Epoch, SeqOf, threadVars, histVars
<1>2. TameTogether' /\ RecvIndexTrue'
  BY DEF TameTogether, InUse, Reached, Epoch, SeqOf, RecvIndexTrue, threadVars, histVars
<1> QED
  BY <1>1, <1>2

(* Who leaves a context, or comes near one, does not disturb those inside it. *)
LEMMA InsideFrame ==
  ASSUME TameTogether, UNCHANGED peer.first,
         \A q \in Relays : pc'[q] \in {"update", "index"} =>
           /\ pc'[q] = pc[q] /\ ctx'[q] = ctx[q] /\ pkt'[q] = pkt[q] /\ read'[q] = read[q]
           /\ tame'[ctx[q]] => tame[ctx[q]]
           /\ recv'[ctx[q]].roc = recv[ctx[q]].roc
  PROVE  TameTogether'
<1> SUFFICES ASSUME NEW t \in Relays, pc'[t] \in {"update", "index"}, tame'[ctx'[t]]
             PROVE  /\ \A q \in Relays : ctx'[q] = ctx'[t] /\ pc'[q] \in {"update", "index"}
                                         => Epoch(pkt[q])' = Epoch(pkt[t])'
                    /\ IF pc'[t] = "update"
                       THEN Reached(UpdateRoc(read[t], SeqOf(peer.first, pkt[t])), pkt[t])'
                       ELSE recv'[ctx'[t]].roc = Epoch(pkt[t])'
  BY DEF TameTogether, InUse
<1>1. pc'[t] = pc[t] /\ ctx'[t] = ctx[t] /\ pkt'[t] = pkt[t] /\ read'[t] = read[t] /\ tame[ctx[t]]
  OBVIOUS
<1>2. /\ \A q \in InUse(ctx[t]) : Epoch(pkt[q]) = Epoch(pkt[t])
      /\ IF pc[t] = "update"
         THEN Reached(UpdateRoc(read[t], SeqOf(peer.first, pkt[t])), pkt[t])
         ELSE recv[ctx[t]].roc = Epoch(pkt[t])
  BY <1>1 DEF TameTogether
<1>3. ASSUME NEW q \in Relays, ctx'[q] = ctx'[t], pc'[q] \in {"update", "index"}
      PROVE  Epoch(pkt[q])' = Epoch(pkt[t])'
  BY <1>1, <1>2, <1>3 DEF InUse, Epoch
<1>4. IF pc'[t] = "update"
      THEN Reached(UpdateRoc(read[t], SeqOf(peer.first, pkt[t])), pkt[t])'
      ELSE recv'[ctx'[t]].roc = Epoch(pkt[t])'
  BY <1>1, <1>2 DEF Reached, UpdateRoc, SeqOf, Epoch
<1> QED
  BY <1>3, <1>4

LEMMA RoomFrame ==
  ASSUME RoomKept, UNCHANGED <<pc, queueVars>>
  PROVE  RoomKept'
BY DEF RoomKept, queueVars

(* A new session has fresh contexts, and no goroutine is in it yet. *)
LEMMA NewSessionInv ==
  ASSUME IndInv, NewSrtpSession, UNCHANGED <<peerVars, threadVars, histVars>>
  PROVE  /\ recv' \in Seq(Context) /\ Len(recv') \in 1..MaxSessions
         /\ (SessionsKnown /\ TameReached /\ TameTogether /\ RecvIndexTrue)'
<1>1. /\ Len(recv) < MaxSessions /\ recv' = Append(recv, Fresh)
      /\ recv \in Seq(Context) /\ Len(recv) \in 1..MaxSessions
  BY RecvTyped DEF NewSrtpSession, IndInv
<1>2. /\ recv' \in Seq(Context) /\ Len(recv') = Len(recv) + 1
      /\ \A s \in 1..Len(recv) : recv'[s] = recv[s]
      /\ recv'[Len(recv) + 1] = Fresh
  BY <1>1, FreshType
<1>3. SessionsKnown'
  BY <1>1, <1>2, Bounds DEF IndInv, SessionsKnown, threadVars, histVars
<1>4. TameReached'
  <2> SUFFICES ASSUME NEW s \in 1..(Len(recv) + 1), tame[s]
               PROVE  Reached(recv'[s], last[s])
    BY <1>2 DEF TameReached, Reached, Epoch, SeqOf, peerVars, histVars
  <2>1. CASE s \in 1..Len(recv)
    BY <1>2, <2>1 DEF IndInv, TameReached
  <2>2. CASE s = Len(recv) + 1
    <3>1. last[s] = -1
      BY <1>1, <2>2, Bounds DEF IndInv, SessionsKnown
    <3> QED
      BY <1>2, <2>2, <3>1 DEF Reached
  <2> QED
    BY <1>1, <2>1, <2>2
<1>5. TameTogether'
  <2>1. UNCHANGED <<peer, pc, ctx, pkt, read, tame>>
    BY DEF peerVars, threadVars, histVars
  <2>2. \A q \in Relays : recv'[ctx[q]] = recv[ctx[q]]
    BY <1>2 DEF IndInv, SessionsKnown
  <2> QED
    BY <2>1, <2>2, InsideFrame DEF IndInv
<1>6. RecvIndexTrue'
  BY DEF IndInv, RecvIndexTrue, peerVars, threadVars, histVars
<1>7. Len(recv') \in 1..MaxSessions
  BY <1>1, <1>2, Bounds
<1> QED
  BY <1>2, <1>3, <1>4, <1>5, <1>6, <1>7

(* Our stream: the pump and the two ways of getting new keys. *)
LEMMA SendInv ==
  ASSUME IndInv, SendOpusFrame
  PROVE  IndInv'
<1> USE CycleNat DEF SendOpusFrame
<1>1. /\ rtp.seq \in 0..(Cycle - 1) /\ rtp.first \in 0..(Cycle - 1) /\ rtp.sent \in Nat
      /\ send \in Context /\ send.roc \in Nat /\ send.lastSeq \in 0..(Cycle - 1)
      /\ send.initialized \in BOOLEAN
  BY OwnTyped DEF IndInv, Context
<1>2. /\ rtp'.first = rtp.first /\ rtp'.sent = rtp.sent + 1
      /\ rtp'.seq = IF rtp.seq = Cycle - 1 THEN 0 ELSE rtp.seq + 1
      /\ rtp' \in [seq : 0..(Cycle - 1), first : 0..(Cycle - 1), sent : Nat]
  <2>1. rtp' = [rtp EXCEPT !.seq = IF rtp.seq = Cycle - 1 THEN 0 ELSE rtp.seq + 1,
                           !.sent = @ + 1]
    BY <1>1, NextSeq DEF CreatePacket
  <2>2. rtp \in [seq : 0..(Cycle - 1), first : 0..(Cycle - 1), sent : Nat]
    BY OwnTyped DEF IndInv
  <2>3. /\ rtp'.first = rtp.first /\ rtp'.sent = rtp.sent + 1
        /\ rtp'.seq = IF rtp.seq = Cycle - 1 THEN 0 ELSE rtp.seq + 1
    BY <2>1, <2>2
  <2>4. DOMAIN rtp' = {"seq", "first", "sent"}
    BY <2>1, <2>2
  <2>5. /\ rtp.sent + 1 \in Nat
        /\ (IF rtp.seq = Cycle - 1 THEN 0 ELSE rtp.seq + 1) \in 0..(Cycle - 1)
    BY <1>1
  <2> QED
    BY <1>1, <2>1, <2>2, <2>3, <2>5
<1>3. send' \in Context /\ ownIndex' \in Nat
  BY <1>1, ContextType
<1>4. TypeOK'
  BY <1>2, <1>3 DEF IndInv, TypeOK, peerVars, threadVars, histVars, queueVars
<1>5. /\ send'.initialized /\ send'.lastSeq = rtp.seq
      /\ send'.roc = IF send.initialized /\ rtp.seq - send.lastSeq < -Half
                     THEN send.roc + 1 ELSE send.roc
      /\ ownIndex' = send'.roc * Cycle + rtp.seq
      /\ ownIndex' = PacketIndex(send', send'.lastSeq)
  BY DEF UpdateRoc, PacketIndex
<1>6. ~rekeyed => ownIndex' = rtp.first + rtp.sent
  <2> SUFFICES ASSUME ~rekeyed PROVE ownIndex' = rtp.first + rtp.sent
    OBVIOUS
  <2>1. CASE ~send.initialized
    <3>1. send.roc = 0 /\ rtp.seq = rtp.first + rtp.sent
      BY <2>1 DEF IndInv, OwnStream, Fresh
    <3> QED
      BY <1>1, <1>5, <2>1, <3>1
  <2>2. CASE send.initialized
    <3>1. /\ send.roc * Cycle + send.lastSeq = rtp.first + rtp.sent - 1
          /\ rtp.seq = IF send.lastSeq = Cycle - 1 THEN 0 ELSE send.lastSeq + 1
      BY <2>2 DEF IndInv, OwnStream, PacketIndex
    <3>2. CASE send.lastSeq = Cycle - 1
      <4>1. send'.roc = send.roc + 1 /\ rtp.seq = 0
        BY <1>1, <1>5, <2>2, <3>1, <3>2, HalfCycle
      <4>2. send'.roc * Cycle = send.roc * Cycle + Cycle
        BY <1>1, <4>1, OneMore
      <4>3. send.roc * Cycle \in Nat
        BY <1>1
      <4> QED
        BY <1>1, <1>5, <3>1, <3>2, <4>1, <4>2, <4>3
    <3>3. CASE send.lastSeq # Cycle - 1
      <4>1. send'.roc = send.roc /\ rtp.seq = send.lastSeq + 1
        BY <1>1, <1>5, <2>2, <3>1, <3>3, HalfCycle
      <4>2. send.roc * Cycle \in Nat
        BY <1>1
      <4> QED
        BY <1>1, <1>5, <3>1, <4>1, <4>2
    <3> QED
      BY <3>2, <3>3
  <2> QED
    BY <2>1, <2>2
<1>7. OwnStream'
  <2>1. rtp.first + rtp.sent + 1 < Cycle => rtp'.seq = rtp.first + rtp.sent + 1
    BY <1>1, <1>2 DEF IndInv, OwnStream
  <2>2. ~rekeyed => PacketIndex(send', send'.lastSeq) = rtp'.first + rtp'.sent - 1
    BY <1>1, <1>2, <1>5, <1>6
  <2>3. /\ send'.initialized /\ rekeyed' = rekeyed /\ rtp'.sent # 0
        /\ rtp'.seq = IF send'.lastSeq = Cycle - 1 THEN 0 ELSE send'.lastSeq + 1
    BY <1>1, <1>2, <1>5
  <2>4. rtp'.first + rtp'.sent < Cycle => rtp'.seq = rtp'.first + rtp'.sent
    BY <1>1, <1>2, <2>1
  <2> HIDE DEF SendOpusFrame
  <2> QED
    BY <2>2, <2>3, <2>4 DEF OwnStream
<1>8. SendIndexTrue'
  BY <1>1, <1>2, <1>6 DEF SendIndexTrue
<1>9. (SessionsKnown /\ TameReached /\ TameTogether /\ RecvIndexTrue)'
  BY PeerFrame DEF IndInv, peerVars
<1>10. RoomKept'
  BY RoomFrame DEF IndInv, threadVars
<1> QED
  BY <1>4, <1>7, <1>8, <1>9, <1>10 DEF IndInv

LEMMA KeysInv ==
  ASSUME IndInv, InitSrtpKeys \/ SetupMedia
  PROVE  IndInv'
<1>1. /\ NewSrtpSession /\ send' = Fresh /\ UNCHANGED <<peerVars, threadVars, histVars, queueVars>>
      /\ UNCHANGED <<ownIndex, live>> /\ known' \in BOOLEAN
      /\ UNCHANGED rtp \/ \E f \in Firsts : rtp' = [seq |-> f, first |-> f, sent |-> 0]
      /\ rekeyed' \in BOOLEAN
      /\ ~rekeyed' => rtp'.sent = 0 \/ (~rekeyed /\ UNCHANGED rtp /\ rtp.first + rtp.sent < Cycle)
  <2>1. /\ rekeyed \in BOOLEAN /\ known \in BOOLEAN /\ rtp.first + rtp.sent \in Nat
        /\ ~(rtp.first + rtp.sent >= Cycle) => rtp.first + rtp.sent < Cycle
    BY OwnTyped, RecvTyped, CycleNat DEF IndInv
  <2> DEFINE wrapped == rtp.first + rtp.sent >= Cycle
  <2>2. wrapped \in BOOLEAN /\ (~wrapped => rtp.first + rtp.sent < Cycle)
    BY <2>1
  <2> HIDE DEF wrapped
  <2>3. CASE InitSrtpKeys
    <3>1. rekeyed' = (rekeyed \/ wrapped) /\ UNCHANGED rtp
      BY <2>3 DEF InitSrtpKeys, wrapped
    <3>2. rekeyed' \in BOOLEAN /\ (~rekeyed' => ~rekeyed /\ UNCHANGED rtp /\ ~wrapped)
      BY <2>1, <2>2, <3>1
    <3> QED
      BY <2>1, <2>2, <2>3, <3>2 DEF InitSrtpKeys, NewSrtpSession
  <2>4. CASE SetupMedia
    <3>1. rekeyed' = IF rtp'.sent = 0 THEN FALSE ELSE (rekeyed \/ wrapped)
      BY <2>4 DEF SetupMedia, wrapped
    <3>2. UNCHANGED rtp \/ \E f \in Firsts : rtp' = [seq |-> f, first |-> f, sent |-> 0]
      BY <2>4 DEF SetupMedia, NewRtpSession
    <3>3. UNCHANGED rtp \/ rtp'.sent = 0
      BY <3>2
    <3>4. /\ rekeyed' \in BOOLEAN
          /\ ~rekeyed' => rtp'.sent = 0 \/ (~rekeyed /\ UNCHANGED rtp /\ ~wrapped)
      BY <2>1, <2>2, <3>1, <3>3
    <3>5. known' \in BOOLEAN
      BY <2>1, <2>4 DEF SetupMedia
    <3> QED
      BY <2>2, <2>4, <3>2, <3>4, <3>5 DEF SetupMedia, NewSrtpSession
  <2> QED
    BY <2>3, <2>4
<1>2. /\ rtp' \in [seq : 0..(Cycle - 1), first : 0..(Cycle - 1), sent : Nat]
      /\ rtp'.first + rtp'.sent < Cycle => rtp'.seq = rtp'.first + rtp'.sent
      /\ rtp'.sent = 0 => rtp'.first + rtp'.sent < Cycle
  <2>1. CASE UNCHANGED rtp
    BY <2>1, OwnTyped, CycleNat DEF IndInv, OwnStream
  <2>2. CASE \E f \in Firsts : rtp' = [seq |-> f, first |-> f, sent |-> 0]
    BY <2>2, CycleNat, MediaAssumption
  <2> QED
    BY <1>1, <2>1, <2>2
<1>3. TypeOK'
  BY <1>1, <1>2, FreshType, NewSessionInv
     DEF IndInv, TypeOK, peerVars, threadVars, histVars, queueVars
<1>4. OwnStream'
  BY <1>1, <1>2 DEF OwnStream, Fresh
<1>5. SendIndexTrue'
  BY <1>1 DEF IndInv, SendIndexTrue
<1>6. (SessionsKnown /\ TameReached /\ TameTogether /\ RecvIndexTrue)'
  BY <1>1, NewSessionInv
<1>7. RoomKept'
  BY <1>1, RoomFrame DEF IndInv, threadVars
<1> QED
  BY <1>3, <1>4, <1>5, <1>6, <1>7 DEF IndInv

(* What is neither our stream nor a relay's goroutine. *)
LEMMA OtherInv ==
  ASSUME IndInv, CleanupMedia \/ PeerSends \/ WriteAudio
  PROVE  IndInv'
<1>1. TypeOK'
  <2>1. CASE CleanupMedia
    BY <2>1 DEF IndInv, TypeOK, CleanupMedia, ownVars, peerVars, threadVars, histVars, queueVars
  <2>2. CASE PeerSends
    <3>1. peer' \in [first : 0..(Cycle - 1), sent : 0..MaxPackets]
      <4>1. rtp.sent \in Nat
        BY OwnTyped DEF IndInv
      <4>2. peer.sent \in 0..MaxPackets
        BY PeerTyped DEF IndInv
      <4>3. peer.sent + 1 \in 0..MaxPackets
        BY <2>2, <4>1, <4>2, Bounds DEF PeerSends
      <4> QED
        BY <2>2, <4>3, PeerTyped DEF PeerSends, IndInv
    <3>2. net' \in [Packets -> 0..Copies]
      <4>1. net \in [Packets -> 0..Copies] /\ Copies \in 0..Copies
        BY PeerTyped, MediaAssumption DEF IndInv
      <4>2. net' = [net EXCEPT ![peer.sent] = Copies]
        BY <2>2 DEF PeerSends
      <4> QED
        BY <4>1, <4>2
    <3> QED
      BY <2>2, <3>1, <3>2 DEF IndInv, TypeOK, PeerSends, ownVars, threadVars, histVars, queueVars
  <2>3. CASE WriteAudio
    <3>1. queued' \in 0..QueueCap
      BY <2>3, QueueTyped, Bounds DEF IndInv, WriteAudio
    <3> QED
      BY <2>3, <3>1 DEF IndInv, TypeOK, WriteAudio, ownVars, peerVars, threadVars, histVars
  <2> QED
    BY <2>1, <2>2, <2>3
<1>2. UNCHANGED <<ownVars, recv, peer.first, threadVars, histVars>>
  <2>1. PeerSends => peer'.first = peer.first
    BY PeerTyped DEF PeerSends, IndInv
  <2> QED
    BY <2>1 DEF CleanupMedia, PeerSends, WriteAudio, peerVars
<1>3. (OwnStream /\ SendIndexTrue)'
  BY <1>2, OwnFrame DEF IndInv
<1>4. (SessionsKnown /\ TameReached /\ TameTogether /\ RecvIndexTrue)'
  BY <1>2, PeerFrame DEF IndInv
<1>5. RoomKept'
  <2>1. UNCHANGED <<pc, overtaken>> /\ (UNCHANGED queued \/ (queued > 0 /\ queued' = queued - 1))
    BY DEF CleanupMedia, PeerSends, WriteAudio, threadVars, queueVars
  <2> QED
    BY <2>1, QueueTyped, Bounds DEF IndInv, RoomKept
<1> QED
  BY <1>1, <1>3, <1>4, <1>5 DEF IndInv

(* A packet of the peer, through its context. *)
LEMMA CaptureInv ==
  ASSUME IndInv, NEW r \in Relays, \E p \in Packets : OnRelayData(r, p)
  PROVE  IndInv'
<1>1. PICK p \in Packets : OnRelayData(r, p)
  OBVIOUS
<1>2. /\ net' \in [Packets -> 0..Copies] /\ pc' \in [Relays -> Labels]
      /\ pkt' \in [Relays -> Packets] /\ ctx' \in [Relays -> 1..MaxSessions]
      /\ known' \in BOOLEAN
  <2>1. net[p] \in 0..Copies /\ net[p] > 0 /\ Copies \in Nat
    BY <1>1, PeerTyped, MediaAssumption DEF OnRelayData, IndInv
  <2>2. net' \in [Packets -> 0..Copies]
    BY <1>1, <2>1, PeerTyped DEF OnRelayData, IndInv
  <2>3. /\ pc' \in [Relays -> Labels] /\ pkt' \in [Relays -> Packets] /\ known' \in BOOLEAN
    BY <1>1, ThreadTyped, RecvTyped DEF OnRelayData, Goto, IndInv, Labels
  <2>4. ctx' \in [Relays -> 1..MaxSessions]
    BY <1>1, ThreadTyped, RecvTyped DEF OnRelayData, IndInv
  <2> QED
    BY <2>2, <2>3, <2>4
<1>3. TypeOK'
  BY <1>1, <1>2 DEF OnRelayData, IndInv, TypeOK, ownVars, histVars, queueVars
<1>4. (OwnStream /\ SendIndexTrue)'
  BY <1>1, OwnFrame DEF OnRelayData, IndInv
<1>5. /\ \A q \in Relays : q # r => pc'[q] = pc[q] /\ ctx'[q] = ctx[q] /\ pkt'[q] = pkt[q]
      /\ pc[r] = "idle" /\ pc'[r] \in {"idle", "unprotect"} /\ ctx'[r] \in 1..Len(recv)
      /\ UNCHANGED <<recv, peer, read, index, last, tame>>
  BY <1>1, ThreadTyped, RecvTyped DEF OnRelayData, Goto, IndInv, SessionsKnown, histVars
<1>6. SessionsKnown'
  BY <1>5 DEF IndInv, SessionsKnown
<1>7. TameReached'
  BY <1>5 DEF IndInv, TameReached, Reached, Epoch, SeqOf
<1>8. TameTogether'
  BY <1>5, InsideFrame DEF IndInv
<1>9. RecvIndexTrue'
  BY <1>5 DEF IndInv, RecvIndexTrue
<1>10. RoomKept'
  BY <1>1, <1>5 DEF OnRelayData, IndInv, RoomKept, queueVars
<1> QED
  BY <1>3, <1>4, <1>6, <1>7, <1>8, <1>9, <1>10 DEF IndInv

(* The context follows the stream where no wrap is skipped or crossed backwards. *)
LEMMA Followed ==
  ASSUME TypeOK, NEW c \in Context, NEW q \in Packets, NEW p \in -1..(MaxPackets - 1),
         Reached(c, p), Follows(p, q)
  PROVE  Reached(UpdateRoc(c, SeqOf(peer.first, q)), q)
<1>1. q \in Nat /\ peer.first \in Nat /\ peer.first + q \in Nat
  BY SeqType, PeerTyped, CycleNat, Bounds DEF Packets
<1>2. CASE p = -1
  <2>1. c.roc = 0 /\ ~c.initialized /\ Epoch(q) = 0 /\ q # -1
    BY <1>1, <1>2 DEF Reached, Follows, Fresh
  <2> QED
    BY <2>1 DEF Reached, UpdateRoc
<1>3. CASE p # -1
  <2> DEFINE a == peer.first + p  b == peer.first + q
  <2>1. a \in Nat /\ b \in Nat /\ p \in Nat
    BY <1>1, <1>3, Bounds
  <2>2. a \div Cycle <= b \div Cycle /\ a - b < Half /\ b - a < Half
    BY <1>1, <1>3, <2>1 DEF Follows, Epoch
  <2>3. b \div Cycle = IF (b % Cycle) - (a % Cycle) < -Half
                       THEN (a \div Cycle) + 1 ELSE a \div Cycle
    BY <2>1, <2>2, WrapSeen
  <2>4. c = [roc |-> a \div Cycle, lastSeq |-> a % Cycle, initialized |-> TRUE]
    BY <1>3 DEF Reached, Epoch, SeqOf
  <2>5. q # -1
    BY <1>1
  <2> QED
    BY <2>3, <2>4, <2>5 DEF Reached, Epoch, SeqOf, UpdateRoc
<1> QED
  BY <1>2, <1>3

LEMMA ReadInv ==
  ASSUME IndInv, NEW r \in Relays, ReadContext(r)
  PROVE  IndInv'
<1> USE DEF ReadContext, Goto
<1>1. ctx[r] \in 1..Len(recv) /\ Len(recv) \in 1..MaxSessions /\ recv[ctx[r]] \in Context
  BY RecvTyped DEF IndInv, SessionsKnown
<1>2. /\ pc' \in [Relays -> Labels] /\ read' \in [Relays -> Context]
      /\ tame' \in [1..MaxSessions -> BOOLEAN]
  BY <1>1, ThreadTyped, HistTyped DEF IndInv, Labels
<1>3. TypeOK'
  BY <1>2 DEF IndInv, TypeOK, ownVars, peerVars, queueVars
<1>4. (OwnStream /\ SendIndexTrue)'
  BY OwnFrame DEF IndInv
<1>5. /\ \A q \in Relays : q # r => pc'[q] = pc[q] /\ read'[q] = read[q]
      /\ pc[r] = "unprotect" /\ pc'[r] = "update" /\ read'[r] = recv[ctx[r]]
      /\ UNCHANGED <<recv, ctx, pkt, index, last, peer>>
      /\ \A s \in 1..MaxSessions : tame'[s] => tame[s]
      /\ tame'[ctx[r]] => Follows(last[ctx[r]], pkt[r]) /\ Together(ctx[r], pkt[r])
  BY <1>1, ThreadTyped, HistTyped DEF IndInv, peerVars
<1>6. ASSUME tame'[ctx[r]]
      PROVE  /\ tame[ctx[r]]
             /\ \A q \in InUse(ctx[r]) : Epoch(pkt[q]) = Epoch(pkt[r])
             /\ Reached(UpdateRoc(recv[ctx[r]], SeqOf(peer.first, pkt[r])), pkt[r])
  <2>1. pkt[r] \in Packets /\ ctx[r] \in 1..MaxSessions
    BY ThreadTyped DEF IndInv
  <2>2. last[ctx[r]] \in -1..(MaxPackets - 1)
    BY <2>1, HistTyped DEF IndInv
  <2>3. tame[ctx[r]] /\ Follows(last[ctx[r]], pkt[r]) /\ Together(ctx[r], pkt[r])
    BY <1>5, <1>6, <2>1
  <2>4. Reached(recv[ctx[r]], last[ctx[r]])
    BY <1>1, <2>3 DEF IndInv, TameReached
  <2> QED
    BY <1>1, <2>1, <2>2, <2>3, <2>4, Followed DEF Together, IndInv
<1>7. SessionsKnown'
  BY <1>5 DEF IndInv, SessionsKnown
<1>8. TameReached'
  <2>1. \A s \in 1..Len(recv) : s \in 1..MaxSessions
    BY <1>1, Bounds
  <2>2. \A s \in 1..Len(recv) : tame'[s] => Reached(recv[s], last[s])
    BY <1>5, <2>1 DEF IndInv, TameReached
  <2>3. UNCHANGED <<recv, last, peer>>
    BY <1>5
  <2> QED
    BY <2>2, <2>3, Zenon DEF TameReached, Reached, Epoch, SeqOf
<1>9. TameTogether'
  <2> SUFFICES ASSUME NEW t \in Relays, pc'[t] \in {"update", "index"}, tame'[ctx[t]]
               PROVE  /\ \A q \in Relays : ctx[q] = ctx[t] /\ pc'[q] \in {"update", "index"}
                                           => Epoch(pkt[q]) = Epoch(pkt[t])
                      /\ IF pc'[t] = "update"
                         THEN Reached(UpdateRoc(read'[t], SeqOf(peer.first, pkt[t])), pkt[t])
                         ELSE recv[ctx[t]].roc = Epoch(pkt[t])
    BY <1>5 DEF TameTogether, InUse, Reached, Epoch, UpdateRoc, SeqOf
  <2>1. ctx[t] \in 1..MaxSessions /\ tame[ctx[t]]
    BY <1>5, ThreadTyped DEF IndInv
  <2>2. t # r => /\ pc'[t] = pc[t] /\ read'[t] = read[t]
                 /\ \A q \in InUse(ctx[t]) : Epoch(pkt[q]) = Epoch(pkt[t])
                 /\ IF pc[t] = "update"
                    THEN Reached(UpdateRoc(read[t], SeqOf(peer.first, pkt[t])), pkt[t])
                    ELSE recv[ctx[t]].roc = Epoch(pkt[t])
    BY <1>5, <2>1 DEF IndInv, TameTogether
  <2>3. IF pc'[t] = "update"
        THEN Reached(UpdateRoc(read'[t], SeqOf(peer.first, pkt[t])), pkt[t])
        ELSE recv[ctx[t]].roc = Epoch(pkt[t])
    BY <1>5, <1>6, <2>2
  <2>4. ASSUME NEW q \in Relays, ctx[q] = ctx[t], pc'[q] \in {"update", "index"}
        PROVE  Epoch(pkt[q]) = Epoch(pkt[t])
    <3>1. \A u \in Relays : u # r /\ ctx[u] = ctx[t] /\ pc'[u] \in {"update", "index"} => u \in InUse(ctx[t])
      BY <1>5 DEF InUse
    <3>2. CASE ctx[t] = ctx[r]
      BY <1>6, <2>4, <3>1, <3>2
    <3>3. CASE ctx[t] # ctx[r]
      BY <2>2, <2>4, <3>1, <3>3
    <3> QED
      BY <3>2, <3>3
  <2> QED
    BY <2>3, <2>4
<1>10. RecvIndexTrue'
  BY <1>5, ThreadTyped DEF IndInv, RecvIndexTrue
<1>11. RoomKept'
  BY <1>5 DEF IndInv, RoomKept, queueVars
<1> QED
  BY <1>3, <1>4, <1>7, <1>8, <1>9, <1>10, <1>11 DEF IndInv

LEMMA WriteInv ==
  ASSUME IndInv, NEW r \in Relays, WriteContext(r)
  PROVE  IndInv'
<1> USE DEF WriteContext, Goto
<1> DEFINE s == ctx[r]  c == UpdateRoc(read[r], SeqOf(peer.first, pkt[r]))
<1>1. /\ s \in 1..Len(recv) /\ Len(recv) \in 1..MaxSessions /\ recv \in Seq(Context)
      /\ pkt[r] \in Packets /\ pkt[r] \in -1..(MaxPackets - 1) /\ read[r] \in Context
      /\ last[s] \in -1..(MaxPackets - 1) /\ s \in 1..MaxSessions
  <2>1. s \in 1..Len(recv) /\ s \in 1..MaxSessions /\ pkt[r] \in Packets /\ read[r] \in Context
    BY ThreadTyped DEF IndInv, SessionsKnown
  <2>2. Len(recv) \in 1..MaxSessions /\ recv \in Seq(Context)
    BY RecvTyped DEF IndInv
  <2>3. last[s] \in -1..(MaxPackets - 1)
    BY <2>1, HistTyped DEF IndInv
  <2>4. pkt[r] \in -1..(MaxPackets - 1)
    BY <2>1, Bounds DEF Packets
  <2> QED
    BY <2>1, <2>2, <2>3, <2>4
<1>2. c \in Context
  BY <1>1, SeqType, ContextType DEF IndInv
<1> HIDE DEF c
<1>3. /\ recv' = [recv EXCEPT ![s] = c] /\ recv' \in Seq(Context) /\ Len(recv') = Len(recv)
      /\ recv'[s] = c /\ \A u \in 1..Len(recv) : u # s => recv'[u] = recv[u]
  BY <1>1, <1>2 DEF c
<1>4. /\ pc' \in [Relays -> Labels] /\ read' \in [Relays -> Context]
      /\ last' \in [1..MaxSessions -> -1..(MaxPackets - 1)]
  BY <1>1, FreshType, ThreadTyped, HistTyped DEF IndInv, Labels
<1>5. TypeOK'
  BY <1>1, <1>3, <1>4 DEF IndInv, TypeOK, ownVars, peerVars, queueVars
<1>6. (OwnStream /\ SendIndexTrue)'
  BY OwnFrame DEF IndInv
<1>7. /\ \A q \in Relays : q # r => pc'[q] = pc[q] /\ read'[q] = read[q]
      /\ pc[r] = "update" /\ pc'[r] = "index"
      /\ UNCHANGED <<ctx, pkt, index, peer, tame>>
      /\ \A u \in 1..MaxSessions : u # s => last'[u] = last[u]
      /\ last'[s] = pkt[r]
  BY <1>1, ThreadTyped, HistTyped DEF IndInv, peerVars
<1>8. SessionsKnown'
  BY <1>1, <1>3, <1>7 DEF IndInv, SessionsKnown
<1>13. tame[s] => /\ Reached(c, pkt[r]) /\ c.roc = Epoch(pkt[r])
                  /\ \A q \in InUse(s) : Epoch(pkt[q]) = Epoch(pkt[r])
  <2>1. tame[s] => Reached(c, pkt[r]) /\ \A q \in InUse(s) : Epoch(pkt[q]) = Epoch(pkt[r])
    BY <1>7 DEF IndInv, TameTogether, c
  <2>2. pkt[r] # -1
    BY <1>1, Bounds DEF Packets
  <2> QED
    BY <2>1, <2>2 DEF Reached
<1>9. TameReached'
  <2> SUFFICES ASSUME NEW u \in 1..Len(recv), tame'[u]
               PROVE  Reached(recv'[u], last'[u])
    <3>1. Len(recv') = Len(recv) /\ peer' = peer
      BY <1>3, <1>7
    <3> QED
      BY <3>1, Zenon DEF TameReached, Reached, Epoch, SeqOf
  <2>1. CASE u = s
    BY <1>3, <1>7, <1>13, <2>1
  <2>2. CASE u # s
    <3>1. u \in 1..MaxSessions
      BY <1>1, Bounds
    <3> QED
      BY <1>3, <1>7, <2>2, <3>1 DEF IndInv, TameReached
  <2> QED
    BY <2>1, <2>2
<1>10. TameTogether'
  <2> SUFFICES ASSUME NEW t \in Relays, pc'[t] \in {"update", "index"}, tame[ctx[t]]
               PROVE  /\ \A q \in Relays : ctx[q] = ctx[t] /\ pc'[q] \in {"update", "index"}
                                           => Epoch(pkt[q]) = Epoch(pkt[t])
                      /\ IF pc'[t] = "update"
                         THEN Reached(UpdateRoc(read'[t], SeqOf(peer.first, pkt[t])), pkt[t])
                         ELSE recv'[ctx[t]].roc = Epoch(pkt[t])
    BY <1>7 DEF TameTogether, InUse, Reached, Epoch, UpdateRoc, SeqOf
  <2>1. pc[t] \in {"update", "index"} /\ ctx[t] \in 1..Len(recv)
    BY <1>7 DEF IndInv, SessionsKnown
  <2>2. /\ \A q \in InUse(ctx[t]) : Epoch(pkt[q]) = Epoch(pkt[t])
        /\ IF pc[t] = "update"
           THEN Reached(UpdateRoc(read[t], SeqOf(peer.first, pkt[t])), pkt[t])
           ELSE recv[ctx[t]].roc = Epoch(pkt[t])
    BY <2>1 DEF IndInv, TameTogether
  <2>3. \A q \in Relays : ctx[q] = ctx[t] /\ pc'[q] \in {"update", "index"} => q \in InUse(ctx[t])
    BY <1>7 DEF InUse
  <2>4. CASE t = r
    BY <1>3, <1>7, <1>13, <2>2, <2>3, <2>4
  <2>5. CASE t # r
    <3>1. CASE ctx[t] = s
      <4>1. t \in InUse(s)
        BY <2>1, <3>1 DEF InUse
      <4>2. recv'[ctx[t]].roc = Epoch(pkt[t])
        BY <1>3, <1>13, <3>1, <4>1
      <4> QED
        BY <1>7, <2>2, <2>3, <2>5, <4>2
    <3>2. CASE ctx[t] # s
      BY <1>3, <1>7, <2>1, <2>2, <2>3, <2>5, <3>2
    <3> QED
      BY <3>1, <3>2
  <2> QED
    BY <2>4, <2>5
<1>11. RecvIndexTrue'
  BY <1>7 DEF IndInv, RecvIndexTrue
<1>12. RoomKept'
  BY <1>7 DEF IndInv, RoomKept, queueVars
<1> QED
  BY <1>5, <1>6, <1>8, <1>9, <1>10, <1>11, <1>12 DEF IndInv

LEMMA ComputeInv ==
  ASSUME IndInv, NEW r \in Relays, ComputeIndex(r)
  PROVE  IndInv'
<1> USE DEF ComputeIndex, Goto
<1> DEFINE s == ctx[r]  i == PacketIndex(recv[s], SeqOf(peer.first, pkt[r]))
<1>1. s \in 1..Len(recv) /\ recv[s] \in Context /\ pkt[r] \in Packets /\ pkt[r] # -1
  <2>1. s \in 1..Len(recv) /\ pkt[r] \in Packets
    BY ThreadTyped DEF IndInv, SessionsKnown
  <2>2. pkt[r] # -1
    BY <2>1, Bounds DEF Packets
  <2> QED
    BY <2>1, <2>2, RecvTyped DEF IndInv
<1>2. i \in Nat
  BY <1>1, SeqType, ContextType DEF IndInv
<1>3. tame[s] => i = peer.first + pkt[r]
  <2> SUFFICES ASSUME tame[s] PROVE i = peer.first + pkt[r]
    OBVIOUS
  <2>2. peer.first + pkt[r] \in Nat
    BY <1>1, SeqType DEF IndInv
  <2>3. recv[s].roc = (peer.first + pkt[r]) \div Cycle
    BY DEF IndInv, TameTogether, Epoch
  <2> QED
    BY <2>2, <2>3, Split DEF PacketIndex, SeqOf
<1> HIDE DEF i
<1>4. index' = [index EXCEPT ![r] = i]
  BY DEF i
<1>5. /\ \A q \in Relays : q # r => pc'[q] = pc[q] /\ index'[q] = index[q]
      /\ pc[r] = "index" /\ pc'[r] = "decode" /\ index'[r] = i
      /\ UNCHANGED <<recv, pkt, ctx, read, last, tame, peer>>
      /\ pc' \in [Relays -> Labels] /\ index' \in [Relays -> Nat]
  BY <1>2, <1>4, ThreadTyped DEF IndInv, Labels, peerVars, histVars
<1>6. TypeOK'
  BY <1>5 DEF IndInv, TypeOK, ownVars, peerVars, queueVars
<1>7. (OwnStream /\ SendIndexTrue)'
  BY OwnFrame DEF IndInv
<1>8. SessionsKnown' /\ TameReached'
  BY <1>5 DEF IndInv, SessionsKnown, TameReached, Reached, Epoch, SeqOf
<1>9. TameTogether'
  BY <1>5, InsideFrame DEF IndInv
<1>10. RecvIndexTrue'
  BY <1>3, <1>5 DEF IndInv, RecvIndexTrue
<1>11. RoomKept'
  BY <1>5 DEF IndInv, RoomKept, queueVars
<1> QED
  BY <1>6, <1>7, <1>8, <1>9, <1>10, <1>11 DEF IndInv

LEMMA DecodeInv ==
  ASSUME IndInv, NEW r \in Relays, Decode(r)
  PROVE  IndInv'
<1> USE DEF Decode, Goto
<1>1. /\ \A q \in Relays : q # r => /\ pc'[q] = pc[q] /\ index'[q] = index[q]
                                   /\ pkt'[q] = pkt[q] /\ ctx'[q] = ctx[q]
      /\ pc[r] = "decode" /\ pc'[r] \in {"idle", "feed"} /\ ctx'[r] = 1
      /\ UNCHANGED <<recv, read, last, tame, peer>>
      /\ pc' \in [Relays -> Labels] /\ index' \in [Relays -> Nat]
      /\ pkt' \in [Relays -> Packets] /\ ctx' \in [Relays -> 1..MaxSessions]
  <2>1. 0 \in Packets /\ 1 \in 1..MaxSessions
    BY MediaAssumption DEF Packets
  <2> QED
    BY <2>1, ThreadTyped DEF IndInv, Labels, peerVars, histVars
<1>2. TypeOK'
  BY <1>1 DEF IndInv, TypeOK, ownVars, peerVars, queueVars
<1>3. (OwnStream /\ SendIndexTrue)'
  BY OwnFrame DEF IndInv
<1>4. SessionsKnown'
  BY <1>1, RecvTyped, Bounds DEF IndInv, SessionsKnown
<1>5. TameReached'
  BY <1>1 DEF IndInv, TameReached, Reached, Epoch, SeqOf
<1>6. TameTogether'
  BY <1>1, InsideFrame DEF IndInv
<1>7. RecvIndexTrue'
  BY <1>1 DEF IndInv, RecvIndexTrue
<1>8. RoomKept'
  BY <1>1 DEF IndInv, RoomKept, queueVars
<1> QED
  BY <1>2, <1>3, <1>4, <1>5, <1>6, <1>7, <1>8 DEF IndInv

(* A frame of the caller, into the agent's queue. *)
LEMMA QueueInv ==
  ASSUME IndInv, NEW r \in Relays, FeedCallerAudio(r) \/ DropOldest(r) \/ Retry(r)
  PROVE  IndInv'
<1> USE DEF Goto
<1>1. /\ \A q \in Relays : q # r => pc'[q] = pc[q]
      /\ pc[r] \in {"feed", "full", "retry"} /\ pc'[r] \in {"idle", "full", "retry"}
      /\ pc' \in [Relays -> Labels]
      /\ UNCHANGED <<ownVars, recv, live, peer, net, pkt, ctx, read, index, histVars, known>>
  BY ThreadTyped DEF FeedCallerAudio, DropOldest, Retry, Offer, IndInv, Labels, peerVars
<1>2. queued' \in 0..QueueCap /\ overtaken' \in [Relays -> BOOLEAN]
  <2>1. queued \in 0..QueueCap /\ overtaken \in [Relays -> BOOLEAN]
    BY QueueTyped DEF IndInv
  <2>2. CASE DropOldest(r)
    BY <2>1, <2>2, Bounds DEF DropOldest
  <2>3. CASE Enqueue(r) /\ queued < QueueCap
    BY <2>1, <2>3, Bounds DEF Enqueue
  <2>4. CASE UNCHANGED queueVars
    BY <2>1, <2>4 DEF queueVars
  <2> QED
    BY <2>2, <2>3, <2>4 DEF FeedCallerAudio, Retry, Offer
<1>3. TypeOK'
  BY <1>1, <1>2 DEF IndInv, TypeOK, ownVars, histVars
<1>4. (OwnStream /\ SendIndexTrue)'
  BY <1>1, OwnFrame DEF IndInv
<1>5. SessionsKnown' /\ TameReached'
  BY <1>1 DEF IndInv, SessionsKnown, TameReached, Reached, Epoch, SeqOf, histVars
<1>6. TameTogether'
  BY <1>1, InsideFrame DEF IndInv, histVars
<1>7. RecvIndexTrue'
  BY <1>1 DEF IndInv, RecvIndexTrue, histVars
<1>8. RoomKept'
  <2>1. CASE DropOldest(r)
    <3>1. queued' < QueueCap /\ queued' <= queued
      BY <2>1, QueueTyped, Bounds DEF DropOldest, IndInv
    <3>2. \A q \in Relays : pc'[q] = "retry" /\ ~overtaken'[q] => queued' < QueueCap
      BY <3>1
    <3> QED
      BY <3>2 DEF RoomKept
  <2>2. CASE queued < QueueCap /\ Enqueue(r) /\ pc'[r] = "idle"
    <3>1. \A q \in Relays : pc'[q] = "retry" => q # r /\ pc[q] = "retry"
      BY <1>1, <2>2
    <3>2. \A q \in Relays : pc'[q] = "retry" => overtaken'[q]
      BY <2>2, <3>1 DEF Enqueue
    <3> QED
      BY <3>2 DEF RoomKept
  <2>3. CASE UNCHANGED queueVars /\ pc'[r] # "retry"
    BY <1>1, <2>3 DEF IndInv, RoomKept, queueVars
  <2> QED
    BY <2>1, <2>2, <2>3, ThreadTyped DEF FeedCallerAudio, Retry, Offer, IndInv
<1> QED
  BY <1>3, <1>4, <1>5, <1>6, <1>7, <1>8 DEF IndInv

LEMMA InitInv == Init => IndInv
<1> SUFFICES ASSUME Init PROVE IndInv
  OBVIOUS
<1> USE DEF Init
<1>1. /\ rtp \in [seq : 0..(Cycle - 1), first : 0..(Cycle - 1), sent : Nat]
      /\ rtp.sent = 0 /\ rtp.seq = rtp.first /\ rtp.first \in 0..(Cycle - 1)
      /\ peer \in [first : 0..(Cycle - 1), sent : 0..MaxPackets]
  <2>1. Firsts \subseteq 0..(Cycle - 1) /\ 0 \in Nat /\ 0 \in 0..MaxPackets
    BY MediaAssumption
  <2>2. PICK f \in Firsts : rtp = [seq |-> f, first |-> f, sent |-> 0]
    BY DEF NewRtpSession
  <2>3. PICK g \in Firsts : peer = [first |-> g, sent |-> 0]
    OBVIOUS
  <2> HIDE DEF Init
  <2> QED
    BY <2>1, <2>2, <2>3
<1>2. recv \in Seq(Context) /\ Len(recv) = 1 /\ recv[1] = Fresh
  BY FreshType
<1>3. TypeOK
  <2>1. 0 \in Packets /\ 0 \in 0..Copies /\ 1 \in 1..MaxSessions /\ 0 \in 0..QueueCap
        /\ -1 \in -1..(MaxPackets - 1)
    BY MediaAssumption DEF Packets
  <2> QED
    BY <1>1, <1>2, <2>1, FreshType DEF TypeOK, Labels
<1>4. OwnStream /\ SendIndexTrue
  BY <1>1, CycleNat DEF OwnStream, SendIndexTrue, Fresh
<1>5. SessionsKnown /\ TameReached
  <2>1. \A s \in 1..MaxSessions : last[s] = -1
    OBVIOUS
  <2>2. SessionsKnown
    BY <1>2, <2>1 DEF SessionsKnown
  <2>3. \A s \in 1..Len(recv) : recv[s] = Fresh /\ s \in 1..MaxSessions
    BY <1>2, MediaAssumption
  <2>4. TameReached
    BY <2>1, <2>3 DEF TameReached, Reached
  <2> QED
    BY <2>2, <2>4
<1>6. TameTogether /\ RecvIndexTrue /\ RoomKept
  BY DEF TameTogether, RecvIndexTrue, RoomKept
<1> QED
  BY <1>3, <1>4, <1>5, <1>6 DEF IndInv

LEMMA StepInv == IndInv /\ [Next]_vars => IndInv'
<1> SUFFICES ASSUME IndInv, [Next]_vars PROVE IndInv'
  OBVIOUS
<1>1. CASE UNCHANGED vars
  <2>1. TypeOK'
    BY <1>1 DEF IndInv, TypeOK, vars, ownVars, peerVars, threadVars, histVars, queueVars
  <2> QED
    BY <1>1, <2>1, OwnFrame, PeerFrame, RoomFrame DEF IndInv, vars, peerVars, threadVars
<1>2. CASE SendOpusFrame \/ InitSrtpKeys \/ SetupMedia
  BY <1>2, SendInv, KeysInv
<1>3. CASE CleanupMedia \/ PeerSends \/ WriteAudio
  BY <1>3, OtherInv
<1>4. CASE \E r \in Relays : RelayStep(r)
  BY <1>4, CaptureInv, ReadInv, WriteInv, ComputeInv, DecodeInv, QueueInv DEF RelayStep
<1> QED
  BY <1>1, <1>2, <1>3, <1>4 DEF Next

(* Every variable keeps its type. *)
THEOREM TypeCorrect == Spec => []TypeOK
<1>1. IndInv => TypeOK
  BY DEF IndInv
<1> QED
  BY InitInv, StepInv, <1>1, PTL DEF Spec

(* Our packets are protected with their true indices, across any number of wraps,   *)
(* unless keys were set again after one.                                       *)
THEOREM SendIndices == Spec => []SendIndexTrue
<1>1. IndInv => SendIndexTrue
  BY DEF IndInv
<1> QED
  BY InitInv, StepInv, <1>1, PTL DEF Spec

(* A packet of the peer is decrypted with its true index, whatever is lost, doubled  *)
(* or reordered and however many goroutines are in its context, as long as the       *)
(* context saw a packet before the first wrap, never half a cycle was missing,       *)
(* nothing came from behind a wrap after it was passed, and those inside at once     *)
(* were on one side of every wrap, the one to be counted included.                   *)
THEOREM RecvIndices == Spec => []RecvIndexTrue
<1>1. IndInv => RecvIndexTrue
  BY DEF IndInv
<1> QED
  BY InitInv, StepInv, <1>1, PTL DEF Spec

(* A frame is given up only when a newer one took the room made for it. *)
THEOREM FreshFrames == Spec => FreshKept
<1> DEFINE Kept == \A r \in Relays :
                     pc[r] = "retry" /\ pc'[r] = "idle" /\ queued' = queued => overtaken[r]
<1>1. IndInv /\ [Next]_vars => [Kept]_vars
  <2> SUFFICES ASSUME IndInv, Next, NEW t \in Relays, pc[t] = "retry", pc'[t] = "idle",
                      queued' = queued
               PROVE  overtaken[t]
    OBVIOUS
  <2>1. CASE \E r \in Relays : RelayStep(r)
    BY <2>1, SMTT(60) DEF RelayStep, OnRelayData, ReadContext, WriteContext, ComputeIndex, Decode,
       FeedCallerAudio, DropOldest, Retry, Offer, Enqueue, Goto, queueVars,
       IndInv, TypeOK, RoomKept, Labels
  <2>2. CASE ~\E r \in Relays : RelayStep(r)
    BY <2>2 DEF Next, SendOpusFrame, InitSrtpKeys, SetupMedia, CleanupMedia, PeerSends,
       WriteAudio, threadVars
  <2> QED
    BY <2>1, <2>2
<1> QED
  BY InitInv, StepInv, <1>1, PTL DEF Spec, FreshKept

-----------------------------------------------------------------------------
(***************************************************************************)
(* Proofs about PcmStream, for messages of any length. Cutting a sequence at    *)
(* a multiple of two (bytes) or of three (samples) commutes with the           *)
(* conversions, so each reader holds what is left over of all it was sent, and  *)
(* has fed what the rest of it gives.                                         *)
(***************************************************************************)

(* What a concatenation and a part of a sequence hold.                           *)
LEMMA ConcatFacts ==
  ASSUME NEW S, NEW s \in Seq(S), NEW t \in Seq(S)
  PROVE  /\ s \o t \in Seq(S)
         /\ DOMAIN (s \o t) = 1..(Len(s) + Len(t))
         /\ DOMAIN s = 1..Len(s) /\ DOMAIN t = 1..Len(t)
         /\ Len(s \o t) = Len(s) + Len(t) /\ Len(s) \in Nat /\ Len(t) \in Nat
         /\ \A i \in DOMAIN (s \o t) :
              (s \o t)[i] = IF i <= Len(s) THEN s[i] ELSE t[i - Len(s)]
OBVIOUS

LEMMA SeqElements ==
  ASSUME NEW S, NEW s \in Seq(S)
  PROVE  Len(s) \in Nat /\ \A i \in 1 .. Len(s) : s[i] \in S
OBVIOUS

LEMMA SubSeqFacts ==
  ASSUME NEW S, NEW s \in Seq(S), NEW m \in 1..(Len(s) + 1), NEW n \in (m - 1)..Len(s)
  PROVE  /\ SubSeq(s, m, n) \in Seq(S)
         /\ DOMAIN SubSeq(s, m, n) = 1..(n - m + 1)
         /\ Len(SubSeq(s, m, n)) = n - m + 1
         /\ \A i \in 1..(n - m + 1) : SubSeq(s, m, n)[i] = s[m + i - 1]
BY SubSeqProperties

(* Cutting a sequence where a multiple of n ends.                                *)
LEMMA CutWhole ==
  ASSUME NEW S, NEW s \in Seq(S), NEW n \in {2, 3}
  PROVE  /\ Len(s) \in Nat /\ Whole(s, n) \in 0 .. Len(s)
         /\ Whole(s, n) % n = 0 /\ Len(s) - Whole(s, n) < n
         /\ SubSeq(s, 1, Whole(s, n)) \in Seq(S) /\ Len(SubSeq(s, 1, Whole(s, n))) = Whole(s, n)
         /\ Rest(s, Whole(s, n)) \in Seq(S) /\ Len(Rest(s, Whole(s, n))) = Len(s) - Whole(s, n)
         /\ \A i \in 1 .. Whole(s, n) : SubSeq(s, 1, Whole(s, n))[i] = s[i]
         /\ \A i \in 1 .. Len(s) - Whole(s, n) : Rest(s, Whole(s, n))[i] = s[Whole(s, n) + i]
<1>1. Len(s) \in Nat
  OBVIOUS
<1>2. Whole(s, n) \in 0 .. Len(s) /\ Whole(s, n) % n = 0 /\ Len(s) - Whole(s, n) < n
  BY <1>1 DEF Whole
<1> DEFINE k == Whole(s, n)
<1>3. k \in 0 .. Len(s)
  BY <1>2
<1> HIDE DEF k
<1>4. 1 \in 1 .. (Len(s) + 1) /\ k \in (1 - 1) .. Len(s)
  BY <1>1, <1>3
<1>5. /\ SubSeq(s, 1, k) \in Seq(S) /\ Len(SubSeq(s, 1, k)) = k
      /\ \A i \in 1 .. k : SubSeq(s, 1, k)[i] = s[i]
  BY <1>1, <1>3, <1>4, SubSeqFacts
<1>6. k + 1 \in 1 .. (Len(s) + 1) /\ Len(s) \in (k + 1 - 1) .. Len(s)
  BY <1>1, <1>3
<1>7. /\ SubSeq(s, k + 1, Len(s)) \in Seq(S) /\ Len(SubSeq(s, k + 1, Len(s))) = Len(s) - k
      /\ \A i \in 1 .. Len(s) - k : SubSeq(s, k + 1, Len(s))[i] = s[k + i]
  BY <1>1, <1>3, <1>6, SubSeqFacts
<1> QED
  BY <1>1, <1>2, <1>5, <1>7 DEF Rest, k

LEMMA RestFacts ==
  ASSUME NEW S, NEW s \in Seq(S), NEW n \in {2, 3}
  PROVE  /\ Rest(s, Whole(s, n)) \in Seq(S) /\ Len(Rest(s, Whole(s, n))) = Len(s) - Whole(s, n)
         /\ \A i \in 1 .. Len(s) - Whole(s, n) : Rest(s, Whole(s, n))[i] = s[Whole(s, n) + i]
BY CutWhole

LEMMA CutJoins ==
  ASSUME NEW S, NEW s \in Seq(S), NEW n \in {2, 3}
  PROVE  s = SubSeq(s, 1, Whole(s, n)) \o Rest(s, Whole(s, n))
<1> DEFINE k == Whole(s, n)
           a == SubSeq(s, 1, k)
           b == Rest(s, k)
<1>1. /\ a \in Seq(S) /\ b \in Seq(S) /\ Len(a) = k /\ Len(b) = Len(s) - k
      /\ k \in 0 .. Len(s) /\ Len(s) \in Nat
      /\ \A i \in 1 .. k : a[i] = s[i]
      /\ \A i \in 1 .. Len(s) - k : b[i] = s[k + i]
  BY CutWhole
<1> HIDE DEF k, a, b
<1>2. /\ a \o b \in Seq(S) /\ Len(a \o b) = Len(s)
      /\ \A i \in 1 .. Len(s) : (a \o b)[i] = IF i <= k THEN a[i] ELSE b[i - k]
  <2>1. /\ a \o b \in Seq(S) /\ Len(a \o b) = Len(a) + Len(b)
        /\ DOMAIN (a \o b) = 1 .. (Len(a) + Len(b))
        /\ \A i \in DOMAIN (a \o b) : (a \o b)[i] = IF i <= Len(a) THEN a[i] ELSE b[i - Len(a)]
    <3>1. a \in Seq(S) /\ b \in Seq(S)
      BY <1>1
    <3> QED
      BY <3>1, ConcatFacts
  <2>2. Len(a) + Len(b) = Len(s)
    BY <1>1
  <2> QED
    BY <1>1, <2>1, <2>2
<1>3. ASSUME NEW i \in 1 .. Len(s) PROVE s[i] = (a \o b)[i]
  <2>1. CASE i <= k
    BY <1>1, <1>2, <2>1
  <2>2. CASE i > k
    <3>1. i - k \in 1 .. Len(s) - k /\ k + (i - k) = i
      BY <1>1, <2>2
    <3> QED
      BY <1>1, <1>2, <2>2, <3>1
  <2> QED
    BY <1>1, <2>1, <2>2
<1>4. s = a \o b
  BY <1>2, <1>3, SeqEqual
<1> QED
  BY <1>4 DEF a, b, k

LEMMA TwoParts ==
  ASSUME NEW S, NEW s \in Seq(S), NEW n \in {2, 3}
  PROVE  /\ SubSeq(s, 1, Whole(s, n)) \in Seq(S) /\ Rest(s, Whole(s, n)) \in Seq(S)
         /\ s = SubSeq(s, 1, Whole(s, n)) \o Rest(s, Whole(s, n))
         /\ Len(SubSeq(s, 1, Whole(s, n))) % n = 0 /\ Len(Rest(s, Whole(s, n))) < n
<1>1. s = SubSeq(s, 1, Whole(s, n)) \o Rest(s, Whole(s, n))
  BY CutJoins
<1>2. /\ SubSeq(s, 1, Whole(s, n)) \in Seq(S) /\ Len(SubSeq(s, 1, Whole(s, n))) = Whole(s, n)
      /\ Whole(s, n) % n = 0
  BY CutWhole
<1>3. /\ Rest(s, Whole(s, n)) \in Seq(S) /\ Len(Rest(s, Whole(s, n))) = Len(s) - Whole(s, n)
      /\ Len(s) - Whole(s, n) < n
  BY CutWhole
<1> QED
  BY <1>1, <1>2, <1>3

LEMMA Pairs ==
  ASSUME NEW S, NEW s \in Seq(S)
  PROVE  /\ SubSeq(s, 1, Whole(s, 2)) \in Seq(S) /\ Rest(s, Whole(s, 2)) \in Seq(S)
         /\ s = SubSeq(s, 1, Whole(s, 2)) \o Rest(s, Whole(s, 2))
         /\ Len(SubSeq(s, 1, Whole(s, 2))) % 2 = 0 /\ Len(Rest(s, Whole(s, 2))) < 2
<1>1. PICK n : n = 2
  OBVIOUS
<1>2. n \in {2, 3}
  BY <1>1
<1>3. /\ SubSeq(s, 1, Whole(s, n)) \in Seq(S) /\ Rest(s, Whole(s, n)) \in Seq(S)
      /\ s = SubSeq(s, 1, Whole(s, n)) \o Rest(s, Whole(s, n))
      /\ Len(SubSeq(s, 1, Whole(s, n))) % n = 0 /\ Len(Rest(s, Whole(s, n))) < n
  BY <1>2, TwoParts
<1> QED
  BY <1>1, <1>3

LEMMA Triples ==
  ASSUME NEW S, NEW s \in Seq(S)
  PROVE  /\ SubSeq(s, 1, Whole(s, 3)) \in Seq(S) /\ Rest(s, Whole(s, 3)) \in Seq(S)
         /\ s = SubSeq(s, 1, Whole(s, 3)) \o Rest(s, Whole(s, 3))
         /\ Len(SubSeq(s, 1, Whole(s, 3))) % 3 = 0 /\ Len(Rest(s, Whole(s, 3))) < 3
<1>1. PICK n : n = 3
  OBVIOUS
<1>2. n \in {2, 3}
  BY <1>1
<1>3. /\ SubSeq(s, 1, Whole(s, n)) \in Seq(S) /\ Rest(s, Whole(s, n)) \in Seq(S)
      /\ s = SubSeq(s, 1, Whole(s, n)) \o Rest(s, Whole(s, n))
      /\ Len(SubSeq(s, 1, Whole(s, n))) % n = 0 /\ Len(Rest(s, Whole(s, n))) < n
  BY <1>2, TwoParts
<1> QED
  BY <1>1, <1>3

LEMMA WholeSum ==
  ASSUME NEW x \in Nat, NEW y \in Nat, NEW n \in {2, 3}, x % n = 0
  PROVE  ((x + y) \div n) * n = x + (y \div n) * n
<1>1. CASE n = 2
  BY <1>1
<1>2. CASE n = 3
  BY <1>2
<1> QED
  BY <1>1, <1>2

(* r is what u has after its first k elements.                                       *)
IsRest(S, r, u, k) ==
  /\ r \in Seq(S) /\ Len(r) = Len(u) - k
  /\ \A i \in 1 .. Len(u) - k : r[i] = u[k + i]

LEMMA RestIs ==
  ASSUME NEW S, NEW s \in Seq(S), NEW n \in {2, 3}
  PROVE  IsRest(S, Rest(s, Whole(s, n)), s, Whole(s, n))
BY RestFacts DEF IsRest

(* What is left over does not see whole multiples before it.                        *)
LEMMA RestJoined ==
  ASSUME NEW S, NEW s \in Seq(S), NEW t \in Seq(S), NEW n \in {2, 3}, Len(s) % n = 0
  PROVE  Rest(s \o t, Whole(s \o t, n)) = Rest(t, Whole(t, n))
<1>1. PICK all : all = s \o t
  OBVIOUS
<1>2. /\ all \in Seq(S) /\ Len(all) = Len(s) + Len(t) /\ Len(s) \in Nat /\ Len(t) \in Nat
      /\ \A i \in 1 .. Len(t) : all[Len(s) + i] = t[i]
  BY <1>1
<1>3. Whole(all, n) = Len(s) + Whole(t, n)
  <2>1. Whole(all, n) = ((Len(s) + Len(t)) \div n) * n
    BY <1>2, Zenon DEF Whole
  <2>2. ((Len(s) + Len(t)) \div n) * n = Len(s) + (Len(t) \div n) * n
    BY <1>2, WholeSum, Zenon
  <2> QED
    BY <2>1, <2>2, Zenon DEF Whole
<1>4. /\ Rest(all, Whole(all, n)) \in Seq(S)
      /\ Len(Rest(all, Whole(all, n))) = Len(all) - Whole(all, n)
      /\ \A i \in 1 .. Len(all) - Whole(all, n) : Rest(all, Whole(all, n))[i] = all[Whole(all, n) + i]
  <2>1. all \in Seq(S)
    BY <1>2
  <2>2. IsRest(S, Rest(all, Whole(all, n)), all, Whole(all, n))
    BY <2>1, RestIs, Zenon
  <2> QED
    BY <2>2, Zenon DEF IsRest
<1>5. /\ Rest(t, Whole(t, n)) \in Seq(S)
      /\ Len(Rest(t, Whole(t, n))) = Len(t) - Whole(t, n)
      /\ \A i \in 1 .. Len(t) - Whole(t, n) : Rest(t, Whole(t, n))[i] = t[Whole(t, n) + i]
  <2>1. IsRest(S, Rest(t, Whole(t, n)), t, Whole(t, n))
    BY RestIs, Zenon
  <2> QED
    BY <2>1, Zenon DEF IsRest
<1>6. Whole(t, n) \in 0 .. Len(t)
  BY CutWhole
<1>7. PICK a, b, k : a = Rest(all, Whole(all, n)) /\ b = Rest(t, Whole(t, n)) /\ k = Whole(t, n)
  OBVIOUS
<1>8. Len(a) = Len(b) /\ Len(b) = Len(t) - k
  BY <1>2, <1>3, <1>4, <1>5, <1>6, <1>7
<1>9. ASSUME NEW i \in 1 .. Len(a) PROVE a[i] = b[i]
  <2>1. /\ k + i \in 1 .. Len(t) /\ i \in 1 .. Len(t) - k /\ i \in 1 .. Len(all) - (Len(s) + k)
        /\ Len(s) + (k + i) = Len(s) + k + i
    BY <1>2, <1>6, <1>7, <1>8
  <2>2. a[i] = all[Len(s) + k + i] /\ b[i] = t[k + i]
    BY <1>3, <1>4, <1>5, <1>7, <2>1
  <2>3. all[Len(s) + (k + i)] = t[k + i]
    BY <1>2, <2>1
  <2> QED
    BY <2>1, <2>2, <2>3
<1>10. a = b
  BY <1>4, <1>5, <1>7, <1>8, <1>9, SeqEqual
<1> QED
  BY <1>1, <1>7, <1>10

-----------------------------------------------------------------------------
(* Samples of bytes.                                                          *)

SampleOf(low, high) ==
  LET v == low + 256 * high IN 2 * (IF v >= 32768 THEN v - 65536 ELSE v)

LEMMA Halves ==
  ASSUME NEW x \in Nat
  PROVE  /\ x \div 2 \in Nat
         /\ \A i \in 1 .. x \div 2 : 2 * i - 1 \in 1 .. x /\ 2 * i \in 1 .. x
OBVIOUS

LEMMA HalvesJoined ==
  ASSUME NEW x \in Nat, NEW y \in Nat, x % 2 = 0
  PROVE  /\ x = 2 * (x \div 2) /\ (x + y) \div 2 = x \div 2 + y \div 2
         /\ x \div 2 \in Nat /\ y \div 2 \in Nat /\ 2 * (y \div 2) <= y
OBVIOUS

LEMMA PcmType ==
  ASSUME NEW bs \in Seq(0 .. 255)
  PROVE  /\ PCMInt16LEToFloat32(bs) \in Seq(Int)
         /\ Len(PCMInt16LEToFloat32(bs)) = Len(bs) \div 2
         /\ \A i \in 1 .. Len(bs) \div 2 :
              PCMInt16LEToFloat32(bs)[i] = SampleOf(bs[2 * i - 1], bs[2 * i])
<1>1. /\ Len(bs) \in Nat
      /\ \A i \in 1 .. Len(bs) : bs[i] \in 0 .. 255
  BY SeqElements
<1>2. \A i \in 1 .. Len(bs) \div 2 : bs[2 * i - 1] \in 0 .. 255 /\ bs[2 * i] \in 0 .. 255
  BY <1>1, Halves
<1>3. \A i \in 1 .. Len(bs) \div 2 : SampleOf(bs[2 * i - 1], bs[2 * i]) \in Int
  <2>1. \A l, h \in 0 .. 255 : SampleOf(l, h) \in Int
    BY DEF SampleOf
  <2> QED
    BY <1>2, <2>1
<1>4. PCMInt16LEToFloat32(bs) = [i \in 1 .. Len(bs) \div 2 |-> SampleOf(bs[2 * i - 1], bs[2 * i])]
  BY DEF PCMInt16LEToFloat32, SampleOf
<1>5. Len(bs) \div 2 \in Nat
  BY <1>1, Halves
<1> QED
  BY <1>3, <1>4, <1>5

LEMMA PcmJoined ==
  ASSUME NEW a \in Seq(0 .. 255), NEW b \in Seq(0 .. 255), Len(a) % 2 = 0
  PROVE  PCMInt16LEToFloat32(a \o b) = PCMInt16LEToFloat32(a) \o PCMInt16LEToFloat32(b)
<1>1. PICK all : all = a \o b
  OBVIOUS
<1>2. PICK x, y, z : /\ x = PCMInt16LEToFloat32(a) /\ y = PCMInt16LEToFloat32(b)
                     /\ z = PCMInt16LEToFloat32(all)
  OBVIOUS
<1>3. /\ all \in Seq(0 .. 255) /\ Len(all) = Len(a) + Len(b) /\ Len(a) \in Nat /\ Len(b) \in Nat
      /\ \A i \in 1 .. Len(a) : all[i] = a[i]
      /\ \A i \in 1 .. Len(b) : all[Len(a) + i] = b[i]
  BY <1>1
<1>4. /\ x \in Seq(Int) /\ Len(x) = Len(a) \div 2
      /\ \A i \in 1 .. Len(x) : x[i] = SampleOf(a[2 * i - 1], a[2 * i])
  BY <1>2, PcmType
<1>5. /\ y \in Seq(Int) /\ Len(y) = Len(b) \div 2
      /\ \A i \in 1 .. Len(y) : y[i] = SampleOf(b[2 * i - 1], b[2 * i])
  BY <1>2, PcmType
<1>6. /\ z \in Seq(Int) /\ Len(z) = Len(all) \div 2
      /\ \A i \in 1 .. Len(z) : z[i] = SampleOf(all[2 * i - 1], all[2 * i])
  <2>1. all \in Seq(0 .. 255)
    BY <1>3
  <2> QED
    BY <1>2, <2>1, PcmType
<1>7. /\ Len(a) = 2 * Len(x) /\ Len(z) = Len(x) + Len(y) /\ Len(x) \in Nat /\ Len(y) \in Nat
      /\ 2 * Len(y) <= Len(b)
  <2>1. Len(a) \in Nat /\ Len(b) \in Nat /\ Len(a) % 2 = 0
    BY <1>3
  <2>2. /\ Len(a) = 2 * (Len(a) \div 2) /\ Len(a) \div 2 \in Nat
        /\ (Len(a) + Len(b)) \div 2 = Len(a) \div 2 + Len(b) \div 2
        /\ Len(b) \div 2 \in Nat /\ 2 * (Len(b) \div 2) <= Len(b)
    BY <2>1, HalvesJoined
  <2>3. /\ Len(all) = Len(a) + Len(b) /\ Len(x) = Len(a) \div 2 /\ Len(y) = Len(b) \div 2
        /\ Len(z) = Len(all) \div 2
    BY <1>3, <1>4, <1>5, <1>6
  <2> QED
    BY <2>2, <2>3
<1>8. /\ x \o y \in Seq(Int) /\ Len(x \o y) = Len(x) + Len(y)
      /\ \A i \in 1 .. Len(x) : (x \o y)[i] = x[i]
      /\ \A i \in 1 .. Len(y) : (x \o y)[Len(x) + i] = y[i]
  <2>1. x \in Seq(Int) /\ y \in Seq(Int)
    BY <1>4, <1>5
  <2> QED
    BY <2>1
<1>9. ASSUME NEW i \in 1 .. Len(z) PROVE z[i] = (x \o y)[i]
  <2>1. CASE i <= Len(x)
    <3>1. i \in 1 .. Len(x) /\ 2 * i - 1 \in 1 .. Len(a) /\ 2 * i \in 1 .. Len(a)
      BY <1>3, <1>7, <2>1
    <3>2. all[2 * i - 1] = a[2 * i - 1] /\ all[2 * i] = a[2 * i]
      BY <1>3, <3>1
    <3> QED
      BY <1>4, <1>6, <1>8, <3>1, <3>2
  <2>2. CASE i > Len(x)
    <3>1. PICK j \in 1 .. Len(y) : i = Len(x) + j
      <4>1. i - Len(x) \in 1 .. Len(y) /\ i = Len(x) + (i - Len(x))
        BY <1>7, <2>2
      <4> QED
        BY <4>1
    <3>2. /\ 2 * j - 1 \in 1 .. Len(b) /\ 2 * j \in 1 .. Len(b)
          /\ 2 * i - 1 = Len(a) + (2 * j - 1) /\ 2 * i = Len(a) + 2 * j
      BY <1>3, <1>7, <3>1
    <3>3. all[2 * i - 1] = b[2 * j - 1] /\ all[2 * i] = b[2 * j]
      BY <1>3, <3>2
    <3>4. z[i] = SampleOf(all[2 * i - 1], all[2 * i])
      BY <1>6
    <3> QED
      BY <1>5, <1>8, <3>1, <3>3, <3>4
  <2> QED
    BY <1>7, <2>1, <2>2
<1>10. z = x \o y
  BY <1>6, <1>7, <1>8, <1>9, SeqEqual
<1> QED
  BY <1>1, <1>2, <1>10

(* An odd byte makes no sample.                                                  *)
LEMMA PcmOfWhole ==
  ASSUME NEW bs \in Seq(0 .. 255)
  PROVE  PCMInt16LEToFloat32(SubSeq(bs, 1, Whole(bs, 2))) = PCMInt16LEToFloat32(bs)
<1>1. PICK a, b : a = SubSeq(bs, 1, Whole(bs, 2)) /\ b = Rest(bs, Whole(bs, 2))
  OBVIOUS
<1>2. a \in Seq(0 .. 255) /\ b \in Seq(0 .. 255) /\ Len(a) % 2 = 0 /\ Len(b) < 2 /\ bs = a \o b
  BY <1>1, Pairs
<1>3. PCMInt16LEToFloat32(b) = <<>> /\ PCMInt16LEToFloat32(a) \in Seq(Int)
  <2>1. Len(b) \div 2 = 0
    BY <1>2
  <2>2. PCMInt16LEToFloat32(b) \in Seq(Int) /\ Len(PCMInt16LEToFloat32(b)) = Len(b) \div 2
    BY <1>2, PcmType
  <2>3. PCMInt16LEToFloat32(a) \in Seq(Int)
    BY <1>2, PcmType
  <2> QED
    BY <2>1, <2>2, <2>3, EmptySeq
<1>4. PCMInt16LEToFloat32(bs) = PCMInt16LEToFloat32(a) \o PCMInt16LEToFloat32(b)
  BY <1>2, PcmJoined
<1>5. PCMInt16LEToFloat32(a) \o <<>> = PCMInt16LEToFloat32(a)
  BY <1>3, ConcatEmptySeq
<1> QED
  BY <1>1, <1>3, <1>4, <1>5

-----------------------------------------------------------------------------
(* Two samples for three.                                                      *)

LEMMA Thirds ==
  ASSUME NEW x \in Nat, NEW i \in 1 .. 2 * (x \div 3)
  PROVE  /\ 3 * ((i - 1) \div 2) \in Nat /\ 3 * ((i - 1) \div 2) + 3 <= x
OBVIOUS

LEMMA ThirdsJoined ==
  ASSUME NEW x \in Nat, NEW y \in Nat, x % 3 = 0
  PROVE  /\ x = 3 * (x \div 3) /\ (x + y) \div 3 = x \div 3 + y \div 3
         /\ x \div 3 \in Nat /\ y \div 3 \in Nat
OBVIOUS

LEMMA NextThree ==
  ASSUME NEW n \in Nat, NEW k \in Nat, NEW l \in Nat, k + 3 <= l
  PROVE  /\ k + 1 \in 1 .. l /\ k + 2 \in 1 .. l /\ k + 3 \in 1 .. l
         /\ n + k + 1 = n + (k + 1) /\ n + k + 2 = n + (k + 2) /\ n + k + 3 = n + (k + 3)
OBVIOUS

LEMMA Shifted ==
  ASSUME NEW k \in Nat, NEW j \in Nat \ {0}
  PROVE  /\ 3 * ((2 * k + j - 1) \div 2) = 3 * k + 3 * ((j - 1) \div 2)
         /\ (2 * k + j) % 2 = j % 2
OBVIOUS

OfThree(i, first, second, third) == IF i % 2 = 1 THEN first ELSE (second + third) \div 2

LEMMA DownsampleType ==
  ASSUME NEW s \in Seq(Int)
  PROVE  /\ Downsample(s) \in Seq(Int) /\ Len(Downsample(s)) = 2 * (Len(s) \div 3)
         /\ \A i \in 1 .. 2 * (Len(s) \div 3) :
              Downsample(s)[i] = OfThree(i, s[3 * ((i - 1) \div 2) + 1],
                                   s[3 * ((i - 1) \div 2) + 2], s[3 * ((i - 1) \div 2) + 3])
<1>1. Len(s) \in Nat /\ \A i \in 1 .. Len(s) : s[i] \in Int
  BY SeqElements
<1>2. 2 * (Len(s) \div 3) \in Nat
  BY <1>1
<1>3. ASSUME NEW i \in 1 .. 2 * (Len(s) \div 3)
      PROVE  OfThree(i, s[3 * ((i - 1) \div 2) + 1],
               s[3 * ((i - 1) \div 2) + 2], s[3 * ((i - 1) \div 2) + 3]) \in Int
  <2>1. PICK b : b = 3 * ((i - 1) \div 2)
    OBVIOUS
  <2>2. b \in Nat /\ b + 3 <= Len(s)
    BY <1>1, <2>1, Thirds
  <2>3. b + 1 \in 1 .. Len(s) /\ b + 2 \in 1 .. Len(s) /\ b + 3 \in 1 .. Len(s)
    BY <1>1, <2>2
  <2>4. s[b + 1] \in Int /\ s[b + 2] \in Int /\ s[b + 3] \in Int
    BY <1>1, <2>3
  <2>5. \A u, v, w \in Int : OfThree(i, u, v, w) \in Int
    BY DEF OfThree
  <2> QED
    BY <2>1, <2>4, <2>5
<1>4. Downsample(s) = [i \in 1 .. 2 * (Len(s) \div 3) |->
        OfThree(i, s[3 * ((i - 1) \div 2) + 1],
          s[3 * ((i - 1) \div 2) + 2], s[3 * ((i - 1) \div 2) + 3])]
  BY DEF Downsample, OfThree
<1> QED
  BY <1>2, <1>3, <1>4

LEMMA DownsampleShort ==
  ASSUME NEW s \in Seq(Int), Len(s) < 3
  PROVE  Downsample(s) = <<>>
<1>1. Len(s) \in Nat
  OBVIOUS
<1>2. 2 * (Len(s) \div 3) = 0
  BY <1>1
<1>3. Downsample(s) \in Seq(Int) /\ Len(Downsample(s)) = 2 * (Len(s) \div 3)
  BY DownsampleType
<1> QED
  BY <1>2, <1>3, EmptySeq

LEMMA DownsampleJoined ==
  ASSUME NEW a \in Seq(Int), NEW b \in Seq(Int), Len(a) % 3 = 0
  PROVE  Downsample(a \o b) = Downsample(a) \o Downsample(b)
<1>0. Len(a) \in Nat /\ Len(b) \in Nat
  OBVIOUS
<1>1. PICK all : all = a \o b
  OBVIOUS
<1>2. PICK x, y, z : x = Downsample(a) /\ y = Downsample(b) /\ z = Downsample(all)
  OBVIOUS
<1>3. /\ all \in Seq(Int) /\ Len(all) = Len(a) + Len(b) /\ Len(a) \in Nat /\ Len(b) \in Nat
      /\ \A i \in 1 .. Len(a) : all[i] = a[i]
      /\ \A i \in 1 .. Len(b) : all[Len(a) + i] = b[i]
  BY <1>1
<1> DEFINE c(i) == 3 * ((i - 1) \div 2)
<1>4. /\ x \in Seq(Int) /\ Len(x) = 2 * (Len(a) \div 3)
      /\ \A i \in 1 .. Len(x) : x[i] = OfThree(i, a[c(i) + 1], a[c(i) + 2], a[c(i) + 3])
  BY <1>2, DownsampleType
<1>5. /\ y \in Seq(Int) /\ Len(y) = 2 * (Len(b) \div 3)
      /\ \A i \in 1 .. Len(y) : y[i] = OfThree(i, b[c(i) + 1], b[c(i) + 2], b[c(i) + 3])
  BY <1>2, DownsampleType
<1>6. /\ z \in Seq(Int) /\ Len(z) = 2 * (Len(all) \div 3)
      /\ \A i \in 1 .. Len(z) : z[i] = OfThree(i, all[c(i) + 1], all[c(i) + 2], all[c(i) + 3])
  <2>1. all \in Seq(Int)
    BY <1>3
  <2> QED
    BY <1>2, <2>1, DownsampleType
<1>7. /\ \A i \in 1 .. Len(x) : c(i) \in Nat /\ c(i) + 3 <= Len(a)
      /\ \A i \in 1 .. Len(y) : c(i) \in Nat /\ c(i) + 3 <= Len(b)
  <2>1. Len(a) \in Nat /\ Len(b) \in Nat
    BY <1>3
  <2>2. Len(x) = 2 * (Len(a) \div 3) /\ Len(y) = 2 * (Len(b) \div 3)
    BY <1>4, <1>5
  <2> QED
    BY <2>1, <2>2, Thirds
<1> HIDE DEF c
<1>8. PICK k \in Nat : Len(a) = 3 * k /\ Len(x) = 2 * k /\ Len(z) = 2 * k + Len(y) /\ Len(y) \in Nat
  <2>1. Len(a) \in Nat /\ Len(b) \in Nat /\ Len(a) % 3 = 0
    BY <1>3
  <2>2. /\ Len(a) = 3 * (Len(a) \div 3) /\ Len(a) \div 3 \in Nat /\ Len(b) \div 3 \in Nat
        /\ (Len(a) + Len(b)) \div 3 = Len(a) \div 3 + Len(b) \div 3
    BY <2>1, ThirdsJoined
  <2>3. /\ Len(all) = Len(a) + Len(b) /\ Len(x) = 2 * (Len(a) \div 3)
        /\ Len(y) = 2 * (Len(b) \div 3) /\ Len(z) = 2 * (Len(all) \div 3)
    BY <1>3, <1>4, <1>5, <1>6
  <2>4. PICK k, l : k = Len(a) \div 3 /\ l = Len(b) \div 3
    OBVIOUS
  <2>5. k \in Nat /\ l \in Nat /\ Len(a) = 3 * k /\ Len(x) = 2 * k /\ Len(y) = 2 * l
    BY <2>2, <2>3, <2>4
  <2>6. Len(z) = 2 * (k + l)
    BY <2>2, <2>3, <2>4
  <2>7. Len(z) = 2 * k + Len(y) /\ Len(y) \in Nat
    BY <2>5, <2>6
  <2> QED
    BY <2>5, <2>7
<1>9. /\ x \o y \in Seq(Int) /\ Len(x \o y) = Len(x) + Len(y)
      /\ \A i \in 1 .. Len(x) : (x \o y)[i] = x[i]
      /\ \A i \in 1 .. Len(y) : (x \o y)[Len(x) + i] = y[i]
  <2>1. x \in Seq(Int) /\ y \in Seq(Int)
    BY <1>4, <1>5
  <2> QED
    BY <2>1
<1>10. ASSUME NEW i \in 1 .. Len(z) PROVE z[i] = (x \o y)[i]
  <2>1. z[i] = OfThree(i, all[c(i) + 1], all[c(i) + 2], all[c(i) + 3])
    BY <1>6
  <2>2. CASE i <= Len(x)
    <3>1. i \in 1 .. Len(x)
      BY <1>8, <2>2
    <3>2. c(i) \in Nat /\ c(i) + 3 <= Len(a)
      BY <1>7, <3>1
    <3>3. c(i) + 1 \in 1 .. Len(a) /\ c(i) + 2 \in 1 .. Len(a) /\ c(i) + 3 \in 1 .. Len(a)
      BY <1>0, <3>2, NextThree
    <3>4. /\ all[c(i) + 1] = a[c(i) + 1] /\ all[c(i) + 2] = a[c(i) + 2]
          /\ all[c(i) + 3] = a[c(i) + 3]
      BY <1>3, <3>3
    <3> QED
      BY <1>4, <1>9, <2>1, <3>1, <3>4
  <2>3. CASE i > Len(x)
    <3>1. PICK j \in 1 .. Len(y) : i = 2 * k + j
      <4>1. i - 2 * k \in 1 .. Len(y) /\ i = 2 * k + (i - 2 * k)
        BY <1>8, <2>3
      <4> QED
        BY <4>1
    <3>2. c(i) = Len(a) + c(j) /\ i % 2 = j % 2
      <4>1. j \in Nat \ {0}
        BY <1>8
      <4> QED
        BY <1>8, <3>1, <4>1, Shifted DEF c
    <3>3. c(j) \in Nat /\ c(j) + 3 <= Len(b)
      BY <1>7
    <3>4. /\ c(j) + 1 \in 1 .. Len(b) /\ c(j) + 2 \in 1 .. Len(b) /\ c(j) + 3 \in 1 .. Len(b)
          /\ c(i) + 1 = Len(a) + (c(j) + 1) /\ c(i) + 2 = Len(a) + (c(j) + 2)
          /\ c(i) + 3 = Len(a) + (c(j) + 3)
      <4>1. c(j) + 1 \in 1 .. Len(b) /\ c(j) + 2 \in 1 .. Len(b) /\ c(j) + 3 \in 1 .. Len(b)
        BY <1>0, <3>3, NextThree
      <4>2. /\ Len(a) + c(j) + 1 = Len(a) + (c(j) + 1) /\ Len(a) + c(j) + 2 = Len(a) + (c(j) + 2)
            /\ Len(a) + c(j) + 3 = Len(a) + (c(j) + 3)
        BY <1>0, <3>3, NextThree
      <4> QED
        BY <3>2, <4>1, <4>2
    <3>5. /\ all[c(i) + 1] = b[c(j) + 1] /\ all[c(i) + 2] = b[c(j) + 2]
          /\ all[c(i) + 3] = b[c(j) + 3]
      <4>1. /\ all[Len(a) + (c(j) + 1)] = b[c(j) + 1] /\ all[Len(a) + (c(j) + 2)] = b[c(j) + 2]
            /\ all[Len(a) + (c(j) + 3)] = b[c(j) + 3]
        BY <1>3, <3>4
      <4> QED
        BY <3>4, <4>1
    <3>6. OfThree(i, b[c(j) + 1], b[c(j) + 2], b[c(j) + 3]) = y[j]
      BY <1>5, <3>2 DEF OfThree
    <3>7. (x \o y)[i] = y[j]
      BY <1>8, <1>9, <3>1
    <3> QED
      BY <2>1, <3>5, <3>6, <3>7
  <2>4. i <= Len(x) \/ i > Len(x)
    BY <1>8
  <2> QED
    BY <2>2, <2>3, <2>4
<1>11. z = x \o y
  <2>1. z \in Seq(Int) /\ x \o y \in Seq(Int) /\ Len(z) = Len(x \o y)
    BY <1>6, <1>8, <1>9
  <2> QED
    BY <1>10, <2>1, SeqEqual
<1> QED
  BY <1>1, <1>2, <1>11

LEMMA DownsampleOfWhole ==
  ASSUME NEW s \in Seq(Int)
  PROVE  Downsample(SubSeq(s, 1, Whole(s, 3))) = Downsample(s)
<1>1. PICK a, b : a = SubSeq(s, 1, Whole(s, 3)) /\ b = Rest(s, Whole(s, 3))
  OBVIOUS
<1>2. a \in Seq(Int) /\ b \in Seq(Int) /\ Len(a) % 3 = 0 /\ Len(b) < 3 /\ s = a \o b
  BY <1>1, Triples
<1>3. Downsample(b) = <<>> /\ Downsample(a) \in Seq(Int)
  BY <1>2, DownsampleShort, DownsampleType
<1>4. Downsample(s) = Downsample(a) \o Downsample(b)
  BY <1>2, DownsampleJoined
<1>5. Downsample(a) \o <<>> = Downsample(a)
  BY <1>3, ConcatEmptySeq
<1> QED
  BY <1>1, <1>3, <1>4, <1>5

LEMMA RestShort ==
  ASSUME NEW s \in Seq(Int), Len(s) < 3
  PROVE  Rest(s, Whole(s, 3)) = s
<1>1. Len(s) \in Nat
  OBVIOUS
<1>2. Whole(s, 3) = 0
  BY <1>1 DEF Whole
<1>3. SubSeq(s, 1, Len(s)) = s
  OBVIOUS
<1> QED
  BY <1>2, <1>3 DEF Rest

LEMMA RestOfPairs ==
  ASSUME NEW s \in Seq(0 .. 255), NEW t \in Seq(0 .. 255), Len(s) % 2 = 0
  PROVE  Rest(s \o t, Whole(s \o t, 2)) = Rest(t, Whole(t, 2))
<1>1. PICK n : n = 2
  OBVIOUS
<1>2. n \in {2, 3} /\ Len(s) % n = 0
  BY <1>1
<1>3. Rest(s \o t, Whole(s \o t, n)) = Rest(t, Whole(t, n))
  BY <1>2, RestJoined
<1> QED
  BY <1>1, <1>3

LEMMA RestOfTriples ==
  ASSUME NEW s \in Seq(Int), NEW t \in Seq(Int), Len(s) % 3 = 0
  PROVE  Rest(s \o t, Whole(s \o t, 3)) = Rest(t, Whole(t, 3))
<1>1. PICK n : n = 3
  OBVIOUS
<1>2. n \in {2, 3} /\ Len(s) % n = 0
  BY <1>1
<1>3. Rest(s \o t, Whole(s \o t, n)) = Rest(t, Whole(t, n))
  BY <1>2, RestJoined
<1> QED
  BY <1>1, <1>3

LEMMA Reassociate ==
  ASSUME NEW S, NEW a \in Seq(S), NEW b \in Seq(S), NEW c \in Seq(S)
  PROVE  (a \o b) \o c = a \o (b \o c)
BY ConcatAssociative

LEMMA ReassociateInts ==
  ASSUME NEW a \in Seq(Int), NEW b \in Seq(Int), NEW c \in Seq(Int)
  PROVE  (a \o b) \o c = a \o (b \o c)
BY Reassociate

LEMMA SamplesContinue ==
  ASSUME NEW before \in Seq(Int), NEW in \in Seq(Int)
  PROVE  LET all == Rest(before, Whole(before, 3)) \o in
             whole == before \o in
         IN /\ Downsample(whole) = Downsample(before) \o Downsample(all)
            /\ Rest(whole, Whole(whole, 3)) = Rest(all, Whole(all, 3))
            /\ all \in Seq(Int) /\ whole \in Seq(Int)
<1>1. PICK a, b : a = SubSeq(before, 1, Whole(before, 3)) /\ b = Rest(before, Whole(before, 3))
  OBVIOUS
<1>2. a \in Seq(Int) /\ b \in Seq(Int) /\ Len(a) % 3 = 0
  BY <1>1, Triples
<1>3. before = a \o b
  BY <1>1, Triples
<1>4. b \o in \in Seq(Int) /\ before \o in \in Seq(Int) /\ (a \o b) \o in = a \o (b \o in)
  <2>1. (a \o b) \o in = a \o (b \o in)
    <3>1. a \in Seq(Int) /\ b \in Seq(Int)
      BY <1>2
    <3> QED
      BY <3>1, ReassociateInts, Zenon
  <2>2. b \o in \in Seq(Int) /\ before \o in \in Seq(Int)
    BY <1>2
  <2> QED
    BY <2>1, <2>2
<1>5. PICK all, whole : all = b \o in /\ whole = before \o in
  OBVIOUS
<1>6. all \in Seq(Int) /\ whole \in Seq(Int)
  BY <1>4, <1>5
<1>7. whole = a \o all
  BY <1>3, <1>4, <1>5
<1>8. Downsample(a) = Downsample(before)
  BY <1>1, DownsampleOfWhole
<1>9. Rest(a \o all, Whole(a \o all, 3)) = Rest(all, Whole(all, 3))
  BY <1>2, <1>6, RestOfTriples
<1>10. Downsample(a \o all) = Downsample(a) \o Downsample(all)
  BY <1>2, <1>6, DownsampleJoined
<1> QED
  BY <1>1, <1>5, <1>6, <1>7, <1>8, <1>9, <1>10

(* What the resampler makes of a piece, after pieces of which buf is left over.   *)
LEMMA ProcessContinues ==
  ASSUME NEW before \in Seq(Int), NEW in \in Seq(Int)
  PROVE  LET r == Process(Rest(before, Whole(before, 3)), in)
             whole == before \o in
         IN /\ Downsample(whole) = Downsample(before) \o r.out
            /\ r.buf = Rest(whole, Whole(whole, 3))
            /\ r.out \in Seq(Int) /\ r.buf \in Seq(Int)
<1>0. PICK buf, whole : buf = Rest(before, Whole(before, 3)) /\ whole = before \o in
  OBVIOUS
<1>1. buf \in Seq(Int) /\ Len(buf) < 3
  BY <1>0, Triples
<1>2. PICK all : all = buf \o in
  OBVIOUS
<1>3. /\ Downsample(whole) = Downsample(before) \o Downsample(all)
      /\ Rest(whole, Whole(whole, 3)) = Rest(all, Whole(all, 3)) /\ all \in Seq(Int)
  <2>1. /\ Downsample(before \o in) =
              Downsample(before) \o Downsample(Rest(before, Whole(before, 3)) \o in)
        /\ Rest(before \o in, Whole(before \o in, 3)) =
              Rest(Rest(before, Whole(before, 3)) \o in, Whole(Rest(before, Whole(before, 3)) \o in, 3))
        /\ Rest(before, Whole(before, 3)) \o in \in Seq(Int)
    BY SamplesContinue
  <2> QED
    BY <1>0, <1>2, <2>1
<1>4. /\ Process(buf, in).out = Downsample(all)
      /\ Process(buf, in).buf = Rest(all, Whole(all, 3))
  <2>1. CASE in = <<>> \/ Len(all) < 3
    <3>1. Len(all) < 3
      <4>1. CASE in = <<>>
        BY <1>1, <1>2, <4>1, ConcatEmptySeq
      <4> QED
        BY <2>1, <4>1
    <3>2. Downsample(all) = <<>> /\ Rest(all, Whole(all, 3)) = all
      BY <1>3, <3>1, DownsampleShort, RestShort
    <3>3. Process(buf, in) = [out |-> <<>>, buf |-> all]
      BY <1>2, <2>1 DEF Process
    <3> QED
      BY <3>2, <3>3
  <2>2. CASE ~(in = <<>> \/ Len(all) < 3)
    <3>1. Process(buf, in) = [out |-> Downsample(all), buf |-> Rest(all, Whole(all, 3))]
      BY <1>2, <2>2 DEF Process
    <3> QED
      BY <3>1
  <2> QED
    BY <2>1, <2>2
<1>5. Downsample(all) \in Seq(Int)
  BY <1>3, DownsampleType
<1>6. Rest(all, Whole(all, 3)) \in Seq(Int)
  BY <1>3, Triples
<1> QED
  BY <1>0, <1>3, <1>4, <1>5, <1>6

LEMMA ResampleWhole ==
  ASSUME NEW s \in Seq(Int)
  PROVE  Resample24kTo16k(SubSeq(s, 1, Whole(s, 3))) = Downsample(s)
<1>1. PICK a : a = SubSeq(s, 1, Whole(s, 3))
  OBVIOUS
<1>2. a \in Seq(Int) /\ <<>> \o a = a
  <2>1. a \in Seq(Int)
    BY <1>1, Triples
  <2> QED
    BY <2>1, ConcatEmptySeq
<1>3. Downsample(a) = Downsample(s)
  BY <1>1, DownsampleOfWhole
<1>4. CASE a = <<>> \/ Len(a) < 3
  <2>1. Len(a) < 3
    BY <1>4
  <2>2. Downsample(a) = <<>>
    BY <1>2, <2>1, DownsampleShort
  <2>3. Process(<<>>, a) = [out |-> <<>>, buf |-> a]
    BY <1>2, <1>4 DEF Process
  <2> QED
    BY <1>1, <1>3, <2>2, <2>3 DEF Resample24kTo16k
<1>5. CASE ~(a = <<>> \/ Len(a) < 3)
  <2>1. Process(<<>>, a) = [out |-> Downsample(a), buf |-> Rest(a, Whole(a, 3))]
    BY <1>2, <1>5 DEF Process
  <2> QED
    BY <1>1, <1>3, <2>1 DEF Resample24kTo16k
<1> QED
  BY <1>4, <1>5

-----------------------------------------------------------------------------
(* The two readers.                                                            *)

LEMMA BytesContinue ==
  ASSUME NEW before \in Seq(0 .. 255), NEW in \in Seq(0 .. 255)
  PROVE  LET all == Rest(before, Whole(before, 2)) \o in
             whole == before \o in
         IN /\ PCMInt16LEToFloat32(whole) = PCMInt16LEToFloat32(before) \o PCMInt16LEToFloat32(all)
            /\ Rest(whole, Whole(whole, 2)) = Rest(all, Whole(all, 2))
            /\ all \in Seq(0 .. 255) /\ whole \in Seq(0 .. 255)
<1>1. PICK a, b : a = SubSeq(before, 1, Whole(before, 2)) /\ b = Rest(before, Whole(before, 2))
  OBVIOUS
<1>2. a \in Seq(0 .. 255) /\ b \in Seq(0 .. 255) /\ Len(a) % 2 = 0
  BY <1>1, Pairs
<1>3. before = a \o b
  BY <1>1, Pairs
<1>4. b \o in \in Seq(0 .. 255) /\ before \o in \in Seq(0 .. 255) /\ (a \o b) \o in = a \o (b \o in)
  <2>1. (a \o b) \o in = a \o (b \o in)
    <3>1. a \in Seq(0 .. 255) /\ b \in Seq(0 .. 255)
      BY <1>2
    <3> QED
      BY <3>1, Reassociate
  <2>2. b \o in \in Seq(0 .. 255) /\ before \o in \in Seq(0 .. 255)
    BY <1>2
  <2> QED
    BY <2>1, <2>2
<1>5. PICK all, whole : all = b \o in /\ whole = before \o in
  OBVIOUS
<1>6. all \in Seq(0 .. 255) /\ whole \in Seq(0 .. 255)
  BY <1>4, <1>5
<1>7. whole = a \o all
  BY <1>3, <1>4, <1>5
<1>8. PCMInt16LEToFloat32(a) = PCMInt16LEToFloat32(before)
  BY <1>1, PcmOfWhole
<1>9. Rest(a \o all, Whole(a \o all, 2)) = Rest(all, Whole(all, 2))
  BY <1>2, <1>6, RestOfPairs
<1>10. PCMInt16LEToFloat32(a \o all) = PCMInt16LEToFloat32(a) \o PCMInt16LEToFloat32(all)
  BY <1>2, <1>6, PcmJoined
<1> QED
  BY <1>1, <1>5, <1>6, <1>7, <1>8, <1>9, <1>10

LEMMA PcmShort ==
  ASSUME NEW bs \in Seq(0 .. 255), Len(bs) < 2
  PROVE  PCMInt16LEToFloat32(bs) = <<>> /\ Rest(bs, Whole(bs, 2)) = bs
<1>1. Len(bs) \in Nat
  OBVIOUS
<1>2. Len(bs) \div 2 = 0 /\ Whole(bs, 2) = 0
  BY <1>1 DEF Whole
<1>3. PCMInt16LEToFloat32(bs) \in Seq(Int) /\ Len(PCMInt16LEToFloat32(bs)) = Len(bs) \div 2
  BY PcmType
<1>4. PCMInt16LEToFloat32(bs) = <<>>
  BY <1>2, <1>3, EmptySeq
<1>5. SubSeq(bs, 1, Len(bs)) = bs
  OBVIOUS
<1> QED
  BY <1>2, <1>4, <1>5 DEF Rest

Directs == [rate : {16000, 24000}, bytes : Seq(0 .. 255), samples : Seq(Int), queue : Seq(Int)]

LEMMA Made ==
  ASSUME NEW r \in {16000, 24000}, NEW b \in Seq(0 .. 255), NEW m \in Seq(Int), NEW q \in Seq(Int),
         NEW t, t = [rate |-> r, bytes |-> b, samples |-> m, queue |-> q]
  PROVE  t \in Directs /\ t.rate = r /\ t.bytes = b /\ t.samples = m /\ t.queue = q
BY DEF Directs

LEMMA AudioShort ==
  ASSUME NEW s, NEW in, in = <<>> \/ Len(s.bytes \o in) < 2
  PROVE  ReadAudio(s, in) = Fed(s, s.bytes \o in, s.samples, <<>>)
BY DEF ReadAudio

LEMMA AudioAtOwnRate ==
  ASSUME NEW s, NEW in, ~(in = <<>> \/ Len(s.bytes \o in) < 2), s.rate # 24000
  PROVE  LET all == s.bytes \o in IN
         ReadAudio(s, in) = Fed(s, Rest(all, Whole(all, 2)), s.samples, PCMInt16LEToFloat32(all))
BY DEF ReadAudio, OddByte

LEMMA AudioResampled ==
  ASSUME NEW s, NEW in, ~(in = <<>> \/ Len(s.bytes \o in) < 2), s.rate = 24000
  PROVE  LET all == s.bytes \o in
             samples == s.samples \o PCMInt16LEToFloat32(all)
         IN ReadAudio(s, in) = Fed(s, Rest(all, Whole(all, 2)), Rest(samples, Whole(samples, 3)),
                                   Resample24kTo16k(SubSeq(samples, 1, Whole(samples, 3))))
BY DEF ReadAudio, OddByte

(* What a reader of the websocket holds after the bytes that came.              *)
Heard(s, bytes) ==
  LET pcm == PCMInt16LEToFloat32(bytes) IN
  /\ s \in Directs
  /\ s.bytes = Rest(bytes, Whole(bytes, 2))
  /\ s.samples = IF s.rate = 24000 THEN Rest(pcm, Whole(pcm, 3)) ELSE <<>>
  /\ s.queue = IF s.rate = 24000 THEN Downsample(pcm) ELSE pcm

LEMMA AudioHeard ==
  ASSUME NEW s, NEW before \in Seq(0 .. 255), Heard(s, before), NEW in \in Seq(0 .. 255)
  PROVE  Heard(ReadAudio(s, in), before \o in)
<1>1. PICK all, whole, pcm, heard, after, samples :
        /\ all = s.bytes \o in /\ whole = before \o in
        /\ pcm = PCMInt16LEToFloat32(all) /\ heard = PCMInt16LEToFloat32(before)
        /\ after = PCMInt16LEToFloat32(whole) /\ samples = s.samples \o pcm
  OBVIOUS
<1>2. s \in Directs /\ s.bytes = Rest(before, Whole(before, 2))
  BY <1>1 DEF Heard
<1>3. /\ s.samples = IF s.rate = 24000 THEN Rest(heard, Whole(heard, 3)) ELSE <<>>
      /\ s.queue = IF s.rate = 24000 THEN Downsample(heard) ELSE heard
  BY <1>1 DEF Heard
<1>4. /\ after = heard \o pcm /\ Rest(whole, Whole(whole, 2)) = Rest(all, Whole(all, 2))
      /\ all \in Seq(0 .. 255) /\ whole \in Seq(0 .. 255)
  <2>1. all = Rest(before, Whole(before, 2)) \o in
    BY <1>1, <1>2
  <2>2. /\ PCMInt16LEToFloat32(before \o in) =
              PCMInt16LEToFloat32(before) \o PCMInt16LEToFloat32(Rest(before, Whole(before, 2)) \o in)
        /\ Rest(before \o in, Whole(before \o in, 2)) =
              Rest(Rest(before, Whole(before, 2)) \o in, Whole(Rest(before, Whole(before, 2)) \o in, 2))
        /\ Rest(before, Whole(before, 2)) \o in \in Seq(0 .. 255) /\ before \o in \in Seq(0 .. 255)
    BY BytesContinue
  <2> QED
    BY <1>1, <2>1, <2>2
<1>5. heard \in Seq(Int) /\ pcm \in Seq(Int) /\ s.samples \in Seq(Int) /\ <<>> \in Seq(Int)
  <2>1. heard \in Seq(Int) /\ pcm \in Seq(Int)
    BY <1>1, <1>4, PcmType
  <2> QED
    BY <1>2, <2>1 DEF Directs
<1>6. PICK left : left = Rest(all, Whole(all, 2))
  OBVIOUS
<1>7. left \in Seq(0 .. 255) /\ left = Rest(whole, Whole(whole, 2))
  BY <1>4, <1>6, Pairs
<1>8. CASE in = <<>> \/ Len(all) < 2
  <2>1. Len(all) < 2
    <3>1. CASE in = <<>>
      <4>1. s.bytes \in Seq(0 .. 255) /\ Len(s.bytes) < 2
        BY <1>2, Pairs
      <4>2. s.bytes \o <<>> = s.bytes
        BY <4>1, ConcatEmptySeq
      <4> QED
        BY <1>1, <3>1, <4>1, <4>2
    <3> QED
      BY <1>8, <3>1
  <2>2. pcm = <<>> /\ left = all
    BY <1>1, <1>4, <1>6, <2>1, PcmShort
  <2>3. after = heard
    <3>1. heard \o <<>> = heard
      BY <1>5, ConcatEmptySeq
    <3> QED
      BY <1>4, <2>2, <3>1
  <2>4. ReadAudio(s, in) = Fed(s, all, s.samples, <<>>)
    <3>1. in = <<>> \/ Len(s.bytes \o in) < 2
      BY <1>1, <1>8
    <3>2. ReadAudio(s, in) = Fed(s, s.bytes \o in, s.samples, <<>>)
      BY <3>1, AudioShort
    <3>3. all = s.bytes \o in
      BY <1>1
    <3> QED
      BY <3>2, <3>3
  <2>5. PICK t : t = Fed(s, all, s.samples, <<>>)
    OBVIOUS
  <2>6. /\ t \in Directs /\ t.bytes = all /\ t.rate = s.rate /\ t.samples = s.samples
        /\ t.queue = s.queue \o <<>>
    <3>1. PICK r, m, q : r = s.rate /\ m = s.samples /\ q = s.queue \o <<>>
      OBVIOUS
    <3>2. t = [rate |-> r, bytes |-> all, samples |-> m, queue |-> q]
      BY <2>5, <3>1 DEF Fed
    <3>3. r \in {16000, 24000} /\ all \in Seq(0 .. 255) /\ m \in Seq(Int) /\ s.queue \in Seq(Int)
      BY <1>2, <1>4, <1>5, <3>1 DEF Directs
    <3>4. <<>> \in Seq(Int)
      BY <1>2, <1>4, <1>5
    <3>5. q \in Seq(Int)
      BY <3>1, <3>3, <3>4
    <3>6. t \in Directs /\ t.rate = r /\ t.bytes = all /\ t.samples = m /\ t.queue = q
      BY <3>2, <3>3, <3>5, Made
    <3> QED
      BY <3>1, <3>6
  <2>7. t.queue = s.queue
    <3>1. s.queue \in Seq(Int)
      BY <1>2 DEF Directs
    <3>2. s.queue \o <<>> = s.queue
      BY <3>1, ConcatEmptySeq
    <3> QED
      BY <2>6, <3>2
  <2>8. Heard(t, whole)
    BY <1>1, <1>3, <1>7, <2>2, <2>3, <2>6, <2>7 DEF Heard
  <2> QED
    BY <1>1, <2>4, <2>5, <2>8
<1>9. CASE ~(in = <<>> \/ Len(all) < 2) /\ s.rate = 24000
  <2>1. /\ Downsample(after) = Downsample(heard) \o Downsample(samples)
        /\ Rest(after, Whole(after, 3)) = Rest(samples, Whole(samples, 3))
        /\ samples \in Seq(Int)
    <3>1. samples = Rest(heard, Whole(heard, 3)) \o pcm
      BY <1>1, <1>3, <1>9
    <3>2. /\ Downsample(heard \o pcm) =
                Downsample(heard) \o Downsample(Rest(heard, Whole(heard, 3)) \o pcm)
          /\ Rest(heard \o pcm, Whole(heard \o pcm, 3)) =
                Rest(Rest(heard, Whole(heard, 3)) \o pcm, Whole(Rest(heard, Whole(heard, 3)) \o pcm, 3))
          /\ Rest(heard, Whole(heard, 3)) \o pcm \in Seq(Int)
      BY <1>5, SamplesContinue
    <3> QED
      BY <1>4, <3>1, <3>2
  <2>2. PICK rest, audio : rest = Rest(samples, Whole(samples, 3)) /\ audio = Downsample(samples)
    OBVIOUS
  <2>3. rest \in Seq(Int) /\ audio \in Seq(Int)
    BY <2>1, <2>2, Triples, DownsampleType
  <2>4. ReadAudio(s, in) = Fed(s, left, rest, audio)
    <3>1. Resample24kTo16k(SubSeq(samples, 1, Whole(samples, 3))) = audio
      BY <2>1, <2>2, ResampleWhole
    <3>2. ~(in = <<>> \/ Len(s.bytes \o in) < 2) /\ s.rate = 24000
      BY <1>1, <1>9
    <3>3. LET a == s.bytes \o in
              t == s.samples \o PCMInt16LEToFloat32(a)
          IN ReadAudio(s, in) = Fed(s, Rest(a, Whole(a, 2)), Rest(t, Whole(t, 3)),
                                    Resample24kTo16k(SubSeq(t, 1, Whole(t, 3))))
      BY <3>2, AudioResampled
    <3>4. ReadAudio(s, in) = Fed(s, Rest(all, Whole(all, 2)), Rest(samples, Whole(samples, 3)),
                                 Resample24kTo16k(SubSeq(samples, 1, Whole(samples, 3))))
      BY <1>1, <3>3
    <3> QED
      BY <1>6, <2>2, <3>1, <3>4
  <2>5. PICK t : t = Fed(s, left, rest, audio)
    OBVIOUS
  <2>6. /\ t \in Directs /\ t.bytes = left /\ t.rate = s.rate /\ t.samples = rest
        /\ t.queue = s.queue \o audio
    <3>1. PICK r, m, q : r = s.rate /\ m = rest /\ q = s.queue \o audio
      OBVIOUS
    <3>2. t = [rate |-> r, bytes |-> left, samples |-> m, queue |-> q]
      BY <2>5, <3>1 DEF Fed
    <3>3. r \in {16000, 24000} /\ left \in Seq(0 .. 255) /\ m \in Seq(Int) /\ s.queue \in Seq(Int)
      BY <1>2, <1>7, <2>3, <3>1 DEF Directs
    <3>4. audio \in Seq(Int)
      BY <1>2, <1>7, <2>3
    <3>5. q \in Seq(Int)
      BY <3>1, <3>3, <3>4
    <3>6. t \in Directs /\ t.rate = r /\ t.bytes = left /\ t.samples = m /\ t.queue = q
      BY <3>2, <3>3, <3>5, Made
    <3> QED
      BY <3>1, <3>6
  <2>7. t.queue = Downsample(after) /\ t.samples = Rest(after, Whole(after, 3))
    BY <1>3, <1>9, <2>1, <2>2, <2>6
  <2>8. Heard(t, whole)
    <3>1. after = PCMInt16LEToFloat32(whole) /\ t.rate = 24000
      BY <1>1, <1>9, <2>6
    <3>2. t \in Directs /\ t.bytes = Rest(whole, Whole(whole, 2))
      BY <1>7, <2>6
    <3> QED
      BY <2>7, <3>1, <3>2 DEF Heard
  <2> QED
    BY <1>1, <2>4, <2>5, <2>8
<1>10. CASE ~(in = <<>> \/ Len(all) < 2) /\ s.rate # 24000
  <2>1. ReadAudio(s, in) = Fed(s, left, s.samples, pcm)
    <3>1. ~(in = <<>> \/ Len(s.bytes \o in) < 2) /\ s.rate # 24000
      BY <1>1, <1>10
    <3>2. LET a == s.bytes \o in IN
          ReadAudio(s, in) = Fed(s, Rest(a, Whole(a, 2)), s.samples, PCMInt16LEToFloat32(a))
      BY <3>1, AudioAtOwnRate
    <3> QED
      BY <1>1, <1>6, <3>2
  <2>2. PICK t : t = Fed(s, left, s.samples, pcm)
    OBVIOUS
  <2>3. /\ t \in Directs /\ t.bytes = left /\ t.rate = s.rate /\ t.samples = s.samples
        /\ t.queue = s.queue \o pcm
    <3>1. PICK r, m, q : r = s.rate /\ m = s.samples /\ q = s.queue \o pcm
      OBVIOUS
    <3>2. t = [rate |-> r, bytes |-> left, samples |-> m, queue |-> q]
      BY <2>2, <3>1 DEF Fed
    <3>3. r \in {16000, 24000} /\ left \in Seq(0 .. 255) /\ m \in Seq(Int) /\ s.queue \in Seq(Int)
      BY <1>2, <1>5, <1>7, <3>1 DEF Directs
    <3>4. pcm \in Seq(Int)
      BY <1>2, <1>5, <1>7
    <3>5. q \in Seq(Int)
      BY <3>1, <3>3, <3>4
    <3>6. t \in Directs /\ t.rate = r /\ t.bytes = left /\ t.samples = m /\ t.queue = q
      BY <3>2, <3>3, <3>5, Made
    <3> QED
      BY <3>1, <3>6
  <2>4. t.queue = after
    BY <1>3, <1>4, <1>10, <2>3
  <2>5. Heard(t, whole)
    BY <1>1, <1>3, <1>7, <1>10, <2>3, <2>4 DEF Heard
  <2> QED
    BY <1>1, <2>1, <2>2, <2>5
<1> QED
  BY <1>8, <1>9, <1>10

(* What the reader of the agent's messages holds after the bytes spoken.          *)
Said(v, bytes) ==
  LET pcm == PCMInt16LEToFloat32(bytes) IN
  /\ v \in [buf : Seq(Int), queue : Seq(Int)]
  /\ v.buf = Rest(pcm, Whole(pcm, 3))
  /\ v.queue = Downsample(pcm)
  /\ Len(bytes) % 2 = 0

LEMMA EvenSum ==
  ASSUME NEW x \in Nat, NEW y \in Nat, x % 2 = 0, y % 2 = 0
  PROVE  (x + y) % 2 = 0
OBVIOUS

LEMMA PartSaid ==
  ASSUME NEW v, NEW before \in Seq(0 .. 255), Said(v, before),
         NEW in \in Seq(0 .. 255), Len(in) % 2 = 0,
         NEW r, r = Process(v.buf, PCMInt16LEToFloat32(in))
  PROVE  Said([buf |-> r.buf, queue |-> v.queue \o r.out], before \o in)
<1>1. PICK whole, pcm, said, after :
        /\ whole = before \o in /\ pcm = PCMInt16LEToFloat32(in)
        /\ said = PCMInt16LEToFloat32(before) /\ after = PCMInt16LEToFloat32(whole)
  OBVIOUS
<1>2. /\ v.queue \in Seq(Int) /\ v.buf = Rest(said, Whole(said, 3))
      /\ v.queue = Downsample(said) /\ Len(before) % 2 = 0
  BY <1>1 DEF Said
<1>3. said \in Seq(Int) /\ pcm \in Seq(Int)
  BY <1>1, PcmType
<1>4. after = said \o pcm
  BY <1>1, <1>2, PcmJoined
<1>5. Len(whole) % 2 = 0
  <2>1. Len(before \o in) = Len(before) + Len(in) /\ Len(before) \in Nat /\ Len(in) \in Nat
    OBVIOUS
  <2>2. Len(before) % 2 = 0 /\ Len(whole) = Len(before \o in)
    BY <1>1, <1>2
  <2> QED
    BY <2>1, <2>2, EvenSum
<1>6. /\ Downsample(after) = Downsample(said) \o r.out
      /\ r.buf = Rest(after, Whole(after, 3)) /\ r.out \in Seq(Int) /\ r.buf \in Seq(Int)
  <2>1. PICK buf : buf = Rest(said, Whole(said, 3))
    OBVIOUS
  <2>2. /\ Downsample(said \o pcm) = Downsample(said) \o Process(buf, pcm).out
        /\ Process(buf, pcm).buf = Rest(said \o pcm, Whole(said \o pcm, 3))
        /\ Process(buf, pcm).out \in Seq(Int) /\ Process(buf, pcm).buf \in Seq(Int)
    <3>1. said \in Seq(Int) /\ pcm \in Seq(Int)
      BY <1>3
    <3>2. LET q == Process(Rest(said, Whole(said, 3)), pcm)
              whole3 == said \o pcm
          IN /\ Downsample(whole3) = Downsample(said) \o q.out
             /\ q.buf = Rest(whole3, Whole(whole3, 3))
             /\ q.out \in Seq(Int) /\ q.buf \in Seq(Int)
      BY <3>1, ProcessContinues
    <3> QED
      BY <2>1, <3>2
  <2>3. r = Process(buf, pcm)
    BY <1>1, <1>2, <2>1
  <2> QED
    BY <1>4, <2>2, <2>3
<1>7. v.queue \o r.out \in Seq(Int)
  BY <1>2, <1>6
<1> QED
  BY <1>1, <1>2, <1>5, <1>6, <1>7 DEF Said

LEMMA NothingYet ==
  /\ \A rate \in {16000, 24000} : Heard(NewDirect(rate), <<>>)
  /\ Said(NewVoice, <<>>)
  /\ <<>> \in Seq(0 .. 255)
<1>1. <<>> \in Seq(0 .. 255) /\ <<>> \in Seq(Int) /\ Len(<<>>) = 0
  OBVIOUS
<1>2. PCMInt16LEToFloat32(<<>>) = <<>> /\ Rest(<<>>, Whole(<<>>, 2)) = <<>>
  <2>1. Len(<<>>) < 2
    BY <1>1
  <2> QED
    BY <1>1, <2>1, PcmShort
<1>3. Downsample(<<>>) = <<>> /\ Rest(<<>>, Whole(<<>>, 3)) = <<>>
  <2>1. Len(<<>>) < 3
    BY <1>1
  <2> QED
    BY <1>1, <2>1, DownsampleShort, RestShort
<1>4. \A rate \in {16000, 24000} : Heard(NewDirect(rate), <<>>)
  BY <1>1, <1>2, <1>3 DEF Heard, Directs, NewDirect
<1>5. Said(NewVoice, <<>>)
  BY <1>1, <1>2, <1>3 DEF Said, NewVoice
<1> QED
  BY <1>1, <1>4, <1>5

LEMMA StreamParts ==
  StreamInv <=> /\ came \in Seq(0 .. 255) /\ spoken \in Seq(0 .. 255)
                /\ Heard(direct, came) /\ Said(voice, spoken)
BY DEF StreamInv, StreamTypeOK, LeftOver, CutsInaudible, Heard, Said, Directs

(* What is left over and what was fed, together, are inductive.                    *)
LEMMA StreamHolds == StreamSpec => []StreamInv
<1>1. StreamInit => StreamInv
  <2> SUFFICES ASSUME StreamInit PROVE StreamInv
    OBVIOUS
  <2>1. Heard(direct, came) /\ Said(voice, spoken) /\ came \in Seq(0 .. 255) /\ spoken \in Seq(0 .. 255)
    BY NothingYet DEF StreamInit
  <2> QED
    BY <2>1, StreamParts
<1>2. StreamInv /\ [StreamNext]_streamVars => StreamInv'
  <2> SUFFICES ASSUME StreamInv, [StreamNext]_streamVars PROVE StreamInv'
    OBVIOUS
  <2>0. /\ came \in Seq(0 .. 255) /\ spoken \in Seq(0 .. 255)
        /\ Heard(direct, came) /\ Said(voice, spoken)
    BY StreamParts
  <2>1. ASSUME NEW m \in Message, ReadMessage(m)
        PROVE  Heard(direct', came') /\ came' \in Seq(0 .. 255) /\ UNCHANGED <<voice, spoken>>
    <3>1. CASE m.kind = "clear" /\ direct' = NewDirect(direct.rate) /\ came' = <<>>
      <4>1. direct.rate \in {16000, 24000}
        BY <2>0 DEF Heard, Directs
      <4> QED
        BY <2>1, <3>1, <4>1, NothingYet DEF ReadMessage
    <3>2. CASE m.kind = "audio" /\ direct' = ReadAudio(direct, m.bytes) /\ came' = came \o m.bytes
      <4>1. m.bytes \in Seq(0 .. 255)
        BY DEF Message
      <4>2. Heard(ReadAudio(direct, m.bytes), came \o m.bytes)
        BY <2>0, <4>1, AudioHeard
      <4>3. came \o m.bytes \in Seq(0 .. 255)
        BY <2>0, <4>1
      <4> QED
        BY <2>1, <3>2, <4>2, <4>3 DEF ReadMessage
    <3>3. CASE m.kind = "other" /\ UNCHANGED <<direct, came>>
      BY <2>0, <2>1, <3>3 DEF ReadMessage
    <3> QED
      BY <2>1, <3>1, <3>2, <3>3 DEF ReadMessage
  <2>2. ASSUME NEW m \in Message, ReadPart(m)
        PROVE  Said(voice', spoken') /\ spoken' \in Seq(0 .. 255) /\ UNCHANGED <<direct, came>>
    <3>1. CASE m.kind = "clear" /\ voice' = NewVoice /\ spoken' = <<>>
      BY <2>2, <3>1, NothingYet DEF ReadPart
    <3>2. CASE m.kind = "audio"
      <4>1. m.bytes \in Seq(0 .. 255)
        BY DEF Message
      <4>2. PICK r : r = Process(voice.buf, PCMInt16LEToFloat32(m.bytes))
        OBVIOUS
      <4>3. /\ Len(m.bytes) % 2 = 0 /\ voice' = [buf |-> r.buf, queue |-> voice.queue \o r.out]
            /\ spoken' = spoken \o m.bytes /\ UNCHANGED <<direct, came>>
        BY <2>2, <3>2, <4>2 DEF ReadPart
      <4>4. Said([buf |-> r.buf, queue |-> voice.queue \o r.out], spoken \o m.bytes)
        BY <2>0, <4>1, <4>2, <4>3, PartSaid
      <4>5. spoken \o m.bytes \in Seq(0 .. 255)
        BY <2>0, <4>1
      <4> QED
        BY <4>3, <4>4, <4>5
    <3>3. CASE m.kind = "other"
      BY <2>0, <2>2, <3>3 DEF ReadPart
    <3> QED
      BY <2>2, <3>1, <3>2, <3>3 DEF ReadPart
  <2>3. CASE UNCHANGED streamVars
    BY <2>3 DEF StreamInv, StreamTypeOK, LeftOver, CutsInaudible, streamVars
  <2>4. CASE StreamNext
    <3>1. PICK m \in Message : ReadMessage(m) \/ ReadPart(m)
      BY <2>4 DEF StreamNext
    <3>2. /\ came' \in Seq(0 .. 255) /\ spoken' \in Seq(0 .. 255)
          /\ Heard(direct', came') /\ Said(voice', spoken')
      BY <2>0, <2>1, <2>2, <3>1
    <3> QED
      BY <3>2 DEF StreamInv, StreamTypeOK, LeftOver, CutsInaudible, Heard, Said, Directs
  <2> QED
    BY <2>3, <2>4
<1> QED
  BY <1>1, <1>2, PTL DEF StreamSpec

(* The readers of the audio hold bytes, samples and queues of samples, whatever     *)
(* messages came: every step of both is defined on what it may find.             *)
THEOREM StreamTypes == StreamSpec => []StreamTypeOK
BY StreamHolds, PTL DEF StreamInv

(* However the websocket's client and the live agent cut their audio, the call is *)
(* fed the samples that the whole of it gives: byteBuf, resampleBuf and the      *)
(* resampler's buf lose and repeat nothing.                                    *)
THEOREM StreamCutsInaudible == StreamSpec => []CutsInaudible
BY StreamHolds, PTL DEF StreamInv

-----------------------------------------------------------------------------
(* The way back: a sample of 16 bits becomes a float and bytes again.                       *)
Int16(v) == v \in Int /\ -32768 <= v /\ v <= 32767

Near(a, b) == a - b \in -2 .. 2 /\ ~(a > 0 /\ b < 0)

LEMMA Scaled ==
  ASSUME NEW k \in Nat, 0 < k, k <= 32768
  PROVE  (2 * k * 32767) \div 65536 = k - 1
<1>1. 2 * k * 32767 = 65536 * (k - 1) + (65536 - 2 * k)
  OBVIOUS
<1>2. PICK q, r \in Int : q = k - 1 /\ r = 65536 - 2 * k /\ 0 <= r /\ r < 65536
  OBVIOUS
<1>3. (65536 * q + r) \div 65536 = q
  BY <1>2
<1> QED
  BY <1>1, <1>2, <1>3

LEMMA SampleScaled ==
  ASSUME NEW v \in Int, -32768 <= v, v <= 32767
  PROVE  \E w \in Int : /\ w = FloatToInt16(2 * v) /\ -32768 <= w /\ w <= 32767
                       /\ -1 <= v - w /\ v - w <= 1 /\ ~(v > 0 /\ w < 0)
<1>1. CASE v > 0
  <2>1. (2 * v * 32767) \div 65536 = v - 1
    BY <1>1, Scaled
  <2> QED
    BY <1>1, <2>1 DEF FloatToInt16
<1>2. CASE v = 0
  <2>1. FloatToInt16(0) = 0
    BY DEF FloatToInt16
  <2> QED
    BY <1>2, <2>1
<1>3. CASE v < 0 /\ v > -32768
  <2>1. PICK k \in Nat : k = -v /\ 0 < k /\ k <= 32768
    BY <1>3
  <2>2. (2 * k * 32767) \div 65536 = k - 1
    BY <2>1, Scaled
  <2>3. -(2 * v) = 2 * k /\ ~(2 * v >= 0) /\ ~(2 * v >= 65536) /\ ~(2 * v <= -65536)
    BY <2>1, <1>3
  <2> QED
    BY <1>3, <2>1, <2>2, <2>3 DEF FloatToInt16
<1>4. CASE v = -32768
  <2>1. FloatToInt16(-65536) = -32768
    BY DEF FloatToInt16
  <2> QED
    BY <1>4, <2>1
<1> QED
  BY <1>1, <1>2, <1>3, <1>4

BytesOf(v) ==
  LET u == IF v < 0 THEN v + 65536 ELSE v IN <<u % 256, u \div 256>>

LEMMA SampleKept ==
  ASSUME NEW v, Int16(v)
  PROVE  Int16(FloatToInt16(2 * v)) /\ Near(2 * v, 2 * FloatToInt16(2 * v))
<1>1. PICK w \in Int : /\ w = FloatToInt16(2 * v) /\ -32768 <= w /\ w <= 32767
                       /\ -1 <= v - w /\ v - w <= 1 /\ ~(v > 0 /\ w < 0)
  BY SampleScaled DEF Int16
<1>2. Int16(w) /\ Near(2 * v, 2 * w)
  BY <1>1 DEF Int16, Near
<1> QED
  BY <1>1, <1>2

LEMMA TwoBytes ==
  ASSUME NEW u \in Nat, u < 65536
  PROVE  u % 256 \in 0 .. 255 /\ u \div 256 \in 0 .. 255 /\ u = (u % 256) + 256 * (u \div 256)
OBVIOUS

LEMMA SampleOfBytes ==
  ASSUME NEW v, Int16(v)
  PROVE  /\ BytesOf(v)[1] \in 0..255 /\ BytesOf(v)[2] \in 0..255
         /\ SampleOf(BytesOf(v)[1], BytesOf(v)[2]) = 2 * v
<1>1. PICK u \in Nat : u = (IF v < 0 THEN v + 65536 ELSE v) /\ u < 65536
  BY DEF Int16
<1>2. PICK l \in 0 .. 255 : l = u % 256
  BY <1>1, TwoBytes
<1>3. PICK h \in 0 .. 255 : h = u \div 256
  BY <1>1, TwoBytes
<1>4. u = l + 256 * h
  BY <1>1, <1>2, <1>3, TwoBytes
<1>5. BytesOf(v) = <<l, h>>
  BY <1>1, <1>2, <1>3 DEF BytesOf, Int16
<1>6. SampleOf(l, h) = 2 * v
  BY <1>1, <1>4 DEF SampleOf, Int16
<1> QED
  BY <1>5, <1>6

LEMMA SampleIsEven ==
  ASSUME NEW l \in 0 .. 255, NEW h \in 0 .. 255
  PROVE  \E v : SampleOf(l, h) = 2 * v /\ Int16(v)
<1>1. PICK w \in Int : w = l + 256 * h /\ 0 <= w /\ w < 65536
  OBVIOUS
<1>2. PICK v \in Int : v = (IF w >= 32768 THEN w - 65536 ELSE w)
  BY <1>1
<1>3. Int16(v)
  BY <1>1, <1>2 DEF Int16
<1> QED
  BY <1>1, <1>2, <1>3 DEF SampleOf

LEMMA OddEven ==
  ASSUME NEW i \in Nat \ {0}
  PROVE  /\ (2 * i - 1 + 1) \div 2 = i /\ 2 - ((2 * i - 1) % 2) = 1
         /\ (2 * i + 1) \div 2 = i /\ 2 - ((2 * i) % 2) = 2
OBVIOUS

LEMMA HalfOf ==
  ASSUME NEW n \in Nat, NEW j \in 1 .. 2 * n
  PROVE  \E i \in 1..n : j = 2 * i - 1 \/ j = 2 * i
<1>1. (j + 1) \div 2 \in 1..n /\ (j = 2 * ((j + 1) \div 2) - 1 \/ j = 2 * ((j + 1) \div 2))
  OBVIOUS
<1> QED
  BY <1>1

LEMMA IsSeq ==
  ASSUME NEW S, NEW n \in Nat, NEW f \in [1 .. n -> S]
  PROVE  f \in Seq(S) /\ Len(f) = n
<1>1. f = [j \in 1 .. n |-> f[j]] /\ \A j \in 1 .. n : f[j] \in S
  OBVIOUS
<1> QED
  BY <1>1

(* What is heard of the caller goes back into bytes: for bytes of any number, each       *)
(* sample comes back within a bit of itself and on its side of zero, though the code     *)
(* divides by 32768 on one way and multiplies by 32767 on the other.                    *)
THEOREM SignalSurvives ==
  ASSUME NEW bs \in Seq(0 .. 255)
  PROVE  SignalKept(bs, PCMFloat32ToInt16LE(PCMInt16LEToFloat32(bs)))
<1>1. PICK x, n, back, y : /\ x = PCMInt16LEToFloat32(bs) /\ n = Len(bs) \div 2
                          /\ back = PCMFloat32ToInt16LE(x) /\ y = PCMInt16LEToFloat32(back)
  OBVIOUS
<1>2. x \in Seq(Int) /\ Len(x) = n /\ n \in Nat /\ DOMAIN x = 1..n
  <2>1. Len(bs) \in Nat
    OBVIOUS
  <2>2. n \in Nat
    BY <1>1, <2>1, Halves
  <2>3. x \in Seq(Int) /\ Len(x) = n
    BY <1>1, PcmType
  <2> QED
    BY <2>2, <2>3
<1>3. ASSUME NEW i \in 1..n
      PROVE  \E v : x[i] = 2 * v /\ Int16(v)
  <2>1. x[i] = SampleOf(bs[2 * i - 1], bs[2 * i])
    BY <1>1, PcmType, Zenon
  <2>2. 2 * i - 1 \in 1..Len(bs) /\ 2 * i \in 1..Len(bs)
    <3>1. Len(bs) \in Nat
      OBVIOUS
    <3> QED
      BY <1>1, <3>1, Halves
  <2>3. PICK low, high \in 0..255 : low = bs[2 * i - 1] /\ high = bs[2 * i]
    BY <2>2, SeqElements, Zenon
  <2>4. x[i] = SampleOf(low, high)
    BY <2>1, <2>3, Zenon
  <2>5. PICK v : SampleOf(low, high) = 2 * v /\ Int16(v)
    BY SampleIsEven, Zenon
  <2> QED
    BY <2>4, <2>5
<1>4. ASSUME NEW i \in 1..n
      PROVE  Int16(FloatToInt16(x[i]))
  <2>1. PICK v : x[i] = 2 * v /\ Int16(v)
    BY <1>3
  <2> QED
    BY <2>1, SampleKept
<1>5. back = [j \in 1 .. 2 * n |-> BytesOf(FloatToInt16(x[(j + 1) \div 2]))[2 - (j % 2)]]
  BY <1>1, <1>2 DEF PCMFloat32ToInt16LE, BytesOf
<1>6. ASSUME NEW i \in 1..n
      PROVE  /\ 2 * i - 1 \in 1..2 * n /\ 2 * i \in 1..2 * n
             /\ back[2 * i - 1] = BytesOf(FloatToInt16(x[i]))[1]
             /\ back[2 * i] = BytesOf(FloatToInt16(x[i]))[2]
  <2>1. 2 * i - 1 \in 1..2 * n /\ 2 * i \in 1..2 * n
    BY <1>2
  <2>2. (2 * i - 1 + 1) \div 2 = i /\ 2 - ((2 * i - 1) % 2) = 1 /\ (2 * i + 1) \div 2 = i /\ 2 - ((2 * i) % 2) = 2
    BY <1>2, OddEven
  <2> QED
    BY <1>5, <2>1, <2>2
<1>7. back \in Seq(0..255) /\ Len(back) = 2 * n
  <2>1. ASSUME NEW j \in 1..2 * n PROVE back[j] \in 0..255
    <3>1. PICK i \in 1..n : j = 2 * i - 1 \/ j = 2 * i
      BY <1>2, HalfOf
    <3>2. BytesOf(FloatToInt16(x[i]))[1] \in 0..255 /\ BytesOf(FloatToInt16(x[i]))[2] \in 0..255
      BY <1>4, SampleOfBytes
    <3> QED
      BY <1>6, <3>1, <3>2
  <2>2. PICK m \in Nat : m = 2 * n
    BY <1>2
  <2>3. back = [j \in 1..m |-> back[j]]
    BY <1>5, <2>2
  <2>4. PICK B : B = 0..255
    OBVIOUS
  <2>5. \A j \in 1..m : back[j] \in B
    BY <2>1, <2>2, <2>4
  <2>6. back \in Seq(B) /\ Len(back) = m
    <3>1. back \in [1..m -> B]
      BY <2>3, <2>5
    <3> QED
      BY <3>1, IsSeq
  <2> QED
    BY <2>2, <2>4, <2>6
<1>8. y \in Seq(Int) /\ Len(y) = n /\ \A i \in 1..n : y[i] = SampleOf(back[2 * i - 1], back[2 * i])
  <2>1. (2 * n) \div 2 = n
    BY <1>2
  <2> QED
    BY <1>1, <1>7, <2>1, PcmType
<1>9. ASSUME NEW i \in 1..n
      PROVE  Near(x[i], y[i])
  <2>1. PICK v : x[i] = 2 * v /\ Int16(v)
    BY <1>3
  <2>2. PICK w : w = FloatToInt16(x[i])
    OBVIOUS
  <2>3. Int16(w) /\ Near(x[i], 2 * w)
    BY <2>1, <2>2, SampleKept
  <2>4. y[i] = SampleOf(BytesOf(w)[1], BytesOf(w)[2])
    BY <1>6, <1>8, <2>2
  <2>5. y[i] = 2 * w
    BY <2>3, <2>4, SampleOfBytes
  <2> QED
    BY <2>3, <2>5
<1> QED
  BY <1>1, <1>2, <1>8, <1>9 DEF SignalKept, Near

-----------------------------------------------------------------------------
(* A symbol through the range coder.                                             *)

(* A quotient is below k exactly if what is divided is below k times the divisor.       *)
LEMMA QuotientBelow ==
  ASSUME NEW v \in Nat, NEW r \in Nat \ {0}, NEW k \in Int
  PROVE  v \div r \in Nat /\ (v \div r < k <=> v < r * k)
<1> DEFINE q == v \div r
<1>1. q \in Nat /\ r * q <= v /\ v < r * (q + 1)
  <2>1. q \in Nat /\ v = r * q + (v % r) /\ v % r \in 0..(r - 1)
    BY SMT
  <2>2. r * (q + 1) = r * q + r
    BY <2>1
  <2> HIDE DEF q
  <2> QED
    BY <2>1, <2>2
<1> HIDE DEF q
<1>2. ASSUME q < k
      PROVE  v < r * k
  <2>1. PICK m \in Nat : k = (q + 1) + m
    <3>1. k - (q + 1) \in Nat /\ k = (q + 1) + (k - (q + 1))
      BY <1>1, <1>2
    <3> QED
      BY <3>1
  <2>2. r * ((q + 1) + m) = r * (q + 1) + r * m /\ r * m >= 0
    BY <1>1
  <2> QED
    BY <1>1, <2>1, <2>2
<1>3. ASSUME k <= q
      PROVE  r * k <= v
  <2>1. PICK m \in Nat : q = k + m
    <3>1. q - k \in Nat /\ q = k + (q - k)
      BY <1>1, <1>3
    <3> QED
      BY <3>1
  <2>2. r * (k + m) = r * k + r * m /\ r * m >= 0
    BY <1>1
  <2> QED
    BY <1>1, <2>1, <2>2
<1>4. r * k \in Int
  OBVIOUS
<1>5. q \in Nat /\ (q < k <=> v < r * k)
  BY <1>1, <1>2, <1>3, <1>4
<1> QED
  BY <1>5 DEF q

(* What divides a number at least once, and how much of it that takes.                   *)
LEMMA Quotient ==
  ASSUME NEW n \in Nat, NEW m \in Nat \ {0}, m <= n
  PROVE  n \div m \in Nat \ {0} /\ (n \div m) * m <= n
<1> DEFINE q == n \div m
<1>1. q \in Nat /\ n = m * q + (n % m) /\ n % m \in 0..(m - 1)
  BY SMT
<1> HIDE DEF q
<1>2. q # 0
  <2> SUFFICES ASSUME q = 0
               PROVE  FALSE
    OBVIOUS
  <2>1. m * q = 0
    OBVIOUS
  <2> QED
    BY <1>1, <2>1
<1>3. q \in Nat \ {0} /\ q * m <= n
  BY <1>1, <1>2
<1> QED
  BY <1>3 DEF q

(* A share of the interval lies within it, and holds a point.                            *)
LEMMA SharesFit ==
  ASSUME NEW e, e.val \in Nat, e.rng \in Nat,
         NEW ft \in Nat \ {0}, ft <= e.rng, NEW fl \in Nat, NEW fh \in Nat, fl < fh, fh <= ft
  PROVE  LET i == IntervalOf(e, fl, fh, ft) IN
         /\ i.val \in Nat /\ i.rng \in Nat \ {0}
         /\ e.val <= i.val /\ i.val + i.rng <= e.val + e.rng
<1> DEFINE r == e.rng \div ft
           a == ft - fh  b == fh - fl
<1>1. r \in Nat \ {0} /\ r * ft <= e.rng
  BY Quotient
<1>2. a \in Nat /\ b \in Nat \ {0} /\ ft = a + b + fl /\ ft - fl = a + b
  OBVIOUS
<1> HIDE DEF r, a, b
<1>3. /\ r * (a + b + fl) = r * a + r * b + r * fl /\ r * (a + b) = r * a + r * b
      /\ r * a \in Nat /\ r * b \in Nat \ {0} /\ r * fl \in Nat
  BY <1>1, <1>2
<1>4. IntervalOf(e, fl, fh, ft) =
        IF fl > 0 THEN [val |-> e.val + e.rng - r * (ft - fl), rng |-> r * b]
        ELSE [val |-> e.val, rng |-> e.rng - r * a]
  BY DEF IntervalOf, r, a, b
<1>5. CASE fl > 0
  BY <1>1, <1>2, <1>3, <1>4, <1>5
<1>6. CASE fl = 0
  BY <1>1, <1>2, <1>3, <1>4, <1>6
<1> QED
  BY <1>5, <1>6

(* Multiplication keeps the order.                                                        *)
LEMMA TimesMonotone ==
  ASSUME NEW r \in Nat, NEW a \in Nat, NEW b \in Nat, a <= b
  PROVE  r * a \in Nat /\ r * b \in Nat /\ r * a <= r * b
<1>1. PICK m \in Nat : b = a + m
  <2>1. b - a \in Nat /\ b = a + (b - a)
    OBVIOUS
  <2> QED
    BY <2>1
<1>2. r * (a + m) = r * a + r * m /\ r * m \in Nat /\ r * a \in Nat
  OBVIOUS
<1> QED
  BY <1>1, <1>2

(* Where a decoder is that is with the encoder.                                           *)
LEMMA WithPlace ==
  ASSUME NEW e, e.val \in Nat, e.rng \in Nat, NEW d, NEW p \in Int, With(d, e, p)
  PROVE  /\ d.rng = e.rng /\ d.val = e.val + e.rng - 1 - p
         /\ d.val \in Nat /\ d.val < e.rng
  BY DEF With, Holds

(* What lies above a symbol leaves the point below it, and what lies below it above.    *)
LEMMA AboveBelow ==
  ASSUME NEW e, e.val \in Nat, e.rng \in Nat, NEW d, NEW p \in Int, With(d, e, p),
         NEW above \in Nat, NEW below \in Nat,
         Holds([val |-> e.val + e.rng - above, rng |-> above - below], p)
  PROVE  /\ below <= d.val /\ d.val < above
         /\ With([val |-> d.val - below, rng |-> above - below],
                 [val |-> e.val + e.rng - above, rng |-> above - below], p)
<1> DEFINE lo == e.val  n == e.rng  v == d.val
<1>1. /\ lo \in Nat /\ n \in Nat /\ v = lo + n - 1 - p
      /\ p \in lo + n - above .. lo + n - above + (above - below) - 1
  BY DEF With, Holds
<1> HIDE DEF lo, n, v
<1>2. below <= v /\ v < above
      /\ v - below = (lo + n - above) + (above - below) - 1 - p
  BY <1>1
<1> QED
  BY <1>2 DEF With, lo, n, v

(* The same of the lowest symbol, which also has what no symbol has.                     *)
LEMMA LowestBelow ==
  ASSUME NEW e, e.val \in Nat, e.rng \in Nat, NEW d, NEW p \in Int, With(d, e, p),
         NEW below \in Nat, Holds([val |-> e.val, rng |-> e.rng - below], p)
  PROVE  /\ below <= d.val
         /\ With([val |-> d.val - below, rng |-> d.rng - below],
                 [val |-> e.val, rng |-> e.rng - below], p)
<1> DEFINE lo == e.val  n == e.rng  v == d.val
<1>1. /\ lo \in Nat /\ n \in Nat /\ v = lo + n - 1 - p /\ d.rng = n
      /\ p \in lo .. lo + (n - below) - 1
  BY DEF With, Holds
<1> HIDE DEF lo, n, v
<1>2. below <= v /\ v - below = lo + (n - below) - 1 - p
  BY <1>1
<1> QED
  BY <1>1, <1>2 DEF With, lo, n, v

(* Whatever a decoder that is with the encoder reads, Decode's answer lies in a symbol's  *)
(* share exactly if the encoder's interval for that symbol holds the point; then Update   *)
(* and Encode keep the same interval, and the decoder is with the encoder there.          *)
THEOREM SymbolFound ==
  ASSUME NEW e, e.val \in Nat, e.rng \in Nat, NEW d, NEW p \in Int, With(d, e, p),
         NEW ft \in Nat \ {0}, ft <= e.rng, NEW fl \in Nat, NEW fh \in Nat, fl < fh, fh <= ft
  PROVE  LET i == IntervalOf(e, fl, fh, ft)
             ext == d.rng \div ft
         IN /\ CumulativeAt(d, ft, ext) \in 0 .. ft - 1
            /\ CumulativeAt(d, ft, ext) \in fl .. fh - 1 <=> Holds(i, p)
            /\ Holds(i, p) => With(TakeInterval(d, ext, fl, fh, ft), i, p)
<1> DEFINE r == d.rng \div ft
           v == d.val
           q == v \div r
           i == IntervalOf(e, fl, fh, ft)
           t == TakeInterval(d, r, fl, fh, ft)
<1>1. /\ d.rng = e.rng /\ v = e.val + e.rng - 1 - p /\ v \in Nat /\ v < e.rng
      /\ p = e.val + e.rng - 1 - v
  BY DEF With, Holds
<1>2. r \in Nat \ {0} /\ r * ft <= e.rng
  BY <1>1, Quotient
<1>3. /\ q \in Nat
      /\ q < ft - fl <=> v < r * (ft - fl)
      /\ q < ft - fh <=> v < r * (ft - fh)
  <2>1. ft - fl \in Int /\ ft - fh \in Int
    OBVIOUS
  <2> HIDE DEF r, v
  <2> QED
    BY <1>1, <1>2, <2>1, QuotientBelow DEF q
<1>4. CumulativeAt(d, ft, r) = IF q + 1 < ft THEN ft - (q + 1) ELSE 0
  BY <1>2, <1>3 DEF CumulativeAt, Least
<1>5. /\ r * (ft - fl) \in Int /\ r * (ft - fh) \in Int
      /\ r * (fh - fl) = r * (ft - fl) - r * (ft - fh)
      /\ fl = 0 => r * (ft - fl) <= e.rng
  BY <1>2
<1>6. i = IF fl > 0 THEN [val |-> e.val + e.rng - r * (ft - fl), rng |-> r * (fh - fl)]
          ELSE [val |-> e.val, rng |-> e.rng - r * (ft - fh)]
  BY <1>1 DEF IntervalOf
<1>7. t = [val |-> v - r * (ft - fh),
           rng |-> IF fl > 0 THEN r * (fh - fl) ELSE e.rng - r * (ft - fh)]
  BY <1>1 DEF TakeInterval
<1>8. Holds(i, p) <=> r * (ft - fh) <= v /\ (fl > 0 => v < r * (ft - fl))
  <2> HIDE DEF r, v, i
  <2>1. CASE fl > 0
    BY <1>1, <1>5, <1>6, <2>1 DEF Holds
  <2>2. CASE fl = 0
    BY <1>1, <1>5, <1>6, <2>2 DEF Holds
  <2> QED
    BY <2>1, <2>2
<1>9. Holds(i, p) => With(t, i, p)
  <2> DEFINE above == r * (ft - fl)  below == r * (ft - fh)
  <2>1. above \in Nat /\ below \in Nat
    <3>1. ft - fl \in Nat /\ ft - fh \in Nat
      OBVIOUS
    <3> HIDE DEF r
    <3> QED
      BY <1>2, <3>1, TimesMonotone
  <2>2. CASE fl > 0
    <3>1. /\ i = [val |-> e.val + e.rng - above, rng |-> above - below]
          /\ t = [val |-> d.val - below, rng |-> above - below]
      BY <1>5, <1>6, <1>7, <2>2
    <3> HIDE DEF i, t, above, below, r, v
    <3> QED
      BY <2>1, <3>1, AboveBelow
  <2>3. CASE fl = 0
    <3>1. /\ i = [val |-> e.val, rng |-> e.rng - below]
          /\ t = [val |-> d.val - below, rng |-> d.rng - below]
      BY <1>1, <1>6, <1>7, <2>3
    <3> HIDE DEF i, t, above, below, r, v
    <3> QED
      BY <2>1, <3>1, LowestBelow
  <2> QED
    BY <2>2, <2>3
<1>10. /\ CumulativeAt(d, ft, r) \in 0 .. ft - 1
       /\ CumulativeAt(d, ft, r) \in fl .. fh - 1
            <=> ft - fh <= q /\ (fl > 0 => q < ft - fl)
  <2> HIDE DEF r, v, q
  <2> QED
    BY <1>3, <1>4
<1>11. ft - fh <= q <=> r * (ft - fh) <= v
  <2> HIDE DEF r, v, q
  <2> QED
    BY <1>1, <1>3, <1>5
<1>12. CumulativeAt(d, ft, r) \in fl .. fh - 1 <=> Holds(i, p)
  <2> HIDE DEF r, v, q, i
  <2> QED
    BY <1>3, <1>8, <1>10, <1>11
<1> QED
  BY <1>9, <1>10, <1>12

(* BitLogp reads the bit whose part of the interval holds the point, and both go on with   *)
(* that part.                                                                            *)
THEOREM BitFound ==
  ASSUME NEW e, e.val \in Nat, e.rng \in Nat, NEW d, NEW p \in Int, With(d, e, p),
         NEW s \in Nat, s <= e.rng, NEW bit \in {0, 1}
  PROVE  /\ BitAt(d, s) = bit <=> Holds(BitInterval(e, bit, s), p)
         /\ Holds(BitInterval(e, bit, s), p) => With(TakeBit(d, s), BitInterval(e, bit, s), p)
<1> DEFINE v == d.val
<1>1. d.rng = e.rng /\ v = e.val + e.rng - 1 - p /\ v \in Nat /\ v < e.rng
  BY DEF With, Holds
<1>2. BitAt(d, s) = (IF v < s THEN 1 ELSE 0)
  BY DEF BitAt
<1>3. TakeBit(d, s) = IF v < s THEN [val |-> v, rng |-> s] ELSE [val |-> v - s, rng |-> e.rng - s]
  BY <1>1 DEF TakeBit
<1>4. CASE bit = 1
  <2> DEFINE i == [val |-> e.val + e.rng - s, rng |-> s]
  <2>1. BitInterval(e, bit, s) = i
    BY <1>4 DEF BitInterval
  <2>2. Holds(i, p) <=> v < s
    BY <1>1 DEF Holds
  <2>3. v < s => With([val |-> v, rng |-> s], i, p)
    BY <1>1, <2>2 DEF With
  <2> HIDE DEF i, v
  <2> QED
    BY <1>2, <1>3, <1>4, <2>1, <2>2, <2>3
<1>5. CASE bit = 0
  <2> DEFINE i == [val |-> e.val, rng |-> e.rng - s]
  <2>1. BitInterval(e, bit, s) = i
    BY <1>5 DEF BitInterval
  <2>2. Holds(i, p) <=> ~(v < s)
    BY <1>1 DEF Holds
  <2>3. ~(v < s) => With([val |-> v - s, rng |-> e.rng - s], i, p)
    BY <1>1, <2>2 DEF With
  <2> HIDE DEF i, v
  <2> QED
    BY <1>2, <1>3, <1>5, <2>1, <2>2, <2>3
<1> QED
  BY <1>4, <1>5

(* Where a table is read for symbol s.                                                     *)
LEMMA TablePlaces ==
  ASSUME NEW cdf \in Seq(Nat), NEW s \in 0 .. Len(cdf) - 2
  PROVE  /\ \A k \in 1 .. Len(cdf) : cdf[k] \in Nat
         /\ Len(cdf) \in Nat /\ s \in Nat
         /\ 1 \in 1 .. Len(cdf) /\ Len(cdf) \in 1 .. Len(cdf)
         /\ s + 1 \in 1 .. Len(cdf) /\ s + 2 \in 1 .. Len(cdf)
         /\ 1 <= s + 1 /\ s + 2 <= Len(cdf)
  OBVIOUS

LEMMA IcdfPlaces ==
  ASSUME NEW icdf \in Seq(Nat), NEW s \in 0 .. Len(icdf) - 1
  PROVE  /\ \A k \in 1 .. Len(icdf) : icdf[k] \in Nat
         /\ Len(icdf) \in Nat /\ s \in Nat /\ s + 1 \in 1 .. Len(icdf)
         /\ s > 0 => s \in 1 .. Len(icdf)
  OBVIOUS

(* Multiplication distributes over a difference.                                          *)
LEMMA TimesMinus ==
  ASSUME NEW r \in Nat, NEW a \in Nat, NEW b \in Nat
  PROVE  r * a \in Nat /\ r * b \in Nat /\ r * (a - b) = r * a - r * b
  OBVIOUS

(* In a table that falls, DecodeICDF's loop stops at the symbol EncodeICDF wrote, and both  *)
(* go on with the same interval.                                                          *)
THEOREM IcdfFound ==
  ASSUME NEW e, e.val \in Nat, e.rng \in Nat, NEW d, NEW p \in Int, With(d, e, p),
         NEW r \in Nat, NEW icdf \in Seq(Nat), NEW s \in 0 .. Len(icdf) - 1,
         \A a, b \in 1 .. Len(icdf) : a <= b => icdf[b] <= icdf[a],
         Holds(IcdfInterval(e, s, icdf, r), p)
  PROVE  /\ IcdfAt(d, icdf, r) = s
         /\ With(TakeIcdf(d, s, icdf, r), IcdfInterval(e, s, icdf, r), p)
<1> DEFINE v == d.val
           below == r * icdf[s + 1]
<1>1. d.rng = e.rng /\ v = e.val + e.rng - 1 - p /\ v \in Nat /\ v < e.rng
  BY WithPlace, Zenon
<1>2. /\ \A k \in 1 .. Len(icdf) : icdf[k] \in Nat
      /\ Len(icdf) \in Nat /\ s \in Nat /\ s + 1 \in 1 .. Len(icdf)
      /\ s > 0 => s \in 1 .. Len(icdf)
  BY IcdfPlaces
<1>3. /\ below <= v /\ (s > 0 => v < r * icdf[s])
      /\ With(TakeIcdf(d, s, icdf, r), IcdfInterval(e, s, icdf, r), p)
  <2>1. CASE s > 0
    <3> DEFINE above == r * icdf[s]
    <3>1. above \in Nat /\ below \in Nat /\ r * (icdf[s] - icdf[s + 1]) = above - below
      <4>1. icdf[s] \in Nat /\ icdf[s + 1] \in Nat
        BY <1>2, <2>1, Zenon
      <4> QED
        BY <4>1, TimesMinus, Zenon
    <3>2. IcdfInterval(e, s, icdf, r)
            = [val |-> e.val + e.rng - above, rng |-> above - below]
      BY <2>1, <3>1, Zenon DEF IcdfInterval
    <3>3. TakeIcdf(d, s, icdf, r) = [val |-> d.val - below, rng |-> above - below]
      <4>1. s # 0
        BY <2>1
      <4> QED
        BY <4>1, Zenon DEF TakeIcdf
    <3> HIDE DEF above, below
    <3>4. Holds([val |-> e.val + e.rng - above, rng |-> above - below], p)
      BY <3>2, Zenon
    <3>5. below <= d.val /\ d.val < above
      BY <3>1, <3>4, AboveBelow
    <3>6. With([val |-> d.val - below, rng |-> above - below],
               [val |-> e.val + e.rng - above, rng |-> above - below], p)
      BY <3>1, <3>4, AboveBelow
    <3> QED
      BY <3>2, <3>3, <3>5, <3>6, Zenon DEF above
  <2>2. CASE s = 0
    <3>1. below \in Nat
      <4>1. icdf[s + 1] \in Nat
        BY <1>2, Zenon
      <4> QED
        BY <4>1, TimesMinus, Zenon
    <3>2. IcdfInterval(e, s, icdf, r) = [val |-> e.val, rng |-> e.rng - below]
      BY <2>2 DEF IcdfInterval
    <3>3. TakeIcdf(d, s, icdf, r) = [val |-> d.val - below, rng |-> d.rng - below]
      BY <2>2 DEF TakeIcdf
    <3> HIDE DEF below
    <3>4. Holds([val |-> e.val, rng |-> e.rng - below], p)
      BY <3>2, Zenon
    <3>5. below <= d.val
      BY <3>1, <3>4, LowestBelow
    <3>6. With([val |-> d.val - below, rng |-> d.rng - below],
               [val |-> e.val, rng |-> e.rng - below], p)
      BY <3>1, <3>4, LowestBelow
    <3>7. ~(s > 0)
      BY <2>2
    <3> QED
      BY <3>2, <3>3, <3>5, <3>6, <3>7, Zenon
  <2> QED
    BY <1>2, <2>1, <2>2
<1> DEFINE Stops(k) == IcdfStops(d, icdf, r, k)
<1>4. Stops(s)
  BY <1>3 DEF IcdfStops
<1>5. ASSUME NEW j \in 0 .. s - 1
      PROVE  ~Stops(j)
  <2>1. j + 1 \in 1 .. Len(icdf) /\ s \in 1 .. Len(icdf) /\ j + 1 <= s /\ s > 0
    BY <1>2
  <2>2. icdf[s] <= icdf[j + 1]
    BY <2>1, Zenon
  <2>3. r * icdf[s] \in Nat /\ r * icdf[s] <= r * icdf[j + 1] /\ r * icdf[j + 1] \in Nat
    <3>1. icdf[s] \in Nat /\ icdf[j + 1] \in Nat
      BY <1>2, <2>1, Zenon
    <3> QED
      BY <2>2, <3>1, TimesMonotone, Zenon
  <2>4. v < r * icdf[s]
    BY <1>3, <2>1, Zenon
  <2>5. ~(v >= r * icdf[j + 1])
    <3> DEFINE x == r * icdf[s]  y == r * icdf[j + 1]
    <3> HIDE DEF v, x, y
    <3>1. v \in Nat /\ v < x /\ x \in Nat /\ y \in Nat /\ x <= y
      BY <1>1, <2>3, <2>4 DEF x, y
    <3>2. ~(v >= y)
      BY <3>1
    <3> QED
      BY <3>2 DEF y
  <2>6. j # Len(icdf) - 1
    BY <1>2, <2>1
  <2> QED
    BY <2>5, <2>6, Zenon DEF IcdfStops
<1> HIDE DEF Stops
<1>6. ASSUME NEW k \in 0 .. Len(icdf) - 1, Stops(k), \A j \in 0 .. k - 1 : ~Stops(j)
      PROVE  k = s
  <2>1. ~(k < s)
    BY <1>2, <1>5, <1>6
  <2>2. ~(s < k)
    BY <1>2, <1>4, <1>6
  <2> QED
    BY <1>2, <2>1, <2>2
<1>7. IcdfAt(d, icdf, r) =
        CHOOSE k \in 0 .. Len(icdf) - 1 : Stops(k) /\ \A j \in 0 .. k - 1 : ~Stops(j)
  BY DEF IcdfAt, Stops
<1>8. IcdfAt(d, icdf, r) = s
  BY <1>4, <1>5, <1>6, <1>7
<1> QED
  BY <1>3, <1>8

(* In a table that rises one place only has fs.                                            *)
LEMMA CdfPlace ==
  ASSUME NEW cdf \in Seq(Nat), NEW s \in 0 .. Len(cdf) - 2, NEW fs \in Nat,
         \A a, b \in 1 .. Len(cdf) : a <= b => cdf[a] <= cdf[b],
         cdf[s + 1] <= cdf[1] + fs, cdf[1] + fs < cdf[s + 2]
  PROVE  CdfAt(cdf, fs) = s
<1> DEFINE t == cdf[1] + fs
           Right(k) == cdf[k + 2] > t /\ \A j \in 0 .. k - 1 : cdf[j + 2] <= t
<1>1. /\ \A k \in 1 .. Len(cdf) : cdf[k] \in Nat
      /\ Len(cdf) \in Nat /\ 1 \in 1 .. Len(cdf)
      /\ s \in Nat /\ s + 1 \in 1 .. Len(cdf)
  BY TablePlaces
<1>2. t \in Nat /\ cdf[s + 1] <= t /\ t < cdf[s + 2]
  BY <1>1
<1> HIDE DEF t
<1>3. ASSUME NEW j \in 0 .. s - 1
      PROVE  cdf[j + 2] <= t
  <2>1. j + 2 \in 1 .. Len(cdf) /\ j + 2 <= s + 1
    BY <1>1
  <2>2. cdf[j + 2] <= cdf[s + 1]
    BY <1>1, <2>1, Zenon
  <2>3. cdf[j + 2] \in Nat /\ cdf[s + 1] \in Nat
    BY <1>1, <2>1, Zenon
  <2> QED
    BY <1>2, <2>2, <2>3
<1>4. Right(s)
  BY <1>1, <1>2, <1>3
<1>5. ASSUME NEW k \in 0 .. Len(cdf) - 2, Right(k)
      PROVE  k = s
  <2>1. ~(k < s)
    BY <1>1, <1>2, <1>3, <1>5
  <2>2. ~(s < k)
    <3> SUFFICES ASSUME s < k
                 PROVE  FALSE
      OBVIOUS
    <3>1. s \in 0 .. k - 1 /\ s + 2 \in 1 .. Len(cdf)
      BY <1>1
    <3> QED
      BY <1>1, <1>2, <1>5, <3>1
  <2> QED
    BY <2>1, <2>2
<1>6. CdfAt(cdf, fs) = CHOOSE k \in 0 .. Len(cdf) - 2 : Right(k)
  BY DEF CdfAt, t
<1> HIDE DEF Right
<1> QED
  BY <1>4, <1>5, <1>6

(* In a table that rises, DecodeCDF's search ends at the symbol EncodeCDF wrote, next to     *)
(* any number of symbols that have no share; what both go on with is SymbolFound's.          *)
THEOREM CdfFound ==
  ASSUME NEW e, e.val \in Nat, e.rng \in Nat, NEW d, NEW p \in Int, With(d, e, p),
         NEW cdf \in Seq(Nat), NEW s \in 0 .. Len(cdf) - 2,
         \A a, b \in 1 .. Len(cdf) : a <= b => cdf[a] <= cdf[b],
         cdf[s + 1] < cdf[s + 2], cdf[Len(cdf)] - cdf[1] <= e.rng,
         Holds(IntervalOf(e, cdf[s + 1] - cdf[1], cdf[s + 2] - cdf[1],
                          cdf[Len(cdf)] - cdf[1]), p)
  PROVE  LET ft == cdf[Len(cdf)] - cdf[1]
         IN CdfAt(cdf, CumulativeAt(d, ft, d.rng \div ft)) = s
<1> DEFINE ft == cdf[Len(cdf)] - cdf[1]
           fl == cdf[s + 1] - cdf[1]
           fh == cdf[s + 2] - cdf[1]
           fs == CumulativeAt(d, ft, d.rng \div ft)
<1>1. /\ \A k \in 1 .. Len(cdf) : cdf[k] \in Nat
      /\ 1 \in 1 .. Len(cdf) /\ Len(cdf) \in 1 .. Len(cdf)
      /\ s + 1 \in 1 .. Len(cdf) /\ s + 2 \in 1 .. Len(cdf)
      /\ 1 <= s + 1 /\ s + 2 <= Len(cdf)
  BY TablePlaces
<1>2. cdf[1] <= cdf[s + 1] /\ cdf[s + 2] <= cdf[Len(cdf)]
  BY <1>1, Zenon
<1>3. fl \in Nat /\ fh \in Nat /\ ft \in Nat \ {0} /\ fl < fh /\ fh <= ft /\ ft <= e.rng
  <2> DEFINE a == cdf[1]  b == cdf[s + 1]  c == cdf[s + 2]  z == cdf[Len(cdf)]
  <2>1. /\ a \in Nat /\ b \in Nat /\ c \in Nat /\ z \in Nat
        /\ a <= b /\ b < c /\ c <= z /\ z - a <= e.rng
    BY <1>1, <1>2, Zenon
  <2> HIDE DEF a, b, c, z
  <2>2. b - a \in Nat /\ c - a \in Nat /\ z - a \in Nat \ {0} /\ b - a < c - a /\ c - a <= z - a
    BY <2>1
  <2> QED
    BY <2>1, <2>2, Zenon DEF a, b, c, z
<1>4. fs \in fl .. fh - 1
  <2> HIDE DEF fl, fh, ft
  <2>1. Holds(IntervalOf(e, fl, fh, ft), p)
    BY DEF fl, fh, ft
  <2> QED
    BY <1>3, <2>1, SymbolFound
<1>5. fs \in Nat /\ cdf[s + 1] <= cdf[1] + fs /\ cdf[1] + fs < cdf[s + 2]
  <2> DEFINE a == cdf[1]  b == cdf[s + 1]  c == cdf[s + 2]
  <2>1. a \in Nat /\ b \in Nat /\ c \in Nat /\ a <= b
    BY <1>1, <1>2, Zenon
  <2>2. fs \in (b - a) .. (c - a) - 1
    BY <1>4
  <2> HIDE DEF fs, a, b, c
  <2>3. fs \in Nat /\ b <= a + fs /\ a + fs < c
    BY <2>1, <2>2
  <2> QED
    BY <2>3 DEF a, b, c
<1> HIDE DEF fs
<1>6. CdfAt(cdf, fs) = s
  BY <1>5, CdfPlace
<1> QED
  BY <1>6 DEF fs

(* A turn of both normalize loops: a digit further, with the interval a base wider, the     *)
(* decoder is with the encoder still; what & (ecCodeTop - 1) would cut off is not there.      *)
THEOREM DigitsFollowed ==
  ASSUME NEW e, e.val \in Nat, e.rng \in Nat, NEW d, NEW p \in Int, With(d, e, p),
         NEW base \in Nat \ {0}, NEW top \in Nat, e.rng * base <= top,
         NEW digit \in 0 .. base - 1
  PROVE  With([val |-> NextVal(d.val, digit, base, top), rng |-> d.rng * base],
              [val |-> e.val * base, rng |-> e.rng * base], p * base + digit)
<1> DEFINE v == d.val
           n == v * base + base - 1 - digit
<1>1. d.rng = e.rng /\ v = e.val + e.rng - 1 - p /\ v \in Nat /\ v < e.rng
  BY WithPlace, Zenon
<1>2. PICK m \in Nat : e.rng = v + 1 + m
  <2>1. e.rng - (v + 1) \in Nat /\ e.rng = v + 1 + (e.rng - (v + 1))
    BY <1>1
  <2> QED
    BY <2>1
<1>3. p = e.val + m
  <2> HIDE DEF v
  <2> QED
    BY <1>1, <1>2
<1>4. /\ e.rng * base = v * base + base + m * base
      /\ p * base = e.val * base + m * base
      /\ v * base \in Nat /\ m * base \in Nat /\ e.val * base \in Nat
  <2> HIDE DEF v
  <2> QED
    BY <1>1, <1>2, <1>3
<1> DEFINE vb == v * base  mb == m * base  eb == e.val * base  rb == e.rng * base  pb == p * base
<1> HIDE DEF v, vb, mb, eb, rb, pb
<1>5. /\ rb = vb + base + mb /\ pb = eb + mb /\ rb <= top
      /\ vb \in Nat /\ mb \in Nat /\ eb \in Nat /\ n = vb + base - 1 - digit
  BY <1>4 DEF vb, mb, eb, rb, pb
<1>6. n \in Nat /\ n < top /\ n = eb + rb - 1 - (pb + digit)
  BY <1>5
<1>7. Holds([val |-> eb, rng |-> rb], pb + digit)
  BY <1>5 DEF Holds
<1> HIDE DEF n
<1>8. n % top = n
  BY <1>6
<1>9. NextVal(d.val, digit, base, top) = n
  BY <1>8 DEF NextVal, n, v
<1> QED
  BY <1>1, <1>6, <1>7, <1>9 DEF With, eb, rb, pb

=============================================================================

--------------------------------- MODULE Wire --------------------------------
(* One thing is put on a wire by the code that writes it and taken off by the *)
(* code that reads it: symbols through the range coder, an MLow frame, a      *)
(* redundant payload, an SRTP packet, a STUN message, a call key, the stanzas *)
(* of a call, its relays, and audio in pieces. An item is a record with the   *)
(* wire it is for and what is meant; got is what the reader makes of it.      *)
EXTENDS MlowDecoder, RtpWire, PcmStream, Signaling
LOCAL INSTANCE SequencesExt

CONSTANTS Items

VARIABLES item, got
vars == <<item, got, streamVars>>

Nothing == <<>>

Init ==
  /\ item \in Items /\ got = Nothing
  /\ StreamInit /\ (item.wire # "stream" => direct.rate = 16000)

Reads(wire, ok, x) ==
  /\ item.wire = wire /\ got = Nothing
  /\ got' = <<[ok |-> ok, value |-> IF ok THEN x ELSE <<>>]>>
  /\ UNCHANGED <<item, streamVars>>

-----------------------------------------------------------------------------
(* Each step writes and reads one item. A reader has its own state: the       *)
(* predictor of the decoder may hold anything from the packet before.         *)

CodeSymbols ==
  LET e == EncodeSymbols(NewRangeEncoder(item.size), item.symbols) IN
  Reads("symbols", e.err = 0, DecodeSymbols(NewRangeDecoder(e.buf), item.symbols))

CodeFrame ==
  LET e == EncodeSmplFrame(item.frames) IN
  Reads("mlow", ~e.err, DecodeActiveFrame([toc |-> e.toc, body |-> e.body],
                                          item.before, Len(item.frames)))

\* The peer packs (external): a header of two bytes for a redundant block.
PackSplitRed(blocks) ==
  LET n == Len(blocks)
      header(i) == IF i = n THEN <<blocks[i].code>>
                   ELSE <<128 + blocks[i].code, Len(blocks[i].data)>>
  IN FlattenSeq([i \in 1 .. n |-> header(i)]) \o FlattenSeq([i \in 1 .. n |-> blocks[i].data])

ReadRedundant == Reads("red", TRUE, DepackSplitRed(PackSplitRed(item.blocks)))

ProtectPacket ==
  LET r == Unprotect(item.context, Protect(item.context, item.header, item.payload))
  IN Reads("srtp", r.ok, r)

\* The bytes of a message of the client or of a relay (external: a response
\* with the attributes it likes).
StunBytes(m) ==
  CASE m.kind = "allocate" -> BuildAllocateForRelay(m.subs, m.ssrcs, m.key, m.ip, m.port, m.txid)
    [] m.kind = "binding" ->
         BuildBindingRequestWithSubs(m.username, m.key, m.subs, m.controlling, m.fingerprint, m.txid)
    [] m.kind = "response" -> BuildBindingResponse(m.txid, m.key)
    [] m.kind = "relay" -> BuildStunMessage(m.type, FlattenSeq([i \in DOMAIN m.attrs |->
                             EncodeAttribute(m.attrs[i].type, m.attrs[i].data)]),
                             m.txid, NoKey, FALSE)
    [] m.kind = "ping" -> BuildWhatsAppPing(m.txid)
    [] m.kind = "pong" -> BuildWhatsAppPong(m.txid)

MacKey(m) == IF m.kind \in {"allocate", "binding", "response"} THEN m.key ELSE <<>>

ReadStun ==
  LET bs == StunBytes(item.message)
      genuine == /\ Verifies(bs, attrMessageIntegrity, MacKey(item.message), MacLen)
                 /\ Verifies(bs, attrFingerprint, <<>>, 4)
  IN Reads("stun", genuine /\ IsStunPacket(bs) /\ ~IsRtpPacket(bs), ParseStunResponse(bs))

ReadSubscriptions ==
  Reads("subscriptions", TRUE,
        [sender |-> Subscriptions(BuildSenderSubscriptions(item.self)),
         list |-> Subscriptions(BuildSSRCSubscriptionList(<<item.self>>, item.peers,
                                                          item.selfPid, item.peerPid)),
         address |-> XorRelayedAddress(EncodeXorRelayedAddress(item.ip, item.port))])

\* The library pads what it encrypts, and may or may not have unpadded it.
ReadCallKey ==
  LET plain == EncodeCallKeyMessage(item.key) IN
  Reads("callkey", TRUE,
        DecodeCallKeyPlaintext(CASE item.pad < 0 -> item.key
                                 [] item.pad = 0 -> plain
                                 [] OTHER -> Pad(plain, item.pad)))

\* The server delivers an offer to one device: the enc of its destination alone,
\* or lifted out of it (external).
ReadStanza ==
  LET offer == BuildOfferStanza(item.callId, item.participants, item.identity)
      lifted == [offer EXCEPT !.kids[1].kids =
                   SelectSeq(@, LAMBDA k : k.tag # "destination")
                     \o <<ExtractEncFromParticipant(item.participants)>>]
      stanza == CASE item.form = "offer" -> offer
                  [] item.form = "lifted" -> lifted
                  [] item.form = "accept" ->
                       BuildAcceptStanza(item.callId, item.participants, item.identity)
      info == ExtractNodeInfo(stanza)
  IN Reads("stanza", info.tag # "nil",
           [tag |-> info.tag, callId |-> info.callId, enc |-> FindEncNode(info.inner)])

ReadRelays ==
  Reads("relays", TRUE, [ack |-> ParseRelayFromAck(item.node),
                   offer |-> ExtractRelayEndpoints(item.node)])

ReportLatencies == Reads("latencies", TRUE, BuildRelayLatencyStanza(item.relays))

\* The two readers of audio go on from message to message.
NextMessage(wire) ==
  /\ item.wire = wire /\ item.messages # <<>>
  /\ item' = [item EXCEPT !.messages = Tail(@)]
  /\ UNCHANGED got

ReadStream == NextMessage("stream") /\ ReadMessage(Head(item.messages))

ReadLive == NextMessage("live") /\ ReadPart(Head(item.messages))

\* What is heard of the caller goes back into bytes.
ReturnPcm == Reads("pcm", TRUE, PCMFloat32ToInt16LE(PCMInt16LEToFloat32(item.bytes)))

Next ==
  \/ CodeSymbols \/ CodeFrame \/ ReadRedundant \/ ProtectPacket
  \/ ReadStun \/ ReadSubscriptions \/ ReadCallKey \/ ReadStanza
  \/ ReadRelays \/ ReportLatencies \/ ReadStream \/ ReadLive \/ ReturnPcm

Spec == Init /\ [][Next]_vars

-----------------------------------------------------------------------------
Read == got # Nothing
Got == got[1].value

\* The attributes a message was built with.
Meant(m) ==
  LET a(type, data) == [type |-> type, data |-> data] IN
  CASE m.kind = "allocate" ->
         <<a(attrSenderSubscriptions, m.subs), a(attrSsrcList, m.ssrcs)>>
    [] m.kind = "binding" ->
         (IF m.username = <<>> THEN <<>> ELSE <<a(attrUsername, m.username)>>)
           \o <<a(attrPriority, <<0, 255, 255, 255>>)>>
           \o (IF m.controlling THEN <<a(attrIceControlling, Zeros(8))>> ELSE <<>>)
           \o (IF m.subs = <<>> THEN <<>> ELSE <<a(attrSenderSubscriptions, m.subs)>>)
    [] m.kind = "relay" -> m.attrs
    [] OTHER -> <<>>

Added == {attrMessageIntegrity, attrFingerprint, attrXorRelayedAddress}

(* What a reader makes of the bytes is what the writer put into them: the     *)
(* symbols of the two coders though they share a buffer's two ends, the       *)
(* parameters of an MLow frame though the tables of both sides are chosen by  *)
(* different code, redundant blocks, SRTP packets, STUN attributes past their *)
(* padding with digests a relay accepts, subscriptions, and the call key      *)
(* whether or not its padding is still there. A buffer that is too small is   *)
(* reported, never read.                                                      *)
RoundTrip ==
  Read =>
    /\ item.wire # "symbols" => got[1].ok
    /\ item.wire = "symbols" /\ got[1].ok =>
         Got = [i \in DOMAIN item.symbols |-> item.symbols[i].s]
    /\ item.wire = "mlow" => Got = [samples |-> 960, params |-> item.frames]
    /\ item.wire = "red" => Got = item.blocks
    /\ item.wire = "srtp" => /\ Got.payload = item.payload
         /\ \A f \in DOMAIN item.header : Got.header[f] = item.header[f]
    /\ item.wire = "stun" =>
         /\ Got.ok /\ Got.txid = item.message.txid
         /\ SelectSeq(Got.attrs, LAMBDA a : a.type \notin Added)
              = Meant(item.message)
    /\ item.wire = "subscriptions" =>
         /\ [i \in DOMAIN Got.list |-> Got.list[i][3].v]
              = SelectSeq(<<item.self>> \o item.peers, LAMBDA s : s # 0)
         /\ Got.sender[1][1].v = item.self
         /\ Got.address = [ip |-> item.ip, port |-> item.port]
    /\ item.wire = "callkey" => Got = item.key
    /\ item.wire = "stanza" =>
         Got = [tag |-> IF item.form = "accept" THEN "accept" ELSE "offer",
                callId |-> item.callId,
                enc |-> ExtractEncFromParticipant(item.participants)]
    /\ item.wire = "pcm" => SignalKept(item.bytes, Got)

\* A list of relays: those of known round trip first, closest first, and relays
\* alike in the order of the nodes they came from.
Ordered(relays, nodes) ==
  LET place(r) == CHOOSE i \in DOMAIN nodes : nodes[i] = r.name IN
  \A i, j \in DOMAIN relays : i < j =>
    LET a == relays[i]  b == relays[j] IN
    CASE a.rtt = None -> b.rtt = None /\ place(a) < place(b)
      [] a.rtt # None /\ b.rtt = None -> TRUE
      [] OTHER -> a.rtt < b.rtt \/ (a.rtt = b.rtt /\ place(a) < place(b))

NodesOf(node) == FlattenSeq(Each(node.kids, LAMBDA c : c.kids))
Te2s(node) == SelectSeq(NodesOf(node), LAMBDA n : n.tag = "te2" /\ Len(n.bytes) = 6)

(* The relays a call connects to are all of the usable ones, the closest      *)
(* first and those of unknown distance last, each with the tokens of its own  *)
(* ids wherever in the stanza those stand; a relay is told of once when the   *)
(* latencies are reported.                                                    *)
RelaysInOrder ==
  Read =>
    /\ item.wire = "relays" =>
         LET tes == Te2s(item.node)
             names == [i \in DOMAIN tes |-> tes[i].attrs["relay_name"]]
             ack == Got.ack.relays
         IN /\ Len(ack) = Len(tes)
            /\ {ack[i].name : i \in DOMAIN ack} = {names[i] : i \in DOMAIN names}
            /\ Ordered(ack, names)
            /\ \A i \in DOMAIN ack : ack[i].token.raw = item.tokens[ack[i].name]
            /\ Cardinality({Got.ack.participants[i] : i \in DOMAIN Got.ack.participants})
                 = Len(Got.ack.participants)
            /\ Ordered(Got.offer, item.ips)
    /\ item.wire = "latencies" =>
         LET named == {item.relays[i].name : i \in DOMAIN item.relays} \ {""} IN
         /\ Len(Got) = Cardinality(named)
         /\ {Got[i].relay : i \in DOMAIN Got} = named
=============================================================================

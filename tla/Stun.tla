-------------------------------- MODULE Stun ---------------------------------
(* The STUN messages a client registers with at a relay (transport/stun.go,   *)
(* subscriptions.go), as bytes, and how they are read: ParseStunResponse, and *)
(* the relay's tests of integrity and fingerprint (external, RFC 5389). A     *)
(* hash is a stand-in that depends on every byte and on its place.            *)
EXTENDS Bitwise, Protobuf, StunAttribute

CONSTANTS MacLen        \* the bytes of a MAC: 20

Cookie == <<33, 18, 164, 66>>
BindingRequest == 1
AllocateRequest == 3
BindingSuccess == 257
WhatsappPing == 2049
WhatsappPong == 2050

attrUsername == 6
attrMessageIntegrity == 8
attrErrorCode == 9
attrXorRelayedAddress == 22
attrPriority == 36
attrSenderSubscriptions == 16384
attrSsrcList == 16420
attrFingerprint == 32808
attrIceControlling == 32810
attrStableRouting == 16435

XorBytes(a, b) == [i \in 1 .. Len(a) |-> a[i] ^^ b[i]]

Digest(key, bs, n) ==
  LET all == key \o bs
      mix[i \in 0 .. Len(all)] ==
        IF i = 0 THEN 7 ELSE (31 * mix[i - 1] + all[i] + i) % 65521
  IN [k \in 1 .. n |-> ((k + 2) * mix[Len(all)]) % 251]

Header(type, len, txid) == Uint16(type) \o Uint16(len) \o Cookie \o txid

\* Integrity covers a header that counts the integrity attribute itself, and
\* the fingerprint one that counts both. NoKey: no integrity at all.
NoKey == <<-1>>
BuildStunMessage(type, attrs, txid, key, fingerprint) ==
  LET mac == Digest(key, Header(type, Len(attrs) + MacLen + 4, txid) \o attrs, MacLen)
      signed == IF key = NoKey THEN attrs
                ELSE attrs \o EncodeAttribute(attrMessageIntegrity, mac)
      crc == Digest(<<>>, Header(type, Len(signed) + 8, txid) \o signed, 4)
      whole == IF fingerprint
               THEN signed \o EncodeAttribute(attrFingerprint, crc) ELSE signed
  IN Header(type, Len(whole), txid) \o whole

EncodeXorRelayedAddress(ip, port) ==
  <<0, 1>> \o XorBytes(Uint16(port), SubSeq(Cookie, 1, 2)) \o XorBytes(ip, Cookie)

BuildAllocateForRelay(subs, ssrcs, key, ip, port, txid) ==
  BuildStunMessage(AllocateRequest,
    EncodeAttribute(attrSenderSubscriptions, subs)
      \o EncodeAttribute(attrSsrcList, ssrcs)
      \o (IF ip # <<>> /\ port # 0
          THEN EncodeAttribute(attrXorRelayedAddress, EncodeXorRelayedAddress(ip, port))
          ELSE <<>>),
    txid, key, FALSE)

BuildBindingRequestWithSubs(username, key, subs, controlling, fingerprint, txid) ==
  BuildStunMessage(BindingRequest,
    (IF username # <<>> THEN EncodeAttribute(attrUsername, username) ELSE <<>>)
      \o EncodeAttribute(attrPriority, <<0, 255, 255, 255>>)
      \o (IF controlling THEN EncodeAttribute(attrIceControlling, Zeros(8)) ELSE <<>>)
      \o (IF subs # <<>> THEN EncodeAttribute(attrSenderSubscriptions, subs) ELSE <<>>),
    txid, IF key = <<>> THEN NoKey ELSE key, fingerprint)

BuildBindingResponse(txid, key) ==
  BuildStunMessage(BindingSuccess, <<>>, txid, key, TRUE)

BuildWhatsAppPing(txid) == Header(WhatsappPing, 0, txid)
BuildWhatsAppPong(txid) ==
  Header(WhatsappPong, 0, IF Len(txid) >= 12 THEN SubSeq(txid, 1, 12) ELSE Zeros(12))

BuildSenderSubscriptions(ssrc) ==
  LengthDelimited(1, VarintField(3, ssrc) \o VarintField(5, 0) \o VarintField(6, 0))

RECURSIVE SsrcEntries(_, _)
SsrcEntries(ssrcs, pid) ==
  IF ssrcs = <<>> THEN <<>>
  ELSE (IF Head(ssrcs) = 0 THEN <<>>
        ELSE LengthDelimited(1, VarintField(1, pid) \o VarintField(2, 1)
                                  \o VarintField(3, Head(ssrcs))))
       \o SsrcEntries(Tail(ssrcs), pid)

BuildSSRCSubscriptionList(self, peer, selfPid, peerPid) ==
  SsrcEntries(self, selfPid) \o SsrcEntries(peer, peerPid)

-----------------------------------------------------------------------------
(* Reading.                                                                   *)

IsStunPacket(bs) == Len(bs) >= 2 /\ bs[1] < 64
IsRtpPacket(bs) == Len(bs) >= 2 /\ bs[1] \in 128 .. 191

RECURSIVE ReadAttributes(_, _, _)
ReadAttributes(bs, offset, end) ==
  IF AttributeFits(bs, offset, end)
  THEN <<AttributeAt(bs, offset)>> \o ReadAttributes(bs, NextAttribute(bs, offset), end)
  ELSE <<>>

StunClass(type) ==
  <<"request", "indication", "success", "error">>
    [2 * ((type \div 256) % 2) + ((type \div 16) % 2) + 1]

StunMethod(type) ==
  LET bits == 128 * ((type \div 512) % 32) + 16 * ((type \div 32) % 8) + (type % 16)
      names == <<"binding", "unknown", "allocate", "refresh", "unknown", "send",
                 "data", "create-permission", "channel-bind">>
  IN CASE type = WhatsappPing -> "wa-ping"
       [] type = WhatsappPong -> "wa-pong"
       [] OTHER -> IF bits \in DOMAIN names THEN names[bits] ELSE "unknown"

ErrorCodeOf(attrs) ==
  LET codes == SelectSeq(attrs, LAMBDA a : a.type = attrErrorCode /\ Len(a.data) >= 4)
      c == codes[Len(codes)].data
  IN IF codes = <<>> THEN 0 ELSE 100 * (c[3] % 8) + c[4]

RoutingIdOf(attrs, class) ==
  LET ids == SelectSeq(attrs, LAMBDA a : a.type = attrStableRouting /\ Len(a.data) = 8)
  IN IF ids = <<>> \/ class # "success" THEN Zeros(8) ELSE ids[Len(ids)].data

\* Without the cookie only a ping or a pong is read.
ParseStunResponse(bs) ==
  LET type == ReadUint16(bs, 1)
      attrs == ReadAttributes(bs, 20, 20 + ReadUint16(bs, 3))
      Info(class, as) ==
        [ok |-> TRUE, type |-> type, method |-> StunMethod(type), class |-> class,
         txid |-> SubSeq(bs, 9, 20), attrs |-> as, error |-> ErrorCodeOf(as),
         route |-> RoutingIdOf(as, class)]
  IN CASE Len(bs) < 20 -> [ok |-> FALSE]
       [] Len(bs) >= 20 /\ SubSeq(bs, 5, 8) = Cookie -> Info(StunClass(type), attrs)
       [] OTHER -> IF type \in {WhatsappPing, WhatsappPong}
                   THEN Info("indication", <<>>) ELSE [ok |-> FALSE]

\* How many bytes of attributes come before the first one of a type.
RECURSIVE BytesBefore(_, _)
BytesBefore(attrs, type) ==
  IF attrs = <<>> \/ Head(attrs).type = type THEN 0
  ELSE Len(EncodeAttribute(0, Head(attrs).data)) + BytesBefore(Tail(attrs), type)

\* What the relay tests: the attribute is the digest of all before it, under a
\* header whose length ends with that attribute.
Verifies(bs, type, key, n) ==
  LET attrs == ReadAttributes(bs, 20, 20 + ReadUint16(bs, 3))
      before == BytesBefore(attrs, type)
  IN \A i \in DOMAIN attrs :
       attrs[i].type = type =>
         attrs[i].data = Digest(key, Header(ReadUint16(bs, 1), before + 4 + n,
                                            SubSeq(bs, 9, 20))
                                       \o SubSeq(bs, 21, 20 + before), n)

\* The address and the subscriptions as the relay reads them.
XorRelayedAddress(data) ==
  [ip |-> XorBytes(SubSeq(data, 5, 8), Cookie),
   port |-> ReadUint16(XorBytes(SubSeq(data, 3, 4), SubSeq(Cookie, 1, 2)), 1)]

Subscriptions(bs) ==
  LET entries == Unmarshal(bs).fields IN
  [i \in DOMAIN entries |-> Unmarshal(entries[i].v).fields]
=============================================================================

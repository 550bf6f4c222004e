------------------------------ MODULE Signaling ------------------------------
(* What a client reads out of call stanzas and puts into them                 *)
(* (internal/voip/signaling). A node is [tag, attrs, kids, bytes]: attrs a    *)
(* function from the names it carries, kids <<>> and bytes <<>> when its      *)
(* content is of the other sort. Attribute values are compared, never parsed  *)
(* digit by digit; the bytes of a token are a length and whether they are base64. *)
EXTENDS Stun, RelayOrder
LOCAL INSTANCE SequencesExt
LOCAL INSTANCE TLC

CONSTANTS KeyLen        \* the bytes of a call key: 32

Node(tag, attrs, kids) == [tag |-> tag, attrs |-> attrs, kids |-> kids, bytes |-> <<>>]
Leaf(tag, attrs, bytes) == [tag |-> tag, attrs |-> attrs, kids |-> <<>>, bytes |-> bytes]

Has(n, key) == key \in DOMAIN n.attrs
Attr(n, key, fallback) == IF Has(n, key) THEN n.attrs[key] ELSE fallback
Kids(n, tag) == SelectSeq(n.kids, LAMBDA k : k.tag = tag)

Each(s, Op(_)) == [i \in DOMAIN s |-> Op(s[i])]

-----------------------------------------------------------------------------
(* The call key.                                                              *)

EncodeCallKeyMessage(key) == LengthDelimited(10, LengthDelimited(1, key))

\* The padding of the Signal layer: n bytes of value n, n at most 16.
Pad(bs, n) == bs \o [i \in 1 .. n |-> n]

\* <<>> for what cannot be unpadded.
Unpad(bs) ==
  IF bs = <<>> \/ bs[Len(bs)] > Len(bs) THEN <<>>
  ELSE SubSeq(bs, 1, Len(bs) - bs[Len(bs)])

LastOf(fields, n) ==
  LET them == SelectSeq(fields, LAMBDA f : f.field = n /\ f.wire = 2) IN
  IF them = <<>> THEN <<>> ELSE them[Len(them)].v

\* The key field of the call field of a message that can be read whole.
CallKeyIn(bs) ==
  LET message == Unmarshal(bs)
      call == Unmarshal(LastOf(message.fields, 10))
  IN IF message.ok /\ call.ok THEN LastOf(call.fields, 1) ELSE <<>>

DecodeCallKeyPlaintext(bs) ==
  CASE Len(bs) = KeyLen -> bs
    [] Len(bs) # KeyLen /\ Len(CallKeyIn(bs)) = KeyLen -> CallKeyIn(bs)
    [] OTHER -> IF Len(CallKeyIn(Unpad(bs))) = KeyLen THEN CallKeyIn(Unpad(bs)) ELSE <<>>

-----------------------------------------------------------------------------
(* The node the key travels in.                                               *)

NoNode == Leaf("nil", <<>>, <<>>)
FirstOf(nodes) == IF nodes = <<>> THEN NoNode ELSE Head(nodes)

\* An enc with a type among the children, or else one for any destination.
FindEncNode(inner) ==
  LET encs(n) == SelectSeq(Kids(n, "enc"), LAMBDA e : Has(e, "type"))
      to == FlattenSeq(Each(Kids(inner, "destination"), LAMBDA d : Kids(d, "to")))
  IN FirstOf(encs(inner) \o FlattenSeq(Each(to, encs)))

\* The first enc among the participant nodes and their children.
ExtractEncFromParticipant(nodes) ==
  FirstOf(FlattenSeq(Each(nodes, LAMBDA n : IF n.tag = "enc" THEN <<n>> ELSE Kids(n, "enc"))))

\* The identity goes with a stanza that carries a pre-key message.
WithIdentity(kids, include) ==
  kids \o (IF include THEN <<Leaf("device-identity", <<>>, <<>>)>> ELSE <<>>)

CallNode(tag, callId, kids) ==
  Node("call", <<>>, << Node(tag, ("call-id" :> callId), kids) >>)

BuildOfferStanza(callId, destinations, include) ==
  CallNode("offer", callId,
    WithIdentity(<< Leaf("audio", <<>>, <<>>), Leaf("net", <<>>, <<>>),
                    Node("destination", <<>>, destinations) >>, include))

\* Error when no enc was produced.
BuildAcceptStanza(callId, participants, include) ==
  LET enc == ExtractEncFromParticipant(participants) IN
  IF enc = NoNode THEN NoNode
  ELSE CallNode("accept", callId,
         WithIdentity(<< Leaf("audio", <<>>, <<>>), Leaf("net", <<>>, <<>>), enc >>,
                      include))

ExtractNodeInfo(call) ==
  IF call.kids = <<>> THEN [tag |-> "nil", callId |-> "", inner |-> NoNode]
  ELSE [tag |-> Head(call.kids).tag, callId |-> Attr(Head(call.kids), "call-id", ""),
        inner |-> Head(call.kids)]

-----------------------------------------------------------------------------
(* The relays of a call, in the order of module RelayOrder.                   *)

\* Bytes that are base64, and long enough to be a token's text, are decoded;
\* any others are the token, and their base64 is the text.
Base64(t) == [base64 |-> TRUE, of |-> t, len |-> 4 * ((t.len + 2) \div 3)]
ParseTokenBytes(t) ==
  IF t.base64 /\ t.len % 4 = 0 /\ t.len > 8 THEN [text |-> t, raw |-> t.of]
  ELSE [text |-> Base64(t), raw |-> t]

NoToken == LET none == [base64 |-> FALSE, of |-> 0, len |-> 0] IN
           [text |-> none, raw |-> none]

\* The tokens of a relay node by their ids; the last of an id counts.
TokenOf(relay, tag, id) ==
  LET them == SelectSeq(Kids(relay, tag), LAMBDA t : Attr(t, "id", 0) = id /\ t.bytes # <<>>)
  IN IF them = <<>> THEN NoToken
     ELSE ParseTokenBytes(them[Len(them)].bytes[1])

\* Addresses of six bytes only; the authentication token has its own id, or
\* the token's id stands for it.
EndpointsOf(relay) ==
  LET keys == SelectSeq(Kids(relay, "key"), LAMBDA k : k.bytes # <<>>)
      Endpoint(te) ==
        LET id == Attr(te, "token_id", 0)
            auth == Attr(te, "auth_token_id", None)
        IN [name |-> Attr(te, "relay_name", ""), rtt |-> Attr(te, "c2r_rtt", None),
            ip |-> SubSeq(te.bytes, 1, 4), port |-> ReadUint16(te.bytes, 5),
            key |-> IF keys = <<>> THEN "" ELSE keys[Len(keys)].bytes[1],
            token |-> TokenOf(relay, "token", id),
            auth |-> IF auth = None THEN NoToken
                     ELSE TokenOf(relay, "auth_token", auth),
            authId |-> IF auth = None THEN id ELSE auth]
  IN Each(SelectSeq(Kids(relay, "te2"), LAMBDA te : Len(te.bytes) = 6), Endpoint)

RECURSIVE Distinct(_)
Distinct(s) ==
  IF s = <<>> THEN <<>>
  ELSE <<Head(s)>> \o Distinct(SelectSeq(Tail(s), LAMBDA x : x # Head(s)))

Jids(nodes) ==
  Each(SelectSeq(nodes, LAMBDA n : Has(n, "jid")), LAMBDA n : n.attrs["jid"])

\* The participants, in the order they are met and once each, and the relays.
\* The packet ids of the last relay node that has them count. (The hop-by-hop
\* key, which is stored and never used, is left out.)
ParseRelayFromAck(ack) ==
  LET Participants(c) ==
        IF c.tag = "user" THEN Jids(Kids(c, "device"))
        ELSE IF c.tag = "relay" THEN Jids(Kids(c, "participant")) ELSE <<>>
      relays == Kids(ack, "relay")
      Pid(key) == LET them == SelectSeq(relays, LAMBDA r : Has(r, key)) IN
                  IF them = <<>> THEN None ELSE them[Len(them)].attrs[key]
  IN [relays |-> SortRelaysByRtt(FlattenSeq(Each(relays, EndpointsOf))),
      participants |-> Distinct(FlattenSeq(Each(ack.kids, Participants))),
      selfPid |-> Pid("self_pid"), peerPid |-> Pid("peer_pid")]

\* The form of an offer that carries its relays as attributes, alone or in a
\* list of them; one without an address or a token is passed over.
ExtractRelayEndpoints(node) ==
  LET Relays(c) == CASE c.tag = "relay" -> <<c>>
                     [] c.tag = "relays" -> Kids(c, "relay")
                     [] OTHER -> <<>>
      Endpoint(r) == [name |-> r.attrs["ip"], rtt |-> Attr(r, "c2r-rtt", None),
                      port |-> Attr(r, "port", 3480), token |-> r.attrs["token"],
                      key |-> Attr(r, "relay-key", Attr(r, "key", ""))]
  IN SortRelaysByRtt(
       Each(SelectSeq(FlattenSeq(Each(node.kids, Relays)),
                      LAMBDA r : Has(r, "ip") /\ Has(r, "token")), Endpoint))

\* One latency for each relay with a name, the first of a name.
BuildRelayLatencyStanza(relays) ==
  LET named == SelectSeq(relays, LAMBDA r : r.name # "")
      first == {i \in DOMAIN named : \A j \in 1 .. i - 1 : named[j].name # named[i].name}
      te(r) == [relay |-> r.name, latency |-> 33554432 + r.latency]
  IN Each(SelectSeq([i \in DOMAIN named |-> [keep |-> i \in first, r |-> named[i]]],
                    LAMBDA x : x.keep), LAMBDA x : te(x.r))
=============================================================================

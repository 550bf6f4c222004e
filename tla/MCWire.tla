-------------------------------- MODULE MCWire --------------------------------
(* Items for every wire, few of each but with the cases that differ: tables   *)
(* of every sort, buffers that fill up, subframes with and without pulses,    *)
(* every padding, every way to cut a short stream.                            *)
EXTENDS Wire
LOCAL INSTANCE SequencesExt
LOCAL INSTANCE TLC

-----------------------------------------------------------------------------
(* Symbols: every list of up to three of these, into three sizes of buffer.   *)

Tables == { <<0, 3, 4, 9>>, <<2, 5, 6>> }
Symbols ==
  UNION { {[call |-> "CDF", s |-> s, table |-> t] : s \in 0 .. Len(t) - 2} : t \in Tables }
  \cup {[call |-> "ICDF", s |-> s, table |-> <<12, 5, 0>>, n |-> 4] : s \in 0 .. 2}
  \cup {[call |-> "BitLogp", s |-> s, n |-> 3] : s \in {0, 1}}
  \cup {[call |-> "Uint", s |-> s, n |-> 40] : s \in {0, 17, 39}}
  \cup {[call |-> "RawSymbol", s |-> s, n |-> 3] : s \in {0, 7}}
  \cup {[call |-> "BitsN", s |-> s, n |-> 5] : s \in {0, 21, 31}}

SymbolItems ==
  {[wire |-> "symbols", size |-> n, symbols |-> xs] :
     n \in {2, 8}, xs \in UNION {[1 .. k -> Symbols] : k \in 1 .. 3}}

-----------------------------------------------------------------------------
(* MLow frames of two internal frames, voiced and unvoiced in any order.      *)

Empty == <<0, 0, 0>>
Mixed == << <<0, -1, 0>>, <<0, 0, 2>>, Empty, <<1, 0, -1>> >>
PulseSets == { << Empty, Empty, Empty, Empty >>, Mixed,
               << <<-2, 0, 0>>, <<1, 1, 0>>, <<0, 0, -2>>, <<0, -1, 1>> >> }
LsfOf(s, g) == [stage1 |-> s, grid |-> g, stage2 |-> <<1 + g, 1 - g>>, extra |-> 2 - g]
Pulsed(p, sf) == Total([n \in 1 .. PosPerSf |-> Magnitude(p[sf][n])]) > 0
Unvoiced ==
  {[lsf |-> LsfOf(0, 0), pulses |-> p,
    gains |-> [main |-> m, delta |-> 1,
               res |-> [sf \in Subframes |-> IF Pulsed(p, sf) THEN (m + sf) % 3 ELSE 0]]] :
     p \in PulseSets, m \in {0, 2}}
LagsOf(c, x) ==
  FlattenSeq([k \in 1 .. Len(c.blocks) |->
                Repeat(c.lens[k], c.blocks[k] * BlockSize + ((x + k) % BlockSize))])
Voiced ==
  {[lsf |-> LsfOf(1, 1), pulses |-> Mixed,
    pitch |-> [gainIdx |-> [sf \in Subframes |-> (sf * g) % 3],
               filtIdx |-> [sf \in Subframes |-> IF Pulsed(Mixed, sf) THEN (sf + x) % 3 ELSE -1],
               contour |-> c, lags |-> LagsOf(Contours[c], x)]] :
     c \in 1 .. Len(Contours), x \in {0, 2}, g \in {1, 2}}
Leftover == { Forgotten(0), [stage1 |-> 1, gain |-> 1, filt |-> 2, lag |-> 2, frac |-> 9] }

FrameItems ==
  {[wire |-> "mlow", frames |-> f, before |-> b] :
     f \in [1 .. 2 -> Unvoiced \cup Voiced], b \in Leftover}

RedItems ==
  LET Blocks == [code : {0, 80}, data : { <<>>, <<7>>, <<200, 3>> }] IN
  {[wire |-> "red", blocks |-> b \o <<[code |-> 80, data |-> m]>>] :
     b \in UNION {[1 .. k -> Blocks] : k \in 0 .. 2}, m \in { <<1>>, <<130, 9>> }}

-----------------------------------------------------------------------------
(* SRTP packets, the numbers at their limits; STUN; subscriptions.            *)

HeaderItems ==
  {[padding |-> FALSE, extension |-> x.ext, marker |-> m, payloadType |-> 120, seq |-> q,
    timestamp |-> <<255, 255, 255, 0>>, ssrc |-> <<1, 2, 3, 250>>, csrc |-> c,
    profile |-> x.profile, extData |-> x.data] :
     m \in BOOLEAN, q \in {0, 300, 65535}, c \in { <<>>, << <<9, 8, 7, 6>> >> },
     x \in { [ext |-> FALSE, profile |-> 0, data |-> <<>>],
             [ext |-> TRUE, profile |-> 48862, data |-> <<>>],
             [ext |-> TRUE, profile |-> 48862, data |-> <<1, 2, 3, 4>>] }}
SrtpItems ==
  {[wire |-> "srtp", header |-> h, payload |-> p,
    context |-> [key |-> <<5, 6>>, salt |-> [i \in 1 .. 14 |-> 16 * i], auth |-> <<7>>,
                 roc |-> r, tagLen |-> t]] :
     h \in HeaderItems, p \in { <<80>>, <<80, 1, 2, 255, 0>> }, r \in {0, 1, 65536}, t \in {4, 10}}

Txid == [i \in 1 .. 12 |-> 250 - i]
Key == <<3, 1, 4>>
Datas == { <<>>, <<1>>, <<1, 2>>, <<1, 2, 3>>, <<1, 2, 3, 4>> }
Messages ==
  {[kind |-> "allocate", subs |-> d, ssrcs |-> e, key |-> Key, ip |-> a, port |-> 3480, txid |-> Txid] :
     d \in Datas, e \in Datas, a \in { <<>>, <<31, 13, 9, 200>> }}
  \cup {[kind |-> "binding", username |-> d, key |-> k, subs |-> e, controlling |-> b,
         fingerprint |-> f, txid |-> Txid] :
     d \in Datas, k \in { <<>>, Key }, e \in Datas, b \in BOOLEAN, f \in BOOLEAN}
  \cup {[kind |-> "response", key |-> Key, txid |-> Txid]}
  \cup {[kind |-> k, txid |-> Txid] : k \in {"ping", "pong"}}
  \cup {[kind |-> "relay", type |-> t, txid |-> Txid,
         attrs |-> << [type |-> attrErrorCode, data |-> <<0, 0, 4, 38>> \o d],
                      [type |-> attrStableRouting, data |-> <<1, 2, 3, 4, 5, 6, 7, 8>>] >>] :
     t \in {259, 275, 1}, d \in Datas}
StunItems == {[wire |-> "stun", message |-> m] : m \in Messages}

SubscriptionItems ==
  {[wire |-> "subscriptions", self |-> s, peers |-> p, selfPid |-> 1, peerPid |-> 2,
    ip |-> <<157, 240, 0, a>>, port |-> q] :
     s \in {1, 127, 128, 2147483647}, p \in { <<>>, <<300>>, <<0, 16384>> },
     a \in {0, 255}, q \in {80, 3480, 65535}}

-----------------------------------------------------------------------------
(* Keys with bytes that could be taken for tags or padding, at every padding. *)

KeyItems ==
  {[wire |-> "callkey", key |-> [i \in 1 .. KeyLen |-> IF i = KeyLen THEN last ELSE fill],
    pad |-> p] :
     fill \in {0, 8, 10, 255}, last \in {1, 16, 82, 255}, p \in -1 .. 16}

Enc(t) == Leaf("enc", [type |-> t], <<t>>)
To(kids) == Node("to", [jid |-> "device"], kids)
StanzaItems ==
  {[wire |-> "stanza", callId |-> "call", form |-> f, participants |-> p, identity |-> i] :
     f \in {"offer", "lifted", "accept"}, i \in BOOLEAN,
     p \in { << To(<<Enc("msg")>>) >>, << To(<<Enc("pkmsg")>>), To(<<Enc("msg")>>) >>,
             << To(<<>>), To(<<Enc("pkmsg")>>) >> }}

-----------------------------------------------------------------------------
(* Relays: three of them in any order, of known and unknown round trips,      *)
(* with their tokens before or behind them, in one relay node or in two.      *)

Raw(n) == [base64 |-> FALSE, of |-> n, len |-> n]
Text(n) == [base64 |-> TRUE, of |-> Raw(n), len |-> 12]
Rtts == {None, 5, 9}
Te2(name, rtt, id, size) ==
  Leaf("te2", IF rtt = None THEN [relay_name |-> name, token_id |-> id]
              ELSE [relay_name |-> name, token_id |-> id, c2r_rtt |-> rtt],
       [i \in 1 .. size |-> i])
Token(id, t) == Leaf("token", [id |-> id], <<t>>)
Tokens == << Token(1, Text(7)), Token(2, Raw(5)) >>
Te2s3(r) == << Te2("a", r[1], 1, 6), Te2("b", r[2], 2, 6), Te2("v6", None, 1, 18),
               Te2("c", r[3], 1, 6) >>
RelayNode(kids) == Node("relay", [self_pid |-> 1, peer_pid |-> 2], kids)
Participants == << Leaf("participant", [jid |-> "p"], <<>>), Leaf("participant", [jid |-> "q"], <<>>) >>
Users == Node("user", <<>>, << Leaf("device", [jid |-> "q"], <<>>) >>)
Alone(kids) == << Node("relay", <<>>, kids) >>
Attrs(ip, rtt) == IF rtt = None THEN [ip |-> ip, token |-> "t"]
                  ELSE ("ip" :> ip) @@ ("token" :> "t") @@ ("c2r-rtt" :> rtt)
Attribute(r) == << Node("relays", <<>>, << Node("relay", Attrs("x", r[1]), <<>>),
                                           Node("relay", [token |-> "t"], <<>>) >>),
                   Node("relay", Attrs("y", r[2]), <<>>), Node("relay", Attrs("z", r[3]), <<>>) >>

RelayItems ==
  {[wire |-> "relays", ips |-> <<"x", "y", "z">>,
    tokens |-> [a |-> Raw(7), b |-> Raw(5), c |-> Raw(7)],
    node |-> Node("ack", <<>>, kids)] :
     kids \in UNION {
       { <<Users, RelayNode(Tokens \o Te2s3(r) \o Participants)>>,
         <<RelayNode(Participants \o Te2s3(r) \o Tokens), Users>>,
         << RelayNode(SubSeq(Te2s3(r), 1, 2) \o Tokens),
            RelayNode(<<Token(1, Raw(7))>> \o SubSeq(Te2s3(r), 3, 4)) >> } :
       r \in [1 .. 3 -> Rtts] }}
  \cup
  {[wire |-> "relays", ips |-> <<"x", "y", "z">>, tokens |-> <<>>,
    node |-> Node("offer", <<>>, Attribute(r))] : r \in [1 .. 3 -> Rtts]}

LatencyItems ==
  {[wire |-> "latencies", relays |-> [i \in 1 .. 3 |-> [name |-> n[i], latency |-> i]]] :
     n \in [1 .. 3 -> {"", "a", "b"}]}

-----------------------------------------------------------------------------
(* Nine bytes in every cut, at both rates, with a clear at any place.         *)

Bytes == <<1, 128, 255, 127, 3, 0, 200, 255, 9, 4, 77, 130, 5>>
Audio(bs) == [kind |-> "audio", bytes |-> bs]
Clear == [kind |-> "clear", bytes |-> <<>>]
Other == [kind |-> "other", bytes |-> <<>>]
Cuts == {c \in [1 .. 3 -> 0 .. Len(Bytes)] : c[1] <= c[2] /\ c[2] <= c[3]}
Pieces(c) == << SubSeq(Bytes, 1, c[1]), SubSeq(Bytes, c[1] + 1, c[2]),
                SubSeq(Bytes, c[2] + 1, c[3]), SubSeq(Bytes, c[3] + 1, Len(Bytes)) >>
Messages5(c, m) == LET p == Pieces(c) IN <<Audio(p[1]), Audio(p[2]), m, Audio(p[3]), Audio(p[4])>>
StreamItems ==
  {[wire |-> "stream", messages |-> Messages5(c, m)] : c \in Cuts, m \in {Clear, Other}}
LiveItems ==
  {[wire |-> "live", messages |-> Messages5(c, m)] :
     c \in {d \in Cuts : \A i \in 1 .. 3 : d[i] % 2 = 0}, m \in {Clear, Other}}
PcmItems ==
  {[wire |-> "pcm", bytes |-> <<a, b, c>>] : a \in {0, 1, 255}, b \in {0, 127, 128, 255}, c \in {4}}

AllItems ==
  SymbolItems \cup FrameItems \cup RedItems \cup SrtpItems \cup StunItems
  \cup SubscriptionItems \cup KeyItems \cup StanzaItems \cup RelayItems
  \cup LatencyItems \cup StreamItems \cup LiveItems \cup PcmItems
=============================================================================

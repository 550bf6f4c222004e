------------------------------- MODULE RtpWire -------------------------------
(* SRTP packets as bytes (media/srtp.go): RtpHeader's header, the counter-mode *)
(* cipher over the payload, and the tag, which the receiver cuts off and does *)
(* not test. Module MediaPath has the rollover counters of a stream; here a   *)
(* packet meets two contexts that agree on them. The cipher's stream and the  *)
(* tag are Digest's stand-ins.                                                *)
EXTENDS Stun, RtpHeader

GenerateIV(salt, ssrc, roc, seq) == XorBytes(salt, IvMask(ssrc, roc, seq)) \o Zeros(2)

AesCtrXor(key, iv, bs) == XorBytes(bs, Digest(key, iv, Len(bs)))

\* The sender and the receiver of one direction; tags of the length each has.
Protect(c, h, payload) ==
  LET body == EncodeRtpHeader(h)
                \o AesCtrXor(c.key, GenerateIV(c.salt, h.ssrc, c.roc, h.seq), payload)
  IN body \o Digest(c.auth, body \o Uint16(c.roc \div 65536) \o Uint16(c.roc), c.tagLen)

Unprotect(c, bs) ==
  LET h == DecodeRtpHeader(bs)
      n == Len(bs) - HeaderSize(h) - c.tagLen
  IN IF ~h.ok THEN h
     ELSE IF n <= 0 THEN [ok |-> FALSE]
     ELSE [ok |-> TRUE, header |-> h,
           payload |-> AesCtrXor(c.key, GenerateIV(c.salt, h.ssrc, c.roc, h.seq),
                                 SubSeq(bs, HeaderSize(h) + 1, HeaderSize(h) + n))]
=============================================================================

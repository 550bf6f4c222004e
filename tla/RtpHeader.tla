------------------------------ MODULE RtpHeader ------------------------------
(* The header of an RTP packet with its optional parts (media/rtp.go), and    *)
(* what the counter-mode cipher makes of its numbers (media/srtp.go).         *)
EXTENDS WireBytes

Flag(b, n) == IF b THEN n ELSE 0

\* A header is a record: numbers of four bytes are sequences of them.
HeaderSize(h) ==
  12 + 4 * Len(h.csrc) + (IF h.extension THEN 4 + Len(h.extData) ELSE 0)

CsrcBytes(csrc) ==
  [i \in 1 .. 4 * Len(csrc) |-> csrc[((i - 1) \div 4) + 1][((i - 1) % 4) + 1]]

ExtensionBytes(h) ==
  IF h.extension
  THEN Uint16(h.profile) \o Uint16(Len(h.extData) \div 4) \o h.extData ELSE <<>>

\* Version 2, the flags and the number of sources; the marker and the payload type.
FirstByte(h) == 128 + Flag(h.padding, 32) + Flag(h.extension, 16) + (Len(h.csrc) % 16)
SecondByte(h) == Flag(h.marker, 128) + (h.payloadType % 128)

EncodeRtpHeader(h) ==
  <<FirstByte(h), SecondByte(h)>> \o Uint16(h.seq) \o h.timestamp \o h.ssrc \o CsrcBytes(h.csrc) \o ExtensionBytes(h)

\* Too short, or not of version 2: not ok. An extension that is cut off
\* is taken for one without data.
DecodeRtpHeader(bs) ==
  LET n == bs[1] % 16
      base == 12 + 4 * n
      ext == (bs[1] \div 16) % 2 = 1
      has == ext /\ Len(bs) >= base + 4
      words == 4 * ReadUint16(bs, base + 3)
  IN CASE Len(bs) < 12 -> [ok |-> FALSE]
       [] Len(bs) >= 12 /\ (bs[1] \div 64 # 2 \/ Len(bs) < base) -> [ok |-> FALSE]
       [] OTHER ->
            [ok |-> TRUE, padding |-> (bs[1] \div 32) % 2 = 1, extension |-> ext,
             marker |-> bs[2] >= 128, payloadType |-> bs[2] % 128,
             seq |-> ReadUint16(bs, 3), timestamp |-> SubSeq(bs, 5, 8),
             ssrc |-> SubSeq(bs, 9, 12),
             csrc |-> [i \in 1 .. n |-> SubSeq(bs, 9 + 4 * i, 12 + 4 * i)],
             profile |-> IF has THEN ReadUint16(bs, base + 1) ELSE 0,
             extData |-> IF has /\ Len(bs) >= base + 4 + words
                         THEN SubSeq(bs, base + 5, base + 4 + words) ELSE <<>>]

\* What GenerateIV lays over the salt: the SSRC over its bytes 4 .. 7 and the
\* packet's index over 8 .. 13.
IvMask(ssrc, roc, seq) ==
  Zeros(4) \o ssrc \o Uint16(HighWord(roc)) \o Uint16(roc) \o Uint16(seq)

\* The headers the code writes: at most the fifteen sources the count has room for
\* and data in whole words, as RFC 3550 has them.
Uint32Bytes == {s \in Seq(Byte) : Len(s) = 4}

RtpHeaders ==
  {h \in [padding : BOOLEAN, extension : BOOLEAN, marker : BOOLEAN, payloadType : 0 .. 127,
          seq : Word, timestamp : Uint32Bytes, ssrc : Uint32Bytes,
          csrc : Seq(Uint32Bytes), profile : Word, extData : Seq(Byte)] :
     /\ Len(h.csrc) <= 15
     /\ Len(h.extData) % 4 = 0 /\ Len(h.extData) \div 4 \in Word
     /\ ~h.extension => h.profile = 0 /\ h.extData = <<>>}
=============================================================================

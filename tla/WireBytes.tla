------------------------------ MODULE WireBytes ------------------------------
(* What RTP headers (media/rtp.go) and STUN attributes (transport/stun.go)    *)
(* share: sequences of bytes, and big-endian numbers of two (encoding/binary). *)
(* It uses no recursion, so that what is built on it can be proved about.     *)
EXTENDS Integers, Sequences

Byte == 0 .. 255
Word == 0 .. 65535

HighWord(n) == n \div 65536
Uint16(n) == <<(n \div 256) % 256, n % 256>>
ReadUint16(bs, i) == 256 * bs[i] + bs[i + 1]
Zeros(n) == [i \in 1 .. n |-> 0]
=============================================================================

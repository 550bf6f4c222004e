---------------------------- MODULE StunAttribute ----------------------------
(* One attribute of a STUN message as bytes (transport/stun.go): how it is    *)
(* written, and what one turn of ParseStunResponse's loop makes of the bytes  *)
(* at an offset.                                                              *)
EXTENDS WireBytes

Padding(n) == (4 - (n % 4)) % 4

EncodeAttribute(type, data) ==
  Uint16(type) \o Uint16(Len(data)) \o data \o Zeros(Padding(Len(data)))

AttributeLength(bs, offset) == ReadUint16(bs, offset + 3)
AttributeEnd(bs, offset) == offset + 4 + AttributeLength(bs, offset)

\* The loop goes on as far as the length in the header (end) and the data go.
AttributeFits(bs, offset, end) ==
  /\ offset + 4 <= end /\ offset + 4 <= Len(bs)
  /\ AttributeEnd(bs, offset) <= Len(bs)

AttributeAt(bs, offset) ==
  [type |-> ReadUint16(bs, offset + 1),
   data |-> SubSeq(bs, offset + 5, AttributeEnd(bs, offset))]

NextAttribute(bs, offset) ==
  AttributeEnd(bs, offset) + Padding(AttributeLength(bs, offset))
=============================================================================

------------------------------ MODULE Protobuf -------------------------------
(* The protobuf encoding the client writes by hand (transport/subscriptions)  *)
(* and lets a library write for call keys (signaling/callkey.go). Bytes are   *)
(* numbers 0 .. 255. Unmarshal is the library's reader, and the relay's: it   *)
(* rejects what is cut short, field 0, groups and unknown wire types, and     *)
(* passes over fields it does not know.                                       *)
EXTENDS Integers, Sequences

RECURSIVE EncodeVarint(_), Unmarshal(_)

EncodeVarint(v) ==
  IF v > 127 THEN <<128 + (v % 128)>> \o EncodeVarint(v \div 128) ELSE <<v>>

VarintField(field, v) == EncodeVarint(8 * field) \o EncodeVarint(v)

LengthDelimited(field, data) ==
  EncodeVarint(8 * field + 2) \o EncodeVarint(Len(data)) \o data

\* The first varint of bs: its value and the bytes behind it.
ReadVarint(bs) ==
  LET ends == {i \in 1 .. Len(bs) : bs[i] < 128}
      n == CHOOSE i \in ends : \A j \in ends : i <= j
      value[i \in 1 .. n] ==
        (bs[i] % 128) + (IF i = n THEN 0 ELSE 128 * value[i + 1])
  IN IF ends = {} THEN [ok |-> FALSE, v |-> 0, rest |-> <<>>]
     ELSE [ok |-> TRUE, v |-> value[1], rest |-> SubSeq(bs, n + 1, Len(bs))]

\* The first n bytes of bs, and those behind them.
Take(bs, n) ==
  IF n > Len(bs) THEN [ok |-> FALSE, v |-> <<>>, rest |-> <<>>]
  ELSE [ok |-> TRUE, v |-> SubSeq(bs, 1, n), rest |-> SubSeq(bs, n + 1, Len(bs))]

\* Whether a message can be read, and its fields in order.
Unmarshal(bs) ==
  LET tag == ReadVarint(bs)
      field == tag.v \div 8
      value == ReadVarint(tag.rest)
      body == CASE tag.v % 8 = 0 -> value
                [] tag.v % 8 = 1 -> Take(tag.rest, 8)
                [] tag.v % 8 = 2 /\ value.ok -> Take(value.rest, value.v)
                [] tag.v % 8 = 5 -> Take(tag.rest, 4)
                [] OTHER -> [ok |-> FALSE]
      rest == Unmarshal(body.rest)
  IN IF bs = <<>> THEN [ok |-> TRUE, fields |-> <<>>]
     ELSE IF ~tag.ok \/ field = 0 \/ ~body.ok THEN [ok |-> FALSE, fields |-> <<>>]
     ELSE [ok |-> rest.ok,
           fields |-> <<[field |-> field, wire |-> tag.v % 8, v |-> body.v]>> \o rest.fields]
=============================================================================

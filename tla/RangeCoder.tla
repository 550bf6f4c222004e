----------------------------- MODULE RangeCoder -----------------------------
(* The entropy coder of the MLow codec (media/mlow/rangecoder.go). Range      *)
(* symbols go to the front of a buffer, raw bits to its back. The widths are  *)
(* constants: the code has SymBits = 8, CodeBits = WindowSize = 32, and a     *)
(* small instance keeps their relation (CodeExtra = SymBits - 1) with         *)
(* numbers TLC holds. A coder is a record of the struct's fields; a read      *)
(* returns the symbol and the decoder after it.                               *)
EXTENDS RangeStep

CONSTANTS SymBits, CodeBits, WindowSize

ASSUME WidthsAssumption ==
  /\ SymBits \in Nat \ {0} /\ CodeBits \in Nat /\ WindowSize \in Nat
  /\ CodeBits >= 2 * SymBits + 2 /\ WindowSize >= 2 * SymBits

SymMax == 2^SymBits - 1
CodeTop == 2^(CodeBits - 1)
CodeBot == CodeTop \div 2^SymBits
CodeExtra == ((CodeBits - 2) % SymBits) + 1
CodeShift == CodeBits - SymBits - 1
UintBits == SymBits

Shr(x, n) == x \div 2^n
Low(x, n) == x % 2^n

\* The number of bits of x, 0 for 0.
ilog(x) == CHOOSE n \in 0 .. CodeBits + 1 :
             x < 2^n /\ (n = 0 \/ 2^(n - 1) <= x)

Put(coder, i) == [coder EXCEPT !.val = i.val, !.rng = i.rng]

-----------------------------------------------------------------------------
(* The encoder.                                                               *)

NewRangeEncoder(size) ==
  [buf |-> [i \in 1 .. size |-> 0], offs |-> 0, endOffs |-> 0,
   window |-> 0, nbits |-> 0, rng |-> CodeTop, val |-> 0,
   ext |-> 0, rem |-> -1, err |-> 0]

Fits(e) == e.offs + e.endOffs < Len(e.buf)

WriteByte(e, b) ==
  IF Fits(e)
  THEN [e EXCEPT !.buf[e.offs + 1] = Low(b, SymBits), !.offs = @ + 1]
  ELSE [e EXCEPT !.err = -1]

WriteByteAtEnd(e, b) ==
  IF Fits(e)
  THEN [e EXCEPT !.buf[Len(e.buf) - e.endOffs] = b, !.endOffs = @ + 1]
  ELSE [e EXCEPT !.err = -1]

RECURSIVE WriteHeld(_, _)
WriteHeld(e, sym) ==
  IF e.ext = 0 THEN e
  ELSE WriteHeld([WriteByte(e, sym) EXCEPT !.ext = e.ext - 1], sym)

\* A symbol waits in rem, and a run of full symbols behind it in ext, until it
\* is known whether a carry comes through them.
CarryOut(e, c) ==
  IF c = SymMax THEN [e EXCEPT !.ext = @ + 1]
  ELSE LET carry == Shr(c, SymBits)
           first == IF e.rem >= 0 THEN WriteByte(e, e.rem + carry) ELSE e
       IN [WriteHeld(first, Low(SymMax + carry, SymBits))
             EXCEPT !.rem = Low(c, SymBits)]

RECURSIVE EncNormalize(_)
EncNormalize(e) ==
  IF e.rng > CodeBot THEN e
  ELSE EncNormalize([CarryOut(e, Shr(e.val, CodeShift))
         EXCEPT !.val = (e.val * 2^SymBits) % CodeTop, !.rng = @ * 2^SymBits])

Encode(e, fl, fh, ft) ==
  IF ft = 0 THEN [e EXCEPT !.err = -1]
  ELSE EncNormalize(Put(e, IntervalOf(e, fl, fh, ft)))

EncBitLogp(e, bit, logp) ==
  EncNormalize(Put(e, BitInterval(e, bit, Shr(e.rng, logp))))

EncodeICDF(e, s, icdf, ftb) ==
  EncNormalize(Put(e, IcdfInterval(e, s, icdf, Shr(e.rng, ftb))))

EncodeCDF(e, s, cdf) ==
  LET n == Len(cdf) IN
  IF n < 2 \/ s < 0 \/ s + 1 >= n \/ cdf[n] <= cdf[1]
  THEN [e EXCEPT !.err = -1]
  ELSE Encode(e, cdf[s + 1] - cdf[1], cdf[s + 2] - cdf[1], cdf[n] - cdf[1])

RECURSIVE FlushWindow(_, _)
FlushWindow(e, least) ==
  IF e.nbits < least THEN e
  ELSE FlushWindow([WriteByteAtEnd(e, Low(e.window, SymBits))
         EXCEPT !.window = Shr(@, SymBits), !.nbits = @ - SymBits], least)

EncBitsN(e, fl, n) ==
  LET f == IF e.nbits + n > WindowSize THEN FlushWindow(e, SymBits) ELSE e IN
  [f EXCEPT !.window = Low(@ + fl * 2^f.nbits, WindowSize), !.nbits = @ + n]

EncodeUint(e, fl, ft0) ==
  LET ft == ft0 - 1
      shift == ilog(ft) - UintBits IN
  IF shift > 0
  THEN EncBitsN(Encode(e, Shr(fl, shift), Shr(fl, shift) + 1, Shr(ft, shift) + 1),
                Low(fl, shift), shift)
  ELSE Encode(e, fl, fl + 1, ft0)

EncodeRawSymbol(e, sym, nbits) == Encode(e, sym, sym + 1, 2^nbits)

RECURSIVE FlushEnd(_, _, _)
FlushEnd(e, end, l) ==
  IF l <= 0 THEN e
  ELSE FlushEnd(CarryOut(e, Shr(end, CodeShift)),
                (end * 2^SymBits) % CodeTop, l - SymBits)

\* The fewest bits that name a point of the interval, whatever follows them;
\* then the raw bits, the last of them into a byte that must still be free.
Done(e) ==
  LET l0 == CodeBits - ilog(e.rng)
      m0 == Shr(CodeTop - 1, l0)
      Round(msk) == ((e.val + msk) \div (msk + 1)) * (msk + 1)
      tight == Round(m0) + m0 >= e.val + e.rng
      l == IF tight THEN l0 + 1 ELSE l0
      f == FlushEnd(e, Round(IF tight THEN Shr(m0, 1) ELSE m0), l)
      g == FlushWindow(IF f.rem >= 0 \/ f.ext > 0 THEN CarryOut(f, 0) ELSE f,
                       SymBits)
      last == Len(g.buf) - g.endOffs
  IN CASE g.err # 0 \/ g.nbits = 0 -> g
       [] g.endOffs >= Len(g.buf) - g.offs -> [g EXCEPT !.err = -1]
       [] OTHER -> [g EXCEPT !.buf[last] = g.window]

ConsumedLen(e) == e.offs + e.endOffs

-----------------------------------------------------------------------------
(* The decoder.                                                               *)

ByteAt(buf, i) == IF i \in 1 .. Len(buf) THEN buf[i] ELSE 0

RECURSIVE DecNormalize(_)
DecNormalize(d) ==
  IF d.rng > CodeBot THEN d
  ELSE LET rem == ByteAt(d.buf, d.offs + 1)
           sym == Shr(d.rem * 2^SymBits + rem, SymBits - CodeExtra)
       IN DecNormalize(
            [d EXCEPT !.rng = @ * 2^SymBits, !.rem = rem, !.offs = @ + 1,
                      !.val = NextVal(@, Low(sym, SymBits), 2^SymBits, CodeTop)])

NewRangeDecoder(buf) ==
  LET rng == 2^CodeExtra IN
  DecNormalize([buf |-> buf, offs |-> 1, endOffs |-> 0, window |-> 0,
                nbits |-> 0, rng |-> rng, ext |-> 0, rem |-> ByteAt(buf, 1),
                val |-> rng - 1 - Shr(ByteAt(buf, 1), SymBits - CodeExtra),
                err |-> 0])

Decode(d, ft) ==
  LET ext == IF ft = 0 THEN 0 ELSE d.rng \div ft IN
  IF ext = 0
  THEN [s |-> 0, d |-> [d EXCEPT !.err = 1, !.ext = 1]]
  ELSE [s |-> CumulativeAt(d, ft, ext), d |-> [d EXCEPT !.ext = ext]]

Update(d, fl, fh, ft) ==
  DecNormalize(Put(d, TakeInterval(d, d.ext, fl, fh, ft)))

\* A symbol of ft equal ones: decodeBin and Update, or Decode and Update.
DecodeUniform(d, ft) ==
  LET r == Decode(d, ft) IN [s |-> r.s, d |-> Update(r.d, r.s, r.s + 1, ft)]

DecodeRawSymbol(d, nbits) == DecodeUniform(d, 2^nbits)

DecBitLogp(d, logp) ==
  LET s == Shr(d.rng, logp) IN
  [s |-> BitAt(d, s), d |-> DecNormalize(Put(d, TakeBit(d, s)))]

DecodeICDF(d, icdf, ftb) ==
  IF icdf = <<>> THEN [s |-> 0, d |-> [d EXCEPT !.err = 1]]
  ELSE LET r == Shr(d.rng, ftb)
           s == IcdfAt(d, icdf, r)
       IN [s |-> s, d |-> DecNormalize(Put(d, TakeIcdf(d, s, icdf, r)))]

DecodeCDF(d, cdf) ==
  LET n == Len(cdf) IN
  IF n < 2 \/ cdf[n] <= cdf[1] THEN [s |-> 0, d |-> [d EXCEPT !.err = 1]]
  ELSE LET ft == cdf[n] - cdf[1]
           r == Decode(d, ft)
           k == CdfAt(cdf, r.s)
       IN [s |-> k, d |-> Update(r.d, cdf[k + 1] - cdf[1], cdf[k + 2] - cdf[1], ft)]

RECURSIVE FillWindow(_)
FillWindow(d) ==
  LET f == [d EXCEPT !.window = @ + ByteAt(d.buf, Len(d.buf) - d.endOffs) * 2^d.nbits,
                     !.nbits = @ + SymBits, !.endOffs = @ + 1]
  IN IF f.nbits > WindowSize - SymBits THEN f ELSE FillWindow(f)

DecBitsN(d, n) ==
  LET f == IF d.nbits < n THEN FillWindow(d) ELSE d IN
  [s |-> Low(f.window, n),
   d |-> [f EXCEPT !.window = Shr(@, n), !.nbits = @ - n]]

DecodeUint(d, ft0) ==
  LET ft == ft0 - 1
      shift == ilog(ft) - UintBits IN
  IF shift <= 0 THEN DecodeUniform(d, ft0)
  ELSE LET top == DecodeUniform(d, Shr(ft, shift) + 1)
           low == DecBitsN(top.d, shift)
           v == top.s * 2^shift + low.s
       IN IF v <= ft THEN [s |-> v, d |-> low.d]
          ELSE [s |-> ft, d |-> [low.d EXCEPT !.err = 1]]

-----------------------------------------------------------------------------
(* A symbol with the call that writes it, and a body of them: what the two    *)
(* ends of the wire agree on is the list of calls.                            *)

EncodeSymbol(e, x) ==
  CASE x.call = "Interval" -> Encode(e, x.fl, x.fh, x.ft)
    [] x.call = "BitLogp" -> EncBitLogp(e, x.s, x.n)
    [] x.call = "ICDF" -> EncodeICDF(e, x.s, x.table, x.n)
    [] x.call = "CDF" -> EncodeCDF(e, x.s, x.table)
    [] x.call = "Uint" -> EncodeUint(e, x.s, x.n)
    [] x.call = "RawSymbol" -> EncodeRawSymbol(e, x.s, x.n)
    [] x.call = "BitsN" -> EncBitsN(e, x.s, x.n)

DecodeSymbol(d, x) ==
  CASE x.call = "BitLogp" -> DecBitLogp(d, x.n)
    [] x.call = "ICDF" -> DecodeICDF(d, x.table, x.n)
    [] x.call = "CDF" -> DecodeCDF(d, x.table)
    [] x.call = "Uint" -> DecodeUint(d, x.n)
    [] x.call = "RawSymbol" -> DecodeRawSymbol(d, x.n)
    [] x.call = "BitsN" -> DecBitsN(d, x.n)

\* An error stays, whatever is written after it.
RECURSIVE EncodeSymbols(_, _), DecodeSymbols(_, _)
EncodeSymbols(e, xs) ==
  IF e.err # 0 \/ xs = <<>> THEN Done(e)
  ELSE EncodeSymbols(EncodeSymbol(e, Head(xs)), Tail(xs))

DecodeSymbols(d, xs) ==
  IF xs = <<>> THEN <<>>
  ELSE LET r == DecodeSymbol(d, Head(xs)) IN
       <<r.s>> \o DecodeSymbols(r.d, Tail(xs))

=============================================================================

------------------------------ MODULE RangeStep ------------------------------
(* One symbol of the range coder (media/mlow/rangecoder.go): which part of    *)
(* its interval the encoder keeps for a symbol, and which symbol the decoder  *)
(* finds there.  A coder has val and rng; the encoder's val is the lower end  *)
(* of the interval, and the decoder's is how far the point it reads lies      *)
(* below the interval's last.  RangeCoder adds the bytes.                     *)
EXTENDS Integers, Sequences

Least(a, b) == IF a < b THEN a ELSE b

-----------------------------------------------------------------------------
(* The encoder's choice.                                                      *)

\* The share [fl, fh) of ft.  What the division leaves over goes to the first
\* symbol, which lies lowest.
IntervalOf(e, fl, fh, ft) ==
  LET r == e.rng \div ft IN
  IF fl > 0
  THEN [val |-> e.val + e.rng - r * (ft - fl), rng |-> r * (fh - fl)]
  ELSE [val |-> e.val, rng |-> e.rng - r * (ft - fh)]

\* A bit, of which a one gets s.
BitInterval(e, bit, s) ==
  IF bit # 0 THEN [val |-> e.val + e.rng - s, rng |-> s]
  ELSE [val |-> e.val, rng |-> e.rng - s]

\* Symbol s of a table of what lies above each symbol, in units of r.
IcdfInterval(e, s, icdf, r) ==
  IF s > 0
  THEN [val |-> e.val + e.rng - r * icdf[s], rng |-> r * (icdf[s] - icdf[s + 1])]
  ELSE [val |-> e.val, rng |-> e.rng - r * icdf[s + 1]]

-----------------------------------------------------------------------------
(* The decoder's answer, and what it goes on with.                            *)

CumulativeAt(d, ft, ext) == ft - Least(d.val \div ext + 1, ft)

TakeInterval(d, ext, fl, fh, ft) ==
  LET s == ext * (ft - fh) IN
  [val |-> d.val - s, rng |-> IF fl > 0 THEN ext * (fh - fl) ELSE d.rng - s]

BitAt(d, s) == IF d.val < s THEN 1 ELSE 0

TakeBit(d, s) ==
  IF d.val < s THEN [val |-> d.val, rng |-> s]
  ELSE [val |-> d.val - s, rng |-> d.rng - s]

\* The loop runs down the table and ends with it.
IcdfStops(d, icdf, r, k) == d.val >= r * icdf[k + 1] \/ k = Len(icdf) - 1

IcdfAt(d, icdf, r) ==
  CHOOSE k \in 0 .. Len(icdf) - 1 :
    IcdfStops(d, icdf, r, k) /\ \A j \in 0 .. k - 1 : ~IcdfStops(d, icdf, r, j)

TakeIcdf(d, s, icdf, r) ==
  LET above == IF s = 0 THEN d.rng ELSE r * icdf[s]
      below == r * icdf[s + 1]
  IN [val |-> d.val - below, rng |-> above - below]

\* The symbol of a cumulative table that has fs, counted from its base.
CdfAt(cdf, fs) ==
  CHOOSE k \in 0 .. Len(cdf) - 2 :
    /\ cdf[k + 2] > cdf[1] + fs
    /\ \A j \in 0 .. k - 1 : cdf[j + 2] <= cdf[1] + fs

\* A turn of normalize: the next digit of the point, to the given base.
NextVal(val, digit, base, top) == (val * base + base - 1 - digit) % top

-----------------------------------------------------------------------------
(* A decoder is with an encoder at point p of the interval the encoder has.   *)

Holds(e, p) == p \in e.val .. e.val + e.rng - 1

With(d, e, p) ==
  /\ d.rng = e.rng
  /\ d.val = e.val + e.rng - 1 - p
  /\ Holds(e, p)

=============================================================================

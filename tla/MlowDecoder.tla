----------------------------- MODULE MlowDecoder -----------------------------
(* Reading an MLow payload (media/mlow: red.go, toc.go, decoder.go and the    *)
(* Decode functions): the redundancy layer, the TOC byte and the blocks of    *)
(* the body, each read with the tables the decoder chooses from what it has   *)
(* read. A read returns the decoder after it in field d, and an operator is     *)
(* given the read before its own as an argument.                              *)
EXTENDS MlowFrame

\* What follows when stage 1 and the grid are known.
LsfIndices(stage1, g, st) ==
  LET a == DecodeCDF(g.d, LsfStage2(stage1, g.s, 1))
      b == DecodeCDF(a.d, LsfStage2(stage1, g.s, 2))
      x == DecodeCDF(b.d, LsfExtra)
  IN [lsf |-> [stage1 |-> stage1, grid |-> g.s, stage2 |-> <<a.s, b.s>>, extra |-> x.s],
      st |-> st, d |-> x.d]

LsfAfter(s, st, match) ==
  LsfIndices(s.s, DecodeCDF(s.d, LsfGrid(match, s.s)),
             IF match THEN st ELSE Forgotten(s.s))

DecodeSmplLsf(d0, st, intf) ==
  LET s == DecodeCDF(d0, LsfSel(LsfRow(st, intf)))
  IN LsfAfter(s, st, intf # 0 /\ s.s = st.stage1)

\* The first count whose interval of the prior holds the value.
DecodeCount(d) ==
  LET r == Decode(d, Tri(FrameLen4k))
      from(k) == IF k = 0 THEN 0 ELSE Tri(k - 1)
      hits == {k \in 0 .. FrameLen4k : from(k) <= r.s /\ r.s < Tri(k)}
      k == CHOOSE n \in hits : \A m \in hits : n <= m
  IN IF hits = {} THEN [s |-> FrameLen4k + 1, d |-> r.d]
     ELSE [s |-> k, d |-> Update(r.d, from(k), Tri(k), Tri(FrameLen4k))]

\* -1 for a split that no count allows.
SmplSplit(d, count) ==
  LET hi == Least(count, SubfrLen16)
      lo == AtLeast0(count - SubfrLen16)
      r == DecodeCDF(d, CdfWindow(SplitCmf(count), lo, hi - lo + 2))
  IN CASE count <= 0 -> [s |-> 0, d |-> d]
       [] hi < lo -> [s |-> -1, d |-> d]
       [] hi = lo -> [s |-> lo, d |-> d]
       [] OTHER -> [s |-> r.s + lo, d |-> r.d]

SplitHalves(d, half, rest) ==
  LET a == SmplSplit(d, half)
      b == SmplSplit(a.d, rest)
  IN [subfr |-> IF a.s = -1 \/ b.s = -1 THEN <<0, 0, 0, 0>>
                ELSE <<a.s, half - a.s, b.s, rest - b.s>>,
      d |-> b.d]

DecodeSplit(d, total) ==
  LET from == AtLeast0(total - 2 * SubfrLen16)
      lo == AtLeast0(total - 2 * MaxPulsesPerSf)
      hi == total - lo
      h == IF from < hi
           THEN DecodeCDF(d, CdfWindow(SplitCmf(total), from - lo, hi - from + 2))
           ELSE [s |-> 0, d |-> d]
  IN IF total = 0 THEN [subfr |-> <<0, 0, 0, 0>>, d |-> d]
     ELSE SplitHalves(h.d, from + h.s, total - from - h.s)

\* The pulses of a subframe as a list of positions with their magnitudes.
RECURSIVE DecodeRuns(_, _, _, _, _)
DecodeRuns(d, left, pos, at, found) ==
  IF left = 0 THEN [found |-> found, d |-> d]
  ELSE LET r == DecodeCDF(d, RunTable(pos, left))
           n == Len(found)
       IN DecodeRuns(r.d, left - 1, pos - r.s, at + r.s,
            IF r.s > 0 \/ n = 0 THEN Append(found, [at |-> at + r.s, mag |-> 1])
            ELSE [found EXCEPT ![n].mag = @ + 1])

RECURSIVE DecodeMagnitudes(_, _, _)
DecodeMagnitudes(d, subfr, sf) ==
  IF sf > 4 THEN [found |-> <<>>, d |-> d]
  ELSE LET r == DecodeRuns(d, subfr[sf], PosPerSf, PosPerSf * (sf - 1), <<>>)
           rest == DecodeMagnitudes(r.d, subfr, sf + 1)
       IN [found |-> r.found \o rest.found, d |-> rest.d]

RECURSIVE DecodeSigns(_, _)
DecodeSigns(d, n) ==
  IF n = 0 THEN [signs |-> <<>>, d |-> d]
  ELSE LET b == Least(n, SignBatch)
           r == DecodeRawSymbol(d, b)
           rest == DecodeSigns(r.d, n - b)
           sign(q) == IF Shr(r.s, b - q) % 2 = 1 THEN 1 ELSE -1
       IN [signs |-> [q \in 1 .. b |-> sign(q)] \o rest.signs, d |-> rest.d]

Signed(found, signs) ==
  LET at(p) == {i \in DOMAIN found : found[i].at = p}
      pulse(p) == IF at(p) = {} THEN 0
                  ELSE LET i == CHOOSE j \in at(p) : TRUE IN found[i].mag * signs[i]
  IN [sf \in Subframes |-> [n \in 1 .. PosPerSf |-> pulse(PosPerSf * (sf - 1) + n - 1)]]

PulsesFound(subfr, m) ==
  LET g == DecodeSigns(m.d, Len(m.found)) IN
  [subfr |-> subfr, d |-> g.d, pulses |-> Signed(m.found, g.signs)]

PulsesSplit(s) == PulsesFound(s.subfr, DecodeMagnitudes(s.d, s.subfr, 1))

DecodeSmplPulses(d) ==
  LET c == DecodeCount(d) IN PulsesSplit(DecodeSplit(c.d, c.s))

RECURSIVE DecodeResiduals(_, _, _, _, _)
DecodeResiduals(d, subfr, main, delta, sf) ==
  IF sf > 4 THEN [res |-> <<>>, d |-> d]
  ELSE LET r == IF subfr[sf] <= 0 THEN [s |-> 0, d |-> d]
                ELSE DecodeCDF(d, ResidualTable(subfr[sf], GainQ(main, delta, sf)))
           rest == DecodeResiduals(r.d, subfr, main, delta, sf + 1)
       IN [res |-> <<r.s>> \o rest.res, d |-> rest.d]

DecodeSmplGains(d, subfr) ==
  LET m == DecodeCDF(d, NrgresGain4)
      g == DecodeCDF(m.d, NrgresShape4)
      r == DecodeResiduals(g.d, subfr, m.s, g.s, 1)
  IN [gains |-> [main |-> m.s, delta |-> g.s, res |-> r.res], d |-> r.d]

RECURSIVE DecodeLtp(_, _, _, _)
DecodeLtp(d, st, subfr, sf) ==
  IF sf > 4 THEN [gainIdx |-> <<>>, filtIdx |-> <<>>, st |-> st, d |-> d]
  ELSE LET pulses == subfr[sf] > 0
           g == DecodeCDF(d, AcbgainRow(st.gain))
           f == IF pulses
                THEN DecodeCDF(g.d, IF st.filt = -1 THEN FcbgainV
                                    ELSE FcbgainVDelta(st.filt))
                ELSE [s |-> -1, d |-> g.d]
           rest == DecodeLtp(f.d, [st EXCEPT !.gain = g.s,
                                     !.filt = IF pulses THEN f.s ELSE @],
                             subfr, sf + 1)
       IN [gainIdx |-> <<g.s>> \o rest.gainIdx, filtIdx |-> <<f.s>> \o rest.filtIdx,
           st |-> rest.st, d |-> rest.d]

\* The contour whose number was read: after a known block, the next block and
\* then a number among those that begin with it.
ContourOf(r, first) ==
  [contour |-> CHOOSE i \in DOMAIN ContourMap : ContourMap[i] = r.s + first + 1, d |-> r.d]

ContourAfter(t) ==
  LET range == FirstBlockRange[t.s + 1] IN
  ContourOf(DecodeCDF(t.d, CdfWindow(LagCdf, range[1], range[2] - range[1] + 2)), range[1])

DecodeContour(d, st) ==
  IF st.lag < 0 THEN ContourOf(DecodeCDF(d, LagCdf), 0)
  ELSE ContourAfter(DecodeCDF(d, BlockTransition(st.lag)))

RECURSIVE DecodeSegments(_, _, _, _, _)
DecodeSegments(d, c, k, frac, mode) ==
  IF k > Len(c.blocks) THEN [lags |-> <<>>, frac |-> frac, d |-> d]
  ELSE LET nl2 == c.blocks[k] * BlockSize - frac
           r == DecodeCDF(d, CdfWindow(DeltaLagCmf(mode), nl2 + 2 * BlockSize - 1,
                                       BlockSize + 1))
           lag == r.s + frac + nl2
           rest == DecodeSegments(r.d, c, k + 1, lag, mode)
       IN [lags |-> Repeat(c.lens[k], lag) \o rest.lags, frac |-> rest.frac,
           d |-> rest.d]

\* The first lag in full, unless its block is near the last one of before.
DecodeLags(n, c, st, mode) ==
  LET base == c.blocks[1]
      f == DecodeUniform(n.d, BlockSize)
      first == base * BlockSize + f.s
      segs == DecodeSegments(f.d, c, 2, first, mode)
  IN IF st.lag >= 0 /\ Near(base - st.lag) THEN DecodeSegments(n.d, c, 1, st.frac, mode)
     ELSE [segs EXCEPT !.lags = Repeat(c.lens[1], first) \o @]

PitchOf(ltp, n, c, r) ==
  [pitch |-> [gainIdx |-> ltp.gainIdx, filtIdx |-> ltp.filtIdx,
              contour |-> n.contour, lags |-> r.lags],
   st |-> [ltp.st EXCEPT !.lag = c.blocks[Len(c.blocks)], !.frac = r.frac],
   d |-> r.d]

PitchAfter(ltp, n) ==
  LET c == Contours[n.contour] IN
  PitchOf(ltp, n, c, DecodeLags(n, c, ltp.st, LagMode(MeanGain(ltp.gainIdx))))

LagsAfter(ltp) == PitchAfter(ltp, DecodeContour(ltp.d, ltp.st))

DecodeSmplPitch(d, st, subfr) == LagsAfter(DecodeLtp(d, st, subfr, 1))

\* The parameters of the internal frames from intf on; the predictor outlives
\* the packet.
FrameOf(l, p) ==
  LET v == DecodeSmplPitch(p.d, l.st, p.subfr)
      g == DecodeSmplGains(p.d, p.subfr)
  IN IF l.lsf.stage1 = 1
     THEN [frame |-> [lsf |-> l.lsf, pulses |-> p.pulses, pitch |-> v.pitch],
           st |-> v.st, d |-> v.d]
     ELSE [frame |-> [lsf |-> l.lsf, pulses |-> p.pulses, gains |-> g.gains],
           st |-> l.st, d |-> g.d]

FrameAfter(l) == FrameOf(l, DecodeSmplPulses(l.d))

RECURSIVE DecodeInternal(_, _, _, _)
DecodeInternal(d, st, intf, count) ==
  IF intf = count THEN <<>>
  ELSE LET r == FrameAfter(DecodeSmplLsf(d, st, intf)) IN
       <<r.frame>> \o DecodeInternal(r.d, r.st, intf + 1, count)

Bit(b, i) == Shr(b, i) % 2 = 1

StandardOpusFrameMs(b) ==
  LET config == Shr(b, 3) IN
  IF config < 12 THEN <<10, 20, 40, 60>>[(config % 4) + 1]
  ELSE IF config < 16 THEN <<10, 20>>[((config - 12) % 2) + 1]
  ELSE <<3, 5, 10, 20>>[(config % 4) + 1]

ParseSmplTOC(b) ==
  LET opus == Bit(b, 7) /\ Bit(b, 6) IN
  [stdOpus |-> opus,
   active |-> ~opus /\ ~Bit(b, 7) /\ (Bit(b, 6) \/ Bit(b, 1)),
   rate |-> IF ~opus /\ Bit(b, 5) THEN 32 ELSE 16,
   frameMs |-> IF opus THEN StandardOpusFrameMs(b)
               ELSE <<10, 20, 60, 120>>[((b \div 8) % 4) + 1]]

\* Silence, or the parameters that are synthesized; and how many samples.
DecodeActiveFrame(frame, st, count) ==
  LET toc == ParseSmplTOC(frame.toc) IN
  [samples |-> toc.rate * toc.frameMs,
   params |-> IF toc.stdOpus \/ ~toc.active THEN <<>>
              ELSE DecodeInternal(NewRangeDecoder(frame.body), st, 0, count)]

\* The redundancy layer: headers up to one without the high bit, then the
\* redundant blocks in the order of their headers, then the main frame.
RECURSIVE RedHeaders(_, _, _)
RedHeaders(p, cur, rem) ==
  IF rem = 0 THEN [ok |-> FALSE]
  ELSE IF p[cur] < 128
       THEN IF rem <= 1 THEN [ok |-> FALSE]
            ELSE [ok |-> TRUE, sizes |-> <<>>, cur |-> cur + 1, main |-> rem - 1]
       ELSE IF rem <= 2 \/ p[cur + 1] + 2 >= rem THEN [ok |-> FALSE]
            ELSE LET rest == RedHeaders(p, cur + 2, rem - p[cur + 1] - 2) IN
                 IF ~rest.ok THEN rest
                 ELSE [rest EXCEPT !.sizes = <<[code |-> p[cur] - 128,
                                                size |-> p[cur + 1]]>> \o @]

DepackSplitRed(p) ==
  LET h == RedHeaders(p, 1, Len(p))
      n == Len(h.sizes)
      start(i) == h.cur + Total([j \in 1 .. i - 1 |-> h.sizes[j].size])
      block(i) == [code |-> h.sizes[i].code,
                   data |-> SubSeq(p, start(i), start(i) + h.sizes[i].size - 1)]
  IN IF p = <<>> \/ ~h.ok THEN <<>>
     ELSE [i \in 1 .. n |-> block(i)]
          \o << [code |-> p[h.cur - 1],
                 data |-> SubSeq(p, start(n + 1), start(n + 1) + h.main - 1)] >>
=============================================================================

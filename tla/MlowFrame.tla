------------------------------ MODULE MlowFrame ------------------------------
(* The body of an MLow frame (media/mlow): three internal frames, each of LSF *)
(* indices, pulses and either gains or a pitch block, whose every symbol has  *)
(* a table chosen by what was written before it. The encoder and the decoder  *)
(* choose the tables by different code: the encoder from lag indices, the     *)
(* decoder from contours. Signal processing is left out: a frame is its       *)
(* parameters. The contents of the tables, a ROM, are stand-ins that differ   *)
(* from one another; their shapes and windows are the code's, scaled down.    *)
EXTENDS RangeCoder
LOCAL INSTANCE SequencesExt

CONSTANTS
  MaxPulsesPerSf,   \* pulses a subframe holds (40)
  PosPerSf,         \* sample positions of a subframe (80)
  RunStep,          \* positions a run-length bucket stands for (8)
  SignBatch,        \* signs of one raw symbol (15)
  BlockSize,        \* lag indices of a block (64)
  GainFloor,        \* entries a low gain shifts the residual table by (85)
  MaxCmf,           \* the total a table is scaled to (32767)
  EncodeBufBytes    \* capacity of the encoder's body (512)

Subframes == 1 .. 4
Coeffs == 1 .. 2
FrameLen4k == 4 * MaxPulsesPerSf
SubfrLen16 == FrameLen4k \div 4

AtLeast0(n) == IF n > 0 THEN n ELSE 0

RECURSIVE Total(_)
Total(xs) == IF xs = <<>> THEN 0 ELSE Head(xs) + Total(Tail(xs))

-----------------------------------------------------------------------------
(* Tables.                                                                    *)

\* The stand-in for what the ROM holds: n weights of the table "salt".
Pdf(n, salt) == [i \in 1 .. n |-> 1 + ((3 * i + salt) % 5)]

RECURSIVE Accumulate(_, _, _)
Accumulate(c, pdf, i) ==
  IF i > Len(pdf) THEN c
  ELSE Accumulate(Append(c, c[i] + 1 + (pdf[i] * (MaxCmf - Len(pdf))) \div Total(pdf)),
                  pdf, i + 1)
PdfToCmf(pdf) == Accumulate(<<0>>, pdf, 1)
CmfTable == [n \in 1 .. 5 * BlockSize |->
               [salt \in 0 .. 6 * MaxPulsesPerSf |-> PdfToCmf(Pdf(n, salt))]]
Cmf(n, salt) == CmfTable[n][salt]

\* n entries of a table from start, 0 outside it.
CdfWindow(base, start, n) ==
  [i \in 1 .. n |-> IF start + i \in 1 .. Len(base) THEN base[start + i] ELSE 0]

LsfSel(sel) == Cmf(2, sel)
LsfGrid(match, stage1) ==
  Cmf(2, (IF match THEN 2 ELSE 0) + (IF stage1 # 0 THEN 1 ELSE 3))
LsfStage2(stage1, grid, k) == Cmf(2 + (k % 2), 4 * stage1 + 2 * grid + k)
LsfExtra == Cmf(3, 1)
SplitCmf(total) ==
  Cmf(total + 1 - 2 * AtLeast0(total - 2 * MaxPulsesPerSf), total)
\* The run-length table of a bucket for c pulses, from the positions left.
RunTable(pos, c) ==
  LET oct == (pos + RunStep - 1) \div RunStep IN
  CdfWindow(Cmf(oct * RunStep, oct + 2 * c), oct * RunStep - pos, pos + 1)
NrgresGain4 == Cmf(3, 2)
NrgresShape4 == Cmf(2, 4)
FcbgOffset(bucket, minOffset) == CdfWindow(Cmf(GainFloor + 3, bucket), minOffset, 4)
GainRecon(i) == (i * 700) % 1700
AcbgainRow(prev) == Cmf(3, prev + 1)
AcbgainWeights(gi) == <<gi * 5000, gi * 2000>>
FcbgainV == Cmf(3, 1)
FcbgainVDelta(prev) == CdfWindow(Cmf(5, 2), 2 - prev, 4)

\* The contours: blocks of lags with their lengths in pitch sub-blocks, their
\* numbers in the order of their first blocks, and the numbers of each block.
Contours == << [blocks |-> <<0, 1>>, lens |-> <<1, 2>>],
               [blocks |-> <<1, 3>>, lens |-> <<2, 1>>],
               [blocks |-> <<0, 0, 2>>, lens |-> <<1, 1, 1>>],
               [blocks |-> <<2, 1>>, lens |-> <<1, 2>>],
               [blocks |-> <<1, 0>>, lens |-> <<1, 2>>],
               [blocks |-> <<3, 2>>, lens |-> <<2, 1>>] >>
ContourMap == <<1, 3, 2, 5, 4, 6>>
FirstBlockRange == << <<0, 1>>, <<2, 3>>, <<4, 4>>, <<5, 5>> >>
NumBlocks == Len(FirstBlockRange)
LagCdf == Cmf(Len(Contours), 3)
BlockTransition(blk) == Cmf(NumBlocks, blk)
DeltaLagCmf(mode) == Cmf(5 * BlockSize - 1, mode)

\* Which delta table: by the mean gain of the long-term predictor.
LagMode(avgGain) ==
  IF avgGain < 10007 THEN 0 ELSE IF avgGain < 14085 THEN 1 ELSE 2
MeanGain(gainIdx) ==
  LET w(sf) == AcbgainWeights(gainIdx[sf]) IN
  Total([sf \in Subframes |-> w(sf)[1] + 2 * w(sf)[2]]) \div 4

\* The residual table of a subframe: by its pulses and by its coded gain.
GainQ(main, delta, sf) ==
  main * 16384 - GainFloor * 16384 + GainRecon(sf - 1 + 4 * delta) * 16
ResidualTable(cnt, gainQ) ==
  LET g == (gainQ + 8192) \div 16384
      low == IF g < -GainFloor THEN -GainFloor ELSE g
  IN FcbgOffset(Least(cnt, 3), IF low < 0 THEN -low ELSE 0)

\* What one internal frame leaves for the next: nothing known is -1.
Forgotten(stage1) ==
  [stage1 |-> stage1, gain |-> -1, filt |-> -1, lag |-> -1, frac |-> -1]

-----------------------------------------------------------------------------
(* The encoder: the symbols of each block, and the predictor after it.        *)

CDF(s, table) == [call |-> "CDF", s |-> s, table |-> table]
Interval(fl, fh, ft) == [call |-> "Interval", fl |-> fl, fh |-> fh, ft |-> ft]

LsfRow(st, intf) == IF intf = 0 THEN 0 ELSE IF st.stage1 # 0 THEN 2 ELSE 1

AdvanceLsfState(st, intf, stage1) ==
  IF intf # 0 /\ stage1 = st.stage1 THEN st ELSE Forgotten(stage1)

LsfSymbols(st, intf, lsf) ==
  LET match == intf # 0 /\ lsf.stage1 = st.stage1 IN
  << CDF(lsf.stage1, LsfSel(LsfRow(st, intf))),
     CDF(lsf.grid, LsfGrid(match, lsf.stage1)) >>
  \o [k \in Coeffs |-> CDF(lsf.stage2[k], LsfStage2(lsf.stage1, lsf.grid, k))]
  \o << CDF(lsf.extra, LsfExtra) >>

\* The pulses of each subframe as distances between positions, a distance of
\* 0 for each further pulse of a position, and the signs in batches.
Repeat(n, x) == [i \in 1 .. n |-> x]
Magnitude(a) == IF a < 0 THEN -a ELSE a

RECURSIVE Runs(_, _)
Runs(pulses, gap) ==
  IF pulses = <<>> THEN <<>>
  ELSE LET a == Magnitude(Head(pulses)) IN
       IF a = 0 THEN Runs(Tail(pulses), gap + 1)
       ELSE <<gap>> \o Repeat(a - 1, 0) \o Runs(Tail(pulses), 1)

RECURSIVE SignSyms(_), Bits(_)
Bits(signs) ==
  IF signs = <<>> THEN 0
  ELSE (IF signs[Len(signs)] > 0 THEN 1 ELSE 0)
       + 2 * Bits(SubSeq(signs, 1, Len(signs) - 1))
SignSyms(signs) ==
  LET n == Least(Len(signs), SignBatch) IN
  IF n = 0 THEN <<>>
  ELSE << [call |-> "RawSymbol", s |-> Bits(SubSeq(signs, 1, n)), n |-> n] >>
       \o SignSyms(SubSeq(signs, n + 1, Len(signs)))

BuildPulseParams(pulses) ==
  LET count(sf) == Total([n \in 1 .. PosPerSf |-> Magnitude(pulses[sf][n])])
      all == FlattenSeq(pulses)
  IN [subfr |-> [sf \in Subframes |-> count(sf)],
      magRuns |-> [sf \in Subframes |-> Runs(pulses[sf], 0)],
      signSyms |-> SignSyms(SelectSeq(all, LAMBDA a : a # 0))]

\* The triangular prior of the pulse count, in 16 bits.
Tri(k) ==
  ((k + 2) * (FrameLen4k + 1) - ((k - 1) * (k - 2)) \div 2) % 2^16

SplitSymbols(count, s0) ==
  LET hi == Least(count, SubfrLen16)
      lo == AtLeast0(count - SubfrLen16)
  IN IF hi <= lo THEN <<>>
     ELSE << CDF(s0 - lo, CdfWindow(SplitCmf(count), lo, hi - lo + 2)) >>

RECURSIVE RunSymbols(_, _)
RunSymbols(runs, pos) ==
  IF runs = <<>> THEN <<>>
  ELSE << CDF(Head(runs), RunTable(pos, Len(runs))) >>
       \o RunSymbols(Tail(runs), pos - Head(runs))

PulseSymbols(pp) ==
  LET total == Total(pp.subfr)
      half == pp.subfr[1] + pp.subfr[2]
      from == AtLeast0(total - 2 * SubfrLen16)
      lo == AtLeast0(total - 2 * MaxPulsesPerSf)
      hi == total - lo
      count == Interval(IF total > 0 THEN Tri(total - 1) ELSE 0,
                        Tri(total), Tri(FrameLen4k))
  IN IF total = 0 THEN << count >>
     ELSE << count >>
          \o (IF from < hi
              THEN << CDF(half - from,
                          CdfWindow(SplitCmf(total), from - lo, hi - from + 2)) >>
              ELSE <<>>)
          \o (IF half > 0 THEN SplitSymbols(half, pp.subfr[1]) ELSE <<>>)
          \o (IF half < total THEN SplitSymbols(total - half, pp.subfr[3]) ELSE <<>>)
          \o FlattenSeq([sf \in Subframes |-> RunSymbols(pp.magRuns[sf], PosPerSf)])
          \o pp.signSyms

GainSymbols(subfr, g) ==
  << CDF(g.main, NrgresGain4), CDF(g.delta, NrgresShape4) >>
  \o FlattenSeq([sf \in Subframes |->
       IF subfr[sf] <= 0 THEN <<>>
       ELSE << CDF(g.res[sf],
                   ResidualTable(subfr[sf], GainQ(g.main, g.delta, sf))) >>])

RECURSIVE LtpSymbols(_, _, _, _)
LtpSymbols(st, subfr, p, sf) ==
  IF sf > 4 THEN [st |-> st, xs |-> <<>>]
  ELSE LET pulses == subfr[sf] > 0
           rest == LtpSymbols([st EXCEPT !.gain = p.gainIdx[sf],
                                 !.filt = IF pulses THEN p.filtIdx[sf] ELSE @],
                              subfr, p, sf + 1)
           filt == CDF(p.filtIdx[sf], IF st.filt = -1 THEN FcbgainV
                                      ELSE FcbgainVDelta(st.filt))
       IN [st |-> rest.st,
           xs |-> << CDF(p.gainIdx[sf], AcbgainRow(st.gain)) >>
                  \o (IF pulses THEN << filt >> ELSE <<>>) \o rest.xs]

Near(delta) == delta >= -1 /\ delta <= 2

\* The lags of the segments from k on, each a difference to the lag before it.
RECURSIVE SegmentSymbols(_, _, _, _, _)
SegmentSymbols(c, lags, k, prev, mode) ==
  IF k > Len(c.blocks) THEN <<>>
  ELSE LET idx == lags[Total(SubSeq(c.lens, 1, k - 1)) + 1]
           start == c.blocks[k] * BlockSize - prev
           base == start + 2 * BlockSize - 1
           at(i) == DeltaLagCmf(mode)[base + i + 1] - DeltaLagCmf(mode)[base + 1]
           i == idx - prev - start
       IN << Interval(at(i), at(i + 1), at(BlockSize)) >>
          \o SegmentSymbols(c, lags, k + 1, idx, mode)

\* The number of the contour, or its first block and its place among those
\* that begin there; the first lag in full unless it is near the last one.
EncodeLagsWire(st, p, mode) ==
  LET c == Contours[p.contour]
      ix == ContourMap[p.contour]
      b0 == c.blocks[1]
      known == st.lag >= 0
      range == FirstBlockRange[b0 + 1]
      from == LagCdf[range[1] + 1]
      t == BlockTransition(st.lag)
      fine == ~(known /\ Near(b0 - st.lag))
      off == p.lags[1] - b0 * BlockSize
  IN (IF ~known
      THEN << Interval(LagCdf[ix], LagCdf[ix + 1], LagCdf[Len(LagCdf)]) >>
      ELSE << Interval(t[b0 + 1], t[b0 + 2], t[NumBlocks + 1]),
              Interval(LagCdf[ix] - from, LagCdf[ix + 1] - from,
                       LagCdf[range[2] + 2] - from) >>)
     \o (IF fine THEN << Interval(off, off + 1, BlockSize) >> ELSE <<>>)
     \o SegmentSymbols(c, p.lags, IF fine THEN 2 ELSE 1,
                       IF fine THEN p.lags[1] ELSE st.frac, mode)

\* Mutant: the block the contour began with is kept.
LagsPredictorAfterMutant(st, p) ==
  [st EXCEPT !.lag = Contours[p.contour].blocks[1], !.frac = p.lags[Len(p.lags)]]

LagsPredictorAfter(st, p) ==
  LET blocks == Contours[p.contour].blocks IN
  [st EXCEPT !.lag = blocks[Len(blocks)], !.frac = p.lags[Len(p.lags)]]

(* All the symbols of a packet: what precedes a frame in it chooses tables.   *)
RECURSIVE FrameSymbols(_, _, _)
FrameSymbols(st, intf, frames) ==
  IF intf = Len(frames) THEN <<>>
  ELSE LET f == frames[intf + 1]
           pp == BuildPulseParams(f.pulses)
           st1 == AdvanceLsfState(st, intf, f.lsf.stage1)
           ltp == LtpSymbols(st1, pp.subfr, f.pitch, 1)
           voiced == f.lsf.stage1 = 1
       IN LsfSymbols(st, intf, f.lsf) \o PulseSymbols(pp)
          \o (IF voiced
              THEN ltp.xs \o EncodeLagsWire(ltp.st, f.pitch,
                                            LagMode(MeanGain(f.pitch.gainIdx)))
              ELSE GainSymbols(pp.subfr, f.gains))
          \o FrameSymbols(IF voiced THEN LagsPredictorAfter(ltp.st, f.pitch)
                          ELSE st1, intf + 1, frames)

\* [TOC || body], and only as much of the buffer as was written from its front.
EncodeSmplFrame(frames) ==
  LET e == EncodeSymbols(NewRangeEncoder(EncodeBufBytes),
                         FrameSymbols(Forgotten(0), 0, frames))
  IN IF e.err # 0 THEN [err |-> TRUE]
     ELSE [err |-> FALSE, toc |-> 80, body |-> SubSeq(e.buf, 1, ConsumedLen(e))]
=============================================================================

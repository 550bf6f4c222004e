------------------------------ MODULE PcmStream ------------------------------
(* Samples on their way into a call (media/pcm.go) from the two sources that  *)
(* bring them in pieces of any length: the audio websocket                    *)
(* (handleDirectAudioWS) and the live agent (readLoop). A float sample is its *)
(* numerator over 65536, so that the halves of the resampler are whole.       *)
(* Each source is a reader that goes from message to message; came and spoken  *)
(* remember the bytes it was sent since it was last cleared.                   *)
EXTENDS Integers, Sequences

\* The largest multiple of n in the length of a sequence.
Whole(s, n) == (Len(s) \div n) * n
Rest(s, k) == SubSeq(s, k + 1, Len(s))

PCMInt16LEToFloat32(bs) ==
  [i \in 1 .. Len(bs) \div 2 |->
     LET v == bs[2 * i - 1] + 256 * bs[2 * i]
     IN 2 * (IF v >= 32768 THEN v - 65536 ELSE v)]

\* Truncated towards zero, after a product with 32767, not 32768.
FloatToInt16(x) ==
  IF x >= 65536 THEN 32767
  ELSE IF x <= -65536 THEN -32768
  ELSE IF x >= 0 THEN (x * 32767) \div 65536 ELSE -((-x * 32767) \div 65536)

PCMFloat32ToInt16LE(pcm) ==
  LET bytes(k) == LET v == FloatToInt16(pcm[k])
                      u == IF v < 0 THEN v + 65536 ELSE v
                  IN <<u % 256, u \div 256>>
  IN [i \in 1 .. 2 * Len(pcm) |-> bytes((i + 1) \div 2)[2 - (i % 2)]]

\* The samples of a are those of b but for the last bit, none of them flipped.
SignalKept(a, b) ==
  LET x == PCMInt16LEToFloat32(a)  y == PCMInt16LEToFloat32(b) IN
  /\ Len(x) = Len(y)
  /\ \A i \in DOMAIN x : x[i] - y[i] \in -2 .. 2 /\ ~(x[i] > 0 /\ y[i] < 0)

\* Two samples for three: the first, and the mean of the others. (Clamping has
\* nothing to do for samples that were 16 bits.)
Downsample(s) ==
  [i \in 1 .. 2 * (Len(s) \div 3) |->
     LET b == 3 * ((i - 1) \div 2) IN
     IF i % 2 = 1 THEN s[b + 1] ELSE (s[b + 2] + s[b + 3]) \div 2]

\* Resampler24kTo16k: what is left over waits for the next piece.
Process(buf, in) ==
  LET all == buf \o in IN
  IF in = <<>> \/ Len(all) < 3 THEN [out |-> <<>>, buf |-> all]
  ELSE [out |-> Downsample(all), buf |-> Rest(all, Whole(all, 3))]

\* A resampler of its own for what is whole.
Resample24kTo16k(in) == Process(<<>>, in).out

-----------------------------------------------------------------------------
VARIABLES
  direct,  \* the websocket: its rate, byteBuf, resampleBuf, and what it fed since the last flush
  voice,    \* the agent: the resampler's buf, and what it fed since the last flush
  came,    \* history: the bytes that came by the websocket since the last flush
  spoken   \* history: the bytes of the agent's parts since the last interruption

streamVars == <<direct, voice, came, spoken>>

\* A message brings bytes (binary, or base64 in a text), or clears, or has neither.
Message == [kind : {"audio", "clear", "other"}, bytes : Seq(0 .. 255)]

NewDirect(rate) == [rate |-> rate, bytes |-> <<>>, samples |-> <<>>, queue |-> <<>>]

NewVoice == [buf |-> <<>>, queue |-> <<>>]

StreamInit ==
  /\ \E rate \in {16000, 24000} : direct = NewDirect(rate)
  /\ voice = NewVoice
  /\ came = <<>> /\ spoken = <<>>

(* handleDirectAudioWS.                                                      *)

\* Mutant: an odd byte is dropped.
OddByteMutant(bytes) == <<>>

\* The byte that waits for the other half of its sample.
OddByte(bytes) == Rest(bytes, Whole(bytes, 2))

\* What is kept, and what is fed to the call.
Fed(s, bytes, samples, audio) ==
  [rate |-> s.rate, bytes |-> bytes, samples |-> samples, queue |-> s.queue \o audio]

ReadAudio(s, bytes) ==
  LET all == s.bytes \o bytes
      pcm == PCMInt16LEToFloat32(all)
      samples == s.samples \o pcm
      n == Whole(samples, 3)
  IN IF bytes = <<>> \/ Len(all) < 2 THEN Fed(s, all, s.samples, <<>>)
     ELSE IF s.rate # 24000 THEN Fed(s, OddByte(all), s.samples, pcm)
     ELSE Fed(s, OddByte(all), Rest(samples, n), Resample24kTo16k(SubSeq(samples, 1, n)))

ReadMessage(m) ==
  /\ \/ m.kind = "clear" /\ direct' = NewDirect(direct.rate) /\ came' = <<>>
     \/ m.kind = "audio" /\ direct' = ReadAudio(direct, m.bytes) /\ came' = came \o m.bytes
     \/ m.kind = "other" /\ UNCHANGED <<direct, came>>
  /\ UNCHANGED <<voice, spoken>>

(* readLoop: an interruption flushes and resets, a part goes through the        *)
(* resampler. The dsp behind it, which returns as many samples as it is given, is *)
(* left out. Gemini sends whole samples (external): an odd byte at the end of a  *)
(* part would be left out.                                                   *)
ReadPart(m) ==
  /\ \/ m.kind = "clear" /\ voice' = NewVoice /\ spoken' = <<>>
     \/ /\ m.kind = "audio" /\ Len(m.bytes) % 2 = 0
        /\ LET r == Process(voice.buf, PCMInt16LEToFloat32(m.bytes)) IN
             voice' = [buf |-> r.buf, queue |-> voice.queue \o r.out]
        /\ spoken' = spoken \o m.bytes
     \/ m.kind = "other" /\ UNCHANGED <<voice, spoken>>
  /\ UNCHANGED <<direct, came>>

StreamNext == \E m \in Message : ReadMessage(m) \/ ReadPart(m)

StreamSpec == StreamInit /\ [][StreamNext]_streamVars

-----------------------------------------------------------------------------
(* However a source cuts its audio into pieces, the call is fed the samples   *)
(* that the whole of it gives: bytes and samples left over from a piece wait  *)
(* for the next one, and a clear takes everything that was before it.         *)
CutsInaudible ==
  /\ direct.queue = IF direct.rate = 24000 THEN Downsample(PCMInt16LEToFloat32(came))
                    ELSE PCMInt16LEToFloat32(came)
  /\ voice.queue = Downsample(PCMInt16LEToFloat32(spoken))

(* Why it is so: what waits is what does not make a sample, or three, yet.      *)
LeftOver ==
  LET heard == PCMInt16LEToFloat32(came)
      said == PCMInt16LEToFloat32(spoken) IN
  /\ direct.bytes = Rest(came, Whole(came, 2))
  /\ direct.samples = IF direct.rate = 24000 THEN Rest(heard, Whole(heard, 3)) ELSE <<>>
  /\ voice.buf = Rest(said, Whole(said, 3))
  /\ Len(spoken) % 2 = 0

StreamTypeOK ==
  /\ direct \in [rate : {16000, 24000}, bytes : Seq(0 .. 255), samples : Seq(Int), queue : Seq(Int)]
  /\ voice \in [buf : Seq(Int), queue : Seq(Int)]
  /\ came \in Seq(0 .. 255) /\ spoken \in Seq(0 .. 255)

StreamInv == StreamTypeOK /\ LeftOver /\ CutsInaudible
=============================================================================

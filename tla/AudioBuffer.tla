----------------------------- MODULE AudioBuffer -----------------------------
(***************************************************************************)
(* The parts of webrtc/modules/audio_processing that APM_NS puts its       *)
(* frames through: AudioBuffer, its IFChannelBuffers and SplittingFilter.  *)
(*                                                                         *)
(* An IFChannelBuffer holds its channels twice, as shorts and as floats,   *)
(* and which of the two is valid.  A caller of ibuf or fbuf may write what *)
(* it gets, which makes the other copy invalid for all channels; it is     *)
(* converted anew when it is asked for.                                    *)
(*                                                                         *)
(* At 32000 and 48000 the frame is split into bands with a buffer each.    *)
(* No call treats one band otherwise than the others, so one buffer, split, *)
(* stands for all of them; the filters move samples and change none.       *)
(***************************************************************************)
EXTENDS Naturals, Sequences

\* A new buffer: both copies are valid.
IFChannelBuffer(chans) == [i |-> chans, f |-> chans, ivalid |-> TRUE, fvalid |-> TRUE]

RefreshI(b) == IF b.ivalid THEN b ELSE [b EXCEPT !.i = b.f, !.ivalid = TRUE]
RefreshF(b) == IF b.fvalid THEN b ELSE [b EXCEPT !.f = b.i, !.fvalid = TRUE]

\* The buffer after a call of ibuf, ibuf_const, fbuf and fbuf_const.
ibuf(b) == [RefreshI(b) EXCEPT !.fvalid = FALSE]
ibuf_const(b) == RefreshI(b)
fbuf_const(b) == RefreshF(b)

\* Variant: the shorts stay valid when the floats are handed out.
fbufKeepsI(b) == RefreshF(b)
fbuf(b) == [RefreshF(b) EXCEPT !.ivalid = FALSE]

\* An AudioBuffer made for so many frames and c channels, of which n samples per
\* channel are looked at.  What is in it is no sample of the frame to come.  A
\* later frame finds what the one before has left, with valid shorts; that makes
\* no difference, as the first call for either buffer is ibuf.
Old(c, n) == [ch \in 0 .. c - 1 |-> [j \in 0 .. n - 1 |-> [from |-> c * n, stages |-> <<>>]]]
AudioBuffer(frames, c, n) ==
  [splits |-> frames \in {320, 480},
   channels |-> IFChannelBuffer(Old(c, n)),
   split |-> IFChannelBuffer(Old(c, n))]

\* data(ch), and what is written through the pointer it returns.
Data(ab, ch) == ibuf(ab.channels).i[ch]
WithData(ab, ch, samples) ==
  [ab EXCEPT !.channels = [ibuf(@) EXCEPT !.i[ch] = samples]]

\* The buffer split_bands and split_bands_f hand out: the bands, or the single
\* band that is the frame itself.
Bands(ab) == IF ab.splits THEN ab.split ELSE ab.channels
WithBands(ab, b) == IF ab.splits THEN [ab EXCEPT !.split = b] ELSE [ab EXCEPT !.channels = b]

\* The samples of a channel have gone through a stage.
Through(stage, samples) ==
  [j \in DOMAIN samples |-> [samples[j] EXCEPT !.stages = Append(@, stage)]]

\* A stage reads the const bands of a channel and writes its bands, as shorts or
\* as floats.
OnShorts(ab, ch, stage) ==
  LET b == ibuf(ibuf_const(Bands(ab))) IN WithBands(ab, [b EXCEPT !.i[ch] = Through(stage, @)])
OnFloats(ab, ch, stage) ==
  LET b == fbuf(fbuf_const(Bands(ab))) IN WithBands(ab, [b EXCEPT !.f[ch] = Through(stage, @)])

SplitIntoFrequencyBands(ab) ==
  LET in == ibuf_const(ab.channels)
  IN [ab EXCEPT !.channels = in, !.split = [ibuf(@) EXCEPT !.i = in.i]]

MergeFrequencyBands(ab) ==
  LET in == ibuf_const(ab.split)
  IN [ab EXCEPT !.split = in, !.channels = [ibuf(@) EXCEPT !.i = in.i]]
=============================================================================

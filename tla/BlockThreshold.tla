--------------------------- MODULE BlockThreshold ---------------------------
(***************************************************************************)
(* The block-thresholding denoiser of                                      *)
(* Denoise/BlockThresholding/src/audioDenoiseBlockTreshold.c.              *)
(*                                                                         *)
(* A caller feeds half windows of samples.  Each one, with the one before  *)
(* it, is windowed and transformed to a frame of coefficients; when        *)
(* max_nblk_time frames have come together the macro block is filtered,    *)
(* transformed back and overlap-added to the output buffer.                *)
(*                                                                         *)
(* Samples are abstracted to half windows.  A half window has a number     *)
(* (its place in the input since the last reset, 0 being the zeros that    *)
(* init and reset leave in inbuf) and a kind, which says where it is zero: *)
(* the Hanning window is 0 at its two ends, so that a half window whose    *)
(* only sound is its first (last) sample vanishes under the rising         *)
(* (falling) side of the window.  What a frame contributes to the output   *)
(* is its older half under the rising side and its newer half under the    *)
(* falling side; the output is the input only where both meet.             *)
(***************************************************************************)
EXTENDS Integers, Sequences

CONSTANTS
  MaxNblkTime,  \* max_nblk_time: frames in a macro block (8 in the code)
  NblkTime,     \* nblk_time: ways to cut it in time (3)
  MaxNblkFreq,  \* max_nblk_freq: columns of a block (16)
  TimeWins,     \* values of time_win given to blockThreshold_init, in ms
  Rates,        \* values of fs given to blockThreshold_init
  InputKinds,   \* the kinds of half windows callers feed, see Kinds
  MaxHalves     \* bound: half windows fed since the last init or reset

ASSUME BlockThresholdAssumption ==
  /\ MaxNblkTime \in Nat \ {0}
  /\ NblkTime \in Nat \ {0}
  /\ MaxNblkFreq \in Nat \ {0}
  /\ TimeWins \subseteq Int /\ Rates \subseteq Int
  /\ InputKinds \subseteq {"silent", "first", "last", "sound"}
  /\ MaxHalves \in Nat

VARIABLES
  handle,    \* "null", "live", "broken" (init ran out of memory), "freed"
             \* or "crashed"
  win_size,  \* window size in samples
  have,      \* have_nblk_time: frames collected for the next macro block
  inbuf,     \* the two half windows in the input buffer
  coef,      \* stft_coef: the frames of coefficients
  outbuf,    \* the max_nblk_time + 1 half windows of the output buffer
  fed,       \* number of half windows accepted since init or reset
  flushed,   \* flush was called since init or reset
  out,       \* the half windows the last output or flush call delivered
  outFmt,    \* the sample format it delivered them in
  ret        \* return value of the last call

bufVars == <<handle, win_size, have, inbuf, coef, outbuf, fed, flushed>>
vars == <<handle, win_size, have, inbuf, coef, outbuf, fed, flushed,
          out, outFmt, ret>>
-----------------------------------------------------------------------------
Kinds == {"silent", "first", "last", "sound"}
Half == [n : Nat, kind : Kinds]
Zeros == [n |-> 0, kind |-> "silent"]

\* Where the two sides of the Hanning window leave nothing of a half window.
RiseIsZero(h) == h.kind \in {"silent", "first"}
FallIsZero(h) == h.kind \in {"silent", "last"}

Frames == 0 .. MaxNblkTime - 1

\* A frame of coefficients: the two half windows it was computed from,
\* whether the filter has been applied to it, and whether that made it NaN.
Frame == [older : Half, newer : Half, filtered : BOOLEAN, nan : BOOLEAN]
FrameIsZero(f) == RiseIsZero(f.older) /\ FallIsZero(f.newer)

\* One side of a half window of output: which half window it stems from.
\* Memory that holds no contribution yet is zero: Nothing.
Nothing == [half |-> Zeros, filtered |-> FALSE, nan |-> FALSE, any |-> FALSE]
Side == [half : Half, filtered : BOOLEAN, nan : BOOLEAN, any : BOOLEAN]
OlderSide(f) ==
  [half |-> f.older, filtered |-> f.filtered, nan |-> f.nan, any |-> TRUE]
NewerSide(f) ==
  [half |-> f.newer, filtered |-> f.filtered, nan |-> f.nan, any |-> TRUE]

Silence == [fall |-> Nothing, rise |-> Nothing]

\* The worst that uninitialised memory may hold.
Garbage == [older |-> Zeros, newer |-> Zeros, filtered |-> TRUE, nan |-> TRUE]
-----------------------------------------------------------------------------
(***************************************************************************)
(* Spectrum geometry: which columns blockThreshold_core thresholds as DC,  *)
(* in blocks, and one by one, and which columns the Wiener filter visits.  *)
(***************************************************************************)
half_win_size == win_size \div 2

\* The last column of a frame: the Nyquist frequency.
Nyquist == win_size \div 2

half_nb_macroblk_frq == ((win_size - 1) \div 2) \div MaxNblkFreq
BlockColumns(i) == 1 + i * MaxNblkFreq .. (i + 1) * MaxNblkFreq
LastColumnsLate == 2 + half_nb_macroblk_frq * MaxNblkFreq .. Nyquist  \* variant
LastColumns == 1 + half_nb_macroblk_frq * MaxNblkFreq .. Nyquist
WienerColumns == 0 .. (win_size + 1) \div 2 - 1
-----------------------------------------------------------------------------
(***************************************************************************)
(* blockThreshold_core.  Gains are abstracted to their being numbers.  In  *)
(* a block, a tile of zero energy has SURE risk temp/0 * 0, a NaN, and a   *)
(* segmentation with a NaN risk never compares less than the minimum; the  *)
(* search starts from the whole block, so that one is kept when its own    *)
(* risk is NaN.  The gain of a tile of zero power is -inf * 0, a NaN.  The *)
(* risk looks at real parts only, which may vanish where the power does    *)
(* not.  The DC and last columns clamp their gain with an if and have no   *)
(* NaN.  A row is silent in every block or in none.                        *)
(***************************************************************************)
TileRows(T, ii) ==
  LET TT == MaxNblkTime \div (2 ^ T) IN ii * TT .. (ii + 1) * TT - 1

Tiles(T) == {TileRows(T, ii) : ii \in 0 .. 2 ^ T - 1}

\* The segmentations in time blockThreshold_adaptive_block may choose, given
\* the rows whose real parts are all zero.
AnySegTime(realZero) == 0 .. NblkTime - 1  \* variant: a NaN risk may win

SegTimes(realZero) ==
  IF Frames \subseteq realZero
    THEN {0}
    ELSE {T \in 0 .. NblkTime - 1 : \A tile \in Tiles(T) : ~(tile \subseteq realZero)}

\* The rows blockTreshold_compute_thre gives a NaN gain.
NaNRows(T, zero) == UNION {tile \in Tiles(T) : tile \subseteq zero}

\* The frames after core, one outcome for every choice the energies allow.
AfterCore(frames) ==
  LET zero == {i \in Frames : FrameIsZero(frames[i])} IN
  IF half_nb_macroblk_frq <= 0
    THEN {[i \in Frames |-> [frames[i] EXCEPT !.filtered = TRUE]]}
    ELSE {[i \in Frames |-> [frames[i] EXCEPT !.filtered = TRUE,
                                              !.nan = i \in NaNRows(T, zero)]] :
            T \in UNION {SegTimes(zero \cup R) : R \in SUBSET Frames}}

\* blockThreshold_inverse_STFT, and the same code in both flush functions:
\* the last half window of outbuf moves to its front, the rest is cleared,
\* and the first n frames are overlap-added.
\* Variant: the last half window is not carried over.
OverlapAddNoCarry(frames, n) ==
  [i \in 0 .. MaxNblkTime |->
     [fall |-> IF i \in 1 .. n THEN NewerSide(frames[i - 1]) ELSE Nothing,
      rise |-> IF i < n THEN OlderSide(frames[i]) ELSE Nothing]]

OverlapAdd(frames, n) ==
  [i \in 0 .. MaxNblkTime |->
     [fall |-> IF i = 0 THEN outbuf[MaxNblkTime].fall
               ELSE IF i <= n THEN NewerSide(frames[i - 1]) ELSE Nothing,
      rise |-> IF i < n THEN OlderSide(frames[i])
               ELSE IF i = 0 THEN outbuf[MaxNblkTime].rise ELSE Nothing]]
-----------------------------------------------------------------------------
Init ==
  /\ handle = "null"
  /\ win_size = 0 /\ have = 0
  /\ inbuf = <<Zeros, Zeros>>
  /\ coef = [i \in Frames |-> Garbage]
  /\ outbuf = [i \in 0 .. MaxNblkTime |-> Silence]
  /\ fed = 0 /\ flushed = FALSE
  /\ out = <<>> /\ outFmt = "int16" /\ ret = "OK"

\* blockThreshold_init: the window is made even.  stft_coef comes from malloc
\* and is not cleared.
WinSize(time_win, fs) ==
  LET w == (fs \div 1000) * time_win IN IF w % 2 = 1 THEN w + 1 ELSE w

InitOk(time_win, fs) ==
  /\ handle # "live" /\ handle # "crashed"
  /\ time_win > 0 /\ fs > 0
  /\ handle' = "live"
  /\ win_size' = WinSize(time_win, fs)
  /\ have' = 0
  /\ inbuf' = <<Zeros, Zeros>>
  /\ coef' = [i \in Frames |-> Garbage]
  /\ outbuf' = [i \in 0 .. MaxNblkTime |-> Silence]
  /\ fed' = 0 /\ flushed' = FALSE
  /\ out' = <<>> /\ ret' = "OK"
  /\ UNCHANGED outFmt

InitRefused(time_win, fs) ==
  /\ handle # "live" /\ handle # "crashed"
  /\ time_win <= 0 \/ fs <= 0
  /\ handle' = "null"
  /\ ret' = "ERROR_PARAMS"
  /\ UNCHANGED <<win_size, have, inbuf, coef, outbuf, fed, flushed, out, outFmt>>

\* A failed malloc: of the handle itself, or of a buffer, after which the
\* cleanup frees pointers that were never set and the handle is returned.
InitNoMemory(time_win, fs) ==
  /\ handle # "live" /\ handle # "crashed"
  /\ time_win > 0 /\ fs > 0
  /\ handle' \in {"broken", "crashed"}
  /\ ret' = "ERROR_MEMORY"
  /\ UNCHANGED <<win_size, have, inbuf, coef, outbuf, fed, flushed, out, outFmt>>

blockThreshold_reset ==
  /\ handle = "live"
  /\ have' = 0
  /\ inbuf' = <<Zeros, Zeros>>
  /\ outbuf' = [i \in 0 .. MaxNblkTime |-> Silence]
  /\ fed' = 0 /\ flushed' = FALSE
  /\ out' = <<>>
  /\ ret' = "OK"
  /\ UNCHANGED <<handle, win_size, coef, outFmt>>

\* blockThreshold_denoise_float and _int16, up to and including the STFT of
\* the new frame.
NewHalf(kind) == [n |-> fed + 1, kind |-> kind]

\* Variant: the input buffer is not shifted before the transform.
WithUnshiftedFrame(kind) ==
  [coef EXCEPT ![have] = [older |-> inbuf[1], newer |-> NewHalf(kind),
                          filtered |-> FALSE, nan |-> FALSE]]

WithNewFrame(kind) ==
  [coef EXCEPT ![have] = [older |-> inbuf[2], newer |-> NewHalf(kind),
                          filtered |-> FALSE, nan |-> FALSE]]

\* have_nblk_time after a new frame: counted, and reset by a full block.
HaveNotReset == have + 1  \* variant
HaveAfterFrame == IF have + 1 = MaxNblkTime THEN 0 ELSE have + 1

DenoiseNeedsMore(kind) ==
  /\ handle = "live"
  /\ fed < MaxHalves
  /\ have + 1 # MaxNblkTime
  /\ inbuf' = <<inbuf[2], NewHalf(kind)>>
  /\ coef' = WithNewFrame(kind)
  /\ have' = HaveAfterFrame
  /\ fed' = fed + 1
  /\ ret' = "NEED_MORE_SAMPLES"
  /\ UNCHANGED <<handle, win_size, outbuf, flushed, out, outFmt>>

DenoiseMacroBlock(kind) ==
  /\ handle = "live"
  /\ fed < MaxHalves
  /\ have + 1 = MaxNblkTime
  /\ half_win_size > 0
  /\ inbuf' = <<inbuf[2], NewHalf(kind)>>
  /\ coef' \in AfterCore(WithNewFrame(kind))
  /\ outbuf' = OverlapAdd(coef', MaxNblkTime)
  /\ have' = HaveAfterFrame
  /\ fed' = fed + 1
  /\ ret' = "CAN_OUTPUT"
  /\ UNCHANGED <<handle, win_size, flushed, out, outFmt>>

\* With a rate below 1000 the window is empty.  kiss_fftr and kiss_fftri of 0
\* points follow factors that were never written, in every denoise call and in a
\* flush of collected frames; a call that survives this goes on as usual, up to
\* the first macro block, where blockThreshold_wiener divides by half_win_size.
EmptyWindowCrashes ==
  /\ handle = "live"
  /\ half_win_size = 0
  /\ handle' = "crashed"
  /\ UNCHANGED <<win_size, have, inbuf, coef, outbuf, fed, flushed, out, outFmt, ret>>

\* Wrong length or no input.
DenoiseRefused ==
  /\ handle = "live"
  /\ ret' = "ERROR_PARAMS"
  /\ UNCHANGED <<bufVars, out, outFmt>>

\* The first n half windows of outbuf, as a caller gets them.
Delivered(buf, n) == [i \in 1 .. n |-> buf[i - 1]]

\* blockThreshold_output_float and _int16
blockThreshold_output(fmt) ==
  /\ handle = "live"
  /\ out' = Delivered(outbuf, MaxNblkTime)
  /\ outFmt' = fmt
  /\ ret' = "SAMPLES"
  /\ UNCHANGED bufVars

\* blockThreshold_flush_float and _int16: the collected frames are
\* overlap-added as they are, unfiltered.  have_nblk_time is kept.
blockThreshold_flush(fmt) ==
  /\ handle = "live"
  /\ outbuf' = OverlapAdd(coef, have)
  /\ out' = Delivered(outbuf', have)
  /\ outFmt' = fmt
  /\ flushed' = TRUE
  /\ ret' = "SAMPLES"
  /\ UNCHANGED <<handle, win_size, have, inbuf, coef, fed>>

\* Output returns 0 and flush -1 when the caller's buffer is too short.
ShortBuffer ==
  /\ handle = "live"
  /\ ret' = "SHORT_BUFFER"
  /\ UNCHANGED <<bufVars, out, outFmt>>

blockThreshold_free ==
  /\ handle = "live"
  /\ handle' = "freed"
  /\ UNCHANGED <<win_size, have, inbuf, coef, outbuf, fed, flushed, out, outFmt, ret>>

Formats == {"float", "int16"}

Next ==
  \/ \E t \in TimeWins, fs \in Rates : InitOk(t, fs)
  \/ \E t \in TimeWins, fs \in Rates : InitRefused(t, fs)
  \/ \E t \in TimeWins, fs \in Rates : InitNoMemory(t, fs)
  \/ blockThreshold_reset
  \/ \E kind \in InputKinds : DenoiseNeedsMore(kind)
  \/ \E kind \in InputKinds : DenoiseMacroBlock(kind)
  \/ EmptyWindowCrashes
  \/ DenoiseRefused
  \/ \E fmt \in Formats : blockThreshold_output(fmt)
  \/ \E fmt \in Formats : blockThreshold_flush(fmt)
  \/ ShortBuffer
  \/ blockThreshold_free

Spec == Init /\ [][Next]_vars
-----------------------------------------------------------------------------
(***************************************************************************)
(* Properties                                                              *)
(***************************************************************************)
Slot == [fall : Side, rise : Side]

\* The denoiser's state stays in its range; in particular stft_coef is never
\* indexed beyond its max_nblk_time rows.
TypeOK ==
  /\ handle \in {"null", "live", "broken", "freed", "crashed"}
  /\ win_size \in Nat
  /\ have \in 0 .. MaxNblkTime - 1
  /\ inbuf \in Half \X Half
  /\ coef \in [Frames -> Frame]
  /\ outbuf \in [0 .. MaxNblkTime -> Slot]
  /\ fed \in Nat /\ flushed \in BOOLEAN
  /\ outFmt \in Formats
  /\ ret \in {"OK", "ERROR_PARAMS", "ERROR_MEMORY", "NEED_MORE_SAMPLES",
              "CAN_OUTPUT", "SAMPLES", "SHORT_BUFFER"}

\* Number of half windows in the macro blocks completed since the last reset.
Done == fed - have

\* The frames collected for the next macro block are the last ones fed, in
\* order and untouched by the filter, and the input buffer holds the half
\* window that the next frame starts with: a reset or a flush in the middle
\* of a macro block never lets a frame of the previous one in.
FreshFrames ==
  handle = "live" =>
    /\ inbuf[2].n = fed
    /\ \A i \in 0 .. have - 1 :
         /\ coef[i].older.n = Done + i
         /\ coef[i].newer.n = Done + i + 1
         /\ ~coef[i].filtered /\ ~coef[i].nan

\* Unless flush was called, every half window of a completed macro block in
\* the output buffer is the overlap of both sides of one and the same input
\* half window, filtered, and the half windows follow each other in input
\* order, one half window late: slot i of the last macro block is input half
\* window Done - max_nblk_time + i.  The falling side of the zeros before
\* the first half window is missing, which changes nothing.
OutputAligned ==
  handle = "live" /\ ~flushed /\ Done > 0 =>
    /\ \A i \in Frames :
         LET s == outbuf[i] IN
         /\ s.rise.any /\ s.rise.filtered
         /\ s.rise.half.n = Done - MaxNblkTime + i
         /\ s.rise.half.n > 0 => s.fall.any /\ s.fall.filtered /\ s.fall.half = s.rise.half
    /\ outbuf[MaxNblkTime].fall.half.n = Done

\* What flush delivers joins on seamlessly, one half window late and
\* unfiltered: called once, it delivers the half windows from Done on.
FlushJoins ==
  [][\A fmt \in Formats :
       blockThreshold_flush(fmt) /\ ~flushed =>
         \A i \in 1 .. have :
           /\ out'[i].rise.half.n = Done + i - 1
           /\ ~out'[i].rise.filtered
           /\ out'[i].rise.half.n > 0 => out'[i].fall.half = out'[i].rise.half]_vars

\* NaN reaches the output only out of a macro block that is silent from end
\* to end: the segmentation search never prefers a cut with an empty tile, so
\* a pause inside a macro block with sound does no harm.  In the delivered
\* half windows a NaN then stands where the input was zero, except possibly
\* one sample at the border of the silence.
NaNOnlyFromSilence ==
  \A i \in 0 .. MaxNblkTime :
    /\ outbuf[i].rise.nan => RiseIsZero(outbuf[i].rise.half)
    /\ outbuf[i].fall.nan => FallIsZero(outbuf[i].fall.half)
    /\ i \in Frames /\ outbuf[i].rise.nan =>
         \A j \in Frames : outbuf[j].rise.nan \/ ~outbuf[j].rise.filtered

\* Every column of the spectrum gets exactly one threshold, as DC, in one
\* block or as one of the last columns, whatever the window size, so that
\* the Wiener filter never reads a threshold of an earlier macro block or
\* one that was never set; the filter visits every column but the Nyquist
\* column, whose threshold is computed (:557) and never used.
ThresholdsCoverSpectrum ==
  handle = "live" /\ win_size > 0 =>
    LET blocks == 0 .. half_nb_macroblk_frq - 1 IN
    /\ \A i \in blocks : BlockColumns(i) \subseteq 1 .. Nyquist
    /\ \A i, j \in blocks : i # j => BlockColumns(i) \cap BlockColumns(j) = {}
    /\ \A i \in blocks : BlockColumns(i) \cap LastColumns = {}
    /\ {0} \cup LastColumns \cup UNION {BlockColumns(i) : i \in blocks} = 0 .. Nyquist
    /\ WienerColumns = (0 .. Nyquist) \ {Nyquist}

\* A Float sample is a number in [-1, 1] (:286).
FloatOutputIsNumber ==
  outFmt = "float" =>
    \A i \in DOMAIN out : ~out[i].fall.nan /\ ~out[i].rise.nan
=============================================================================

------------------------ MODULE BlockThresholdProofs ------------------------
(***************************************************************************)
(* Proofs about BlockThreshold, for every macro block length, every number *)
(* of segmentations, every block width, and every window length, sampling  *)
(* rate and input.                                                         *)
(***************************************************************************)
EXTENDS BlockThreshold, TLAPS

(***************************************************************************)
(* The inductive invariant.                                                *)
(***************************************************************************)

\* blockThreshold_init makes the window even.
EvenWindow == win_size % 2 = 0

\* The collected frames overlap: each starts with the half window the one
\* before it ends with, and the last ends with the one in the input buffer.
FramesOverlap ==
  handle = "live" =>
    /\ have <= fed
    /\ \A i \in 0 .. have - 1 :
         coef[i].newer = IF i = have - 1 THEN inbuf[2] ELSE coef[i + 1].older

\* The half window the next macro block to be completed starts with.
FirstHalf == IF have = 0 THEN inbuf[2] ELSE coef[0].older

\* The last half window of the output buffer waits for the first frame of the
\* next macro block: it holds only a falling side, and, unless flush has put
\* that of an unfiltered frame there, it is the side that frame completes.
CarryWaits ==
  LET last == outbuf[MaxNblkTime] IN
  /\ last.rise = Nothing
  /\ handle = "live" /\ ~flushed /\ Done > 0 =>
       last.fall.any /\ last.fall.filtered /\ last.fall.half = FirstHalf

IInv ==
  /\ TypeOK
  /\ EvenWindow
  /\ FreshFrames
  /\ FramesOverlap
  /\ CarryWaits
  /\ OutputAligned
  /\ NaNOnlyFromSilence
-----------------------------------------------------------------------------
(***************************************************************************)
(* What the operators of the model return.                                 *)
(***************************************************************************)

\* The window size blockThreshold_init computes is an even natural number.
LEMMA WinSizeEven ==
  ASSUME NEW t \in Int, NEW fs \in Int, t > 0, fs > 0
  PROVE  WinSize(t, fs) \in Nat /\ WinSize(t, fs) % 2 = 0
<1> DEFINE q == fs \div 1000
           w == q * t
<1>1. q \in Nat
  OBVIOUS
<1>2. \A a, b \in Nat : a * b \in Nat
  OBVIOUS
<1>3. w \in Nat
  <2> HIDE DEF q
  <2> QED
    BY <1>1, <1>2
<1>4. WinSize(t, fs) = IF w % 2 = 1 THEN w + 1 ELSE w
  BY DEF WinSize
<1> HIDE DEF w
<1> QED
  BY <1>3, <1>4

\* A segmentation with a tile of zero energy is chosen only when the whole
\* macro block is one, so that the gains are NaN in all rows or in none.
LEMMA NaNAllOrNone ==
  ASSUME NEW zero \in SUBSET Frames, NEW R \in SUBSET Frames,
         NEW T \in SegTimes(zero \cup R), NEW i \in NaNRows(T, zero)
  PROVE  /\ zero = Frames
         /\ NaNRows(T, zero) = Frames
<1> USE BlockThresholdAssumption
<1>1. PICK tile \in Tiles(T) : tile \subseteq zero
  BY DEF NaNRows
<1>2. Frames \subseteq zero \cup R /\ T = 0
  <2>1. CASE Frames \subseteq zero \cup R
    BY <2>1 DEF SegTimes
  <2>2. CASE ~(Frames \subseteq zero \cup R)
    BY <1>1, <2>2 DEF SegTimes
  <2> QED
    BY <2>1, <2>2
<1>3. Tiles(0) = {Frames}
  <2>1. 2 ^ 0 = 1
    OBVIOUS
  <2>2. TileRows(0, 0) = Frames
    BY <2>1 DEF TileRows, Frames
  <2>3. 0 .. 2 ^ 0 - 1 = {0}
    BY <2>1
  <2> QED
    BY <2>2, <2>3 DEF Tiles
<1>4. zero = Frames
  BY <1>1, <1>2, <1>3
<1> QED
  BY <1>2, <1>3, <1>4 DEF NaNRows

\* blockThreshold_core changes no frame's place in the input; it filters all
\* of them and makes them NaN only together, in a macro block of silence.
LEMMA CoreKeepsFrames ==
  ASSUME NEW frames \in [Frames -> Frame], \A i \in Frames : ~frames[i].nan,
         NEW g \in AfterCore(frames)
  PROVE  /\ g \in [Frames -> Frame]
         /\ \A i \in Frames : /\ g[i].older = frames[i].older
                              /\ g[i].newer = frames[i].newer
                              /\ g[i].filtered
         /\ \A i \in Frames : g[i].nan =>
              \A j \in Frames : g[j].nan /\ FrameIsZero(g[j])
<1> DEFINE zero == {i \in Frames : FrameIsZero(frames[i])}
<1>1. CASE half_nb_macroblk_frq <= 0
  <2>1. g = [i \in Frames |-> [frames[i] EXCEPT !.filtered = TRUE]]
    BY <1>1 DEF AfterCore
  <2> QED
    BY <2>1 DEF Frame
<1>2. CASE ~(half_nb_macroblk_frq <= 0)
  <2>1. PICK T \in UNION {SegTimes(zero \cup R) : R \in SUBSET Frames} :
          g = [i \in Frames |-> [frames[i] EXCEPT !.filtered = TRUE,
                                                  !.nan = i \in NaNRows(T, zero)]]
    BY <1>2 DEF AfterCore
  <2>a. PICK R \in SUBSET Frames : T \in SegTimes(zero \cup R)
    OBVIOUS
  <2> HIDE DEF zero
  <2>2. /\ g \in [Frames -> Frame]
        /\ \A i \in Frames : /\ g[i].older = frames[i].older
                             /\ g[i].newer = frames[i].newer
                             /\ g[i].filtered = TRUE
                             /\ g[i].nan = (i \in NaNRows(T, zero))
    <3> DEFINE h(i) == [frames[i] EXCEPT !.filtered = TRUE,
                                         !.nan = i \in NaNRows(T, zero)]
    <3>3. ASSUME NEW i \in Frames
          PROVE  /\ h(i) \in Frame
                 /\ h(i).older = frames[i].older
                 /\ h(i).newer = frames[i].newer
                 /\ h(i).filtered = TRUE
                 /\ h(i).nan = (i \in NaNRows(T, zero))
      <4> DEFINE b == i \in NaNRows(T, zero)
                 fr == frames[i]
      <4>1. fr \in Frame /\ b \in BOOLEAN
        OBVIOUS
      <4>2. h(i) = [fr EXCEPT !.filtered = TRUE, !.nan = b]
        OBVIOUS
      <4> HIDE DEF b, fr, h
      <4>3. /\ h(i) \in Frame
            /\ h(i).older = fr.older /\ h(i).newer = fr.newer
            /\ h(i).filtered = TRUE /\ h(i).nan = b
        BY <4>1, <4>2 DEF Frame
      <4> QED
        BY <4>3 DEF b, fr
    <3>4. g = [i \in Frames |-> h(i)]
      BY <2>1
    <3> HIDE DEF h
    <3> QED
      BY <3>3, <3>4
  <2>3. ASSUME NEW i \in Frames, g[i].nan, NEW j \in Frames
        PROVE  g[j].nan /\ FrameIsZero(g[j])
    <3>1. i \in NaNRows(T, zero)
      BY <2>2, <2>3
    <3>2. zero = Frames /\ NaNRows(T, zero) = Frames
      BY <2>a, <3>1, NaNAllOrNone DEF zero
    <3>3. FrameIsZero(frames[j])
      BY <3>2 DEF zero
    <3> QED
      BY <2>2, <3>2, <3>3 DEF FrameIsZero
  <2> QED
    BY <2>2, <2>3
<1> QED
  BY <1>1, <1>2

\* The frames with the new one among them, as the inductive invariant leaves
\* them to blockThreshold_core or to the next call: consecutive, overlapping
\* and fresh, from the half window after the last macro block on.
LEMMA NewFrameJoins ==
  ASSUME TypeOK, FreshFrames, FramesOverlap, handle = "live",
         NEW kind \in Kinds
  PROVE  LET f == WithNewFrame(kind) IN
         /\ f \in [Frames -> Frame]
         /\ NewHalf(kind) \in Half
         /\ \A i \in 0 .. have : /\ f[i].older.n = Done + i
                                 /\ f[i].newer.n = Done + i + 1
                                 /\ ~f[i].filtered /\ ~f[i].nan
                                 /\ f[i].newer = IF i = have THEN NewHalf(kind)
                                                 ELSE f[i + 1].older
         /\ f[0].older = FirstHalf
<1> USE BlockThresholdAssumption
<1> DEFINE new == [older |-> inbuf[2], newer |-> NewHalf(kind),
                   filtered |-> FALSE, nan |-> FALSE]
           f == WithNewFrame(kind)
<1>1. NewHalf(kind) \in Half /\ NewHalf(kind).n = fed + 1
  BY DEF NewHalf, Half, Kinds, TypeOK
<1>2. /\ new \in Frame
      /\ new.older = inbuf[2] /\ new.newer = NewHalf(kind)
      /\ new.filtered = FALSE /\ new.nan = FALSE
  BY <1>1 DEF Frame, TypeOK
<1>3. f = [coef EXCEPT ![have] = new]
  BY DEF WithNewFrame
<1> HIDE DEF new, f
<1>4. have \in Frames /\ coef \in [Frames -> Frame] /\ fed \in Nat /\ have \in Nat
  BY DEF TypeOK, Frames
<1>5. f \in [Frames -> Frame]
  BY <1>2, <1>3, <1>4
<1>6. f[have] = new
  BY <1>3, <1>4
<1>7. \A i \in 0 .. have - 1 : i \in Frames /\ f[i] = coef[i]
  BY <1>3, <1>4 DEF Frames
<1>8. ASSUME NEW i \in 0 .. have
      PROVE  /\ f[i].older.n = Done + i
             /\ f[i].newer.n = Done + i + 1
             /\ ~f[i].filtered /\ ~f[i].nan
             /\ f[i].newer = IF i = have THEN NewHalf(kind) ELSE f[i + 1].older
  <2>1. CASE i = have
    <3>1. inbuf[2].n = fed
      BY DEF FreshFrames
    <3> QED
      BY <1>1, <1>2, <1>4, <1>6, <2>1, <3>1 DEF Done
  <2>2. CASE i # have
    <3>1. i \in 0 .. have - 1 /\ f[i] = coef[i]
      BY <1>4, <1>7, <2>2
    <3>2. /\ f[i].older.n = Done + i /\ f[i].newer.n = Done + i + 1
          /\ ~f[i].filtered /\ ~f[i].nan
      BY <3>1 DEF FreshFrames
    <3>3. CASE i = have - 1
      <4>1. f[i + 1] = new
        BY <1>4, <1>6, <3>3
      <4> QED
        BY <1>2, <2>2, <3>1, <3>2, <3>3, <4>1 DEF FramesOverlap
    <3>4. CASE i # have - 1
      <4>1. f[i + 1] = coef[i + 1]
        BY <1>4, <1>7, <2>2, <3>4
      <4> QED
        BY <2>2, <3>1, <3>2, <3>4, <4>1 DEF FramesOverlap
    <3> QED
      BY <3>3, <3>4
  <2> QED
    BY <2>1, <2>2
<1>9. f[0].older = FirstHalf
  <2>1. CASE have = 0
    BY <1>2, <1>6, <2>1 DEF FirstHalf
  <2>2. CASE have # 0
    BY <1>4, <1>7, <2>2 DEF FirstHalf
  <2> QED
    BY <2>1, <2>2
<1> QED
  BY <1>1, <1>5, <1>8, <1>9 DEF f

\* The sides of a frame are sides, and keep what the invariants look at.
LEMMA SidesOfFrame ==
  ASSUME NEW f \in Frame
  PROVE  /\ OlderSide(f) \in Side /\ NewerSide(f) \in Side
         /\ OlderSide(f).half = f.older /\ NewerSide(f).half = f.newer
         /\ OlderSide(f).filtered = f.filtered /\ NewerSide(f).filtered = f.filtered
         /\ OlderSide(f).nan = f.nan /\ NewerSide(f).nan = f.nan
         /\ OlderSide(f).any = TRUE /\ NewerSide(f).any = TRUE
BY DEF Frame, Side, OlderSide, NewerSide

\* The empty side of a frame and the silence the buffers start with.
LEMMA NothingIsSide ==
  /\ Nothing \in Side /\ Silence \in Slot /\ Zeros \in Half
  /\ Nothing.half = Zeros /\ ~Nothing.filtered /\ ~Nothing.nan /\ ~Nothing.any
  /\ Silence.rise = Nothing /\ Silence.fall = Nothing
BY DEF Nothing, Side, Silence, Slot, Zeros, Half, Kinds

\* Where the overlap-add of n frames puts them in the output buffer, when its
\* last half window carried no rising side.
LEMMA OverlapAddPlaces ==
  ASSUME outbuf \in [0 .. MaxNblkTime -> Slot], outbuf[MaxNblkTime].rise = Nothing,
         NEW frames \in [Frames -> Frame], NEW n \in 0 .. MaxNblkTime
  PROVE  LET b == OverlapAdd(frames, n) IN
         /\ b \in [0 .. MaxNblkTime -> Slot]
         /\ \A i \in 0 .. n - 1 : b[i].rise = OlderSide(frames[i])
         /\ \A i \in 1 .. n : b[i].fall = NewerSide(frames[i - 1])
         /\ b[0].fall = outbuf[MaxNblkTime].fall
         /\ \A i \in n .. MaxNblkTime : b[i].rise = Nothing
         /\ \A i \in n + 1 .. MaxNblkTime : b[i].fall = Nothing
<1> USE BlockThresholdAssumption
<1> DEFINE b == OverlapAdd(frames, n)
           last == outbuf[MaxNblkTime]
           fall(i) == IF i = 0 THEN last.fall
                      ELSE IF i <= n THEN NewerSide(frames[i - 1]) ELSE Nothing
           rise(i) == IF i < n THEN OlderSide(frames[i])
                      ELSE IF i = 0 THEN last.rise ELSE Nothing
<1>1. b = [i \in 0 .. MaxNblkTime |-> [fall |-> fall(i), rise |-> rise(i)]]
  BY DEF OverlapAdd
<1>2. last \in Slot /\ last.fall \in Side /\ last.rise = Nothing
  BY DEF Slot
<1> HIDE DEF b, last
<1>3. ASSUME NEW i \in 0 .. MaxNblkTime
      PROVE  fall(i) \in Side /\ rise(i) \in Side
  <2>1. fall(i) \in Side
    <3>1. CASE i = 0
      BY <1>2, <3>1
    <3>2. CASE i # 0 /\ i <= n
      <4>1. i - 1 \in Frames
        BY <3>2 DEF Frames
      <4> QED
        BY <3>2, <4>1, SidesOfFrame
    <3>3. CASE i # 0 /\ ~(i <= n)
      BY <3>3, NothingIsSide
    <3> QED
      BY <3>1, <3>2, <3>3
  <2>2. rise(i) \in Side
    <3>1. CASE i < n
      <4>1. i \in Frames
        BY <3>1 DEF Frames
      <4> QED
        BY <3>1, <4>1, SidesOfFrame
    <3>2. CASE ~(i < n)
      BY <1>2, <3>2, NothingIsSide
    <3> QED
      BY <3>1, <3>2
  <2> QED
    BY <2>1, <2>2
<1>4. /\ \A i \in 0 .. n - 1 : i \in 0 .. MaxNblkTime /\ rise(i) = OlderSide(frames[i])
      /\ \A i \in 1 .. n : i \in 0 .. MaxNblkTime /\ fall(i) = NewerSide(frames[i - 1])
      /\ 0 \in 0 .. MaxNblkTime /\ fall(0) = last.fall
      /\ \A i \in n .. MaxNblkTime : i \in 0 .. MaxNblkTime /\ rise(i) = Nothing
      /\ \A i \in n + 1 .. MaxNblkTime : i \in 0 .. MaxNblkTime /\ fall(i) = Nothing
  BY <1>2
<1> HIDE DEF fall, rise
<1>5. b \in [0 .. MaxNblkTime -> Slot]
  BY <1>1, <1>3 DEF Slot
<1>6. \A i \in 0 .. MaxNblkTime : b[i].fall = fall(i) /\ b[i].rise = rise(i)
  BY <1>1
<1>7. /\ \A i \in 0 .. n - 1 : b[i].rise = OlderSide(frames[i])
      /\ \A i \in 1 .. n : b[i].fall = NewerSide(frames[i - 1])
      /\ b[0].fall = last.fall
      /\ \A i \in n .. MaxNblkTime : b[i].rise = Nothing
      /\ \A i \in n + 1 .. MaxNblkTime : b[i].fall = Nothing
  BY <1>4, <1>6
<1> QED
  BY <1>5, <1>7 DEF b, last
-----------------------------------------------------------------------------
(***************************************************************************)
(* Every step preserves the inductive invariant.                           *)
(***************************************************************************)
Handles == {"null", "live", "broken", "freed", "crashed"}
Results == {"OK", "ERROR_PARAMS", "ERROR_MEMORY", "NEED_MORE_SAMPLES",
            "CAN_OUTPUT", "SAMPLES", "SHORT_BUFFER"}

\* A step that leaves the buffers alone and makes no handle live.
Quiet ==
  /\ UNCHANGED <<win_size, have, inbuf, coef, outbuf, fed, flushed>>
  /\ handle' \in Handles /\ (handle' = "live" => handle = "live")
  /\ outFmt' \in Formats /\ ret' \in Results

\* A step that leaves the buffers alone keeps the invariant.
LEMMA QuietStep == IInv /\ Quiet => IInv'
<1> SUFFICES ASSUME IInv, Quiet
             PROVE  IInv'
  OBVIOUS
<1>1. TypeOK'
  BY DEF IInv, TypeOK, Quiet, Handles, Results
<1>2. EvenWindow' /\ FreshFrames' /\ FramesOverlap'
  BY DEF IInv, Quiet, EvenWindow, FreshFrames, FramesOverlap, Done
<1>3. CarryWaits'
  BY DEF IInv, Quiet, CarryWaits, FirstHalf, Done
<1>4. OutputAligned'
  BY DEF IInv, Quiet, OutputAligned, Done
<1>5. NaNOnlyFromSilence'
  BY DEF IInv, Quiet, NaNOnlyFromSilence
<1> QED
  BY <1>1, <1>2, <1>3, <1>4, <1>5 DEF IInv

\* A step that starts over with empty buffers.
StartOver ==
  /\ handle' = "live"
  /\ win_size' \in Nat /\ win_size' % 2 = 0
  /\ have' = 0 /\ fed' = 0 /\ flushed' = FALSE
  /\ inbuf' = <<Zeros, Zeros>>
  /\ coef' \in [Frames -> Frame]
  /\ outbuf' = [i \in 0 .. MaxNblkTime |-> Silence]
  /\ outFmt' \in Formats /\ ret' = "OK"

\* The buffers of a fresh or reset handle satisfy the invariant.
LEMMA StartOverStep == StartOver => IInv'
<1> USE BlockThresholdAssumption
<1> SUFFICES ASSUME StartOver
             PROVE  IInv'
  OBVIOUS
<1>1. \A i \in 0 .. MaxNblkTime : outbuf'[i] = Silence
  BY DEF StartOver
<1>2. TypeOK'
  <2>1. outbuf' \in [0 .. MaxNblkTime -> Slot]
    BY NothingIsSide DEF StartOver
  <2>2. inbuf' \in Half \X Half
    BY NothingIsSide DEF StartOver
  <2>3. have' \in 0 .. MaxNblkTime - 1 /\ fed' \in Nat
    BY DEF StartOver
  <2>4. flushed' \in BOOLEAN
    BY Zenon DEF StartOver
  <2> QED
    BY <2>1, <2>2, <2>3, <2>4 DEF StartOver, TypeOK
<1>3. inbuf'[2].n = 0 /\ (0 .. have' - 1) = {} /\ Done' = 0
  BY DEF StartOver, Zeros, Done
<1>4. EvenWindow' /\ FreshFrames' /\ FramesOverlap'
  <2>1. EvenWindow'
    BY DEF StartOver, EvenWindow
  <2>2. FreshFrames'
    BY <1>3 DEF StartOver, FreshFrames
  <2>3. have' <= fed'
    BY DEF StartOver
  <2>4. FramesOverlap'
    BY <1>3, <2>3 DEF FramesOverlap
  <2> QED
    BY <2>1, <2>2, <2>4
<1>5. CarryWaits' /\ OutputAligned'
  BY <1>1, <1>3, NothingIsSide DEF CarryWaits, OutputAligned
<1>6. NaNOnlyFromSilence'
  BY <1>1, NothingIsSide DEF NaNOnlyFromSilence, Frames
<1> QED
  BY <1>2, <1>4, <1>5, <1>6 DEF IInv

\* A half window that completes no macro block.
LEMMA NeedsMoreStep ==
  ASSUME IInv, NEW kind \in Kinds, DenoiseNeedsMore(kind)
  PROVE  IInv'
<1> USE BlockThresholdAssumption
<1> DEFINE f == WithNewFrame(kind)
           new == NewHalf(kind)
<1>1. /\ f \in [Frames -> Frame] /\ new \in Half
      /\ \A i \in 0 .. have : /\ f[i].older.n = Done + i
                              /\ f[i].newer.n = Done + i + 1
                              /\ ~f[i].filtered /\ ~f[i].nan
                              /\ f[i].newer = IF i = have THEN new ELSE f[i + 1].older
      /\ f[0].older = FirstHalf
  BY NewFrameJoins DEF IInv, DenoiseNeedsMore
<1>2. /\ handle = "live" /\ handle' = "live"
      /\ inbuf' = <<inbuf[2], new>> /\ coef' = f /\ have' = have + 1
      /\ fed' = fed + 1 /\ ret' = "NEED_MORE_SAMPLES" /\ have + 1 # MaxNblkTime
      /\ UNCHANGED <<win_size, outbuf, flushed, outFmt>>
  BY DEF DenoiseNeedsMore, HaveAfterFrame
<1>3. have \in Nat /\ have < MaxNblkTime /\ fed \in Nat /\ new.n = fed + 1
      /\ inbuf \in Half \X Half
  BY DEF IInv, TypeOK, NewHalf
<1> HIDE DEF f, new
<1>4. TypeOK'
  BY <1>1, <1>2, <1>3 DEF IInv, TypeOK
<1>5. Done' = Done /\ inbuf'[2] = new /\ have' - 1 = have
  BY <1>2, <1>3 DEF Done
<1>6. EvenWindow' /\ FreshFrames'
  BY <1>1, <1>2, <1>3, <1>5 DEF IInv, EvenWindow, FreshFrames
<1>7. FramesOverlap'
  BY <1>1, <1>2, <1>3, <1>5 DEF IInv, FramesOverlap
<1>8. FirstHalf' = FirstHalf
  BY <1>1, <1>2, <1>3 DEF FirstHalf
<1>9. CarryWaits' /\ OutputAligned' /\ NaNOnlyFromSilence'
  BY <1>2, <1>5, <1>8 DEF IInv, CarryWaits, OutputAligned, NaNOnlyFromSilence
<1> QED
  BY <1>4, <1>6, <1>7, <1>9 DEF IInv

\* What a completed macro block leaves in stft_coef: the frames from the half
\* window after the last macro block on, filtered, with NaN in all or none.
LEMMA MacroBlockFrames ==
  ASSUME IInv, NEW kind \in Kinds, DenoiseMacroBlock(kind)
  PROVE  /\ coef' \in [Frames -> Frame] /\ NewHalf(kind) \in Half
         /\ \A i \in Frames :
              /\ coef'[i].older.n = Done + i
              /\ coef'[i].newer = IF i = have THEN NewHalf(kind) ELSE coef'[i + 1].older
              /\ coef'[i].filtered
              /\ coef'[i].nan => \A j \in Frames : coef'[j].nan /\ FrameIsZero(coef'[j])
         /\ coef'[0].older = FirstHalf
<1> USE BlockThresholdAssumption
<1> DEFINE f == WithNewFrame(kind)
           new == NewHalf(kind)
<1>0. Frames = 0 .. have /\ have \in Nat
  BY DEF IInv, TypeOK, DenoiseMacroBlock, Frames
<1>1. /\ f \in [Frames -> Frame] /\ new \in Half
      /\ \A i \in Frames : /\ f[i].older.n = Done + i
                           /\ ~f[i].filtered /\ ~f[i].nan
                           /\ f[i].newer = IF i = have THEN new ELSE f[i + 1].older
      /\ f[0].older = FirstHalf
  BY <1>0, NewFrameJoins DEF IInv, DenoiseMacroBlock
<1>2. coef' \in AfterCore(f)
  BY DEF DenoiseMacroBlock
<1> HIDE DEF f, new
<1>3. /\ coef' \in [Frames -> Frame]
      /\ \A i \in Frames : /\ coef'[i].older = f[i].older
                           /\ coef'[i].newer = f[i].newer
                           /\ coef'[i].filtered
      /\ \A i \in Frames : coef'[i].nan =>
           \A j \in Frames : coef'[j].nan /\ FrameIsZero(coef'[j])
  BY <1>1, <1>2, CoreKeepsFrames
<1>4. ASSUME NEW i \in Frames
      PROVE  coef'[i].newer = IF i = have THEN new ELSE coef'[i + 1].older
  <2>1. CASE i = have
    BY <1>1, <1>3, <2>1
  <2>2. CASE i # have
    <3>1. i + 1 \in Frames
      BY <1>0, <2>2
    <3> QED
      BY <1>1, <1>3, <2>2, <3>1
  <2> QED
    BY <2>1, <2>2
<1>5. 0 \in Frames
  BY <1>0
<1> QED
  BY <1>1, <1>3, <1>4, <1>5 DEF new

\* A half window that completes a macro block.
LEMMA MacroBlockStep ==
  ASSUME IInv, NEW kind \in Kinds, DenoiseMacroBlock(kind)
  PROVE  IInv'
<1> USE BlockThresholdAssumption
<1> DEFINE new == NewHalf(kind)
<1>1. /\ coef' \in [Frames -> Frame] /\ new \in Half
      /\ \A i \in Frames :
           /\ coef'[i].older.n = Done + i
           /\ coef'[i].newer = IF i = have THEN new ELSE coef'[i + 1].older
           /\ coef'[i].filtered
           /\ coef'[i].nan => \A j \in Frames : coef'[j].nan /\ FrameIsZero(coef'[j])
      /\ coef'[0].older = FirstHalf
  BY MacroBlockFrames
<1>2. /\ handle = "live" /\ handle' = "live"
      /\ inbuf' = <<inbuf[2], new>> /\ have' = 0 /\ have = MaxNblkTime - 1
      /\ outbuf' = OverlapAdd(coef', MaxNblkTime)
      /\ fed' = fed + 1 /\ ret' = "CAN_OUTPUT"
      /\ UNCHANGED <<win_size, flushed, outFmt>>
  BY DEF DenoiseMacroBlock, HaveAfterFrame, IInv, TypeOK
<1>3. /\ have \in Nat /\ fed \in Nat /\ have <= fed
      /\ inbuf \in Half \X Half /\ outbuf \in [0 .. MaxNblkTime -> Slot]
      /\ outbuf[MaxNblkTime].rise = Nothing
  BY <1>2 DEF IInv, TypeOK, CarryWaits, FramesOverlap
<1>4. new.n = fed + 1
  BY DEF NewHalf
<1>5. Frames = 0 .. MaxNblkTime - 1 /\ MaxNblkTime \in 0 .. MaxNblkTime
  BY DEF Frames
<1> HIDE DEF new
<1>6. /\ outbuf' \in [0 .. MaxNblkTime -> Slot]
      /\ \A i \in Frames : outbuf'[i].rise = OlderSide(coef'[i])
      /\ \A i \in 1 .. MaxNblkTime : outbuf'[i].fall = NewerSide(coef'[i - 1])
      /\ outbuf'[0].fall = outbuf[MaxNblkTime].fall
      /\ outbuf'[MaxNblkTime].rise = Nothing
  <2>1. LET b == OverlapAdd(coef', MaxNblkTime) IN
        /\ b \in [0 .. MaxNblkTime -> Slot]
        /\ \A i \in 0 .. MaxNblkTime - 1 : b[i].rise = OlderSide(coef'[i])
        /\ \A i \in 1 .. MaxNblkTime : b[i].fall = NewerSide(coef'[i - 1])
        /\ b[0].fall = outbuf[MaxNblkTime].fall
        /\ \A i \in MaxNblkTime .. MaxNblkTime : b[i].rise = Nothing
    <3> HIDE BlockThresholdAssumption
    <3> QED
      BY <1>1, <1>3, <1>5, OverlapAddPlaces
  <2> QED
    BY <1>2, <1>5, <2>1
<1>7. TypeOK'
  BY <1>1, <1>2, <1>3, <1>6 DEF IInv, TypeOK
<1>8. /\ Done' = Done + MaxNblkTime /\ Done' = fed' /\ Done \in Nat
      /\ inbuf'[2] = new /\ (0 .. have' - 1) = {}
  BY <1>2, <1>3 DEF Done
<1>9. EvenWindow' /\ FreshFrames' /\ FramesOverlap'
  BY <1>2, <1>3, <1>4, <1>8 DEF IInv, EvenWindow, FreshFrames, FramesOverlap
<1>10. \A i \in Frames : coef'[i] \in Frame
  BY <1>1
<1>11. outbuf'[MaxNblkTime].fall = NewerSide(coef'[MaxNblkTime - 1])
       /\ MaxNblkTime - 1 \in Frames
  BY <1>5, <1>6
<1>12. CarryWaits'
  <2>1. FirstHalf' = new
    BY <1>2, <1>8 DEF FirstHalf
  <2>2. coef'[MaxNblkTime - 1].newer = new /\ coef'[MaxNblkTime - 1].filtered
    BY <1>1, <1>2, <1>11
  <2> QED
    BY <1>6, <1>10, <1>11, <2>1, <2>2, SidesOfFrame DEF CarryWaits
<1>13. OutputAligned'
  <2>1. outbuf'[MaxNblkTime].fall.half.n = Done'
    BY <1>1, <1>2, <1>4, <1>8, <1>10, <1>11, SidesOfFrame
  <2>2. ASSUME NEW i \in Frames, ~flushed
        PROVE  LET s == outbuf'[i] IN
               /\ s.rise.any /\ s.rise.filtered
               /\ s.rise.half.n = Done' - MaxNblkTime + i
               /\ s.rise.half.n > 0 =>
                    s.fall.any /\ s.fall.filtered /\ s.fall.half = s.rise.half
    <3>1. /\ outbuf'[i].rise.any /\ outbuf'[i].rise.filtered
          /\ outbuf'[i].rise.half = coef'[i].older
          /\ coef'[i].older.n = Done + i
      <4>1. outbuf'[i].rise = OlderSide(coef'[i]) /\ coef'[i] \in Frame
        BY <1>6, <1>10
      <4>2. coef'[i].filtered /\ coef'[i].older.n = Done + i
        BY <1>1
      <4> QED
        BY <4>1, <4>2, SidesOfFrame
    <3>2. CASE i = 0
      <4>1. Done > 0 => /\ outbuf[MaxNblkTime].fall.any
                        /\ outbuf[MaxNblkTime].fall.filtered
                        /\ outbuf[MaxNblkTime].fall.half = FirstHalf
        BY <1>2, <2>2 DEF IInv, CarryWaits
      <4> QED
        BY <1>1, <1>6, <1>8, <3>1, <3>2, <4>1
    <3>3. CASE i # 0
      <4>1. i \in 1 .. MaxNblkTime /\ i - 1 \in Frames /\ i - 1 # have
            /\ (i - 1) + 1 = i
        BY <1>2, <1>5, <3>3
      <4>2. outbuf'[i].fall = NewerSide(coef'[i - 1])
        BY <1>6, <4>1
      <4>3. coef'[i - 1].newer = coef'[i].older /\ coef'[i - 1].filtered
        BY <1>1, <4>1
      <4>4. outbuf'[i].fall.any /\ outbuf'[i].fall.filtered
            /\ outbuf'[i].fall.half = coef'[i].older
        BY <1>10, <4>1, <4>2, <4>3, SidesOfFrame
      <4> QED
        BY <1>8, <3>1, <4>4, <1>5
    <3> QED
      BY <3>2, <3>3
  <2> QED
    BY <1>2, <2>1, <2>2 DEF OutputAligned
<1>14. NaNOnlyFromSilence'
  <2>1. ASSUME NEW i \in 0 .. MaxNblkTime, outbuf'[i].rise.nan
        PROVE  /\ RiseIsZero(outbuf'[i].rise.half)
               /\ \A j \in Frames : outbuf'[j].rise.nan
    <3>1. i \in Frames
      BY <1>5, <1>6, <2>1, NothingIsSide
    <3>2. outbuf'[i].rise.half = coef'[i].older /\ coef'[i].nan
      BY <1>6, <1>10, <2>1, <3>1, SidesOfFrame
    <3>3. \A j \in Frames : coef'[j].nan /\ FrameIsZero(coef'[j])
      BY <1>1, <3>1, <3>2
    <3> QED
      BY <1>6, <1>10, <3>1, <3>2, <3>3, SidesOfFrame DEF FrameIsZero
  <2>2. ASSUME NEW i \in 0 .. MaxNblkTime, outbuf'[i].fall.nan
        PROVE  FallIsZero(outbuf'[i].fall.half)
    <3>1. CASE i = 0
      BY <1>5, <1>6, <2>2, <3>1 DEF IInv, NaNOnlyFromSilence
    <3>2. CASE i # 0
      <4>1. i \in 1 .. MaxNblkTime /\ i - 1 \in Frames
        BY <1>5, <3>2
      <4>2. outbuf'[i].fall.half = coef'[i - 1].newer /\ coef'[i - 1].nan
        BY <1>6, <1>10, <2>2, <4>1, SidesOfFrame
      <4> QED
        BY <1>1, <4>1, <4>2 DEF FrameIsZero
    <3> QED
      BY <3>1, <3>2
  <2> QED
    BY <2>1, <2>2 DEF NaNOnlyFromSilence
<1> QED
  BY <1>7, <1>9, <1>12, <1>13, <1>14 DEF IInv

\* What flush leaves in the output buffer.
LEMMA FlushPlaces ==
  ASSUME IInv, NEW fmt \in Formats, blockThreshold_flush(fmt)
  PROVE  /\ outbuf' \in [0 .. MaxNblkTime -> Slot]
         /\ \A i \in 0 .. have - 1 : outbuf'[i].rise = OlderSide(coef[i])
         /\ \A i \in 1 .. have : outbuf'[i].fall = NewerSide(coef[i - 1])
         /\ outbuf'[0].fall = outbuf[MaxNblkTime].fall
         /\ \A i \in have .. MaxNblkTime : outbuf'[i].rise = Nothing
         /\ \A i \in have + 1 .. MaxNblkTime : outbuf'[i].fall = Nothing
<1>1. have \in 0 .. MaxNblkTime
  BY BlockThresholdAssumption DEF IInv, TypeOK
<1>2. /\ outbuf \in [0 .. MaxNblkTime -> Slot] /\ coef \in [Frames -> Frame]
      /\ outbuf[MaxNblkTime].rise = Nothing
  BY DEF IInv, TypeOK, CarryWaits
<1>3. outbuf' = OverlapAdd(coef, have)
  BY DEF blockThreshold_flush
<1> QED
  BY <1>1, <1>2, <1>3, OverlapAddPlaces

\* blockThreshold_flush keeps the invariant.
LEMMA FlushStep ==
  ASSUME IInv, NEW fmt \in Formats, blockThreshold_flush(fmt)
  PROVE  IInv'
<1> USE BlockThresholdAssumption
<1>1. /\ outbuf' \in [0 .. MaxNblkTime -> Slot]
      /\ \A i \in 0 .. have - 1 : outbuf'[i].rise = OlderSide(coef[i])
      /\ \A i \in 1 .. have : outbuf'[i].fall = NewerSide(coef[i - 1])
      /\ outbuf'[0].fall = outbuf[MaxNblkTime].fall
      /\ \A i \in have .. MaxNblkTime : outbuf'[i].rise = Nothing
      /\ \A i \in have + 1 .. MaxNblkTime : outbuf'[i].fall = Nothing
  BY FlushPlaces
<1>2. /\ handle = "live" /\ flushed' = TRUE /\ outFmt' = fmt /\ ret' = "SAMPLES"
      /\ UNCHANGED <<handle, win_size, have, inbuf, coef, fed>>
  BY DEF blockThreshold_flush
<1>3. /\ have \in Nat /\ have < MaxNblkTime /\ MaxNblkTime \in 0 .. MaxNblkTime
      /\ \A i \in 0 .. have - 1 : coef[i] \in Frame
  BY <1>2 DEF IInv, TypeOK, Frames
<1>a. \A i \in 0 .. have - 1 : ~coef[i].nan
  BY <1>2 DEF IInv, FreshFrames
<1>4. TypeOK'
  BY <1>1, <1>2 DEF IInv, TypeOK
<1>5. EvenWindow' /\ FreshFrames' /\ FramesOverlap'
  BY <1>2 DEF IInv, EvenWindow, FreshFrames, FramesOverlap, Done
<1>6. CarryWaits' /\ OutputAligned'
  <2>1. outbuf'[MaxNblkTime].rise = Nothing
    BY <1>1, <1>3
  <2> QED
    BY <1>2, <2>1 DEF CarryWaits, OutputAligned
<1>7. ASSUME NEW i \in 0 .. MaxNblkTime
      PROVE  ~outbuf'[i].rise.nan
  <2>1. CASE i \in 0 .. have - 1
    <3>1. outbuf'[i].rise = OlderSide(coef[i]) /\ coef[i] \in Frame
      BY <1>1, <1>3, <2>1
    <3>2. ~coef[i].nan
      BY <1>a, <2>1
    <3> QED
      BY <3>1, <3>2, SidesOfFrame
  <2>2. CASE i \in have .. MaxNblkTime
    BY <1>1, <2>2, NothingIsSide
  <2> QED
    BY <1>3, <2>1, <2>2
<1>8. ASSUME NEW i \in 0 .. MaxNblkTime, outbuf'[i].fall.nan
      PROVE  FallIsZero(outbuf'[i].fall.half)
  <2>1. CASE i = 0
    BY <1>1, <1>3, <1>8, <2>1 DEF IInv, NaNOnlyFromSilence
  <2>2. CASE i \in 1 .. have
    <3>1. i - 1 \in 0 .. have - 1
      BY <1>3, <2>2
    <3>2. outbuf'[i].fall = NewerSide(coef[i - 1]) /\ coef[i - 1] \in Frame
      BY <1>1, <1>3, <2>2, <3>1
    <3>3. ~coef[i - 1].nan
      BY <1>a, <3>1
    <3> QED
      BY <1>8, <3>2, <3>3, SidesOfFrame
  <2>3. CASE i \in have + 1 .. MaxNblkTime
    BY <1>1, <1>8, <2>3, NothingIsSide
  <2> QED
    BY <1>3, <2>1, <2>2, <2>3
<1>9. NaNOnlyFromSilence'
  BY <1>7, <1>8 DEF NaNOnlyFromSilence, Frames
<1> QED
  BY <1>4, <1>5, <1>6, <1>9 DEF IInv

\* The initial state satisfies the inductive invariant.
LEMMA InitIInv == Init => IInv
<1> USE BlockThresholdAssumption
<1> SUFFICES ASSUME Init
             PROVE  IInv
  OBVIOUS
<1>1. Garbage \in Frame
  BY NothingIsSide DEF Garbage, Frame
<1>2. \A i \in 0 .. MaxNblkTime : outbuf[i] = Silence
  BY DEF Init
<1>3. TypeOK
  <2>1. /\ outbuf \in [0 .. MaxNblkTime -> Slot] /\ inbuf \in Half \X Half
        /\ coef \in [Frames -> Frame]
    BY <1>1, NothingIsSide DEF Init
  <2>2. win_size \in Nat /\ have \in 0 .. MaxNblkTime - 1 /\ fed \in Nat
    BY DEF Init
  <2>3. flushed \in BOOLEAN
    BY Zenon DEF Init
  <2> QED
    BY <2>1, <2>2, <2>3 DEF Init, TypeOK, Formats
<1>4. EvenWindow
  BY DEF Init, EvenWindow
<1>5. FreshFrames /\ FramesOverlap /\ OutputAligned
  BY DEF Init, FreshFrames, FramesOverlap, OutputAligned
<1>6. CarryWaits /\ NaNOnlyFromSilence
  <2>1. handle # "live"
    BY DEF Init
  <2> QED
    BY <1>2, <2>1, NothingIsSide DEF CarryWaits, NaNOnlyFromSilence, Frames
<1> QED
  BY <1>3, <1>4, <1>5, <1>6 DEF IInv

\* Every step preserves it.
LEMMA NextIInv == IInv /\ [Next]_vars => IInv'
<1> USE BlockThresholdAssumption
<1> SUFFICES ASSUME IInv, [Next]_vars
             PROVE  IInv'
  OBVIOUS
<1>0. /\ handle \in Handles /\ outFmt \in Formats /\ ret \in Results
      /\ win_size \in Nat /\ win_size % 2 = 0 /\ coef \in [Frames -> Frame]
  BY DEF IInv, TypeOK, Handles, Results, EvenWindow
<1>1. ASSUME NEW t \in TimeWins, NEW fs \in Rates, InitOk(t, fs)
      PROVE  IInv'
  <2>1. t \in Int /\ fs \in Int /\ t > 0 /\ fs > 0
    BY <1>1 DEF InitOk
  <2>2. win_size' \in Nat /\ win_size' % 2 = 0
    BY <1>1, <2>1, WinSizeEven DEF InitOk
  <2>3. Garbage \in Frame
    BY NothingIsSide DEF Garbage, Frame
  <2>4. coef' \in [Frames -> Frame]
    BY <1>1, <2>3 DEF InitOk
  <2>5. StartOver
    BY <1>0, <1>1, <2>2, <2>4 DEF InitOk, StartOver
  <2> QED
    BY <2>5, StartOverStep
<1>2. ASSUME NEW t \in TimeWins, NEW fs \in Rates, InitRefused(t, fs)
      PROVE  IInv'
  BY <1>0, <1>2, QuietStep DEF InitRefused, Quiet, Handles, Results
<1>3. ASSUME NEW t \in TimeWins, NEW fs \in Rates, InitNoMemory(t, fs)
      PROVE  IInv'
  BY <1>0, <1>3, QuietStep DEF InitNoMemory, Quiet, Handles, Results
<1>4. CASE blockThreshold_reset
  <2>1. StartOver
    BY <1>0, <1>4 DEF blockThreshold_reset, StartOver
  <2> QED
    BY <2>1, StartOverStep
<1>5. ASSUME NEW kind \in InputKinds, DenoiseNeedsMore(kind)
      PROVE  IInv'
  BY <1>5, NeedsMoreStep DEF Kinds
<1>6. ASSUME NEW kind \in InputKinds, DenoiseMacroBlock(kind)
      PROVE  IInv'
  BY <1>6, MacroBlockStep DEF Kinds
<1>7. CASE EmptyWindowCrashes
  BY <1>0, <1>7, QuietStep DEF EmptyWindowCrashes, Quiet, Handles
<1>8. CASE DenoiseRefused
  BY <1>0, <1>8, QuietStep DEF DenoiseRefused, bufVars, Quiet, Results
<1>9. ASSUME NEW fmt \in Formats, blockThreshold_output(fmt)
      PROVE  IInv'
  BY <1>0, <1>9, QuietStep DEF blockThreshold_output, bufVars, Quiet, Results
<1>10. ASSUME NEW fmt \in Formats, blockThreshold_flush(fmt)
       PROVE  IInv'
  BY <1>10, FlushStep
<1>11. CASE ShortBuffer
  BY <1>0, <1>11, QuietStep DEF ShortBuffer, bufVars, Quiet, Results
<1>12. CASE blockThreshold_free
  BY <1>0, <1>12, QuietStep DEF blockThreshold_free, Quiet, Handles
<1>13. CASE UNCHANGED vars
  BY <1>0, <1>13, QuietStep DEF vars, Quiet
<1> QED
  BY <1>1, <1>2, <1>3, <1>4, <1>5, <1>6, <1>7, <1>8, <1>9, <1>10, <1>11,
     <1>12, <1>13 DEF Next
-----------------------------------------------------------------------------
(***************************************************************************)
(* The spectrum of an even window of w samples, cut in blocks of F         *)
(* columns.                                                                *)
(***************************************************************************)

\* The whole blocks end before the Nyquist column, and one more would not.
LEMMA WholeBlocks ==
  ASSUME NEW w \in Nat, w > 0, w % 2 = 0, NEW F \in Nat \ {0}
  PROVE  LET h == w \div 2
             q == ((w - 1) \div 2) \div F IN
         /\ h \in Nat /\ h > 0 /\ w = 2 * h
         /\ q \in Nat
         /\ q * F <= h - 1 /\ h - 1 < (q + 1) * F
<1> DEFINE h == w \div 2
           g == h - 1
           q == g \div F
           r == g % F
<1>1. h \in Nat /\ h > 0 /\ w = 2 * h
  OBVIOUS
<1>2. (w - 1) \div 2 = g
  BY <1>1
<1>3. g \in Nat
  BY <1>1
<1> HIDE DEF h, g
<1>4. q \in Nat /\ r \in Nat /\ r < F /\ g = q * F + r
  BY <1>3, Z3
<1> HIDE DEF q, r
<1>5. (q + 1) * F = q * F + F /\ q * F \in Nat
  BY <1>4, Z3
<1>6. q * F <= g /\ g < (q + 1) * F
  BY <1>3, <1>4, <1>5
<1> QED
  BY <1>1, <1>2, <1>4, <1>6 DEF h, g, q

\* Blocks of F columns follow each other.
LEMMA BlocksInOrder ==
  ASSUME NEW F \in Nat \ {0}, NEW i \in Nat, NEW j \in Nat, i < j
  PROVE  (i + 1) * F <= j * F /\ i * F \in Nat /\ j * F \in Nat
<1>1. PICK d \in Nat : j = i + 1 + d
  <2>1. j - i - 1 \in Nat /\ j = i + 1 + (j - i - 1)
    OBVIOUS
  <2> QED
    BY <2>1
<1>2. j * F = (i + 1) * F + d * F
  BY <1>1, Z3
<1>3. \A a \in Nat : a * F \in Nat
  BY Z3
<1> QED
  BY <1>2, <1>3

\* The property of the spectrum, for one window size.
LEMMA SpectrumCovered ==
  ASSUME NEW w \in Nat, w > 0, w % 2 = 0, NEW F \in Nat \ {0}
  PROVE  LET h == w \div 2
             q == ((w - 1) \div 2) \div F
             Blk(i) == 1 + i * F .. (i + 1) * F
             Rest == 1 + q * F .. h
             blocks == 0 .. q - 1 IN
         /\ \A i \in blocks : Blk(i) \subseteq 1 .. h
         /\ \A i, j \in blocks : i # j => Blk(i) \cap Blk(j) = {}
         /\ \A i \in blocks : Blk(i) \cap Rest = {}
         /\ {0} \cup Rest \cup UNION {Blk(i) : i \in blocks} = 0 .. h
         /\ 0 .. (w + 1) \div 2 - 1 = (0 .. h) \ {h}
<1> DEFINE h == w \div 2
           q == ((w - 1) \div 2) \div F
           Blk(i) == 1 + i * F .. (i + 1) * F
           Rest == 1 + q * F .. h
           blocks == 0 .. q - 1
<1>1. /\ h \in Nat /\ h > 0 /\ w = 2 * h /\ q \in Nat
      /\ q * F <= h - 1 /\ h - 1 < (q + 1) * F
  BY WholeBlocks
<1>2. (w + 1) \div 2 = h
  BY <1>1
<1> HIDE DEF h, q
<1>3. \A i \in Nat : i * F \in Nat /\ (i + 1) * F \in Nat
  BY Z3
<1>4. ASSUME NEW i \in blocks
      PROVE  i \in Nat /\ i * F \in Nat /\ (i + 1) * F \in Nat
             /\ q * F \in Nat /\ (i + 1) * F <= q * F
  <2>1. i \in Nat /\ i < q
    BY <1>1
  <2> QED
    BY <1>1, <1>3, <2>1, BlocksInOrder
<1>5. ASSUME NEW i \in blocks, NEW j \in blocks, i < j
      PROVE  (i + 1) * F <= j * F /\ (i + 1) * F \in Nat /\ j * F \in Nat
  BY <1>1, <1>3, <1>4, <1>5, BlocksInOrder
<1>6. ASSUME NEW i \in blocks
      PROVE  Blk(i) \subseteq 1 .. h /\ Blk(i) \cap Rest = {}
  <2>1. i * F \in Nat /\ (i + 1) * F \in Nat /\ q * F \in Nat /\ (i + 1) * F <= q * F
    BY <1>4
  <2> DEFINE a == i * F
             b == (i + 1) * F
             c == q * F
  <2> HIDE DEF a, b, c
  <2>2. (1 + a .. b) \subseteq 1 .. h /\ (1 + a .. b) \cap (1 + c .. h) = {}
    BY <1>1, <2>1 DEF a, b, c
  <2> QED
    BY <2>2 DEF a, b, c
<1>7. ASSUME NEW i \in blocks, NEW j \in blocks, i # j
      PROVE  Blk(i) \cap Blk(j) = {}
  <2> DEFINE a == i * F
             a1 == (i + 1) * F
             b == j * F
             b1 == (j + 1) * F
  <2>1. a \in Nat /\ a1 \in Nat /\ b \in Nat /\ b1 \in Nat
    BY <1>4
  <2>2. a1 <= b \/ b1 <= a
    <3>1. CASE i < j
      BY <1>5, <3>1
    <3>2. CASE j < i
      BY <1>5, <3>2
    <3> QED
      BY <1>1, <1>7, <3>1, <3>2
  <2> HIDE DEF a, a1, b, b1
  <2>3. (1 + a .. a1) \cap (1 + b .. b1) = {}
    BY <2>1, <2>2
  <2> QED
    BY <2>3 DEF a, a1, b, b1
<1>8. {0} \cup Rest \cup UNION {Blk(i) : i \in blocks} = 0 .. h
  <2>1. Rest \subseteq 0 .. h
    BY <1>1, <1>3
  <2>2. UNION {Blk(i) : i \in blocks} \subseteq 0 .. h
    <3>1. (1 .. h) \subseteq 0 .. h
      BY <1>1
    <3> QED
      BY <1>6, <3>1
  <2>3. ASSUME NEW x \in 0 .. h, x # 0, x \notin Rest
        PROVE  x \in UNION {Blk(i) : i \in blocks}
    <3>1. x \in Nat /\ x >= 1 /\ q * F \in Nat /\ x <= q * F
      BY <1>1, <1>3, <2>3
    <3> DEFINE y == x - 1
               i == y \div F
               r == y % F
    <3>2. y \in Nat
      BY <3>1
    <3> HIDE DEF y
    <3>3. i \in Nat /\ r \in Nat /\ r < F /\ y = i * F + r
      BY <3>2, Z3
    <3> HIDE DEF i, r
    <3>4. (i + 1) * F = i * F + F /\ i * F \in Nat
      BY <3>3, Z3
    <3>5. x \in Blk(i)
      BY <3>1, <3>3, <3>4 DEF y
    <3>6. i < q
      <4> SUFFICES ASSUME ~(i < q)
                   PROVE  FALSE
        OBVIOUS
      <4>1. q * F <= i * F
        <5>1. CASE i = q
          BY <3>4, <5>1
        <5>2. CASE q < i
          BY <1>1, <3>3, <5>2, BlocksInOrder, <1>3
        <5> QED
          BY <1>1, <3>3, <5>1, <5>2
      <4> QED
        BY <3>1, <3>3, <3>4, <4>1 DEF y
    <3>7. i \in blocks
      BY <1>1, <3>3, <3>6
    <3> QED
      BY <3>5, <3>7
  <2>4. 0 \in 0 .. h
    BY <1>1
  <2> HIDE DEF Rest
  <2> QED
    BY <2>1, <2>2, <2>3, <2>4
<1>9. 0 .. (w + 1) \div 2 - 1 = (0 .. h) \ {h}
  BY <1>1, <1>2
<1> QED
  BY <1>6, <1>7, <1>8, <1>9 DEF h, q
-----------------------------------------------------------------------------
(***************************************************************************)
(* The theorems.                                                           *)
(***************************************************************************)

\* The invariant holds in every reachable state.
THEOREM Invariance == Spec => []IInv
<1>1. Init => IInv
  BY InitIInv
<1>2. IInv /\ [Next]_vars => IInv'
  BY NextIInv
<1> QED
  BY <1>1, <1>2, PTL DEF Spec

\* The denoiser's state stays in its range; stft_coef is never indexed beyond
\* its max_nblk_time rows by the have_nblk_time that denoise counts up.
THEOREM TypeCorrect == Spec => []TypeOK
<1>1. IInv => TypeOK
  BY DEF IInv
<1> QED
  BY <1>1, Invariance, PTL

\* Whatever denoise, reset, flush and output calls came before, the frames
\* collected for the next macro block are the last ones fed, unfiltered.
THEOREM CollectedFramesFresh == Spec => []FreshFrames
<1>1. IInv => FreshFrames
  BY DEF IInv
<1> QED
  BY <1>1, Invariance, PTL

\* Unless flush was called, the overlap-add of inverse_STFT has put both sides
\* of each input half window together, in input order, one half window late.
THEOREM OutputIsAligned == Spec => []OutputAligned
<1>1. IInv => OutputAligned
  BY DEF IInv
<1> QED
  BY <1>1, Invariance, PTL

\* NaN leaves blockThreshold_core only out of a macro block of silence.
THEOREM NaNNeedsSilence == Spec => []NaNOnlyFromSilence
<1>1. IInv => NaNOnlyFromSilence
  BY DEF IInv
<1> QED
  BY <1>1, Invariance, PTL

\* For every window that blockThreshold_init computes, every column of the
\* spectrum gets exactly one threshold, and blockThreshold_wiener visits all
\* of them but the Nyquist column.
THEOREM SpectrumIsCovered == Spec => []ThresholdsCoverSpectrum
<1>1. IInv => ThresholdsCoverSpectrum
  <2> SUFFICES ASSUME IInv, handle = "live", win_size > 0
               PROVE  ThresholdsCoverSpectrum
    BY DEF ThresholdsCoverSpectrum
  <2>1. win_size \in Nat /\ win_size % 2 = 0
    BY DEF IInv, TypeOK, EvenWindow
  <2>2. MaxNblkFreq \in Nat \ {0}
    BY BlockThresholdAssumption
  <2>3. LET h == win_size \div 2
            q == ((win_size - 1) \div 2) \div MaxNblkFreq
            Blk(i) == 1 + i * MaxNblkFreq .. (i + 1) * MaxNblkFreq
            Rest == 1 + q * MaxNblkFreq .. h
            blocks == 0 .. q - 1 IN
        /\ \A i \in blocks : Blk(i) \subseteq 1 .. h
        /\ \A i, j \in blocks : i # j => Blk(i) \cap Blk(j) = {}
        /\ \A i \in blocks : Blk(i) \cap Rest = {}
        /\ {0} \cup Rest \cup UNION {Blk(i) : i \in blocks} = 0 .. h
        /\ 0 .. (win_size + 1) \div 2 - 1 = (0 .. h) \ {h}
    BY <2>1, <2>2, SpectrumCovered
  <2> QED
    BY <2>3, Zenon DEF ThresholdsCoverSpectrum, half_nb_macroblk_frq, BlockColumns,
       LastColumns, Nyquist, WienerColumns
<1> QED
  BY <1>1, Invariance, PTL

\* What the first flush after a reset delivers.
LEMMA FlushOrder ==
  ASSUME IInv, NEW fmt \in Formats, blockThreshold_flush(fmt), ~flushed,
         NEW i \in 1 .. have
  PROVE  /\ out'[i].rise.half.n = Done + i - 1
         /\ ~out'[i].rise.filtered
         /\ out'[i].rise.half.n > 0 => out'[i].fall.half = out'[i].rise.half
<1>1. /\ have \in Nat /\ fed \in Nat /\ handle = "live" /\ have < MaxNblkTime
      /\ \A j \in 0 .. have - 1 : coef[j] \in Frame
  <2>1. handle = "live"
    BY DEF blockThreshold_flush
  <2> QED
    BY <2>1, BlockThresholdAssumption DEF IInv, TypeOK, Frames
<1>2. out'[i] = outbuf'[i - 1]
  BY DEF blockThreshold_flush, Delivered
<1>3. /\ i - 1 \in 0 .. have - 1
      /\ outbuf'[i - 1].rise = OlderSide(coef[i - 1])
      /\ coef[i - 1] \in Frame
  BY <1>1, FlushPlaces
<1>4. coef[i - 1].older.n = Done + (i - 1) /\ ~coef[i - 1].filtered
  BY <1>1, <1>3 DEF IInv, FreshFrames
<1>5. out'[i].rise.half = coef[i - 1].older
      /\ out'[i].rise.filtered = coef[i - 1].filtered
  <2>1. out'[i].rise = OlderSide(coef[i - 1])
    BY <1>2, <1>3
  <2>2. /\ OlderSide(coef[i - 1]).half = coef[i - 1].older
        /\ OlderSide(coef[i - 1]).filtered = coef[i - 1].filtered
    BY <1>3, SidesOfFrame
  <2> QED
    BY <2>1, <2>2, Zenon
<1>6. out'[i].rise.half.n = Done + i - 1 /\ ~out'[i].rise.filtered
  BY <1>1, <1>4, <1>5 DEF Done
<1>7. ASSUME out'[i].rise.half.n > 0
      PROVE  out'[i].fall.half = coef[i - 1].older
  <2>1. CASE i = 1
    <3>1. Done > 0
      BY <1>1, <1>6, <1>7, <2>1 DEF Done
    <3>2. outbuf[MaxNblkTime].fall.half = FirstHalf /\ FirstHalf = coef[0].older
      BY <1>1, <2>1, <3>1 DEF IInv, CarryWaits, FirstHalf
    <3>3. outbuf'[0].fall = outbuf[MaxNblkTime].fall
      BY FlushPlaces
    <3> QED
      BY <1>2, <2>1, <3>2, <3>3
  <2>2. CASE i # 1
    <3>1. i - 1 \in 1 .. have /\ i - 2 \in 0 .. have - 1 /\ (i - 1) - 1 = i - 2
          /\ i - 2 # have - 1 /\ (i - 2) + 1 = i - 1
      BY <1>1, <2>2
    <3>2. outbuf'[i - 1].fall = NewerSide(coef[i - 2]) /\ coef[i - 2] \in Frame
      BY <1>1, <3>1, FlushPlaces
    <3>3. coef[i - 2].newer = coef[i - 1].older
      BY <1>1, <3>1 DEF IInv, FramesOverlap
    <3> QED
      BY <1>2, <3>2, <3>3, SidesOfFrame
  <2> QED
    BY <2>1, <2>2
<1> QED
  BY <1>5, <1>6, <1>7

\* The first flush after a reset delivers the collected half windows in input
\* order, unfiltered, joined to the last completed macro block.
THEOREM FlushDelivers == Spec => FlushJoins
<1>1. IInv => \A fmt \in Formats :
                blockThreshold_flush(fmt) /\ ~flushed =>
                  \A i \in 1 .. have :
                    /\ out'[i].rise.half.n = Done + i - 1
                    /\ ~out'[i].rise.filtered
                    /\ out'[i].rise.half.n > 0 => out'[i].fall.half = out'[i].rise.half
  BY FlushOrder
<1> QED
  BY <1>1, Invariance, PTL DEF FlushJoins
=============================================================================

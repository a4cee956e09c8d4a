-------------------------- MODULE DenoiseMainProofs --------------------------
(***************************************************************************)
(* Proofs about DenoiseMain, for every file length, channel count, window  *)
(* and rate: what main writes, half window by half window.                 *)
(***************************************************************************)
EXTENDS DenoiseMain, BlockThresholdProofs, SequenceTheorems

(***************************************************************************)
(* The inductive invariant.                                                *)
(***************************************************************************)

\* What main has read and written, in its variables and the denoiser's.
MainTypeOK ==
  /\ samples \in Nat /\ pos \in Nat /\ residue \in Nat
  /\ written \in Seq(Slot)

\* Nothing has been written before the loop.
NothingWritten == written = <<>> /\ residue = 0

\* In the loop main has written the macro blocks that are complete and has read
\* what it fed to the denoiser, which was not flushed.
LoopState(done, read) ==
  /\ handle = "live" /\ ~flushed
  /\ Len(written) = done
  /\ residue = 0
  /\ pos = read * frame_size /\ pos <= samples

Progress ==
  /\ pc \in {"config", "files", "header", "init"} => NothingWritten /\ pos = 0
  /\ pc = "alloc" => LoopState(Done, fed) /\ NothingWritten /\ have = 0
  /\ pc = "loop" => LoopState(Done, fed) /\ (num_samples > frame_size \/ NothingWritten)
  /\ pc = "denoise" => LoopState(Done, fed + 1) /\ num_samples > frame_size
  /\ pc = "output" => /\ LoopState(Done - MaxNblkTime, fed) /\ num_samples > frame_size
                      /\ Done > 0
  /\ pc \in {"cleanup", "done"} =>
       IF num_samples > frame_size
         THEN /\ pos = samples /\ Len(written) * frame_size + residue = samples
              /\ Len(written) = fed
         ELSE NothingWritten

MInv ==
  /\ IInv
  /\ MainTypeOK
  /\ Progress
  /\ WrittenInOrder
-----------------------------------------------------------------------------
\* What fwrite of the delivered half windows makes of the output file.
LEMMA Fwrite ==
  ASSUME NEW w \in Seq(Slot), NEW buf \in [0 .. MaxNblkTime -> Slot],
         NEW n \in 0 .. MaxNblkTime
  PROVE  LET v == w \o Delivered(buf, n) IN
         /\ v \in Seq(Slot)
         /\ Len(v) = Len(w) + n
         /\ \A k \in 1 .. Len(w) : v[k] = w[k]
         /\ \A k \in Len(w) + 1 .. Len(w) + n : v[k] = buf[k - Len(w) - 1]
<1> USE BlockThresholdAssumption
<1> DEFINE o == Delivered(buf, n)
<1>1. \A i \in 1 .. n : i - 1 \in 0 .. MaxNblkTime /\ buf[i - 1] \in Slot
  OBVIOUS
<1>2. o \in Seq(Slot) /\ Len(o) = n /\ \A i \in 1 .. n : o[i] = buf[i - 1]
  BY <1>1 DEF Delivered
<1> HIDE DEF o
<1>3. w \o o \in Seq(Slot) /\ Len(w \o o) = Len(w) + n
  BY <1>2, ConcatProperties
<1>4. \A k \in 1 .. Len(w) : (w \o o)[k] = w[k]
  BY <1>2
<1>5. ASSUME NEW k \in Len(w) + 1 .. Len(w) + n
      PROVE  (w \o o)[k] = buf[k - Len(w) - 1]
  <2>1. Len(w) \in Nat /\ k - Len(w) \in 1 .. n
    BY <1>2
  <2>2. (w \o o)[k] = o[k - Len(w)]
    BY <1>2, <2>1
  <2> QED
    BY <1>2, <2>1, <2>2
<1> QED
  BY <1>3, <1>4, <1>5 DEF o

\* Half windows that follow the ones written, each with both its sides, keep
\* the output file in order.
LEMMA StaysInOrder ==
  ASSUME NEW w \in Seq(Slot), NEW buf \in [0 .. MaxNblkTime -> Slot],
         NEW n \in 0 .. MaxNblkTime,
         \A k \in 1 .. Len(w) : /\ w[k].rise.half.n = k - 1
                                /\ k > 1 => w[k].fall.half.n = k - 1,
         \A i \in 0 .. n - 1 : /\ buf[i].rise.half.n = Len(w) + i
                               /\ buf[i].rise.half.n > 0 => buf[i].fall.half = buf[i].rise.half
  PROVE  LET v == w \o Delivered(buf, n) IN
         \A k \in 1 .. Len(v) : /\ v[k].rise.half.n = k - 1
                                /\ k > 1 => v[k].fall.half.n = k - 1
<1> USE BlockThresholdAssumption
<1> DEFINE v == w \o Delivered(buf, n)
<1>0. Len(w) \in Nat
  OBVIOUS
<1>1. /\ Len(v) = Len(w) + n
      /\ \A k \in 1 .. Len(w) : v[k] = w[k]
      /\ \A k \in Len(w) + 1 .. Len(w) + n : v[k] = buf[k - Len(w) - 1]
  <2> HIDE BlockThresholdAssumption
  <2> QED
    BY Fwrite, Zenon
<1> HIDE DEF v
<1>2. ASSUME NEW k \in 1 .. Len(v)
      PROVE  /\ v[k].rise.half.n = k - 1
             /\ k > 1 => v[k].fall.half.n = k - 1
  <2>1. CASE k \in 1 .. Len(w)
    BY <1>0, <1>1, <2>1
  <2>2. CASE k \in Len(w) + 1 .. Len(w) + n
    <3>1. k - Len(w) - 1 \in 0 .. n - 1 /\ Len(w) + (k - Len(w) - 1) = k - 1
      BY <1>0, <1>1, <2>2
    <3>2. v[k] = buf[k - Len(w) - 1]
      BY <1>0, <1>1, <2>2
    <3>3. /\ v[k].rise.half.n = k - 1
          /\ v[k].rise.half.n > 0 => v[k].fall.half = v[k].rise.half
      BY <3>1, <3>2
    <3> QED
      BY <1>0, <1>1, <3>3
  <2> QED
    BY <1>0, <1>1, <2>1, <2>2
<1> QED
  BY <1>2 DEF v

\* The program starts in the invariant.
LEMMA InitMInv == MainInit => MInv
<1> SUFFICES ASSUME MainInit
             PROVE  MInv
  OBVIOUS
<1>1. IInv
  BY InitIInv DEF MainInit
<1>2. MainTypeOK
  BY DenoiseMainAssumption DEF MainInit, MainTypeOK
<1>3. Progress
  BY DEF MainInit, Progress, NothingWritten
<1>4. WrittenInOrder
  BY DEF MainInit, WrittenInOrder
<1> QED
  BY <1>1, <1>2, <1>3, <1>4 DEF MInv

\* The steps of main that leave the denoiser and the files alone.
LEMMA SetupSteps ==
  ASSUME MInv,
         Setup \/ (\E channels \in Channels : HeaderOk(channels)) \/ HeaderGarbage
           \/ Alloc \/ LoopSkipped \/ UNCHANGED allVars
  PROVE  MInv'
<1>1. UNCHANGED <<vars, samples, pos, written, residue>>
  BY DEF Setup, HeaderOk, HeaderGarbage, Alloc, LoopSkipped, allVars, mainVars
<1>2. IInv'
  BY <1>1, NextIInv DEF MInv
<1>3. MainTypeOK' /\ WrittenInOrder'
  BY <1>1 DEF MInv, MainTypeOK, WrittenInOrder
<1>4. /\ \A d, r : LoopState(d, r)' <=> LoopState(d, r)
      /\ NothingWritten' <=> NothingWritten
      /\ Done' = Done /\ frame_size' = frame_size /\ pos' = pos /\ samples' = samples
      /\ written' = written /\ residue' = residue /\ have' = have /\ fed' = fed
  BY <1>1 DEF LoopState, NothingWritten, Done, frame_size, half_win_size, vars
<1>5. Progress'
  <2>1. CASE Setup
    BY <1>4, <2>1 DEF MInv, Progress, Setup
  <2>2. CASE (\E channels \in Channels : HeaderOk(channels)) \/ HeaderGarbage
    BY <1>4, <2>2 DEF MInv, Progress, HeaderOk, HeaderGarbage
  <2>3. CASE Alloc
    BY <1>4, <2>3 DEF MInv, Progress, Alloc
  <2>4. CASE LoopSkipped
    BY <1>4, <2>4 DEF MInv, Progress, LoopSkipped
  <2>5. CASE UNCHANGED allVars
    BY <1>4, <2>5 DEF MInv, Progress, allVars, mainVars
  <2> QED
    BY <2>1, <2>2, <2>3, <2>4, <2>5
<1> QED
  BY <1>2, <1>3, <1>5 DEF MInv

\* blockThreshold_init, called by main.
LEMMA InitDenoiserStep ==
  ASSUME MInv, NEW t \in TimeWins, NEW fs \in Rates, InitDenoiser(t, fs)
  PROVE  MInv'
<1>1. Next /\ UNCHANGED <<samples, pos, num_samples, written, residue>>
  BY DEF InitDenoiser, Next
<1>2. IInv'
  BY <1>1, NextIInv DEF MInv
<1>3. MainTypeOK' /\ WrittenInOrder'
  BY <1>1 DEF MInv, MainTypeOK, WrittenInOrder
<1>4. NothingWritten /\ pos = 0 /\ samples \in Nat
  BY DEF InitDenoiser, MInv, Progress, MainTypeOK
<1>5. CASE InitOk(t, fs) /\ pc' = "alloc"
  <2>1. handle' = "live" /\ ~flushed' /\ have' = 0 /\ fed' = 0
    BY <1>5 DEF InitOk
  <2>2. frame_size' \in Nat
    <3>1. win_size' \in Nat
      BY <1>2 DEF IInv, TypeOK
    <3>2. frame_size' = win_size' \div 2
      BY DEF frame_size, half_win_size
    <3>3. \A w \in Nat : w \div 2 \in Nat
      OBVIOUS
    <3> QED
      BY <3>1, <3>2, <3>3, Zenon
  <2>3. 0 * frame_size' = 0 /\ Done' = 0
    <3>1. \A a \in Nat : 0 * a = 0
      OBVIOUS
    <3>2. Done' = 0
      BY <2>1 DEF Done
    <3> HIDE DEF frame_size
    <3> QED
      BY <2>2, <3>1, <3>2
  <2>4. NothingWritten' /\ Len(written') = 0 /\ pos' = 0 /\ pos' <= samples'
    <3>1. written' = <<>> /\ residue' = 0 /\ pos' = 0 /\ samples' = samples
      BY <1>1, <1>4 DEF NothingWritten
    <3> QED
      BY <1>4, <3>1 DEF NothingWritten
  <2>5. LoopState(Done, fed)'
    BY <2>1, <2>3, <2>4 DEF LoopState, NothingWritten
  <2> QED
    BY <1>2, <1>3, <1>5, <2>1, <2>4, <2>5 DEF MInv, Progress
<1>6. CASE pc' \in {"failed", "crashed"}
  BY <1>2, <1>3, <1>6 DEF MInv, Progress
<1> QED
  BY <1>5, <1>6 DEF InitDenoiser

\* A full read.
LEMMA ReadFrameStep == MInv /\ ReadFrame => MInv'
<1> SUFFICES ASSUME MInv, ReadFrame
             PROVE  MInv'
  OBVIOUS
<1>1. UNCHANGED <<vars, samples, num_samples, written, residue>>
      /\ pos' = pos + frame_size /\ pos' <= samples /\ pc = "loop" /\ pc' = "denoise"
      /\ num_samples > frame_size
  BY DEF ReadFrame
<1>2. IInv'
  BY <1>1, NextIInv DEF MInv
<1>3. frame_size \in Nat /\ frame_size' = frame_size /\ fed \in Nat /\ Done' = Done
  BY <1>1 DEF MInv, IInv, TypeOK, frame_size, half_win_size, vars, Done
<1>4. MainTypeOK' /\ WrittenInOrder'
  BY <1>1, <1>3 DEF MInv, MainTypeOK, WrittenInOrder
<1>5. LoopState(Done, fed)
  BY <1>1 DEF MInv, Progress
<1>6. \A a, b \in Nat : (a + 1) * b = a * b + b
  BY Z3
<1>7. pos' = (fed + 1) * frame_size
  BY <1>1, <1>3, <1>5, <1>6 DEF LoopState
<1>8. LoopState(Done, fed + 1)'
  BY <1>1, <1>3, <1>5, <1>7 DEF LoopState, vars
<1> QED
  BY <1>1, <1>2, <1>3, <1>4, <1>8 DEF MInv, Progress

\* The short read at the end of the file: flush, and the samples read as they
\* are.
LEMMA ReadShortStep == MInv /\ ReadShort => MInv'
<1> SUFFICES ASSUME MInv, ReadShort
             PROVE  MInv'
  OBVIOUS
<1> USE BlockThresholdAssumption
<1>1. /\ blockThreshold_flush("int16") /\ "int16" \in Formats
      /\ written' = written \o out' /\ residue' = residue + (samples - pos)
      /\ pos' = samples /\ pc = "loop" /\ pc' = "cleanup"
      /\ num_samples > frame_size /\ UNCHANGED <<samples, num_samples>>
  BY DEF ReadShort, Readed, AfterShortRead, Formats
<1>2. IInv'
  BY <1>1, FlushStep DEF MInv
<1>3. /\ handle = "live" /\ ~flushed /\ Len(written) = Done /\ residue = 0
      /\ pos = fed * frame_size /\ pos <= samples
  BY <1>1 DEF MInv, Progress, LoopState
<1>4. /\ frame_size \in Nat /\ fed \in Nat /\ have \in Nat /\ have \in 0 .. MaxNblkTime
      /\ written \in Seq(Slot) /\ samples \in Nat /\ pos \in Nat
  BY DEF MInv, MainTypeOK, IInv, TypeOK, frame_size, half_win_size
<1>5. out' = Delivered(outbuf', have) /\ frame_size' = frame_size /\ fed' = fed
  BY <1>1 DEF blockThreshold_flush, frame_size, half_win_size
<1>6. outbuf' \in [0 .. MaxNblkTime -> Slot]
  BY <1>2 DEF IInv, TypeOK
<1>7. written' \in Seq(Slot) /\ Len(written') = fed
  <2>1. written' \in Seq(Slot) /\ Len(written') = Len(written) + have
    BY <1>1, <1>4, <1>5, <1>6, Fwrite
  <2> QED
    BY <1>3, <1>4, <2>1 DEF Done
<1>8. MainTypeOK'
  BY <1>1, <1>3, <1>4, <1>7 DEF MainTypeOK
<1>9. WrittenInOrder'
  <2>1. ASSUME NEW i \in 0 .. have - 1
        PROVE  /\ outbuf'[i].rise.half.n = Len(written) + i
               /\ outbuf'[i].rise.half.n > 0 =>
                    outbuf'[i].fall.half = outbuf'[i].rise.half
    <3>1. i + 1 \in 1 .. have /\ (i + 1) - 1 = i
      BY <1>4
    <3>2. out'[i + 1] = outbuf'[i]
      BY <1>5, <3>1 DEF Delivered
    <3>3. /\ out'[i + 1].rise.half.n = Done + (i + 1) - 1
          /\ out'[i + 1].rise.half.n > 0 => out'[i + 1].fall.half = out'[i + 1].rise.half
      BY <1>1, <1>3, <3>1, FlushOrder DEF MInv
    <3> QED
      BY <1>3, <1>4, <3>1, <3>2, <3>3 DEF Done
  <2>2. \A k \in 1 .. Len(written) : /\ written[k].rise.half.n = k - 1
                                     /\ k > 1 => written[k].fall.half.n = k - 1
    BY DEF MInv, WrittenInOrder
  <2>3. \A k \in 1 .. Len(written') : /\ written'[k].rise.half.n = k - 1
                                      /\ k > 1 => written'[k].fall.half.n = k - 1
    BY <1>1, <1>4, <1>5, <1>6, <2>1, <2>2, StaysInOrder
  <2> QED
    BY <2>3 DEF WrittenInOrder
<1>10. Len(written') * frame_size + residue' = samples
  BY <1>1, <1>3, <1>4, <1>7
<1> QED
  BY <1>1, <1>2, <1>5, <1>7, <1>8, <1>9, <1>10 DEF MInv, Progress

\* A half window goes to the denoiser.
LEMMA DenoiseFrameStep == MInv /\ DenoiseFrame => MInv'
<1> SUFFICES ASSUME MInv, DenoiseFrame
             PROVE  MInv'
  OBVIOUS
<1> USE BlockThresholdAssumption
<1>1. pc = "denoise" /\ UNCHANGED <<samples, pos, num_samples, written, residue>>
  BY DEF DenoiseFrame
<1>2. MainTypeOK' /\ WrittenInOrder'
  BY <1>1 DEF MInv, MainTypeOK, WrittenInOrder
<1>3. LoopState(Done, fed + 1) /\ num_samples > frame_size
  BY <1>1 DEF MInv, Progress
<1>4. "sound" \in Kinds /\ fed \in Nat /\ have \in 0 .. MaxNblkTime - 1 /\ have <= fed
  BY <1>3 DEF MInv, IInv, TypeOK, Kinds, FramesOverlap, LoopState
<1>5. CASE DenoiseNeedsMore("sound") /\ pc' = "loop"
  <2>1. IInv'
    BY <1>4, <1>5, NeedsMoreStep DEF MInv
  <2>2. fed' = fed + 1 /\ have' = have + 1 /\ UNCHANGED <<handle, win_size, flushed>>
    BY <1>5 DEF DenoiseNeedsMore, HaveAfterFrame
  <2>3. Done' = Done /\ frame_size' = frame_size
    BY <1>4, <2>2 DEF Done, frame_size, half_win_size
  <2>4. LoopState(Done, fed)'
    BY <1>1, <1>3, <2>2, <2>3 DEF LoopState
  <2> QED
    BY <1>1, <1>2, <1>3, <1>5, <2>1, <2>3, <2>4 DEF MInv, Progress
<1>6. CASE DenoiseMacroBlock("sound") /\ pc' = "output"
  <2>1. IInv'
    BY <1>4, <1>6, MacroBlockStep DEF MInv
  <2>2. /\ fed' = fed + 1 /\ have' = 0 /\ have + 1 = MaxNblkTime
        /\ UNCHANGED <<handle, win_size, flushed>>
    BY <1>6 DEF DenoiseMacroBlock, HaveAfterFrame
  <2>3. Done' - MaxNblkTime = Done /\ Done' > 0 /\ frame_size' = frame_size
    BY <1>4, <2>2 DEF Done, frame_size, half_win_size
  <2>4. LoopState(Done - MaxNblkTime, fed)'
    BY <1>1, <1>3, <2>2, <2>3 DEF LoopState
  <2> QED
    BY <1>1, <1>2, <1>3, <1>6, <2>1, <2>3, <2>4 DEF MInv, Progress
<1>7. CASE EmptyWindowCrashes /\ pc' = "crashed"
  <2>1. IInv'
    BY <1>7, NextIInv DEF MInv, Next
  <2> QED
    BY <1>2, <1>7, <2>1 DEF MInv, Progress
<1> QED
  BY <1>5, <1>6, <1>7 DEF DenoiseFrame

\* A completed macro block is fetched and written.
LEMMA WriteMacroBlockStep == MInv /\ WriteMacroBlock => MInv'
<1> SUFFICES ASSUME MInv, WriteMacroBlock
             PROVE  MInv'
  OBVIOUS
<1> USE BlockThresholdAssumption
<1>1. /\ blockThreshold_output("int16") /\ "int16" \in Formats
      /\ written' = written \o out' /\ pc = "output" /\ pc' = "loop"
      /\ UNCHANGED <<samples, pos, num_samples, residue>>
  BY DEF WriteMacroBlock, Formats
<1>2. IInv'
  BY <1>1, NextIInv DEF MInv, Next
<1>3. LoopState(Done - MaxNblkTime, fed) /\ num_samples > frame_size /\ Done > 0
  BY <1>1 DEF MInv, Progress
<1>4. /\ out' = Delivered(outbuf, MaxNblkTime)
      /\ UNCHANGED <<handle, win_size, have, fed, flushed>>
  BY <1>1 DEF blockThreshold_output, bufVars
<1>5. /\ written \in Seq(Slot) /\ outbuf \in [0 .. MaxNblkTime -> Slot]
      /\ MaxNblkTime \in 0 .. MaxNblkTime /\ Done \in Int
  BY DEF MInv, MainTypeOK, IInv, TypeOK, Done
<1>6. written' \in Seq(Slot) /\ Len(written') = Done
  <2>1. written' \in Seq(Slot) /\ Len(written') = Len(written) + MaxNblkTime
    BY <1>1, <1>4, <1>5, Fwrite
  <2> QED
    BY <1>3, <1>5, <2>1 DEF LoopState
<1>7. MainTypeOK'
  BY <1>1, <1>6 DEF MInv, MainTypeOK
<1>8. WrittenInOrder'
  <2>1. \A i \in 0 .. MaxNblkTime - 1 :
          /\ outbuf[i].rise.half.n = Len(written) + i
          /\ outbuf[i].rise.half.n > 0 => outbuf[i].fall.half = outbuf[i].rise.half
    BY <1>3 DEF MInv, IInv, OutputAligned, LoopState, Frames
  <2>2. \A k \in 1 .. Len(written) : /\ written[k].rise.half.n = k - 1
                                     /\ k > 1 => written[k].fall.half.n = k - 1
    BY DEF MInv, WrittenInOrder
  <2>3. \A k \in 1 .. Len(written') : /\ written'[k].rise.half.n = k - 1
                                      /\ k > 1 => written'[k].fall.half.n = k - 1
    BY <1>1, <1>4, <1>5, <2>1, <2>2, StaysInOrder
  <2> QED
    BY <2>3 DEF WrittenInOrder
<1>9. Done' = Done /\ frame_size' = frame_size
  BY <1>4 DEF Done, frame_size, half_win_size
<1>10. LoopState(Done, fed)'
  BY <1>1, <1>3, <1>4, <1>6, <1>9 DEF LoopState
<1> QED
  BY <1>1, <1>2, <1>3, <1>7, <1>8, <1>9, <1>10 DEF MInv, Progress

\* The denoiser is freed and the files are closed.
LEMMA CleanupStep == MInv /\ Cleanup => MInv'
<1> SUFFICES ASSUME MInv, Cleanup
             PROVE  MInv'
  OBVIOUS
<1>1. /\ blockThreshold_free /\ pc = "cleanup" /\ pc' = "done"
      /\ UNCHANGED <<samples, pos, num_samples, written, residue>>
  BY DEF Cleanup
<1>2. IInv'
  BY <1>1, NextIInv DEF MInv, Next
<1>3. MainTypeOK' /\ WrittenInOrder'
  BY <1>1 DEF MInv, MainTypeOK, WrittenInOrder
<1>4. frame_size' = frame_size /\ fed' = fed
  BY <1>1 DEF blockThreshold_free, frame_size, half_win_size
<1> QED
  BY <1>1, <1>2, <1>3, <1>4 DEF MInv, Progress, NothingWritten
-----------------------------------------------------------------------------
\* Every step of the program, and of its denoiser, keeps the invariant.
LEMMA NextMInv == MInv /\ [MainNext]_allVars => MInv'
<1> SUFFICES ASSUME MInv, [MainNext]_allVars
             PROVE  MInv'
  OBVIOUS
<1>1. CASE Setup \/ (\E channels \in Channels : HeaderOk(channels)) \/ HeaderGarbage
             \/ Alloc \/ LoopSkipped \/ UNCHANGED allVars
  BY <1>1, SetupSteps
<1>2. CASE \E t \in TimeWins, fs \in Rates : InitDenoiser(t, fs)
  BY <1>2, InitDenoiserStep
<1>3. CASE ReadFrame
  BY <1>3, ReadFrameStep
<1>4. CASE ReadShort
  BY <1>4, ReadShortStep
<1>5. CASE DenoiseFrame
  BY <1>5, DenoiseFrameStep
<1>6. CASE WriteMacroBlock
  BY <1>6, WriteMacroBlockStep
<1>7. CASE Cleanup
  BY <1>7, CleanupStep
<1> QED
  BY <1>1, <1>2, <1>3, <1>4, <1>5, <1>6, <1>7 DEF MainNext

\* The invariant holds in every reachable state of the program.
THEOREM MainInvariance == MainSpec => []MInv
<1>1. MainInit => MInv
  BY InitMInv
<1>2. MInv /\ [MainNext]_allVars => MInv'
  BY NextMInv
<1> QED
  BY <1>1, <1>2, PTL DEF MainSpec

\* main writes the input one half window late, across macro blocks and across
\* the switch from blockThreshold_output to blockThreshold_flush.
THEOREM MainWritesInOrder == MainSpec => []WrittenInOrder
<1>1. MInv => WrittenInOrder
  BY DEF MInv
<1> QED
  BY <1>1, MainInvariance, PTL

\* When main ends normally the output has exactly the samples of the input, or
\* none if its loop was never entered.
THEOREM MainKeepsLength == MainSpec => []LengthKept
<1>1. MInv => LengthKept
  BY DEF MInv, Progress, LengthKept, NothingWritten
<1> QED
  BY <1>1, MainInvariance, PTL

\* Of the half windows main has read, the output lacks the newest, which flush
\* drops, and no other.
OnlyNewestDropped ==
  pc = "done" /\ num_samples > frame_size =>
    \A h \in 1 .. fed :
      (\E k \in 1 .. Len(written) : written[k].rise.half.n = h) <=> h < fed

\* The sound that blockThreshold_flush loses is exactly one half window, however
\* long the file is and wherever its end lies in a macro block.
THEOREM MainDropsOneHalf == MainSpec => []OnlyNewestDropped
<1>1. MInv => OnlyNewestDropped
  <2> SUFFICES ASSUME MInv, pc = "done", num_samples > frame_size, NEW h \in 1 .. fed
               PROVE  (\E k \in 1 .. Len(written) : written[k].rise.half.n = h) <=> h < fed
    BY DEF OnlyNewestDropped
  <2>1. Len(written) = fed /\ fed \in Nat
    BY DEF MInv, Progress, IInv, TypeOK
  <2>2. \A k \in 1 .. Len(written) : written[k].rise.half.n = k - 1
    BY DEF MInv, WrittenInOrder
  <2>3. ASSUME h < fed
        PROVE  \E k \in 1 .. Len(written) : written[k].rise.half.n = h
    <3>1. h + 1 \in 1 .. Len(written) /\ (h + 1) - 1 = h
      BY <2>1, <2>3
    <3> QED
      BY <2>2, <3>1
  <2>4. ASSUME NEW k \in 1 .. Len(written), written[k].rise.half.n = h
        PROVE  h < fed
    <3>1. h = k - 1
      BY <2>2, <2>4
    <3> QED
      BY <2>1, <3>1
  <2> QED
    BY <2>3, <2>4
<1> QED
  BY <1>1, MainInvariance, PTL
=============================================================================

----------------------------- MODULE DenoiseMain -----------------------------
(***************************************************************************)
(* The command-line program Denoise/BlockThresholding/main.cpp driving the *)
(* denoiser: it reads a wav file half window by half window, feeds the     *)
(* denoiser and writes what comes out.                                     *)
(*                                                                         *)
(* The input is a number of 16-bit samples; the output is a sequence of    *)
(* half windows as the denoiser delivered them, followed by the raw        *)
(* samples of an incomplete last read.  What the samples sound like plays  *)
(* no role here.                                                           *)
(***************************************************************************)
EXTENDS BlockThreshold

CONSTANTS
  FileLengths,  \* numbers of 16-bit samples in the input file
  Channels      \* numbers of channels its header may state

ASSUME DenoiseMainAssumption ==
  /\ FileLengths \subseteq Nat
  /\ Channels \subseteq Nat \ {0}

VARIABLES
  pc,           \* where main is
  samples,      \* samples in the input file
  pos,          \* samples read
  headerOk,     \* read_header found a header
  num_samples,  \* the bound main computes from the header
  written,      \* half windows written
  residue       \* raw samples written after them

mainVars == <<pc, samples, pos, headerOk, num_samples, written, residue>>
allVars == <<vars, mainVars>>
-----------------------------------------------------------------------------
frame_size == half_win_size

BitsPerSample == 16

\* main.cpp:61, for a header whose data size is that of the file.
NumSamples(n, channels) == (((2 * n) \div channels) \div BitsPerSample) \div 8

MainInit ==
  /\ Init
  /\ pc = "config"
  /\ samples \in FileLengths
  /\ pos = 0 /\ headerOk = FALSE /\ num_samples = 0
  /\ written = <<>> /\ residue = 0

\* Config and files: main returns 1 when one is missing.
Setup ==
  /\ pc \in {"config", "files"}
  /\ pc' \in {"failed", IF pc = "config" THEN "files" ELSE "header"}
  /\ UNCHANGED <<vars, samples, pos, headerOk, num_samples, written, residue>>

HeaderOk(channels) ==
  /\ pc = "header"
  /\ headerOk' = TRUE
  /\ num_samples' = NumSamples(samples, channels)
  /\ pc' = "init"
  /\ UNCHANGED <<vars, samples, pos, written, residue>>

\* read_header's result is not looked at: without a header the computation
\* runs on uninitialised values, a zero divisor among them.
HeaderGarbage ==
  /\ pc = "header"
  /\ num_samples' \in {0, 1000}
  /\ pc' \in {"init", "crashed"}
  /\ UNCHANGED <<vars, samples, pos, headerOk, written, residue>>

InitDenoiser(time_win, fs) ==
  /\ pc = "init"
  /\ \/ InitOk(time_win, fs) /\ pc' = "alloc"
     \/ InitRefused(time_win, fs) /\ pc' = "failed"
     \/ InitNoMemory(time_win, fs) /\ pc' = IF handle' = "crashed" THEN "crashed" ELSE "failed"
  /\ UNCHANGED <<samples, pos, headerOk, num_samples, written, residue>>

Alloc ==
  /\ pc = "alloc"
  /\ pc' \in {"loop", "failed"}
  /\ UNCHANGED <<vars, samples, pos, headerOk, num_samples, written, residue>>

\* The loop's condition, which no iteration changes.
LoopSkipped ==
  /\ pc = "loop"
  /\ ~(num_samples > frame_size)
  /\ pc' = "cleanup"
  /\ UNCHANGED <<vars, samples, pos, headerOk, num_samples, written, residue>>

ReadFrame ==
  /\ pc = "loop"
  /\ num_samples > frame_size
  /\ pos + frame_size <= samples
  /\ pos' = pos + frame_size
  /\ pc' = "denoise"
  /\ UNCHANGED <<vars, samples, headerOk, num_samples, written, residue>>

\* A short read: flush, append the samples that were read as they are, and
\* leave the loop.
WholeBuffer == frame_size  \* variant: fwrite of the whole buffer
Readed == samples - pos

NoBreak == "denoise"  \* variant: the break is missing
AfterShortRead == "cleanup"

ReadShort ==
  /\ pc = "loop"
  /\ num_samples > frame_size
  /\ pos + frame_size > samples
  /\ blockThreshold_flush("int16")
  /\ written' = written \o out'
  /\ residue' = residue + Readed
  /\ pos' = samples
  /\ pc' = AfterShortRead
  /\ UNCHANGED <<samples, headerOk, num_samples>>

DenoiseFrame ==
  /\ pc = "denoise"
  /\ \/ DenoiseNeedsMore("sound") /\ pc' = "loop"
     \/ DenoiseMacroBlock("sound") /\ pc' = "output"
     \/ EmptyWindowCrashes /\ pc' = "crashed"
  /\ UNCHANGED <<samples, pos, headerOk, num_samples, written, residue>>

WriteMacroBlock ==
  /\ pc = "output"
  /\ blockThreshold_output("int16")
  /\ written' = written \o out'
  /\ pc' = "loop"
  /\ UNCHANGED <<samples, pos, headerOk, num_samples, residue>>

Cleanup ==
  /\ pc = "cleanup"
  /\ blockThreshold_free
  /\ pc' = "done"
  /\ UNCHANGED <<samples, pos, headerOk, num_samples, written, residue>>

MainNext ==
  \/ Setup
  \/ \E channels \in Channels : HeaderOk(channels)
  \/ HeaderGarbage
  \/ \E t \in TimeWins, fs \in Rates : InitDenoiser(t, fs)
  \/ Alloc
  \/ LoopSkipped
  \/ ReadFrame
  \/ ReadShort
  \/ DenoiseFrame
  \/ WriteMacroBlock
  \/ Cleanup

\* main is sequential code that keeps running.
MainSpec == MainInit /\ [][MainNext]_allVars /\ WF_allVars(MainNext)
-----------------------------------------------------------------------------
(***************************************************************************)
(* Properties                                                              *)
(***************************************************************************)

\* The output file is the input one half window late, across macro blocks
\* and across the switch from output to flush: its k-th half window is
\* input half window k - 1, both sides of it, the first one being silence.
WrittenInOrder ==
  \A k \in 1 .. Len(written) :
    /\ written[k].rise.half.n = k - 1
    /\ k > 1 => written[k].fall.half.n = k - 1

\* When main is done it has written exactly as many samples as it has read,
\* and it has read the whole file unless it never entered its loop.
LengthKept ==
  pc = "done" =>
    IF num_samples > frame_size
      THEN pos = samples /\ Len(written) * frame_size + residue = samples
      ELSE written = <<>> /\ residue = 0

\* main ends, although its loop condition never changes: the short read at
\* the end of the file is what ends it.
Terminates == <>(pc \in {"done", "failed", "crashed"})

\* At the end of the file main says it flushes the samples in the internal
\* buffer (main.cpp:84), so every half window it read is in the output.
EverythingFlushed ==
  pc = "done" /\ num_samples > frame_size =>
    \A h \in 1 .. fed : \E k \in 1 .. Len(written) : written[k].rise.half.n = h
=============================================================================

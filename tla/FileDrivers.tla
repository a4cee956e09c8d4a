----------------------------- MODULE FileDrivers -----------------------------
(***************************************************************************)
(* The programs of WebRtc_AMP_Port that push a wav file through one WebRTC *)
(* module: test_ns, test_agc, test_aec, test_aecm, test_vad and            *)
(* test_resampler, and the three programs of test_libapm.                  *)
(* They share one shape: open, read_header, check the format, allocate,    *)
(* then while (!feof) read a frame, process it, write a frame.             *)
(*                                                                         *)
(* A sample is its number in the input file, from 1; Silence is what the   *)
(* buffers are cleared to, Torn the indeterminate sample of which the file *)
(* ends in the middle.  The WebRTC stages are external and leave every     *)
(* sample at its place; test_vad writes a verdict on the frame in place of *)
(* each sample.                                                            *)
(***************************************************************************)
EXTENDS WavIo, Sequences

CONSTANTS
  Files,     \* the input files
  FarFiles,  \* the far-end files of the echo cancellers
  OutRates,  \* the values of argv[3] of test_resampler
  MaxFrames  \* bound on frm_cnt

ASSUME FilesAssumption ==
  \A f \in Files \cup FarFiles : f \in WavFile /\ IsFiniteSet(f.marks)
ASSUME OutRatesAssumption == OutRates \subseteq Nat
ASSUME MaxFramesAssumption == MaxFrames \in Nat

Silence == 0
Torn == -1

\* What distinguishes the programs: the files read in one iteration, in order;
\* whether write_header comes before the checks; what they do about stereo.
TestNs == [name |-> "ns", reads |-> <<"in">>, headerFirst |-> TRUE, stereo |-> "any"]
TestAgc == [name |-> "agc", reads |-> <<"in">>, headerFirst |-> TRUE, stereo |-> "refuse"]
TestApmAgc ==
  [name |-> "agc_mic", reads |-> <<"in">>, headerFirst |-> TRUE, stereo |-> "refuse"]
TestAec == [name |-> "aec", reads |-> <<"ref", "in">>, headerFirst |-> FALSE, stereo |-> "assert"]
TestAecm == [name |-> "aecm", reads |-> <<"ref", "in">>, headerFirst |-> FALSE, stereo |-> "assert"]
TestVad == [name |-> "vad", reads |-> <<"in">>, headerFirst |-> FALSE, stereo |-> "assert"]
TestResampler ==
  [name |-> "resampler", reads |-> <<"in">>, headerFirst |-> TRUE, stereo |-> "any"]
TestApmNs == [name |-> "rnnoise", reads |-> <<"in">>, headerFirst |-> TRUE, stereo |-> "any"]
TestApmNsFloat ==
  [name |-> "float", reads |-> <<"in">>, headerFirst |-> FALSE, stereo |-> "any"]

Drivers ==
  {TestNs, TestAgc, TestApmAgc, TestAec, TestAecm, TestVad, TestResampler, TestApmNs,
   TestApmNsFloat}
GainControls == {TestAgc, TestApmAgc}

\* Those that copy their frames into an AudioFrame, and those that put them into
\* an AudioBuffer.
Framing == {TestNs, TestAec, TestAecm}
Buffering == Framing \cup {TestApmNs}

VARIABLES
  driver,   \* the program
  outRate,  \* atoi(argv[3])
  file,     \* the input files
  pc,       \* where main is
  ret,      \* how it ended
  header,   \* the headers read
  written,  \* the header written, or NoHeader
  length,   \* samples read and written per iteration
  pos, eof, \* for each input file, the byte reached and the end-of-file flag
  buf,      \* for each input file, the buffer it is read into
  out,      \* the samples written
  frm_cnt

setup == <<driver, outRate, file>>
loop == <<pos, eof, buf, out, frm_cnt>>
vars == <<setup, pc, ret, header, written, length, loop>>

Sources == {driver.reads[i] : i \in DOMAIN driver.reads}
Streams == {"in", "ref"}

Init ==
  /\ driver \in Drivers
  /\ outRate \in IF driver = TestResampler THEN OutRates ELSE {0}
  /\ \E a \in Files : \E b \in IF Len(driver.reads) = 2 THEN FarFiles ELSE {a} :
       file = [in |-> a, ref |-> b]
  /\ pc = "open" /\ ret = "running"
  /\ header = [s \in Streams |-> NoHeader]
  /\ written = NoHeader
  /\ length = 0
  /\ pos = [s \in Streams |-> 0]
  /\ eof = [s \in Streams |-> FALSE]
  /\ buf = [s \in Streams |-> <<>>]
  /\ out = <<>>
  /\ frm_cnt = 0

Stop(how) == pc' = "done" /\ ret' = how
Go(where) == pc' = where /\ UNCHANGED ret
-----------------------------------------------------------------------------
\* Too few arguments, or a file that cannot be opened.
Open ==
  /\ pc = "open"
  /\ \/ Stop("refused")
     \/ Go(IF driver = TestApmNsFloat THEN "start" ELSE "header")
  /\ UNCHANGED <<setup, header, written, length, loop>>

\* The headers of the input files; a missing one ends the program.
ReadHeaders ==
  /\ pc = "header"
  /\ header' = [s \in Streams |-> IF s \in Sources THEN read_header(file[s]) ELSE NoHeader]
  /\ IF \A s \in Sources : header'[s].ok
       THEN Go("format") /\ pos' = [s \in Streams |-> header'[s].start]
       ELSE Stop("refused") /\ UNCHANGED pos
  /\ UNCHANGED <<setup, written, length, eof, buf, out, frm_cnt>>

\* test_resampler puts the rate asked for into the header, and reads the rate of
\* the input from there afterwards.
Retagged(h) ==
  IF driver = TestResampler THEN [h EXCEPT !.format.rate = outRate] ELSE h

Bits16 == \A s \in Sources : header[s].format.bits = 16
RateSupported ==
  driver \in GainControls => header["in"].format.rate \in {8000, 16000, 32000, 48000}
StereoRefused == driver.stereo = "refuse" /\ header["in"].format.channels > 1
AssertFails ==
  /\ driver.stereo = "assert"
  /\ \/ \E s \in Sources : header[s].format.channels # 1
     \/ \E s, t \in Sources : header[s].format.rate # header[t].format.rate

\* The checks between the headers and the buffers.  An assertion stops a debug
\* build and is absent from a release build.
CheckFormat ==
  /\ pc = "format"
  /\ header' = [header EXCEPT !["in"] = Retagged(@)]
  /\ \/ /\ ~Bits16 \/ ~RateSupported \/ StereoRefused
        /\ Stop("refused")
        /\ written' = IF driver.headerFirst THEN header'["in"] ELSE NoHeader
     \/ /\ Bits16 /\ AssertFails
        /\ Stop("aborted")
        /\ UNCHANGED written
     \/ /\ Bits16 /\ RateSupported /\ ~StereoRefused
        /\ Go("start")
        /\ written' = header'["in"]
  /\ UNCHANGED <<setup, length, loop>>

uint16(n) == n % 2^16

\* Samples per iteration: 10 ms of one channel; of all channels in the two
\* programs that use APM_NS; 10 or 20 ms for the gain control.
FrameLength ==
  LET format == header["in"].format
      tenMs == uint16(format.rate \div 100)
  IN CASE driver \in GainControls -> IF format.rate = 8000 THEN 80 ELSE 160
       [] driver = TestApmNs -> format.channels * tenMs
       [] driver = TestApmNsFloat -> 2 * 480
       [] OTHER -> tenMs

\* rnnoise wants 48000 Hz.
RnnoiseRefuses == driver = TestApmNs /\ header["in"].format.rate # 48000

\* What the constructor of AudioBuffer asserts; a negative number of channels
\* (short) throws.
BufferAsserts ==
  driver \in Buffering => header["in"].format.channels \in 1 .. 2 /\ FrameLength > 0
BufferThrows == driver \in Buffering /\ header["in"].format.channels >= 2^15

\* The modules are created and the buffers allocated and cleared.  Creating the
\* gain control may fail, and the resampler divides by the rate.
Start ==
  /\ pc = "start"
  /\ \/ /\ driver \in GainControls \/ RnnoiseRefuses
        /\ Stop("refused")
        /\ UNCHANGED <<length, buf>>
     \/ /\ ~RnnoiseRefuses /\ ~BufferAsserts
        /\ Stop("aborted")
        /\ UNCHANGED <<length, buf>>
     \/ /\ (driver = TestResampler /\ outRate = 0) \/ (~RnnoiseRefuses /\ BufferThrows)
        /\ Stop("crashed")
        /\ UNCHANGED <<length, buf>>
     \/ /\ ~RnnoiseRefuses /\ ~BufferThrows
        /\ driver = TestResampler => outRate # 0
        /\ Go("loop")
        /\ length' = FrameLength
        /\ buf' = [s \in Streams |-> [k \in 1 .. length' |-> Silence]]
  /\ UNCHANGED <<setup, header, written, pos, eof, out, frm_cnt>>
-----------------------------------------------------------------------------
SampleWidth == IF driver = TestApmNsFloat THEN 4 ELSE 2

\* Variant: the position in the file is advanced by the number of samples.
ReadAdvancingBySamples(s) ==
  [read_samples(file[s], pos[s], length, SampleWidth) EXCEPT
     !.pos = Min({@, pos[s] + length})]

\* Variant: the end is seen when the last byte has been read.
ReadSeesEnd(s) ==
  LET r == read_samples(file[s], pos[s], length, SampleWidth)
  IN [r EXCEPT !.eof = (r.pos >= file[s].len)]

\* Variant: the end is not noticed by a read that gets nothing.
ReadMissesEnd(s) ==
  LET r == read_samples(file[s], pos[s], length, SampleWidth)
  IN [r EXCEPT !.eof = @ /\ r.got > 0]

\* Variant: the far end is read one frame ahead.
ReadFarAhead(s) ==
  LET ahead == IF s = "ref" /\ frm_cnt = 0 THEN length * SampleWidth ELSE 0
  IN read_samples(file[s], pos[s] + ahead, length, SampleWidth)

Read(s) == read_samples(file[s], pos[s], length, SampleWidth)

\* What fread leaves in the buffer: where it stored nothing, the last frame.
Filled(s, r) ==
  [k \in 1 .. length |->
     IF k <= r.got THEN (pos[s] - header[s].start) \div SampleWidth + k
     ELSE IF k = r.got + 1 /\ r.partial THEN Torn
     ELSE buf[s][k]]

\* test_apm_ns writes as many samples as it read, the others a whole frame.
WrittenCount(r) == IF driver = TestApmNs THEN r.got ELSE length

kMaxDataSizeSamples == 3840

\* What a frame is processed without: test_ns does not look at the result of
\* WebRtcNs_Init, which takes only these rates, and its suppressor is then not
\* initialised; nobody looks for a channel; and UpdateFrame only asserts that the
\* frame fits.
Prepared ==
  LET format == header["in"].format IN
  /\ driver = TestNs => format.rate \in {8000, 16000, 32000, 48000}
  /\ driver \in Buffering => format.channels > 0
  /\ driver \in Framing => length * format.channels <= kMaxDataSizeSamples

\* while (!feof(mic_file) && !feof(speaker_file))
Reading == \A s \in Sources : ~eof[s]

\* One iteration: the far end first, where there is one, then the near end,
\* which is processed and written.  Every input file is read and advanced
\* whatever the others hold.
Iterate ==
  /\ pc = "loop" /\ Reading /\ Prepared /\ frm_cnt < MaxFrames
  /\ LET r == [s \in Sources |-> Read(s)]
     IN /\ pos' = [s \in Streams |-> IF s \in Sources THEN r[s].pos ELSE pos[s]]
        /\ eof' = [s \in Streams |-> s \in Sources /\ r[s].eof]
        /\ buf' = [s \in Streams |-> IF s \in Sources THEN Filled(s, r[s]) ELSE buf[s]]
        /\ out' = out \o SubSeq(buf'["in"], 1, WrittenCount(r["in"]))
  /\ frm_cnt' = frm_cnt + 1
  /\ UNCHANGED <<setup, pc, ret, header, written, length>>

\* The gain control reports a failure: main returns without writing the frame.
AgcFails ==
  /\ pc = "loop" /\ Reading /\ driver \in GainControls
  /\ Stop("refused")
  /\ UNCHANGED <<setup, header, written, length, loop>>

\* UpdateFrame copies length samples per channel from a buffer of length
\* samples; with more than one channel it reads behind the buffer.  What it finds
\* there is not written, but it may not be readable at all.
ReadsBehindBuffer ==
  /\ pc = "loop" /\ Reading
  /\ driver \in Framing /\ header["in"].format.channels > 1
  /\ Stop("crashed")
  /\ UNCHANGED <<setup, header, written, length, loop>>

\* An assertion or a division by no channels ends the program; without the
\* assertion its behaviour is undefined, and nothing more is said of it.
ProcessUndefined ==
  /\ pc = "loop" /\ Reading /\ ~Prepared
  /\ Stop("crashed")
  /\ UNCHANGED <<setup, header, written, length, loop>>

\* The loop condition fails: everything is closed and freed.
Close ==
  /\ pc = "loop" /\ ~Reading
  /\ Stop("ok")
  /\ UNCHANGED <<setup, header, written, length, loop>>

Next ==
  \/ Open \/ ReadHeaders \/ CheckFormat \/ Start
  \/ Iterate \/ AgcFails \/ ReadsBehindBuffer \/ ProcessUndefined \/ Close

\* The programs are sequential and keep running.
Spec == Init /\ [][Next]_vars /\ WF_vars(Next)
-----------------------------------------------------------------------------
(***************************************************************************)
(* Properties.                                                             *)
(***************************************************************************)
\* read_header agrees with the chunk structure of the file although it only looks
\* for four letters: it accepts every wav file whose chunks begin within the first
\* 256 bytes and whose format chunk has its 16 bytes, takes the format from that
\* chunk and leaves the file at the first sample, where only a stray "fmt " or a
\* stray "data" in front can mislead it; and with no stray ID it accepts no other
\* file, except that it may miss a data chunk within 24 bytes of a shorter format
\* chunk.
HeaderIsTheChunks ==
  pc = "open" => \A s \in Streams :
    LET f == file[s]
        h == read_header(f)
    IN /\ \A fmt, data \in f.marks :
            /\ IsWave(f, fmt, data) /\ WholeFormat(fmt)
            /\ \A m \in Lookalikes(f) : m.id = "fmt " => m.at > fmt.at
            => /\ h.ok /\ h.format = fmt.format
               /\ \/ h.start = data.at + DataSize
                  \/ \E m \in Lookalikes(f) :
                       m.id = "data" /\ m.at < data.at /\ h.start = m.at + DataSize
       /\ Lookalikes(f) = {} /\ h.ok =>
            \E fmt, data \in f.marks :
              /\ FirstChunk(f, "fmt ", 0, fmt)
              /\ data \in Chunks(f) /\ data.id = "data"
              /\ h.format = fmt.format /\ h.start = data.at + DataSize
              /\ WholeFormat(fmt) => IsWave(f, fmt, data)

\* The result file is a wav file again: the chunk chain of the header that was
\* written leads to the samples that follow it, although the format chunk of the
\* input may have been longer, and the format is that of the input, with the rate
\* asked for in test_resampler (wav_io.c 89, test_resampler_module.cpp 38).  The
\* sizes of the RIFF and the data chunk are those of the input, whatever was
\* written.
ResultIsWav ==
  written.ok =>
    LET f == write_header(written, 2 * Len(out))
        h == read_header(f)
        given == read_header(file["in"])
    IN /\ Lookalikes(f) = {}
       /\ h.ok /\ h.start + 2 * Len(out) = f.len
       /\ h.riffSize = given.riffSize /\ h.dataSize = given.dataSize
       /\ h.format = IF driver = TestResampler THEN [given.format EXCEPT !.rate = outRate]
                                               ELSE given.format

\* Whole samples an input file has behind its header, and whether it ends in the
\* middle of one.
Available(s) == (file[s].len - header[s].start) \div SampleWidth
EndsTorn(s) == (file[s].len - header[s].start) % SampleWidth # 0

\* Sample k of a file, read in frames; behind its end at most one torn sample and
\* then the frame before, or the cleared buffer if there was none.
SampleOf(s, k) ==
  IF k <= Available(s) THEN k
  ELSE IF k = Available(s) + 1 /\ EndsTorn(s) THEN Torn
  ELSE IF k > length THEN k - length ELSE Silence

\* Sample k of the result is sample k of the input, up to its end; what follows
\* in the last frame is what the short read left there.
SamplesInPlace == \A k \in 1 .. Len(out) : out[k] = SampleOf("in", k)

\* The far end and the near end stay aligned: in every iteration both are given
\* the same samples of their files, however the files begin and wherever they end,
\* so that the canceller subtracts what was played (test_aec_module.cpp 70-81).
EndsAligned ==
  pc = "loop" /\ frm_cnt > 0 =>
    \A s \in Sources : \A k \in 1 .. length :
      buf[s][k] = SampleOf(s, (frm_cnt - 1) * length + k)

\* A program that ends normally has written whole frames, one more than fit into
\* the shorter of its files, so that a file of exactly n frames gets a frame of
\* stale samples too; test_apm_ns has written every sample once.
ResultLength ==
  ret = "ok" =>
    Len(out) = IF driver = TestApmNs THEN Available("in")
               ELSE length * Min({Available(s) \div length + 1 : s \in Sources})

\* The loop ends for every file, unless the frames are empty: below 100 Hz fread
\* is asked for nothing and never meets the end of the file.
LoopEnds == (pc = "loop" /\ length > 0) ~> (pc = "done")
=============================================================================

# A TLA+ development of audioSignalProcess

The repository collects audio processing code: two thread-safe buffers for
playback, a block-thresholding denoiser with a command-line program, a wrapper
around parts of WebRTC's audio processing, and vendored libraries. This
directory holds TLA+ models of its own code, the TLC runs that check them and
TLAPS proofs about them.

## Inventory

| Part | State it keeps | Operations | Who it interacts with |
|---|---|---|---|
| Ring buffer `common/BufferManager/ring_buf.c` | `buf_size`, `buf_head`, `buf_tail`, the bytes, a mutex | create, push, pop, get_size, get_used_size, get_free_size, destroy | any number of producer and consumer threads, through the mutex |
| Frames queue `common/BufferManager/frames_queue.c` | slots (`ready`, `valid_size`, `size`, `data`), `index_head`, `index_tail`, a mutex | create, push, pop, get_num_valid_frames, destroy | as above; pop hands out a pointer into the queue |
| Denoiser `Denoise/BlockThresholding/src/audioDenoiseBlockTreshold.c` | input buffer of two half windows, up to 8 frames of coefficients, `have_nblk_time`, output buffer of 9 half windows | init, denoise, output, flush, reset, free | its caller; kiss_fft |
| Denoiser program `Denoise/BlockThresholding/main.cpp` | position in the file, what was written | one sequential run | config, wav header, denoiser |
| Wav header `common/wav_parser/wav_io.c` | the position in a file | read_header, write_header, read/write samples | every program |
| `APM_NS` `WebRtc_AMP_Port/libapm/src/apm_ns.cpp` | vectors of noise-suppression, gain-control and rnnoise handles | initNsModule, initRnnoiseModule, processCaptureStream, processUseRnnoise, destructor | WebRTC |
| AudioBuffer `WebRtc_AMP_Port/webrtc/modules/audio_processing` | the frame and its bands, each as shorts and as floats with validity flags | data, split_bands, split, merge | `APM_NS` |
| High-pass filter `WebRtc_AMP_Port/libapm/src/highpass_filter.c` | 15 taps of delay | initFilter, filter_int16, filter_float | its calls in `test_apm_ns.cpp` are commented out |
| Test drivers `WebRtc_AMP_Port/test_*_module.cpp`, `test_libapm` | file positions, the frame buffer | one read-process-write loop each | wav header, WebRTC modules, `APM_NS` |
| kiss_fft `common/kiss_fft` | factors and twiddles | complex and real transforms, both directions | denoiser |
| WebRTC, FFTW, jansson, soxr | vendored | | |

What is hard about it: the buffers are shared between threads, wrap round, and
hand out results (sizes, counts, block pointers) that are used after the mutex
has been released; the denoiser carries state across calls in four buffers that
must stay in step through any sequence of denoise, output, flush and reset, and
divides by energies that are zero in silence; `main` switches between three
ways of producing output; the wrapper works on two copies of every buffer; the
test programs drop the count of a short read; the header reader searches a window
of 256 bytes. Each of these is listed at its line under `hazards`
in `PROJECT.json`, with the properties that would notice it going wrong.

What makes each part correct:

* ring buffer: bytes come out in order, none is lost or overwritten before it
  was popped, full and empty are told apart, answers of the queries stay usable,
  a polling consumer makes progress;
* frames queue: frames come out once, in order and with their size; a popped
  block stays intact long enough; the count is right;
* denoiser: every output half window is the overlap of both sides of one input
  half window, in input order; frames of a previous macro block never come
  back; output is numbers; every column is thresholded once;
* `APM_NS`: handles are freed once, stay with their channel, and each sample comes
  back to its place after the stages that were asked for;
* kiss_fft: for every size it computes the discrete Fourier transform, and the
  real transforms undo each other up to the size;
* high-pass filter: an output is the convolution of its own stream;
* programs: they end, and they write what they read, in order, behind a header
  that leads to it and gives its format; the echo cancellers see near and far end
  aligned.

## Modules

| Module | Models |
|---|---|
| `RingBuf` | the ring buffer and its threads |
| `ByteStream` | abstract: the bounded in-order stream the ring buffer promises |
| `RingBufProofs` | theorems about `RingBuf` |
| `FramesQueue` | the frames queue and its consumers |
| `FrameFifo` | abstract: a bounded first-in-first-out queue of frames |
| `FramesQueueProofs` | theorems about `FramesQueue` |
| `BlockThreshold` | the denoiser as a library, under any sequence of calls |
| `BlockThresholdProofs` | theorems about `BlockThreshold` |
| `DenoiseMain` | `main.cpp`, composed with `BlockThreshold` (it extends that module and takes its actions) |
| `DenoiseMainProofs` | theorems about `DenoiseMain`, on top of `BlockThresholdProofs` |
| `ApmNs` | `APM_NS`: its handle vectors, buffer and processing functions, under any sequence of calls |
| `AudioBuffer` | WebRTC's AudioBuffer, IFChannelBuffer and SplittingFilter, as `ApmNs` uses them |
| `ApmNsProofs` | theorems about `ApmNs` and the frames it puts through `AudioBuffer` |
| `WavIo` | search_ID, read_header, write_header and read_samples over files of chunks |
| `FileDrivers` | the nine test programs, composed with `WavIo` |
| `FileDriversProofs` | theorems about `FileDrivers` and the header reader and writer |
| `KissFft` | kiss_fft and the real transforms, and a program that calls them |
| `HighPass` | the high-pass filter |
| `HighPassProofs` | theorems about `HighPass` |
| `SampleFormat` | the conversions between shorts and floats, with their theorems |
| `MC...` | instances for TLC |

**RingBuf.** A byte is its position in the pushed stream, pointers are offsets.
Push, pop and the queries are one step each because the code holds the mutex
from the first to the last access; get_size reads only the immutable
`buf_size`. The two memcpys of push are `AfterPush`, those of pop `Popped`, the
pointer updates `TailAfterPush` and `HeadAfterPop`, the two macros `Used` and
`Free`, and the strict guards `Fits` and `Available`. `seenFree` and `seenUsed`
remember what a thread was told and has not yet used. create fails for size 0
(`*pbuf` untouched) or without memory (`*pbuf` = NULL). destroy does not lock;
no call overlaps it in the model, which is what its callers must ensure.

**FramesQueue.** A frame is its number, a block the number of its allocation.
push has five outcomes: refused, block reused (`PushReuses`), block reallocated
(`PushGrows`), reallocation failed (`PushGrowFails`: the block is gone and the
slot keeps its size), and the memcpy to NULL that may follow
(`PushToNull`, which ends the program). pop gives the consumer the block itself:
`held` records slot, block and frame. destroy unlocks a mutex it has freed,
so it may end the program.

**BlockThreshold.** Samples are abstracted to half windows: a number and a kind
saying where the half window is zero. The Hanning window is zero at both ends,
so a half window whose only sound is its first or last sample vanishes under one
side of the window; the four kinds tell these cases apart. A frame is the pair
of half windows it was computed from, with flags for "filtered" and "NaN". A
half window of `outbuf` is the pair of contributions added there: the falling
side of one frame and the rising side of the next. `OverlapAdd` is the code
shared by the inverse STFT and both flush functions. `blockThreshold_core` is
abstracted to where it produces NaN: `SegTimes` says which segmentations in time
the SURE search may return when some tiles have no energy, `NaNRows` which rows
then get a NaN gain. A frame's spectrum is taken to vanish over a block exactly
when its windowed samples are all zero; rounding and underflow are not modelled,
and kiss_fft is a transform pair (`KissFft`). The column arithmetic of core and
of the Wiener loop (`BlockColumns`, `LastColumns`, `WienerColumns`) is exact.
Memory that init does not clear holds `Garbage`. A rate below 1000 gives an empty
window (`EmptyWindowCrashes`): the transforms of 0 points follow factors that were
never written, and the Wiener step divides by zero.

**DenoiseMain.** One action per stage of main; the loop reads, denoises, outputs
as separate steps. Opening files and parsing the configuration succeed or fail.
The result of read_header is ignored by main, so without a header the bound is
arbitrary or the division fails.

**ApmNs.** A handle is its kind, the number of the initialisation that created it
and its channel; a sample is its place in the interleaved frame and the stages
it went through. An initialisation is one action that picks where it stops
(`Stops`: at the end, or at any channel in the creation or the initialisation of
either handle, set_config and set_policy counting as initialisation) and leaves
what it had built by then. `WebRtcNs_Init` accepts four rates (`NsRates`); at any
other one the first channel fails. This matters: a rate such as 32050 has the frame
length of 32000, so its buffer would get bands that are then never split into. `new`
throws instead of returning NULL, so the code's tests for NULL never fire and are left
out; an exception for lack of memory is not modelled. initNsModule refuses a negative
number of channels; initRnnoiseModule looks at no number, so with an old buffer it
accepts zero or fewer channels, creates no handle and returns true; without one, a
negative number makes the new buffer throw (`BufferThrows`). This is the release build:
the assertions of AudioBuffer on the number of channels are absent.
`Deinterleaved` and `Interleaved` are the index arithmetic of the two
loops. Between them a frame goes through `AudioBuffer`, call by call in the code's
order and channel by channel (`ForChannels`). A frame
that is written past the buffer ends the model (`ProcessOverruns`). The model
takes from the callers (`test_apm_ns.cpp`) that they pass `frequency/100` as
frame length, process only after an initialisation that returned true, and with
its channel count. rnnoise_create is taken to succeed.

**AudioBuffer.** An IFChannelBuffer is its two copies and their validity; `ibuf`,
`fbuf` and their const forms refresh and invalidate as the code does, for all
channels at once. `Bands` is the split buffer or, at one band, the frame itself. All
bands are treated alike by every call, so one buffer stands for them, and the
filters move samples without changing them. That the conversions between the
copies change no sample is the theorem `CopiesAgree`.

**WavIo.** A file is a length, a type and a list of chunks at their offsets, plus
places where the four bytes of a chunk ID occur by chance. `search_ID` finds the
first such place in the window; `read_header` has every early return and the final
seek; what it finds in fields is what the chunks there hold. `write_header` yields
the 44-byte file header as a file of that kind again, so that the reader can be
run on what was written. The sizes of the RIFF and the data chunk in it are those that
were read, whatever is written afterwards; the bytes per second, which test_resampler
leaves at the old rate, are not modelled. `WavFile` is the set of such files; the numbers in their
chunks are taken to be non-negative, and one place holds one ID. The reference that
`read_header` is compared with is the format's own idea of a file: `Chunks` is the
least set of marks that contains the one behind the RIFF header and, with each chunk,
the one at its end. All other marks are `Lookalikes`. `read_header` skips 24 bytes
for the format chunk whatever its size: behind a shorter one (the 14 bytes of the
oldest wav files) it misses a data chunk that follows at once, which is why
`HeaderIsTheChunks` asks for `WholeFormat`.

**FileDrivers.** The nine programs differ in how many files they read, what they
check, how they size a frame and what they write; these differences are operators
over the driver's name, the skeleton (open, read headers, check the format,
allocate, loop, close) is shared. Samples are their numbers in the input file.
`Read` is fread: it leaves the rest of the buffer as it was and sets end-of-file
only when it could not read everything. The processing calls are taken to leave
samples in place, or to fail where the program checks for that. A frame that the
calls are not prepared for (`Prepared`) is not processed in the model: test_ns ignores
that `WebRtcNs_Init` refuses a rate and goes on with a suppressor that was not
initialised, a header may give no channel, and a frame of more than 3840 samples does
not fit an AudioFrame. The program then stops (`ProcessUndefined`), which stands for
whatever happens from there on; the assertions of AudioBuffer stop a debug build
before that (`BufferAsserts`), and a negative channel count throws (`BufferThrows`). test_webrtc_apm.cpp
has no loop and processes nothing; it is left out.

**KissFft.** The code uses only ring operations and roots of unity, so it is run
over the complex numbers modulo the prime 10079, a field in which all roots of
unity whose order divides 10080 exist: equality is exact and a wrong twiddle, sign
or index shows. `kf_work` is the recursion of the code, with the butterflies
applied column by column; the loops of the butterflies touch disjoint columns.
The transforms are linear, so the unit vectors of a size settle it. An allocation may
return NULL; a transform in place goes through a temporary buffer whose malloc is not
checked (`TransformCrashes`). FIXED_POINT, SIMD and OpenMP are not in the build
modelled, and memory supplied by the caller is left out.

**HighPass.** A tap is the stream and number of the sample in it, an output the
taps its sum was taken over. `Cleared` is the memset of `initFilter`, which counts
shorts where the line holds floats: 7 taps become zero, one loses half of its
bytes, 7 keep what they had.

**SampleFormat.** A float is a fraction; the casts cut off towards zero. Products
are exact, NaN is left out.

Definitions commented as *variant* are faulty forms of the definition that
follows them; replacing the definition by its variant makes the property that
`PROJECT.json` names under `mutants` fail.

## Runs

Passing:

* `ring_buffer` (`MCRingBuf.cfg`): capacities 0, 1, 3, 4, 5; pushes of 0 to 3 and
  pops of 0, 2 and 3 bytes; one producer and one consumer, for whom the query
  property is meant; 9 bytes, so that both pointers go round at least once in
  every capacity. One-byte pops are left out because liveness fails for them
  (see below); the safety properties are proved for all sizes.
* `frames_queue` (`MCFramesQueue.cfg`): 1 to 3 slots, frames of size 1 and 2 (so
  blocks are reused and reallocated) and 0 (refused), 6 frames: two rounds of the
  largest queue. The program may crash, so deadlock is not checked.
* `denoiser` (`MCBlockThreshold.cfg`): macro blocks of 2 frames that can be cut
  in two, blocks of 2 columns, window sizes 0 and 10 (9 rounded up; one block
  and last columns that do not fill one), all four kinds of half windows, 5
  half windows: two macro blocks and a partial one, with resets and flushes
  anywhere.
* `denoise_main` (`MCDenoiseMain.cfg`): the code's own sizes (8 frames, 3
  cuts, 16 columns), half windows of 0, 1 and 2 samples, files of 0 to 200
  samples on both sides of the loop's bound, with and without a remainder, mono
  and stereo.
* `apm_ns` (`MCApmNs.cfg`): rates of 16000 (one band), 32000 and 48000, the rejected
  rate 32050, mono, stereo, no channel and a negative count, frames of 1 and 2 samples
  per channel, three
  initialisations: one to leave vectors behind, one to mix with them, one more
  to meet the mixture. A destroyed object does nothing, so deadlock is not
  checked.
* `test_drivers` (`MCFileDrivers.cfg`): files in every layout the reader tells apart
  (other chunks in between, long and short format chunks, missing and doubled chunks,
  stray IDs of each kind in front of, between and in the chunks, a data header at,
  before and behind the end of the window), with lengths around a whole
  number of frames and torn samples; rates from below 100 Hz up to one whose frames are
  too long for an AudioFrame; no channel and a negative count; `MaxFrames` = 60
  is more than the longest file has. The programs stop, so deadlock is not checked.
* `transforms` (`MCTransforms.cfg`): the two libraries that compute with samples; they
  share nothing, so a behaviour uses one of them. kiss_fft with 18 sizes up to 30 and
  15 real sizes up to 32, which use
  every butterfly alone, first, last and in the middle, the generic one with radix
  7, real half sizes that are odd and even, and a refused odd size; strides 1 and 2;
  all unit vectors, real and imaginary; configurations of the wrong direction and
  allocations that fail. `Once` lets the program make one transform of each kind, as no
  call leaves anything behind that a later one reads. The high-pass filter with the
  code's sizes, three streams of up to 18 samples (longer than the delay line) cut into
  buffers of 0 to 16 samples.

Failing on purpose, each showing one disagreement between the code and what the
repository says about it:

* `ring_buffer_head`: a pop that ends exactly at the end of the buffer puts the
  head on the last byte (`ring_buf.c:107`) instead of the start; that byte is
  delivered twice. A consumer that pops single bytes gets that byte for ever.
* `frames_queue_count`: a full queue reports 0 frames, because its indices are equal
  as in an empty one (`frames_queue.c:125`), where `frames_queue.h:35` promises "the
  number of valid frames in queue". The theorem `CountCorrectUnlessFull` shows that
  this is the only case.
* `denoiser_float`: a macro block of silence comes out as NaN
  (`audioDenoiseBlockTreshold.c:466`). `NaNOnlyFromSilence` shows that this is the
  only case: a pause inside a macro block with sound is harmless.
* `denoise_main_flush`: flush drops the newest half window
  (`audioDenoiseBlockTreshold.c:659`).
* `apm_ns_rnnoise`: `processUseRnnoise` with gain control runs rnnoise on the
  full-band data and then overwrites it by merging the bands
  (`apm_ns.cpp:296`).

Seen while modelling and not given a run: `ringbuf_push` returns the size where
`ring_buf.h:24` says 1; `main.cpp:61` computes 1/64 of the number of samples, so
files shorter than about 64 half windows produce only a header (`LengthKept`
states this case); the field comment `odd window`
(`audioDenoiseBlockTreshold.c:18`) contradicts the even window of line 122; after
flush the denoiser has to be reset before it is fed again, since
`have_nblk_time` is kept and the carried half window is gone. `apm_ns.h:28` gives
0 for success where the functions return true; re-initialising an `APM_NS` loses
the handles it replaces and keeps old gain levels (`HandlesOwnedOnce` and
`LevelsFollowHandles` state what holds nevertheless: an old level reaches only a gain
control of the same channel), and its destructor deletes the
AudioBuffer through a void pointer, so that the arrays inside stay allocated. The
Wiener filter leaves out the Nyquist column,
whose threshold was computed (`ThresholdsCoverSpectrum`); the programs write a
frame of stale samples behind the last one (`SamplesInPlace`, `ResultLength`);
test_resampler sets the target rate before it reads the source rate, and resamples
nothing: its result has as many samples as its input (`ResultLength`); the sizes in the
header written are those of the input although the last frame made the data longer
(`ResultIsWav`); the high-pass filter starts with eight outputs that hear
the stream or the memory before (`OutputIsConvolution`).

**Fairness.** `RingBuf!PollingSpec` and `FramesQueue!PollingSpec` assume weak
fairness of a successful pop: a consumer thread that polls. Every call releases
the mutex, so such a thread is delayed and never shut out as long as a pop stays
possible; producers are not assumed to do anything. `MainSpec` assumes that the
sequential program keeps running, and so does `FileDrivers!Spec`.

**Bounds.** `MaxStream`, `MaxFrames`, `MaxHalves`, `MaxInits`, `MaxStreams` and `MaxSamples` cap what happens in one
lifetime; they are guards of the accepting actions and named constants. The
theorems hold for every value of those of their modules.

## Proofs

`RingBufProofs` (all capacities, threads and sizes) proves `TypeOK`,
`UnreadIntact`, `EqualPointersMeanUnused`, `QueriesStayValid` as invariants and
the refinement `Spec => StreamSpec`. The inductive invariant `IndInv` is their
conjunction: that push overwrites nothing unread rests on the pointers being in
range, and that the used part is the end of the stream is needed to show that
pop delivers consecutive bytes. Stream positions are related to offsets by
`StreamAt`, without division, which keeps every step linear. `PushCounts` and
`PopCounts` say how the two counters move; all else cites them.
`PopRepeatsOnlyAtEnd` measures what the run `ring_buffer_head` shows: one byte is
repeated, exactly when a pop ends at the end of the buffer, so pops of two bytes and
more always get on. This is the part of `PolledBytesArrive` that needs no fairness.

`FramesQueueProofs` proves `TypeOK`, `ReadyIsWindow`, `WaitingFramesIntact`,
`HeldFramesIntact`, `SeenFramesStay`, `CountExactUnlessFull` and the refinement
`Spec => FifoSpec` for every number of slots and every set of consumers. The
inductive invariant adds `HeldFramesLatest`: a held frame is the last one pushed
into its slot until `num_frames` further frames were accepted, which is what
excludes that the slot at the tail, the only one push touches, is one whose
block is still under its grace period. `RefusedOnlyIfEmptyOrFull` draws the
consequence for the callers: pop fails only on an empty queue and push lacks room only
in a full one, also where head and tail are equal and the count reads 0.

`SampleFormat` proves, in exact arithmetic, that every short survives the way to
float and back (`S16Survives`), that the cast in FloatToS16 is defined for every
number (`FloatFits`), and that the two copies of a WebRTC buffer convert into each
other unchanged (`CopiesAgree`). Two lemmas about integer division carry them.

`BlockThresholdProofs` proves, for every macro block size, window, rate and number of
half windows, `TypeOK`, `FreshFrames`, `OutputAligned`, `NaNOnlyFromSilence`,
`ThresholdsCoverSpectrum` and the action property `FlushJoins`. What aligns the output
is spread over three buffers, so the inductive invariant `IInv` relates them:
`FramesOverlap` says that each collected frame starts with the half window the one
before ends with, down to the one in the input buffer, and `CarryWaits` that the last
half window of the output buffer holds exactly the side which the first collected
frame will complete. Without the second, the first half window of a macro block
could be joined to anything. `EvenWindow` carries the arithmetic of the columns,
which `SpectrumIsCovered` proves from division lemmas.

`DenoiseMainProofs` proves `WrittenInOrder` and `LengthKept` of the composed program.
Its invariant `MInv` is the denoiser's plus `Progress`, which ties the position in
the input, the macro blocks written and the denoiser's count of half windows together
at every stage of main; the denoiser's steps are taken from the lemmas of
`BlockThresholdProofs`. `MainDropsOneHalf` says how much the flush of the run
`denoise_main_flush` loses: the newest half window and no other, whatever the length.

`ApmNsProofs` proves all seven properties of `ApmNs` that its passing run checks. `AInv` adds to them that each
vector holds distinct handles of its own kind from known initialisations
(`VectorsOwn`, so that a new handle is in no old vector), that the object owns what
lives until handles are replaced (`OwnsLive`), that a handle has served the channel
of its place (`ServedInPlace`; `OneChannelPerHandle` alone says nothing about the next
frame), and that the buffer of a noise suppression session fits (`BufferFits`).
`ProcessedInPlace` rests on `PInv`, which adds the rates a session can have, and on
closed forms of the loops over the channels: which of the two copies of the bands is
valid after k channels, and what each of them holds (`NsBuf`). At the first channel
suppression finds floats that are out of date for all channels; the proof shows
that the conversion picks up the shorts, and that the last one before merging goes the
other way.

`FileDriversProofs` proves `SamplesInPlace`, `EndsAligned`, `ResultLength`,
`ResultIsWav` and `HeaderIsTheChunks` for all nine programs and all files. `DInv` says where the file position is after each
iteration (`Positions`, `Progress`) and that behind the samples of a short read the
buffer still holds the frame before (`Buffer`), which is what the last frame
written consists of. `ResultsAreWavFiles` runs `read_header` on what `write_header`
produced, through every search. `LoopsStayInFile` bounds the iterations by the file,
independently of `MaxFrames`: the part of `LoopEnds` that needs no fairness.

`HeadersAreTheChunks` compares the search for four letters with the chain of chunks
for every file. Since `Chunks` is a least set, a fact about all chunks is
proved by giving a set of marks that the chain does not lead out of
(`ChunkInduction`), which takes the place of an induction along the chain. This gives
that every chunk lies behind the RIFF header (`ChunkBehindRiff`) and that chunks do
not overlap (`ChunksApart`, with `NoneInside` nested in it). So the data chunk lies
behind the 24 bytes the reader skips, every search succeeds, and whatever it finds
earlier is no chunk (`WaveAccepted`); conversely, without stray IDs, what it finds
are the chunks (`AcceptedIsWave`).

`HighPassProofs` proves `OutputIsConvolution` for every number of taps and all
sample sizes. The invariant is the content of the delay line between calls
(`LineHolds`): the latest samples, then the taps still silent from `initFilter`.

The loops of `HighPass` and `ApmNs` are recursive functions over the samples or the
channels, and each is proved equal to a closed form: take the first index at which they
would differ (`LeastNat`, from the well-foundedness of the naturals); the step
before it gives the contradiction. This needs no induction rule.

Assumptions are the named ASSUMEs about the constants: sets of sizes, rates and channel
counts are sets of integers, a queue has at least one slot and a macro block one frame,
files are of the form `WavFile` with finitely many marks, one at a place, a short is no longer than a
float.

Only model-checked: liveness (`PolledBytesArrive`, `FramesArrive`, `Terminates`,
`LoopEnds`), which is out of the prover's reach; and `KissFft`, which is written with
recursive operators and whose properties are equations between sums that only
induction over the size gives.

## Not modelled

The vendored libraries make up nearly all of the repository: WebRTC (about 770000
lines, of which the buffers of `APM_NS` are modelled), FFTW, jansson and soxr. They
are not this project's code, most of them are not even called by it, and no model of
the repository's own code can cover a notable share of their lines. Gain control,
noise suppression and rnnoise are stages a sample goes through. Sample values, gains and rounding
in the denoiser are abstracted as described; float rounding is left out everywhere.
The allocations of `blockThreshold_init` are one step that succeeds or fails: after a
failure the cleanup frees pointers that were never set, and the model takes the
outcome to be undefined. Calls that overlap `ringbuf_destroy` are excluded by the
caller; no caller in the repository shows how.

## Plan

What a next step would add:

1. The allocation sequence of `blockThreshold_init` with its cleanup path.
2. `DenoiseMain` reading its header through `WavIo`.

-------------------------------- MODULE ApmNs --------------------------------
(***************************************************************************)
(* APM_NS, the capture-side library of WebRtc_AMP_Port/libapm: one object  *)
(* that owns a WebRTC noise suppressor, or an rnnoise state, and optionally *)
(* a gain control for every channel, and runs interleaved frames through   *)
(* them.                                                                   *)
(*                                                                         *)
(* A handle is <<kind, n, ch>>: the one of that kind that the n-th         *)
(* initialisation created for channel ch.  A sample is its place in the    *)
(* interleaved input and the sequence of stages it went through.           *)
(*                                                                         *)
(* The caller's side, as in test_apm_ns.cpp: input_frames is frequency/100, *)
(* and a frame is processed only after an initialisation that returned     *)
(* true, by the function that goes with it and with its channel count.     *)
(***************************************************************************)
EXTENDS Integers, Sequences, FiniteSets, Functions, AudioBuffer

CONSTANTS
  Rates,     \* sampling frequencies
  Channels,  \* the channel counts the caller passes to an initialisation
  Samples,   \* the numbers of samples per channel in a frame
  MaxInits   \* bound on initialisations of one object

ASSUME RatesAssumption == Rates \subseteq Nat
ASSUME ChannelsAssumption == Channels \subseteq Int
ASSUME SamplesAssumption == Samples \subseteq Nat
ASSUME MaxInitsAssumption == MaxInits \in Nat

VARIABLES
  alive,             \* the object has not been destroyed
  m_nsHandles, m_agcHandles, m_rnnoiseHandles,
  m_captureLevel,    \* for each entry Zero, or the gain control it came from
  capture_buffer,    \* the shape of the AudioBuffer, or NoBuffer
  m_frequency, m_channels, m_doAgc,
  ready,             \* the initialisation the caller may rely on
  out,               \* the samples of the last processed frame
  \* history
  inits,             \* the number of initialisations that created handles
  live,              \* handles created and not freed
  served,            \* <<h, ch>>: handle h has processed channel ch
  shifted,           \* m_agcHandles was cleared, m_captureLevel was not
  failed,            \* some initialisation failed half-way
  overrun            \* a frame was written into a buffer it does not fit

config == <<m_frequency, m_channels, m_doAgc>>
vectors == <<m_nsHandles, m_agcHandles, m_rnnoiseHandles>>
vars == <<alive, vectors, m_captureLevel, capture_buffer, config, ready, out,
          inits, live, served, shifted, failed, overrun>>

\* capture_buffer before an initialisation, and a level no gain control has set.
NoBuffer == [frames |-> 0, channels |-> 0]
Zero == <<>>

Counts == {c \in Channels : c > 0}
Handles ==
  {"ns", "agc", "rnn"} \X (1 .. MaxInits) \X UNION {1 .. c : c \in Counts}
Owned == Range(m_nsHandles) \cup Range(m_agcHandles) \cup Range(m_rnnoiseHandles)

\* m_frequency and m_channels are indeterminate in a new object, and no
\* function reads them before an initialisation has set them.
Init ==
  /\ alive = TRUE
  /\ m_nsHandles = <<>> /\ m_agcHandles = <<>> /\ m_rnnoiseHandles = <<>>
  /\ m_captureLevel = <<>>
  /\ capture_buffer = NoBuffer
  /\ m_frequency = 0 /\ m_channels = 0 /\ m_doAgc = FALSE
  /\ ready = "none"
  /\ out = <<>>
  /\ inits = 0 /\ live = {} /\ served = {}
  /\ shifted = FALSE /\ failed = FALSE /\ overrun = FALSE

-----------------------------------------------------------------------------
(***************************************************************************)
(* Initialisation.  The loop over the channels creates, for each one, a    *)
(* gain control (if asked for) and a suppressor, and returns at the first  *)
(* call that fails, leaving behind what it has built.  A stop is the       *)
(* channel at which it stopped, c + 1 if it did not, and the call that     *)
(* failed.                                                                 *)
(***************************************************************************)
AgcFailures == {"agcCreate", "agcInit"}
NsFailures == {"nsCreate", "nsInit"}

\* Where a loop over c channels may stop; below one channel it does not begin.
Stops(c, agc, later) ==
  {<<IF c < 0 THEN 1 ELSE c + 1, "no">>}
    \cup (1 .. c) \X (later \cup IF agc THEN AgcFailures ELSE {})

\* The rates WebRtcNs_Init accepts.
NsRates == {8000, 16000, 32000, 48000}

\* Variant: the loop starts at the second channel.
CreatedFromSecond(kind, n, count) == [i \in 1 .. count - 1 |-> <<kind, n, i + 1>>]

Created(kind, n, count) == [i \in 1 .. count |-> <<kind, n, i>>]

\* The gain controls pushed: also the one of the channel at which a later
\* call failed.
AgcCount(agc, stop) ==
  IF ~agc THEN 0 ELSE IF stop[2] \in NsFailures THEN stop[1] ELSE stop[1] - 1

\* A handle that was created but not initialised is in no vector.
Dropped(n, stop) ==
  CASE stop[2] = "agcInit" -> {<<"agc", n, stop[1]>>}
    [] stop[2] = "nsInit" -> {<<"ns", n, stop[1]>>}
    [] OTHER -> {}

\* Variant: the level of a new gain control is not pushed.
LevelsForgotten(levels, count) == levels

LevelsPushed(levels, count) == levels \o [i \in 1 .. count |-> Zero]

\* Variant: re-initialisation frees the old handles, the gain controls that
\* stay in their vector included.
ReleasedOld == live \ (Range(m_nsHandles) \cup Range(m_agcHandles))

\* clear() empties a vector and frees no handle.
AfterClear == live

\* Variant: the channel count is not checked.
AnyCount(c) == TRUE
Valid(c) == c >= 0

\* Variant: the buffer is made for one channel.
MonoBuffer(f, c) == [frames |-> f \div 100, channels |-> 1]
NewBuffer(f, c) == [frames |-> f \div 100, channels |-> c]

\* initNsModule: the suppressors are always replaced, the gain controls only
\* by a session that uses them, the levels never, the buffer only on success.
\* At a rate that is not supported the first channel fails.
initNsModule(f, c, agc) ==
  LET n == inits + 1 IN
  /\ alive /\ ~overrun /\ Valid(c) /\ inits < MaxInits
  /\ m_frequency' = f /\ m_channels' = c /\ m_doAgc' = agc
  /\ inits' = n
  /\ \E stop \in Stops(c, agc, NsFailures) :
       LET newNs == Created("ns", n, stop[1] - 1)
           newAgc == Created("agc", n, AgcCount(agc, stop))
       IN
       /\ c > 0 /\ f \notin NsRates => stop[1] = 1
       /\ m_nsHandles' = newNs
       /\ m_agcHandles' = IF agc THEN newAgc ELSE m_agcHandles
       /\ m_captureLevel' = LevelsPushed(m_captureLevel, Len(newAgc))
       /\ live' = AfterClear \cup Range(newNs) \cup Range(newAgc) \cup Dropped(n, stop)
       /\ IF stop[2] = "no"
            THEN /\ capture_buffer' = NewBuffer(f, c)
                 /\ ready' = "ns"
                 /\ UNCHANGED failed
            ELSE /\ ready' = "none"
                 /\ failed' = TRUE
                 /\ UNCHANGED capture_buffer
  /\ shifted' = (shifted \/ (agc /\ m_captureLevel # <<>>))
  /\ out' = <<>>
  /\ UNCHANGED <<alive, m_rnnoiseHandles, served, overrun>>

\* A negative channel count is refused, but only after it has been stored.
InitNsRefused(f, c, agc) ==
  /\ alive /\ ~overrun /\ ~Valid(c)
  /\ m_frequency' = f /\ m_channels' = c /\ m_doAgc' = agc
  /\ ready' = "none"
  /\ out' = <<>>
  /\ UNCHANGED <<alive, vectors, m_captureLevel, capture_buffer,
                 inits, live, served, shifted, failed, overrun>>

\* Making the buffer for a negative number of channels throws.
BufferThrows(c) == capture_buffer = NoBuffer /\ c < 0

\* initRnnoiseModule at 48000 and 480: clears nothing, so the handles of an
\* earlier session stay in front, and so does its buffer.  The channel count is
\* not checked.
initRnnoiseModule(f, c, agc) ==
  LET n == inits + 1 IN
  /\ alive /\ ~overrun /\ f = 48000 /\ ~BufferThrows(c) /\ inits < MaxInits
  /\ capture_buffer' = IF capture_buffer = NoBuffer
                         THEN NewBuffer(f, c) ELSE capture_buffer
  /\ m_frequency' = f /\ m_channels' = c /\ m_doAgc' = agc
  /\ inits' = n
  /\ \E stop \in Stops(c, agc, {}) :
       LET newRnn == Created("rnn", n, stop[1] - 1)
           newAgc == Created("agc", n, AgcCount(agc, stop))
       IN
       /\ m_rnnoiseHandles' = m_rnnoiseHandles \o newRnn
       /\ m_agcHandles' = m_agcHandles \o newAgc
       /\ m_captureLevel' = LevelsPushed(m_captureLevel, Len(newAgc))
       /\ live' = live \cup Range(newRnn) \cup Range(newAgc) \cup Dropped(n, stop)
       /\ ready' = IF stop[2] = "no" THEN "rnn" ELSE "none"
       /\ failed' = (failed \/ stop[2] # "no")
  /\ out' = <<>>
  /\ UNCHANGED <<alive, m_nsHandles, served, shifted, overrun>>

\* Any other rate or frame length is refused, and the exception leaves, before
\* anything is touched.
InitRnnoiseRefused(f, c) ==
  /\ alive /\ ~overrun
  /\ f # 48000 \/ BufferThrows(c)
  /\ UNCHANGED vars

-----------------------------------------------------------------------------
(***************************************************************************)
(* Processing one interleaved frame in place.                              *)
(***************************************************************************)
\* Sample j of channel i is at i + j * channels.
Deinterleaved(data, channels, n) ==
  [i \in 0 .. channels - 1 |-> [j \in 0 .. n - 1 |-> data[i + j * channels]]]

Interleaved(full, channels, n) ==
  [x \in 0 .. channels * n - 1 |-> full[x % channels][x \div channels]]

\* The caller's frame.
Fresh(channels, n) == [x \in 0 .. channels * n - 1 |-> [from |-> x, stages |-> <<>>]]

\* A loop over the channels: Body(ab, ch) for every channel in turn, if any.
ForChannels(ab, Body(_, _)) ==
  LET after[ch \in 0 .. m_channels] ==
        IF ch = 0 THEN ab ELSE Body(after[ch - 1], ch - 1)
  IN IF m_channels > 0 THEN after[m_channels] ELSE ab

\* The capture buffer once a new frame has been deinterleaved into it.
Loaded(n) ==
  LET full == Deinterleaved(Fresh(m_channels, n), m_channels, n)
      Load(ab, ch) == WithData(ab, ch, full[ch])
  IN ForChannels(AudioBuffer(capture_buffer.frames, capture_buffer.channels, n), Load)

\* What is interleaved back into the caller's frame.
Result(ab, n) ==
  Interleaved([ch \in 0 .. m_channels - 1 |-> Data(ab, ch)], m_channels, n)

\* Splitting and merging are called at these rates only.
SplitRate == m_frequency \in {32000, 48000}
Split(ab) == IF SplitRate THEN SplitIntoFrequencyBands(ab) ELSE ab
Merge(ab) == IF SplitRate THEN MergeFrequencyBands(ab) ELSE ab

AgcOn(ab, ch) == IF m_doAgc THEN OnShorts(ab, ch, "agc") ELSE ab

\* Variant: every channel is given the handles of the first one.
FirstHandle(handles, ch) == handles[1]
HandleOf(handles, ch) == handles[ch + 1]

Used(handles) == {<<HandleOf(handles, ch), ch>> : ch \in 0 .. m_channels - 1}

\* Each gain control's level is kept for its next frame.
LevelsAfter ==
  [i \in DOMAIN m_captureLevel |->
     IF m_doAgc /\ i <= m_channels THEN HandleOf(m_agcHandles, i - 1)
                                   ELSE m_captureLevel[i]]

\* The frame lies inside the buffer, which has the bands of that rate.  Without
\* channels there is no frame, but what is split must still have bands.
Fits ==
  IF m_channels > 0
  THEN /\ capture_buffer.channels >= m_channels
       /\ capture_buffer.frames = m_frequency \div 100
  ELSE SplitRate /\ (ready = "ns" \/ m_doAgc) => capture_buffer.frames \in {320, 480}

\* processCaptureStream, for short and for float samples: gain control, then
\* noise suppression, on the bands, the one as shorts, the other as floats.
processCaptureStream(n) ==
  LET Body(ab, ch) == OnFloats(AgcOn(ab, ch), ch, "ns")
      done == Merge(ForChannels(Split(Loaded(n)), Body))
  IN
  /\ alive /\ ready = "ns" /\ ~overrun /\ Fits
  /\ out' = Result(done, n)
  /\ m_captureLevel' = LevelsAfter
  /\ served' = served \cup Used(m_nsHandles) \cup IF m_doAgc THEN Used(m_agcHandles) ELSE {}
  /\ UNCHANGED <<alive, vectors, capture_buffer, config, ready,
                 inits, live, shifted, failed, overrun>>

\* processUseRnnoise: gain control works on the bands, rnnoise on the full
\* band; the frame is split and merged only if there is gain control.
processUseRnnoise(n) ==
  LET Body(ab, ch) == LET b == AgcOn(ab, ch) IN WithData(b, ch, Through("rnn", Data(b, ch)))
      done == IF m_doAgc THEN Merge(ForChannels(Split(Loaded(n)), Body))
                         ELSE ForChannels(Loaded(n), Body)
  IN
  /\ alive /\ ready = "rnn" /\ ~overrun /\ Fits
  /\ out' = Result(done, n)
  /\ m_captureLevel' = LevelsAfter
  /\ served' = served \cup Used(m_rnnoiseHandles)
                 \cup IF m_doAgc THEN Used(m_agcHandles) ELSE {}
  /\ UNCHANGED <<alive, vectors, capture_buffer, config, ready,
                 inits, live, shifted, failed, overrun>>

\* The frame is written past the end of the buffer; nothing is known of the
\* object from then on.
ProcessOverruns ==
  /\ alive /\ ready # "none" /\ ~overrun /\ ~Fits
  /\ overrun' = TRUE
  /\ UNCHANGED <<alive, vectors, m_captureLevel, capture_buffer, config, ready,
                 out, inits, live, served, shifted, failed>>

Freed == Owned

\* The destructor.
Destroy ==
  /\ alive /\ ~overrun
  /\ alive' = FALSE
  /\ live' = live \ Freed
  /\ UNCHANGED <<vectors, m_captureLevel, capture_buffer, config, ready, out,
                 inits, served, shifted, failed, overrun>>

Next ==
  \/ \E f \in Rates, c \in Channels, agc \in BOOLEAN :
       initNsModule(f, c, agc) \/ InitNsRefused(f, c, agc)
  \/ \E f \in Rates, c \in Channels, agc \in BOOLEAN : initRnnoiseModule(f, c, agc)
  \/ \E f \in Rates, c \in Channels : InitRnnoiseRefused(f, c)
  \/ \E n \in Samples : processCaptureStream(n) \/ processUseRnnoise(n)
  \/ ProcessOverruns
  \/ Destroy

Spec == Init /\ [][Next]_vars

-----------------------------------------------------------------------------
(***************************************************************************)
(* Properties.                                                             *)
(***************************************************************************)
\* Type invariant: the vectors hold handles and the levels come from gain
\* controls.
TypeOK ==
  /\ {alive, m_doAgc, shifted, failed, overrun} \subseteq BOOLEAN
  /\ Owned \cup live \subseteq Handles
  /\ Range(m_captureLevel) \subseteq {Zero} \cup Handles
  /\ capture_buffer \in [frames : Nat, channels : Counts \cup {0}]
  /\ m_frequency \in Rates \cup {0}
  /\ m_channels \in Channels \cup {0}
  /\ ready \in {"none", "ns", "rnn"}
  /\ inits \in 0 .. MaxInits
  /\ served \subseteq Handles \X Nat

\* After an initialisation that returned true, every index the processing loop
\* of that kind uses is inside its vector (apm_ns.cpp 100-118 and 266-288),
\* whatever was initialised before, and also after half-built sessions.
IndicesInRange ==
  /\ ready = "ns" => Len(m_nsHandles) = m_channels
  /\ ready = "rnn" => Len(m_rnnoiseHandles) >= m_channels
  /\ ready # "none" /\ m_doAgc =>
       Len(m_agcHandles) >= m_channels /\ Len(m_captureLevel) >= m_channels

\* The destructor frees no handle twice and no handle that is already free:
\* the vectors hold live handles, each of them once (apm_ns.cpp 312-323).  An
\* object that was initialised once, with success, gives every handle back.
HandlesOwnedOnce ==
  /\ alive =>
       /\ Owned \subseteq live
       /\ Cardinality(Owned) =
            Len(m_nsHandles) + Len(m_agcHandles) + Len(m_rnnoiseHandles)
  /\ ~alive /\ inits <= 1 /\ ~failed => live = {}

\* A handle adapts to the signal of one channel: over the life of the object,
\* re-initialisations included, no handle processes two channels.
OneChannelPerHandle ==
  \A p, q \in served : p[1] = q[1] => p[2] = q[2]

\* Until an initialisation clears m_agcHandles and leaves m_captureLevel, a level
\* is that of the gain control at its place.
LevelsOwn ==
  ~shifted =>
    /\ Len(m_captureLevel) = Len(m_agcHandles)
    /\ \A i \in DOMAIN m_captureLevel : m_captureLevel[i] \in {Zero, m_agcHandles[i]}

\* A level that was set comes from a gain control that worked on the channel of
\* its place.
LevelsOfChannel ==
  \A i \in DOMAIN m_captureLevel :
    m_captureLevel[i] # Zero => <<m_captureLevel[i], i - 1>> \in served

\* The level fed back to a gain control (apm_ns.cpp 108-113) is its own.  Once an
\* initialisation has cleared the handles and kept the levels it may be one of an
\* earlier session, but, however sessions change, only of the same channel.
LevelsFollowHandles == LevelsOwn /\ LevelsOfChannel

\* The stages the header promises for a session.
Promised == (IF m_doAgc THEN <<"agc">> ELSE <<>>)
              \o IF ready = "ns" THEN <<"ns">> ELSE <<"rnn">>

InPlace == \A x \in DOMAIN out : out[x] = [from |-> x, stages |-> Promised]

\* processCaptureStream, and processUseRnnoise without gain control, leave every
\* sample at its place in the interleaved frame and have put it through gain
\* control, if asked for, and then noise reduction (apm_ns.h 27 and 41).
ProcessedInPlace == ~(ready = "rnn" /\ m_doAgc) => InPlace

\* apm_ns.h 68-70 says the same of processUseRnnoise with gain control.
RnnoiseProcessesInPlace == ready = "rnn" => InPlace

\* The first successful initialisation of an object always leaves a buffer its
\* frames fit in; only a buffer kept from an earlier one can be too small.
OverrunNeedsOldBuffer == overrun => inits > 1 /\ ready = "rnn"
=============================================================================

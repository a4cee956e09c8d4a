------------------------------- MODULE HighPass -------------------------------
(***************************************************************************)
(* The high-pass filter of libapm/src/highpass_filter.c: a delay line of   *)
(* COEF_LEN floats, through which filter_int16 and filter_float push the   *)
(* samples of a buffer that they overwrite with the result.                *)
(*                                                                         *)
(* A sample is told by its origin, the stream it belongs to and its number *)
(* there; stream 0 stands for the memory in which the state was allocated. *)
(* An output is the vector of taps that its sum was taken over, tap j with *)
(* coefficient j: the arithmetic of the sum, the clamp and the conversion  *)
(* back to short, in which the two functions differ, are left out.         *)
(***************************************************************************)
EXTENDS Naturals, Sequences

CONSTANTS
  COEF_LEN,    \* taps of the filter, 15 in the code
  SHORT_SIZE,  \* sizeof(short)
  FLOAT_SIZE,  \* sizeof(float)
  MaxStreams,  \* bound: calls of initFilter
  MaxSamples,  \* bound: samples of one stream
  Lengths      \* the values of len

ASSUME FilterAssumption ==
  /\ COEF_LEN \in Nat \ {0} /\ SHORT_SIZE \in Nat \ {0} /\ FLOAT_SIZE \in Nat \ {0}
  /\ SHORT_SIZE <= FLOAT_SIZE
  /\ MaxStreams \in Nat /\ MaxSamples \in Nat /\ Lengths \subseteq Nat

VARIABLES
  w,         \* the delay line
  stream,    \* the stream being filtered, 0 before the first initFilter
  received,  \* samples of it that were given to the filter
  out        \* its output, one vector of taps per sample

filterVars == <<w, stream, received, out>>

Taps == 0 .. COEF_LEN - 1

\* A sample as it was received, and one of which memset has cleared some bytes.
Sample(s, n) == [stream |-> s, n |-> n, whole |-> TRUE]
Silence == [stream |-> 0, n |-> 0, whole |-> TRUE]
Damaged(tap) == IF tap = Silence THEN Silence ELSE [tap EXCEPT !.whole = FALSE]

\* Memory: position j of the state as it was allocated.
Memory(j) == Sample(0, j + 1)
-----------------------------------------------------------------------------
\* The bytes initFilter clears: the size of COEF_LEN shorts, in a line of floats.
ClearedBytes == SHORT_SIZE * COEF_LEN

ClearedTaps == ClearedBytes \div FLOAT_SIZE

\* The delay line after memset: the first taps are zero, one may have lost some
\* of its bytes, and the others are as they were.
Cleared(line) ==
  [j \in Taps |-> IF j < ClearedTaps THEN Silence
                  ELSE IF j * FLOAT_SIZE < ClearedBytes THEN Damaged(line[j])
                  ELSE line[j]]

\* Variant: the loop that moves the taps runs upwards, and smears the first.
ShiftedUpwards(line) == [j \in Taps |-> line[0]]

\* Moves every tap one place on, from the last one down; tap 0 stays as well.
Shifted(line) == [j \in Taps |-> IF j = 0 THEN line[0] ELSE line[j - 1]]

\* The loop over the samples of a buffer: out follows data through the buffer and
\* writes where data has read.
Filtered(line, data) ==
  LET after[i \in 0 .. Len(data)] ==
        IF i = 0 THEN [line |-> line, out |-> <<>>]
        ELSE LET before == after[i - 1]
                 taps == [before.line EXCEPT ![0] = data[i]]
             IN [line |-> Shifted(taps), out |-> Append(before.out, taps)]
  IN after[Len(data)]
-----------------------------------------------------------------------------
FilterInit ==
  /\ w = [j \in Taps |-> Memory(j)]
  /\ stream = 0
  /\ received = 0
  /\ out = <<>>

\* A new stream begins, on new memory or on the state of another stream.
initFilter ==
  /\ stream < MaxStreams
  /\ w' = Cleared(w)
  /\ stream' = stream + 1
  /\ received' = 0
  /\ out' = <<>>

\* filter_int16 and filter_float of len samples.
filter(len) ==
  /\ stream > 0
  /\ received + len <= MaxSamples
  /\ LET done == Filtered(w, [i \in 1 .. len |-> Sample(stream, received + i)])
     IN w' = done.line /\ out' = out \o done.out
  /\ received' = received + len
  /\ UNCHANGED stream

FilterNext == initFilter \/ \E len \in Lengths : filter(len)

FilterSpec == FilterInit /\ [][FilterNext]_filterVars
-----------------------------------------------------------------------------
(***************************************************************************)
(* Properties.                                                             *)
(***************************************************************************)
\* What a tap holds is of the current stream, or nothing.
Own(tap) == tap = Silence \/ tap.stream = stream

\* Output i is the convolution of the stream's own samples i, i - 1, ... with the
\* coefficients, however the stream was cut into buffers.  Behind the first
\* sample the line is silent for ClearedTaps - 1 taps only, because initFilter
\* clears as many bytes as COEF_LEN shorts have: what lies further back is left
\* from the memory or the stream before.  It can be heard in the first
\* COEF_LEN - ClearedTaps outputs, on new memory it is in every tap behind the
\* silence of each of them, and it is in none after them.
OutputIsConvolution ==
  \A i \in DOMAIN out, j \in Taps :
    /\ j < i => out[i][j] = Sample(stream, i - j)
    /\ i <= j /\ j < i + ClearedTaps - 1 => out[i][j] = Silence
    /\ i > COEF_LEN - ClearedTaps => Own(out[i][j])
    /\ stream = 1 /\ i <= j /\ j >= i + ClearedTaps - 1 => ~Own(out[i][j])
=============================================================================
